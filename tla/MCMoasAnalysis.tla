--------------------------- MODULE MCMoasAnalysis ---------------------------
(* An instance of MoasAnalysis for TLC. *)
EXTENDS MoasAnalysis

CONSTANTS p, q, r, a, b, c

MCPrefixes == {p, q, r}
MCV4 == {p, q}
MCKeys == {p} \X {1, 2}

\* Two origins, the second also behind the first, and an AS set of both.
Rows == <<NoRow, [origins |-> {a}, ases |-> {a}], [origins |-> {b}, ases |-> {b}],
          [origins |-> {b}, ases |-> {a, b}], [origins |-> {a, b}, ases |-> {}]>>
MCPaths == {Rows[i] : i \in 2..5}

\* All the tables, of two that differ in the names of the sessions only one:
\* nothing tells the sessions apart.
MCTables == {[k \in MCKeys |-> Rows[i[k[2]]]] : i \in {j \in (1..5) \X (1..5) : j[1] <= j[2]}}

\* Three prefixes are in moas and not scanned, the third one an IPv6 prefix.
MCEarlier == [x \in MCPrefixes |-> {a, c}]
=============================================================================
