---------------------------- MODULE RoutingTable ----------------------------
(***************************************************************************)
(* What the writer of the routes table promises to everybody who reads it: *)
(* a row is changed only by an operation submitted for its key, and the    *)
(* operations of a key take effect in the order of their submission.       *)
(* Operations may be skipped (coalesced, or lost with a failed write), so  *)
(* the table may lag, but it never shows a state of a key older than one   *)
(* it has already shown.                                                   *)
(***************************************************************************)
EXTENDS Naturals, Sequences

CONSTANTS Keys,   \* (prefix, peer_ip, host), the UNIQUE columns of routes
          MaxOps, \* bound on the operations submitted in a behaviour
          NoRow   \* the key has no row

VARIABLES log,     \* every operation submitted so far; its index is its identity
          applied, \* per key, the operation the row reflects (0: none yet)
          routes   \* the table: the operation that wrote the row, or NoRow

Kinds == {"Upsert", "Delete"}

\* The row operation n leaves behind.
RowOf(n) == IF log[n].kind = "Upsert" THEN n ELSE NoRow

Init ==
    /\ log = <<>>
    /\ applied = [k \in Keys |-> 0]
    /\ routes \in [Keys -> {0, NoRow}]   \* 0: a row written before

Submit(k, kind) ==
    /\ Len(log) < MaxOps
    /\ log' = Append(log, [key |-> k, kind |-> kind])
    /\ UNCHANGED <<applied, routes>>

\* Any set of keys moves forward to later operations of theirs.
Publish ==
    \E later \in [Keys -> 0..Len(log)] :
        /\ \A k \in Keys :
              \/ later[k] = applied[k]
              \/ later[k] > applied[k] /\ log[later[k]].key = k
        /\ applied' = later
        /\ routes' = [k \in Keys |-> IF later[k] = applied[k] THEN routes[k]
                                     ELSE RowOf(later[k])]
        /\ UNCHANGED log

Next ==
    \/ \E k \in Keys, kind \in Kinds : Submit(k, kind)
    \/ Publish

vars == <<log, applied, routes>>

Spec == Init /\ [][Next]_vars
=============================================================================
