------------------------------ MODULE MCIngest ------------------------------
(* Ingest with one row and two kinds of message: a withdrawal, and an         *)
(* announcement of the prefix with two next hops, which are two upserts.      *)
EXTENDS Ingest

CONSTANTS k1

MCMessages ==
    {<<[key |-> k1, kind |-> "Delete"]>>,
     <<[key |-> k1, kind |-> "Upsert"], [key |-> k1, kind |-> "Upsert"]>>}
=============================================================================
