----------------------------- MODULE Detection -----------------------------
(***************************************************************************)
(* crates/detection: prefixes arrive as notifications of the database, are *)
(* collected until there are BIG_BATCH_SIZE of them, and looked up in the  *)
(* table routes in one query; the conflicts found go through a channel to  *)
(* a task that upserts them into moas one by one.                          *)
(*                                                                         *)
(* Three tasks take part: run of DetectionSvc, the listener that polls the *)
(* connection of the LISTEN, and the upserter.  They share the context of  *)
(* the process, which a signal or the end of the listener cancels.  Both   *)
(* channels are unbounded.  No code of the repository sends the            *)
(* notifications.                                                          *)
(***************************************************************************)
EXTENDS Naturals, Sequences, FiniteSets

SX == INSTANCE SequencesExt

CONSTANTS Prefixes, Origins,
          BigBatchSize,  \* BIG_BATCH_SIZE
          BadPayload,    \* a payload that is no prefix
          NoMoas,        \* the upserter is not writing
          MaxNotes, MaxChanges, MaxFaults \* bounds on what the environment does

ASSUME DetectionAssumption ==
    /\ BadPayload \notin Prefixes /\ IsFiniteSet(Origins) /\ BigBatchSize \in Nat \ {0}
    /\ NoMoas \notin [prefix : Prefixes, origins : SUBSET Origins]
    /\ MaxNotes \in Nat /\ MaxChanges \in Nat /\ MaxFaults \in Nat

VARIABLES
    routes,   \* the origins of the prefix in the table routes
    moas,     \* the table: origins per prefix, {} for a prefix without a row
    listener, \* "on", "off"
    rx,       \* notifications forwarded by the listener
    pc,       \* of run: "listen", "recv", "query", "returned", "failed"; "off": no process
    prefixes, \* MoasRoutesFetcher: the prefixes collected
    stream,   \* the channel to the upserter
    upserter, \* "on", "off"
    writing,  \* what the upserter has taken from the channel
    ctxDone,  \* the context is cancelled
    notes, changes, faults, \* history: how many there have been
    owed,     \* history: origins of the prefix in routes ever since it was notified last
    executed, \* history: the conflicts whose upsert the database has executed
    lost      \* history: the prefixes of conflicts lost with a connection

service == <<pc, prefixes>>
upserts == <<upserter, writing, moas, executed, lost>>
vars == <<routes, listener, rx, service, stream, upserts, ctxDone, notes, changes, faults, owed>>

Moas == [prefix : Prefixes, origins : SUBSET Origins]

Init ==
    /\ routes = [p \in Prefixes |-> {}] /\ moas = [p \in Prefixes |-> {}]
    /\ listener = "on" /\ rx = <<>> /\ pc = "listen" /\ prefixes = <<>>
    /\ stream = <<>> /\ upserter = "on" /\ writing = NoMoas /\ ctxDone = FALSE
    /\ notes = 0 /\ changes = 0 /\ faults = 0
    /\ owed = [p \in Prefixes |-> {}] /\ executed = {} /\ lost = {}

Alive == pc # "off"
RunEnded == pc \in {"returned", "failed"}
Fault == faults < MaxFaults /\ faults' = faults + 1

-----------------------------------------------------------------------------
(* The database. *)

\* Ingest changes the routes of a prefix.
Change(p, asns) ==
    /\ Alive /\ changes < MaxChanges /\ changes' = changes + 1
    /\ asns # routes[p] /\ routes' = [routes EXCEPT ![p] = asns]
    /\ owed' = [owed EXCEPT ![p] = @ \cap asns]
    /\ UNCHANGED <<listener, rx, service, stream, upserts, ctxDone, notes, faults>>

\* A notification reaches the listener, which forwards it.
Receive(payload) ==
    /\ Alive /\ ~RunEnded /\ listener = "on" /\ notes < MaxNotes /\ notes' = notes + 1
    /\ rx' = Append(rx, payload)
    /\ owed' = [p \in Prefixes |-> IF p = payload THEN routes[p] ELSE owed[p]]
    /\ UNCHANGED <<routes, listener, service, stream, upserts, ctxDone, changes, faults>>

-----------------------------------------------------------------------------
(* listen_for_bgp_updates: the listener. *)

\* Whether the end of the listener cancels the context.
EndCancelsNot == ctxDone
EndCancels == TRUE

\* The connection fails; or the context is cancelled; or run has ended, which
\* drops the client and with it closes the connection, and drops rx.
ListenerEnds ==
    /\ Alive /\ listener = "on" /\ listener' = "off"
    /\ \/ Fault
       \/ (ctxDone \/ RunEnded) /\ UNCHANGED faults
    /\ ctxDone' = EndCancels
    /\ UNCHANGED <<routes, rx, service, stream, upserts, notes, changes, owed>>

-----------------------------------------------------------------------------
(* run. *)

runRest == <<routes, listener, upserts, ctxDone, notes, changes, owed>>

Listen ==
    /\ pc = "listen"
    /\ \/ pc' = "recv" /\ UNCHANGED faults
       \/ pc' = "failed" /\ Fault
       \/ listener = "off" /\ pc' = "failed" /\ UNCHANGED faults
    /\ UNCHANGED <<runRest, rx, prefixes, stream>>

FullLate(ps) == Len(ps) > BigBatchSize
Full(ps) == Len(ps) >= BigBatchSize

\* rx.recv and the push of fetch.  A payload that is no prefix is skipped.
Recv ==
    /\ pc = "recv" /\ rx # <<>> /\ rx' = Tail(rx)
    /\ prefixes' = IF Head(rx) = BadPayload THEN prefixes ELSE Append(prefixes, Head(rx))
    /\ pc' = IF Head(rx) # BadPayload /\ Full(prefixes') THEN "query" ELSE "recv"
    /\ UNCHANGED <<runRest, stream, faults>>

\* The context is cancelled, or the listener has dropped its sender.
RecvEnds ==
    /\ pc = "recv" /\ (ctxDone \/ (listener = "off" /\ rx = <<>>))
    /\ pc' = "returned"
    /\ UNCHANGED <<runRest, rx, prefixes, stream, faults>>

\* HAVING count(DISTINCT origin) > 1
InConflictLate(asns) == Cardinality(asns) > 2
InConflict(asns) == Cardinality(asns) > 1

\* finish of MoasRoutesFetcher, and the sends, which fail when the upserter has
\* dropped its receiver.
Query ==
    LET found == {p \in SX!ToSet(prefixes) : InConflict(routes[p])}
    IN  /\ pc = "query" /\ prefixes' = <<>>
        /\ \/ /\ upserter = "on" \/ found = {}
              /\ pc' = "recv" /\ UNCHANGED faults
              /\ stream' = stream \o SX!SetToSeq({[prefix |-> p, origins |-> routes[p]] : p \in found})
           \/ upserter = "off" /\ found # {} /\ pc' = "failed" /\ UNCHANGED <<stream, faults>>
           \/ pc' = "failed" /\ Fault /\ UNCHANGED stream
        /\ UNCHANGED <<runRest, rx>>

-----------------------------------------------------------------------------
(* upsert_moas_stream: the upserter. *)

upsertRest == <<routes, listener, rx, service, ctxDone, notes, changes, owed>>

Take ==
    /\ Alive /\ pc # "listen" /\ upserter = "on" /\ writing = NoMoas /\ stream # <<>>
    /\ writing' = Head(stream) /\ stream' = Tail(stream)
    /\ UNCHANGED <<upsertRest, upserter, moas, executed, lost, faults>>

\* The table moas, and the columns upsert_moas gives a value.
NotNull == {"prefix", "origins", "updated_at"}
Defaults == {"https_hosts", "last_scanned_at"}
Inserted == {"prefix", "origins"}
Accepted == NotNull \ Defaults \subseteq Inserted

\* upsert_moas.  A row without a value for a NOT NULL column is refused, also
\* where ON CONFLICT would have updated another one; the error is logged.
Execute ==
    /\ Alive /\ writing # NoMoas /\ writing' = NoMoas
    /\ moas' = IF Accepted THEN [moas EXCEPT ![writing.prefix] = @ \cup writing.origins] ELSE moas
    /\ executed' = executed \cup {writing}
    /\ UNCHANGED <<upsertRest, upserter, lost, stream, faults>>

\* No connection; the error is logged.
ExecuteFails ==
    /\ Alive /\ writing # NoMoas /\ writing' = NoMoas /\ Fault
    /\ lost' = lost \cup {writing.prefix}
    /\ UNCHANGED <<upsertRest, upserter, moas, executed, stream>>

\* The context is cancelled, or run has dropped its sender.  What is left in
\* the channel is dropped with the receiver.
UpserterEnds ==
    /\ Alive /\ upserter = "on" /\ writing = NoMoas
    /\ ctxDone \/ (RunEnded /\ stream = <<>>)
    /\ upserter' = "off" /\ stream' = <<>>
    /\ UNCHANGED <<upsertRest, writing, moas, executed, lost, faults>>

-----------------------------------------------------------------------------
\* SignalSvc.
Signal ==
    /\ Alive /\ ~ctxDone /\ ctxDone' = TRUE
    /\ UNCHANGED <<routes, listener, rx, service, stream, upserts, notes, changes, faults, owed>>

\* The process ends when run has failed, and when run has returned and the
\* context is cancelled: SignalSvc runs until then.  Tasks are not waited for.
Exit ==
    /\ pc = "failed" \/ (pc = "returned" /\ ctxDone)
    /\ pc' = "off"
    /\ UNCHANGED <<runRest, rx, prefixes, stream, faults>>

Run == Listen \/ Recv \/ RecvEnds \/ Query

Next ==
    \/ \E p \in Prefixes, asns \in SUBSET Origins : Change(p, asns)
    \/ \E payload \in Prefixes \cup {BadPayload} : Receive(payload)
    \/ ListenerEnds \/ Run \/ Take \/ Execute \/ ExecuteFails \/ UpserterEnds \/ Signal \/ Exit

\* The tasks are polled and statements return.  Nobody need send a signal, nor
\* need a connection fail.
Fairness ==
    /\ WF_vars(Run) /\ WF_vars(ctxDone /\ ListenerEnds) /\ WF_vars(RunEnded /\ ListenerEnds)
    /\ WF_vars(Take) /\ WF_vars(Execute \/ ExecuteFails) /\ WF_vars(UpserterEnds) /\ WF_vars(Exit)

Spec == Init /\ [][Next]_vars /\ Fairness

-----------------------------------------------------------------------------
(* Properties. *)

TypeOK ==
    /\ routes \in [Prefixes -> SUBSET Origins] /\ moas \in [Prefixes -> SUBSET Origins]
    /\ listener \in {"on", "off"} /\ upserter \in {"on", "off"}
    /\ rx \in Seq(Prefixes \cup {BadPayload}) /\ stream \in Seq(Moas)
    /\ pc \in {"listen", "recv", "query", "returned", "failed", "off"}
    /\ prefixes \in Seq(Prefixes) /\ Len(prefixes) <= BigBatchSize
    /\ writing \in Moas \cup {NoMoas} /\ ctxDone \in BOOLEAN
    /\ notes \in 0..MaxNotes /\ changes \in 0..MaxChanges /\ faults \in 0..MaxFaults
    /\ owed \in [Prefixes -> SUBSET Origins]
    /\ executed \in SUBSET Moas /\ lost \in SUBSET Prefixes

\* A conflict that is in routes ever since its prefix was notified is on its
\* way until an upsert with all its origins is executed: the notification is
\* queued or the prefix collected, or the conflict found is queued, taken or
\* executed.  Only a failed connection, a failed run or a cancelled context
\* interrupt it.
ConflictsCarried ==
    \A p \in Prefixes : Cardinality(owed[p]) > 1 =>
        \/ p \in SX!ToSet(rx) \cup SX!ToSet(prefixes) \cup lost
        \/ \E m \in SX!ToSet(stream) \cup {writing} \cup executed :
              m # NoMoas /\ m.prefix = p /\ owed[p] \subseteq m.origins
        \/ ctxDone \/ pc \in {"failed", "off"}

\* The end of the listener, of run, or a signal ends the process: it does not
\* stay without a subscription.
EndsTogether == (listener = "off" \/ RunEnded \/ ctxDone) ~> ~Alive

\* A conflict whose upsert was executed is in moas.
ExecutedIsStored == \A m \in executed : m.origins \subseteq moas[m.prefix]
=============================================================================
