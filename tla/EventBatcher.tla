---------------------------- MODULE EventBatcher ----------------------------
(***************************************************************************)
(* crates/db/src/batcher/events.rs: the writer of the events table in      *)
(* ClickHouse.  The owner of an EventBatcher sends events over a bounded   *)
(* channel to a task that select!s between the next event, a timer that    *)
(* commits the rows written so far, and the end of its context.            *)
(*                                                                         *)
(* Events are numbered in the order of their submission.                   *)
(***************************************************************************)
EXTENDS Naturals, Sequences, Functions

CONSTANTS ChannelCap, \* capacity of the channel of events
          MaxEvents   \* bound on the events submitted in a behaviour

ASSUME EventBatcherAssumption == ChannelCap \in Nat \ {0} /\ MaxEvents \in Nat

VARIABLES
    submitted, \* history: the number of events submitted
    outbox,    \* the event insert() is sending, a sequence of at most one
    queue,     \* the channel between the owner and the task
    rows,      \* the rows written to the inserter and not committed
    stored,    \* the events table
    borked,    \* a write returned an error and the inserter was not replaced
    task,      \* "running", "stopped" or "panicked"
    owner,     \* "open", "sending" (in insert), "ending" (in end), "ended", "dropped"
    cancelled, \* the task's context is cancelled
    lost,      \* history: events that will never be stored
    failed     \* history: the inserter returned an error

vars == <<submitted, outbox, queue, rows, stored, borked, task, owner, cancelled, lost, failed>>

Init ==
    /\ submitted = 0
    /\ outbox = <<>> /\ queue = <<>> /\ rows = <<>> /\ stored = <<>>
    /\ borked = FALSE /\ task = "running" /\ owner = "open" /\ cancelled = FALSE
    /\ lost = {} /\ failed = FALSE

-----------------------------------------------------------------------------
(* The owner. *)

Insert ==
    /\ owner = "open" /\ submitted < MaxEvents
    /\ submitted' = submitted + 1 /\ outbox' = <<submitted'>> /\ owner' = "sending"
    /\ UNCHANGED <<queue, rows, stored, borked, task, cancelled, lost, failed>>

HasRoomAlways == TRUE
HasRoom == Len(queue) < ChannelCap
ReceiverGoneNever == FALSE
ReceiverGone == task # "running"

\* insert: send().await completes once the channel has room ...
Sent ==
    /\ owner = "sending" /\ ~ReceiverGone /\ HasRoom
    /\ queue' = queue \o outbox
    /\ outbox' = <<>> /\ owner' = "open"
    /\ UNCHANGED <<submitted, rows, stored, borked, task, cancelled, lost, failed>>

\* ... or fails when the receiver is gone: insert returns an error.
Refused ==
    /\ owner = "sending" /\ ReceiverGone
    /\ lost' = lost \cup Range(outbox)
    /\ outbox' = <<>> /\ owner' = "open"
    /\ UNCHANGED <<submitted, queue, rows, stored, borked, task, cancelled, failed>>

\* end: cancels the task's context and waits for the task.
End ==
    /\ owner = "open"
    /\ owner' = "ending" /\ cancelled' = TRUE
    /\ UNCHANGED <<submitted, outbox, queue, rows, stored, borked, task, lost, failed>>

EndReturns ==
    /\ owner = "ending" /\ task # "running"
    /\ owner' = "ended"
    /\ UNCHANGED <<submitted, outbox, queue, rows, stored, borked, task, cancelled, lost, failed>>

\* The owner returns early with an error and drops the batcher without end.
\* Dropping the handler may cancel the context.
Drop ==
    /\ owner = "open"
    /\ owner' = "dropped" /\ cancelled' \in {cancelled, TRUE}
    /\ UNCHANGED <<submitted, outbox, queue, rows, stored, borked, task, lost, failed>>

ParentCancelled ==
    /\ ~cancelled /\ cancelled' = TRUE
    /\ UNCHANGED <<submitted, outbox, queue, rows, stored, borked, task, owner, lost, failed>>

-----------------------------------------------------------------------------
(* The task: one action per branch of its select!.                         *)
(*                                                                         *)
(* The inserter is the clickhouse crate's: a write that returns an error   *)
(* aborts the INSERT under way, and until a commit begins a new one every  *)
(* further write returns an error again or panics.                         *)

NextEventLast == queue[Len(queue)]
NextEvent == Head(queue)
Rest == Tail(queue)

\* recv yielded an event, and inserter.write takes it.
Write ==
    /\ task = "running" /\ queue # <<>> /\ ~borked
    /\ rows' = Append(rows, NextEvent) /\ queue' = Rest
    /\ UNCHANGED <<submitted, outbox, stored, borked, task, owner, cancelled, lost, failed>>

\* inserter.write returns an error, which is only logged.
WriteFails ==
    /\ task = "running" /\ queue # <<>>
    /\ lost' = lost \cup {NextEvent} \cup Range(rows) /\ queue' = Rest
    /\ rows' = <<>> /\ borked' = TRUE /\ failed' = TRUE
    /\ UNCHANGED <<submitted, outbox, stored, task, owner, cancelled>>

\* Or panics: the task is gone, its receiver and its inserter with it, and end
\* will return an error.
WritePanics ==
    /\ task = "running" /\ queue # <<>> /\ borked
    /\ task' = "panicked"
    /\ lost' = lost \cup Range(queue) \cup Range(rows)
    /\ queue' = <<>> /\ rows' = <<>>
    /\ UNCHANGED <<submitted, outbox, stored, borked, owner, cancelled, failed>>

\* The rows that stay in the inserter after it was told to store them.
RowsLeftAll == rows
RowsLeft == <<>>

\* The inserter's limits: a period bounds the age of its rows, so that any row
\* falls due; a begun INSERT is also replaced.
CommitDueWhenFull == Len(rows) >= ChannelCap
CommitDue == rows # <<>> \/ borked

\* A tick that finds the period over or the inserter full: commit ends the
\* INSERT and the next write begins another one.
Commit ==
    /\ task = "running" /\ CommitDue
    /\ stored' = stored \o rows /\ rows' = RowsLeft /\ borked' = FALSE
    /\ UNCHANGED <<submitted, outbox, queue, task, owner, cancelled, lost, failed>>

\* commit returns an error: some rows may be stored, nothing is retried and the
\* inserter is replaced.
CommitFails ==
    /\ task = "running" /\ CommitDue
    /\ \E n \in 0..Len(rows) :
          /\ stored' = stored \o SubSeq(rows, 1, n)
          /\ lost' = lost \cup Range(SubSeq(rows, n + 1, Len(rows)))
    /\ rows' = RowsLeft /\ borked' = FALSE /\ failed' = TRUE
    /\ UNCHANGED <<submitted, outbox, queue, task, owner, cancelled>>

MayStopWhenIdle == cancelled \/ queue = <<>>
MayStop == cancelled

\* ctx.done: inserter.end stores the rows written so far and the task breaks
\* out of its loop; the events still in the channel are dropped with it.
Done ==
    /\ task = "running" /\ MayStop
    /\ task' = "stopped"
    /\ stored' = stored \o rows
    /\ lost' = lost \cup Range(queue)
    /\ queue' = <<>> /\ rows' = <<>>
    /\ UNCHANGED <<submitted, outbox, borked, owner, cancelled, failed>>

DoneFails ==
    /\ task = "running" /\ MayStop
    /\ task' = "stopped"
    /\ \E n \in 0..Len(rows) :
          /\ stored' = stored \o SubSeq(rows, 1, n)
          /\ lost' = lost \cup Range(queue) \cup Range(SubSeq(rows, n + 1, Len(rows)))
    /\ queue' = <<>> /\ rows' = <<>> /\ failed' = TRUE
    /\ UNCHANGED <<submitted, outbox, borked, owner, cancelled>>

-----------------------------------------------------------------------------
Next ==
    \/ Insert \/ Sent \/ Refused \/ End \/ EndReturns \/ Drop \/ ParentCancelled
    \/ Write \/ WriteFails \/ WritePanics \/ Commit \/ CommitFails \/ Done \/ DoneFails

\* The runtime polls ready futures, and select! picks among its ready branches
\* at random: none of them is passed over forever.  The timer goes on, so rows
\* do not stay uncommitted longer than the inserter's period.
Fairness ==
    /\ WF_vars(Sent) /\ WF_vars(Refused) /\ WF_vars(EndReturns)
    /\ WF_vars(Write \/ WriteFails \/ WritePanics)
    /\ WF_vars(Commit \/ CommitFails)
    /\ WF_vars(Done \/ DoneFails)

Spec == Init /\ [][Next]_vars /\ Fairness

-----------------------------------------------------------------------------
(* Properties. *)

TypeOK ==
    /\ submitted \in 0..MaxEvents
    /\ outbox \in Seq(1..submitted) /\ Len(outbox) <= 1
    /\ queue \in Seq(1..submitted) /\ Len(queue) <= ChannelCap
    /\ rows \in Seq(1..submitted) /\ stored \in Seq(1..submitted)
    /\ borked \in BOOLEAN /\ cancelled \in BOOLEAN /\ failed \in BOOLEAN
    /\ task \in {"running", "stopped", "panicked"}
    /\ owner \in {"open", "sending", "ending", "ended", "dropped"}
    /\ lost \in SUBSET (1..submitted)

\* The events stored and on their way, the oldest first.
Pipeline == stored \o rows \o queue \o outbox

\* No event is stored twice, and the events that are stored are so in the order
\* in which they were submitted, whatever fails in between.
AtMostOnceInOrder ==
    \A i, j \in DOMAIN Pipeline : i < j => Pipeline[i] < Pipeline[j]

\* Every event submitted is on its way, stored or on record as lost, not both.
Accounted ==
    /\ Range(Pipeline) \cup lost = 1..submitted
    /\ Range(Pipeline) \cap lost = {}

\* While ClickHouse answers and the service runs, no event is lost and the task
\* goes on receiving.
LossNeedsFault == lost # {} \/ task # "running" => failed \/ cancelled

\* An event the channel accepted is stored, or its loss is on record.
AcceptedEventsLand ==
    \A n \in 1..MaxEvents : n \in Range(queue) ~> n \in Range(stored) \cup lost
=============================================================================
