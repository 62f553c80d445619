------------------------------- MODULE Ingest -------------------------------
(***************************************************************************)
(* The live part of the ingest service: the main loop of IngestSvc::run    *)
(* (crates/ingest/src/service.rs:80-104), handle_message                   *)
(* (service/handler.rs) and the two batchers it owns, EventBatcher and     *)
(* RoutesBatcher, which run their own tasks.  The main loop is their       *)
(* owner, so it takes their owner's steps, one call at a time.             *)
(*                                                                         *)
(* A message is the sequence of route operations handle_message derives    *)
(* from it (UpdateHandling says which); the task that follows RIS Live     *)
(* (RisWatcher) is the environment that fills the channel of messages.     *)
(***************************************************************************)
EXTENDS Naturals, Sequences

CONSTANTS Keys, NoRow,     \* see RoutesBatcher
          Messages,        \* sequences of [key, kind], kind "Upsert" or "Delete"
          MaxMessages,     \* bound on the messages of a behaviour
          RisCap,          \* capacity of the channel of messages
          EventCap,        \* capacity of EventBatcher's channel
          SmallBatchSize,  \* see RoutesBatcher
          BatchCap,        \* capacity of RoutesBatcher's channel
          MaxOps           \* bound on operations, never reached: see OpsFit

ASSUME IngestAssumption ==
    /\ EventCap \in Nat \ {0} /\ BatchCap \in Nat \ {0} /\ SmallBatchSize \in Nat \ {0}
    /\ MaxOps \in Nat /\ NoRow \notin Nat
    /\ Messages \subseteq Seq([key : Keys, kind : {"Upsert", "Delete"}])

\* The bound on operations leaves room for every message.
ASSUME OpsFit == \A m \in Messages : Len(m) * MaxMessages <= MaxOps

VARIABLES
    ctxDone,  \* the service's context is cancelled
    inbox,    \* ris_rx, the channel of messages
    arrived,  \* history: the number of messages put into it
    pc,       \* of the main loop: "recv", "item" (next operation of a message),
              \* "event" (in event_batcher.insert), "route" (about to call and in
              \* route_batcher.upsert or delete), "endEvents", "endRoutes", "returned"
    items,    \* operations of the message being handled that are not done
    aborted,  \* history: operations given up with an error of handle_message
    refused,  \* history: events the event batcher did not accept
    eventOf   \* history: for each operation submitted to the route batcher, its event

main == <<ctxDone, inbox, arrived, pc, items, aborted, refused, eventOf>>

VARIABLES submitted, evOutbox, queue, rows, stored, borked, evTask, evOwner, evCancelled,
          evLost, evFailed

Events == INSTANCE EventBatcher
    WITH ChannelCap <- EventCap, MaxEvents <- MaxOps, outbox <- evOutbox, task <- evTask,
         owner <- evOwner, cancelled <- evCancelled, lost <- evLost, failed <- evFailed

VARIABLES log, operations, rtOutbox, batches, inflight, rtTask, rtOwner, rtCancelled, routes,
          applied, rtLost, dbFailed

Routes == INSTANCE RoutesBatcher
    WITH ChannelCap <- BatchCap, outbox <- rtOutbox, task <- rtTask, owner <- rtOwner,
         cancelled <- rtCancelled, lost <- rtLost

eventVars == <<submitted, evOutbox, queue, rows, stored, borked, evTask, evOwner, evCancelled,
               evLost, evFailed>>
routeVars == <<log, operations, rtOutbox, batches, inflight, rtTask, rtOwner, rtCancelled,
               routes, applied, rtLost, dbFailed>>
vars == <<main, eventVars, routeVars>>

Init ==
    /\ ctxDone = FALSE /\ inbox = <<>> /\ arrived = 0
    /\ pc = "recv" /\ items = <<>> /\ aborted = <<>> /\ refused = {} /\ eventOf = <<>>
    /\ Events!Init /\ Routes!Init

-----------------------------------------------------------------------------
(* The environment and the context. *)

\* The watcher sends a message, as long as the main loop holds the receiver.
Arrive ==
    /\ arrived < MaxMessages /\ Len(inbox) < RisCap /\ pc # "returned"
    /\ \E m \in Messages : inbox' = Append(inbox, m)
    /\ arrived' = arrived + 1
    /\ UNCHANGED <<ctxDone, pc, items, aborted, refused, eventOf, eventVars, routeVars>>

\* A signal, or the watcher giving up, cancels the service's context.
Shutdown ==
    /\ ~ctxDone /\ ctxDone' = TRUE
    /\ UNCHANGED <<inbox, arrived, pc, items, aborted, refused, eventOf, eventVars, routeVars>>

\* The contexts of the two tasks are its children; each learns of it on its own.
EventsCtxDone == ctxDone /\ Events!ParentCancelled /\ UNCHANGED <<main, routeVars>>
RoutesCtxDone == ctxDone /\ Routes!ParentCancelled /\ UNCHANGED <<main, eventVars>>

\* The branches of the event task's select!, and the steps of the route task.
EventsWrite == /\ Events!Write \/ Events!WriteFails \/ Events!WritePanics
               /\ UNCHANGED <<main, routeVars>>
EventsCommit == (Events!Commit \/ Events!CommitFails) /\ UNCHANGED <<main, routeVars>>
EventsDone == (Events!Done \/ Events!DoneFails) /\ UNCHANGED <<main, routeVars>>

RoutesRecv == Routes!Recv /\ UNCHANGED <<main, eventVars>>
RoutesWrite == /\ Routes!Upserts \/ Routes!Deletes \/ Routes!SendBatchFails
               /\ UNCHANGED <<main, eventVars>>
RoutesStop == Routes!TaskStops /\ UNCHANGED <<main, eventVars>>

-----------------------------------------------------------------------------
(* The main loop. *)

\* ris_rx.recv() yields a message; handle_message begins.
Recv ==
    /\ pc = "recv" /\ inbox # <<>>
    /\ items' = Head(inbox) /\ inbox' = Tail(inbox) /\ pc' = "item"
    /\ UNCHANGED <<ctxDone, arrived, aborted, refused, eventOf, eventVars, routeVars>>

\* handle_message returns Ok.
Handled ==
    /\ pc = "item" /\ items = <<>>
    /\ pc' = "recv"
    /\ UNCHANGED <<ctxDone, inbox, arrived, items, aborted, refused, eventOf, eventVars, routeVars>>

\* The event of an announcement or withdrawal is sent first.
InsertEvent ==
    /\ pc = "item" /\ items # <<>>
    /\ Events!Insert /\ pc' = "event"
    /\ UNCHANGED <<ctxDone, inbox, arrived, items, aborted, refused, eventOf, routeVars>>

EventInserted ==
    /\ pc = "event"
    /\ Events!Sent /\ pc' = "route"
    /\ UNCHANGED <<ctxDone, inbox, arrived, items, aborted, refused, eventOf, routeVars>>

\* An error of handle_message is logged; the rest of the message is given up.
GiveUpItems ==
    /\ aborted' = aborted \o items /\ items' = <<>> /\ pc' = "recv"
    /\ UNCHANGED <<ctxDone, inbox, arrived, eventOf>>

\* As if the error of insert was only logged.
GoOnWithRoute ==
    /\ pc' = "route"
    /\ UNCHANGED <<ctxDone, inbox, arrived, items, aborted, eventOf>>

AfterRefusalGoesOn == GoOnWithRoute
AfterRefusal == GiveUpItems
EventRefused ==
    /\ pc = "event" /\ Events!Refused /\ AfterRefusal
    /\ refused' = refused \cup {submitted}
    /\ UNCHANGED routeVars

\* Then the route is upserted or deleted: the call that fills a batch goes on to
\* send it, every other one returns at once.
RouteItem ==
    /\ pc = "route" /\ items # <<>> /\ rtOwner = "open"
    /\ Routes!Insert(Head(items).key, Head(items).kind)
    /\ eventOf' = Append(eventOf, submitted)
    /\ items' = Tail(items)
    /\ pc' = IF rtOwner' = "open" THEN "item" ELSE "route"
    /\ UNCHANGED <<ctxDone, inbox, arrived, aborted, refused, eventVars>>

BatchSent ==
    /\ pc = "route" /\ Routes!BatchSent /\ pc' = "item"
    /\ UNCHANGED <<ctxDone, inbox, arrived, items, aborted, refused, eventOf, eventVars>>

BatchRefused ==
    pc = "route" /\ Routes!BatchRefused /\ GiveUpItems /\ UNCHANGED <<refused, eventVars>>

\* recv().with_context(&ctx) ends the loop, whether or not messages are left.
LoopEnds ==
    /\ pc = "recv" /\ ctxDone
    /\ Events!End /\ pc' = "endEvents"
    /\ UNCHANGED <<ctxDone, inbox, arrived, items, aborted, refused, eventOf, routeVars>>

\* event_batcher.end() returned, and route_batcher.end() is called ...
EventsEnded ==
    /\ pc = "endEvents" /\ evTask = "stopped" /\ Events!EndReturns
    /\ Routes!End /\ pc' = "endRoutes"
    /\ UNCHANGED <<ctxDone, inbox, arrived, items, aborted, refused, eventOf>>

\* ... unless the first task had panicked: run returns the error and drops the
\* route batcher.
EventsEndFails ==
    /\ pc = "endEvents" /\ evTask = "panicked" /\ Events!EndReturns
    /\ Routes!Drop /\ pc' = "returned"
    /\ UNCHANGED <<ctxDone, inbox, arrived, items, aborted, refused, eventOf>>

RoutesEnded ==
    /\ pc = "endRoutes" /\ Routes!EndReturns /\ pc' = "returned"
    /\ UNCHANGED <<ctxDone, inbox, arrived, items, aborted, refused, eventOf, eventVars>>

-----------------------------------------------------------------------------
MainLoop ==
    \/ Recv \/ Handled \/ InsertEvent \/ EventInserted \/ EventRefused
    \/ RouteItem \/ BatchSent \/ BatchRefused
    \/ LoopEnds \/ EventsEnded \/ EventsEndFails \/ RoutesEnded

Next ==
    \/ MainLoop
    \/ Arrive \/ Shutdown \/ EventsCtxDone \/ RoutesCtxDone
    \/ EventsWrite \/ EventsCommit \/ EventsDone
    \/ RoutesRecv \/ RoutesWrite \/ RoutesStop

\* Each of the three tasks is polled, and a cancellation reaches the contexts
\* below; nothing is assumed of the databases but that a call to them returns.
Fairness ==
    /\ WF_vars(MainLoop) /\ WF_vars(EventsCtxDone) /\ WF_vars(RoutesCtxDone)
    /\ WF_vars(EventsWrite) /\ WF_vars(EventsCommit) /\ WF_vars(EventsDone)
    /\ WF_vars(RoutesRecv) /\ WF_vars(RoutesWrite) /\ WF_vars(RoutesStop)

Spec == Init /\ [][Next]_vars /\ Fairness

-----------------------------------------------------------------------------
(* Properties. *)

\* The table never runs ahead of the events: an operation is submitted for it
\* only after its own event was accepted, one event per operation and in the
\* same order, and while ClickHouse answers that event is not lost.
TableBackedByEvents ==
    /\ \A i, j \in DOMAIN eventOf : i < j => eventOf[i] < eventOf[j]
    /\ \A i \in DOMAIN eventOf :
          /\ eventOf[i] \notin refused
          /\ eventOf[i] \in evLost => evFailed \/ evCancelled

\* An operation of a message that was received is given up only when ClickHouse
\* failed or the service shuts down.  A database that refuses every batch, or is
\* slow enough to fill the channels, never makes handle_message fail.
AbortNeedsFault == aborted # <<>> => evFailed \/ ctxDone

\* handle_message returns: no combination of full channels, failing databases
\* and tasks that stop keeps the main loop waiting forever.
HandleReturns == pc \in {"item", "event", "route"} ~> pc = "recv"

\* A shutdown completes, in whatever call it finds the three tasks.
ShutdownCompletes == ctxDone ~> pc = "returned"
=============================================================================
