---------------------------- MODULE IngestProofs ----------------------------
(***************************************************************************)
(* Theorems about Ingest, for all capacities, sizes of a batch and any     *)
(* number of messages.  Ingest takes only steps that its two batchers      *)
(* allow, so that what is proved of them in EventBatcherProofs and         *)
(* RoutesBatcherProofs holds of them here; the properties of the main loop *)
(* follow from that and from where the loop is in its handling.            *)
(***************************************************************************)
EXTENDS Ingest, SequenceTheorems, TLAPS

EventProofs == INSTANCE EventBatcherProofs
    WITH ChannelCap <- EventCap, MaxEvents <- MaxOps, outbox <- evOutbox, task <- evTask,
         owner <- evOwner, cancelled <- evCancelled, lost <- evLost, failed <- evFailed

RouteProofs == INSTANCE RoutesBatcherProofs
    WITH ChannelCap <- BatchCap, outbox <- rtOutbox, task <- rtTask, owner <- rtOwner,
         cancelled <- rtCancelled, lost <- rtLost

-----------------------------------------------------------------------------
(* The batchers inside of ingest. *)

Operation == [key : Keys, kind : {"Upsert", "Delete"}]

\* What the main loop has in hand are operations.
MessageTypes == inbox \in Seq(Messages) /\ items \in Seq(Operation)

LEMMA NextMessageTypes == MessageTypes /\ [Next]_vars => MessageTypes'
<1> SUFFICES ASSUME MessageTypes, [Next]_vars PROVE MessageTypes'
  OBVIOUS
<1>0. Messages \subseteq Seq(Operation)
  BY IngestAssumption DEF Operation
<1>1. CASE Arrive
  BY <1>1 DEF Arrive, MessageTypes
<1>2. CASE Recv
  <2>1. Head(inbox) \in Messages /\ Tail(inbox) \in Seq(Messages)
    BY <1>2 DEF Recv, MessageTypes
  <2> QED BY <1>0, <1>2, <2>1 DEF Recv, MessageTypes
<1>3. CASE RouteItem
  <2>1. Tail(items) \in Seq(Operation)
    BY <1>3 DEF RouteItem, MessageTypes
  <2> QED BY <1>3, <2>1 DEF RouteItem, MessageTypes
<1>4. CASE EventRefused \/ BatchRefused
  <2>1. inbox' = inbox /\ items' = <<>>
    BY <1>4 DEF EventRefused, BatchRefused, AfterRefusal, GiveUpItems
  <2> QED BY <2>1 DEF MessageTypes
<1>5. CASE Handled \/ InsertEvent \/ EventInserted \/ BatchSent \/ LoopEnds \/ EventsEnded
           \/ EventsEndFails \/ RoutesEnded
  BY <1>5 DEF Handled, InsertEvent, EventInserted, BatchSent, LoopEnds, EventsEnded,
              EventsEndFails, RoutesEnded, MessageTypes
<1>6. CASE \/ Shutdown \/ EventsCtxDone \/ RoutesCtxDone \/ EventsWrite \/ EventsCommit
           \/ EventsDone \/ RoutesRecv \/ RoutesWrite \/ RoutesStop \/ UNCHANGED vars
  BY <1>6 DEF Shutdown, EventsCtxDone, RoutesCtxDone, EventsWrite, EventsCommit, EventsDone,
              RoutesRecv, RoutesWrite, RoutesStop, vars, main, MessageTypes
<1> QED BY <1>1, <1>2, <1>3, <1>4, <1>5, <1>6 DEF Next, MainLoop

LEMMA EventStep == [Next]_vars => [Events!Next]_(Events!vars)
<1> SUFFICES ASSUME [Next]_vars PROVE Events!Next \/ UNCHANGED Events!vars
  OBVIOUS
<1>1. ASSUME UNCHANGED eventVars PROVE UNCHANGED Events!vars
  BY <1>1 DEF eventVars, Events!vars
<1>2. CASE \/ Arrive \/ Shutdown \/ RoutesCtxDone \/ RoutesRecv \/ RoutesWrite \/ RoutesStop
           \/ Recv \/ Handled \/ RouteItem \/ BatchSent \/ BatchRefused \/ RoutesEnded
           \/ UNCHANGED vars
  <2>1. UNCHANGED eventVars
    BY <1>2 DEF Arrive, Shutdown, RoutesCtxDone, RoutesRecv, RoutesWrite, RoutesStop, Recv,
                Handled, RouteItem, BatchSent, BatchRefused, RoutesEnded, vars
  <2> QED BY <1>1, <2>1
<1>3. CASE EventsCtxDone \/ EventsWrite \/ EventsCommit \/ EventsDone
  BY <1>3 DEF EventsCtxDone, EventsWrite, EventsCommit, EventsDone, Events!Next
<1>4. CASE InsertEvent \/ EventInserted \/ EventRefused \/ LoopEnds \/ EventsEnded
           \/ EventsEndFails
  BY <1>4 DEF InsertEvent, EventInserted, EventRefused, LoopEnds, EventsEnded, EventsEndFails,
              Events!Next
<1> QED BY <1>2, <1>3, <1>4 DEF Next, MainLoop

LEMMA RouteStep == MessageTypes /\ [Next]_vars => [Routes!Next]_(Routes!vars)
<1> SUFFICES ASSUME MessageTypes, [Next]_vars PROVE Routes!Next \/ UNCHANGED Routes!vars
  OBVIOUS
<1>1. ASSUME UNCHANGED routeVars PROVE UNCHANGED Routes!vars
  BY <1>1 DEF routeVars, Routes!vars, Routes!history
<1>2. CASE \/ Arrive \/ Shutdown \/ EventsCtxDone \/ EventsWrite \/ EventsCommit \/ EventsDone
           \/ Recv \/ Handled \/ InsertEvent \/ EventInserted \/ EventRefused \/ LoopEnds
           \/ UNCHANGED vars
  <2>1. UNCHANGED routeVars
    BY <1>2 DEF Arrive, Shutdown, EventsCtxDone, EventsWrite, EventsCommit, EventsDone, Recv,
                Handled, InsertEvent, EventInserted, EventRefused, LoopEnds, vars
  <2> QED BY <1>1, <2>1
<1>3. CASE RouteItem
  <2>1. Head(items) \in Operation
    BY <1>3 DEF RouteItem, MessageTypes
  <2>2. Head(items).key \in Keys /\ Head(items).kind \in Routes!Kinds
    BY <2>1 DEF Operation, Routes!Kinds
  <2> QED BY <1>3, <2>2 DEF RouteItem, Routes!Next
<1>4. CASE RoutesCtxDone \/ RoutesRecv \/ RoutesWrite \/ RoutesStop
  BY <1>4 DEF RoutesCtxDone, RoutesRecv, RoutesWrite, RoutesStop, Routes!Next
<1>5. CASE BatchSent \/ BatchRefused \/ EventsEnded \/ EventsEndFails \/ RoutesEnded
  BY <1>5 DEF BatchSent, BatchRefused, EventsEnded, EventsEndFails, RoutesEnded, Routes!Next
<1> QED BY <1>2, <1>3, <1>4, <1>5 DEF Next, MainLoop

LEMMA TypesHold == Spec => []MessageTypes
<1>1. Init => MessageTypes
  BY DEF Init, MessageTypes
<1> QED BY <1>1, NextMessageTypes, PTL DEF Spec

\* Ingest and the proofs speak of one EventBatcher and of one RoutesBatcher.
LEMMA SameEvents ==
  /\ Events!Init <=> EventProofs!Init
  /\ Events!Next <=> EventProofs!Next
  /\ UNCHANGED Events!vars <=> UNCHANGED EventProofs!vars
<1>1. /\ Events!Init <=> EventProofs!Init
      /\ UNCHANGED Events!vars <=> UNCHANGED EventProofs!vars
  BY DEF Events!Init, Events!vars, EventProofs!Init, EventProofs!vars
<1>2. /\ Events!Insert <=> EventProofs!Insert
      /\ Events!Sent <=> EventProofs!Sent
      /\ Events!Refused <=> EventProofs!Refused
  BY DEF Events!Range, EventProofs!Range, Events!Insert, Events!Sent, Events!Refused,
     Events!HasRoom,
         Events!ReceiverGone, EventProofs!Insert, EventProofs!Sent, EventProofs!Refused,
         EventProofs!HasRoom, EventProofs!ReceiverGone
<1>3. /\ Events!End <=> EventProofs!End
      /\ Events!EndReturns <=> EventProofs!EndReturns
      /\ Events!Drop <=> EventProofs!Drop
      /\ Events!ParentCancelled <=> EventProofs!ParentCancelled
  BY DEF Events!End, Events!EndReturns, Events!Drop, Events!ParentCancelled,
         EventProofs!End, EventProofs!EndReturns, EventProofs!Drop,
         EventProofs!ParentCancelled
<1>4. /\ Events!Write <=> EventProofs!Write
      /\ Events!WriteFails <=> EventProofs!WriteFails
      /\ Events!WritePanics <=> EventProofs!WritePanics
  BY DEF Events!Range, EventProofs!Range, Events!Write, Events!WriteFails, Events!WritePanics,
     Events!NextEvent,
         Events!Rest, EventProofs!Write, EventProofs!WriteFails,
         EventProofs!WritePanics, EventProofs!NextEvent, EventProofs!Rest
<1>5. /\ Events!Commit <=> EventProofs!Commit
      /\ Events!CommitFails <=> EventProofs!CommitFails
      /\ Events!Done <=> EventProofs!Done
      /\ Events!DoneFails <=> EventProofs!DoneFails
  BY DEF Events!Range, EventProofs!Range, Events!Commit, Events!CommitFails, Events!Done,
     Events!DoneFails,
         Events!RowsLeft, Events!CommitDue, Events!MayStop, EventProofs!Commit,
         EventProofs!CommitFails, EventProofs!Done, EventProofs!DoneFails,
         EventProofs!RowsLeft, EventProofs!CommitDue, EventProofs!MayStop
<1> QED BY <1>1, <1>2, <1>3, <1>4, <1>5 DEF Events!Next, EventProofs!Next

LEMMA SameRoutes ==
  /\ Routes!Init <=> RouteProofs!Init
  /\ Routes!Next <=> RouteProofs!Next
  /\ UNCHANGED Routes!vars <=> UNCHANGED RouteProofs!vars
<1>1. /\ Routes!Init <=> RouteProofs!Init
      /\ UNCHANGED Routes!vars <=> UNCHANGED RouteProofs!vars
  BY DEF Routes!Init, Routes!vars, Routes!history, Routes!NoOps, RouteProofs!Init,
         RouteProofs!vars, RouteProofs!history, RouteProofs!NoOps
<1>2. ASSUME NEW k, NEW kind PROVE Routes!Insert(k, kind) <=> RouteProofs!Insert(k, kind)
  BY DEF Routes!Cardinality, RouteProofs!Cardinality, Routes!Insert, Routes!Put, Routes!IsFull,
     Routes!LeftBehind, Routes!NoOps,
         RouteProofs!Insert, RouteProofs!Put, RouteProofs!IsFull,
         RouteProofs!LeftBehind, RouteProofs!NoOps
<1>3. /\ Routes!BatchSent <=> RouteProofs!BatchSent
      /\ Routes!BatchRefused <=> RouteProofs!BatchRefused
  BY DEF Routes!BatchSent, Routes!BatchRefused, Routes!HasRoom, Routes!ReceiverGone,
         Routes!NoOps, Routes!Ops, Routes!history, RouteProofs!BatchSent,
         RouteProofs!BatchRefused, RouteProofs!HasRoom, RouteProofs!ReceiverGone,
         RouteProofs!NoOps, RouteProofs!Ops, RouteProofs!history
<1>4. /\ Routes!End <=> RouteProofs!End
      /\ Routes!EndReturns <=> RouteProofs!EndReturns
      /\ Routes!Drop <=> RouteProofs!Drop
      /\ Routes!ParentCancelled <=> RouteProofs!ParentCancelled
  BY DEF Routes!End, Routes!EndReturns, Routes!Drop, Routes!ParentCancelled,
         Routes!NoOps, Routes!Ops, Routes!history, RouteProofs!End,
         RouteProofs!EndReturns, RouteProofs!Drop, RouteProofs!ParentCancelled,
         RouteProofs!NoOps, RouteProofs!Ops, RouteProofs!history
<1>5. /\ Routes!Recv <=> RouteProofs!Recv
      /\ Routes!Upserts <=> RouteProofs!Upserts
      /\ Routes!Deletes <=> RouteProofs!Deletes
  BY DEF Routes!Recv, Routes!Pending, Routes!Upserts, Routes!Deletes, Routes!KeysOf,
         Routes!Executed, Routes!NoOps, Routes!history, RouteProofs!Recv,
         RouteProofs!Pending, RouteProofs!Upserts, RouteProofs!Deletes,
         RouteProofs!KeysOf, RouteProofs!Executed, RouteProofs!NoOps,
         RouteProofs!history
<1>6. /\ Routes!SendBatchFails <=> RouteProofs!SendBatchFails
      /\ Routes!TaskStops <=> RouteProofs!TaskStops
  BY DEF Routes!SendBatchFails, Routes!TaskStops, Routes!MayStop, Routes!Pending,
         Routes!Queued, Routes!Ops, Routes!NoOps, RouteProofs!SendBatchFails,
         RouteProofs!TaskStops, RouteProofs!MayStop, RouteProofs!Pending,
         RouteProofs!Queued, RouteProofs!Ops, RouteProofs!NoOps
<1>7. Routes!Kinds = RouteProofs!Kinds
  BY DEF Routes!Kinds, RouteProofs!Kinds
<1> QED BY <1>1, <1>2, <1>3, <1>4, <1>5, <1>6, <1>7 DEF Routes!Next, RouteProofs!Next

LEMMA EventsRun == Spec => EventProofs!Init /\ [][EventProofs!Next]_(EventProofs!vars)
<1>1. Init => EventProofs!Init
  BY SameEvents DEF Init
<1>2. [Next]_vars => [EventProofs!Next]_(EventProofs!vars)
  BY EventStep, SameEvents
<1> QED BY <1>1, <1>2, PTL DEF Spec

LEMMA RoutesRun == Spec => RouteProofs!Init /\ [][RouteProofs!Next]_(RouteProofs!vars)
<1>1. Init => RouteProofs!Init
  BY SameRoutes DEF Init
<1>2. MessageTypes /\ [Next]_vars => [RouteProofs!Next]_(RouteProofs!vars)
  BY RouteStep, SameRoutes
<1> QED BY <1>1, <1>2, TypesHold, PTL DEF Spec

\* The event batcher keeps its promises in the service: no event is stored
\* twice or before an older one, each is stored, on its way or on record as lost.
THEOREM EventsInIngest ==
  Spec => [](Events!AtMostOnceInOrder /\ Events!Accounted /\ Events!LossNeedsFault)
<1>1. /\ EventProofs!AtMostOnceInOrder <=> Events!AtMostOnceInOrder
      /\ EventProofs!Accounted <=> Events!Accounted
      /\ EventProofs!LossNeedsFault <=> Events!LossNeedsFault
  BY DEF Events!Range, EventProofs!Range, Events!AtMostOnceInOrder, Events!Accounted,
     Events!LossNeedsFault,
         Events!Pipeline, EventProofs!AtMostOnceInOrder, EventProofs!Accounted,
         EventProofs!LossNeedsFault, EventProofs!Pipeline
<1>2. EventProofs!EventBatcherAssumption
  BY IngestAssumption DEF EventProofs!EventBatcherAssumption
<1>3. EventProofs!Init /\ [][EventProofs!Next]_(EventProofs!vars) =>
        [](EventProofs!AtMostOnceInOrder /\ EventProofs!Accounted /\ EventProofs!LossNeedsFault)
  BY IngestAssumption, EventProofs!SafeWithoutFairness
<1> QED BY <1>1, <1>3, EventsRun, PTL

\* So does the route batcher: operations of a key reach the table in order, none
\* vanishes unnoticed, none is lost but by a fault or the end of its owner, and
\* between two batches the table is consistent.
THEOREM RoutesInIngest ==
  Spec => /\ [](Routes!PipelineOrdered /\ Routes!NoSilentLoss /\ Routes!LossNeedsFault)
          /\ []Routes!ConsistentBetweenBatches
<1>1. RouteProofs!PipelineOrdered <=> Routes!PipelineOrdered
  BY DEF Routes!PipelineOrdered, Routes!Keyed, Routes!Older, RouteProofs!PipelineOrdered,
         RouteProofs!Keyed, RouteProofs!Older
<1>2. RouteProofs!NoSilentLoss <=> Routes!NoSilentLoss
  BY DEF Routes!NoSilentLoss, Routes!OnRecord, Routes!Held, Routes!Queued, Routes!Ops,
         RouteProofs!NoSilentLoss, RouteProofs!OnRecord, RouteProofs!Held,
         RouteProofs!Queued, RouteProofs!Ops
<1>3. RouteProofs!LossNeedsFault <=> Routes!LossNeedsFault
  BY DEF Routes!LossNeedsFault, RouteProofs!LossNeedsFault
<1>4. RouteProofs!Init /\ [][RouteProofs!Next]_(RouteProofs!vars) =>
        /\ [](RouteProofs!PipelineOrdered /\ RouteProofs!NoSilentLoss /\ RouteProofs!LossNeedsFault)
        /\ []RouteProofs!ConsistentBetweenBatches
  BY IngestAssumption, RouteProofs!SafeWithoutFairness
<1>5. RouteProofs!ConsistentBetweenBatches <=> Routes!ConsistentBetweenBatches
  BY DEF RouteProofs!ConsistentBetweenBatches, Routes!ConsistentBetweenBatches,
         RouteProofs!NewestOf, Routes!NewestOf
<1> QED BY <1>1, <1>2, <1>3, <1>4, <1>5, RoutesRun, PTL

Table == INSTANCE RoutingTable

\* The main loop with its two batchers, from the end of the seeding on,
\* implements the table: each row changes only to the result of a later operation
\* of its key.
THEOREM IngestRefinesTable == Spec => Table!Spec
<1>1. RouteProofs!Init /\ [][RouteProofs!Next]_(RouteProofs!vars) => RouteProofs!Table!Spec
  BY IngestAssumption, RouteProofs!SafeWithoutFairness
<1>2. /\ RouteProofs!Table!Init <=> Table!Init
      /\ UNCHANGED RouteProofs!Table!vars <=> UNCHANGED Table!vars
  BY DEF RouteProofs!Table!Init, Table!Init, RouteProofs!Table!vars, Table!vars
<1>3. RouteProofs!Table!Next <=> Table!Next
  <2>1. RouteProofs!Table!Publish <=> Table!Publish
    BY DEF RouteProofs!Table!Publish, Table!Publish, RouteProofs!Table!RowOf, Table!RowOf
  <2>2. ASSUME NEW k, NEW kind PROVE RouteProofs!Table!Submit(k, kind) <=> Table!Submit(k, kind)
    BY DEF RouteProofs!Table!Submit, Table!Submit
  <2> QED BY <2>1, <2>2 DEF RouteProofs!Table!Next, Table!Next, RouteProofs!Table!Kinds,
             Table!Kinds
<1>4. [RouteProofs!Table!Next]_(RouteProofs!Table!vars) => [Table!Next]_(Table!vars)
  BY <1>2, <1>3
<1> QED BY <1>1, <1>2, <1>4, RoutesRun, PTL DEF Table!Spec, RouteProofs!Table!Spec

-----------------------------------------------------------------------------
(* Operations that are given up. *)

\* Whoever ends or leaves a batcher does so because the service shuts down; a
\* route task that has stopped was told to, or lost its owner.
ShutdownInv ==
    /\ evCancelled => ctxDone
    /\ rtCancelled => ctxDone
    /\ rtOwner = "dropped" => ctxDone
    /\ pc = "endEvents" => ctxDone
    /\ rtTask = "stopped" => rtCancelled \/ rtOwner = "dropped"

LEMMA ShutdownStep == ShutdownInv /\ [Next]_vars => ShutdownInv'
<1> SUFFICES ASSUME ShutdownInv, [Next]_vars PROVE ShutdownInv'
  OBVIOUS
<1> USE DEF ShutdownInv
<1>1. CASE Arrive \/ Recv \/ Handled \/ UNCHANGED vars
  <2>1. UNCHANGED <<ctxDone, evCancelled, rtCancelled, rtOwner, rtTask>> /\ (pc' = pc \/ pc' \in {"item", "recv"})
    BY <1>1 DEF Arrive, Recv, Handled, vars, main, eventVars, routeVars
  <2> QED BY <2>1
<1>2. CASE Shutdown
  BY <1>2 DEF Shutdown, routeVars
<1>3. CASE EventsCtxDone \/ EventsWrite \/ EventsCommit \/ EventsDone
  <2>1. UNCHANGED <<ctxDone, pc, rtCancelled, rtOwner, rtTask>> /\ (evCancelled' = evCancelled \/ ctxDone)
    BY <1>3 DEF EventsCtxDone, EventsWrite, EventsCommit, EventsDone, main, routeVars,
                Events!Write, Events!WriteFails, Events!WritePanics, Events!Commit,
                Events!CommitFails, Events!Done, Events!DoneFails
  <2> QED BY <2>1
<1>4. CASE RoutesCtxDone
  BY <1>4 DEF RoutesCtxDone, Routes!ParentCancelled, main, eventVars
<1>5. CASE RoutesRecv \/ RoutesWrite
  <2>1. UNCHANGED <<ctxDone, pc, evCancelled, rtCancelled, rtOwner>> /\ rtTask' # "stopped"
    BY <1>5 DEF RoutesRecv, RoutesWrite, Routes!Recv, Routes!Upserts, Routes!Deletes,
                Routes!SendBatchFails, main, eventVars
  <2> QED BY <2>1
<1>6. CASE RoutesStop
  BY <1>6 DEF RoutesStop, Routes!TaskStops, Routes!MayStop, main, eventVars
<1>7. CASE InsertEvent \/ EventInserted \/ EventRefused
  <2>1. UNCHANGED <<ctxDone, evCancelled, rtCancelled, rtOwner, rtTask>> /\ pc' # "endEvents"
    BY <1>7 DEF InsertEvent, EventInserted, EventRefused, AfterRefusal, GiveUpItems, routeVars,
                Events!Insert, Events!Sent, Events!Refused
  <2> QED BY <2>1
<1>8. CASE RouteItem
  <2>1. UNCHANGED <<ctxDone, evCancelled, rtCancelled, rtTask>> /\ pc' # "endEvents"
        /\ rtOwner = "open" /\ rtOwner' \in {"open", "sending"}
    BY <1>8 DEF RouteItem, Routes!Insert, eventVars
  <2> QED BY <2>1
<1>9. CASE BatchSent \/ BatchRefused
  <2>1. UNCHANGED <<ctxDone, evCancelled, rtCancelled, rtTask>> /\ pc' # "endEvents"
        /\ rtOwner = "sending" /\ rtOwner' = "open"
    BY <1>9 DEF BatchSent, BatchRefused, GiveUpItems, Routes!BatchSent, Routes!BatchRefused,
       eventVars
  <2> QED BY <2>1
<1>10. CASE LoopEnds
  BY <1>10 DEF LoopEnds, Events!End, routeVars
<1>11. CASE EventsEnded
  BY <1>11 DEF EventsEnded, Events!EndReturns, Routes!End
<1>12. CASE EventsEndFails
  BY <1>12 DEF EventsEndFails, Events!EndReturns, Routes!Drop
<1>13. CASE RoutesEnded
  BY <1>13 DEF RoutesEnded, Routes!EndReturns, eventVars
<1> QED BY <1>1, <1>2, <1>3, <1>4, <1>5, <1>6, <1>7, <1>8, <1>9, <1>10, <1>11, <1>12, <1>13
       DEF Next, MainLoop

LEMMA ShutdownHolds == Spec => []ShutdownInv
<1>1. Init => ShutdownInv
  BY DEF Init, Events!Init, Routes!Init, ShutdownInv
<1> QED BY <1>1, ShutdownStep, PTL DEF Spec

\* evFailed stays on record.
LEMMA FailedStays == [Next]_vars /\ evFailed => evFailed'
<1> SUFFICES ASSUME Events!Next \/ UNCHANGED Events!vars, evFailed PROVE evFailed'
  BY EventStep
<1> QED BY DEF Events!Next, Events!vars, Events!Insert, Events!Sent, Events!Refused, Events!End,
          Events!EndReturns, Events!Drop, Events!ParentCancelled, Events!Write,
          Events!WriteFails,
          Events!WritePanics, Events!Commit, Events!CommitFails, Events!Done, Events!DoneFails

LEMMA AbortStep ==
  ShutdownInv /\ Events!LossNeedsFault /\ AbortNeedsFault /\ [Next]_vars => AbortNeedsFault'
<1> SUFFICES ASSUME ShutdownInv, Events!LossNeedsFault, AbortNeedsFault, [Next]_vars
             PROVE  AbortNeedsFault'
  OBVIOUS
<1>1. ctxDone => ctxDone'
  BY DEF Next, MainLoop, Arrive, Recv, Handled, vars, main, Shutdown, EventsCtxDone,
     EventsWrite,
         EventsCommit, EventsDone, RoutesCtxDone, RoutesRecv, RoutesWrite, RoutesStop,
         InsertEvent,
         EventInserted, EventRefused, AfterRefusal, GiveUpItems, RouteItem, BatchSent,
         BatchRefused, LoopEnds, EventsEnded, EventsEndFails, RoutesEnded
<1>2. CASE EventRefused
  <2>1. evTask # "running"
    BY <1>2 DEF EventRefused, Events!Refused, Events!ReceiverGone
  <2>2. evFailed \/ ctxDone
    BY <2>1 DEF Events!LossNeedsFault, ShutdownInv
  <2> QED BY <1>1, <2>2, FailedStays DEF AbortNeedsFault
<1>3. CASE BatchRefused
  <2>1. ctxDone
    BY <1>3 DEF BatchRefused, Routes!BatchRefused, Routes!ReceiverGone, ShutdownInv
  <2> QED BY <1>1, <2>1 DEF AbortNeedsFault
<1>4. CASE ~EventRefused /\ ~BatchRefused
  <2>1. aborted' = aborted
    BY <1>4 DEF Next, MainLoop, Arrive, Recv, Handled, vars, main, Shutdown, EventsCtxDone,
         EventsWrite, EventsCommit, EventsDone, RoutesCtxDone, RoutesRecv, RoutesWrite,
         RoutesStop,
         InsertEvent, EventInserted, RouteItem, BatchSent, LoopEnds, EventsEnded,
         EventsEndFails,
         RoutesEnded
  <2> QED BY <1>1, <2>1, FailedStays DEF AbortNeedsFault
<1> QED BY <1>2, <1>3, <1>4

\* handle_message gives a message up only after an error of ClickHouse or a
\* shutdown: no error of Postgres, no full channel and no batch reaches it.
THEOREM AbortsOnlyByFault == Spec => []AbortNeedsFault
<1>1. Init => AbortNeedsFault
  BY DEF Init, AbortNeedsFault
<1> QED BY <1>1, AbortStep, ShutdownHolds, EventsInIngest, PTL DEF Spec

-----------------------------------------------------------------------------
(* Operations and their events. *)

\* The event of the operation in hand was submitted, and not for another one.
AtItsEvent == pc = "event" \/ (pc = "route" /\ rtOwner = "open")

EventOfInv ==
    /\ submitted \in Nat /\ refused \subseteq 0 .. submitted
    /\ eventOf \in Seq(Nat)
    /\ \A i, j \in DOMAIN eventOf : i < j => eventOf[i] < eventOf[j]
    /\ \A i \in DOMAIN eventOf : eventOf[i] <= submitted /\ eventOf[i] \notin refused
    /\ AtItsEvent => /\ submitted \notin refused
                     /\ \A i \in DOMAIN eventOf : eventOf[i] < submitted

LEMMA EventOfStep == EventOfInv /\ [Next]_vars => EventOfInv'
<1> SUFFICES ASSUME EventOfInv, [Next]_vars PROVE EventOfInv'
  OBVIOUS
<1>1. CASE InsertEvent
  <2>1. submitted' = submitted + 1 /\ UNCHANGED <<refused, eventOf>>
    BY <1>1 DEF InsertEvent, Events!Insert
  <2> QED BY <2>1 DEF EventOfInv
<1>2. CASE EventInserted
  <2>1. AtItsEvent /\ UNCHANGED <<submitted, refused, eventOf>>
    BY <1>2 DEF EventInserted, Events!Sent, AtItsEvent
  <2> QED BY <2>1 DEF EventOfInv
<1>3. CASE EventRefused
  <2>1. /\ AtItsEvent /\ ~AtItsEvent' /\ UNCHANGED <<submitted, eventOf>>
        /\ refused' = refused \cup {submitted}
    BY <1>3 DEF EventRefused, AfterRefusal, GiveUpItems, Events!Refused, AtItsEvent
  <2> QED BY <2>1 DEF EventOfInv
<1>4. CASE RouteItem
  <2>1. /\ AtItsEvent /\ ~AtItsEvent' /\ UNCHANGED <<submitted, refused>>
        /\ eventOf' = Append(eventOf, submitted)
    BY <1>4 DEF RouteItem, eventVars, AtItsEvent
  <2>2. /\ eventOf' \in Seq(Nat) /\ DOMAIN eventOf' = 1 .. Len(eventOf) + 1
        /\ \A i \in DOMAIN eventOf : i <= Len(eventOf) /\ eventOf'[i] = eventOf[i]
        /\ eventOf'[Len(eventOf) + 1] = submitted
    BY <2>1 DEF EventOfInv
  <2>3. DOMAIN eventOf = 1 .. Len(eventOf) /\ Len(eventOf) \in Nat
    BY DEF EventOfInv
  <2>4. \A i \in DOMAIN eventOf' : i \in DOMAIN eventOf \/ i = Len(eventOf) + 1
    BY <2>2, <2>3
  <2> QED BY <2>1, <2>2, <2>3, <2>4 DEF EventOfInv
<1>5. CASE \/ Arrive \/ Shutdown \/ EventsCtxDone \/ EventsWrite \/ EventsCommit \/ EventsDone
           \/ RoutesCtxDone \/ RoutesRecv \/ RoutesWrite \/ RoutesStop \/ UNCHANGED vars
  <2>1. UNCHANGED <<pc, rtOwner, submitted, refused, eventOf>>
    BY <1>5 DEF Arrive, Shutdown, EventsCtxDone, EventsWrite, EventsCommit, EventsDone,
         RoutesCtxDone, RoutesRecv, RoutesWrite, RoutesStop, vars, main, eventVars, routeVars,
         Events!ParentCancelled, Events!Write, Events!WriteFails, Events!WritePanics,
         Events!Commit, Events!CommitFails, Events!Done, Events!DoneFails,
         Routes!ParentCancelled, Routes!Recv, Routes!Upserts, Routes!Deletes,
         Routes!SendBatchFails, Routes!TaskStops
  <2> QED BY <2>1 DEF EventOfInv, AtItsEvent
<1>6. CASE \/ Recv \/ Handled \/ BatchSent \/ BatchRefused \/ LoopEnds \/ EventsEnded
           \/ EventsEndFails \/ RoutesEnded
  <2>1. UNCHANGED <<submitted, refused, eventOf>> /\ pc' \notin {"event", "route"}
    BY <1>6 DEF Recv, Handled, BatchSent, BatchRefused, GiveUpItems, LoopEnds, EventsEnded,
         EventsEndFails, RoutesEnded, eventVars, Events!End, Events!EndReturns
  <2> QED BY <2>1 DEF EventOfInv, AtItsEvent
<1> QED BY <1>1, <1>2, <1>3, <1>4, <1>5, <1>6 DEF Next, MainLoop

\* The routing table never runs ahead of the events: an operation is submitted
\* for it after its own event was accepted, in the order of the events, and the
\* event is lost only to an error of ClickHouse or to a shutdown.
THEOREM TableNeverAhead == Spec => []TableBackedByEvents
<1>1. Init => EventOfInv
  BY DEF Init, Events!Init, EventOfInv, AtItsEvent
<1>2. EventOfInv /\ Events!LossNeedsFault => TableBackedByEvents
  <2> SUFFICES ASSUME EventOfInv, Events!LossNeedsFault PROVE TableBackedByEvents
    OBVIOUS
  <2>1. \A i \in DOMAIN eventOf : eventOf[i] \in evLost => evFailed \/ evCancelled
    BY DEF Events!LossNeedsFault
  <2> QED BY <2>1 DEF EventOfInv, TableBackedByEvents
<1> QED BY <1>1, <1>2, EventOfStep, EventsInIngest, PTL DEF Spec
=============================================================================
