------------------------ MODULE RoutesBatcherProofs ------------------------
(***************************************************************************)
(* Theorems about RoutesBatcher, for every set of keys, batch size, channel *)
(* capacity and number of operations.  TypeOK /\ PipelineOrdered is         *)
(* inductive; the refinement of RoutingTable follows from it, because an    *)
(* operation in flight is newer than the one its row reflects.              *)
(***************************************************************************)
EXTENDS RoutesBatcher, FiniteSetTheorems, SequenceTheorems, TLAPS

(* Type correctness. *)

LEMMA OpsType == ASSUME NEW m \in [Keys -> Nat] PROVE Ops(m) \in SUBSET Nat
  BY DEF Ops

LEMMA QueuedType == ASSUME TypeOK PROVE Queued \in SUBSET Nat
<1>1. \A i \in DOMAIN batches : batches[i] \in [Keys -> Nat]
  BY DEF TypeOK
<1>2. \A i \in DOMAIN batches : Ops(batches[i]) \in SUBSET Nat
  BY <1>1, OpsType
<1> QED BY <1>2 DEF Queued

LEMMA InitType == Init => TypeOK
<1> SUFFICES ASSUME Init PROVE TypeOK OBVIOUS
<1>1. NoOps \in [Keys -> Nat]
  BY DEF NoOps
<1>2. routes \in [Keys -> Nat \cup {NoRow}]
  BY DEF Init
<1>3. log \in Seq([key : Keys, kind : Kinds])
  BY DEF Init
<1>4. batches \in Seq([Keys -> Nat]) /\ Len(batches) <= ChannelCap
  BY BatcherAssumption DEF Init
<1> QED BY <1>1, <1>2, <1>3, <1>4 DEF Init, TypeOK

LEMMA InsertType ==
  ASSUME TypeOK, NEW k \in Keys, NEW kind \in Kinds, Insert(k, kind)
  PROVE  TypeOK'
<1> DEFINE new == Put(operations, k, Len(log) + 1)
<1>1. log' \in Seq([key : Keys, kind : Kinds])
  BY DEF TypeOK, Insert
<1>2. new \in [Keys -> Nat] /\ NoOps \in [Keys -> Nat]
  BY DEF TypeOK, Put, NoOps
<1>3. operations' \in [Keys -> Nat] /\ outbox' \in [Keys -> Nat]
  BY <1>2 DEF TypeOK, Insert, LeftBehind
<1>4. owner' \in {"open", "sending", "ending", "ended", "dropped"}
  BY DEF TypeOK, Insert
<1> QED BY <1>1, <1>3, <1>4 DEF TypeOK, Insert

LEMMA OwnerType ==
  ASSUME TypeOK, BatchSent \/ BatchRefused \/ End \/ EndReturns \/ Drop \/ ParentCancelled
  PROVE  TypeOK'
<1> USE DEF TypeOK
<1>0. NoOps \in [Keys -> Nat]
  BY DEF NoOps
<1>1. CASE BatchSent
  <2>1. batches' \in Seq([Keys -> Nat]) /\ Len(batches') <= ChannelCap
    BY <1>1, BatcherAssumption DEF BatchSent, HasRoom
  <2> QED BY <2>1, <1>0, <1>1 DEF BatchSent, history
<1>2. CASE BatchRefused
  BY <1>0, <1>2, OpsType DEF BatchRefused
<1>3. CASE End
  BY <1>0, <1>3, OpsType DEF End
<1>4. CASE EndReturns
  BY <1>4 DEF EndReturns, history
<1>5. CASE Drop
  BY <1>0, <1>5, OpsType DEF Drop
<1>6. CASE ParentCancelled
  BY <1>6 DEF ParentCancelled, history
<1> QED BY <1>1, <1>2, <1>3, <1>4, <1>5, <1>6

LEMMA TaskType ==
  ASSUME TypeOK, Recv \/ Upserts \/ Deletes \/ SendBatchFails \/ TaskStops
  PROVE  TypeOK'
<1> USE DEF TypeOK
<1>0. NoOps \in [Keys -> Nat]
  BY DEF NoOps
<1>1. CASE Recv
  <2>1. /\ batches' \in Seq([Keys -> Nat]) /\ Len(batches') <= ChannelCap
        /\ inflight' \in [Keys -> Nat]
    BY <1>1, BatcherAssumption DEF Recv, Pending
  <2> QED BY <2>1, <1>1 DEF Recv, history
<1>2. CASE Upserts
  <2>1. applied' \in [Keys -> Nat] /\ routes' \in [Keys -> Nat \cup {NoRow}]
    BY <1>2 DEF Upserts, Executed
  <2> QED BY <2>1, <1>2 DEF Upserts
<1>3. CASE Deletes
  <2>1. applied' \in [Keys -> Nat] /\ routes' \in [Keys -> Nat \cup {NoRow}]
    BY <1>3 DEF Deletes, Executed
  <2> QED BY <2>1, <1>0, <1>3 DEF Deletes
<1>4. CASE SendBatchFails
  <2>1. {inflight[k] : k \in {j \in Keys : applied[j] < inflight[j]}} \in SUBSET Nat
    OBVIOUS
  <2> QED BY <2>1, <1>0, <1>4 DEF SendBatchFails
<1>5. CASE TaskStops
  <2>1. batches' \in Seq([Keys -> Nat]) /\ Len(batches') <= ChannelCap
    BY <1>5, BatcherAssumption DEF TaskStops
  <2> QED BY <2>1, <1>5, QueuedType DEF TaskStops
<1> QED BY <1>1, <1>2, <1>3, <1>4, <1>5

LEMMA StutterType == ASSUME TypeOK, UNCHANGED vars PROVE TypeOK'
  BY DEF TypeOK, vars, history

LEMMA NextType == TypeOK /\ [Next]_vars => TypeOK'
<1> SUFFICES ASSUME TypeOK, [Next]_vars PROVE TypeOK' OBVIOUS
<1>1. CASE \E k \in Keys, kind \in Kinds : Insert(k, kind)
  BY <1>1, InsertType
<1>2. CASE BatchSent \/ BatchRefused \/ End \/ EndReturns \/ Drop \/ ParentCancelled
  BY <1>2, OwnerType
<1>3. CASE Recv \/ Upserts \/ Deletes \/ SendBatchFails \/ TaskStops
  BY <1>3, TaskType
<1>4. CASE UNCHANGED vars
  BY <1>4, StutterType
<1> QED BY <1>1, <1>2, <1>3, <1>4 DEF Next

\* The variables keep their types: maps hold operations, and the channel never
\* holds more batches than it was created for.
THEOREM TypeCorrect == Spec => []TypeOK
  BY InitType, NextType, PTL DEF Spec

-----------------------------------------------------------------------------
(* The order of the pipeline. *)

IInv == TypeOK /\ PipelineOrdered

LEMMA NoOpsOrdered ==
  /\ NoOps \in [Keys -> Nat]
  /\ \A l : Keyed(NoOps, l)
  /\ \A m : Older(m, NoOps)
  /\ \A m \in [Keys -> Nat] : Older(NoOps, m)
  BY DEF NoOps, Keyed, Older

LEMMA InitOrdered == Init => PipelineOrdered
<1> SUFFICES ASSUME Init PROVE PipelineOrdered OBVIOUS
<1>1. \A k \in Keys : inflight[k] = 0
  BY DEF Init, NoOps
<1>2. DOMAIN batches = {}
  BY DEF Init
<1> QED BY <1>1, <1>2, NoOpsOrdered DEF Init, PipelineOrdered

\* The history only grows: a keyed map stays keyed, and the new operation is
\* newer than everything the map holds.
LEMMA KeyedGrows ==
  ASSUME NEW l \in Seq([key : Keys, kind : Kinds]), NEW e \in [key : Keys, kind : Kinds],
         NEW m \in [Keys -> Nat], Keyed(m, l)
  PROVE  Keyed(m, Append(l, e)) /\ (\A n \in Keys : m[n] \in Nat /\ m[n] < Len(l) + 1)
<1>1. /\ Len(l) \in Nat /\ DOMAIN Append(l, e) = 1..(Len(l) + 1) /\ DOMAIN l = 1..Len(l)
      /\ \A i \in 1..Len(l) : Append(l, e)[i] = l[i]
  OBVIOUS
<1>2. ASSUME NEW n \in Keys, m[n] # 0
      PROVE  m[n] \in DOMAIN l /\ l[m[n]].key = n
  BY <1>2 DEF Keyed
<1> QED BY <1>1, <1>2 DEF Keyed

LEMMA InsertOrdered ==
  ASSUME IInv, NEW k \in Keys, NEW kind \in Kinds, Insert(k, kind)
  PROVE  PipelineOrdered'
<1> DEFINE op == Len(log) + 1
           new == Put(operations, k, op)
<1> USE DEF IInv
<1>1. /\ log \in Seq([key : Keys, kind : Kinds]) /\ Len(log) \in Nat
      /\ applied \in [Keys -> Nat] /\ inflight \in [Keys -> Nat]
      /\ outbox \in [Keys -> Nat] /\ operations \in [Keys -> Nat]
      /\ \A i \in DOMAIN batches : batches[i] \in [Keys -> Nat]
  BY DEF TypeOK
<1>2. /\ UNCHANGED <<batches, inflight, task, applied>>
      /\ log' = Append(log, [key |-> k, kind |-> kind])
      /\ \/ operations' = new /\ outbox' = outbox
         \/ operations' = NoOps /\ outbox' = new
  BY DEF Insert, LeftBehind
<1>3. /\ op \in DOMAIN log' /\ log'[op].key = k
      /\ \A n \in 1..Len(log) : log'[n] = log[n]
  BY <1>1, <1>2
<1>4. ASSUME NEW m \in [Keys -> Nat], Keyed(m, log)
      PROVE  Keyed(m, log') /\ (\A n \in Keys : m[n] \in Nat /\ m[n] < op)
  <2>1. [key |-> k, kind |-> kind] \in [key : Keys, kind : Kinds]
    OBVIOUS
  <2> HIDE DEF IInv
  <2> QED BY <2>1, <1>1, <1>2, <1>4, KeyedGrows
<1>5. new \in [Keys -> Nat] /\ (\A n \in Keys : new[n] = IF n = k THEN op ELSE operations[n])
  BY <1>1 DEF Put
<1>6. Keyed(new, log')
  <2>1. Keyed(operations, log')
    BY <1>1, <1>4 DEF PipelineOrdered
  <2> QED BY <2>1, <1>3, <1>5 DEF Keyed
<1>7. ASSUME NEW m \in [Keys -> Nat], Keyed(m, log), Older(m, outbox), Older(m, operations)
      PROVE  Older(m, outbox') /\ Older(m, operations')
  <2>1. Older(m, new)
    BY <1>4, <1>5, <1>7 DEF Older
  <2> QED BY <2>1, <1>2, <1>7, NoOpsOrdered
<1>8. Older(outbox', operations')
  <2>1. Older(outbox, new)
    BY <1>1, <1>4, <1>5 DEF Older, PipelineOrdered
  <2> QED BY <2>1, <1>2, NoOpsOrdered
<1>9. /\ Keyed(applied, log') /\ Keyed(inflight, log')
      /\ Keyed(outbox', log') /\ Keyed(operations', log')
  BY <1>1, <1>2, <1>4, <1>6, NoOpsOrdered DEF PipelineOrdered
<1>10. /\ Older(applied, outbox') /\ Older(applied, operations')
       /\ Older(inflight, outbox') /\ Older(inflight, operations')
  BY <1>1, <1>7 DEF PipelineOrdered
<1>11. ASSUME NEW i \in DOMAIN batches
       PROVE  Keyed(batches[i], log') /\ Older(batches[i], outbox') /\ Older(batches[i], operations')
  BY <1>1, <1>4, <1>7, <1>11 DEF PipelineOrdered
<1>12. \A n \in Keys : inflight[n] # 0 => log'[inflight[n]] = log[inflight[n]]
  <2>1. DOMAIN log = 1..Len(log) /\ Keyed(inflight, log)
    BY <1>1 DEF PipelineOrdered
  <2> QED BY <2>1, <1>3 DEF Keyed
<1> QED
  BY <1>2, <1>8, <1>9, <1>10, <1>11, <1>12 DEF PipelineOrdered

LEMMA OwnerOrdered ==
  ASSUME IInv, BatchSent \/ BatchRefused \/ End \/ EndReturns \/ Drop \/ ParentCancelled
  PROVE  PipelineOrdered'
<1> USE NoOpsOrdered DEF IInv, PipelineOrdered
<1>0. outbox \in [Keys -> Nat] /\ operations \in [Keys -> Nat]
  BY DEF TypeOK
<1>1. CASE BatchSent
  <2>1. /\ UNCHANGED <<log, applied, inflight, operations, task>> /\ outbox' = NoOps
        /\ DOMAIN batches' = 1..(Len(batches) + 1) /\ DOMAIN batches = 1..Len(batches)
        /\ batches'[Len(batches) + 1] = outbox
        /\ \A i \in 1..Len(batches) : batches'[i] = batches[i]
        /\ Len(batches) \in Nat
    BY <1>1 DEF BatchSent, TypeOK, history
  <2>2. ASSUME NEW i \in DOMAIN batches'
        PROVE  /\ Keyed(batches'[i], log) /\ Older(applied, batches'[i])
               /\ Older(inflight, batches'[i]) /\ Older(batches'[i], operations)
               /\ \A j \in 1..(i - 1) : Older(batches'[j], batches'[i])
    <3>1. CASE i \in DOMAIN batches
      BY <2>1, <3>1
    <3>2. CASE i = Len(batches) + 1
      BY <2>1, <3>2
    <3> QED BY <2>1, <2>2, <3>1, <3>2
  <2> QED BY <1>0, <2>1, <2>2
<1>2. CASE BatchRefused
  BY <1>0, <1>2 DEF BatchRefused
<1>3. CASE End
  BY <1>0, <1>3 DEF End
<1>4. CASE EndReturns
  BY <1>4 DEF EndReturns, history
<1>5. CASE Drop
  BY <1>0, <1>5 DEF Drop
<1>6. CASE ParentCancelled
  BY <1>6 DEF ParentCancelled, history
<1> QED BY <1>1, <1>2, <1>3, <1>4, <1>5, <1>6

LEMMA TaskOrdered ==
  ASSUME IInv, Recv \/ Upserts \/ Deletes \/ SendBatchFails \/ TaskStops
  PROVE  PipelineOrdered'
<1>0. /\ inflight \in [Keys -> Nat] /\ applied \in [Keys -> Nat]
      /\ outbox \in [Keys -> Nat] /\ operations \in [Keys -> Nat]
      /\ batches \in Seq([Keys -> Nat]) /\ PipelineOrdered
      /\ \A i \in DOMAIN batches : batches[i] \in [Keys -> Nat]
  BY DEF IInv, TypeOK
<1>1. CASE Recv
  <2>1. /\ UNCHANGED <<log, applied, outbox, operations>> /\ task' = "upserting"
        /\ DOMAIN batches = 1..Len(batches) /\ Len(batches) \in Nat
        /\ 1 \in DOMAIN batches /\ inflight' = batches[1]
        /\ DOMAIN batches' = 1..(Len(batches) - 1)
        /\ \A i \in DOMAIN batches' : batches'[i] = batches[i + 1] /\ i + 1 \in DOMAIN batches
    <3>1. batches # <<>> /\ inflight' = Head(batches) /\ batches' = Tail(batches)
          /\ UNCHANGED <<log, applied, outbox, operations>> /\ task' = "upserting"
      BY <1>1 DEF Recv, Pending, history
    <3>2. Len(batches) \in Nat \ {0} /\ DOMAIN batches = 1..Len(batches)
      BY <1>0, <3>1
    <3>3. /\ Head(batches) = batches[1] /\ Len(Tail(batches)) = Len(batches) - 1
          /\ DOMAIN Tail(batches) = 1..(Len(batches) - 1)
          /\ \A i \in 1..(Len(batches) - 1) : Tail(batches)[i] = batches[i + 1]
      BY <1>0, <3>1, <3>2
    <3> QED BY <3>1, <3>2, <3>3
  <2>2. /\ Keyed(inflight', log) /\ Older(inflight', outbox) /\ Older(inflight', operations)
        /\ \A k \in Keys : inflight'[k] # 0 => applied[k] < inflight'[k]
    BY <1>0, <2>1 DEF PipelineOrdered, Older
  <2>3. ASSUME NEW i \in DOMAIN batches'
        PROVE  /\ Keyed(batches'[i], log)
               /\ Older(applied, batches'[i]) /\ Older(inflight', batches'[i])
               /\ Older(batches'[i], outbox) /\ Older(batches'[i], operations)
               /\ \A j \in 1..(i - 1) : Older(batches'[j], batches'[i])
    <3>1. i + 1 \in DOMAIN batches /\ batches'[i] = batches[i + 1] /\ i \in Nat \ {0}
      BY <2>1
    <3>2. \A j \in 1..((i + 1) - 1) : Older(batches[j], batches[i + 1])
      BY <1>0, <3>1 DEF PipelineOrdered
    <3>3. ASSUME NEW j \in 1..(i - 1) PROVE Older(batches'[j], batches'[i])
      <4>1. j + 1 \in 1..((i + 1) - 1) /\ batches'[j] = batches[j + 1]
        BY <2>1, <3>1, <3>3
      <4> QED BY <3>1, <3>2, <4>1
    <3>4. Older(inflight', batches'[i])
      BY <2>1, <3>1, <3>2
    <3>5. /\ Keyed(batches'[i], log) /\ Older(applied, batches'[i])
          /\ Older(batches'[i], outbox) /\ Older(batches'[i], operations)
      BY <1>0, <3>1 DEF PipelineOrdered
    <3> QED BY <3>3, <3>4, <3>5
  <2> QED BY <1>0, <2>1, <2>2, <2>3 DEF PipelineOrdered
<1>2. CASE Upserts
  <2>1. /\ UNCHANGED <<log, inflight, outbox, operations, batches>>
        /\ task = "upserting" /\ task' = "deleting"
        /\ applied' = [k \in Keys |-> IF k \in KeysOf(inflight, "Upsert") THEN inflight[k]
                                      ELSE applied[k]]
    BY <1>2 DEF Upserts, Executed
  <2>2. \A k \in Keys : \/ applied'[k] = applied[k] /\ k \notin KeysOf(inflight, "Upsert")
                        \/ applied'[k] = inflight[k] /\ inflight[k] # 0
                           /\ log[inflight[k]].kind = "Upsert"
    BY <2>1 DEF KeysOf
  <2>3. Keyed(applied', log)
    BY <1>0, <2>2 DEF PipelineOrdered, Keyed
  <2>4. ASSUME NEW m \in [Keys -> Nat], Older(applied, m), Older(inflight, m)
        PROVE  Older(applied', m)
    BY <2>2, <2>4 DEF Older
  <2>5. \A k \in Keys : inflight[k] # 0 =>
            \/ applied'[k] < inflight[k]
            \/ applied'[k] = inflight[k] /\ log[inflight[k]].kind = "Upsert"
    BY <1>0, <2>1, <2>2 DEF PipelineOrdered
  <2> QED BY <1>0, <2>1, <2>3, <2>4, <2>5 DEF PipelineOrdered
<1>3. CASE Deletes
  <2>1. /\ UNCHANGED <<log, outbox, operations, batches>> /\ inflight' = NoOps
        /\ applied' = [k \in Keys |-> IF k \in KeysOf(inflight, "Delete") THEN inflight[k]
                                      ELSE applied[k]]
    BY <1>3 DEF Deletes, Executed
  <2>2. \A k \in Keys : \/ applied'[k] = applied[k]
                        \/ applied'[k] = inflight[k] /\ inflight[k] # 0
    BY <2>1 DEF KeysOf
  <2>3. Keyed(applied', log)
    BY <1>0, <2>2 DEF PipelineOrdered, Keyed
  <2>4. ASSUME NEW m \in [Keys -> Nat], Older(applied, m), Older(inflight, m)
        PROVE  Older(applied', m)
    BY <2>2, <2>4 DEF Older
  <2>5. \A k \in Keys : inflight'[k] = 0
    BY <2>1 DEF NoOps
  <2>6. Older(applied', outbox) /\ Older(applied', operations)
    BY <1>0, <2>4 DEF PipelineOrdered
  <2>7. \A i \in DOMAIN batches : Older(applied', batches[i])
    BY <1>0, <2>4 DEF PipelineOrdered
  <2> QED BY <1>0, <2>1, <2>3, <2>5, <2>6, <2>7, NoOpsOrdered DEF PipelineOrdered
<1>4. CASE SendBatchFails
  <2>1. \A k \in Keys : inflight'[k] = 0
    BY <1>4 DEF SendBatchFails, NoOps
  <2> QED BY <1>0, <1>4, <2>1, NoOpsOrdered DEF SendBatchFails, PipelineOrdered
<1>5. CASE TaskStops
  <2>1. DOMAIN batches' = {} /\ task = "idle"
    BY <1>5 DEF TaskStops
  <2> QED BY <1>0, <1>5, <2>1 DEF TaskStops, PipelineOrdered
<1> QED BY <1>1, <1>2, <1>3, <1>4, <1>5

LEMMA NextOrdered == IInv /\ [Next]_vars => IInv'
<1> SUFFICES ASSUME IInv, [Next]_vars PROVE PipelineOrdered'
  BY NextType DEF IInv
<1>1. CASE \E k \in Keys, kind \in Kinds : Insert(k, kind)
  BY <1>1, InsertOrdered
<1>2. CASE BatchSent \/ BatchRefused \/ End \/ EndReturns \/ Drop \/ ParentCancelled
  BY <1>2, OwnerOrdered
<1>3. CASE Recv \/ Upserts \/ Deletes \/ SendBatchFails \/ TaskStops
  BY <1>3, TaskOrdered
<1>4. CASE UNCHANGED vars
  BY <1>4 DEF IInv, PipelineOrdered, vars, history
<1> QED BY <1>1, <1>2, <1>3, <1>4 DEF Next

\* For every batch size and channel capacity, the operations of a key travel
\* towards the table in the order in which they were submitted, across the
\* swap in batch(), the channel and the two statements of send_batch.
THEOREM OrderCorrect == Spec => []PipelineOrdered
<1>1. Init => IInv
  BY InitType, InitOrdered DEF IInv
<1>2. IInv => PipelineOrdered
  BY DEF IInv
<1> QED BY <1>1, <1>2, NextOrdered, PTL DEF Spec

-----------------------------------------------------------------------------
(* The refinement of RoutingTable. *)

\* A statement of send_batch that executes the operations of ks publishes them.
LEMMA PublishStep ==
  ASSUME IInv, NEW ks \in SUBSET Keys, UNCHANGED log,
         \A k \in ks : inflight[k] # 0 /\ applied[k] < inflight[k],
         Executed(inflight, ks),
         routes' = [k \in Keys |-> IF k \in ks THEN Table!RowOf(inflight[k]) ELSE routes[k]]
  PROVE  Table!Publish
<1>1. /\ applied \in [Keys -> Nat] /\ inflight \in [Keys -> Nat] /\ Len(log) \in Nat
      /\ Keyed(applied, log) /\ Keyed(inflight, log) /\ DOMAIN log = 1..Len(log)
  BY DEF IInv, TypeOK, PipelineOrdered
<1>2. /\ applied' \in [Keys -> Nat]
      /\ \A k \in Keys : applied'[k] = IF k \in ks THEN inflight[k] ELSE applied[k]
  BY <1>1 DEF Executed
<1>3. applied' \in [Keys -> 0..Len(log)]
  <2>1. \A k \in Keys : applied[k] \in 0..Len(log) /\ inflight[k] \in 0..Len(log)
    BY <1>1 DEF Keyed
  <2> QED BY <1>2, <2>1
<1>4. \A k \in Keys : \/ applied'[k] = applied[k]
                      \/ applied'[k] > applied[k] /\ log[applied'[k]].key = k
  BY <1>1, <1>2 DEF Keyed
<1>5. \A k \in Keys : k \in ks <=> applied'[k] # applied[k]
  BY <1>1, <1>2
<1>6. routes' = [k \in Keys |-> IF applied'[k] = applied[k] THEN routes[k]
                                ELSE Table!RowOf(applied'[k])]
  BY <1>2, <1>5
<1> QED BY <1>3, <1>4, <1>6 DEF Table!Publish

LEMMA StepRefines ==
  ASSUME IInv, [Next]_vars
  PROVE  [Table!Next]_(Table!vars)
<1>0. /\ applied \in [Keys -> Nat] /\ inflight \in [Keys -> Nat]
      /\ log \in Seq([key : Keys, kind : Kinds])
      /\ \A k \in Keys : inflight[k] # 0 => inflight[k] \in DOMAIN log
      /\ \A k \in Keys : inflight[k] # 0 =>
            \/ applied[k] < inflight[k]
            \/ task = "deleting" /\ log[inflight[k]].kind = "Upsert"
  BY DEF IInv, TypeOK, PipelineOrdered, Keyed
<1>1. ASSUME NEW k \in Keys, NEW kind \in Kinds, Insert(k, kind)
      PROVE  Table!Next
  <2>1. Table!Submit(k, kind)
    BY <1>1 DEF Insert, Table!Submit
  <2> QED BY <2>1 DEF Table!Next, Table!Kinds, Kinds
<1>2. CASE Upserts
  <2> DEFINE ks == KeysOf(inflight, "Upsert")
  <2>1. \A k \in ks : inflight[k] # 0 /\ applied[k] < inflight[k]
    BY <1>0, <1>2 DEF Upserts, KeysOf
  <2>2. \A k \in ks : Table!RowOf(inflight[k]) = inflight[k]
    BY DEF KeysOf, Table!RowOf
  <2>3. routes' = [k \in Keys |-> IF k \in ks THEN Table!RowOf(inflight[k]) ELSE routes[k]]
    BY <1>2, <2>2 DEF Upserts
  <2>4. ks \in SUBSET Keys /\ UNCHANGED log /\ Executed(inflight, ks)
    BY <1>2 DEF Upserts, KeysOf
  <2> HIDE DEF ks
  <2> QED BY <2>1, <2>3, <2>4, PublishStep DEF Table!Next
<1>3. CASE Deletes
  <2> DEFINE ks == KeysOf(inflight, "Delete")
  <2>1. \A k \in ks : inflight[k] # 0 /\ applied[k] < inflight[k]
    BY <1>0, <1>3 DEF Deletes, KeysOf
  <2>2. \A k \in ks : Table!RowOf(inflight[k]) = NoRow
    BY DEF KeysOf, Table!RowOf
  <2>3. routes' = [k \in Keys |-> IF k \in ks THEN Table!RowOf(inflight[k]) ELSE routes[k]]
    BY <1>3, <2>2 DEF Deletes
  <2>4. ks \in SUBSET Keys /\ UNCHANGED log /\ Executed(inflight, ks)
    BY <1>3 DEF Deletes, KeysOf
  <2> HIDE DEF ks
  <2> QED BY <2>1, <2>3, <2>4, PublishStep DEF Table!Next
<1>4. CASE \/ BatchSent \/ BatchRefused \/ End \/ EndReturns \/ Drop \/ ParentCancelled
           \/ Recv \/ SendBatchFails \/ TaskStops \/ UNCHANGED vars
  <2>1. UNCHANGED <<log, applied, routes>>
    BY <1>4 DEF BatchSent, BatchRefused, End, EndReturns, Drop, ParentCancelled, Recv,
                SendBatchFails, TaskStops, vars, history
  <2> QED BY <2>1 DEF Table!vars
<1> QED BY <1>1, <1>2, <1>3, <1>4 DEF Next

\* The batcher implements the table it promises: whatever fails, is cancelled or
\* is dropped, each row changes only to the result of a later operation of its key.
THEOREM Refinement == Spec => ImplementsRoutingTable
<1>1. Init => IInv
  BY InitType, InitOrdered DEF IInv
<1>2. Init => Table!Init
  BY DEF Init, NoOps, Table!Init
<1>3. IInv /\ [Next]_vars => [Table!Next]_(Table!vars)
  BY StepRefines
<1> QED BY <1>1, <1>2, <1>3, NextOrdered, PTL DEF Spec, Table!Spec, ImplementsRoutingTable

-----------------------------------------------------------------------------
(* Losses. *)

\* A stage that is not in use is empty, and after its first statement the
\* upserts of a batch have been executed.
StagesInv ==
    /\ owner # "sending" => outbox = NoOps
    /\ task \in {"idle", "stopped"} => inflight = NoOps
    /\ task = "deleting" =>
          \A k \in Keys : inflight[k] # 0 /\ log[inflight[k]].kind = "Upsert"
                             => applied[k] = inflight[k]
    /\ task = "stopped" => cancelled \/ owner = "dropped"

LEMMA InsertStages ==
  ASSUME IInv, StagesInv, NEW k \in Keys, NEW kind \in Kinds, Insert(k, kind)
  PROVE  StagesInv'
<1>1. /\ log \in Seq([key : Keys, kind : Kinds])
      /\ \A n \in Keys : inflight[n] # 0 => inflight[n] \in DOMAIN log
  BY DEF IInv, TypeOK, PipelineOrdered, Keyed
<1>2. \A n \in DOMAIN log : log'[n] = log[n]
  BY <1>1 DEF Insert
<1>3. owner = "open" /\ (owner' = "sending" \/ outbox' = outbox)
      /\ UNCHANGED <<inflight, task, applied, cancelled>>
  BY DEF Insert
<1> QED BY <1>1, <1>2, <1>3 DEF StagesInv

LEMMA NextStages == IInv /\ StagesInv /\ [Next]_vars => StagesInv'
<1> SUFFICES ASSUME IInv, StagesInv, [Next]_vars PROVE StagesInv' OBVIOUS
<1>1. CASE \E k \in Keys, kind \in Kinds : Insert(k, kind)
  BY <1>1, InsertStages
<1>2. CASE BatchSent \/ BatchRefused \/ End \/ EndReturns \/ Drop \/ ParentCancelled
  BY <1>2 DEF StagesInv, BatchSent, BatchRefused, End, EndReturns, Drop, ParentCancelled,
              history
<1>3. CASE Recv \/ Deletes \/ SendBatchFails \/ TaskStops
  BY <1>3 DEF StagesInv, Recv, Deletes, SendBatchFails, TaskStops, MayStop, history
<1>4. CASE Upserts
  <2>1. \A k \in Keys : inflight[k] # 0 /\ log[inflight[k]].kind = "Upsert"
                          => applied'[k] = inflight[k]
    BY <1>4 DEF Upserts, Executed, KeysOf
  <2> QED BY <1>4, <2>1 DEF Upserts, StagesInv
<1>5. CASE UNCHANGED vars
  BY <1>5 DEF StagesInv, vars, history
<1> QED BY <1>1, <1>2, <1>3, <1>4, <1>5 DEF Next

LEMMA StagesCorrect == Spec => [](IInv /\ StagesInv)
<1>1. Init => IInv /\ StagesInv
  BY InitType, InitOrdered DEF IInv, StagesInv, Init
<1> QED BY <1>1, NextOrdered, NextStages, PTL DEF Spec

LEMMA LossStep == LossNeedsFault /\ StagesInv /\ [Next]_vars => LossNeedsFault'
<1> SUFFICES ASSUME LossNeedsFault, StagesInv, [Next]_vars PROVE LossNeedsFault' OBVIOUS
<1>1. CASE \E k \in Keys, kind \in Kinds : Insert(k, kind)
  BY <1>1 DEF Insert, LossNeedsFault
<1>2. CASE BatchSent \/ BatchRefused \/ End \/ EndReturns \/ Drop \/ ParentCancelled
  BY <1>2 DEF LossNeedsFault, StagesInv, BatchSent, BatchRefused, End, EndReturns, Drop,
              ParentCancelled, ReceiverGone, history
<1>3. CASE Recv \/ Upserts \/ Deletes \/ SendBatchFails \/ TaskStops
  BY <1>3 DEF LossNeedsFault, Recv, Upserts, Deletes, SendBatchFails, TaskStops, MayStop,
     history
<1>4. CASE UNCHANGED vars
  BY <1>4 DEF LossNeedsFault, vars, history
<1> QED BY <1>1, <1>2, <1>3, <1>4 DEF Next

\* Without a database error, a cancellation or an owner that gave up, the
\* batcher drops nothing: neither back pressure nor coalescing loses an operation.
THEOREM LossCorrect == Spec => []LossNeedsFault
<1>1. Init => LossNeedsFault
  BY DEF Init, LossNeedsFault
<1> QED BY <1>1, LossStep, StagesCorrect, PTL DEF Spec

\* What is in the channel after a batch was appended, or the first one taken.
LEMMA QueuedAppend ==
  ASSUME TypeOK, NEW m \in [Keys -> Nat], batches' = Append(batches, m)
  PROVE  Queued' = Queued \cup Ops(m)
<1>1. /\ Len(batches) \in Nat /\ DOMAIN batches = 1..Len(batches)
      /\ DOMAIN batches' = 1..(Len(batches) + 1)
      /\ batches'[Len(batches) + 1] = m
      /\ \A i \in 1..Len(batches) : batches'[i] = batches[i]
  BY DEF TypeOK
<1>2. DOMAIN batches' = DOMAIN batches \cup {Len(batches) + 1}
  BY <1>1
<1> QED BY <1>1, <1>2 DEF Queued, Ops

LEMMA QueuedTail ==
  ASSUME TypeOK, batches # <<>>, batches' = Tail(batches)
  PROVE  Queued = Queued' \cup Ops(Head(batches))
<1>1. Len(batches) \in Nat \ {0} /\ DOMAIN batches = 1..Len(batches)
  BY DEF TypeOK
<1>2. /\ Head(batches) = batches[1]
      /\ DOMAIN batches' = 1..(Len(batches) - 1)
      /\ \A i \in 1..(Len(batches) - 1) : batches'[i] = batches[i + 1]
  BY <1>1 DEF TypeOK
<1>3. \A i \in DOMAIN batches : i = 1 \/ (i - 1 \in DOMAIN batches' /\ batches[i] = batches'[i - 1])
  BY <1>1, <1>2
<1>4. 1 \in DOMAIN batches /\ \A i \in DOMAIN batches' : i + 1 \in DOMAIN batches
  BY <1>1, <1>2
<1>5. Queued \subseteq Queued' \cup Ops(batches[1])
  BY <1>3 DEF Queued
<1>6. Ops(batches[1]) \subseteq Queued
  BY <1>4 DEF Queued
<1>7. Queued' \subseteq Queued
  BY <1>2, <1>4 DEF Queued
<1> QED BY <1>2, <1>5, <1>6, <1>7

\* The row of key log[n].key never moves back, so n stays executed ...
LEMMA StaysExecuted ==
  ASSUME IInv, [Next]_vars, NEW n \in DOMAIN log, applied[log[n].key] >= n
  PROVE  applied'[log'[n].key] >= n
<1>1. /\ log \in Seq([key : Keys, kind : Kinds]) /\ n \in Nat /\ log[n].key \in Keys
      /\ applied \in [Keys -> Nat] /\ inflight \in [Keys -> Nat]
  <2>1. log \in Seq([key : Keys, kind : Kinds])
    BY DEF IInv, TypeOK
  <2>2. DOMAIN log = 1..Len(log) /\ Len(log) \in Nat
    BY <2>1
  <2>3. n \in 1..Len(log) /\ n \in Nat
    BY <2>2
  <2>4. log[n] \in [key : Keys, kind : Kinds]
    BY <2>1, <2>3, ElementOfSeq
  <2> QED BY <2>1, <2>3, <2>4 DEF IInv, TypeOK
<1>2. log'[n] = log[n]
  <2>1. CASE \E k \in Keys, kind \in Kinds : Insert(k, kind)
    BY <1>1, <2>1 DEF Insert
  <2>2. CASE UNCHANGED log
    BY <2>2
  <2> QED BY <2>1, <2>2 DEF Next, vars, history, BatchSent, BatchRefused, End, EndReturns,
                Drop, ParentCancelled, Recv, Upserts, Deletes, SendBatchFails, TaskStops
<1>3. \A k \in Keys : applied'[k] \in Nat /\ applied'[k] >= applied[k]
  <2>1. \A k \in Keys : inflight[k] # 0 => inflight[k] >= applied[k]
    BY <1>1 DEF IInv, PipelineOrdered
  <2>2. CASE Upserts \/ Deletes
    BY <1>1, <2>1, <2>2 DEF Upserts, Deletes, Executed, KeysOf
  <2>3. CASE UNCHANGED applied
    BY <1>1, <2>3
  <2> QED BY <2>2, <2>3 DEF Next, vars, history, Insert, BatchSent, BatchRefused, End,
                EndReturns, Drop, ParentCancelled, Recv, SendBatchFails, TaskStops
<1> QED BY <1>1, <1>2, <1>3

\* ... and an operation that is held moves on, is executed or is recorded as lost.
LEMMA OwnerKeeps ==
  ASSUME IInv, StagesInv, NEW n \in Held \cup lost,
         BatchSent \/ BatchRefused \/ End \/ EndReturns \/ Drop \/ ParentCancelled
  PROVE  n \in (Held \cup lost)'
<1>1. CASE BatchSent
  <2>1. Queued' = Queued \cup Ops(outbox)
    BY <1>1, QueuedAppend DEF IInv, TypeOK, BatchSent
  <2> QED BY <1>1, <2>1 DEF BatchSent, Held, Ops, history
<1>2. CASE BatchRefused
  BY <1>2 DEF BatchRefused, Held, Queued, Ops
<1>3. CASE End \/ Drop
  <2>1. /\ UNCHANGED <<outbox, batches, inflight>>
        /\ lost' = lost \cup Ops(operations)
    BY <1>3 DEF End, Drop
  <2>2. Ops(outbox)' = Ops(outbox) /\ Queued' = Queued /\ Ops(inflight)' = Ops(inflight)
    BY <2>1 DEF Ops, Queued
  <2> QED BY <2>1, <2>2 DEF Held
<1>4. CASE EndReturns \/ ParentCancelled
  BY <1>4 DEF EndReturns, ParentCancelled, Held, Queued, Ops, history
<1> QED BY <1>1, <1>2, <1>3, <1>4

LEMMA TaskKeeps ==
  ASSUME IInv, StagesInv, NEW n \in DOMAIN log, n \in Held \cup lost,
         Recv \/ Upserts \/ Deletes \/ SendBatchFails \/ TaskStops
  PROVE  applied'[log[n].key] >= n \/ n \in (Held \cup lost)'
<1>0. /\ n \in Nat \ {0} /\ Keyed(inflight, log) /\ log[n].kind \in Kinds /\ log[n].key \in Keys
      /\ inflight \in [Keys -> Nat] /\ applied \in [Keys -> Nat]
  <2>1. log \in Seq([key : Keys, kind : Kinds])
    BY DEF IInv, TypeOK
  <2>2. DOMAIN log = 1..Len(log) /\ Len(log) \in Nat
    BY <2>1
  <2>3. n \in 1..Len(log) /\ n \in Nat \ {0}
    BY <2>2
  <2>4. log[n] \in [key : Keys, kind : Kinds]
    BY <2>1, <2>3, ElementOfSeq
  <2> QED BY <2>3, <2>4 DEF IInv, TypeOK, PipelineOrdered
<1>1. CASE Recv
  <2>1. Queued = Queued' \cup Ops(inflight') /\ inflight = NoOps
    BY <1>1, QueuedTail DEF IInv, Recv, Pending, StagesInv
  <2>2. Ops(inflight) = {}
    BY <2>1 DEF Ops, NoOps
  <2> QED BY <1>1, <2>1, <2>2 DEF Recv, Held, Ops, history
<1>2. CASE Upserts
  BY <1>2 DEF Upserts, Held, Queued, Ops
<1>3. CASE Deletes
  <2>1. CASE n \in Ops(inflight)
    <3>1. n = inflight[log[n].key]
      BY <1>0, <2>1 DEF Ops, Keyed
    <3>2. applied'[log[n].key] = n
      BY <1>0, <1>3, <3>1 DEF Deletes, Executed, KeysOf, StagesInv, Kinds
    <3> QED BY <1>0, <3>2
  <2>2. CASE n \notin Ops(inflight)
    BY <1>3, <2>2 DEF Deletes, Held, Queued, Ops
  <2> QED BY <2>1, <2>2
<1>4. CASE SendBatchFails
  <2>1. CASE n \in Ops(inflight)
    <3>1. n = inflight[log[n].key]
      BY <1>0, <2>1 DEF Ops, Keyed
    <3>2. CASE applied[log[n].key] < n
      BY <1>0, <1>4, <3>1, <3>2 DEF SendBatchFails
    <3>3. CASE applied[log[n].key] >= n
      BY <1>4, <3>3 DEF SendBatchFails
    <3> QED BY <1>0, <3>2, <3>3
  <2>2. CASE n \notin Ops(inflight)
    BY <1>4, <2>2 DEF SendBatchFails, Held, Queued, Ops
  <2> QED BY <2>1, <2>2
<1>5. CASE TaskStops
  BY <1>5 DEF TaskStops, Held, Ops
<1> QED BY <1>1, <1>2, <1>3, <1>4, <1>5

LEMMA InsertKeeps ==
  ASSUME IInv, StagesInv, NoSilentLoss, NEW k \in Keys, NEW kind \in Kinds, Insert(k, kind)
  PROVE  NoSilentLoss'
<1>0. Len(log) \in Nat
  BY DEF IInv, TypeOK
<1>a. PICK op \in Nat : op = Len(log) + 1
  BY <1>0
<1> DEFINE new == Put(operations, k, op)
<1>1. /\ log \in Seq([key : Keys, kind : Kinds]) /\ Len(log) \in Nat
      /\ DOMAIN log = 1..Len(log)
      /\ operations \in [Keys -> Nat] /\ Keyed(operations, log)
  BY DEF IInv, TypeOK, PipelineOrdered
<1>2. /\ Len(log') = op /\ DOMAIN log' = 1..op /\ log'[op].key = k
      /\ \A n \in DOMAIN log : log'[n] = log[n]
  BY <1>1, <1>a DEF Insert
<1>3. /\ UNCHANGED <<batches, inflight, applied, lost>>
      /\ \/ operations' = new /\ outbox' = outbox
         \/ operations' = NoOps /\ outbox' = new
      /\ outbox = NoOps
  BY <1>a DEF Insert, LeftBehind, StagesInv
<1>4. /\ Ops(new) \subseteq Held' /\ Ops(outbox) = {}
      /\ Queued' = Queued /\ Ops(inflight)' = Ops(inflight)
  <2>1. Ops(outbox) = {}
    BY <1>3 DEF Ops, NoOps
  <2>2. Queued' = Queued /\ Ops(inflight)' = Ops(inflight)
    BY <1>3 DEF Ops, Queued
  <2>3. Ops(new) = Ops(operations)' \/ Ops(new) = Ops(outbox)'
    BY <1>3 DEF Ops
  <2> QED BY <2>1, <2>2, <2>3 DEF Held
<1>5. op \in Ops(new) /\ OnRecord(op)'
  <2>1. op \in Ops(new)
    BY <1>1, <1>a DEF Ops, Put
  <2> QED BY <2>1, <1>4 DEF OnRecord
\* What was held is held, unless op has replaced it in the map.
<1>6. ASSUME NEW m \in DOMAIN log, OnRecord(m) PROVE OnRecord(m)' \/ log[m].key = k
  <2>1. CASE applied[log[m].key] >= m \/ m \in lost
    BY <2>1, <1>2, <1>3 DEF OnRecord
  <2>2. CASE m \in Queued \cup Ops(inflight)
    BY <2>2, <1>4 DEF OnRecord, Held
  <2>3. CASE m \in Ops(operations)
    <3>1. PICK j \in Keys : operations[j] = m /\ m # 0
      BY <2>3 DEF Ops
    <3>2. CASE j = k
      BY <1>1, <3>1, <3>2 DEF Keyed
    <3>3. CASE j # k
      <4>1. m \in Ops(new)
        BY <1>1, <3>1, <3>3 DEF Ops, Put
      <4> QED BY <4>1, <1>4 DEF OnRecord
    <3> QED BY <3>2, <3>3
  <2> QED BY <1>4, <1>6, <2>1, <2>2, <2>3 DEF OnRecord, Held
<1>7. ASSUME NEW n \in DOMAIN log
      PROVE  \E m \in n..op : log'[m].key = log'[n].key /\ OnRecord(m)'
  <2>1. PICK m \in n..Len(log) : log[m].key = log[n].key /\ OnRecord(m)
    BY <1>7 DEF NoSilentLoss
  <2>2. m \in DOMAIN log /\ m \in n..op /\ n \in Nat /\ op \in n..op
    BY <1>1, <1>a, <2>1
  <2>3. CASE OnRecord(m)'
    BY <1>2, <2>1, <2>2, <2>3
  <2>4. CASE log[m].key = k
    BY <1>2, <1>5, <2>1, <2>2, <2>4
  <2> QED BY <1>6, <2>1, <2>2, <2>3, <2>4
<1>8. \A n \in DOMAIN log' : n \in DOMAIN log \/ n = op
  BY <1>1, <1>2, <1>a
<1>9. \E m \in op..op : log'[m].key = log'[op].key /\ OnRecord(m)'
  BY <1>1, <1>5
<1> QED BY <1>2, <1>7, <1>8, <1>9 DEF NoSilentLoss

LEMMA OthersKeep ==
  ASSUME IInv, StagesInv, NoSilentLoss, [Next]_vars, UNCHANGED log,
         \A n \in DOMAIN log : n \in Held \cup lost
                                 => applied'[log[n].key] >= n \/ n \in (Held \cup lost)'
  PROVE  NoSilentLoss'
<1>1. \A m \in DOMAIN log : OnRecord(m) => OnRecord(m)'
  BY StaysExecuted DEF OnRecord
<1>2. \A n \in DOMAIN log : \A m \in n..Len(log) : m \in DOMAIN log
  BY DEF IInv, TypeOK
<1> QED BY <1>1, <1>2 DEF NoSilentLoss

LEMMA NextKeeps == IInv /\ StagesInv /\ NoSilentLoss /\ [Next]_vars => NoSilentLoss'
<1> SUFFICES ASSUME IInv, StagesInv, NoSilentLoss, [Next]_vars PROVE NoSilentLoss' OBVIOUS
<1>1. CASE \E k \in Keys, kind \in Kinds : Insert(k, kind)
  BY <1>1, InsertKeeps
<1>2. CASE BatchSent \/ BatchRefused \/ End \/ EndReturns \/ Drop \/ ParentCancelled
  <2>1. UNCHANGED log
    BY <1>2 DEF BatchSent, BatchRefused, End, EndReturns, Drop, ParentCancelled, history
  <2> QED BY <1>2, <2>1, OwnerKeeps, OthersKeep
<1>3. CASE Recv \/ Upserts \/ Deletes \/ SendBatchFails \/ TaskStops
  <2>1. UNCHANGED log
    BY <1>3 DEF Recv, Upserts, Deletes, SendBatchFails, TaskStops, history
  <2> QED BY <1>3, <2>1, TaskKeeps, OthersKeep
<1>4. CASE UNCHANGED vars
  <2>1. UNCHANGED log /\ (Held \cup lost)' = Held \cup lost
    BY <1>4 DEF vars, history, Held, Queued, Ops
  <2> QED BY <2>1, OthersKeep
<1> QED BY <1>1, <1>2, <1>3, <1>4 DEF Next

\* Every operation submitted, or one that replaced it before it was sent, is on
\* its way, has reached the table, or was dropped by one of the five actions
\* that record a loss: swap, channel, tasks and statements lose nothing by themselves.
THEOREM NoSilentLossCorrect == Spec => []NoSilentLoss
<1>1. Init => NoSilentLoss
  BY DEF Init, NoSilentLoss
<1> QED BY <1>1, NextKeeps, StagesCorrect, PTL DEF Spec

-----------------------------------------------------------------------------
(* Consistency between batches. *)

\* Operation j, or a later one of its key, is in the table; or taken from the
\* channel; or in one of its first i batches; or sent or about to be.
InTable(j) == applied[log[j].key] >= j
Taken(j) == InTable(j) \/ inflight[log[j].key] >= j
QueuedBy(j, i) == Taken(j) \/ \E h \in 1..i : batches[h][log[j].key] >= j
SentBy(j) == QueuedBy(j, Len(batches)) \/ outbox[log[j].key] >= j

\* Whatever is older than an operation of any key is no farther from the table.
Covered(j) ==
    /\ (\E k \in Keys : j <= applied[k] \/ j <= inflight[k]) => Taken(j)
    /\ \A i \in DOMAIN batches : (\E k \in Keys : j <= batches[i][k]) => QueuedBy(j, i)
    /\ (\E k \in Keys : j <= outbox[k]) => SentBy(j)
    /\ owner \in {"open", "sending"} => SentBy(j) \/ operations[log[j].key] >= j

Undisturbed == task # "stopped" /\ ~dbFailed
CoverInv == Undisturbed => \A j \in DOMAIN log : Covered(j)

LEMMA MapTypes ==
  ASSUME IInv
  PROVE  /\ log \in Seq([key : Keys, kind : Kinds]) /\ Len(log) \in Nat
         /\ applied \in [Keys -> Nat] /\ inflight \in [Keys -> Nat]
         /\ outbox \in [Keys -> Nat] /\ operations \in [Keys -> Nat]
         /\ batches \in Seq([Keys -> Nat]) /\ Len(batches) \in Nat
         /\ DOMAIN batches = 1..Len(batches) /\ DOMAIN log = 1..Len(log)
         /\ \A i \in DOMAIN batches : batches[i] \in [Keys -> Nat]
         /\ \A j \in DOMAIN log : j \in Nat \ {0} /\ log[j].key \in Keys
                                 /\ log[j].kind \in Kinds
<1>1. /\ log \in Seq([key : Keys, kind : Kinds]) /\ Len(log) \in Nat
      /\ DOMAIN log = 1..Len(log)
      /\ batches \in Seq([Keys -> Nat]) /\ Len(batches) \in Nat
      /\ DOMAIN batches = 1..Len(batches)
  BY DEF IInv, TypeOK
<1>2. \A i \in DOMAIN batches : batches[i] \in [Keys -> Nat]
  BY <1>1, ElementOfSeq
<1>3. \A j \in DOMAIN log : log[j] \in [key : Keys, kind : Kinds]
  BY <1>1, ElementOfSeq
<1>4. \A j \in DOMAIN log : j \in Nat \ {0}
  BY <1>1
<1> QED BY <1>1, <1>2, <1>3, <1>4 DEF IInv, TypeOK

\* No stage holds an operation that was not submitted.
LEMMA InLog ==
  ASSUME IInv, NEW m \in [Keys -> Nat], Keyed(m, log), NEW k \in Keys
  PROVE  m[k] <= Len(log)
<1>1. m[k] = 0 \/ m[k] \in 1..Len(log)
  BY MapTypes DEF Keyed
<1> QED BY <1>1, MapTypes

LEMMA InsertCovers ==
  ASSUME IInv, StagesInv, \A j \in DOMAIN log : Covered(j),
         NEW k \in Keys, NEW kind \in Kinds, Insert(k, kind)
  PROVE  \A j \in DOMAIN log' : Covered(j)'
<1>a. PICK op \in Nat : op = Len(log) + 1
  BY MapTypes
<1> DEFINE new == Put(operations, k, op)
<1>0. /\ UNCHANGED <<batches, inflight, applied>> /\ outbox = NoOps /\ owner = "open"
      /\ \/ operations' = new /\ outbox' = outbox /\ owner' = owner
         \/ operations' = NoOps /\ outbox' = new
  BY <1>a DEF Insert, LeftBehind, StagesInv
<1>1. /\ DOMAIN log' = 1..op /\ log'[op].key = k
      /\ \A j \in DOMAIN log : log'[j] = log[j]
  BY <1>a, MapTypes DEF Insert
<1>2. /\ new \in [Keys -> Nat] /\ new[k] = op
      /\ \A n \in Keys : new[n] = operations[n] \/ new[n] = op
  BY <1>a, MapTypes DEF Put
<1>3. \A n \in Keys : /\ applied[n] < op /\ inflight[n] < op
                      /\ \A i \in DOMAIN batches : batches[i][n] < op
  <2>1. /\ Keyed(applied, log) /\ Keyed(inflight, log)
        /\ \A i \in DOMAIN batches : Keyed(batches[i], log)
    BY DEF IInv, PipelineOrdered
  <2>2. ASSUME NEW m \in [Keys -> Nat], Keyed(m, log), NEW n \in Keys PROVE m[n] < op
    <3>1. m[n] <= Len(log)
      BY <2>2, InLog
    <3> QED BY <1>a, <3>1, MapTypes
  <2> QED BY <2>1, <2>2, MapTypes
<1>4. ASSUME NEW j \in DOMAIN log PROVE Covered(j)'
  <2>1. /\ log'[j] = log[j] /\ log[j].key \in Keys /\ j < op /\ j \in Nat \ {0} /\ Covered(j)
    BY <1>1, <1>4, <1>a, MapTypes
  <2>2. Taken(j)' <=> Taken(j)
    BY <1>0, <2>1 DEF Taken, InTable
  <2>3. \A i \in Nat : QueuedBy(j, i)' <=> QueuedBy(j, i)
    BY <1>0, <2>1, <2>2 DEF QueuedBy
  <2>4. SentBy(j) => QueuedBy(j, Len(batches))
    BY <1>0, <2>1 DEF SentBy, NoOps
  <2>5. QueuedBy(j, Len(batches)) \/ new[log[j].key] >= j
    BY <1>0, <1>2, <2>1, <2>4, <1>a DEF Covered
  <2>6. QueuedBy(j, Len(batches)) => SentBy(j)'
    BY <1>0, <2>3, MapTypes DEF SentBy
  <2>7. outbox' = outbox /\ (\E n \in Keys : j <= outbox'[n]) => SentBy(j)'
    BY <1>0, <2>1 DEF NoOps
  <2>8. outbox' = new => SentBy(j)'
    BY <2>1, <2>5, <2>6 DEF SentBy
  <2>9. SentBy(j)' \/ operations'[log'[j].key] >= j
    BY <1>0, <2>1, <2>5, <2>6, <2>8
  <2>10. (\E n \in Keys : j <= outbox'[n]) => SentBy(j)'
    BY <1>0, <2>7, <2>8
  <2>11. \A i \in DOMAIN batches' : (\E n \in Keys : j <= batches'[i][n]) => QueuedBy(j, i)'
    BY <1>0, <2>1, <2>3, MapTypes DEF Covered
  <2>12. (\E n \in Keys : j <= applied'[n] \/ j <= inflight'[n]) => Taken(j)'
    BY <1>0, <2>1, <2>2 DEF Covered
  <2> QED BY <2>9, <2>10, <2>11, <2>12 DEF Covered
<1>5. Covered(op)'
  <2>1. \A n \in Keys : ~(op <= applied'[n]) /\ ~(op <= inflight'[n])
    BY <1>0, <1>3, <1>a, MapTypes
  <2>2. \A i \in DOMAIN batches' : \A n \in Keys : ~(op <= batches'[i][n])
    BY <1>0, <1>3, <1>a, MapTypes
  <2>3. CASE operations' = new /\ outbox' = outbox
    <3>1. operations'[log'[op].key] >= op
      BY <1>1, <1>2, <1>a, <2>3
    <3>2. \A n \in Keys : ~(op <= outbox'[n])
      BY <1>0, <1>a, <2>3, MapTypes DEF NoOps
    <3> QED BY <2>1, <2>2, <3>1, <3>2 DEF Covered
  <2>4. CASE outbox' = new
    <3>1. SentBy(op)'
      BY <1>1, <1>2, <1>a, <2>4 DEF SentBy
    <3> QED BY <2>1, <2>2, <3>1 DEF Covered
  <2> QED BY <1>0, <2>3, <2>4
<1>6. \A j \in DOMAIN log' : j \in DOMAIN log \/ j = op
  BY <1>1, <1>a, MapTypes
<1> QED BY <1>4, <1>5, <1>6

LEMMA OwnerCovers ==
  ASSUME IInv, StagesInv, NEW j \in DOMAIN log, Covered(j), task # "stopped",
         BatchSent \/ BatchRefused \/ End \/ EndReturns \/ Drop \/ ParentCancelled
  PROVE  Covered(j)'
<1>0. log[j].key \in Keys /\ j \in Nat \ {0}
  BY MapTypes
<1>1. CASE BatchSent
  <2>0. PICK n \in Nat : n = Len(batches)
    BY MapTypes
  <2>1. /\ UNCHANGED <<log, applied, inflight, operations>> /\ outbox' = NoOps
        /\ owner = "sending"
        /\ batches' = Append(batches, outbox)
    BY <1>1 DEF BatchSent, history
  <2>2. /\ Len(batches') = n + 1 /\ DOMAIN batches' = 1..(n + 1)
        /\ batches'[n + 1] = outbox
        /\ \A i \in 1..n : batches'[i] = batches[i]
    BY <2>0, <2>1, MapTypes
  <2>3. Taken(j)' <=> Taken(j)
    BY <2>1 DEF Taken, InTable
  <2>4. ASSUME NEW i \in 1..n, QueuedBy(j, i) PROVE QueuedBy(j, i)'
    <3>1. \A h \in 1..i : batches'[h] = batches[h]
      BY <2>2
    <3> QED BY <2>1, <2>3, <2>4, <3>1 DEF QueuedBy
  <2>5. SentBy(j) => QueuedBy(j, n + 1)'
    BY <2>0, <2>1, <2>2, <2>3, MapTypes DEF QueuedBy, SentBy
  <2>6. SentBy(j) => SentBy(j)'
    BY <2>2, <2>5 DEF SentBy
  <2>7. \A k \in Keys : ~(j <= outbox'[k])
    BY <1>0, <2>1 DEF NoOps
  <2>8. ASSUME NEW i \in DOMAIN batches', \E k \in Keys : j <= batches'[i][k]
        PROVE  QueuedBy(j, i)'
    <3>1. CASE i \in 1..n
      BY <2>0, <2>2, <2>4, <2>8, <3>1, MapTypes DEF Covered
    <3>2. CASE i = n + 1
      BY <2>2, <2>5, <2>8, <3>2 DEF Covered
    <3> QED BY <2>2, <3>1, <3>2
  <2>9. (\E k \in Keys : j <= applied'[k] \/ j <= inflight'[k]) => Taken(j)'
    BY <2>1, <2>3 DEF Covered
  <2>10. SentBy(j)' \/ operations'[log'[j].key] >= j
    BY <2>1, <2>6 DEF Covered
  <2> QED BY <2>7, <2>8, <2>9, <2>10 DEF Covered
<1>2. CASE BatchRefused
  BY <1>2 DEF BatchRefused, ReceiverGone
<1>3. CASE End \/ EndReturns \/ Drop \/ ParentCancelled
  <2>1. /\ UNCHANGED <<log, applied, inflight, batches, outbox>>
        /\ owner' \in {"open", "sending"} => UNCHANGED <<owner, operations>>
    BY <1>3 DEF End, EndReturns, Drop, ParentCancelled, history
  <2>2. (SentBy(j)' <=> SentBy(j)) /\ (Taken(j)' <=> Taken(j))
        /\ \A i \in DOMAIN batches : QueuedBy(j, i)' <=> QueuedBy(j, i)
    BY <2>1 DEF SentBy, QueuedBy, Taken, InTable
  <2> QED BY <2>1, <2>2 DEF Covered
<1> QED BY <1>1, <1>2, <1>3

LEMMA RecvCovers ==
  ASSUME IInv, StagesInv, NEW j \in DOMAIN log, Covered(j), Recv
  PROVE  Covered(j)'
<1>0. log[j].key \in Keys /\ j \in Nat \ {0}
  BY MapTypes
<1>1. /\ UNCHANGED <<log, applied, outbox, operations, owner>> /\ inflight = NoOps
      /\ batches # <<>> /\ inflight' = Head(batches) /\ batches' = Tail(batches)
  BY DEF Recv, Pending, StagesInv, history
<1>2. /\ Len(batches) \in Nat \ {0} /\ inflight' = batches[1]
      /\ Len(batches') = Len(batches) - 1 /\ DOMAIN batches' = 1..(Len(batches) - 1)
      /\ \A i \in 1..(Len(batches) - 1) : batches'[i] = batches[i + 1]
      /\ 1 \in DOMAIN batches
  BY <1>1, MapTypes
<1>3. Taken(j) <=> InTable(j)
  BY <1>0, <1>1 DEF Taken, NoOps
<1>4. InTable(j)' <=> InTable(j)
  BY <1>1 DEF InTable
<1>5. QueuedBy(j, 1) <=> Taken(j)'
  BY <1>1, <1>2, <1>3, <1>4 DEF QueuedBy, Taken
<1>6. ASSUME NEW i \in 0..(Len(batches) - 1) PROVE QueuedBy(j, i + 1) => QueuedBy(j, i)'
  <2>1. SUFFICES ASSUME NEW h \in 1..(i + 1), batches[h][log[j].key] >= j
                 PROVE  QueuedBy(j, i)'
    BY <1>3, <1>4 DEF QueuedBy, Taken
  <2>2. CASE h = 1
    BY <1>1, <1>2, <2>1, <2>2 DEF QueuedBy, Taken
  <2>3. CASE h # 1
    <3>1. h - 1 \in 1..i /\ batches'[h - 1] = batches[h]
      BY <1>2, <1>6, <2>3
    <3> QED BY <1>1, <2>1, <3>1 DEF QueuedBy
  <2> QED BY <2>2, <2>3
<1>7. SentBy(j) => SentBy(j)'
  <2>1. PICK n \in Nat : n = Len(batches')
    BY <1>2
  <2>2. n \in 0..(Len(batches) - 1) /\ n + 1 = Len(batches)
    BY <1>2, <2>1
  <2>3. QueuedBy(j, Len(batches)) => QueuedBy(j, n)'
    BY <1>6, <2>2
  <2> QED BY <1>1, <2>1, <2>3 DEF SentBy
<1>8. ASSUME \E n \in Keys : j <= applied'[n] \/ j <= inflight'[n] PROVE Taken(j)'
  <2>1. CASE \E n \in Keys : j <= applied[n]
    BY <1>3, <1>4, <2>1 DEF Covered, Taken
  <2>2. CASE \E n \in Keys : j <= batches[1][n]
    BY <1>2, <1>5, <2>2 DEF Covered
  <2> QED BY <1>1, <1>2, <1>8, <2>1, <2>2
<1>9. ASSUME NEW i \in DOMAIN batches', \E n \in Keys : j <= batches'[i][n]
      PROVE  QueuedBy(j, i)'
  <2>1. i + 1 \in DOMAIN batches /\ batches'[i] = batches[i + 1] /\ i \in 0..(Len(batches) - 1)
    <3>1. DOMAIN batches = 1..Len(batches)
      BY MapTypes
    <3>2. i \in 1..(Len(batches) - 1) /\ i + 1 \in 1..Len(batches)
      BY <1>2, <1>9
    <3> QED BY <1>2, <3>1, <3>2
  <2>2. QueuedBy(j, i + 1)
    BY <1>9, <2>1 DEF Covered
  <2> QED BY <1>6, <2>1, <2>2
<1> QED BY <1>1, <1>7, <1>8, <1>9 DEF Covered

LEMMA WriteCovers ==
  ASSUME IInv, StagesInv, NEW j \in DOMAIN log, Covered(j), Upserts \/ Deletes
  PROVE  Covered(j)'
<1>0. log[j].key \in Keys /\ j \in Nat \ {0}
  BY MapTypes
<1>1. UNCHANGED <<log, batches, outbox, operations, owner>>
  BY DEF Upserts, Deletes
<1>2. \A n \in Keys : /\ applied'[n] = applied[n] \/ (applied'[n] = inflight[n] /\ inflight[n] # 0)
                      /\ inflight'[n] = inflight[n] \/ inflight'[n] = 0
                      /\ applied'[n] \in Nat
  BY MapTypes DEF Upserts, Deletes, Executed, KeysOf, NoOps
<1>3. \A n \in Keys : applied'[n] >= applied[n]
  <2>1. \A n \in Keys : inflight[n] # 0 => applied[n] < inflight[n] \/ applied[n] = inflight[n]
    BY DEF IInv, PipelineOrdered
  <2>2. ASSUME NEW n \in Keys PROVE applied'[n] >= applied[n]
    <3>1. applied[n] \in Nat /\ inflight[n] \in Nat
      BY MapTypes
    <3> QED BY <1>2, <2>1, <3>1
  <2> QED BY <2>2
<1>4. Taken(j) => Taken(j)'
  <2>1. CASE InTable(j)
    <3>1. applied'[log[j].key] >= applied[log[j].key] /\ applied[log[j].key] >= j
      BY <1>0, <1>3, <2>1 DEF InTable
    <3>2. applied'[log[j].key] \in Nat /\ applied[log[j].key] \in Nat
      BY <1>0, <1>2, MapTypes
    <3>3. applied'[log[j].key] >= j
      BY <1>0, <3>1, <3>2
    <3> QED BY <1>1, <3>3 DEF Taken, InTable
  <2>2. CASE inflight[log[j].key] >= j /\ Upserts
    BY <1>1, <2>2 DEF Taken, Upserts
  <2>3. CASE inflight[log[j].key] >= j /\ Deletes
    <3> DEFINE k == log[j].key
    <3>0. k \in Keys /\ inflight[k] \in Nat /\ inflight[k] >= j
      BY <1>0, <2>3, MapTypes
    <3>1. k \in Keys /\ inflight[k] # 0 /\ Keyed(inflight, log)
      BY <1>0, <3>0 DEF IInv, PipelineOrdered
    <3>2. log[inflight[k]].kind \in {"Upsert", "Delete"}
      BY <3>1, MapTypes DEF Keyed, Kinds
    <3>3. applied'[k] = inflight[k]
      <4>1. CASE log[inflight[k]].kind = "Delete"
        BY <2>3, <3>1, <4>1 DEF Deletes, Executed, KeysOf
      <4>2. CASE log[inflight[k]].kind = "Upsert"
        <5>1. applied[k] = inflight[k]
          BY <2>3, <3>1, <4>2 DEF Deletes, StagesInv
        <5> QED BY <1>2, <3>1, <5>1
      <4> QED BY <3>2, <4>1, <4>2
    <3> QED BY <1>1, <2>3, <3>3 DEF Taken, InTable
  <2> QED BY <2>1, <2>2, <2>3 DEF Taken
<1>5. \A i \in Nat : QueuedBy(j, i) => QueuedBy(j, i)'
  BY <1>1, <1>4 DEF QueuedBy
<1>6. SentBy(j) => SentBy(j)'
  BY <1>1, <1>5, MapTypes DEF SentBy
<1>7. ASSUME \E n \in Keys : j <= applied'[n] \/ j <= inflight'[n] PROVE Taken(j)'
  <2>1. \E n \in Keys : j <= applied[n] \/ j <= inflight[n]
    BY <1>0, <1>2, <1>7
  <2> QED BY <1>4, <2>1 DEF Covered
<1>8. ASSUME NEW i \in DOMAIN batches', \E n \in Keys : j <= batches'[i][n]
      PROVE  QueuedBy(j, i)'
  BY <1>1, <1>5, <1>8, MapTypes DEF Covered
<1> QED BY <1>1, <1>6, <1>7, <1>8 DEF Covered

LEMMA NextCovers == IInv /\ StagesInv /\ CoverInv /\ [Next]_vars => CoverInv'
<1> SUFFICES ASSUME IInv, StagesInv, CoverInv, [Next]_vars, Undisturbed'
             PROVE  \A j \in DOMAIN log' : Covered(j)'
  BY DEF CoverInv
<1>1. CASE \E k \in Keys, kind \in Kinds : Insert(k, kind)
  <2>1. Undisturbed
    BY <1>1 DEF Insert, Undisturbed
  <2> QED BY <1>1, <2>1, InsertCovers DEF CoverInv
<1>2. CASE BatchSent \/ BatchRefused \/ End \/ EndReturns \/ Drop \/ ParentCancelled
  <2>0. UNCHANGED <<task, dbFailed, log>>
    BY <1>2 DEF BatchSent, BatchRefused, End, EndReturns, Drop, ParentCancelled, history
  <2>1. Undisturbed /\ UNCHANGED log
    BY <2>0 DEF Undisturbed
  <2>2. task # "stopped"
    BY <2>1 DEF Undisturbed
  <2> QED BY <1>2, <2>1, <2>2, OwnerCovers DEF CoverInv
<1>3. CASE Recv
  <2>1. Undisturbed /\ UNCHANGED log
    BY <1>3 DEF Undisturbed, Recv, history
  <2> QED BY <1>3, <2>1, RecvCovers DEF CoverInv
<1>4. CASE Upserts \/ Deletes
  <2>1. Undisturbed /\ UNCHANGED log
    BY <1>4 DEF Undisturbed, Upserts, Deletes
  <2> QED BY <1>4, <2>1, WriteCovers DEF CoverInv
<1>5. CASE SendBatchFails \/ TaskStops
  BY <1>5 DEF SendBatchFails, TaskStops, Undisturbed
<1>6. CASE UNCHANGED vars
  <2>1. Undisturbed /\ UNCHANGED log
    BY <1>6 DEF Undisturbed, vars, history
  <2>2. \A j \in DOMAIN log : Covered(j)' <=> Covered(j)
    BY <1>6 DEF vars, history, Covered, SentBy, QueuedBy, Taken, InTable
  <2> QED BY <2>1, <2>2 DEF CoverInv
<1> QED BY <1>1, <1>2, <1>3, <1>4, <1>5, <1>6 DEF Next

\* A set of naturals with a bound has a greatest element.
LEMMA Greatest ==
  ASSUME NEW T \in SUBSET Nat, T # {}, NEW b \in Nat, \A x \in T : x <= b
  PROVE  \E m \in T : \A x \in T : x <= m
<1> DEFINE Above(x) == (x + 1)..b
           W == {Above(x) : x \in T}
<1>1. W \subseteq FiniteSubsetsOf(Nat) /\ W # {}
  <2>1. ASSUME NEW x \in T PROVE Above(x) \in SUBSET Nat /\ IsFiniteSet(Above(x))
    BY FS_Interval
  <2> QED BY <2>1 DEF FiniteSubsetsOf
<1>2. IsWellFoundedOn(StrictSubsetOrdering(Nat), FiniteSubsetsOf(Nat))
  BY FS_StrictSubsetOrderingWellFounded
<1>3. PICK V \in W : \A U \in W : <<U, V>> \notin StrictSubsetOrdering(Nat)
  <2> HIDE DEF W
  <2> QED BY <1>1, <1>2, WFMin
<1>4. PICK m \in T : V = Above(m)
  OBVIOUS
<1>5. ASSUME NEW x \in T PROVE x <= m
  <2> SUFFICES ASSUME ~(x <= m) PROVE FALSE
    OBVIOUS
  <2>1. /\ Above(x) \subseteq Above(m) /\ x \in Above(m) /\ x \notin Above(x)
        /\ Above(x) \in SUBSET Nat /\ Above(m) \in SUBSET Nat
    OBVIOUS
  <2>2. <<Above(x), Above(m)>> \in StrictSubsetOrdering(Nat)
    <3> HIDE DEF Above
    <3> QED BY <2>1 DEF StrictSubsetOrdering
  <2> QED BY <1>3, <1>4, <2>2
<1> QED BY <1>5

\* Between two batches the table is, as a whole, the table after some prefix of
\* the operations: what one operation shows, all older ones have shown.
LEMMA CoveredIsConsistent == IInv /\ StagesInv /\ CoverInv => ConsistentBetweenBatches
<1> SUFFICES ASSUME IInv, StagesInv, CoverInv, task = "idle", ~dbFailed
             PROVE  \E n \in 0..Len(log) : \A k \in Keys : NewestOf(applied[k], k, n)
  BY DEF ConsistentBetweenBatches
<1>1. ASSUME NEW j \in DOMAIN log, NEW k \in Keys, j <= applied[k]
      PROVE  applied[log[j].key] >= j
  <2>1. Taken(j) /\ inflight = NoOps
    BY <1>1 DEF CoverInv, Undisturbed, Covered, StagesInv
  <2> QED BY <2>1, MapTypes DEF Taken, InTable, NoOps
<1>2. CASE Keys = {}
  BY <1>2, MapTypes
<1>3. CASE Keys # {}
  <2> DEFINE T == {applied[k] : k \in Keys}
  <2>1. T \in SUBSET Nat /\ T # {}
    BY <1>3, MapTypes
  <2>2. \A x \in T : x <= Len(log)
    BY InLog, MapTypes DEF IInv, PipelineOrdered
  <2>3. PICK n \in T : \A x \in T : x <= n
    <3> HIDE DEF T
    <3> QED BY <2>1, <2>2, Greatest, MapTypes
  <2>4. n \in 0..Len(log)
    BY <2>1, <2>2, MapTypes
  <2>5. ASSUME NEW k \in Keys PROVE NewestOf(applied[k], k, n)
    <3>1. applied[k] <= n /\ applied[k] \in Nat
      BY <2>3, MapTypes
    <3>2. ASSUME NEW j \in (applied[k] + 1)..n PROVE log[j].key # k
      <4>1. j \in DOMAIN log /\ j > applied[k] /\ j <= n
        <5>1. DOMAIN log = 1..Len(log) /\ Len(log) \in Nat
          BY MapTypes
        <5> HIDE DEF T
        <5> QED BY <2>4, <3>1, <3>2, <5>1
      <4>2. PICK l \in Keys : n = applied[l]
        OBVIOUS
      <4> QED BY <1>1, <3>1, <4>1, <4>2
    <3> QED BY <3>1, <3>2 DEF NewestOf
  <2> QED BY <2>4, <2>5
<1> QED BY <1>2, <1>3

LEMMA InitCovers == Init => CoverInv
  BY DEF Init, CoverInv

\* A reader between two batches sees the whole table as it was after some prefix
\* of the operations, for every batch size: neither the map that keeps one
\* operation per key nor upserts written before deletions show through.
THEOREM ConsistencyCorrect == Spec => []ConsistentBetweenBatches
  BY InitCovers, NextCovers, CoveredIsConsistent, StagesCorrect, PTL DEF Spec

-----------------------------------------------------------------------------
\* What holds of the steps alone, without their fairness: for systems of which
\* the batcher is a part.
LEMMA SafeWithoutFairness ==
  Init /\ [][Next]_vars =>
      /\ [](TypeOK /\ PipelineOrdered /\ NoSilentLoss /\ LossNeedsFault)
      /\ []ConsistentBetweenBatches
      /\ Table!Spec
<1>1. Init => IInv /\ StagesInv /\ LossNeedsFault /\ NoSilentLoss /\ Table!Init
  <2>1. Init => IInv
    BY InitType, InitOrdered DEF IInv
  <2>2. Init => StagesInv
    BY DEF Init, StagesInv, NoOps
  <2> QED BY <2>1, <2>2 DEF Init, LossNeedsFault, NoSilentLoss, NoOps, Table!Init
<1>2. IInv => TypeOK /\ PipelineOrdered
  BY DEF IInv
<1>3. IInv /\ [Next]_vars => [Table!Next]_(Table!vars)
  BY StepRefines
<1> QED BY <1>1, <1>2, <1>3, NextOrdered, NextStages, LossStep, NextKeeps, InitCovers,
           NextCovers,
           CoveredIsConsistent, PTL DEF Table!Spec

=============================================================================
