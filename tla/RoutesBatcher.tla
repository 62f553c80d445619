---------------------------- MODULE RoutesBatcher ----------------------------
(***************************************************************************)
(* crates/db/src/batcher/routes.rs: the writer of the routes table.  The   *)
(* owner of a RoutesBatcher collects operations in a map keyed by (prefix, *)
(* peer_ip, host); a full map is sent over a bounded channel to a task     *)
(* that writes it with two SQL statements outside of a transaction.        *)
(*                                                                         *)
(* An operation is the index of its entry in the history log; 0 means "no  *)
(* entry".  A map of operations is a function from Keys to operations.     *)
(***************************************************************************)
EXTENDS Naturals, Sequences, FiniteSets

CONSTANTS Keys,           \* (prefix, peer_ip, host), the UNIQUE columns of routes
          SmallBatchSize, \* SMALL_BATCH_SIZE, the operations that fill a batch
          ChannelCap,     \* capacity of the channel of batches
          MaxOps,         \* bound on the operations submitted in a behaviour
          NoRow           \* the key has no row

ASSUME BatcherAssumption ==
    /\ SmallBatchSize \in Nat \ {0}
    /\ ChannelCap \in Nat \ {0}
    /\ MaxOps \in Nat
    /\ NoRow \notin Nat

VARIABLES
    log,        \* history: the operations submitted, [key, kind]
    operations, \* RoutesBatcher.operations
    outbox,     \* the map batch() is sending (its send future)
    batches,    \* the channel between the owner and the task
    inflight,   \* the batch in send_batch
    task,       \* "idle" (at recv), "upserting", "deleting" (in send_batch), "stopped"
    owner,      \* "open", "sending" (in batch), "ending" (in end), "ended", "dropped"
    cancelled,  \* the task's context is cancelled
    routes,     \* the table: the operation that wrote the row, or NoRow
    applied,    \* history: per key, the last operation executed on the table
    lost,       \* history: operations dropped before they were executed
    dbFailed    \* history: some send_batch returned an error

history == <<log, applied, lost, dbFailed>>
vars == <<operations, outbox, batches, inflight, task, owner, cancelled, routes, history>>

Kinds == {"Upsert", "Delete"}
NoOps == [k \in Keys |-> 0]

\* The operations in a map, and in all the maps of the channel.
Ops(m) == {m[k] : k \in Keys} \ {0}
Queued == UNION {Ops(batches[i]) : i \in DOMAIN batches}

-----------------------------------------------------------------------------
Init ==
    /\ log = <<>>
    /\ operations = NoOps /\ outbox = NoOps /\ inflight = NoOps
    /\ batches = <<>>
    /\ task = "idle" /\ owner = "open" /\ cancelled = FALSE
    /\ routes \in [Keys -> {0, NoRow}]   \* 0: a row written before
    /\ applied = NoOps
    /\ lost = {} /\ dbFailed = FALSE

-----------------------------------------------------------------------------
(* The owner. *)

\* HashMap::insert: the operation replaces a pending one of its key.
PutFirstWins(m, k, op) == IF m[k] = 0 THEN [m EXCEPT ![k] = op] ELSE m
Put(m, k, op) == [m EXCEPT ![k] = op]

\* std::mem::swap leaves an empty map behind.
LeftBehindCopy(m) == m
LeftBehind(m) == NoOps

IsFull(m) == Cardinality({k \in Keys : m[k] # 0}) >= SmallBatchSize

\* upsert and delete: the map that reaches SMALL_BATCH_SIZE is swapped for an
\* empty one, which batch() then sends.
Insert(k, kind) ==
    LET new == Put(operations, k, Len(log) + 1)
    IN  /\ owner = "open"
        /\ Len(log) < MaxOps
        /\ log' = Append(log, [key |-> k, kind |-> kind])
        /\ \/ ~IsFull(new) /\ operations' = new /\ UNCHANGED <<outbox, owner>>
           \/ IsFull(new) /\ operations' = LeftBehind(new) /\ outbox' = new
              /\ owner' = "sending"
        /\ UNCHANGED <<batches, inflight, task, cancelled, routes, applied, lost, dbFailed>>

\* Capacity of the channel, and the receiver being dropped with its task.
HasRoomAlways == TRUE
HasRoom == Len(batches) < ChannelCap
ReceiverGoneNever == FALSE
ReceiverGoneOrFull == task = "stopped" \/ ~HasRoom
ReceiverGone == task = "stopped"

\* batch: send().await completes once the channel has room ...
BatchSent ==
    /\ owner = "sending" /\ ~ReceiverGone /\ HasRoom
    /\ batches' = Append(batches, outbox)
    /\ outbox' = NoOps /\ owner' = "open"
    /\ UNCHANGED <<operations, inflight, task, cancelled, routes, history>>

\* ... or fails when the receiver is gone: the batch is dropped with the error.
BatchRefused ==
    /\ owner = "sending" /\ ReceiverGone
    /\ lost' = lost \cup Ops(outbox)
    /\ outbox' = NoOps /\ owner' = "open"
    /\ UNCHANGED <<operations, batches, inflight, task, cancelled, routes, log, applied, dbFailed>>

\* end: cancels the task's context and waits for the task; self is consumed,
\* and the operations still in its map with it.
End ==
    /\ owner = "open"
    /\ owner' = "ending" /\ cancelled' = TRUE
    /\ lost' = lost \cup Ops(operations) /\ operations' = NoOps
    /\ UNCHANGED <<outbox, batches, inflight, task, routes, log, applied, dbFailed>>

EndReturns ==
    /\ owner = "ending" /\ task = "stopped"
    /\ owner' = "ended"
    /\ UNCHANGED <<operations, outbox, batches, inflight, task, cancelled, routes, history>>

\* The owner returns early with an error: the batcher is dropped without end,
\* its sender with it.  Dropping the handler may cancel the context.
Drop ==
    /\ owner = "open"
    /\ owner' = "dropped" /\ cancelled' \in {cancelled, TRUE}
    /\ lost' = lost \cup Ops(operations) /\ operations' = NoOps
    /\ UNCHANGED <<outbox, batches, inflight, task, routes, log, applied, dbFailed>>

\* The parent of the task's context is cancelled: the service shuts down.
ParentCancelled ==
    /\ ~cancelled /\ cancelled' = TRUE
    /\ UNCHANGED <<operations, outbox, batches, inflight, task, owner, routes, history>>

-----------------------------------------------------------------------------
(* The task. *)

PendingOffByOne == Len(batches) > 1
Pending == batches # <<>>

\* recv() yields a batch, which is handed to send_batch.
Recv ==
    /\ task = "idle" /\ Pending
    /\ inflight' = Head(batches) /\ batches' = Tail(batches)
    /\ task' = "upserting"
    /\ UNCHANGED <<operations, outbox, owner, cancelled, routes, history>>

\* The keys of a batch one of the two statements names.
KeysOfAny(m, kind) == {k \in Keys : m[k] # 0}
KeysOf(m, kind) == {k \in Keys : m[k] # 0 /\ log[m[k]].kind = kind}

Executed(m, ks) == applied' = [k \in Keys |-> IF k \in ks THEN m[k] ELSE applied[k]]

\* INSERT ... ON CONFLICT DO UPDATE of every upsert in the batch.
Upserts ==
    LET ks == KeysOf(inflight, "Upsert")
    IN  /\ task = "upserting"
        /\ routes' = [k \in Keys |-> IF k \in ks THEN inflight[k] ELSE routes[k]]
        /\ Executed(inflight, ks)
        /\ task' = "deleting"
        /\ UNCHANGED <<operations, outbox, batches, inflight, owner, cancelled, log, lost, dbFailed>>

\* DELETE of every deletion in the batch, a second transaction.
Deletes ==
    LET ks == KeysOf(inflight, "Delete")
    IN  /\ task = "deleting"
        /\ routes' = [k \in Keys |-> IF k \in ks THEN NoRow ELSE routes[k]]
        /\ Executed(inflight, ks)
        /\ task' = "idle" /\ inflight' = NoOps
        /\ UNCHANGED <<operations, outbox, batches, owner, cancelled, log, lost, dbFailed>>

\* send_batch returns an error (no connection, or the statement fails): it is
\* logged, the rest of the batch is gone and the task goes on.  In "deleting"
\* this is also the upsert statement that took effect and reported an error.
SendBatchFails ==
    /\ task \in {"upserting", "deleting"}
    /\ lost' = lost \cup {inflight[k] : k \in {j \in Keys : applied[j] < inflight[j]}}
    /\ dbFailed' = TRUE
    /\ task' = "idle" /\ inflight' = NoOps
    /\ UNCHANGED <<operations, outbox, batches, owner, cancelled, routes, log, applied>>

\* recv().with_context(&ctx) ends the loop: the context is cancelled (batches
\* may still be queued), or the sender is dropped and the channel is drained.
MayStopWhenIdle == cancelled \/ ~Pending
MayStop == cancelled \/ (owner = "dropped" /\ ~Pending)

TaskStops ==
    /\ task = "idle" /\ MayStop
    /\ task' = "stopped"
    /\ lost' = lost \cup Queued /\ batches' = <<>>
    /\ UNCHANGED <<operations, outbox, inflight, owner, cancelled, routes, log, applied, dbFailed>>

-----------------------------------------------------------------------------
Next ==
    \/ \E k \in Keys, kind \in Kinds : Insert(k, kind)
    \/ BatchSent \/ BatchRefused
    \/ End \/ EndReturns \/ Drop \/ ParentCancelled
    \/ Recv \/ Upserts \/ Deletes \/ SendBatchFails \/ TaskStops

\* The runtime polls every ready future and each SQL statement returns; nobody
\* is obliged to submit, to end the batcher or to cancel.
Fairness ==
    /\ WF_vars(BatchSent) /\ WF_vars(BatchRefused) /\ WF_vars(EndReturns)
    /\ WF_vars(Recv) /\ WF_vars(Upserts \/ Deletes \/ SendBatchFails) /\ WF_vars(TaskStops)

Spec == Init /\ [][Next]_vars /\ Fairness

-----------------------------------------------------------------------------
(* Properties. *)

TypeOK ==
    /\ log \in Seq([key : Keys, kind : Kinds])
    /\ operations \in [Keys -> Nat] /\ outbox \in [Keys -> Nat] /\ inflight \in [Keys -> Nat]
    /\ batches \in Seq([Keys -> Nat]) /\ Len(batches) <= ChannelCap
    /\ task \in {"idle", "upserting", "deleting", "stopped"}
    /\ owner \in {"open", "sending", "ending", "ended", "dropped"}
    /\ cancelled \in BOOLEAN /\ dbFailed \in BOOLEAN
    /\ routes \in [Keys -> Nat \cup {NoRow}] /\ applied \in [Keys -> Nat]
    /\ lost \in SUBSET Nat

\* Every operation of the map m is one of the history l, under its own key.
Keyed(m, l) == \A k \in Keys : m[k] # 0 => m[k] \in DOMAIN l /\ l[m[k]].key = k

\* The operation n holds for a key is newer than the one m holds for it.
Older(m, n) == \A k \in Keys : n[k] # 0 => m[k] < n[k]

\* The pipeline is ordered: of the operations of a key, those nearer to the
\* table were submitted earlier, and every operation sits under its own key
\* (swap in batch(), the FIFO channel, one task that writes one batch at a time).
PipelineOrdered ==
    /\ Keyed(applied, log) /\ Keyed(inflight, log) /\ Keyed(outbox, log) /\ Keyed(operations, log)
    /\ Older(applied, outbox) /\ Older(inflight, outbox)
    /\ Older(applied, operations) /\ Older(inflight, operations) /\ Older(outbox, operations)
    /\ \A k \in Keys : inflight[k] # 0 =>
          \/ applied[k] < inflight[k]
          \/ task = "deleting" /\ applied[k] = inflight[k] /\ log[inflight[k]].kind = "Upsert"
    /\ \A i \in DOMAIN batches :
          /\ Keyed(batches[i], log)
          /\ Older(applied, batches[i]) /\ Older(inflight, batches[i])
          /\ Older(batches[i], outbox) /\ Older(batches[i], operations)
          /\ \A j \in 1..(i - 1) : Older(batches[j], batches[i])

\* Operation n is on its way, executed (or overtaken in the table), or in lost.
Held == Ops(operations) \cup Ops(outbox) \cup Queued \cup Ops(inflight)
OnRecord(n) == applied[log[n].key] >= n \/ n \in Held \cup lost

\* No operation vanishes unnoticed: it, or a later one of its key that
\* replaced it in the map, is on record.
NoSilentLoss ==
    \A n \in DOMAIN log : \E m \in n..Len(log) : log[m].key = log[n].key /\ OnRecord(m)

\* While the service runs undisturbed nothing is lost: a batch is dropped only
\* after a database error, a cancellation or the end of the owner.
LossNeedsFault == lost # {} => dbFailed \/ cancelled \/ owner = "dropped"

\* Operation n has been submitted for key k.
IsOf(n, k) == n \in DOMAIN log /\ log[n].key = k

\* Operation i is the newest one of key k among the first n.
NewestOf(i, k, n) == /\ i <= n
                     /\ \A j \in (i + 1)..n : log[j].key # k

\* Between two batches, and as long as no write failed, the whole table is the
\* table a router had after some prefix of the updates: coalescing, and writing
\* the upserts of a batch before its deletions, are invisible to a reader.
ConsistentBetweenBatches ==
    task = "idle" /\ ~dbFailed =>
        \E n \in 0..Len(log) : \A k \in Keys : NewestOf(applied[k], k, n)

\* A reader of the table sees each key move forward only, to states that
\* operations of that key produced (RoutingTable).
Table == INSTANCE RoutingTable
ImplementsRoutingTable == Table!Spec

\* A batch the channel accepted reaches the table, or its loss is on record.
SentBatchesLand ==
    \A n \in 1..MaxOps :
        n \in Queued ~>
            n \in lost \/ \E k \in Keys : IsOf(n, k) /\ applied[k] >= n

\* "alle empfangenen UPDATE-Nachrichten auf die lokale Routing-Tabelle
\* anzuwenden" (docs/paper/6_implementation.typ:87), for a batcher that was
\* ended without any database error.  The code does not do it: end() drops the
\* map that is not full yet.
EndWritesEverything == owner = "ended" /\ ~dbFailed => lost = {}
=============================================================================
