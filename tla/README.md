# Formal models of bgp-hijacking-detection

TLA+ models of the programs under `crates/`, checked with TLC, and proofs about
them checked with TLAPS. Every definition is a translation of the Rust code;
`PROJECT.json` maps each one to its lines.

## The system

    RIS Live ──ws──> RisWatcher ──channel──> main loop ──> EventBatcher ──> ClickHouse: events
                                                │
    RIPE archives ──> seeding ──────────────────┴──> RoutesBatcher ─> Postgres: routes
                                                                          │
                                           moas_analysis, detection <─────┘ ──> moas

| part (crate) | state | operations | calls |
|---|---|---|---|
| ingest: seeding | newest row, current archive, download cache | `seed`, `process_bview`, `process_updates`, `download_file` | RouteInsertBatcher, both batchers |
| ingest: RIS Live watcher | connection, `tries`, `last_try` | reconnect loop, `watch_messages`, `process_message` | channel to the main loop, the global context |
| ingest: main loop | the message in hand | `recv`, `handle_message`, shutdown | both batchers |
| ingest: UPDATE handling | none | `handle_message`; `bgpkit_elem_into_event`, `Event::normalize` | |
| db: RoutesBatcher | map of operations, channel, batch being written | `upsert`, `delete`, `batch`, `end`, the writing task | Postgres |
| db: EventBatcher | channel, the inserter's rows | `insert`, `end`, the inserter task | ClickHouse |
| db: RouteInsertBatcher | rows to COPY | `insert`, `finish` | Postgres |
| detection, db: MoasRoutesFetcher | notifications, prefixes to look up, conflicts to store | `listen_for_bgp_updates`, `fetch`, `upsert_moas_stream` | Postgres |
| moas_analysis | candidates, scan tasks | one pass over `routes`, upsert into `moas`, zmap scans | Postgres |
| events_migrator, profiling, config and globals | | one-off copy, heap profiles, start-up | |

What is hard about it, in short (`PROJECT.json` "hazards" has every place):

* *Order.* Operations of one route are coalesced in a map, sent in batches, and
  a batch is written upserts first, in two statements without a transaction.
* *Failure of a part.* A batch, a row or a commit may fail alone; a failed event
  write can make the next one panic and take its task with it.
* *Termination.* A task ends when a context is cancelled, when its peer is gone
  or never; callers may be waiting on its full channel.
* *Restarts.* The table itself is the only record of how far seeding has come.
* *Two implementations of one thing.* An UPDATE is interpreted by two pieces of
  code, one for RIS Live and one for archives.

What makes each part correct:

* the writers never reorder, duplicate or silently lose what they accepted, and
  nobody waits on them forever;
* the table only shows meaningful routes, follows the peers' announcements and
  is never ahead of the recorded events;
* the watcher delivers messages in order, gives up exactly when it should, and stops;
* a seeding ends, never takes a row back, and what it leaves out is known;
* an analysis records conflicts that were there, misses none that lasts, and
  accounts for its scans; detection carries a notified conflict to its upsert.

## Modules

`RoutingTable` is the abstract specification of the table's writer, which
`RoutesBatcher` implements (`ImplementsRoutingTable`); `Seeding` uses the same
promise for its writes. `Ingest` composes `EventBatcher` and `RoutesBatcher` with
the main loop by INSTANCE: the loop takes their owner's steps, their tasks take
their own. `RisWatcher` and `Ingest` are each other's environment: the one fills the
channel that the other empties. `MoasAnalysis` runs next to the writer of the table it
reads, reduced to what a reader sees of `RoutesBatcher`: collected operations that become
visible in two statements, or are lost before the first or the second one. `Detection` reads the same table through one query.

| module | models | how |
|---|---|---|
| `RoutesBatcher` | `db/src/batcher/routes.rs:17-202` | A map of operations is a function from keys to the number of the operation. `Insert` is `upsert` and `delete` up to the point where `batch` waits; `BatchSent`/`BatchRefused` are the two ends of that wait. The task is `Recv`, `Upserts`, `Deletes`, with `SendBatchFails` between any two of them, and `TaskStops`. |
| `EventBatcher` | `db/src/batcher/events.rs` | One action per branch of the task's `select!` and outcome of the inserter. The `clickhouse` crate is external: a write after a failed write fails again or panics, a failed commit may have stored some rows. |
| `UpdateHandling` | `ingest/src/service/handler.rs`, `bgp.rs`, `ripe_ris/archived.rs:75-129` | Both readings of an UPDATE as operators on the sets of announced and withdrawn prefixes, run side by side with the peer's own announcements (`rib`), and the end of the session, which both ignore. Origins are sets: `dedup()` and order are left out. |
| `RisWatcher` | `ingest/src/service.rs:37-78`, `ripe_ris/live.rs:38-110` | Frames on the wire are numbers, 0 for one that cannot be processed. Time is one bit: a minute has passed since `last_try`. Pings are left out. |
| `Ingest` | `ingest/src/service.rs:80-104`, calls in `handler.rs` | A message is the sequence of its operations; each is an event, then a route. |
| `Seeding` | `ingest/src/service/seeding.rs`, `archived.rs:17-73`, `archived/file_names.rs`, `RouteInsertBatcher`, `last_route_timestamp` | Time in slots of five minutes; a row is the UPDATE it shows and its `updated_at`. A stop is a crash, an error that `run` returns, or a cancellation. |
| `MoasAnalysis` | `moas_analysis/src/service.rs`; `db/src/batcher/routes.rs` as its environment | A pass is `QueryMoas`, `QueryRoutes` (or `Panic`), `Record`, `Select`, then one small machine per scan task. A route is its origins and the AS numbers on its path. Times are left out: which prefixes are the newest is open. |
| `Detection` | `detection/src/service.rs`, `db/src/lib.rs:49-128`, `MoasRoutesFetcher` | Three tasks: the listener, `run` and the upserter, with two unbounded channels and the context they share. Whether an upsert is accepted follows from the columns of the migration. |
| `MCIngest`, `MCMoasAnalysis` | | values of constants for TLC |
| `RoutesBatcherProofs`, `EventBatcherProofs`, `UpdateHandlingProofs`, `RisWatcherProofs`, `IngestProofs`, `SeedingProofs`, `MoasAnalysisProofs`, `DetectionProofs` | | theorems, each about the module it is named after |

The operators named like a definition with a suffix (`HasRoomAlways`,
`PutFirstWins`, ...) are plausible mistakes in it. They are used by no behaviour; each
property is known to fail when one of them replaces the definition (`PROJECT.json`
"mutants").

## Runs

Violated properties are written down as findings; all others hold.

| run | bounds | states | what it shows |
|---|---|---|---|
| `routes_batcher` | 2 keys, batches of 2, channel of 1, 5 operations | 246,000 | see below |
| `event_batcher` | channel of 2, 5 events | 2,300 | see below |
| `update_handling` | 3 prefixes (one default), paths ending with a public, a private or several AS, with or without a confederation segment, any number of UPDATEs and session ends | 27,600 | see below |
| `ris_watcher` | limit of 5 tries as in the code, 3 messages, channel of 1, wire of 2, 2 long attempts | 18,500 | see below |
| `ingest` | 1 row, all channels of 1, batches of 1, 2 messages of up to 2 operations | 257,000 | see below |
| `seeding` | 2 keys, 4 slots, 2 dumps, 2 UPDATEs after the first 2, 1 stop | 1,120,000 | see below |
| `moas_analysis` | 2 rows of one prefix, 3 prefixes, 3 AS, 2 changes of routes, any batch lost, 2 passes, 1 permit | 745,000 | see below |
| `detection` | 2 prefixes, batches of 2, 3 notifications, 3 changes of routes, 1 fault | 359,000 | see below |
| `routes_batcher_end` | as `routes_batcher` | violation | `end()` drops what is collected and queued |
| `update_handling_same_way` | as `update_handling` | violation | RIS Live skips withdrawals the archives apply |
| `seeding_gap` | as `seeding` | violation | the archive that begins with the dump is not read |
| `detection_not_null` | as `detection` | violation | an executed upsert leaves no row |

Why the bounds are enough: a batch of two keys is the smallest that coalesces,
mixes upserts with deletions and leaves a remnant; a channel of one with a task
that is busy makes the third batch wait; five operations fill two batches and
leave one. Three messages and a wire of two leave frames behind when the
connection closes. In `ingest` batches of one make every operation wait for the
route task while the event task fails or stops; coalescing is left to
`routes_batcher`. Four slots give a seeding two archives, one of which may be missing,
between two dumps, and a restart from a table of an earlier start. (`seeding`
has also been checked with two stops and one UPDATE less.) In `moas_analysis` the
routes at the start are arbitrary (direct, behind the other origin, an AS set, or none),
so that two changes between two queries reach every pair of tables that differ in
both rows; two prefixes compete for one permit; what an earlier pass recorded has an
origin of its own, so that a mixture of two passes would show. Its tables are taken up
to the names of the two sessions, which nothing tells apart. In `detection`
three notifications fill a batch of two and leave one, or one is unparsable.

Deadlock is not checked (`CHECK_DEADLOCK FALSE`): every one of these systems may
stop, at a bound or because it has ended. `HandleReturns`, `ShutdownCompletes`,
`UnreachableTerminates`, `SeedingEnds`, `PassEnds` and `EndsTogether` say what must not
get stuck; the first two cover `insert`, `upsert`, `delete` and both `end`s, on which the
main loop waits.

The properties:

* **RoutesBatcher.** `PipelineOrdered`: at every stage the operations nearer to the
  table are older. `NoSilentLoss`: each operation, or a later one of its key, is
  executed, on its way or on record as lost. `LossNeedsFault`: nothing is lost
  without a database error, a cancellation or the drop of the batcher.
  `ConsistentBetweenBatches`: between batches the table is the result of a prefix of
  the operations (within a batch it is not: the two statements).
  `SentBatchesLand`: progress.
* **EventBatcher.** `AtMostOnceInOrder`, `Accounted`, `LossNeedsFault`, and progress:
  `AcceptedEventsLand`.
* **UpdateHandling.** `RoutesAreMeaningful`: no default route, private or empty origin.
  `ArchivedFollowsPeer`: the archive path shows what the peer announces, but for
  routes replaced by a filtered announcement, routes replaced by one with a
  confederation segment in its path (`archived.rs:106`: the element is skipped with a
  warning), and routes that ended with the session.
  `LiveOnlyKeepsSkipped`: the live path differs from it only by routes whose last
  withdrawal it skipped, or whose announcement the archive path refused.
  `RoutesAreMeaningful` takes the set of private AS numbers as given: the numbers in
  `bgp.rs:112-115` are beyond what TLC's integers hold, and are not checked.
* **RisWatcher.** `DeliveredInOrder` across reconnects; `GivesUpOnlyAfterStreak`: the
  process ends only after six short attempts in a row (the log line says five);
  `ShutdownStops`, also from a full channel; `UnreachableTerminates`.
* **Ingest.** `TableBackedByEvents`: an operation reaches the route batcher only after
  its event was accepted. `AbortNeedsFault`: a message is given up only after a
  ClickHouse error or a shutdown, never because of Postgres or of load.
  `HandleReturns`, `ShutdownCompletes`.
* **Seeding.** `CopyNeverConflicts`: `COPY` meets no existing row. `RowsNeverAge`: no
  row is replaced by an older one, whatever is read again after a restart.
  `HolesAreKnown`: an UPDATE between the start of a seeding and the archive it has
  got to is missing only if its archive was not found or cut off, or its batch was
  dropped. `DumpIsWhole`, `EventsOnce`, `SeedingEnds`.
* **MoasAnalysis.** `ConflictsWereReal`: the origins that a pass records for a prefix
  were announced at one time, unless the first query saw a row of this prefix out of
  date. There are two ways to that, and both are real: dropped from the exemption,
  either one makes TLC find a false conflict. Between the two statements of a batch
  its upserts are visible before its deletions, and a prefix that moves from one
  origin to another shows both. And a batch whose statement fails (or is still
  collected or queued when ingest ends) is dropped: a row whose withdrawal was lost
  shows its old origin until a later operation of this row is written, and every pass
  until then may record it together with what others announce since. So "gleichzeitig"
  (`6_implementation.typ:168`) holds only up to that. *Announced* is meant here as handed to
  `RoutesBatcher`; what never gets there, or gets there again after a restart, is
  the subject of `UpdateHandling`, `RisWatcher` and `Seeding`.
  `LastingConflictsFound`: a conflict of two rows that were there for both queries is
  recorded, whatever happens to other rows of the prefix. `PanicNeedsRace`: the `expect`
  (`service.rs:87`) panics only if two rows of a prefix changed between the queries (it
  can, as a behaviour of the run shows). `ScansAccounted`: `last_scanned_at` only after a
  zmap that succeeded, no scan twice, none left out without an error or a
  shutdown. `PassEnds`.
* **Detection.** `ConflictsCarried`: a conflict that lasts is, from its notification
  on, queued, collected, found or upserted with all its origins, unless a connection or
  `run` failed or the context was cancelled. `EndsTogether`: none of the tasks outlives
  the subscription. `ExecutedIsStored` is violated, see the findings.

### Fairness

Weak fairness of the tasks' own steps only: tokio polls every ready future and
`select!` picks its ready branches at random, so a branch that stays ready is
taken. A call to a database or to the network returns, with a result or an error;
which of the two is never assumed. Nobody is obliged to submit, cancel or stop.
For `EventBatcher` the timer and the inserter's period make rows fall due. For
`Seeding` it is assumed that the process is started again after a stop
(`prod.compose.yml:16`); that a seeding ends also rests on the bound on time, that
is on archives being processed faster than they appear. In `MoasAnalysis` queries,
statements and zmap end and nothing is assumed of ingest. In `Detection` nobody need
notify, fail or send a signal; a failed `run` ends the process (scuffle_bootstrap).

### Findings

1. `RoutesBatcher::end` (`routes.rs:199`) sends neither the map that is not full nor
   the batches still queued: up to 1999 operations and 1000 batches are lost at the
   end of each seeding and at each shutdown, while
   `docs/paper/6_implementation.typ:87` has all UPDATEs applied.
2. `handle_message` (`handler.rs:71`, `:38`) does not handle withdrawals next to an
   announcement of private origin, nor in an UPDATE without a path; the archive
   path does. `6_implementation.typ:79` says both work the same way.
3. `next_update_date` (`file_names.rs:27`) begins with the archive after the one
   that begins with the dump; `6_implementation.typ:30` says all archives since the dump
   are read. In the run both archives, that of the dump's slot and the next one, are
   published before the seeding begins, and only the second one is read. (An archive of RIPE RIS is named by its begin; this is external to
   the repository.)
4. `upsert_moas` (`db/src/lib.rs:98`) gives no value to `updated_at`, which is NOT NULL
   without a default (`postgres_schema.up.sql:16`). Postgres checks the proposed row
   before ON CONFLICT, so every upsert is refused and logged, and `moas` stays empty
   of what detection finds. (Nothing in the repository sends the notifications
   that detection listens for, either; the model takes them as given.)

Not a run, but worth knowing: the reset of `tries` (`service.rs:70`) measures the time
since the attempt began, so that an attempt that needs a minute to fail resets it as
well, without the connection that the comment above it speaks of.
The first query of `moas_analysis` has no filter on the family of a prefix, unlike the
one printed in `6_implementation.typ:178`: IPv6 prefixes are recorded, and only left
out of the scans (`Select`). And a path with a confederation segment is an error in the
archives only; since nothing in the repository says what RIS Live makes of
one, `SameWay` leaves such announcements aside.

## Proofs

Every safety property and every action property that the passing runs check is
proved for every value of the constants that satisfies the named assumptions of its
module (`BatcherAssumption`, `EventBatcherAssumption`, `UpdateAssumption`,
`WatcherAssumption`, `IngestAssumption`, `SeedingAssumption`, `MoasAssumption`,
`DetectionAssumption`). These say that limits are natural numbers, positive where the
code's are, that sentinels are not values, and, where a proof counts or takes the
newest, that keys, prefixes or origins are finite in number. `MoasAssumption` also has
what earlier passes recorded be conflicts, `SeedingAssumption` a dump at the first slot.

| module | theorems |
|---|---|
| `RoutesBatcherProofs` | `TypeOK`, `PipelineOrdered`, `LossNeedsFault`, `NoSilentLoss`, `ConsistentBetweenBatches`; `Spec` implements `RoutingTable` |
| `EventBatcherProofs` | `TypeOK`, `AtMostOnceInOrder`, `Accounted`, `LossNeedsFault` |
| `UpdateHandlingProofs` | `TypeOK`, `RoutesAreMeaningful`, `ArchivedFollowsPeer`, `LiveOnlyKeepsSkipped` |
| `RisWatcherProofs` | `TypeOK`, `DeliveredInOrder`, `GivesUpOnlyAfterStreak` |
| `IngestProofs` | within ingest, the event batcher keeps `AtMostOnceInOrder`, `Accounted` and `LossNeedsFault`, the route batcher `PipelineOrdered`, `NoSilentLoss`, `LossNeedsFault` and `ConsistentBetweenBatches`; the main loop with its batchers, after the seeding, implements `RoutingTable`; `TableBackedByEvents`, `AbortNeedsFault` |
| `SeedingProofs` | `CopyNeverConflicts`, `RowsNeverAge`, `EventsOnce`, `HolesAreKnown`, `DumpIsWhole`; and `TableShowsApplied`, that a row is the last UPDATE executed for its key, by `COPY` or by a batch |
| `MoasAnalysisProofs` | `TypeOK`, `ConflictsWereReal`, `LastingConflictsFound`, `PanicNeedsRace`, `ScansAccounted` |
| `DetectionProofs` | `TypeOK`, `ConflictsCarried` |

Few of these are inductive as they stand. What had to be added:

* **RoutesBatcher.** `IInv == TypeOK /\ PipelineOrdered` is inductive: it says of *every*
  pair of stages (applied, in flight, each queued batch, outbox, map) that the one
  nearer to the table holds the older operation of a key, and that every operation
  sits under its own key, so that moving a map one stage on keeps it. Refinement
  follows: `Upserts` and `Deletes` map to `Publish`, because what they execute is newer
  than what was executed; `Insert` maps to `Submit`, everything else to a stutter.
  `NoSilentLoss` and `LossNeedsFault` need that a stage that is not in use is empty
  (`StagesInv`). `ConsistentBetweenBatches` needs the boundaries of batches:
  `CoverInv` says that, without a database error and while the task runs, whatever is
  older than some operation of a stage, of any key, is no farther from the table than
  that stage, or overtaken there by a later operation of its key.
* **EventBatcher.** `IInv` says of the stages (table, rows, channel, the event at hand)
  that each is increasing, that all of one stage come before all of the next, and that
  the stages and `lost` share out the events submitted. The properties are about their
  concatenation and follow from lemmas about the ranges of sequences put together or
  cut in two (a failed commit stores a first part of the rows).
* **UpdateHandling.** `LiveOnlyKeepsSkipped` follows from comparing the two readings of
  one UPDATE prefix by prefix.
* **RisWatcher.** Until the task stops `tries` is the length of the streak of short
  attempts (`StreakInv`). `StageInv` says of the stages (received, channel, the message
  being sent, wire) that each is increasing and before the next, and that together with
  the messages missed they are all that was emitted.
* **Ingest.** A step of ingest is a step of each batcher or leaves it alone. The batchers'
  theorems are therefore used as they are: their safety part is proved without fairness
  (`SafeWithoutFairness`). `TableBackedByEvents` needs that the events of the operations
  submitted increase, none of them was refused, and the event in hand is newer than all
  of them (`EventOfInv`).
* **Seeding.** The argument is one of time. The log of UPDATEs only grows, by UPDATEs of
  now, so that what was sent before a slot stays what it is (`PastStays`); a cached file
  has nothing but what belongs in it (`FileInv`); a row is no older than the last dump
  and no newer than what the seeding has read, and what is pending for its key is newer
  (`RowInv`). With this a file read again after a restart cannot take a row back.
  `HolesAreKnown` needs that an executed UPDATE stays overtaken (`HoleInv`),
  `DumpIsWhole` that nothing pending is older than the dump. A stop may come between
  any two steps; no bound on their number is used.
* **MoasAnalysis.** `PanicNeedsRace` needs that a candidate comes from two rows, each
  as the query found it or touched since (`TwoRows`); `LastingConflictsFound` that the
  origins of untouched rows in conflict are among the candidate's; `ConflictsWereReal`
  that a row is what its session announces once its operations are written, unless one
  was lost (`Followed`), so that the rows of a prefix without a lost one only show
  origins on record as announced together, once the batch in hand is complete
  (`TablesOnRecord`); `ScansAccounted` that a task that stores
  has scanned and that there are no tasks outside of the scans (`ScanInv`).
* **Detection.** What is owed is still in the routes (`OwedInv`), so that whichever task
  looks it up finds it; then the conflict is, at each step, at one of the places where
  `ConflictsCarried` looks for it.

Only model-checked is what the prover cannot state or reach: liveness under fairness
(`SentBatchesLand`, `AcceptedEventsLand`, `ShutdownStops`, `UnreachableTerminates`,
`HandleReturns`, `ShutdownCompletes`, `SeedingEnds`, `PassEnds`, `EndsTogether`) and
ENABLED.

## Not modelled

* events_migrator: a one-off copy run by hand, one sequential loop.
* profiling: I/O only. Configuration and globals: start-up wiring.
* In the models above: the contents of messages, rows and events beyond what a
  property tells apart; log lines; times but for the order they impose; the
  addresses zmap finds; restarts of detection, which keeps nothing.

## Plan

Done: all models, and a proof of each safety property the runs check.

What is left: to state what a restart does to the promise of `RoutingTable`. As long as
nothing is stopped the seeding should keep it. Across starts it cannot: a deletion leaves nothing in the
table, so that a start may go on from before it, and reading the archives again brings
the route back until its deletion is read, too. `RowsNeverAge` says what remains true of
the rows that are there; an abstract table that may fall back in this way, and the proof
that `Seeding` implements it, would say the rest.
