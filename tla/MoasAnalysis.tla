---------------------------- MODULE MoasAnalysis ----------------------------
(***************************************************************************)
(* crates/moas_analysis: one pass reads the routes table with two queries, *)
(* records the prefixes announced by several origins in the table moas,    *)
(* and scans the recorded prefixes with zmap, a few at a time.  The pass   *)
(* is started by hand.  Meanwhile ingest goes on changing routes: peers    *)
(* announce and withdraw, and RoutesBatcher writes their operations batch  *)
(* by batch, the upserts of a batch in one statement and its deletions in  *)
(* another one.  A batch whose statement fails is dropped, with what is    *)
(* left of it, and so is what ingest has collected when it ends: the rows  *)
(* then stay out of date until a later operation of theirs is written.     *)
(*                                                                         *)
(* A route is the set of its origins and the set of the AS numbers that    *)
(* are elements of its path; an AS set is one element of the path and its  *)
(* members are none.  Times are left out, and with them which of the       *)
(* prefixes to scan are the newest.                                        *)
(***************************************************************************)
EXTENDS Naturals, FiniteSets

CONSTANTS Prefixes, V4,  \* prefixes, and those of family 4
          Keys,          \* rows of routes, pairs of a prefix and a session
          Asns,          \* AS numbers
          Paths,         \* the routes announced, [origins, ases]
          Tables,        \* what routes may be at the start
          Earlier,       \* what an earlier pass recorded: origins per prefix, {} for none
          Limit,         \* LIMIT of the prefixes scanned in a pass
          Concurrency,   \* zmap_concurrency
          MaxUpdates,    \* bound on the announcements and withdrawals
          MaxPasses,     \* bound on the passes started
          NoRow,         \* the key has no row, or a peer withdraws it
          NoOp           \* RoutesBatcher has collected nothing for the key

ASSUME MoasAssumption ==
    /\ IsFiniteSet(Prefixes) /\ V4 \subseteq Prefixes /\ \A k \in Keys : k[1] \in Prefixes
    /\ Paths \subseteq [origins : SUBSET Asns, ases : SUBSET Asns]
    /\ NoRow \notin Paths /\ NoOp \notin Paths /\ NoRow # NoOp
    /\ Tables \subseteq [Keys -> Paths \cup {NoRow}]
    /\ Earlier \in [Prefixes -> {{}} \cup {S \in SUBSET Asns : \E a, b \in S : a # b}]
    /\ Limit \in Nat /\ Concurrency \in Nat \ {0} /\ MaxUpdates \in Nat /\ MaxPasses \in Nat

VARIABLES
    rib,      \* what the sessions announce, as ingest hands it to RoutesBatcher
    routes,   \* the table
    pending,  \* the operations RoutesBatcher has collected for its next batch
    doomed,   \* the keys that the second statement of its current batch deletes
    lost,     \* history: the rows whose last operation was dropped with its batch
    updates,  \* history: the number of announcements and withdrawals
    together, \* history: per prefix, the several origins it was announced with at one time
    touched   \* history: the rows changed between the two queries

tables == <<rib, routes, pending, doomed, lost, updates, together>>

VARIABLES
    pc,        \* of run: "off", "queryMoas", "queryRoutes", "record", "select", "scan",
               \* "panicked"
    potential, \* potential_moas: origins per prefix, {} for a prefix that is not in it
    moas,      \* the table: origins per prefix, {} for a prefix without a row
    scanned,   \* the prefixes with a last_scanned_at
    tasks,     \* of each prefix: "none", "waiting" (for a permit), "scanning",
               \* "storing" (the result), "done"
    ctxDone,   \* the context is cancelled
    passes,    \* history: the passes started
    lasting,   \* history: origins of routes in conflict that were there for both queries
    torn,      \* history: the prefixes of which the first query saw a row out of date, by
               \* a lost operation or because it ran between the statements of a batch
    zmapped,   \* history: prefixes for which a zmap of this pass, or one stored, has succeeded
    failed     \* history: prefixes whose task has ended with an error in this pass

scans == <<scanned, tasks, zmapped, failed>>
analysis == <<pc, potential, moas, scans, ctxDone, passes, lasting, torn>>
vars == <<tables, touched, analysis>>

Several(S) == \E a, b \in S : a # b

\* array_length(origin_asn, 1) = 1
Single(row) == row # NoRow /\ \E o \in row.origins : row.origins = {o}

RowsOf(p) == {k \in Keys : k[1] = p}

-----------------------------------------------------------------------------
(* Ingest. *)

OriginsIn(table, p) == UNION {table[k].origins : k \in {j \in RowsOf(p) : Single(table[j])}}

\* A session announces a route or withdraws it, and RoutesBatcher collects it.
\* (What changes nothing is left out; a route announced again repairs its row.)
Update(k, route) ==
    /\ updates < MaxUpdates /\ updates' = updates + 1
    /\ route # rib[k] \/ (k \in lost /\ pending[k] = NoOp)
    /\ rib' = [rib EXCEPT ![k] = route]
    /\ pending' = [pending EXCEPT ![k] = route]
    /\ together' = [p \in Prefixes |-> together[p] \cup
                       {S \in {OriginsIn(rib', p)} : Several(S)}]
    /\ UNCHANGED <<routes, doomed, lost, touched, analysis>>

Touch == touched' = IF pc = "queryRoutes" THEN touched \cup {k \in Keys : routes'[k] # routes[k]}
                    ELSE touched

Batched == {k \in Keys : pending[k] # NoOp}

\* send_batch: INSERT ... ON CONFLICT DO UPDATE of the upserts ...
Upserts ==
    /\ doomed = {} /\ Batched # {}
    /\ routes' = [k \in Keys |-> IF pending[k] \in Paths THEN pending[k] ELSE routes[k]]
    /\ doomed' = {k \in Keys : pending[k] = NoRow}
    /\ pending' = [k \in Keys |-> NoOp] /\ lost' = lost \ Batched
    /\ Touch
    /\ UNCHANGED <<rib, updates, together, analysis>>

\* ... and DELETE.
Deletes ==
    /\ doomed # {} /\ doomed' = {}
    /\ routes' = [k \in Keys |-> IF k \in doomed THEN NoRow ELSE routes[k]]
    /\ Touch
    /\ UNCHANGED <<rib, pending, lost, updates, together, analysis>>

\* There is no connection or the INSERT fails, and the batch is dropped; or
\* ingest ends with operations collected and batches not received.
UpsertsFail ==
    /\ doomed = {} /\ Batched # {}
    /\ pending' = [k \in Keys |-> NoOp] /\ lost' = lost \cup Batched
    /\ UNCHANGED <<rib, routes, doomed, updates, together, touched, analysis>>

\* The DELETE fails, or the process ends before it: the upserts stay.
DeletesFail ==
    /\ doomed # {} /\ doomed' = {} /\ lost' = lost \cup doomed
    /\ UNCHANGED <<rib, routes, pending, updates, together, touched, analysis>>

-----------------------------------------------------------------------------
(* run: the update of moas. *)

Init ==
    /\ routes \in Tables /\ rib = routes
    /\ pending = [k \in Keys |-> NoOp] /\ doomed = {} /\ lost = {} /\ updates = 0
    /\ together = [p \in Prefixes |-> {S \in {OriginsIn(routes, p), Earlier[p]} : Several(S)}]
    /\ touched = {}
    /\ pc = "off" /\ potential = [p \in Prefixes |-> {}]
    /\ moas = Earlier /\ scanned = {} /\ tasks = [p \in Prefixes |-> "none"]
    /\ ctxDone = FALSE /\ passes = 0
    /\ lasting = potential /\ torn = {} /\ zmapped = {} /\ failed = {}

\* The program is started, with or without update_moas.
Start ==
    /\ pc = "off" /\ passes < MaxPasses /\ passes' = passes + 1
    /\ pc' \in {"queryMoas", "select"}
    /\ UNCHANGED <<tables, touched, potential, moas, scans, ctxDone, lasting, torn>>

\* The rows the first query counts the origins of.
CountedAny(row) == row # NoRow
Counted(row) == Single(row)

\* SELECT ... GROUP BY prefix HAVING count(DISTINCT origin_asn[1]) > 1
QueryMoas ==
    LET Origins(p) == UNION {routes[k].origins : k \in {j \in RowsOf(p) : Counted(routes[j])}}
    IN  /\ pc = "queryMoas" /\ pc' = "queryRoutes"
        /\ potential' = [p \in Prefixes |-> IF Several(Origins(p)) THEN Origins(p) ELSE {}]
        /\ touched' = {} /\ torn' = {p \in Prefixes : RowsOf(p) \cap (doomed \cup lost) # {}}
        /\ UNCHANGED <<tables, moas, scans, ctxDone, passes, lasting>>

\* The routes of a candidate that the second query finds.
Found(p) == {k \in RowsOf(p) : Single(routes[k])}

InAllAny(o, p) == \E k \in Found(p) : o \in routes[k].ases
InAll(o, p) == \A k \in Found(p) : o \in routes[k].ases

Kept(p) == LET origins == {o \in potential[p] : ~InAll(o, p)}
           IN  IF Several(origins) THEN origins ELSE {}

\* Two rows that neither query nor the statements between them changed, and
\* each of which shows an origin that the path of the other one avoids.
InConflict(k, l) ==
    /\ Single(routes[k]) /\ Single(routes[l])
    /\ \E o \in routes[k].origins : o \notin routes[l].ases
    /\ \E o \in routes[l].origins : o \notin routes[k].ases \cup routes[k].origins

\* The second query and the filter.
QueryRoutes ==
    /\ pc = "queryRoutes" /\ \A p \in Prefixes : potential[p] # {} => Found(p) # {}
    /\ pc' = "record"
    /\ potential' = [p \in Prefixes |-> Kept(p)]
    /\ lasting' = [p \in Prefixes |->
          UNION {routes[k].origins : k \in {j \in RowsOf(p) \ touched :
                    \E l \in RowsOf(p) \ touched : InConflict(j, l)}}]
    /\ touched' = {}
    /\ UNCHANGED <<tables, moas, scans, ctxDone, passes, torn>>

\* expect("failed to get routes")
Panic ==
    /\ pc = "queryRoutes" /\ \E p \in Prefixes : potential[p] # {} /\ Found(p) = {}
    /\ pc' = "panicked"
    /\ UNCHANGED <<tables, touched, potential, moas, scans, ctxDone, passes, lasting, torn>>

\* What ON CONFLICT (prefix) DO UPDATE makes of the origins.
MergedBoth(old, new) == old \cup new
Merged(old, new) == new

\* INSERT INTO moas of all of them in one statement.
Record ==
    /\ pc = "record" /\ pc' = "select"
    /\ moas' = [p \in Prefixes |-> IF potential[p] = {} THEN moas[p]
                                   ELSE Merged(moas[p], potential[p])]
    /\ potential' = [p \in Prefixes |-> {}] /\ lasting' = potential' /\ torn' = {}
    /\ UNCHANGED <<tables, touched, scans, ctxDone, passes>>

-----------------------------------------------------------------------------
(* run: the scans. *)

Selectable == {p \in V4 : moas[p] # {} /\ p \notin scanned}

\* SELECT ... ORDER BY updated_at DESC LIMIT; a task is spawned for each.
Select ==
    /\ pc = "select" /\ pc' = "scan"
    /\ \E S \in SUBSET Selectable :
          /\ Cardinality(S) <= Limit /\ (S # Selectable => Cardinality(S) = Limit)
          /\ tasks' = [p \in Prefixes |-> IF p \in S THEN "waiting" ELSE "none"]
    /\ UNCHANGED <<tables, touched, potential, moas, scanned, zmapped, failed, ctxDone, passes,
                   lasting, torn>>

Step(p, from, to) == tasks[p] = from /\ tasks' = [tasks EXCEPT ![p] = to]

scanRest == <<tables, touched, pc, potential, moas, ctxDone, passes, lasting, torn>>

\* A permit is dropped with its task's future.
HoldsPermitForgotten(p) == tasks[p] \in {"scanning", "storing", "done"}
HoldsPermit(p) == tasks[p] \in {"scanning", "storing"}

HasPermitAlways == TRUE
HasPermit == Cardinality({p \in Prefixes : HoldsPermit(p)}) < Concurrency

\* semaphore.acquire, after which a cancelled task returns.
Acquire(p) ==
    /\ HasPermit
    /\ \/ ~ctxDone /\ Step(p, "waiting", "scanning")
       \/ ctxDone /\ Step(p, "waiting", "done")
    /\ UNCHANGED <<scanRest, scanned, zmapped, failed>>

ZmapSucceeds(p) ==
    /\ Step(p, "scanning", "storing") /\ zmapped' = zmapped \cup {p}
    /\ UNCHANGED <<scanRest, scanned, failed>>

\* zmap cannot be started, exits with an error or prints what is no address.
AfterBadExitStored == "storing"
AfterBadExit == "done"
ZmapFails(p) ==
    /\ Step(p, "scanning", AfterBadExit) /\ failed' = failed \cup {p}
    /\ UNCHANGED <<scanRest, scanned, zmapped>>

\* with_context(&ctx) drops zmap, which is killed.
ZmapCut(p) ==
    /\ ctxDone /\ Step(p, "scanning", "done")
    /\ UNCHANGED <<scanRest, scanned, zmapped, failed>>

\* UPDATE moas SET https_hosts, last_scanned_at
Store(p) ==
    /\ Step(p, "storing", "done") /\ scanned' = scanned \cup {p}
    /\ UNCHANGED <<scanRest, zmapped, failed>>

StoreFails(p) ==
    /\ Step(p, "storing", "done") /\ failed' = failed \cup {p}
    /\ UNCHANGED <<scanRest, scanned, zmapped>>

\* The process ends, and its tasks with it.
Exit ==
    /\ pc' = "off" /\ ctxDone' = FALSE
    /\ tasks' = [p \in Prefixes |-> "none"] /\ failed' = {} /\ zmapped' = zmapped \cap scanned

\* join_all; then the global context is cancelled, which ends the process.
JoinAll ==
    /\ pc = "scan" /\ \A p \in Prefixes : tasks[p] \in {"none", "done"}
    /\ Exit
    /\ UNCHANGED <<tables, touched, potential, moas, scanned, passes, lasting, torn>>

-----------------------------------------------------------------------------
\* A signal.
Shutdown ==
    /\ pc # "off" /\ ~ctxDone /\ ctxDone' = TRUE
    /\ UNCHANGED <<tables, touched, pc, potential, moas, scans, passes, lasting, torn>>

\* run returns the error of a query, or the process is killed or has panicked.
Dies ==
    /\ pc # "off" /\ Exit
    /\ potential' = [p \in Prefixes |-> {}] /\ lasting' = potential'
    /\ touched' = {} /\ torn' = {}
    /\ UNCHANGED <<tables, moas, scanned, passes>>

Run == QueryMoas \/ QueryRoutes \/ Panic \/ Record \/ Select \/ JoinAll

Zmap(p) == ZmapSucceeds(p) \/ ZmapFails(p) \/ ZmapCut(p)

Next ==
    \/ \E k \in Keys, route \in Paths \cup {NoRow} : Update(k, route)
    \/ Upserts \/ Deletes \/ UpsertsFail \/ DeletesFail
    \/ Start \/ Run \/ Shutdown \/ Dies
    \/ \E p \in Prefixes : Acquire(p) \/ Zmap(p) \/ Store(p) \/ StoreFails(p)

\* run and the tasks are polled, statements return and a zmap ends.  Nobody is
\* obliged to start a pass, and nothing is assumed of ingest.
Fairness ==
    /\ WF_vars(Run)
    /\ \A p \in Prefixes : WF_vars(Acquire(p)) /\ WF_vars(Zmap(p)) /\ WF_vars(Store(p) \/ StoreFails(p))

Spec == Init /\ [][Next]_vars /\ Fairness

-----------------------------------------------------------------------------
(* Properties. *)

TypeOK ==
    /\ rib \in [Keys -> Paths \cup {NoRow}] /\ routes \in [Keys -> Paths \cup {NoRow}]
    /\ pending \in [Keys -> Paths \cup {NoRow, NoOp}]
    /\ doomed \in SUBSET Keys /\ lost \in SUBSET Keys /\ touched \in SUBSET Keys
    /\ updates \in 0..MaxUpdates /\ passes \in 0..MaxPasses
    /\ together \in [Prefixes -> SUBSET SUBSET Asns]
    /\ pc \in {"off", "queryMoas", "queryRoutes", "record", "select", "scan", "panicked"}
    /\ potential \in [Prefixes -> SUBSET Asns] /\ lasting \in [Prefixes -> SUBSET Asns]
    /\ moas \in [Prefixes -> SUBSET Asns]
    /\ tasks \in [Prefixes -> {"none", "waiting", "scanning", "storing", "done"}]
    /\ scanned \in SUBSET V4 /\ zmapped \in SUBSET V4 /\ failed \in SUBSET V4
    /\ ctxDone \in BOOLEAN /\ torn \in SUBSET Prefixes
    /\ Cardinality({p \in Prefixes : tasks[p] \in {"scanning", "storing"}}) <= Concurrency

\* What a pass records of a prefix its sessions announced at one and the same
\* time, by the operations handed to RoutesBatcher, unless the first query saw a
\* row of that prefix out of date: because it fell between the statements of a
\* batch, or because the last operation of the row was lost and none has been
\* written since.  The second query, earlier passes, the other prefixes and what
\* was lost and repaired invent no conflict out of states of different times.
ConflictsWereReal ==
    [][\A p \in Prefixes \ torn :
          moas'[p] # moas[p] => \E S \in together[p] : moas'[p] \subseteq S]_vars

\* A conflict that is there during both queries is recorded with its origins,
\* whatever ingest does to other routes, also of the same prefix.
LastingConflictsFound ==
    [][pc = "record" /\ pc' = "select" =>
          \A p \in Prefixes : lasting[p] \subseteq moas'[p]]_vars

\* The expect only fails in a race with ingest, which has to change two routes
\* of one prefix between the queries.
PanicNeedsRace ==
    pc = "panicked" => \E k, l \in touched : k # l /\ k[1] = l[1]

\* Scans are accounted for: last_scanned_at says that a zmap of the prefix has
\* succeeded, a prefix selected is scanned unless there was an error or a
\* shutdown, and none is scanned that was scanned before or is not IPv4.
ScansAccounted ==
    /\ scanned \subseteq zmapped
    /\ \A p \in Prefixes :
          /\ tasks[p] = "done" => p \in scanned \cup failed \/ ctxDone
          /\ tasks[p] \in {"waiting", "scanning"} => p \in V4 \ scanned

\* A pass ends, whatever the scans do.
PassEnds == pc # "off" ~> pc \in {"off", "panicked"}
=============================================================================
