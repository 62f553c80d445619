------------------------- MODULE MoasAnalysisProofs -------------------------
(***************************************************************************)
(* Theorems about MoasAnalysis, for any routes, any number of rows of a    *)
(* prefix, of changes that ingest makes and of passes.  Each property has  *)
(* an invariant of its own: what the first query saw is compared with the  *)
(* rows that ingest has not touched since (LastingConflictsFound,          *)
(* PanicNeedsRace) or with what the sessions announced at one time         *)
(* (ConflictsWereReal).                                                    *)
(***************************************************************************)
EXTENDS MoasAnalysis, FiniteSetTheorems, TLAPS

-----------------------------------------------------------------------------
(* Rows and the origins they show. *)

LEMMA SingleRow ==
  ASSUME NEW row \in Paths \cup {NoRow}, Single(row)
  PROVE  /\ row \in Paths /\ row.origins \in SUBSET Asns /\ row.origins # {}
         /\ \A a, b \in row.origins : a = b
  BY MoasAssumption DEF Single

LEMMA OriginsType ==
  ASSUME NEW table \in [Keys -> Paths \cup {NoRow}], NEW p \in Prefixes
  PROVE  OriginsIn(table, p) \in SUBSET Asns
<1> SUFFICES ASSUME NEW k \in RowsOf(p), Single(table[k]) PROVE table[k].origins \in SUBSET Asns
  BY DEF OriginsIn
<1>1. table[k] \in Paths \cup {NoRow}
  BY DEF RowsOf
<1> QED BY <1>1, SingleRow

\* A table shows what any of its rows of a single origin shows, and no more.
LEMMA OriginsMember ==
  ASSUME NEW table, NEW p, NEW o
  PROVE  o \in OriginsIn(table, p) <=>
            \E k \in RowsOf(p) : Single(table[k]) /\ o \in table[k].origins
  BY DEF OriginsIn

\* What a table shows of a prefix depends on the rows of that prefix only.
LEMMA SameRows ==
  ASSUME NEW table, NEW other, NEW p, \A k \in RowsOf(p) : table[k] = other[k]
  PROVE  OriginsIn(table, p) = OriginsIn(other, p)
<1>1. \A o : o \in OriginsIn(table, p) <=> o \in OriginsIn(other, p)
  BY OriginsMember
<1> QED BY <1>1

-----------------------------------------------------------------------------
(* Types, and the permits in use. *)

Holders == {p \in Prefixes : tasks[p] \in {"scanning", "storing"}}

\* A scan that comes to rest frees its permit.
LEMMA FewerHolders ==
  ASSUME Cardinality(Holders) <= Concurrency, Holders' \subseteq Holders
  PROVE  Cardinality(Holders') <= Concurrency
<1>1. IsFiniteSet(Holders)
  BY FS_Subset, MoasAssumption DEF Holders
<1>2. Cardinality(Holders) \in Nat /\ IsFiniteSet(Holders')
  BY <1>1, FS_CardinalityType, FS_Subset
<1>3. Cardinality(Holders') <= Cardinality(Holders) /\ Cardinality(Holders') \in Nat
  BY <1>1, <1>2, FS_CardinalityType, FS_Subset
<1> QED BY <1>2, <1>3, MoasAssumption

LEMMA NoHolders ==
  ASSUME \A p \in Prefixes : tasks'[p] \notin {"scanning", "storing"}
  PROVE  Cardinality(Holders') <= Concurrency
<1>1. Holders' = {}
  BY DEF Holders
<1> QED BY <1>1, FS_EmptySet, MoasAssumption

LEMMA OneMoreHolder ==
  ASSUME HasPermit, NEW p \in Prefixes, Holders' \subseteq Holders \cup {p}
  PROVE  Cardinality(Holders') <= Concurrency
<1>1. IsFiniteSet(Holders)
  BY FS_Subset, MoasAssumption DEF Holders
<1>2. Cardinality(Holders) < Concurrency /\ Cardinality(Holders) \in Nat
  <2>1. Holders = {q \in Prefixes : HoldsPermit(q)}
    BY DEF Holders, HoldsPermit
  <2> QED BY <1>1, <2>1, FS_CardinalityType DEF HasPermit
<1>3. IsFiniteSet(Holders \cup {p}) /\ Cardinality(Holders \cup {p}) <= Cardinality(Holders) + 1
  BY <1>1, <1>2, FS_AddElement
<1>4. Cardinality(Holders \cup {p}) \in Nat /\ Cardinality(Holders') \in Nat
      /\ Cardinality(Holders') <= Cardinality(Holders \cup {p})
  <2>1. IsFiniteSet(Holders')
    BY <1>3, FS_Subset
  <2> QED BY <1>3, <2>1, FS_Subset, FS_CardinalityType
<1> QED BY <1>2, <1>3, <1>4, MoasAssumption

TableTypes ==
    /\ rib \in [Keys -> Paths \cup {NoRow}] /\ routes \in [Keys -> Paths \cup {NoRow}]
    /\ pending \in [Keys -> Paths \cup {NoRow, NoOp}]
    /\ doomed \in SUBSET Keys /\ lost \in SUBSET Keys /\ touched \in SUBSET Keys /\ updates \in 0..MaxUpdates
    /\ together \in [Prefixes -> SUBSET SUBSET Asns]

PassTypes ==
    /\ passes \in 0..MaxPasses
    /\ pc \in {"off", "queryMoas", "queryRoutes", "record", "select", "scan", "panicked"}
    /\ potential \in [Prefixes -> SUBSET Asns] /\ lasting \in [Prefixes -> SUBSET Asns]
    /\ moas \in [Prefixes -> SUBSET Asns]

\* A task works for a prefix of family 4.
ScanTypes ==
    /\ tasks \in [Prefixes -> {"none", "waiting", "scanning", "storing", "done"}]
    /\ scanned \in SUBSET V4 /\ zmapped \in SUBSET V4 /\ failed \in SUBSET V4
    /\ \A p \in Prefixes : tasks[p] \in {"waiting", "scanning", "storing"} => p \in V4

FlagTypes == ctxDone \in BOOLEAN /\ torn \in SUBSET Prefixes

TypeInv == TableTypes /\ PassTypes /\ ScanTypes /\ FlagTypes /\ Cardinality(Holders) <= Concurrency

LEMMA TypeParts == TypeInv => TypeOK
  BY DEF TypeInv, TypeOK, TableTypes, PassTypes, ScanTypes, FlagTypes, Holders

ScanStep(p) == Acquire(p) \/ Zmap(p) \/ Store(p) \/ StoreFails(p)

Failing == UpsertsFail \/ DeletesFail

Ingesting ==
    \/ Upserts \/ Deletes \/ Failing
    \/ \E k \in Keys, route \in Paths \cup {NoRow} : Update(k, route)

Passing == Start \/ Run \/ Shutdown \/ Dies

LEMMA NextParts == [Next]_vars => Ingesting \/ Passing \/ (\E p \in Prefixes : ScanStep(p)) \/ UNCHANGED vars
  BY DEF Next, Ingesting, Failing, Passing, ScanStep

\* What ingest and a scan leave alone.
LEMMA IngestingKeeps ==
  Ingesting => UNCHANGED analysis /\ (pc # "queryRoutes" => touched' = touched)
  BY DEF Ingesting, Failing, Update, Upserts, Deletes, UpsertsFail, DeletesFail, Touch

LEMMA PassingKeeps == Passing => UNCHANGED tables
  BY DEF Passing, Start, Run, QueryMoas, QueryRoutes, Panic, Record, Select, JoinAll, Shutdown,
     Dies

LEMMA ScanKeeps ==
  ASSUME NEW p \in Prefixes, ScanStep(p)
  PROVE  UNCHANGED <<tables, touched, pc, potential, moas, ctxDone, passes, lasting, torn>>
  BY DEF ScanStep, Acquire, Zmap, ZmapSucceeds, ZmapFails, ZmapCut, Store, StoreFails, scanRest

LEMMA TableTypesStep == ASSUME TypeInv, [Next]_vars PROVE TableTypes'
<1> USE DEF TypeInv
<1>1. ASSUME NEW k \in Keys, NEW route \in Paths \cup {NoRow}, Update(k, route) PROVE TableTypes'
  <2>1. rib' = [rib EXCEPT ![k] = route] /\ rib' \in [Keys -> Paths \cup {NoRow}]
    BY <1>1 DEF Update, TableTypes
  <2>2. pending' \in [Keys -> Paths \cup {NoRow, NoOp}]
    BY <1>1 DEF Update, TableTypes
  <2>3. \A p \in Prefixes : OriginsIn(rib', p) \in SUBSET Asns
    BY <2>1, OriginsType
  <2>4. together' \in [Prefixes -> SUBSET SUBSET Asns]
    <3> DEFINE Shown(p) == OriginsIn(rib', p)
    <3>1. together' = [p \in Prefixes |-> together[p] \cup {S \in {Shown(p)} : Several(S)}]
      BY <1>1 DEF Update
    <3>2. \A p \in Prefixes : Shown(p) \in SUBSET Asns
      BY <2>3
    <3> HIDE DEF Shown
    <3>3. \A p \in Prefixes : together[p] \cup {S \in {Shown(p)} : Several(S)} \in SUBSET SUBSET Asns
      BY <3>2 DEF TableTypes
    <3> QED BY <3>1, <3>3
  <2>5. updates' \in 0..MaxUpdates
    BY <1>1, MoasAssumption DEF Update, TableTypes
  <2> QED BY <1>1, <2>1, <2>2, <2>4, <2>5 DEF Update, TableTypes
<1>2. CASE Upserts
  <2>1. touched' \in SUBSET Keys
    BY <1>2 DEF Upserts, Touch, TableTypes
  <2> QED BY <1>2, <2>1 DEF Upserts, Batched, TableTypes
<1>3. CASE Deletes
  <2>1. touched' \in SUBSET Keys
    BY <1>3 DEF Deletes, Touch, TableTypes
  <2> QED BY <1>3, <2>1 DEF Deletes, TableTypes
<1>4. CASE Failing
  BY <1>4 DEF Failing, UpsertsFail, DeletesFail, Batched, TableTypes
<1>5. CASE Passing
  <2>1. touched' \in SUBSET Keys
    BY <1>5 DEF Passing, Start, Run, QueryMoas, QueryRoutes, Panic, Record, Select, JoinAll,
                Shutdown, Dies, TableTypes
  <2> QED BY <1>5, <2>1, PassingKeeps DEF TableTypes, tables
<1>6. ASSUME NEW p \in Prefixes, ScanStep(p) PROVE TableTypes'
  BY <1>6, ScanKeeps DEF TableTypes, tables
<1>7. CASE UNCHANGED vars
  BY <1>7 DEF vars, tables, TableTypes
<1> QED BY <1>1, <1>2, <1>3, <1>4, <1>5, <1>6, <1>7, NextParts DEF Ingesting

LEMMA KeptType == ASSUME PassTypes, NEW p \in Prefixes PROVE Kept(p) \in SUBSET potential[p]
  BY DEF Kept, PassTypes

LEMMA PassTypesStep == ASSUME TypeInv, [Next]_vars PROVE PassTypes'
<1> USE DEF TypeInv
<1>1. CASE Ingesting
  BY <1>1, IngestingKeeps DEF PassTypes, analysis
<1>2. CASE Start
  BY <1>2, MoasAssumption DEF Start, PassTypes
<1>3. CASE QueryMoas
  <2>1. ASSUME NEW p \in Prefixes
        PROVE  UNION {routes[k].origins : k \in {j \in RowsOf(p) : Counted(routes[j])}} \in SUBSET Asns
    BY OriginsType DEF OriginsIn, Counted, TableTypes
  <2>2. potential' \in [Prefixes -> SUBSET Asns]
    BY <1>3, <2>1 DEF QueryMoas
  <2> QED BY <1>3, <2>2 DEF QueryMoas, PassTypes
<1>4. CASE QueryRoutes
  <2>1. potential' \in [Prefixes -> SUBSET Asns]
    BY <1>4, KeptType DEF QueryRoutes, PassTypes
  <2>2. ASSUME NEW p \in Prefixes PROVE lasting'[p] \in SUBSET Asns
    <3> SUFFICES ASSUME NEW k \in RowsOf(p), Single(routes[k]) PROVE routes[k].origins \in SUBSET Asns
      BY <1>4 DEF QueryRoutes, InConflict
    <3>1. routes[k] \in Paths \cup {NoRow}
      BY DEF RowsOf, TableTypes
    <3> QED BY <3>1, SingleRow
  <2>3. lasting' \in [Prefixes -> SUBSET Asns]
    BY <1>4, <2>2 DEF QueryRoutes
  <2> QED BY <1>4, <2>1, <2>3 DEF QueryRoutes, PassTypes
<1>5. CASE Panic
  BY <1>5 DEF Panic, PassTypes
<1>6. CASE Record
  BY <1>6 DEF Record, Merged, PassTypes
<1>7. CASE Select
  BY <1>7 DEF Select, PassTypes
<1>8. CASE JoinAll
  BY <1>8 DEF JoinAll, Exit, PassTypes
<1>9. CASE Shutdown
  BY <1>9 DEF Shutdown, PassTypes
<1>10. CASE Dies
  BY <1>10 DEF Dies, Exit, PassTypes
<1>11. ASSUME NEW p \in Prefixes, ScanStep(p) PROVE PassTypes'
  BY <1>11, ScanKeeps DEF PassTypes
<1>12. CASE UNCHANGED vars
  BY <1>12 DEF vars, analysis, PassTypes
<1> QED BY <1>1, <1>2, <1>3, <1>4, <1>5, <1>6, <1>7, <1>8, <1>9, <1>10, <1>11, <1>12, NextParts
       DEF Passing, Run

LEMMA ScanTypesStep == ASSUME TypeInv, [Next]_vars PROVE ScanTypes'
<1> USE DEF TypeInv
<1>1. CASE Ingesting
  BY <1>1, IngestingKeeps DEF ScanTypes, analysis, scans
<1>2. CASE Start \/ QueryMoas \/ QueryRoutes \/ Panic \/ Record \/ Shutdown
  <2>1. UNCHANGED scans
    BY <1>2 DEF Start, QueryMoas, QueryRoutes, Panic, Record, Shutdown
  <2> QED BY <2>1 DEF ScanTypes, scans
<1>3. CASE Select
  BY <1>3 DEF Select, Selectable, ScanTypes
<1>4. CASE JoinAll \/ Dies
  <2>1. Exit /\ scanned' = scanned
    BY <1>4 DEF JoinAll, Dies
  <2> QED BY <2>1 DEF Exit, ScanTypes
<1>5. ASSUME NEW p \in Prefixes, ScanStep(p) PROVE ScanTypes'
  <2>1. CASE Acquire(p)
    BY <2>1 DEF Acquire, Step, ScanTypes
  <2>2. CASE Zmap(p)
    BY <2>2 DEF Zmap, ZmapSucceeds, ZmapFails, AfterBadExit, ZmapCut, Step, ScanTypes
  <2>3. CASE Store(p) \/ StoreFails(p)
    BY <2>3 DEF Store, StoreFails, Step, ScanTypes
  <2> QED BY <1>5, <2>1, <2>2, <2>3 DEF ScanStep
<1>6. CASE UNCHANGED vars
  BY <1>6 DEF vars, analysis, scans, ScanTypes
<1> QED BY <1>1, <1>2, <1>3, <1>4, <1>5, <1>6, NextParts DEF Passing, Run

LEMMA FlagTypesStep == ASSUME TypeInv, [Next]_vars PROVE FlagTypes'
<1> USE DEF TypeInv, FlagTypes
<1>1. CASE Ingesting
  BY <1>1, IngestingKeeps DEF analysis
<1>2. CASE QueryMoas
  BY <1>2, Zenon DEF QueryMoas
<1>3. CASE Start \/ QueryRoutes \/ Panic \/ Record \/ Select
  BY <1>3 DEF Start, QueryRoutes, Panic, Record, Select
<1>4. CASE JoinAll \/ Dies
  BY <1>4 DEF JoinAll, Dies, Exit
<1>5. CASE Shutdown
  BY <1>5 DEF Shutdown
<1>6. ASSUME NEW p \in Prefixes, ScanStep(p) PROVE FlagTypes'
  BY <1>6, ScanKeeps
<1>7. CASE UNCHANGED vars
  BY <1>7 DEF vars, analysis
<1> QED BY <1>1, <1>2, <1>3, <1>4, <1>5, <1>6, <1>7, NextParts DEF Passing, Run

\* A permit is taken only when one is free.
LEMMA PermitsStep == ASSUME TypeInv, [Next]_vars PROVE Cardinality(Holders') <= Concurrency
<1> USE DEF TypeInv
<1>1. ASSUME tasks' = tasks PROVE Cardinality(Holders') <= Concurrency
  BY <1>1, FewerHolders DEF Holders
<1>2. CASE Ingesting
  BY <1>1, <1>2, IngestingKeeps DEF analysis, scans
<1>3. CASE Start \/ QueryMoas \/ QueryRoutes \/ Panic \/ Record \/ Shutdown
  BY <1>1, <1>3 DEF Start, QueryMoas, QueryRoutes, Panic, Record, Shutdown, scans
<1>4. CASE Select
  BY <1>4, NoHolders DEF Select
<1>5. CASE JoinAll \/ Dies
  BY <1>5, NoHolders DEF JoinAll, Dies, Exit
<1>6. ASSUME NEW p \in Prefixes, ScanStep(p) PROVE Cardinality(Holders') <= Concurrency
  <2>1. CASE Acquire(p)
    <3>1. HasPermit /\ Holders' \subseteq Holders \cup {p}
      BY <2>1 DEF Acquire, Step, Holders, ScanTypes
    <3> QED BY <3>1, OneMoreHolder
  <2>2. CASE Zmap(p) \/ Store(p) \/ StoreFails(p)
    <3>1. Holders' \subseteq Holders
      BY <2>2 DEF Zmap, ZmapSucceeds, ZmapFails, AfterBadExit, ZmapCut, Store, StoreFails, Step,
                  Holders, ScanTypes
    <3> QED BY <3>1, FewerHolders
  <2> QED BY <1>6, <2>1, <2>2 DEF ScanStep
<1>7. CASE UNCHANGED vars
  BY <1>1, <1>7 DEF vars, analysis, scans
<1> QED BY <1>2, <1>3, <1>4, <1>5, <1>6, <1>7, NextParts DEF Passing, Run

LEMMA InitTypes == Init => TypeInv
<1> SUFFICES ASSUME Init PROVE TypeInv
  OBVIOUS
<1>1. routes \in [Keys -> Paths \cup {NoRow}] /\ Earlier \in [Prefixes -> SUBSET Asns]
  BY MoasAssumption DEF Init
<1>2. \A p \in Prefixes : OriginsIn(routes, p) \in SUBSET Asns
  BY <1>1, OriginsType
<1>3. TableTypes
  BY <1>1, <1>2, MoasAssumption DEF Init, TableTypes
<1>4. PassTypes
  BY <1>1, MoasAssumption DEF Init, PassTypes
<1>5. ScanTypes /\ FlagTypes
  BY DEF Init, ScanTypes, FlagTypes
<1>6. Holders = {}
  BY DEF Init, Holders
<1>7. Cardinality(Holders) <= Concurrency
  BY <1>6, FS_EmptySet, MoasAssumption
<1> QED BY <1>3, <1>4, <1>5, <1>7 DEF TypeInv

LEMMA TypeStep == TypeInv /\ [Next]_vars => TypeInv'
  BY TableTypesStep, PassTypesStep, ScanTypesStep, FlagTypesStep, PermitsStep DEF TypeInv

LEMMA TypesHold == Spec => []TypeInv
  BY InitTypes, TypeStep, PTL DEF Spec

\* The variables keep their types, and no more scans run than there are permits.
THEOREM TypeCorrect == Spec => []TypeOK
  BY TypesHold, TypeParts, PTL

-----------------------------------------------------------------------------
(* The panic. *)

\* Changed since the first query, or still what it counted.
Suspect(k) == k \in touched \/ Single(routes[k])

\* A prefix is a candidate because of two rows.
TwoRows ==
    pc = "queryRoutes" =>
        \A p \in Prefixes : potential[p] # {} =>
            \E k, l \in RowsOf(p) : k # l /\ Suspect(k) /\ Suspect(l)

LEMMA CandidateRows ==
  ASSUME TypeInv, NEW p \in Prefixes, Several(OriginsIn(routes, p))
  PROVE  \E k, l \in RowsOf(p) : k # l /\ Single(routes[k]) /\ Single(routes[l])
<1>1. PICK a \in OriginsIn(routes, p), b \in OriginsIn(routes, p) : a # b
  BY DEF Several
<1>2. PICK k \in RowsOf(p) : Single(routes[k]) /\ a \in routes[k].origins
  BY OriginsMember
<1>3. PICK l \in RowsOf(p) : Single(routes[l]) /\ b \in routes[l].origins
  BY OriginsMember
<1>4. routes[k] \in Paths \cup {NoRow}
  BY <1>2 DEF RowsOf, TypeInv, TableTypes
<1>5. k # l
  BY <1>1, <1>2, <1>3, <1>4, SingleRow
<1> QED BY <1>2, <1>3, <1>5

LEMMA PotentialIsOrigins ==
  ASSUME QueryMoas, NEW p \in Prefixes
  PROVE  potential'[p] = IF Several(OriginsIn(routes, p)) THEN OriginsIn(routes, p) ELSE {}
  BY DEF QueryMoas, OriginsIn, Counted

\* While the second query is waited for, a row that changes is touched.
LEMMA TouchedStep ==
  ASSUME pc = "queryRoutes", Upserts \/ Deletes, NEW k \in Keys
  PROVE  k \in touched \/ routes'[k] # routes[k] <=> k \in touched'
  BY DEF Upserts, Deletes, Touch

RaceInv == TwoRows /\ PanicNeedsRace

LEMMA RaceStep == ASSUME TypeInv, RaceInv, [Next]_vars PROVE RaceInv'
<1> USE DEF RaceInv
<1>1. CASE Ingesting
  <2>1. CASE UNCHANGED <<routes, touched>>
    <3>1. \A k \in Keys : Suspect(k) => Suspect(k)'
      BY <2>1 DEF Suspect
    <3> QED BY <1>1, <2>1, <3>1, IngestingKeeps DEF TwoRows, PanicNeedsRace, analysis, RowsOf
  <2>2. CASE Upserts \/ Deletes
    <3>1. pc = "queryRoutes" => \A k \in Keys : Suspect(k) => Suspect(k)'
      BY <2>2, TouchedStep DEF Suspect
    <3> QED BY <1>1, <3>1, IngestingKeeps DEF TwoRows, PanicNeedsRace, analysis, RowsOf
  <2> QED BY <1>1, <2>1, <2>2 DEF Ingesting, Failing, Update, UpsertsFail, DeletesFail
<1>2. CASE QueryMoas
  <2>1. ASSUME NEW p \in Prefixes, potential'[p] # {}
        PROVE  \E k, l \in RowsOf(p) : k # l /\ Suspect(k)' /\ Suspect(l)'
    <3>1. PICK k \in RowsOf(p), l \in RowsOf(p) : k # l /\ Single(routes[k]) /\ Single(routes[l])
      BY <1>2, <2>1, PotentialIsOrigins, CandidateRows
    <3>2. routes' = routes
      BY <1>2 DEF QueryMoas, tables
    <3> QED BY <3>1, <3>2 DEF Suspect
  <2> QED BY <1>2, <2>1 DEF QueryMoas, TwoRows, PanicNeedsRace, RowsOf
<1>3. CASE Panic
  <2>1. PICK p \in Prefixes : potential[p] # {} /\ Found(p) = {}
    BY <1>3 DEF Panic
  <2>2. PICK k \in RowsOf(p), l \in RowsOf(p) : k # l /\ Suspect(k) /\ Suspect(l)
    BY <1>3, <2>1 DEF Panic, TwoRows
  <2>3. k \in touched /\ l \in touched
    BY <2>1, <2>2 DEF Found, Suspect
  <2> QED BY <1>3, <2>2, <2>3 DEF Panic, TwoRows, PanicNeedsRace, RowsOf
<1>4. CASE Start \/ QueryRoutes \/ Record \/ Select \/ JoinAll \/ Dies
  <2>1. pc' \notin {"queryRoutes", "panicked"}
    BY <1>4 DEF Start, QueryRoutes, Record, Select, JoinAll, Dies, Exit
  <2> QED BY <2>1 DEF TwoRows, PanicNeedsRace
<1>5. CASE Shutdown \/ (\E p \in Prefixes : ScanStep(p)) \/ UNCHANGED vars
  <2>1. UNCHANGED <<routes, touched, pc, potential>>
    BY <1>5, ScanKeeps DEF Shutdown, vars, tables, analysis
  <2> QED BY <2>1 DEF TwoRows, PanicNeedsRace, Suspect, RowsOf
<1> QED BY <1>1, <1>2, <1>3, <1>4, <1>5, NextParts DEF Passing, Run

\* The expect in the second query fails only if ingest has changed two routes of
\* the prefix since the first query.
THEOREM PanicsOnlyInARace == Spec => []PanicNeedsRace
<1>1. Init => RaceInv
  BY DEF Init, RaceInv, TwoRows, PanicNeedsRace
<1>2. RaceInv => PanicNeedsRace
  BY DEF RaceInv
<1> QED BY <1>1, <1>2, TypesHold, RaceStep, PTL DEF Spec

-----------------------------------------------------------------------------
(* Conflicts that last. *)

Untouched(p) == RowsOf(p) \ touched

\* Rows that the first query found in conflict, and that are as it found them,
\* have brought their origins into potential.
CandidatesSeen ==
    pc = "queryRoutes" =>
        \A p \in Prefixes : \A j, l \in Untouched(p) :
            /\ Single(routes[j]) /\ Single(routes[l]) /\ routes[j].origins # routes[l].origins
            => routes[j].origins \subseteq potential[p]

LastingKept == pc = "record" => \A p \in Prefixes : lasting[p] \subseteq potential[p]

LastingInv == CandidatesSeen /\ LastingKept

\* The filter keeps the origins of two rows in conflict: each avoids the other.
LEMMA ConflictKept ==
  ASSUME TypeInv, CandidatesSeen, pc = "queryRoutes", NEW p \in Prefixes,
         NEW j \in Untouched(p), NEW l \in Untouched(p), InConflict(j, l)
  PROVE  routes[j].origins \subseteq Kept(p)
<1>1. /\ j \in RowsOf(p) /\ l \in RowsOf(p)
      /\ routes[j] \in Paths \cup {NoRow} /\ routes[l] \in Paths \cup {NoRow}
      /\ Single(routes[j]) /\ Single(routes[l])
  BY DEF Untouched, RowsOf, InConflict, TypeInv, TableTypes
<1>2. PICK o \in routes[j].origins : o \notin routes[l].ases
  BY DEF InConflict
<1>3. PICK d \in routes[l].origins : d \notin routes[j].ases \cup routes[j].origins
  BY DEF InConflict
<1>4. o # d /\ routes[j].origins # routes[l].origins
  BY <1>2, <1>3
<1>5. o \in potential[p] /\ d \in potential[p]
  BY <1>1, <1>2, <1>3, <1>4 DEF CandidatesSeen
<1>6. ~InAll(o, p) /\ ~InAll(d, p)
  BY <1>1, <1>2, <1>3 DEF InAll, Found
<1>7. {x \in potential[p] : ~InAll(x, p)} = Kept(p)
  BY <1>4, <1>5, <1>6 DEF Kept, Several
<1>8. \A x \in routes[j].origins : x = o
  BY <1>1, <1>2, SingleRow
<1> QED BY <1>5, <1>6, <1>7, <1>8

LEMMA LastingStep == ASSUME TypeInv, LastingInv, [Next]_vars PROVE LastingInv'
<1> USE DEF LastingInv
<1>1. CASE Ingesting
  <2>1. CASE UNCHANGED <<routes, touched>>
    BY <1>1, <2>1, IngestingKeeps DEF CandidatesSeen, LastingKept, Untouched, RowsOf, analysis
  <2>2. CASE Upserts \/ Deletes
    <3>1. ASSUME pc = "queryRoutes", NEW p \in Prefixes, NEW k \in Untouched(p)'
          PROVE  k \in Untouched(p) /\ routes'[k] = routes[k]
      BY <2>2, <3>1, TouchedStep DEF Untouched, RowsOf
    <3>2. CandidatesSeen'
      BY <1>1, <3>1, IngestingKeeps DEF CandidatesSeen, analysis
    <3> QED BY <1>1, <3>2, IngestingKeeps DEF LastingKept, analysis
  <2> QED BY <1>1, <2>1, <2>2 DEF Ingesting, Failing, Update, UpsertsFail, DeletesFail
<1>2. CASE QueryMoas
  <2>1. ASSUME NEW p \in Prefixes, NEW j \in RowsOf(p), NEW l \in RowsOf(p),
               Single(routes[j]), Single(routes[l]), routes[j].origins # routes[l].origins
        PROVE  routes[j].origins \subseteq potential'[p]
    <3>1. routes[j].origins \cup routes[l].origins \subseteq OriginsIn(routes, p)
      BY <2>1, OriginsMember
    <3>2. PICK o \in routes[j].origins, d \in routes[l].origins : o # d
      BY <2>1 DEF Single
    <3>3. Several(OriginsIn(routes, p))
      BY <3>1, <3>2 DEF Several
    <3> QED BY <1>2, <3>1, <3>3, PotentialIsOrigins
  <2>2. pc' # "record" /\ routes' = routes
    BY <1>2 DEF QueryMoas, tables
  <2> QED BY <2>1, <2>2 DEF CandidatesSeen, LastingKept, Untouched, RowsOf
<1>3. CASE QueryRoutes
  <2>1. ASSUME NEW p \in Prefixes PROVE lasting'[p] \subseteq potential'[p]
    <3> SUFFICES ASSUME NEW j \in RowsOf(p) \ touched, NEW l \in RowsOf(p) \ touched, InConflict(j, l)
                 PROVE  routes[j].origins \subseteq Kept(p)
      BY <1>3 DEF QueryRoutes
    <3> QED BY <1>3, ConflictKept DEF QueryRoutes, Untouched
  <2> QED BY <1>3, <2>1 DEF QueryRoutes, CandidatesSeen, LastingKept
<1>4. CASE Start \/ Panic \/ Record \/ Select \/ JoinAll \/ Dies
  <2>1. pc' \notin {"queryRoutes", "record"}
    BY <1>4 DEF Start, Panic, Record, Select, JoinAll, Dies, Exit
  <2> QED BY <2>1 DEF CandidatesSeen, LastingKept
<1>5. CASE Shutdown \/ (\E p \in Prefixes : ScanStep(p)) \/ UNCHANGED vars
  <2>1. UNCHANGED <<routes, touched, pc, potential, lasting>>
    BY <1>5, ScanKeeps DEF Shutdown, vars, tables, analysis
  <2> QED BY <2>1 DEF CandidatesSeen, LastingKept, Untouched, RowsOf
<1> QED BY <1>1, <1>2, <1>3, <1>4, <1>5, NextParts DEF Passing, Run

\* Two rows in conflict during both queries are recorded with their origins,
\* whatever ingest does to other routes.
THEOREM LastingRecorded == Spec => LastingConflictsFound
<1>1. Init => LastingInv
  BY DEF Init, LastingInv, CandidatesSeen, LastingKept
<1>2. Spec => []LastingInv
  BY <1>1, TypesHold, LastingStep, PTL DEF Spec
<1>3. ASSUME TypeInv, LastingInv, [Next]_vars
      PROVE  [pc = "record" /\ pc' = "select" =>
                \A p \in Prefixes : lasting[p] \subseteq moas'[p]]_vars
  <2> SUFFICES ASSUME Next, pc = "record", pc' = "select"
               PROVE  \A p \in Prefixes : lasting[p] \subseteq moas'[p]
    BY <1>3
  <2>1. Record
    <3>1. CASE Ingesting
      BY <3>1, IngestingKeeps DEF analysis
    <3>2. CASE Passing
      BY <3>2 DEF Passing, Run, Start, QueryMoas, QueryRoutes, Panic, Select, JoinAll,
         Shutdown, Dies, Exit
    <3>3. ASSUME NEW p \in Prefixes PROVE ~ScanStep(p)
      BY ScanKeeps
    <3>4. ~UNCHANGED vars
      BY DEF vars, analysis
    <3> QED BY <3>1, <3>2, <3>3, <3>4, NextParts
  <2> QED BY <1>3, <2>1 DEF Record, Merged, LastingInv, LastingKept, TypeInv, PassTypes
<1> QED BY <1>2, <1>3, TypesHold, PTL DEF Spec, LastingConflictsFound

-----------------------------------------------------------------------------
(* Conflicts are real. *)

\* routes once the batch that is being written is complete.
Written == [k \in Keys |-> IF k \in doomed THEN NoRow ELSE routes[k]]

\* An operation that is not lost has its row follow the session.
Followed ==
    \A k \in Keys : /\ pending[k] # NoOp => pending[k] = rib[k]
                    /\ pending[k] = NoOp /\ k \notin lost => Written[k] = rib[k]

OnRecord(table, p) == Several(OriginsIn(table, p)) => OriginsIn(table, p) \in together[p]

UpToDate(p) == RowsOf(p) \cap lost = {}

\* What the sessions announce of a prefix is on record, and so is what the table
\* shows of it between batches if no operation of its rows was lost.
TablesOnRecord ==
    \A p \in Prefixes : OnRecord(rib, p) /\ (UpToDate(p) => OnRecord(Written, p))

\* The candidates were announced at one time, if the first query saw no row of
\* the prefix out of date.
CandidatesTogether ==
    \A p \in Prefixes \ torn : potential[p] # {} => \E S \in together[p] : potential[p] \subseteq S

RealInv == Followed /\ TablesOnRecord /\ CandidatesTogether

LEMMA FollowedStep == ASSUME TypeInv, Followed, [Next]_vars PROVE Followed'
<1> USE DEF TypeInv, Followed
<1>1. ASSUME NEW k \in Keys, NEW route \in Paths \cup {NoRow}, Update(k, route) PROVE Followed'
  <2>1. route # NoOp
    BY MoasAssumption
  <2> QED BY <1>1, <2>1 DEF Update, Written, TableTypes
<1>2. CASE Upserts
  BY <1>2, MoasAssumption DEF Upserts, Batched, Written, TableTypes
<1>3. CASE Deletes
  BY <1>3 DEF Deletes, Written
<1>4. CASE UpsertsFail
  BY <1>4 DEF UpsertsFail, Batched, Written
<1>5. CASE DeletesFail
  BY <1>5 DEF DeletesFail, Written
<1>6. CASE Passing \/ (\E p \in Prefixes : ScanStep(p)) \/ UNCHANGED vars
  <2>1. UNCHANGED tables
    BY <1>6, PassingKeeps, ScanKeeps DEF vars
  <2> QED BY <2>1 DEF tables, Written
<1> QED BY <1>1, <1>2, <1>3, <1>4, <1>5, <1>6, NextParts DEF Ingesting, Failing

\* After the upserts every row of a prefix is up to date, if none was lost
\* before that no operation has repaired.
LEMMA UpsertsWrite ==
  ASSUME TypeInv, Followed, Upserts, NEW p, UpToDate(p)', NEW k \in RowsOf(p)
  PROVE  Written'[k] = rib[k]
<1>1. k \in Keys /\ k \notin lost'
  BY DEF UpToDate, RowsOf
<1>2. CASE pending[k] = NoOp
  BY <1>1, <1>2, MoasAssumption DEF Upserts, Batched, Written, Followed, TypeInv, TableTypes
<1>3. CASE pending[k] # NoOp
  BY <1>1, <1>3 DEF Upserts, Written, Followed, TypeInv, TableTypes
<1> QED BY <1>2, <1>3

\* The other steps of a batch change no row of a prefix that stays up to date.
LEMMA OthersWrite ==
  ASSUME Deletes \/ UpsertsFail \/ DeletesFail, NEW p, UpToDate(p)'
  PROVE  UpToDate(p) /\ \A k \in RowsOf(p) : Written'[k] = Written[k]
  BY DEF Deletes, UpsertsFail, DeletesFail, UpToDate, Written, RowsOf

LEMMA TablesStep == ASSUME TypeInv, Followed, TablesOnRecord, [Next]_vars PROVE TablesOnRecord'
<1> USE DEF TablesOnRecord
<1>1. ASSUME NEW k \in Keys, NEW route \in Paths \cup {NoRow}, Update(k, route)
      PROVE  TablesOnRecord'
  <2> DEFINE Shown(p) == OriginsIn(rib', p)
  <2>1. together' = [p \in Prefixes |-> together[p] \cup {S \in {Shown(p)} : Several(S)}]
    BY <1>1 DEF Update
  <2>2. \A p \in Prefixes : together[p] \subseteq together'[p] /\ (Several(Shown(p)) => Shown(p) \in together'[p])
    <3> HIDE DEF Shown
    <3> QED BY <2>1
  <2>3. UNCHANGED <<routes, doomed, lost>>
    BY <1>1 DEF Update
  <2>4. Written' = Written
    BY <2>3 DEF Written
  <2> QED BY <2>2, <2>3, <2>4 DEF OnRecord, UpToDate
<1>2. CASE Upserts
  <2>1. UNCHANGED <<rib, together>>
    BY <1>2 DEF Upserts
  <2>2. ASSUME NEW p \in Prefixes, UpToDate(p)' PROVE OnRecord(Written', p)
    <3>1. \A k \in RowsOf(p) : Written'[k] = rib[k]
      BY <1>2, <2>2, UpsertsWrite
    <3>2. OriginsIn(Written', p) = OriginsIn(rib, p)
      BY <3>1, SameRows
    <3> QED BY <3>2 DEF OnRecord
  <2> QED BY <2>1, <2>2 DEF OnRecord
<1>3. CASE Deletes \/ UpsertsFail \/ DeletesFail
  <2>1. UNCHANGED <<rib, together>>
    BY <1>3 DEF Deletes, UpsertsFail, DeletesFail
  <2>2. ASSUME NEW p \in Prefixes, UpToDate(p)' PROVE OnRecord(Written', p)
    <3>1. UpToDate(p) /\ OriginsIn(Written', p) = OriginsIn(Written, p)
      BY <1>3, <2>2, OthersWrite, SameRows
    <3> QED BY <3>1 DEF OnRecord
  <2> QED BY <2>1, <2>2 DEF OnRecord
<1>4. CASE Passing \/ (\E p \in Prefixes : ScanStep(p)) \/ UNCHANGED vars
  <2>1. UNCHANGED tables
    BY <1>4, PassingKeeps, ScanKeeps DEF vars
  <2> QED BY <2>1 DEF tables, Written, OnRecord, UpToDate
<1> QED BY <1>1, <1>2, <1>3, <1>4, NextParts DEF Ingesting, Failing

LEMMA CandidatesStep ==
  ASSUME TypeInv, TablesOnRecord, CandidatesTogether, [Next]_vars PROVE CandidatesTogether'
<1> USE DEF CandidatesTogether
<1>1. CASE Ingesting
  <2>1. UNCHANGED <<torn, potential>>
    BY <1>1, IngestingKeeps DEF analysis
  <2>2. \A p \in Prefixes : together[p] \subseteq together'[p]
    BY <1>1 DEF Ingesting, Failing, Update, Upserts, Deletes, UpsertsFail, DeletesFail
  <2> QED BY <2>1, <2>2
<1>2. CASE QueryMoas
  <2>1. UNCHANGED together /\ torn' = {p \in Prefixes : RowsOf(p) \cap (doomed \cup lost) # {}}
    BY <1>2 DEF QueryMoas, tables
  <2>2. ASSUME NEW p \in Prefixes \ torn', potential'[p] # {}
        PROVE  potential'[p] \in together[p]
    <3>1. UpToDate(p) /\ \A k \in RowsOf(p) : Written[k] = routes[k]
      BY <2>1, <2>2 DEF UpToDate, Written, RowsOf
    <3>2. OnRecord(routes, p)
      BY <3>1, SameRows DEF TablesOnRecord, OnRecord
    <3> QED BY <1>2, <2>2, <3>2, PotentialIsOrigins DEF OnRecord
  <2> QED BY <2>1, <2>2
<1>3. CASE QueryRoutes
  <2>1. UNCHANGED <<together, torn>>
    BY <1>3 DEF QueryRoutes, tables
  <2>2. \A p \in Prefixes : potential'[p] \subseteq potential[p]
    BY <1>3, KeptType DEF QueryRoutes, TypeInv
  <2> QED BY <2>1, <2>2
<1>4. CASE Record \/ Dies
  BY <1>4 DEF Record, Dies
<1>5. CASE Start \/ Panic \/ Select \/ JoinAll \/ Shutdown
  BY <1>5 DEF Start, Panic, Select, JoinAll, Shutdown, tables
<1>6. CASE (\E p \in Prefixes : ScanStep(p)) \/ UNCHANGED vars
  BY <1>6, ScanKeeps DEF vars, analysis, tables
<1> QED BY <1>1, <1>2, <1>3, <1>4, <1>5, <1>6, NextParts DEF Passing, Run

LEMMA InitReal == Init => RealInv
<1> SUFFICES ASSUME Init PROVE RealInv
  OBVIOUS
<1>1. routes \in [Keys -> Paths \cup {NoRow}] /\ rib = routes
  BY MoasAssumption DEF Init
<1>2. Written = routes
  BY <1>1 DEF Init, Written
<1>3. \A p \in Prefixes : OnRecord(routes, p)
  BY DEF Init, OnRecord
<1>4. Followed /\ TablesOnRecord
  BY <1>1, <1>2, <1>3 DEF Init, Followed, TablesOnRecord
<1>5. CandidatesTogether
  BY DEF Init, CandidatesTogether
<1> QED BY <1>4, <1>5 DEF RealInv

\* The origins that a pass records for a prefix were announced at one and the
\* same time, whatever batches were lost, unless the first query saw a row of
\* this prefix out of date.
THEOREM RecordedConflictsWereReal == Spec => ConflictsWereReal
<1>1. Spec => []RealInv
  BY InitReal, TypesHold, FollowedStep, TablesStep, CandidatesStep, PTL DEF Spec, RealInv
<1>2. ASSUME TypeInv, RealInv, [Next]_vars
      PROVE  [\A p \in Prefixes \ torn :
                 moas'[p] # moas[p] => \E S \in together[p] : moas'[p] \subseteq S]_vars
  <2>1. CASE Record
    <3>1. \A p \in Prefixes : moas'[p] # moas[p] => potential[p] # {} /\ moas'[p] = potential[p]
      BY <2>1 DEF Record, Merged
    <3> QED BY <1>2, <3>1 DEF RealInv, CandidatesTogether
  <2>2. CASE ~Record
    <3>1. CASE Ingesting
      BY <3>1, IngestingKeeps DEF analysis
    <3>2. CASE Passing
      BY <2>2, <3>2 DEF Passing, Run, Start, QueryMoas, QueryRoutes, Panic, Select, JoinAll,
         Shutdown, Dies
    <3>3. CASE (\E p \in Prefixes : ScanStep(p)) \/ UNCHANGED vars
      BY <3>3, ScanKeeps DEF vars, analysis
    <3> QED BY <1>2, <3>1, <3>2, <3>3, NextParts
  <2> QED BY <2>1, <2>2
<1> QED BY <1>1, <1>2, TypesHold, PTL DEF Spec, ConflictsWereReal

-----------------------------------------------------------------------------
(* The scans. *)

\* Outside the scans there are no tasks; a result that is being stored is that
\* of a zmap that succeeded.
ScanInv ==
    /\ ScansAccounted
    /\ pc # "scan" => \A p \in Prefixes : tasks[p] = "none"
    /\ \A p \in Prefixes : tasks[p] = "storing" => p \in zmapped

LEMMA ScanInvStep == ASSUME TypeInv, ScanInv, [Next]_vars PROVE ScanInv'
<1> USE DEF TypeInv, ScanInv, ScansAccounted
<1>1. CASE Ingesting
  BY <1>1, IngestingKeeps DEF analysis, scans
<1>2. CASE Start \/ QueryMoas \/ QueryRoutes \/ Panic \/ Record
  <2>1. UNCHANGED <<scans, ctxDone>> /\ pc # "scan"
    BY <1>2 DEF Start, QueryMoas, QueryRoutes, Panic, Record
  <2> QED BY <2>1 DEF scans
<1>3. CASE Shutdown
  BY <1>3 DEF Shutdown, scans
<1>4. CASE Select
  BY <1>4 DEF Select, Selectable
<1>5. CASE JoinAll \/ Dies
  <2>1. Exit /\ scanned' = scanned
    BY <1>5 DEF JoinAll, Dies
  <2> QED BY <2>1 DEF Exit
<1>6. ASSUME NEW p \in Prefixes, ScanStep(p) PROVE ScanInv'
  <2>1. UNCHANGED <<pc, ctxDone>> /\ pc = "scan"
    <3>1. tasks[p] # "none"
      BY <1>6 DEF ScanStep, Acquire, Zmap, ZmapSucceeds, ZmapFails, ZmapCut, Store, StoreFails,
         Step
    <3> QED BY <1>6, <3>1, ScanKeeps
  <2>2. CASE Acquire(p)
    BY <2>1, <2>2 DEF Acquire, Step, ScanTypes
  <2>3. CASE ZmapSucceeds(p)
    BY <2>1, <2>3 DEF ZmapSucceeds, Step, ScanTypes
  <2>4. CASE ZmapFails(p)
    BY <2>1, <2>4 DEF ZmapFails, AfterBadExit, Step, ScanTypes
  <2>5. CASE ZmapCut(p)
    BY <2>1, <2>5 DEF ZmapCut, Step, ScanTypes
  <2>6. CASE Store(p)
    BY <2>1, <2>6 DEF Store, Step, ScanTypes
  <2>7. CASE StoreFails(p)
    BY <2>1, <2>7 DEF StoreFails, Step, ScanTypes
  <2> QED BY <1>6, <2>2, <2>3, <2>4, <2>5, <2>6, <2>7 DEF ScanStep, Zmap
<1>7. CASE UNCHANGED vars
  BY <1>7 DEF vars, analysis, scans
<1> QED BY <1>1, <1>2, <1>3, <1>4, <1>5, <1>6, <1>7, NextParts DEF Passing, Run

\* last_scanned_at says that a zmap has succeeded; who was scanned is not scanned
\* again; who was selected is scanned unless there was an error or a shutdown.
THEOREM AllScansAccounted == Spec => []ScansAccounted
<1>1. Init => ScanInv
  BY DEF Init, ScanInv, ScansAccounted
<1>2. ScanInv => ScansAccounted
  BY DEF ScanInv
<1> QED BY <1>1, <1>2, TypesHold, ScanInvStep, PTL DEF Spec

=============================================================================
