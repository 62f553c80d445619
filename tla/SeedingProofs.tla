--------------------------- MODULE SeedingProofs ---------------------------
(***************************************************************************)
(* Theorems about Seeding, for every set of keys, every schedule of dumps, *)
(* any number of UPDATEs and any number of stops of the process.           *)
(*                                                                         *)
(* The argument is one of time: the past of the log does not change, what  *)
(* is pending is newer than what the table shows, and what a start has     *)
(* read up to is no older than any row.                                    *)
(***************************************************************************)
EXTENDS Seeding, FiniteSetTheorems, SequenceTheorems, TLAPS

-----------------------------------------------------------------------------
(* The newest of some UPDATEs or slots. *)

\* A set of naturals with a bound has a greatest element.
LEMMA Greatest ==
  ASSUME NEW T \in SUBSET Nat, T # {}, NEW b \in Nat, \A x \in T : x <= b
  PROVE  \E m \in T : \A x \in T : x <= m
<1> DEFINE Above(x) == (x + 1)..b
           W == {Above(x) : x \in T}
<1>1. W \subseteq FiniteSubsetsOf(Nat) /\ W # {}
  <2>1. ASSUME NEW x \in T PROVE Above(x) \in SUBSET Nat /\ IsFiniteSet(Above(x))
    BY FS_Interval
  <2> QED BY <2>1 DEF FiniteSubsetsOf
<1>2. IsWellFoundedOn(StrictSubsetOrdering(Nat), FiniteSubsetsOf(Nat))
  BY FS_StrictSubsetOrderingWellFounded
<1>3. PICK V \in W : \A U \in W : <<U, V>> \notin StrictSubsetOrdering(Nat)
  <2> HIDE DEF W
  <2> QED BY <1>1, <1>2, WFMin
<1>4. PICK m \in T : V = Above(m)
  OBVIOUS
<1>5. ASSUME NEW x \in T PROVE x <= m
  <2> SUFFICES ASSUME ~(x <= m) PROVE FALSE
    OBVIOUS
  <2>1. /\ Above(x) \subseteq Above(m) /\ x \in Above(m) /\ x \notin Above(x)
        /\ Above(x) \in SUBSET Nat /\ Above(m) \in SUBSET Nat
    OBVIOUS
  <2>2. <<Above(x), Above(m)>> \in StrictSubsetOrdering(Nat)
    <3> HIDE DEF Above
    <3> QED BY <2>1 DEF StrictSubsetOrdering
  <2> QED BY <1>3, <1>4, <2>2
<1> QED BY <1>5

LEMMA NewestIs ==
  ASSUME NEW S \in SUBSET Nat, S # {}, NEW b \in Nat, \A x \in S : x <= b
  PROVE  Newest(S) \in S /\ \A x \in S : x <= Newest(S)
<1>1. \E m \in S : \A x \in S : x <= m
  BY Greatest
<1> QED BY <1>1 DEF Newest

-----------------------------------------------------------------------------
(* The log. *)

Kinds == {"Upsert", "Delete"}
Entry == [key : Keys, kind : Kinds, slot : Nat]

LogInv ==
    /\ clock \in Slots /\ published \subseteq 1..(clock - 1)
    /\ log \in Seq(Entry)
    /\ \A n \in DOMAIN log : log[n].slot <= clock
    /\ \A n, m \in DOMAIN log : n < m => log[n].slot <= log[m].slot

\* A step leaves the UPDATEs in the log as they are, and adds some of now.
Grows ==
    /\ clock <= clock'
    /\ DOMAIN log \subseteq DOMAIN log'
    /\ \A n \in DOMAIN log : log'[n] = log[n]
    /\ \A n \in DOMAIN log' \ DOMAIN log : log'[n].slot = clock /\ \A m \in DOMAIN log : m < n

LEMMA LogTypes ==
  ASSUME LogInv
  PROVE  /\ clock \in Nat \ {0} /\ clock <= MaxSlot /\ Len(log) \in Nat
         /\ DOMAIN log = 1..Len(log)
         /\ \A n \in DOMAIN log : n \in Nat /\ n <= Len(log)
         /\ \A n \in DOMAIN log : log[n].key \in Keys /\ log[n].kind \in Kinds /\ log[n].slot \in Nat
<1>1. log \in Seq(Entry) /\ clock \in Nat \ {0} /\ clock <= MaxSlot
  BY SeedingAssumption DEF LogInv, Slots
<1>2. Len(log) \in Nat /\ DOMAIN log = 1..Len(log)
  BY <1>1
<1>3. \A n \in DOMAIN log : log[n] \in Entry
  BY <1>1, ElementOfSeq
<1>4. \A n \in DOMAIN log : n \in Nat /\ n <= Len(log)
  BY <1>2
<1> QED BY <1>1, <1>2, <1>3, <1>4 DEF Entry

LEMMA UpdateLog ==
  ASSUME LogInv, NEW k \in Keys, NEW kind \in Kinds, Update(k, kind)
  PROVE  LogInv' /\ Grows
<1> DEFINE e == [key |-> k, kind |-> kind, slot |-> clock]
<1>0. e \in Entry
  BY LogTypes DEF Entry
<1>1. log' = Append(log, e) /\ UNCHANGED <<clock, published>>
  BY DEF Update
<1>2. /\ log' \in Seq(Entry) /\ DOMAIN log' = 1..(Len(log) + 1)
      /\ \A n \in 1..Len(log) : log'[n] = log[n]
      /\ log'[Len(log) + 1] = e
  <2> HIDE DEF e
  <2> QED BY <1>0, <1>1 DEF LogInv
<1>3. \A n \in DOMAIN log' : n \in DOMAIN log \/ n = Len(log) + 1
  BY <1>2, LogTypes
<1>4. e.slot = clock
  OBVIOUS
<1> HIDE DEF e
<1>5. \A n \in DOMAIN log : n < Len(log) + 1 /\ n \in 1..Len(log) /\ n \in DOMAIN log'
  BY <1>2, LogTypes
<1>6. \A n \in DOMAIN log' : log'[n].slot <= clock
  BY <1>2, <1>3, <1>4, <1>5, LogTypes DEF LogInv
<1>7. \A n, m \in DOMAIN log' : n < m => log'[n].slot <= log'[m].slot
  <2> SUFFICES ASSUME NEW n \in DOMAIN log', NEW m \in DOMAIN log', n < m
               PROVE  log'[n].slot <= log'[m].slot
    OBVIOUS
  <2>1. CASE m \in DOMAIN log
    <3>1. n \in DOMAIN log
      BY <1>3, <2>1, LogTypes
    <3> QED BY <1>2, <1>5, <2>1, <3>1 DEF LogInv
  <2>2. CASE m = Len(log) + 1
    BY <1>2, <1>4, <1>6, <2>2
  <2> QED BY <1>3, <2>1, <2>2
<1>8. LogInv'
  BY <1>1, <1>2, <1>6, <1>7 DEF LogInv
<1>9. Grows
  BY <1>1, <1>2, <1>3, <1>4, <1>5, LogTypes DEF Grows
<1> QED BY <1>8, <1>9

LEMMA LogStep == ASSUME LogInv, [Next]_vars PROVE LogInv' /\ Grows
<1>1. CASE Tick
  <2>1. clock' \in Slots /\ clock <= clock' /\ published' \subseteq 1..(clock' - 1)
    BY <1>1, SeedingAssumption DEF LogInv, Tick, Slots
  <2>2. log' = log /\ clock' \in Nat
    BY <1>1, <2>1 DEF Tick, Slots
  <2>3. \A n \in DOMAIN log : log[n].slot <= clock'
    BY <2>1, <2>2, LogTypes DEF LogInv
  <2> QED BY <2>1, <2>2, <2>3 DEF LogInv, Grows
<1>2. CASE Publish
  <2>1. published' \subseteq 1..(clock - 1) /\ UNCHANGED <<clock, log>>
    BY <1>2 DEF LogInv, Publish
  <2> QED BY <2>1, LogTypes DEF LogInv, Grows
<1>3. CASE \E k \in Keys, kind \in Kinds : Update(k, kind)
  BY <1>3, UpdateLog
<1>4. CASE \/ Process \/ BviewCutOff \/ FileCutOff \/ WriteBatch \/ WriteFails \/ Stop
           \/ UNCHANGED vars
  <2>1. UNCHANGED world
    BY <1>4 DEF Process, StartFromTable, StartFromBview, Copy, BviewDone, ReadFile, SkipFile,
         SeedingDone, BviewCutOff, FileCutOff, WriteBatch, WriteFails, Stop, vars
  <2> QED BY <2>1, LogTypes DEF LogInv, Grows, world
<1> QED BY <1>1, <1>2, <1>3, <1>4 DEF Next, Kinds

LEMMA InitLog == Init => LogInv
<1> SUFFICES ASSUME Init PROVE LogInv
  OBVIOUS
<1> DEFINE c == Cardinality(Keys)
<1>1. c \in Nat /\ ExistsBijection(1..c, Keys)
  BY SeedingAssumption, FS_CardinalityType
<1>2. \E order \in [1..c -> Keys] : \A i, j \in DOMAIN order : i # j => order[i] # order[j]
  BY <1>1 DEF ExistsBijection, Bijection, Injection, IsInjective
<1>3. InOrder \in [1..c -> Keys]
  BY <1>2 DEF InOrder
<1>4. log = [i \in 1..c |-> [key |-> InOrder[i], kind |-> "Upsert", slot |-> 0]]
  BY DEF Init
<1> HIDE DEF c
<1>5. \A i \in 1..c : log[i] \in Entry /\ log[i].slot = 0
  BY <1>3, <1>4 DEF Entry, Kinds
<1>6. log \in Seq(Entry) /\ DOMAIN log = 1..c
  BY <1>1, <1>4, <1>5
<1>7. clock = 1 /\ published = {} /\ clock \in Slots
  BY SeedingAssumption DEF Init, Slots
<1> QED BY <1>5, <1>6, <1>7 DEF LogInv

-----------------------------------------------------------------------------
(* The past stays as it is. *)

LEMMA NewestOf ==
  ASSUME LogInv, NEW S \in SUBSET DOMAIN log, S # {}
  PROVE  Newest(S) \in S /\ \A n \in S : n <= Newest(S)
<1>1. S \in SUBSET Nat /\ Len(log) \in Nat /\ \A n \in S : n <= Len(log)
  BY LogTypes
<1> QED BY <1>1, NewestIs

LEMMA PastStays ==
  ASSUME LogInv, Grows, NEW s \in Nat, s <= clock
  PROVE  /\ Before(s)' = Before(s)
         /\ \A k : Of(k, Before(s))' = Of(k, Before(s))
         /\ Dump(s)' = Dump(s)
         /\ s < clock => InSlot(s)' = InSlot(s)
<1>1. ASSUME NEW n \in DOMAIN log' \ DOMAIN log PROVE ~(log'[n].slot < s) /\ log'[n].slot = clock
  BY LogTypes DEF Grows
<1>2. Before(s)' = Before(s)
  BY <1>1 DEF Before, Grows
<1>3. Before(s) \subseteq DOMAIN log
  BY DEF Before
<1>4. \A k : Of(k, Before(s))' = Of(k, Before(s))
  BY <1>2, <1>3 DEF Of, Grows
<1>5. ASSUME NEW k \in Keys, Of(k, Before(s)) # {}
      PROVE  log'[Newest(Of(k, Before(s)))] = log[Newest(Of(k, Before(s)))]
  <2>1. Of(k, Before(s)) \subseteq DOMAIN log
    BY <1>3 DEF Of
  <2>2. Newest(Of(k, Before(s))) \in Of(k, Before(s))
    BY <1>5, <2>1, NewestOf
  <2> QED BY <2>1, <2>2 DEF Grows
<1>6. Dump(s)' = Dump(s)
  BY <1>4, <1>5 DEF Dump
<1>7. s < clock => InSlot(s)' = InSlot(s)
  BY <1>1, LogTypes DEF InSlot, Grows
<1> QED BY <1>2, <1>4, <1>6, <1>7

-----------------------------------------------------------------------------
(* Where a seeding is, and what its files and rows are. *)

ControlInv ==
    /\ state \in {"off", "bview", "updates", "live"}
    /\ current \in Nat /\ since \in Nat /\ base \in Nat /\ stops \in Nat
    /\ current <= clock /\ base <= clock
    /\ state # "bview" => left = {}
    /\ state = "bview" => left \subseteq Dump(current) /\ since = current /\ base = current
    /\ state \in {"off", "bview"} => pending = {}
    /\ state \in {"updates", "live"} => base <= since /\ since <= current
    /\ state = "updates" /\ current = clock => since = clock \/ current \in skipped

\* A cached file is one of the past, and has nothing but what belongs there.
FileInv ==
    /\ DOMAIN cache = Slots /\ DOMAIN dumpCache = DumpSlots
    /\ \A s \in Slots : cache[s] # NoFile => cache[s] \subseteq InSlot(s) /\ s < clock
    /\ \A d \in DumpSlots : dumpCache[d] # NoFile => dumpCache[d] \subseteq Dump(d) /\ d <= clock

\* Rows are no older than the last dump and no newer than what is read; what is
\* pending is newer than the row of its key.
RowInv ==
    /\ applied \in [Keys -> Nat]
    /\ pending \subseteq DOMAIN log
    /\ \A m \in pending : base <= log[m].slot /\ (state = "updates" => log[m].slot <= current)
    /\ \A k \in Keys : routes[k] # NoRow =>
          /\ routes[k].op \in DOMAIN log /\ routes[k].at \in Nat
          /\ log[routes[k].op].slot <= routes[k].at
          /\ base <= routes[k].at /\ routes[k].at <= clock
          /\ state \in {"bview", "updates"} => routes[k].at <= current
          /\ \A m \in pending : log[m].key = k =>
                routes[k].op < m /\ routes[k].at <= log[m].slot

Inv == LogInv /\ ControlInv /\ FileInv /\ RowInv

LEMMA BviewSlot ==
  ASSUME LogInv
  PROVE  CurrentBview \in DumpSlots /\ CurrentBview <= clock /\ CurrentBview \in Nat \ {0}
<1> DEFINE S == {s \in DumpSlots : s <= clock}
<1>0. MaxSlot \in Nat /\ DumpSlots \subseteq 1..MaxSlot /\ 1 \in DumpSlots
  BY SeedingAssumption DEF Slots
<1>1. clock \in Nat \ {0}
  BY LogTypes
<1>a. \A s \in DumpSlots : s \in Nat \ {0}
  BY <1>0
<1>b. 1 <= clock
  BY <1>1
<1>2. S \in SUBSET (Nat \ {0}) /\ 1 \in S /\ \A s \in S : s <= clock
  BY <1>0, <1>a, <1>b
<1>3. Newest(S) \in S
  <2> HIDE DEF S
  <2> QED BY <1>1, <1>2, NewestIs
<1> QED BY <1>2, <1>3 DEF CurrentBview

LEMMA LastTimestamp ==
  ASSUME LogInv, RowInv, Timestamps # {}
  PROVE  /\ LastRouteTimestamp \in Nat /\ base <= LastRouteTimestamp
         /\ LastRouteTimestamp <= clock
         /\ \A k \in Keys : routes[k] # NoRow => routes[k].at <= LastRouteTimestamp
<1>1. Timestamps \in SUBSET Nat /\ \A s \in Timestamps : base <= s /\ s <= clock
  BY DEF RowInv, Timestamps
<1>2. LastRouteTimestamp \in Timestamps /\ \A s \in Timestamps : s <= LastRouteTimestamp
  BY <1>1, LogTypes, NewestIs DEF LastRouteTimestamp
<1>3. \A k \in Keys : routes[k] # NoRow => routes[k].at \in Timestamps
  BY DEF Timestamps
<1> QED BY <1>1, <1>2, <1>3

LEMMA NoTimestamps ==
  ASSUME NeedsBview, NEW k \in Keys
  PROVE  routes[k] = NoRow
  BY DEF NeedsBview, Timestamps

LEMMA NextSlot ==
  ASSUME LogInv, ControlInv, Looking
  PROVE  /\ NextUpdate = current + 1 /\ NextUpdate \in Slots /\ NextUpdate \in Nat
         /\ current < NextUpdate /\ NextUpdate <= clock
<1>1. current \in Nat /\ current + 1 <= clock /\ clock \in Nat /\ clock <= MaxSlot
  BY LogTypes DEF ControlInv, Looking, NextUpdate
<1> QED BY <1>1, SeedingAssumption DEF NextUpdate, Slots

\* The UPDATEs a file yields.
LEMMA FileOps ==
  ASSUME LogInv, ControlInv, FileInv, ReadFile
  PROVE  \E ops \in SUBSET InSlot(NextUpdate) :
            /\ cache' = [cache EXCEPT ![NextUpdate] = ops]
            /\ pending' = pending \cup ops /\ SendEvents(ops)
            /\ ops = InSlot(NextUpdate) \/ (ops = cache[NextUpdate] /\ Cached)
            /\ NextUpdate < clock
<1> DEFINE ops == IF Cached THEN cache[NextUpdate] ELSE InSlot(NextUpdate)
<1>1. NextUpdate \in Slots /\ NextUpdate \in Nat /\ clock \in Nat
  BY NextSlot, LogTypes DEF ReadFile
<1>2. ops \subseteq InSlot(NextUpdate)
  BY <1>1 DEF FileInv, Cached
<1>3. NextUpdate < clock
  <2>1. CASE Cached
    BY <1>1, <2>1 DEF FileInv, Cached
  <2>2. CASE NextUpdate \in published
    BY <1>1, <2>2 DEF LogInv
  <2> QED BY <2>1, <2>2 DEF ReadFile
<1>4. /\ cache' = [cache EXCEPT ![NextUpdate] = ops]
      /\ pending' = pending \cup ops /\ SendEvents(ops)
  BY DEF ReadFile
<1>5. ops = InSlot(NextUpdate) \/ (ops = cache[NextUpdate] /\ Cached)
  OBVIOUS
<1> HIDE DEF ops
<1> QED BY <1>2, <1>3, <1>4, <1>5

-----------------------------------------------------------------------------
(* Files. *)

LEMMA FileStep == ASSUME Inv, [Next]_vars PROVE FileInv'
<1>0. LogInv /\ ControlInv /\ FileInv /\ Grows /\ LogInv'
  BY LogStep DEF Inv
<1>a. clock \in Nat /\ clock' \in Nat /\ clock <= clock'
  BY <1>0, LogTypes, SeedingAssumption DEF Grows, LogInv, Slots
<1>1. ASSUME NEW s \in Slots, cache[s] # NoFile
      PROVE  cache[s] \subseteq InSlot(s)' /\ s < clock'
  <2>1. s \in Nat /\ s < clock /\ cache[s] \subseteq InSlot(s)
    BY <1>0, <1>1 DEF FileInv, Slots
  <2> QED BY <1>0, <1>a, <2>1, PastStays
<1>2. ASSUME NEW d \in DumpSlots, dumpCache[d] # NoFile
      PROVE  dumpCache[d] \subseteq Dump(d)' /\ d <= clock'
  <2>1. d \in Nat /\ d <= clock /\ dumpCache[d] \subseteq Dump(d)
    BY <1>0, <1>2, SeedingAssumption DEF FileInv, Slots
  <2> QED BY <1>0, <1>a, <2>1, PastStays
<1>3. CASE UNCHANGED files
  BY <1>0, <1>1, <1>2, <1>3 DEF FileInv, files
<1>4. CASE ReadFile
  <2>1. PICK ops \in SUBSET InSlot(NextUpdate) :
           cache' = [cache EXCEPT ![NextUpdate] = ops] /\ NextUpdate < clock
    BY <1>0, <1>4, FileOps
  <2>2. UNCHANGED <<clock, log, dumpCache>>
    BY <1>4 DEF ReadFile, world
  <2>3. \A s \in Slots : InSlot(s)' = InSlot(s)
    BY <2>2 DEF InSlot
  <2> QED BY <1>0, <1>2, <2>1, <2>2, <2>3 DEF FileInv
<1>5. CASE FileCutOff
  <2>1. PICK part \in SUBSET InSlot(NextUpdate) :
           cache' = [cache EXCEPT ![NextUpdate] = part]
    BY <1>5 DEF FileCutOff
  <2>2. UNCHANGED <<clock, log, dumpCache>> /\ NextUpdate \in published
    BY <1>5 DEF FileCutOff, world
  <2>3. \A s \in Slots : InSlot(s)' = InSlot(s)
    BY <2>2 DEF InSlot
  <2>4. NextUpdate < clock
    BY <1>0, <1>a, <2>2 DEF LogInv
  <2> QED BY <1>0, <1>2, <2>1, <2>2, <2>3, <2>4 DEF FileInv
<1>6. CASE StartFromBview
  <2> DEFINE d == CurrentBview
  <2>1. d \in DumpSlots /\ d <= clock
    BY <1>0, BviewSlot
  <2>2. /\ UNCHANGED <<clock, log, cache>> /\ dumpCache' = [dumpCache EXCEPT ![d] = left']
        /\ left' = IF dumpCache[d] # NoFile THEN dumpCache[d] ELSE Dump(d)
    BY <1>6 DEF StartFromBview, world
  <2>3. left' \subseteq Dump(d)
    BY <1>0, <2>1, <2>2 DEF FileInv
  <2>4. \A s \in DumpSlots : Dump(s)' = Dump(s)
    BY <2>2 DEF Dump, Of, Before
  <2>5. DOMAIN dumpCache' = DumpSlots
    BY <1>0, <2>2 DEF FileInv
  <2>6. ASSUME NEW e \in DumpSlots, dumpCache'[e] # NoFile
        PROVE  dumpCache'[e] \subseteq Dump(e)' /\ e <= clock'
    <3>1. CASE e = d
      BY <1>0, <2>1, <2>2, <2>3, <2>4, <3>1 DEF FileInv
    <3>2. CASE e # d
      <4>1. dumpCache'[e] = dumpCache[e]
        BY <2>2, <3>2
      <4> QED BY <1>2, <2>6, <4>1
    <3> QED BY <3>1, <3>2
  <2>7. \A s \in Slots : cache'[s] # NoFile => cache'[s] \subseteq InSlot(s)' /\ s < clock'
    BY <1>1, <2>2
  <2> QED BY <1>0, <2>2, <2>5, <2>6, <2>7 DEF FileInv
<1>7. CASE BviewCutOff
  <2> DEFINE d == CurrentBview
  <2>1. d \in DumpSlots /\ d <= clock
    BY <1>0, BviewSlot
  <2>2. PICK part \in SUBSET Dump(d) : dumpCache' = [dumpCache EXCEPT ![d] = part]
    BY <1>7 DEF BviewCutOff
  <2>3. UNCHANGED <<clock, log, cache>>
    BY <1>7 DEF BviewCutOff, world
  <2>4. \A s \in DumpSlots : Dump(s)' = Dump(s)
    BY <2>3 DEF Dump, Of, Before
  <2>5. DOMAIN dumpCache' = DumpSlots
    BY <1>0, <2>2 DEF FileInv
  <2>6. ASSUME NEW e \in DumpSlots, dumpCache'[e] # NoFile
        PROVE  dumpCache'[e] \subseteq Dump(e)' /\ e <= clock'
    <3>1. CASE e = d
      BY <1>0, <2>1, <2>2, <2>3, <2>4, <3>1 DEF FileInv
    <3>2. CASE e # d
      <4>1. dumpCache'[e] = dumpCache[e]
        BY <2>2, <3>2
      <4> QED BY <1>2, <2>6, <4>1
    <3> QED BY <3>1, <3>2
  <2>7. \A s \in Slots : cache'[s] # NoFile => cache'[s] \subseteq InSlot(s)' /\ s < clock'
    BY <1>1, <2>3
  <2> QED BY <1>0, <2>3, <2>5, <2>6, <2>7 DEF FileInv
<1>8. CASE \/ Tick \/ Publish \/ (\E k \in Keys, kind \in {"Upsert", "Delete"} : Update(k, kind))
           \/ StartFromTable \/ Copy \/ BviewDone \/ SkipFile \/ SeedingDone \/ WriteBatch
           \/ WriteFails \/ Stop \/ UNCHANGED vars
  <2>1. UNCHANGED files
    BY <1>8 DEF Tick, Publish, Update, StartFromTable, Copy, BviewDone, SkipFile, SeedingDone,
                WriteBatch, WriteFails, Stop, vars
  <2> QED BY <1>3, <2>1
<1> QED BY <1>4, <1>5, <1>6, <1>7, <1>8 DEF Next, Process

-----------------------------------------------------------------------------
(* Control. *)

LEMMA ControlStep == ASSUME Inv, [Next]_vars PROVE ControlInv'
<1>0. LogInv /\ ControlInv /\ FileInv /\ RowInv /\ Grows /\ LogInv'
  BY LogStep DEF Inv
<1>a. /\ clock \in Nat /\ clock' \in Nat /\ clock <= clock'
      /\ current \in Nat /\ current <= clock /\ since \in Nat /\ base \in Nat /\ stops \in Nat
      /\ base <= clock
  BY <1>0, LogTypes, SeedingAssumption DEF Grows, LogInv, Slots, ControlInv
<1>b. Dump(current)' = Dump(current) \/ current' # current
  <2>1. PICK s \in Nat : s = current
    BY <1>a
  <2> QED BY <1>0, <1>a, <2>1, PastStays DEF Dump, Of, Before
<1>1. CASE Tick \/ Publish \/ BviewCutOff \/ UNCHANGED vars
  <2>1. /\ UNCHANGED <<state, current, since, base, left, pending, skipped>>
        /\ stops' \in Nat
    BY <1>a, <1>1 DEF Tick, Publish, BviewCutOff, vars, history
  <2>2. clock' = clock \/ current' # clock'
    BY <1>a, <1>1, <2>1 DEF Tick, Publish, BviewCutOff, vars, world
  <2>3. current' <= clock' /\ base' <= clock'
    BY <1>a, <2>1
  <2> QED BY <1>0, <1>b, <2>1, <2>2, <2>3 DEF ControlInv
<1>2. CASE \E k \in Keys, kind \in {"Upsert", "Delete"} : Update(k, kind)
  <2>1. /\ UNCHANGED <<clock, state, current, since, base, left, skipped, stops>>
        /\ pending' = pending \/ state = "live"
    BY <1>2 DEF Update
  <2> QED BY <1>0, <1>b, <2>1 DEF ControlInv
<1>3. CASE StartFromTable
  <2>1. /\ state = "off" /\ state' = "updates" /\ Timestamps # {}
        /\ current' = LastRouteTimestamp /\ since' = LastRouteTimestamp
        /\ UNCHANGED <<clock, left, pending, base, stops>>
    BY <1>3 DEF StartFromTable, Began, NeedsBview, world
  <2>2. /\ LastRouteTimestamp \in Nat /\ base <= LastRouteTimestamp
        /\ LastRouteTimestamp <= clock
    BY <1>0, <2>1, LastTimestamp
  <2> QED BY <1>0, <2>1, <2>2 DEF ControlInv
<1>4. CASE StartFromBview
  <2>0. PICK d \in Nat : d = CurrentBview /\ d \in DumpSlots /\ d <= clock
    BY <1>0, BviewSlot
  <2>1. /\ state = "off" /\ state' = "bview" /\ current' = d /\ since' = d /\ base' = d
        /\ UNCHANGED <<clock, log, pending, stops>>
        /\ left' = IF dumpCache[d] # NoFile THEN dumpCache[d] ELSE Dump(d)
    BY <1>4, <2>0 DEF StartFromBview, Began, world
  <2>2. left' \subseteq Dump(d)
    BY <1>0, <2>0, <2>1 DEF FileInv
  <2>3. Dump(current)' = Dump(d)
    BY <2>1 DEF Dump, Of, Before
  <2> QED BY <1>0, <1>a, <2>0, <2>1, <2>2, <2>3 DEF ControlInv
<1>5. CASE Copy
  <2>1. /\ UNCHANGED <<clock, state, current, since, base, pending, skipped, stops>>
        /\ left' \subseteq left
    BY <1>5 DEF Copy, world, history
  <2>2. state = "bview"
    BY <1>5 DEF Copy
  <2> QED BY <1>0, <1>b, <2>1, <2>2 DEF ControlInv
<1>6. CASE BviewDone
  <2>1. /\ UNCHANGED <<clock, current, since, base, pending, skipped, stops>>
        /\ left' = {} /\ state = "bview" /\ state' = "updates"
    BY <1>6 DEF BviewDone, world, history
  <2> QED BY <1>0, <1>a, <2>1 DEF ControlInv
<1>7. CASE ReadFile
  <2>1. /\ NextUpdate \in Nat /\ current < NextUpdate /\ NextUpdate < clock
    BY <1>0, <1>7, FileOps, NextSlot DEF ReadFile
  <2>2. /\ state = "updates" /\ current' = NextUpdate
        /\ UNCHANGED <<clock, state, left, since, base, skipped, stops>>
    BY <1>7 DEF ReadFile, Looking, Advance, world, history
  <2>3. base <= since /\ since <= current' /\ current' # clock'
    BY <1>0, <1>a, <2>1, <2>2 DEF ControlInv
  <2> QED BY <1>0, <1>a, <2>1, <2>2, <2>3 DEF ControlInv
<1>8. CASE SkipFile
  <2>1. /\ NextUpdate \in Nat /\ current < NextUpdate /\ NextUpdate <= clock
    BY <1>0, <1>8, NextSlot DEF SkipFile
  <2>2. /\ state = "updates" /\ current' = NextUpdate /\ NextUpdate \in skipped'
        /\ UNCHANGED <<clock, state, left, pending, since, base, stops>>
    BY <1>8 DEF SkipFile, Looking, AdvanceAnyway, world
  <2>3. base <= since /\ since <= current'
    BY <1>0, <1>a, <2>1, <2>2 DEF ControlInv
  <2> QED BY <1>0, <1>a, <2>1, <2>2, <2>3 DEF ControlInv
<1>9. CASE FileCutOff \/ Stop
  <2>1. /\ state' = "off" /\ pending' = {} /\ UNCHANGED <<clock, current, since, base>>
        /\ stops' \in Nat /\ left' = {}
    BY <1>0, <1>a, <1>9 DEF FileCutOff, Stop, Looking, world, ControlInv
  <2> QED BY <1>0, <1>a, <2>1 DEF ControlInv
<1>10. CASE SeedingDone
  <2>1. /\ state = "updates" /\ state' = "live" /\ left' = left
        /\ UNCHANGED <<clock, current, since, base, stops>>
    BY <1>10 DEF SeedingDone, world
  <2> QED BY <1>0, <2>1 DEF ControlInv
<1>11. CASE WriteBatch \/ WriteFails
  <2>1. /\ state \in {"updates", "live"}
        /\ UNCHANGED <<clock, state, left, current, since, base, skipped, stops>>
    BY <1>11 DEF WriteBatch, WriteFails, world, history
  <2> QED BY <1>0, <2>1 DEF ControlInv
<1> QED BY <1>1, <1>2, <1>3, <1>4, <1>5, <1>6, <1>7, <1>8, <1>9, <1>10, <1>11 DEF Next, Process

-----------------------------------------------------------------------------
(* Rows. *)

\* What does not write a row, nor gets anything to write, leaves the rows in order.
LEMMA RowsKept ==
  ASSUME Inv, [Next]_vars, UNCHANGED <<routes, applied, base>>, pending' \subseteq pending,
         state' \in {"bview", "updates"} => state \in {"bview", "updates"} /\ current <= current'
  PROVE  RowInv'
<1>0. LogInv /\ RowInv /\ Grows /\ LogInv'
  BY LogStep DEF Inv
<1>1. /\ clock \in Nat /\ clock' \in Nat /\ clock <= clock' /\ current \in Nat
      /\ base \in Nat /\ (state = "bview" => pending = {})
  BY <1>0, LogTypes, SeedingAssumption DEF Grows, LogInv, Slots, Inv, ControlInv
<1>2. state' \in {"bview", "updates"} => current' \in Nat
  BY ControlStep DEF ControlInv
<1>3. \A n \in DOMAIN log : n \in DOMAIN log' /\ log'[n] = log[n] /\ log[n].slot \in Nat
  BY <1>0, LogTypes DEF Grows
<1>4. applied' \in [Keys -> Nat] /\ pending' \subseteq DOMAIN log'
  BY <1>0, <1>3 DEF RowInv
<1>5. ASSUME NEW m \in pending'
      PROVE  base' <= log'[m].slot /\ (state' = "updates" => log'[m].slot <= current')
  <2>1. /\ m \in pending /\ base <= log[m].slot /\ log'[m] = log[m] /\ log[m].slot \in Nat
        /\ (state = "updates" => log[m].slot <= current)
    BY <1>0, <1>3, <1>5 DEF RowInv
  <2> QED BY <1>1, <1>2, <2>1
<1>6. ASSUME NEW k \in Keys, routes'[k] # NoRow
      PROVE  /\ routes'[k].op \in DOMAIN log' /\ routes'[k].at \in Nat
             /\ log'[routes'[k].op].slot <= routes'[k].at
             /\ base' <= routes'[k].at /\ routes'[k].at <= clock'
             /\ state' \in {"bview", "updates"} => routes'[k].at <= current'
             /\ \A m \in pending' : log'[m].key = k =>
                   routes'[k].op < m /\ routes'[k].at <= log'[m].slot
  <2>1. /\ routes[k].op \in DOMAIN log /\ routes[k].at \in Nat
        /\ log[routes[k].op].slot <= routes[k].at
        /\ base <= routes[k].at /\ routes[k].at <= clock
        /\ state \in {"bview", "updates"} => routes[k].at <= current
    BY <1>0, <1>6 DEF RowInv
  <2>2. \A m \in pending : m \in DOMAIN log /\ (log[m].key = k =>
                routes[k].op < m /\ routes[k].at <= log[m].slot)
    BY <1>0, <1>6 DEF RowInv
  <2>3. routes'[k] = routes[k] /\ base' = base
    OBVIOUS
  <2>4. state' \in {"bview", "updates"} => routes[k].at <= current'
    BY <1>1, <1>2, <2>1
  <2> QED BY <1>1, <1>3, <2>1, <2>2, <2>3, <2>4
<1> QED BY <1>4, <1>5, <1>6 DEF RowInv

\* Of the last UPDATEs of a key, which are all before a slot, and of the key itself.
LEMMA DumpRow ==
  ASSUME LogInv, NEW s \in Nat, NEW k \in Dump(s)
  PROVE  LET n == Newest(Of(k, Before(s)))
         IN  /\ k \in Keys /\ n \in DOMAIN log /\ n \in Nat /\ log[n].key = k
             /\ log[n].slot < s
             /\ \A m \in Of(k, Before(s)) : m <= n
<1> DEFINE n == Newest(Of(k, Before(s)))
<1>1. Of(k, Before(s)) \subseteq DOMAIN log /\ Of(k, Before(s)) # {} /\ k \in Keys
  BY DEF Of, Before, Dump
<1>2. n \in Of(k, Before(s)) /\ \A m \in Of(k, Before(s)) : m <= n
  BY <1>1, NewestOf
<1>3. n \in DOMAIN log /\ log[n].key = k /\ log[n].slot < s
  BY <1>2 DEF Of, Before
<1> QED BY <1>1, <1>2, <1>3, LogTypes

\* The UPDATEs of a later slot are newer.
LEMMA LaterIsNewer ==
  ASSUME LogInv, NEW n \in DOMAIN log, NEW m \in DOMAIN log, log[n].slot < log[m].slot
  PROVE  n < m
<1>1. n \in Nat /\ m \in Nat /\ log[n].slot \in Nat /\ log[m].slot \in Nat
  BY LogTypes
<1>2. m < n => log[m].slot <= log[n].slot
  BY DEF LogInv
<1>3. ~(m < n) /\ m # n
  BY <1>1, <1>2
<1> QED BY <1>1, <1>3

LEMMA CopyRows == ASSUME Inv, Copy PROVE RowInv'
<1>0. LogInv /\ ControlInv /\ RowInv
  BY DEF Inv
<1>1. PICK ks \in SUBSET left :
         /\ applied' = [k \in Keys |-> IF k \in ks THEN Newest(Of(k, Before(current)))
                                                     ELSE applied[k]]
         /\ routes' = [k \in Keys |-> IF k \in ks THEN [op |-> applied'[k], at |-> current]
                                                    ELSE routes[k]]
  BY DEF Copy
<1>2. state = "bview" /\ UNCHANGED <<clock, log, state, current, pending, base>>
  BY DEF Copy, world, history
<1>3. /\ pending = {} /\ base = current /\ left \subseteq Dump(current)
      /\ current \in Nat /\ current <= clock
  BY <1>0, <1>2 DEF ControlInv
<1>4. ASSUME NEW k \in ks
      PROVE  LET n == Newest(Of(k, Before(current)))
             IN  k \in Keys /\ n \in DOMAIN log /\ n \in Nat /\ log[n].slot < current
  BY <1>0, <1>3, DumpRow
<1>5. applied' \in [Keys -> Nat]
  BY <1>0, <1>1, <1>4 DEF RowInv
<1>6. ASSUME NEW k \in Keys, routes'[k] # NoRow
      PROVE  /\ routes'[k].op \in DOMAIN log /\ routes'[k].at \in Nat
             /\ log[routes'[k].op].slot <= routes'[k].at
             /\ base <= routes'[k].at /\ routes'[k].at <= clock
             /\ routes'[k].at <= current
  <2>1. CASE k \in ks
    <3>1. routes'[k] = [op |-> Newest(Of(k, Before(current))), at |-> current]
      BY <1>1, <2>1
    <3>2. current <= current /\ base <= current
      BY <1>3
    <3>3. log[Newest(Of(k, Before(current)))].slot <= current
      BY <1>0, <1>3, <1>4, <2>1, LogTypes
    <3> QED BY <1>3, <1>4, <2>1, <3>1, <3>2, <3>3
  <2>2. CASE k \notin ks
    <3>1. routes'[k] = routes[k]
      BY <1>1, <2>2
    <3> QED BY <1>0, <1>2, <1>6, <3>1 DEF RowInv
  <2> QED BY <2>1, <2>2
<1> QED BY <1>2, <1>3, <1>5, <1>6 DEF RowInv

LEMMA ReadRows == ASSUME Inv, ReadFile PROVE RowInv'
<1>0. LogInv /\ ControlInv /\ FileInv /\ RowInv
  BY DEF Inv
<1>1. PICK ops \in SUBSET InSlot(NextUpdate) : pending' = pending \cup ops
  BY <1>0, FileOps
<1>2. /\ NextUpdate = current + 1 /\ NextUpdate \in Nat /\ current < NextUpdate
      /\ NextUpdate <= clock /\ current \in Nat /\ clock \in Nat /\ base \in Nat /\ base <= current
      /\ state = "updates"
  BY <1>0, NextSlot, LogTypes DEF ReadFile, Looking, ControlInv
<1>3. /\ current' = NextUpdate
      /\ UNCHANGED <<clock, log, state, routes, applied, base>>
  BY DEF ReadFile, Advance, world, history
<1>4. \A m \in ops : m \in DOMAIN log /\ log[m].slot = NextUpdate
  BY DEF InSlot
<1>5. \A m \in pending : m \in DOMAIN log /\ base <= log[m].slot /\ log[m].slot <= current
                             /\ log[m].slot \in Nat
  BY <1>0, <1>2, LogTypes DEF RowInv
<1>6. /\ pending' \subseteq DOMAIN log
      /\ \A m \in pending' : base <= log[m].slot /\ log[m].slot <= NextUpdate
  BY <1>1, <1>2, <1>4, <1>5
<1>7. ASSUME NEW k \in Keys, routes[k] # NoRow
      PROVE  /\ routes[k].op \in DOMAIN log /\ routes[k].at \in Nat
             /\ log[routes[k].op].slot <= routes[k].at
             /\ base <= routes[k].at /\ routes[k].at <= clock
             /\ routes[k].at <= NextUpdate
             /\ \A m \in pending' : log[m].key = k =>
                   routes[k].op < m /\ routes[k].at <= log[m].slot
  <2>1. /\ routes[k].op \in DOMAIN log /\ routes[k].at \in Nat
        /\ log[routes[k].op].slot <= routes[k].at
        /\ base <= routes[k].at /\ routes[k].at <= clock /\ routes[k].at <= current
        /\ \A m \in pending : log[m].key = k =>
              routes[k].op < m /\ routes[k].at <= log[m].slot
    BY <1>0, <1>2, <1>7 DEF RowInv
  <2>2. log[routes[k].op].slot \in Nat
    BY <1>0, <2>1, LogTypes
  <2>3. ASSUME NEW m \in ops PROVE routes[k].op < m /\ routes[k].at <= log[m].slot
    <3>1. m \in DOMAIN log /\ log[routes[k].op].slot < log[m].slot /\ routes[k].at <= log[m].slot
      BY <1>2, <1>4, <2>1, <2>2
    <3> QED BY <1>0, <2>1, <3>1, LaterIsNewer
  <2>4. routes[k].at <= NextUpdate
    BY <1>2, <2>1
  <2> QED BY <1>1, <2>1, <2>3, <2>4
<1> QED BY <1>0, <1>2, <1>3, <1>6, <1>7 DEF RowInv

\* What WriteBatch executes: some UPDATEs older than the rest of those pending;
\* a key they name shows the last of its own.
Executed(ops) ==
    /\ ops \in SUBSET pending /\ \A n \in ops : \A m \in pending \ ops : n < m
    /\ pending' = pending \ ops
    /\ \A k \in Keys :
          \/ /\ Of(k, ops) = {}
             /\ routes'[k] = routes[k] /\ applied'[k] = applied[k]
          \/ \E n \in Of(k, ops) :
                /\ \A m \in Of(k, ops) : m <= n
                /\ applied'[k] = n
                /\ routes'[k] = IF log[n].kind = "Upsert" THEN [op |-> n, at |-> log[n].slot]
                                                          ELSE NoRow

LEMMA WriteExecutes ==
  ASSUME LogInv, RowInv, WriteBatch
  PROVE  /\ \E ops \in SUBSET pending : Executed(ops)
         /\ applied' \in [Keys -> Nat]
<1> DEFINE Named(ops) == {k \in Keys : Of(k, ops) # {}}
           Last(k, ops) == Newest(Of(k, ops))
           RowOf(n) == IF log[n].kind = "Upsert" THEN [op |-> n, at |-> log[n].slot] ELSE NoRow
<1>1. PICK ops \in NextOnes :
         /\ routes' = [k \in Keys |-> IF k \in Named(ops) THEN RowOf(Last(k, ops)) ELSE routes[k]]
         /\ applied' = [k \in Keys |-> IF k \in Named(ops) THEN Last(k, ops) ELSE applied[k]]
         /\ pending' = pending \ ops
  BY DEF WriteBatch
<1>2. ops \in SUBSET pending /\ \A n \in ops : \A m \in pending \ ops : n < m
  BY DEF NextOnes
<1>3. pending \subseteq DOMAIN log /\ applied \in [Keys -> Nat]
  BY DEF RowInv
<1>4. ASSUME NEW k \in Keys, Of(k, ops) # {}
      PROVE  /\ Last(k, ops) \in Of(k, ops) /\ Last(k, ops) \in Nat
             /\ \A m \in Of(k, ops) : m <= Last(k, ops)
             /\ applied'[k] = Last(k, ops) /\ routes'[k] = RowOf(Last(k, ops))
  <2>1. Of(k, ops) \subseteq DOMAIN log
    BY <1>2, <1>3 DEF Of
  <2>2. Last(k, ops) \in Of(k, ops) /\ \A m \in Of(k, ops) : m <= Last(k, ops)
    BY <1>4, <2>1, NewestOf
  <2>3. k \in Named(ops)
    BY <1>4
  <2>4. applied'[k] = Last(k, ops) /\ routes'[k] = RowOf(Last(k, ops))
    <3> HIDE DEF Named, Last, RowOf
    <3> QED BY <1>1, <2>3
  <2> QED BY <2>1, <2>2, <2>4, LogTypes
<1>5. ASSUME NEW k \in Keys, Of(k, ops) = {}
      PROVE  routes'[k] = routes[k] /\ applied'[k] = applied[k]
  BY <1>1, <1>5
<1>6. Executed(ops)
  <2> HIDE DEF Last
  <2> QED BY <1>1, <1>2, <1>4, <1>5 DEF Executed
<1>7. applied' \in [Keys -> Nat]
  <2>1. \A k \in Keys : applied'[k] \in Nat
    BY <1>3, <1>4, <1>5
  <2>2. \E F : applied' = [k \in Keys |-> F[k]]
    <3>1. applied' = [k \in Keys |-> applied'[k]]
      BY <1>1
    <3> QED BY <3>1
  <2> QED BY <2>1, <2>2
<1> QED BY <1>2, <1>6, <1>7

LEMMA WriteRows == ASSUME Inv, WriteBatch PROVE RowInv'
<1>0. LogInv /\ ControlInv /\ RowInv
  BY DEF Inv
<1>1. PICK ops \in SUBSET pending : Executed(ops)
  BY <1>0, WriteExecutes
<1>2. applied' \in [Keys -> Nat]
  BY <1>0, WriteExecutes
<1>3. UNCHANGED <<clock, log, state, current, base>> /\ state \in {"updates", "live"}
  BY DEF WriteBatch, world, history
<1>4. /\ pending' = pending \ ops /\ pending \subseteq DOMAIN log
      /\ \A m \in pending : base <= log[m].slot /\ (state = "updates" => log[m].slot <= current)
  BY <1>0, <1>1 DEF Executed, RowInv
<1>5. ASSUME NEW k \in Keys, routes'[k] # NoRow
      PROVE  /\ routes'[k].op \in DOMAIN log /\ routes'[k].at \in Nat
             /\ log[routes'[k].op].slot <= routes'[k].at
             /\ base <= routes'[k].at /\ routes'[k].at <= clock
             /\ state \in {"bview", "updates"} => routes'[k].at <= current
             /\ \A m \in pending' : log[m].key = k =>
                   routes'[k].op < m /\ routes'[k].at <= log[m].slot
  <2>1. CASE routes'[k] = routes[k]
    BY <1>0, <1>4, <1>5, <2>1 DEF RowInv
  <2>2. CASE \E n \in Of(k, ops) : routes'[k] = [op |-> n, at |-> log[n].slot]
    <3>1. PICK n \in Of(k, ops) : routes'[k] = [op |-> n, at |-> log[n].slot]
      BY <2>2
    <3>2. n \in ops /\ n \in pending /\ n \in DOMAIN log
      BY <1>4, <3>1 DEF Of
    <3>3. /\ log[n].slot \in Nat /\ base <= log[n].slot /\ log[n].slot <= clock
          /\ state = "updates" => log[n].slot <= current
      BY <1>0, <1>4, <3>2, LogTypes DEF LogInv
    <3>4. \A m \in pending' : n < m /\ log[n].slot <= log[m].slot
      BY <1>0, <1>1, <1>4, <3>2 DEF Executed, LogInv
    <3>5. log[n].slot <= log[n].slot
      BY <3>3
    <3> QED BY <1>3, <3>1, <3>2, <3>3, <3>4, <3>5
  <2> QED BY <1>1, <1>5, <2>1, <2>2 DEF Executed
<1> QED BY <1>2, <1>3, <1>4, <1>5 DEF RowInv

LEMMA UpdateRows ==
  ASSUME Inv, [Next]_vars, NEW key \in Keys, NEW kind \in Kinds, Update(key, kind)
  PROVE  RowInv'
<1>0. LogInv /\ ControlInv /\ RowInv /\ Grows
  BY LogStep DEF Inv
<1> DEFINE n == Len(log) + 1
           e == [key |-> key, kind |-> kind, slot |-> clock]
<1>1. /\ UNCHANGED <<clock, state, current, routes, applied, base>>
      /\ log' = Append(log, e)
      /\ pending' = pending \/ (state = "live" /\ pending' = pending \cup {n})
  BY DEF Update
<1>2. CASE pending' = pending
  <2>1. current <= current
    BY <1>0 DEF ControlInv
  <2> QED BY <1>1, <1>2, <2>1, RowsKept
<1>3. CASE state = "live" /\ pending' = pending \cup {n}
  <2>1. /\ n \in DOMAIN log' /\ log'[n].slot = clock
        /\ \A i \in DOMAIN log : i < n /\ i \in DOMAIN log' /\ log'[i] = log[i]
    <3>1. log' \in Seq(Entry) /\ Len(log') = Len(log) + 1 /\ log'[Len(log) + 1] = e
      <4>1. e \in Entry /\ log \in Seq(Entry)
        BY <1>0, LogTypes DEF Entry, LogInv
      <4> HIDE DEF e
      <4> QED BY <1>1, <4>1
    <3>2. \A i \in DOMAIN log : i < n
      BY <1>0, LogTypes
    <3> QED BY <1>0, <3>1, <3>2 DEF Grows
  <2> HIDE DEF n
  <2>2. clock \in Nat /\ base <= clock /\ pending \subseteq DOMAIN log
    BY <1>0, LogTypes DEF ControlInv, RowInv
  <2>3. pending' \subseteq DOMAIN log'
    BY <1>3, <2>1, <2>2
  <2>4. \A m \in pending' : base <= log'[m].slot
    BY <1>0, <1>3, <2>1, <2>2 DEF RowInv
  <2>5. ASSUME NEW k \in Keys, routes[k] # NoRow
        PROVE  /\ routes[k].op \in DOMAIN log' /\ routes[k].at \in Nat
               /\ log'[routes[k].op].slot <= routes[k].at
               /\ base <= routes[k].at /\ routes[k].at <= clock
               /\ \A m \in pending' : log'[m].key = k =>
                     routes[k].op < m /\ routes[k].at <= log'[m].slot
    <3>1. /\ routes[k].op \in DOMAIN log /\ routes[k].at \in Nat
          /\ log[routes[k].op].slot <= routes[k].at
          /\ base <= routes[k].at /\ routes[k].at <= clock
          /\ \A m \in pending : log[m].key = k =>
                routes[k].op < m /\ routes[k].at <= log[m].slot
      BY <1>0, <2>5 DEF RowInv
    <3>2. \A m \in pending : log'[m].key = k =>
                routes[k].op < m /\ routes[k].at <= log'[m].slot
      BY <2>1, <2>2, <3>1
    <3> QED BY <1>3, <2>1, <3>1, <3>2
  <2> QED BY <1>0, <1>1, <1>3, <2>3, <2>4, <2>5 DEF RowInv
<1> QED BY <1>1, <1>2, <1>3

LEMMA StartRows == ASSUME Inv, StartFromTable \/ StartFromBview PROVE RowInv'
<1>0. LogInv /\ ControlInv /\ RowInv
  BY DEF Inv
<1>1. UNCHANGED <<clock, log, pending, routes, applied>> /\ pending = {}
  BY <1>0 DEF StartFromTable, StartFromBview, world, ControlInv
<1>2. CASE StartFromTable
  <2>1. Timestamps # {} /\ current' = LastRouteTimestamp /\ base' = base
    BY <1>2 DEF StartFromTable, NeedsBview
  <2>2. \A k \in Keys : routes[k] # NoRow => routes[k].at <= LastRouteTimestamp
    BY <1>0, <2>1, LastTimestamp
  <2> QED BY <1>0, <1>1, <2>1, <2>2 DEF RowInv
<1>3. CASE StartFromBview
  <2>1. \A k \in Keys : routes[k] = NoRow
    BY <1>3, NoTimestamps DEF StartFromBview
  <2> QED BY <1>0, <1>1, <2>1 DEF RowInv
<1> QED BY <1>2, <1>3

LEMMA RowStep == ASSUME Inv, [Next]_vars PROVE RowInv'
<1>0. ControlInv /\ current <= current
  BY DEF Inv, ControlInv
<1>1. CASE Tick \/ Publish \/ BviewCutOff \/ UNCHANGED vars
  BY <1>0, <1>1, RowsKept DEF Tick, Publish, BviewCutOff, vars, history
<1>2. CASE \E k \in Keys, kind \in Kinds : Update(k, kind)
  BY <1>2, UpdateRows
<1>3. CASE BviewDone \/ SkipFile
  <2>1. /\ UNCHANGED <<routes, applied, base, pending>>
        /\ state \in {"bview", "updates"}
    BY <1>3 DEF BviewDone, SkipFile, Looking, history
  <2>2. current <= current'
    BY <1>0, <1>3 DEF BviewDone, SkipFile, AdvanceAnyway, NextUpdate, ControlInv
  <2> QED BY <2>1, <2>2, RowsKept
<1>4. CASE SeedingDone \/ FileCutOff \/ Stop \/ WriteFails
  <2>1. /\ UNCHANGED <<routes, applied, base, current>> /\ pending' \subseteq pending
        /\ state' \in {"bview", "updates"} => state \in {"bview", "updates"}
    BY <1>4 DEF SeedingDone, FileCutOff, Stop, WriteFails
  <2> QED BY <1>0, <2>1, RowsKept
<1> QED BY <1>1, <1>2, <1>3, <1>4, StartRows, CopyRows, ReadRows, WriteRows
        DEF Next, Process, Kinds

-----------------------------------------------------------------------------
(* The invariant holds. *)

LEMMA InitInv == Init => Inv
<1> SUFFICES ASSUME Init PROVE Inv
  OBVIOUS
<1>1. LogInv
  BY InitLog
<1>2. /\ clock = 1 /\ state = "off" /\ current = 0 /\ left = {} /\ pending = {}
      /\ since = 0 /\ base = 0 /\ stops = 0
      /\ cache = [s \in Slots |-> NoFile] /\ dumpCache = [s \in DumpSlots |-> NoFile]
      /\ routes = [k \in Keys |-> NoRow] /\ applied = [k \in Keys |-> 0]
  BY DEF Init
<1>3. ControlInv
  BY <1>2 DEF ControlInv
<1>4. FileInv
  BY <1>2 DEF FileInv
<1>5. RowInv
  BY <1>2 DEF RowInv
<1> QED BY <1>1, <1>3, <1>4, <1>5 DEF Inv

LEMMA InvStep == Inv /\ [Next]_vars => Inv'
  BY LogStep, ControlStep, FileStep, RowStep DEF Inv

LEMMA InvHolds == Spec => []Inv
  BY InitInv, InvStep, PTL DEF Spec

-----------------------------------------------------------------------------
(* COPY meets no row: the seeding copies into the table it found empty, and *)
(* nobody else writes before it is done.                                   *)

LEMMA CopyStep ==
  ASSUME Inv, CopyNeverConflicts, [Next]_vars PROVE CopyNeverConflicts'
<1>0. ControlInv
  BY DEF Inv
<1>1. CASE StartFromBview
  <2>1. LogInv /\ ControlInv /\ FileInv /\ UNCHANGED <<routes, log>>
    BY <1>1 DEF Inv, StartFromBview, world
  <2>2. \A k \in Keys : routes[k] = NoRow
    BY <1>1, NoTimestamps DEF StartFromBview
  <2>3. left' \subseteq Keys
    BY <1>1, ControlStep DEF StartFromBview, ControlInv, Dump
  <2> QED BY <2>1, <2>2, <2>3 DEF CopyNeverConflicts
<1>2. CASE Copy
  <2>1. PICK ks \in SUBSET left :
           /\ left' = left \ ks
           /\ routes' = [k \in Keys |-> IF k \in ks THEN [op |-> applied'[k], at |-> current]
                                                     ELSE routes[k]]
    BY <1>2 DEF Copy
  <2>2. state = "bview" /\ left \subseteq Keys
    BY <1>0, <1>2 DEF Copy, ControlInv, Dump
  <2> QED BY <2>1, <2>2 DEF CopyNeverConflicts
<1>3. CASE \/ Tick \/ Publish \/ (\E k \in Keys, kind \in {"Upsert", "Delete"} : Update(k, kind))
           \/ BviewCutOff \/ UNCHANGED vars
  <2>1. UNCHANGED <<state, left, routes>>
    BY <1>3 DEF Tick, Publish, Update, BviewCutOff, vars
  <2> QED BY <2>1 DEF CopyNeverConflicts
<1>4. CASE \/ StartFromTable \/ BviewDone \/ ReadFile \/ SkipFile \/ SeedingDone \/ FileCutOff
           \/ WriteBatch \/ WriteFails \/ Stop
  <2>1. state' # "bview"
    BY <1>4 DEF StartFromTable, BviewDone, ReadFile, SkipFile, SeedingDone, FileCutOff,
                WriteBatch, WriteFails, Stop, Looking
  <2> QED BY <2>1 DEF CopyNeverConflicts
<1> QED BY <1>1, <1>2, <1>3, <1>4 DEF Next, Process

\* COPY never meets a row that is there, whatever an earlier start left behind
\* (seeding.rs, process_bview; RouteInsertBatcher in db, batcher/routes.rs).
THEOREM CopyMeetsNoRow == Spec => []CopyNeverConflicts
<1>1. Init => CopyNeverConflicts
  BY DEF Init, CopyNeverConflicts
<1>2. Inv /\ CopyNeverConflicts /\ [Next]_vars => CopyNeverConflicts'
  BY CopyStep
<1> QED BY <1>1, <1>2, InvHolds, PTL DEF Spec

-----------------------------------------------------------------------------
(* Rows do not age. *)

LEMMA AgeStep ==
  ASSUME Inv, [Next]_vars, NEW k \in Keys, routes[k] # NoRow, routes'[k] # NoRow
  PROVE  routes'[k].op >= routes[k].op /\ routes'[k].at >= routes[k].at
<1>0. LogInv /\ RowInv
  BY DEF Inv
<1>1. routes[k].op \in Nat /\ routes[k].at \in Nat /\ pending \subseteq DOMAIN log
  BY <1>0, LogTypes DEF RowInv
<1>2. CASE routes'[k] = routes[k]
  BY <1>1, <1>2
<1>3. CASE Copy
  <2>1. PICK ks \in SUBSET left :
           /\ \A j \in ks : routes[j] = NoRow
           /\ routes' = [j \in Keys |-> IF j \in ks THEN [op |-> applied'[j], at |-> current]
                                                     ELSE routes[j]]
    BY <1>3 DEF Copy
  <2>2. routes'[k] = routes[k]
    BY <2>1
  <2> QED BY <1>2, <2>2
<1>4. CASE WriteBatch
  <2>1. PICK ops \in SUBSET pending : Executed(ops)
    BY <1>0, <1>4, WriteExecutes
  <2>2. CASE \E n \in Of(k, ops) : routes'[k] = [op |-> n, at |-> log[n].slot]
    <3>1. PICK n \in Of(k, ops) : routes'[k] = [op |-> n, at |-> log[n].slot]
      BY <2>2
    <3>2. n \in pending /\ log[n].key = k
      BY <3>1 DEF Of
    <3>3. routes[k].op < n /\ routes[k].at <= log[n].slot
      BY <1>0, <3>2 DEF RowInv
    <3>4. n \in Nat /\ log[n].slot \in Nat
      BY <1>0, <1>1, <3>2, LogTypes
    <3> QED BY <1>1, <3>1, <3>3, <3>4
  <2> QED BY <1>2, <2>1, <2>2 DEF Executed
<1>5. CASE ~Copy /\ ~WriteBatch
  <2>1. UNCHANGED routes
    BY <1>5 DEF Next, Process, Tick, Publish, Update, StartFromTable, StartFromBview, BviewDone,
         ReadFile, SkipFile, SeedingDone, BviewCutOff, FileCutOff, WriteFails, Stop, vars
  <2> QED BY <1>2, <2>1
<1> QED BY <1>3, <1>4, <1>5

\* No step puts an older UPDATE, or an older updated_at, in the place of a row:
\* neither the dump nor a file read again after a restart
\* (seeding.rs, seed; db, batcher/routes.rs).
THEOREM RowsGetNewer == Spec => RowsNeverAge
<1>1. Inv /\ [Next]_vars =>
         [\A k \in Keys : routes[k] # NoRow /\ routes'[k] # NoRow =>
             routes'[k].op >= routes[k].op /\ routes'[k].at >= routes[k].at]_vars
  BY AgeStep
<1> QED BY <1>1, InvHolds, PTL DEF Spec, RowsNeverAge

-----------------------------------------------------------------------------
(* Events.  As long as nothing was stopped, what has been sent is of slots  *)
(* that are read, and what is sent next is of a later slot or new.         *)

EventInv ==
    /\ events \subseteq DOMAIN log
    /\ stops = 0 =>
          /\ twice = {}
          /\ state \in {"off", "bview"} => events = {}
          /\ state = "updates" => \A n \in events : log[n].slot <= current

LEMMA EventStep == ASSUME Inv, EventInv, [Next]_vars PROVE EventInv'
<1>0. /\ LogInv /\ ControlInv /\ FileInv /\ Grows
      /\ stops \in Nat /\ current \in Nat /\ current <= current
  BY LogStep DEF Inv, ControlInv
<1>1. \A n \in DOMAIN log : n \in DOMAIN log' /\ log'[n] = log[n] /\ log[n].slot \in Nat
  BY <1>0, LogTypes DEF Grows
<1>2. ASSUME UNCHANGED <<events, twice>>, stops' = stops,
             state' \in {"off", "bview"} => state \in {"off", "bview"},
             state' = "updates" => state \in {"off", "bview", "updates"} /\
                                   (state = "updates" => current' \in Nat /\ current <= current')
      PROVE  EventInv'
  <2>1. events' \subseteq DOMAIN log'
    BY <1>1, <1>2 DEF EventInv
  <2>2. ASSUME stops' = 0, state' = "updates", NEW n \in events'
        PROVE  log'[n].slot <= current'
    <3>1. n \in DOMAIN log /\ state = "updates" /\ log[n].slot <= current
      BY <1>2, <2>2 DEF EventInv
    <3> QED BY <1>0, <1>1, <1>2, <2>2, <3>1
  <2> QED BY <1>2, <2>1, <2>2 DEF EventInv
<1>3. CASE \/ Tick \/ Publish \/ Copy \/ WriteBatch \/ WriteFails \/ UNCHANGED vars
  <2>1. UNCHANGED <<events, twice, stops, state, current>>
    BY <1>3 DEF Tick, Publish, Copy, WriteBatch, WriteFails, vars, history
  <2> QED BY <1>0, <1>2, <2>1
<1>4. CASE \/ StartFromTable \/ StartFromBview \/ BviewDone \/ SeedingDone
  <2>1. /\ UNCHANGED <<events, twice, stops>>
        /\ state' \in {"off", "bview"} => state \in {"off", "bview"}
        /\ state' = "updates" => state \in {"off", "bview"}
    BY <1>4 DEF StartFromTable, StartFromBview, BviewDone, SeedingDone, history
  <2> QED BY <1>2, <2>1
<1>5. CASE SkipFile
  <2>1. UNCHANGED <<events, twice, stops>> /\ state = "updates" /\ state' = "updates"
    BY <1>5 DEF SkipFile, Looking
  <2>2. current' \in Nat /\ current <= current'
    BY <1>0, <1>5 DEF SkipFile, AdvanceAnyway, NextUpdate
  <2> QED BY <1>2, <2>1, <2>2
<1>6. CASE BviewCutOff \/ FileCutOff \/ Stop
  <2>1. stops' = stops + 1 /\ events' = events
    BY <1>6 DEF BviewCutOff, FileCutOff, Stop
  <2>2. stops' # 0
    BY <1>0, <2>1
  <2> QED BY <1>1, <2>1, <2>2 DEF EventInv
<1>7. CASE ReadFile
  <2>1. PICK ops \in SUBSET InSlot(NextUpdate) : SendEvents(ops)
    BY <1>0, <1>7, FileOps
  <2>2. /\ current' = NextUpdate /\ state = "updates" /\ state' = "updates"
        /\ UNCHANGED <<log, stops>>
    BY <1>7 DEF ReadFile, Looking, Advance, world, history
  <2>3. NextUpdate \in Nat /\ current < NextUpdate
    BY <1>0, <1>7, NextSlot DEF ReadFile
  <2>4. \A n \in ops : n \in DOMAIN log /\ log[n].slot = NextUpdate
    BY DEF InSlot
  <2>5. ASSUME stops = 0 PROVE ops \cap events = {}
    <3> SUFFICES ASSUME NEW n \in ops \cap events PROVE FALSE
      OBVIOUS
    <3>1. log[n].slot = NextUpdate /\ log[n].slot <= current
      BY <2>2, <2>4, <2>5 DEF EventInv
    <3> QED BY <1>0, <2>3, <3>1
  <2>6. ASSUME stops = 0, NEW n \in events' PROVE log[n].slot <= NextUpdate
    <3>1. CASE n \in ops
      BY <2>3, <2>4, <3>1
    <3>2. CASE n \in events
      BY <1>0, <1>1, <2>2, <2>3, <2>6, <3>2 DEF EventInv
    <3> QED BY <2>1, <3>1, <3>2 DEF SendEvents
  <2> QED BY <2>1, <2>2, <2>4, <2>5, <2>6 DEF EventInv, SendEvents
<1>8. CASE \E k \in Keys, kind \in {"Upsert", "Delete"} : Update(k, kind)
  <2>1. PICK k \in Keys, kind \in {"Upsert", "Delete"} : Update(k, kind)
    BY <1>8
  <2>2. UNCHANGED <<state, current, stops>>
    BY <2>1 DEF Update
  <2>3. CASE UNCHANGED <<events, twice>>
    BY <1>0, <1>2, <2>2, <2>3
  <2>4. CASE state = "live" /\ SendEvents({Len(log) + 1})
    <3>1. Len(log) + 1 \notin events /\ events \subseteq DOMAIN log
      BY <1>0, LogTypes DEF EventInv
    <3>2. Len(log) + 1 \in DOMAIN log'
      <4>1. /\ log' = Append(log, [key |-> k, kind |-> kind, slot |-> clock])
            /\ log \in Seq(Entry) /\ [key |-> k, kind |-> kind, slot |-> clock] \in Entry
        BY <1>0, <2>1, LogTypes DEF Update, LogInv, Entry, Kinds
      <4> QED BY <4>1
    <3> QED BY <1>1, <2>2, <2>4, <3>1, <3>2 DEF EventInv, SendEvents
  <2> QED BY <2>1, <2>3, <2>4 DEF Update
<1> QED BY <1>3, <1>4, <1>5, <1>6, <1>7, <1>8 DEF Next, Process

\* Without a restart no UPDATE is recorded as an event twice, once from an
\* archive and once from RIS Live or from the next archive
\* (seeding.rs, process_updates; db, batcher/events.rs).
THEOREM NoEventTwice == Spec => []EventsOnce
<1>1. Init => EventInv
  BY DEF Init, EventInv
<1>2. Inv /\ EventInv /\ [Next]_vars => EventInv'
  BY EventStep
<1>3. EventInv => EventsOnce
  BY DEF EventInv, EventsOnce
<1> QED BY <1>1, <1>2, <1>3, InvHolds, PTL DEF Spec

-----------------------------------------------------------------------------
(* Holes.  An executed UPDATE stays overtaken: what is pending for its key  *)
(* is newer.  Without that a later batch could take the key back.          *)

Reached(n) == log[n].slot > since /\ log[n].slot <= current

Accounted(n) ==
    \/ n \in pending \cup dropped
    \/ log[n].slot \in skipped \/ CutOff(log[n].slot)
    \/ /\ applied[log[n].key] >= n
       /\ \A m \in pending : log[m].key = log[n].key => n < m

HoleInv ==
    state \in {"updates", "live"} => \A n \in DOMAIN log : Reached(n) => Accounted(n)

\* What only drops from the batcher, or skips a slot, makes no other hole.
LEMMA HolesKept ==
  ASSUME HoleInv, state \in {"updates", "live"},
         UNCHANGED <<log, cache, applied, since>>, pending' \subseteq pending,
         pending \cup dropped \subseteq pending' \cup dropped', skipped \subseteq skipped',
         NEW n \in DOMAIN log, Reached(n)
  PROVE  Accounted(n)'
<1>1. Accounted(n)
  BY DEF HoleInv
<1>2. CutOff(log[n].slot)' = CutOff(log[n].slot)
  BY DEF CutOff, InSlot
<1> QED BY <1>1, <1>2 DEF Accounted

LEMMA HolesOnUpdate ==
  ASSUME Inv, HoleInv, NEW key \in Keys, NEW kind \in Kinds, Update(key, kind)
  PROVE  HoleInv'
<1>0. LogInv /\ ControlInv /\ FileInv /\ RowInv /\ Grows
  BY UpdateLog DEF Inv
<1> DEFINE i == Len(log) + 1
<1>1. /\ UNCHANGED <<clock, cache, applied, since, current, skipped, state>>
      /\ \/ state # "live" /\ UNCHANGED <<pending, dropped>>
         \/ state = "live" /\ pending' = pending \cup {i} /\ dropped' = dropped
         \/ state = "live" /\ dropped' = dropped \cup {i} /\ pending' = pending
  BY DEF Update, files
<1>2. /\ \A n \in DOMAIN log : /\ n \in DOMAIN log' /\ log'[n] = log[n] /\ n < i
                                /\ log[n].slot \in Nat
      /\ \A n \in DOMAIN log' : n \in DOMAIN log \/ n = i
      /\ DOMAIN log' \ DOMAIN log # {} /\ i \notin DOMAIN log
      /\ \A n \in DOMAIN log' \ DOMAIN log : log'[n].slot = clock
  <2>1. /\ log' = Append(log, [key |-> key, kind |-> kind, slot |-> clock])
        /\ log \in Seq(Entry) /\ [key |-> key, kind |-> kind, slot |-> clock] \in Entry
    BY <1>0, LogTypes DEF Update, LogInv, Entry
  <2>2. DOMAIN log' = 1..i /\ DOMAIN log = 1..Len(log) /\ Len(log) \in Nat
    BY <2>1
  <2> QED BY <1>0, <2>2, LogTypes DEF Grows
<1> HIDE DEF i
<1>3. pending \subseteq DOMAIN log /\ clock \in Nat /\ clock <= MaxSlot
  BY <1>0, LogTypes DEF RowInv
<1>4. SUFFICES ASSUME state \in {"updates", "live"}, NEW n \in DOMAIN log', Reached(n)'
               PROVE  Accounted(n)'
  BY <1>1 DEF HoleInv
<1>5. CASE n \in DOMAIN log
  <2>1. Reached(n) /\ Accounted(n) /\ log'[n] = log[n]
    BY <1>1, <1>2, <1>4, <1>5 DEF HoleInv, Reached
  <2>2. CASE CutOff(log[n].slot)
    <3>1. PICK s \in Nat : s = log[n].slot
      BY <1>2, <1>5
    <3>2. s \in Slots
      <4>1. s > since /\ s <= clock /\ since \in Nat
        BY <1>0, <1>5, <2>1, <3>1 DEF LogInv, Reached, ControlInv
      <4> QED BY <1>3, <3>1, <4>1, SeedingAssumption DEF Slots
    <3>3. s < clock
      BY <1>0, <2>2, <3>1, <3>2 DEF FileInv, CutOff
    <3>4. InSlot(s)' = InSlot(s) /\ cache' = cache
      BY <1>0, <1>1, <1>3, <3>3, PastStays
    <3>5. cache'[s] # NoFile /\ cache'[s] # InSlot(s)'
      BY <2>2, <3>1, <3>4 DEF CutOff
    <3>6. CutOff(log[n].slot)'
      BY <2>1, <3>1, <3>5 DEF CutOff, InSlot
    <3> QED BY <3>6 DEF Accounted
  <2>3. CASE ~CutOff(log[n].slot)
    <3>1. \/ n \in pending \cup dropped \/ log[n].slot \in skipped
          \/ /\ applied[log[n].key] >= n
             /\ \A m \in pending : log[m].key = log[n].key => n < m
      BY <2>1, <2>3 DEF Accounted
    <3>2. \A m \in pending' : m = i \/ (m \in pending /\ log'[m] = log[m])
      <4>1. \A m \in pending' : m = i \/ m \in pending
        BY <1>1
      <4> QED BY <1>2, <1>3, <4>1
    <3>3. n \in pending \cup dropped => n \in pending' \cup dropped'
      BY <1>1
    <3>4. (\A m \in pending : log[m].key = log[n].key => n < m) =>
             \A m \in pending' : log'[m].key = log'[n].key => n < m
      BY <1>2, <1>5, <2>1, <3>2
    <3> QED BY <1>1, <2>1, <3>1, <3>3, <3>4 DEF Accounted
  <2> QED BY <2>2, <2>3
<1>6. CASE n \notin DOMAIN log
  <2>1. n = i /\ log'[n].slot = clock /\ current = clock /\ since # clock
    BY <1>0, <1>1, <1>2, <1>3, <1>4, <1>6 DEF Reached, ControlInv
  <2>2. CASE state = "live"
    BY <1>1, <2>1, <2>2 DEF Accounted
  <2>3. CASE state = "updates"
    <3>1. current \in skipped
      BY <1>0, <2>1, <2>3 DEF ControlInv
    <3> QED BY <1>1, <2>1, <3>1 DEF Accounted
  <2> QED BY <1>4, <2>2, <2>3
<1> QED BY <1>5, <1>6

LEMMA HolesOnRead == ASSUME Inv, HoleInv, ReadFile PROVE HoleInv'
<1>0. LogInv /\ ControlInv /\ FileInv /\ RowInv
  BY DEF Inv
<1>1. PICK ops \in SUBSET InSlot(NextUpdate) :
         /\ cache' = [cache EXCEPT ![NextUpdate] = ops] /\ pending' = pending \cup ops
         /\ ops = InSlot(NextUpdate) \/ (ops = cache[NextUpdate] /\ Cached)
  BY <1>0, FileOps
<1>2. /\ current' = NextUpdate /\ state = "updates"
      /\ UNCHANGED <<log, applied, since, skipped, dropped>>
  BY DEF ReadFile, Looking, Advance, world, history
<1>3. PICK u \in Slots : u = NextUpdate /\ u = current + 1 /\ current \in Nat /\ u \in Nat
  BY <1>0, NextSlot DEF ReadFile, ControlInv
<1>4. ops \subseteq DOMAIN log /\ \A m \in ops : log[m].slot = u
  BY <1>3 DEF InSlot
<1>5. \A s : InSlot(s)' = InSlot(s)
  BY <1>2 DEF InSlot
<1>6. SUFFICES ASSUME NEW n \in DOMAIN log, Reached(n)' PROVE Accounted(n)'
  BY <1>2 DEF HoleInv
<1>7. log[n].slot > since /\ log[n].slot <= u /\ log[n].slot \in Nat
  BY <1>0, <1>2, <1>3, <1>6, LogTypes DEF Reached
<1>8. CASE log[n].slot = u
  <2>1. CASE ops = InSlot(u)
    <3>1. n \in ops
      BY <1>8, <2>1 DEF InSlot
    <3> QED BY <1>1, <3>1 DEF Accounted
  <2>2. CASE ops # InSlot(u) /\ ops = cache[u] /\ Cached
    <3>1. cache'[u] = ops /\ cache[u] # NoFile
      BY <1>0, <1>1, <1>3, <2>2 DEF FileInv, Cached
    <3>2. log'[n].slot = u /\ cache'[u] # NoFile /\ cache'[u] # InSlot(u)'
      BY <1>2, <1>5, <1>8, <2>2, <3>1
    <3>3. CutOff(log[n].slot)'
      BY <3>2 DEF CutOff, InSlot
    <3> QED BY <3>3 DEF Accounted
  <2> QED BY <1>1, <1>3, <2>1, <2>2
<1>9. CASE log[n].slot # u
  <2>1. log[n].slot <= current
    BY <1>3, <1>7, <1>9
  <2>2. Accounted(n)
    BY <1>2, <1>7, <2>1 DEF HoleInv, Reached
  <2>3. CASE CutOff(log[n].slot)
    <3>1. cache'[log[n].slot] = cache[log[n].slot]
      BY <1>1, <1>3, <1>9
    <3>2. CutOff(log[n].slot)'
      BY <1>2, <2>3, <3>1 DEF CutOff, InSlot
    <3> QED BY <3>2 DEF Accounted
  <2>4. CASE ~CutOff(log[n].slot)
    <3>1. \A m \in ops : n < m
      <4>1. \A m \in ops : m \in DOMAIN log /\ log[n].slot < log[m].slot
        BY <1>3, <1>4, <1>7, <1>9
      <4> QED BY <1>0, <4>1, LaterIsNewer
    <3> QED BY <1>1, <1>2, <2>2, <2>4, <3>1 DEF Accounted
  <2> QED BY <2>3, <2>4
<1> QED BY <1>8, <1>9

LEMMA HolesOnWrite == ASSUME Inv, HoleInv, WriteBatch PROVE HoleInv'
<1>0. LogInv /\ ControlInv /\ FileInv /\ RowInv
  BY DEF Inv
<1>1. PICK ops \in SUBSET pending : Executed(ops)
  BY <1>0, WriteExecutes
<1>2. /\ UNCHANGED <<log, cache, since, current, skipped, dropped, state>>
      /\ state \in {"updates", "live"}
  BY DEF WriteBatch, world, files, history
<1>3. pending' = pending \ ops /\ \A n \in ops : \A m \in pending \ ops : n < m
  BY <1>1 DEF Executed
<1>4. SUFFICES ASSUME NEW n \in DOMAIN log, Reached(n)' PROVE Accounted(n)'
  BY <1>2 DEF HoleInv
<1>5. Accounted(n) /\ CutOff(log[n].slot)' = CutOff(log[n].slot)
  BY <1>2, <1>4 DEF HoleInv, Reached, CutOff, InSlot
<1>6. PICK k \in Keys : k = log[n].key
  BY <1>0, LogTypes
<1>7. n \in Nat /\ applied[k] \in Nat /\ pending \subseteq DOMAIN log /\ \A m \in pending : m \in Nat
  BY <1>0, LogTypes DEF RowInv
<1>8. CASE n \in ops
  <2>1. n \in Of(k, ops)
    BY <1>6, <1>8 DEF Of
  <2>2. PICK q \in Of(k, ops) : n <= q /\ applied'[k] = q
    BY <1>1, <2>1 DEF Executed
  <2>3. q \in Nat
    BY <1>7 DEF Of
  <2>4. applied'[k] >= n /\ \A m \in pending' : n < m
    BY <1>3, <1>7, <1>8, <2>2, <2>3
  <2> QED BY <1>2, <1>6, <2>4 DEF Accounted
<1>9. CASE applied[k] >= n /\ \A m \in pending : log[m].key = k => n < m
  <2>1. CASE applied'[k] = applied[k]
    BY <1>2, <1>3, <1>6, <1>9, <2>1 DEF Accounted
  <2>2. CASE \E q \in Of(k, ops) : applied'[k] = q
    <3>1. PICK q \in Of(k, ops) : applied'[k] = q
      BY <2>2
    <3>2. q \in pending /\ log[q].key = k
      BY <3>1 DEF Of
    <3>3. q \in Nat /\ n < q
      BY <1>7, <1>9, <3>2
    <3>4. applied'[k] >= n
      BY <1>7, <3>1, <3>3
    <3> QED BY <1>2, <1>3, <1>6, <1>9, <3>4 DEF Accounted
  <2> QED BY <1>1, <2>1, <2>2 DEF Executed
<1> QED BY <1>2, <1>3, <1>5, <1>6, <1>8, <1>9 DEF Accounted

LEMMA HoleStep == ASSUME Inv, HoleInv, [Next]_vars PROVE HoleInv'
<1>0. LogInv /\ ControlInv
  BY DEF Inv
<1>1. CASE Tick \/ Publish \/ WriteFails \/ SeedingDone \/ UNCHANGED vars
  <2>1. SUFFICES ASSUME state' \in {"updates", "live"}, NEW n \in DOMAIN log', Reached(n)'
                 PROVE  Accounted(n)'
    BY DEF HoleInv
  <2>2. /\ UNCHANGED <<log, cache, applied, since, current, skipped>>
        /\ pending' \subseteq pending /\ pending \cup dropped \subseteq pending' \cup dropped'
        /\ state' = state \/ state = "updates"
    BY <1>1 DEF Tick, Publish, WriteFails, SeedingDone, vars, world, files, history
  <2>3. state \in {"updates", "live"} /\ skipped \subseteq skipped'
    BY <2>1, <2>2
  <2>4. n \in DOMAIN log /\ Reached(n)
    BY <2>1, <2>2 DEF Reached
  <2> QED BY <2>2, <2>3, <2>4, HolesKept
<1>2. CASE SkipFile
  <2>1. SUFFICES ASSUME NEW n \in DOMAIN log', Reached(n)' PROVE Accounted(n)'
    BY DEF HoleInv
  <2>2. /\ UNCHANGED <<log, cache, applied, since, pending, dropped>>
        /\ skipped' = skipped \cup {NextUpdate} /\ current' = NextUpdate /\ state = "updates"
    BY <1>2 DEF SkipFile, Looking, AdvanceAnyway, world, files
  <2>3. NextUpdate = current + 1 /\ current \in Nat
    BY <1>0, <1>2, NextSlot DEF SkipFile, ControlInv
  <2>4. n \in DOMAIN log /\ log'[n] = log[n] /\ log[n].slot \in Nat
    BY <1>0, <2>1, <2>2, LogTypes
  <2>5. CASE log[n].slot = NextUpdate
    BY <2>2, <2>4, <2>5 DEF Accounted
  <2>6. CASE log[n].slot # NextUpdate
    <3>1. Reached(n)
      BY <2>1, <2>2, <2>3, <2>4, <2>6 DEF Reached
    <3> QED BY <2>2, <2>4, <3>1, HolesKept
  <2> QED BY <2>5, <2>6
<1>3. CASE StartFromTable \/ BviewDone
  <2>1. since' = current' /\ current' \in Nat
    BY <1>0, <1>3, ControlStep DEF StartFromTable, BviewDone, Began, ControlInv, history
  <2>2. \A n \in DOMAIN log' : log'[n].slot \in Nat
    BY <1>0, <1>3, LogTypes DEF StartFromTable, BviewDone, world
  <2> QED BY <2>1, <2>2 DEF HoleInv, Reached
<1>4. CASE StartFromBview \/ Copy \/ BviewCutOff \/ FileCutOff \/ Stop
  <2>1. state' \notin {"updates", "live"}
    BY <1>4 DEF StartFromBview, Copy, BviewCutOff, FileCutOff, Stop
  <2> QED BY <2>1 DEF HoleInv
<1> QED BY <1>1, <1>2, <1>3, <1>4, HolesOnUpdate, HolesOnRead, HolesOnWrite
        DEF Next, Process, Kinds

\* Of the UPDATEs a seeding has got to, one is missing from the table only for
\* one of three reasons: its archive was not found, was cut off, or the batcher
\* dropped it (seeding.rs, process_updates; db, batcher/routes.rs).
THEOREM EveryHoleHasAReason == Spec => []HolesAreKnown
<1>1. Init => HoleInv
  BY DEF Init, HoleInv
<1>2. Inv /\ HoleInv /\ [Next]_vars => HoleInv'
  BY HoleStep
<1>3. HoleInv => HolesAreKnown
  BY DEF HoleInv, Reached, Accounted, HolesAreKnown
<1> QED BY <1>1, <1>2, <1>3, InvHolds, PTL DEF Spec

-----------------------------------------------------------------------------
(* The dump.  What is pending is not older than the dump, so that no write  *)
(* takes a key back behind it.                                             *)

Since(k) == Newest(Of(k, Before(base)))

DumpInv == ~torn => \A k \in Dump(base) : k \in left \/ applied[k] >= Since(k)

\* Where neither the dump nor the rows change, what was true of it stays true.
LEMMA DumpKept ==
  ASSUME Inv, DumpInv, [Next]_vars, UNCHANGED <<base, applied, left, torn>>
  PROVE  DumpInv'
<1>1. LogInv /\ Grows /\ base \in Nat /\ base <= clock
  BY LogStep DEF Inv, ControlInv
<1>2. PICK s \in Nat : s = base
  BY <1>1
<1>3. Dump(s)' = Dump(s) /\ \A k : Of(k, Before(s))' = Of(k, Before(s))
  BY <1>1, <1>2, PastStays
<1>4. Dump(base)' = Dump(base) /\ \A k : Since(k)' = Since(k)
  BY <1>2, <1>3 DEF Dump, Of, Before, Since
<1> QED BY <1>4 DEF DumpInv

LEMMA DumpStep == ASSUME Inv, DumpInv, [Next]_vars PROVE DumpInv'
<1>0. LogInv /\ ControlInv /\ FileInv /\ RowInv
  BY DEF Inv
<1>1. CASE StartFromBview
  <2>1. PICK d \in Nat : d = CurrentBview
    BY <1>0, BviewSlot
  <2>2. base' = d /\ torn' = (left' # Dump(d)) /\ log' = log
    BY <1>1, <2>1 DEF StartFromBview, world
  <2>3. Dump(base)' = Dump(d)
    BY <2>2 DEF Dump, Of, Before
  <2> QED BY <2>2, <2>3 DEF DumpInv
<1>2. CASE Copy
  <2>1. PICK ks \in SUBSET left :
           /\ left' = left \ ks
           /\ applied' = [k \in Keys |-> IF k \in ks THEN Newest(Of(k, Before(current)))
                                                       ELSE applied[k]]
    BY <1>2 DEF Copy
  <2>2. UNCHANGED <<log, base, torn>> /\ base = current
    BY <1>0, <1>2 DEF Copy, world, history, ControlInv
  <2>3. Dump(base)' = Dump(base) /\ \A k : Since(k)' = Since(k)
    BY <2>2 DEF Dump, Of, Before, Since
  <2>4. ASSUME ~torn, NEW k \in Dump(base) PROVE k \in left' \/ applied'[k] >= Since(k)
    <3>1. CASE k \in ks
      <4>1. applied'[k] = Since(k) /\ Since(k) \in Nat
        BY <1>0, <2>1, <2>2, <3>1, <2>4, DumpRow DEF ControlInv, Since
      <4> QED BY <4>1
    <3>2. CASE k \notin ks
      BY <2>1, <2>4, <3>2 DEF DumpInv, Dump
    <3> QED BY <3>1, <3>2
  <2> QED BY <2>2, <2>3, <2>4 DEF DumpInv
<1>3. CASE WriteBatch
  <2>1. PICK ops \in SUBSET pending : Executed(ops)
    BY <1>0, <1>3, WriteExecutes
  <2>2. UNCHANGED <<log, base, left, torn>>
    BY <1>3 DEF WriteBatch, world, history
  <2>3. Dump(base)' = Dump(base) /\ \A k : Since(k)' = Since(k)
    BY <2>2 DEF Dump, Of, Before, Since
  <2>4. ASSUME ~torn, NEW k \in Dump(base) PROVE k \in left \/ applied'[k] >= Since(k)
    <3>1. /\ k \in Keys /\ Since(k) \in DOMAIN log /\ Since(k) \in Nat
          /\ log[Since(k)].slot < base
      BY <1>0, <2>4, DumpRow DEF ControlInv, Since
    <3>2. CASE \E n \in Of(k, ops) : applied'[k] = n
      <4>1. PICK n \in Of(k, ops) : applied'[k] = n
        BY <3>2
      <4>2. n \in DOMAIN log /\ base <= log[n].slot
        BY <1>0, <4>1 DEF Of, RowInv
      <4>3. n \in Nat /\ log[Since(k)].slot < log[n].slot
        BY <1>0, <3>1, <4>2, LogTypes DEF ControlInv
      <4>4. Since(k) < n
        BY <1>0, <3>1, <4>2, <4>3, LaterIsNewer
      <4> QED BY <3>1, <4>1, <4>3, <4>4
    <3>3. CASE applied'[k] = applied[k]
      BY <2>4, <3>3 DEF DumpInv
    <3> QED BY <2>1, <3>1, <3>2, <3>3 DEF Executed
  <2> QED BY <2>2, <2>3, <2>4 DEF DumpInv
<1>4. CASE Stop
  <2>1. UNCHANGED <<log, base, applied>> /\ torn' = (torn \/ left # {}) /\ left' = {}
    BY <1>4 DEF Stop, world
  <2>2. Dump(base)' = Dump(base) /\ \A k : Since(k)' = Since(k)
    BY <2>1 DEF Dump, Of, Before, Since
  <2> QED BY <2>1, <2>2 DEF DumpInv
<1>5. CASE \/ Tick \/ Publish \/ (\E k \in Keys, kind \in {"Upsert", "Delete"} : Update(k, kind))
           \/ StartFromTable \/ BviewDone \/ ReadFile \/ SkipFile \/ SeedingDone \/ BviewCutOff
           \/ FileCutOff \/ WriteFails \/ UNCHANGED vars
  <2>1. UNCHANGED <<base, applied, left, torn>>
    BY <1>5 DEF Tick, Publish, Update, StartFromTable, BviewDone, AllInserted, ReadFile,
         SkipFile, SeedingDone, BviewCutOff, FileCutOff, WriteFails, vars, history
  <2> QED BY <2>1, DumpKept
<1> QED BY <1>1, <1>2, <1>3, <1>4, <1>5 DEF Next, Process

\* After a dump that was inserted completely no key is behind what the peers
\* had announced before it (seeding.rs, process_bview and process_updates).
THEOREM NobodyBehindTheDump == Spec => []DumpIsWhole
<1>1. Init => DumpInv
  <2>1. Init => Before(base) = {}
    <3>1. Init => LogInv /\ base = 0
      BY InitLog DEF Init
    <3> QED BY <3>1, LogTypes DEF Before
  <2>2. Before(base) = {} => Dump(base) = {}
    BY DEF Dump, Of
  <2> QED BY <2>1, <2>2 DEF DumpInv
<1>2. Inv /\ DumpInv /\ [Next]_vars => DumpInv'
  BY DumpStep
<1>3. Inv /\ DumpInv => DumpIsWhole
  BY DEF Inv, ControlInv, DumpInv, DumpIsWhole, Since
<1> QED BY <1>1, <1>2, <1>3, InvHolds, PTL DEF Spec

-----------------------------------------------------------------------------
(* What applied says, the table shows: a row is that of the last UPDATE     *)
(* executed for its key, and there is none if that was a deletion.          *)

Shows(k) ==
    IF applied[k] = 0
    THEN routes[k] = NoRow
    ELSE /\ applied[k] \in DOMAIN log /\ log[applied[k]].key = k
         /\ log[applied[k]].kind = "Delete" => routes[k] = NoRow
         /\ log[applied[k]].kind = "Upsert" => routes[k] # NoRow /\ routes[k].op = applied[k]

TableShowsApplied == \A k \in Keys : Shows(k)

LEMMA ShowsStep ==
  ASSUME Inv, TableShowsApplied, [Next]_vars, NEW k \in Keys PROVE Shows(k)'
<1>0. LogInv /\ ControlInv /\ RowInv /\ Grows
  BY LogStep DEF Inv
<1>1. CASE UNCHANGED <<routes, applied>>
  BY <1>0, <1>1 DEF TableShowsApplied, Shows, Grows
<1>2. CASE Copy
  <2>1. PICK ks \in SUBSET left :
           /\ applied' = [j \in Keys |-> IF j \in ks THEN Newest(Of(j, Before(current)))
                                                       ELSE applied[j]]
           /\ routes' = [j \in Keys |-> IF j \in ks THEN [op |-> applied'[j], at |-> current]
                                                      ELSE routes[j]]
    BY <1>2 DEF Copy
  <2>2. log' = log /\ current \in Nat /\ left \subseteq Dump(current)
    BY <1>0, <1>2 DEF Copy, world, ControlInv
  <2>3. CASE k \in ks
    <3>1. PICK n : n = Newest(Of(k, Before(current)))
      OBVIOUS
    <3>2. k \in Dump(current) /\ n \in DOMAIN log /\ log[n].key = k /\ log[n].kind = "Upsert"
      BY <1>0, <2>2, <2>3, <3>1, DumpRow DEF Dump
    <3>3. applied'[k] = n /\ routes'[k] = [op |-> n, at |-> current]
      BY <2>1, <2>3, <3>1
    <3>4. n \in Nat \ {0}
      BY <1>0, <3>2, LogTypes
    <3>5. routes'[k] # NoRow /\ routes'[k].op = n
      BY <2>2, <3>3, <3>4, SeedingAssumption
    <3> QED BY <2>2, <3>2, <3>3, <3>4, <3>5 DEF Shows
  <2>4. CASE k \notin ks
    BY <2>1, <2>2, <2>4 DEF TableShowsApplied, Shows
  <2> QED BY <2>3, <2>4
<1>3. CASE WriteBatch
  <2>1. PICK ops \in SUBSET pending : Executed(ops)
    BY <1>0, <1>3, WriteExecutes
  <2>2. log' = log /\ pending \subseteq DOMAIN log
    BY <1>0, <1>3 DEF WriteBatch, world, RowInv
  <2>3. CASE routes'[k] = routes[k] /\ applied'[k] = applied[k]
    BY <2>2, <2>3 DEF TableShowsApplied, Shows
  <2>4. ASSUME NEW n \in Of(k, ops), applied'[k] = n,
               routes'[k] = IF log[n].kind = "Upsert" THEN [op |-> n, at |-> log[n].slot] ELSE NoRow
        PROVE  Shows(k)'
    <3>1. n \in DOMAIN log /\ log[n].key = k
      BY <2>2 DEF Of
    <3>2. n \in Nat \ {0} /\ log[n].slot \in Nat
      BY <1>0, <3>1, LogTypes
    <3>3. [op |-> n, at |-> log[n].slot] # NoRow
      BY <3>2, SeedingAssumption
    <3> QED BY <2>2, <2>4, <3>1, <3>2, <3>3 DEF Shows
  <2> QED BY <2>1, <2>3, <2>4 DEF Executed
<1>4. CASE ~Copy /\ ~WriteBatch
  <2>1. UNCHANGED <<routes, applied>>
    BY <1>4 DEF Next, Process, Tick, Publish, Update, StartFromTable, StartFromBview, BviewDone,
         ReadFile, SkipFile, SeedingDone, BviewCutOff, FileCutOff, WriteFails, Stop, vars
  <2> QED BY <1>1, <2>1
<1> QED BY <1>2, <1>3, <1>4

\* The table shows, of each key, the last UPDATE executed, be it by COPY or by
\* a batch, so that what HolesAreKnown and DumpIsWhole say of UPDATEs executed
\* is said of the rows (RouteInsertBatcher and RoutesBatcher in db, batcher/routes.rs).
THEOREM RowsAreWhatWasExecuted == Spec => []TableShowsApplied
<1>1. Init => TableShowsApplied
  BY DEF Init, TableShowsApplied, Shows
<1>2. Inv /\ TableShowsApplied /\ [Next]_vars => TableShowsApplied'
  BY ShowsStep DEF TableShowsApplied
<1> QED BY <1>1, <1>2, InvHolds, PTL DEF Spec

=============================================================================
