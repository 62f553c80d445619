-------------------------- MODULE DetectionProofs --------------------------
(***************************************************************************)
(* Theorems about Detection, for every size of a batch and any number of   *)
(* notifications, changes of the routes and faults.                        *)
(***************************************************************************)
EXTENDS Detection, FiniteSetTheorems, SequenceTheorems, TLAPS

Payloads == Prefixes \cup {BadPayload}

-----------------------------------------------------------------------------
(* Sequences and sets. *)

\* The set of a sequence is finite.
LEMMA FiniteSequence ==
  ASSUME NEW S, NEW s \in Seq(S)
  PROVE  IsFiniteSet(SX!ToSet(s)) /\ SX!ToSet(s) \subseteq S
<1>1. s \in [1..Len(s) -> S] /\ Len(s) \in Nat
  OBVIOUS
<1>2. s \in Surjection(1..Len(s), SX!ToSet(s))
  BY <1>1 DEF Surjection, SX!ToSet
<1>3. IsFiniteSet(1..Len(s))
  BY <1>1, FS_Interval
<1> QED BY <1>1, <1>2, <1>3, FS_Surjection DEF SX!ToSet

\* SetToSeq yields a sequence of exactly the elements of a finite set.
LEMMA SequenceOfSet ==
  ASSUME NEW S, IsFiniteSet(S)
  PROVE  SX!SetToSeq(S) \in Seq(S) /\ SX!ToSet(SX!SetToSeq(S)) = S
<1> DEFINE f == SX!SetToSeq(S)
<1>0. SX!Cardinality(S) = Cardinality(S)
  BY DEF SX!Cardinality, Cardinality
<1>1. Cardinality(S) \in Nat /\ ExistsBijection(1..Cardinality(S), S)
  BY FS_CardinalityType
<1>2. \E g \in [1..Cardinality(S) -> S] : SX!IsInjective(g)
  BY <1>1 DEF ExistsBijection, Bijection, Injection, IsInjective, SX!IsInjective
<1>3. f \in [1..Cardinality(S) -> S] /\ SX!IsInjective(f)
  BY <1>0, <1>2 DEF SX!SetToSeq
<1>4. f \in Injection(1..Cardinality(S), S)
  BY <1>3 DEF Injection, IsInjective, SX!IsInjective
<1>5. f \in Surjection(1..Cardinality(S), S)
  <2>1. IsFiniteSet(1..Cardinality(S)) /\ Cardinality(1..Cardinality(S)) = Cardinality(S)
    BY <1>1, FS_Interval
  <2> QED BY <1>4, <2>1, FS_Injection
<1>6. f \in Seq(S)
  BY <1>1, <1>3
<1>7. \A x \in S : \E i \in DOMAIN f : f[i] = x
  BY <1>3, <1>5 DEF Surjection
<1> QED BY <1>3, <1>6, <1>7 DEF SX!ToSet

LEMMA SetOfAppend ==
  ASSUME NEW S, NEW s \in Seq(S), NEW x \in S
  PROVE  SX!ToSet(Append(s, x)) = SX!ToSet(s) \cup {x}
<1>1. /\ DOMAIN Append(s, x) = 1..Len(s) + 1 /\ DOMAIN s = 1..Len(s) /\ Len(s) \in Nat
      /\ \A i \in DOMAIN s : Append(s, x)[i] = s[i]
      /\ Append(s, x)[Len(s) + 1] = x
  OBVIOUS
<1>2. \A i \in DOMAIN Append(s, x) : i \in DOMAIN s \/ i = Len(s) + 1
  BY <1>1
<1>3. DOMAIN s \subseteq DOMAIN Append(s, x) /\ Len(s) + 1 \in DOMAIN Append(s, x)
  BY <1>1
<1> QED BY <1>1, <1>2, <1>3 DEF SX!ToSet

LEMMA TwoSequences ==
  ASSUME NEW S, NEW s \in Seq(S), NEW t \in Seq(S)
  PROVE  s \o t \in Seq(S)
  OBVIOUS

LEMMA SetOfConcat ==
  ASSUME NEW S, NEW s \in Seq(S), NEW t \in Seq(S)
  PROVE  SX!ToSet(s \o t) = SX!ToSet(s) \cup SX!ToSet(t)
<1>1. /\ DOMAIN (s \o t) = 1..Len(s) + Len(t)
      /\ DOMAIN s = 1..Len(s) /\ DOMAIN t = 1..Len(t) /\ Len(s) \in Nat /\ Len(t) \in Nat
      /\ \A i \in 1..Len(s) + Len(t) :
            (s \o t)[i] = IF i <= Len(s) THEN s[i] ELSE t[i - Len(s)]
  OBVIOUS
<1>2. ASSUME NEW i \in DOMAIN (s \o t)
      PROVE  (i \in DOMAIN s /\ (s \o t)[i] = s[i])
             \/ (i - Len(s) \in DOMAIN t /\ (s \o t)[i] = t[i - Len(s)])
  BY <1>1
<1>3. ASSUME NEW i \in DOMAIN s PROVE i \in DOMAIN (s \o t) /\ (s \o t)[i] = s[i]
  BY <1>1
<1>4. ASSUME NEW i \in DOMAIN t
      PROVE  Len(s) + i \in DOMAIN (s \o t) /\ (s \o t)[Len(s) + i] = t[i]
  BY <1>1
<1>5. SX!ToSet(s \o t) \subseteq SX!ToSet(s) \cup SX!ToSet(t)
  BY <1>2 DEF SX!ToSet
<1>6. SX!ToSet(s) \subseteq SX!ToSet(s \o t)
  BY <1>3 DEF SX!ToSet
<1>7. SX!ToSet(t) \subseteq SX!ToSet(s \o t)
  BY <1>4 DEF SX!ToSet
<1> QED BY <1>5, <1>6, <1>7

LEMMA SetOfTail ==
  ASSUME NEW S, NEW s \in Seq(S), s # <<>>
  PROVE  SX!ToSet(s) = {Head(s)} \cup SX!ToSet(Tail(s))
<1>1. /\ DOMAIN Tail(s) = 1..Len(s) - 1 /\ DOMAIN s = 1..Len(s) /\ Len(s) \in Nat \ {0}
      /\ \A i \in DOMAIN Tail(s) : Tail(s)[i] = s[i + 1]
      /\ Head(s) = s[1]
  OBVIOUS
<1>2. ASSUME NEW i \in DOMAIN s
      PROVE  i = 1 \/ (i - 1 \in DOMAIN Tail(s) /\ s[i] = Tail(s)[i - 1])
  BY <1>1
<1>3. ASSUME NEW i \in DOMAIN Tail(s) PROVE i + 1 \in DOMAIN s /\ Tail(s)[i] = s[i + 1]
  BY <1>1
<1>4. 1 \in DOMAIN s
  BY <1>1
<1>5. SX!ToSet(s) \subseteq {Head(s)} \cup SX!ToSet(Tail(s))
  BY <1>1, <1>2 DEF SX!ToSet
<1>6. SX!ToSet(Tail(s)) \subseteq SX!ToSet(s)
  BY <1>3 DEF SX!ToSet
<1>7. Head(s) \in SX!ToSet(s)
  BY <1>1, <1>4 DEF SX!ToSet
<1> QED BY <1>5, <1>6, <1>7

LEMMA SetOfEmpty == SX!ToSet(<<>>) = {}
  BY DEF SX!ToSet

-----------------------------------------------------------------------------
(* The conflicts a query finds. *)

Found == {p \in SX!ToSet(prefixes) : InConflict(routes[p])}
Conflicts == {[prefix |-> p, origins |-> routes[p]] : p \in Found}

LEMMA QuerySends ==
  ASSUME prefixes \in Seq(Prefixes), routes \in [Prefixes -> SUBSET Origins]
  PROVE  /\ SX!SetToSeq(Conflicts) \in Seq(Moas)
         /\ SX!ToSet(SX!SetToSeq(Conflicts)) = Conflicts
         /\ Conflicts \subseteq Moas
<1>1. IsFiniteSet(SX!ToSet(prefixes)) /\ SX!ToSet(prefixes) \subseteq Prefixes
  BY FiniteSequence
<1>2. Found \in SUBSET SX!ToSet(prefixes)
  BY DEF Found
<1>3. IsFiniteSet(Found)
  BY <1>1, <1>2, FS_Subset
<1> DEFINE conflict == [p \in Found |-> [prefix |-> p, origins |-> routes[p]]]
<1>4. conflict \in Surjection(Found, Conflicts)
  BY DEF Surjection, Conflicts
<1>5. IsFiniteSet(Conflicts)
  BY <1>3, <1>4, FS_Surjection
<1>6. Conflicts \subseteq Moas
  BY <1>1, <1>2 DEF Conflicts, Moas
<1>7. SX!SetToSeq(Conflicts) \in Seq(Conflicts)
  BY <1>5, SequenceOfSet
<1> QED BY <1>5, <1>6, <1>7, SequenceOfSet

-----------------------------------------------------------------------------
(* Types. *)

\* Until it queries, run has collected less than a batch.
TypeInv == TypeOK /\ (pc \in {"listen", "recv"} => Len(prefixes) < BigBatchSize)

LEMMA TypeStep == TypeInv /\ [Next]_vars => TypeInv'
<1> SUFFICES ASSUME TypeInv, [Next]_vars PROVE TypeInv'
  OBVIOUS
<1> USE DetectionAssumption
<1>0. TypeOK
  BY DEF TypeInv
<1>1. ASSUME NEW p \in Prefixes, NEW asns \in SUBSET Origins, Change(p, asns) PROVE TypeInv'
  <2>1. /\ routes' \in [Prefixes -> SUBSET Origins] /\ owed' \in [Prefixes -> SUBSET Origins]
        /\ changes' \in 0..MaxChanges
    BY <1>0, <1>1 DEF Change, TypeOK
  <2> QED BY <1>1, <2>1 DEF Change, TypeInv, TypeOK, service, upserts
<1>2. ASSUME NEW payload \in Payloads, Receive(payload) PROVE TypeInv'
  <2>1. /\ rx' \in Seq(Payloads) /\ owed' \in [Prefixes -> SUBSET Origins]
        /\ notes' \in 0..MaxNotes
    BY <1>0, <1>2 DEF Receive, TypeOK, Payloads
  <2> QED BY <1>2, <2>1 DEF Receive, TypeInv, TypeOK, service, upserts, Payloads
<1>3. CASE ListenerEnds
  <2>1. faults' \in 0..MaxFaults
    BY <1>0, <1>3 DEF ListenerEnds, Fault, TypeOK
  <2>2. /\ listener' \in {"on", "off"} /\ ctxDone' \in BOOLEAN
        /\ UNCHANGED <<routes, rx, pc, prefixes, stream, upserts, notes, changes, owed>>
    BY <1>3 DEF ListenerEnds, EndCancels, service
  <2> QED BY <2>1, <2>2 DEF TypeInv, TypeOK, upserts
<1>4. CASE Listen
  <2>1. /\ pc' \in {"recv", "failed"} /\ pc = "listen"
        /\ faults' \in 0..MaxFaults
    BY <1>0, <1>4 DEF Listen, Fault, TypeOK
  <2> QED BY <1>4, <2>1 DEF Listen, TypeInv, TypeOK, runRest, upserts
<1>5. CASE Recv
  <2>1. Head(rx) \in Payloads /\ rx' \in Seq(Payloads)
    BY <1>0, <1>5 DEF Recv, TypeOK, Payloads
  <2>2. CASE Head(rx) = BadPayload
    BY <1>5, <2>1, <2>2 DEF Recv, TypeInv, TypeOK, runRest, upserts, Payloads
  <2>3. CASE Head(rx) # BadPayload
    <3>1. prefixes' = Append(prefixes, Head(rx)) /\ Head(rx) \in Prefixes
      BY <1>5, <2>1, <2>3 DEF Recv, Payloads
    <3>2. prefixes' \in Seq(Prefixes) /\ Len(prefixes') = Len(prefixes) + 1
      BY <1>0, <3>1 DEF TypeOK
    <3>3. pc = "recv" /\ Len(prefixes) \in Nat /\ Len(prefixes) < BigBatchSize
      BY <1>0, <1>5 DEF Recv, TypeInv, TypeOK
    <3>4. /\ Len(prefixes') <= BigBatchSize
          /\ pc' = "query" \/ (pc' = "recv" /\ Len(prefixes') < BigBatchSize)
      BY <1>5, <2>3, <3>2, <3>3 DEF Recv, Full
    <3> QED BY <1>5, <2>1, <3>2, <3>4 DEF Recv, TypeInv, TypeOK, runRest, upserts, Payloads
  <2> QED BY <2>2, <2>3
<1>6. CASE RecvEnds
  BY <1>6 DEF RecvEnds, TypeInv, TypeOK, runRest, upserts
<1>7. CASE Query
  <2>1. stream' = stream \/ stream' = stream \o SX!SetToSeq(Conflicts)
    BY <1>7 DEF Query, Conflicts, Found
  <2>2. stream' \in Seq(Moas)
    <3>1. stream \in Seq(Moas) /\ SX!SetToSeq(Conflicts) \in Seq(Moas)
      BY <1>0, QuerySends DEF TypeOK
    <3> QED BY <2>1, <3>1, TwoSequences
  <2>3. /\ prefixes' = <<>> /\ pc' \in {"recv", "failed"} /\ rx' = rx
        /\ UNCHANGED runRest
    BY <1>7 DEF Query
  <2>4. faults' \in 0..MaxFaults
    BY <1>0, <1>7 DEF Query, Fault, TypeOK
  <2>5. prefixes' \in Seq(Prefixes) /\ Len(prefixes') = 0
    BY <2>3
  <2> QED BY <2>2, <2>3, <2>4, <2>5 DEF TypeInv, TypeOK, runRest, upserts
<1>8. CASE Take
  <2>1. Head(stream) \in Moas /\ stream' \in Seq(Moas)
    BY <1>0, <1>8 DEF Take, TypeOK
  <2> QED BY <1>8, <2>1 DEF Take, TypeInv, TypeOK, upsertRest, service
<1>9. CASE Execute
  <2>1. writing \in Moas /\ writing.prefix \in Prefixes /\ writing.origins \in SUBSET Origins
    BY <1>0, <1>9 DEF Execute, TypeOK, Moas
  <2>2. moas' \in [Prefixes -> SUBSET Origins] /\ executed' \in SUBSET Moas
    BY <1>0, <1>9, <2>1 DEF Execute, TypeOK
  <2> QED BY <1>9, <2>2 DEF Execute, TypeInv, TypeOK, upsertRest, service
<1>10. CASE ExecuteFails
  <2>1. writing \in Moas /\ writing.prefix \in Prefixes
    BY <1>0, <1>10 DEF ExecuteFails, TypeOK, Moas
  <2>2. faults' \in 0..MaxFaults
    BY <1>0, <1>10 DEF ExecuteFails, Fault, TypeOK
  <2> QED BY <1>10, <2>1, <2>2 DEF ExecuteFails, TypeInv, TypeOK, upsertRest, service
<1>11. CASE UpserterEnds
  BY <1>11 DEF UpserterEnds, TypeInv, TypeOK, upsertRest, service
<1>12. CASE Signal
  BY <1>12 DEF Signal, TypeInv, TypeOK, service, upserts
<1>13. CASE Exit
  BY <1>13 DEF Exit, TypeInv, TypeOK, runRest, upserts
<1>14. CASE UNCHANGED vars
  BY <1>14 DEF vars, TypeInv, TypeOK, service, upserts
<1> QED BY <1>1, <1>2, <1>3, <1>4, <1>5, <1>6, <1>7, <1>8, <1>9, <1>10, <1>11, <1>12, <1>13,
           <1>14 DEF Next, Run, Payloads

LEMMA TypesHold == Spec => []TypeInv
<1>1. Init => TypeInv
  <2> SUFFICES ASSUME Init PROVE TypeInv
    OBVIOUS
  <2> USE DetectionAssumption
  <2>1. /\ routes \in [Prefixes -> SUBSET Origins] /\ moas \in [Prefixes -> SUBSET Origins]
        /\ owed \in [Prefixes -> SUBSET Origins]
    BY DEF Init
  <2>2. rx \in Seq(Payloads) /\ stream \in Seq(Moas) /\ prefixes \in Seq(Prefixes)
    BY DEF Init
  <2>3. notes \in 0..MaxNotes /\ changes \in 0..MaxChanges /\ faults \in 0..MaxFaults
    BY DEF Init
  <2>4. Len(prefixes) = 0 /\ Len(prefixes) < BigBatchSize /\ Len(prefixes) <= BigBatchSize
    BY DEF Init
  <2> QED BY <2>1, <2>2, <2>3, <2>4 DEF Init, TypeInv, TypeOK, Payloads
<1> QED BY <1>1, TypeStep, PTL DEF Spec

\* run never holds more than BIG_BATCH_SIZE prefixes, and everything on its way
\* to the upserter and in moas is a prefix with origins.
THEOREM TypeCorrect == Spec => []TypeOK
<1>1. TypeInv => TypeOK
  BY DEF TypeInv
<1> QED BY <1>1, TypesHold, PTL

-----------------------------------------------------------------------------
(* Conflicts. *)

\* What is owed for a prefix is in routes.
OwedInv == \A p \in Prefixes : owed[p] \subseteq routes[p]

\* The conflict m covers what is owed for p.
Covers(m, p) == m # NoMoas /\ m.prefix = p /\ owed[p] \subseteq m.origins

\* Where the conflict of p is.
Collected(p) == p \in SX!ToSet(rx) \cup SX!ToSet(prefixes) \cup lost
Underway(p) == \E m \in SX!ToSet(stream) \cup {writing} \cup executed : Covers(m, p)
Interrupted == ctxDone \/ pc \in {"failed", "off"}

Carried(p) == Cardinality(owed[p]) > 1 => Collected(p) \/ Underway(p) \/ Interrupted

LEMMA Fewer ==
  ASSUME NEW S \in SUBSET Origins, NEW T \in SUBSET S
  PROVE  /\ Cardinality(S) \in Nat /\ Cardinality(T) \in Nat
         /\ Cardinality(T) <= Cardinality(S)
<1>1. IsFiniteSet(S)
  BY DetectionAssumption, FS_Subset
<1>2. IsFiniteSet(T) /\ Cardinality(T) <= Cardinality(S)
  BY <1>1, FS_Subset
<1> QED BY <1>1, <1>2, FS_CardinalityType

LEMMA OwedStep == TypeInv /\ OwedInv /\ [Next]_vars => OwedInv'
<1> SUFFICES ASSUME TypeInv, OwedInv, [Next]_vars PROVE OwedInv'
  OBVIOUS
<1>1. ASSUME NEW p \in Prefixes, NEW asns \in SUBSET Origins, Change(p, asns) PROVE OwedInv'
  BY <1>1 DEF Change, OwedInv, TypeInv, TypeOK
<1>2. ASSUME NEW payload \in Payloads, Receive(payload) PROVE OwedInv'
  BY <1>2 DEF Receive, OwedInv, TypeInv, TypeOK
<1>3. CASE ListenerEnds \/ Run \/ Take \/ Execute \/ ExecuteFails \/ UpserterEnds \/ Signal \/ Exit
           \/ UNCHANGED vars
  <2>1. UNCHANGED <<routes, owed>>
    BY <1>3 DEF ListenerEnds, Run, Listen, Recv, RecvEnds, Query, Take, Execute, ExecuteFails,
                UpserterEnds, Signal, Exit, runRest, upsertRest, vars
  <2> QED BY <2>1 DEF OwedInv
<1> QED BY <1>1, <1>2, <1>3 DEF Next, Payloads

\* Whatever ended the process or its context stays.
LEMMA InterruptedStays == Interrupted /\ [Next]_vars => Interrupted'
<1> SUFFICES ASSUME Interrupted, [Next]_vars PROVE Interrupted'
  OBVIOUS
<1>1. CASE \/ \E p \in Prefixes, asns \in SUBSET Origins : Change(p, asns)
           \/ \E payload \in Prefixes \cup {BadPayload} : Receive(payload)
           \/ Take \/ Execute \/ ExecuteFails \/ UpserterEnds \/ UNCHANGED vars
  <2>1. UNCHANGED <<ctxDone, pc>>
    BY <1>1 DEF Change, Receive, Take, Execute, ExecuteFails, UpserterEnds, upsertRest, service,
                vars
  <2> QED BY <2>1 DEF Interrupted
<1>2. CASE Run
  <2>1. ctxDone' = ctxDone /\ pc \notin {"failed", "off"}
    BY <1>2 DEF Run, Listen, Recv, RecvEnds, Query, runRest
  <2> QED BY <2>1 DEF Interrupted
<1>3. CASE ListenerEnds \/ Signal \/ Exit
  BY <1>3 DEF ListenerEnds, EndCancels, Signal, Exit, Interrupted
<1> QED BY <1>1, <1>2, <1>3 DEF Next

LEMMA CarriedStep ==
  ASSUME TypeInv, OwedInv, [Next]_vars, NEW p \in Prefixes, Carried(p)
  PROVE  Carried(p)'
<1>0. /\ routes \in [Prefixes -> SUBSET Origins] /\ owed \in [Prefixes -> SUBSET Origins]
      /\ rx \in Seq(Payloads) /\ stream \in Seq(Moas) /\ prefixes \in Seq(Prefixes)
      /\ executed \in SUBSET Moas /\ lost \in SUBSET Prefixes /\ writing \in Moas \cup {NoMoas}
  BY DEF TypeInv, TypeOK, Payloads
<1> SUFFICES ASSUME Cardinality(owed'[p]) > 1, ~Interrupted'
             PROVE  Collected(p)' \/ Underway(p)'
  BY DEF Carried
<1>00. ~Interrupted
  BY InterruptedStays
<1>1. ASSUME NEW q \in Prefixes, NEW asns \in SUBSET Origins, Change(q, asns)
      PROVE  Collected(p)' \/ Underway(p)'
  <2>1. owed'[p] \in SUBSET owed[p]
    BY <1>0, <1>1 DEF Change
  <2>2. Cardinality(owed[p]) > 1
    <3>1. /\ Cardinality(owed[p]) \in Nat /\ Cardinality(owed'[p]) \in Nat
          /\ Cardinality(owed'[p]) <= Cardinality(owed[p])
      BY <1>0, <2>1, Fewer
    <3> QED BY <3>1
  <2>3. Collected(p) \/ Underway(p)
    BY <1>00, <2>2 DEF Carried
  <2>4. UNCHANGED <<rx, prefixes, lost, stream, writing, executed>>
    BY <1>1 DEF Change, service, upserts
  <2> QED BY <2>1, <2>3, <2>4 DEF Collected, Underway, Covers
<1>2. ASSUME NEW payload \in Payloads, Receive(payload) PROVE Collected(p)' \/ Underway(p)'
  <2>1. SX!ToSet(rx') = SX!ToSet(rx) \cup {payload}
    BY <1>0, <1>2, SetOfAppend DEF Receive
  <2>2. CASE payload = p
    BY <2>1, <2>2 DEF Collected
  <2>3. CASE payload # p
    <3>1. owed'[p] = owed[p]
      BY <1>2, <2>3 DEF Receive
    <3>2. Collected(p) \/ Underway(p)
      BY <1>00, <3>1 DEF Carried
    <3>3. UNCHANGED <<prefixes, lost, stream, writing, executed>>
      BY <1>2 DEF Receive, service, upserts
    <3> QED BY <2>1, <3>1, <3>2, <3>3 DEF Collected, Underway, Covers
  <2> QED BY <2>2, <2>3
<1>3. CASE /\ ~\E q \in Prefixes, asns \in SUBSET Origins : Change(q, asns)
           /\ ~\E payload \in Payloads : Receive(payload)
  <2>1. UNCHANGED <<routes, owed>>
    BY <1>3 DEF Next, Payloads, ListenerEnds, Run, Listen, Recv, RecvEnds, Query, Take, Execute,
                ExecuteFails, UpserterEnds, Signal, Exit, runRest, upsertRest, vars
  <2>2. Collected(p) \/ Underway(p)
    BY <1>00, <2>1 DEF Carried
  <2>3. CASE ListenerEnds \/ Listen \/ RecvEnds \/ Signal \/ Exit \/ UNCHANGED vars
    <3>1. UNCHANGED <<rx, prefixes, lost, stream, writing, executed>>
      BY <2>3 DEF ListenerEnds, Listen, RecvEnds, Signal, Exit, runRest, service, upserts, vars
    <3> QED BY <2>1, <2>2, <3>1 DEF Collected, Underway, Covers
  <2>4. CASE Recv
    <3>1. /\ SX!ToSet(rx) = {Head(rx)} \cup SX!ToSet(rx')
          /\ Head(rx) \in Payloads
      BY <1>0, <2>4, SetOfTail DEF Recv
    <3>2. SX!ToSet(prefixes) \cup ({Head(rx)} \ {BadPayload}) = SX!ToSet(prefixes')
      <4>1. CASE Head(rx) = BadPayload
        BY <2>4, <4>1 DEF Recv
      <4>2. CASE Head(rx) # BadPayload
        <5>1. Head(rx) \in Prefixes /\ prefixes' = Append(prefixes, Head(rx))
          BY <2>4, <3>1, <4>2 DEF Recv, Payloads
        <5>2. SX!ToSet(prefixes') = SX!ToSet(prefixes) \cup {Head(rx)}
          BY <1>0, <5>1, SetOfAppend
        <5> QED BY <4>2, <5>2
      <4> QED BY <4>1, <4>2
    <3>3. p # BadPayload
      BY DetectionAssumption
    <3>4. UNCHANGED <<lost, stream, writing, executed>>
      BY <2>4 DEF Recv, runRest, upserts
    <3> QED BY <2>1, <2>2, <3>1, <3>2, <3>3, <3>4 DEF Collected, Underway, Covers
  <2>5. CASE Query
    <3>1. /\ pc' # "failed" /\ prefixes' = <<>> /\ rx' = rx
          /\ UNCHANGED <<lost, writing, executed>>
      BY <2>5 DEF Query, Interrupted, runRest, upserts
    <3>2. stream' = stream \o SX!SetToSeq(Conflicts)
      BY <2>5, <3>1 DEF Query, Conflicts, Found
    <3>3. SX!ToSet(stream') = SX!ToSet(stream) \cup Conflicts
      BY <1>0, <3>2, QuerySends, SetOfConcat
    <3>4. CASE p \in SX!ToSet(prefixes)
      <4>1. owed[p] \in SUBSET routes[p] /\ routes[p] \in SUBSET Origins
        BY <1>0 DEF OwedInv
      <4>2. Cardinality(routes[p]) > 1
        <5>1. /\ Cardinality(routes[p]) \in Nat /\ Cardinality(owed[p]) \in Nat
              /\ Cardinality(owed[p]) <= Cardinality(routes[p])
          BY <4>1, Fewer
        <5> QED BY <2>1, <5>1
      <4>3. [prefix |-> p, origins |-> routes[p]] \in Conflicts
        BY <3>4, <4>2 DEF Conflicts, Found, InConflict
      <4>4. [prefix |-> p, origins |-> routes[p]] # NoMoas
        BY <4>1, DetectionAssumption
      <4> QED BY <2>1, <3>3, <4>1, <4>3, <4>4 DEF Underway, Covers
    <3>5. CASE p \notin SX!ToSet(prefixes)
      BY <2>1, <2>2, <3>1, <3>3, <3>5 DEF Collected, Underway, Covers
    <3> QED BY <3>4, <3>5
  <2>6. CASE Take
    <3>1. /\ SX!ToSet(stream) = {writing'} \cup SX!ToSet(stream') /\ writing = NoMoas
          /\ UNCHANGED <<rx, prefixes, lost, executed>>
      BY <1>0, <2>6, SetOfTail DEF Take, upsertRest, service
    <3> QED BY <2>1, <2>2, <3>1 DEF Collected, Underway, Covers
  <2>7. CASE Execute
    <3>1. executed' = executed \cup {writing} /\ UNCHANGED <<rx, prefixes, lost, stream>>
      BY <2>7 DEF Execute, upsertRest, service
    <3> QED BY <2>1, <2>2, <3>1 DEF Collected, Underway, Covers
  <2>8. CASE ExecuteFails
    <3>1. /\ lost' = lost \cup {writing.prefix}
          /\ UNCHANGED <<rx, prefixes, stream, executed>>
      BY <2>8 DEF ExecuteFails, upsertRest, service
    <3> QED BY <2>1, <2>2, <3>1 DEF Collected, Underway, Covers
  <2>9. CASE UpserterEnds
    <3>1. UNCHANGED <<ctxDone, pc, rx, prefixes, lost, writing, executed>>
      BY <2>9 DEF UpserterEnds, upsertRest, service
    <3>2. stream = <<>> /\ stream' = <<>>
      BY <1>00, <2>9 DEF UpserterEnds, Interrupted
    <3> QED BY <2>1, <2>2, <3>1, <3>2 DEF Collected, Underway, Covers
  <2> QED BY <1>3, <2>3, <2>4, <2>5, <2>6, <2>7, <2>8, <2>9 DEF Next, Run, Payloads
<1> QED BY <1>1, <1>2, <1>3

\* No conflict is dropped on the way from its notification to the statement that
\* records it, unless a connection or run fails, or the context is cancelled.
THEOREM EveryConflictCarried == Spec => []ConflictsCarried
<1> DEFINE Inv == OwedInv /\ \A p \in Prefixes : Carried(p)
<1>1. Init => Inv
  <2> SUFFICES ASSUME Init, NEW p \in Prefixes PROVE owed[p] = {}
    BY FS_EmptySet DEF OwedInv, Carried
  <2> QED BY DEF Init
<1>2. TypeInv /\ Inv /\ [Next]_vars => Inv'
  BY OwedStep, CarriedStep
<1>3. Inv => ConflictsCarried
  BY DEF Carried, Collected, Underway, Covers, Interrupted, ConflictsCarried
<1> QED BY <1>1, <1>2, <1>3, TypesHold, PTL DEF Spec
=============================================================================
