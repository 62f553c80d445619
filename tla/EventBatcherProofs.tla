------------------------- MODULE EventBatcherProofs -------------------------
(***************************************************************************)
(* Theorems about EventBatcher, for every capacity of the channel and any  *)
(* number of events.  An event moves from outbox to queue to rows to       *)
(* stored, or leaves to lost; the invariant says of the four stages that   *)
(* each is increasing and above the next one, and that with lost they      *)
(* share out the events submitted.                                         *)
(***************************************************************************)
EXTENDS EventBatcher, SequenceTheorems, TLAPS

-----------------------------------------------------------------------------
(* Increasing sequences. *)

Increasing(s) == \A i, j \in DOMAIN s : i < j => s[i] < s[j]
Below(S, T) == \A x \in S, y \in T : x < y

LEMMA RangeType == ASSUME NEW S, NEW s \in Seq(S) PROVE Range(s) \in SUBSET S
  BY RangeOfSeq

LEMMA EmptyRange == Range(<<>>) = {} /\ Increasing(<<>>)
  BY DEF Range, Increasing

LEMMA TwoSeqs == ASSUME NEW s \in Seq(Nat), NEW t \in Seq(Nat) PROVE s \o t \in Seq(Nat)
  BY ConcatProperties

LEMMA TwoRanges ==
  ASSUME NEW s \in Seq(Nat), NEW t \in Seq(Nat) PROVE Range(s \o t) = Range(s) \cup Range(t)
  BY RangeConcatenation

LEMMA SingleRange == ASSUME NEW s \in Seq(Nat), Len(s) <= 1 PROVE Increasing(s)
  BY DEF Increasing

LEMMA IncreasingConcat ==
  ASSUME NEW s \in Seq(Nat), NEW t \in Seq(Nat),
         Increasing(s), Increasing(t), Below(Range(s), Range(t))
  PROVE  Increasing(s \o t)
<1>0. DOMAIN (s \o t) = 1..(Len(s) + Len(t))
  BY ConcatProperties
<1> SUFFICES ASSUME NEW i \in 1..(Len(s) + Len(t)), NEW j \in 1..(Len(s) + Len(t)), i < j
             PROVE  (s \o t)[i] < (s \o t)[j]
  BY <1>0 DEF Increasing
<1>1. CASE j <= Len(s)
  BY <1>1 DEF Increasing
<1>2. CASE i > Len(s)
  <2>1. t[i - Len(s)] < t[j - Len(s)]
    BY <1>2 DEF Increasing
  <2> QED BY <1>2, <2>1
<1>3. CASE i <= Len(s) /\ j > Len(s)
  <2>1. s[i] \in Range(s) /\ t[j - Len(s)] \in Range(t)
    BY <1>3 DEF Range
  <2> QED BY <1>3, <2>1 DEF Below
<1> QED BY <1>1, <1>2, <1>3

LEMMA InRange ==
  ASSUME NEW s \in Seq(Nat)
  PROVE  \A x : x \in Range(s) <=> \E i \in 1..Len(s) : x = s[i]
  BY DEF Range

LEMMA HeadAndTail ==
  ASSUME NEW s \in Seq(Nat), s # <<>>
  PROVE  /\ Range(s) = {Head(s)} \cup Range(Tail(s))
         /\ Increasing(s) => Increasing(Tail(s)) /\ Below({Head(s)}, Range(Tail(s)))
<1> DEFINE t == Tail(s)
<1>1. /\ Len(s) \in Nat \ {0} /\ Head(s) = s[1] /\ t \in Seq(Nat)
      /\ Len(t) = Len(s) - 1 /\ \A i \in 1..Len(t) : t[i] = s[1 + i]
  BY HeadTailProperties
<1> HIDE DEF t
<1>2. Range(s) = {Head(s)} \cup Range(t)
  <2>1. ASSUME NEW x \in Range(s) PROVE x \in {Head(s)} \cup Range(t)
    <3>1. PICK i \in 1..Len(s) : x = s[i]
      BY InRange
    <3>2. CASE i = 1
      BY <1>1, <3>1, <3>2
    <3>3. CASE i # 1
      <4>1. i - 1 \in 1..Len(t) /\ x = t[i - 1]
        BY <1>1, <3>1, <3>3
      <4> QED BY <1>1, <4>1, InRange
    <3> QED BY <3>2, <3>3
  <2>2. ASSUME NEW x \in Range(t) PROVE x \in Range(s)
    <3>1. PICK i \in 1..Len(t) : x = t[i]
      BY <1>1, InRange
    <3>2. 1 + i \in 1..Len(s) /\ x = s[1 + i]
      BY <1>1, <3>1
    <3> QED BY <3>2, InRange
  <2>3. Head(s) \in Range(s)
    <3>1. 1 \in 1..Len(s)
      BY <1>1
    <3> QED BY <1>1, <3>1, InRange
  <2> QED BY <2>1, <2>2, <2>3
<1>3. ASSUME Increasing(s) PROVE Increasing(t) /\ Below({Head(s)}, Range(t))
  <2>1. Increasing(t)
    <3>1. ASSUME NEW i \in 1..Len(t), NEW j \in 1..Len(t), i < j PROVE t[i] < t[j]
      <4>1. /\ 1 + i \in 1..Len(s) /\ 1 + j \in 1..Len(s) /\ 1 + i < 1 + j
            /\ t[i] = s[1 + i] /\ t[j] = s[1 + j]
        BY <1>1, <3>1
      <4> QED BY <1>3, <4>1 DEF Increasing
    <3>2. DOMAIN t = 1..Len(t)
      BY <1>1
    <3> QED BY <3>1, <3>2 DEF Increasing
  <2>2. ASSUME NEW x \in Range(t) PROVE s[1] < x
    <3>1. PICK i \in 1..Len(t) : x = t[i]
      BY <1>1, InRange
    <3>2. 1 \in 1..Len(s) /\ 1 + i \in 1..Len(s) /\ x = s[1 + i] /\ 1 < 1 + i
      BY <1>1, <3>1
    <3> QED BY <1>3, <3>2 DEF Increasing
  <2> QED BY <1>1, <2>1, <2>2 DEF Below
<1> QED BY <1>2, <1>3 DEF t

LEMMA AppendOne ==
  ASSUME NEW s \in Seq(Nat), NEW e \in Nat
  PROVE  /\ Append(s, e) \in Seq(Nat) /\ Range(Append(s, e)) = Range(s) \cup {e}
         /\ Increasing(s) /\ Below(Range(s), {e}) => Increasing(Append(s, e))
<1>1. <<e>> \in Seq(Nat) /\ Range(<<e>>) = {e} /\ Increasing(<<e>>)
  BY DEF Range, Increasing
<1>2. Append(s, e) = s \o <<e>>
  BY AppendIsConcat
<1>3. Range(s \o <<e>>) = Range(s) \cup Range(<<e>>)
  <2>1. \A t \in Seq(Nat) : Range(s \o t) = Range(s) \cup Range(t)
    BY RangeConcatenation
  <2> QED BY <1>1, <2>1
<1>4. s \o <<e>> \in Seq(Nat)
  BY <1>1
<1>5. ASSUME Increasing(s), Below(Range(s), {e}) PROVE Increasing(s \o <<e>>)
  BY <1>1, <1>5, IncreasingConcat
<1> QED BY <1>1, <1>2, <1>3, <1>4, <1>5

\* A sequence cut in two.
LEMMA CutInTwo ==
  ASSUME NEW s \in Seq(Nat), NEW n \in 0..Len(s)
  PROVE  LET front == SubSeq(s, 1, n)  back == SubSeq(s, n + 1, Len(s))
         IN  /\ front \in Seq(Nat) /\ Range(s) = Range(front) \cup Range(back)
             /\ Increasing(s) => Increasing(front) /\ Below(Range(front), Range(back))
<1> DEFINE front == SubSeq(s, 1, n)
           back == SubSeq(s, n + 1, Len(s))
<1>0. Len(s) \in Nat /\ n \in Nat /\ n <= Len(s)
  OBVIOUS
<1>1. front \in Seq(Nat) /\ Len(front) = n /\ \A i \in 1..n : front[i] = s[i]
  BY <1>0, SubSeqProperties
<1>2. /\ back \in Seq(Nat) /\ Len(back) = Len(s) - n
      /\ \A i \in 1..(Len(s) - n) : back[i] = s[n + i]
  BY <1>0, SubSeqProperties
<1> HIDE DEF front, back
<1>3. Range(s) = Range(front) \cup Range(back)
  <2>1. ASSUME NEW x \in Range(s) PROVE x \in Range(front) \cup Range(back)
    <3>1. PICK i \in 1..Len(s) : x = s[i]
      BY InRange
    <3>2. CASE i <= n
      <4>1. i \in 1..Len(front) /\ x = front[i]
        BY <1>0, <1>1, <3>1, <3>2
      <4> QED BY <1>1, <4>1, InRange
    <3>3. CASE i > n
      <4>1. i - n \in 1..Len(back) /\ x = back[i - n]
        BY <1>0, <1>2, <3>1, <3>3
      <4> QED BY <1>2, <4>1, InRange
    <3> QED BY <1>0, <3>2, <3>3
  <2>2. ASSUME NEW x \in Range(front) PROVE x \in Range(s)
    <3>1. PICK i \in 1..Len(front) : x = front[i]
      BY <1>1, InRange
    <3>2. i \in 1..Len(s) /\ x = s[i]
      BY <1>0, <1>1, <3>1
    <3> QED BY <3>2, InRange
  <2>3. ASSUME NEW x \in Range(back) PROVE x \in Range(s)
    <3>1. PICK i \in 1..Len(back) : x = back[i]
      BY <1>2, InRange
    <3>2. n + i \in 1..Len(s) /\ x = s[n + i]
      BY <1>0, <1>2, <3>1
    <3> QED BY <3>2, InRange
  <2> QED BY <2>1, <2>2, <2>3
<1>4. ASSUME Increasing(s) PROVE Increasing(front) /\ Below(Range(front), Range(back))
  <2>1. Increasing(front)
    BY <1>0, <1>1, <1>4 DEF Increasing
  <2>2. ASSUME NEW x \in Range(front), NEW y \in Range(back) PROVE x < y
    <3>1. PICK i \in 1..Len(front) : x = front[i]
      BY <1>1, InRange
    <3>2. PICK j \in 1..Len(back) : y = back[j]
      BY <1>2, InRange
    <3>3. i \in 1..Len(s) /\ i <= n /\ x = s[i]
      BY <1>0, <1>1, <3>1
    <3>4. n + j \in 1..Len(s) /\ n < n + j /\ y = s[n + j]
      BY <1>0, <1>2, <3>2
    <3>5. i < n + j
      BY <1>0, <3>3, <3>4
    <3> QED BY <1>4, <3>3, <3>4, <3>5 DEF Increasing
  <2> QED BY <2>1, <2>2 DEF Below
<1> QED BY <1>1, <1>3, <1>4 DEF front, back

-----------------------------------------------------------------------------
(* The types. *)

SeqTypes ==
    /\ submitted \in Nat /\ submitted <= MaxEvents
    /\ outbox \in Seq(Nat) /\ Len(outbox) <= 1
    /\ queue \in Seq(Nat) /\ Len(queue) <= ChannelCap
    /\ rows \in Seq(Nat) /\ stored \in Seq(Nat)

ControlTypes ==
    /\ borked \in BOOLEAN /\ cancelled \in BOOLEAN /\ failed \in BOOLEAN
    /\ task \in {"running", "stopped", "panicked"}
    /\ owner \in {"open", "sending", "ending", "ended", "dropped"}

LEMMA NextControlTypes == ControlTypes /\ [Next]_vars => ControlTypes'
<1> SUFFICES ASSUME ControlTypes, [Next]_vars PROVE ControlTypes' OBVIOUS
<1> USE DEF ControlTypes
<1>1. CASE Insert \/ Sent \/ Refused
  BY <1>1, Zenon DEF Insert, Sent, Refused
<1>2. CASE End \/ EndReturns \/ Drop \/ ParentCancelled
  BY <1>2, Zenon DEF End, EndReturns, Drop, ParentCancelled
<1>3. CASE Write \/ WriteFails \/ WritePanics
  BY <1>3, Zenon DEF Write, WriteFails, WritePanics
<1>4. CASE Commit \/ CommitFails \/ Done \/ DoneFails
  BY <1>4, Zenon DEF Commit, CommitFails, Done, DoneFails
<1>5. CASE UNCHANGED vars
  BY <1>5, Zenon DEF vars
<1> QED BY <1>1, <1>2, <1>3, <1>4, <1>5 DEF Next

LEMMA NextSeqTypes == SeqTypes /\ [Next]_vars => SeqTypes'
<1> SUFFICES ASSUME SeqTypes, [Next]_vars PROVE SeqTypes' OBVIOUS
<1> USE EventBatcherAssumption DEF SeqTypes
<1>0. <<>> \in Seq(Nat) /\ Len(<<>>) = 0
  OBVIOUS
<1>1. CASE Insert
  <2>1. submitted' \in Nat /\ submitted' <= MaxEvents
    BY <1>1 DEF Insert
  <2>2. \A e \in Nat : <<e>> \in Seq(Nat) /\ Len(<<e>>) = 1
    OBVIOUS
  <2> QED BY <1>1, <2>1, <2>2 DEF Insert
<1>2. CASE Sent
  <2>1. queue \o outbox \in Seq(Nat) /\ Len(queue \o outbox) = Len(queue) + Len(outbox)
    BY ConcatProperties
  <2> QED BY <1>0, <1>2, <2>1 DEF Sent, HasRoom
<1>3. CASE Refused
  BY <1>0, <1>3 DEF Refused
<1>4. CASE End \/ EndReturns \/ Drop \/ ParentCancelled
  BY <1>4, Zenon DEF End, EndReturns, Drop, ParentCancelled
<1>5. CASE Write \/ WriteFails
  <2>1. queue # <<>> /\ queue' = Tail(queue)
    BY <1>5 DEF Write, WriteFails, Rest
  <2>2. queue' \in Seq(Nat) /\ Len(queue') <= ChannelCap /\ Head(queue) \in Nat
    BY <2>1, HeadTailProperties
  <2>3. Append(rows, Head(queue)) \in Seq(Nat)
    BY <2>2, AppendOne
  <2> QED BY <1>0, <1>5, <2>2, <2>3 DEF Write, WriteFails, NextEvent
<1>6. CASE WritePanics
  BY <1>0, <1>6 DEF WritePanics
<1>7. CASE Commit \/ Done
  <2>1. stored \o rows \in Seq(Nat)
    BY TwoSeqs
  <2>2. CASE Commit
    BY <1>0, <2>1, <2>2 DEF Commit, RowsLeft
  <2>3. CASE Done
    BY <1>0, <2>1, <2>3 DEF Done
  <2> QED BY <1>7, <2>2, <2>3
<1>8. CASE CommitFails \/ DoneFails
  <2>1. PICK n \in 0..Len(rows) : stored' = stored \o SubSeq(rows, 1, n)
    BY <1>8 DEF CommitFails, DoneFails
  <2>2. SubSeq(rows, 1, n) \in Seq(Nat)
    BY CutInTwo
  <2>3. stored' \in Seq(Nat)
    BY <2>1, <2>2, TwoSeqs
  <2>4. CASE CommitFails
    BY <1>0, <2>3, <2>4 DEF CommitFails, RowsLeft
  <2>5. CASE DoneFails
    BY <1>0, <2>3, <2>5 DEF DoneFails
  <2> QED BY <1>8, <2>4, <2>5
<1>9. CASE UNCHANGED vars
  BY <1>9, Zenon DEF vars
<1> QED BY <1>1, <1>2, <1>3, <1>4, <1>5, <1>6, <1>7, <1>8, <1>9 DEF Next

LEMMA InitTypes == Init => SeqTypes /\ ControlTypes
<1>1. <<>> \in Seq(Nat) /\ Len(<<>>) = 0
  OBVIOUS
<1>2. Init => SeqTypes
  BY <1>1, EventBatcherAssumption DEF Init, SeqTypes
<1>3. Init => ControlTypes
  BY Zenon DEF Init, ControlTypes
<1> QED BY <1>2, <1>3

-----------------------------------------------------------------------------
(* Each stage is increasing and above the next, and nothing is unaccounted. *)

\* An owner that is not in insert has nothing at hand.
OutboxInv == owner # "sending" => outbox = <<>>

EachIncreases == Increasing(stored) /\ Increasing(rows) /\ Increasing(queue)

InOrder(S, R, Q, O) ==
    /\ Below(S, R) /\ Below(S, Q) /\ Below(S, O)
    /\ Below(R, Q) /\ Below(R, O) /\ Below(Q, O)

Shared(S, R, Q, O, L, n) ==
    /\ S \cup R \cup Q \cup O \cup L = 1..n
    /\ (S \cup R \cup Q \cup O) \cap L = {}

IInv ==
    /\ SeqTypes /\ ControlTypes /\ OutboxInv /\ EachIncreases
    /\ InOrder(Range(stored), Range(rows), Range(queue), Range(outbox))
    /\ Shared(Range(stored), Range(rows), Range(queue), Range(outbox), lost, submitted)

LEMMA RangesOfTypes ==
  SeqTypes => Range(stored) \in SUBSET Nat /\ Range(rows) \in SUBSET Nat
           /\ Range(queue) \in SUBSET Nat /\ Range(outbox) \in SUBSET Nat
  BY RangeOfSeq DEF SeqTypes

LEMMA InitInv == Init => IInv
<1> SUFFICES ASSUME Init PROVE IInv OBVIOUS
<1>1. stored = <<>> /\ rows = <<>> /\ queue = <<>> /\ outbox = <<>> /\ lost = {} /\ submitted = 0
  BY DEF Init
<1>2. 1..0 = {}
  OBVIOUS
<1>3. InOrder({}, {}, {}, {}) /\ Shared({}, {}, {}, {}, {}, 0)
  BY <1>2 DEF InOrder, Below, Shared
<1> QED BY <1>1, <1>3, InitTypes, EmptyRange DEF IInv, OutboxInv, EachIncreases

LEMMA InsertInv == IInv /\ Insert /\ SeqTypes' /\ ControlTypes' => IInv'
<1> SUFFICES ASSUME IInv, Insert, SeqTypes', ControlTypes' PROVE IInv' OBVIOUS
<1>1. outbox = <<>> /\ Range(outbox) = {}
  BY EmptyRange DEF IInv, OutboxInv, Insert
<1>2. Range(outbox') = {submitted + 1}
  BY DEF Insert, Range
<1>3. 1..(submitted + 1) = (1..submitted) \cup {submitted + 1} /\ submitted + 1 \notin 1..submitted
  BY DEF IInv, SeqTypes
<1>4. InOrder(Range(stored), Range(rows), Range(queue), {submitted + 1})
  <2>1. \A x \in 1..submitted : x < submitted + 1
    BY DEF IInv, SeqTypes
  <2> QED BY <1>1, <2>1 DEF IInv, InOrder, Shared, Below
<1>5. Shared(Range(stored), Range(rows), Range(queue), {submitted + 1}, lost, submitted + 1)
  BY <1>1, <1>3 DEF IInv, Shared
<1> QED BY <1>2, <1>4, <1>5 DEF IInv, OutboxInv, EachIncreases, Insert

\* A set of events above another one has none of its events.
LEMMA Apart ==
  ASSUME NEW S \in SUBSET Nat, NEW R \in SUBSET Nat, NEW Q \in SUBSET Nat, NEW O \in SUBSET Nat,
         InOrder(S, R, Q, O)
  PROVE  /\ S \cap R = {} /\ S \cap Q = {} /\ S \cap O = {}
         /\ R \cap Q = {} /\ R \cap O = {} /\ Q \cap O = {}
<1>1. \A x \in Nat : ~(x < x)
  OBVIOUS
<1> QED BY <1>1 DEF InOrder, Below

\* When only the older part F of the rows reaches the table, the rest is lost.
LEMMA CutShared ==
  ASSUME NEW S \in SUBSET Nat, NEW R \in SUBSET Nat, NEW Q \in SUBSET Nat, NEW O \in SUBSET Nat,
         NEW F, NEW B, NEW L, NEW n,
         R = F \cup B, Below(F, B), InOrder(S, R, Q, O), Shared(S, R, Q, O, L, n)
  PROVE  InOrder(S \cup F, {}, Q, O) /\ Shared(S \cup F, {}, Q, O, L \cup B, n)
<1>1. InOrder(S \cup F, {}, Q, O)
  BY DEF InOrder, Below
<1>2. F \cap B = {}
  <2>1. \A x \in Nat : ~(x < x)
    OBVIOUS
  <2> QED BY <2>1 DEF Below
<1>3. Shared(S \cup F, {}, Q, O, L \cup B, n)
  BY <1>2, Apart DEF Shared
<1> QED BY <1>1, <1>3

LEMMA OwnerInv ==
  IInv /\ SeqTypes' /\ ControlTypes' /\ (Sent \/ Refused) => IInv'
<1> SUFFICES ASSUME IInv, SeqTypes', ControlTypes', Sent \/ Refused PROVE IInv' OBVIOUS
<1> DEFINE S == Range(stored)  R == Range(rows)  Q == Range(queue)  O == Range(outbox)
<1>1. /\ S \in SUBSET Nat /\ R \in SUBSET Nat /\ Q \in SUBSET Nat /\ O \in SUBSET Nat
      /\ InOrder(S, R, Q, O) /\ Shared(S, R, Q, O, lost, submitted) /\ EachIncreases
  BY RangesOfTypes DEF IInv
<1>2. Range(outbox') = {} /\ outbox' = <<>>
  BY EmptyRange DEF Sent, Refused
<1>3. CASE Sent
  <2>1. Range(queue \o outbox) = Q \cup O
    BY TwoRanges DEF IInv, SeqTypes
  <2>2. Increasing(outbox)
    BY SingleRange DEF IInv, SeqTypes
  <2>3. Increasing(queue \o outbox)
    BY <1>1, <2>2, IncreasingConcat DEF IInv, SeqTypes, EachIncreases, InOrder
  <2> HIDE DEF S, R, Q, O
  <2>4. InOrder(S, R, Q \cup O, {}) /\ Shared(S, R, Q \cup O, {}, lost, submitted)
    BY <1>1 DEF InOrder, Below, Shared
  <2> QED BY <1>1, <1>2, <1>3, <2>1, <2>3, <2>4 DEF Sent, IInv, OutboxInv, EachIncreases, S, R
<1>4. CASE Refused
  <2> HIDE DEF S, R, Q, O
  <2>1. InOrder(S, R, Q, {}) /\ Shared(S, R, Q, {}, lost \cup O, submitted)
    BY <1>1, Apart DEF InOrder, Below, Shared
  <2> QED BY <1>1, <1>2, <1>4, <2>1 DEF Refused, IInv, OutboxInv, EachIncreases, S, R, Q, O
<1> QED BY <1>3, <1>4

LEMMA ReceiveInv ==
  IInv /\ SeqTypes' /\ ControlTypes' /\ (Write \/ WriteFails \/ WritePanics) => IInv'
<1> SUFFICES ASSUME IInv, SeqTypes', ControlTypes', Write \/ WriteFails \/ WritePanics PROVE IInv'
  OBVIOUS
<1> DEFINE S == Range(stored)  R == Range(rows)  Q == Range(queue)  O == Range(outbox)
           h == Head(queue)  T == Range(Tail(queue))
<1>1. /\ S \in SUBSET Nat /\ R \in SUBSET Nat /\ Q \in SUBSET Nat /\ O \in SUBSET Nat
      /\ InOrder(S, R, Q, O) /\ Shared(S, R, Q, O, lost, submitted) /\ EachIncreases
  BY RangesOfTypes DEF IInv
<1>2. queue # <<>>
  BY DEF Write, WriteFails, WritePanics
<1>3. h \in Nat /\ Q = {h} \cup T /\ Increasing(Tail(queue)) /\ Below({h}, T)
  <2>1. h \in Nat
    BY <1>2, HeadTailProperties DEF IInv, SeqTypes
  <2> QED BY <1>1, <1>2, <2>1, HeadAndTail DEF IInv, SeqTypes, EachIncreases
<1>4. OutboxInv'
  BY DEF IInv, OutboxInv, Write, WriteFails, WritePanics
<1>5. CASE Write
  <2>1. rows' = Append(rows, h) /\ queue' = Tail(queue)
    BY <1>5 DEF Write, NextEvent, Rest
  <2>2. Below(R, {h})
    BY <1>1, <1>3 DEF InOrder, Below
  <2>3. Range(rows') = R \cup {h} /\ Increasing(rows')
    BY <1>1, <1>3, <2>1, <2>2, AppendOne DEF IInv, SeqTypes, EachIncreases
  <2> HIDE DEF S, R, Q, O, h, T
  <2>4. InOrder(S, R \cup {h}, T, O) /\ Shared(S, R \cup {h}, T, O, lost, submitted)
    BY <1>1, <1>3 DEF InOrder, Below, Shared
  <2> QED BY <1>1, <1>3, <1>4, <1>5, <2>1, <2>3, <2>4 DEF Write, IInv, EachIncreases, S, O, T
<1>6. CASE WriteFails
  <2>1. queue' = Tail(queue) /\ lost' = lost \cup {h} \cup R /\ rows' = <<>>
    BY <1>6 DEF WriteFails, NextEvent, Rest
  <2> HIDE DEF S, R, Q, O, h, T
  <2>2. InOrder(S, {}, T, O)
    BY <1>1, <1>3 DEF InOrder, Below
  <2>3. h \notin T
    BY <1>3 DEF Below
  <2>4. Shared(S, {}, T, O, lost \cup {h} \cup R, submitted)
    BY <1>1, <1>3, <2>3, Apart DEF Shared
  <2> QED BY <1>1, <1>3, <1>4, <1>6, <2>1, <2>2, <2>4, EmptyRange
          DEF WriteFails, IInv, EachIncreases, S, O, T
<1>7. CASE WritePanics
  <2> HIDE DEF S, R, Q, O
  <2>1. InOrder(S, {}, {}, O) /\ Shared(S, {}, {}, O, lost \cup Q \cup R, submitted)
    BY <1>1, Apart DEF InOrder, Below, Shared
  <2> QED BY <1>1, <1>4, <1>7, <2>1, EmptyRange DEF WritePanics, IInv, EachIncreases, S, R, Q, O
<1> QED BY <1>5, <1>6, <1>7

LEMMA StoreInv ==
  IInv /\ SeqTypes' /\ ControlTypes' /\ (Commit \/ CommitFails \/ Done \/ DoneFails) => IInv'
<1> SUFFICES ASSUME IInv, SeqTypes', ControlTypes', Commit \/ CommitFails \/ Done \/ DoneFails
             PROVE  IInv'
  OBVIOUS
<1> DEFINE S == Range(stored)  R == Range(rows)  Q == Range(queue)  O == Range(outbox)
<1>1. /\ S \in SUBSET Nat /\ R \in SUBSET Nat /\ Q \in SUBSET Nat /\ O \in SUBSET Nat
      /\ InOrder(S, R, Q, O) /\ Shared(S, R, Q, O, lost, submitted) /\ EachIncreases
  BY RangesOfTypes DEF IInv
<1>2. OutboxInv' /\ Range(rows') = {} /\ Increasing(rows')
  BY EmptyRange DEF IInv, OutboxInv, Commit, CommitFails, Done, DoneFails, RowsLeft
<1>3. ASSUME NEW s, s = stored \o rows
      PROVE  Range(s) = S \cup R /\ Increasing(s)
  <2>1. Range(stored \o rows) = S \cup R
    BY TwoRanges DEF IInv, SeqTypes
  <2> QED BY <1>1, <1>3, <2>1, IncreasingConcat DEF IInv, SeqTypes, EachIncreases, InOrder
<1>4. ASSUME NEW n \in 0..Len(rows)
      PROVE  LET F == Range(SubSeq(rows, 1, n))  B == Range(SubSeq(rows, n + 1, Len(rows)))
             IN  /\ R = F \cup B /\ Below(F, B)
                 /\ Range(stored \o SubSeq(rows, 1, n)) = S \cup F
                 /\ Increasing(stored \o SubSeq(rows, 1, n))
  <2> DEFINE F == Range(SubSeq(rows, 1, n))  B == Range(SubSeq(rows, n + 1, Len(rows)))
             f == SubSeq(rows, 1, n)
  <2>1. f \in Seq(Nat) /\ R = F \cup B /\ Increasing(f) /\ Below(F, B)
    BY <1>1, CutInTwo DEF IInv, SeqTypes, EachIncreases
  <2>2. Below(S, Range(f)) /\ stored \in Seq(Nat) /\ Increasing(stored)
    BY <1>1, <2>1 DEF InOrder, Below, IInv, SeqTypes, EachIncreases
  <2> HIDE DEF f
  <2>3. Range(stored \o f) = S \cup Range(f)
    BY <2>1, <2>2, TwoRanges
  <2>4. Increasing(stored \o f)
    BY <2>1, <2>2, IncreasingConcat
  <2> QED BY <2>1, <2>3, <2>4 DEF f
<1>5. CASE Commit
  <2>1. Range(stored') = S \cup R /\ Increasing(stored')
    BY <1>3, <1>5 DEF Commit
  <2> HIDE DEF S, R, Q, O
  <2>2. InOrder(S \cup R, {}, Q, O) /\ Shared(S \cup R, {}, Q, O, lost, submitted)
    BY <1>1 DEF InOrder, Below, Shared
  <2> QED BY <1>1, <1>2, <1>5, <2>1, <2>2 DEF Commit, IInv, EachIncreases, Q, O
<1>6. CASE Done
  <2>1. Range(stored') = S \cup R /\ Increasing(stored')
    BY <1>3, <1>6 DEF Done
  <2> HIDE DEF S, R, Q, O
  <2>2. InOrder(S \cup R, {}, {}, O) /\ Shared(S \cup R, {}, {}, O, lost \cup Q, submitted)
    BY <1>1, Apart DEF InOrder, Below, Shared
  <2> QED BY <1>1, <1>2, <1>6, <2>1, <2>2, EmptyRange DEF Done, IInv, EachIncreases, Q, O
<1>7. CASE CommitFails
  <2>1. PICK n \in 0..Len(rows) :
          /\ stored' = stored \o SubSeq(rows, 1, n)
          /\ lost' = lost \cup Range(SubSeq(rows, n + 1, Len(rows)))
    BY <1>7 DEF CommitFails
  <2> DEFINE F == Range(SubSeq(rows, 1, n))  B == Range(SubSeq(rows, n + 1, Len(rows)))
  <2>2. R = F \cup B /\ Below(F, B) /\ Range(stored') = S \cup F /\ Increasing(stored')
    BY <1>4, <2>1
  <2> HIDE DEF S, R, Q, O, F, B
  <2>3. InOrder(S \cup F, {}, Q, O) /\ Shared(S \cup F, {}, Q, O, lost \cup B, submitted)
    BY <1>1, <2>2, CutShared
  <2> QED BY <1>1, <1>2, <1>7, <2>1, <2>2, <2>3 DEF CommitFails, IInv, EachIncreases, Q, O, B
<1>8. CASE DoneFails
  <2>1. PICK n \in 0..Len(rows) :
          /\ stored' = stored \o SubSeq(rows, 1, n)
          /\ lost' = lost \cup Range(queue) \cup Range(SubSeq(rows, n + 1, Len(rows)))
    BY <1>8 DEF DoneFails
  <2> DEFINE F == Range(SubSeq(rows, 1, n))  B == Range(SubSeq(rows, n + 1, Len(rows)))
  <2>2. R = F \cup B /\ Below(F, B) /\ Range(stored') = S \cup F /\ Increasing(stored')
    BY <1>4, <2>1
  <2> HIDE DEF S, R, Q, O, F, B
  <2>3. InOrder(S \cup F, {}, {}, O) /\ Shared(S \cup F, {}, {}, O, lost \cup Q \cup B, submitted)
    <3>1. InOrder(S \cup F, {}, Q, O) /\ Shared(S \cup F, {}, Q, O, lost \cup B, submitted)
      BY <1>1, <2>2, CutShared
    <3>2. Q \cap O = {} /\ S \cap Q = {} /\ R \cap Q = {}
      BY <1>1, Apart
    <3>3. Q \cap (S \cup F) = {}
      BY <2>2, <3>2
    <3>4. InOrder(S \cup F, {}, {}, O)
      BY <3>1 DEF InOrder, Below
    <3>5. Shared(S \cup F, {}, {}, O, lost \cup Q \cup B, submitted)
      BY <3>1, <3>2, <3>3 DEF Shared
    <3> QED BY <3>4, <3>5
  <2> QED BY <1>1, <1>2, <1>8, <2>1, <2>2, <2>3, EmptyRange
          DEF DoneFails, IInv, EachIncreases, Q, O, B
<1> QED BY <1>5, <1>6, <1>7, <1>8

LEMMA InvInductive == IInv /\ [Next]_vars => IInv'
<1> SUFFICES ASSUME IInv, [Next]_vars PROVE IInv' OBVIOUS
<1>1. SeqTypes' /\ ControlTypes'
  BY NextSeqTypes, NextControlTypes DEF IInv
<1>2. ASSUME UNCHANGED <<submitted, outbox, queue, rows, stored, lost>>, OutboxInv' PROVE IInv'
  BY <1>1, <1>2 DEF IInv, EachIncreases
<1>3. CASE End \/ Drop \/ EndReturns \/ ParentCancelled
  <2>1. OutboxInv'
    BY <1>3, Zenon DEF IInv, OutboxInv, End, Drop, EndReturns, ParentCancelled
  <2> QED BY <1>2, <1>3, <2>1 DEF End, Drop, EndReturns, ParentCancelled
<1>4. CASE UNCHANGED vars
  BY <1>2, <1>4 DEF vars, IInv, OutboxInv
<1> QED BY <1>1, <1>3, <1>4, InsertInv, OwnerInv, ReceiveInv, StoreInv DEF Next
-----------------------------------------------------------------------------
(* The theorems. *)

LEMMA InvHolds == Spec => []IInv
<1>1. Init => IInv
  BY InitInv
<1> QED BY <1>1, InvInductive, PTL DEF Spec

LEMMA Narrower ==
  ASSUME NEW s \in Seq(Nat), NEW S, Range(s) \subseteq S PROVE s \in Seq(S)
<1>1. \A i \in 1..Len(s) : s[i] \in S
  BY InRange
<1> QED BY <1>1

\* Every event in a stage, and every one on record as lost, was submitted.
THEOREM TypeCorrect == Spec => []TypeOK
<1>1. IInv => TypeOK
  <2> SUFFICES ASSUME IInv PROVE TypeOK OBVIOUS
  <2>1. /\ Range(stored) \subseteq 1..submitted /\ Range(rows) \subseteq 1..submitted
        /\ Range(queue) \subseteq 1..submitted /\ Range(outbox) \subseteq 1..submitted
        /\ lost \subseteq 1..submitted
    BY DEF IInv, Shared
  <2>2. /\ stored \in Seq(1..submitted) /\ rows \in Seq(1..submitted)
        /\ queue \in Seq(1..submitted) /\ outbox \in Seq(1..submitted)
    BY <2>1, Narrower DEF IInv, SeqTypes
  <2>3. submitted \in 0..MaxEvents /\ Len(outbox) <= 1 /\ Len(queue) <= ChannelCap
    BY EventBatcherAssumption DEF IInv, SeqTypes
  <2> QED BY <2>1, <2>2, <2>3, Zenon DEF IInv, ControlTypes, TypeOK
<1> QED BY <1>1, InvHolds, PTL

\* What the pipeline holds, from the table to the owner's hand.
LEMMA PipelineFacts ==
  ASSUME IInv
  PROVE  /\ Pipeline \in Seq(Nat) /\ Increasing(Pipeline)
         /\ Range(Pipeline) = Range(stored) \cup Range(rows) \cup Range(queue) \cup Range(outbox)
<1>1. /\ stored \in Seq(Nat) /\ rows \in Seq(Nat) /\ queue \in Seq(Nat) /\ outbox \in Seq(Nat)
      /\ Increasing(stored) /\ Increasing(rows) /\ Increasing(queue) /\ Increasing(outbox)
      /\ InOrder(Range(stored), Range(rows), Range(queue), Range(outbox))
  BY SingleRange DEF IInv, SeqTypes, EachIncreases
<1> DEFINE a == stored \o rows  b == a \o queue
<1>2. a \in Seq(Nat) /\ Range(a) = Range(stored) \cup Range(rows) /\ Increasing(a)
  BY <1>1, TwoSeqs, TwoRanges, IncreasingConcat DEF InOrder
<1> HIDE DEF a
<1>3. b \in Seq(Nat) /\ Range(b) = Range(a) \cup Range(queue) /\ Increasing(b)
  <2>1. Below(Range(a), Range(queue))
    BY <1>1, <1>2 DEF InOrder, Below
  <2> QED BY <1>1, <1>2, <2>1, TwoSeqs, TwoRanges, IncreasingConcat
<1> HIDE DEF b
<1>4. /\ b \o outbox \in Seq(Nat) /\ Range(b \o outbox) = Range(b) \cup Range(outbox)
      /\ Increasing(b \o outbox)
  <2>1. Below(Range(b), Range(outbox))
    BY <1>1, <1>2, <1>3 DEF InOrder, Below
  <2> QED BY <1>1, <1>3, <2>1, TwoSeqs, TwoRanges, IncreasingConcat
<1>5. Pipeline = b \o outbox
  BY DEF Pipeline, a, b
<1> QED BY <1>2, <1>3, <1>4, <1>5

\* The events table holds no event twice and none before an older one, whatever
\* fails in write, commit or end and whenever the service stops.
THEOREM StoredAtMostOnceInOrder == Spec => []AtMostOnceInOrder
<1>1. IInv => AtMostOnceInOrder
  BY PipelineFacts DEF AtMostOnceInOrder, Increasing
<1> QED BY <1>1, InvHolds, PTL

\* No event disappears from the channel, the inserter or a failed INSERT without
\* being stored or on record as lost, and no stored event is on that record.
THEOREM EveryEventAccounted == Spec => []Accounted
<1>1. IInv => Accounted
  BY PipelineFacts DEF Accounted, IInv, Shared
<1> QED BY <1>1, InvHolds, PTL

FaultInv == LossNeedsFault /\ (borked => failed)

LEMMA FaultStep == ControlTypes /\ FaultInv /\ [Next]_vars => FaultInv'
<1> SUFFICES ASSUME ControlTypes, FaultInv, [Next]_vars PROVE FaultInv' OBVIOUS
<1> USE DEF FaultInv, LossNeedsFault
<1>1. CASE Insert \/ Sent \/ EndReturns \/ Write \/ UNCHANGED vars
  <2>1. UNCHANGED <<lost, task, failed, cancelled, borked>>
    BY <1>1, Zenon DEF Insert, Sent, EndReturns, Write, vars
  <2> QED BY <2>1, Zenon
<1>2. CASE End \/ Drop \/ ParentCancelled
  <2>1. UNCHANGED <<lost, task, failed, borked>> /\ (cancelled => cancelled')
    BY <1>2, Zenon DEF End, Drop, ParentCancelled, ControlTypes
  <2> QED BY <2>1, Zenon
<1>3. CASE Refused
  BY <1>3, Zenon DEF Refused, ReceiverGone
<1>4. CASE WriteFails \/ CommitFails \/ DoneFails
  <2>1. failed'
    BY <1>4, Zenon DEF WriteFails, CommitFails, DoneFails
  <2> QED BY <2>1, Zenon
<1>5. CASE WritePanics \/ Commit
  BY <1>5, Zenon DEF WritePanics, Commit
<1>6. CASE Done
  BY <1>6, Zenon DEF Done, MayStop
<1> QED BY <1>1, <1>2, <1>3, <1>4, <1>5, <1>6 DEF Next

LEMMA InitFault == Init => FaultInv
  BY Zenon DEF Init, FaultInv, LossNeedsFault

\* What holds of the steps alone, without their fairness: for systems of which
\* the batcher is a part.
LEMMA SafeWithoutFairness ==
  Init /\ [][Next]_vars => [](AtMostOnceInOrder /\ Accounted /\ LossNeedsFault)
<1>1. IInv => AtMostOnceInOrder /\ Accounted /\ ControlTypes
  BY PipelineFacts DEF AtMostOnceInOrder, Increasing, Accounted, IInv, Shared
<1>2. FaultInv => LossNeedsFault
  BY DEF FaultInv
<1> QED BY <1>1, <1>2, InitInv, InvInductive, InitFault, FaultStep, PTL

\* The task loses an event, or stops, only after an error of the inserter or the
\* cancellation of its context.
THEOREM LossOnlyByFault == Spec => []LossNeedsFault
  BY SafeWithoutFairness, PTL DEF Spec

=============================================================================
