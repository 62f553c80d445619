-------------------------- MODULE RisWatcherProofs --------------------------
(***************************************************************************)
(* Theorems about RisWatcher, for every limit of tries, every capacity of  *)
(* the channel and any number of messages, bad frames and reconnects.  A   *)
(* message moves from wire to sending to channel to received, or leaves to *)
(* missed; the invariant says that the four stages are increasing, each    *)
(* after the one it feeds, and that with missed they share out what RIS    *)
(* Live emitted.  Bad frames, the zeros, are on the wire only.             *)
(***************************************************************************)
EXTENDS RisWatcher, SequenceTheorems, TLAPS

-----------------------------------------------------------------------------
(* Sequences of frames, increasing but for the bad ones. *)

Rising(s) == \A i, j \in DOMAIN s : i < j /\ s[j] # 0 => s[i] < s[j]
Before(S, T) == \A x \in S, y \in T : y # 0 => x < y

LEMMA EmptyFrames == <<>> \in Seq(Nat) /\ Len(<<>>) = 0 /\ Range(<<>>) = {} /\ Rising(<<>>)
<1>1. <<>> \in Seq(Nat) /\ Len(<<>>) = 0
  OBVIOUS
<1> QED BY <1>1 DEF Range, Rising

LEMMA OneFrame ==
  ASSUME NEW n \in Nat
  PROVE  <<n>> \in Seq(Nat) /\ Len(<<n>>) = 1 /\ Range(<<n>>) = {n} /\ Rising(<<n>>)
  BY DEF Range, Rising

LEMMA AtMostOneFrame == ASSUME NEW s \in Seq(Nat), Len(s) <= 1 PROVE Rising(s)
  BY DEF Rising

LEMMA Member ==
  ASSUME NEW s \in Seq(Nat)
  PROVE  \A x : x \in Range(s) <=> \E i \in 1..Len(s) : x = s[i]
  BY DEF Range

LEMMA FramesAreNumbers == ASSUME NEW s \in Seq(Nat) PROVE Range(s) \in SUBSET Nat
  BY RangeOfSeq

LEMMA Joined ==
  ASSUME NEW s \in Seq(Nat), NEW t \in Seq(Nat)
  PROVE  /\ s \o t \in Seq(Nat) /\ Len(s \o t) = Len(s) + Len(t)
         /\ Range(s \o t) = Range(s) \cup Range(t)
<1>1. Range(s \o t) = Range(s) \cup Range(t)
  BY RangeConcatenation
<1>2. s \o t \in Seq(Nat) /\ Len(s \o t) = Len(s) + Len(t)
  BY ConcatProperties
<1> QED BY <1>1, <1>2

LEMMA RisingJoined ==
  ASSUME NEW s \in Seq(Nat), NEW t \in Seq(Nat), Rising(s), Rising(t), Before(Range(s), Range(t))
  PROVE  Rising(s \o t)
<1>0. DOMAIN (s \o t) = 1..(Len(s) + Len(t))
  BY ConcatProperties
<1> SUFFICES ASSUME NEW i \in 1..(Len(s) + Len(t)), NEW j \in 1..(Len(s) + Len(t)), i < j,
                    (s \o t)[j] # 0
             PROVE  (s \o t)[i] < (s \o t)[j]
  BY <1>0 DEF Rising
<1>1. CASE j <= Len(s)
  BY <1>1 DEF Rising
<1>2. CASE i > Len(s)
  <2>1. t[j - Len(s)] # 0 => t[i - Len(s)] < t[j - Len(s)]
    BY <1>2 DEF Rising
  <2> QED BY <1>2, <2>1
<1>3. CASE i <= Len(s) /\ j > Len(s)
  <2>1. s[i] \in Range(s) /\ t[j - Len(s)] \in Range(t)
    BY <1>3 DEF Range
  <2> QED BY <1>3, <2>1 DEF Before
<1> QED BY <1>1, <1>2, <1>3

LEMMA Appended ==
  ASSUME NEW s \in Seq(Nat), NEW n \in Nat
  PROVE  /\ Append(s, n) \in Seq(Nat) /\ Len(Append(s, n)) = Len(s) + 1
         /\ Range(Append(s, n)) = Range(s) \cup {n}
         /\ Rising(s) /\ Before(Range(s), {n}) => Rising(Append(s, n))
<1> DEFINE t == <<n>>
<1>1. t \in Seq(Nat) /\ Len(t) = 1 /\ Range(t) = {n} /\ Rising(t)
  BY OneFrame
<1>2. Append(s, n) = s \o t
  BY AppendIsConcat
<1> HIDE DEF t
<1>3. s \o t \in Seq(Nat) /\ Len(s \o t) = Len(s) + 1 /\ Range(s \o t) = Range(s) \cup {n}
  BY <1>1, Joined
<1>4. ASSUME Rising(s), Before(Range(s), {n}) PROVE Rising(s \o t)
  BY <1>1, <1>4, RisingJoined
<1> QED BY <1>2, <1>3, <1>4

LEMMA Beheaded ==
  ASSUME NEW s \in Seq(Nat), s # <<>>
  PROVE  /\ Head(s) \in Nat /\ Tail(s) \in Seq(Nat) /\ Len(Tail(s)) < Len(s)
         /\ Range(s) = {Head(s)} \cup Range(Tail(s))
         /\ Rising(s) => Rising(Tail(s)) /\ Before({Head(s)}, Range(Tail(s)))
<1> DEFINE t == Tail(s)
<1>1. /\ Len(s) \in Nat \ {0} /\ Head(s) = s[1] /\ t \in Seq(Nat)
      /\ Len(t) = Len(s) - 1 /\ \A i \in 1..Len(t) : t[i] = s[1 + i]
  BY HeadTailProperties
<1>2. 1 \in 1..Len(s) /\ Head(s) \in Nat /\ Len(t) < Len(s)
  BY <1>1
<1> HIDE DEF t
<1>3. Range(s) = {Head(s)} \cup Range(t)
  <2>1. ASSUME NEW x \in Range(s) PROVE x \in {Head(s)} \cup Range(t)
    <3>1. PICK i \in 1..Len(s) : x = s[i]
      BY Member
    <3>2. CASE i = 1
      BY <1>1, <3>1, <3>2
    <3>3. CASE i # 1
      <4>1. i - 1 \in 1..Len(t) /\ x = t[i - 1]
        BY <1>1, <3>1, <3>3
      <4> QED BY <1>1, <4>1, Member
    <3> QED BY <3>2, <3>3
  <2>2. ASSUME NEW x \in Range(t) PROVE x \in Range(s)
    <3>1. PICK i \in 1..Len(t) : x = t[i]
      BY <1>1, Member
    <3>2. 1 + i \in 1..Len(s) /\ x = s[1 + i]
      BY <1>1, <3>1
    <3> QED BY <3>2, Member
  <2>3. Head(s) \in Range(s)
    BY <1>1, <1>2, Member
  <2> QED BY <2>1, <2>2, <2>3
<1>4. ASSUME Rising(s) PROVE Rising(t) /\ Before({Head(s)}, Range(t))
  <2>1. ASSUME NEW i \in 1..Len(t), NEW j \in 1..Len(t), i < j, t[j] # 0 PROVE t[i] < t[j]
    <3>1. /\ 1 + i \in 1..Len(s) /\ 1 + j \in 1..Len(s) /\ 1 + i < 1 + j
          /\ t[i] = s[1 + i] /\ t[j] = s[1 + j]
      BY <1>1, <2>1
    <3> QED BY <1>4, <2>1, <3>1 DEF Rising
  <2>2. DOMAIN t = 1..Len(t)
    BY <1>1
  <2>3. ASSUME NEW x \in Range(t), x # 0 PROVE s[1] < x
    <3>1. PICK i \in 1..Len(t) : x = t[i]
      BY <1>1, Member
    <3>2. 1 + i \in 1..Len(s) /\ x = s[1 + i] /\ 1 < 1 + i
      BY <1>1, <3>1
    <3> QED BY <1>2, <1>4, <2>3, <3>2 DEF Rising
  <2> QED BY <1>1, <2>1, <2>2, <2>3 DEF Before, Rising
<1> QED BY <1>1, <1>2, <1>3, <1>4 DEF t

LEMMA Narrower ==
  ASSUME NEW s \in Seq(Nat), NEW S, Range(s) \subseteq S PROVE s \in Seq(S)
<1>1. \A i \in 1..Len(s) : s[i] \in S
  BY Member
<1> QED BY <1>1

-----------------------------------------------------------------------------
(* The types. *)

SeqTypes ==
    /\ emitted \in Nat /\ emitted <= MaxMessages
    /\ wire \in Seq(Nat) /\ Len(wire) <= WireCap
    /\ sending \in Seq(Nat) /\ Len(sending) <= 1
    /\ channel \in Seq(Nat) /\ Len(channel) <= ChannelCap
    /\ received \in Seq(Nat)

ControlTypes ==
    /\ state \in {"loop", "connecting", "open", "sending", "over", "stopped"}
    /\ aged \in BOOLEAN /\ mainGone \in BOOLEAN /\ cancelled \in BOOLEAN /\ external \in BOOLEAN

CountTypes ==
    /\ tries \in 0..MaxTries /\ streak \in 0..(MaxTries + 1) /\ longOnes \in 0..MaxLong

Ends == ConnectFails \/ BadFrame \/ Closed \/ CutOff \/ SendFails

Loop == Attempt \/ LoopEnds \/ GiveUp \/ Again

LEMMA NextSeqTypes == ASSUME SeqTypes, [Next]_vars PROVE SeqTypes'
<1> USE WatcherAssumption DEF SeqTypes
<1>0. <<>> \in Seq(Nat) /\ Len(<<>>) = 0
  OBVIOUS
<1>1. CASE Emit
  <2>1. emitted' \in Nat /\ emitted' <= MaxMessages /\ UNCHANGED <<sending, channel, received>>
    BY <1>1 DEF Emit, env
  <2>2. wire' = wire \/ (Len(wire) < WireCap /\ wire' = Append(wire, emitted'))
    BY <1>1 DEF Emit
  <2>3. \A n \in Nat : Append(wire, n) \in Seq(Nat) /\ Len(Append(wire, n)) = Len(wire) + 1
    BY Appended
  <2>4. wire' \in Seq(Nat) /\ Len(wire') <= WireCap
    <3>1. Len(wire) \in Nat
      OBVIOUS
    <3>2. CASE wire' = wire
      BY <3>2
    <3>3. CASE Len(wire) < WireCap /\ wire' = Append(wire, emitted')
      <4>1. wire' \in Seq(Nat) /\ Len(wire') = Len(wire) + 1
        BY <2>1, <2>3, <3>3, Zenon
      <4> QED BY <3>1, <3>3, <4>1
    <3> QED BY <2>2, <3>2, <3>3
  <2> QED BY <2>1, <2>4
<1>2. CASE EmitBad
  <2>1. UNCHANGED <<emitted, sending, channel, received>>
        /\ Len(wire) < WireCap /\ wire' = Append(wire, 0)
    BY <1>2 DEF EmitBad, env, history
  <2>2. wire' \in Seq(Nat) /\ Len(wire') <= WireCap
    BY <2>1, Appended
  <2> QED BY <2>1, <2>2
<1>3. CASE Receive
  <2>1. UNCHANGED <<emitted, wire, sending>> /\ channel # <<>>
        /\ received' = Append(received, Head(channel)) /\ channel' = Tail(channel)
    BY <1>3 DEF Receive, history
  <2>2. Head(channel) \in Nat /\ Tail(channel) \in Seq(Nat) /\ Len(Tail(channel)) < Len(channel)
    BY <2>1, Beheaded
  <2>3. received' \in Seq(Nat)
    BY <2>1, <2>2, Appended
  <2> QED BY <2>1, <2>2, <2>3
<1>4. CASE MainReturns
  BY <1>0, <1>4 DEF MainReturns
<1>5. CASE Shutdown \/ MinutePasses \/ Connect \/ ConnectFails \/ Loop \/ UNCHANGED vars
  BY <1>5, Zenon DEF Shutdown, MinutePasses, Connect, ConnectFails, Loop, Attempt, LoopEnds,
     GiveUp, Again, Stop,
              vars, env, history
<1>6. CASE BadFrame \/ Closed \/ CutOff \/ SendFails
  <2>1. Hangup
    BY <1>6 DEF BadFrame, Closed, CutOff, SendFails
  <2> QED BY <1>0, <2>1 DEF Hangup, env
<1>7. CASE Frame
  <2>1. UNCHANGED <<emitted, channel, received>> /\ wire # <<>>
        /\ wire' = Tail(wire) /\ sending' = <<Head(wire)>>
    BY <1>7 DEF Frame, RestOfWire, env, history
  <2>2. Head(wire) \in Nat /\ Tail(wire) \in Seq(Nat) /\ Len(Tail(wire)) < Len(wire)
    BY <2>1, Beheaded
  <2>3. sending' \in Seq(Nat) /\ Len(sending') = 1
    BY <2>1, <2>2, OneFrame
  <2> QED BY <2>1, <2>2, <2>3
<1>8. CASE Sent
  <2>1. UNCHANGED <<emitted, wire, received>> /\ Len(channel) < ChannelCap
        /\ channel' = channel \o sending /\ sending' = <<>>
    BY <1>8 DEF Sent, HasRoom, env, history
  <2>2. channel' \in Seq(Nat) /\ Len(channel') = Len(channel) + Len(sending)
    BY <2>1, Joined
  <2> QED BY <1>0, <2>1, <2>2
<1> QED BY <1>1, <1>2, <1>3, <1>4, <1>5, <1>6, <1>7, <1>8 DEF Next, Loop

LEMMA NextControlTypes == ASSUME ControlTypes, [Next]_vars PROVE ControlTypes'
<1> USE DEF ControlTypes
<1>1. CASE Emit \/ EmitBad \/ Receive \/ MainReturns
  BY <1>1, Zenon DEF Emit, EmitBad, Receive, MainReturns, env, history
<1>2. CASE Shutdown \/ MinutePasses \/ Connect \/ ConnectFails
  BY <1>2, Zenon DEF Shutdown, MinutePasses, Connect, ConnectFails, env, history
<1>3. CASE BadFrame \/ Closed \/ CutOff \/ SendFails
  BY <1>3, Zenon DEF BadFrame, Closed, CutOff, SendFails, Hangup, env
<1>4. CASE Frame \/ Sent
  BY <1>4, Zenon DEF Frame, Sent, env, history
<1>5. CASE Loop
  BY <1>5, Zenon DEF Loop, Attempt, LoopEnds, GiveUp, Again, Stop, env
<1>6. CASE UNCHANGED vars
  BY <1>6, Zenon DEF vars, env, history
<1> QED BY <1>1, <1>2, <1>3, <1>4, <1>5, <1>6 DEF Next, Loop

\* Until the task stops, tries counts the short attempts in a row, and whoever
\* cancelled the context was not the task.
StreakInv ==
    /\ state # "stopped" => streak = tries /\ (cancelled => external)
    /\ GivesUpOnlyAfterStreak

LEMMA NextStreak ==
  ASSUME CountTypes, StreakInv, [Next]_vars PROVE CountTypes' /\ StreakInv'
<1> USE WatcherAssumption DEF CountTypes, StreakInv, GivesUpOnlyAfterStreak
<1>1. CASE Emit \/ EmitBad \/ Receive \/ MainReturns
  <2>1. UNCHANGED <<state, tries, streak, longOnes, cancelled, external>>
    BY <1>1 DEF Emit, EmitBad, Receive, MainReturns, history
  <2> QED BY <2>1
<1>2. CASE Shutdown
  BY <1>2 DEF Shutdown
<1>3. CASE MinutePasses
  BY <1>3 DEF MinutePasses
<1>4. CASE Connect \/ Ends \/ Frame \/ Sent
  <2>1. UNCHANGED <<tries, streak, longOnes, cancelled, external>> /\ state # "stopped" /\ state' # "stopped"
    BY <1>4 DEF Connect, Ends, ConnectFails, BadFrame, Closed, CutOff, SendFails, Hangup,
       Frame, Sent, history
  <2> QED BY <2>1
<1>5. CASE Attempt
  BY <1>5 DEF Attempt
<1>6. CASE LoopEnds
  BY <1>6 DEF LoopEnds, Stop
<1>7. CASE GiveUp
  BY <1>7 DEF GiveUp, Stop, TooMany, Streak
<1>8. CASE Again
  BY <1>8 DEF Again, TooMany, Streak, TriesAfterShort, TriesAfterLong
<1>9. CASE UNCHANGED vars
  BY <1>9 DEF vars, history
<1> QED BY <1>1, <1>2, <1>3, <1>4, <1>5, <1>6, <1>7, <1>8, <1>9 DEF Next, Ends

LEMMA InitTypes == Init => SeqTypes /\ ControlTypes /\ CountTypes /\ StreakInv
<1>1. <<>> \in Seq(Nat) /\ Len(<<>>) = 0
  OBVIOUS
<1>2. Init => SeqTypes
  BY <1>1, WatcherAssumption DEF Init, SeqTypes
<1>3. Init => ControlTypes
  BY Zenon DEF Init, ControlTypes
<1>4. Init => CountTypes /\ StreakInv
  BY WatcherAssumption DEF Init, CountTypes, StreakInv, GivesUpOnlyAfterStreak
<1> QED BY <1>2, <1>3, <1>4

\* The task ends the process only after MaxTries + 1 attempts in a row that were
\* short, or after somebody else has cancelled the context.
THEOREM FlakyConnectionsSurvive == Spec => []GivesUpOnlyAfterStreak
<1>1. StreakInv => GivesUpOnlyAfterStreak
  BY DEF StreakInv
<1>2. CountTypes /\ StreakInv /\ [Next]_vars => CountTypes' /\ StreakInv'
  BY NextStreak
<1> QED BY <1>1, <1>2, InitTypes, PTL DEF Spec

-----------------------------------------------------------------------------
(* Messages flow from the wire to the main loop in the order of emission. *)

\* Of the sets of frames at each stage, R nearest to the main loop and W on the
\* wire, the missed messages and the number emitted.
Flow(R, C, S, W, missing, n) ==
    /\ Before(R, C) /\ Before(R, S) /\ Before(R, W)
    /\ Before(C, S) /\ Before(C, W) /\ Before(S, W)
    /\ 0 \notin R \cup C \cup S
    /\ ((R \cup C \cup S \cup W) \ {0}) \cup missing = 1..n
    /\ (R \cup C \cup S \cup W) \cap missing = {}

\* No message is at two stages.
LEMMA FlowApart ==
  ASSUME NEW R \in SUBSET Nat, NEW C \in SUBSET Nat, NEW S \in SUBSET Nat, NEW W \in SUBSET Nat,
         NEW missing, NEW n, Flow(R, C, S, W, missing, n)
  PROVE  /\ R \cap C = {} /\ R \cap S = {} /\ R \cap W = {}
         /\ C \cap S = {} /\ C \cap W = {} /\ S \cap W = {} /\ 0 \notin missing
<1>1. \A x \in Nat : ~(x < x)
  OBVIOUS
<1>2. 0 \notin 1..n
  OBVIOUS
<1>3. ASSUME NEW X \in SUBSET Nat, NEW Y \in SUBSET Nat, Before(X, Y), 0 \notin X
      PROVE  X \cap Y = {}
  BY <1>1, <1>3 DEF Before
<1> QED BY <1>2, <1>3 DEF Flow

\* What RIS Live emits is newer than all it emitted before.
LEMMA FlowEmit ==
  ASSUME NEW R \in SUBSET Nat, NEW C \in SUBSET Nat, NEW S \in SUBSET Nat, NEW W \in SUBSET Nat,
         NEW missing, NEW n \in Nat, Flow(R, C, S, W, missing, n)
  PROVE  /\ Before(W, {n + 1})
         /\ Flow(R, C, S, W \cup {n + 1}, missing, n + 1)
         /\ Flow(R, C, S, W, missing \cup {n + 1}, n + 1)
<1>1. 1..(n + 1) = (1..n) \cup {n + 1} /\ n + 1 \notin 1..n /\ n + 1 # 0 /\ n + 1 \in Nat
      /\ \A x \in 1..n : x < n + 1
  OBVIOUS
<1> DEFINE e == n + 1
<1>2. e \in Nat /\ e # 0 /\ e \notin 1..n /\ 1..e = (1..n) \cup {e} /\ 0 < e
      /\ \A x \in 1..n : x < e
  BY <1>1
<1> HIDE DEF e
<1>3. ASSUME NEW X \in SUBSET (R \cup C \cup S \cup W) PROVE Before(X, {e})
  <2>1. \A x \in X : x = 0 \/ x \in 1..n
    BY DEF Flow
  <2> QED BY <1>2, <2>1 DEF Before
<1>4. Before(R, {e}) /\ Before(C, {e}) /\ Before(S, {e}) /\ Before(W, {e})
  BY <1>3
<1>5. \A x \in R \cup C \cup S \cup W : x # e
  BY <1>2 DEF Flow
<1>6. e \notin missing
  BY <1>2 DEF Flow
<1>7. Flow(R, C, S, W \cup {e}, missing, e)
  <2>1. Before(R, W \cup {e}) /\ Before(C, W \cup {e}) /\ Before(S, W \cup {e})
    BY <1>4 DEF Flow, Before
  <2>2. ((R \cup C \cup S \cup (W \cup {e})) \ {0}) \cup missing = 1..e
    BY <1>2 DEF Flow
  <2>3. (R \cup C \cup S \cup (W \cup {e})) \cap missing = {}
    BY <1>6 DEF Flow
  <2> QED BY <2>1, <2>2, <2>3 DEF Flow
<1>8. Flow(R, C, S, W, missing \cup {e}, e)
  <2>1. ((R \cup C \cup S \cup W) \ {0}) \cup (missing \cup {e}) = 1..e
    BY <1>2 DEF Flow
  <2>2. (R \cup C \cup S \cup W) \cap (missing \cup {e}) = {}
    BY <1>5 DEF Flow
  <2> QED BY <2>1, <2>2 DEF Flow
<1> QED BY <1>4, <1>7, <1>8 DEF e

LEMMA FlowBad ==
  ASSUME NEW R \in SUBSET Nat, NEW C \in SUBSET Nat, NEW S \in SUBSET Nat, NEW W \in SUBSET Nat,
         NEW missing, NEW n, Flow(R, C, S, W, missing, n)
  PROVE  Flow(R, C, S, W \cup {0}, missing, n)
<1>1. 0 \notin missing
  BY FlowApart
<1>2. \A X \in SUBSET Nat : Before(X, W) => Before(X, W \cup {0})
  BY DEF Before
<1> QED BY <1>1, <1>2 DEF Flow

\* A message moves on from the head of a stage to the end of the next.
LEMMA FlowReceive ==
  ASSUME NEW R, NEW C, NEW S, NEW W, NEW missing, NEW n, Flow(R, C, S, W, missing, n),
         NEW h, NEW T, C = {h} \cup T, Before({h}, T)
  PROVE  Flow(R \cup {h}, T, S, W, missing, n)
  BY DEF Flow, Before

LEMMA FlowFrame ==
  ASSUME NEW R, NEW C, NEW W, NEW missing, NEW n, Flow(R, C, {}, W, missing, n),
         NEW h, NEW T, W = {h} \cup T, h # 0, Before({h}, T)
  PROVE  Flow(R, C, {h}, T, missing, n)
  BY DEF Flow, Before

LEMMA FlowSent ==
  ASSUME NEW R, NEW C, NEW S, NEW W, NEW missing, NEW n, Flow(R, C, S, W, missing, n)
  PROVE  Flow(R, C \cup S, {}, W, missing, n)
  BY DEF Flow, Before

\* The channel or the connection goes, with what is in it.
LEMMA FlowReturn ==
  ASSUME NEW R \in SUBSET Nat, NEW C \in SUBSET Nat, NEW S \in SUBSET Nat, NEW W \in SUBSET Nat,
         NEW missing, NEW n, Flow(R, C, S, W, missing, n)
  PROVE  Flow(R, {}, S, W, missing \cup C, n)
<1>1. R \cap C = {} /\ C \cap S = {} /\ C \cap W = {}
  BY FlowApart
<1>2. ((R \cup {} \cup S \cup W) \ {0}) \cup (missing \cup C) = 1..n
  BY DEF Flow
<1>3. (R \cup {} \cup S \cup W) \cap (missing \cup C) = {}
  BY <1>1 DEF Flow
<1> QED BY <1>2, <1>3 DEF Flow, Before

LEMMA FlowHangup ==
  ASSUME NEW R \in SUBSET Nat, NEW C \in SUBSET Nat, NEW S \in SUBSET Nat, NEW W \in SUBSET Nat,
         NEW missing, NEW n, Flow(R, C, S, W, missing, n)
  PROVE  Flow(R, C, {}, {}, missing \cup ((W \cup S) \ {0}), n)
<1>1. R \cap S = {} /\ R \cap W = {} /\ C \cap S = {} /\ C \cap W = {}
  BY FlowApart
<1>2. ((R \cup C \cup {} \cup {}) \ {0}) \cup (missing \cup ((W \cup S) \ {0})) = 1..n
  BY DEF Flow
<1>3. (R \cup C \cup {} \cup {}) \cap (missing \cup ((W \cup S) \ {0})) = {}
  BY <1>1 DEF Flow
<1> QED BY <1>2, <1>3 DEF Flow, Before

StageInv ==
    /\ SeqTypes
    /\ state # "sending" => sending = <<>>
    /\ Rising(received) /\ Rising(channel) /\ Rising(wire)
    /\ Flow(Range(received), Range(channel), Range(sending), Range(wire), missed, emitted)

LEMMA RangeTypes ==
  SeqTypes => /\ Range(received) \in SUBSET Nat /\ Range(channel) \in SUBSET Nat
              /\ Range(sending) \in SUBSET Nat /\ Range(wire) \in SUBSET Nat /\ emitted \in Nat
  BY FramesAreNumbers DEF SeqTypes

LEMMA InitStages == Init => StageInv
<1> SUFFICES ASSUME Init PROVE StageInv
  OBVIOUS
<1>1. 1..0 = {}
  OBVIOUS
<1>2. Flow({}, {}, {}, {}, {}, 0)
  BY <1>1 DEF Flow, Before
<1> QED BY <1>2, InitTypes, EmptyFrames DEF Init, StageInv

\* RIS Live and the main loop.
LEMMA EnvStages ==
  ASSUME StageInv, SeqTypes', Emit \/ EmitBad \/ Receive \/ MainReturns
  PROVE  StageInv'
<1> DEFINE R == Range(received)  C == Range(channel)  S == Range(sending)  W == Range(wire)
<1>1. /\ R \in SUBSET Nat /\ C \in SUBSET Nat /\ S \in SUBSET Nat /\ W \in SUBSET Nat
      /\ emitted \in Nat /\ Flow(R, C, S, W, missed, emitted)
  BY RangeTypes DEF StageInv
<1>2. CASE Emit
  <2>1. UNCHANGED <<state, sending, channel, received>> /\ emitted' = emitted + 1
    BY <1>2 DEF Emit, env
  <2>2. /\ Before(W, {emitted + 1})
        /\ Flow(R, C, S, W \cup {emitted + 1}, missed, emitted + 1)
        /\ Flow(R, C, S, W, missed \cup {emitted + 1}, emitted + 1)
    <3> HIDE DEF R, C, S, W
    <3> QED BY <1>1, FlowEmit
  <2>3. CASE wire' = Append(wire, emitted') /\ missed' = missed
    <3>1. Range(wire') = W \cup {emitted + 1} /\ Rising(wire')
      BY <1>1, <2>1, <2>2, <2>3, Appended DEF StageInv, SeqTypes
    <3> QED BY <2>1, <2>2, <2>3, <3>1 DEF StageInv
  <2>4. CASE wire' = wire /\ missed' = missed \cup {emitted'}
    BY <2>1, <2>2, <2>4 DEF StageInv
  <2> QED BY <1>2, <2>3, <2>4 DEF Emit
<1>3. CASE EmitBad
  <2>1. UNCHANGED <<state, sending, channel, received, missed, emitted>> /\ wire' = Append(wire, 0)
    BY <1>3 DEF EmitBad, env, history
  <2>2. Flow(R, C, S, W \cup {0}, missed, emitted)
    <3> HIDE DEF R, C, S, W
    <3> QED BY <1>1, FlowBad
  <2>3. Range(wire') = W \cup {0} /\ Rising(wire')
    <3>1. Before(W, {0})
      BY DEF Before
    <3> QED BY <2>1, <3>1, Appended DEF StageInv, SeqTypes
  <2> QED BY <2>1, <2>2, <2>3 DEF StageInv
<1>4. CASE Receive
  <2> DEFINE h == Head(channel)  T == Range(Tail(channel))
  <2>1. /\ UNCHANGED <<state, sending, wire, missed, emitted>> /\ channel # <<>>
        /\ received' = Append(received, h) /\ channel' = Tail(channel)
    BY <1>4 DEF Receive, history
  <2>2. h \in Nat /\ C = {h} \cup T /\ Rising(channel') /\ Before({h}, T)
    BY <2>1, Beheaded DEF StageInv, SeqTypes
  <2>3. Flow(R \cup {h}, T, S, W, missed, emitted)
    <3> HIDE DEF R, C, S, W, h, T
    <3> QED BY <1>1, <2>2, FlowReceive
  <2>4. Before(R, {h})
    BY <1>1, <2>2 DEF Flow, Before
  <2>5. Range(received') = R \cup {h} /\ Rising(received')
    BY <2>1, <2>2, <2>4, Appended DEF StageInv, SeqTypes
  <2> QED BY <2>1, <2>2, <2>3, <2>5 DEF StageInv
<1>5. CASE MainReturns
  <2>1. /\ UNCHANGED <<state, sending, wire, received, emitted>> /\ channel' = <<>>
        /\ missed' = missed \cup C
    BY <1>5 DEF MainReturns
  <2>2. Flow(R, {}, S, W, missed \cup C, emitted)
    <3> HIDE DEF R, C, S, W
    <3> QED BY <1>1, FlowReturn
  <2> QED BY <2>1, <2>2, EmptyFrames DEF StageInv
<1> QED BY <1>2, <1>3, <1>4, <1>5

\* watch_messages.
LEMMA WatchStages ==
  ASSUME StageInv, SeqTypes', Frame \/ Sent \/ Hangup
  PROVE  StageInv'
<1> DEFINE R == Range(received)  C == Range(channel)  S == Range(sending)  W == Range(wire)
<1>1. /\ R \in SUBSET Nat /\ C \in SUBSET Nat /\ S \in SUBSET Nat /\ W \in SUBSET Nat
      /\ emitted \in Nat /\ Flow(R, C, S, W, missed, emitted)
  BY RangeTypes DEF StageInv
<1>2. CASE Frame
  <2> DEFINE h == Head(wire)  T == Range(Tail(wire))
  <2>1. /\ UNCHANGED <<channel, received, missed, emitted>> /\ wire # <<>> /\ h # 0
        /\ wire' = Tail(wire) /\ sending' = <<h>> /\ state' = "sending" /\ sending = <<>>
    BY <1>2 DEF Frame, RestOfWire, env, history, StageInv
  <2>2. h \in Nat /\ W = {h} \cup T /\ Rising(wire') /\ Before({h}, T)
    BY <2>1, Beheaded DEF StageInv, SeqTypes
  <2>3. S = {} /\ Range(sending') = {h}
    BY <2>1, <2>2, EmptyFrames, OneFrame
  <2>4. Flow(R, C, {h}, T, missed, emitted)
    <3> HIDE DEF R, C, S, W, h, T
    <3> QED BY <1>1, <2>1, <2>2, <2>3, FlowFrame
  <2> QED BY <2>1, <2>2, <2>3, <2>4 DEF StageInv
<1>3. CASE Sent
  <2>1. /\ UNCHANGED <<wire, received, missed, emitted>>
        /\ channel' = channel \o sending /\ sending' = <<>>
    BY <1>3 DEF Sent, env, history
  <2>2. Flow(R, C \cup S, {}, W, missed, emitted)
    <3> HIDE DEF R, C, S, W
    <3> QED BY <1>1, FlowSent
  <2>3. Range(channel') = C \cup S
    BY <2>1, Joined DEF StageInv, SeqTypes
  <2>4. Rising(channel')
    <3>1. Rising(sending) /\ Before(C, S)
      BY <1>1, AtMostOneFrame DEF StageInv, SeqTypes, Flow
    <3> QED BY <2>1, <3>1, RisingJoined DEF StageInv, SeqTypes
  <2> QED BY <2>1, <2>2, <2>3, <2>4, EmptyFrames DEF StageInv
<1>4. CASE Hangup
  <2>1. /\ UNCHANGED <<channel, received, emitted>> /\ wire' = <<>> /\ sending' = <<>>
        /\ missed' = missed \cup ((W \cup S) \ {0})
    BY <1>4 DEF Hangup, env
  <2>2. Flow(R, C, {}, {}, missed \cup ((W \cup S) \ {0}), emitted)
    <3> HIDE DEF R, C, S, W
    <3> QED BY <1>1, FlowHangup
  <2> QED BY <2>1, <2>2, EmptyFrames DEF StageInv
<1> QED BY <1>2, <1>3, <1>4

LEMMA NextStages == ASSUME StageInv, [Next]_vars PROVE StageInv'
<1>1. SeqTypes'
  BY NextSeqTypes DEF StageInv
<1>2. CASE BadFrame \/ Closed \/ CutOff \/ SendFails
  <2>1. Hangup
    BY <1>2 DEF BadFrame, Closed, CutOff, SendFails
  <2> QED BY <1>1, <2>1, WatchStages
<1>3. CASE Shutdown \/ MinutePasses \/ Connect \/ ConnectFails \/ Loop \/ UNCHANGED vars
  <2>1. /\ UNCHANGED <<received, channel, sending, wire, missed, emitted>>
        /\ (state' = state \/ state # "sending")
    BY <1>3 DEF Shutdown, MinutePasses, Connect, ConnectFails, Loop, Attempt, LoopEnds, GiveUp,
                Again, Stop, vars, env, history
  <2> QED BY <1>1, <2>1 DEF StageInv
<1> QED BY <1>1, <1>2, <1>3, EnvStages, WatchStages DEF Next, Loop

LEMMA StagesHold == Spec => []StageInv
  BY InitStages, NextStages, PTL DEF Spec

\* The four stages put together.
LEMMA PipelineFacts ==
  ASSUME StageInv
  PROVE  LET pipeline == received \o channel \o sending \o wire
         IN  /\ pipeline \in Seq(Nat) /\ Rising(pipeline)
             /\ Range(pipeline) = Range(received) \cup Range(channel) \cup Range(sending) \cup Range(wire)
<1>1. /\ received \in Seq(Nat) /\ channel \in Seq(Nat) /\ sending \in Seq(Nat) /\ wire \in Seq(Nat)
      /\ Rising(received) /\ Rising(channel) /\ Rising(sending) /\ Rising(wire)
      /\ Flow(Range(received), Range(channel), Range(sending), Range(wire), missed, emitted)
  BY AtMostOneFrame DEF StageInv, SeqTypes
<1> DEFINE a == received \o channel  b == a \o sending
<1>2. a \in Seq(Nat) /\ Range(a) = Range(received) \cup Range(channel) /\ Rising(a)
  BY <1>1, Joined, RisingJoined DEF Flow
<1> HIDE DEF a
<1>3. b \in Seq(Nat) /\ Range(b) = Range(a) \cup Range(sending) /\ Rising(b)
  <2>1. Before(Range(a), Range(sending))
    BY <1>1, <1>2 DEF Flow, Before
  <2> QED BY <1>1, <1>2, <2>1, Joined, RisingJoined
<1> HIDE DEF b
<1>4. b \o wire \in Seq(Nat) /\ Range(b \o wire) = Range(b) \cup Range(wire) /\ Rising(b \o wire)
  <2>1. Before(Range(b), Range(wire))
    BY <1>1, <1>2, <1>3 DEF Flow, Before
  <2> QED BY <1>1, <1>3, <2>1, Joined, RisingJoined
<1> QED BY <1>2, <1>3, <1>4 DEF a, b

\* The main loop sees the messages in the order of their emission and none
\* twice, across reconnects; none disappears but what is on record as missed.
THEOREM MessagesInOrder == Spec => []DeliveredInOrder
<1>1. StageInv => DeliveredInOrder
  <2> SUFFICES ASSUME StageInv PROVE DeliveredInOrder
    OBVIOUS
  <2> DEFINE pipeline == received \o channel \o sending \o wire
             messages == Range(pipeline) \ {0}
  <2>1. /\ Rising(pipeline)
        /\ Range(pipeline) = Range(received) \cup Range(channel) \cup Range(sending) \cup Range(wire)
    BY PipelineFacts
  <2> HIDE DEF pipeline
  <2>2. messages \cup missed = 1..emitted /\ messages \cap missed = {}
    BY <2>1 DEF StageInv, Flow
  <2> QED BY <2>1, <2>2 DEF DeliveredInOrder, pipeline, Rising
<1> QED BY <1>1, StagesHold, PTL

\* The variables keep their types: frames at each stage are of messages emitted.
THEOREM TypeCorrect == Spec => []TypeOK
<1>1. StageInv /\ ControlTypes /\ CountTypes => TypeOK
  <2> SUFFICES ASSUME StageInv, ControlTypes, CountTypes PROVE TypeOK
    OBVIOUS
  <2>1. /\ Range(received) \subseteq 1..emitted /\ Range(channel) \subseteq 1..emitted
        /\ Range(sending) \subseteq 1..emitted /\ Range(wire) \subseteq 0..emitted
        /\ missed \subseteq 1..emitted
    <3>1. 0..emitted = {0} \cup (1..emitted)
      BY DEF StageInv, SeqTypes
    <3> QED BY <3>1 DEF StageInv, Flow
  <2>2. /\ received \in Seq(1..emitted) /\ channel \in Seq(1..emitted)
        /\ sending \in Seq(1..emitted) /\ wire \in Seq(0..emitted)
    BY <2>1, Narrower DEF StageInv, SeqTypes
  <2>3. emitted \in 0..MaxMessages /\ Len(wire) <= WireCap /\ Len(sending) <= 1 /\ Len(channel) <= ChannelCap
    BY WatcherAssumption DEF StageInv, SeqTypes
  <2> QED BY <2>1, <2>2, <2>3, Zenon DEF ControlTypes, CountTypes, TypeOK
<1>2. CountTypes /\ StreakInv /\ [Next]_vars => CountTypes' /\ StreakInv'
  BY NextStreak
<1> QED BY <1>1, <1>2, InitTypes, NextControlTypes, StagesHold, PTL DEF Spec

=============================================================================
