----------------------------- MODULE RisWatcher -----------------------------
(***************************************************************************)
(* The task of ingest that follows RIS Live: the reconnect loop            *)
(* (crates/ingest/src/service.rs:37-78) around watch_messages              *)
(* (crates/ingest/src/ripe_ris/live.rs), which reads a WebSocket and sends *)
(* each message over a bounded channel to the main loop.  RIS Live and the *)
(* main loop are the environment.                                          *)
(*                                                                         *)
(* Messages are numbered in the order in which RIS Live emits them.  Time  *)
(* is abstracted to whether a minute has passed since last_try.            *)
(***************************************************************************)
EXTENDS Naturals, Sequences, Functions

CONSTANTS MaxTries,    \* the value of tries at which the next short attempt is the last
          ChannelCap,  \* capacity of the channel to the main loop
          WireCap,     \* bound on the frames on their way from RIS Live
          MaxMessages, \* bound on the messages RIS Live emits
          MaxLong      \* bound on the attempts that last a minute

ASSUME WatcherAssumption ==
    /\ MaxTries \in Nat /\ ChannelCap \in Nat \ {0} /\ WireCap \in Nat \ {0}
    /\ MaxMessages \in Nat /\ MaxLong \in Nat

VARIABLES
    state,     \* of the task: "loop" (at its head), "connecting", "open" (at
               \* next), "sending" (at tx.send), "over" (watch_messages has
               \* returned), "stopped"
    tries,     \* tries
    aged,      \* last_try.elapsed() is a minute or more
    wire,      \* the frames RIS Live sent and the task has not read; 0 is one
               \* that process_message returns an error for
    sending,   \* the message at tx.send, a sequence of at most one
    channel,   \* the channel to the main loop
    mainGone,  \* the main loop has dropped the receiver
    cancelled, \* ctx is cancelled
    received,  \* history: the messages the main loop received
    emitted,   \* history: the number of messages RIS Live emitted
    missed,    \* history: messages that will never be received
    streak,    \* history: the attempts in a row that ended within a minute
    longOnes,  \* history: the number of attempts that lasted a minute
    external   \* history: the context was cancelled by somebody else

env == <<mainGone, received>>
history == <<emitted, missed, streak, longOnes, external>>
vars == <<state, tries, aged, wire, sending, channel, cancelled, env, history>>

Init ==
    /\ state = "loop" /\ tries = 0 /\ aged = FALSE
    /\ wire = <<>> /\ sending = <<>> /\ channel = <<>>
    /\ mainGone = FALSE /\ cancelled = FALSE
    /\ received = <<>> /\ emitted = 0 /\ missed = {}
    /\ streak = 0 /\ longOnes = 0 /\ external = FALSE

-----------------------------------------------------------------------------
(* The environment. *)

Connected == state \in {"open", "sending"}

\* RIS Live emits a message; it reaches us over a connection that has room.
Emit ==
    /\ emitted < MaxMessages
    /\ emitted' = emitted + 1
    /\ \/ Connected /\ Len(wire) < WireCap /\ wire' = Append(wire, emitted') /\ missed' = missed
       \/ ~Connected /\ wire' = wire /\ missed' = missed \cup {emitted'}
    /\ UNCHANGED <<state, tries, aged, sending, channel, cancelled, env, streak, longOnes,
                   external>>

\* A frame that is neither text, ping nor close, or text serde_json refuses.
EmitBad ==
    /\ Connected /\ Len(wire) < WireCap
    /\ wire' = Append(wire, 0)
    /\ UNCHANGED <<state, tries, aged, sending, channel, cancelled, env, history>>

\* The main loop takes a message.
Receive ==
    /\ ~mainGone /\ channel # <<>>
    /\ received' = Append(received, Head(channel)) /\ channel' = Tail(channel)
    /\ UNCHANGED <<state, tries, aged, wire, sending, mainGone, cancelled, history>>

\* After a cancellation the main loop returns and drops the channel.
MainReturns ==
    /\ cancelled /\ ~mainGone
    /\ mainGone' = TRUE /\ channel' = <<>>
    /\ missed' = missed \cup Range(channel)
    /\ UNCHANGED <<state, tries, aged, wire, sending, cancelled, received, emitted, streak,
                   longOnes, external>>

\* A signal, or another service, shuts the process down.
Shutdown ==
    /\ ~cancelled /\ cancelled' = TRUE /\ external' = TRUE
    /\ UNCHANGED <<state, tries, aged, wire, sending, channel, env, emitted, missed, streak,
                   longOnes>>

\* A minute has passed since last_try.
MinutePasses ==
    /\ state \in {"connecting", "open", "sending"} /\ ~aged /\ longOnes < MaxLong
    /\ aged' = TRUE /\ longOnes' = longOnes + 1
    /\ UNCHANGED <<state, tries, wire, sending, channel, cancelled, env, emitted, missed,
                   streak, external>>

-----------------------------------------------------------------------------
(* watch_messages. *)

\* connect_async and the subscription succeed ...
Connect ==
    /\ state = "connecting"
    /\ state' = "open"
    /\ UNCHANGED <<tries, aged, wire, sending, channel, cancelled, env, emitted, missed, streak,
                   longOnes, external>>

\* ... or fail, with the error logged by the loop.
ConnectFails ==
    /\ state = "connecting"
    /\ state' = "over"
    /\ UNCHANGED <<tries, aged, wire, sending, channel, cancelled, env, history>>

\* The connection is closed: what is on the wire or at tx.send is gone.
Hangup == /\ state' = "over"
          /\ missed' = missed \cup ((Range(wire) \cup Range(sending)) \ {0})
          /\ wire' = <<>> /\ sending' = <<>>
          /\ UNCHANGED <<tries, aged, channel, cancelled, env, emitted, streak, longOnes,
                         external>>

RestOfWireKept == wire
RestOfWire == Tail(wire)

\* process_message of a text frame parses it and sends it on.
Frame ==
    /\ state = "open" /\ wire # <<>> /\ Head(wire) # 0
    /\ state' = "sending" /\ sending' = <<Head(wire)>> /\ wire' = RestOfWire
    /\ UNCHANGED <<tries, aged, channel, cancelled, env, history>>

\* process_message returns an error, and the connection is closed with it.
BadFrame == state = "open" /\ wire # <<>> /\ Head(wire) = 0 /\ Hangup

\* The peer closes or the transport fails, with any part of the wire unread.
Closed == state = "open" /\ Hangup

\* next().with_context(&ctx) is cut off by the cancellation.
CutOff == state = "open" /\ cancelled /\ Hangup

HasRoomAlways == TRUE
HasRoom == Len(channel) < ChannelCap

\* tx.send completes once the channel has room, or fails without a receiver.
Sent ==
    /\ state = "sending" /\ ~mainGone /\ HasRoom
    /\ channel' = channel \o sending /\ sending' = <<>>
    /\ state' = "open"
    /\ UNCHANGED <<tries, aged, wire, cancelled, env, history>>

NoReceiverIgnored == FALSE
NoReceiver == mainGone
SendFails == state = "sending" /\ NoReceiver /\ Hangup

-----------------------------------------------------------------------------
(* The reconnect loop. *)

\* while !ctx.is_done()
Attempt ==
    /\ state = "loop" /\ ~cancelled
    /\ state' = "connecting"
    /\ UNCHANGED <<tries, aged, wire, sending, channel, cancelled, env, emitted, missed, streak,
                   longOnes, external>>

\* Both ways out of the loop cancel the global context.
Stop == /\ state' = "stopped" /\ cancelled' = TRUE
        /\ UNCHANGED <<tries, wire, sending, channel, env, emitted, missed, longOnes,
                       external>>

LoopEnds == state = "loop" /\ cancelled /\ Stop /\ UNCHANGED <<aged, streak>>

TooMany == tries >= MaxTries

\* The number of short attempts in a row; the history stops counting there.
Streak == IF streak > MaxTries THEN streak ELSE streak + 1

GiveUp ==
    /\ state = "over" /\ ~aged /\ TooMany
    /\ Stop /\ streak' = Streak /\ UNCHANGED aged

TriesAfterShortKept == tries
TriesAfterShort == tries + 1
TriesAfterLongKept == tries
TriesAfterLong == 0

\* A short attempt is counted, a long one resets the count.
Again ==
    /\ state = "over"
    /\ \/ ~aged /\ ~TooMany /\ tries' = TriesAfterShort /\ streak' = Streak
       \/ aged /\ tries' = TriesAfterLong /\ streak' = 0
    /\ aged' = FALSE /\ state' = "loop"
    /\ UNCHANGED <<wire, sending, channel, cancelled, env, emitted, missed, longOnes, external>>

-----------------------------------------------------------------------------
Next ==
    \/ Emit \/ EmitBad \/ Receive \/ MainReturns \/ Shutdown \/ MinutePasses
    \/ Connect \/ ConnectFails \/ Frame \/ BadFrame \/ Closed \/ CutOff \/ Sent \/ SendFails
    \/ Attempt \/ LoopEnds \/ GiveUp \/ Again

\* The task is polled, a connection attempt returns one way or the other, and
\* the main loop goes on receiving and returns after a cancellation.  Nothing is
\* assumed of RIS Live, of the connection or of the duration of an attempt.
Fairness ==
    /\ WF_vars(Connect \/ ConnectFails) /\ WF_vars(Frame \/ BadFrame)
    /\ WF_vars(CutOff) /\ WF_vars(Sent \/ SendFails)
    /\ WF_vars(Attempt) /\ WF_vars(LoopEnds) /\ WF_vars(GiveUp \/ Again)
    /\ WF_vars(Receive) /\ WF_vars(MainReturns)

Spec == Init /\ [][Next]_vars /\ Fairness

-----------------------------------------------------------------------------
(* Properties. *)

TypeOK ==
    /\ state \in {"loop", "connecting", "open", "sending", "over", "stopped"}
    /\ tries \in 0..MaxTries /\ aged \in BOOLEAN
    /\ wire \in Seq(0..emitted) /\ Len(wire) <= WireCap
    /\ sending \in Seq(1..emitted) /\ Len(sending) <= 1
    /\ channel \in Seq(1..emitted) /\ Len(channel) <= ChannelCap
    /\ received \in Seq(1..emitted) /\ emitted \in 0..MaxMessages
    /\ missed \in SUBSET (1..emitted)
    /\ mainGone \in BOOLEAN /\ cancelled \in BOOLEAN
    /\ external \in BOOLEAN
    /\ streak \in 0..(MaxTries + 1) /\ longOnes \in 0..MaxLong

\* The main loop sees the messages in the order of their emission and none
\* twice, across any number of reconnects, and every message is on its way,
\* received or on record as missed, never two of them.
DeliveredInOrder ==
    LET pipeline == received \o channel \o sending \o wire
        messages == Range(pipeline) \ {0}
    IN  /\ \A i, j \in DOMAIN pipeline : i < j /\ pipeline[j] # 0 => pipeline[i] < pipeline[j]
        /\ messages \cup missed = 1..emitted
        /\ messages \cap missed = {}

\* The process is not terminated by a flaky connection: the task cancels the
\* global context only after MaxTries + 1 attempts in a row that were short.
GivesUpOnlyAfterStreak ==
    state = "stopped" => external \/ streak = MaxTries + 1

\* Once the process shuts down the task ends, also out of a full channel.
ShutdownStops == cancelled ~> state = "stopped"

\* A RIS Live that cannot be reached any more, with attempts that fail within a
\* minute, terminates the process.
UnreachableTerminates ==
    <>[](~Connected /\ ~aged) => <>(state = "stopped")
=============================================================================
