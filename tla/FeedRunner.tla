------------------------------ MODULE FeedRunner ------------------------------
(***************************************************************************)
(* run_feed and single_session (src/src/ws/runner.rs): one task that       *)
(* connects, subscribes, forwards what it parses to a bounded channel and  *)
(* reconnects with backoff until it is told to stop, the receiver is gone  *)
(* or its retry budget is spent.                                           *)
(*                                                                         *)
(* Time advances in ticks.  A timer fires in the tick it is due, as the    *)
(* runtime's timers do up to scheduling delay; work without a timer of its *)
(* own (a blocked tx.send, the Close frame) takes any number of ticks.     *)
(* The server is the environment: it may refuse, stall, accept, stay       *)
(* silent, send frames or hang up at any moment.                           *)
(*                                                                         *)
(* shutdown is a tokio watch: requested is its value and unseen says that  *)
(* this receiver has not yet looked at the last send.                      *)
(***************************************************************************)
EXTENDS Integers, Sequences

CONSTANTS
  MaxAttempts,     \* max_reconnect_attempts, or Forever (u32::MAX)
  BaseDelay,       \* reconnect_delay_secs
  MaxDelay,        \* max_reconnect_delay_secs
  Stable,          \* STABLE_SESSION_SECS
  ConnectTimeout,  \* connect_timeout_secs
  IdleTimeout,     \* idle_timeout_secs, 0 disables it
  PingInterval,    \* ping_interval_secs
  SubscribeTime,   \* what auth, throttling and subscribing take at most
  Capacity,        \* of the DataMessage channel
  MaxBatch,        \* bound on the messages parsed from one frame
  MaxSignals,      \* bound on the sends on the shutdown watch
  Forever

ASSUME BudgetAssumption  == MaxAttempts \in Nat \cup {Forever} /\ Forever \notin Nat
ASSUME DelayAssumption   == BaseDelay \in Nat /\ MaxDelay \in Nat
ASSUME StableAssumption  == Stable \in Nat
ASSUME TimerAssumption   == ConnectTimeout \in Nat /\ SubscribeTime \in Nat /\ PingInterval \in Nat \ {0}
ASSUME IdleAssumption    == IdleTimeout \in Nat
ASSUME ChannelAssumption == Capacity \in Nat \ {0} /\ MaxBatch \in Nat
ASSUME SignalAssumption  == MaxSignals \in Nat

VARIABLES
  phase,      \* where run_feed stands
  result,     \* what it returned
  attempts,   \* the reconnect attempt counter
  timer,      \* ticks until the timer of this phase is due
  age,        \* ticks since session_start of the last session
  silence,    \* ticks since last_frame_at
  heard,      \* the last session received a frame
  left,       \* parsed messages still to be sent on tx
  backlog,    \* messages in the channel
  listening,  \* the channel's receiver exists
  requested,  \* the value of the shutdown watch
  unseen,     \* the watch changed since this receiver looked
  signals     \* sends on the watch so far

sessionVars == <<age, silence, heard, left>>
channelVars == <<backlog, listening>>
signalVars  == <<requested, unseen, signals>>
vars == <<phase, result, attempts, timer, sessionVars, channelVars, signalVars>>

-----------------------------------------------------------------------------

Least(a, b) == IF a <= b THEN a ELSE b

Doublings == <<1, 2, 4, 8, 16>>

\* The backoff before the session that follows n failures in a row, n > 0.
Delay(n) == Least(BaseDelay * Doublings[Least(n - 1, 4) + 1], MaxDelay)

\* Ages beyond this are not told apart, nor is silence beyond IdleTimeout.
AgeCap == Stable + MaxDelay

\* Mutant of CountFailure: failures do not add up.
CountOne == 1

\* attempts + 1.  Without a budget the counter only selects the delay, which
\* no longer grows after the fifth failure.
CountFailure == IF MaxAttempts = Forever THEN Least(attempts + 1, 5) ELSE attempts + 1

\* Mutant of Exhausted: one attempt too few.
ExhaustedEarly(n) == MaxAttempts # Forever /\ n >= MaxAttempts

Exhausted(n) == MaxAttempts # Forever /\ n > MaxAttempts

Init ==
  /\ phase = "starting"
  /\ result = "none"
  /\ attempts = 0
  /\ timer = 0
  /\ age = AgeCap
  /\ silence = 0
  /\ heard = FALSE
  /\ left = 0
  /\ backlog = 0
  /\ listening = TRUE
  /\ requested = FALSE
  /\ unseen = FALSE
  /\ signals = 0

-----------------------------------------------------------------------------
(* run_feed *)

StartSession ==
  /\ phase' = "connecting"
  /\ timer' = ConnectTimeout
  /\ age' = 0
  /\ silence' = 0
  /\ heard' = FALSE
  /\ left' = 0
  /\ UNCHANGED <<result, attempts, channelVars, signalVars>>

\* The first session, and the one after a stable session: no backoff.
Start == phase = "starting" /\ StartSession

\* Mutant of BackoffElapses: the sleep is skipped.
BackoffSkipped == phase = "backoff" /\ StartSession

\* tokio::time::sleep(delay) has elapsed; it does not watch shutdown.
BackoffElapses == phase = "backoff" /\ timer = 0 /\ StartSession

\* Mutant of WasStable: any session that got as far as receiving counts.
WasSubscribed == phase = "receiving"

\* uptime_secs >= STABLE_SESSION_SECS
WasStable == age >= Stable

\* SessionOutcome::Disconnected: reset the counter, back off, or give up.
Disconnected ==
  /\ \/ /\ WasStable
        /\ attempts' = 0
        /\ phase' = "starting"
        /\ timer' = 0
        /\ UNCHANGED result
     \/ /\ ~ WasStable
        /\ attempts' = CountFailure
        /\ \/ /\ Exhausted(attempts')
              /\ phase' = "returned"
              /\ result' = "disconnected"
              /\ timer' = 0
           \/ /\ ~ Exhausted(attempts')
              /\ phase' = "backoff"
              /\ timer' = Delay(attempts')
              /\ UNCHANGED result
  /\ left' = 0
  /\ UNCHANGED <<age, silence, heard, channelVars, signalVars>>

Returns(r) ==
  /\ phase' = "returned"
  /\ result' = r
  /\ timer' = 0
  /\ left' = 0
  /\ UNCHANGED <<attempts, age, silence, heard, channelVars, signalVars>>

-----------------------------------------------------------------------------
(* single_session *)

Connected ==
  /\ phase = "connecting"
  /\ phase' = "subscribing"
  /\ timer' = SubscribeTime
  /\ UNCHANGED <<result, attempts, sessionVars, channelVars, signalVars>>

ConnectFails == phase = "connecting" /\ Disconnected

ConnectTimesOut == phase = "connecting" /\ timer = 0 /\ Disconnected

\* The auth frame and the subscriptions are out; last_frame_at and the ping
\* interval start now.
Subscribed ==
  /\ phase = "subscribing"
  /\ phase' = "receiving"
  /\ timer' = PingInterval
  /\ silence' = 0
  /\ UNCHANGED <<result, attempts, age, heard, left, channelVars, signalVars>>

SubscribeFails == phase = "subscribing" /\ Disconnected

\* Mutant of ObserveShutdown: the test of the value is inverted.
ObserveShutdownInverted ==
  /\ phase = "receiving"
  /\ unseen
  /\ unseen' = FALSE
  /\ phase' = IF requested THEN phase ELSE "closing"
  /\ UNCHANGED <<result, attempts, timer, sessionVars, channelVars, requested, signals>>

\* The select! is biased: while a send on the watch is unseen no other branch
\* runs.  A send of false is looked at and ignored.
ObserveShutdown ==
  /\ phase = "receiving"
  /\ unseen
  /\ unseen' = FALSE
  /\ phase' = IF requested THEN "closing" ELSE phase
  /\ UNCHANGED <<result, attempts, timer, sessionVars, channelVars, requested, signals>>

\* The Close frame went out, or failed.
Closed == phase = "closing" /\ Returns("shutdown")

\* A frame is read.  It parses into n messages; control frames, frames that do
\* not parse and replies (response_for, Pong) have n = 0.
FrameArrives ==
  /\ phase = "receiving"
  /\ ~ unseen
  /\ silence' = 0
  /\ heard' = TRUE
  /\ \E n \in 0 .. MaxBatch :
       /\ left' = n
       /\ phase' = IF n > 0 THEN "forwarding" ELSE phase
  /\ UNCHANGED <<result, attempts, timer, age, channelVars, signalVars>>

\* Mutant of Forward: the bound of the channel is ignored.
ForwardUnbounded ==
  /\ phase = "forwarding"
  /\ listening
  /\ backlog' = backlog + 1
  /\ left' = left - 1
  /\ phase' = IF left = 1 THEN "receiving" ELSE phase
  /\ UNCHANGED <<result, attempts, timer, age, silence, heard, listening, signalVars>>

\* tx.send(msg).await: waits for room, outside the select!.
Forward ==
  /\ phase = "forwarding"
  /\ listening
  /\ backlog < Capacity
  /\ backlog' = backlog + 1
  /\ left' = left - 1
  /\ phase' = IF left = 1 THEN "receiving" ELSE phase
  /\ UNCHANGED <<result, attempts, timer, age, silence, heard, listening, signalVars>>

ReceiverGone == phase = "forwarding" /\ ~ listening /\ Returns("receiver_dropped")

\* A Close frame, a read error, the end of the stream, or a reply or ping that
\* could not be written.
SessionLost == phase = "receiving" /\ ~ unseen /\ Disconnected

IsIdle == IdleTimeout > 0 /\ silence >= IdleTimeout

\* The idle check rides on the ping timer.
PingTick ==
  /\ phase = "receiving"
  /\ ~ unseen
  /\ timer = 0
  /\ \/ IsIdle /\ Disconnected
     \/ /\ ~ IsIdle
        /\ timer' = PingInterval
        /\ UNCHANGED <<phase, result, attempts, sessionVars, channelVars, signalVars>>

-----------------------------------------------------------------------------
(* The environment *)

\* watch::Sender::send.  A request to stop is not taken back.
Signal(v) ==
  /\ signals < MaxSignals
  /\ requested => v
  /\ requested' = v
  /\ unseen' = TRUE
  /\ signals' = signals + 1
  /\ UNCHANGED <<phase, result, attempts, timer, sessionVars, channelVars>>

Consume ==
  /\ listening
  /\ backlog > 0
  /\ backlog' = backlog - 1
  /\ UNCHANGED <<phase, result, attempts, timer, sessionVars, listening, signalVars>>

DropReceiver ==
  /\ listening
  /\ listening' = FALSE
  /\ backlog' = 0
  /\ UNCHANGED <<phase, result, attempts, timer, sessionVars, signalVars>>

\* Something of this task is due now.
IsDue ==
  \/ phase \in {"starting", "returned"}
  \/ phase \in {"backoff", "connecting", "subscribing", "receiving"} /\ timer = 0
  \/ phase = "receiving" /\ unseen

Tick ==
  /\ ~ IsDue
  /\ timer' = IF timer = 0 THEN 0 ELSE timer - 1
  /\ age' = Least(age + 1, AgeCap)
  /\ silence' = Least(silence + 1, IdleTimeout)
  /\ UNCHANGED <<phase, result, attempts, heard, left, channelVars, signalVars>>

-----------------------------------------------------------------------------

SessionStep ==
  \/ Connected \/ ConnectFails \/ ConnectTimesOut
  \/ Subscribed \/ SubscribeFails
  \/ ObserveShutdown \/ Closed
  \/ FrameArrives \/ Forward \/ ReceiverGone
  \/ SessionLost \/ PingTick

RunnerStep == Start \/ BackoffElapses \/ SessionStep

ConsumerStep == Consume \/ DropReceiver

Next ==
  \/ RunnerStep
  \/ ConsumerStep
  \/ \E v \in BOOLEAN : Signal(v)
  \/ Tick

Spec == Init /\ [][Next]_vars

\* What the runtime owes: time passes (a server cannot send for ever within one
\* tick), due timers fire, ready steps run.  The server owes nothing.
RunnerFairness ==
  /\ SF_vars(Tick)
  /\ WF_vars(Start \/ BackoffElapses \/ ConnectTimesOut \/ PingTick)
  /\ WF_vars(phase = "subscribing" /\ timer = 0 /\ (Subscribed \/ SubscribeFails))
  /\ WF_vars(ObserveShutdown \/ Closed)
  /\ WF_vars(Forward \/ ReceiverGone)

\* A consumer keeps reading, or drops the receiver.
ConsumerFairness == WF_vars(ConsumerStep)

FairSpec == Spec /\ RunnerFairness /\ ConsumerFairness

-----------------------------------------------------------------------------
(* Properties *)

Phases == {"starting", "backoff", "connecting", "subscribing", "receiving",
           "forwarding", "closing", "returned"}

TypeOK ==
  /\ phase \in Phases
  /\ result \in {"none", "shutdown", "receiver_dropped", "disconnected"}
  /\ attempts \in Nat
  /\ timer \in Nat
  /\ age \in 0 .. AgeCap
  /\ silence \in 0 .. IdleTimeout
  /\ heard \in BOOLEAN
  /\ left \in 0 .. MaxBatch
  /\ backlog \in 0 .. Capacity
  /\ listening \in BOOLEAN
  /\ requested \in BOOLEAN
  /\ unseen \in BOOLEAN
  /\ signals \in 0 .. MaxSignals

\* No reconnect storm: two connects are at least the backoff of the failures
\* so far apart, or, when the counter was reset and there is no backoff, the
\* length of a stable session.
ConnectsArePaced ==
  [][phase # "connecting" /\ phase' = "connecting" =>
       age >= IF attempts = 0 THEN Stable ELSE Delay(attempts)]_vars

\* run_feed gives up only with its whole budget spent, and a feed that is
\* still trying has not spent it: a reset never resurrects a spent budget and
\* no path counts one failure twice.
GivesUpExactlyAtBudget ==
  MaxAttempts # Forever =>
    /\ result = "disconnected" => attempts = MaxAttempts + 1
    /\ result # "disconnected" => attempts <= MaxAttempts

\* The inductive invariant: a backoff makes up what the last session's age
\* lacks, and a start without backoff follows a stable session.
BackoffCompletesDelay ==
  /\ phase = "backoff" => attempts > 0 /\ age + timer >= Delay(attempts)
  /\ phase = "starting" => attempts = 0 /\ age >= Stable
  /\ phase = "forwarding" => left > 0
  /\ phase # "forwarding" => left = 0

ReturnedHasResult == (phase = "returned") <=> (result # "none")

IInv == TypeOK /\ BackoffCompletesDelay /\ ReturnedHasResult /\ GivesUpExactlyAtBudget

\* A request to shut down ends run_feed, whatever the server does.
ShutdownReturns == requested ~> phase = "returned"

IsStable == phase \in {"receiving", "forwarding"} /\ age >= Stable

\* A feed that never again has a stable session does not spin unnoticed: it
\* returns, so that a supervisor can renew the token.
CascadeSurfaces == []<>IsStable \/ <>(phase = "returned")

\* WsRunnerConfig::ping_interval_secs: "How often to send an application-level
\* KuCoin ping (seconds)".  A ping that is due is sent, or the session ends.
DuePingIsSent == (phase = "receiving" /\ timer = 0) ~> (timer > 0 \/ phase = "returned")

\* run_feed's doc: the counter is reset when "a session ran successfully for
\* at least STABLE_SESSION_SECS".  A session in which the server never sent a
\* frame did not.
OnlySuccessResets == [][attempts > 0 /\ attempts' = 0 => heard]_vars
=============================================================================
