------------------------- MODULE SupervisedFeed_proofs -------------------------
(* Proofs about FeedRunner and about SupervisedFeed, which runs it: for every     *)
(* budget, delay, timeout, channel capacity and number of signals that the        *)
(* assumptions allow, and for every budget of refresh cycles and refresh delay.   *)
EXTENDS SupervisedFeed, TLAPS

--------------------------------------------------------------------------------
(* The runner on its own.                                                         *)

ConstantFacts ==
  /\ MaxAttempts \in Nat \cup {Forever} /\ Forever \notin Nat
  /\ BaseDelay \in Nat /\ MaxDelay \in Nat /\ Stable \in Nat
  /\ ConnectTimeout \in Nat /\ SubscribeTime \in Nat /\ PingInterval \in Nat \ {0}
  /\ IdleTimeout \in Nat /\ Capacity \in Nat \ {0} /\ MaxBatch \in Nat /\ MaxSignals \in Nat

LEMMA Constants == ConstantFacts
  BY BudgetAssumption, DelayAssumption, StableAssumption, TimerAssumption,
     IdleAssumption, ChannelAssumption, SignalAssumption DEF ConstantFacts

\* A backoff is a natural number that never exceeds max_reconnect_delay_secs.
LEMMA DelayIsBounded ==
  ASSUME NEW n \in Nat \ {0}
  PROVE  Delay(n) \in Nat /\ Delay(n) <= MaxDelay
<1> DEFINE d == Doublings[Least(n - 1, 4) + 1]
<1>1. Least(n - 1, 4) + 1 \in 1 .. 5
  BY DEF Least
<1>2. d = 1 \/ d = 2 \/ d = 4 \/ d = 8 \/ d = 16
  BY <1>1 DEF Doublings
<1>3. BaseDelay * d \in Nat
  BY <1>2, DelayAssumption
<1>4. QED
  BY <1>3, DelayAssumption DEF Delay, Least

\* The counter grows by one, or stays at the last backoff of an unbounded feed.
LEMMA CountFailureIsPositive ==
  ASSUME attempts \in Nat
  PROVE  /\ CountFailure \in Nat \ {0}
         /\ MaxAttempts # Forever => CountFailure = attempts + 1
  BY DEF CountFailure, Least

\* Whatever ends a session, the counter, the phase and the timer that follow
\* fit together.
LEMMA DisconnectedKeepsIInv ==
  ASSUME ConstantFacts, IInv, Disconnected, phase # "returned"
  PROVE  IInv'
<1>1. CASE age >= Stable
  <2>1. attempts' = 0 /\ phase' = "starting" /\ timer' = 0 /\ result' = result
    BY <1>1 DEF Disconnected, WasStable, IInv, TypeOK, ConstantFacts, AgeCap
  <2>2. QED
    BY <1>1, <2>1 DEF Disconnected, WasStable, IInv, TypeOK, Phases, ConstantFacts, AgeCap, channelVars,
      signalVars, BackoffCompletesDelay, ReturnedHasResult, GivesUpExactlyAtBudget
<1>2. CASE age < Stable
  <2>1. attempts' = CountFailure /\ attempts' \in Nat \ {0}
    BY <1>2, CountFailureIsPositive DEF Disconnected, WasStable, IInv, TypeOK, ConstantFacts, AgeCap
  <2>2. MaxAttempts # Forever => attempts' = attempts + 1
    BY <2>1, CountFailureIsPositive DEF IInv, TypeOK
  <2>3. Delay(attempts') \in Nat /\ Delay(attempts') <= MaxDelay
    BY <2>1, DelayIsBounded
  <2>4. CASE Exhausted(attempts')
    <3>1. phase' = "returned" /\ result' = "disconnected" /\ timer' = 0
      BY <1>2, <2>4 DEF Disconnected, WasStable, IInv, TypeOK, ConstantFacts, AgeCap
    <3>2. attempts' = MaxAttempts + 1
      BY <2>2, <2>4 DEF Exhausted, IInv, TypeOK, GivesUpExactlyAtBudget, ReturnedHasResult,
        ConstantFacts
    <3>3. QED
      BY <2>1, <3>1, <3>2 DEF Disconnected, WasStable, IInv, TypeOK, Phases, ConstantFacts, AgeCap,
        channelVars, signalVars, BackoffCompletesDelay, ReturnedHasResult, GivesUpExactlyAtBudget
  <2>5. CASE ~ Exhausted(attempts')
    <3>1. phase' = "backoff" /\ timer' = Delay(attempts') /\ result' = result
      BY <1>2, <2>5 DEF Disconnected, WasStable, IInv, TypeOK, ConstantFacts, AgeCap
    <3>2. age' \in Nat /\ age' + timer' >= Delay(attempts')
      BY <2>3, <3>1 DEF Disconnected, WasStable, IInv, TypeOK, ConstantFacts, AgeCap
    <3>3. MaxAttempts # Forever => attempts' <= MaxAttempts
      BY <2>1, <2>5 DEF Exhausted, ConstantFacts
    <3>4. QED
      BY <2>1, <2>3, <3>1, <3>2, <3>3 DEF Disconnected, WasStable, IInv, TypeOK, Phases, ConstantFacts,
        AgeCap, channelVars, signalVars, BackoffCompletesDelay, ReturnedHasResult,
        GivesUpExactlyAtBudget
  <2>6. QED
    BY <2>4, <2>5
<1>3. QED
  BY <1>1, <1>2 DEF IInv, TypeOK, ConstantFacts, AgeCap

LEMMA StartSessionKeepsIInv ==
  ASSUME ConstantFacts, IInv, StartSession, phase # "returned"
  PROVE  IInv'
<1>1. heard' \in BOOLEAN /\ listening' \in BOOLEAN /\ requested' \in BOOLEAN /\ unseen' \in BOOLEAN
  BY Zenon DEF StartSession, IInv, TypeOK, channelVars, signalVars
<1>2. TypeOK'
  BY <1>1 DEF StartSession, IInv, TypeOK, Phases, ConstantFacts, AgeCap, channelVars, signalVars
<1>3. BackoffCompletesDelay'
  BY DEF StartSession, BackoffCompletesDelay
<1>4. ReturnedHasResult' /\ GivesUpExactlyAtBudget'
  BY DEF StartSession, IInv, ReturnedHasResult, GivesUpExactlyAtBudget
<1>5. QED
  BY <1>2, <1>3, <1>4 DEF IInv

LEMMA ReturnsKeepsIInv ==
  ASSUME ConstantFacts, IInv, NEW r \in {"shutdown", "receiver_dropped"}, Returns(r),
         phase # "returned"
  PROVE  IInv'
  BY DEF Returns, IInv, TypeOK, Phases, ConstantFacts, AgeCap, channelVars, signalVars,
    BackoffCompletesDelay, ReturnedHasResult, GivesUpExactlyAtBudget

\* Time passing moves a tick from the backoff's timer to the session's age.
LEMMA TickKeepsIInv ==
  ASSUME ConstantFacts, IInv, Tick
  PROVE  IInv'
<1>1. phase = "backoff" => Delay(attempts) \in Nat /\ Delay(attempts) <= MaxDelay
  BY DelayIsBounded DEF IInv, TypeOK, BackoffCompletesDelay
<1>2. TypeOK'
  BY DEF Tick, Least, IInv, TypeOK, ConstantFacts, AgeCap, channelVars, signalVars
<1>3. phase = "backoff" => age' + timer' >= Delay(attempts)
  <2>1. SUFFICES ASSUME phase = "backoff" PROVE age' + timer' >= Delay(attempts)
    OBVIOUS
  <2>2. timer \in Nat \ {0} /\ timer' = timer - 1
    BY <2>1 DEF Tick, IsDue, IInv, TypeOK
  <2>3. age \in Nat /\ age + timer >= Delay(attempts)
    BY <2>1 DEF IInv, TypeOK, BackoffCompletesDelay, AgeCap, ConstantFacts
  <2>4. age' = age + 1 \/ age' = Stable + MaxDelay
    BY DEF Tick, Least, AgeCap
  <2>5. QED
    BY <1>1, <2>1, <2>2, <2>3, <2>4 DEF ConstantFacts
<1>4. QED
  BY <1>2, <1>3 DEF Tick, IsDue, IInv, BackoffCompletesDelay, ReturnedHasResult,
    GivesUpExactlyAtBudget, channelVars, signalVars, Delay, Least

-----------------------------------------------------------------------------

LEMMA InitIInv == Init => IInv
<1> SUFFICES ASSUME Init PROVE IInv
  OBVIOUS
<1>1. AgeCap \in Nat /\ AgeCap >= Stable
  BY Constants DEF ConstantFacts, AgeCap
<1>2. heard \in BOOLEAN /\ listening \in BOOLEAN /\ requested \in BOOLEAN /\ unseen \in BOOLEAN
  BY Zenon DEF Init
<1>3. TypeOK
  BY <1>1, <1>2, Constants DEF ConstantFacts, Init, TypeOK, Phases
<1>4. BackoffCompletesDelay
  BY <1>1 DEF Init, BackoffCompletesDelay
<1>5. ReturnedHasResult /\ GivesUpExactlyAtBudget
  BY Constants DEF ConstantFacts, Init, ReturnedHasResult, GivesUpExactlyAtBudget
<1>6. QED
  BY <1>3, <1>4, <1>5 DEF IInv

LEMMA StepIInv == IInv /\ [Next]_vars => IInv'
<1> SUFFICES ASSUME IInv, [Next]_vars PROVE IInv'
  OBVIOUS
<1> USE Constants
<1>1. CASE Start \/ BackoffElapses
  BY <1>1, StartSessionKeepsIInv DEF Start, BackoffElapses
<1>2. CASE ConnectFails \/ ConnectTimesOut \/ SubscribeFails \/ SessionLost
  BY <1>2, DisconnectedKeepsIInv DEF ConnectFails, ConnectTimesOut, SubscribeFails, SessionLost
<1>3. CASE Closed \/ ReceiverGone
  BY <1>3, ReturnsKeepsIInv DEF Closed, ReceiverGone
<1>4. CASE Connected \/ Subscribed
  BY <1>4 DEF Connected, Subscribed, IInv, TypeOK, Phases, ConstantFacts, AgeCap, sessionVars,
    channelVars, signalVars, BackoffCompletesDelay, ReturnedHasResult, GivesUpExactlyAtBudget
<1>5. CASE ObserveShutdown
  BY <1>5 DEF ObserveShutdown, IInv, TypeOK, Phases, ConstantFacts, AgeCap, sessionVars,
    channelVars, signalVars, BackoffCompletesDelay, ReturnedHasResult, GivesUpExactlyAtBudget
<1>6. CASE FrameArrives
  BY <1>6 DEF FrameArrives, IInv, TypeOK, Phases, ConstantFacts, AgeCap, sessionVars,
    channelVars, signalVars, BackoffCompletesDelay, ReturnedHasResult, GivesUpExactlyAtBudget
<1>7. CASE Forward
  BY <1>7 DEF Forward, IInv, TypeOK, Phases, ConstantFacts, AgeCap, sessionVars,
    channelVars, signalVars, BackoffCompletesDelay, ReturnedHasResult, GivesUpExactlyAtBudget
<1>8. CASE PingTick
  <2>1. CASE Disconnected
    BY <1>8, <2>1, DisconnectedKeepsIInv DEF PingTick
  <2>2. CASE ~ Disconnected
    BY <1>8, <2>2 DEF PingTick, IInv, TypeOK, Phases, ConstantFacts, AgeCap, sessionVars,
      channelVars, signalVars, BackoffCompletesDelay, ReturnedHasResult, GivesUpExactlyAtBudget
  <2>3. QED
    BY <2>1, <2>2
<1>9. CASE ConsumerStep
  <2>1. listening' \in BOOLEAN
    BY <1>9, Zenon DEF ConsumerStep, Consume, DropReceiver, IInv, TypeOK
  <2>2. backlog' \in 0 .. Capacity
    BY <1>9 DEF ConsumerStep, Consume, DropReceiver, IInv, TypeOK, ConstantFacts
  <2>3. TypeOK'
    BY <1>9, <2>1, <2>2 DEF ConsumerStep, Consume, DropReceiver, IInv, TypeOK, ConstantFacts,
      sessionVars, signalVars
  <2>4. BackoffCompletesDelay' /\ ReturnedHasResult' /\ GivesUpExactlyAtBudget'
    BY <1>9 DEF ConsumerStep, Consume, DropReceiver, IInv, BackoffCompletesDelay,
      ReturnedHasResult, GivesUpExactlyAtBudget, sessionVars, Delay, Least
  <2>5. QED
    BY <2>3, <2>4 DEF IInv
<1>10. CASE \E v \in BOOLEAN : Signal(v)
  BY <1>10 DEF Signal, IInv, TypeOK, Phases, ConstantFacts, AgeCap, sessionVars, channelVars,
    signalVars, BackoffCompletesDelay, ReturnedHasResult, GivesUpExactlyAtBudget, Delay, Least
<1>11. CASE Tick
  BY <1>11, TickKeepsIInv
<1>12. CASE UNCHANGED vars
  BY <1>12 DEF vars, sessionVars, channelVars, signalVars, IInv, TypeOK, BackoffCompletesDelay,
    ReturnedHasResult, GivesUpExactlyAtBudget, Delay, Least
<1>13. QED
  BY <1>1, <1>2, <1>3, <1>4, <1>5, <1>6, <1>7, <1>8, <1>9, <1>10, <1>11, <1>12
     DEF Next, RunnerStep, SessionStep

\* IInv is an invariant of the feed.
THEOREM InductiveInvariant == Spec => []IInv
  BY InitIInv, StepIInv, PTL DEF Spec

\* Type correctness.
THEOREM TypeCorrect == Spec => []TypeOK
<1>1. IInv => TypeOK
  BY DEF IInv
<1>2. QED
  BY <1>1, InductiveInvariant, PTL

\* run_feed gives up exactly when its retry budget is spent, for every budget.
THEOREM BudgetIsExact == Spec => []GivesUpExactlyAtBudget
<1>1. IInv => GivesUpExactlyAtBudget
  BY DEF IInv
<1>2. QED
  BY <1>1, InductiveInvariant, PTL

\* No reconnect storm, for every choice of delays, timeouts and budget.
THEOREM NoReconnectStorm == Spec => ConnectsArePaced
<1> DEFINE Paced == phase # "connecting" /\ phase' = "connecting" =>
                      age >= IF attempts = 0 THEN Stable ELSE Delay(attempts)
<1>1. IInv /\ [Next]_vars => [Paced]_vars
  <2> SUFFICES ASSUME IInv, Next, phase # "connecting", phase' = "connecting"
               PROVE  age >= IF attempts = 0 THEN Stable ELSE Delay(attempts)
    OBVIOUS
  <2>1. Start \/ BackoffElapses
    BY DEF Next, RunnerStep, SessionStep, Connected, ConnectFails, ConnectTimesOut, Subscribed,
      SubscribeFails, ObserveShutdown, Closed, FrameArrives, Forward, ReceiverGone, SessionLost,
      PingTick, Disconnected, Returns, ConsumerStep, Consume, DropReceiver, Signal, Tick
  <2>2. CASE Start
    BY <2>2 DEF Start, IInv, BackoffCompletesDelay
  <2>3. CASE BackoffElapses
    <3>1. attempts # 0 /\ age + 0 >= Delay(attempts)
      BY <2>3 DEF BackoffElapses, IInv, BackoffCompletesDelay
    <3>2. age \in Nat
      BY Constants DEF IInv, TypeOK, AgeCap, ConstantFacts
    <3>3. QED
      BY <3>1, <3>2
  <2>4. QED
    BY <2>1, <2>2, <2>3
<1>2. QED
  BY <1>1, InductiveInvariant, PTL DEF Spec, ConnectsArePaced

--------------------------------------------------------------------------------
(* The supervisor.  The runner's own invariant is not reused: a refresh starts it *)
(* anew whatever age its last session had, so of IInv only the parts below        *)
(* survive.                                                                       *)

\* The runner's part: types, and what a stop says about its cause.
RunnerInv ==
  /\ TypeOK
  /\ phase = "forwarding" => left > 0
  /\ phase # "forwarding" => left = 0
  /\ phase = "closing" => requested
  /\ result = "shutdown" => requested
  /\ result = "receiver_dropped" => ~ listening
  /\ requested => signals > 0

\* The inductive invariant.
SupervisorInv ==
  /\ RunnerInv
  /\ SupervisedTypeOK
  /\ StopsOnlyWhenAsked

LEMMA DisconnectedKeepsRunnerInv ==
  ASSUME RunnerInv, Disconnected
  PROVE  RunnerInv'
<1>1. CountFailure \in Nat \ {0}
  BY CountFailureIsPositive DEF RunnerInv, TypeOK
<1>2. Delay(CountFailure) \in Nat
  BY <1>1, DelayIsBounded
<1>3. attempts' \in Nat /\ timer' \in Nat /\ phase' \in {"starting", "returned", "backoff"}
  BY <1>1, <1>2 DEF Disconnected
<1>4. result' = result \/ result' = "disconnected"
  BY DEF Disconnected
<1>5. UNCHANGED <<age, silence, heard, backlog, listening, requested, unseen, signals>> /\ left' = 0
  BY DEF Disconnected, channelVars, signalVars
<1>6. TypeOK'
  BY Constants, <1>3, <1>4, <1>5 DEF ConstantFacts, RunnerInv, TypeOK, Phases
<1>7. QED
  BY <1>3, <1>4, <1>5, <1>6 DEF RunnerInv

LEMMA StartSessionKeepsRunnerInv ==
  ASSUME RunnerInv, StartSession
  PROVE  RunnerInv'
<1>0. heard' \in BOOLEAN /\ listening' \in BOOLEAN /\ requested' \in BOOLEAN /\ unseen' \in BOOLEAN
  BY Zenon DEF StartSession, RunnerInv, TypeOK, channelVars, signalVars
<1>1. TypeOK'
  BY Constants, <1>0 DEF ConstantFacts, StartSession, RunnerInv, TypeOK, Phases, AgeCap,
    channelVars, signalVars
<1>2. QED
  BY <1>1 DEF RunnerInv, StartSession, channelVars, signalVars

LEMMA ReturnsKeepsRunnerInv ==
  ASSUME RunnerInv, NEW r \in {"shutdown", "receiver_dropped"}, Returns(r),
         r = "shutdown" => requested, r = "receiver_dropped" => ~ listening
  PROVE  RunnerInv'
<1>1. TypeOK'
  BY Constants DEF ConstantFacts, Returns, RunnerInv, TypeOK, Phases, AgeCap, channelVars,
    signalVars
<1>2. QED
  BY <1>1 DEF RunnerInv, Returns, channelVars, signalVars

\* Reading a frame leaves its messages to be forwarded.
LEMMA FrameKeepsRunnerInv ==
  ASSUME RunnerInv, FrameArrives
  PROVE  RunnerInv'
<1>1. PICK n \in 0 .. MaxBatch : left' = n /\ phase' = IF n > 0 THEN "forwarding" ELSE phase
  BY DEF FrameArrives
<1>2. phase = "receiving"
  BY DEF FrameArrives
<1>3. TypeOK'
  BY Constants, <1>1, <1>2 DEF ConstantFacts, FrameArrives, RunnerInv, TypeOK, Phases, AgeCap,
    channelVars, signalVars
<1>4. QED
  BY Constants, <1>1, <1>2, <1>3 DEF ConstantFacts, RunnerInv, FrameArrives, channelVars, signalVars

LEMMA ForwardKeepsRunnerInv ==
  ASSUME RunnerInv, Forward
  PROVE  RunnerInv'
<1>1. left \in 1 .. MaxBatch
  BY Constants DEF ConstantFacts, RunnerInv, TypeOK, Forward
<1>2. TypeOK'
  BY Constants, <1>1 DEF ConstantFacts, Forward, RunnerInv, TypeOK, Phases, AgeCap, channelVars,
    signalVars
<1>3. QED
  BY Constants, <1>1, <1>2 DEF ConstantFacts, RunnerInv, Forward, channelVars, signalVars

\* The steps of the runner, of its consumer and of the shutdown's sender.
LEMMA RunnerKeepsRunnerInv ==
  ASSUME RunnerInv, Next
  PROVE  RunnerInv'
<1>1. CASE Start \/ BackoffElapses
  BY <1>1, StartSessionKeepsRunnerInv DEF Start, BackoffElapses
<1>2. CASE ConnectFails \/ ConnectTimesOut \/ SubscribeFails \/ SessionLost
  BY <1>2, DisconnectedKeepsRunnerInv DEF ConnectFails, ConnectTimesOut, SubscribeFails, SessionLost
<1>3. CASE Closed
  BY <1>3, ReturnsKeepsRunnerInv DEF Closed, RunnerInv
<1>4. CASE ReceiverGone
  BY <1>4, ReturnsKeepsRunnerInv DEF ReceiverGone
<1>5. CASE Connected \/ Subscribed
  <2>1. TypeOK'
    BY Constants, <1>5 DEF ConstantFacts, Connected, Subscribed, RunnerInv, TypeOK, Phases, AgeCap,
      sessionVars, channelVars, signalVars
  <2>2. QED
    BY <1>5, <2>1 DEF RunnerInv, Connected, Subscribed, sessionVars, channelVars, signalVars
<1>6. CASE ObserveShutdown
  <2>1. TypeOK'
    BY Constants, <1>6 DEF ConstantFacts, ObserveShutdown, RunnerInv, TypeOK, Phases, AgeCap,
      sessionVars, channelVars
  <2>2. QED
    BY <1>6, <2>1 DEF RunnerInv, ObserveShutdown, sessionVars, channelVars
<1>7. CASE FrameArrives
  BY <1>7, FrameKeepsRunnerInv
<1>8. CASE Forward
  BY <1>8, ForwardKeepsRunnerInv
<1>9. CASE PingTick
  <2>1. CASE Disconnected
    BY <2>1, DisconnectedKeepsRunnerInv
  <2>2. CASE ~ Disconnected
    <3>1. timer' = PingInterval
          /\ UNCHANGED <<phase, result, attempts, sessionVars, channelVars, signalVars>>
      BY <1>9, <2>2 DEF PingTick
    <3>2. QED
      BY Constants, <3>1 DEF ConstantFacts, RunnerInv, TypeOK, sessionVars, channelVars, signalVars
  <2>3. QED
    BY <2>1, <2>2
<1>10. CASE ConsumerStep
  <2>1. backlog' \in 0 .. Capacity
    BY Constants, <1>10 DEF ConstantFacts, ConsumerStep, Consume, DropReceiver, RunnerInv, TypeOK
  <2>2. listening' \in BOOLEAN /\ (listening' => listening)
    BY <1>10, Zenon DEF ConsumerStep, Consume, DropReceiver, RunnerInv, TypeOK
  <2>3. UNCHANGED <<phase, result, attempts, timer, sessionVars, signalVars>>
    BY <1>10 DEF ConsumerStep, Consume, DropReceiver
  <2>4. TypeOK'
    BY <2>1, <2>2, <2>3 DEF RunnerInv, TypeOK, sessionVars, signalVars
  <2>5. QED
    BY <2>2, <2>3, <2>4 DEF RunnerInv, sessionVars, signalVars
<1>11. CASE \E v \in BOOLEAN : Signal(v)
  <2>1. PICK v \in BOOLEAN : Signal(v)
    BY <1>11
  <2>2. signals' \in 1 .. MaxSignals
    BY Constants, <2>1 DEF ConstantFacts, Signal, RunnerInv, TypeOK
  <2>3. requested' \in BOOLEAN /\ unseen' \in BOOLEAN /\ (requested => requested')
    BY <2>1, Zenon DEF Signal
  <2>4. UNCHANGED <<phase, result, attempts, timer, sessionVars, channelVars>>
    BY <2>1 DEF Signal
  <2>5. TypeOK'
    BY Constants, <2>2, <2>3, <2>4 DEF ConstantFacts, RunnerInv, TypeOK, sessionVars, channelVars
  <2>6. QED
    BY Constants, <2>2, <2>3, <2>4, <2>5 DEF ConstantFacts, RunnerInv, sessionVars, channelVars
<1>12. CASE Tick
  <2>1. TypeOK'
    BY Constants, <1>12 DEF ConstantFacts, Tick, Least, RunnerInv, TypeOK, AgeCap, channelVars,
      signalVars
  <2>2. QED
    BY <1>12, <2>1 DEF RunnerInv, Tick, channelVars, signalVars
<1>13. QED
  BY <1>1, <1>2, <1>3, <1>4, <1>5, <1>6, <1>7, <1>8, <1>9, <1>10, <1>11, <1>12
     DEF Next, RunnerStep, SessionStep

--------------------------------------------------------------------------------

LEMMA InitSupervisorInv == SupervisedInit => SupervisorInv
<1> SUFFICES ASSUME SupervisedInit PROVE SupervisorInv
  OBVIOUS
<1>1. IInv
  BY InitIInv DEF SupervisedInit
<1>2. RunnerInv
  BY <1>1 DEF IInv, RunnerInv, SupervisedInit, Init
<1>3. QED
  BY <1>2, RefreshDelayAssumption DEF SupervisorInv, RunnerInv, SupervisedTypeOK,
    StopsOnlyWhenAsked, SupervisedInit

\* Calling run_feed again keeps what the consumer and the shutdown's sender did.
LEMMA CallKeepsRunnerInv ==
  ASSUME RunnerInv, CallRunFeed
  PROVE  RunnerInv'
<1>1. TypeOK'
  BY Constants DEF ConstantFacts, CallRunFeed, RunnerInv, TypeOK, Phases, AgeCap, channelVars
<1>2. QED
  BY <1>1 DEF RunnerInv, CallRunFeed, channelVars

LEMMA StepSupervisorInv == SupervisorInv /\ [SupervisedNext]_allVars => SupervisorInv'
<1> SUFFICES ASSUME SupervisorInv, [SupervisedNext]_allVars PROVE SupervisorInv'
  OBVIOUS
<1> USE DEF SupervisorInv
<1>1. CASE Next /\ UNCHANGED supervisorVars
  <2>1. RunnerInv'
    BY <1>1, RunnerKeepsRunnerInv
  <2>2. (requested => requested') /\ (listening' => listening)
    BY <1>1 DEF Next, RunnerStep, SessionStep, Start, BackoffElapses, StartSession, Connected,
      ConnectFails, ConnectTimesOut, Subscribed, SubscribeFails, ObserveShutdown, Closed,
      FrameArrives, Forward, ReceiverGone, SessionLost, PingTick, Disconnected, Returns,
      ConsumerStep, Consume, DropReceiver, Signal, Tick, channelVars, signalVars
  <2>3. QED
    BY <1>1, <2>1, <2>2 DEF supervisorVars, RunnerInv, SupervisedTypeOK, StopsOnlyWhenAsked
<1>2. CASE RefreshOk
  <2>1. RunnerInv'
    BY <1>2, CallKeepsRunnerInv DEF RefreshOk
  <2>2. QED
    BY <1>2, <2>1 DEF RefreshOk, CallRunFeed, channelVars, RunnerInv, SupervisedTypeOK,
      StopsOnlyWhenAsked
<1>3. CASE RefreshFails \/ FeedStopped \/ DelayInterrupted \/ DelayElapses
  <2>1. UNCHANGED <<runnerVars, cycle, delay, budget>>
    BY <1>3 DEF RefreshFails, FeedStopped, DelayInterrupted, DelayElapses
  <2>2. RunnerInv'
    BY <2>1 DEF runnerVars, vars, sessionVars, channelVars, signalVars, RunnerInv, TypeOK
  <2>3. requested' = requested /\ listening' = listening
    BY <2>1 DEF runnerVars, vars, channelVars, signalVars
  <2>4. /\ supervisor' \in {"refreshing", "running", "delaying", "returned"}
        /\ outcome' \in {"none", "ok", "disconnected", "refresh_failed"}
    BY <1>3 DEF RefreshFails, FeedStopped, DelayInterrupted, DelayElapses, Ends, SupervisedTypeOK
  <2>5. outcome' = "ok" => requested \/ ~ listening
    BY <1>3 DEF RefreshFails, FeedStopped, DelayInterrupted, DelayElapses, Ends, RunnerInv,
      StopsOnlyWhenAsked
  <2>6. QED
    BY <2>1, <2>2, <2>3, <2>4, <2>5 DEF RunnerInv, SupervisedTypeOK, StopsOnlyWhenAsked
<1>4. CASE FeedDisconnected
  <2>1. UNCHANGED <<runnerVars, budget>>
    BY <1>4 DEF FeedDisconnected
  <2>2. RunnerInv'
    BY <2>1 DEF runnerVars, vars, sessionVars, channelVars, signalVars, RunnerInv, TypeOK
  <2>3. requested' = requested /\ listening' = listening
    BY <2>1 DEF runnerVars, vars, channelVars, signalVars
  <2>4. cycle' \in Nat
    BY <1>4 DEF FeedDisconnected, CountCycle, SupervisedTypeOK
  <2>5. /\ supervisor' \in {"delaying", "returned"}
        /\ outcome' \in {"none", "ok", "disconnected", "refresh_failed"}
        /\ delay' \in 0 .. RefreshDelay
        /\ outcome' = "ok" => requested \/ ~ listening
    BY <1>4, RefreshDelayAssumption DEF FeedDisconnected, Ends, SupervisedTypeOK, StopsOnlyWhenAsked
  <2>6. QED
    BY <2>1, <2>2, <2>3, <2>4, <2>5 DEF RunnerInv, SupervisedTypeOK, StopsOnlyWhenAsked
<1>5. CASE DelayTick
  <2>1. delay' \in 0 .. RefreshDelay
    BY <1>5, RefreshDelayAssumption DEF DelayTick, SupervisedTypeOK
  <2>2. age' \in 0 .. AgeCap
    BY <1>5, Constants DEF ConstantFacts, DelayTick, Least, RunnerInv, TypeOK, AgeCap
  <2>3. TypeOK'
    BY <1>5, <2>2 DEF DelayTick, RunnerInv, TypeOK, channelVars, signalVars
  <2>4. QED
    BY <1>5, <2>1, <2>3 DEF DelayTick, RunnerInv, SupervisedTypeOK, StopsOnlyWhenAsked,
      channelVars, signalVars
<1>6. CASE UNCHANGED allVars
  BY <1>6 DEF allVars, runnerVars, vars, sessionVars, channelVars, signalVars, supervisorVars,
    RunnerInv, TypeOK, SupervisedTypeOK, StopsOnlyWhenAsked
<1>7. SupervisedNext => (Next /\ UNCHANGED supervisorVars) \/ SupervisorStep
  BY DEF SupervisedNext, FeedRuns, Next
<1>8. QED
  BY <1>1, <1>2, <1>3, <1>4, <1>5, <1>6, <1>7 DEF SupervisorStep

\* SupervisorInv is an invariant of the supervised feed.
THEOREM SupervisorInductive == SupervisedSpec => []SupervisorInv
  BY InitSupervisorInv, StepSupervisorInv, PTL DEF SupervisedSpec

\* Type correctness; in particular the refresh delay and the runner's timers
\* never leave their ranges, however often the runner is started again.
THEOREM SupervisedTypeCorrect == SupervisedSpec => []SupervisedTypeOK
<1>1. SupervisorInv => SupervisedTypeOK
  BY DEF SupervisorInv
<1>2. QED
  BY <1>1, SupervisorInductive, PTL

\* run_feed_supervised returns Ok(()) only when a shutdown was requested or the
\* receiver is gone, for every budget of refresh cycles.
THEOREM NoQuietStop == SupervisedSpec => []StopsOnlyWhenAsked
<1>1. SupervisorInv => StopsOnlyWhenAsked
  BY DEF SupervisorInv
<1>2. QED
  BY <1>1, SupervisorInductive, PTL

\* No token is refreshed once a shutdown was requested, for every refresh delay
\* and every number of sends on the watch.
THEOREM ShutdownEndsRefreshing == SupervisedSpec => NoRefreshAfterShutdown
<1> DEFINE Quiet == supervisor # "refreshing" /\ supervisor' = "refreshing" => ~ requested
<1>1. SupervisorInv /\ [SupervisedNext]_allVars => [Quiet]_allVars
  <2> SUFFICES ASSUME SupervisorInv, SupervisedNext,
                      supervisor # "refreshing", supervisor' = "refreshing"
               PROVE  ~ requested
    OBVIOUS
  <2>1. DelayInterrupted \/ DelayElapses
    BY DEF SupervisedNext, FeedRuns, SupervisorStep, supervisorVars, RefreshOk, RefreshFails,
      FeedStopped, FeedDisconnected, DelayTick, Ends
  <2>2. CASE DelayInterrupted
    BY <2>2 DEF DelayInterrupted, Ends
  <2>3. CASE DelayElapses
    BY <2>3 DEF DelayElapses, SupervisorInv, RunnerInv
  <2>4. QED
    BY <2>1, <2>2, <2>3
<1>2. QED
  BY <1>1, SupervisorInductive, PTL DEF SupervisedSpec, NoRefreshAfterShutdown
================================================================================
