---------------------------- MODULE SupervisedFeed ----------------------------
(***************************************************************************)
(* run_feed_supervised (src/src/ws/runner.rs): run_feed in a loop that     *)
(* fetches a new endpoint with the caller's refresh closure each time the  *)
(* runner gives up.                                                        *)
(*                                                                         *)
(* The supervisor owns one receiver of the shutdown watch and only ever    *)
(* looks at clones of it.  A clone copies the version last seen, and the   *)
(* original has seen none, so a clone reports a change as soon as the      *)
(* watch was ever sent to: signals > 0.                                    *)
(***************************************************************************)
EXTENDS FeedRunner

CONSTANTS
  CycleBudgets, \* the values of max_refresh_cycles, Forever for u32::MAX
  RefreshDelay  \* refresh_delay_secs

ASSUME CyclesAssumption       == CycleBudgets \subseteq Nat \cup {Forever}
ASSUME RefreshDelayAssumption == RefreshDelay \in Nat

VARIABLES
  budget,      \* config.max_refresh_cycles
  supervisor,  \* where run_feed_supervised stands
  outcome,     \* what it returned
  cycle,       \* exhausted cycles so far
  delay        \* ticks left of the refresh delay

runnerVars     == vars
supervisorVars == <<budget, supervisor, outcome, cycle, delay>>
allVars        == <<runnerVars, supervisorVars>>

-----------------------------------------------------------------------------

\* The bootstrap call of refresh comes first.
SupervisedInit ==
  /\ Init
  /\ budget \in CycleBudgets
  /\ supervisor = "refreshing"
  /\ outcome = "none"
  /\ cycle = 0
  /\ delay = 0

Ends(o) ==
  /\ supervisor' = "returned"
  /\ outcome' = o

\* Mutant of CallRunFeed: each cycle gets a fresh subscription to the watch,
\* which has seen its current value.
CallRunFeedSubscribed ==
  /\ phase' = "starting"
  /\ result' = "none"
  /\ attempts' = 0
  /\ timer' = 0
  /\ left' = 0
  /\ unseen' = FALSE
  /\ UNCHANGED <<age, silence, heard, channelVars, requested, signals>>

\* run_feed is called with a clone of the shutdown receiver.
CallRunFeed ==
  /\ phase' = "starting"
  /\ result' = "none"
  /\ attempts' = 0
  /\ timer' = 0
  /\ left' = 0
  /\ unseen' = (signals > 0)
  /\ UNCHANGED <<age, silence, heard, channelVars, requested, signals>>

RefreshOk ==
  /\ supervisor = "refreshing"
  /\ supervisor' = "running"
  /\ CallRunFeed
  /\ UNCHANGED <<outcome, cycle, delay, budget>>

RefreshFails ==
  /\ supervisor = "refreshing"
  /\ Ends("refresh_failed")
  /\ UNCHANGED <<runnerVars, cycle, delay, budget>>

\* A cycle counter without a budget selects nothing.
CountCycle == IF budget = Forever THEN cycle ELSE cycle + 1

CyclesExhausted(n) == budget # Forever /\ n > budget

\* Mutant of FeedStopped: whatever run_feed returned ends the supervisor.
FeedStoppedOnAnything ==
  /\ supervisor = "running"
  /\ result # "none"
  /\ Ends("ok")
  /\ UNCHANGED <<runnerVars, cycle, delay, budget>>

FeedStopped ==
  /\ supervisor = "running"
  /\ result \in {"shutdown", "receiver_dropped"}
  /\ Ends("ok")
  /\ UNCHANGED <<runnerVars, cycle, delay, budget>>

\* The budget is looked at before the shutdown request.
FeedDisconnected ==
  /\ supervisor = "running"
  /\ result = "disconnected"
  /\ cycle' = CountCycle
  /\ \/ /\ CyclesExhausted(cycle')
        /\ Ends("disconnected")
        /\ UNCHANGED delay
     \/ /\ ~ CyclesExhausted(cycle')
        /\ requested
        /\ Ends("ok")
        /\ UNCHANGED delay
     \/ /\ ~ CyclesExhausted(cycle')
        /\ ~ requested
        /\ supervisor' = "delaying"
        /\ delay' = RefreshDelay
        /\ UNCHANGED outcome
  /\ UNCHANGED <<runnerVars, budget>>

\* The select! of the refresh delay is biased towards the watch.  A send of
\* false ends it too, and the refresh follows at once.
DelayInterrupted ==
  /\ supervisor = "delaying"
  /\ signals > 0
  /\ IF requested THEN Ends("ok")
                  ELSE supervisor' = "refreshing" /\ UNCHANGED outcome
  /\ UNCHANGED <<runnerVars, cycle, delay, budget>>

\* Mutant of DelayElapses: the select! is not biased.
DelayElapsesUnbiased ==
  /\ supervisor = "delaying"
  /\ delay = 0
  /\ supervisor' = "refreshing"
  /\ UNCHANGED <<runnerVars, outcome, cycle, delay, budget>>

DelayElapses ==
  /\ supervisor = "delaying"
  /\ signals = 0
  /\ delay = 0
  /\ supervisor' = "refreshing"
  /\ UNCHANGED <<runnerVars, outcome, cycle, delay, budget>>

\* Mutant of DelayTick: the delay never runs out.
DelayTickOverruns ==
  /\ supervisor = "delaying"
  /\ signals = 0
  /\ delay' = delay - 1
  /\ age' = Least(age + 1, AgeCap)
  /\ UNCHANGED <<phase, result, attempts, timer, silence, heard, left, channelVars, signalVars>>
  /\ UNCHANGED <<supervisor, outcome, cycle, budget>>

DelayTick ==
  /\ supervisor = "delaying"
  /\ signals = 0
  /\ delay > 0
  /\ delay' = delay - 1
  /\ age' = Least(age + 1, AgeCap)
  /\ UNCHANGED <<phase, result, attempts, timer, silence, heard, left, channelVars, signalVars>>
  /\ UNCHANGED <<supervisor, outcome, cycle, budget>>

-----------------------------------------------------------------------------

FeedRuns == supervisor = "running" /\ (RunnerStep \/ Tick) /\ UNCHANGED supervisorVars

SupervisorStep ==
  \/ RefreshOk \/ RefreshFails
  \/ FeedStopped \/ FeedDisconnected
  \/ DelayInterrupted \/ DelayElapses \/ DelayTick

SupervisedNext ==
  \/ FeedRuns
  \/ SupervisorStep
  \/ (ConsumerStep \/ \E v \in BOOLEAN : Signal(v)) /\ UNCHANGED supervisorVars

SupervisedSpec == SupervisedInit /\ [][SupervisedNext]_allVars

\* The runtime's fairness towards the feed while it runs, and towards the
\* supervisor.  The refresh closure is a REST call with a timeout: it returns.
SupervisedFairSpec ==
  /\ SupervisedSpec
  /\ SF_allVars(supervisor = "running" /\ Tick /\ UNCHANGED supervisorVars)
  /\ WF_allVars(/\ supervisor = "running"
                /\ Start \/ BackoffElapses \/ ConnectTimesOut \/ PingTick
                /\ UNCHANGED supervisorVars)
  /\ WF_allVars(/\ supervisor = "running" /\ phase = "subscribing" /\ timer = 0
                /\ Subscribed \/ SubscribeFails
                /\ UNCHANGED supervisorVars)
  /\ WF_allVars(supervisor = "running" /\ (ObserveShutdown \/ Closed) /\ UNCHANGED supervisorVars)
  /\ WF_allVars(supervisor = "running" /\ (Forward \/ ReceiverGone) /\ UNCHANGED supervisorVars)
  /\ WF_allVars(SupervisorStep)
  /\ WF_allVars(ConsumerStep /\ UNCHANGED supervisorVars)

-----------------------------------------------------------------------------
(* Properties *)

SupervisedTypeOK ==
  /\ TypeOK
  /\ budget \in CycleBudgets
  /\ supervisor \in {"refreshing", "running", "delaying", "returned"}
  /\ outcome \in {"none", "ok", "disconnected", "refresh_failed"}
  /\ cycle \in Nat
  /\ delay \in 0 .. RefreshDelay

\* The supervisor stops without an error only because it was asked to or
\* because nobody listens: no loss of the connection ends the feed quietly.
StopsOnlyWhenAsked == outcome = "ok" => requested \/ ~ listening

\* "A shutdown that fired during the inner exhaustion path shouldn't trigger
\* a token refresh", wherever between exhaustion and refresh it fires.
NoRefreshAfterShutdown ==
  [][supervisor # "refreshing" /\ supervisor' = "refreshing" => ~ requested]_allVars

\* However many refresh cycles are allowed, a request to shut down ends the
\* supervisor: a runner with a finite budget cannot sit it out.
SupervisorShutsDown == requested ~> supervisor = "returned"

\* A token that only yields short sessions is renewed, for ever if need be.
StaleTokenIsRenewed ==
  \/ []<>(supervisor = "running" /\ IsStable)
  \/ []<>(supervisor = "refreshing")
  \/ <>(supervisor = "returned")
=============================================================================
