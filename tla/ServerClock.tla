------------------------------ MODULE ServerClock ------------------------------
(* KuCoinClient::sync_server_time and refresh_server_time on clones of one       *)
(* client that share the offset added to every signed timestamp.                 *)
(*                                                                               *)
(* The local clock is read before the request, the server's while it is          *)
(* answered; in between lies whatever the retry loop of get does.  Time is kept  *)
(* relative to the reading of the local clock, so the offset is represented by   *)
(* its error: what is in force minus what would be right.  All durations are in  *)
(* the same unit.                                                                *)
EXTENDS Integers

CONSTANTS
  Syncs,       \* concurrent calls of the two methods
  Tries,       \* DEFAULT_RETRIES
  MaxLimits,   \* MAX_RATE_LIMIT_RETRIES
  Timeout,     \* the request timeout of the client
  Backoff,     \* the longest sleep after a network error
  Reset,       \* the longest gw-ratelimit-reset
  InitialSkew, \* how wrong the local clock is before the first sync
  Step,        \* by how much the local clock is set back when it is corrected
  MaxSteps     \* bound on these corrections

ASSUME DurationsAssumption ==
  /\ Tries \in Nat \ {0} /\ MaxLimits \in Nat
  /\ Timeout \in Nat /\ Backoff \in Nat /\ Reset \in Nat
ASSUME SkewAssumption == InitialSkew \in Int /\ Step \in Int /\ MaxSteps \in Nat

VARIABLES
  phase,    \* phase[s]: where a sync is
  tries,    \* tries[s], limits[s]: `attempt` and `rate_limit_hits` of its request
  limits,
  spent,    \* spent[s]: time since the phase began
  elapsed,  \* elapsed[s]: time since it read the local clock
  lag,      \* lag[s]: elapsed[s] when the server read its clock
  outdated, \* outdated[s]: the local clock was corrected after it was read
  error,    \* the offset in force minus the right one
  measured, \* that offset was measured on the local clock as it runs now
  steps     \* corrections so far

clockVars == <<phase, tries, limits, spent, elapsed, lag, outdated, error, measured, steps>>

Idle(s) == phase[s] = "idle"

ClockInit ==
  /\ phase = [s \in Syncs |-> "idle"]
  /\ tries = [s \in Syncs |-> 0]
  /\ limits = [s \in Syncs |-> 0]
  /\ spent = [s \in Syncs |-> 0]
  /\ elapsed = [s \in Syncs |-> 0]
  /\ lag = [s \in Syncs |-> 0]
  /\ outdated = [s \in Syncs |-> 0]
  /\ error = InitialSkew
  /\ measured = FALSE
  /\ steps = 0

Enter(s, p) ==
  /\ phase' = [phase EXCEPT ![s] = p]
  /\ spent' = [spent EXCEPT ![s] = 0]

(* The sync is over, its locals are gone. *)
Finish(s) ==
  /\ Enter(s, "idle")
  /\ tries' = [tries EXCEPT ![s] = 0]
  /\ limits' = [limits EXCEPT ![s] = 0]
  /\ elapsed' = [elapsed EXCEPT ![s] = 0]
  /\ lag' = [lag EXCEPT ![s] = 0]
  /\ outdated' = [outdated EXCEPT ![s] = 0]

(* The local clock is read, then the request is sent. *)
BeginSync(s) ==
  /\ Idle(s)
  /\ Enter(s, "request")
  /\ UNCHANGED <<tries, limits, elapsed, lag, outdated, error, measured, steps>>

ServerReadsClock(s) ==
  /\ phase[s] = "request"
  /\ lag' = [lag EXCEPT ![s] = elapsed[s]]
  /\ phase' = [phase EXCEPT ![s] = "response"]
  /\ UNCHANGED <<tries, limits, spent, elapsed, outdated, error, measured, steps>>

(* offset = server_ms - local_ms is stored, over whatever another sync stored.   *)
StoreOffset(s) ==
  /\ phase[s] = "response"
  /\ error' = outdated[s] + lag[s]
  /\ measured' = (outdated[s] = 0)
  /\ Finish(s)
  /\ UNCHANGED steps

\* Mutant of SyncRequestFails: the attempt is not counted.
SyncFailsUncounted(s) ==
  /\ phase[s] \in {"request", "response"}
  /\ Enter(s, "backoff")
  /\ UNCHANGED <<tries, limits, elapsed, lag, outdated, error, measured, steps>>

(* A network error or the timeout; after the last attempt the old offset stays.  *)
SyncRequestFails(s) ==
  /\ phase[s] \in {"request", "response"}
  /\ IF tries[s] < Tries - 1
     THEN /\ Enter(s, "backoff")
          /\ tries' = [tries EXCEPT ![s] = tries[s] + 1]
          /\ UNCHANGED <<limits, elapsed, lag, outdated>>
     ELSE Finish(s)
  /\ UNCHANGED <<error, measured, steps>>

SyncRateLimited(s) ==
  /\ phase[s] = "request"
  /\ IF limits[s] < MaxLimits
     THEN /\ Enter(s, "paused")
          /\ limits' = [limits EXCEPT ![s] = limits[s] + 1]
          /\ UNCHANGED <<tries, elapsed, lag, outdated>>
     ELSE Finish(s)
  /\ UNCHANGED <<error, measured, steps>>

Resend(s) ==
  /\ phase[s] \in {"backoff", "paused"}
  /\ Enter(s, "request")
  /\ UNCHANGED <<tries, limits, elapsed, lag, outdated, error, measured, steps>>

(* How long a phase lasts at most. *)
Deadline(s) ==
  CASE phase[s] \in {"request", "response"} -> Timeout
    [] phase[s] = "backoff" -> Backoff
    [] phase[s] = "paused" -> Reset

Active == {s \in Syncs : ~Idle(s)}

TimePasses ==
  /\ Active # {}
  /\ \A s \in Active : spent[s] < Deadline(s)
  /\ spent' = [s \in Syncs |-> IF Idle(s) THEN 0 ELSE spent[s] + 1]
  /\ elapsed' = [s \in Syncs |-> IF Idle(s) THEN 0 ELSE elapsed[s] + 1]
  /\ UNCHANGED <<phase, tries, limits, lag, outdated, error, measured, steps>>

(* The local clock is corrected: the offset in force, and those being measured,  *)
(* are wrong by the step.                                                        *)
LocalClockSteps ==
  /\ steps < MaxSteps
  /\ steps' = steps + 1
  /\ error' = error - Step
  /\ measured' = FALSE
  /\ outdated' = [s \in Syncs |-> IF Idle(s) THEN 0 ELSE outdated[s] - Step]
  /\ UNCHANGED <<phase, tries, limits, spent, elapsed, lag>>

SyncStep(s) == \/ BeginSync(s) \/ ServerReadsClock(s) \/ StoreOffset(s) \/ SyncRequestFails(s)
               \/ SyncRateLimited(s) \/ Resend(s)

ClockNext == (\E s \in Syncs : SyncStep(s)) \/ TimePasses \/ LocalClockSteps

ClockSpec == ClockInit /\ [][ClockNext]_clockVars

(* The longest time between the two readings of the clocks.                      *)
WorstLag == Tries * Timeout + (Tries - 1) * Backoff + MaxLimits * (Timeout + Reset)

(* Signed timestamps are right up to the time one sync may take: whichever of    *)
(* several syncs stored last, and however they were retried, an offset measured  *)
(* on the present local clock runs ahead of the server by at most the duration   *)
(* of the whole retry loop, and never behind it.                                 *)
OffsetErrorBounded == measured => error \in 0..WorstLag
=============================================================================
