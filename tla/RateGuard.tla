------------------------------- MODULE RateGuard -------------------------------
(* WsMsgGuard (src/src/ws/runner.rs): the sliding window every outbound WebSocket  *)
(* message of a connection passes, the feed's subscriptions, pings, pongs and      *)
(* close frames as well as the order client's frames.                              *)
(*                                                                                 *)
(* One task owns the guard, so calls of check() do not overlap; any time may pass  *)
(* between them.  An Instant counts nanoseconds and a send takes longer, so no two *)
(* messages share a stamp.                                                         *)
EXTENDS Integers, Sequences

CONSTANTS MaxMsgs,    \* max_msgs
          WindowDur,  \* window_dur
          MaxInstant  \* bound on the clock

ASSUME GuardAssumption == MaxMsgs \in Nat \ {0} /\ WindowDur \in Nat \ {0} /\ MaxInstant \in Nat

VARIABLES
  instant,  \* Instant::now()
  window,   \* the stamps kept
  waking,   \* the deadline check() sleeps for, 0 when it does not sleep
  outbound  \* the time of every message sent

guardVars == <<instant, window, waking, outbound>>

GuardInit == instant = 0 /\ window = <<>> /\ waking = 0 /\ outbound = <<>>

Expired(t) == instant - t > WindowDur

(* The pop_front loop drops the first n stamps. *)
Drops(n) ==
  /\ \A i \in 1 .. n : Expired(window[i])
  /\ n < Len(window) => ~ Expired(window[n + 1])

Recent(n) == SubSeq(window, n + 1, Len(window))

\* Mutant of Full: one message more.
FullLate(kept) == Len(kept) > MaxMsgs

Full(kept) == Len(kept) >= MaxMsgs

\* window_dur.saturating_sub(now - oldest)
Wait(kept) == LET left == WindowDur - (instant - kept[1]) IN IF left > 0 THEN left ELSE 0

Stamp(kept) ==
  /\ outbound # <<>> => outbound[Len(outbound)] < instant
  /\ window' = Append(kept, instant)
  /\ outbound' = Append(outbound, instant)

Pass ==
  /\ waking = 0
  /\ \E n \in 0 .. Len(window) :
       /\ Drops(n)
       /\ Full(Recent(n)) => Wait(Recent(n)) = 0
       /\ Stamp(Recent(n))
  /\ UNCHANGED <<instant, waking>>

Throttle ==
  /\ waking = 0
  /\ \E n \in 0 .. Len(window) :
       /\ Drops(n)
       /\ Full(Recent(n)) /\ Wait(Recent(n)) > 0
       /\ window' = Recent(n)
       /\ waking' = instant + Wait(Recent(n))
  /\ UNCHANGED <<instant, outbound>>

Wake ==
  /\ waking # 0
  /\ instant >= waking
  /\ Stamp(window)
  /\ waking' = 0
  /\ UNCHANGED instant

InstantPasses ==
  /\ instant < MaxInstant
  /\ instant' = instant + 1
  /\ UNCHANGED <<window, waking, outbound>>

GuardNext == Pass \/ Throttle \/ Wake \/ InstantPasses

GuardSpec == GuardInit /\ [][GuardNext]_guardVars

\* "KuCoin allows 100 client->server messages per 10 seconds per connection": no
\* period shorter than that ever holds more, although check() leaves the expired
\* stamp in place after a sleep and the window outgrows max_msgs.
QuotaKept ==
  /\ \A i \in 1 .. Len(outbound) - MaxMsgs : outbound[i + MaxMsgs] - outbound[i] >= WindowDur
  /\ Len(window) <= MaxMsgs + 1
==================================================================================
