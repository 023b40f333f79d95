------------------------------ MODULE Parts_proofs ------------------------------
(* Proofs about three components that share no state and run on their own: the    *)
(* outbound guard, the offset to the server's clock and the pages of candles; for *)
(* every quota and window, every number of concurrent syncs with any retry budget *)
(* and any durations, every history of candles and every page size.               *)
EXTENDS RateGuard, ServerClock, KlinePages, SequenceTheorems, FiniteSetTheorems, TLAPS

---------------------------------------------------------------------------------
(* The outbound quota: check() keeps the stamps that can matter although its       *)
(* window may hold one too many.                                                   *)

Offset == Len(outbound) - Len(window)

GuardTypeOK ==
  /\ instant \in Nat /\ waking \in Nat
  /\ window \in Seq(Nat) /\ outbound \in Seq(Nat)

\* The window is the end of what was sent, and the rest of it has expired.
WindowIsSuffix ==
  /\ Len(window) <= Len(outbound)
  /\ \A j \in 1 .. Len(window) : window[j] = outbound[Offset + j]
  /\ \A i \in 1 .. Offset : instant - outbound[i] > WindowDur

Ordered ==
  /\ \A i \in 1 .. Len(outbound) : outbound[i] <= instant
  /\ \A i, j \in 1 .. Len(outbound) : i < j => outbound[i] < outbound[j]

\* One stamp too many means that the first has expired by the time of the last;
\* a sleeping check() has a full window and outlasts its first stamp.
WindowFits ==
  /\ Len(window) <= MaxMsgs + 1
  /\ Len(window) = MaxMsgs + 1 => window[MaxMsgs + 1] - window[1] >= WindowDur
  /\ waking # 0 => Len(window) = MaxMsgs /\ waking >= window[1] + WindowDur

Spaced == \A i \in 1 .. Len(outbound) - MaxMsgs : outbound[i + MaxMsgs] - outbound[i] >= WindowDur

GuardInv == GuardTypeOK /\ WindowIsSuffix /\ Ordered /\ WindowFits /\ Spaced

\* What dropping n expired stamps leaves is still the end of what was sent.
LEMMA RecentIsSuffix ==
  ASSUME GuardInv, NEW n \in 0 .. Len(window), Drops(n)
  PROVE  /\ Recent(n) \in Seq(Nat)
         /\ Len(Recent(n)) = Len(window) - n
         /\ \A j \in 1 .. Len(Recent(n)) : Recent(n)[j] = outbound[Offset + n + j]
         /\ \A i \in 1 .. Offset + n : instant - outbound[i] > WindowDur
         /\ Len(Recent(n)) > 0 => instant - Recent(n)[1] <= WindowDur
<1>1. Len(window) \in Nat /\ Len(outbound) \in Nat /\ Offset \in Nat
  BY LenProperties DEF GuardInv, GuardTypeOK, WindowIsSuffix, Offset
<1>2. \A i \in n + 1 .. Len(window) : window[i] \in Nat
  BY <1>1, ElementOfSeq DEF GuardInv, GuardTypeOK
<1>3. /\ Recent(n) \in Seq(Nat)
      /\ Len(Recent(n)) = IF n + 1 <= Len(window) THEN Len(window) - (n + 1) + 1 ELSE 0
      /\ \A i \in 1 .. Len(window) - (n + 1) + 1 : Recent(n)[i] = window[n + 1 + i - 1]
  BY <1>1, <1>2, SubSeqProperties DEF Recent
<1>4. Len(Recent(n)) = Len(window) - n
  BY <1>1, <1>3
<1>5. \A j \in 1 .. Len(Recent(n)) : Recent(n)[j] = window[n + j] /\ n + j \in 1 .. Len(window)
  BY <1>1, <1>3, <1>4
<1>6. \A j \in 1 .. Len(Recent(n)) : Recent(n)[j] = outbound[Offset + n + j]
  <2> TAKE j \in 1 .. Len(Recent(n))
  <2>1. Recent(n)[j] = window[n + j] /\ n + j \in 1 .. Len(window)
    BY <1>5
  <2>2. window[n + j] = outbound[Offset + (n + j)]
    BY <2>1 DEF GuardInv, WindowIsSuffix
  <2>3. Offset + (n + j) = Offset + n + j
    BY <1>1, <1>4
  <2>4. QED
    BY <2>1, <2>2, <2>3
<1>7. \A i \in 1 .. Offset + n : instant - outbound[i] > WindowDur
  <2> TAKE i \in 1 .. Offset + n
  <2>1. CASE i <= Offset
    BY <1>1, <2>1 DEF GuardInv, WindowIsSuffix
  <2>2. CASE i > Offset
    <3>1. i - Offset \in 1 .. n /\ i - Offset \in 1 .. Len(window) /\ Offset + (i - Offset) = i
      BY <1>1, <2>2
    <3>2. window[i - Offset] = outbound[Offset + (i - Offset)]
      BY <3>1 DEF GuardInv, WindowIsSuffix
    <3>3. Expired(window[i - Offset])
      BY <3>1 DEF Drops
    <3>4. QED
      BY <3>1, <3>2, <3>3 DEF Expired
  <2>3. QED
    BY <1>1, <2>1, <2>2
<1>8. Len(Recent(n)) > 0 => instant - Recent(n)[1] <= WindowDur
  <2>1. SUFFICES ASSUME Len(Recent(n)) > 0 PROVE instant - Recent(n)[1] <= WindowDur
    OBVIOUS
  <2>2. n < Len(window) /\ n + 1 \in n + 1 .. Len(window) /\ Recent(n)[1] = window[n + 1]
    BY <1>1, <1>4, <1>5, <2>1
  <2>3. ~ Expired(window[n + 1])
    BY <2>2 DEF Drops
  <2>4. window[n + 1] \in Nat
    BY <1>2, <2>2
  <2>5. QED
    BY <2>2, <2>3, <2>4, GuardAssumption DEF Expired, GuardInv, GuardTypeOK
<1>9. QED
  BY <1>3, <1>4, <1>6, <1>7, <1>8

LEMMA LastOrBefore ==
  ASSUME NEW N \in Nat, NEW j \in 1 .. N + 1
  PROVE  /\ j \in 1 .. N \/ j = N + 1
         /\ \A i \in 1 .. N + 1 : i < j => i \in 1 .. N
  OBVIOUS

\* A message may be sent when the stamps kept are the end of what was sent, at
\* most max_msgs, and old enough if they are that many.
LEMMA StampKeepsInv ==
  ASSUME GuardInv, NEW N \in Nat, N = Len(outbound),
         NEW kept \in Seq(Nat), NEW K \in Nat, K = Len(kept), K <= N, K <= MaxMsgs,
         \A j \in 1 .. K : kept[j] = outbound[N - K + j],
         \A i \in 1 .. N - K : instant - outbound[i] > WindowDur,
         K = MaxMsgs => instant - kept[1] >= WindowDur,
         Stamp(kept), instant' = instant, waking' = 0
  PROVE  GuardInv'
<1>0. instant \in Nat /\ outbound \in Seq(Nat)
  BY LenProperties DEF GuardInv, GuardTypeOK
<1>1. /\ outbound' \in Seq(Nat) /\ Len(outbound') = N + 1
      /\ \A i \in 1 .. N : outbound'[i] = outbound[i]
      /\ outbound'[N + 1] = instant
  BY <1>0, AppendProperties DEF Stamp
<1>2. /\ window' \in Seq(Nat) /\ Len(window') = K + 1
      /\ \A i \in 1 .. K : window'[i] = kept[i]
      /\ window'[K + 1] = instant
  BY <1>0, AppendProperties DEF Stamp
<1>3. Offset' = N - K
  BY <1>0, <1>1, <1>2 DEF Offset
<1>4. \A i \in 1 .. N : outbound[i] \in Nat
  BY <1>0, ElementOfSeq
<1>5. GuardTypeOK'
  BY <1>0, <1>1, <1>2 DEF GuardTypeOK
<1>6. WindowIsSuffix'
  <2>1. \A j \in 1 .. K + 1 : window'[j] = outbound'[N - K + j]
    <3> TAKE j \in 1 .. K + 1
    <3>1. CASE j = K + 1
      BY <1>0, <1>1, <1>2, <3>1, SMTT(30)
    <3>2. CASE j \in 1 .. K
      <4>1. N - K + j \in 1 .. N
        BY <1>0, <3>2
      <4>2. QED
        BY <1>1, <1>2, <3>2, <4>1
    <3>3. QED
      BY <1>0, <3>1, <3>2
  <2>2. \A i \in 1 .. N - K : instant' - outbound'[i] > WindowDur
    <3> TAKE i \in 1 .. N - K
    <3>1. i \in 1 .. N
      BY <1>0
    <3>2. QED
      BY <1>1, <3>1
  <2>3. QED
    BY <1>0, <1>1, <1>2, <1>3, <2>1, <2>2 DEF WindowIsSuffix
<1>7. Ordered'
  <2>1. \A i \in 1 .. N : outbound[i] <= instant
    BY DEF GuardInv, Ordered
  <2>2. \A i \in 1 .. N : outbound[i] < instant
    <3> TAKE i \in 1 .. N
    <3>1. outbound[N] < instant /\ N \in 1 .. N
      <4>1. outbound # <<>>
        BY <1>0, EmptySeq
      <4>2. QED
        BY <1>0, <4>1 DEF Stamp
    <3>2. i < N => outbound[i] < outbound[N]
      BY <3>1 DEF GuardInv, Ordered
    <3>3. QED
      BY <1>0, <1>4, <3>1, <3>2
  <2>3. \A i \in 1 .. N + 1 : outbound'[i] <= instant'
    <3> TAKE i \in 1 .. N + 1
    <3>1. i \in 1 .. N \/ i = N + 1
      BY <1>0
    <3>2. QED
      BY <1>0, <1>1, <2>1, <3>1
  <2>4. \A i, j \in 1 .. N + 1 : i < j => outbound'[i] < outbound'[j]
    <3> SUFFICES ASSUME NEW i \in 1 .. N + 1, NEW j \in 1 .. N + 1, i < j
                 PROVE  outbound'[i] < outbound'[j]
      OBVIOUS
    <3>1. i \in 1 .. N /\ (j \in 1 .. N \/ j = N + 1)
      BY LastOrBefore
    <3>2. CASE j \in 1 .. N
      BY <1>1, <3>1, <3>2 DEF GuardInv, Ordered
    <3>3. CASE j = N + 1
      BY <1>1, <2>2, <3>1, <3>3
    <3>4. QED
      BY <3>1, <3>2, <3>3
  <2>5. QED
    BY <1>1, <2>3, <2>4 DEF Ordered
<1>8. WindowFits'
  <2>1. K = MaxMsgs => window'[MaxMsgs + 1] - window'[1] >= WindowDur
    BY <1>0, <1>2, GuardAssumption
  <2>2. QED
    BY <1>0, <1>2, <2>1, GuardAssumption DEF WindowFits
<1>9. ASSUME NEW i \in 1 .. N + 1 - MaxMsgs
      PROVE  outbound'[i + MaxMsgs] - outbound'[i] >= WindowDur
  <2>0. MaxMsgs \in Nat \ {0} /\ WindowDur \in Nat
    BY GuardAssumption
  <2>1. i \in 1 .. N
    BY <1>0, <2>0
  <2>2. CASE i + MaxMsgs <= N
    <3>1. i \in 1 .. N - MaxMsgs /\ i + MaxMsgs \in 1 .. N
      BY <1>0, <2>0, <2>2
    <3>2. QED
      BY <1>1, <2>1, <3>1 DEF GuardInv, Spaced
  <2>3. CASE i + MaxMsgs = N + 1
    <3>1. outbound'[i + MaxMsgs] = instant /\ outbound'[i] = outbound[i] /\ outbound[i] \in Nat
      BY <1>1, <1>4, <2>1, <2>3
    <3>2. CASE K = MaxMsgs
      <4>1. 1 \in 1 .. K /\ N - K + 1 = i
        BY <1>0, <2>0, <2>3, <3>2
      <4>2. kept[1] = outbound[i]
        BY <4>1
      <4>3. QED
        BY <3>1, <3>2, <4>2
    <3>3. CASE K < MaxMsgs
      <4>1. i \in 1 .. N - K
        BY <1>0, <2>0, <2>3, <3>3
      <4>2. instant - outbound[i] > WindowDur
        BY <4>1
      <4>3. QED
        BY <1>0, <2>0, <3>1, <4>2
    <3>4. QED
      BY <1>0, <2>0, <3>2, <3>3
  <2>4. i + MaxMsgs \in 1 .. N + 1
    BY <2>0
  <2>5. i + MaxMsgs \in 1 .. N \/ i + MaxMsgs = N + 1
    BY <2>4, LastOrBefore
  <2>6. QED
    BY <2>0, <2>2, <2>3, <2>5
<1>10. Spaced'
  <2> SUFFICES ASSUME NEW i \in 1 .. Len(outbound') - MaxMsgs
               PROVE  outbound'[i + MaxMsgs] - outbound'[i] >= WindowDur
    BY Zenon DEF Spaced
  <2>1. i \in 1 .. N + 1 - MaxMsgs
    BY <1>1, GuardAssumption
  <2>2. QED
    BY <1>9, <2>1, Zenon
<1>11. QED
  BY <1>5, <1>6, <1>7, <1>8, <1>10 DEF GuardInv
---------------------------------------------------------------------------------
LEMMA GuardInitInv == GuardInit => GuardInv
<1> SUFFICES ASSUME GuardInit PROVE GuardInv
  OBVIOUS
<1>1. window = <<>> /\ outbound = <<>> /\ instant = 0 /\ waking = 0
  BY DEF GuardInit
<1>2. window \in Seq(Nat) /\ outbound \in Seq(Nat) /\ Len(window) = 0 /\ Len(outbound) = 0
  BY <1>1, EmptySeq
<1>3. QED
  BY <1>1, <1>2, GuardAssumption DEF GuardInv, GuardTypeOK, WindowIsSuffix, Ordered, WindowFits,
    Spaced, Offset

LEMMA PassKeepsInv ==
  ASSUME GuardInv, Pass
  PROVE  GuardInv'
<1>1. PICK n \in 0 .. Len(window) : /\ Drops(n)
                                    /\ Full(Recent(n)) => Wait(Recent(n)) = 0
                                    /\ Stamp(Recent(n))
  BY DEF Pass
<1> DEFINE kept == Recent(n)
<1>2. /\ kept \in Seq(Nat) /\ Len(kept) = Len(window) - n
      /\ \A j \in 1 .. Len(kept) : kept[j] = outbound[Offset + n + j]
      /\ \A i \in 1 .. Offset + n : instant - outbound[i] > WindowDur
      /\ Len(kept) > 0 => instant - kept[1] <= WindowDur
  BY <1>1, RecentIsSuffix
<1>3. /\ Len(window) \in Nat /\ Len(outbound) \in Nat /\ Offset \in Nat /\ instant \in Nat
      /\ Len(window) <= Len(outbound) /\ Len(kept) \in Nat
  BY <1>2, LenProperties DEF GuardInv, GuardTypeOK, WindowIsSuffix, Offset
<1>4. Offset + n = Len(outbound) - Len(kept)
  BY <1>2, <1>3 DEF Offset
<1>5. Len(kept) > 0 => kept[1] \in Nat
  BY <1>2, <1>3, ElementOfSeq
<1>6. MaxMsgs \in Nat \ {0} /\ WindowDur \in Nat
  BY GuardAssumption
<1>7. Len(kept) >= MaxMsgs => instant - kept[1] >= WindowDur
  BY <1>1, <1>3, <1>5, <1>6 DEF Full, Wait
<1>8. Len(kept) <= MaxMsgs
  <2> SUFFICES ASSUME Len(kept) > MaxMsgs PROVE FALSE
    BY <1>3, <1>6
  <2>1. Len(window) = MaxMsgs + 1 /\ n = 0
    BY <1>2, <1>3, <1>6 DEF GuardInv, WindowFits
  <2>2. kept[1] = outbound[Offset + 1] /\ window[1] = outbound[Offset + 1]
    BY <1>2, <1>3, <1>6, <2>1 DEF GuardInv, WindowIsSuffix
  <2>3. window[MaxMsgs + 1] = outbound[Len(outbound)]
    BY <1>3, <1>6, <2>1 DEF GuardInv, WindowIsSuffix, Offset
  <2>4. window[MaxMsgs + 1] - window[1] >= WindowDur
    BY <2>1 DEF GuardInv, WindowFits
  <2>5. outbound # <<>>
    BY <1>3, <1>6, <2>1, EmptySeq
  <2>6. outbound[Len(outbound)] < instant
    BY <1>1, <2>5 DEF Stamp
  <2>7. outbound[Len(outbound)] \in Nat /\ window[1] \in Nat
    BY <1>3, <1>6, <2>1, ElementOfSeq DEF GuardInv, GuardTypeOK
  <2>8. QED
    BY <1>2, <1>3, <1>6, <2>1, <2>2, <2>3, <2>4, <2>6, <2>7, SMTT(30)
<1>9. /\ \A j \in 1 .. Len(kept) : kept[j] = outbound[Len(outbound) - Len(kept) + j]
      /\ \A i \in 1 .. Len(outbound) - Len(kept) : instant - outbound[i] > WindowDur
  BY <1>2, <1>4
<1>10. instant' = instant /\ waking' = 0 /\ Stamp(kept)
  BY <1>1 DEF Pass
<1>11. Len(kept) = MaxMsgs => instant - kept[1] >= WindowDur
  BY <1>6, <1>7
<1>12. Len(kept) <= Len(outbound)
  BY <1>2, <1>3
<1>13. QED
  BY <1>2, <1>3, <1>8, <1>9, <1>10, <1>11, <1>12, StampKeepsInv, Zenon

LEMMA ThrottleKeepsInv ==
  ASSUME GuardInv, Throttle
  PROVE  GuardInv'
<1>1. PICK n \in 0 .. Len(window) : /\ Drops(n)
                                    /\ Full(Recent(n)) /\ Wait(Recent(n)) > 0
                                    /\ window' = Recent(n)
                                    /\ waking' = instant + Wait(Recent(n))
  BY DEF Throttle
<1>2. /\ window' \in Seq(Nat) /\ Len(window') = Len(window) - n
      /\ \A j \in 1 .. Len(window') : window'[j] = outbound[Offset + n + j]
      /\ \A i \in 1 .. Offset + n : instant - outbound[i] > WindowDur
  BY <1>1, RecentIsSuffix
<1>3. instant' = instant /\ outbound' = outbound
  BY DEF Throttle
<1>4. /\ Len(window) \in Nat /\ Len(outbound) \in Nat /\ Offset \in Nat /\ instant \in Nat
      /\ Len(window) <= Len(outbound) /\ Len(window') \in Nat
  BY <1>2, LenProperties DEF GuardInv, GuardTypeOK, WindowIsSuffix, Offset
<1>5. Offset' = Offset + n
  BY <1>2, <1>3, <1>4 DEF Offset
<1>6. MaxMsgs \in Nat \ {0} /\ WindowDur \in Nat /\ Len(window') >= MaxMsgs
  BY <1>1, GuardAssumption DEF Full
<1>7. window'[1] \in Nat
  BY <1>2, <1>4, <1>6, ElementOfSeq
<1>8. instant - window'[1] < WindowDur /\ waking' = window'[1] + WindowDur
  BY <1>1, <1>4, <1>6, <1>7 DEF Wait
<1>9. Len(window') = MaxMsgs
  <2> SUFFICES ASSUME Len(window') # MaxMsgs PROVE FALSE
    OBVIOUS
  <2>1. Len(window) = MaxMsgs + 1 /\ n = 0
    BY <1>2, <1>4, <1>6 DEF GuardInv, WindowFits
  <2>2. window'[1] = outbound[Offset + 1] /\ window[1] = outbound[Offset + 1]
    BY <1>2, <1>4, <1>6, <2>1 DEF GuardInv, WindowIsSuffix
  <2>3. window[MaxMsgs + 1] = outbound[Len(outbound)]
    BY <1>4, <1>6, <2>1 DEF GuardInv, WindowIsSuffix, Offset
  <2>4. window[MaxMsgs + 1] - window[1] >= WindowDur
    BY <2>1 DEF GuardInv, WindowFits
  <2>5. outbound[Len(outbound)] <= instant
    BY <1>4, <1>6, <2>1 DEF GuardInv, Ordered
  <2>6. outbound[Len(outbound)] \in Nat
    BY <1>4, <1>6, <2>1, ElementOfSeq DEF GuardInv, GuardTypeOK
  <2>7. QED
    BY <1>4, <1>6, <1>7, <1>8, <2>2, <2>3, <2>4, <2>5, <2>6, SMTT(30)
<1>10. GuardTypeOK'
  <2>1. waking' \in Nat
    BY <1>6, <1>7, <1>8
  <2>2. instant' \in Nat /\ outbound' \in Seq(Nat)
    BY <1>3, <1>4 DEF GuardInv, GuardTypeOK
  <2>3. QED
    BY <1>2, <2>1, <2>2, Zenon DEF GuardTypeOK
<1>11. WindowIsSuffix'
  BY <1>2, <1>3, <1>4, <1>5 DEF WindowIsSuffix
<1>12. Ordered' /\ Spaced'
  BY <1>3 DEF GuardInv, Ordered, Spaced
<1>13. WindowFits'
  BY <1>6, <1>7, <1>8, <1>9 DEF WindowFits
<1>14. QED
  BY <1>10, <1>11, <1>12, <1>13 DEF GuardInv

LEMMA WakeKeepsInv ==
  ASSUME GuardInv, Wake
  PROVE  GuardInv'
<1>1. Len(window) = MaxMsgs /\ instant >= window[1] + WindowDur
  <2>1. waking >= window[1] + WindowDur /\ Len(window) = MaxMsgs
    BY DEF Wake, GuardInv, WindowFits
  <2>2. window[1] \in Nat
    BY <2>1, GuardAssumption, ElementOfSeq DEF GuardInv, GuardTypeOK
  <2>3. QED
    BY <2>1, <2>2, GuardAssumption DEF Wake, GuardInv, GuardTypeOK
<1>2. window[1] \in Nat
  BY <1>1, GuardAssumption, ElementOfSeq DEF GuardInv, GuardTypeOK
<1>3. Len(window) = MaxMsgs => instant - window[1] >= WindowDur
  BY <1>1, <1>2, GuardAssumption DEF GuardInv, GuardTypeOK
<1>4. /\ window \in Seq(Nat) /\ Len(window) <= Len(outbound) /\ Len(window) <= MaxMsgs
      /\ \A j \in 1 .. Len(window) : window[j] = outbound[Len(outbound) - Len(window) + j]
      /\ \A i \in 1 .. Len(outbound) - Len(window) : instant - outbound[i] > WindowDur
  BY <1>1, GuardAssumption DEF GuardInv, GuardTypeOK, WindowIsSuffix, Offset
<1>5. Stamp(window) /\ instant' = instant /\ waking' = 0
  BY DEF Wake
<1>6. Len(window) \in Nat /\ Len(outbound) \in Nat
  BY LenProperties DEF GuardInv, GuardTypeOK
<1>7. QED
  BY <1>3, <1>4, <1>5, <1>6, StampKeepsInv, Zenon

\* Time only expires more stamps.
LEMMA TimeKeepsInv ==
  ASSUME GuardInv, InstantPasses
  PROVE  GuardInv'
<1>1. instant' = instant + 1 /\ UNCHANGED <<window, waking, outbound>> /\ instant \in Nat
  BY DEF InstantPasses, GuardInv, GuardTypeOK
<1>2. \A i \in 1 .. Len(outbound) : outbound[i] \in Nat
  BY ElementOfSeq DEF GuardInv, GuardTypeOK
<1>3. GuardTypeOK'
  BY <1>1 DEF GuardInv, GuardTypeOK
<1>4. WindowIsSuffix'
  <2>1. Offset' = Offset /\ Offset <= Len(outbound)
    BY <1>1, LenProperties DEF Offset, GuardInv, GuardTypeOK
  <2>2. \A i \in 1 .. Offset : instant' - outbound'[i] > WindowDur
    <3> TAKE i \in 1 .. Offset
    <3>1. i \in 1 .. Len(outbound)
      BY <2>1, LenProperties DEF Offset, GuardInv, GuardTypeOK, WindowIsSuffix
    <3>2. instant - outbound[i] > WindowDur
      BY DEF GuardInv, WindowIsSuffix
    <3>3. QED
      BY <1>1, <1>2, <3>1, <3>2, GuardAssumption
  <2>3. QED
    BY <1>1, <2>1, <2>2 DEF GuardInv, WindowIsSuffix
<1>5. Ordered'
  BY <1>1, <1>2 DEF GuardInv, Ordered
<1>6. WindowFits' /\ Spaced'
  BY <1>1 DEF GuardInv, WindowFits, Spaced
<1>7. QED
  BY <1>3, <1>4, <1>5, <1>6 DEF GuardInv

LEMMA GuardStepInv == GuardInv /\ [GuardNext]_guardVars => GuardInv'
<1> SUFFICES ASSUME GuardInv, [GuardNext]_guardVars PROVE GuardInv'
  OBVIOUS
<1>1. CASE UNCHANGED guardVars
  BY <1>1 DEF guardVars, GuardInv, GuardTypeOK, WindowIsSuffix, Ordered, WindowFits, Spaced, Offset
<1>2. QED
  BY <1>1, PassKeepsInv, ThrottleKeepsInv, WakeKeepsInv, TimeKeepsInv DEF GuardNext

\* GuardInv is an invariant of the guard.
THEOREM GuardInductive == GuardSpec => []GuardInv
  BY GuardInitInv, GuardStepInv, PTL DEF GuardSpec

\* No period shorter than the window holds more than max_msgs messages, for
\* every quota, window and timing of the calls of check().
THEOREM QuotaIsKept == GuardSpec => []QuotaKept
<1>1. GuardInv => QuotaKept
  BY DEF GuardInv, Spaced, WindowFits, QuotaKept
<1>2. QED
  BY <1>1, GuardInductive, PTL

---------------------------------------------------------------------------------
(* The offset to the server's clock.                                               *)

Phases == {"idle", "request", "response", "backoff", "paused"}

ClockTypes ==
  /\ phase \in [Syncs -> Phases]
  /\ tries \in [Syncs -> Nat] /\ limits \in [Syncs -> Nat]
  /\ spent \in [Syncs -> Nat] /\ elapsed \in [Syncs -> Nat] /\ lag \in [Syncs -> Nat]
  /\ outdated \in [Syncs -> Int]
  /\ error \in Int
  /\ measured \in BOOLEAN

(* The longest a counted try, or a counted 429, and the sleep after it take. *)
Slot  == Timeout + Backoff
Pause == Timeout + Reset

(* The longest the counted ones of k tries and l 429s took. *)
Used(k, l) == k * Slot + l * Pause

InBudget(s) ==
  /\ phase[s] = "idle" => tries[s] = 0 /\ limits[s] = 0 /\ elapsed[s] = 0
  /\ phase[s] \in {"request", "response"} =>
       spent[s] <= Timeout /\ elapsed[s] <= Used(tries[s], limits[s]) + spent[s]
  /\ phase[s] = "backoff" =>
       spent[s] <= Backoff /\ elapsed[s] <= Used(tries[s], limits[s]) - Backoff + spent[s]
  /\ phase[s] = "paused" =>
       spent[s] <= Reset /\ elapsed[s] <= Used(tries[s], limits[s]) - Reset + spent[s]

Budgets ==
  \A s \in Syncs : /\ tries[s] <= Tries - 1 /\ limits[s] <= MaxLimits
                   /\ lag[s] <= elapsed[s]
                   /\ InBudget(s)

ClockInv == ClockTypes /\ Budgets /\ OffsetErrorBounded

---------------------------------------------------------------------------------
(* Arithmetic of the retry budget *)

LEMMA Durations ==
  /\ Tries \in Nat \ {0} /\ MaxLimits \in Nat /\ Timeout \in Nat /\ Backoff \in Nat
  /\ Reset \in Nat /\ InitialSkew \in Int /\ Step \in Int
  BY DurationsAssumption, SkewAssumption

LEMMA UsedGrows ==
  ASSUME NEW k \in Nat, NEW l \in Nat
  PROVE  /\ Used(k, l) \in Nat /\ Used(0, 0) = 0
         /\ Used(k + 1, l) = Used(k, l) + Slot
         /\ Used(k, l + 1) = Used(k, l) + Pause
  BY Durations, SMTT(60) DEF Used, Slot, Pause

LEMMA ProductsAreMonotone ==
  ASSUME NEW a \in Nat, NEW b \in Nat, NEW x \in Nat, a <= b
  PROVE  a * x <= b * x
<1>1. PICK d \in Nat : b = a + d
  <2>1. b - a \in Nat /\ b = a + (b - a)
    OBVIOUS
  <2>2. QED
    BY <2>1
<1>2. b * x = a * x + d * x /\ d * x \in Nat /\ a * x \in Nat
  BY <1>1, SMTT(60)
<1>3. QED
  BY <1>2

\* One last attempt on top of what was used is still within the worst lag.
LEMMA UsedIsBounded ==
  ASSUME NEW k \in Nat, NEW l \in Nat, k <= Tries - 1, l <= MaxLimits
  PROVE  Used(k, l) + Timeout <= WorstLag
<1> DEFINE t == Tries - 1
<1>1. k * Slot <= t * Slot /\ l * Pause <= MaxLimits * Pause
  BY Durations, ProductsAreMonotone DEF Slot, Pause
<1>2. WorstLag = t * Slot + MaxLimits * Pause + Timeout
  BY Durations, SMTT(60) DEF WorstLag, Slot, Pause
<1>3. /\ k * Slot \in Nat /\ l * Pause \in Nat /\ t * Slot \in Nat /\ MaxLimits * Pause \in Nat
  BY Durations DEF Slot, Pause
<1> HIDE DEF t
<1>4. QED
  BY <1>1, <1>2, <1>3, Durations DEF Used

---------------------------------------------------------------------------------
(* The invariant *)

LEMMA ClockInvInit == ClockInit => ClockInv
<1> SUFFICES ASSUME ClockInit PROVE ClockInv
  OBVIOUS
<1>1. ClockTypes
  <2>1. measured \in BOOLEAN /\ error \in Int
    BY Durations DEF ClockInit
  <2>2. QED
    BY <2>1 DEF ClockInit, ClockTypes, Phases
<1>2. Budgets
  <2> SUFFICES ASSUME NEW s \in Syncs
               PROVE  /\ tries[s] <= Tries - 1 /\ limits[s] <= MaxLimits
                      /\ lag[s] <= elapsed[s] /\ InBudget(s)
    BY DEF Budgets
  <2>1. phase[s] = "idle" /\ tries[s] = 0 /\ limits[s] = 0 /\ elapsed[s] = 0 /\ lag[s] = 0
    BY DEF ClockInit
  <2>2. QED
    BY <2>1, Durations DEF InBudget
<1>3. QED
  BY <1>1, <1>2 DEF ClockInit, ClockInv, OffsetErrorBounded

\* A step of sync s that leaves the offset alone: the budget of s decides.
LEMMA OneSync ==
  ASSUME ClockInv, ClockTypes', NEW s \in Syncs, UNCHANGED <<error, measured>>,
         \A r \in Syncs \ {s} :
           /\ phase'[r] = phase[r] /\ tries'[r] = tries[r] /\ limits'[r] = limits[r]
           /\ spent'[r] = spent[r] /\ elapsed'[r] = elapsed[r] /\ lag'[r] = lag[r],
         tries'[s] <= Tries - 1, limits'[s] <= MaxLimits, lag'[s] <= elapsed'[s],
         InBudget(s)'
  PROVE  ClockInv'
<1>1. Budgets'
  <2> SUFFICES ASSUME NEW r \in Syncs
               PROVE  /\ tries'[r] <= Tries - 1 /\ limits'[r] <= MaxLimits
                      /\ lag'[r] <= elapsed'[r] /\ InBudget(r)'
    BY DEF Budgets
  <2>1. CASE r = s
    BY <2>1
  <2>2. CASE r # s
    BY <2>2 DEF ClockInv, Budgets, InBudget
  <2>3. QED
    BY <2>1, <2>2
<1>2. OffsetErrorBounded'
  BY DEF ClockInv, OffsetErrorBounded
<1>3. QED
  BY <1>1, <1>2 DEF ClockInv

LEMMA LeaveKeepsBudget ==
  ASSUME ClockInv, NEW s \in Syncs, Finish(s)
  PROVE  /\ phase' \in [Syncs -> Phases]
         /\ tries' \in [Syncs -> Nat] /\ limits' \in [Syncs -> Nat]
         /\ spent' \in [Syncs -> Nat] /\ elapsed' \in [Syncs -> Nat] /\ lag' \in [Syncs -> Nat]
         /\ outdated' \in [Syncs -> Int]
         /\ Budgets'
<1>1. /\ phase' = [phase EXCEPT ![s] = "idle"] /\ spent' = [spent EXCEPT ![s] = 0]
      /\ tries' = [tries EXCEPT ![s] = 0] /\ limits' = [limits EXCEPT ![s] = 0]
      /\ elapsed' = [elapsed EXCEPT ![s] = 0] /\ lag' = [lag EXCEPT ![s] = 0]
      /\ outdated' = [outdated EXCEPT ![s] = 0]
  BY DEF Finish, Enter
<1>2. ClockTypes
  BY DEF ClockInv
<1>3. Budgets'
  <2> SUFFICES ASSUME NEW r \in Syncs
               PROVE  /\ tries'[r] <= Tries - 1 /\ limits'[r] <= MaxLimits
                      /\ lag'[r] <= elapsed'[r] /\ InBudget(r)'
    BY DEF Budgets
  <2>1. CASE r = s
    BY <1>1, <1>2, <2>1, Durations DEF ClockTypes, InBudget
  <2>2. CASE r # s
    <3>1. /\ phase'[r] = phase[r] /\ tries'[r] = tries[r] /\ limits'[r] = limits[r]
          /\ spent'[r] = spent[r] /\ elapsed'[r] = elapsed[r] /\ lag'[r] = lag[r]
      BY <1>1, <1>2, <2>2 DEF ClockTypes
    <3>2. QED
      BY <3>1 DEF ClockInv, Budgets, InBudget
  <2>3. QED
    BY <2>1, <2>2
<1>4. QED
  BY <1>1, <1>2, <1>3 DEF ClockTypes, Phases

LEMMA AttemptsKeepClockInv ==
  ASSUME ClockInv, NEW s \in Syncs,
         \/ BeginSync(s) \/ ServerReadsClock(s) \/ SyncRequestFails(s)
         \/ SyncRateLimited(s) \/ Resend(s)
  PROVE  ClockInv'
<1> USE Durations
<1>1. ClockTypes /\ Budgets
  BY DEF ClockInv
<1>2. UNCHANGED <<error, measured>>
  BY DEF BeginSync, ServerReadsClock, SyncRequestFails, SyncRateLimited, Resend
<1>3. CASE Finish(s)
  <2>1. ClockTypes' /\ Budgets'
    BY <1>1, <1>2, <1>3, LeaveKeepsBudget DEF ClockTypes
  <2>2. QED
    BY <1>2, <2>1 DEF ClockInv, OffsetErrorBounded
<1>4. CASE BeginSync(s)
  <2>1. ClockTypes'
    BY <1>1, <1>4 DEF BeginSync, Enter, ClockTypes, Phases
  <2>2. InBudget(s)'
    BY <1>1, <1>4, UsedGrows DEF BeginSync, Enter, Idle, ClockTypes, Budgets, InBudget
  <2>3. QED
    BY <1>1, <1>2, <1>4, <2>1, <2>2, OneSync DEF BeginSync, Enter, ClockTypes, Budgets
<1>5. CASE ServerReadsClock(s)
  <2>1. ClockTypes'
    BY <1>1, <1>5 DEF ServerReadsClock, ClockTypes, Phases
  <2>2. InBudget(s)'
    BY <1>1, <1>5 DEF ServerReadsClock, ClockTypes, Budgets, InBudget
  <2>3. QED
    BY <1>1, <1>2, <1>5, <2>1, <2>2, OneSync DEF ServerReadsClock, ClockTypes, Budgets
<1>6. CASE SyncRequestFails(s) /\ tries[s] < Tries - 1
  <2>0. /\ phase' = [phase EXCEPT ![s] = "backoff"] /\ spent' = [spent EXCEPT ![s] = 0]
        /\ tries' = [tries EXCEPT ![s] = tries[s] + 1]
        /\ UNCHANGED <<limits, elapsed, lag, outdated>> /\ phase[s] \in {"request", "response"}
    BY <1>6 DEF SyncRequestFails, Enter
  <2>1. ClockTypes'
    BY <1>1, <1>2, <2>0 DEF ClockTypes, Phases
  <2>2. InBudget(s)'
    <3>1. Used(tries[s] + 1, limits[s]) = Used(tries[s], limits[s]) + Timeout + Backoff
      <4>1. tries[s] \in Nat /\ limits[s] \in Nat
        BY <1>1 DEF ClockTypes
      <4>2. /\ Used(tries[s], limits[s]) \in Nat
            /\ Used(tries[s] + 1, limits[s]) = Used(tries[s], limits[s]) + Slot
        BY <4>1, UsedGrows
      <4>3. QED
        BY <4>2 DEF Slot
    <3>2. /\ elapsed[s] <= Used(tries[s], limits[s]) + spent[s] /\ spent[s] <= Timeout
          /\ spent[s] \in Nat /\ elapsed[s] \in Nat /\ Used(tries[s], limits[s]) \in Nat
      BY <1>1, <2>0, UsedGrows DEF ClockTypes, Budgets, InBudget
    <3>3. elapsed[s] <= Used(tries[s] + 1, limits[s]) - Backoff
      BY <3>1, <3>2
    <3>4. /\ phase'[s] = "backoff" /\ spent'[s] = 0 /\ tries'[s] = tries[s] + 1
          /\ limits'[s] = limits[s] /\ elapsed'[s] = elapsed[s]
      BY <1>1, <2>0 DEF ClockTypes
    <3>5. QED
      BY <3>1, <3>2, <3>3, <3>4 DEF InBudget
  <2>3. tries'[s] <= Tries - 1 /\ limits'[s] <= MaxLimits /\ lag'[s] <= elapsed'[s]
    BY <1>1, <1>6, <2>0 DEF ClockTypes, Budgets
  <2>4. QED
    BY <1>1, <1>2, <2>0, <2>1, <2>2, <2>3, OneSync DEF ClockTypes
<1>7. CASE SyncRateLimited(s) /\ limits[s] < MaxLimits
  <2>0. /\ phase' = [phase EXCEPT ![s] = "paused"] /\ spent' = [spent EXCEPT ![s] = 0]
        /\ limits' = [limits EXCEPT ![s] = limits[s] + 1]
        /\ UNCHANGED <<tries, elapsed, lag, outdated>> /\ phase[s] = "request"
    BY <1>7 DEF SyncRateLimited, Enter
  <2>1. ClockTypes'
    BY <1>1, <1>2, <2>0 DEF ClockTypes, Phases
  <2>2. InBudget(s)'
    <3>1. Used(tries[s], limits[s] + 1) = Used(tries[s], limits[s]) + Timeout + Reset
      <4>1. tries[s] \in Nat /\ limits[s] \in Nat
        BY <1>1 DEF ClockTypes
      <4>2. /\ Used(tries[s], limits[s]) \in Nat
            /\ Used(tries[s], limits[s] + 1) = Used(tries[s], limits[s]) + Pause
        BY <4>1, UsedGrows
      <4>3. QED
        BY <4>2 DEF Pause
    <3>2. /\ elapsed[s] <= Used(tries[s], limits[s]) + spent[s] /\ spent[s] <= Timeout
          /\ spent[s] \in Nat /\ elapsed[s] \in Nat /\ Used(tries[s], limits[s]) \in Nat
      BY <1>1, <2>0, UsedGrows DEF ClockTypes, Budgets, InBudget
    <3>3. elapsed[s] <= Used(tries[s], limits[s] + 1) - Reset
      BY <3>1, <3>2
    <3>4. /\ phase'[s] = "paused" /\ spent'[s] = 0 /\ limits'[s] = limits[s] + 1
          /\ tries'[s] = tries[s] /\ elapsed'[s] = elapsed[s]
      BY <1>1, <2>0 DEF ClockTypes
    <3>5. QED
      BY <3>1, <3>2, <3>3, <3>4 DEF InBudget
  <2>3. tries'[s] <= Tries - 1 /\ limits'[s] <= MaxLimits /\ lag'[s] <= elapsed'[s]
    BY <1>1, <1>7, <2>0 DEF ClockTypes, Budgets
  <2>4. QED
    BY <1>1, <1>2, <2>0, <2>1, <2>2, <2>3, OneSync DEF ClockTypes
<1>8. CASE Resend(s)
  <2>1. ClockTypes'
    BY <1>1, <1>8 DEF Resend, Enter, ClockTypes, Phases
  <2>2. InBudget(s)'
    <3>1. /\ Used(tries[s], limits[s]) \in Nat /\ elapsed[s] \in Nat
          /\ elapsed[s] <= Used(tries[s], limits[s])
      <4>1. /\ tries[s] \in Nat /\ limits[s] \in Nat /\ elapsed[s] \in Nat /\ spent[s] \in Nat
            /\ phase[s] \in {"backoff", "paused"} /\ InBudget(s)
        BY <1>1, <1>8 DEF Resend, ClockTypes, Budgets
      <4>2. Used(tries[s], limits[s]) \in Nat
        BY <4>1, UsedGrows
      <4>3. QED
        BY <4>1, <4>2 DEF InBudget
    <3>2. /\ phase'[s] = "request" /\ spent'[s] = 0 /\ tries'[s] = tries[s]
          /\ limits'[s] = limits[s] /\ elapsed'[s] = elapsed[s]
      BY <1>1, <1>8 DEF Resend, Enter, ClockTypes
    <3>3. QED
      BY <3>1, <3>2 DEF InBudget
  <2>3. QED
    BY <1>1, <1>2, <1>8, <2>1, <2>2, OneSync DEF Resend, Enter, ClockTypes, Budgets
<1>9. QED
  BY <1>3, <1>4, <1>5, <1>6, <1>7, <1>8 DEF SyncRequestFails, SyncRateLimited

\* What is stored is the lag of a request within its budget.
LEMMA StoreKeepsClockInv ==
  ASSUME ClockInv, NEW s \in Syncs, StoreOffset(s)
  PROVE  ClockInv'
<1>1. /\ phase[s] = "response" /\ error' = outdated[s] + lag[s]
      /\ measured' = (outdated[s] = 0) /\ Finish(s)
  BY DEF StoreOffset
<1>2. /\ lag[s] \in Nat /\ outdated[s] \in Int /\ tries[s] \in Nat /\ limits[s] \in Nat
      /\ spent[s] \in Nat /\ elapsed[s] \in Nat
  BY DEF ClockInv, ClockTypes
<1>3. ClockTypes' /\ Budgets'
  <2>1. error' \in Int /\ measured' \in BOOLEAN
    BY <1>1, <1>2
  <2>2. QED
    BY <1>1, <2>1, LeaveKeepsBudget DEF ClockTypes
<1>4. lag[s] <= WorstLag
  <2>1. /\ lag[s] <= elapsed[s] /\ elapsed[s] <= Used(tries[s], limits[s]) + spent[s]
        /\ spent[s] <= Timeout /\ tries[s] <= Tries - 1 /\ limits[s] <= MaxLimits
    BY <1>1 DEF ClockInv, Budgets, InBudget
  <2>2. Used(tries[s], limits[s]) + Timeout <= WorstLag /\ Used(tries[s], limits[s]) \in Nat
    BY <1>2, <2>1, UsedIsBounded, UsedGrows
  <2>3. WorstLag \in Int
    BY Durations DEF WorstLag
  <2>4. QED
    BY <1>2, <2>1, <2>2, <2>3, Durations
<1>5. measured' => outdated[s] = 0
  BY <1>1
<1>6. WorstLag \in Int
  BY Durations DEF WorstLag
<1>7. outdated[s] = 0 => error' \in 0 .. WorstLag
  BY <1>1, <1>2, <1>4, <1>6
<1>8. OffsetErrorBounded'
  BY <1>5, <1>7 DEF OffsetErrorBounded, WorstLag
<1>9. QED
  BY <1>3, <1>8 DEF ClockInv

LEMMA TimeKeepsClockInv ==
  ASSUME ClockInv, TimePasses
  PROVE  ClockInv'
<1>1. /\ UNCHANGED <<phase, tries, limits, lag, outdated, error, measured>>
      /\ spent' = [s \in Syncs |-> IF Idle(s) THEN 0 ELSE spent[s] + 1]
      /\ elapsed' = [s \in Syncs |-> IF Idle(s) THEN 0 ELSE elapsed[s] + 1]
      /\ \A s \in Syncs : ~ Idle(s) => spent[s] < Deadline(s)
  BY DEF TimePasses, Active
<1>2. ClockTypes'
  BY <1>1 DEF ClockInv, ClockTypes
<1>3. Budgets'
  <2> SUFFICES ASSUME NEW s \in Syncs
               PROVE  /\ tries[s] <= Tries - 1 /\ limits[s] <= MaxLimits
                      /\ lag[s] <= elapsed'[s] /\ InBudget(s)'
    BY <1>1 DEF Budgets
  <2>1. /\ tries[s] <= Tries - 1 /\ limits[s] <= MaxLimits /\ lag[s] <= elapsed[s] /\ InBudget(s)
        /\ tries[s] \in Nat /\ limits[s] \in Nat /\ lag[s] \in Nat /\ elapsed[s] \in Nat
        /\ spent[s] \in Nat /\ Used(tries[s], limits[s]) \in Nat /\ phase[s] \in Phases
    BY UsedGrows DEF ClockInv, ClockTypes, Budgets
  <2>2. CASE Idle(s)
    BY <1>1, <2>1, <2>2 DEF Idle, InBudget
  <2>3. CASE ~ Idle(s)
    <3>1. spent'[s] = spent[s] + 1 /\ elapsed'[s] = elapsed[s] + 1 /\ spent[s] < Deadline(s)
      BY <1>1, <2>3
    <3>2. InBudget(s)'
      BY <1>1, <2>1, <2>3, <3>1, Durations DEF InBudget, Deadline, Idle, Phases
    <3>3. QED
      BY <2>1, <3>1, <3>2
  <2>4. QED
    BY <2>2, <2>3
<1>4. OffsetErrorBounded'
  BY <1>1 DEF ClockInv, OffsetErrorBounded
<1>5. QED
  BY <1>2, <1>3, <1>4 DEF ClockInv

LEMMA CorrectionKeepsClockInv ==
  ASSUME ClockInv, LocalClockSteps
  PROVE  ClockInv'
<1>1. /\ UNCHANGED <<phase, tries, limits, spent, elapsed, lag>>
      /\ error' = error - Step /\ measured' = FALSE
      /\ outdated' = [s \in Syncs |-> IF Idle(s) THEN 0 ELSE outdated[s] - Step]
  BY DEF LocalClockSteps
<1>2. ClockTypes'
  <2>1. measured' \in BOOLEAN
    BY <1>1
  <2>2. error' \in Int /\ outdated' \in [Syncs -> Int]
    BY <1>1, Durations DEF ClockInv, ClockTypes
  <2>3. QED
    BY <1>1, <2>1, <2>2 DEF ClockInv, ClockTypes
<1>3. Budgets'
  BY <1>1 DEF ClockInv, Budgets, InBudget
<1>4. OffsetErrorBounded'
  BY <1>1 DEF OffsetErrorBounded
<1>5. QED
  BY <1>2, <1>3, <1>4 DEF ClockInv

LEMMA ClockInvStep == ClockInv /\ [ClockNext]_clockVars => ClockInv'
<1> SUFFICES ASSUME ClockInv, [ClockNext]_clockVars PROVE ClockInv'
  OBVIOUS
<1>1. CASE UNCHANGED clockVars
  BY <1>1 DEF clockVars, ClockInv, ClockTypes, Budgets, InBudget, OffsetErrorBounded
<1>2. QED
  BY <1>1, AttemptsKeepClockInv, StoreKeepsClockInv, TimeKeepsClockInv, CorrectionKeepsClockInv
  DEF ClockNext, SyncStep

\* However many syncs overlap and however they are retried, an offset measured on
\* the present local clock is ahead by at most one retry loop.
THEOREM OffsetIsBounded == ClockSpec => []OffsetErrorBounded
<1>1. ClockInv => OffsetErrorBounded
  BY DEF ClockInv
<1>2. QED
  BY <1>1, ClockInvInit, ClockInvStep, PTL DEF ClockSpec

---------------------------------------------------------------------------------
(* The pages of candles.                                                           *)

PagingTypes ==
  /\ listed \subseteq {k * Granularity : k \in 1 .. History}
  /\ total \in Nat /\ pageSize \in Nat \ {0} /\ pages \in Nat
  /\ now \in Nat /\ History * Granularity <= now
  /\ windowEnd \in Int
  /\ all \in Seq(Int)

\* What was collected is distinct, listed, and lies above the next window.
CollectedAbove ==
  /\ \A i, j \in 1 .. Len(all) : all[i] = all[j] => i = j
  /\ \A i \in 1 .. Len(all) : all[i] \in listed /\ windowEnd + Granularity <= all[i]

\* What the pages so far ought to have found and did not.
Passed ==
  {t \in listed \ malformed : /\ windowEnd + Granularity <= t
                              /\ \A i \in 1 .. Len(all) : all[i] # t}

\* Every page but the first may have passed over one candle.
OnePerBoundary ==
  /\ pages = 0 => windowEnd = now
  /\ pages > 0 => Cardinality(Passed) <= pages - 1

PagingInv == PagingTypes /\ CollectedAbove /\ OnePerBoundary

\* The exchange has finitely many candles, none of them after now.
LEMMA ListedIsFinite ==
  ASSUME PagingTypes
  PROVE  /\ IsFiniteSet(listed)
         /\ \A t \in listed : t \in Nat /\ t <= now
<1>1. ASSUME NEW t \in listed
      PROVE  t \in Nat /\ t <= now
  <2>1. PICK k \in 1 .. History : t = k * Granularity
    BY DEF PagingTypes
  <2>2. k \in Nat /\ Granularity \in Nat /\ History \in Nat /\ k <= History
    BY GranularityAssumption, PagingBoundsAssumption
  <2>3. k * Granularity <= History * Granularity
    BY <2>2, ProductsAreMonotone
  <2>4. t \in Nat /\ History * Granularity \in Nat
    BY <2>1, <2>2
  <2>5. QED
    BY <2>1, <2>3, <2>4 DEF PagingTypes
<1>2. listed \in SUBSET Nat /\ now \in Nat /\ \A t \in listed : t <= now
  BY <1>1 DEF PagingTypes
<1>3. IsFiniteSet(listed)
  BY <1>2, FS_BoundedSetOfNaturals
<1>4. QED
  BY <1>1, <1>3

\* Between the ends of two windows lies less than a candle: one opens there at most.
LEMMA OneCandleBetween ==
  ASSUME PagingTypes, NEW t \in listed, NEW u \in listed, NEW w \in Int,
         w < t, t < w + Granularity, w < u, u < w + Granularity
  PROVE  t = u
<1>1. Granularity \in Nat \ {0} /\ History \in Nat
  BY GranularityAssumption, PagingBoundsAssumption
<1>2. PICK k \in 1 .. History, m \in 1 .. History : t = k * Granularity /\ u = m * Granularity
  BY DEF PagingTypes
<1>3. ASSUME NEW a \in Nat, NEW b \in Nat, a < b
      PROVE  a * Granularity + Granularity <= b * Granularity
  <2>1. (a + 1) * Granularity <= b * Granularity
    BY <1>1, <1>3, ProductsAreMonotone
  <2>2. (a + 1) * Granularity = a * Granularity + Granularity
    BY <1>1
  <2>3. QED
    BY <2>1, <2>2
<1>4. k \in Nat /\ m \in Nat /\ t \in Nat /\ u \in Nat
  BY <1>1, <1>2
<1>5. ~ k < m
  BY <1>1, <1>2, <1>3, <1>4
<1>6. ~ m < k
  BY <1>1, <1>2, <1>3, <1>4
<1>7. k = m
  BY <1>4, <1>5, <1>6
<1>8. QED
  BY <1>2, <1>7

\* A page holds the candles of its window, each once.
LEMMA PageIsWindow ==
  ASSUME PagingTypes, NEW page \in Page
  PROVE  /\ page \in Seq(Int)
         /\ \A i \in 1 .. Len(page) : page[i] \in Window \ malformed
         /\ \A i, j \in 1 .. Len(page) : page[i] = page[j] => i = j
         /\ \A t \in Window \ malformed : \E i \in 1 .. Len(page) : page[i] = t
<1> DEFINE S == Window \ malformed
<1> DEFINE D == 1 .. Cardinality(S)
<1>1. S \in SUBSET listed /\ S \subseteq Int
  BY ListedIsFinite DEF Window
<1>2. IsFiniteSet(S) /\ Cardinality(S) \in Nat
  BY <1>1, ListedIsFinite, FS_Subset, FS_CardinalityType
<1>3. page \in [D -> S] /\ \A i, j \in D : i # j => page[i] # page[j]
  BY DEF Page, SetToSeqs
<1> HIDE DEF S
<1>4. page \in Seq(Int) /\ Len(page) = Cardinality(S) /\ D = 1 .. Len(page)
  <2>1. PICK n \in Nat : n = Cardinality(S)
    BY <1>2
  <2>2. page \in [1 .. n -> Int]
    BY <1>1, <1>3, <2>1
  <2>3. page \in Seq(Int) /\ Len(page) = n
    BY <2>2
  <2>4. QED
    BY <2>1, <2>3
<1>5. page \in Injection(D, S)
  BY <1>3 DEF Injection, IsInjective
<1>6. page \in Surjection(D, S)
  <2>1. IsFiniteSet(D) /\ Cardinality(D) = Cardinality(S)
    BY <1>2, FS_Interval
  <2>2. QED
    BY <1>2, <1>5, <2>1, FS_Injection
<1>7. \A t \in S : \E i \in D : page[i] = t
  BY <1>6 DEF Surjection
<1>8. QED
  BY <1>3, <1>4, <1>7 DEF S

LEMMA WindowBegins ==
  ASSUME PagingTypes, Len(all) < total
  PROVE  WindowStart \in Int /\ WindowStart <= windowEnd
<1> DEFINE n == Min({total - Len(all), pageSize})
<1>1. total - Len(all) \in Nat /\ pageSize \in Nat
  BY DEF PagingTypes
<1>2. n \in Nat
  BY <1>1 DEF Min
<1> HIDE DEF n
<1>3. Granularity * n \in Nat
  BY <1>2, GranularityAssumption
<1>4. WindowStart = windowEnd - Granularity * n
  BY DEF WindowStart, n
<1>5. QED
  BY <1>3, <1>4 DEF PagingTypes

\* A page adds what its window holds; besides, one candle between this window and
\* the one before may have been passed over.
LEMMA FetchKeepsInv ==
  ASSUME PagingInv, FetchPage
  PROVE  PagingInv'
<1>1. PagingTypes /\ CollectedAbove /\ OnePerBoundary
  BY DEF PagingInv
<1>2. PICK page \in Page : all' = all \o page
  BY DEF FetchPage
<1>3. /\ Len(all) < total
      /\ listed' = listed /\ malformed' = malformed /\ total' = total /\ pageSize' = pageSize
      /\ now' = now
  BY DEF FetchPage
<1>4. /\ page \in Seq(Int)
      /\ \A i \in 1 .. Len(page) : page[i] \in Window \ malformed
      /\ \A i, j \in 1 .. Len(page) : page[i] = page[j] => i = j
      /\ \A t \in Window \ malformed : \E i \in 1 .. Len(page) : page[i] = t
  BY <1>1, PageIsWindow
<1> DEFINE n == Len(all)
           m == Len(page)
<1>5. /\ n \in Nat /\ m \in Nat /\ all' \in Seq(Int) /\ Len(all') = n + m
      /\ \A i \in 1 .. n : all'[i] = all[i]
      /\ \A i \in n + 1 .. n + m : i - n \in 1 .. m /\ all'[i] = page[i - n]
      /\ \A i \in 1 .. m : n + i \in 1 .. n + m /\ all'[n + i] = page[i]
  <2>1. all \in Seq(Int) /\ n \in Nat /\ m \in Nat
    BY <1>1, <1>4, LenProperties DEF PagingTypes
  <2>2. /\ all' \in Seq(Int) /\ Len(all') = n + m
        /\ \A i \in 1 .. n + m : all'[i] = IF i <= n THEN all[i] ELSE page[i - n]
    BY <1>2, <1>4, <2>1, ConcatProperties
  <2> HIDE DEF n, m
  <2>3. QED
    BY <2>1, <2>2
<1>6. Granularity \in Nat \ {0} /\ WindowStart \in Int /\ WindowStart <= windowEnd
  BY <1>1, <1>3, GranularityAssumption, WindowBegins
<1>7. windowEnd \in Int /\ pages \in Nat
  BY <1>1 DEF PagingTypes
<1>8. \A i \in 1 .. m : page[i] \in listed /\ WindowStart <= page[i] /\ page[i] <= windowEnd
  BY <1>4 DEF Window
<1> HIDE DEF n, m
<1>9. n = Len(all) /\ m = Len(page)
  BY DEF n, m
<1>10. \A t \in listed : t \in Nat /\ t <= now
  BY <1>1, ListedIsFinite
<1>11. \A i, j \in 1 .. Len(all') : all'[i] = all'[j] => i = j
  <2>1. SUFFICES ASSUME NEW i \in 1 .. n + m, NEW j \in 1 .. n + m, all'[i] = all'[j]
                 PROVE  i = j
    BY <1>5
  <2>2. ASSUME NEW k \in 1 .. n, NEW l \in n + 1 .. n + m
        PROVE  all'[k] # all'[l]
    <3>1. all'[k] = all[k] /\ all[k] \in Nat /\ windowEnd + Granularity <= all[k]
      BY <1>1, <1>5, <1>9, <1>10 DEF CollectedAbove
    <3>2. all'[l] = page[l - n] /\ page[l - n] \in Nat /\ page[l - n] <= windowEnd
      BY <1>5, <1>8, <1>10
    <3>3. QED
      BY <1>6, <1>7, <3>1, <3>2
  <2>3. CASE i \in 1 .. n /\ j \in 1 .. n
    BY <1>1, <1>5, <1>9, <2>1, <2>3 DEF CollectedAbove
  <2>4. CASE i \in n + 1 .. n + m /\ j \in n + 1 .. n + m
    <3>1. i - n \in 1 .. m /\ j - n \in 1 .. m /\ page[i - n] = page[j - n]
      BY <1>5, <2>1, <2>4
    <3>2. i - n = j - n
      BY <1>4, <1>9, <3>1
    <3>3. QED
      BY <1>5, <3>2
  <2>5. QED
    BY <1>5, <2>1, <2>2, <2>3, <2>4
<1>12. \A i \in 1 .. Len(all') : all'[i] \in listed /\ WindowStart <= all'[i]
  <2>1. ASSUME NEW i \in 1 .. n
        PROVE  all'[i] \in listed /\ WindowStart <= all'[i]
    <3>1. all'[i] = all[i] /\ all[i] \in listed /\ all[i] \in Nat
          /\ windowEnd + Granularity <= all[i]
      BY <1>1, <1>5, <1>9, <1>10 DEF CollectedAbove
    <3>2. QED
      BY <1>6, <1>7, <3>1
  <2>2. ASSUME NEW i \in n + 1 .. n + m
        PROVE  all'[i] \in listed /\ WindowStart <= all'[i]
    BY <1>5, <1>8
  <2>3. QED
    BY <1>5, <2>1, <2>2
<1>13. CASE Window = {}
  <2>1. windowEnd' = windowEnd /\ pages' = pages
    BY <1>13 DEF FetchPage
  <2>2. m = 0
    BY <1>4, <1>5, <1>9, <1>13
  <2>3. Len(all') = Len(all) /\ \A i \in 1 .. Len(all) : all'[i] = all[i]
    BY <1>5, <1>9, <2>2
  <2>4. PagingTypes'
    BY <1>1, <1>3, <1>5, <2>1 DEF PagingTypes
  <2>5. CollectedAbove'
    BY <1>1, <1>3, <2>1, <2>3 DEF CollectedAbove
  <2>6. Passed' = Passed
    BY <1>3, <2>1, <2>3 DEF Passed
  <2>7. OnePerBoundary'
    BY <1>1, <1>3, <2>1, <2>6 DEF OnePerBoundary
  <2>8. QED
    BY <2>4, <2>5, <2>7 DEF PagingInv
<1>14. CASE Window # {}
  <2>1. windowEnd' = WindowStart - Granularity /\ pages' = pages + 1
    BY <1>14 DEF FetchPage, NextWindowEnd
  <2>2. windowEnd' \in Int /\ windowEnd' + Granularity = WindowStart
    BY <1>6, <2>1
  <2>3. PagingTypes'
    BY <1>1, <1>3, <1>5, <1>7, <2>1, <2>2 DEF PagingTypes
  <2>4. CollectedAbove'
    BY <1>3, <1>11, <1>12, <2>2 DEF CollectedAbove
  <2> DEFINE Between == {t \in listed : windowEnd < t /\ t < windowEnd + Granularity}
  <2>5. Passed' \subseteq Passed \cup Between
    <3>1. SUFFICES ASSUME NEW t \in Passed'
                   PROVE  t \in Passed \cup Between
      OBVIOUS
    <3>2. /\ t \in listed \ malformed /\ WindowStart <= t
          /\ \A i \in 1 .. n + m : all'[i] # t
      BY <1>3, <1>5, <2>2 DEF Passed
    <3>3. t \in Nat
      BY <1>10, <3>2
    <3>4. ~ t <= windowEnd
      <4>1. SUFFICES ASSUME t <= windowEnd
                     PROVE  FALSE
        OBVIOUS
      <4>2. t \in Window \ malformed
        BY <3>2, <4>1 DEF Window
      <4>3. PICK i \in 1 .. m : page[i] = t
        BY <1>4, <1>9, <4>2
      <4>4. QED
        BY <1>5, <3>2, <4>3
    <3>5. CASE windowEnd + Granularity <= t
      BY <1>5, <1>9, <3>2, <3>5 DEF Passed
    <3>6. CASE ~ windowEnd + Granularity <= t
      BY <1>6, <1>7, <3>2, <3>3, <3>4, <3>6
    <3>7. QED
      BY <3>5, <3>6
  <2>6. IsFiniteSet(listed) /\ Passed \in SUBSET listed /\ Between \in SUBSET listed
    BY <1>1, ListedIsFinite DEF Passed
  <2>7. IsFiniteSet(Passed) /\ Cardinality(Passed) \in Nat
    BY <2>6, FS_Subset, FS_CardinalityType
  <2>8. CASE pages = 0
    <3>1. windowEnd = now
      BY <1>1, <2>8 DEF OnePerBoundary
    <3>2. ASSUME NEW t \in Passed'
          PROVE  FALSE
      <4>1. t \in listed /\ windowEnd < t
        <5>1. t \in Passed \/ t \in Between
          BY <2>5, <3>2
        <5>2. CASE t \in Passed
          <6>1. t \in listed /\ windowEnd + Granularity <= t
            BY <5>2 DEF Passed
          <6>2. QED
            BY <1>6, <1>7, <1>10, <6>1
        <5>3. CASE t \in Between
          BY <5>3
        <5>4. QED
          BY <5>1, <5>2, <5>3
      <4>2. t \in Nat /\ t <= now
        BY <1>10, <4>1
      <4>3. QED
        BY <1>7, <3>1, <4>1, <4>2
    <3>3. Passed' = {}
      BY <3>2
    <3>4. Cardinality(Passed') = 0
      BY <3>3, FS_EmptySet
    <3>5. QED
      BY <2>1, <2>3, <2>4, <2>8, <3>4 DEF PagingInv, OnePerBoundary
  <2>9. CASE pages > 0
    <3>1. Cardinality(Passed) <= pages - 1
      BY <1>1, <2>9 DEF OnePerBoundary
    <3>2. Cardinality(Passed') <= Cardinality(Passed) + 1 /\ Cardinality(Passed') \in Nat
      <4>1. PICK x : Between \subseteq {x}
        <5>1. CASE Between = {}
          BY <5>1
        <5>2. CASE Between # {}
          <6>1. PICK x : x \in Between
            BY <5>2
          <6>2. \A t \in Between : t = x
            BY <1>1, <1>7, <6>1, OneCandleBetween
          <6>3. QED
            BY <6>2
        <5>3. QED
          BY <5>1, <5>2
      <4> HIDE DEF Between
      <4>2. Passed' \in SUBSET (Passed \cup {x})
        BY <2>5, <4>1
      <4>3. /\ IsFiniteSet(Passed \cup {x})
            /\ Cardinality(Passed \cup {x}) =
                 IF x \in Passed THEN Cardinality(Passed) ELSE Cardinality(Passed) + 1
        BY <2>7, FS_AddElement
      <4>4. /\ IsFiniteSet(Passed') /\ Cardinality(Passed') <= Cardinality(Passed \cup {x})
        BY <4>2, <4>3, FS_Subset
      <4>5. Cardinality(Passed') \in Nat
        BY <4>4, FS_CardinalityType
      <4>6. QED
        BY <2>7, <4>3, <4>4, <4>5
    <3>3. pages' > 0 /\ Cardinality(Passed') <= pages' - 1
      BY <1>7, <2>1, <2>7, <2>9, <3>1, <3>2
    <3>4. OnePerBoundary'
      BY <1>7, <2>1, <2>9, <3>3 DEF OnePerBoundary
    <3>5. QED
      BY <2>3, <2>4, <3>4 DEF PagingInv
  <2>10. QED
    BY <1>7, <2>8, <2>9
<1>15. QED
  BY <1>13, <1>14

LEMMA PagingStart == PagingInit => PagingInv
<1> SUFFICES ASSUME PagingInit
             PROVE  PagingInv
  OBVIOUS
<1>1. Granularity \in Nat \ {0} /\ History \in Nat /\ MaxTotal \in Nat /\ MaxPage \in Nat
  BY GranularityAssumption, PagingBoundsAssumption
<1>2. History * Granularity \in Nat
  BY <1>1
<1>3. now \in Nat /\ History * Granularity <= now
  <2>1. now \in History * Granularity .. (History + 1) * Granularity - 1
    BY DEF PagingInit
  <2>2. (History + 1) * Granularity \in Nat
    BY <1>1
  <2>3. QED
    BY <1>2, <2>1, <2>2
<1>4. PagingTypes
  BY <1>1, <1>3 DEF PagingInit, PagingTypes
<1>5. Len(all) = 0 /\ pages = 0 /\ windowEnd = now
  BY DEF PagingInit
<1>6. CollectedAbove /\ OnePerBoundary
  BY <1>5 DEF CollectedAbove, OnePerBoundary
<1>7. QED
  BY <1>4, <1>6 DEF PagingInv

LEMMA PagingStep == PagingInv /\ [PagingNext]_pagingVars => PagingInv'
<1> SUFFICES ASSUME PagingInv, [PagingNext]_pagingVars
             PROVE  PagingInv'
  OBVIOUS
<1>1. CASE FetchPage
  BY <1>1, FetchKeepsInv
<1>2. CASE PageFails \/ EnoughPages \/ UNCHANGED pagingVars
  <2>1. /\ listed' = listed /\ malformed' = malformed /\ total' = total /\ pageSize' = pageSize
        /\ now' = now /\ windowEnd' = windowEnd /\ all' = all /\ pages' = pages
    BY <1>2 DEF PageFails, EnoughPages, pagingVars
  <2>2. Passed' = Passed
    BY <2>1 DEF Passed
  <2>3. QED
    BY <2>1, <2>2 DEF PagingInv, PagingTypes, CollectedAbove, OnePerBoundary
<1>3. QED
  BY <1>1, <1>2 DEF PagingNext

\* What is missing was passed over at a boundary or cut off.
LEMMA MissingIsCounted ==
  ASSUME PagingInv, Fetched # {}
  PROVE  Cardinality(Missing) <= (pages - 1) + (Len(all) - Cardinality(Fetched))
<1>1. PagingTypes /\ CollectedAbove /\ OnePerBoundary
  BY DEF PagingInv
<1>2. all \in Seq(Int) /\ Len(all) \in Nat /\ DOMAIN all = 1 .. Len(all) /\ pages \in Nat
  BY <1>1, LenProperties DEF PagingTypes
<1> DEFINE D == 1 .. Len(all)
           Cut == D \ Fetched
           CutOff == {all[i] : i \in Cut}
<1>3. Fetched \in SUBSET D
  BY <1>2 DEF Fetched
<1>4. /\ IsFiniteSet(D) /\ Cardinality(D) = Len(all)
      /\ IsFiniteSet(Fetched) /\ Cardinality(Fetched) \in Nat
      /\ IsFiniteSet(Cut) /\ Cardinality(Cut) = Len(all) - Cardinality(Fetched)
  <2>1. IsFiniteSet(D) /\ Cardinality(D) = Len(all)
    BY <1>2, FS_Interval
  <2>2. IsFiniteSet(Fetched) /\ Cardinality(Fetched) \in Nat
    BY <1>3, <2>1, FS_Subset, FS_CardinalityType
  <2>3. /\ IsFiniteSet(D \ Fetched)
        /\ Cardinality(D \ Fetched) = Cardinality(D) - Cardinality(D \cap Fetched)
    BY <2>1, FS_Difference
  <2>4. D \cap Fetched = Fetched
    BY <1>3
  <2> HIDE DEF D
  <2>5. QED
    BY <2>1, <2>2, <2>3, <2>4
<1>5. IsFiniteSet(CutOff) /\ Cardinality(CutOff) <= Cardinality(Cut)
  <2> DEFINE f == [i \in Cut |-> all[i]]
  <2>1. f \in Surjection(Cut, CutOff)
    BY DEF Surjection
  <2> HIDE DEF f, Cut, CutOff
  <2>2. QED
    BY <1>4, <2>1, FS_Surjection DEF Cut
<1>6. PICK i \in D : i \in Fetched
  BY <1>3
<1>7. pages > 0
  <2>1. SUFFICES ASSUME pages = 0
                 PROVE  FALSE
    BY <1>2
  <2>2. all[i] \in listed /\ windowEnd + Granularity <= all[i] /\ windowEnd = now
    BY <1>1, <2>1 DEF CollectedAbove, OnePerBoundary
  <2>3. all[i] \in Nat /\ all[i] <= now /\ now \in Nat
    BY <1>1, <2>2, ListedIsFinite DEF PagingTypes
  <2>4. QED
    BY <2>2, <2>3, GranularityAssumption
<1>8. Missing \subseteq Passed \cup CutOff
  <2>1. SUFFICES ASSUME NEW t \in Missing
                 PROVE  t \in Passed \cup CutOff
    OBVIOUS
  <2>2. /\ t \in listed \ malformed
        /\ \E k \in Fetched : all[k] <= t
        /\ \A k \in Fetched : all[k] # t
    BY DEF Missing
  <2>3. PICK k \in D : k \in Fetched /\ all[k] <= t
    BY <1>3, <2>2
  <2>4. windowEnd + Granularity <= t
    <3>1. all[k] \in listed /\ windowEnd + Granularity <= all[k]
      BY <1>1, <2>3 DEF CollectedAbove
    <3>2. all[k] \in Nat /\ t \in Nat /\ windowEnd + Granularity \in Int
      BY <1>1, <2>2, <3>1, ListedIsFinite, GranularityAssumption DEF PagingTypes
    <3>3. QED
      BY <2>3, <3>1, <3>2
  <2>5. CASE \E j \in D : all[j] = t
    BY <2>2, <2>5
  <2>6. CASE \A j \in D : all[j] # t
    BY <2>2, <2>4, <2>6 DEF Passed
  <2>7. QED
    BY <2>5, <2>6
<1>9. IsFiniteSet(Passed) /\ Cardinality(Passed) \in Nat /\ Cardinality(Passed) <= pages - 1
  <2>1. Passed \in SUBSET listed /\ IsFiniteSet(listed)
    BY <1>1, ListedIsFinite DEF Passed
  <2>2. QED
    BY <1>1, <1>7, <2>1, FS_Subset, FS_CardinalityType DEF OnePerBoundary
<1> HIDE DEF D, Cut, CutOff
<1>10. Cardinality(CutOff) \in Nat /\ Cardinality(Cut) \in Nat
  BY <1>4, <1>5, FS_CardinalityType
<1>11. /\ IsFiniteSet(Passed \cup CutOff)
       /\ Cardinality(Passed \cup CutOff) <= Cardinality(Passed) + Cardinality(CutOff)
  <2>1. /\ IsFiniteSet(Passed \cup CutOff)
        /\ Cardinality(Passed \cup CutOff) =
             Cardinality(Passed) + Cardinality(CutOff) - Cardinality(Passed \cap CutOff)
    BY <1>5, <1>9, FS_Union
  <2>2. Cardinality(Passed \cap CutOff) \in Nat
    <3>1. Passed \cap CutOff \in SUBSET Passed
      OBVIOUS
    <3>2. QED
      BY <1>9, <3>1, FS_Subset, FS_CardinalityType
  <2>3. QED
    BY <1>9, <1>10, <2>1, <2>2
<1>12. Cardinality(Missing) <= Cardinality(Passed \cup CutOff) /\ Cardinality(Missing) \in Nat
  <2>1. Missing \in SUBSET (Passed \cup CutOff)
    BY <1>8
  <2>2. IsFiniteSet(Missing) /\ Cardinality(Missing) <= Cardinality(Passed \cup CutOff)
    BY <1>11, <2>1, FS_Subset
  <2>3. QED
    BY <2>2, FS_CardinalityType
<1>13. Cardinality(Passed \cup CutOff) \in Nat
  BY <1>11, FS_CardinalityType
<1>14. QED
  BY <1>2, <1>4, <1>5, <1>9, <1>10, <1>11, <1>12, <1>13

\* No candle twice, and at most one lost per boundary between two pages, for every
\* history with any gaps, every total and every page size (fetch_klines_extended).
THEOREM OneCandleLostPerBoundary == PagingSpec => []LosesOneCandlePerBoundary
<1>1. PagingInv => LosesOneCandlePerBoundary
  <2>1. SUFFICES ASSUME PagingInv
                 PROVE  LosesOneCandlePerBoundary
    OBVIOUS
  <2>2. \A i, j \in DOMAIN all : all[i] = all[j] => i = j
    BY <2>1 DEF PagingInv, PagingTypes, CollectedAbove
  <2>3. QED
    BY <2>1, <2>2, MissingIsCounted DEF LosesOneCandlePerBoundary
<1>2. QED
  BY PagingStart, PagingStep, <1>1, PTL DEF PagingSpec
=================================================================================
