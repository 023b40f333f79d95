--------------------------- MODULE RestClient_proofs ---------------------------
(* Proofs about RestClient, for every set of calls and clients, every number of   *)
(* retries and rate-limit hits, every clock and every number of restarts.         *)
EXTENDS RestClient, FiniteSetTheorems, TLAPS

\* A call that backs off has an attempt left.
BackoffHasAttempt == \A c \in Calls : pc[c] = "backoff" => attempt[c] < Retries - 1

TypeInv == RestTypeOK /\ BackoffHasAttempt

-------------------------------------------------------------------------------
(* Nonces *)

\* What one process draws, and the exchange takes from it, stays below its counter.
NoncesBelowSource ==
  /\ \A m \in flight : m.life <= restarts /\ (m.life = restarts => m.nonce < source)
  /\ highest.life <= restarts
  /\ highest.life = restarts => highest.nonce < source \/ highest.nonce = 0

DrawIsPositive == \A c \in Calls : pc[c] = "draw" => source > 0

\* No request of a call carries a higher nonce than the one it waits for.
AwaitedIsNewest ==
  \A m \in flight : m.life = restarts /\ pc[m.call] = "waiting" => m.nonce <= nonce[m.call]

NonceInv == /\ TypeInv
            /\ HasNonce => NoncesBelowSource /\ DrawIsPositive /\ AwaitedIsNewest
            /\ NoncesUnique
            /\ OnlyOthersOvertake

-------------------------------------------------------------------------------
(* Executions *)

\* Attempt a of call c left no request behind that can still be carried out, and
\* none that was.
Untried(c, a) == /\ \A m \in flight : m.call = c => m.attempt # a
                 /\ \A x \in executed[c] : x[1] # a

\* An attempt is untried until its request is sent, and again after a 429.
UntriedBeforeSend ==
  \A c \in Calls :
    pc[c] \in {"sign", "draw", "paused"} \/ answer[c] = "429" => Untried(c, attempt[c])

NoneBeforeStart ==
  \A c \in Calls : pc[c] = "idle" =>
    /\ \A m \in flight : m.call # c
    /\ executed[c] = {} /\ attempt[c] = 0 /\ answer[c] = None

\* No attempt ahead of the loop's counter.
NoneAhead ==
  \A c \in Calls : pc[c] # "done" =>
    /\ \A m \in flight : m.call = c => m.attempt <= attempt[c]
    /\ \A x \in executed[c] : x[1] <= attempt[c]

\* An attempt in flight is the only one of its number, and was not executed.
OneInFlight ==
  /\ \A m1, m2 \in flight : m1.call = m2.call /\ m1.attempt = m2.attempt => m1 = m2
  /\ \A m \in flight : \A x \in executed[m.call] : x[1] # m.attempt

AnswersAreAwaited == \A c \in Calls : answer[c] # None => pc[c] = "waiting"

AttemptInv == /\ TypeInv
              /\ UntriedBeforeSend /\ NoneBeforeStart /\ NoneAhead /\ OneInFlight
              /\ AnswersAreAwaited
              /\ OncePerAttempt

\* The key of a call is its own, and once it acted the venue holds the key.
KeyInv ==
  /\ AttemptInv
  /\ \A m \in flight : m.key = m.call
  /\ \A c \in Calls : Keyed(c) /\ KeyIsPermanent =>
       executed[c] = {} \/ (c \in keysUsed /\ \E x : executed[c] = {x})

-------------------------------------------------------------------------------
(* Types *)

LEMMA Constants ==
  /\ Retries \in Nat \ {0} /\ MaxHits \in Nat
  /\ MaxClock \in Nat \ {0} /\ MaxRestarts \in Nat
  /\ None # "429"
  BY RetriesAssumption, HitsAssumption, BoundsAssumption, NoneAssumption DEF Answers

LEMMA RequestType ==
  ASSUME RestTypeOK, NEW c \in Calls, NEW n \in Nat
  PROVE  Request(c, n) \in RequestsInFlight
  BY Constants DEF RestTypeOK, Request, Key, RequestsInFlight

LEMMA FlightFields ==
  ASSUME RestTypeOK, NEW m \in flight
  PROVE  /\ m \in RequestsInFlight
         /\ m.call \in Calls /\ m.attempt \in 0 .. Retries - 1 /\ m.hit \in 0 .. MaxHits
         /\ m.nonce \in Nat /\ m.life \in 0 .. MaxRestarts
<1>1. m \in RequestsInFlight
  BY DEF RestTypeOK
<1>2. QED
  BY <1>1 DEF RequestsInFlight

LEMMA AbstractType == \A r : Abstract(r) \in [acts : BOOLEAN, keyed : BOOLEAN]
  BY DEF Abstract

LEMMA ReturnKeepsTypes ==
  ASSUME TypeInv, NEW c \in Calls, NEW r, Return(c, r)
  PROVE  /\ pc' \in [Calls -> PCs] /\ result' \in [Calls -> Reactions \cup {None}]
         /\ attempt' \in [Calls -> 0 .. Retries - 1] /\ hits' \in [Calls -> 0 .. MaxHits]
         /\ nonce' \in [Calls -> Nat]
         /\ BackoffHasAttempt'
<1>1. ClassifySubmit(r) \in Reactions
  BY DEF ClassifySubmit, Reactions
<1>2. QED
  BY <1>1, Constants DEF Return, TypeInv, RestTypeOK, BackoffHasAttempt, PCs

LEMMA TypeInit == Init => TypeInv
  BY Constants DEF Init, TypeInv, RestTypeOK, BackoffHasAttempt, NoRequestYet, PCs

LEMMA StartKeepsTypes ==
  ASSUME TypeInv, NEW c \in Calls, Start(c)
  PROVE  TypeInv'
<1>1. UNCHANGED <<client, answer, clock, restarts, flight, exchangeVars>>
  BY DEF Start
<1>2. op' \in [Calls -> [acts : BOOLEAN, keyed : BOOLEAN]]
  BY AbstractType DEF Start, TypeInv, RestTypeOK
<1>3. source' \in Nat
  BY DEF Start, Larger, TypeInv, RestTypeOK
<1>4. /\ pc' \in [Calls -> PCs] /\ result' \in [Calls -> Reactions \cup {None}]
      /\ attempt' \in [Calls -> 0 .. Retries - 1] /\ hits' \in [Calls -> 0 .. MaxHits]
      /\ nonce' \in [Calls -> Nat]
      /\ BackoffHasAttempt'
  <2>1. CASE \E r \in {"ok", "refused"} : Return(c, r)
    BY <2>1, ReturnKeepsTypes
  <2>2. CASE GoTo(c, "sign") /\ UNCHANGED <<attempt, hits, nonce>>
    BY <2>2 DEF GoTo, TypeInv, RestTypeOK, BackoffHasAttempt, PCs
  <2>3. QED
    BY <2>1, <2>2 DEF Start
<1>5. QED
  BY <1>1, <1>2, <1>3, <1>4 DEF TypeInv, RestTypeOK, exchangeVars

LEMMA SendKeepsTypes ==
  ASSUME TypeInv, NEW c \in Calls, RaiseFloor(c) \/ DrawAndSend(c) \/ SignAndSend(c)
  PROVE  TypeInv'
<1>1. /\ UNCHANGED <<client, op, attempt, hits, answer, clock, restarts, exchangeVars>>
      /\ GoTo(c, "draw") \/ GoTo(c, "waiting")
  BY DEF RaiseFloor, DrawAndSend, SignAndSend, clientVars
<1>2. source' \in Nat /\ nonce' \in [Calls -> Nat]
  BY DEF RaiseFloor, DrawAndSend, SignAndSend, clientVars, Larger, TypeInv, RestTypeOK
<1>3. flight' \subseteq RequestsInFlight
  <2>1. Request(c, source) \in RequestsInFlight /\ Request(c, 0) \in RequestsInFlight
    BY RequestType DEF TypeInv, RestTypeOK
  <2>2. flight \subseteq RequestsInFlight
    BY DEF TypeInv, RestTypeOK
  <2>3. QED
    BY <2>1, <2>2 DEF RaiseFloor, DrawAndSend, SignAndSend
<1>4. pc' \in [Calls -> PCs] /\ result' = result /\ BackoffHasAttempt'
  BY <1>1 DEF GoTo, TypeInv, RestTypeOK, BackoffHasAttempt, PCs
<1>5. QED
  BY <1>1, <1>2, <1>3, <1>4 DEF TypeInv, RestTypeOK, exchangeVars

LEMMA AnswerKeepsTypes ==
  ASSUME TypeInv, NEW c \in Calls, ReadAnswer(c) \/ NetworkError(c) \/ WakeUp(c)
  PROVE  TypeInv'
<1>1. UNCHANGED <<client, op, clientVars, flight, exchangeVars>>
  BY DEF ReadAnswer, NetworkError, WakeUp
<1>2. answer' \in [Calls -> Answers \cup {None}]
  BY DEF ReadAnswer, NetworkError, WakeUp, TypeInv, RestTypeOK
<1>3. /\ pc' \in [Calls -> PCs] /\ result' \in [Calls -> Reactions \cup {None}]
      /\ attempt' \in [Calls -> 0 .. Retries - 1] /\ hits' \in [Calls -> 0 .. MaxHits]
      /\ nonce' \in [Calls -> Nat]
      /\ BackoffHasAttempt'
  <2>1. CASE \E r : Return(c, r)
    BY <2>1, ReturnKeepsTypes
  <2>2. CASE /\ hits[c] < MaxHits /\ hits' = [hits EXCEPT ![c] = hits[c] + 1]
             /\ GoTo(c, "paused") /\ UNCHANGED <<attempt, nonce>>
    BY <2>2, Constants DEF GoTo, TypeInv, RestTypeOK, BackoffHasAttempt, PCs
  <2>3. CASE /\ attempt[c] < Attempts - 1
             /\ GoTo(c, "backoff") /\ UNCHANGED <<attempt, hits, nonce>>
    <3>1. attempt[c] < Retries - 1
      BY <2>3, Constants DEF Attempts, TypeInv, RestTypeOK
    <3>2. QED
      BY <2>3, <3>1 DEF GoTo, TypeInv, RestTypeOK, BackoffHasAttempt, PCs
  <2>4. CASE WakeUp(c)
    <3>1. pc' \in [Calls -> PCs] /\ result' = result /\ hits' = hits /\ nonce' = nonce
      BY <2>4 DEF WakeUp, GoTo, TypeInv, RestTypeOK, PCs
    <3>2. attempt' \in [Calls -> 0 .. Retries - 1]
      BY <2>4, Constants DEF WakeUp, TypeInv, RestTypeOK, BackoffHasAttempt
    <3>3. \A d \in Calls : pc'[d] = "backoff" => pc[d] = "backoff" /\ attempt'[d] = attempt[d]
      BY <2>4 DEF WakeUp, GoTo, TypeInv, RestTypeOK
    <3>4. QED
      BY <3>1, <3>2, <3>3 DEF TypeInv, RestTypeOK, BackoffHasAttempt
  <2>5. QED
    BY <2>1, <2>2, <2>3, <2>4 DEF ReadAnswer, NetworkError
<1>4. QED
  BY <1>1, <1>2, <1>3 DEF TypeInv, RestTypeOK, clientVars, exchangeVars

LEMMA ExchangeKeepsTypes ==
  ASSUME TypeInv, NEW m \in flight, NEW outcome \in Outcomes(m), Process(m, outcome)
  PROVE  TypeInv'
<1>1. UNCHANGED <<client, op, pc, attempt, hits, nonce, result, clientVars>>
  BY DEF Process
<1>2. /\ m.call \in Calls /\ m.attempt \in 0 .. Retries - 1 /\ m.hit \in 0 .. MaxHits
      /\ m.nonce \in Nat /\ m.life \in 0 .. MaxRestarts /\ m.key \in Calls
  BY FlightFields DEF TypeInv, RestTypeOK, RequestsInFlight
<1>3. flight' \subseteq RequestsInFlight
  BY DEF Process, TypeInv, RestTypeOK
<1>4. outcome \in Answers
  BY DEF Outcomes, Answers
<1>5. answer' \in [Calls -> Answers \cup {None}]
  BY <1>2, <1>4 DEF Process, TypeInv, RestTypeOK
<1>6. executed' \in [Calls -> SUBSET ((0 .. Retries - 1) \X (0 .. MaxHits))]
  <2>1. <<m.attempt, m.hit>> \in (0 .. Retries - 1) \X (0 .. MaxHits)
    BY <1>2
  <2>2. QED
    BY <1>2, <2>1 DEF Process, TypeInv, RestTypeOK
<1>7. keysUsed' \subseteq Calls
  BY <1>2 DEF Process, TypeInv, RestTypeOK
<1>8. highest' \in [nonce : Nat, call : Calls \cup {None}, life : 0 .. MaxRestarts]
  BY <1>2 DEF Process, Take, TypeInv, RestTypeOK
<1>9. QED
  BY <1>1, <1>3, <1>5, <1>6, <1>7, <1>8 DEF TypeInv, RestTypeOK, BackoffHasAttempt, clientVars

LEMMA EnvironmentKeepsTypes ==
  ASSUME TypeInv,
         \/ \E k \in keysUsed : KeyFreed(k)
         \/ \E t \in 1 .. MaxClock : ClockSteps(t)
         \/ Restart
  PROVE  TypeInv'
<1>1. CASE \E k \in keysUsed : KeyFreed(k)
  BY <1>1 DEF KeyFreed, TypeInv, RestTypeOK, BackoffHasAttempt, callVars, clientVars
<1>2. CASE \E t \in 1 .. MaxClock : ClockSteps(t)
  BY <1>2 DEF ClockSteps, TypeInv, RestTypeOK, BackoffHasAttempt, callVars, exchangeVars
<1>3. CASE Restart
  <2>1. pc' \in [Calls -> PCs] /\ BackoffHasAttempt'
    BY <1>3 DEF Restart, TypeInv, RestTypeOK, BackoffHasAttempt, PCs
  <2>2. QED
    BY <1>3, <2>1, Constants DEF Restart, TypeInv, RestTypeOK, exchangeVars
<1>4. QED
  BY <1>1, <1>2, <1>3

LEMMA TypeStep == TypeInv /\ [Next]_vars => TypeInv'
<1> SUFFICES ASSUME TypeInv, [Next]_vars PROVE TypeInv'
  OBVIOUS
<1>1. CASE UNCHANGED vars
  BY <1>1 DEF vars, callVars, clientVars, exchangeVars, TypeInv, RestTypeOK, BackoffHasAttempt
<1>2. QED
  BY <1>1, StartKeepsTypes, SendKeepsTypes, AnswerKeepsTypes, ExchangeKeepsTypes,
     EnvironmentKeepsTypes DEF Next, CallStep

\* Type correctness of the client, its calls and the exchange.
THEOREM RestTypeCorrect == Spec => []RestTypeOK
<1>1. TypeInv => RestTypeOK
  BY DEF TypeInv
<1>2. QED
  BY <1>1, TypeInit, TypeStep, PTL DEF Spec

-------------------------------------------------------------------------------
(* Nonces *)

LEMMA NonceInit == Init => NonceInv
<1> SUFFICES ASSUME Init PROVE NonceInv
  OBVIOUS
<1>1. TypeInv
  BY TypeInit
<1>2. /\ flight = {} /\ highest.nonce = 0 /\ highest.life = 0 /\ restarts = 0
      /\ \A c \in Calls : pc[c] = "idle"
  BY DEF Init
<1>3. QED
  BY <1>1, <1>2 DEF NonceInv, NoncesBelowSource, DrawIsPositive, AwaitedIsNewest, NoncesUnique,
    OnlyOthersOvertake

\* Steps that send nothing, take nothing and leave the awaited requests alone.
LEMMA QuietKeepsNonceInv ==
  ASSUME NonceInv, TypeInv',
         UNCHANGED <<client, highest, restarts>>, flight' \subseteq flight, source' \in Nat,
         source' >= source,
         \A c \in Calls : pc'[c] = "waiting" =>
           pc[c] = "waiting" /\ attempt'[c] = attempt[c] /\ hits'[c] = hits[c]
             /\ nonce'[c] = nonce[c] /\ (answer'[c] = None => answer[c] = None),
         \A c \in Calls : pc'[c] = "draw" => pc[c] = "draw" \/ source' > 0
  PROVE  NonceInv'
<1>1. HasNonce' <=> HasNonce
  BY DEF HasNonce
<1>2. source \in Nat /\ restarts \in Nat /\ highest.nonce \in Nat
  BY DEF NonceInv, TypeInv, RestTypeOK
<1>3. \A m \in flight : m.call \in Calls /\ m.nonce \in Nat
  BY FlightFields DEF NonceInv, TypeInv
<1>4. HasNonce => NoncesBelowSource'
  BY <1>2, <1>3 DEF NonceInv, NoncesBelowSource
<1>5. HasNonce => DrawIsPositive'
  BY <1>2 DEF NonceInv, DrawIsPositive
<1>6. HasNonce => AwaitedIsNewest'
  BY <1>3 DEF NonceInv, AwaitedIsNewest
<1>7. NoncesUnique'
  BY <1>1 DEF NonceInv, NoncesUnique
<1>8. OnlyOthersOvertake'
  <2> SUFFICES ASSUME NEW m \in flight', HasNonce', Awaited(m)',
                      highest'.call = m.call, highest'.life = m.life
               PROVE  m.nonce > highest'.nonce
    BY DEF OnlyOthersOvertake
  <2>1. m \in flight /\ m.call \in Calls
    BY <1>3
  <2>2. Awaited(m)
    BY <2>1 DEF Awaited, Request, Key
  <2>3. QED
    BY <1>1, <2>1, <2>2 DEF NonceInv, OnlyOthersOvertake
<1>9. QED
  BY <1>1, <1>4, <1>5, <1>6, <1>7, <1>8 DEF NonceInv

\* A fresh nonce is above all this process drew before.
LEMMA DrawKeepsNonceInv ==
  ASSUME NonceInv, TypeInv', NEW c \in Calls, DrawAndSend(c)
  PROVE  NonceInv'
<1> DEFINE new == Request(c, source)
<1>1. /\ client' = client /\ restarts' = restarts /\ highest' = highest
      /\ attempt' = attempt /\ hits' = hits /\ answer' = answer
      /\ flight' = flight \cup {new} /\ source' = source + 1
      /\ nonce' = [nonce EXCEPT ![c] = source] /\ pc' = [pc EXCEPT ![c] = "waiting"]
      /\ pc[c] = "draw"
  BY DEF DrawAndSend, GoTo, exchangeVars
<1>2. /\ source \in Nat /\ restarts \in Nat /\ highest.nonce \in Nat
      /\ nonce \in [Calls -> Nat] /\ pc \in [Calls -> PCs]
  BY DEF NonceInv, TypeInv, RestTypeOK
<1>3. \A m \in flight : m.call \in Calls /\ m.nonce \in Nat
  BY FlightFields DEF NonceInv, TypeInv
<1>4. new.call = c /\ new.nonce = source /\ new.life = restarts
  BY DEF Request
<1>5. HasNonce' <=> HasNonce
  BY <1>1 DEF HasNonce
<1>6. CASE ~ HasNonce
  BY <1>5, <1>6 DEF NonceInv, NoncesUnique, OnlyOthersOvertake
<1>7. CASE HasNonce
  <2>1. \A m \in flight : m.life = restarts => m.nonce < source
    BY <1>7 DEF NonceInv, NoncesBelowSource
  <2>2. highest.life = restarts => highest.nonce < source
    BY <1>1, <1>2, <1>7 DEF NonceInv, NoncesBelowSource, DrawIsPositive
  <2>3. NoncesBelowSource'
    <3>1. /\ \A m \in flight : m.life <= restarts
          /\ highest.life <= restarts
      BY <1>7 DEF NonceInv, NoncesBelowSource
    <3>2. \A m \in flight' : m.life <= restarts' /\ (m.life = restarts' => m.nonce < source')
      BY <1>1, <1>2, <1>3, <1>4, <2>1, <3>1
    <3>3. /\ highest'.life <= restarts'
          /\ highest'.life = restarts' => highest'.nonce < source' \/ highest'.nonce = 0
      BY <1>1, <1>2, <2>2, <3>1
    <3>4. QED
      BY <3>2, <3>3 DEF NoncesBelowSource
  <2>4. DrawIsPositive'
    BY <1>1, <1>2, <1>7 DEF NonceInv, DrawIsPositive
  <2>5. AwaitedIsNewest'
    <3> SUFFICES ASSUME NEW m \in flight', m.life = restarts', pc'[m.call] = "waiting"
                 PROVE  m.nonce <= nonce'[m.call]
      BY DEF AwaitedIsNewest
    <3>1. CASE m = new
      BY <1>1, <1>2, <1>4, <3>1
    <3>2. CASE m \in flight /\ m.call = c
      BY <1>1, <1>2, <1>3, <2>1, <3>2
    <3>3. CASE m \in flight /\ m.call # c
      <4>1. m.call \in Calls /\ pc[m.call] = "waiting" /\ nonce'[m.call] = nonce[m.call]
        BY <1>1, <1>2, <1>3, <3>3
      <4>2. QED
        BY <1>1, <1>7, <3>3, <4>1 DEF NonceInv, AwaitedIsNewest
    <3>4. QED
      BY <1>1, <3>1, <3>2, <3>3
  <2>6. NoncesUnique'
    <3> SUFFICES ASSUME NEW m1 \in flight', NEW m2 \in flight', m1.life = m2.life,
                        m1.nonce = m2.nonce
                 PROVE  m1 = m2
      BY DEF NoncesUnique
    <3>1. CASE m1 \in flight /\ m2 \in flight
      BY <1>7, <3>1 DEF NonceInv, NoncesUnique
    <3>2. CASE m1 = new /\ m2 \in flight
      BY <1>2, <1>3, <1>4, <2>1, <3>2
    <3>3. CASE m2 = new /\ m1 \in flight
      BY <1>2, <1>3, <1>4, <2>1, <3>3
    <3>4. QED
      BY <1>1, <3>1, <3>2, <3>3
  <2>7. OnlyOthersOvertake'
    <3> SUFFICES ASSUME NEW m \in flight', Awaited(m)',
                        highest'.call = m.call, highest'.life = m.life
                 PROVE  m.nonce > highest'.nonce
      BY DEF OnlyOthersOvertake
    <3>1. CASE m = new
      BY <1>1, <1>2, <1>4, <2>2, <3>1
    <3>2. CASE m \in flight /\ m.call # c
      <4>1. Awaited(m)
        BY <1>1, <1>2, <1>3, <3>2 DEF Awaited, Request, Key
      <4>2. QED
        BY <1>1, <1>7, <3>2, <4>1 DEF NonceInv, OnlyOthersOvertake
    <3>3. CASE m \in flight /\ m.call = c
      <4>1. m = Request(c, nonce[c])'
        BY <3>3 DEF Awaited
      <4>2. m.nonce = source /\ m.life = restarts
        BY <1>1, <1>2, <4>1 DEF Request
      <4>3. QED
        BY <1>2, <2>1, <3>3, <4>2
    <3>4. QED
      BY <1>1, <3>1, <3>2, <3>3
  <2>8. QED
    BY <2>3, <2>4, <2>5, <2>6, <2>7 DEF NonceInv
<1>8. QED
  BY <1>6, <1>7

\* What the exchange takes next is at most what its call waits for.
LEMMA ProcessKeepsNonceInv ==
  ASSUME NonceInv, TypeInv', NEW m \in flight, NEW outcome \in Outcomes(m), Process(m, outcome)
  PROVE  NonceInv'
<1>1. /\ UNCHANGED <<client, pc, attempt, hits, nonce, source, restarts>>
      /\ flight' = flight \ {m}
      /\ answer' = IF Awaited(m) THEN [answer EXCEPT ![m.call] = outcome] ELSE answer
  BY DEF Process, clientVars
<1>2. highest' = highest \/ Take(m)
  BY DEF Process
<1>3. HasNonce' <=> HasNonce
  BY <1>1 DEF HasNonce
<1>4. \A n \in flight : n.call \in Calls /\ n.nonce \in Nat
  BY FlightFields DEF NonceInv, TypeInv
<1>5. CASE ~ HasNonce
  BY <1>3, <1>5 DEF NonceInv, NoncesUnique, OnlyOthersOvertake
<1>6. CASE HasNonce
  <2>1. highest' = highest \/ highest' = [nonce |-> m.nonce, call |-> m.call, life |-> m.life]
    BY <1>2, <1>6 DEF Take
  <2>2. NoncesBelowSource'
    BY <1>1, <1>6, <2>1 DEF NonceInv, NoncesBelowSource
  <2>3. DrawIsPositive' /\ AwaitedIsNewest'
    BY <1>1, <1>6 DEF NonceInv, DrawIsPositive, AwaitedIsNewest
  <2>4. NoncesUnique'
    BY <1>1, <1>3 DEF NonceInv, NoncesUnique
  <2>5. OnlyOthersOvertake'
    <3> SUFFICES ASSUME NEW n \in flight', Awaited(n)',
                        highest'.call = n.call, highest'.life = n.life
                 PROVE  n.nonce > highest'.nonce
      BY DEF OnlyOthersOvertake
    <3>1. n \in flight /\ n # m /\ n.call \in Calls
      BY <1>1, <1>4
    <3>2. pc[n.call] = "waiting" /\ answer'[n.call] = None /\ n = Request(n.call, nonce[n.call])
      BY <1>1 DEF Awaited, Request, Key
    <3>3. Awaited(n)
      <4>1. outcome # None
        BY NoneAssumption DEF Outcomes, Answers
      <4>2. answer[n.call] = None
        BY <1>1, <3>1, <3>2, <4>1 DEF NonceInv, TypeInv, RestTypeOK
      <4>3. QED
        BY <3>2, <4>2 DEF Awaited
    <3>4. CASE highest' = highest
      BY <1>6, <3>1, <3>3, <3>4 DEF NonceInv, OnlyOthersOvertake
    <3>5. CASE highest' = [nonce |-> m.nonce, call |-> m.call, life |-> m.life]
      <4>1. m.call = n.call /\ m.life = n.life /\ highest'.nonce = m.nonce
        BY <3>5
      <4>2. n.life = restarts /\ n.nonce = nonce[n.call]
        BY <3>2 DEF Request
      <4>3. m.nonce <= nonce[m.call]
        BY <1>6, <3>2, <4>1, <4>2 DEF NonceInv, AwaitedIsNewest
      <4>4. m.nonce # n.nonce
        BY <1>6, <3>1, <4>1 DEF NonceInv, NoncesUnique
      <4>5. m.nonce \in Nat /\ n.nonce \in Nat
        BY <1>4, <3>1
      <4>6. QED
        BY <4>1, <4>2, <4>3, <4>4, <4>5
    <3>6. QED
      BY <2>1, <3>4, <3>5
  <2>6. QED
    BY <2>2, <2>3, <2>4, <2>5 DEF NonceInv
<1>7. QED
  BY <1>5, <1>6

LEMMA NonceStep == NonceInv /\ [Next]_vars => NonceInv'
<1> SUFFICES ASSUME NonceInv, [Next]_vars PROVE NonceInv'
  OBVIOUS
<1>0. TypeInv'
  BY TypeStep DEF NonceInv
<1>t. /\ source \in Nat /\ clock \in 1 .. MaxClock /\ restarts \in Nat /\ source' \in Nat
      /\ pc \in [Calls -> PCs] /\ answer \in [Calls -> Answers \cup {None}]
      /\ attempt \in [Calls -> 0 .. Retries - 1] /\ hits \in [Calls -> 0 .. MaxHits]
      /\ nonce \in [Calls -> Nat]
  BY <1>0, Constants DEF NonceInv, TypeInv, RestTypeOK
<1>1. ASSUME NEW c \in Calls, Start(c) PROVE NonceInv'
  <2>1. UNCHANGED <<client, highest, restarts, flight, answer>>
    BY <1>1 DEF Start, exchangeVars
  <2>2. source' >= source
    BY <1>1, <1>t, Constants DEF Start, Larger
  <2>3. \A d \in Calls : /\ d # c => /\ pc'[d] = pc[d] /\ attempt'[d] = attempt[d]
                                      /\ hits'[d] = hits[d] /\ nonce'[d] = nonce[d]
                         /\ d = c => pc'[d] \in {"sign", "done"}
    BY <1>1, <1>t DEF Start, Return, GoTo
  <2>4. QED
    BY <1>0, <1>t, <2>1, <2>2, <2>3, QuietKeepsNonceInv
<1>2. ASSUME NEW c \in Calls, RaiseFloor(c) PROVE NonceInv'
  <2>1. UNCHANGED <<client, highest, restarts, flight, answer, attempt, hits, nonce>>
    BY <1>2 DEF RaiseFloor, exchangeVars
  <2>2. source' >= source /\ source' > 0
    BY <1>2, <1>t, Constants DEF RaiseFloor, Larger
  <2>3. \A d \in Calls : /\ d # c => pc'[d] = pc[d]
                         /\ d = c => pc'[d] = "draw"
    BY <1>2, <1>t DEF RaiseFloor, GoTo
  <2>4. QED
    BY <1>0, <1>t, <2>1, <2>2, <2>3, QuietKeepsNonceInv
<1>3. ASSUME NEW c \in Calls, DrawAndSend(c) PROVE NonceInv'
  BY <1>0, <1>3, DrawKeepsNonceInv
<1>4. ASSUME NEW c \in Calls, SignAndSend(c) PROVE NonceInv'
  <2>1. ~ HasNonce /\ ~ HasNonce'
    BY <1>4 DEF SignAndSend, HasNonce
  <2>2. QED
    BY <1>0, <2>1 DEF NonceInv, NoncesUnique, OnlyOthersOvertake
<1>5. ASSUME NEW c \in Calls, ReadAnswer(c) \/ NetworkError(c) \/ WakeUp(c) PROVE NonceInv'
  <2>1. UNCHANGED <<client, highest, restarts, flight, source>>
    BY <1>5 DEF ReadAnswer, NetworkError, WakeUp, clientVars, exchangeVars
  <2>2. \A d \in Calls : /\ d # c => /\ pc'[d] = pc[d] /\ attempt'[d] = attempt[d]
                                      /\ hits'[d] = hits[d] /\ nonce'[d] = nonce[d]
                                      /\ answer'[d] = answer[d]
                         /\ d = c => pc'[d] \in {"paused", "backoff", "sign", "done"}
    BY <1>5, <1>t DEF ReadAnswer, NetworkError, WakeUp, Return, GoTo
  <2>3. QED
    BY <1>0, <1>t, <2>1, <2>2, QuietKeepsNonceInv
<1>6. ASSUME NEW m \in flight, NEW outcome \in Outcomes(m), Process(m, outcome) PROVE NonceInv'
  BY <1>0, <1>6, ProcessKeepsNonceInv
<1>7. CASE \/ \E k \in keysUsed : KeyFreed(k)
           \/ \E t \in 1 .. MaxClock : ClockSteps(t)
           \/ UNCHANGED vars
  <2>1. UNCHANGED <<client, highest, restarts, flight, source, callVars>>
    BY <1>7 DEF KeyFreed, ClockSteps, vars, clientVars, exchangeVars
  <2>2. QED
    BY <1>0, <1>t, <2>1, QuietKeepsNonceInv DEF callVars
<1>8. CASE Restart
  <2>1. /\ restarts' = restarts + 1 /\ flight' = flight /\ highest' = highest
        /\ \A c \in Calls : pc'[c] \in {"idle", "done"}
    BY <1>8 DEF Restart, exchangeVars
  <2>2. \A m \in flight : m.call \in Calls
    BY FlightFields DEF NonceInv, TypeInv
  <2>3. HasNonce /\ HasNonce'
    BY <1>8 DEF Restart, HasNonce
  <2>4. /\ \A m \in flight : m.life \in Nat /\ m.life < restarts'
        /\ highest.life \in Nat /\ highest.life < restarts'
    <3>1. \A m \in flight : m.life \in Nat
      BY FlightFields, Constants DEF NonceInv, TypeInv
    <3>2. highest.life \in Nat
      BY Constants DEF NonceInv, TypeInv, RestTypeOK
    <3>3. QED
      BY <1>t, <2>1, <2>3, <3>1, <3>2 DEF NonceInv, NoncesBelowSource
  <2>5. NoncesBelowSource'
    BY <1>0, <2>1, <2>4, <1>t DEF NoncesBelowSource, TypeInv, RestTypeOK
  <2>6. DrawIsPositive' /\ AwaitedIsNewest' /\ OnlyOthersOvertake'
    BY <2>1, <2>2 DEF DrawIsPositive, AwaitedIsNewest, OnlyOthersOvertake, Awaited
  <2>7. NoncesUnique'
    BY <2>1, <2>3 DEF NonceInv, NoncesUnique
  <2>8. QED
    BY <1>0, <2>5, <2>6, <2>7 DEF NonceInv
<1>9. QED
  BY <1>1, <1>2, <1>3, <1>4, <1>5, <1>6, <1>7, <1>8 DEF Next, CallStep

\* No two requests of one process carry the same nonce, for every number of
\* calls, retries and restarts and every behaviour of the clock.
THEOREM NoncesNeverRepeat == Spec => []NoncesUnique
<1>1. NonceInv => NoncesUnique
  BY DEF NonceInv
<1>2. QED
  BY <1>1, NonceInit, NonceStep, PTL DEF Spec

\* A call never overtakes itself, however often it is retried.
THEOREM NeverOvertakesItself == Spec => []OnlyOthersOvertake
<1>1. NonceInv => OnlyOthersOvertake
  BY DEF NonceInv
<1>2. QED
  BY <1>1, NonceInit, NonceStep, PTL DEF Spec

-------------------------------------------------------------------------------
(* Executions *)

LEMMA AttemptInit == Init => AttemptInv
<1> SUFFICES ASSUME Init PROVE AttemptInv
  OBVIOUS
<1>1. TypeInv
  BY TypeInit
<1>2. /\ flight = {}
      /\ \A c \in Calls : pc[c] = "idle" /\ executed[c] = {} /\ attempt[c] = 0 /\ answer[c] = None
  BY DEF Init
<1>3. QED
  BY <1>1, <1>2, Constants DEF AttemptInv, UntriedBeforeSend, Untried, NoneBeforeStart, NoneAhead,
    OneInFlight, AnswersAreAwaited, OncePerAttempt

\* A step of call c that leaves the network and the exchange alone and does not
\* wait afterwards.
LEMMA QuietKeepsAttemptInv ==
  ASSUME AttemptInv, TypeInv', UNCHANGED <<flight, executed>>, NEW c \in Calls,
         answer'[c] = None,
         \A d \in Calls \ {c} :
           pc'[d] = pc[d] /\ attempt'[d] = attempt[d] /\ answer'[d] = answer[d],
         \/ pc'[c] = "done"
         \/ pc'[c] = "backoff" /\ pc[c] # "done" /\ attempt'[c] = attempt[c]
         \/ /\ pc'[c] \in {"sign", "draw", "paused"}
            /\ Untried(c, attempt'[c])
            /\ pc[c] # "done" /\ attempt'[c] >= attempt[c]
  PROVE  AttemptInv'
<1>1. /\ \A d \in Calls : attempt[d] \in Nat /\ attempt'[d] \in Nat
      /\ \A d \in Calls : \A x \in executed[d] : x[1] \in Nat
      /\ \A m \in flight : m.call \in Calls /\ m.attempt \in Nat
  <2>1. \A d \in Calls : \A x \in executed[d] : x \in (0 .. Retries - 1) \X (0 .. MaxHits)
    BY DEF AttemptInv, TypeInv, RestTypeOK
  <2>2. \A m \in flight : m.call \in Calls /\ m.attempt \in Nat
    BY FlightFields, Constants DEF AttemptInv, TypeInv
  <2>3. QED
    BY <2>1, <2>2, Constants DEF AttemptInv, TypeInv, RestTypeOK
<1>2. UntriedBeforeSend'
  BY Constants DEF AttemptInv, UntriedBeforeSend, Untried
<1>3. NoneBeforeStart'
  BY DEF AttemptInv, NoneBeforeStart
<1>4. NoneAhead'
  BY <1>1 DEF AttemptInv, NoneAhead
<1>5. OneInFlight' /\ OncePerAttempt'
  BY DEF AttemptInv, OneInFlight, OncePerAttempt
<1>6. AnswersAreAwaited'
  BY DEF AttemptInv, AnswersAreAwaited
<1>7. QED
  BY <1>2, <1>3, <1>4, <1>5, <1>6 DEF AttemptInv

LEMMA StartKeepsAttemptInv ==
  ASSUME AttemptInv, TypeInv', NEW c \in Calls, Start(c)
  PROVE  AttemptInv'
<1>1. UNCHANGED <<answer, flight, executed>> /\ pc[c] = "idle"
  BY DEF Start, exchangeVars
<1>2. /\ Untried(c, attempt[c]) /\ answer[c] = None /\ attempt[c] \in Nat
  BY <1>1, Constants DEF AttemptInv, NoneBeforeStart, Untried, TypeInv, RestTypeOK
<1>3. /\ \A d \in Calls \ {c} : pc'[d] = pc[d] /\ attempt'[d] = attempt[d]
      /\ pc'[c] = "done" \/ (pc'[c] = "sign" /\ attempt' = attempt)
  BY DEF Start, Return, GoTo, AttemptInv, TypeInv, RestTypeOK
<1>4. QED
  BY <1>1, <1>2, <1>3, QuietKeepsAttemptInv

\* The attempt after the one under way is untried.
LEMMA NothingAhead ==
  ASSUME AttemptInv, NEW c \in Calls, pc[c] = "backoff"
  PROVE  Untried(c, attempt[c] + 1)
<1>1. /\ attempt[c] \in Nat
      /\ \A m \in flight : m.attempt \in Nat
      /\ \A x \in executed[c] : x[1] \in Nat
  <2>1. \A x \in executed[c] : x \in (0 .. Retries - 1) \X (0 .. MaxHits)
    BY DEF AttemptInv, TypeInv, RestTypeOK
  <2>2. \A m \in flight : m.attempt \in Nat
    BY FlightFields, Constants DEF AttemptInv, TypeInv
  <2>3. QED
    BY <2>1, <2>2, Constants DEF AttemptInv, TypeInv, RestTypeOK
<1>2. QED
  BY <1>1 DEF AttemptInv, NoneAhead, Untried

LEMMA AnswerKeepsAttemptInv ==
  ASSUME AttemptInv, TypeInv', NEW c \in Calls,
         ReadAnswer(c) \/ NetworkError(c) \/ WakeUp(c) \/ RaiseFloor(c)
  PROVE  AttemptInv'
<1>1. UNCHANGED <<flight, executed>> /\ pc[c] # "done"
  BY DEF ReadAnswer, NetworkError, WakeUp, RaiseFloor, exchangeVars
<1>2. answer'[c] = None
  BY DEF ReadAnswer, NetworkError, WakeUp, RaiseFloor, AttemptInv, AnswersAreAwaited, TypeInv,
    RestTypeOK
<1>3. \A d \in Calls \ {c} :
         pc'[d] = pc[d] /\ attempt'[d] = attempt[d] /\ answer'[d] = answer[d]
  BY DEF ReadAnswer, NetworkError, WakeUp, RaiseFloor, Return, GoTo, AttemptInv, TypeInv, RestTypeOK
<1>4. attempt[c] \in Nat
  BY Constants DEF AttemptInv, TypeInv, RestTypeOK
<1>5. CASE \E r : Return(c, r)
  <2>1. pc'[c] = "done"
    BY <1>5 DEF Return, AttemptInv, TypeInv, RestTypeOK
  <2>2. QED
    BY <1>1, <1>2, <1>3, <2>1, QuietKeepsAttemptInv
<1>6. CASE GoTo(c, "backoff") /\ attempt' = attempt
  <2>1. pc'[c] = "backoff"
    BY <1>6 DEF GoTo, AttemptInv, TypeInv, RestTypeOK
  <2>2. QED
    BY <1>1, <1>2, <1>3, <1>6, <2>1, QuietKeepsAttemptInv
<1>7. CASE answer[c] = "429" /\ GoTo(c, "paused") /\ attempt' = attempt
  <2>1. pc'[c] = "paused" /\ Untried(c, attempt[c])
    BY <1>7 DEF GoTo, AttemptInv, UntriedBeforeSend, TypeInv, RestTypeOK
  <2>2. QED
    BY <1>1, <1>2, <1>3, <1>4, <1>7, <2>1, QuietKeepsAttemptInv
<1>8. CASE RaiseFloor(c)
  <2>1. pc'[c] = "draw" /\ pc[c] = "sign" /\ attempt' = attempt
    BY <1>8 DEF RaiseFloor, GoTo, AttemptInv, TypeInv, RestTypeOK
  <2>2. Untried(c, attempt[c])
    BY <2>1 DEF AttemptInv, UntriedBeforeSend
  <2>3. QED
    BY <1>1, <1>2, <1>3, <1>4, <2>1, <2>2, QuietKeepsAttemptInv
<1>9. CASE WakeUp(c)
  <2>1. pc'[c] = "sign"
    BY <1>9 DEF WakeUp, GoTo, AttemptInv, TypeInv, RestTypeOK
  <2>2. CASE pc[c] = "paused"
    <3>1. attempt'[c] = attempt[c] /\ Untried(c, attempt[c])
      BY <1>9, <2>2 DEF WakeUp, AttemptInv, UntriedBeforeSend, TypeInv, RestTypeOK
    <3>2. QED
      BY <1>1, <1>2, <1>3, <1>4, <2>1, <3>1, QuietKeepsAttemptInv
  <2>3. CASE pc[c] = "backoff"
    <3>1. attempt'[c] = attempt[c] + 1
      BY <1>9, <2>3 DEF WakeUp, AttemptInv, TypeInv, RestTypeOK
    <3>2. Untried(c, attempt[c] + 1)
      BY <1>4, <2>3, NothingAhead
    <3>3. QED
      BY <1>1, <1>2, <1>3, <1>4, <2>1, <3>1, <3>2, QuietKeepsAttemptInv
  <2>4. QED
    BY <1>9, <2>2, <2>3 DEF WakeUp
<1>10. QED
  BY <1>5, <1>6, <1>7, <1>8, <1>9 DEF ReadAnswer, NetworkError

\* The only request of its attempt is the one just sent.
LEMMA SendKeepsAttemptInv ==
  ASSUME AttemptInv, TypeInv', NEW c \in Calls, pc[c] \in {"sign", "draw"},
         \E n : flight' = flight \cup {Request(c, n)}, pc' = [pc EXCEPT ![c] = "waiting"],
         UNCHANGED <<attempt, answer, executed>>
  PROVE  AttemptInv'
<1>0. PICK n : flight' = flight \cup {Request(c, n)}
  OBVIOUS
<1> DEFINE new == Request(c, n)
<1>1. flight' = flight \cup {new} /\ new.call = c /\ new.attempt = attempt[c]
  BY <1>0 DEF Request
<1> HIDE DEF new
<1>2. /\ Untried(c, attempt[c]) /\ answer[c] = None /\ attempt[c] \in Nat
      /\ pc \in [Calls -> PCs]
  BY Constants DEF AttemptInv, UntriedBeforeSend, AnswersAreAwaited, TypeInv, RestTypeOK
<1>3. \A m \in flight : m.call \in Calls
  BY FlightFields DEF AttemptInv, TypeInv
<1>4. \A d \in Calls : d # c => pc'[d] = pc[d]
  BY <1>2
<1>5. pc'[c] = "waiting"
  BY <1>2
<1>6. UntriedBeforeSend'
  <2> SUFFICES ASSUME NEW d \in Calls, pc'[d] \in {"sign", "draw", "paused"} \/ answer'[d] = "429"
               PROVE  Untried(d, attempt[d])'
    BY DEF UntriedBeforeSend
  <2>1. d # c
    BY <1>2, <1>5, Constants
  <2>2. Untried(d, attempt[d])
    BY <1>4, <2>1 DEF AttemptInv, UntriedBeforeSend
  <2>3. QED
    BY <1>1, <2>1, <2>2 DEF Untried
<1>7. NoneBeforeStart'
  BY <1>1, <1>4, <1>5 DEF AttemptInv, NoneBeforeStart
<1>8. NoneAhead'
  <2> SUFFICES ASSUME NEW d \in Calls, pc'[d] # "done"
               PROVE  /\ \A m \in flight' : m.call = d => m.attempt <= attempt[d]
                      /\ \A x \in executed[d] : x[1] <= attempt[d]
    BY DEF NoneAhead
  <2>1. pc[d] # "done"
    BY <1>4
  <2>2. /\ \A m \in flight : m.call = d => m.attempt <= attempt[d]
        /\ \A x \in executed[d] : x[1] <= attempt[d]
    BY <2>1 DEF AttemptInv, NoneAhead
  <2>3. new.call = d => new.attempt <= attempt[d]
    BY <1>1, <1>2
  <2>4. QED
    BY <1>1, <2>2, <2>3
<1>9. OneInFlight'
  <2>1. \A m \in flight : m.call = c => m.attempt # attempt[c]
    BY <1>2 DEF Untried
  <2>2. \A x \in executed[c] : x[1] # attempt[c]
    BY <1>2 DEF Untried
  <2>3. QED
    BY <1>1, <2>1, <2>2 DEF AttemptInv, OneInFlight
<1>10. AnswersAreAwaited' /\ OncePerAttempt'
  BY <1>4, <1>5 DEF AttemptInv, AnswersAreAwaited, OncePerAttempt
<1>11. QED
  BY <1>6, <1>7, <1>8, <1>9, <1>10 DEF AttemptInv

\* What the exchange carries out was untried, and nothing else of that attempt is
\* on its way.
LEMMA ProcessKeepsAttemptInv ==
  ASSUME AttemptInv, TypeInv', NEW m \in flight, NEW outcome \in Outcomes(m), Process(m, outcome)
  PROVE  AttemptInv'
<1> DEFINE done == <<m.attempt, m.hit>>
<1>1. /\ UNCHANGED <<pc, attempt, hits, nonce>> /\ flight' = flight \ {m}
      /\ answer' = IF Awaited(m) THEN [answer EXCEPT ![m.call] = outcome] ELSE answer
  BY DEF Process
<1>2. /\ m.call \in Calls /\ m.attempt \in Nat
      /\ answer \in [Calls -> Answers \cup {None}]
      /\ executed \in [Calls -> SUBSET ((0 .. Retries - 1) \X (0 .. MaxHits))]
  BY FlightFields, Constants DEF AttemptInv, TypeInv, RestTypeOK
<1>3. /\ \A d \in Calls : d # m.call => executed'[d] = executed[d]
      /\ executed'[m.call] \subseteq executed[m.call] \cup {done}
      /\ outcome = "429" => executed' = executed
  BY <1>2 DEF Process, Executing
<1>4. /\ \A n \in flight : n.call = m.call /\ n.attempt = m.attempt => n = m
      /\ \A x \in executed[m.call] : x[1] # m.attempt
  BY DEF AttemptInv, OneInFlight
<1>5. Awaited(m) => /\ pc[m.call] = "waiting" /\ m.attempt = attempt[m.call]
  BY DEF Awaited, Request
<1>6. UntriedBeforeSend'
  <2> SUFFICES ASSUME NEW d \in Calls, pc[d] \in {"sign", "draw", "paused"} \/ answer'[d] = "429"
               PROVE  Untried(d, attempt[d])'
    BY <1>1 DEF UntriedBeforeSend
  <2>1. CASE pc[d] \in {"sign", "draw", "paused"} \/ answer[d] = "429"
    <3>1. Untried(d, attempt[d])
      BY <2>1 DEF AttemptInv, UntriedBeforeSend
    <3>2. m.call = d => m.attempt # attempt[d]
      BY <3>1 DEF Untried
    <3>3. QED
      BY <1>1, <1>3, <3>1, <3>2 DEF Untried
  <2>2. CASE answer'[d] = "429" /\ answer[d] # "429"
    <3>1. Awaited(m) /\ m.call = d /\ outcome = "429"
      BY <1>1, <1>2, <2>2
    <3>2. QED
      BY <1>1, <1>3, <1>4, <1>5, <3>1 DEF Untried
  <2>3. QED
    BY <2>1, <2>2
<1>7. NoneBeforeStart'
  <2>1. pc[m.call] # "idle"
    BY <1>2 DEF AttemptInv, NoneBeforeStart
  <2>2. QED
    BY <1>1, <1>2, <1>3, <2>1 DEF AttemptInv, NoneBeforeStart
<1>8. NoneAhead'
  BY <1>1, <1>2, <1>3 DEF AttemptInv, NoneAhead
<1>9. OneInFlight'
  <2> SUFFICES ASSUME NEW n \in flight', NEW x \in executed'[n.call]
               PROVE  x[1] # n.attempt
    BY <1>1 DEF AttemptInv, OneInFlight
  <2>1. n \in flight /\ n # m /\ n.call \in Calls
    BY <1>1, FlightFields DEF AttemptInv, TypeInv
  <2>2. CASE x \in executed[n.call]
    BY <2>1, <2>2 DEF AttemptInv, OneInFlight
  <2>3. CASE n.call = m.call /\ x = done
    BY <1>4, <2>1, <2>3
  <2>4. QED
    BY <1>3, <2>1, <2>2, <2>3
<1>10. AnswersAreAwaited'
  BY <1>1, <1>2, <1>5 DEF AttemptInv, AnswersAreAwaited
<1>11. OncePerAttempt'
  <2> SUFFICES ASSUME NEW d \in Calls, NEW x \in executed'[d], NEW y \in executed'[d], x[1] = y[1]
               PROVE  x = y
    BY DEF OncePerAttempt
  <2>1. CASE x \in executed[d] /\ y \in executed[d]
    BY <2>1 DEF AttemptInv, OncePerAttempt
  <2>2. CASE d = m.call /\ (x = done \/ y = done)
    BY <1>3, <1>4, <2>2
  <2>3. QED
    BY <1>3, <2>1, <2>2
<1>12. QED
  BY <1>6, <1>7, <1>8, <1>9, <1>10, <1>11 DEF AttemptInv

LEMMA RestartKeepsAttemptInv ==
  ASSUME AttemptInv, TypeInv', Restart
  PROVE  AttemptInv'
<1>1. /\ UNCHANGED <<flight, executed>>
      /\ \A c \in Calls : /\ pc'[c] \in {"idle", "done"} /\ (pc'[c] = "idle" => pc[c] = "idle")
                          /\ attempt'[c] = 0 /\ answer'[c] = None
  BY DEF Restart, exchangeVars
<1>2. UntriedBeforeSend'
  BY <1>1, Constants DEF UntriedBeforeSend
<1>3. NoneAhead'
  <2> SUFFICES ASSUME NEW c \in Calls, pc'[c] # "done"
               PROVE  /\ \A m \in flight : m.call # c
                      /\ executed[c] = {}
    BY <1>1 DEF NoneAhead
  <2>1. QED
    BY <1>1 DEF AttemptInv, NoneBeforeStart
<1>4. NoneBeforeStart' /\ OneInFlight' /\ AnswersAreAwaited' /\ OncePerAttempt'
  BY <1>1 DEF AttemptInv, NoneBeforeStart, OneInFlight, AnswersAreAwaited, OncePerAttempt
<1>5. QED
  BY <1>2, <1>3, <1>4 DEF AttemptInv

LEMMA AttemptStep == AttemptInv /\ [Next]_vars => AttemptInv'
<1> SUFFICES ASSUME AttemptInv, [Next]_vars PROVE AttemptInv'
  OBVIOUS
<1>0. TypeInv'
  BY TypeStep DEF AttemptInv
<1>1. ASSUME NEW c \in Calls, CallStep(c) PROVE AttemptInv'
  <2>1. CASE DrawAndSend(c)
    <3>1. /\ flight' = flight \cup {Request(c, source)} /\ pc[c] \in {"sign", "draw"}
          /\ pc' = [pc EXCEPT ![c] = "waiting"] /\ UNCHANGED <<attempt, answer, executed>>
      BY <2>1 DEF DrawAndSend, GoTo, exchangeVars
    <3>2. QED
      BY <1>0, <3>1, SendKeepsAttemptInv
  <2>2. CASE SignAndSend(c)
    <3>1. /\ flight' = flight \cup {Request(c, 0)} /\ pc[c] \in {"sign", "draw"}
          /\ pc' = [pc EXCEPT ![c] = "waiting"] /\ UNCHANGED <<attempt, answer, executed>>
      BY <2>2 DEF SignAndSend, GoTo, exchangeVars
    <3>2. QED
      BY <1>0, <3>1, SendKeepsAttemptInv
  <2>3. QED
    BY <1>0, <1>1, <2>1, <2>2, StartKeepsAttemptInv, AnswerKeepsAttemptInv DEF CallStep
<1>2. CASE Restart
  BY <1>0, <1>2, RestartKeepsAttemptInv
<1>3. CASE \/ \E k \in keysUsed : KeyFreed(k)
           \/ \E t \in 1 .. MaxClock : ClockSteps(t)
           \/ UNCHANGED vars
  <2>1. UNCHANGED <<pc, attempt, answer, flight, executed>>
    BY <1>3 DEF KeyFreed, ClockSteps, vars, callVars, exchangeVars
  <2>2. QED
    BY <1>0, <2>1 DEF AttemptInv, UntriedBeforeSend, Untried, NoneBeforeStart, NoneAhead,
      OneInFlight, AnswersAreAwaited, OncePerAttempt
<1>4. QED
  BY <1>0, <1>1, <1>2, <1>3, ProcessKeepsAttemptInv DEF Next

\* No attempt is carried out twice, for every number of retries and 429s.
THEOREM AttemptsActOnce == Spec => []OncePerAttempt
<1>1. AttemptInv => OncePerAttempt
  BY DEF AttemptInv
<1>2. QED
  BY <1>1, AttemptInit, AttemptStep, PTL DEF Spec

-------------------------------------------------------------------------------
(* Client keys *)

LEMMA KeyInit == Init => KeyInv
<1> SUFFICES ASSUME Init PROVE KeyInv
  OBVIOUS
<1>1. flight = {} /\ \A c \in Calls : executed[c] = {}
  BY DEF Init
<1>2. QED
  BY <1>1, AttemptInit DEF KeyInv

\* The exchange refuses the key of a call that acted.
LEMMA ProcessKeepsKeys ==
  ASSUME KeyInv, NEW m \in flight, NEW outcome \in Outcomes(m), Process(m, outcome),
         NEW c \in Calls, Keyed(c), KeyIsPermanent
  PROVE  executed'[c] = {} \/ (c \in keysUsed' /\ \E x : executed'[c] = {x})
<1>1. m.key = m.call /\ m.call \in Calls
  BY FlightFields DEF KeyInv, AttemptInv, TypeInv
<1>2. executed \in [Calls -> SUBSET ((0 .. Retries - 1) \X (0 .. MaxHits))]
  BY DEF KeyInv, AttemptInv, TypeInv, RestTypeOK
<1>3. executed[c] = {} \/ (c \in keysUsed /\ \E x : executed[c] = {x})
  BY DEF KeyInv
<1>4. keysUsed \subseteq keysUsed'
  BY DEF Process
<1>5. CASE executed'[c] = executed[c]
  BY <1>3, <1>4, <1>5
<1>6. CASE executed'[c] # executed[c]
  <2>1. /\ m.call = c /\ ~ KnownKey(m) /\ keysUsed' = keysUsed \cup {m.key}
        /\ executed'[c] = executed[c] \cup {<<m.attempt, m.hit>>}
    BY <1>1, <1>2, <1>6 DEF Process, Executing
  <2>2. executed[c] = {}
    BY <1>1, <1>3, <2>1 DEF KnownKey
  <2>3. QED
    BY <1>1, <2>1, <2>2
<1>7. QED
  BY <1>5, <1>6

LEMMA KeyStep == KeyInv /\ [Next]_vars => KeyInv'
<1> SUFFICES ASSUME KeyInv, [Next]_vars PROVE KeyInv'
  OBVIOUS
<1>1. AttemptInv'
  BY AttemptStep DEF KeyInv
<1>2. \A m \in flight' : m.key = m.call
  <2>1. \/ flight' \subseteq flight
        \/ \E c \in Calls, n \in Nat : flight' = flight \cup {Request(c, n)}
    BY DEF Next, CallStep, Start, RaiseFloor, DrawAndSend, SignAndSend, ReadAnswer, NetworkError,
      WakeUp, Process, KeyFreed, ClockSteps, Restart, vars, KeyInv, AttemptInv, TypeInv, RestTypeOK
  <2>2. QED
    BY <2>1 DEF KeyInv, Request, Key
<1>3. KeyIsPermanent' <=> KeyIsPermanent
  <2>1. client' = client
    BY DEF Next, CallStep, Start, RaiseFloor, DrawAndSend, SignAndSend, ReadAnswer, NetworkError,
      WakeUp, Process, KeyFreed, ClockSteps, Restart, vars
  <2>2. QED
    BY <2>1 DEF KeyIsPermanent
<1>4. ASSUME NEW c \in Calls, Keyed(c)', KeyIsPermanent
      PROVE  executed'[c] = {} \/ (c \in keysUsed' /\ \E x : executed'[c] = {x})
  <2>1. CASE \E m \in flight : \E outcome \in Outcomes(m) : Process(m, outcome)
    <3>1. Keyed(c)
      BY <1>4, <2>1 DEF Process, Keyed
    <3>2. QED
      BY <1>4, <2>1, <3>1, ProcessKeepsKeys
  <2>2. CASE \E d \in Calls : Start(d)
    <3>1. PICK d \in Calls : Start(d)
      BY <2>2
    <3>2. UNCHANGED <<executed, keysUsed>> /\ pc[d] = "idle"
      BY <3>1 DEF Start, exchangeVars
    <3>3. CASE c = d
      BY <3>2, <3>3 DEF KeyInv, AttemptInv, NoneBeforeStart
    <3>4. CASE c # d
      <4>1. Keyed(c)
        BY <1>4, <3>1, <3>4 DEF Start, Keyed, KeyInv, AttemptInv, TypeInv, RestTypeOK
      <4>2. QED
        BY <1>4, <3>2, <4>1 DEF KeyInv
    <3>5. QED
      BY <3>3, <3>4
  <2>3. CASE UNCHANGED <<op, executed, keysUsed>>
    BY <1>4, <2>3 DEF KeyInv, Keyed
  <2>4. QED
    BY <1>4, <2>1, <2>2, <2>3 DEF Next, CallStep, RaiseFloor, DrawAndSend, SignAndSend, ReadAnswer,
      NetworkError, WakeUp, KeyFreed, ClockSteps, Restart, vars, callVars, exchangeVars
<1>5. QED
  BY <1>1, <1>2, <1>3, <1>4 DEF KeyInv

\* Under a key the venue never takes twice an order is placed at most once, for
\* every number of calls, retries, 429s and every fate of the requests.
THEOREM KeyedOrdersActOnce == Spec => []KeyedActsOnce
<1>1. KeyInv => KeyedActsOnce
  <2> SUFFICES ASSUME KeyInv, NEW c \in Calls, Keyed(c), KeyIsPermanent
               PROVE  Cardinality(executed[c]) <= 1
    BY DEF KeyedActsOnce
  <2>1. CASE executed[c] = {}
    BY <2>1, FS_EmptySet
  <2>2. CASE \E x : executed[c] = {x}
    <3>1. PICK x : executed[c] = {x}
      BY <2>2
    <3>2. Cardinality(executed[c]) = 1
      BY <3>1, FS_Singleton
    <3>3. QED
      BY <3>2
  <2>3. QED
    BY <2>1, <2>2 DEF KeyInv
<1>2. QED
  BY <1>1, KeyInit, KeyStep, PTL DEF Spec
================================================================================
