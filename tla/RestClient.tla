------------------------------ MODULE RestClient ------------------------------
(* One HTTP client of the crate, the calls that share it, and its exchange.      *)
(*                                                                               *)
(* The three retry loops (KuCoinClient::execute_with_retries, send_with_retry    *)
(* and PublicRestClient::get) have the same control: a network error uses up an  *)
(* attempt, a 429 does not but is counted on its own, any other response ends    *)
(* the loop.  Each attempt is signed afresh; Kraken and Crypto.com draw a nonce  *)
(* for it from a counter all clones of the client share.  What a network error   *)
(* hides is the point of the model: the request it gave up on may have been      *)
(* executed, may be executed later, or never.                                    *)
EXTENDS Endpoints, Naturals, FiniteSets

CONSTANTS
  ClientTypes, \* the client types under consideration
  Calls,       \* concurrent calls on the client
  Retries,     \* DEFAULT_RETRIES
  MaxHits,     \* MAX_RATE_LIMIT_RETRIES
  MaxClock,    \* bound on the wall clock, in ms
  MaxRestarts, \* bound on the restarts of the process
  None         \* no answer, no result

Answers == {"429", "gateway", "duplicate", "ok", "garbled", "rejected"}

ASSUME NoneAssumption == None \notin Answers
ASSUME ClientTypesAssumption == ClientTypes \subseteq Clients
ASSUME RetriesAssumption == Retries \in Nat \ {0}
ASSUME HitsAssumption == MaxHits \in Nat
ASSUME BoundsAssumption == MaxClock \in Nat \ {0} /\ MaxRestarts \in Nat

VARIABLES
  client,    \* which client type this is
  op,        \* op[c]: the request the call makes
  pc,        \* pc[c]: where the call is
  attempt,   \* attempt[c]: `attempt` of the loop
  hits,      \* hits[c]: `rate_limit_hits` of the loop
  nonce,     \* nonce[c]: the nonce signed into the attempt under way, 0 if none
  answer,    \* answer[c]: the response the socket holds for the call
  result,    \* result[c]: the class of what the call returned
  source,    \* nonce_state
  clock,     \* the wall clock
  restarts,  \* how often the process was restarted
  flight,    \* requests the network still holds, also those nobody waits for
  executed,  \* executed[c]: the attempts the exchange carried out
  keysUsed,  \* client keys the exchange refuses to take again
  highest    \* the highest nonce the exchange took, and the call that sent it

callVars == <<op, pc, attempt, hits, nonce, answer, result>>
clientVars == <<source, clock, restarts>>
exchangeVars == <<executed, keysUsed, highest>>
vars == <<client, callVars, clientVars, flight, exchangeVars>>
-------------------------------------------------------------------------------
Larger(a, b) == IF a > b THEN a ELSE b

HasNonce == client \in {"kraken", "cryptocom"}

(* The listen-key calls are single requests, every other client has the loop.    *)
Attempts == IF client = "listenkey" THEN 1 ELSE Retries

(* Binance's two private clients are built without a request timeout. *)
HasTimeout == client \notin {"binance", "listenkey"}

(* The venues that never take a key again, and Kraken, which takes it again once *)
(* the first order is no longer open.                                            *)
KeyIsPermanent == client \in {"kucoin", "bybit"}

\* Mutant of Key: the body, and the key in it, is built anew for each attempt.
KeyPerAttempt(c, i) == <<c, i>>

(* The body is serialised before the loop: every attempt carries the same key.   *)
Key(c, i) == c

Keyed(c) == op[c].keyed

(* What a request in flight carries. *)
Request(c, n) == [call |-> c, attempt |-> attempt[c], hit |-> hits[c], nonce |-> n,
                  key |-> Key(c, attempt[c]), life |-> restarts]

Awaited(m) == /\ pc[m.call] = "waiting"
              /\ answer[m.call] = None
              /\ m = Request(m.call, nonce[m.call])

(* A refusal is transient when its code is one is_retriable names; Kraken's and    *)
(* Binance's codes are none of them.                                             *)
Refusal ==
  IF client \in {"kucoin", "bybit", "cryptocom"} THEN {"rejected", "transient"} ELSE {"rejected"}

(* What a client makes of a response that ends the loop.  A 2xx body that does   *)
(* not decode is a transport error when it is no JSON and a Json error when the  *)
(* envelope holds something else; a 5xx page is no envelope.                     *)
Decode(a) ==
  CASE a = "garbled"  -> {"http", "json"}
    [] a = "rejected" -> Refusal
    [] OTHER          -> {a}

(* KuCoin's envelope is looked for whatever the status; without one the status   *)
(* may become the code.                                                          *)
UnwrapKucoin(a) == IF a = "gateway" THEN {"http", "5xx", "rejected"} ELSE Decode(a)

(* Bybit's body is decoded whatever the status, and fails in the transport.      *)
UnwrapBybit(a) == IF a = "gateway" THEN {"http"} ELSE Decode(a)

(* The bytes are read first, so a body that does not decode is a Json error.     *)
UnwrapBinance(a) ==
  CASE a = "gateway" -> {"5xx", "rejected"}
    [] a = "garbled" -> {"json"}
    [] OTHER         -> {a}

(* error_for_status and json(): whatever is wrong is a transport error.          *)
UnwrapListenKey(a) == IF a = "ok" THEN {"ok"} ELSE {"http"}

(* The others turn the status into the code before they look for an envelope. *)
UnwrapKraken(a) == IF a = "gateway" THEN {"5xx"} ELSE Decode(a)
UnwrapCryptocom(a) == UnwrapKraken(a)

Unwrap(a) ==
  CASE client = "kucoin"    -> UnwrapKucoin(a)
    [] client = "bybit"     -> UnwrapBybit(a)
    [] client = "binance"   -> UnwrapBinance(a)
    [] client = "listenkey" -> UnwrapListenKey(a)
    [] client = "cryptocom" -> UnwrapCryptocom(a)
    [] OTHER                -> UnwrapKraken(a)

(* How the caller is told to react: an Ok value, or the class classify_submit    *)
(* gives the error.  Only KuCoin's wording of a duplicate key is recognised.     *)
ClassifySubmit(r) ==
  CASE r = "ok" -> "Ok"
    [] r = "http" -> "Ambiguous"
    [] r = "duplicate" /\ client = "kucoin" -> "Ambiguous"
    [] r \in {"429", "5xx", "transient"} -> "Retriable"
    [] OTHER -> "Fatal"
-------------------------------------------------------------------------------
NoRequestYet == [acts |-> FALSE, keyed |-> FALSE]

Init ==
  /\ client \in ClientTypes
  /\ op = [c \in Calls |-> NoRequestYet]
  /\ pc = [c \in Calls |-> "idle"]
  /\ attempt = [c \in Calls |-> 0]
  /\ hits = [c \in Calls |-> 0]
  /\ nonce = [c \in Calls |-> 0]
  /\ answer = [c \in Calls |-> None]
  /\ result = [c \in Calls |-> None]
  /\ source = 0
  /\ clock = 1
  /\ restarts = 0
  /\ flight = {}
  /\ executed = [c \in Calls |-> {}]
  /\ keysUsed = {}
  /\ highest = [nonce |-> 0, call |-> None, life |-> 0]

(* The method returns r; the loop's variables are gone. *)
Return(c, r) ==
  /\ pc' = [pc EXCEPT ![c] = "done"]
  /\ result' = [result EXCEPT ![c] = ClassifySubmit(r)]
  /\ attempt' = [attempt EXCEPT ![c] = 0]
  /\ hits' = [hits EXCEPT ![c] = 0]
  /\ nonce' = [nonce EXCEPT ![c] = 0]

(* The call goes on at l. *)
GoTo(c, l) ==
  /\ pc' = [pc EXCEPT ![c] = l]
  /\ UNCHANGED result

(* A request as far as the model tells requests apart. *)
Abstract(r) == [acts |-> r.kind = "act", keyed |-> r.key # "none"]

(* A method is called.  It may refuse its arguments, or know the answer, without *)
(* a request.  The nonce clients sign once before the loop, to report a bad      *)
(* secret early, and throw that nonce away.                                      *)
Start(c) ==
  /\ pc[c] = "idle"
  /\ \/ /\ \E r \in Requests(client) : r.kind = "local"
        /\ \E r \in {"ok", "refused"} : Return(c, r)
        /\ UNCHANGED <<op, source>>
     \/ /\ \E r \in Requests(client) : r.kind # "local" /\ op' = [op EXCEPT ![c] = Abstract(r)]
        /\ source' = IF HasNonce THEN Larger(source, clock) + 1 ELSE source
        /\ GoTo(c, "sign")
        /\ UNCHANGED <<attempt, hits, nonce>>
  /\ UNCHANGED <<client, answer, clock, restarts, flight, exchangeVars>>

\* Mutant of RaiseFloor: the clock is stored instead of taken as a floor.
RaiseFloorByStore(c) ==
  /\ pc[c] = "sign"
  /\ HasNonce
  /\ source' = clock
  /\ GoTo(c, "draw")
  /\ UNCHANGED <<client, op, attempt, hits, nonce, answer, clock, restarts, flight, exchangeVars>>

(* next_nonce, first half: fetch_max with the wall clock.  The clock was read    *)
(* just before; since it may step back, an old reading is a clock that stepped.  *)
RaiseFloor(c) ==
  /\ pc[c] = "sign"
  /\ HasNonce
  /\ source' = Larger(source, clock)
  /\ GoTo(c, "draw")
  /\ UNCHANGED <<client, op, attempt, hits, nonce, answer, clock, restarts, flight, exchangeVars>>

\* Mutant of DrawAndSend: the counter is read and not advanced.
DrawWithoutIncrement(c) ==
  /\ pc[c] = "draw"
  /\ nonce' = [nonce EXCEPT ![c] = source]
  /\ flight' = flight \cup {Request(c, source)}
  /\ GoTo(c, "waiting")
  /\ UNCHANGED <<client, op, attempt, hits, answer, clientVars, exchangeVars>>

(* next_nonce, second half: fetch_add; the request is signed with the value from *)
(* before and sent.                                                              *)
DrawAndSend(c) ==
  /\ pc[c] = "draw"
  /\ source' = source + 1
  /\ nonce' = [nonce EXCEPT ![c] = source]
  /\ flight' = flight \cup {Request(c, source)}
  /\ GoTo(c, "waiting")
  /\ UNCHANGED <<client, op, attempt, hits, answer, clock, restarts, exchangeVars>>

(* The clients without a nonce sign a timestamp and send. *)
SignAndSend(c) ==
  /\ pc[c] = "sign"
  /\ ~HasNonce
  /\ flight' = flight \cup {Request(c, 0)}
  /\ GoTo(c, "waiting")
  /\ UNCHANGED <<client, op, attempt, hits, nonce, answer, clientVars, exchangeVars>>

\* Mutant of ReadAnswer: the 429s are not counted.
ReadAnswerUncounted(c) ==
  /\ pc[c] = "waiting"
  /\ answer[c] # None
  /\ answer' = [answer EXCEPT ![c] = None]
  /\ IF answer[c] = "429" /\ client # "listenkey"
     THEN GoTo(c, "paused") /\ UNCHANGED <<attempt, hits, nonce>>
     ELSE \E r \in Unwrap(answer[c]) : Return(c, r)
  /\ UNCHANGED <<client, op, clientVars, flight, exchangeVars>>

\* Mutant of ReadAnswer: a gateway error is resent within the attempt like a 429.
ReadAnswerResendsGateway(c) ==
  /\ pc[c] = "waiting"
  /\ answer[c] # None
  /\ answer' = [answer EXCEPT ![c] = None]
  /\ IF answer[c] \in {"429", "gateway"} /\ hits[c] < MaxHits
     THEN /\ hits' = [hits EXCEPT ![c] = hits[c] + 1]
          /\ GoTo(c, "paused")
          /\ UNCHANGED <<attempt, nonce>>
     ELSE \E r \in Unwrap(answer[c]) : Return(c, r)
  /\ UNCHANGED <<client, op, clientVars, flight, exchangeVars>>

(* The response the socket holds is read.  A 429 waits for the reset the server  *)
(* names and keeps the attempt; one too many ends the call.                      *)
ReadAnswer(c) ==
  /\ pc[c] = "waiting"
  /\ answer[c] # None
  /\ answer' = [answer EXCEPT ![c] = None]
  /\ IF answer[c] = "429" /\ client # "listenkey" /\ hits[c] < MaxHits
     THEN /\ hits' = [hits EXCEPT ![c] = hits[c] + 1]
          /\ GoTo(c, "paused")
          /\ UNCHANGED <<attempt, nonce>>
     ELSE \E r \in Unwrap(answer[c]) : Return(c, r)
  /\ UNCHANGED <<client, op, clientVars, flight, exchangeVars>>

\* Mutant of NetworkError: one attempt too many.
NetworkErrorOffByOne(c) ==
  /\ pc[c] = "waiting"
  /\ answer' = [answer EXCEPT ![c] = None]
  /\ IF attempt[c] < Attempts
     THEN GoTo(c, "backoff") /\ UNCHANGED <<attempt, hits, nonce>>
     ELSE Return(c, "http")
  /\ UNCHANGED <<client, op, clientVars, flight, exchangeVars>>

(* The connect, the request or the response fails, or the request timeout fires: *)
(* whatever the exchange answered is not seen.                                   *)
NetworkError(c) ==
  /\ pc[c] = "waiting"
  /\ answer' = [answer EXCEPT ![c] = None]
  /\ IF attempt[c] < Attempts - 1
     THEN GoTo(c, "backoff") /\ UNCHANGED <<attempt, hits, nonce>>
     ELSE Return(c, "http")
  /\ UNCHANGED <<client, op, clientVars, flight, exchangeVars>>

(* The sleep after a network error or a 429 is over. *)
WakeUp(c) ==
  /\ pc[c] \in {"backoff", "paused"}
  /\ attempt' = [attempt EXCEPT ![c] = IF pc[c] = "backoff" THEN attempt[c] + 1 ELSE attempt[c]]
  /\ GoTo(c, "sign")
  /\ UNCHANGED <<client, op, hits, nonce, answer, clientVars, flight, exchangeVars>>
-------------------------------------------------------------------------------
(* The exchange takes up a request.  A nonce that is not above the highest one   *)
(* is refused, then a key it holds; overload and gateway errors may come before  *)
(* or, for the gateway, after the request was carried out.                       *)
FreshNonce(m) == HasNonce => m.nonce > highest.nonce

KnownKey(m) == Keyed(m.call) /\ m.key \in keysUsed

Outcomes(m) ==
  {"429", "gateway"} \cup
  (IF ~FreshNonce(m) THEN {"rejected"}
   ELSE IF KnownKey(m) THEN {"duplicate"} ELSE {"ok", "garbled", "rejected"})

Executing(m, outcome) ==
  /\ FreshNonce(m) /\ ~KnownKey(m)
  /\ outcome \in {"ok", "garbled", "gateway"}

Take(m) == highest' = IF HasNonce THEN [nonce |-> m.nonce, call |-> m.call, life |-> m.life]
                                  ELSE highest

Process(m, outcome) ==
  /\ m \in flight
  /\ outcome \in Outcomes(m)
  /\ flight' = flight \ {m}
  /\ \/ /\ Executing(m, outcome)
        /\ Take(m)
        /\ executed' = [executed EXCEPT ![m.call] =
                          IF op[m.call].acts THEN @ \cup {<<m.attempt, m.hit>>} ELSE @]
        /\ keysUsed' = IF Keyed(m.call) THEN keysUsed \cup {m.key} ELSE keysUsed
     \/ /\ outcome \notin {"ok", "garbled"}
        /\ IF FreshNonce(m) /\ outcome \in {"rejected", "duplicate"} THEN Take(m) ELSE UNCHANGED highest
        /\ UNCHANGED <<executed, keysUsed>>
  /\ answer' = IF Awaited(m) THEN [answer EXCEPT ![m.call] = outcome] ELSE answer
  /\ UNCHANGED <<client, op, pc, attempt, hits, nonce, result, clientVars>>

(* Kraken frees a client key when its order closes. *)
KeyFreed(k) ==
  /\ k \in keysUsed
  /\ ~KeyIsPermanent
  /\ keysUsed' = keysUsed \ {k}
  /\ UNCHANGED <<client, callVars, clientVars, flight, executed, highest>>

(* The wall clock runs, and steps back when it is corrected. *)
ClockSteps(t) ==
  /\ HasNonce
  /\ t \in 1..MaxClock
  /\ clock' = t
  /\ UNCHANGED <<client, callVars, source, restarts, flight, exchangeVars>>

(* The process dies and comes back: its calls are gone, the nonce counter starts *)
(* at zero, requests on the way still arrive.                                    *)
Restart ==
  /\ HasNonce
  /\ restarts < MaxRestarts
  /\ restarts' = restarts + 1
  /\ source' = 0
  /\ pc' = [c \in Calls |-> IF pc[c] = "idle" THEN "idle" ELSE "done"]
  /\ attempt' = [c \in Calls |-> 0]
  /\ hits' = [c \in Calls |-> 0]
  /\ nonce' = [c \in Calls |-> 0]
  /\ answer' = [c \in Calls |-> None]
  /\ UNCHANGED <<client, op, result, clock, flight, exchangeVars>>
-------------------------------------------------------------------------------
CallStep(c) == \/ Start(c) \/ RaiseFloor(c) \/ DrawAndSend(c) \/ SignAndSend(c)
               \/ ReadAnswer(c) \/ NetworkError(c) \/ WakeUp(c)

Next ==
  \/ \E c \in Calls : CallStep(c)
  \/ \E m \in flight : \E outcome \in Outcomes(m) : Process(m, outcome)
  \/ \E k \in keysUsed : KeyFreed(k)
  \/ \E t \in 1..MaxClock : ClockSteps(t)
  \/ Restart

Spec == Init /\ [][Next]_vars

(* The runtime polls a call that can go on, and a client with a request timeout  *)
(* does not wait for ever: reading the answer or the network error follows.      *)
GoesOn(c) == RaiseFloor(c) \/ DrawAndSend(c) \/ SignAndSend(c) \/ ReadAnswer(c) \/ WakeUp(c)

FairSpec ==
  /\ Spec
  /\ \A c \in Calls : WF_vars(GoesOn(c))
  /\ \A c \in Calls : WF_vars(HasTimeout /\ NetworkError(c))
-------------------------------------------------------------------------------
PCs == {"idle", "sign", "draw", "waiting", "backoff", "paused", "done"}
Reactions == {"Ok", "Ambiguous", "Retriable", "Fatal"}
RequestsInFlight == [call : Calls, attempt : 0..Retries - 1, hit : 0..MaxHits, nonce : Nat,
                     key : Calls, life : 0..MaxRestarts]

(* Types; `attempt` never reaches DEFAULT_RETRIES, so the code after the loop is *)
(* never run.                                                                    *)
RestTypeOK ==
  /\ client \in ClientTypes
  /\ op \in [Calls -> [acts : BOOLEAN, keyed : BOOLEAN]]
  /\ pc \in [Calls -> PCs]
  /\ attempt \in [Calls -> 0..Retries - 1]
  /\ hits \in [Calls -> 0..MaxHits]
  /\ nonce \in [Calls -> Nat]
  /\ answer \in [Calls -> Answers \cup {None}]
  /\ result \in [Calls -> Reactions \cup {None}]
  /\ source \in Nat
  /\ clock \in 1..MaxClock
  /\ restarts \in 0..MaxRestarts
  /\ flight \subseteq RequestsInFlight
  /\ executed \in [Calls -> SUBSET ((0..Retries - 1) \X (0..MaxHits))]
  /\ keysUsed \subseteq Calls
  /\ highest \in [nonce : Nat, call : Calls \cup {None}, life : 0..MaxRestarts]

(* Under a client key the venue never takes twice, an order is placed at most    *)
(* once, however many attempts of the call are lost, delayed or answered with a  *)
(* gateway error.                                                                *)
KeyedActsOnce ==
  \A c \in Calls : Keyed(c) /\ KeyIsPermanent => Cardinality(executed[c]) <= 1

(* Without a key a POST is executed at most once per attempt, so at most         *)
(* DEFAULT_RETRIES times: a request resent after a 429 never meets an earlier    *)
(* request of the same attempt that can still be carried out.                    *)
OncePerAttempt ==
  \A c \in Calls : \A x, y \in executed[c] : x[1] = y[1] => x = y

(* No two requests of one process carry the same nonce, whichever calls drew     *)
(* them and however often they were retried.                                     *)
NoncesUnique ==
  HasNonce => \A m1, m2 \in flight : m1.life = m2.life /\ m1.nonce = m2.nonce => m1 = m2

(* The request a call waits for is never stale because of what that call sent    *)
(* before: only another call, or a request of an earlier process, can overtake   *)
(* it.                                                                           *)
OnlyOthersOvertake ==
  \A m \in flight : HasNonce /\ Awaited(m) /\ highest.call = m.call /\ highest.life = m.life
                      => m.nonce > highest.nonce

(* Every call of a client with a request timeout returns, whatever the network   *)
(* and the exchange do.                                                          *)
EveryCallReturns == \A c \in Calls : HasTimeout /\ pc[c] # "idle" ~> pc[c] = "done"
=============================================================================
