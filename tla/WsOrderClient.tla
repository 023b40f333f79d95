---------------------------- MODULE WsOrderClient ----------------------------
(***************************************************************************)
(* KuCoin order entry over one WebSocket (src/src/ws/orders.rs).           *)
(*                                                                         *)
(* A client is a bounded outbound queue, a map from clientOid to the       *)
(* oneshot sender of the call that awaits it, a closed flag and a shutdown *)
(* watch, shared by the calling tasks, one writer task and one reader      *)
(* task.  An element of Requests is one call of place_order, cancel_order  *)
(* or send_raw; OidOf gives its clientOid.  The two helpers mint a fresh   *)
(* UUID; send_raw takes whatever the caller passes, so OidOf need not be   *)
(* injective.                                                              *)
(*                                                                         *)
(* The exchange is the environment: it reads any frame written to the      *)
(* socket, answers it with some of "received", "ack" and "error" or not at *)
(* all, in any order, and the socket may die at any time.  The lock around *)
(* the pending map is held only between two awaits, so every critical      *)
(* section is one atomic step.  Time is abstract: a deadline may pass      *)
(* whenever a call is parked on its oneshot, and the pacing of             *)
(* WsMsgGuard::check takes any time.                                       *)
(***************************************************************************)
EXTENDS Integers, Sequences, FiniteSets

CONSTANTS Requests,      \* the calls
          Oids,          \* the clientOids
          OidOf,         \* the clientOid of each call
          QueueCapacity, \* OUTBOUND_QUEUE_CAPACITY
          NoRequest      \* "nobody"

ASSUME OidOfAssumption     == OidOf \in [Requests -> Oids]
ASSUME CapacityAssumption  == QueueCapacity \in Nat \ {0}
ASSUME NoRequestAssumption == NoRequest \notin Requests

VARIABLES
  pc,        \* where each call of send_and_await stands
  result,    \* what the call returns, once it knows
  oneshot,   \* the receiving end of each call's oneshot channel
  pending,   \* clientOid -> the call whose sender the map holds
  outbound,  \* the frames in the bounded queue, by call
  writer,    \* where the writer task stands
  carrying,  \* the frame the writer took off the queue
  reader,    \* where the reader task stands
  closed,    \* the closed flag
  shutdown,  \* the value of the shutdown watch
  handles,   \* some clone of the client still exists
  sent,      \* frames written to the socket
  placed,    \* frames the exchange has read
  answered,  \* answers the exchange has sent
  inbound    \* answers not yet read by the reader

callVars   == <<pc, result, oneshot>>
taskVars   == <<writer, carrying, reader>>
flagVars   == <<closed, shutdown, handles>>
serverVars == <<sent, placed, answered, inbound>>
vars == <<callVars, pending, outbound, taskVars, flagVars, serverVars>>

-----------------------------------------------------------------------------

AnswerKinds == {"received", "ack", "error"}
Refusals    == {"refused_closed", "queue_full", "writer_closed"}
Verdicts    == Refusals \cup {"timed_out", "channel_closed", "cancelled"}

Answers == [kind : AnswerKinds, req : Requests]

\* What a oneshot or a result can hold: nothing yet, a dropped sender, the
\* sentinel of the reader's drain, an answer, or an error of send_and_await.
Slot(k) == [kind |-> k, req |-> NoRequest]
Slots   == [kind : {"empty", "dropped", "connection_closed"} \cup Verdicts, req : {NoRequest}]
             \cup Answers

Empty == Slot("empty")

NoFrames == [o \in Oids |-> NoRequest]

\* The send_and_await future still exists, so its oneshot receiver does.
Live(r) == pc[r] \in {"checked", "inserted", "waiting", "removing"}

Init ==
  /\ pc = [r \in Requests |-> "idle"]
  /\ result = [r \in Requests |-> Empty]
  /\ oneshot = [r \in Requests |-> Empty]
  /\ pending = NoFrames
  /\ outbound = <<>>
  /\ writer = "select"
  /\ carrying = NoRequest
  /\ reader = "select"
  /\ closed = FALSE
  /\ shutdown = FALSE
  /\ handles = TRUE
  /\ sent = {}
  /\ placed = {}
  /\ answered = {}
  /\ inbound = {}

-----------------------------------------------------------------------------
(* The calling task: send_and_await *)

\* The is_closed check, before anything is registered.
Begin(r) ==
  /\ pc[r] = "idle"
  /\ handles
  /\ IF closed
       THEN /\ pc' = [pc EXCEPT ![r] = "done"]
            /\ result' = [result EXCEPT ![r] = Slot("refused_closed")]
       ELSE /\ pc' = [pc EXCEPT ![r] = "checked"]
            /\ UNCHANGED result
  /\ UNCHANGED <<oneshot, pending, outbound, taskVars, flagVars, serverVars>>

\* Dropping the sender the map holds for clientOid o, if any: a receiver with
\* no value in its channel sees RecvError.
DropSender(o) ==
  [r \in Requests |-> IF pending[o] = r /\ oneshot[r] = Empty
                        THEN Slot("dropped") ELSE oneshot[r]]

\* Mutant of Insert: an earlier entry of the clientOid is kept (or_insert).
InsertKeepsFirst(r) ==
  /\ pc[r] = "checked"
  /\ pending' = [pending EXCEPT ![OidOf[r]] = IF @ = NoRequest THEN r ELSE @]
  /\ pc' = [pc EXCEPT ![r] = "inserted"]
  /\ UNCHANGED <<result, oneshot, outbound, taskVars, flagVars, serverVars>>

\* pending.insert: HashMap::insert drops the sender of an earlier call that
\* used the same clientOid.
Insert(r) ==
  /\ pc[r] = "checked"
  /\ oneshot' = DropSender(OidOf[r])
  /\ pending' = [pending EXCEPT ![OidOf[r]] = r]
  /\ pc' = [pc EXCEPT ![r] = "inserted"]
  /\ UNCHANGED <<result, outbound, taskVars, flagVars, serverVars>>

\* Mutant of EnqueueOk: the capacity check is off by one.
EnqueuePastCapacity(r) ==
  /\ pc[r] = "inserted"
  /\ writer # "done"
  /\ Len(outbound) <= QueueCapacity
  /\ outbound' = Append(outbound, r)
  /\ pc' = [pc EXCEPT ![r] = "waiting"]
  /\ UNCHANGED <<result, oneshot, pending, taskVars, flagVars, serverVars>>

\* outbound.try_send, which never waits.  The receiver lives until the writer
\* task has ended.
EnqueueOk(r) ==
  /\ pc[r] = "inserted"
  /\ writer # "done"
  /\ Len(outbound) < QueueCapacity
  /\ outbound' = Append(outbound, r)
  /\ pc' = [pc EXCEPT ![r] = "waiting"]
  /\ UNCHANGED <<result, oneshot, pending, taskVars, flagVars, serverVars>>

\* Mutant of EnqueueFails: a full queue is reported, yet the frame goes out.
EnqueueAndComplain(r) ==
  /\ pc[r] = "inserted"
  /\ writer # "done"
  /\ Len(outbound) >= QueueCapacity
  /\ outbound' = Append(Tail(outbound), r)
  /\ result' = [result EXCEPT ![r] = Slot("queue_full")]
  /\ pc' = [pc EXCEPT ![r] = "removing"]
  /\ UNCHANGED <<oneshot, pending, taskVars, flagVars, serverVars>>

EnqueueFails(r) ==
  /\ pc[r] = "inserted"
  /\ \/ /\ writer = "done"
        /\ result' = [result EXCEPT ![r] = Slot("writer_closed")]
     \/ /\ writer # "done"
        /\ Len(outbound) >= QueueCapacity
        /\ result' = [result EXCEPT ![r] = Slot("queue_full")]
  /\ pc' = [pc EXCEPT ![r] = "removing"]
  /\ UNCHANGED <<oneshot, pending, outbound, taskVars, flagVars, serverVars>>

\* The oneshot holds a value: the call returns it, the drain's
\* connection_closed sentinel included (it comes back as Ok).
Answered(r) ==
  /\ pc[r] = "waiting"
  /\ oneshot[r].kind \in AnswerKinds \cup {"connection_closed"}
  /\ result' = [result EXCEPT ![r] = oneshot[r]]
  /\ pc' = [pc EXCEPT ![r] = "done"]
  /\ UNCHANGED <<oneshot, pending, outbound, taskVars, flagVars, serverVars>>

SenderDropped(r) ==
  /\ pc[r] = "waiting"
  /\ oneshot[r].kind = "dropped"
  /\ result' = [result EXCEPT ![r] = Slot("channel_closed")]
  /\ pc' = [pc EXCEPT ![r] = "removing"]
  /\ UNCHANGED <<oneshot, pending, outbound, taskVars, flagVars, serverVars>>

\* Mutants of TimeOut: the map is not cleaned; a closed client turns the
\* timeout into a refusal; the timer is only armed while the client is open.
TimeOutLeavesEntry(r) ==
  /\ pc[r] = "waiting"
  /\ oneshot[r] = Empty
  /\ result' = [result EXCEPT ![r] = Slot("timed_out")]
  /\ pc' = [pc EXCEPT ![r] = "done"]
  /\ UNCHANGED <<oneshot, pending, outbound, taskVars, flagVars, serverVars>>

TimeOutAsRefusal(r) ==
  /\ pc[r] = "waiting"
  /\ oneshot[r] = Empty
  /\ result' = [result EXCEPT ![r] = Slot(IF closed THEN "refused_closed" ELSE "timed_out")]
  /\ pc' = [pc EXCEPT ![r] = "removing"]
  /\ UNCHANGED <<oneshot, pending, outbound, taskVars, flagVars, serverVars>>

TimeOutWhileOpen(r) ==
  /\ pc[r] = "waiting"
  /\ oneshot[r] = Empty
  /\ ~ closed
  /\ result' = [result EXCEPT ![r] = Slot("timed_out")]
  /\ pc' = [pc EXCEPT ![r] = "removing"]
  /\ UNCHANGED <<oneshot, pending, outbound, taskVars, flagVars, serverVars>>

\* tokio's timeout polls the oneshot first: the deadline wins only over an
\* empty channel.
TimeOut(r) ==
  /\ pc[r] = "waiting"
  /\ oneshot[r] = Empty
  /\ result' = [result EXCEPT ![r] = Slot("timed_out")]
  /\ pc' = [pc EXCEPT ![r] = "removing"]
  /\ UNCHANGED <<oneshot, pending, outbound, taskVars, flagVars, serverVars>>

\* pending.remove(client_oid), by clientOid: whoever's sender is there goes.
Remove(r) ==
  /\ pc[r] = "removing"
  /\ oneshot' = DropSender(OidOf[r])
  /\ pending' = [pending EXCEPT ![OidOf[r]] = NoRequest]
  /\ pc' = [pc EXCEPT ![r] = "done"]
  /\ UNCHANGED <<result, outbound, taskVars, flagVars, serverVars>>

\* The caller drops the future at one of its awaits (a select!, an outer
\* timeout, an abort).  Nothing cleans the pending map.
Cancel(r) ==
  /\ pc[r] \in {"checked", "waiting", "removing"}
  /\ result' = [result EXCEPT ![r] = IF @.kind \in Refusals THEN @ ELSE Slot("cancelled")]
  /\ pc' = [pc EXCEPT ![r] = "cancelled"]
  /\ UNCHANGED <<oneshot, pending, outbound, taskVars, flagVars, serverVars>>

\* WsOrderClient::close.
Close ==
  /\ handles
  /\ closed' = TRUE
  /\ shutdown' = TRUE
  /\ UNCHANGED <<callVars, pending, outbound, taskVars, handles, serverVars>>

\* The last clone is dropped; a running call borrows one.
DropHandles ==
  /\ handles
  /\ \A r \in Requests : ~ Live(r)
  /\ handles' = FALSE
  /\ UNCHANGED <<callVars, pending, outbound, taskVars, closed, shutdown, serverVars>>

-----------------------------------------------------------------------------
(* The writer task *)

\* The select! is unbiased: with a frame queued and shutdown signalled either
\* branch may win.
WriterTake ==
  /\ writer = "select"
  /\ outbound # <<>>
  /\ carrying' = Head(outbound)
  /\ outbound' = Tail(outbound)
  /\ writer' = "pace"
  /\ UNCHANGED <<callVars, pending, reader, flagVars, serverVars>>

\* Mutant of WriterLeaves: the writer ends without waking the reader.
WriterLeavesQuietly ==
  /\ writer' = "closing"
  /\ carrying' = NoRequest
  /\ closed' = TRUE
  /\ UNCHANGED <<callVars, pending, outbound, reader, shutdown, handles, serverVars>>

\* Leaving the loop: flag, wake the reader, then the Close frame.
WriterLeaves ==
  /\ writer' = "closing"
  /\ carrying' = NoRequest
  /\ closed' = TRUE
  /\ shutdown' = TRUE
  /\ UNCHANGED <<callVars, pending, outbound, reader, handles, serverVars>>

WriterStops ==
  /\ writer = "select"
  /\ shutdown \/ (~ handles /\ outbound = <<>>)
  /\ WriterLeaves

\* guard.check() and write.send(): neither looks at the shutdown watch.
WriterSends ==
  /\ writer = "pace"
  /\ sent' = sent \cup {carrying}
  /\ carrying' = NoRequest
  /\ writer' = "select"
  /\ UNCHANGED <<callVars, pending, outbound, reader, flagVars, placed, answered, inbound>>

WriterSendFails ==
  /\ writer = "pace"
  /\ WriterLeaves

\* The Close frame is out (or failed) and the task ends, dropping the queue's
\* receiver and with it every frame still queued.
WriterEnds ==
  /\ writer = "closing"
  /\ writer' = "done"
  /\ outbound' = <<>>
  /\ UNCHANGED <<callVars, pending, carrying, reader, flagVars, serverVars>>

-----------------------------------------------------------------------------
(* The reader task *)

\* Mutants of ReaderRoutes: the answer goes to any waiting call; a "received"
\* frame uses the entry up without waking the call.
ReaderRoutesToAnyone ==
  /\ reader = "select"
  /\ \E a \in inbound, o \in Oids :
       /\ inbound' = inbound \ {a}
       /\ oneshot' = [r \in Requests |-> IF r = pending[o] THEN a ELSE oneshot[r]]
       /\ pending' = [pending EXCEPT ![o] = NoRequest]
  /\ UNCHANGED <<pc, result, outbound, taskVars, flagVars, sent, placed, answered>>

ReaderSwallowsReceived ==
  /\ reader = "select"
  /\ \E a \in inbound :
       /\ inbound' = inbound \ {a}
       /\ oneshot' = [r \in Requests |-> IF r = pending[OidOf[a.req]] /\ a.kind # "received"
                                           THEN a ELSE oneshot[r]]
       /\ pending' = [pending EXCEPT ![OidOf[a.req]] = NoRequest]
  /\ UNCHANGED <<pc, result, outbound, taskVars, flagVars, sent, placed, answered>>

\* One text frame: parse_inbound, then remove the entry under the lock and
\* send the answer on its oneshot; an answer nobody waits for is dropped.
ReaderRoutes ==
  /\ reader = "select"
  /\ \E a \in inbound :
       LET owner == pending[OidOf[a.req]] IN
       /\ inbound' = inbound \ {a}
       /\ oneshot' = [r \in Requests |-> IF r = owner THEN a ELSE oneshot[r]]
       /\ pending' = [pending EXCEPT ![OidOf[a.req]] = NoRequest]
  /\ UNCHANGED <<pc, result, outbound, taskVars, flagVars, sent, placed, answered>>

ReaderLeaves ==
  /\ reader = "select"
  /\ reader' = "draining"
  /\ closed' = TRUE
  /\ shutdown' = TRUE
  /\ UNCHANGED <<callVars, pending, outbound, writer, carrying, handles, serverVars>>

ReaderStops == shutdown /\ ReaderLeaves

\* A Close frame, a read error or the end of the stream.
ConnectionLost == ReaderLeaves

\* Mutants of ReaderDrains: the map is cleared, which drops the senders; the
\* map is left as it is.
ReaderClears ==
  /\ reader = "draining"
  /\ oneshot' = [r \in Requests |-> IF pending[OidOf[r]] = r THEN Slot("dropped") ELSE oneshot[r]]
  /\ pending' = NoFrames
  /\ reader' = "done"
  /\ UNCHANGED <<pc, result, outbound, writer, carrying, flagVars, serverVars>>

ReaderForgetsToDrain ==
  /\ reader = "draining"
  /\ reader' = "done"
  /\ UNCHANGED <<pc, result, oneshot, pending, outbound, writer, carrying, flagVars, serverVars>>

\* pending.drain: every entry gets the connection_closed sentinel.
ReaderDrains ==
  /\ reader = "draining"
  /\ oneshot' = [r \in Requests |-> IF pending[OidOf[r]] = r
                                      THEN Slot("connection_closed") ELSE oneshot[r]]
  /\ pending' = NoFrames
  /\ reader' = "done"
  /\ UNCHANGED <<pc, result, outbound, writer, carrying, flagVars, serverVars>>

-----------------------------------------------------------------------------
(* The exchange *)

ExchangeReads(r) ==
  /\ r \in sent \ placed
  /\ placed' = placed \cup {r}
  /\ UNCHANGED <<callVars, pending, outbound, taskVars, flagVars, sent, answered, inbound>>

\* A frame is accepted (received, ack) or rejected (error), not both.
ExchangeAnswers(r) ==
  /\ r \in placed
  /\ \E a \in [kind : AnswerKinds, req : {r}] \ answered :
       /\ \A b \in answered : b.req = r => (a.kind # "error" /\ b.kind # "error")
       /\ answered' = answered \cup {a}
       /\ inbound' = inbound \cup {a}
  /\ UNCHANGED <<callVars, pending, outbound, taskVars, flagVars, sent, placed>>

-----------------------------------------------------------------------------

CallStep(r) ==
  \/ Insert(r) \/ EnqueueOk(r) \/ EnqueueFails(r)
  \/ Answered(r) \/ SenderDropped(r) \/ Remove(r)

ReaderStep == ReaderRoutes \/ ReaderStops \/ ReaderDrains

WriterStep == WriterTake \/ WriterStops \/ WriterSends \/ WriterSendFails \/ WriterEnds

Next ==
  \/ \E r \in Requests : Begin(r) \/ CallStep(r) \/ TimeOut(r) \/ Cancel(r)
  \/ Close
  \/ DropHandles
  \/ WriterStep
  \/ ReaderStep
  \/ ConnectionLost
  \/ \E r \in Requests : ExchangeReads(r) \/ ExchangeAnswers(r)

Spec == Init /\ [][Next]_vars

\* The scheduler runs a ready task: calls and the reader make progress.  The
\* writer may sit in a send on a half-open socket for ever and the exchange
\* owes nothing, so neither is fair.
TaskFairness ==
  /\ \A r \in Requests : WF_vars(CallStep(r))
  /\ WF_vars(ReaderStep)

FairSpec == Spec /\ TaskFairness

\* The tokio timer of each call fires; assumed only where it is needed.
TimersFire == \A r \in Requests : WF_vars(TimeOut(r))

-----------------------------------------------------------------------------
(* Properties *)

TypeOK ==
  /\ pc \in [Requests -> {"idle", "checked", "inserted", "waiting", "removing", "done", "cancelled"}]
  /\ result \in [Requests -> Slots]
  /\ oneshot \in [Requests -> Slots]
  /\ pending \in [Oids -> Requests \cup {NoRequest}]
  /\ outbound \in Seq(Requests)
  /\ Len(outbound) <= QueueCapacity
  /\ writer \in {"select", "pace", "closing", "done"}
  /\ carrying \in IF writer = "pace" THEN Requests ELSE {NoRequest}
  /\ reader \in {"select", "draining", "done"}
  /\ closed \in BOOLEAN
  /\ shutdown \in BOOLEAN
  /\ handles \in BOOLEAN
  /\ sent \subseteq Requests
  /\ placed \subseteq Requests
  /\ answered \subseteq Answers
  /\ inbound \subseteq Answers

\* A call that returns an acknowledgement returns one the exchange sent for a
\* frame with the call's own clientOid, which the exchange had read: acks are
\* never routed to another order and never made up by the client.
AckIsForThisOrder ==
  \A r \in Requests : pc[r] = "done" /\ result[r].kind \in AnswerKinds =>
    /\ result[r] \in answered
    /\ result[r].req \in placed
    /\ OidOf[result[r].req] = OidOf[r]

Queued(r) == \E i \in 1..Len(outbound) : outbound[i] = r

\* A fail-fast error (closed client, full queue, ended writer) means the order
\* cannot reach the exchange, now or later: its frame is neither queued nor in
\* the writer's hands nor on the wire.  A caller may safely resubmit.
RefusedIsNeverPlaced ==
  \A r \in Requests : result[r].kind \in Refusals =>
    /\ r \notin sent \cup placed
    /\ carrying # r
    /\ ~ Queued(r)

\* While a call waits on an empty oneshot the map still leads to it, so an ack
\* that arrives in time reaches it: no interleaving of insert, route, remove
\* and drain leaves a waiter unreachable with its sender silently gone.
WaiterIsReachable ==
  \A r \in Requests : pc[r] = "waiting" /\ oneshot[r] = Empty => pending[OidOf[r]] = r

\* A call that returned has left nothing in the pending map: whatever raced
\* with its timeout, a late ack finds no stale entry of it.
FinishedLeavesNoEntry ==
  \A r \in Requests : pc[r] = "done" => \A o \in Oids : pending[o] # r

HasRival(r) == \E q \in Requests \ {r} : OidOf[q] = OidOf[r]

\* A call sees its sender dropped only when another call used the same
\* clientOid; teardown alone never does that, it sends the sentinel.
DroppedOnlyByReuse ==
  \A r \in Requests : result[r].kind = "channel_closed" => HasRival(r)

\* The reader's teardown comment and close()'s doc: pending requests are
\* failed with connection_closed "so callers don't block until their timeout".
\* Once the drain is over nothing but the timeout could wake a call that waits
\* on an empty oneshot.
DrainStrandsNobody ==
  reader = "done" => \A r \in Requests : ~ (pc[r] = "waiting" /\ oneshot[r] = Empty)

\* The inductive invariant behind the safety properties above.
\* A sender in the map belongs to a call with that clientOid which has not
\* returned and whose channel is still empty; and the other way round.
SenderIsLive ==
  /\ \A o \in Oids, r \in Requests : pending[o] = r =>
       /\ OidOf[r] = o
       /\ oneshot[r] = Empty
       /\ pc[r] \in {"inserted", "waiting", "removing", "cancelled"}
  /\ \A r \in Requests : pc[r] \in {"idle", "checked"} => oneshot[r] = Empty

RegisteredIsReachable ==
  \A r \in Requests : pc[r] \in {"inserted", "waiting"} /\ oneshot[r] = Empty =>
    pending[OidOf[r]] = r

\* A result is known exactly from the moment the call has its verdict.
ResultFollowsPc ==
  \A r \in Requests :
    /\ pc[r] \in {"idle", "checked", "inserted", "waiting"} => result[r] = Empty
    /\ pc[r] = "removing" => result[r].kind \in Verdicts

\* A frame that got into the queue belongs to a call that was not refused.
InHand(r) == r \in sent \/ carrying = r \/ Queued(r)

Accepted(r) == pc[r] \notin {"idle", "checked", "inserted"} /\ result[r].kind \notin Refusals

QueuedIsNotRefused ==
  /\ placed \subseteq sent
  /\ \A r \in Requests : InHand(r) => Accepted(r)

\* Whatever is on its way to a call, the exchange sent it for that clientOid.
IsAnswerFor(a, r) == a \in answered /\ OidOf[a.req] = OidOf[r]

AnswersAreGenuine ==
  /\ inbound \subseteq answered
  /\ \A a \in answered : a.req \in placed
  /\ \A r \in Requests : oneshot[r].kind \in AnswerKinds => IsAnswerFor(oneshot[r], r)
  /\ \A r \in Requests : result[r].kind \in AnswerKinds => IsAnswerFor(result[r], r)

DroppedHasRival ==
  \A r \in Requests :
    /\ pc[r] \in {"inserted", "waiting"} /\ oneshot[r].kind = "dropped" => HasRival(r)
    /\ result[r].kind = "channel_closed" => HasRival(r)

IInv ==
  /\ TypeOK
  /\ SenderIsLive
  /\ RegisteredIsReachable
  /\ ResultFollowsPc
  /\ QueuedIsNotRefused
  /\ AnswersAreGenuine
  /\ DroppedHasRival

\* The client implements OrderEntry: a call is open from its closed check to
\* its return, an abandoned or torn-down call is unknown, and an order counts
\* as read or replied by what the exchange did with its frame.
CallView(r) ==
  IF pc[r] = "idle" THEN "new"
  ELSE IF Live(r) THEN "open"
  ELSE IF result[r].kind \in Refusals THEN "refused"
  ELSE IF result[r].kind \in AnswerKinds THEN "answered"
  ELSE "unknown"

BookView(r) ==
  IF r \notin placed THEN "unseen"
  ELSE IF \E a \in answered : a.req = r THEN "replied" ELSE "read"

Entry == INSTANCE OrderEntry WITH call <- [r \in Requests |-> CallView(r)],
                                  book <- [r \in Requests |-> BookView(r)]

\* Every step of the client, its tasks, the socket and the exchange is a step
\* of OrderEntry or a stutter: a call is settled once, "answered" and
\* "refused" mean what OrderEntry says they mean.
ImplementsOrderEntry == Entry!Spec

\* Every call that started returns (or is dropped by its caller), whatever the
\* exchange, the socket and the writer do.
EveryCallResolves ==
  TimersFire => \A r \in Requests : pc[r] = "checked" ~> pc[r] \in {"done", "cancelled"}

\* A call already parked when the client closes, by close() or by either task,
\* is released by the teardown and does not need its timer.
CloseReleasesWaiters ==
  \A r \in Requests : (closed /\ reader # "done" /\ pc[r] = "waiting") ~> pc[r] # "waiting"

\* Once the client is closed the reader leaves and empties the map, even with
\* a half-open socket on which nothing ever arrives.
CloseStopsReader == closed ~> reader = "done"
=============================================================================
