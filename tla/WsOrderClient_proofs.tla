------------------------- MODULE WsOrderClient_proofs -------------------------
(***************************************************************************)
(* Machine-checked proofs about WsOrderClient, for every set of calls,     *)
(* every assignment of clientOids to them and every queue capacity.        *)
(***************************************************************************)
EXTENDS WsOrderClient, SequenceTheorems, TLAPS

LEMMA TypeOKStep == TypeOK /\ [Next]_vars => TypeOK'
<1> USE OidOfAssumption, CapacityAssumption, NoRequestAssumption
<1> USE DEF TypeOK, vars, callVars, taskVars, flagVars, serverVars
<1> SUFFICES ASSUME TypeOK, [Next]_vars PROVE TypeOK'
  OBVIOUS
<1>a. Answers \subseteq Slots
  BY DEF Slots
<1>s. \A k \in Verdicts \cup {"empty", "dropped", "connection_closed"} : Slot(k) \in Slots
  BY DEF Slot, Slots
<1>1. ASSUME NEW r \in Requests, Begin(r) PROVE TypeOK'
  BY <1>1, <1>s DEF Begin, Verdicts, Refusals
<1>2. ASSUME NEW r \in Requests, Insert(r) PROVE TypeOK'
  BY <1>2, <1>s DEF Insert, DropSender, Verdicts, Refusals
<1>3. ASSUME NEW r \in Requests, EnqueueOk(r) PROVE TypeOK'
  BY <1>3, <1>s DEF EnqueueOk, Verdicts, Refusals
<1>4. ASSUME NEW r \in Requests, EnqueueFails(r) PROVE TypeOK'
  BY <1>4, <1>s DEF EnqueueFails, Verdicts, Refusals
<1>5. ASSUME NEW r \in Requests, Answered(r) PROVE TypeOK'
  BY <1>5, <1>s DEF Answered, Verdicts, Refusals
<1>6. ASSUME NEW r \in Requests, SenderDropped(r) PROVE TypeOK'
  BY <1>6, <1>s DEF SenderDropped, Verdicts, Refusals
<1>7. ASSUME NEW r \in Requests, TimeOut(r) PROVE TypeOK'
  BY <1>7, <1>s DEF TimeOut, Verdicts, Refusals
<1>8. ASSUME NEW r \in Requests, Remove(r) PROVE TypeOK'
  BY <1>8, <1>s DEF Remove, DropSender, Verdicts, Refusals
<1>9. ASSUME NEW r \in Requests, Cancel(r) PROVE TypeOK'
  BY <1>9, <1>s DEF Cancel, Verdicts, Refusals
<1>10. CASE Close
  BY <1>10, <1>s DEF Close, NoFrames
<1>11. CASE DropHandles
  BY <1>11, <1>s DEF DropHandles, NoFrames
<1>12. CASE WriterTake
  BY <1>12, <1>s DEF WriterTake, NoFrames
<1>13. CASE WriterStops
  BY <1>13, <1>s DEF WriterStops, WriterLeaves, NoFrames
<1>14. CASE WriterSends
  BY <1>14, <1>s DEF WriterSends, NoFrames
<1>15. CASE WriterSendFails
  BY <1>15, <1>s DEF WriterSendFails, WriterLeaves, NoFrames
<1>16. CASE WriterEnds
  BY <1>16, <1>s DEF WriterEnds, NoFrames
<1>17. CASE ReaderRoutes
  <2>1. PICK a \in inbound :
          /\ inbound' = inbound \ {a}
          /\ oneshot' = [r \in Requests |-> IF r = pending[OidOf[a.req]] THEN a ELSE oneshot[r]]
          /\ pending' = [pending EXCEPT ![OidOf[a.req]] = NoRequest]
    BY <1>17 DEF ReaderRoutes
  <2>2. a \in Slots
    BY <1>a
  <2>3. oneshot' \in [Requests -> Slots]
    BY <2>1, <2>2
  <2>4. pending' \in [Oids -> Requests \cup {NoRequest}]
    BY <2>1
  <2> QED
    BY <1>17, <2>1, <2>3, <2>4 DEF ReaderRoutes
<1>18. CASE ReaderLeaves
  BY <1>18, <1>s DEF ReaderLeaves, NoFrames
<1>19. CASE ReaderDrains
  BY <1>19, <1>s DEF ReaderDrains, NoFrames
<1>20. ASSUME NEW r \in Requests, ExchangeReads(r) PROVE TypeOK'
  BY <1>20, <1>s DEF ExchangeReads, Verdicts, Refusals
<1>21. ASSUME NEW r \in Requests, ExchangeAnswers(r) PROVE TypeOK'
  <2>1. [kind : AnswerKinds, req : {r}] \subseteq Answers
    BY DEF Answers
  <2> QED
    BY <1>21, <2>1 DEF ExchangeAnswers
<1>22. CASE UNCHANGED vars
  BY <1>22
<1> QED
  BY <1>1, <1>2, <1>3, <1>4, <1>5, <1>6, <1>7, <1>8, <1>9, <1>10, <1>11, <1>12, <1>13, <1>14, <1>15, <1>16, <1>17, <1>18, <1>19, <1>20, <1>21, <1>22
  DEF Next, CallStep, ReaderStep, WriterStep, ReaderStops, ConnectionLost

LEMMA SenderIsLiveStep == IInv /\ [Next]_vars => SenderIsLive'
<1> USE OidOfAssumption, CapacityAssumption, NoRequestAssumption DEF IInv
<1> SUFFICES ASSUME IInv, [Next]_vars PROVE SenderIsLive'
  OBVIOUS
<1>1. ASSUME NEW r \in Requests, Begin(r) PROVE SenderIsLive'
  BY <1>1 DEF Begin, SenderIsLive, RegisteredIsReachable, TypeOK, Empty, Slot, Answers, AnswerKinds
<1>2. ASSUME NEW r \in Requests, Insert(r) PROVE SenderIsLive'
  BY <1>2 DEF Insert, DropSender, SenderIsLive, RegisteredIsReachable, TypeOK, Empty, Slot, Answers, AnswerKinds
<1>3. ASSUME NEW r \in Requests, EnqueueOk(r) PROVE SenderIsLive'
  BY <1>3 DEF EnqueueOk, SenderIsLive, RegisteredIsReachable, TypeOK, Empty, Slot, Answers, AnswerKinds
<1>4. ASSUME NEW r \in Requests, EnqueueFails(r) PROVE SenderIsLive'
  BY <1>4 DEF EnqueueFails, SenderIsLive, RegisteredIsReachable, TypeOK, Empty, Slot, Answers, AnswerKinds
<1>5. ASSUME NEW r \in Requests, Answered(r) PROVE SenderIsLive'
  BY <1>5 DEF Answered, SenderIsLive, RegisteredIsReachable, TypeOK, Empty, Slot, Answers, AnswerKinds
<1>6. ASSUME NEW r \in Requests, SenderDropped(r) PROVE SenderIsLive'
  BY <1>6 DEF SenderDropped, SenderIsLive, RegisteredIsReachable, TypeOK, Empty, Slot, Answers, AnswerKinds
<1>7. ASSUME NEW r \in Requests, TimeOut(r) PROVE SenderIsLive'
  BY <1>7 DEF TimeOut, SenderIsLive, RegisteredIsReachable, TypeOK, Empty, Slot, Answers, AnswerKinds
<1>8. ASSUME NEW r \in Requests, Remove(r) PROVE SenderIsLive'
  BY <1>8 DEF Remove, DropSender, SenderIsLive, RegisteredIsReachable, TypeOK, Empty, Slot, Answers, AnswerKinds
<1>9. ASSUME NEW r \in Requests, Cancel(r) PROVE SenderIsLive'
  BY <1>9 DEF Cancel, SenderIsLive, RegisteredIsReachable, TypeOK, Empty, Slot, Answers, AnswerKinds
<1>10. CASE ReaderRoutes
  BY <1>10 DEF ReaderRoutes, SenderIsLive, RegisteredIsReachable, TypeOK, Empty, Slot, Answers, AnswerKinds
<1>11. CASE ReaderDrains
  BY <1>11 DEF ReaderDrains, NoFrames, SenderIsLive, RegisteredIsReachable, TypeOK, Empty, Slot, Answers, AnswerKinds
<1>12. CASE UNCHANGED <<pc, oneshot, pending>>
  BY <1>12 DEF SenderIsLive, RegisteredIsReachable, TypeOK, Empty, Slot, Answers, AnswerKinds
<1> QED
  BY <1>1, <1>2, <1>3, <1>4, <1>5, <1>6, <1>7, <1>8, <1>9, <1>10, <1>11, <1>12
  DEF Next, CallStep, ReaderStep, WriterStep, ReaderStops, ConnectionLost, vars, callVars, taskVars,
      flagVars, serverVars, Close, DropHandles, WriterTake, WriterStops, WriterSends, WriterSendFails, WriterEnds, ReaderLeaves, ExchangeReads, ExchangeAnswers, WriterLeaves

LEMMA RegisteredIsReachableStep == IInv /\ [Next]_vars => RegisteredIsReachable'
<1> USE OidOfAssumption, CapacityAssumption, NoRequestAssumption DEF IInv
<1> SUFFICES ASSUME IInv, [Next]_vars PROVE RegisteredIsReachable'
  OBVIOUS
<1>1. ASSUME NEW r \in Requests, Begin(r) PROVE RegisteredIsReachable'
  BY <1>1 DEF Begin, SenderIsLive, RegisteredIsReachable, TypeOK, Empty, Slot, Answers, AnswerKinds
<1>2. ASSUME NEW r \in Requests, Insert(r) PROVE RegisteredIsReachable'
  BY <1>2 DEF Insert, DropSender, SenderIsLive, RegisteredIsReachable, TypeOK, Empty, Slot, Answers, AnswerKinds
<1>3. ASSUME NEW r \in Requests, EnqueueOk(r) PROVE RegisteredIsReachable'
  BY <1>3 DEF EnqueueOk, SenderIsLive, RegisteredIsReachable, TypeOK, Empty, Slot, Answers, AnswerKinds
<1>4. ASSUME NEW r \in Requests, EnqueueFails(r) PROVE RegisteredIsReachable'
  BY <1>4 DEF EnqueueFails, SenderIsLive, RegisteredIsReachable, TypeOK, Empty, Slot, Answers, AnswerKinds
<1>5. ASSUME NEW r \in Requests, Answered(r) PROVE RegisteredIsReachable'
  BY <1>5 DEF Answered, SenderIsLive, RegisteredIsReachable, TypeOK, Empty, Slot, Answers, AnswerKinds
<1>6. ASSUME NEW r \in Requests, SenderDropped(r) PROVE RegisteredIsReachable'
  BY <1>6 DEF SenderDropped, SenderIsLive, RegisteredIsReachable, TypeOK, Empty, Slot, Answers, AnswerKinds
<1>7. ASSUME NEW r \in Requests, TimeOut(r) PROVE RegisteredIsReachable'
  BY <1>7 DEF TimeOut, SenderIsLive, RegisteredIsReachable, TypeOK, Empty, Slot, Answers, AnswerKinds
<1>8. ASSUME NEW r \in Requests, Remove(r) PROVE RegisteredIsReachable'
  BY <1>8 DEF Remove, DropSender, SenderIsLive, RegisteredIsReachable, TypeOK, Empty, Slot, Answers, AnswerKinds
<1>9. ASSUME NEW r \in Requests, Cancel(r) PROVE RegisteredIsReachable'
  BY <1>9 DEF Cancel, SenderIsLive, RegisteredIsReachable, TypeOK, Empty, Slot, Answers, AnswerKinds
<1>10. CASE ReaderRoutes
  BY <1>10 DEF ReaderRoutes, SenderIsLive, RegisteredIsReachable, TypeOK, Empty, Slot, Answers, AnswerKinds
<1>11. CASE ReaderDrains
  BY <1>11 DEF ReaderDrains, NoFrames, SenderIsLive, RegisteredIsReachable, TypeOK, Empty, Slot, Answers, AnswerKinds
<1>12. CASE UNCHANGED <<pc, oneshot, pending>>
  BY <1>12 DEF SenderIsLive, RegisteredIsReachable, TypeOK, Empty, Slot, Answers, AnswerKinds
<1> QED
  BY <1>1, <1>2, <1>3, <1>4, <1>5, <1>6, <1>7, <1>8, <1>9, <1>10, <1>11, <1>12
  DEF Next, CallStep, ReaderStep, WriterStep, ReaderStops, ConnectionLost, vars, callVars, taskVars,
      flagVars, serverVars, Close, DropHandles, WriterTake, WriterStops, WriterSends, WriterSendFails, WriterEnds, ReaderLeaves, ExchangeReads, ExchangeAnswers, WriterLeaves

LEMMA ResultFollowsPcStep == IInv /\ [Next]_vars => ResultFollowsPc'
<1> USE OidOfAssumption, CapacityAssumption, NoRequestAssumption DEF IInv
<1> SUFFICES ASSUME IInv, [Next]_vars PROVE ResultFollowsPc'
  OBVIOUS
<1>1. ASSUME NEW r \in Requests, Begin(r) PROVE ResultFollowsPc'
  BY <1>1 DEF Begin, ResultFollowsPc, TypeOK, Empty, Slot, Verdicts, Refusals
<1>2. ASSUME NEW r \in Requests, Insert(r) PROVE ResultFollowsPc'
  BY <1>2 DEF Insert, DropSender, ResultFollowsPc, TypeOK, Empty, Slot, Verdicts, Refusals
<1>3. ASSUME NEW r \in Requests, EnqueueOk(r) PROVE ResultFollowsPc'
  BY <1>3 DEF EnqueueOk, ResultFollowsPc, TypeOK, Empty, Slot, Verdicts, Refusals
<1>4. ASSUME NEW r \in Requests, EnqueueFails(r) PROVE ResultFollowsPc'
  BY <1>4 DEF EnqueueFails, ResultFollowsPc, TypeOK, Empty, Slot, Verdicts, Refusals
<1>5. ASSUME NEW r \in Requests, Answered(r) PROVE ResultFollowsPc'
  BY <1>5 DEF Answered, ResultFollowsPc, TypeOK, Empty, Slot, Verdicts, Refusals
<1>6. ASSUME NEW r \in Requests, SenderDropped(r) PROVE ResultFollowsPc'
  BY <1>6 DEF SenderDropped, ResultFollowsPc, TypeOK, Empty, Slot, Verdicts, Refusals
<1>7. ASSUME NEW r \in Requests, TimeOut(r) PROVE ResultFollowsPc'
  BY <1>7 DEF TimeOut, ResultFollowsPc, TypeOK, Empty, Slot, Verdicts, Refusals
<1>8. ASSUME NEW r \in Requests, Remove(r) PROVE ResultFollowsPc'
  BY <1>8 DEF Remove, DropSender, ResultFollowsPc, TypeOK, Empty, Slot, Verdicts, Refusals
<1>9. ASSUME NEW r \in Requests, Cancel(r) PROVE ResultFollowsPc'
  BY <1>9 DEF Cancel, ResultFollowsPc, TypeOK, Empty, Slot, Verdicts, Refusals
<1>10. CASE UNCHANGED <<pc, result>>
  BY <1>10 DEF ResultFollowsPc, TypeOK, Empty, Slot, Verdicts, Refusals
<1> QED
  BY <1>1, <1>2, <1>3, <1>4, <1>5, <1>6, <1>7, <1>8, <1>9, <1>10
  DEF Next, CallStep, ReaderStep, WriterStep, ReaderStops, ConnectionLost, vars, callVars, taskVars,
      flagVars, serverVars, Close, DropHandles, WriterTake, WriterStops, WriterSends, WriterSendFails, WriterEnds, ReaderRoutes, ReaderLeaves, ReaderDrains, ExchangeReads, ExchangeAnswers, WriterLeaves

LEMMA SlotKind == \A k : Slot(k).kind = k
  BY DEF Slot

\* Taking the head of the queue, and appending to it, seen element by element.
LEMMA QueueElements ==
  ASSUME NEW s \in Seq(Requests)
  PROVE  /\ s # <<>> =>
              /\ Head(s) = s[1] /\ 1 \in 1..Len(s)
              /\ \A r : (\E i \in 1..Len(Tail(s)) : Tail(s)[i] = r) => \E i \in 1..Len(s) : s[i] = r
         /\ \A e \in Requests : \A r :
              (\E i \in 1..Len(Append(s, e)) : Append(s, e)[i] = r) =>
                r = e \/ \E i \in 1..Len(s) : s[i] = r
<1>1. ASSUME s # <<>>
      PROVE  /\ Head(s) = s[1] /\ 1 \in 1..Len(s)
             /\ \A r : (\E i \in 1..Len(Tail(s)) : Tail(s)[i] = r) => \E i \in 1..Len(s) : s[i] = r
  <2>1. /\ Len(s) \in Nat /\ Len(s) > 0
        /\ Len(Tail(s)) = Len(s) - 1
        /\ \A i \in 1..Len(Tail(s)) : Tail(s)[i] = s[i + 1]
        /\ Head(s) = s[1]
    BY <1>1
  <2>2. \A i \in 1..Len(Tail(s)) : i + 1 \in 1..Len(s)
    BY <2>1
  <2> QED
    BY <2>1, <2>2
<1>2. ASSUME NEW e \in Requests, NEW r,
             NEW i \in 1..Len(Append(s, e)), Append(s, e)[i] = r
      PROVE  r = e \/ \E j \in 1..Len(s) : s[j] = r
  <2>1. /\ Len(s) \in Nat
        /\ Len(Append(s, e)) = Len(s) + 1
        /\ \A j \in 1..Len(s) : Append(s, e)[j] = s[j]
        /\ Append(s, e)[Len(s) + 1] = e
    BY AppendProperties
  <2>2. i \in 1..Len(s) \/ i = Len(s) + 1
    BY <2>1
  <2> QED
    BY <1>2, <2>1, <2>2
<1> QED
  BY <1>1, <1>2

LEMMA QueuedIsNotRefusedStep == IInv /\ [Next]_vars => QueuedIsNotRefused'
<1> USE NoRequestAssumption
<1> SUFFICES ASSUME IInv, [Next]_vars PROVE QueuedIsNotRefused'
  OBVIOUS
<1>t. /\ pc \in [Requests -> {"idle", "checked", "inserted", "waiting", "removing", "done", "cancelled"}]
      /\ result \in [Requests -> Slots]
      /\ outbound \in Seq(Requests)
      /\ carrying \in IF writer = "pace" THEN Requests ELSE {NoRequest}
      /\ QueuedIsNotRefused
      /\ ResultFollowsPc
  BY DEF IInv, TypeOK
\* The calling task: it can only add a frame to the queue, by EnqueueOk.
<1>1. ASSUME NEW r \in Requests, Begin(r) PROVE QueuedIsNotRefused'
  BY <1>1, <1>t DEF Begin, QueuedIsNotRefused, InHand, Accepted, Queued, serverVars, taskVars
<1>2. ASSUME NEW r \in Requests, Insert(r) PROVE QueuedIsNotRefused'
  BY <1>2, <1>t DEF Insert, QueuedIsNotRefused, InHand, Accepted, Queued, serverVars, taskVars
<1>3. ASSUME NEW r \in Requests, EnqueueOk(r) PROVE QueuedIsNotRefused'
  <2>1. \A q \in Requests : InHand(q)' => q = r \/ InHand(q)
    BY <1>3, <1>t, QueueElements DEF EnqueueOk, InHand, Queued, serverVars, taskVars
  <2>2. Accepted(r)'
    BY <1>3, <1>t, SlotKind DEF EnqueueOk, ResultFollowsPc, Accepted, Empty, Refusals
  <2>3. \A q \in Requests : Accepted(q) => Accepted(q)'
    BY <1>3, <1>t DEF EnqueueOk, Accepted
  <2> QED
    BY <1>3, <1>t, <2>1, <2>2, <2>3 DEF EnqueueOk, QueuedIsNotRefused, serverVars
<1>4. ASSUME NEW r \in Requests, EnqueueFails(r) PROVE QueuedIsNotRefused'
  BY <1>4, <1>t DEF EnqueueFails, QueuedIsNotRefused, InHand, Accepted, Queued, serverVars, taskVars
<1>5. ASSUME NEW r \in Requests, Answered(r) PROVE QueuedIsNotRefused'
  BY <1>5, <1>t DEF Answered, QueuedIsNotRefused, InHand, Accepted, Queued, serverVars, taskVars, AnswerKinds, Refusals
<1>6. ASSUME NEW r \in Requests, SenderDropped(r) PROVE QueuedIsNotRefused'
  BY <1>6, <1>t, SlotKind DEF SenderDropped, QueuedIsNotRefused, InHand, Accepted, Queued, serverVars, taskVars, Refusals
<1>7. ASSUME NEW r \in Requests, TimeOut(r) PROVE QueuedIsNotRefused'
  BY <1>7, <1>t, SlotKind DEF TimeOut, QueuedIsNotRefused, InHand, Accepted, Queued, serverVars, taskVars, Refusals
<1>8. ASSUME NEW r \in Requests, Remove(r) PROVE QueuedIsNotRefused'
  BY <1>8, <1>t DEF Remove, QueuedIsNotRefused, InHand, Accepted, Queued, serverVars, taskVars
<1>9. ASSUME NEW r \in Requests, Cancel(r) PROVE QueuedIsNotRefused'
  BY <1>9, <1>t, SlotKind DEF Cancel, QueuedIsNotRefused, InHand, Accepted, Queued, serverVars, taskVars, Refusals
\* The writer: a frame moves from the queue to its hands to the socket.
<1>10. CASE WriterTake
  <2>1. \A q \in Requests : InHand(q)' => InHand(q)
    BY <1>10, <1>t, QueueElements DEF WriterTake, InHand, Queued, serverVars
  <2> QED
    BY <1>10, <1>t, <2>1 DEF WriterTake, QueuedIsNotRefused, Accepted, serverVars, callVars
<1>11. CASE WriterLeaves
  BY <1>11, <1>t DEF WriterLeaves, QueuedIsNotRefused, InHand, Accepted, Queued, serverVars, callVars
<1>12. CASE WriterSends
  BY <1>12, <1>t DEF WriterSends, QueuedIsNotRefused, InHand, Accepted, Queued, callVars
<1>13. CASE WriterEnds
  <2>1. \A q : ~ Queued(q)'
    BY <1>13 DEF WriterEnds, Queued
  <2> QED
    BY <1>13, <1>t, <2>1 DEF WriterEnds, QueuedIsNotRefused, InHand, Accepted, serverVars, callVars
\* The exchange reads only what was sent; nobody else touches these variables.
<1>14. ASSUME NEW r \in Requests, ExchangeReads(r) PROVE QueuedIsNotRefused'
  BY <1>14, <1>t DEF ExchangeReads, QueuedIsNotRefused, InHand, Accepted, Queued, callVars, taskVars
<1>15. CASE UNCHANGED <<pc, result, sent, placed, carrying, outbound>>
  BY <1>15, <1>t DEF QueuedIsNotRefused, InHand, Accepted, Queued
<1> QED
  BY <1>1, <1>2, <1>3, <1>4, <1>5, <1>6, <1>7, <1>8, <1>9, <1>10, <1>11, <1>12, <1>13, <1>14, <1>15
  DEF Next, CallStep, ReaderStep, WriterStep, ReaderStops, ConnectionLost, WriterStops, WriterSendFails,
      vars, callVars, taskVars, flagVars, serverVars,
      Close, DropHandles, ReaderRoutes, ReaderLeaves, ReaderDrains, ExchangeAnswers

LEMMA AnswersAreGenuineStep == IInv /\ [Next]_vars => AnswersAreGenuine'
<1> USE OidOfAssumption, NoRequestAssumption, SlotKind DEF AnswersAreGenuine, IsAnswerFor, AnswerKinds
<1> SUFFICES ASSUME IInv, [Next]_vars PROVE AnswersAreGenuine'
  OBVIOUS
<1>t. /\ oneshot \in [Requests -> Slots]
      /\ result \in [Requests -> Slots]
      /\ pending \in [Oids -> Requests \cup {NoRequest}]
      /\ AnswersAreGenuine
      /\ SenderIsLive
  BY DEF IInv, TypeOK
<1>1. ASSUME NEW r \in Requests, Begin(r) PROVE AnswersAreGenuine'
  BY <1>1, <1>t DEF Begin, serverVars
<1>2. ASSUME NEW r \in Requests, Insert(r) PROVE AnswersAreGenuine'
  BY <1>2, <1>t DEF Insert, DropSender, serverVars
<1>3. ASSUME NEW r \in Requests, EnqueueFails(r) PROVE AnswersAreGenuine'
  BY <1>3, <1>t DEF EnqueueFails, serverVars
<1>4. ASSUME NEW r \in Requests, Answered(r) PROVE AnswersAreGenuine'
  BY <1>4, <1>t DEF Answered, serverVars
<1>5. ASSUME NEW r \in Requests, SenderDropped(r) PROVE AnswersAreGenuine'
  BY <1>5, <1>t DEF SenderDropped, serverVars
<1>6. ASSUME NEW r \in Requests, TimeOut(r) PROVE AnswersAreGenuine'
  BY <1>6, <1>t DEF TimeOut, serverVars
<1>7. ASSUME NEW r \in Requests, Remove(r) PROVE AnswersAreGenuine'
  BY <1>7, <1>t DEF Remove, DropSender, serverVars
<1>8. ASSUME NEW r \in Requests, Cancel(r) PROVE AnswersAreGenuine'
  BY <1>8, <1>t DEF Cancel, serverVars, Refusals
<1>9. CASE ReaderRoutes
  <2>1. PICK a \in inbound :
          /\ inbound' = inbound \ {a}
          /\ oneshot' = [r \in Requests |-> IF r = pending[OidOf[a.req]] THEN a ELSE oneshot[r]]
    BY <1>9 DEF ReaderRoutes
  <2>2. a \in answered /\ a.req \in Requests
    BY <1>t, <2>1 DEF IInv, TypeOK, Answers
  <2>3. \A r \in Requests : r = pending[OidOf[a.req]] => OidOf[a.req] = OidOf[r]
    BY <1>t, <2>2 DEF SenderIsLive
  <2> QED
    BY <1>9, <1>t, <2>1, <2>2, <2>3 DEF ReaderRoutes
<1>10. CASE ReaderDrains
  BY <1>10, <1>t DEF ReaderDrains, serverVars
<1>11. ASSUME NEW r \in Requests, ExchangeReads(r) PROVE AnswersAreGenuine'
  BY <1>11, <1>t DEF ExchangeReads, callVars
<1>12. ASSUME NEW r \in Requests, ExchangeAnswers(r) PROVE AnswersAreGenuine'
  BY <1>12, <1>t DEF ExchangeAnswers, callVars
<1>13. CASE UNCHANGED <<oneshot, result, answered, inbound, placed>>
  BY <1>13, <1>t
<1> QED
  BY <1>1, <1>2, <1>3, <1>4, <1>5, <1>6, <1>7, <1>8, <1>9, <1>10, <1>11, <1>12, <1>13
  DEF Next, CallStep, ReaderStep, WriterStep, ReaderStops, ConnectionLost, WriterStops, WriterSendFails,
      vars, callVars, taskVars, flagVars, serverVars, WriterLeaves,
      EnqueueOk, Close, DropHandles, WriterTake, WriterSends, WriterEnds, ReaderLeaves

LEMMA DroppedHasRivalStep == IInv /\ [Next]_vars => DroppedHasRival'
<1> USE OidOfAssumption, CapacityAssumption, NoRequestAssumption DEF IInv
<1> SUFFICES ASSUME IInv, [Next]_vars PROVE DroppedHasRival'
  OBVIOUS
<1>1. ASSUME NEW r \in Requests, Begin(r) PROVE DroppedHasRival'
  BY <1>1 DEF Begin, DroppedHasRival, HasRival, SenderIsLive, ResultFollowsPc, TypeOK, Empty, Slot, Verdicts, Refusals, Answers, AnswerKinds
<1>2. ASSUME NEW r \in Requests, Insert(r) PROVE DroppedHasRival'
  BY <1>2 DEF Insert, DropSender, DroppedHasRival, HasRival, SenderIsLive, ResultFollowsPc, TypeOK, Empty, Slot, Verdicts, Refusals, Answers, AnswerKinds
<1>3. ASSUME NEW r \in Requests, EnqueueOk(r) PROVE DroppedHasRival'
  BY <1>3 DEF EnqueueOk, DroppedHasRival, HasRival, SenderIsLive, ResultFollowsPc, TypeOK, Empty, Slot, Verdicts, Refusals, Answers, AnswerKinds
<1>4. ASSUME NEW r \in Requests, EnqueueFails(r) PROVE DroppedHasRival'
  BY <1>4 DEF EnqueueFails, DroppedHasRival, HasRival, SenderIsLive, ResultFollowsPc, TypeOK, Empty, Slot, Verdicts, Refusals, Answers, AnswerKinds
<1>5. ASSUME NEW r \in Requests, Answered(r) PROVE DroppedHasRival'
  BY <1>5 DEF Answered, DroppedHasRival, HasRival, SenderIsLive, ResultFollowsPc, TypeOK, Empty, Slot, Verdicts, Refusals, Answers, AnswerKinds
<1>6. ASSUME NEW r \in Requests, SenderDropped(r) PROVE DroppedHasRival'
  BY <1>6 DEF SenderDropped, DroppedHasRival, HasRival, SenderIsLive, ResultFollowsPc, TypeOK, Empty, Slot, Verdicts, Refusals, Answers, AnswerKinds
<1>7. ASSUME NEW r \in Requests, TimeOut(r) PROVE DroppedHasRival'
  BY <1>7 DEF TimeOut, DroppedHasRival, HasRival, SenderIsLive, ResultFollowsPc, TypeOK, Empty, Slot, Verdicts, Refusals, Answers, AnswerKinds
<1>8. ASSUME NEW r \in Requests, Remove(r) PROVE DroppedHasRival'
  BY <1>8 DEF Remove, DropSender, DroppedHasRival, HasRival, SenderIsLive, ResultFollowsPc, TypeOK, Empty, Slot, Verdicts, Refusals, Answers, AnswerKinds
<1>9. ASSUME NEW r \in Requests, Cancel(r) PROVE DroppedHasRival'
  BY <1>9 DEF Cancel, DroppedHasRival, HasRival, SenderIsLive, ResultFollowsPc, TypeOK, Empty, Slot, Verdicts, Refusals, Answers, AnswerKinds
<1>10. CASE ReaderRoutes
  BY <1>10 DEF ReaderRoutes, DroppedHasRival, HasRival, SenderIsLive, ResultFollowsPc, TypeOK, Empty, Slot, Verdicts, Refusals, Answers, AnswerKinds
<1>11. CASE ReaderDrains
  BY <1>11 DEF ReaderDrains, NoFrames, DroppedHasRival, HasRival, SenderIsLive, ResultFollowsPc, TypeOK, Empty, Slot, Verdicts, Refusals, Answers, AnswerKinds
<1>12. CASE UNCHANGED <<pc, oneshot, result>>
  BY <1>12 DEF DroppedHasRival, HasRival, SenderIsLive, ResultFollowsPc, TypeOK, Empty, Slot, Verdicts, Refusals, Answers, AnswerKinds
<1> QED
  BY <1>1, <1>2, <1>3, <1>4, <1>5, <1>6, <1>7, <1>8, <1>9, <1>10, <1>11, <1>12
  DEF Next, CallStep, ReaderStep, WriterStep, ReaderStops, ConnectionLost, vars, callVars, taskVars,
      flagVars, serverVars, Close, DropHandles, WriterTake, WriterStops, WriterSends, WriterSendFails, WriterEnds, ReaderLeaves, ExchangeReads, ExchangeAnswers, WriterLeaves

LEMMA InitIInv == Init => IInv
<1> USE OidOfAssumption, CapacityAssumption, NoRequestAssumption, SlotKind
<1> SUFFICES ASSUME Init PROVE IInv
  OBVIOUS
<1>1. TypeOK
  <2>1. Empty \in Slots
    BY DEF Empty, Slot, Slots
  <2>2. <<>> \in Seq(Requests) /\ Len(<<>>) = 0
    OBVIOUS
  <2> QED
    BY <2>1, <2>2, QueueCapacity >= 0 DEF Init, TypeOK, NoFrames
<1>2. SenderIsLive /\ RegisteredIsReachable
  BY DEF Init, SenderIsLive, RegisteredIsReachable, NoFrames
<1>3. ResultFollowsPc /\ DroppedHasRival
  BY DEF Init, ResultFollowsPc, DroppedHasRival, Empty
<1>4. QueuedIsNotRefused
  BY DEF Init, QueuedIsNotRefused, InHand, Queued
<1>5. AnswersAreGenuine
  BY DEF Init, AnswersAreGenuine, Empty, AnswerKinds
<1> QED
  BY <1>1, <1>2, <1>3, <1>4, <1>5 DEF IInv

\* IInv is an inductive invariant of the client.
THEOREM InductiveInvariant == Spec => []IInv
<1>1. IInv /\ [Next]_vars => IInv'
  BY TypeOKStep, SenderIsLiveStep, RegisteredIsReachableStep, ResultFollowsPcStep,
     QueuedIsNotRefusedStep, AnswersAreGenuineStep, DroppedHasRivalStep DEF IInv
<1> QED
  BY InitIInv, <1>1, PTL DEF Spec

\* The variables keep their types; in particular the queue never exceeds its
\* capacity.
THEOREM TypeCorrect == Spec => []TypeOK
<1>1. IInv => TypeOK
  BY DEF IInv
<1> QED
  BY <1>1, InductiveInvariant, PTL

\* An acknowledgement returned by a call is one the exchange sent for an order
\* with that clientOid.
THEOREM AckRouting == Spec => []AckIsForThisOrder
<1>1. IInv => AckIsForThisOrder
  BY DEF IInv, AnswersAreGenuine, IsAnswerFor, AckIsForThisOrder
<1> QED
  BY <1>1, InductiveInvariant, PTL

\* A call refused by the closed check, the full queue or the ended writer has
\* not put its order on the way to the exchange and never does.
THEOREM RefusalIsSafe == Spec => []RefusedIsNeverPlaced
<1>1. IInv => RefusedIsNeverPlaced
  BY DEF IInv, QueuedIsNotRefused, InHand, Accepted, RefusedIsNeverPlaced
<1> QED
  BY <1>1, InductiveInvariant, PTL

\* A waiting call whose channel is empty is in the pending map under its
\* clientOid.
THEOREM WaitersReachable == Spec => []WaiterIsReachable
<1>1. IInv => WaiterIsReachable
  BY DEF IInv, RegisteredIsReachable, WaiterIsReachable
<1> QED
  BY <1>1, InductiveInvariant, PTL

\* A call that returned left no entry in the pending map.
THEOREM NoEntryLeft == Spec => []FinishedLeavesNoEntry
<1>1. IInv => FinishedLeavesNoEntry
  BY DEF IInv, SenderIsLive, FinishedLeavesNoEntry
<1> QED
  BY <1>1, InductiveInvariant, PTL

\* "response channel closed" is seen only by a call whose clientOid another
\* call reused.
THEOREM DropsComeFromReuse == Spec => []DroppedOnlyByReuse
<1>1. IInv => DroppedOnlyByReuse
  BY DEF IInv, DroppedHasRival, DroppedOnlyByReuse
<1> QED
  BY <1>1, InductiveInvariant, PTL

-----------------------------------------------------------------------------
(* The client implements OrderEntry *)

LEMMA CallViewIs ==
  ASSUME NEW r \in Requests
  PROVE  /\ pc[r] = "idle" => CallView(r) = "new"
         /\ Live(r) => CallView(r) = "open"
         /\ pc[r] \in {"done", "cancelled"} =>
              /\ result[r].kind \in Refusals => CallView(r) = "refused"
              /\ result[r].kind \in AnswerKinds => CallView(r) = "answered"
              /\ result[r].kind \notin AnswerKinds \cup Refusals => CallView(r) = "unknown"
BY DEF CallView, Live, Refusals, AnswerKinds

LEMMA InitRefines == Init => Entry!Init
<1> SUFFICES ASSUME Init PROVE Entry!Init
  OBVIOUS
<1>1. \A r \in Requests : CallView(r) = "new"
  BY DEF Init, CallView, Live
<1>2. \A r \in Requests : BookView(r) = "unseen"
  BY DEF Init, BookView
<1> QED
  BY <1>1, <1>2 DEF Entry!Init

LEMMA StepRefines == IInv /\ IInv' /\ [Next]_vars => [Entry!Next]_(Entry!vars)
<1> SUFFICES ASSUME IInv, IInv', [Next]_vars
             PROVE  Entry!Next \/ UNCHANGED Entry!vars
  BY DEF Entry!vars
<1> DEFINE cv == [r \in Requests |-> CallView(r)]
           bv == [r \in Requests |-> BookView(r)]
<1>t. /\ pc \in [Requests -> {"idle", "checked", "inserted", "waiting", "removing", "done", "cancelled"}]
      /\ pc' \in [Requests -> {"idle", "checked", "inserted", "waiting", "removing", "done", "cancelled"}]
      /\ result \in [Requests -> Slots]
      /\ result' \in [Requests -> Slots]
      /\ QueuedIsNotRefused /\ QueuedIsNotRefused'
      /\ ResultFollowsPc /\ ResultFollowsPc'
      /\ AnswersAreGenuine
  BY DEF IInv, TypeOK
\* A step of one call moves that call's view and nothing else.
<1>o. ASSUME NEW r \in Requests, NEW v, CallView(r)' = v,
             \A q \in Requests \ {r} : pc'[q] = pc[q] /\ result'[q] = result[q],
             UNCHANGED <<placed, answered>>
      PROVE  cv' = [cv EXCEPT ![r] = v] /\ bv' = bv
  <2>1. \A q \in Requests \ {r} : CallView(q)' = CallView(q)
    BY <1>o DEF CallView, Live
  <2>2. bv' = bv
    BY <1>o DEF BookView
  <2> QED
    BY <1>o, <2>1, <2>2
\* A refused order is unseen: its frame was never in anyone's hands.
<1>u. ASSUME NEW r \in Requests, ~ Accepted(r)
      PROVE  bv[r] = "unseen"
  BY <1>u, <1>t DEF QueuedIsNotRefused, InHand, BookView
<1>1. ASSUME NEW r \in Requests, Begin(r) PROVE Entry!Next
  <2>1. cv[r] = "new"
    BY <1>1, CallViewIs DEF Begin
  <2>2. bv[r] = "unseen"
    BY <1>1, <1>u DEF Begin, Accepted
  <2>3. \A q \in Requests \ {r} : pc'[q] = pc[q] /\ result'[q] = result[q]
    BY <1>1, <1>t DEF Begin
  <2>4. UNCHANGED <<placed, answered>>
    BY <1>1 DEF Begin, serverVars
  <2>5. CASE closed
    <3>1. CallView(r)' = "refused"
      BY <1>1, <1>t, <2>5, SlotKind DEF Begin, CallView, Live, Refusals
    <3>2. cv' = [cv EXCEPT ![r] = "refused"] /\ bv' = bv
      BY <1>o, <2>3, <2>4, <3>1
    <3> QED
      BY <2>1, <2>2, <3>2 DEF Entry!Next, Entry!Refuse
  <2>6. CASE ~ closed
    <3>1. CallView(r)' = "open"
      BY <1>1, <1>t, <2>6 DEF Begin, CallView, Live
    <3>2. cv' = [cv EXCEPT ![r] = "open"] /\ bv' = bv
      BY <1>o, <2>3, <2>4, <3>1
    <3> QED
      BY <2>1, <3>2 DEF Entry!Next, Entry!Open
  <2> QED
    BY <2>5, <2>6
\* Steps inside an open call are stutters.
<1>2. ASSUME NEW r \in Requests,
             Insert(r) \/ EnqueueOk(r) \/ EnqueueFails(r) \/ SenderDropped(r) \/ TimeOut(r)
      PROVE  UNCHANGED Entry!vars
  <2>1. CallView(r) = "open" /\ CallView(r)' = "open"
    BY <1>2, <1>t DEF Insert, EnqueueOk, EnqueueFails, SenderDropped, TimeOut, CallView, Live
  <2>2. \A q \in Requests \ {r} : pc'[q] = pc[q] /\ result'[q] = result[q]
    BY <1>2, <1>t DEF Insert, EnqueueOk, EnqueueFails, SenderDropped, TimeOut
  <2>3. UNCHANGED <<placed, answered>>
    BY <1>2 DEF Insert, EnqueueOk, EnqueueFails, SenderDropped, TimeOut, serverVars
  <2>4. cv' = [cv EXCEPT ![r] = "open"] /\ bv' = bv
    BY <1>o, <2>1, <2>2, <2>3
  <2> QED
    BY <2>1, <2>4 DEF Entry!vars
<1>3. ASSUME NEW r \in Requests, Answered(r) PROVE Entry!Next
  <2>1. cv[r] = "open"
    BY <1>3, CallViewIs DEF Answered, Live
  <2>2. \A q \in Requests \ {r} : pc'[q] = pc[q] /\ result'[q] = result[q]
    BY <1>3, <1>t DEF Answered
  <2>3. UNCHANGED <<placed, answered>>
    BY <1>3 DEF Answered, serverVars
  <2>4. pc'[r] = "done" /\ result'[r] = oneshot[r]
    BY <1>3, <1>t DEF Answered
  <2>5. CASE oneshot[r].kind \in AnswerKinds
    <3>1. CallView(r)' = "answered"
      BY <2>4, <2>5 DEF CallView, Live, AnswerKinds, Refusals
    <3>2. cv' = [cv EXCEPT ![r] = "answered"] /\ bv' = bv
      BY <1>o, <2>2, <2>3, <3>1
    <3>3. /\ oneshot[r] \in answered
          /\ OidOf[oneshot[r].req] = OidOf[r]
          /\ oneshot[r].req \in placed
      BY <1>t, <2>5 DEF AnswersAreGenuine, IsAnswerFor
    <3>4. oneshot[r].req \in Requests
      BY <3>3 DEF IInv, TypeOK
    <3>5. bv[oneshot[r].req] = "replied"
      BY <3>3, <3>4 DEF BookView
    <3> QED
      BY <2>1, <3>2, <3>3, <3>4, <3>5 DEF Entry!Next, Entry!Answer
  <2>6. CASE oneshot[r].kind = "connection_closed"
    <3>1. CallView(r)' = "unknown"
      BY <2>4, <2>6 DEF CallView, Live, AnswerKinds, Refusals
    <3>2. cv' = [cv EXCEPT ![r] = "unknown"] /\ bv' = bv
      BY <1>o, <2>2, <2>3, <3>1
    <3> QED
      BY <2>1, <3>2 DEF Entry!Next, Entry!GiveUp
  <2> QED
    BY <1>3, <2>5, <2>6 DEF Answered
\* A call that ends without an answer is refused or unknown.
<1>4. ASSUME NEW r \in Requests, Remove(r) \/ Cancel(r) PROVE Entry!Next
  <2>1. cv[r] = "open"
    BY <1>4, CallViewIs DEF Remove, Cancel, Live
  <2>2. \A q \in Requests \ {r} : pc'[q] = pc[q] /\ result'[q] = result[q]
    BY <1>4, <1>t DEF Remove, Cancel
  <2>3. UNCHANGED <<placed, answered>>
    BY <1>4 DEF Remove, Cancel, serverVars
  <2>4. pc'[r] \in {"done", "cancelled"} /\ result'[r].kind \in Verdicts
    BY <1>4, <1>t, SlotKind DEF Remove, Cancel, ResultFollowsPc, Verdicts
  <2>5. CASE result'[r].kind \in Refusals
    <3>1. CallView(r)' = "refused"
      BY <2>4, <2>5 DEF CallView, Live
    <3>2. cv' = [cv EXCEPT ![r] = "refused"] /\ bv' = bv
      BY <1>o, <2>2, <2>3, <3>1
    <3>3. result[r].kind \in Refusals
      BY <1>4, <1>t, <2>5, SlotKind DEF Remove, Cancel, Refusals
    <3>4. bv[r] = "unseen"
      BY <1>u, <3>3 DEF Accepted
    <3> QED
      BY <2>1, <3>2, <3>4 DEF Entry!Next, Entry!Refuse
  <2>6. CASE result'[r].kind \notin Refusals
    <3>1. CallView(r)' = "unknown"
      BY <2>4, <2>6 DEF CallView, Live, Verdicts, AnswerKinds, Refusals
    <3>2. cv' = [cv EXCEPT ![r] = "unknown"] /\ bv' = bv
      BY <1>o, <2>2, <2>3, <3>1
    <3> QED
      BY <2>1, <3>2 DEF Entry!Next, Entry!GiveUp
  <2> QED
    BY <2>5, <2>6
<1>5. ASSUME NEW r \in Requests, ExchangeReads(r) PROVE Entry!Next
  <2>1. cv' = cv
    BY <1>5 DEF ExchangeReads, callVars, CallView, Live
  <2>2. Accepted(r)
    BY <1>5, <1>t DEF ExchangeReads, QueuedIsNotRefused, InHand
  <2>3. cv[r] \notin {"new", "refused"}
    BY <2>2 DEF Accepted, CallView, Live
  <2>4. bv[r] = "unseen"
    BY <1>5 DEF ExchangeReads, BookView
  <2>5. bv' = [bv EXCEPT ![r] = "read"]
    <3>1. BookView(r)' = "read"
      BY <1>5, <1>t DEF ExchangeReads, BookView, AnswersAreGenuine
    <3>2. \A q \in Requests \ {r} : BookView(q)' = BookView(q)
      BY <1>5 DEF ExchangeReads, BookView
    <3> QED
      BY <3>1, <3>2
  <2> QED
    BY <2>1, <2>3, <2>4, <2>5 DEF Entry!Next, Entry!Read
<1>6. ASSUME NEW r \in Requests, ExchangeAnswers(r) PROVE Entry!Next \/ UNCHANGED Entry!vars
  <2>1. PICK a \in [kind : AnswerKinds, req : {r}] : answered' = answered \cup {a}
    BY <1>6 DEF ExchangeAnswers
  <2>2. a.req = r
    OBVIOUS
  <2>3. cv' = cv
    BY <1>6 DEF ExchangeAnswers, callVars, CallView, Live
  <2>4. \A q \in Requests \ {r} : BookView(q)' = BookView(q)
    BY <1>6, <2>1, <2>2 DEF ExchangeAnswers, BookView
  <2>5. BookView(r)' = "replied" /\ BookView(r) \in {"read", "replied"}
    BY <1>6, <2>1, <2>2 DEF ExchangeAnswers, BookView
  <2>6. bv' = [bv EXCEPT ![r] = "replied"]
    BY <2>4, <2>5
  <2> QED
    BY <2>3, <2>5, <2>6 DEF Entry!Next, Entry!Reply, Entry!vars
<1>7. CASE UNCHANGED <<pc, result, placed, answered>>
  BY <1>7 DEF Entry!vars, CallView, Live, BookView
<1> QED
  BY <1>1, <1>2, <1>3, <1>4, <1>5, <1>6, <1>7
  DEF Next, CallStep, ReaderStep, WriterStep, ReaderStops, ConnectionLost, WriterStops, WriterSendFails,
      vars, callVars, taskVars, flagVars, serverVars, WriterLeaves,
      Close, DropHandles, WriterTake, WriterSends, WriterEnds, ReaderLeaves, ReaderRoutes, ReaderDrains

\* The client implements OrderEntry, whatever the number of calls, the
\* clientOids and the queue capacity.
THEOREM Refinement == Spec => ImplementsOrderEntry
<1> QED
  BY InitRefines, StepRefines, InductiveInvariant, PTL DEF Spec, ImplementsOrderEntry, Entry!Spec

=============================================================================
