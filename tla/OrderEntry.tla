------------------------------ MODULE OrderEntry ------------------------------
(***************************************************************************)
(* What WsOrderClient promises to its callers, without queue, tasks, map   *)
(* or socket: each call is opened once and settled at most once, and how   *)
(* it is settled says something about the exchange.                        *)
(*                                                                         *)
(*   "answered"  the exchange read an order with this call's clientOid and *)
(*               answered it;                                              *)
(*   "refused"   the exchange has not read this order and never will;      *)
(*   "unknown"   the client does not know (timeout, teardown, abandoned).  *)
(***************************************************************************)
CONSTANTS Requests, Oids, OidOf

VARIABLES call,   \* the caller's view of each call
          book    \* the exchange's view of each order

vars == <<call, book>>

TypeOK ==
  /\ call \in [Requests -> {"new", "open", "answered", "refused", "unknown"}]
  /\ book \in [Requests -> {"unseen", "read", "replied"}]

Init ==
  /\ call = [r \in Requests |-> "new"]
  /\ book = [r \in Requests |-> "unseen"]

Open(r) ==
  /\ call[r] = "new"
  /\ call' = [call EXCEPT ![r] = "open"]
  /\ UNCHANGED book

\* A call may be settled in the step that would open it: a closed client
\* refuses at once.
Refuse(r) ==
  /\ call[r] \in {"new", "open"}
  /\ book[r] = "unseen"
  /\ call' = [call EXCEPT ![r] = "refused"]
  /\ UNCHANGED book

Answer(r) ==
  /\ call[r] = "open"
  /\ \E q \in Requests : OidOf[q] = OidOf[r] /\ book[q] = "replied"
  /\ call' = [call EXCEPT ![r] = "answered"]
  /\ UNCHANGED book

GiveUp(r) ==
  /\ call[r] = "open"
  /\ call' = [call EXCEPT ![r] = "unknown"]
  /\ UNCHANGED book

\* The exchange reads an order that was opened and not refused, even after
\* the caller gave up on it.
Read(r) ==
  /\ call[r] \notin {"new", "refused"}
  /\ book[r] = "unseen"
  /\ book' = [book EXCEPT ![r] = "read"]
  /\ UNCHANGED call

Reply(r) ==
  /\ book[r] = "read"
  /\ book' = [book EXCEPT ![r] = "replied"]
  /\ UNCHANGED call

Next == \E r \in Requests : Open(r) \/ Refuse(r) \/ Answer(r) \/ GiveUp(r) \/ Read(r) \/ Reply(r)

Spec == Init /\ [][Next]_vars
=============================================================================
