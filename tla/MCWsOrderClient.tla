--------------------------- MODULE MCWsOrderClient ---------------------------
(* Small instances of WsOrderClient for TLC. *)
EXTENDS WsOrderClient, TLC

CONSTANTS r1, r2, o1, o2

\* Every call has its own clientOid, as place_order and cancel_order mint them.
FreshOids2 == r1 :> o1 @@ r2 :> o2

\* send_raw used twice with one clientOid.
ReusedOid == r1 :> o1 @@ r2 :> o1
=============================================================================
