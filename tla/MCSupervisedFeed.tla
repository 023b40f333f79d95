--------------------------- MODULE MCSupervisedFeed ---------------------------
(* Small instances of SupervisedFeed for TLC. *)
EXTENDS SupervisedFeed
=============================================================================
