----------------------------- MODULE MCFeedRunner -----------------------------
(* Small instances of FeedRunner for TLC. *)
EXTENDS FeedRunner
=============================================================================
