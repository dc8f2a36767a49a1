--------------------------- MODULE MCSessionStore ---------------------------
(* Two sessions, two models and two hashes; four records are one more than *)
(* escalate a session, so strikes of two conversations can interleave.     *)
EXTENDS SessionStoreSpec
=============================================================================
