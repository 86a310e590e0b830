----------------------------- MODULE MCSession ------------------------------
(* Four messages: one being written, two in the queue, one posted.         *)
EXTENDS Session
=============================================================================
