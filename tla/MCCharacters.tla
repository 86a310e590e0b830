---------------------------- MODULE MCCharacters ----------------------------
(* One client and one other user, two channels, two models of which one    *)
(* has a relative that stands in for it.                                   *)
EXTENDS Characters
=============================================================================
