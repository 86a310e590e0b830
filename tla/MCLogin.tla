------------------------------ MODULE MCLogin -------------------------------
(* Two clients and room for one, so that a client can be refused and two   *)
(* can race for the last place.                                            *)
EXTENDS Login
=============================================================================
