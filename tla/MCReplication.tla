---------------------------- MODULE MCReplication ---------------------------
(* One account and one client that watches it.                             *)
EXTENDS ReplicationProperties

CONSTANTS hello, trip1

MCGetTrip(t) == trip1
=============================================================================
