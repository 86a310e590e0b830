------------------------------ MODULE MCAccount -----------------------------
(* Two users, one channel besides the default, two texts.                  *)
EXTENDS AccountProperties

CONSTANTS hello, trip1

\* The hash of the trip, as a table.
MCGetTrip(t) == trip1
=============================================================================
