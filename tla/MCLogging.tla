------------------------------ MODULE MCLogging ------------------------------
(* Small instances of Logging for TLC. *)
EXTENDS Logging

CONSTANTS p1, p2, p3

TwoPushers == {p1, p2}
ThreePushers == {p1, p2, p3}
=============================================================================
