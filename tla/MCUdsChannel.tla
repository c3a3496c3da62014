---------------------------- MODULE MCUdsChannel ----------------------------
(* A small instance of UdsChannel for TLC: see the README for the bounds. *)
EXTENDS UdsChannel

CONSTANTS s1, s2

MCSenders == {s1, s2}
=============================================================================
