---------------------------- MODULE MCThreadAbs ----------------------------
(* Small instances of ThreadAbs for TLC: see the README for the bounds. *)
EXTENDS ThreadAbs

CONSTANTS c1, c2

MCControllers == {c1, c2}
MCStarters == {c1}
=============================================================================
