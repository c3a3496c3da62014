------------------------------ MODULE MCUdsRpc ------------------------------
(* Small instances of UdsRpc for TLC: see the README for the bounds. *)
EXTENDS UdsRpc

CONSTANTS c1, c2, n1

TwoCallers == {c1, c2}
OneCaller == {c1}
OneNotifier == {n1}
=============================================================================
