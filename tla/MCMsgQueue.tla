----------------------------- MODULE MCMsgQueue -----------------------------
(* Small instances of MsgQueue for TLC: see the README for the bounds. *)
EXTENDS MsgQueue

CONSTANTS s1, s2, r1

MCSenders == {s1, s2}
MCReceivers == {r1}
=============================================================================
