------------------------------ MODULE MCMqLife ------------------------------
(* Small instances of MqLife for TLC: see the README for the bounds. *)
EXTENDS MqLife

CONSTANTS o1, o2, o3, p1, p2

MCObjects == {o1, o2, o3}
MCProcesses == {p1, p2}
MCHome == [o \in MCObjects |-> IF o = o3 THEN p2 ELSE p1]
=============================================================================
