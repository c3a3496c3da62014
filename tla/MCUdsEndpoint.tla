--------------------------- MODULE MCUdsEndpoint ---------------------------
(* Small instances of UdsEndpoint for TLC: see the README for the bounds. *)
EXTENDS UdsEndpoint

CONSTANTS o1, o2, p1

MCOwners == {o1, o2}
MCOthers == {p1}
=============================================================================
