---------------------------- MODULE MCSharedMem -----------------------------
(* Small instances of SharedMem for TLC: see the README for the bounds. *)
EXTENDS SharedMem

CONSTANTS owner, u1, u2

MCProcs == {owner, u1, u2}
MCOwners == {owner}
=============================================================================
