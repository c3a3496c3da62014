----------------------------- MODULE MCMutexUse -----------------------------
(* Small instances of MutexUse for TLC: see the README for the bounds. *)
EXTENDS MutexUse
=============================================================================
