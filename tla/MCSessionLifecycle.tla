-------------------------- MODULE MCSessionLifecycle -------------------------
(* Small instances of SessionLifecycle for TLC.                                *)
EXTENDS SessionLifecycle, TLC

\* Clients differ only in their names.
MCSymmetry == Permutations(Clients)
==============================================================================
