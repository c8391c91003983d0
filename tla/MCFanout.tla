------------------------------- MODULE MCFanout -------------------------------
(* Small instances of Fanout for TLC.                                          *)
EXTENDS Fanout, TLC

\* Connections differ only in their names.
MCSymmetry == Permutations(Conns)
===============================================================================
