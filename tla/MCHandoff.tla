------------------------------ MODULE MCHandoff ------------------------------
(* Small instances of Handoff for TLC.  Every configuration gives the sets of  *)
(* sessions, incarnations and successors as model values.                      *)
EXTENDS Handoff, TLC

\* Sound where a configuration singles out no session and no successor:
\* Protected is empty and every successor is trusted.
MCSymmetry ==
  Permutations(Sessions) \cup Permutations(Children) \cup Permutations(Successors)

\* For configurations that do: only the incarnations are interchangeable.
ChildSymmetry == Permutations(Children)
==============================================================================
