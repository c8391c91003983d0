------------------------------ MODULE TaskMove ------------------------------
(* What moving a task between two machines promises: the task arrives as at *)
(* most one copy per transfer, a copy never disappears, and the source is   *)
(* closed at most once and never before a copy exists.                      *)
CONSTANT Transfers
VARIABLES sourceClosed, copies
moveVars == <<sourceClosed, copies>>

Init == sourceClosed = FALSE /\ copies = {}

(* The destination has created its task for transfer t. *)
Arrive(t) ==
  /\ t \notin copies
  /\ copies' = copies \cup {t}
  /\ UNCHANGED sourceClosed

(* The source closes its own copy. *)
Leave ==
  /\ ~sourceClosed
  /\ copies # {}
  /\ sourceClosed' = TRUE
  /\ UNCHANGED copies

Next == (\E t \in Transfers : Arrive(t)) \/ Leave
Spec == Init /\ [][Next]_moveVars
=============================================================================
