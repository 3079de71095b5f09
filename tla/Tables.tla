------------------------------- MODULE Tables -------------------------------
(***************************************************************************)
(* The frame in which the program's pure decisions are checked: a case is  *)
(* asked, the program's answer is worked out in one step, and invariants   *)
(* compare the two.  Each ...Check module contributes a table: the cases   *)
(* it asks, a step that answers them, and the invariants on the answers.   *)
(***************************************************************************)
VARIABLES asked,    \* the case, with the table it belongs to
          answer    \* the program's answer, Pending before

Pending == [pending |-> TRUE]

Asked(table) == asked.table = table
Given(table) == Asked(table) /\ answer # Pending

Answers(a) == answer = Pending /\ answer' = a /\ UNCHANGED asked
=============================================================================
