------------------------------ MODULE MCCalendar ------------------------------
(* Instances of Calendar for TLC. *)
EXTENDS Calendar, TLC

CONSTANTS c1, c2, dns, judge

\* A recurring watch that escalates at its deadline, and a continuation to be
\* judged once.
Once == {[obl |-> dns, due |-> 1, every |-> 2, deadline |-> 3],
         [obl |-> judge, due |-> 2, every |-> None, deadline |-> 5]}

CallSymmetry == Permutations(Call)
=============================================================================
