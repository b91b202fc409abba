------------------------------ MODULE MCBills ------------------------------
(***************************************************************************)
(* Small instances of Bills for TLC: a year of four short months, a "week" *)
(* of three days whose match windows overlap, months and quarters.         *)
(***************************************************************************)
EXTENDS Bills, TLC

CONSTANTS r1, r2, rent, b1, b2

MCEnds == <<0, 4, 6, 9, 13>>
MCStepDays == [c \in Cadences |-> IF c = "weekly" THEN 3 ELSE 0]
MCStepMonths == [c \in Cadences |-> CASE c = "weekly" -> 0 [] c = "monthly" -> 1 [] OTHER -> 3]
MCPostedOn == [r \in Rows |-> IF r = r1 THEN 2 ELSE 5]
MCFits == [p \in Patterns |-> Rows]

Form(a, c, s, e, p) == [anchor |-> a, cadence |-> c, status |-> s, ended |-> e, pattern |-> p]
\* The first bill takes several forms; the second is there for a pass to go on to.
MCForms == [b \in BillIds |->
    IF b = b2 THEN {Form(3, "monthly", "active", Null, rent)}
    ELSE {Form(1, "weekly", "active", Null, rent), Form(2, "weekly", "ended", 5, rent),
          Form(-1, "quarterly", "paused", Null, NoPattern)}]

LinkSymmetry == Permutations(Linkers)
=============================================================================
