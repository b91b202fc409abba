-------------------------- MODULE MCDigestPipeline --------------------------
(***************************************************************************)
(* Small instances of DigestPipeline for TLC.                              *)
(***************************************************************************)
EXTENDS DigestPipeline, TLC

CONSTANTS d1, d2, s1, s2, l1, l2

\* The day of a run: one of two, if there are two.
MCDayOf == [r \in Runs |-> IF r \in {s1, l1} \/ Days = {d1} THEN d1 ELSE d2]

\* Runners are interchangeable, and so are the slots of their calls.
RunnerSymmetry == Permutations(Runners) \cup Permutations(Calls)
=============================================================================
