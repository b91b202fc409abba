--------------------------- MODULE MCJobPlatform ---------------------------
(***************************************************************************)
(* Small instances of JobPlatform for TLC.                                 *)
(***************************************************************************)
EXTENDS JobPlatform

\* Expressions that fire at every instant, at every second one, and never.
CONSTANTS often, rarely, never, digest, finance

Period(s) == IF s = often THEN 1 ELSE 2

MCActivation == [s \in Schedules |-> [t \in Time |->
    IF s = never THEN 0 ELSE Period(s) * (t \div Period(s) + 1)]]
=============================================================================
