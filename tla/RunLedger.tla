----------------------------- MODULE RunLedger -----------------------------
(***************************************************************************)
(* What the job platform promises about runs, whoever creates, starts or   *)
(* closes them: a scheduled tick opens at most one run, a run is begun at  *)
(* most once and only after its approval when its job asks for one, and a  *)
(* run that is closed stays closed.                                        *)
(***************************************************************************)
CONSTANTS Runs, Jobs, Gated, Ticks, Null

VARIABLES
    phase,     \* "unopened", "open", "begun" or "closed"
    entry,     \* the job and the tick a run was opened for
    approved   \* the runs a human has approved

ledgerVars == <<phase, entry, approved>>

LedgerInit ==
    /\ phase = [r \in Runs |-> "unopened"]
    /\ entry = [r \in Runs |-> [job |-> Null, tick |-> Null]]
    /\ approved = {}

\* A manual run has no tick; a tick is used once.
Open(r, j, t) ==
    /\ phase[r] = "unopened"
    /\ t # Null => \A q \in Runs : entry[q] # [job |-> j, tick |-> t]
    /\ phase' = [phase EXCEPT ![r] = "open"]
    /\ entry' = [entry EXCEPT ![r] = [job |-> j, tick |-> t]]
    /\ UNCHANGED approved

Approve(r) ==
    /\ phase[r] # "unopened" /\ entry[r].job \in Gated
    /\ approved' = approved \cup {r}
    /\ UNCHANGED <<phase, entry>>

Begin(r) ==
    /\ phase[r] = "open"
    /\ entry[r].job \in Gated => r \in approved
    /\ phase' = [phase EXCEPT ![r] = "begun"]
    /\ UNCHANGED <<entry, approved>>

\* A sweep closes several runs at once; a run may be closed without having begun.
Close(S) ==
    /\ \A r \in S : phase[r] \in {"open", "begun"}
    /\ phase' = [r \in Runs |-> IF r \in S THEN "closed" ELSE phase[r]]
    /\ UNCHANGED <<entry, approved>>

LedgerNext ==
    \/ \E r \in Runs :
           \/ \E j \in Jobs, t \in Ticks \cup {Null} : Open(r, j, t)
           \/ Approve(r)
           \/ Begin(r)
    \/ \E S \in SUBSET Runs : Close(S)

LedgerSpec == LedgerInit /\ [][LedgerNext]_ledgerVars
=============================================================================
