------------------------------ MODULE MCAccounts ------------------------------
(***************************************************************************)
(* Small instances of Accounts for TLC.                                    *)
(***************************************************************************)
EXTENDS Accounts, TLC

CONSTANTS owner, guest

\* The owner's address is allowlisted, a guest's is not.
MCFloor == [e \in Emails |-> IF e = owner THEN Admin ELSE Member]

AccountsSymmetry ==
    Permutations(Reqs) \cup Permutations(Subs) \cup Permutations(Ids)
        \cup Permutations(Sessions)
=============================================================================
