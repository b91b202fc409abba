------------------------------ MODULE WorkApi ------------------------------
(***************************************************************************)
(* The work API for external runners (backend/internal/api/work.go):       *)
(* claim-work and complete-work, each one transaction at READ COMMITTED,   *)
(* so each of its statements sees what was committed before it.  A writing *)
(* statement holds its row locks to the commit, hence is one step with it. *)
(***************************************************************************)
EXTENDS DigestStore

CONSTANT Calls   \* bound: calls in progress at the same time

VARIABLES
    call,   \* what a call in progress remembers
    told    \* history: told[n][r]: until when n was told it holds r; 0 never

workVars == <<call, told>>

\* What a completion carries: a failure, a text, or neither.
Posts == {"failed", "content", "empty"}

NoCall == [pc |-> "none", runner |-> Null, run |-> Null, now |-> 0, post |-> Null]

CallRow == [pc : {"none", "claim", "confirm", "write"}, runner : OrNull(Runners),
            run : OrNull(ScrapeRuns), now : Time, post : OrNull(Posts)]

WorkTypeOK ==
    /\ call \in [Calls -> CallRow]
    /\ told \in [Runners -> [ScrapeRuns -> Nat]]

WorkInit ==
    /\ call = [c \in Calls |-> NoCall]
    /\ told = [n \in Runners |-> [r \in ScrapeRuns |-> 0]]

Answered(c) == call' = [call EXCEPT ![c] = NoCall]

-----------------------------------------------------------------------------
(* claim-work *)

\* The oldest claimable artifact names the run.  No work: no trace.
ClaimFind(c, n) ==
    /\ call[c].pc = "none"
    /\ LET claimable == {r \in ScrapeRuns : ClaimableOf(r, clock) # {}}
       IN /\ claimable # {}
          /\ call' = [call EXCEPT ![c] = [NoCall EXCEPT
                !.pc = "claim", !.runner = n, !.run = Oldest(claimable), !.now = clock]]
    /\ UNCHANGED <<digestStoreVars, told>>

\* Faulty variant: the UPDATE takes the run's artifacts as they are.
ClaimTakeBlind(c) ==
    /\ call[c].pc = "claim"
    /\ LET n == call[c].runner
           r == call[c].run
           until == call[c].now + WorkLease
       IN Claimed(Of(r), n, until) /\ told' = [told EXCEPT ![n][r] = until]
    /\ Answered(c)
    /\ UNCHANGED <<clock, mode, external, runs, rank, digests, batches, faults>>

\* The conditional UPDATE tests the predicate again, with the same now.
ClaimTake(c) ==
    /\ call[c].pc = "claim"
    /\ LET n == call[c].runner
           r == call[c].run
           until == call[c].now + WorkLease
           taken == ClaimableOf(r, call[c].now)
       IN \/ /\ taken # {}
             /\ Claimed(taken, n, until)
             /\ \/ told' = [told EXCEPT ![n][r] = until] /\ UNCHANGED faults
                \/ Fault /\ UNCHANGED told   \* the payload or the answer is lost
          \/ taken = {} /\ UNCHANGED <<arts, told, faults>>
    /\ Answered(c)
    /\ UNCHANGED <<clock, mode, external, runs, rank, digests, batches>>

-----------------------------------------------------------------------------
(* complete-work, without its upload phase, which changes nothing *)

\* The run belongs to the scoped job.  Artifacts named in the request must be
\* the runner's; since naming none is allowed, this keeps no runner out.
CompleteCheck(c, n, r) ==
    /\ call[c].pc = "none"
    /\ \E post \in Posts :
          call' = [call EXCEPT ![c] = [NoCall EXCEPT
              !.pc = "confirm", !.runner = n, !.run = r, !.post = post]]
    /\ UNCHANGED <<digestStoreVars, told>>

\* Some artifact of the run is attributed to this runner.
CompleteConfirm(c) ==
    /\ call[c].pc = "confirm"
    /\ IF HeldBy(call[c].runner, call[c].run) = {} THEN Answered(c)
       ELSE call' = [call EXCEPT ![c].pc = "write"]
    /\ UNCHANGED <<digestStoreVars, told>>

\* The Stage of the job a run belongs to (catalog.go).
StageOf(r) == IF r \in ScrapeRuns THEN "scrape" ELSE "llm"

\* Steps (4) to (6): the digest for the llm stage, the artifacts, the run.
CompleteWrite(c) ==
    /\ call[c].pc = "write"
    /\ LET n == call[c].runner
           r == call[c].run
           failed == call[c].post = "failed"
       IN /\ IF StageOf(r) = "llm" /\ call[c].post # "empty"
             THEN Persisted(DayOf[r], IF failed THEN Failed ELSE Completed({r}))
             ELSE UNCHANGED digests
          /\ Consumed({a \in HeldBy(n, r) : Is(a, "claimed")}, r)
          /\ runs' = [runs EXCEPT ![r] =
                [status |-> IF failed THEN "failed" ELSE "succeeded", runner |-> n]]
    /\ Answered(c)
    /\ UNCHANGED <<clock, mode, external, rank, batches, faults, told>>

\* A statement or the commit fails: everything is rolled back.
CallFails(c) ==
    /\ call[c].pc # "none" /\ Fault /\ Answered(c)
    /\ UNCHANGED <<clock, mode, external, runs, arts, rank, digests, batches, told>>

-----------------------------------------------------------------------------
WorkNext == \E c \in Calls :
    \/ \E n \in Runners : ClaimFind(c, n) \/ \E r \in ScrapeRuns : CompleteCheck(c, n, r)
    \/ ClaimTake(c) \/ CompleteConfirm(c) \/ CompleteWrite(c) \/ CallFails(c)
=============================================================================
