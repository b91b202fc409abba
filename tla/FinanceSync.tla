---------------------------- MODULE FinanceSync ----------------------------
(***************************************************************************)
(* The ack-gated handshake of finance.sync, in the API process             *)
(* (backend/internal/api/finance_sync.go): a human approves the run, an    *)
(* external runner leases the oldest approved run, and closes it with its  *)
(* outcome.  Approval and completion read the run and then write it by id; *)
(* the lease is a conditional update.                                      *)
(***************************************************************************)
EXTENDS JobStore

CONSTANT Callers  \* requests of humans and runners served at the same time

VARIABLE fin      \* step of each request, its run, the outcome it reports

NoCall == [step |-> "idle", run |-> Null, target |-> Null]

FinanceTypeOK ==
    fin \in [Callers -> [step : {"idle", "approve", "lease", "close"},
                         run : OrNull(RunIds),
                         target : OrNull({"succeeded", "failed"})]]

FinanceInit == fin = [c \in Callers |-> NoCall]

Call(c, step, r, target) ==
    /\ fin[c].step = "idle"
    /\ fin' = [fin EXCEPT ![c] = [step |-> step, run |-> r, target |-> target]]
    /\ UNCHANGED storeVars

Return(c) == fin' = [fin EXCEPT ![c] = NoCall]

-----------------------------------------------------------------------------
(* ackFinanceSync *)

\* Anything but a gated run awaiting approval is a no-op or a 404.
AckRead(c, r) ==
    /\ IsGated(r) /\ run[r].status = "awaiting_ack"
    /\ Call(c, "approve", r, Null)

\* claimable_at is written by id: the status is not tested again.
Approve(c) ==
    /\ fin[c].step = "approve"
    /\ run' = [run EXCEPT ![fin[c].run] = [@ EXCEPT !.claimable = clock]]
    /\ Return(c)
    /\ UNCHANGED <<clock, job, queue, faults, starts, reports>>

-----------------------------------------------------------------------------
(* claimFinanceSync *)

\* Faulty variant: ClaimableAtNotNil is missing from the query.
Awaiting(r) == IsGated(r) /\ run[r].status = "awaiting_ack"

\* status = awaiting_ack AND claimable_at IS NOT NULL.
Approved(r) ==
    /\ IsGated(r)
    /\ run[r].status = "awaiting_ack"
    /\ run[r].claimable # Null

\* ORDER BY claimable_at, id.
Before(q, r) ==
    \/ run[q].claimable < run[r].claimable
    \/ run[q].claimable = run[r].claimable /\ q < r

ClaimPick(c, r) ==
    /\ Approved(r)
    /\ \A q \in RunIds : Approved(q) /\ q # r => Before(r, q)
    /\ Call(c, "lease", r, Null)

\* Faulty variant: the lease is by id alone.
LeasableUnchecked(r) == TRUE

\* The lease's WHERE: still awaiting_ack.
Leasable(r) == run[r].status = "awaiting_ack"

\* The commit of the lease; a caller whose update matches no row has no work.
Lease(c) ==
    /\ fin[c].step = "lease"
    /\ IF Leasable(fin[c].run) THEN StartRun(fin[c].run)
                               ELSE UNCHANGED <<run, starts>>
    /\ Return(c)
    /\ UNCHANGED <<clock, job, queue, faults, reports>>

-----------------------------------------------------------------------------
(* completeFinanceSync *)

\* Only a running run is closed; the same outcome again is a no-op, and any
\* other state is a conflict.
Completable(r) == IsGated(r) /\ run[r].status = "running"

CompleteRead(c, r, target) ==
    /\ Completable(r)
    /\ Call(c, "close", r, target)

\* The write is by id: the status is not tested again.  A failure may carry a
\* reason.  The push follows the write.
Complete(c) ==
    /\ fin[c].step = "close"
    /\ \/ CloseRun(fin[c].run, fin[c].target, Null)
       \/ fin[c].target = "failed" /\ CloseRun(fin[c].run, "failed", "runner")
    /\ reports' = [reports EXCEPT ![fin[c].run] = @ + 1]
    /\ Return(c)
    /\ UNCHANGED <<clock, job, queue, faults, starts>>

-----------------------------------------------------------------------------
\* The second statement of a request fails: the caller gets an error.
CallFails(c) ==
    /\ fin[c].step # "idle"
    /\ Fault
    /\ Return(c)
    /\ UNCHANGED <<clock, job, run, queue, starts, reports>>

FinanceContinue(c) == Approve(c) \/ Lease(c) \/ Complete(c) \/ CallFails(c)

FinanceNext ==
    \E c \in Callers :
        \/ FinanceContinue(c)
        \/ \E r \in RunIds :
               \/ AckRead(c, r)
               \/ ClaimPick(c, r)
               \/ \E target \in {"succeeded", "failed"} : CompleteRead(c, r, target)
=============================================================================
