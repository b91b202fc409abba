----------------------------- MODULE Scheduler -----------------------------
(***************************************************************************)
(* The ticker of the worker process (backend/internal/jobs/scheduler.go).  *)
(* A pass loads a snapshot of the enabled jobs, evaluates each of them,    *)
(* and then runs the maintenance sweeps; RecoverOnce runs the sweeps alone *)
(* when the process starts.  One action is one statement or call, so that  *)
(* the API and the poll loop interleave where the database lets them.      *)
(***************************************************************************)
EXTENDS JobStore

VARIABLE sch  \* step, now of the pass, when the pass began, snapshot of the
              \* enabled jobs still to evaluate, runs a sweep still has to
              \* visit, the run to announce, whether RecoverOnce has returned

Steps == {"idle", "evaluate", "announce", "redrive", "redriving", "reap",
          "reapAck", "reaping", "expire", "expiring"}

SchedulerState == [step : Steps, now : Time, began : Time,
                   snap : [Jobs -> OrNull(JobRow)], todo : SUBSET RunIds,
                   current : OrNull(RunIds), booted : BOOLEAN]

SchedulerTypeOK == sch \in SchedulerState

NoSnapshot == [j \in Jobs |-> Null]

\* A process that has just started is about to run RecoverOnce.
SchedulerStart(now) == [step |-> "redrive", now |-> now, began |-> now,
                        snap |-> NoSnapshot, todo |-> {}, current |-> Null,
                        booted |-> FALSE]

SchedulerInit == sch = SchedulerStart(clock)

\* The end of a pass; the first pass is RecoverOnce, and the ticker starts
\* when it has returned.
Rested == [sch EXCEPT !.step = "idle", !.now = 0, !.booted = TRUE,
                      !.began = IF sch.booted THEN sch.began ELSE clock]

GoTo(step) == sch' = IF step = "idle" THEN Rested ELSE [sch EXCEPT !.step = step]

-----------------------------------------------------------------------------
(* Evaluation of the enabled jobs *)

\* tick: load the enabled jobs.  The rows are not read again in this pass.  Its
\* now is the instant the ticker fired: a tick that fired during the last pass
\* waited for that pass to end.
Tick ==
    /\ sch.step = "idle"
    /\ \E now \in sch.began .. clock :
           sch' = [sch EXCEPT !.step = "evaluate", !.now = now, !.began = clock,
                     !.snap = [j \in Jobs |->
                         IF Registered(j) /\ job[j].enabled THEN job[j] ELSE Null]]
    /\ UNCHANGED storeVars

\* tick: the query fails, and the pass ends without maintenance.
TickFails ==
    /\ sch.step = "idle"
    /\ Fault
    /\ sch' = [sch EXCEPT !.began = clock]
    /\ UNCHANGED <<clock, job, run, queue, starts, reports>>

Pending(j)   == sch.step = "evaluate" /\ sch.snap[j] # Null
Evaluated(j) == [sch EXCEPT !.snap[j] = Null]

\* Faulty variant: the pointer is the pass's now.
PointerAtNow(j) == sch.now

\* schedule.Next(now) of the snapshot, never of the row as it is now.
NextPointer(j) == Activation[sch.snap[j].schedule][sch.now]

Due(j) == sch.snap[j].nextRun # Null /\ sch.now >= sch.snap[j].nextRun

NotDue(j) ==
    /\ Pending(j)
    /\ sch.snap[j].nextRun # Null /\ ~ Due(j)
    /\ sch' = Evaluated(j)
    /\ UNCHANGED storeVars

\* A job without a pointer gets one and does not fire in this pass.
InitPointer(j) ==
    /\ Pending(j)
    /\ sch.snap[j].nextRun = Null
    /\ SetNextRun(j, NextPointer(j))
    /\ sch' = Evaluated(j)
    /\ UNCHANGED <<clock, run, queue, faults, starts, reports>>

\* Where a run of the job is created, and what it waits for.
InitialStatus(j) == IF j \in Gated THEN "awaiting_ack" ELSE "queued"

\* Faulty variant: the insert has no ON CONFLICT and no unique index.
NeverConflict(j) == FALSE

\* ON CONFLICT (scheduled_for, job) DO NOTHING found the run of this tick.
Conflict(j) == TickTaken(j, sch.snap[j].nextRun)

\* Faulty variant: a gated run is announced through the queue as well.
FireAndEnqueueAll(j, r) ==
    /\ Pending(j) /\ Due(j)
    /\ ~ Conflict(j)
    /\ NextId(r)
    /\ InsertRun(r, j, InitialStatus(j), "schedule", sch.snap[j].nextRun)
    /\ SetNextRun(j, NextPointer(j))
    /\ sch' = [Evaluated(j) EXCEPT !.step = "announce", !.current = r]
    /\ UNCHANGED <<clock, queue, faults, starts, reports>>

\* fire, fresh: insert and pointer in one transaction.  Only an ordinary run
\* is then put on the queue; a gated one is only announced by a push.
Fire(j, r) ==
    /\ Pending(j) /\ Due(j)
    /\ ~ Conflict(j)
    /\ NextId(r)
    /\ InsertRun(r, j, InitialStatus(j), "schedule", sch.snap[j].nextRun)
    /\ SetNextRun(j, NextPointer(j))
    /\ sch' = [Evaluated(j) EXCEPT !.step = IF j \in Gated THEN @ ELSE "announce",
                                   !.current = IF j \in Gated THEN @ ELSE r]
    /\ UNCHANGED <<clock, queue, faults, starts, reports>>

\* fire, not fresh: only the pointer advances.
FireConflict(j) ==
    /\ Pending(j) /\ Due(j)
    /\ Conflict(j)
    /\ SetNextRun(j, NextPointer(j))
    /\ sch' = Evaluated(j)
    /\ UNCHANGED <<clock, run, queue, faults, starts, reports>>

\* A statement or the commit fails and the job is skipped in this pass; the
\* bound on rows is reached in the same way.
EvaluateFails(j) ==
    /\ Pending(j)
    /\ \/ Fault
       \/ NoFault /\ \A r \in RunIds : run[r].status # "absent"
    /\ sch' = Evaluated(j)
    /\ UNCHANGED <<clock, job, run, queue, starts, reports>>

\* enqueueRun after the commit; a failure is logged and left to the re-drive.
Announce ==
    /\ sch.step = "announce"
    /\ \/ Enqueue(sch.current) /\ NoFault
       \/ Fault /\ UNCHANGED queue
    /\ sch' = [sch EXCEPT !.step = "evaluate", !.current = Null]
    /\ UNCHANGED <<clock, job, run, starts, reports>>

EvaluationDone ==
    /\ sch.step = "evaluate"
    /\ sch.snap = NoSnapshot
    /\ GoTo("redrive")
    /\ UNCHANGED storeVars

-----------------------------------------------------------------------------
(* Maintenance: redriveQueued, reapRunning, expireAwaitingAck *)

\* Faulty variant: age measured from started_at, null while queued.
StrandedByStart(r) ==
    /\ run[r].status = "queued"
    /\ run[r].trigger = "schedule"
    /\ Older(run[r].started, RedriveAfter, sch.now)

\* redriveQueued: scheduler-driven runs that stayed queued too long.
Stranded(r) ==
    /\ run[r].status = "queued"
    /\ run[r].trigger = "schedule"
    /\ Older(run[r].created, RedriveAfter, sch.now)

\* Faulty variants: the bucket without its key filter, and with KeyIn for KeyNotIn.
OverrunAnyKind(r) ==
    /\ run[r].status = "running"
    /\ run[r].trigger = "schedule"
    /\ Older(run[r].started, RunningLease, sch.now)
OverrunGatedKeys(r) == OverrunAnyKind(r) /\ IsGated(r)

\* reapRunning, bucket a: ordinary scheduler-driven runs past their lease.
Overrun(r) ==
    /\ run[r].status = "running"
    /\ run[r].trigger = "schedule"
    /\ ~ IsGated(r)
    /\ Older(run[r].started, RunningLease, sch.now)

\* reapRunning, bucket b: gated runs past the extended lease.
GatedOverrun(r) ==
    /\ run[r].status = "running"
    /\ IsGated(r)
    /\ Older(run[r].started, AckLease, sch.now)

\* Faulty variant: an approved run is left for its runner, for ever.
UnapprovedOnly(r) ==
    /\ run[r].status = "awaiting_ack"
    /\ run[r].claimable = Null
    /\ IsGated(r)
    /\ Older(run[r].created, AckTTL, sch.now)

\* expireAwaitingAck: gated runs past the approval TTL, claimable or not.
Unapproved(r) ==
    /\ run[r].status = "awaiting_ack"
    /\ IsGated(r)
    /\ Older(run[r].created, AckTTL, sch.now)

\* A sweep reads the rows it will visit (or its query fails and it is skipped).
Query(step, found, visit, next) ==
    /\ sch.step = step
    /\ \/ NoFault /\ sch' = [sch EXCEPT !.step = visit, !.todo = found]
       \/ Fault /\ GoTo(next)
    /\ UNCHANGED <<clock, job, run, queue, starts, reports>>

RedriveQuery ==
    Query("redrive", {r \in RunIds : Stranded(r)}, "redriving", "reap")
ReapQuery ==
    Query("reapAck", {r \in RunIds : GatedOverrun(r)}, "reaping", "expire")
ExpireQuery ==
    Query("expire", {r \in RunIds : Unapproved(r)}, "expiring", "idle")

Visited(r) == sch' = [sch EXCEPT !.todo = @ \ {r}]

Redrive(r) ==
    /\ sch.step = "redriving" /\ r \in sch.todo
    /\ \/ Enqueue(r) /\ NoFault
       \/ Fault /\ UNCHANGED queue
    /\ Visited(r)
    /\ UNCHANGED <<clock, job, run, starts, reports>>

\* One bulk UPDATE.
Reap ==
    /\ sch.step = "reap"
    /\ \/ /\ NoFault
          /\ run' = [r \in RunIds |->
                 IF Overrun(r)
                 THEN [run[r] EXCEPT !.status = "failed", !.error = "reaped"]
                 ELSE run[r]]
       \/ Fault /\ UNCHANGED run
    /\ GoTo("reapAck")
    /\ UNCHANGED <<clock, job, queue, starts, reports>>

\* Faulty variant: the write trusts the query.
EvenIfMoved(r, from) == TRUE

\* closeStuck's write re-asserts the status the query saw.
StillIn(r, from) == run[r].status = from

\* Faulty variant: the push is sent for every row the query saw.
CloseStuckReportsAll(step, from, to, reason, r) ==
    /\ sch.step = step /\ r \in sch.todo
    /\ \/ StillIn(r, from) /\ NoFault /\ CloseRun(r, to, reason)
       \/ ~ StillIn(r, from) /\ NoFault /\ UNCHANGED run
    /\ reports' = [reports EXCEPT ![r] = @ + 1]
    /\ Visited(r)
    /\ UNCHANGED <<clock, job, queue, starts>>

\* closeStuck, one row: the guarded write, and its push if it changed the row.
CloseStuck(step, from, to, reason, r) ==
    /\ sch.step = step /\ r \in sch.todo
    /\ \/ /\ StillIn(r, from) /\ NoFault
          /\ CloseRun(r, to, reason)
          /\ reports' = [reports EXCEPT ![r] = @ + 1]
       \/ ~ StillIn(r, from) /\ NoFault /\ UNCHANGED <<run, reports>>
       \/ Fault /\ UNCHANGED <<run, reports>>
    /\ Visited(r)
    /\ UNCHANGED <<clock, job, queue, starts>>

ReapGated(r) == CloseStuck("reaping", "running", "failed", "reaped", r)
Expire(r)    == CloseStuck("expiring", "awaiting_ack", "cancelled", "expired", r)

\* A sweep has visited every row.
SweepDone ==
    /\ \/ sch.step = "redriving" /\ GoTo("reap")
       \/ sch.step = "reaping"   /\ GoTo("expire")
       \/ sch.step = "expiring"  /\ GoTo("idle")
    /\ sch.todo = {}
    /\ UNCHANGED storeVars

-----------------------------------------------------------------------------
Evaluation == Tick \/ TickFails \/ Announce \/ EvaluationDone
    \/ \E j \in Jobs : \/ NotDue(j) \/ InitPointer(j) \/ FireConflict(j)
                       \/ EvaluateFails(j)
                       \/ \E r \in RunIds : Fire(j, r)

Maintenance == RedriveQuery \/ ReapQuery \/ ExpireQuery \/ Reap \/ SweepDone
    \/ \E r \in RunIds : Redrive(r) \/ ReapGated(r) \/ Expire(r)

SchedulerNext == Evaluation \/ Maintenance
=============================================================================
