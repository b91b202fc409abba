----------------------------- MODULE AdminJobs -----------------------------
(***************************************************************************)
(* The administrator's endpoints over scheduled jobs, in the API process   *)
(* (backend/internal/api/admin_jobs.go): create-job, update-job and        *)
(* start-job-run ("Run now").  The queue is configured.  A request in      *)
(* progress is a slot: what it has read, and the step it will take next.   *)
(***************************************************************************)
EXTENDS JobStore

CONSTANTS Slots,       \* requests the API serves at the same time
          MaxRequests  \* bound: requests in one behaviour

ASSUME RequestsAssumption == MaxRequests \in Nat

VARIABLES adm,   \* step of each request, its job, its run, the patch it
                 \* carries, the row it read and when
          asked  \* requests so far

adminVars == <<adm, asked>>

RequestTo(step, j, enabled, sched, row, at) ==
    [step |-> step, job |-> j, run |-> Null, enabled |-> enabled,
     schedule |-> sched, row |-> row, at |-> at]

NoRequest == RequestTo("idle", Null, Null, Null, Null, 0)

AdminTypeOK ==
    /\ adm \in [Slots -> [step : {"idle", "insert", "enqueue", "markFailed", "write"},
                       job : OrNull(Jobs), run : OrNull(RunIds),
                       enabled : OrNull(BOOLEAN), schedule : OrNull(Schedules),
                       row : OrNull(JobRow), at : Time]]
    /\ asked \in 0..MaxRequests

AdminInit == adm = [s \in Slots |-> NoRequest] /\ asked = 0

\* A request arrives that is not refused at once.
Request == asked < MaxRequests /\ asked' = asked + 1

Accept(s, request) ==
    /\ adm[s].step = "idle"
    /\ Request
    /\ adm' = [adm EXCEPT ![s] = request]
    /\ UNCHANGED storeVars

\* The request goes on to a step about run r, or ends.
MoveOn(s, step, r) ==
    adm' = [adm EXCEPT ![s] = [@ EXCEPT !.step = step, !.run = r]] /\ UNCHANGED asked

Respond(s) == adm' = [adm EXCEPT ![s] = NoRequest] /\ UNCHANGED asked

-----------------------------------------------------------------------------
(* create-job *)

\* A disabled job has no pointer, an enabled one its next activation.
CreateJob(j, sched, enabled) ==
    /\ ~ Registered(j)
    /\ Request
    /\ job' = [job EXCEPT ![j] =
           [enabled |-> enabled, schedule |-> sched,
            nextRun |-> IF enabled THEN Activation[sched][clock] ELSE Null]]
    /\ UNCHANGED <<clock, run, queue, faults, starts, reports, adm>>

-----------------------------------------------------------------------------
(* update-job: read the row, then patch it *)

UpdateJobRead(s, j, enabled, sched) ==
    /\ Registered(j)
    /\ Accept(s, RequestTo("write", j, enabled, sched, job[j], clock))

Given(value, old) == IF value = Null THEN old ELSE value

FinalEnabled(q)  == Given(q.enabled, q.row.enabled)
FinalSchedule(q) == Given(q.schedule, q.row.schedule)

\* The pointer is recomputed when the schedule is given, when the patch
\* enables the job, or when the job had none.
Recompute(q) == q.schedule # Null \/ q.enabled = TRUE \/ q.row.nextRun = Null

\* The row after the patch: only the columns it sets change, and now() may be
\* any instant since the row was read.
PatchedNextRun(q, old, now) ==
    IF ~ FinalEnabled(q) THEN Null
    ELSE IF Recompute(q) THEN Activation[FinalSchedule(q)][now]
    ELSE old

UpdateJobWrite(s) ==
    /\ adm[s].step = "write"
    /\ \E now \in adm[s].at .. clock :
           job' = [job EXCEPT ![adm[s].job] =
               [enabled  |-> Given(adm[s].enabled, @.enabled),
                schedule |-> Given(adm[s].schedule, @.schedule),
                nextRun  |-> PatchedNextRun(adm[s], @.nextRun, now)]]
    /\ Respond(s)
    /\ UNCHANGED <<clock, run, queue, faults, starts, reports>>

-----------------------------------------------------------------------------
(* start-job-run: check, insert, enqueue, and mark failed if that fails *)

\* No run of the job is in flight; otherwise the request is refused with 409.
Startable(j) == Registered(j) /\ ~ HasActiveRun(j)

StartRunCheck(s, j) ==
    /\ Startable(j)
    /\ Accept(s, RequestTo("insert", j, Null, Null, Null, 0))

\* A gated run is announced for approval and the request is done; an ordinary
\* one has to be enqueued.
StartRunInsert(s, r) ==
    /\ adm[s].step = "insert"
    /\ NextId(r)
    /\ IF adm[s].job \in Gated
       THEN /\ InsertRun(r, adm[s].job, "awaiting_ack", "manual", Null)
            /\ Respond(s)
       ELSE /\ InsertRun(r, adm[s].job, "queued", "manual", Null)
            /\ MoveOn(s, "enqueue", r)
    /\ UNCHANGED <<clock, job, queue, faults, starts, reports>>

\* The bound on rows is reached: the request goes no further.
StartRunNoRow(s) ==
    /\ adm[s].step = "insert"
    /\ \A r \in RunIds : run[r].status # "absent"
    /\ Respond(s)
    /\ UNCHANGED storeVars

\* A failed SendMessage may have delivered its message all the same.
StartRunEnqueue(s) ==
    /\ adm[s].step = "enqueue"
    /\ \/ Enqueue(adm[s].run) /\ NoFault /\ Respond(s)
       \/ /\ Fault
          /\ Enqueue(adm[s].run) \/ UNCHANGED queue
          /\ MoveOn(s, "markFailed", adm[s].run)
    /\ UNCHANGED <<clock, job, run, starts, reports>>

\* The write is by id, and its own failure is ignored.
StartRunMarkFailed(s) ==
    /\ adm[s].step = "markFailed"
    /\ \/ CloseRun(adm[s].run, "failed", "enqueue") /\ NoFault
       \/ Fault /\ UNCHANGED run
    /\ Respond(s)
    /\ UNCHANGED <<clock, job, queue, starts, reports>>

-----------------------------------------------------------------------------
\* The patch or the insert fails, and the request with it (500).
RequestFails(s) ==
    /\ adm[s].step \in {"insert", "write"}
    /\ Fault
    /\ Respond(s)
    /\ UNCHANGED <<clock, job, run, queue, starts, reports>>

\* What a request in progress does next.
AdminContinue(s) ==
    \/ UpdateJobWrite(s)
    \/ \E r \in RunIds : StartRunInsert(s, r)
    \/ StartRunNoRow(s)
    \/ StartRunEnqueue(s)
    \/ StartRunMarkFailed(s)
    \/ RequestFails(s)

AdminNext ==
    \/ \E j \in Jobs, sched \in Schedules, enabled \in BOOLEAN :
           CreateJob(j, sched, enabled)
    \/ \E s \in Slots :
           \/ AdminContinue(s)
           \/ \E j \in Jobs :
                  \/ StartRunCheck(s, j)
                  \/ \E enabled \in OrNull(BOOLEAN), sched \in OrNull(Schedules) :
                         UpdateJobRead(s, j, enabled, sched)
=============================================================================
