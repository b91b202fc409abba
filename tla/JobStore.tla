------------------------------ MODULE JobStore ------------------------------
(***************************************************************************)
(* The state the worker process and the API process share: the Postgres    *)
(* tables scheduled_jobs and job_runs (backend/ent/schema) and the SQS     *)
(* queue (backend/internal/queue), with the row-level statements the other *)
(* modules issue against them.  Every operator here is one SQL statement   *)
(* or one SQS call, which is what is atomic in the program; a handler that *)
(* issues several is several actions in its own module.                    *)
(***************************************************************************)
EXTENDS Integers

CONSTANTS
    Jobs,          \* the ScheduledJob keys that may be registered
    Gated,         \* those whose kind is ack-gated (finance.sync)
    Schedules,     \* cron expressions an administrator may choose
    Activation,    \* Activation[s][t]: first activation of s after t
    MaxRuns,       \* bound: rows of job_runs
    MaxTime,       \* bound: the clock
    MaxFaults,     \* bound: failed calls and crashes in one behaviour
    RedriveAfter,  \* queuedRedriveAfter
    RunningLease,  \* runningLease
    AckLease,      \* ackGatedRunningLease
    AckTTL,        \* awaitingAckTTL
    Null           \* SQL NULL

RunIds == 1..MaxRuns
Time   == 0..MaxTime

ASSUME ConstantsAssumption ==
    /\ Gated \subseteq Jobs
    /\ MaxRuns \in Nat /\ MaxTime \in Nat /\ MaxFaults \in Nat
    /\ RedriveAfter \in Nat /\ RunningLease \in Nat
    /\ AckLease \in Nat /\ AckTTL \in Nat

\* cron.Schedule.Next: the first activation strictly after its argument, or the
\* zero time when an expression that parses has none ("0 0 30 2 *").
ASSUME ActivationAssumption == Activation \in [Schedules -> [Time -> Nat]]

\* The instants at which some schedule fires.
Ticks == {Activation[s][t] : s \in Schedules, t \in Time}

VARIABLES
    clock,   \* wall-clock time, in units coarser than a scheduler tick
    job,     \* scheduled_jobs: a row per registered key, Null when absent
    run,     \* job_runs: a row per id, status "absent" before the insert
    queue,   \* the runs with at least one message on SQS
    faults,  \* failures and crashes so far
    starts,  \* history: how many times the work of a run was begun
    reports  \* history: how many "run finished" pushes were sent for a run

storeVars == <<clock, job, run, queue, faults, starts, reports>>

-----------------------------------------------------------------------------
Terminal == {"succeeded", "failed", "cancelled"}
Active   == {"queued", "running", "awaiting_ack"}
Statuses == {"absent"} \cup Active \cup Terminal

Errors == {"handler", "runner", "enqueue", "reaped", "expired"}

OrNull(S) == S \cup {Null}

JobRow == [enabled : BOOLEAN, schedule : Schedules, nextRun : OrNull(Ticks)]

\* NULL is none of the values a column or a row may hold.
ASSUME NullAssumption ==
    /\ Null \notin Nat \cup Jobs \cup Schedules \cup BOOLEAN \cup Terminal \cup Errors
    /\ Null \notin JobRow

RunRow == [job : OrNull(Jobs), status : Statuses,
           trigger : OrNull({"schedule", "manual"}), tick : OrNull(Ticks),
           created : OrNull(Time), started : OrNull(Time),
           claimable : OrNull(Time), error : OrNull(Errors)]

NoRun == [job |-> Null, status |-> "absent", trigger |-> Null, tick |-> Null,
          created |-> Null, started |-> Null, claimable |-> Null, error |-> Null]

StoreTypeOK ==
    /\ clock \in Time
    /\ job \in [Jobs -> OrNull(JobRow)]
    /\ run \in [RunIds -> RunRow]
    /\ queue \subseteq RunIds
    /\ faults \in 0..MaxFaults
    /\ starts \in [RunIds -> Nat]
    /\ reports \in [RunIds -> Nat]

\* A fresh database: a key is unregistered, or was seeded without a pointer.
StoreInit ==
    /\ clock = 0
    /\ job \in [Jobs -> {Null} \cup [enabled : {TRUE}, schedule : Schedules, nextRun : {Null}]]
    /\ run = [r \in RunIds |-> NoRun]
    /\ queue = {}
    /\ faults = 0
    /\ starts = [r \in RunIds |-> 0]
    /\ reports = [r \in RunIds |-> 0]

-----------------------------------------------------------------------------
(* scheduled_jobs *)

Registered(j) == job[j] # Null

\* UPDATE scheduled_jobs SET next_run_at = t WHERE id = j.
SetNextRun(j, t) == job' = [job EXCEPT ![j] = [@ EXCEPT !.nextRun = t]]

-----------------------------------------------------------------------------
(* job_runs: reads *)

Is(r, j)     == run[r].job = j
IsGated(r)   == run[r].job \in Gated
Older(t, age, now) == t # Null /\ t < now - age

\* The serial id the next insert receives.
NextId(r) ==
    /\ run[r].status = "absent"
    /\ \A q \in RunIds : q < r => run[q].status # "absent"

\* The unique index (scheduled_for, job) already holds this tick.  A manual
\* run's scheduled_for is a now() that equals no activation: its tick is Null.
TickTaken(j, t) == \E r \in RunIds : Is(r, j) /\ run[r].tick = t

\* A run of the job is queued, running or awaiting approval.
HasActiveRun(j) == \E r \in RunIds : Is(r, j) /\ run[r].status \in Active

(* job_runs: writes *)

InsertRun(r, j, status, trigger, tick) ==
    run' = [run EXCEPT ![r] = [NoRun EXCEPT !.job = j, !.status = status,
                !.trigger = trigger, !.tick = tick, !.created = clock]]

\* UPDATE ... SET status = s WHERE id = r, whatever the status is now.  An
\* error of Null leaves the column alone (SetError is not called).
CloseRun(r, s, error) ==
    run' = [run EXCEPT ![r] = [@ EXCEPT
                !.status = s, !.error = IF error = Null THEN run[r].error ELSE error]]

\* UPDATE ... SET status = running, started_at = now WHERE id = r, under the
\* status condition its caller states.
StartRun(r) ==
    /\ run' = [run EXCEPT ![r] = [@ EXCEPT !.status = "running", !.started = clock]]
    /\ starts' = [starts EXCEPT ![r] = @ + 1]

-----------------------------------------------------------------------------
(* SQS, failures and time *)

\* SendMessage.
Enqueue(r) == queue' = queue \cup {r}

\* DeleteMessage: fails, or removes one copy; another copy may remain.
DeleteMessage(r) == queue' \in {queue, queue \ {r}}

\* One call (database, SQS) fails, or a process dies.
Fault == faults < MaxFaults /\ faults' = faults + 1

NoFault == UNCHANGED faults

\* SQS gives up on a message received too often and moves it away.
DeadLetter(r) ==
    /\ r \in queue
    /\ Fault
    /\ queue' = queue \ {r}
    /\ UNCHANGED <<clock, job, run, starts, reports>>

\* Time passes.
Tock ==
    /\ clock < MaxTime
    /\ clock' = clock + 1
    /\ UNCHANGED <<job, run, queue, faults, starts, reports>>
=============================================================================
