---------------------------- MODULE JobPlatform ----------------------------
(***************************************************************************)
(* The job platform: the worker process (its ticker and its poll loop) and *)
(* the API process (administrator and finance-sync endpoints) over one     *)
(* database and one queue.  Either process may die at any step.            *)
(***************************************************************************)
EXTENDS Scheduler, Worker, AdminJobs, FinanceSync

vars == <<clock, job, run, queue, faults, starts, reports, sch, wrk, adm, asked, fin>>

Init == StoreInit /\ SchedulerInit /\ WorkerInit /\ AdminInit /\ FinanceInit

\* The ticker and the poll loop are one process: both lose what they held,
\* and messages in flight become visible again.
WorkerCrash ==
    /\ Fault
    /\ sch' = SchedulerStart(clock)
    /\ wrk' = WorkerStart
    /\ UNCHANGED <<clock, job, run, queue, starts, reports, adminVars, fin>>

\* The API dies with the requests it was serving.
ApiCrash ==
    /\ \/ \E s \in Slots : adm[s].step # "idle"
       \/ \E c \in Callers : fin[c].step # "idle"
    /\ Fault
    /\ adm' = [s \in Slots |-> NoRequest]
    /\ fin' = [c \in Callers |-> NoCall]
    /\ UNCHANGED <<clock, job, run, queue, starts, reports, sch, wrk, asked>>

Ticker   == SchedulerNext /\ UNCHANGED <<wrk, adminVars, fin>>
\* main starts polling when RecoverOnce has returned.
PollLoop == sch.booted /\ WorkerNext /\ UNCHANGED <<sch, adminVars, fin>>
Admin    == AdminNext /\ UNCHANGED <<sch, wrk, fin>>
Finance  == FinanceNext /\ UNCHANGED <<sch, wrk, adminVars>>
Clock    == Tock /\ UNCHANGED <<sch, wrk, adminVars, fin>>
Lost     == (\E r \in RunIds : DeadLetter(r)) /\ UNCHANGED <<sch, wrk, adminVars, fin>>

Next == Ticker \/ PollLoop \/ Admin \/ Finance \/ Clock \/ Lost \/ WorkerCrash \/ ApiCrash

Spec == Init /\ [][Next]_vars

\* The worker's two goroutines run, time passes, SQS delivers a message that
\* stays on the queue, and a request the API accepted makes progress.  Humans,
\* administrators and the finance runner owe nothing.
Fairness ==
    /\ WF_vars(Ticker)
    /\ WF_vars(Clock)
    /\ WF_vars(PollLoop)
    /\ \A r \in RunIds :
           SF_vars(/\ sch.booted
                   /\ \E batch \in SUBSET RunIds : r \in batch /\ Receive(batch)
                   /\ UNCHANGED <<sch, adminVars, fin>>)
    /\ \A s \in Slots : WF_vars(AdminContinue(s) /\ UNCHANGED <<sch, wrk, fin>>)
    /\ \A c \in Callers : WF_vars(FinanceContinue(c) /\ UNCHANGED <<sch, wrk, adminVars>>)

FairSpec == Spec /\ Fairness

-----------------------------------------------------------------------------
(* Safety *)

TypeOK ==
    /\ StoreTypeOK
    /\ SchedulerTypeOK
    /\ WorkerTypeOK
    /\ AdminTypeOK
    /\ FinanceTypeOK

\* The ticks of a job collapse to one run each, through stale pointers, repeated
\* passes and restarts (scheduler.go, fire: the unique (scheduled_for, job)).
OneRunPerTick ==
    \A r, q \in RunIds :
        /\ r # q
        /\ run[r].tick # Null
        /\ run[r].job = run[q].job
        => run[r].tick # run[q].tick

\* The work of a run begins at most once, however often its message is
\* delivered, re-driven or raced for (main.go, the queued->running claim;
\* finance_sync.go, the lease).
StartedAtMostOnce == \A r \in RunIds : starts[r] <= 1

\* A gated run begins only after a human approved it (finance_sync.go).
ApprovedBeforeStarted ==
    \A r \in RunIds : IsGated(r) /\ starts[r] > 0 => run[r].claimable # Null

\* The queue carries committed, ordinary runs only: never a run the insert has
\* not committed, never a gated one (scheduler.go, evaluate; main.go,
\* handleFinanceSync "should never be enqueued").
QueueCarriesOrdinaryRuns ==
    \A r \in queue \cup wrk.inbox : run[r].status # "absent" /\ ~ IsGated(r)

\* A "run finished" push is only ever about a run that is closed, although the
\* sweeps decide from a stale read (scheduler.go, closeStuck: "it is neither
\* overwritten nor reported").
PushMeansClosed == \A r \in RunIds : reports[r] > 0 => run[r].status \in Terminal

\* A run recorded as expired unapproved was never begun, although a runner may
\* lease it while the sweep is deciding (expireAwaitingAck against the lease).
ExpiredNeverStarted ==
    \A r \in RunIds : run[r].error = "expired" => starts[r] = 0

\* The reaper never takes a run before its own lease has passed, and never one
\* that had already finished when it wrote (reapRunning, closeStuck).
ReapedPastItsLease ==
    [][\A r \in RunIds :
          run'[r].error = "reaped" /\ run[r].error # "reaped" =>
              /\ run[r].status = "running"
              /\ clock - run[r].started > (IF IsGated(r) THEN AckLease ELSE RunningLease)]_vars

-----------------------------------------------------------------------------
(* What holds between the steps of a request, a pass or a batch, and makes   *)
(* the invariants above inductive.                                           *)

Committed(r) == r \in RunIds /\ run[r].status # "absent"

\* What a process remembers, and what is on the queue, refers to rows that exist.
QueueRefs == \A r \in queue : Committed(r)

SchedulerRefs ==
    /\ \A j \in Jobs : sch.snap[j] # Null => Registered(j)
    /\ sch.step = "announce" => Committed(sch.current)
    /\ \A r \in sch.todo : Committed(r)

WorkerRefs ==
    /\ \A r \in wrk.inbox : Committed(r)
    /\ wrk.step \in {"handle", "ack"} => Committed(wrk.msg)

AdminRefs ==
    \A s \in Slots :
        /\ adm[s].step \in {"insert", "write"} => adm[s].job \in Jobs
        /\ adm[s].step = "write" => Registered(adm[s].job) /\ adm[s].row # Null
        /\ adm[s].step \in {"enqueue", "markFailed"} => Committed(adm[s].run)

FinanceRefs ==
    \A c \in Callers :
        /\ fin[c].step # "idle" => Committed(fin[c].run)
        /\ fin[c].step = "close" => fin[c].target # Null

ReferencesHold == QueueRefs /\ SchedulerRefs /\ WorkerRefs /\ AdminRefs /\ FinanceRefs

\* The life of a row: what its status says about its history.
RunLife ==
    \A r \in RunIds :
        /\ run[r].status = "absent" => run[r] = NoRun
        /\ run[r].status = "queued" => ~ IsGated(r)
        /\ run[r].status \in {"absent", "queued", "awaiting_ack"} => starts[r] = 0
        /\ run[r].error = "expired" => run[r].status \in Terminal

\* What is on the queue, or on its way there or from there, is ordinary.
OrdinaryOnly ==
    /\ \A r \in queue \cup wrk.inbox : ~ IsGated(r)
    /\ sch.step = "announce" => ~ IsGated(sch.current)
    /\ sch.step = "redriving" => \A r \in sch.todo : ~ IsGated(r)
    /\ \A s \in Slots : adm[s].step = "enqueue" => ~ IsGated(adm[s].run)

\* A request of the handshake is about a gated run, approved if it is to be leased.
HandshakeHolds ==
    \A c \in Callers :
        /\ fin[c].step \in {"approve", "lease"} => IsGated(fin[c].run)
        /\ fin[c].step = "lease" => run[fin[c].run].claimable # Null

\* A pass is never ahead of the clock, and what it is about to reap is past its
\* lease, or has closed since.
PassInTime ==
    /\ sch.now <= clock /\ sch.began <= clock
    /\ sch.step = "reaping" =>
           \A r \in sch.todo :
               /\ IsGated(r)
               /\ run[r].status \in {"running"} \cup Terminal
               /\ Older(run[r].started, AckLease, sch.now)

-----------------------------------------------------------------------------
(* The abstract specification the platform implements *)

Phase(r) ==
    CASE run[r].status = "absent"                     -> "unopened"
      [] run[r].status \in {"queued", "awaiting_ack"} -> "open"
      [] run[r].status = "running"                    -> "begun"
      [] OTHER                                        -> "closed"

Ledger == INSTANCE RunLedger WITH
    Runs     <- RunIds,
    phase    <- [r \in RunIds |-> Phase(r)],
    entry    <- [r \in RunIds |-> [job |-> run[r].job, tick |-> run[r].tick]],
    approved <- {r \in RunIds : run[r].claimable # Null}

\* The platform keeps the ledger's promises at every step.
ImplementsLedger == Ledger!LedgerSpec

-----------------------------------------------------------------------------
(* Liveness.  A lost message is found by the re-drive and a dead claimant by *)
(* a reaper, if time reaches the threshold before the bound on the clock.    *)

InTime(t, age) == t # Null /\ t + age < MaxTime

\* A scheduler-driven run does not stay queued: its enqueue may fail and the
\* worker may die, but the re-drive puts it back (redriveQueued).
ScheduledRunsLeaveTheQueue ==
    \A r \in RunIds :
        /\ run[r].status = "queued" /\ run[r].trigger = "schedule"
        /\ InTime(run[r].created, RedriveAfter)
        ~> run[r].status # "queued"

\* Nor does it stay running when its worker died (reapRunning, bucket a).
ScheduledRunsClose ==
    \A r \in RunIds :
        /\ run[r].status = "running" /\ run[r].trigger = "schedule"
        /\ ~ IsGated(r) /\ InTime(run[r].started, RunningLease)
        ~> run[r].status \in Terminal

\* A gated run never blocks its job for good: approved or not it is leased or
\* expires, and a lease whose runner vanished is reaped, whatever created the
\* run (expireAwaitingAck; reapRunning, bucket b).
GatedRunsClose ==
    \A r \in RunIds :
        /\ IsGated(r) /\ run[r].status = "awaiting_ack" /\ InTime(run[r].created, AckTTL)
               ~> run[r].status # "awaiting_ack"
        /\ IsGated(r) /\ run[r].status = "running" /\ InTime(run[r].started, AckLease)
               ~> run[r].status \in Terminal
=============================================================================
