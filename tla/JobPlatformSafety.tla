------------------------- MODULE JobPlatformSafety -------------------------
(***************************************************************************)
(* The safety properties of JobPlatform, for every value of its constants. *)
(* Whoever takes a step, it moves the rows of job_runs in one of four ways *)
(* (RowStep); the properties of rows follow from that alone, and what each *)
(* component remembers between its statements makes it inductive.          *)
(***************************************************************************)
EXTENDS JobPlatformProofs

-----------------------------------------------------------------------------
(* What a step may do to the rows *)

\* A row past the lease of its kind.
PastLease(r) ==
    /\ run[r].status = "running"
    /\ clock - run[r].started > (IF IsGated(r) THEN AckLease ELSE RunningLease)

Untouched(r) == run'[r] = run[r]

OpensRow(r) ==
    /\ run[r].status = "absent"
    /\ run'[r].job \in Jobs /\ run'[r].tick \in OrNull(Ticks)
    /\ run'[r].status = InitialStatus(run'[r].job)
    /\ run'[r].claimable = Null /\ run'[r].error = Null
    /\ run'[r].tick # Null => ~ TickTaken(run'[r].job, run'[r].tick)
    /\ \A q \in RunIds : q # r => Untouched(q)
    /\ UNCHANGED <<starts, reports>>

BeginsRow(r) ==
    /\ run[r].status \in {"queued", "awaiting_ack"}
    /\ run[r].status = "awaiting_ack" => run[r].claimable # Null
    /\ SameIdentity(r)
    /\ run'[r].status = "running"
    /\ run'[r].claimable = run[r].claimable /\ run'[r].error = run[r].error
    /\ starts' = [starts EXCEPT ![r] = @ + 1]
    /\ \A q \in RunIds : q # r => Untouched(q)
    /\ UNCHANGED reports

ApprovesRow(r) ==
    /\ run[r].status # "absent" /\ IsGated(r)
    /\ SameIdentity(r)
    /\ run'[r].status = run[r].status /\ run'[r].started = run[r].started
    /\ run'[r].claimable # Null /\ run'[r].error = run[r].error
    /\ \A q \in RunIds : q # r => Untouched(q)
    /\ UNCHANGED <<starts, reports>>

ClosesRow(r) ==
    /\ run[r].status # "absent"
    /\ SameIdentity(r)
    /\ run'[r].status \in Terminal
    /\ run'[r].started = run[r].started /\ run'[r].claimable = run[r].claimable
    /\ run'[r].error = "expired" => run[r].error = "expired" \/ run[r].status = "awaiting_ack"
    /\ run'[r].error = "reaped" => run[r].error = "reaped" \/ PastLease(r)

\* Several rows at once, in a sweep; a report is sent for a row that is closed.
ClosesRows ==
    /\ \A r \in RunIds : (Untouched(r) /\ reports'[r] = reports[r]) \/ ClosesRow(r)
    /\ UNCHANGED starts

RowStep ==
    \/ \E r \in RunIds : OpensRow(r) \/ BeginsRow(r) \/ ApprovesRow(r)
    \/ ClosesRows

\* The invariant: every part is checked by TLC as well.
SafetyInv == RunLife /\ OrdinaryOnly /\ HandshakeHolds /\ PassInTime

-----------------------------------------------------------------------------
(* Every step is one of them *)

LEMMA UntouchedRows ==
    ASSUME UNCHANGED <<run, starts, reports>> PROVE RowStep
BY DEF RowStep, ClosesRows, Untouched

LEMMA OpenStep ==
    ASSUME TypeInv, NEW r \in RunIds, NextId(r), NEW j \in Jobs, NEW trg \in {"schedule", "manual"},
           NEW t \in OrNull(Ticks), t # Null => ~ TickTaken(j, t),
           InsertRun(r, j, InitialStatus(j), trg, t), UNCHANGED <<starts, reports>>
    PROVE  RowStep
<1>1. InitialStatus(j) \in Statuses
  BY DEF InitialStatus, Statuses, Active
<1>2. OpensRow(r)
  BY <1>1, InsertRunRow DEF OpensRow, NextId, Untouched, TypeInv, TypeOK, StoreTypeOK
<1> QED
  BY <1>2 DEF RowStep

LEMMA BeginStep ==
    ASSUME TypeInv, NEW r \in RunIds, run[r].status \in {"queued", "awaiting_ack"},
           run[r].status = "awaiting_ack" => run[r].claimable # Null,
           StartRun(r), UNCHANGED reports
    PROVE  RowStep
<1>1. BeginsRow(r)
  BY StartRunRow DEF BeginsRow, Untouched, TypeInv, TypeOK, StoreTypeOK, StartRun
<1> QED
  BY <1>1 DEF RowStep

LEMMA CloseStep ==
    ASSUME TypeInv, NEW r \in RunIds, run[r].status # "absent", NEW s \in Terminal,
           NEW e \in OrNull(Errors), CloseRun(r, s, e), UNCHANGED starts,
           \A q \in RunIds : q # r => reports'[q] = reports[q],
           e = "expired" => run[r].status = "awaiting_ack",
           e = "reaped" => PastLease(r)
    PROVE  RowStep
<1>1. ClosesRow(r) /\ \A q \in RunIds : q # r => Untouched(q)
  BY CloseRunRow DEF ClosesRow, Untouched, TypeInv, TypeOK, StoreTypeOK
<1> QED
  BY <1>1 DEF RowStep, ClosesRows

\* now of a pass is no later than the clock, so what a sweep finds overdue is.
LEMMA OverdueIsPastLease ==
    ASSUME TypeInv, SafetyInv, NEW r \in RunIds, run[r].status = "running"
    PROVE  /\ ~ IsGated(r) /\ Older(run[r].started, RunningLease, sch.now) => PastLease(r)
           /\ IsGated(r) /\ Older(run[r].started, AckLease, sch.now) => PastLease(r)
<1>1. run[r].started \in OrNull(Time) /\ sch.now \in Time /\ clock \in Time
  BY DEF TypeInv, TypeOK, StoreTypeOK, SchedulerTypeOK, SchedulerState, RunRow
<1>2. sch.now <= clock
  BY DEF SafetyInv, PassInTime
<1> QED
  BY <1>1, <1>2, ConstantsAssumption DEF Older, PastLease, OrNull, Time

LEMMA SchedulerRows ==
    ASSUME TypeInv, SafetyInv, SchedulerNext PROVE RowStep
<1>1. ASSUME NEW j \in Jobs, NEW r \in RunIds, Fire(j, r) PROVE RowStep
  <2>1. PICK t \in OrNull(Ticks) : t = sch.snap[j].nextRun
    BY <1>1, SnapshotOfJob DEF Fire
  <2>2. ~ TickTaken(j, t) /\ InsertRun(r, j, InitialStatus(j), "schedule", t)
    BY <1>1, <2>1 DEF Fire, Conflict
  <2> QED
    BY <1>1, <2>2, OpenStep DEF Fire
<1>2. CASE Reap
  <2>1. ASSUME NEW r \in RunIds, Overrun(r),
               run'[r] = [run[r] EXCEPT !.status = "failed", !.error = "reaped"]
        PROVE  ClosesRow(r)
    <3>1. PastLease(r)
      BY <2>1, OverdueIsPastLease DEF Overrun
    <3>2. run[r] \in RunRow
      BY DEF TypeInv, TypeOK, StoreTypeOK
    <3> QED
      BY <2>1, <3>1, <3>2 DEF ClosesRow, SameIdentity, RunRow, Overrun, Terminal
  <2>2. CASE UNCHANGED run
    BY <1>2, <2>2, UntouchedRows DEF Reap
  <2>3. CASE run' = [r \in RunIds |->
                 IF Overrun(r)
                 THEN [run[r] EXCEPT !.status = "failed", !.error = "reaped"]
                 ELSE run[r]]
    BY <1>2, <2>1, <2>3 DEF Reap, RowStep, ClosesRows, Untouched
  <2> QED
    BY <1>2, <2>2, <2>3 DEF Reap
<1>3. ASSUME NEW r \in RunIds, ReapGated(r) PROVE RowStep
  <2>1. CASE UNCHANGED run /\ UNCHANGED reports
    BY <1>3, <2>1, UntouchedRows DEF ReapGated, CloseStuck
  <2>2. CASE /\ run[r].status = "running" /\ CloseRun(r, "failed", "reaped")
             /\ reports' = [reports EXCEPT ![r] = @ + 1]
    <3>1. PastLease(r)
      BY <1>3, <2>2, OverdueIsPastLease DEF ReapGated, CloseStuck, SafetyInv, PassInTime
    <3>2. /\ "failed" \in Terminal /\ "reaped" \in OrNull(Errors)
          /\ \A q \in RunIds : q # r => reports'[q] = reports[q]
      BY <2>2 DEF Terminal, Errors, OrNull, TypeInv, TypeOK, StoreTypeOK
    <3> QED
      BY <1>3, <2>2, <3>1, <3>2, CloseStep DEF ReapGated, CloseStuck
  <2> QED
    BY <1>3, <2>1, <2>2 DEF ReapGated, CloseStuck, StillIn
<1>4. ASSUME NEW r \in RunIds, Expire(r) PROVE RowStep
  <2>1. CASE UNCHANGED run /\ UNCHANGED reports
    BY <1>4, <2>1, UntouchedRows DEF Expire, CloseStuck
  <2>2. CASE /\ run[r].status = "awaiting_ack" /\ CloseRun(r, "cancelled", "expired")
             /\ reports' = [reports EXCEPT ![r] = @ + 1]
    <3>1. /\ "cancelled" \in Terminal /\ "expired" \in OrNull(Errors)
          /\ \A q \in RunIds : q # r => reports'[q] = reports[q]
      BY <2>2 DEF Terminal, Errors, OrNull, TypeInv, TypeOK, StoreTypeOK
    <3> QED
      BY <1>4, <2>2, <3>1, CloseStep DEF Expire, CloseStuck
  <2> QED
    BY <1>4, <2>1, <2>2 DEF Expire, CloseStuck, StillIn
<1>5. ASSUME Evaluation, \A j \in Jobs, r \in RunIds : ~ Fire(j, r)
      PROVE  UNCHANGED <<run, starts, reports>>
  BY <1>5 DEF Evaluation, Tick, TickFails, NotDue, InitPointer, FireConflict, EvaluateFails, Announce,
     EvaluationDone, storeVars
<1>6. ASSUME RedriveQuery \/ ReapQuery \/ ExpireQuery \/ SweepDone \/ \E r \in RunIds : Redrive(r)
      PROVE  UNCHANGED <<run, starts, reports>>
  BY <1>6 DEF RedriveQuery, ReapQuery, ExpireQuery, SweepDone, Redrive, Query, storeVars
<1> QED
  BY <1>1, <1>2, <1>3, <1>4, <1>5, <1>6, UntouchedRows DEF SchedulerNext, Maintenance

LEMMA WorkerRows ==
    ASSUME TypeInv, SafetyInv, WorkerNext PROVE RowStep
<1>1. ASSUME NEW r \in RunIds, Claim(r) PROVE RowStep
  BY <1>1, BeginStep DEF Claim, Claimable
<1>2. ASSUME NEW outcome \in {"succeeded", "failed"}, Finish(outcome) PROVE RowStep
  <2>1. PICK r \in RunIds : r = wrk.msg /\ run[r].status # "absent"
    BY <1>2 DEF Finish, TypeInv, ReferencesHold, WorkerRefs, Committed
  <2>2. CASE UNCHANGED run
    BY <1>2, <2>2, UntouchedRows DEF Finish
  <2>3. CASE CloseRun(r, outcome, IF outcome = "failed" THEN "handler" ELSE Null)
    <3>1. PICK e \in OrNull(Errors) : e = IF outcome = "failed" THEN "handler" ELSE Null
      BY DEF OrNull, Errors
    <3>2. e # "expired" /\ e # "reaped" /\ outcome \in Terminal
      BY <3>1, NullAssumption DEF Errors, Terminal
    <3> QED
      BY <1>2, <2>1, <2>3, <3>1, <3>2, CloseStep DEF Finish
  <2> QED
    BY <1>2, <2>1, <2>2, <2>3 DEF Finish
<1>3. ASSUME WorkerNext, \A r \in RunIds : ~ Claim(r),
             \A outcome \in {"succeeded", "failed"} : ~ Finish(outcome)
      PROVE  UNCHANGED <<run, starts, reports>>
  BY <1>3 DEF WorkerNext, Receive, NotClaimed, ClaimFails, Ack, storeVars
<1> QED
  BY <1>1, <1>2, <1>3, UntouchedRows

LEMMA AdminRows ==
    ASSUME TypeInv, SafetyInv, AdminNext PROVE RowStep
<1>1. ASSUME NEW s \in Slots, NEW r \in RunIds, StartRunInsert(s, r) PROVE RowStep
  <2>1. PICK j \in Jobs : j = adm[s].job
    BY <1>1 DEF StartRunInsert, TypeInv, ReferencesHold, AdminRefs
  <2>2. InsertRun(r, j, InitialStatus(j), "manual", Null) /\ NextId(r) /\ UNCHANGED <<starts, reports>>
    BY <1>1, <2>1 DEF StartRunInsert, InitialStatus
  <2> QED
    BY <2>2, OpenStep DEF OrNull
<1>2. ASSUME NEW s \in Slots, StartRunMarkFailed(s) PROVE RowStep
  <2>1. PICK r \in RunIds : r = adm[s].run /\ run[r].status # "absent"
    BY <1>2 DEF StartRunMarkFailed, TypeInv, ReferencesHold, AdminRefs, Committed
  <2>2. CASE UNCHANGED run
    BY <1>2, <2>2, UntouchedRows DEF StartRunMarkFailed
  <2>3. CASE CloseRun(r, "failed", "enqueue")
    <3>1. "failed" \in Terminal /\ "enqueue" \in OrNull(Errors)
      BY DEF Terminal, Errors, OrNull
    <3> QED
      BY <1>2, <2>1, <2>3, <3>1, CloseStep DEF StartRunMarkFailed
  <2> QED
    BY <1>2, <2>1, <2>2, <2>3 DEF StartRunMarkFailed
<1>3. ASSUME AdminNext, \A s \in Slots, r \in RunIds : ~ StartRunInsert(s, r),
             \A s \in Slots : ~ StartRunMarkFailed(s)
      PROVE  UNCHANGED <<run, starts, reports>>
  BY <1>3 DEF AdminNext, AdminContinue, CreateJob, StartRunCheck, UpdateJobRead, UpdateJobWrite, StartRunNoRow,
     StartRunEnqueue, RequestFails, Accept, storeVars
<1> QED
  BY <1>1, <1>2, <1>3, UntouchedRows

LEMMA FinanceRows ==
    ASSUME TypeInv, SafetyInv, FinanceNext PROVE RowStep
<1>1. ASSUME NEW c \in Callers, fin[c].step # "idle"
      PROVE  fin[c].run \in RunIds /\ run[fin[c].run].status # "absent"
  BY <1>1 DEF TypeInv, ReferencesHold, FinanceRefs, Committed
<1>2. ASSUME NEW c \in Callers, Approve(c) PROVE RowStep
  <2>1. PICK r \in RunIds : r = fin[c].run /\ run[r].status # "absent"
    BY <1>1, <1>2 DEF Approve
  <2>2. IsGated(r) /\ clock # Null
    BY <1>2, <2>1, NullAssumption
       DEF Approve, SafetyInv, HandshakeHolds, TypeInv, TypeOK, StoreTypeOK, Time
  <2>3. run' = [run EXCEPT ![r] = [@ EXCEPT !.claimable = clock]]
    BY <1>2, <2>1 DEF Approve
  <2>4. ApprovesRow(r)
    BY <1>2, <2>1, <2>2, <2>3, ApproveRow DEF Approve, ApprovesRow, Untouched, TypeInv, TypeOK, StoreTypeOK
  <2> QED
    BY <2>4 DEF RowStep
<1>3. ASSUME NEW c \in Callers, Lease(c) PROVE RowStep
  <2>1. PICK r \in RunIds : r = fin[c].run
    BY <1>1, <1>3 DEF Lease
  <2>2. CASE Leasable(r) /\ StartRun(r)
    BY <1>3, <2>1, <2>2, BeginStep DEF Lease, Leasable, SafetyInv, HandshakeHolds
  <2>3. CASE UNCHANGED <<run, starts>>
    BY <1>3, <2>3, UntouchedRows DEF Lease
  <2> QED
    BY <1>3, <2>1, <2>2, <2>3 DEF Lease
<1>4. ASSUME NEW c \in Callers, Complete(c) PROVE RowStep
  <2>1. PICK r \in RunIds : r = fin[c].run /\ run[r].status # "absent"
    BY <1>1, <1>4 DEF Complete
  <2>2. PICK target \in Terminal : target = fin[c].target
    BY <1>4 DEF Complete, TypeInv, TypeOK, FinanceTypeOK, ReferencesHold, FinanceRefs, OrNull, Terminal
  <2>3. PICK s \in Terminal, e \in {Null, "runner"} : CloseRun(r, s, e)
    BY <1>4, <2>1, <2>2 DEF Complete, Terminal
  <2>4. e \in OrNull(Errors) /\ e # "expired" /\ e # "reaped"
    BY NullAssumption DEF OrNull, Errors
  <2>5. \A q \in RunIds : q # r => reports'[q] = reports[q]
    BY <1>4, <2>1 DEF Complete, TypeInv, TypeOK, StoreTypeOK
  <2> QED
    BY <1>4, <2>1, <2>3, <2>4, <2>5, CloseStep DEF Complete
<1>5. ASSUME FinanceNext, \A c \in Callers : ~ Approve(c) /\ ~ Lease(c) /\ ~ Complete(c)
      PROVE  UNCHANGED <<run, starts, reports>>
  BY <1>5 DEF FinanceNext, FinanceContinue, CallFails, AckRead, ClaimPick, CompleteRead, Call, storeVars
<1> QED
  BY <1>2, <1>3, <1>4, <1>5, UntouchedRows

LEMMA StepRows ==
    ASSUME TypeInv, SafetyInv, [Next]_vars PROVE RowStep
<1>1. CASE Ticker \/ PollLoop \/ Admin \/ Finance
  BY <1>1, SchedulerRows, WorkerRows, AdminRows, FinanceRows DEF Ticker, PollLoop, Admin, Finance
<1>2. CASE Clock \/ Lost \/ WorkerCrash \/ ApiCrash \/ UNCHANGED vars
  BY <1>2, UntouchedRows DEF Clock, Tock, Lost, DeadLetter, WorkerCrash, ApiCrash, vars
<1> QED
  BY <1>1, <1>2 DEF Next

-----------------------------------------------------------------------------
(* What follows for the rows, and for what is remembered about them *)

LEMMA RunLifeKept ==
    ASSUME TypeInv, TypeInv', RunLife, RowStep PROVE RunLife'
<1>1. ASSUME NEW r \in RunIds, OpensRow(r) PROVE RunLife'
  <2>1. run'[r].status \in {"queued", "awaiting_ack"} /\ (run'[r].status = "queued" => run'[r].job \notin Gated)
    BY <1>1 DEF OpensRow, InitialStatus
  <2>2. starts[r] = 0 /\ Null # "expired"
    BY <1>1, NullAssumption DEF OpensRow, RunLife, Errors
  <2> QED
    BY <1>1, <2>1, <2>2 DEF OpensRow, RunLife, Untouched, IsGated
<1>2. ASSUME NEW r \in RunIds, BeginsRow(r) PROVE RunLife'
  <2>1. run[r].error # "expired"
    BY <1>2 DEF BeginsRow, RunLife, Terminal
  <2>2. \A q \in RunIds : q # r => starts'[q] = starts[q]
    BY <1>2 DEF BeginsRow, TypeInv, TypeOK, StoreTypeOK
  <2> QED
    BY <1>2, <2>1, <2>2 DEF BeginsRow, RunLife, Untouched, IsGated
<1>3. ASSUME NEW r \in RunIds, ApprovesRow(r) PROVE RunLife'
  BY <1>3 DEF ApprovesRow, RunLife, Untouched, IsGated, SameIdentity
<1>4. ASSUME ClosesRows PROVE RunLife'
  <2>1. ASSUME NEW r \in RunIds, ClosesRow(r)
        PROVE  run'[r].status \notin {"absent", "queued", "awaiting_ack"}
    BY <2>1 DEF ClosesRow, Terminal
  <2> QED
    BY <1>4, <2>1 DEF ClosesRows, ClosesRow, RunLife, Untouched, IsGated
<1> QED
  BY <1>1, <1>2, <1>3, <1>4 DEF RowStep

\* What every step leaves alone in a row that exists.
Persists(r) ==
    /\ run'[r].job = run[r].job /\ run'[r].tick = run[r].tick
    /\ run[r].claimable # Null => run'[r].claimable # Null
    /\ run[r].status \in {"running"} \cup Terminal =>
           run'[r].status \in {"running"} \cup Terminal /\ run'[r].started = run[r].started

LEMMA RowsPersist ==
    ASSUME RowStep, NEW r \in RunIds, run[r].status # "absent" PROVE Persists(r)
<1>1. ASSUME NEW q \in RunIds, OpensRow(q) PROVE Persists(r)
  BY <1>1 DEF OpensRow, Persists, Untouched
<1>2. ASSUME NEW q \in RunIds, BeginsRow(q) PROVE Persists(r)
  BY <1>2 DEF BeginsRow, Persists, Untouched, SameIdentity, Terminal
<1>3. ASSUME NEW q \in RunIds, ApprovesRow(q) PROVE Persists(r)
  BY <1>3 DEF ApprovesRow, Persists, Untouched, SameIdentity
<1>4. ASSUME ClosesRows PROVE Persists(r)
  BY <1>4 DEF ClosesRows, ClosesRow, Persists, Untouched, SameIdentity
<1> QED
  BY <1>1, <1>2, <1>3, <1>4 DEF RowStep

\* The parts of OrdinaryOnly, one for each place a run id waits in.
OrdinaryQueue == \A r \in queue : ~ IsGated(r)
OrdinarySched ==
    /\ sch.step = "announce" => ~ IsGated(sch.current)
    /\ sch.step = "redriving" => \A r \in sch.todo : ~ IsGated(r)
OrdinaryInbox == \A r \in wrk.inbox : ~ IsGated(r)
OrdinaryAdmin == \A s \in Slots : adm[s].step = "enqueue" => ~ IsGated(adm[s].run)

LEMMA OrdinaryParts ==
    OrdinaryOnly <=> OrdinaryQueue /\ OrdinarySched /\ OrdinaryInbox /\ OrdinaryAdmin
BY DEF OrdinaryOnly, OrdinaryQueue, OrdinarySched, OrdinaryInbox, OrdinaryAdmin

LEMMA GateStays ==
    ASSUME RowStep, NEW r, Committed(r) PROVE Persists(r) /\ (IsGated(r)' <=> IsGated(r))
<1>1. r \in RunIds /\ run[r].status # "absent"
  BY DEF Committed
<1>2. PICK q \in RunIds : q = r
  BY <1>1
<1>3. Persists(q)
  BY <1>1, <1>2, RowsPersist
<1> QED
  BY <1>2, <1>3 DEF Persists, IsGated

\* A component whose variable does not change keeps its part.
LEMMA OthersSafe ==
    ASSUME TypeInv, TypeInv', SafetyInv, RowStep, clock' >= clock
    PROVE  /\ queue' \subseteq queue => OrdinaryQueue'
           /\ UNCHANGED sch => OrdinarySched' /\ PassInTime'
           /\ UNCHANGED wrk => OrdinaryInbox'
           /\ UNCHANGED adm => OrdinaryAdmin'
           /\ UNCHANGED fin => HandshakeHolds'
<1>1. ASSUME NEW r \in RunIds, Committed(r) PROVE Persists(r) /\ (IsGated(r)' <=> IsGated(r))
  BY <1>1, GateStays
<1>2. ASSUME queue' \subseteq queue PROVE OrdinaryQueue'
  BY <1>1, <1>2, OrdinaryParts
     DEF OrdinaryQueue, SafetyInv, TypeInv, TypeOK, StoreTypeOK, ReferencesHold, QueueRefs
<1>3. ASSUME UNCHANGED sch PROVE OrdinarySched'
  BY <1>1, <1>3, OrdinaryParts
     DEF OrdinarySched, SafetyInv, TypeInv, ReferencesHold, SchedulerRefs, Committed
<1>4. ASSUME UNCHANGED sch PROVE PassInTime'
  <2>1. ASSUME sch.step = "reaping", NEW r \in sch.todo
        PROVE  /\ IsGated(r)'
               /\ run'[r].status \in {"running"} \cup Terminal
               /\ Older(run'[r].started, AckLease, sch.now)
    <3>1. Committed(r) /\ r \in RunIds
      BY <2>1 DEF TypeInv, ReferencesHold, SchedulerRefs, Committed
    <3>2. PICK q \in RunIds : q = r
      BY <3>1
    <3> QED
      BY <1>1, <2>1, <3>1, <3>2 DEF SafetyInv, PassInTime, Persists
  <2>2. sch.now <= clock' /\ sch.began <= clock'
    <3>1. clock \in Nat /\ clock' \in Nat /\ sch.now \in Nat /\ sch.began \in Nat
      BY DEF TypeInv, TypeOK, StoreTypeOK, SchedulerTypeOK, SchedulerState, Time
    <3>2. sch.now <= clock /\ sch.began <= clock
      BY DEF SafetyInv, PassInTime
    <3> QED
      BY <3>1, <3>2
  <2> QED
    BY <1>4, <2>1, <2>2 DEF PassInTime
<1>5. ASSUME UNCHANGED wrk PROVE OrdinaryInbox'
  BY <1>1, <1>5, OrdinaryParts
     DEF OrdinaryInbox, SafetyInv, TypeInv, ReferencesHold, WorkerRefs, Committed
<1>6. ASSUME UNCHANGED adm PROVE OrdinaryAdmin'
  BY <1>1, <1>6, OrdinaryParts
     DEF OrdinaryAdmin, SafetyInv, TypeInv, ReferencesHold, AdminRefs, Committed
<1>7. ASSUME UNCHANGED fin PROVE HandshakeHolds'
  BY <1>1, <1>7 DEF HandshakeHolds, Persists, SafetyInv, TypeInv, ReferencesHold, FinanceRefs, Committed
<1> QED
  BY <1>2, <1>3, <1>4, <1>5, <1>6, <1>7

-----------------------------------------------------------------------------
(* What the component that takes the step does to its own part *)

LEMMA NowInTime == ASSUME TypeInv PROVE clock \in Nat /\ sch.now \in Nat /\ sch.began \in Nat
BY DEF TypeInv, TypeOK, StoreTypeOK, SchedulerTypeOK, SchedulerState, Time

\* A scheduler step that is not a move to announcing or to a sweep's visits.
LEMMA MovedSafe ==
    ASSUME TypeInv, SafetyInv, RowStep, clock' = clock,
           sch'.step \notin {"announce", "redriving", "reaping"},
           sch'.now <= clock, sch'.began <= clock
    PROVE  OrdinarySched' /\ PassInTime'
BY DEF OrdinarySched, PassInTime

\* The scheduler works through its list, or stays at its announcement.
LEMMA SameStepSafe ==
    ASSUME TypeInv, SafetyInv, RowStep, clock' = clock,
           sch'.step = sch.step, sch'.current = sch.current, sch'.todo \subseteq sch.todo,
           sch'.now = sch.now, sch'.began = sch.began
    PROVE  OrdinarySched' /\ PassInTime'
<1>1. ASSUME NEW r, Committed(r) PROVE Persists(r) /\ (IsGated(r)' <=> IsGated(r))
  BY <1>1, GateStays
<1>2. OrdinarySched /\ PassInTime
  BY OrdinaryParts DEF SafetyInv
<1>3. (sch.step = "announce" => Committed(sch.current)) /\ \A r \in sch.todo : Committed(r)
  BY DEF TypeInv, ReferencesHold, SchedulerRefs
<1>4. OrdinarySched'
  BY <1>1, <1>2, <1>3 DEF OrdinarySched
<1>5. ASSUME sch.step = "reaping", NEW r \in sch'.todo
      PROVE  IsGated(r)' /\ run'[r].status \in {"running"} \cup Terminal /\ Older(run'[r].started, AckLease, sch.now)
  <2>1. Committed(r) /\ IsGated(r) /\ run[r].status \in {"running"} \cup Terminal
        /\ Older(run[r].started, AckLease, sch.now)
    BY <1>2, <1>3, <1>5 DEF PassInTime
  <2> QED
    BY <1>1, <2>1 DEF Persists
<1> QED
  BY <1>2, <1>4, <1>5 DEF PassInTime

LEMMA GoToSafe ==
    ASSUME TypeInv, SafetyInv, RowStep, clock' = clock, NEW st \in {"idle", "redrive", "reap", "reapAck", "expire"},
           GoTo(st)
    PROVE  OrdinarySched' /\ PassInTime'
<1>1. sch.now <= clock /\ sch.began <= clock /\ 0 <= clock /\ clock <= clock
  BY NowInTime DEF SafetyInv, PassInTime
<1>2. sch'.step = st /\ sch'.now \in {0, sch.now} /\ sch'.began \in {clock, sch.began}
  <2>1. CASE st = "idle"
    <3>1. sch' = Rested
      BY <2>1 DEF GoTo
    <3> QED
      BY <2>1, <3>1 DEF Rested, TypeInv, TypeOK, SchedulerTypeOK, SchedulerState
  <2>2. CASE st # "idle"
    BY <2>2 DEF GoTo, TypeInv, TypeOK, SchedulerTypeOK, SchedulerState
  <2> QED
    BY <2>1, <2>2
<1> QED
  BY <1>1, <1>2, MovedSafe

LEMMA EvaluatedSafe ==
    ASSUME TypeInv, SafetyInv, RowStep, clock' = clock, NEW j \in Jobs, sch' = Evaluated(j)
    PROVE  OrdinarySched' /\ PassInTime'
<1>1. /\ sch'.step = sch.step /\ sch'.current = sch.current /\ sch'.todo = sch.todo
      /\ sch'.now = sch.now /\ sch'.began = sch.began
  BY DEF TypeInv, TypeOK, SchedulerTypeOK, SchedulerState, Evaluated
<1> QED
  BY <1>1, SameStepSafe

LEMMA VisitedSafe ==
    ASSUME TypeInv, SafetyInv, RowStep, clock' = clock, NEW r \in RunIds, Visited(r)
    PROVE  OrdinarySched' /\ PassInTime'
<1>1. /\ sch'.step = sch.step /\ sch'.current = sch.current /\ sch'.todo \subseteq sch.todo
      /\ sch'.now = sch.now /\ sch'.began = sch.began
  BY DEF TypeInv, TypeOK, SchedulerTypeOK, SchedulerState, Visited
<1> QED
  BY <1>1, SameStepSafe

LEMMA SchedulerSafe ==
    ASSUME TypeInv, SafetyInv, RowStep, SchedulerNext
    PROVE  OrdinarySched' /\ PassInTime' /\ OrdinaryQueue' /\ clock' = clock
<1>1. clock' = clock
  BY DEF SchedulerNext, Evaluation, Maintenance, Tick, TickFails, NotDue, InitPointer, Fire, FireConflict,
     EvaluateFails, Announce, EvaluationDone, RedriveQuery, ReapQuery, ExpireQuery, Query, Redrive, Reap,
     ReapGated, Expire, CloseStuck, SweepDone, storeVars
<1>2. ASSUME NEW r, Committed(r) PROVE Persists(r) /\ (IsGated(r)' <=> IsGated(r))
  BY <1>2, GateStays
<1>3. RunLife /\ OrdinaryQueue /\ OrdinarySched /\ PassInTime
  BY OrdinaryParts DEF SafetyInv
<1>4. sch \in SchedulerState
  BY DEF TypeInv, TypeOK, SchedulerTypeOK
<1>5. ASSUME queue' \subseteq queue PROVE OrdinaryQueue'
  BY <1>2, <1>3, <1>5 DEF OrdinaryQueue, TypeInv, ReferencesHold, QueueRefs
<1>6. ASSUME NEW r, Committed(r), ~ IsGated(r), Enqueue(r) PROVE OrdinaryQueue'
  BY <1>2, <1>3, <1>6 DEF OrdinaryQueue, TypeInv, ReferencesHold, QueueRefs, Enqueue
<1>7. OrdinaryQueue'
  <2>1. CASE Announce
    BY <1>3, <1>5, <1>6, <2>1 DEF Announce, OrdinarySched, TypeInv, ReferencesHold, SchedulerRefs
  <2>2. ASSUME NEW r \in RunIds, Redrive(r) PROVE OrdinaryQueue'
    BY <1>3, <1>5, <1>6, <2>2 DEF Redrive, OrdinarySched, TypeInv, ReferencesHold, SchedulerRefs
  <2>3. ASSUME ~ Announce, \A r \in RunIds : ~ Redrive(r) PROVE queue' \subseteq queue
    BY <2>3 DEF SchedulerNext, Evaluation, Maintenance, Tick, TickFails, NotDue, InitPointer, Fire, FireConflict,
       EvaluateFails, EvaluationDone, RedriveQuery, ReapQuery, ExpireQuery, Query, Reap,
       ReapGated, Expire, CloseStuck, SweepDone, storeVars
  <2> QED
    BY <1>5, <2>1, <2>2, <2>3
<1> DEFINE Safe == OrdinarySched' /\ PassInTime'
<1>8. ASSUME Tick PROVE Safe
  <2>1. PICK now \in sch.began .. clock :
           sch' = [sch EXCEPT !.step = "evaluate", !.now = now, !.began = clock,
                     !.snap = [j \in Jobs |->
                         IF Registered(j) /\ job[j].enabled THEN job[j] ELSE Null]]
    BY <1>8 DEF Tick
  <2>2. now <= clock /\ clock <= clock
    BY <2>1, NowInTime
  <2>3. sch'.step = "evaluate" /\ sch'.now = now /\ sch'.began = clock
    BY <1>4, <2>1 DEF SchedulerState
  <2> QED
    BY <1>1, <2>2, <2>3, MovedSafe
<1>9. ASSUME TickFails PROVE Safe
  <2>1. sch'.step = "idle" /\ sch'.now = sch.now /\ sch'.began = clock
    BY <1>4, <1>9 DEF TickFails, SchedulerState
  <2>2. sch.now <= clock /\ clock <= clock
    BY <1>3, NowInTime DEF PassInTime
  <2> QED
    BY <1>1, <2>1, <2>2, MovedSafe
<1>10. ASSUME Announce PROVE Safe
  <2>1. sch'.step = "evaluate" /\ sch'.now = sch.now /\ sch'.began = sch.began
    BY <1>4, <1>10 DEF Announce, SchedulerState
  <2>2. sch.now <= clock /\ sch.began <= clock
    BY <1>3 DEF PassInTime
  <2> QED
    BY <1>1, <2>1, <2>2, MovedSafe
<1>11. ASSUME EvaluationDone PROVE Safe
  BY <1>1, <1>11, GoToSafe DEF EvaluationDone
<1>12. ASSUME NEW j \in Jobs, NotDue(j) \/ InitPointer(j) \/ FireConflict(j) \/ EvaluateFails(j) PROVE Safe
  <2>1. sch' = Evaluated(j)
    BY <1>12 DEF NotDue, InitPointer, FireConflict, EvaluateFails
  <2> QED
    BY <1>1, <2>1, EvaluatedSafe
<1>13. ASSUME NEW j \in Jobs, NEW r \in RunIds, Fire(j, r) PROVE Safe
  <2>1. CASE j \in Gated
    <3>1. /\ sch'.step = sch.step /\ sch'.current = sch.current /\ sch'.todo = sch.todo
          /\ sch'.now = sch.now /\ sch'.began = sch.began
      BY <1>4, <1>13, <2>1 DEF Fire, Evaluated, SchedulerState
    <3> QED
      BY <1>1, <3>1, SameStepSafe
  <2>2. CASE j \notin Gated
    <3>1. sch'.step = "announce" /\ sch'.current = r /\ sch'.now = sch.now /\ sch'.began = sch.began
      BY <1>4, <1>13, <2>2 DEF Fire, Evaluated, SchedulerState
    <3>2. run'[r].job = j
      <4>1. PICK t \in OrNull(Ticks) : t = sch.snap[j].nextRun
        BY <1>13, SnapshotOfJob DEF Fire
      <4>2. InsertRun(r, j, InitialStatus(j), "schedule", t) /\ InitialStatus(j) \in Statuses
        BY <1>13, <4>1 DEF Fire, InitialStatus, Statuses, Active
      <4> QED
        BY <4>2, InsertRunRow DEF TypeInv, TypeOK, StoreTypeOK
    <3>3. ~ IsGated(r)'
      BY <2>2, <3>2 DEF IsGated
    <3>4. OrdinarySched'
      BY <3>1, <3>3 DEF OrdinarySched
    <3>5. PassInTime'
      BY <1>1, <1>3, <3>1 DEF PassInTime
    <3> QED
      BY <3>4, <3>5
  <2> QED
    BY <2>1, <2>2
<1>14. ASSUME NEW st \in Steps, NEW found \in SUBSET RunIds, NEW visit \in {"redriving", "reaping", "expiring"},
              NEW next \in {"reap", "expire", "idle"}, Query(st, found, visit, next),
              visit = "redriving" => \A r \in found : Stranded(r),
              visit = "reaping" => \A r \in found : GatedOverrun(r)
       PROVE  Safe
  <2>1. CASE GoTo(next)
    BY <1>1, <2>1, GoToSafe
  <2>2. CASE sch' = [sch EXCEPT !.step = visit, !.todo = found]
    <3>1. sch'.step = visit /\ sch'.todo = found /\ sch'.now = sch.now /\ sch'.began = sch.began
      BY <1>4, <2>2 DEF SchedulerState
    <3>2. run' = run /\ sch.now <= clock /\ sch.began <= clock
      BY <1>3, <1>14 DEF Query, PassInTime
    <3>3. OrdinarySched'
      BY <1>3, <1>14, <3>1, <3>2 DEF OrdinarySched, Stranded, RunLife, IsGated
    <3>4. PassInTime'
      BY <1>1, <1>14, <3>1, <3>2 DEF PassInTime, GatedOverrun, IsGated
    <3> QED
      BY <3>3, <3>4
  <2> QED
    BY <1>14, <2>1, <2>2 DEF Query
<1>15. ASSUME RedriveQuery \/ ReapQuery \/ ExpireQuery PROVE Safe
  BY <1>14, <1>15 DEF RedriveQuery, ReapQuery, ExpireQuery, Steps
<1>16. ASSUME Reap \/ SweepDone PROVE Safe
  BY <1>1, <1>16, GoToSafe DEF Reap, SweepDone
<1>17. ASSUME NEW r \in RunIds, Redrive(r) \/ ReapGated(r) \/ Expire(r) PROVE Safe
  <2>1. Visited(r)
    BY <1>17 DEF Redrive, ReapGated, Expire, CloseStuck
  <2> QED
    BY <1>1, <2>1, VisitedSafe
<1>18. Safe
  BY <1>8, <1>9, <1>10, <1>11, <1>12, <1>13, <1>15, <1>16, <1>17 DEF SchedulerNext, Evaluation, Maintenance
<1> QED
  BY <1>1, <1>7, <1>18

LEMMA WorkerSafe ==
    ASSUME TypeInv, SafetyInv, RowStep, WorkerNext
    PROVE  OrdinaryInbox' /\ queue' \subseteq queue /\ clock' = clock
<1>1. queue' \subseteq queue /\ clock' = clock
  BY DEF WorkerNext, Receive, Claim, NotClaimed, ClaimFails, Finish, Ack, DeleteMessage, storeVars
<1>2. ASSUME NEW r, Committed(r) PROVE IsGated(r)' <=> IsGated(r)
  BY <1>2, GateStays
<1>3. OrdinaryQueue /\ OrdinaryInbox
  BY OrdinaryParts DEF SafetyInv
<1>4. wrk'.inbox \subseteq wrk.inbox \cup queue
  <2>1. wrk \in [step : {"poll", "process", "handle", "ack"}, inbox : SUBSET RunIds, msg : OrNull(RunIds)]
    BY DEF TypeInv, TypeOK, WorkerTypeOK
  <2>2. ASSUME NEW batch \in SUBSET RunIds, Receive(batch) PROVE wrk'.inbox \subseteq wrk.inbox \cup queue
    BY <2>1, <2>2 DEF Receive
  <2>3. ASSUME NEW r \in RunIds, Claim(r) \/ NotClaimed(r) PROVE wrk'.inbox = wrk.inbox
    BY <2>1, <2>3 DEF Claim, NotClaimed
  <2>4. ASSUME NEW r, NextMessage(r) PROVE wrk'.inbox \subseteq wrk.inbox
    BY <2>4 DEF NextMessage
  <2>5. ASSUME NEW outcome, Finish(outcome) PROVE wrk'.inbox = wrk.inbox
    BY <2>1, <2>5 DEF Finish
  <2> QED
    BY <2>2, <2>3, <2>4, <2>5 DEF WorkerNext, ClaimFails, Ack
<1> QED
  BY <1>1, <1>2, <1>3, <1>4
     DEF OrdinaryInbox, OrdinaryQueue, TypeInv, ReferencesHold, WorkerRefs, QueueRefs

LEMMA AdminSafe ==
    ASSUME TypeInv, SafetyInv, RowStep, AdminNext
    PROVE  OrdinaryAdmin' /\ OrdinaryQueue' /\ clock' = clock
<1>1. clock' = clock
  BY DEF AdminNext, AdminContinue, CreateJob, UpdateJobRead, UpdateJobWrite, StartRunCheck, StartRunInsert,
     StartRunNoRow, StartRunEnqueue, StartRunMarkFailed, RequestFails, Accept, storeVars
<1>2. ASSUME NEW r, Committed(r) PROVE IsGated(r)' <=> IsGated(r)
  BY <1>2, GateStays
<1>3. OrdinaryQueue /\ OrdinaryAdmin
  BY OrdinaryParts DEF SafetyInv
<1>4. \A s \in Slots : adm[s].step = "enqueue" => Committed(adm[s].run)
  BY DEF TypeInv, ReferencesHold, AdminRefs
<1>5. OrdinaryQueue'
  <2>1. ASSUME NEW s \in Slots, StartRunEnqueue(s) PROVE OrdinaryQueue'
    <3>1. Committed(adm[s].run) /\ ~ IsGated(adm[s].run) /\ queue' \subseteq queue \cup {adm[s].run}
      BY <1>3, <1>4, <2>1 DEF StartRunEnqueue, OrdinaryAdmin, Enqueue
    <3> QED
      BY <1>2, <1>3, <3>1 DEF OrdinaryQueue, TypeInv, ReferencesHold, QueueRefs
  <2>2. ASSUME \A s \in Slots : ~ StartRunEnqueue(s) PROVE queue' = queue
    BY <2>2 DEF AdminNext, AdminContinue, CreateJob, UpdateJobRead, UpdateJobWrite, StartRunCheck, StartRunInsert,
       StartRunNoRow, StartRunMarkFailed, RequestFails, Accept, storeVars
  <2> QED
    BY <1>2, <1>3, <2>1, <2>2 DEF OrdinaryQueue, TypeInv, ReferencesHold, QueueRefs
<1>6. adm \in [Slots -> [step : {"idle", "insert", "enqueue", "markFailed", "write"},
                       job : OrNull(Jobs), run : OrNull(RunIds),
                       enabled : OrNull(BOOLEAN), schedule : OrNull(Schedules),
                       row : OrNull(JobRow), at : Time]]
  BY DEF TypeInv, TypeOK, AdminTypeOK
<1>7. ASSUME NEW s \in Slots, NEW r \in RunIds, StartRunInsert(s, r) PROVE OrdinaryAdmin'
  <2>1. PICK j \in Jobs : j = adm[s].job
    BY <1>7 DEF StartRunInsert, TypeInv, ReferencesHold, AdminRefs
  <2>2. \A t \in Slots : t # s => adm'[t] = adm[t]
    BY <1>6, <1>7 DEF StartRunInsert, Respond, MoveOn
  <2>3. adm'[s].step = "enqueue" => ~ IsGated(adm[s].run)'
    <3>1. CASE j \in Gated
      BY <1>6, <1>7, <2>1, <3>1 DEF StartRunInsert, Respond, NoRequest, RequestTo
    <3>2. CASE j \notin Gated
      <4>1. InsertRun(r, j, "queued", "manual", Null) /\ adm'[s].run = r
        BY <1>6, <1>7, <2>1, <3>2 DEF StartRunInsert, MoveOn
      <4>2. "queued" \in Statuses /\ Null \in OrNull(Ticks)
        BY DEF Statuses, Active, OrNull
      <4>3. run'[r].job = j
        BY <4>1, <4>2, InsertRunRow DEF TypeInv, TypeOK, StoreTypeOK
      <4> QED
        BY <3>2, <4>1, <4>3 DEF IsGated
    <3> QED
      BY <3>1, <3>2
  <2> QED
    BY <1>2, <1>3, <1>4, <2>2, <2>3 DEF OrdinaryAdmin
<1>8. ASSUME \A s \in Slots, r \in RunIds : ~ StartRunInsert(s, r) PROVE OrdinaryAdmin'
  <2>1. ASSUME NEW s \in Slots, NEW q, q.step # "enqueue", adm' = [adm EXCEPT ![s] = q] PROVE OrdinaryAdmin'
    BY <1>2, <1>3, <1>4, <1>6, <2>1 DEF OrdinaryAdmin
  <2>2. ASSUME NEW s \in Slots, Respond(s) PROVE OrdinaryAdmin'
    <3>1. NoRequest.step # "enqueue"
      BY DEF NoRequest, RequestTo
    <3> QED
      BY <2>1, <2>2, <3>1 DEF Respond
  <2>3. ASSUME NEW s \in Slots, NEW j, NEW e, NEW c, NEW row, NEW at, NEW st \in {"insert", "write"},
               Accept(s, RequestTo(st, j, e, c, row, at))
        PROVE  OrdinaryAdmin'
    <3> DEFINE q == RequestTo(st, j, e, c, row, at)
    <3>1. q.step # "enqueue"
      BY DEF RequestTo
    <3>2. adm' = [adm EXCEPT ![s] = q]
      BY <2>3 DEF Accept
    <3> HIDE DEF q
    <3> QED
      BY <1>2, <1>3, <1>4, <1>6, <3>1, <3>2 DEF OrdinaryAdmin
  <2>4. ASSUME NEW s \in Slots, MoveOn(s, "markFailed", adm[s].run) PROVE OrdinaryAdmin'
    <3> DEFINE q == [adm[s] EXCEPT !.step = "markFailed", !.run = adm[s].run]
    <3>1. q.step # "enqueue"
      BY <1>6
    <3>2. adm' = [adm EXCEPT ![s] = q]
      BY <2>4 DEF MoveOn
    <3> HIDE DEF q
    <3> QED
      BY <1>2, <1>3, <1>4, <1>6, <3>1, <3>2 DEF OrdinaryAdmin
  <2>5. ASSUME UNCHANGED adm PROVE OrdinaryAdmin'
    BY <1>2, <1>3, <1>4, <2>5 DEF OrdinaryAdmin
  <2>6. ASSUME NEW s \in Slots, AdminContinue(s) PROVE OrdinaryAdmin'
    BY <1>8, <2>2, <2>4, <2>6 DEF AdminContinue, UpdateJobWrite, StartRunNoRow, StartRunEnqueue,
       StartRunMarkFailed, RequestFails
  <2>7. ASSUME NEW j \in Jobs, NEW sched \in Schedules, NEW enabled \in BOOLEAN, CreateJob(j, sched, enabled)
        PROVE  OrdinaryAdmin'
    BY <2>5, <2>7 DEF CreateJob
  <2>8. ASSUME NEW s \in Slots, NEW j \in Jobs, StartRunCheck(s, j) PROVE OrdinaryAdmin'
    BY <2>3, <2>8 DEF StartRunCheck
  <2>9. ASSUME NEW s \in Slots, NEW j \in Jobs, NEW e \in OrNull(BOOLEAN), NEW c \in OrNull(Schedules),
               UpdateJobRead(s, j, e, c)
        PROVE  OrdinaryAdmin'
    <3>1. PICK row \in OrNull(JobRow), at \in Time : row = job[j] /\ at = clock
      BY DEF TypeInv, TypeOK, StoreTypeOK
    <3> QED
      BY <2>3, <2>9, <3>1 DEF UpdateJobRead
  <2> QED
    BY <2>6, <2>7, <2>8, <2>9 DEF AdminNext
<1>9. OrdinaryAdmin'
  BY <1>7, <1>8
<1> QED
  BY <1>1, <1>5, <1>9

LEMMA FinanceSafe ==
    ASSUME TypeInv, SafetyInv, RowStep, FinanceNext
    PROVE  HandshakeHolds' /\ queue' = queue /\ clock' = clock
<1>1. queue' = queue /\ clock' = clock
  BY DEF FinanceNext, FinanceContinue, Approve, Lease, Complete, CallFails, AckRead, ClaimPick, CompleteRead,
     Call, storeVars
<1>2. ASSUME NEW r, Committed(r)
      PROVE (IsGated(r)' <=> IsGated(r)) /\ (run[r].claimable # Null => run'[r].claimable # Null)
  BY <1>2, GateStays DEF Persists
<1>3. \A c \in Callers : fin[c].step # "idle" => Committed(fin[c].run)
  BY DEF TypeInv, ReferencesHold, FinanceRefs
<1>4. ASSUME NEW c \in Callers, ~ (fin'[c] = fin[c]), fin'[c].step \in {"approve", "lease"}
      PROVE  /\ IsGated(fin'[c].run) /\ UNCHANGED run
             /\ fin'[c].step = "lease" => run[fin'[c].run].claimable # Null
  BY <1>4 DEF FinanceNext, FinanceContinue, Approve, Lease, Complete, CallFails, AckRead, ClaimPick, CompleteRead,
     Call, Return, NoCall, Approved, storeVars, TypeInv, TypeOK, FinanceTypeOK
<1>5. HandshakeHolds'
  BY <1>2, <1>3, <1>4 DEF HandshakeHolds, SafetyInv, IsGated
<1> QED
  BY <1>1, <1>5

-----------------------------------------------------------------------------
(* The invariant is inductive *)

LEMMA SafetyInit == Init => SafetyInv
<1> SUFFICES ASSUME Init PROVE SafetyInv
  OBVIOUS
<1>1. clock = 0 /\ sch.now = 0 /\ sch.began = 0 /\ sch.step = "redrive" /\ sch.todo = {}
  BY DEF Init, StoreInit, SchedulerInit, SchedulerStart
<1>2. RunLife
  BY NullAssumption DEF Init, StoreInit, RunLife, NoRun, Errors
<1>3. OrdinaryOnly /\ HandshakeHolds
  BY <1>1 DEF Init, StoreInit, WorkerInit, WorkerStart, AdminInit, NoRequest, RequestTo, FinanceInit, NoCall,
     OrdinaryOnly, HandshakeHolds
<1>4. PassInTime
  BY <1>1 DEF PassInTime
<1> QED
  BY <1>2, <1>3, <1>4 DEF SafetyInv

LEMMA SafetyStep ==
    ASSUME TypeInv, TypeInv', SafetyInv, [Next]_vars PROVE SafetyInv'
<1>1. RowStep
  BY StepRows
<1>2. RunLife'
  BY <1>1, RunLifeKept DEF SafetyInv
<1>3. clock \in Nat
  BY NowInTime
<1> DEFINE Parts == OrdinaryQueue' /\ OrdinarySched' /\ OrdinaryInbox' /\ OrdinaryAdmin' /\ HandshakeHolds'
                    /\ PassInTime'
<1>4. ASSUME Ticker PROVE Parts
  BY <1>1, <1>3, <1>4, SchedulerSafe, OthersSafe DEF Ticker, adminVars
<1>5. ASSUME PollLoop PROVE Parts
  BY <1>1, <1>3, <1>5, WorkerSafe, OthersSafe DEF PollLoop, adminVars
<1>6. ASSUME Admin PROVE Parts
  BY <1>1, <1>3, <1>6, AdminSafe, OthersSafe DEF Admin
<1>7. ASSUME Finance PROVE Parts
  BY <1>1, <1>3, <1>7, FinanceSafe, OthersSafe DEF Finance, adminVars
<1>8. ASSUME Clock \/ Lost \/ UNCHANGED vars PROVE Parts
  <2>1. clock' >= clock /\ queue' \subseteq queue /\ UNCHANGED <<sch, wrk, adm, fin>>
    BY <1>3, <1>8 DEF Clock, Tock, Lost, DeadLetter, vars, adminVars
  <2> QED
    BY <1>1, <2>1, OthersSafe
<1>9. ASSUME WorkerCrash PROVE Parts
  <2>1. clock' = clock /\ queue' = queue /\ UNCHANGED <<adm, fin>> /\ sch' = SchedulerStart(clock) /\ wrk' = WorkerStart
    BY <1>9 DEF WorkerCrash, adminVars
  <2>2. OrdinarySched' /\ OrdinaryInbox' /\ PassInTime'
    BY <1>3, <2>1 DEF OrdinarySched, OrdinaryInbox, PassInTime, SchedulerStart, WorkerStart
  <2> QED
    BY <1>1, <1>3, <2>1, <2>2, OthersSafe
<1>10. ASSUME ApiCrash PROVE Parts
  <2>1. clock' = clock /\ queue' = queue /\ UNCHANGED <<sch, wrk>>
        /\ adm' = [s \in Slots |-> NoRequest] /\ fin' = [c \in Callers |-> NoCall]
    BY <1>10 DEF ApiCrash
  <2>2. OrdinaryAdmin' /\ HandshakeHolds'
    BY <2>1 DEF OrdinaryAdmin, HandshakeHolds, NoRequest, RequestTo, NoCall
  <2> QED
    BY <1>1, <1>3, <2>1, <2>2, OthersSafe
<1>11. Parts
  BY <1>4, <1>5, <1>6, <1>7, <1>8, <1>9, <1>10 DEF Next
<1>12. OrdinaryOnly'
  BY <1>11 DEF OrdinaryOnly, OrdinaryQueue, OrdinarySched, OrdinaryInbox, OrdinaryAdmin
<1> QED
  BY <1>2, <1>11, <1>12 DEF SafetyInv

-----------------------------------------------------------------------------
(* What the rows remember of their history, by the shape of RowStep alone *)

HistoryInv ==
    /\ OneRunPerTick
    /\ StartedAtMostOnce
    /\ ApprovedBeforeStarted
    /\ ExpiredNeverStarted
    /\ PushMeansClosed

LEMMA HistoryInit == Init => HistoryInv
<1> SUFFICES ASSUME Init PROVE HistoryInv
  OBVIOUS
<1> QED
  BY NullAssumption DEF Init, StoreInit, NoRun, Errors, HistoryInv, OneRunPerTick, StartedAtMostOnce,
     ApprovedBeforeStarted, ExpiredNeverStarted, PushMeansClosed

LEMMA TicksKept == ASSUME TypeInv, RunLife, OneRunPerTick, RowStep PROVE OneRunPerTick'
<1>1. ASSUME NEW r \in RunIds, OpensRow(r) PROVE OneRunPerTick'
  BY <1>1 DEF OpensRow, OneRunPerTick, Untouched, TickTaken, Is
<1>2. ASSUME \A r \in RunIds : run'[r].job = run[r].job /\ run'[r].tick = run[r].tick PROVE OneRunPerTick'
  BY <1>2 DEF OneRunPerTick
<1> QED
  BY <1>1, <1>2 DEF RowStep, BeginsRow, ApprovesRow, ClosesRows, ClosesRow, SameIdentity, Untouched

LEMMA BeginningsKept ==
    ASSUME TypeInv, RunLife, RowStep, StartedAtMostOnce, ApprovedBeforeStarted, ExpiredNeverStarted
    PROVE  StartedAtMostOnce' /\ ApprovedBeforeStarted' /\ ExpiredNeverStarted'
<1>1. starts \in [RunIds -> Nat]
  BY DEF TypeInv, TypeOK, StoreTypeOK
<1>2. ASSUME NEW r \in RunIds, OpensRow(r)
      PROVE  starts' = starts /\ starts[r] = 0 /\ run'[r].error # "expired" /\ \A q \in RunIds : q # r => Untouched(q)
  BY <1>2, NullAssumption DEF OpensRow, RunLife, Errors
<1>3. ASSUME NEW r \in RunIds, BeginsRow(r)
      PROVE  /\ starts'[r] = 1 /\ run'[r].error # "expired"
             /\ IsGated(r)' => run'[r].claimable # Null
             /\ \A q \in RunIds : q # r => Untouched(q) /\ starts'[q] = starts[q]
  BY <1>1, <1>3 DEF BeginsRow, RunLife, Terminal, IsGated, SameIdentity
<1>4. ASSUME NEW r \in RunIds, ApprovesRow(r)
      PROVE  /\ starts' = starts /\ run'[r].error = run[r].error /\ run'[r].claimable # Null
             /\ \A q \in RunIds : q # r => Untouched(q)
  BY <1>4 DEF ApprovesRow
<1>5. ASSUME ClosesRows, NEW r \in RunIds
      PROVE  /\ starts' = starts /\ run'[r].job = run[r].job /\ run'[r].claimable = run[r].claimable
             /\ run'[r].error = "expired" => run[r].error = "expired" \/ starts[r] = 0
  BY <1>5 DEF ClosesRows, ClosesRow, Untouched, SameIdentity, RunLife
<1>6. StartedAtMostOnce'
  BY <1>1, <1>2, <1>3, <1>4, <1>5 DEF RowStep, StartedAtMostOnce
<1>7. ApprovedBeforeStarted'
  BY <1>1, <1>2, <1>3, <1>4, <1>5 DEF RowStep, ApprovedBeforeStarted, Untouched, IsGated
<1>8. ExpiredNeverStarted'
  BY <1>1, <1>2, <1>3, <1>4, <1>5 DEF RowStep, ExpiredNeverStarted, Untouched
<1> QED
  BY <1>6, <1>7, <1>8

LEMMA PushesKept == ASSUME TypeInv, RowStep, PushMeansClosed PROVE PushMeansClosed'
<1>1. ASSUME NEW r \in RunIds, OpensRow(r) \/ BeginsRow(r) PROVE PushMeansClosed'
  BY <1>1 DEF OpensRow, BeginsRow, PushMeansClosed, Untouched, Terminal
<1>2. ASSUME NEW r \in RunIds, ApprovesRow(r) PROVE PushMeansClosed'
  BY <1>2 DEF ApprovesRow, PushMeansClosed, Untouched
<1>3. ASSUME ClosesRows PROVE PushMeansClosed'
  BY <1>3 DEF ClosesRows, ClosesRow, PushMeansClosed, Untouched
<1> QED
  BY <1>1, <1>2, <1>3 DEF RowStep

\* The inductive invariant of the platform.
PlatformInv == TypeInv /\ SafetyInv /\ HistoryInv

LEMMA PlatformStep == ASSUME PlatformInv, [Next]_vars PROVE PlatformInv' /\ RowStep
<1>1. TypeInv' /\ SafetyInv' /\ RowStep
  BY StepTypes, SafetyStep, StepRows DEF PlatformInv
<1>2. HistoryInv'
  BY <1>1, TicksKept, BeginningsKept, PushesKept DEF PlatformInv, HistoryInv, SafetyInv
<1> QED
  BY <1>1, <1>2 DEF PlatformInv

\* The invariant holds in every reachable state.
THEOREM PlatformSafe == Spec => []PlatformInv
<1>1. Init => PlatformInv
  BY TypeInvInit, SafetyInit, HistoryInit DEF PlatformInv
<1>2. PlatformInv /\ [Next]_vars => PlatformInv'
  BY PlatformStep
<1> QED
  BY <1>1, <1>2, PTL DEF Spec

-----------------------------------------------------------------------------
(* The properties the runs check *)

\* However late a pass or stale its snapshot, a tick of a job is one run.
THEOREM OneRunPerTickHolds == Spec => []OneRunPerTick
<1>1. PlatformInv => OneRunPerTick
  BY DEF PlatformInv, HistoryInv
<1> QED
  BY <1>1, PlatformSafe, PTL

\* Redelivery, re-drive and racing claims begin the work of a run at most once.
THEOREM StartedAtMostOnceHolds == Spec => []StartedAtMostOnce
<1>1. PlatformInv => StartedAtMostOnce
  BY DEF PlatformInv, HistoryInv
<1> QED
  BY <1>1, PlatformSafe, PTL

\* No gated run begins without a human's approval.
THEOREM ApprovedBeforeStartedHolds == Spec => []ApprovedBeforeStarted
<1>1. PlatformInv => ApprovedBeforeStarted
  BY DEF PlatformInv, HistoryInv
<1> QED
  BY <1>1, PlatformSafe, PTL

\* The expiry sweep never cancels a run a runner has leased.
THEOREM ExpiredNeverStartedHolds == Spec => []ExpiredNeverStarted
<1>1. PlatformInv => ExpiredNeverStarted
  BY DEF PlatformInv, HistoryInv
<1> QED
  BY <1>1, PlatformSafe, PTL

\* No push announces the end of a run that is still open.
THEOREM PushMeansClosedHolds == Spec => []PushMeansClosed
<1>1. PlatformInv => PushMeansClosed
  BY DEF PlatformInv, HistoryInv
<1> QED
  BY <1>1, PlatformSafe, PTL

\* Only ordinary, committed runs travel through SQS.
THEOREM QueueCarriesOrdinaryRunsHolds == Spec => []QueueCarriesOrdinaryRuns
<1>1. PlatformInv => QueueCarriesOrdinaryRuns
  BY DEF PlatformInv, TypeInv, ReferencesHold, QueueRefs, WorkerRefs, Committed, SafetyInv, OrdinaryOnly,
     QueueCarriesOrdinaryRuns
<1> QED
  BY <1>1, PlatformSafe, PTL

\* A sweep takes only a run that is past its own lease when it writes.
THEOREM ReapedPastItsLeaseHolds == Spec => ReapedPastItsLease
<1> DEFINE Late == \A r \in RunIds :
          run'[r].error = "reaped" /\ run[r].error # "reaped" =>
              /\ run[r].status = "running"
              /\ clock - run[r].started > (IF IsGated(r) THEN AckLease ELSE RunningLease)
<1>1. ASSUME PlatformInv, [Next]_vars PROVE Late
  <2>1. RowStep /\ Null # "reaped"
    BY <1>1, PlatformStep, NullAssumption DEF Errors
  <2> QED
    BY <2>1 DEF RowStep, OpensRow, BeginsRow, ApprovesRow, ClosesRows, ClosesRow, PastLease, Untouched
<1>2. PlatformInv /\ [Next]_vars => [Late]_vars
  BY <1>1
<1> QED
  BY <1>2, PlatformSafe, PTL DEF Spec, ReapedPastItsLease

-----------------------------------------------------------------------------
(* The platform implements RunLedger: the four kinds of row steps are its    *)
(* four actions, or stutters                                                 *)

LEMMA OpensLedger ==
    ASSUME PlatformInv, NEW r \in RunIds, OpensRow(r) PROVE Ledger!LedgerNext
<1>1. PICK j \in Jobs, t \in Ticks \cup {Null} : j = run'[r].job /\ t = run'[r].tick
  BY DEF OpensRow, OrNull
<1>2. run[r] = NoRun
  BY DEF OpensRow, PlatformInv, SafetyInv, RunLife
<1>3. Phase(r) = "unopened" /\ Phase(r)' = "open" /\ \A q \in RunIds : q # r => Phase(q)' = Phase(q)
  BY DEF OpensRow, Phase, InitialStatus, Untouched
<1>4. t # Null => \A q \in RunIds : [job |-> run[q].job, tick |-> run[q].tick] # [job |-> j, tick |-> t]
  BY <1>1 DEF OpensRow, TickTaken, Is
<1>5. {q \in RunIds : run'[q].claimable # Null} = {q \in RunIds : run[q].claimable # Null}
  BY <1>2 DEF OpensRow, Untouched, NoRun
<1>6. Ledger!Open(r, j, t)
  BY <1>1, <1>3, <1>4, <1>5 DEF Ledger!Open, OpensRow, Untouched
<1> QED
  BY <1>1, <1>6 DEF Ledger!LedgerNext

LEMMA BeginsLedger ==
    ASSUME PlatformInv, NEW r \in RunIds, BeginsRow(r) PROVE Ledger!LedgerNext
<1>1. Phase(r) = "open" /\ Phase(r)' = "begun" /\ \A q \in RunIds : q # r => Phase(q)' = Phase(q)
  BY DEF BeginsRow, Phase, Untouched
<1>2. run[r].job \in Gated => run[r].claimable # Null
  BY DEF BeginsRow, PlatformInv, SafetyInv, RunLife, IsGated
<1>3. \A q \in RunIds : /\ run'[q].job = run[q].job /\ run'[q].tick = run[q].tick
                        /\ run'[q].claimable = run[q].claimable
  BY DEF BeginsRow, Untouched, SameIdentity
<1>4. Ledger!Begin(r)
  BY <1>1, <1>2, <1>3 DEF Ledger!Begin
<1> QED
  BY <1>4 DEF Ledger!LedgerNext

LEMMA ApprovesLedger ==
    ASSUME PlatformInv, NEW r \in RunIds, ApprovesRow(r) PROVE Ledger!LedgerNext
<1>1. Phase(r) # "unopened" /\ \A q \in RunIds : Phase(q)' = Phase(q)
  BY DEF ApprovesRow, Phase, Untouched
<1>2. \A q \in RunIds : run'[q].job = run[q].job /\ run'[q].tick = run[q].tick
  BY DEF ApprovesRow, Untouched, SameIdentity
<1>3. {q \in RunIds : run'[q].claimable # Null} = {q \in RunIds : run[q].claimable # Null} \cup {r}
  BY DEF ApprovesRow, Untouched
<1>4. Ledger!Approve(r)
  BY <1>1, <1>2, <1>3 DEF Ledger!Approve, ApprovesRow, IsGated
<1> QED
  BY <1>4 DEF Ledger!LedgerNext

LEMMA ClosesLedger ==
    ASSUME PlatformInv, ClosesRows PROVE Ledger!LedgerNext
<1> DEFINE S == {r \in RunIds : Phase(r) \in {"open", "begun"} /\ ClosesRow(r)}
<1>1. ASSUME NEW r \in RunIds PROVE Phase(r)' = IF r \in S THEN "closed" ELSE Phase(r)
  <2>1. CASE ClosesRow(r)
    BY <2>1 DEF ClosesRow, Phase, Terminal
  <2>2. CASE Untouched(r)
    <3>1. ~ ClosesRow(r) \/ Phase(r) = "closed"
      BY <2>2 DEF Untouched, ClosesRow, Phase, Terminal
    <3> QED
      BY <2>2, <3>1 DEF Untouched, Phase
  <2> QED
    BY <2>1, <2>2 DEF ClosesRows
<1>2. \A q \in RunIds : /\ run'[q].job = run[q].job /\ run'[q].tick = run[q].tick
                        /\ run'[q].claimable = run[q].claimable
  BY DEF ClosesRows, ClosesRow, Untouched, SameIdentity
<1>3. \A r \in S : r \in RunIds /\ Phase(r) \in {"open", "begun"}
  OBVIOUS
<1> HIDE DEF S
<1>4. Ledger!Close(S)
  BY <1>1, <1>2, <1>3 DEF Ledger!Close
<1>5. S \in SUBSET RunIds
  BY <1>3
<1> QED
  BY <1>4, <1>5 DEF Ledger!LedgerNext

\* The worker's scheduler and poll loop, the administrator's requests and the
\* finance handshake together are an implementation of the ledger.
THEOREM PlatformImplementsLedger == Spec => ImplementsLedger
<1>1. Init => Ledger!LedgerInit
  BY DEF Init, StoreInit, NoRun, Phase, Ledger!LedgerInit
<1>2. PlatformInv /\ [Next]_vars => [Ledger!LedgerNext]_(Ledger!ledgerVars)
  BY PlatformStep, OpensLedger, BeginsLedger, ApprovesLedger, ClosesLedger DEF RowStep
<1> QED
  BY <1>1, <1>2, PlatformSafe, PTL DEF Spec, ImplementsLedger, Ledger!LedgerSpec
=============================================================================
