------------------------- MODULE JobPlatformProofs -------------------------
(***************************************************************************)
(* Theorems about JobPlatform for every value of its constants.            *)
(***************************************************************************)
EXTENDS JobPlatform, TLAPS

-----------------------------------------------------------------------------
(* What one statement does to the tables *)

\* A run's columns that no statement changes once the row exists.
SameIdentity(r) ==
    /\ run'[r].job = run[r].job
    /\ run'[r].trigger = run[r].trigger
    /\ run'[r].tick = run[r].tick
    /\ run'[r].created = run[r].created

LEMMA InsertRunRow ==
    ASSUME run \in [RunIds -> RunRow], clock \in Time, NEW r \in RunIds, NEW j \in Jobs,
           NEW st \in Statuses, NEW trg \in {"schedule", "manual"},
           NEW t \in OrNull(Ticks),
           InsertRun(r, j, st, trg, t)
    PROVE  /\ run' \in [RunIds -> RunRow]
           /\ \A q \in RunIds : q # r => run'[q] = run[q]
           /\ run'[r].status = st /\ run'[r].job = j /\ run'[r].tick = t
           /\ run'[r].claimable = Null /\ run'[r].error = Null
<1> DEFINE new == [NoRun EXCEPT !.job = j, !.status = st, !.trigger = trg,
                                !.tick = t, !.created = clock]
<1>1. new \in RunRow
  BY DEF NoRun, RunRow, OrNull
<1>2. new.status = st /\ new.job = j /\ new.tick = t /\ new.claimable = Null /\ new.error = Null
  BY DEF NoRun
<1>3. run' = [run EXCEPT ![r] = new]
  BY DEF InsertRun
<1> HIDE DEF new
<1>4. run'[r] = new /\ run' \in [RunIds -> RunRow] /\ \A q \in RunIds : q # r => run'[q] = run[q]
  BY <1>1, <1>3
<1> QED
  BY <1>2, <1>4 DEF new

LEMMA CloseRunRow ==
    ASSUME run \in [RunIds -> RunRow], NEW r \in RunIds,
           NEW s \in Terminal, NEW e \in OrNull(Errors), CloseRun(r, s, e)
    PROVE  /\ run' \in [RunIds -> RunRow]
           /\ \A q \in RunIds : q # r => run'[q] = run[q]
           /\ SameIdentity(r)
           /\ run'[r].status = s
           /\ run'[r].started = run[r].started /\ run'[r].claimable = run[r].claimable
           /\ run'[r].error = IF e = Null THEN run[r].error ELSE e
<1> DEFINE err == IF e = Null THEN run[r].error ELSE e
           new == [run[r] EXCEPT !.status = s, !.error = err]
<1>1. run[r] \in RunRow /\ err \in OrNull(Errors) /\ s \in Statuses
  BY DEF RunRow, Statuses
<1> HIDE DEF err
<1>2. /\ new \in RunRow
      /\ new.job = run[r].job /\ new.trigger = run[r].trigger /\ new.tick = run[r].tick
      /\ new.created = run[r].created /\ new.started = run[r].started
      /\ new.claimable = run[r].claimable /\ new.status = s /\ new.error = err
  BY <1>1 DEF RunRow
<1>3. run' = [run EXCEPT ![r] = new]
  BY DEF CloseRun, err
<1> HIDE DEF new
<1>4. run'[r] = new /\ run' \in [RunIds -> RunRow] /\ \A q \in RunIds : q # r => run'[q] = run[q]
  BY <1>2, <1>3
<1> QED
  BY <1>2, <1>4 DEF SameIdentity, err

LEMMA StartRunRow ==
    ASSUME run \in [RunIds -> RunRow], starts \in [RunIds -> Nat], clock \in Time,
           NEW r \in RunIds, StartRun(r)
    PROVE  /\ run' \in [RunIds -> RunRow] /\ starts' \in [RunIds -> Nat]
           /\ \A q \in RunIds : q # r => run'[q] = run[q] /\ starts'[q] = starts[q]
           /\ SameIdentity(r)
           /\ run'[r].status = "running" /\ run'[r].started = clock
           /\ run'[r].claimable = run[r].claimable /\ run'[r].error = run[r].error
           /\ starts'[r] = starts[r] + 1
<1> DEFINE new == [run[r] EXCEPT !.status = "running", !.started = clock]
<1>1. run[r] \in RunRow
  OBVIOUS
<1>2. /\ new \in RunRow
      /\ new.job = run[r].job /\ new.trigger = run[r].trigger /\ new.tick = run[r].tick
      /\ new.created = run[r].created /\ new.started = clock
      /\ new.claimable = run[r].claimable /\ new.status = "running" /\ new.error = run[r].error
  BY <1>1 DEF RunRow, Statuses, Active, OrNull
<1>3. run' = [run EXCEPT ![r] = new] /\ starts' = [starts EXCEPT ![r] = starts[r] + 1]
  BY DEF StartRun
<1> HIDE DEF new
<1>4. run'[r] = new /\ run' \in [RunIds -> RunRow] /\ \A q \in RunIds : q # r => run'[q] = run[q]
  BY <1>2, <1>3
<1> QED
  BY <1>2, <1>3, <1>4 DEF SameIdentity

LEMMA ApproveRow ==
    ASSUME run \in [RunIds -> RunRow], clock \in Time, NEW r \in RunIds,
           run' = [run EXCEPT ![r] = [@ EXCEPT !.claimable = clock]]
    PROVE  /\ run' \in [RunIds -> RunRow]
           /\ \A q \in RunIds : q # r => run'[q] = run[q]
           /\ SameIdentity(r)
           /\ run'[r].status = run[r].status /\ run'[r].started = run[r].started
           /\ run'[r].claimable = clock /\ run'[r].error = run[r].error
<1> DEFINE new == [run[r] EXCEPT !.claimable = clock]
<1>1. run[r] \in RunRow
  OBVIOUS
<1>2. /\ new \in RunRow
      /\ new.job = run[r].job /\ new.trigger = run[r].trigger /\ new.tick = run[r].tick
      /\ new.created = run[r].created /\ new.started = run[r].started
      /\ new.claimable = clock /\ new.status = run[r].status /\ new.error = run[r].error
  BY <1>1 DEF RunRow, OrNull
<1>3. run' = [run EXCEPT ![r] = new]
  OBVIOUS
<1> HIDE DEF new
<1>4. run'[r] = new /\ run' \in [RunIds -> RunRow] /\ \A q \in RunIds : q # r => run'[q] = run[q]
  BY <1>2, <1>3
<1> QED
  BY <1>2, <1>4 DEF SameIdentity

LEMMA SetNextRunRow ==
    ASSUME job \in [Jobs -> OrNull(JobRow)], NEW j \in Jobs, Registered(j), NEW t \in Ticks,
           SetNextRun(j, t)
    PROVE  /\ job' \in [Jobs -> OrNull(JobRow)]
           /\ \A i \in Jobs : i # j => job'[i] = job[i]
           /\ job'[j] \in JobRow
<1> DEFINE new == [job[j] EXCEPT !.nextRun = t]
<1>1. job[j] \in JobRow
  BY DEF Registered, OrNull
<1>2. new \in JobRow
  BY <1>1 DEF JobRow, OrNull
<1>3. job' = [job EXCEPT ![j] = new]
  BY DEF SetNextRun
<1> QED
  BY <1>2, <1>3 DEF OrNull

-----------------------------------------------------------------------------
(* Type correctness with the references, one lemma per component.  Rows and  *)
(* registered jobs are never deleted, so a reference held by one component   *)
(* survives every step of another.                                           *)

RowsStay == \A r \in RunIds : run[r].status # "absent" => run'[r].status # "absent"
JobsStay == \A j \in Jobs : Registered(j) => job'[j] # Null

TypeInv == TypeOK /\ ReferencesHold

Kept == StoreTypeOK' /\ QueueRefs' /\ RowsStay /\ JobsStay

LEMMA UnchangedStore ==
    ASSUME StoreTypeOK, QueueRefs, UNCHANGED storeVars
    PROVE  Kept
BY DEF Kept, StoreTypeOK, QueueRefs, Committed, RowsStay, JobsStay, Registered, storeVars

LEMMA SnapshotOfJob ==
    ASSUME TypeInv, NEW j \in Jobs, Pending(j)
    PROVE  /\ NextPointer(j) \in Ticks
           /\ sch.snap[j] \in JobRow /\ sch.snap[j].nextRun \in OrNull(Ticks)
           /\ Registered(j)
BY ActivationAssumption
   DEF TypeInv, TypeOK, ReferencesHold, SchedulerRefs, SchedulerTypeOK, SchedulerState, Pending, NextPointer,
       Ticks, JobRow, OrNull

LEMMA PointerKept ==
    ASSUME TypeInv, NEW j \in Jobs, Registered(j), NEW t \in Ticks, SetNextRun(j, t),
           UNCHANGED <<clock, run, queue, faults, starts, reports>>
    PROVE  Kept
<1>1. job' \in [Jobs -> OrNull(JobRow)] /\ job'[j] # Null /\ \A i \in Jobs : i # j => job'[i] = job[i]
  <2>1. job \in [Jobs -> OrNull(JobRow)]
    BY DEF TypeInv, TypeOK, StoreTypeOK
  <2>2. Null \notin JobRow
    BY NullAssumption DEF JobRow
  <2> QED
    BY <2>1, <2>2, SetNextRunRow
<1> QED
  BY <1>1 DEF Kept, TypeInv, TypeOK, ReferencesHold, StoreTypeOK, QueueRefs, Committed, RowsStay,
     JobsStay, Registered

\* What a scheduler step owes: the store is kept and its own state well formed.
SchedulerOK == SchedulerTypeOK' /\ SchedulerRefs'

LEMMA EvaluatedOK ==
    ASSUME TypeInv, NEW j \in Jobs, Kept, sch' = Evaluated(j)
    PROVE  SchedulerOK
<1>1. /\ sch' \in SchedulerState
      /\ sch'.step = sch.step /\ sch'.current = sch.current /\ sch'.todo = sch.todo
      /\ \A i \in Jobs : sch'.snap[i] = IF i = j THEN Null ELSE sch.snap[i]
  BY DEF TypeInv, TypeOK, SchedulerTypeOK, SchedulerState, Evaluated, OrNull
<1> QED
  BY <1>1 DEF SchedulerOK, SchedulerTypeOK, SchedulerState, TypeInv, ReferencesHold, SchedulerRefs, Kept, RowsStay,
     JobsStay, Registered, Committed

LEMMA StepOK ==
    ASSUME TypeInv, Kept, NEW st \in Steps \ {"announce"}, GoTo(st)
    PROVE  SchedulerOK
<1>1. /\ sch' \in SchedulerState
      /\ sch'.step = st /\ sch'.current = sch.current /\ sch'.todo = sch.todo
      /\ sch'.snap = sch.snap
  <2>1. Rested \in SchedulerState /\ Rested.step = "idle" /\ Rested.current = sch.current
        /\ Rested.todo = sch.todo /\ Rested.snap = sch.snap
    <3>1. 0 \in Time /\ clock \in Time
      BY ConstantsAssumption DEF Time, TypeInv, TypeOK, StoreTypeOK
    <3>2. CASE sch.booted
      BY <3>1, <3>2 DEF Rested, TypeInv, TypeOK, SchedulerTypeOK, SchedulerState, Steps
    <3>3. CASE ~ sch.booted
      BY <3>1, <3>3 DEF Rested, TypeInv, TypeOK, SchedulerTypeOK, SchedulerState, Steps
    <3> QED
      BY <3>2, <3>3
  <2>2. CASE st = "idle"
    BY <2>1, <2>2 DEF GoTo
  <2>3. CASE st # "idle"
    BY <2>3 DEF GoTo, TypeInv, TypeOK, SchedulerTypeOK, SchedulerState
  <2> QED
    BY <2>2, <2>3
<1> QED
  BY <1>1 DEF SchedulerOK, SchedulerTypeOK, SchedulerState, TypeInv, ReferencesHold, SchedulerRefs, Kept, RowsStay,
     JobsStay, Registered, Committed

LEMMA VisitedOK ==
    ASSUME TypeInv, Kept, NEW r \in RunIds, Visited(r)
    PROVE  SchedulerOK
<1>1. /\ sch' \in SchedulerState
      /\ sch'.step = sch.step /\ sch'.current = sch.current
      /\ sch'.todo = sch.todo \ {r} /\ sch'.snap = sch.snap
  BY DEF TypeInv, TypeOK, SchedulerTypeOK, SchedulerState, Visited, OrNull
<1> QED
  BY <1>1 DEF SchedulerOK, SchedulerTypeOK, SchedulerState, TypeInv, ReferencesHold, SchedulerRefs, Kept, RowsStay,
     JobsStay, Registered, Committed

\* A statement that fails, or one that only touches the queue, keeps the store.
LEMMA FaultKept ==
    ASSUME TypeInv, Fault, UNCHANGED <<clock, job, run, starts, reports>>,
           queue' \subseteq queue \cup {r \in RunIds : Committed(r)}
    PROVE  Kept
BY ConstantsAssumption
   DEF Kept, TypeInv, TypeOK, ReferencesHold, StoreTypeOK, QueueRefs, Committed, RowsStay, JobsStay,
       Fault, Registered

LEMMA QueueKept ==
    ASSUME TypeInv, UNCHANGED <<clock, job, run, faults, starts, reports>>,
           queue' \subseteq queue \cup {r \in RunIds : Committed(r)}
    PROVE  Kept
BY DEF Kept, TypeInv, TypeOK, ReferencesHold, StoreTypeOK, QueueRefs, Committed, RowsStay, JobsStay,
       Registered

LEMMA EvaluationTypes ==
    ASSUME TypeInv, Evaluation PROVE Kept /\ SchedulerOK
<1>1. CASE Tick
  <2>1. Kept
    BY <1>1, UnchangedStore DEF Tick, TypeInv, TypeOK, ReferencesHold
  <2>2. /\ sch' \in SchedulerState
        /\ sch'.step = "evaluate" /\ sch'.todo = sch.todo
        /\ \A j \in Jobs : sch'.snap[j] # Null => Registered(j)
    <3>1. clock \in Time /\ sch.began \in Time
      BY DEF TypeInv, TypeOK, StoreTypeOK, SchedulerTypeOK, SchedulerState
    <3>2. PICK now \in sch.began .. clock :
              sch' = [sch EXCEPT !.step = "evaluate", !.now = now, !.began = clock,
                        !.snap = [j \in Jobs |->
                            IF Registered(j) /\ job[j].enabled THEN job[j] ELSE Null]]
      BY <1>1 DEF Tick
    <3>3. now \in Time
      BY <3>1, ConstantsAssumption DEF Time
    <3> QED
      BY <3>1, <3>2, <3>3
         DEF TypeInv, TypeOK, StoreTypeOK, SchedulerTypeOK, SchedulerState, Steps, OrNull, Registered
  <2> QED
    BY <2>1, <2>2 DEF SchedulerOK, SchedulerTypeOK, SchedulerState, TypeInv, ReferencesHold, SchedulerRefs, Kept,
       RowsStay, JobsStay, Registered, Committed
<1>2. CASE TickFails
  <2>1. Kept
    BY <1>2, FaultKept DEF TickFails
  <2>2. /\ sch' \in SchedulerState /\ sch'.step = "idle" /\ sch'.todo = sch.todo
        /\ sch'.snap = sch.snap
    BY <1>2 DEF TickFails, TypeInv, TypeOK, StoreTypeOK, SchedulerTypeOK, SchedulerState
  <2> QED
    BY <2>1, <2>2 DEF SchedulerOK, SchedulerTypeOK, TypeInv, ReferencesHold, SchedulerRefs, Kept,
       RowsStay, JobsStay, Registered, Committed
<1>3. CASE Announce
  <2>1. Committed(sch.current)
    BY <1>3 DEF Announce, TypeInv, ReferencesHold, SchedulerRefs
  <2>2. Kept
    BY <1>3, <2>1, FaultKept, QueueKept DEF Announce, Enqueue, NoFault, Committed
  <2>3. /\ sch' \in SchedulerState
        /\ sch'.step = "evaluate" /\ sch'.todo = sch.todo /\ sch'.snap = sch.snap
    BY <1>3 DEF Announce, TypeInv, TypeOK, SchedulerTypeOK, SchedulerState, Steps, OrNull
  <2> QED
    BY <2>2, <2>3 DEF SchedulerOK, SchedulerTypeOK, SchedulerState, TypeInv, ReferencesHold, SchedulerRefs, Kept,
       RowsStay, JobsStay, Registered, Committed
<1>4. CASE EvaluationDone
  BY <1>4, UnchangedStore, StepOK DEF EvaluationDone, Steps, TypeInv, TypeOK, ReferencesHold
<1>5. ASSUME NEW j \in Jobs, NotDue(j) PROVE Kept /\ SchedulerOK
  BY <1>5, UnchangedStore, EvaluatedOK DEF NotDue, TypeInv, TypeOK, ReferencesHold
<1>6. ASSUME NEW j \in Jobs, InitPointer(j) \/ FireConflict(j) PROVE Kept /\ SchedulerOK
  <2>1. Kept
    BY <1>6, SnapshotOfJob, PointerKept DEF InitPointer, FireConflict
  <2> QED
    BY <1>6, <2>1, EvaluatedOK DEF InitPointer, FireConflict
<1>7. ASSUME NEW j \in Jobs, EvaluateFails(j) PROVE Kept /\ SchedulerOK
  <2>1. Kept
    BY <1>7, FaultKept, QueueKept DEF EvaluateFails, NoFault
  <2> QED
    BY <1>7, <2>1, EvaluatedOK DEF EvaluateFails
<1>8. ASSUME NEW j \in Jobs, NEW r \in RunIds, Fire(j, r) PROVE Kept /\ SchedulerOK
  <2>1. /\ NextPointer(j) \in Ticks /\ sch.snap[j].nextRun \in Ticks /\ Registered(j)
        /\ job \in [Jobs -> OrNull(JobRow)] /\ run \in [RunIds -> RunRow] /\ clock \in Time
    BY <1>8, SnapshotOfJob DEF Fire, Due, OrNull, TypeInv, TypeOK, StoreTypeOK
  <2>2. /\ job' \in [Jobs -> OrNull(JobRow)] /\ job'[j] # Null
        /\ \A i \in Jobs : i # j => job'[i] = job[i]
    BY <1>8, <2>1, SetNextRunRow, NullAssumption DEF Fire
  <2>3. InitialStatus(j) \in Statuses /\ InitialStatus(j) # "absent" /\ sch.snap[j].nextRun \in OrNull(Ticks)
    BY <2>1 DEF InitialStatus, Statuses, Active, OrNull
  <2>4. /\ run' \in [RunIds -> RunRow] /\ run'[r].status # "absent"
        /\ \A q \in RunIds : q # r => run'[q] = run[q]
    <3>1. PICK t \in OrNull(Ticks) : t = sch.snap[j].nextRun
      BY <2>3
    <3>2. InsertRun(r, j, InitialStatus(j), "schedule", t)
      BY <1>8, <3>1 DEF Fire
    <3> QED
      BY <2>1, <2>3, <3>2, InsertRunRow
  <2>5. Kept
    BY <1>8, <2>2, <2>4 DEF Fire, Kept, TypeInv, TypeOK, ReferencesHold, StoreTypeOK, QueueRefs,
       Committed, RowsStay, JobsStay, Registered
  <2>6. /\ sch' \in SchedulerState
        /\ sch'.todo = sch.todo
        /\ sch'.step = "announce" => sch'.current = r
        /\ \A i \in Jobs : sch'.snap[i] = IF i = j THEN Null ELSE sch.snap[i]
    <3>1. Evaluated(j) \in SchedulerState
          /\ Evaluated(j).step = "evaluate" /\ Evaluated(j).todo = sch.todo
          /\ \A i \in Jobs : Evaluated(j).snap[i] = IF i = j THEN Null ELSE sch.snap[i]
      BY <1>8 DEF Fire, Pending, Evaluated, TypeInv, TypeOK, SchedulerTypeOK, SchedulerState, OrNull
    <3> QED
      BY <1>8, <3>1 DEF Fire, Steps, OrNull, SchedulerState
  <2> QED
    BY <2>4, <2>5, <2>6 DEF SchedulerOK, SchedulerTypeOK, SchedulerState, TypeInv, ReferencesHold, SchedulerRefs, Kept,
       RowsStay, JobsStay, Registered, Committed
<1> QED
  BY <1>1, <1>2, <1>3, <1>4, <1>5, <1>6, <1>7, <1>8 DEF Evaluation

\* A run closed by a statement keeps every reference to it.
LEMMA CloseKept ==
    ASSUME TypeInv, NEW r \in RunIds, NEW s \in Terminal, NEW e \in OrNull(Errors),
           CloseRun(r, s, e), reports' \in [RunIds -> Nat],
           UNCHANGED <<clock, job, queue, faults, starts>>
    PROVE  Kept
<1>1. s # "absent"
  BY DEF Terminal
<1>2. /\ run' \in [RunIds -> RunRow] /\ run'[r].status # "absent"
      /\ \A q \in RunIds : q # r => run'[q] = run[q]
  BY <1>1, CloseRunRow DEF TypeInv, TypeOK, StoreTypeOK
<1> QED
  BY <1>2 DEF Kept, TypeInv, TypeOK, ReferencesHold, StoreTypeOK, QueueRefs, Committed, RowsStay,
     JobsStay, Registered

LEMMA CloseStuckTypes ==
    ASSUME TypeInv, NEW st \in Steps, NEW from \in Statuses, NEW to \in Terminal,
           NEW reason \in Errors, NEW r \in RunIds, CloseStuck(st, from, to, reason, r)
    PROVE  Kept /\ SchedulerOK
<1>1. Kept
  <2>1. CASE Fault /\ UNCHANGED <<run, reports>>
    BY <2>1, FaultKept DEF CloseStuck
  <2>2. CASE NoFault /\ UNCHANGED <<run, reports>>
    BY <2>2, QueueKept DEF CloseStuck, NoFault
  <2>3. CASE NoFault /\ CloseRun(r, to, reason) /\ reports' = [reports EXCEPT ![r] = @ + 1]
    <3>1. reports' \in [RunIds -> Nat] /\ reason \in OrNull(Errors)
      BY <2>3 DEF TypeInv, TypeOK, StoreTypeOK, OrNull
    <3> QED
      BY <2>3, <3>1, CloseKept DEF CloseStuck, NoFault
  <2> QED
    BY <2>1, <2>2, <2>3 DEF CloseStuck
<1> QED
  BY <1>1, VisitedOK DEF CloseStuck

LEMMA MaintenanceTypes ==
    ASSUME TypeInv, Maintenance PROVE Kept /\ SchedulerOK
<1>1. ASSUME NEW st \in Steps, NEW found \in SUBSET RunIds, NEW visit \in Steps \ {"announce"},
             NEW next \in Steps \ {"announce"}, Query(st, found, visit, next),
             \A r \in found : Committed(r)
      PROVE  Kept /\ SchedulerOK
  <2>1. Kept
    BY <1>1, FaultKept, QueueKept DEF Query, NoFault
  <2>2. CASE GoTo(next)
    BY <2>1, <2>2, StepOK
  <2>3. CASE sch' = [sch EXCEPT !.step = visit, !.todo = found]
    <3>1. /\ sch' \in SchedulerState
          /\ sch'.step = visit /\ sch'.snap = sch.snap /\ sch'.todo = found
      BY <2>3 DEF TypeInv, TypeOK, SchedulerTypeOK, SchedulerState
    <3> QED
      BY <1>1, <2>1, <3>1 DEF SchedulerOK, SchedulerTypeOK, SchedulerState, TypeInv, ReferencesHold, SchedulerRefs,
         Kept, RowsStay, JobsStay, Registered, Committed
  <2> QED
    BY <1>1, <2>2, <2>3, <2>1 DEF Query
<1>2. CASE RedriveQuery \/ ReapQuery \/ ExpireQuery
  <2>1. /\ {"redrive", "redriving", "reap", "reapAck", "reaping", "expire", "expiring", "idle"}
               \subseteq Steps \ {"announce"}
    BY DEF Steps
  <2>2. CASE RedriveQuery
    <3> DEFINE found == {r \in RunIds : Stranded(r)}
    <3>1. found \in SUBSET RunIds /\ \A r \in found : Committed(r)
      BY DEF Stranded, Committed
    <3>2. PICK f \in SUBSET RunIds : f = found
      BY <3>1
    <3>3. Query("redrive", f, "redriving", "reap") /\ \A r \in f : Committed(r)
      BY <2>2, <3>1, <3>2 DEF RedriveQuery
    <3> QED
      BY <1>1, <2>1, <3>3
  <2>3. CASE ReapQuery
    <3> DEFINE found == {r \in RunIds : GatedOverrun(r)}
    <3>1. found \in SUBSET RunIds /\ \A r \in found : Committed(r)
      BY DEF GatedOverrun, Committed
    <3>2. PICK f \in SUBSET RunIds : f = found
      BY <3>1
    <3>3. Query("reapAck", f, "reaping", "expire") /\ \A r \in f : Committed(r)
      BY <2>3, <3>1, <3>2 DEF ReapQuery
    <3> QED
      BY <1>1, <2>1, <3>3
  <2>4. CASE ExpireQuery
    <3> DEFINE found == {r \in RunIds : Unapproved(r)}
    <3>1. found \in SUBSET RunIds /\ \A r \in found : Committed(r)
      BY DEF Unapproved, Committed
    <3>2. PICK f \in SUBSET RunIds : f = found
      BY <3>1
    <3>3. Query("expire", f, "expiring", "idle") /\ \A r \in f : Committed(r)
      BY <2>4, <3>1, <3>2 DEF ExpireQuery
    <3> QED
      BY <1>1, <2>1, <3>3
  <2> QED
    BY <1>2, <2>2, <2>3, <2>4
<1>3. CASE Reap
  <2>1. Kept
    <3>1. CASE Fault /\ UNCHANGED run
      BY <1>3, <3>1, FaultKept DEF Reap
    <3>2. CASE NoFault /\ run' = [r \in RunIds |->
                 IF Overrun(r)
                 THEN [run[r] EXCEPT !.status = "failed", !.error = "reaped"] ELSE run[r]]
      <4>1. \A r \in RunIds :
               LET new == [run[r] EXCEPT !.status = "failed", !.error = "reaped"]
               IN new \in RunRow /\ new.status = "failed"
        BY DEF TypeInv, TypeOK, StoreTypeOK, RunRow, Statuses, Terminal, OrNull, Errors
      <4>2. run' \in [RunIds -> RunRow] /\ RowsStay
        BY <3>2, <4>1 DEF TypeInv, TypeOK, StoreTypeOK, RowsStay
      <4> QED
        BY <1>3, <3>2, <4>2 DEF Reap, NoFault, Kept, TypeInv, TypeOK, ReferencesHold, StoreTypeOK,
           QueueRefs, Committed, RowsStay, JobsStay, Registered
    <3> QED
      BY <1>3, <3>1, <3>2 DEF Reap
  <2> QED
    BY <1>3, <2>1, StepOK DEF Reap, Steps
<1>4. CASE SweepDone
  <2>1. PICK st \in {"reap", "expire", "idle"} : GoTo(st)
    BY <1>4 DEF SweepDone
  <2> QED
    BY <1>4, <2>1, UnchangedStore, StepOK DEF SweepDone, Steps, TypeInv, TypeOK, ReferencesHold
<1>5. ASSUME NEW r \in RunIds, Redrive(r) PROVE Kept /\ SchedulerOK
  <2>1. Committed(r)
    BY <1>5 DEF Redrive, TypeInv, ReferencesHold, SchedulerRefs
  <2>2. Kept
    BY <1>5, <2>1, FaultKept, QueueKept DEF Redrive, Enqueue, NoFault
  <2> QED
    BY <1>5, <2>2, VisitedOK DEF Redrive
<1>6. ASSUME NEW r \in RunIds, ReapGated(r) \/ Expire(r) PROVE Kept /\ SchedulerOK
  BY <1>6, CloseStuckTypes DEF ReapGated, Expire, Steps, Statuses, Active, Terminal, Errors
<1> QED
  BY <1>2, <1>3, <1>4, <1>5, <1>6 DEF Maintenance

LEMMA StartKept ==
    ASSUME TypeInv, NEW r \in RunIds, StartRun(r), UNCHANGED <<clock, job, queue, faults, reports>>
    PROVE  Kept
<1>1. /\ run' \in [RunIds -> RunRow] /\ run'[r].status # "absent" /\ starts' \in [RunIds -> Nat]
      /\ \A q \in RunIds : q # r => run'[q] = run[q]
  BY StartRunRow DEF TypeInv, TypeOK, StoreTypeOK
<1> QED
  BY <1>1 DEF Kept, TypeInv, TypeOK, ReferencesHold, StoreTypeOK, QueueRefs, Committed, RowsStay,
     JobsStay, Registered

LEMMA WorkerTypes ==
    ASSUME TypeInv, WorkerNext PROVE Kept /\ WorkerTypeOK' /\ WorkerRefs'
<1> USE DEF TypeInv, TypeOK, ReferencesHold
<1>1. ASSUME NEW batch \in SUBSET RunIds, Receive(batch)
      PROVE  Kept /\ WorkerTypeOK' /\ WorkerRefs'
  <2>1. Kept
    BY <1>1, UnchangedStore DEF Receive
  <2> QED
    BY <1>1, <2>1 DEF Receive, WorkerTypeOK, WorkerRefs, QueueRefs, Kept, RowsStay, Committed, OrNull
<1>2. ASSUME NEW r \in RunIds, NextMessage(r), Kept PROVE WorkerTypeOK' /\ WorkerRefs'
  BY <1>2 DEF NextMessage, WorkerTypeOK, WorkerRefs, Kept, RowsStay, Committed, OrNull
<1>3. ASSUME NEW r \in RunIds, Kept, r \in wrk.inbox, NEW st \in {"handle", "ack"},
             wrk' = [wrk EXCEPT !.step = st, !.msg = r]
      PROVE  WorkerTypeOK' /\ WorkerRefs'
  BY <1>3 DEF WorkerTypeOK, WorkerRefs, Kept, RowsStay, Committed, OrNull
<1>4. ASSUME NEW r \in RunIds, Claim(r) PROVE Kept /\ WorkerTypeOK' /\ WorkerRefs'
  <2>1. Kept
    BY <1>4, StartKept DEF Claim
  <2> QED
    BY <1>3, <1>4, <2>1 DEF Claim, Received
<1>5. ASSUME NEW r \in RunIds, NotClaimed(r) PROVE Kept /\ WorkerTypeOK' /\ WorkerRefs'
  <2>1. Kept
    BY <1>5, UnchangedStore DEF NotClaimed
  <2> QED
    BY <1>3, <1>5, <2>1 DEF NotClaimed, Received
<1>6. ASSUME NEW r \in RunIds, ClaimFails(r) PROVE Kept /\ WorkerTypeOK' /\ WorkerRefs'
  <2>1. Kept
    BY <1>6, FaultKept DEF ClaimFails
  <2> QED
    BY <1>2, <1>6, <2>1 DEF ClaimFails
<1>7. ASSUME NEW outcome \in {"succeeded", "failed"}, Finish(outcome)
      PROVE  Kept /\ WorkerTypeOK' /\ WorkerRefs'
  <2>1. PICK r \in RunIds : r = wrk.msg
    BY <1>7 DEF Finish, WorkerRefs, Committed
  <2>2. PICK e \in OrNull(Errors) : e = IF outcome = "failed" THEN "handler" ELSE Null
    BY DEF Errors, OrNull
  <2>3. ASSUME NoFault, CloseRun(r, outcome, e) PROVE Kept
    BY <1>7, <2>3, CloseKept DEF Finish, NoFault, Terminal, StoreTypeOK
  <2>4. ASSUME Fault, UNCHANGED run PROVE Kept
    BY <1>7, <2>4, FaultKept DEF Finish
  <2>5. Kept
    BY <1>7, <2>1, <2>2, <2>3, <2>4 DEF Finish
  <2> QED
    BY <1>7, <2>5 DEF Finish, WorkerTypeOK, WorkerRefs, Kept, RowsStay, Committed
<1>8. CASE Ack
  <2>1. PICK r \in RunIds : r = wrk.msg
    BY <1>8 DEF Ack, WorkerRefs, Committed
  <2>2. Kept
    BY <1>8, QueueKept DEF Ack, DeleteMessage
  <2>3. NextMessage(r)
    BY <1>8, <2>1 DEF Ack
  <2> QED
    BY <1>2, <2>2, <2>3
<1> QED
  BY <1>1, <1>4, <1>5, <1>6, <1>7, <1>8 DEF WorkerNext

LEMMA InsertKept ==
    ASSUME TypeInv, NEW r \in RunIds, NEW j \in Jobs, NEW st \in Statuses \ {"absent"},
           NEW trg \in {"schedule", "manual"}, NEW t \in OrNull(Ticks),
           InsertRun(r, j, st, trg, t), UNCHANGED <<clock, job, queue, faults, starts, reports>>
    PROVE  Kept /\ run'[r].status # "absent"
<1>1. /\ run' \in [RunIds -> RunRow] /\ run'[r].status # "absent"
      /\ \A q \in RunIds : q # r => run'[q] = run[q]
  BY InsertRunRow DEF TypeInv, TypeOK, StoreTypeOK
<1> QED
  BY <1>1 DEF Kept, TypeInv, TypeOK, ReferencesHold, StoreTypeOK, QueueRefs, Committed, RowsStay,
     JobsStay, Registered

AdminOK == AdminTypeOK' /\ AdminRefs'

\* A request that ends, or that another component's step leaves as it was.
LEMMA RespondOK ==
    ASSUME TypeInv, Kept, NEW s \in Slots, Respond(s)
    PROVE  AdminOK
<1>1. NoRequest \in [step : {"idle", "insert", "enqueue", "markFailed", "write"},
                    job : OrNull(Jobs), run : OrNull(RunIds),
                    enabled : OrNull(BOOLEAN), schedule : OrNull(Schedules),
                    row : OrNull(JobRow), at : Time]
      /\ NoRequest.step = "idle"
  BY ConstantsAssumption DEF NoRequest, RequestTo, OrNull, Time
<1>2. adm' = [adm EXCEPT ![s] = NoRequest] /\ asked' = asked
  BY DEF Respond
<1>3. AdminTypeOK'
  BY <1>1, <1>2 DEF TypeInv, TypeOK, AdminTypeOK
<1>4. AdminRefs'
  BY <1>1, <1>2 DEF TypeInv, TypeOK, AdminTypeOK, ReferencesHold, AdminRefs, Kept, RowsStay, JobsStay,
     Registered, Committed
<1> QED
  BY <1>3, <1>4 DEF AdminOK

\* A request that moves on to a step about a run that exists.
LEMMA MoveOnOK ==
    ASSUME TypeInv, Kept, NEW s \in Slots, NEW st \in {"enqueue", "markFailed"}, NEW r \in RunIds,
           run'[r].status # "absent",
           MoveOn(s, st, r)
    PROVE  AdminOK
<1> DEFINE new == [adm[s] EXCEPT !.step = st, !.run = r]
<1>1. new \in [step : {"idle", "insert", "enqueue", "markFailed", "write"},
                    job : OrNull(Jobs), run : OrNull(RunIds),
                    enabled : OrNull(BOOLEAN), schedule : OrNull(Schedules),
                    row : OrNull(JobRow), at : Time]
      /\ new.step = st /\ new.run = r
  BY DEF TypeInv, TypeOK, AdminTypeOK, OrNull
<1>2. adm' = [adm EXCEPT ![s] = new] /\ UNCHANGED asked
  BY DEF MoveOn
<1> HIDE DEF new
<1>3. AdminTypeOK'
  BY <1>1, <1>2 DEF TypeInv, TypeOK, AdminTypeOK
<1>4. AdminRefs'
  BY <1>1, <1>2 DEF TypeInv, TypeOK, AdminTypeOK, ReferencesHold, AdminRefs, Kept, RowsStay, JobsStay,
     Registered, Committed
<1> QED
  BY <1>3, <1>4 DEF AdminOK

\* A request the API accepts.
LEMMA AcceptOK ==
    ASSUME TypeInv, NEW s \in Slots, NEW st \in {"insert", "write"}, NEW j \in Jobs, Registered(j),
           NEW enabled \in OrNull(BOOLEAN), NEW sched \in OrNull(Schedules),
           NEW row \in OrNull(JobRow), st = "write" => row # Null, NEW at \in Time,
           Accept(s, RequestTo(st, j, enabled, sched, row, at))
    PROVE  Kept /\ AdminOK
<1> DEFINE new == RequestTo(st, j, enabled, sched, row, at)
<1>1. new \in [step : {"idle", "insert", "enqueue", "markFailed", "write"},
                    job : OrNull(Jobs), run : OrNull(RunIds),
                    enabled : OrNull(BOOLEAN), schedule : OrNull(Schedules),
                    row : OrNull(JobRow), at : Time]
      /\ new.step = st /\ new.job = j /\ new.row = row
  BY DEF RequestTo, OrNull
<1>2. adm' = [adm EXCEPT ![s] = new] /\ Request /\ UNCHANGED storeVars
  BY DEF Accept
<1> HIDE DEF new
<1>3. Kept
  BY <1>2, UnchangedStore DEF TypeInv, TypeOK, ReferencesHold
<1>4. AdminTypeOK'
  BY <1>1, <1>2, RequestsAssumption DEF TypeInv, TypeOK, AdminTypeOK, Request
<1>5. AdminRefs'
  BY <1>1, <1>2, <1>3 DEF TypeInv, TypeOK, AdminTypeOK, ReferencesHold, AdminRefs, Kept, RowsStay,
     JobsStay, Registered, Committed, storeVars
<1> QED
  BY <1>3, <1>4, <1>5 DEF AdminOK

LEMMA PatchedRow ==
    ASSUME TypeInv, NEW s \in Slots, UpdateJobWrite(s)
    PROVE  Kept
<1>1. PICK j \in Jobs : j = adm[s].job
  BY DEF UpdateJobWrite, TypeInv, ReferencesHold, AdminRefs
<1>2. PICK now \in adm[s].at .. clock :
         job' = [job EXCEPT ![j] = [enabled  |-> Given(adm[s].enabled, job[j].enabled),
                                    schedule |-> Given(adm[s].schedule, job[j].schedule),
                                    nextRun  |-> PatchedNextRun(adm[s], job[j].nextRun, now)]]
  BY <1>1 DEF UpdateJobWrite
<1>3. /\ adm[s].row \in JobRow /\ job[j] \in JobRow
      /\ adm[s].enabled \in OrNull(BOOLEAN) /\ adm[s].schedule \in OrNull(Schedules)
      /\ now \in Time
  <2>1. /\ adm[s].step = "write" /\ adm[s].row # Null /\ job[j] # Null
        /\ adm[s].row \in OrNull(JobRow) /\ job[j] \in OrNull(JobRow)
        /\ adm[s].enabled \in OrNull(BOOLEAN) /\ adm[s].schedule \in OrNull(Schedules)
        /\ adm[s].at \in Time /\ clock \in Time
    BY <1>1 DEF UpdateJobWrite, TypeInv, TypeOK, StoreTypeOK, AdminTypeOK, ReferencesHold, AdminRefs,
       Registered
  <2>2. now \in Time
    BY <2>1, ConstantsAssumption DEF Time
  <2> QED
    BY <2>1, <2>2 DEF OrNull
<1>4. /\ Given(adm[s].enabled, job[j].enabled) \in BOOLEAN
      /\ Given(adm[s].schedule, job[j].schedule) \in Schedules
  BY <1>3 DEF Given, OrNull, JobRow
<1>5. PatchedNextRun(adm[s], job[j].nextRun, now) \in OrNull(Ticks)
  <2>1. FinalSchedule(adm[s]) \in Schedules /\ job[j].nextRun \in OrNull(Ticks)
    BY <1>3 DEF FinalSchedule, Given, OrNull, JobRow
  <2>2. Activation[FinalSchedule(adm[s])][now] \in Ticks
    BY <1>3, <2>1 DEF Ticks
  <2> QED
    BY <2>1, <2>2 DEF PatchedNextRun, OrNull
<1> DEFINE new == [enabled  |-> Given(adm[s].enabled, job[j].enabled),
                   schedule |-> Given(adm[s].schedule, job[j].schedule),
                   nextRun  |-> PatchedNextRun(adm[s], job[j].nextRun, now)]
<1>6. new \in JobRow
  BY <1>4, <1>5 DEF JobRow
<1>7. job' = [job EXCEPT ![j] = new]
  BY <1>2
<1> HIDE DEF new
<1>8. /\ job' \in [Jobs -> OrNull(JobRow)] /\ job'[j] # Null
      /\ \A i \in Jobs : i # j => job'[i] = job[i]
  BY <1>6, <1>7, NullAssumption DEF TypeInv, TypeOK, StoreTypeOK, OrNull
<1> QED
  BY <1>8 DEF UpdateJobWrite, Kept, TypeInv, TypeOK, ReferencesHold, StoreTypeOK, QueueRefs, Committed,
     RowsStay, JobsStay, Registered

LEMMA AdminTypes ==
    ASSUME TypeInv, AdminNext PROVE Kept /\ AdminOK
<1>1. ASSUME NEW j \in Jobs, NEW sched \in Schedules, NEW enabled \in BOOLEAN,
             CreateJob(j, sched, enabled)
      PROVE  Kept /\ AdminOK
  <2> DEFINE new == [enabled |-> enabled, schedule |-> sched,
                     nextRun |-> IF enabled THEN Activation[sched][clock] ELSE Null]
  <2>1. new \in JobRow
    BY DEF JobRow, OrNull, Ticks, TypeInv, TypeOK, StoreTypeOK
  <2>2. job' = [job EXCEPT ![j] = new] /\ Request /\ adm' = adm
    BY <1>1 DEF CreateJob
  <2> HIDE DEF new
  <2>3. /\ job' \in [Jobs -> OrNull(JobRow)] /\ job'[j] # Null
        /\ \A i \in Jobs : i # j => job'[i] = job[i]
    BY <2>1, <2>2, NullAssumption DEF TypeInv, TypeOK, StoreTypeOK, OrNull
  <2>4. Kept
    BY <1>1, <2>3 DEF CreateJob, Kept, TypeInv, TypeOK, ReferencesHold, StoreTypeOK, QueueRefs,
       Committed, RowsStay, JobsStay, Registered
  <2> QED
    BY <2>2, <2>4, RequestsAssumption DEF Request, AdminOK, TypeInv, TypeOK, ReferencesHold,
       AdminTypeOK, AdminRefs, Kept, RowsStay, JobsStay, Registered, Committed
<1>2. ASSUME NEW s \in Slots, UpdateJobWrite(s) PROVE Kept /\ AdminOK
  BY <1>2, PatchedRow, RespondOK DEF UpdateJobWrite
<1>3. ASSUME NEW s \in Slots, NEW r \in RunIds, StartRunInsert(s, r) PROVE Kept /\ AdminOK
  <2>1. PICK j \in Jobs : j = adm[s].job
    BY <1>3 DEF StartRunInsert, TypeInv, ReferencesHold, AdminRefs
  <2>2. Null \in OrNull(Ticks) /\ {"awaiting_ack", "queued"} \subseteq Statuses \ {"absent"}
    BY DEF OrNull, Statuses, Active
  <2>3. CASE j \in Gated
    BY <1>3, <2>1, <2>2, <2>3, InsertKept, RespondOK DEF StartRunInsert
  <2>4. CASE j \notin Gated
    BY <1>3, <2>1, <2>2, <2>4, InsertKept, MoveOnOK DEF StartRunInsert
  <2> QED
    BY <2>3, <2>4
<1>4. ASSUME NEW s \in Slots, StartRunNoRow(s) PROVE Kept /\ AdminOK
  BY <1>4, UnchangedStore, RespondOK DEF StartRunNoRow, TypeInv, TypeOK, ReferencesHold
<1>5. ASSUME NEW s \in Slots, StartRunEnqueue(s) PROVE Kept /\ AdminOK
  <2>1. PICK r \in RunIds : r = adm[s].run /\ Committed(r)
    BY <1>5 DEF StartRunEnqueue, TypeInv, ReferencesHold, AdminRefs, Committed
  <2>2. Kept /\ run' = run
    BY <1>5, <2>1, FaultKept, QueueKept DEF StartRunEnqueue, Enqueue, NoFault
  <2>3. CASE Respond(s)
    BY <2>2, <2>3, RespondOK
  <2>4. CASE MoveOn(s, "markFailed", r)
    BY <2>1, <2>2, <2>4, MoveOnOK DEF Committed
  <2> QED
    BY <1>5, <2>1, <2>3, <2>4 DEF StartRunEnqueue
<1>6. ASSUME NEW s \in Slots, StartRunMarkFailed(s) PROVE Kept /\ AdminOK
  <2>1. PICK r \in RunIds : r = adm[s].run
    BY <1>6 DEF StartRunMarkFailed, TypeInv, ReferencesHold, AdminRefs, Committed
  <2>2. ASSUME NoFault, CloseRun(r, "failed", "enqueue") PROVE Kept
    BY <1>6, <2>2, CloseKept DEF StartRunMarkFailed, NoFault, Terminal, Errors, OrNull, TypeInv,
       TypeOK, StoreTypeOK
  <2>3. ASSUME Fault, UNCHANGED run PROVE Kept
    BY <1>6, <2>3, FaultKept DEF StartRunMarkFailed
  <2>4. Kept
    BY <1>6, <2>1, <2>2, <2>3 DEF StartRunMarkFailed
  <2> QED
    BY <1>6, <2>4, RespondOK DEF StartRunMarkFailed
<1>7. ASSUME NEW s \in Slots, RequestFails(s) PROVE Kept /\ AdminOK
  BY <1>7, FaultKept, RespondOK DEF RequestFails
<1>8. ASSUME NEW s \in Slots, NEW j \in Jobs, StartRunCheck(s, j) PROVE Kept /\ AdminOK
  <2>1. 0 \in Time /\ Registered(j) /\ Null \in OrNull(JobRow)
    BY <1>8, ConstantsAssumption DEF Time, StartRunCheck, Startable, OrNull
  <2>2. Accept(s, RequestTo("insert", j, Null, Null, Null, 0))
    BY <1>8 DEF StartRunCheck
  <2> QED
    BY <2>1, <2>2, AcceptOK DEF OrNull
<1>9. ASSUME NEW s \in Slots, NEW j \in Jobs, NEW enabled \in OrNull(BOOLEAN),
             NEW sched \in OrNull(Schedules), UpdateJobRead(s, j, enabled, sched)
      PROVE  Kept /\ AdminOK
  <2>1. PICK row \in OrNull(JobRow) : row = job[j]
    BY DEF TypeInv, TypeOK, StoreTypeOK
  <2>2. PICK at \in Time : at = clock
    BY DEF TypeInv, TypeOK, StoreTypeOK
  <2>3. Accept(s, RequestTo("write", j, enabled, sched, row, at))
    BY <1>9, <2>1, <2>2 DEF UpdateJobRead
  <2>4. Registered(j) /\ row # Null
    BY <1>9, <2>1 DEF UpdateJobRead, Registered
  <2> QED
    BY <2>3, <2>4, AcceptOK
<1> QED
  BY <1>1, <1>2, <1>3, <1>4, <1>5, <1>6, <1>7, <1>8, <1>9 DEF AdminNext, AdminContinue

FinanceOK == FinanceTypeOK' /\ FinanceRefs'

LEMMA ReturnOK ==
    ASSUME TypeInv, Kept, NEW c \in Callers, Return(c)
    PROVE  FinanceOK
<1>1. NoCall \in [step : {"idle", "approve", "lease", "close"}, run : OrNull(RunIds),
                 target : OrNull({"succeeded", "failed"})] /\ NoCall.step = "idle"
  BY DEF NoCall, OrNull
<1>2. fin' = [fin EXCEPT ![c] = NoCall]
  BY DEF Return
<1> QED
  BY <1>1, <1>2 DEF FinanceOK, TypeInv, TypeOK, FinanceTypeOK, ReferencesHold, FinanceRefs, Kept,
     RowsStay, Committed

LEMMA CallOK ==
    ASSUME TypeInv, NEW c \in Callers, NEW st \in {"approve", "lease", "close"}, NEW r \in RunIds,
           NEW target \in OrNull({"succeeded", "failed"}), st = "close" => target # Null,
           run[r].status # "absent", Call(c, st, r, target)
    PROVE  Kept /\ FinanceOK
<1>1. Kept
  BY UnchangedStore DEF Call, TypeInv, TypeOK, ReferencesHold
<1>2. fin' = [fin EXCEPT ![c] = [step |-> st, run |-> r, target |-> target]]
  BY DEF Call
<1> QED
  BY <1>1, <1>2 DEF FinanceOK, TypeInv, TypeOK, FinanceTypeOK, ReferencesHold, FinanceRefs, Kept,
     RowsStay, Committed, OrNull

LEMMA FinanceTypes ==
    ASSUME TypeInv, FinanceNext PROVE Kept /\ FinanceOK
<1>1. ASSUME NEW c \in Callers, fin[c].step # "idle" PROVE fin[c].run \in RunIds
  BY <1>1 DEF TypeInv, ReferencesHold, FinanceRefs, Committed
<1>2. ASSUME NEW c \in Callers, Approve(c) PROVE Kept /\ FinanceOK
  <2>1. PICK r \in RunIds : r = fin[c].run
    BY <1>1, <1>2 DEF Approve
  <2>2. run' = [run EXCEPT ![r] = [@ EXCEPT !.claimable = clock]]
    BY <1>2, <2>1 DEF Approve
  <2>3. /\ run' \in [RunIds -> RunRow] /\ run'[r].status = run[r].status
        /\ \A q \in RunIds : q # r => run'[q] = run[q]
    BY <2>2, ApproveRow DEF TypeInv, TypeOK, StoreTypeOK
  <2>4. Kept
    BY <1>2, <2>3 DEF Approve, Kept, TypeInv, TypeOK, ReferencesHold, StoreTypeOK, QueueRefs,
       Committed, RowsStay, JobsStay, Registered
  <2> QED
    BY <1>2, <2>4, ReturnOK DEF Approve
<1>3. ASSUME NEW c \in Callers, Lease(c) PROVE Kept /\ FinanceOK
  <2>1. PICK r \in RunIds : r = fin[c].run
    BY <1>1, <1>3 DEF Lease
  <2>2. ASSUME StartRun(r) PROVE Kept
    BY <1>3, <2>2, StartKept DEF Lease
  <2>3. ASSUME UNCHANGED <<run, starts>> PROVE Kept
    BY <1>3, <2>3, QueueKept DEF Lease
  <2>4. Kept
    BY <1>3, <2>1, <2>2, <2>3 DEF Lease
  <2> QED
    BY <1>3, <2>4, ReturnOK DEF Lease
<1>4. ASSUME NEW c \in Callers, Complete(c) PROVE Kept /\ FinanceOK
  <2>1. PICK r \in RunIds : r = fin[c].run
    BY <1>1, <1>4 DEF Complete
  <2>2. PICK target \in Terminal : target = fin[c].target
    BY <1>4 DEF Complete, TypeInv, TypeOK, FinanceTypeOK, ReferencesHold, FinanceRefs, OrNull, Terminal
  <2>3. \E s \in Terminal, e \in OrNull(Errors) : CloseRun(r, s, e)
    BY <1>4, <2>1, <2>2 DEF Complete, Errors, Terminal, OrNull
  <2>4. reports' \in [RunIds -> Nat]
    BY <1>4, <2>1 DEF Complete, TypeInv, TypeOK, StoreTypeOK
  <2>5. Kept
    BY <1>4, <2>3, <2>4, CloseKept DEF Complete
  <2> QED
    BY <1>4, <2>5, ReturnOK DEF Complete
<1>5. ASSUME NEW c \in Callers, CallFails(c) PROVE Kept /\ FinanceOK
  BY <1>5, FaultKept, ReturnOK DEF CallFails
<1>6. ASSUME NEW c \in Callers, NEW r \in RunIds, AckRead(c, r) \/ ClaimPick(c, r)
      PROVE  Kept /\ FinanceOK
  BY <1>6, CallOK DEF AckRead, ClaimPick, Approved, OrNull
<1>7. ASSUME NEW c \in Callers, NEW r \in RunIds, NEW target \in {"succeeded", "failed"},
             CompleteRead(c, r, target)
      PROVE  Kept /\ FinanceOK
  <2>1. target # Null
    BY NullAssumption DEF Terminal
  <2> QED
    BY <1>7, <2>1, CallOK DEF CompleteRead, Completable, OrNull
<1> QED
  BY <1>2, <1>3, <1>4, <1>5, <1>6, <1>7 DEF FinanceNext, FinanceContinue

-----------------------------------------------------------------------------
(* The components together *)

\* A component whose own variable does not change keeps its type and references.
LEMMA OthersKept ==
    ASSUME TypeInv, Kept
    PROVE  /\ UNCHANGED sch => SchedulerTypeOK' /\ SchedulerRefs'
           /\ UNCHANGED wrk => WorkerTypeOK' /\ WorkerRefs'
           /\ UNCHANGED adminVars => AdminTypeOK' /\ AdminRefs'
           /\ UNCHANGED fin => FinanceTypeOK' /\ FinanceRefs'
<1> USE DEF TypeInv, TypeOK, ReferencesHold, Kept, RowsStay, JobsStay, Registered, Committed
<1>1. ASSUME UNCHANGED sch PROVE SchedulerTypeOK' /\ SchedulerRefs'
  BY <1>1 DEF SchedulerTypeOK, SchedulerState, SchedulerRefs
<1>2. ASSUME UNCHANGED wrk PROVE WorkerTypeOK' /\ WorkerRefs'
  BY <1>2 DEF WorkerTypeOK, WorkerRefs
<1>3. ASSUME UNCHANGED adminVars PROVE AdminTypeOK' /\ AdminRefs'
  BY <1>3 DEF AdminTypeOK, AdminRefs, adminVars
<1>4. ASSUME UNCHANGED fin PROVE FinanceTypeOK' /\ FinanceRefs'
  BY <1>4 DEF FinanceTypeOK, FinanceRefs
<1> QED
  BY <1>1, <1>2, <1>3, <1>4

LEMMA TypeInvInit == Init => TypeInv
<1> SUFFICES ASSUME Init PROVE TypeInv
  OBVIOUS
<1>1. StoreTypeOK
  <2>1. NoRun \in RunRow
    BY DEF NoRun, RunRow, Statuses, OrNull
  <2>2. job \in [Jobs -> OrNull(JobRow)]
    BY DEF Init, StoreInit, OrNull, JobRow
  <2>3. clock \in Time /\ faults \in 0..MaxFaults
    BY ConstantsAssumption DEF Init, StoreInit, Time
  <2> QED
    BY <2>1, <2>2, <2>3 DEF Init, StoreInit, StoreTypeOK
<1>2. SchedulerTypeOK /\ WorkerTypeOK
  BY <1>1 DEF Init, SchedulerInit, SchedulerStart, SchedulerTypeOK, SchedulerState, WorkerInit, WorkerStart, WorkerTypeOK,
     NoSnapshot, Steps, OrNull, StoreTypeOK
<1>3. AdminTypeOK /\ FinanceTypeOK
  BY ConstantsAssumption, RequestsAssumption DEF Init, AdminInit, AdminTypeOK, NoRequest, RequestTo,
     FinanceInit, FinanceTypeOK, NoCall, OrNull, Time
<1>4. ReferencesHold
  BY DEF Init, StoreInit, SchedulerInit, SchedulerStart, NoSnapshot, WorkerInit, WorkerStart, AdminInit,
     NoRequest, RequestTo, FinanceInit, NoCall, ReferencesHold, QueueRefs, SchedulerRefs, WorkerRefs,
     AdminRefs, FinanceRefs
<1> QED
  BY <1>1, <1>2, <1>3, <1>4 DEF TypeInv, TypeOK

LEMMA StepTypes ==
    ASSUME TypeInv, [Next]_vars PROVE TypeInv' /\ RowsStay
<1> USE DEF Ticker, PollLoop, Admin, Finance, Clock
<1>1. CASE Ticker
  BY <1>1, EvaluationTypes, MaintenanceTypes, OthersKept
     DEF SchedulerNext, SchedulerOK, TypeInv, TypeOK, ReferencesHold, Kept
<1>2. CASE PollLoop
  BY <1>2, WorkerTypes, OthersKept DEF TypeInv, TypeOK, ReferencesHold, Kept
<1>3. CASE Admin
  BY <1>3, AdminTypes, OthersKept DEF AdminOK, TypeInv, TypeOK, ReferencesHold, Kept
<1>4. CASE Finance
  BY <1>4, FinanceTypes, OthersKept DEF FinanceOK, TypeInv, TypeOK, ReferencesHold, Kept
<1>5. CASE Clock
  <2>1. Kept
    BY <1>5, ConstantsAssumption DEF Tock, Kept, TypeInv, TypeOK, ReferencesHold, StoreTypeOK, QueueRefs,
       Committed, RowsStay, JobsStay, Registered, Time
  <2> QED
    BY <1>5, <2>1, OthersKept DEF TypeInv, TypeOK, ReferencesHold, Kept
<1>6. CASE WorkerCrash
  <2>1. Kept
    BY <1>6, FaultKept DEF WorkerCrash
  <2>2. SchedulerTypeOK' /\ SchedulerRefs' /\ WorkerTypeOK' /\ WorkerRefs'
    BY <1>6, <2>1 DEF WorkerCrash, SchedulerStart, WorkerStart, NoSnapshot, SchedulerTypeOK, SchedulerState,
       SchedulerRefs, WorkerTypeOK, WorkerRefs, Steps, OrNull, TypeInv, TypeOK, StoreTypeOK
  <2> QED
    BY <1>6, <2>1, <2>2, OthersKept DEF WorkerCrash, TypeInv, TypeOK, ReferencesHold, Kept
<1>7. CASE ApiCrash
  <2>1. Kept
    BY <1>7, FaultKept DEF ApiCrash
  <2>2. AdminTypeOK' /\ AdminRefs' /\ FinanceTypeOK' /\ FinanceRefs'
    BY <1>7, ConstantsAssumption DEF ApiCrash, NoRequest, RequestTo, NoCall, AdminTypeOK, AdminRefs,
       FinanceTypeOK, FinanceRefs, OrNull, TypeInv, TypeOK, Time
  <2> QED
    BY <1>7, <2>1, <2>2, OthersKept DEF ApiCrash, TypeInv, TypeOK, ReferencesHold, Kept
<1>8. CASE Lost
  <2>1. Kept
    BY <1>8, FaultKept DEF Lost, DeadLetter
  <2> QED
    BY <1>8, <2>1, OthersKept DEF Lost, TypeInv, TypeOK, ReferencesHold, Kept
<1>9. CASE UNCHANGED vars
  <2>1. Kept
    BY <1>9, UnchangedStore DEF vars, storeVars, TypeInv, TypeOK, ReferencesHold
  <2> QED
    BY <1>9, <2>1, OthersKept DEF vars, adminVars, TypeInv, TypeOK, ReferencesHold, Kept
<1> QED
  BY <1>1, <1>2, <1>3, <1>4, <1>5, <1>6, <1>7, <1>8, <1>9 DEF Next

\* Every state is well typed, and what a process remembers or the queue
\* carries always refers to a row that exists.
THEOREM TypeCorrect == Spec => [](TypeOK /\ ReferencesHold)
<1>1. Init => TypeInv
  BY TypeInvInit
<1>2. TypeInv /\ [Next]_vars => TypeInv'
  BY StepTypes
<1>3. TypeInv => TypeOK /\ ReferencesHold
  BY DEF TypeInv
<1> QED
  BY <1>1, <1>2, <1>3, PTL DEF Spec
=============================================================================
