---------------------------- MODULE DigestProofs ----------------------------
(***************************************************************************)
(* Theorems about DigestPipeline, for any days, runs, Sources, runners,    *)
(* concurrent calls, leases and bounds.                                    *)
(***************************************************************************)
EXTENDS DigestPipeline, TLAPS, WellFoundedInduction

-----------------------------------------------------------------------------
(* What every state satisfies *)

Single(S) == \A r, q \in S : r = q

\* What a handler remembers at each of its steps.
WorkerKnows ==
    /\ wk.pc \in {"scrape", "write"} => wk.run \in ScrapeRuns
    /\ wk.pc \in {"llm", "newest", "assemble", "consume"} =>
          wk.run \in LlmRuns /\ wk.day = DayOf[wk.run]
    /\ wk.pc \in {"summarise", "record"} =>
          /\ wk.day \in Days
          /\ \/ wk.run = Null /\ wk.set = {}
             \/ wk.run \in LlmRuns /\ wk.day = DayOf[wk.run]
    /\ wk.pc = "finish" => wk.run \in Runs /\ wk.outcome \in {"succeeded", "failed"}
    /\ wk.pc = "write" => wk.set \subseteq {wk.run} \X Sources
    /\ wk.pc \in {"summarise", "record", "consume"} => wk.set \subseteq Artifacts
    /\ wk.pc \in {"collect", "resolve"} => wk.run = Null /\ wk.set \subseteq Days \X Batches
    /\ wk.pc = "resolve" => wk.day \in Days
    /\ wk.pc = "record" => wk.outcome \in {"succeeded", "failed"}
    /\ wk.pc \in {"record", "resolve"} =>
          wk.result \in DigestRow /\ wk.result.status # "absent" /\ Single(wk.result.from)
    /\ Single(wk.from)

\* The rank of a scrape is bounded, so that among scrapes one is the newest.
RankBounded == \E k \in Nat : \A r \in ScrapeRuns : rank[r] <= k

\* A call in progress has a runner, a run and a reading of the clock.
CallsKnow ==
    \A c \in Calls : call[c].pc # "none" =>
        call[c].runner \in Runners /\ call[c].run \in ScrapeRuns /\ call[c].now <= clock

\* A scrape writes its artifacts once: it has none before it runs.
Unwritten ==
    /\ \A r \in ScrapeRuns : runs[r].status = "queued" => Of(r) = {}
    /\ wk.pc \in {"scrape", "write"} => Of(wk.run) = {} /\ runs[wk.run].status # "queued"

\* The artifacts a summary is made of are there, and all of their scrape's.
WholeScrapes ==
    wk.pc \in {"summarise", "record", "consume"} =>
        \A a \in wk.set : Exists(a) /\ Of(Producer(a)) \subseteq wk.set

\* The collector's worklist agrees with the rows, and its verdict with the batch.
VerdictStands ==
    /\ wk.pc \in {"collect", "resolve"} =>
          \A p \in wk.set : /\ digests[p[1]].status # "absent"
                            /\ digests[p[1]].status = "pending" => digests[p[1]].batch = p[2]
    /\ wk.pc = "resolve" => digests[wk.day].status # "absent"
    /\ wk.pc = "resolve" /\ wk.result.status = "failed" /\ digests[wk.day].status = "pending" =>
          digests[wk.day].batch \in Batches /\ batches[digests[wk.day].batch].state = "bad"

\* A lease a runner was told of is no longer than the artifacts' own.
LeaseCovers ==
    \A n \in Runners, r \in ScrapeRuns : clock < told[n][r] =>
        \A a \in Of(r) : arts[a].status = "claimed" => told[n][r] <= arts[a].expires

\* What a run is about to use up is recorded.
AboutToConsume == wk.pc = "consume" => digests[wk.day].status # "absent"

Inv ==
    /\ TypeOK /\ WorkerKnows /\ RankBounded /\ CallsKnow /\ Unwritten /\ WholeScrapes
    /\ VerdictStands /\ LeaseCovers /\ AboutToConsume
    /\ OneScrapePerDigest /\ ConsumedMeansRecorded /\ LiveClaimHolds /\ ScrapeMovesTogether

-----------------------------------------------------------------------------
(* The initial state *)

\* A worker without a handler is well-typed.
LEMMA IdleRow == Idle \in WorkRow /\ Idle.pc = "idle" /\ Idle.run = Null /\ Idle.from = {} /\ Idle.set = {}
BY DEF Idle, WorkRow, Steps, OrNull

\* The initial state satisfies the inductive invariant.
LEMMA InitInv == Init => Inv
<1> SUFFICES ASSUME Init PROVE Inv
  OBVIOUS
<1> USE DigestConstants, DigestNull DEF Init, DigestStoreInit, WorkerInit, WorkInit
<1>1. DigestStoreTypeOK
  BY DEF DigestStoreTypeOK, Time, RunRow, OrNull, ArtifactRow, DigestRow, BatchRow
<1>2. WorkTypeOK
  BY DEF WorkTypeOK, CallRow, NoCall, Time, OrNull
<1>3. TypeOK
  BY <1>1, <1>2, IdleRow DEF TypeOK, WorkerTypeOK
<1>4. WorkerKnows
  BY IdleRow DEF WorkerKnows, Single
<1>5. RankBounded
  <2>1. 0 \in Nat /\ \A r \in ScrapeRuns : rank[r] <= 0
    OBVIOUS
  <2> QED BY <2>1 DEF RankBounded
<1>6. CallsKnow
  BY DEF CallsKnow, NoCall
<1>7. \A r \in ScrapeRuns : Of(r) = {}
  BY DEF Of, Exists
<1>8. Unwritten /\ WholeScrapes /\ VerdictStands /\ AboutToConsume
  BY IdleRow, <1>7 DEF Unwritten, WholeScrapes, VerdictStands, AboutToConsume
<1>9. LeaseCovers /\ LiveClaimHolds
  <2>1. \A n \in Runners, r \in ScrapeRuns : ~(clock < told[n][r])
    OBVIOUS
  <2> QED BY <2>1 DEF LeaseCovers, LiveClaimHolds
<1>10. OneScrapePerDigest /\ ConsumedMeansRecorded /\ ScrapeMovesTogether
  BY DEF OneScrapePerDigest, ConsumedMeansRecorded, ScrapeMovesTogether, Exists
<1> QED
  BY <1>3, <1>4, <1>5, <1>6, <1>8, <1>9, <1>10 DEF Inv

-----------------------------------------------------------------------------
(* The newest and the oldest of some scrapes *)

\* A set of numbers has a least one.
LEMMA LeastNumber == ASSUME NEW T \in SUBSET Nat, T # {} PROVE \E x \in T : \A y \in T : x <= y
<1>1. PICK x \in T : \A y \in T : ~(<<y, x>> \in OpToRel(<, Nat))
  BY NatLessThanWellFounded, WFMin
<1>2. \A y \in T : ~(y < x)
  BY <1>1 DEF OpToRel
<1> QED BY <1>2

\* Among scrapes one is the newest and one the oldest.
LEMMA NewestOldest ==
    ASSUME rank \in [ScrapeRuns -> Nat], RankBounded, NEW S \in SUBSET ScrapeRuns, S # {}
    PROVE  /\ Newest(S) \in S /\ \A q \in S : rank[q] <= rank[Newest(S)]
           /\ Oldest(S) \in S
<1>1. PICK k \in Nat : \A r \in ScrapeRuns : rank[r] <= k
  BY DEF RankBounded
<1>2. \E r \in S : \A q \in S : rank[q] <= rank[r]
  <2>1. PICK x \in {k - rank[r] : r \in S} : \A y \in {k - rank[r] : r \in S} : x <= y
    <3> {k - rank[r] : r \in S} \in SUBSET Nat /\ {k - rank[r] : r \in S} # {}
      BY <1>1
    <3> QED BY LeastNumber
  <2>2. PICK r \in S : x = k - rank[r]
    OBVIOUS
  <2>3. \A q \in S : k - rank[r] <= k - rank[q]
    BY <2>1, <2>2
  <2> QED BY <2>3
<1>3. \E r \in S : \A q \in S : rank[r] <= rank[q]
  <2>1. PICK x \in {rank[r] : r \in S} : \A y \in {rank[r] : r \in S} : x <= y
    <3> {rank[r] : r \in S} \in SUBSET Nat /\ {rank[r] : r \in S} # {}
      OBVIOUS
    <3> QED BY LeastNumber
  <2> QED BY <2>1
<1> QED BY <1>2, <1>3 DEF Newest, Oldest

-----------------------------------------------------------------------------
(* Who writes what *)

\* What the worker's actions leave alone.
LEMMA WorkerFootprints ==
    /\ \A r \in Runs : BeginRun(r) => UNCHANGED <<clock, mode, external, arts, rank, digests, batches>>
    /\ FinishRun => UNCHANGED <<clock, mode, external, arts, rank, digests, batches>>
    /\ ScrapeFetch \/ LlmStart \/ LlmNewest \/ LlmAssemble \/ SummariseInline \/ BeginCollect
          => UNCHANGED <<clock, mode, external, runs, arts, rank, digests, batches>>
    /\ ScrapeWriteFails \/ SubmitFails \/ RecordFails \/ ConsumeFails \/ ResolveFails \/ WorkerCrash
          => UNCHANGED <<clock, mode, external, runs, arts, rank, digests, batches>>
    /\ ScrapeWrite => UNCHANGED <<clock, mode, external, runs, digests, batches>>
    /\ \A d \in BuildDays : BeginBuild(d) => UNCHANGED <<clock, mode, external, runs, arts, rank, digests, batches>>
    /\ \A b \in Batches : SubmitBatch(b) => UNCHANGED <<clock, mode, external, runs, arts, rank, digests>>
    /\ Record \/ Resolve => UNCHANGED <<clock, mode, external, runs, arts, rank, batches>>
    /\ Consume => UNCHANGED <<clock, mode, external, runs, rank, digests, batches>>
    /\ \A p \in Days \X Batches : PollBatch(p) \/ PollFails(p) =>
          UNCHANGED <<clock, mode, external, runs, arts, rank, digests, batches>>
<1> USE DEF digestStoreVars, RowsKept
<1>1. \A r \in Runs : BeginRun(r) => UNCHANGED <<clock, mode, external, arts, rank, digests, batches>>
  BY DEF BeginRun
<1>2. FinishRun => UNCHANGED <<clock, mode, external, arts, rank, digests, batches>>
  BY DEF FinishRun
<1>3. ScrapeFetch \/ LlmStart \/ LlmNewest \/ LlmAssemble \/ SummariseInline \/ BeginCollect
          => UNCHANGED <<clock, mode, external, runs, arts, rank, digests, batches>>
  BY DEF ScrapeFetch, LlmStart, LlmNewest, LlmAssemble, SummariseInline, BeginCollect
<1>4. ScrapeWriteFails \/ SubmitFails \/ RecordFails \/ ConsumeFails \/ ResolveFails \/ WorkerCrash
          => UNCHANGED <<clock, mode, external, runs, arts, rank, digests, batches>>
  BY DEF ScrapeWriteFails, RecordFails, ConsumeFails, SubmitFails, ResolveFails, WorkerCrash, FailsAt
<1>5. ScrapeWrite => UNCHANGED <<clock, mode, external, runs, digests, batches>>
  BY DEF ScrapeWrite
<1>6. \A d \in BuildDays : BeginBuild(d) => UNCHANGED <<clock, mode, external, runs, arts, rank, digests, batches>>
  BY DEF BeginBuild
<1>7. \A b \in Batches : SubmitBatch(b) => UNCHANGED <<clock, mode, external, runs, arts, rank, digests>>
  BY DEF SubmitBatch
<1>8. Record \/ Resolve => UNCHANGED <<clock, mode, external, runs, arts, rank, batches>>
  BY DEF Record, Resolve
<1>9. Consume => UNCHANGED <<clock, mode, external, runs, rank, digests, batches>>
  BY DEF Consume
<1>10. \A p \in Days \X Batches : PollBatch(p) \/ PollFails(p) =>
          UNCHANGED <<clock, mode, external, runs, arts, rank, digests, batches>>
  BY DEF PollBatch, PollFails
<1> QED BY <1>1, <1>2, <1>3, <1>4, <1>5, <1>6, <1>7, <1>8, <1>9, <1>10

\* What the other actions leave alone; a completion touches no digest, since
\* only a scrape is completed.
LEMMA OtherFootprints ==
    /\ \A c \in Calls :
          (\E n \in Runners : ClaimFind(c, n) \/ \E r \in ScrapeRuns : CompleteCheck(c, n, r))
             => UNCHANGED <<clock, mode, external, runs, arts, rank, digests, batches, told>>
    /\ \A c \in Calls : ClaimTake(c) => UNCHANGED <<clock, mode, external, runs, rank, digests, batches>>
    /\ \A c \in Calls : CompleteConfirm(c) \/ CallFails(c) =>
          UNCHANGED <<clock, mode, external, runs, arts, rank, digests, batches, told>>
    /\ \A c \in Calls : CompleteWrite(c) => UNCHANGED <<clock, mode, external, rank, batches, told>>
    /\ Tock => UNCHANGED <<mode, external, runs, arts, rank, digests, batches>>
    /\ SweepArtifacts => UNCHANGED <<clock, mode, external, runs, rank, digests, batches>>
    /\ \A b \in Batches : EndBatch(b) => UNCHANGED <<clock, mode, external, runs, arts, rank, digests>>
    /\ \A stage \in Movable : ChangeRunner(stage) => UNCHANGED <<clock, mode, runs, arts, rank, digests, batches>>
<1>1. \A c \in Calls :
          (\E n \in Runners : ClaimFind(c, n) \/ \E r \in ScrapeRuns : CompleteCheck(c, n, r))
             => UNCHANGED <<clock, mode, external, runs, arts, rank, digests, batches, told>>
  BY DEF ClaimFind, CompleteCheck, digestStoreVars
<1>2. \A c \in Calls : ClaimTake(c) => UNCHANGED <<clock, mode, external, runs, rank, digests, batches>>
  BY DEF ClaimTake
<1>3. \A c \in Calls : CompleteConfirm(c) \/ CallFails(c) =>
          UNCHANGED <<clock, mode, external, runs, arts, rank, digests, batches, told>>
  BY DEF CompleteConfirm, CallFails, digestStoreVars
<1>4. \A c \in Calls : CompleteWrite(c) => UNCHANGED <<clock, mode, external, rank, batches, told>>
  BY DEF CompleteWrite
<1>5. Tock => UNCHANGED <<mode, external, runs, arts, rank, digests, batches>>
  BY DEF Tock
<1>6. SweepArtifacts => UNCHANGED <<clock, mode, external, runs, rank, digests, batches>>
  BY DEF SweepArtifacts
<1>7. \A b \in Batches : EndBatch(b) => UNCHANGED <<clock, mode, external, runs, arts, rank, digests>>
  BY DEF EndBatch
<1>8. \A stage \in Movable : ChangeRunner(stage) => UNCHANGED <<clock, mode, runs, arts, rank, digests, batches>>
  BY DEF ChangeRunner
<1> QED BY <1>1, <1>2, <1>3, <1>4, <1>5, <1>6, <1>7, <1>8

\* The writers of artifacts, and of their ranks.
LEMMA ArtsWriters ==
    ASSUME [Next]_vars
    PROVE  \/ UNCHANGED <<arts, rank>>
           \/ ScrapeWrite /\ UNCHANGED workVars
           \/ Consume /\ UNCHANGED workVars
           \/ \E c \in Calls : (ClaimTake(c) \/ CompleteWrite(c)) /\ UNCHANGED wk
           \/ SweepArtifacts /\ UNCHANGED <<wk, workVars>>
<1>1. CASE WorkerNext /\ UNCHANGED workVars
  BY <1>1, WorkerFootprints DEF WorkerNext
<1>2. CASE WorkerCrash /\ UNCHANGED workVars
  BY <1>2, WorkerFootprints
<1>3. CASE WorkNext /\ UNCHANGED wk
  BY <1>3, OtherFootprints DEF WorkNext
<1>4. CASE Environment /\ UNCHANGED <<wk, workVars>>
  BY <1>4, OtherFootprints DEF Environment
<1>5. CASE UNCHANGED vars
  BY <1>5 DEF vars, digestStoreVars
<1> QED BY <1>1, <1>2, <1>3, <1>4, <1>5 DEF Next

\* A rank is given by the scrape that inserts.
LEMMA RankWriters == ASSUME [Next]_vars PROVE UNCHANGED rank \/ ScrapeWrite
<1>1. CASE WorkerNext /\ UNCHANGED workVars
  BY <1>1, WorkerFootprints DEF WorkerNext
<1>2. CASE WorkerCrash /\ UNCHANGED workVars
  BY <1>2, WorkerFootprints
<1>3. CASE WorkNext /\ UNCHANGED wk
  BY <1>3, OtherFootprints DEF WorkNext
<1>4. CASE Environment /\ UNCHANGED <<wk, workVars>>
  BY <1>4, OtherFootprints DEF Environment
<1>5. CASE UNCHANGED vars
  BY <1>5 DEF vars, digestStoreVars
<1> QED BY <1>1, <1>2, <1>3, <1>4, <1>5 DEF Next

\* A deployment's mode is fixed, and a stage is moved by an administrator.
LEMMA ModeWriters ==
    ASSUME [Next]_vars
    PROVE  UNCHANGED <<mode, external>> \/ (UNCHANGED mode /\ \E stage \in Movable : ChangeRunner(stage))
<1>1. CASE WorkerNext /\ UNCHANGED workVars
  BY <1>1, WorkerFootprints DEF WorkerNext
<1>2. CASE WorkerCrash /\ UNCHANGED workVars
  BY <1>2, WorkerFootprints
<1>3. CASE WorkNext /\ UNCHANGED wk
  BY <1>3, OtherFootprints DEF WorkNext
<1>4. CASE Environment /\ UNCHANGED <<wk, workVars>>
  BY <1>4, OtherFootprints DEF Environment
<1>5. CASE UNCHANGED vars
  BY <1>5 DEF vars, digestStoreVars
<1> QED BY <1>1, <1>2, <1>3, <1>4, <1>5 DEF Next

\* Failures are counted.
LEMMA FaultsWriters == ASSUME [Next]_vars PROVE UNCHANGED faults \/ Fault
<1>1. CASE WorkerNext
  <2>1. FinishRun \/ ScrapeFetch \/ ScrapeWrite \/ ScrapeWriteFails \/ LlmStart \/ LlmNewest \/ LlmAssemble
           => UNCHANGED faults \/ Fault
    BY DEF FinishRun, ScrapeFetch, ScrapeWrite, ScrapeWriteFails, FailsAt, LlmStart, LlmNewest,
           LlmAssemble, digestStoreVars
  <2>2. SummariseInline \/ SubmitFails \/ Record \/ RecordFails \/ Consume \/ ConsumeFails
           => UNCHANGED faults \/ Fault
    BY DEF SummariseInline, SubmitFails, Record, RecordFails, Consume, ConsumeFails, FailsAt, digestStoreVars
  <2>3. BeginCollect \/ Resolve \/ ResolveFails => UNCHANGED faults \/ Fault
    BY DEF BeginCollect, Resolve, ResolveFails, digestStoreVars
  <2>4. \A r \in Runs : BeginRun(r) => UNCHANGED faults
    BY DEF BeginRun
  <2>5. \A d \in BuildDays : BeginBuild(d) => UNCHANGED faults
    BY DEF BeginBuild, digestStoreVars
  <2>6. \A b \in Batches : SubmitBatch(b) => UNCHANGED faults \/ Fault
    BY DEF SubmitBatch
  <2>7. \A p \in Days \X Batches : PollBatch(p) \/ PollFails(p) => UNCHANGED faults \/ Fault
    BY DEF PollBatch, PollFails, digestStoreVars
  <2> QED BY <1>1, <2>1, <2>2, <2>3, <2>4, <2>5, <2>6, <2>7 DEF WorkerNext
<1>2. CASE WorkerCrash
  BY <1>2 DEF WorkerCrash
<1>3. CASE WorkNext
  BY <1>3 DEF WorkNext, ClaimFind, ClaimTake, CompleteCheck, CompleteConfirm, CompleteWrite, CallFails,
              digestStoreVars
<1>4. CASE Environment
  BY <1>4 DEF Environment, Tock, SweepArtifacts, EndBatch, ChangeRunner
<1>5. CASE UNCHANGED vars
  BY <1>5 DEF vars, digestStoreVars
<1> QED BY <1>1, <1>2, <1>3, <1>4, <1>5 DEF Next

\* The writers of digests.
LEMMA DigestsWriters ==
    ASSUME [Next]_vars
    PROVE  \/ UNCHANGED digests
           \/ (Record \/ Resolve) /\ UNCHANGED workVars
           \/ \E c \in Calls : CompleteWrite(c) /\ UNCHANGED wk
<1>1. CASE WorkerNext /\ UNCHANGED workVars
  BY <1>1, WorkerFootprints DEF WorkerNext
<1>2. CASE WorkerCrash /\ UNCHANGED workVars
  BY <1>2, WorkerFootprints
<1>3. CASE WorkNext /\ UNCHANGED wk
  BY <1>3, OtherFootprints DEF WorkNext
<1>4. CASE Environment /\ UNCHANGED <<wk, workVars>>
  BY <1>4, OtherFootprints DEF Environment
<1>5. CASE UNCHANGED vars
  BY <1>5 DEF vars, digestStoreVars
<1> QED BY <1>1, <1>2, <1>3, <1>4, <1>5 DEF Next

\* The writers of batches.
LEMMA BatchesWriters ==
    ASSUME [Next]_vars
    PROVE  \/ UNCHANGED batches
           \/ \E b \in Batches : SubmitBatch(b) \/ EndBatch(b)
<1>1. CASE WorkerNext /\ UNCHANGED workVars
  BY <1>1, WorkerFootprints DEF WorkerNext
<1>2. CASE WorkerCrash /\ UNCHANGED workVars
  BY <1>2, WorkerFootprints
<1>3. CASE WorkNext /\ UNCHANGED wk
  BY <1>3, OtherFootprints DEF WorkNext
<1>4. CASE Environment /\ UNCHANGED <<wk, workVars>>
  BY <1>4, OtherFootprints DEF Environment
<1>5. CASE UNCHANGED vars
  BY <1>5 DEF vars, digestStoreVars
<1> QED BY <1>1, <1>2, <1>3, <1>4, <1>5 DEF Next

\* The writers of runs.
LEMMA RunsWriters ==
    ASSUME [Next]_vars
    PROVE  \/ UNCHANGED runs
           \/ \E r \in Runs : BeginRun(r) /\ UNCHANGED workVars
           \/ FinishRun
           \/ \E c \in Calls : CompleteWrite(c) /\ UNCHANGED wk
<1>1. CASE WorkerNext /\ UNCHANGED workVars
  BY <1>1, WorkerFootprints DEF WorkerNext
<1>2. CASE WorkerCrash /\ UNCHANGED workVars
  BY <1>2, WorkerFootprints
<1>3. CASE WorkNext /\ UNCHANGED wk
  BY <1>3, OtherFootprints DEF WorkNext
<1>4. CASE Environment /\ UNCHANGED <<wk, workVars>>
  BY <1>4, OtherFootprints DEF Environment
<1>5. CASE UNCHANGED vars
  BY <1>5 DEF vars, digestStoreVars
<1> QED BY <1>1, <1>2, <1>3, <1>4, <1>5 DEF Next

\* Time passes in a step of its own.
LEMMA ClockWriters ==
    ASSUME [Next]_vars
    PROVE  UNCHANGED clock \/ (Tock /\ UNCHANGED <<wk, workVars>>)
<1>1. CASE WorkerNext /\ UNCHANGED workVars
  BY <1>1, WorkerFootprints DEF WorkerNext
<1>2. CASE WorkerCrash /\ UNCHANGED workVars
  BY <1>2, WorkerFootprints
<1>3. CASE WorkNext /\ UNCHANGED wk
  BY <1>3, OtherFootprints DEF WorkNext
<1>4. CASE Environment /\ UNCHANGED <<wk, workVars>>
  BY <1>4, OtherFootprints DEF Environment
<1>5. CASE UNCHANGED vars
  BY <1>5 DEF vars, digestStoreVars
<1> QED BY <1>1, <1>2, <1>3, <1>4, <1>5 DEF Next

-----------------------------------------------------------------------------
(* What a handler remembers *)

\* The worker's part of the invariant.
WorkerFit == WorkerTypeOK /\ WorkerKnows

\* A handler that returns is idle, or about to close its run.
LEMMA ReturnFits ==
    ASSUME WorkerTypeOK, NEW outcome \in {"succeeded", "failed"}, Return(outcome)
    PROVE  WorkerFit' /\ wk'.pc \in {"idle", "finish"}
<1>1. CASE wk.run = Null
  <2>1. wk' = Idle
    BY <1>1 DEF Return
  <2> QED BY <2>1, IdleRow DEF WorkerFit, WorkerTypeOK, WorkerKnows, Single
<1>2. CASE wk.run # Null
  <2>1. wk' = [Idle EXCEPT !.pc = "finish", !.run = wk.run, !.outcome = outcome]
    BY <1>2 DEF Return
  <2>2. wk.run \in Runs
    BY <1>2 DEF WorkerTypeOK, WorkRow, OrNull
  <2>3. wk' \in WorkRow
    BY <2>1, <2>2, IdleRow DEF WorkRow, Steps, OrNull
  <2>4. /\ wk'.pc = "finish" /\ wk'.run = wk.run /\ wk'.outcome = outcome /\ wk'.from = {}
    BY <2>1, IdleRow DEF WorkRow
  <2>5. WorkerKnows'
    BY <2>2, <2>4, DigestNull DEF WorkerKnows, Single
  <2> QED BY <2>3, <2>4, <2>5 DEF WorkerFit, WorkerTypeOK
<1> QED BY <1>1, <1>2

\* A sweep goes on with what is left, or is over.
LEMMA SweepFits ==
    ASSUME NEW left \in SUBSET (Days \X Batches), Sweep(left)
    PROVE  /\ WorkerFit' /\ wk'.pc \in {"idle", "collect"}
           /\ wk'.pc = "collect" => wk'.set = left
<1>1. CASE left = {}
  BY <1>1, IdleRow DEF Sweep, WorkerFit, WorkerTypeOK, WorkerKnows, Single
<1>2. CASE left # {}
  <2>1. wk' = [Idle EXCEPT !.pc = "collect", !.set = left]
    BY <1>2 DEF Sweep
  <2>2. wk' \in WorkRow
    BY <2>1, IdleRow DEF WorkRow, Steps
  <2>3. wk'.pc = "collect" /\ wk'.run = Null /\ wk'.set = left /\ wk'.from = {}
    BY <2>1, IdleRow DEF WorkRow
  <2> QED BY <2>2, <2>3 DEF WorkerFit, WorkerTypeOK, WorkerKnows, Single
<1> QED BY <1>1, <1>2

\* A summary is about to be recorded.
LEMMA ToRecordFits ==
    ASSUME WorkerFit, wk.pc = "summarise", NEW result \in DigestRow,
           result.status # "absent", Single(result.from),
           NEW outcome \in {"succeeded", "failed"}, ToRecord(result, outcome)
    PROVE  WorkerFit' /\ wk' = [wk EXCEPT !.pc = "record", !.result = result, !.outcome = outcome]
<1>1. wk' = [wk EXCEPT !.pc = "record", !.result = result, !.outcome = outcome]
  BY DEF ToRecord
<1>2. wk' \in WorkRow
  BY <1>1 DEF WorkerFit, WorkerTypeOK, WorkRow, Steps, OrNull
<1>3. /\ wk'.pc = "record" /\ wk'.result = result /\ wk'.outcome = outcome
      /\ wk'.run = wk.run /\ wk'.day = wk.day /\ wk'.set = wk.set /\ wk'.from = wk.from
  BY <1>1 DEF WorkerFit, WorkerTypeOK, WorkRow
<1> QED BY <1>1, <1>2, <1>3 DEF WorkerFit, WorkerTypeOK, WorkerKnows

\* A handler that begins or goes on with a run knows what it works on.
LEMMA RunStepFits ==
    ASSUME TypeOK, WorkerKnows, RankBounded,
           \/ \E r \in Runs : BeginRun(r)
           \/ ScrapeFetch \/ LlmStart \/ LlmNewest \/ LlmAssemble
    PROVE  WorkerFit'
<1> USE DEF TypeOK, DigestStoreTypeOK
<1>r. WorkerTypeOK /\ wk \in WorkRow
  BY DEF WorkerTypeOK
<1>t. "succeeded" \in {"succeeded", "failed"} /\ "failed" \in {"succeeded", "failed"}
  OBVIOUS
<1>1. ASSUME NEW r \in Runs, BeginRun(r) PROVE WorkerFit'
  <2>1. wk' = [Idle EXCEPT !.pc = IF r \in ScrapeRuns THEN "scrape" ELSE "llm",
                           !.run = r, !.day = DayOf[r]]
    BY <1>1 DEF BeginRun
  <2>2. wk' \in WorkRow
    BY <2>1, IdleRow, DigestConstants DEF WorkRow, Steps, OrNull
  <2>3. /\ wk'.pc = (IF r \in ScrapeRuns THEN "scrape" ELSE "llm")
        /\ wk'.run = r /\ wk'.day = DayOf[r] /\ wk'.from = {}
    BY <2>1, IdleRow DEF WorkRow
  <2> QED BY <2>2, <2>3 DEF WorkerFit, WorkerTypeOK, WorkerKnows, Single, Runs
<1>2. CASE ScrapeFetch
  <2>1. ASSUME NEW got \in SUBSET Sources \ {{}},
               wk' = [wk EXCEPT !.pc = "write", !.set = {wk.run} \X got,
                                !.expires = clock + ArtifactTTL]
        PROVE  WorkerFit'
    <3>1. wk.run \in ScrapeRuns
      BY <1>2 DEF ScrapeFetch, WorkerKnows
    <3>2. {wk.run} \X got \subseteq Artifacts /\ clock + ArtifactTTL \in Nat
      BY <3>1, DigestConstants DEF Artifacts, Time
    <3>3. wk' \in WorkRow
      BY <2>1, <3>2, <1>r DEF WorkRow, Steps
    <3>4. /\ wk'.pc = "write" /\ wk'.run = wk.run /\ wk'.set = {wk.run} \X got
          /\ wk'.from = wk.from
      BY <2>1, <1>r DEF WorkRow
    <3> QED BY <3>1, <3>3, <3>4 DEF WorkerFit, WorkerTypeOK, WorkerKnows
  <2>2. ASSUME NEW outcome \in {"succeeded", "failed"}, Return(outcome) PROVE WorkerFit'
    BY <2>2, <1>r, ReturnFits
  <2> QED BY <1>2, <2>1, <2>2 DEF ScrapeFetch
<1>3. CASE LlmStart
  <2>1. CASE Return("succeeded")
    BY <2>1, <1>r, <1>t, ReturnFits
  <2>2. CASE Goto("newest")
    <3>1. wk' = [wk EXCEPT !.pc = "newest"]
      BY <2>2 DEF Goto
    <3>2. wk' \in WorkRow
      BY <3>1, <1>r DEF WorkRow, Steps
    <3>3. wk'.pc = "newest" /\ wk'.run = wk.run /\ wk'.day = wk.day /\ wk'.from = wk.from
      BY <3>1, <1>r DEF WorkRow
    <3> QED BY <1>3, <3>2, <3>3 DEF LlmStart, WorkerFit, WorkerTypeOK, WorkerKnows
  <2> QED BY <1>3, <2>1, <2>2 DEF LlmStart
<1>4. CASE LlmNewest
  <2> DEFINE producers == {r \in ScrapeRuns : PendingOf(r) # {}}
  <2>1. CASE Return("succeeded")
    BY <2>1, <1>r, <1>t, ReturnFits
  <2>2. CASE producers # {} /\ wk' = [wk EXCEPT !.pc = "assemble", !.from = {Newest(producers)}]
    <3>1. Newest(producers) \in ScrapeRuns
      BY <2>2, NewestOldest
    <3>2. PICK newest \in ScrapeRuns : newest = Newest(producers)
      BY <3>1
    <3>3. wk' = [wk EXCEPT !.pc = "assemble", !.from = {newest}]
      BY <2>2, <3>2
    <3>4. wk' \in WorkRow
      BY <3>3, <1>r DEF WorkRow, Steps
    <3>5. wk'.pc = "assemble" /\ wk'.run = wk.run /\ wk'.day = wk.day /\ wk'.from = {newest}
      BY <3>3, <1>r DEF WorkRow
    <3> QED BY <1>4, <3>4, <3>5 DEF LlmNewest, WorkerFit, WorkerTypeOK, WorkerKnows, Single
  <2> QED BY <1>4, <2>1, <2>2 DEF LlmNewest
<1>5. CASE LlmAssemble
  <2> DEFINE found == {a \in Artifacts : Producer(a) \in wk.from /\ Is(a, "pending")}
  <2>1. CASE Return("succeeded")
    BY <2>1, <1>r, <1>t, ReturnFits
  <2>2. CASE wk' = [wk EXCEPT !.pc = "summarise", !.set = found, !.from = {Producer(a) : a \in found}]
    <3>1. PICK f \in SUBSET Artifacts : f = found
      OBVIOUS
    <3>2. {Producer(a) : a \in f} \subseteq wk.from /\ wk.from \subseteq ScrapeRuns
      BY <3>1, <1>r DEF WorkRow
    <3>3. PICK made \in SUBSET ScrapeRuns : made = {Producer(a) : a \in f} /\ made \subseteq wk.from
      BY <3>2
    <3>4. wk' = [wk EXCEPT !.pc = "summarise", !.set = f, !.from = made]
      BY <2>2, <3>1, <3>3
    <3>5. wk' \in WorkRow
      BY <3>4, <1>r DEF WorkRow, Steps
    <3>6. /\ wk'.pc = "summarise" /\ wk'.run = wk.run /\ wk'.day = wk.day
          /\ wk'.set = f /\ wk'.from = made
      BY <3>4, <1>r DEF WorkRow
    <3>7. wk.run \in LlmRuns /\ wk.day = DayOf[wk.run] /\ wk.day \in Days
      BY <1>5, DigestConstants DEF LlmAssemble, WorkerKnows, Runs
    <3>8. Single(made)
      BY <3>3 DEF WorkerKnows, Single
    <3> QED BY <3>5, <3>6, <3>7, <3>8 DEF WorkerFit, WorkerTypeOK, WorkerKnows
  <2> QED BY <1>5, <2>1, <2>2 DEF LlmAssemble
<1> QED BY <1>1, <1>2, <1>3, <1>4, <1>5

\* A handler that summarises, records or uses up knows what it works on.
LEMMA SummaryStepFits ==
    ASSUME TypeOK, WorkerKnows,
           \/ \E d \in BuildDays : BeginBuild(d)
           \/ SummariseInline \/ (\E b \in Batches : SubmitBatch(b)) \/ SubmitFails
           \/ Record \/ RecordFails \/ Consume \/ ConsumeFails
           \/ ScrapeWrite \/ ScrapeWriteFails
    PROVE  WorkerFit'
<1>r. WorkerTypeOK /\ wk \in WorkRow /\ WorkerFit
  BY DEF TypeOK, WorkerTypeOK, WorkerFit
<1>t. "succeeded" \in {"succeeded", "failed"} /\ "failed" \in {"succeeded", "failed"}
  OBVIOUS
<1>c. \A outcome \in {"succeeded", "failed"} : Return(outcome) => WorkerFit'
  BY <1>r, ReturnFits
<1>f. Failed \in DigestRow /\ Failed.status = "failed" /\ Single(Failed.from)
  BY DEF Failed, DigestRow, OrNull, Single
<1>g. wk.from \subseteq ScrapeRuns /\ Single(wk.from)
  BY <1>r DEF WorkRow, WorkerKnows
<1>1. ASSUME NEW d \in BuildDays, BeginBuild(d) PROVE WorkerFit'
  <2>1. wk' = [Idle EXCEPT !.pc = "summarise", !.day = d] /\ d \in Days
    BY <1>1, DigestConstants DEF BeginBuild
  <2>2. wk' \in WorkRow
    BY <2>1, IdleRow DEF WorkRow, Steps, OrNull
  <2>3. wk'.pc = "summarise" /\ wk'.run = Null /\ wk'.day = d /\ wk'.set = {} /\ wk'.from = {}
    BY <2>1, IdleRow DEF WorkRow
  <2> QED BY <2>1, <2>2, <2>3 DEF WorkerFit, WorkerTypeOK, WorkerKnows, Single
<1>2. ASSUME wk.pc = "summarise", NEW outcome \in {"succeeded", "failed"}, ToRecord(Failed, outcome)
      PROVE  WorkerFit'
  <2>1. PICK f \in DigestRow : f = Failed
    BY <1>f
  <2> QED BY <1>2, <1>r, <1>f, ToRecordFits
<1>3. CASE SummariseInline
  <2>1. Completed(wk.from) \in DigestRow /\ Completed(wk.from).status = "completed"
        /\ Completed(wk.from).from = wk.from
    BY <1>g DEF Completed, DigestRow, OrNull
  <2>2. CASE ToRecord(Completed(wk.from), "succeeded")
    <3>1. PICK row \in DigestRow : row = Completed(wk.from)
      BY <2>1
    <3>2. ToRecord(row, "succeeded") /\ Single(row.from) /\ row.status # "absent"
      BY <2>1, <2>2, <3>1, <1>g
    <3> QED BY <3>2, <1>3, <1>r, <1>t, ToRecordFits DEF SummariseInline
  <2> QED BY <1>2, <1>3, <1>t, <2>2 DEF SummariseInline
<1>4. ASSUME NEW b \in Batches, SubmitBatch(b) PROVE WorkerFit'
  <2>1. Submitted(b, wk.from) \in DigestRow /\ Submitted(b, wk.from).status = "pending"
        /\ Submitted(b, wk.from).from = wk.from
    BY <1>g DEF Submitted, DigestRow, OrNull
  <2>2. PICK row \in DigestRow : row = Submitted(b, wk.from)
    BY <2>1
  <2>3. Single(row.from) /\ row.status # "absent" /\ wk.pc = "summarise"
    BY <1>4, <2>1, <2>2, <1>g DEF SubmitBatch
  <2>4. ASSUME NEW outcome \in {"succeeded", "failed"}, ToRecord(row, outcome) PROVE WorkerFit'
    BY <2>3, <2>4, <1>r, ToRecordFits
  <2> QED BY <1>4, <1>c, <1>t, <2>2, <2>4 DEF SubmitBatch
<1>5. CASE SubmitFails
  BY <1>5, <1>2, <1>c, <1>t DEF SubmitFails
<1>6. CASE Record
  <2>1. wk.outcome \in {"succeeded", "failed"}
    BY <1>6 DEF Record, WorkerKnows
  <2>2. CASE Return(wk.outcome)
    BY <2>1, <2>2, <1>c
  <2>3. CASE wk.set # {} /\ Goto("consume")
    <3>1. wk' = [wk EXCEPT !.pc = "consume"]
      BY <2>3 DEF Goto
    <3>2. wk' \in WorkRow
      BY <3>1, <1>r DEF WorkRow, Steps
    <3>3. wk'.pc = "consume" /\ wk'.run = wk.run /\ wk'.day = wk.day /\ wk'.set = wk.set /\ wk'.from = wk.from
      BY <3>1, <1>r DEF WorkRow
    <3> QED BY <1>6, <2>3, <3>2, <3>3 DEF Record, WorkerFit, WorkerTypeOK, WorkerKnows
  <2> QED BY <1>6, <2>2, <2>3 DEF Record
<1>7. CASE RecordFails \/ ConsumeFails \/ ScrapeWriteFails
  BY <1>7, <1>c, <1>t DEF RecordFails, ConsumeFails, ScrapeWriteFails, FailsAt
<1>8. CASE Consume \/ ScrapeWrite
  BY <1>8, <1>c, <1>t DEF Consume, ScrapeWrite
<1> QED BY <1>1, <1>3, <1>4, <1>5, <1>6, <1>7, <1>8

\* A sweep of the collector knows what it works on.
LEMMA CollectStepFits ==
    ASSUME TypeOK, WorkerKnows, OneScrapePerDigest,
           \/ BeginCollect \/ Resolve \/ ResolveFails
           \/ \E p \in Days \X Batches : PollBatch(p) \/ PollFails(p)
    PROVE  WorkerFit'
<1>r. WorkerTypeOK /\ wk \in WorkRow /\ digests \in [Days -> DigestRow] /\ batches \in [Batches -> BatchRow]
  BY DEF TypeOK, WorkerTypeOK, DigestStoreTypeOK
<1>1. CASE BeginCollect
  <2>1. {<<d, digests[d].batch>> : d \in PendingDays} \in SUBSET (Days \X Batches)
    BY <1>r DEF PendingDays, DigestRow, OrNull
  <2>2. PICK left \in SUBSET (Days \X Batches) : left = {<<d, digests[d].batch>> : d \in PendingDays}
    BY <2>1
  <2>3. Sweep(left)
    BY <1>1, <2>2 DEF BeginCollect
  <2> QED BY <2>3, SweepFits
<1>2. CASE Resolve \/ ResolveFails
  <2>1. wk.set \in SUBSET (Days \X Batches) /\ Sweep(wk.set)
    BY <1>2 DEF Resolve, ResolveFails, WorkerKnows
  <2>2. PICK left \in SUBSET (Days \X Batches) : left = wk.set
    BY <2>1
  <2> QED BY <2>1, <2>2, SweepFits
<1>3. ASSUME NEW p \in Days \X Batches, PollBatch(p) \/ PollFails(p) PROVE WorkerFit'
  <2>1. wk.pc = "collect" /\ wk.run = Null /\ wk.set \subseteq Days \X Batches /\ Single(wk.from)
    BY <1>3 DEF PollBatch, PollFails, WorkerKnows
  <2>2. PICK left \in SUBSET (Days \X Batches) : left = wk.set \ {p}
    BY <2>1
  <2>3. CASE Sweep(wk.set \ {p})
    <3>1. Sweep(left)
      BY <2>2, <2>3
    <3> QED BY <3>1, SweepFits
  <2>4. ASSUME NEW row \in DigestRow, row.status # "absent", Single(row.from),
               wk' = [wk EXCEPT !.pc = "resolve", !.set = @ \ {p}, !.day = p[1], !.result = row]
        PROVE  WorkerFit'
    <3>1. wk' = [wk EXCEPT !.pc = "resolve", !.set = left, !.day = p[1], !.result = row]
      BY <2>2, <2>4, <1>r DEF WorkRow
    <3>2. p[1] \in Days
      OBVIOUS
    <3>3. wk' \in WorkRow
      BY <3>1, <3>2, <1>r DEF WorkRow, Steps, OrNull
    <3>4. /\ wk'.pc = "resolve" /\ wk'.run = wk.run /\ wk'.set = left /\ wk'.day = p[1]
          /\ wk'.result = row /\ wk'.from = wk.from
      BY <3>1, <1>r DEF WorkRow
    <3> QED BY <2>1, <2>4, <3>2, <3>3, <3>4 DEF WorkerFit, WorkerTypeOK, WorkerKnows
  <2>5. Failed \in DigestRow /\ Failed.status # "absent" /\ Single(Failed.from)
    BY DEF Failed, DigestRow, OrNull, Single
  <2>6. batches[p[2]].from \subseteq ScrapeRuns
    BY <1>r DEF BatchRow
  <2>7. PICK f \in DigestRow : f = Failed
    BY <2>5
  <2>8. Completed(batches[p[2]].from) \in DigestRow
        /\ Completed(batches[p[2]].from).status = "completed"
        /\ Completed(batches[p[2]].from).from = batches[p[2]].from
    BY <2>6 DEF Completed, DigestRow, OrNull
  <2>9. PICK g \in DigestRow : g = Completed(batches[p[2]].from)
    BY <2>8
  <2>10. Single(batches[p[2]].from)
    BY DEF OneScrapePerDigest, Single
  <2> QED BY <1>3, <2>3, <2>4, <2>5, <2>7, <2>8, <2>9, <2>10 DEF PollBatch, PollFails
<1> QED BY <1>1, <1>2, <1>3

\* Every step leaves the worker knowing what it works on.
LEMMA WorkerStep == Inv /\ [Next]_vars => WorkerFit'
<1> SUFFICES ASSUME Inv, [Next]_vars PROVE WorkerFit'
  OBVIOUS
<1>i. TypeOK /\ WorkerKnows /\ RankBounded /\ OneScrapePerDigest
  BY DEF Inv
<1>1. CASE UNCHANGED wk
  BY <1>1, <1>i DEF TypeOK, WorkerFit, WorkerTypeOK, WorkerKnows
<1>2. CASE WorkerNext
  <2>1. CASE FinishRun
    <3>1. wk' = Idle
      BY <2>1 DEF FinishRun
    <3> QED BY <3>1, IdleRow DEF WorkerFit, WorkerTypeOK, WorkerKnows, Single
  <2> QED BY <1>2, <1>i, <2>1, RunStepFits, SummaryStepFits, CollectStepFits DEF WorkerNext
<1>3. CASE WorkerCrash
  <2>1. wk' = Idle
    BY <1>3 DEF WorkerCrash
  <2> QED BY <2>1, IdleRow DEF WorkerFit, WorkerTypeOK, WorkerKnows, Single
<1> QED BY <1>1, <1>2, <1>3 DEF Next, vars

-----------------------------------------------------------------------------
(* What becomes of artifacts *)

\* A scrape writes its artifacts where there were none.
LEMMA ScrapeWriteArts ==
    ASSUME Inv, ScrapeWrite
    PROVE  /\ wk.run \in ScrapeRuns /\ wk.set \in SUBSET Artifacts /\ wk.expires \in Nat
           /\ \A a \in wk.set : Producer(a) = wk.run
           /\ Of(wk.run) = {}
           /\ arts' = [a \in Artifacts |->
                 IF a \in wk.set THEN [status |-> "pending", holder |-> Null,
                                       expires |-> wk.expires, consumer |-> Null]
                 ELSE arts[a]]
           /\ rank' = [rank EXCEPT ![wk.run] = 1 + (IF \E q \in ScrapeRuns : rank[q] # 0
                                                    THEN rank[Newest(ScrapeRuns)] ELSE 0)]
<1>1. wk.pc = "write" /\ ArtifactsWritten(wk.run, wk.set, wk.expires)
  BY DEF ScrapeWrite
<1>2. wk.run \in ScrapeRuns /\ wk.set \subseteq {wk.run} \X Sources /\ wk.expires \in Nat
  BY <1>1 DEF Inv, TypeOK, WorkerTypeOK, WorkRow, WorkerKnows
<1>3. wk.set \in SUBSET Artifacts /\ \A a \in wk.set : Producer(a) = wk.run
  BY <1>2 DEF Artifacts, Producer
<1>4. Of(wk.run) = {}
  BY <1>1 DEF Inv, Unwritten
<1>5. PendingOf(wk.run) = {}
  BY <1>4 DEF PendingOf
<1> QED BY <1>1, <1>2, <1>3, <1>4, <1>5 DEF ArtifactsWritten

\* A run of digest.llm uses up artifacts that are there.
LEMMA ConsumeArts ==
    ASSUME Inv, Consume
    PROVE  /\ wk.pc = "consume" /\ wk.run \in LlmRuns /\ wk.run \in Runs /\ wk.set \in SUBSET Artifacts
           /\ \A a \in wk.set : Exists(a) /\ Of(Producer(a)) \subseteq wk.set
           /\ arts' = [a \in Artifacts |->
                 IF a \in wk.set THEN [arts[a] EXCEPT !.status = "done", !.consumer = wk.run]
                 ELSE arts[a]]
<1>1. wk.pc = "consume" /\ Consumed(wk.set, wk.run)
  BY DEF Consume
<1> QED BY <1>1 DEF Inv, WorkerKnows, WholeScrapes, Consumed, Runs

\* A claim takes a whole scrape, pending or out of its lease, or nothing.
LEMMA ClaimTakeArts ==
    ASSUME Inv, NEW c \in Calls, ClaimTake(c), ~UNCHANGED <<arts, told>>
    PROVE  \E n \in Runners, r \in ScrapeRuns, until \in Nat :
             /\ \A a \in Of(r) : \/ Is(a, "pending")
                                 \/ Is(a, "claimed") /\ arts[a].expires <= clock
             /\ Of(r) # {}
             /\ arts' = [a \in Artifacts |->
                   IF a \in Of(r) THEN [arts[a] EXCEPT !.status = "claimed", !.holder = n, !.expires = until]
                   ELSE arts[a]]
             /\ UNCHANGED told \/ told' = [told EXCEPT ![n][r] = until]
<1> DEFINE taken == ClaimableOf(call[c].run, call[c].now)
<1>1. call[c].pc = "claim" /\ taken # {} /\ Claimed(taken, call[c].runner, call[c].now + WorkLease)
      /\ (UNCHANGED told \/ told' = [told EXCEPT ![call[c].runner][call[c].run] = call[c].now + WorkLease])
  BY DEF ClaimTake
<1>2. call[c].runner \in Runners /\ call[c].run \in ScrapeRuns /\ call[c].now <= clock
  BY <1>1 DEF Inv, CallsKnow
<1>3. call[c].now \in Nat /\ clock \in Nat /\ call[c].now + WorkLease \in Nat
  BY DigestConstants DEF Inv, TypeOK, DigestStoreTypeOK, WorkTypeOK, CallRow, Time
<1>4. PICK n \in Runners, r \in ScrapeRuns, now \in Nat :
          n = call[c].runner /\ r = call[c].run /\ now = call[c].now
  BY <1>2, <1>3
<1>5. taken \subseteq Of(r) /\ \A a \in taken : \/ Is(a, "pending")
                                                \/ Is(a, "claimed") /\ arts[a].expires <= now
  BY <1>4 DEF ClaimableOf
<1>6. Of(r) \subseteq taken
  <2>1. PICK b \in taken : b \in Of(r)
    BY <1>1, <1>5
  <2>2. ASSUME NEW a \in Of(r) PROVE arts[a] = arts[b] /\ Exists(a)
    BY <2>1, <2>2 DEF Inv, ScrapeMovesTogether, Of
  <2>3. "scrape" \in external
    BY <2>1 DEF ClaimableOf
  <2> QED BY <1>4, <1>5, <2>1, <2>2, <2>3 DEF ClaimableOf, Is
<1>7. taken = Of(r)
  BY <1>5, <1>6
<1>8. \A a \in Of(r) : \/ Is(a, "pending")
                       \/ Is(a, "claimed") /\ arts[a].expires <= clock
  <2>1. ASSUME NEW a \in Of(r), Is(a, "claimed"), arts[a].expires <= now PROVE arts[a].expires <= clock
    <3>1. arts[a].expires \in Nat
      BY <2>1 DEF Inv, TypeOK, DigestStoreTypeOK, OrNull, ArtifactRow, Of, Exists
    <3> QED BY <1>2, <1>3, <1>4, <2>1, <3>1
  <2> QED BY <1>5, <1>7, <2>1
<1>9. arts' = [a \in Artifacts |->
          IF a \in Of(r) THEN [arts[a] EXCEPT !.status = "claimed", !.holder = n, !.expires = now + WorkLease]
          ELSE arts[a]]
  BY <1>1, <1>4, <1>7 DEF Claimed
<1>10. now + WorkLease \in Nat
  BY <1>3, <1>4
<1>11. UNCHANGED told \/ told' = [told EXCEPT ![n][r] = now + WorkLease]
  BY <1>1, <1>4
<1>12. Of(r) # {}
  BY <1>1, <1>7
<1> QED BY <1>8, <1>9, <1>10, <1>11, <1>12

\* A completion finishes what its runner holds of one scrape, and closes the run.
LEMMA CompleteWriteArts ==
    ASSUME Inv, NEW c \in Calls, CompleteWrite(c)
    PROVE  \E n \in Runners, r \in ScrapeRuns, status \in {"failed", "succeeded"} :
             /\ arts' = [a \in Artifacts |->
                   IF a \in Of(r) /\ arts[a].holder = n /\ arts[a].status = "claimed"
                   THEN [arts[a] EXCEPT !.status = "done", !.consumer = r]
                   ELSE arts[a]]
             /\ runs' = [runs EXCEPT ![r] = [status |-> status, runner |-> n]]
             /\ UNCHANGED digests
<1>1. call[c].runner \in Runners /\ call[c].run \in ScrapeRuns
  BY DEF CompleteWrite, Inv, CallsKnow
<1>2. PICK n \in Runners, r \in ScrapeRuns : n = call[c].runner /\ r = call[c].run
  BY <1>1
<1>3. StageOf(r) # "llm"
  BY DEF StageOf
<1>4. UNCHANGED digests
  BY <1>2, <1>3 DEF CompleteWrite
<1>5. Consumed({a \in HeldBy(n, r) : Is(a, "claimed")}, r)
  BY <1>2 DEF CompleteWrite
<1>6. \A a \in Artifacts : a \in {x \in HeldBy(n, r) : Is(x, "claimed")}
                              <=> a \in Of(r) /\ arts[a].holder = n /\ arts[a].status = "claimed"
  BY DEF HeldBy, Is, Of
<1>7. arts' = [a \in Artifacts |->
                   IF a \in Of(r) /\ arts[a].holder = n /\ arts[a].status = "claimed"
                   THEN [arts[a] EXCEPT !.status = "done", !.consumer = r]
                   ELSE arts[a]]
  BY <1>5, <1>6 DEF Consumed
<1>8. PICK status \in {"failed", "succeeded"} : runs' = [runs EXCEPT ![r] = [status |-> status, runner |-> n]]
  BY <1>2 DEF CompleteWrite
<1> QED BY <1>4, <1>7, <1>8

\* The sweep expires pending rows.
LEMMA SweepArts ==
    ASSUME SweepArtifacts
    PROVE  /\ \A a \in Lapsed : a \in Artifacts /\ Exists(a) /\ arts[a].status = "pending"
           /\ arts' = [a \in Artifacts |->
                 IF a \in Lapsed THEN [arts[a] EXCEPT !.status = "expired"] ELSE arts[a]]
BY DEF SweepArtifacts, Lapsed, Is

\* Every step keeps the types of artifacts and ranks, and a bound of the ranks.
LEMMA ArtsType ==
    Inv /\ [Next]_vars =>
        /\ (arts \in [Artifacts -> OrNull(ArtifactRow)])'
        /\ (rank \in [ScrapeRuns -> Nat])' /\ RankBounded'
<1> SUFFICES ASSUME Inv, [Next]_vars
             PROVE  /\ (arts \in [Artifacts -> OrNull(ArtifactRow)])'
                    /\ (rank \in [ScrapeRuns -> Nat])' /\ RankBounded'
  OBVIOUS
<1>1. arts \in [Artifacts -> OrNull(ArtifactRow)] /\ rank \in [ScrapeRuns -> Nat] /\ RankBounded
  BY DEF Inv, TypeOK, DigestStoreTypeOK
<1>2. \A a \in Artifacts : Exists(a) => arts[a] \in ArtifactRow
  BY <1>1 DEF OrNull, Exists
<1>3. CASE UNCHANGED <<arts, rank>>
  BY <1>1, <1>3 DEF RankBounded
<1>4. CASE ScrapeWrite
  <2>1. (arts \in [Artifacts -> OrNull(ArtifactRow)])'
    <3>1. [status |-> "pending", holder |-> Null, expires |-> wk.expires, consumer |-> Null] \in ArtifactRow
      BY <1>4, ScrapeWriteArts DEF ArtifactRow, OrNull
    <3> QED BY <1>1, <1>4, <3>1, ScrapeWriteArts DEF OrNull
  <2>2. wk.run \in ScrapeRuns
    BY <1>4, ScrapeWriteArts
  <2>3. Newest(ScrapeRuns) \in ScrapeRuns /\ \A q \in ScrapeRuns : rank[q] <= rank[Newest(ScrapeRuns)]
    BY <1>1, <2>2, NewestOldest
  <2>4. PICK k \in Nat : k = IF \E q \in ScrapeRuns : rank[q] # 0
                             THEN rank[Newest(ScrapeRuns)] ELSE 0
    BY <1>1, <2>3
  <2>5. rank' = [rank EXCEPT ![wk.run] = 1 + k]
    BY <1>4, <2>4, ScrapeWriteArts
  <2>6. \A q \in ScrapeRuns : rank[q] <= k
    BY <1>1, <2>3, <2>4
  <2>7. rank' \in [ScrapeRuns -> Nat]
    <3>1. 1 + k \in Nat
      OBVIOUS
    <3> QED BY <1>1, <2>2, <2>5, <3>1
  <2>8. \A q \in ScrapeRuns : rank'[q] <= 1 + k
    BY <1>1, <2>5, <2>6
  <2>9. 1 + k \in Nat
    OBVIOUS
  <2> QED BY <2>1, <2>7, <2>8, <2>9 DEF RankBounded
<1>5. CASE UNCHANGED rank /\ ~UNCHANGED arts
  <2>1. RankBounded' /\ (rank \in [ScrapeRuns -> Nat])'
    BY <1>1, <1>5 DEF RankBounded
  <2>2. CASE Consume
    <3>1. PICK r \in Runs, S \in SUBSET Artifacts : r = wk.run /\ S = wk.set
      BY <2>2, ConsumeArts
    <3>2. \A a \in S : Exists(a)
      BY <2>2, <3>1, ConsumeArts
    <3>3. \A a \in S : [arts[a] EXCEPT !.status = "done", !.consumer = r] \in ArtifactRow
      BY <1>2, <3>2 DEF ArtifactRow, OrNull
    <3>4. arts' = [a \in Artifacts |->
              IF a \in S THEN [arts[a] EXCEPT !.status = "done", !.consumer = r] ELSE arts[a]]
      BY <2>2, <3>1, ConsumeArts
    <3> QED BY <1>1, <2>1, <3>3, <3>4 DEF OrNull
  <2>3. ASSUME NEW c \in Calls, ClaimTake(c) PROVE (arts \in [Artifacts -> OrNull(ArtifactRow)])'
    <3>1. PICK n \in Runners, r \in ScrapeRuns, until \in Nat :
              arts' = [a \in Artifacts |->
                   IF a \in Of(r) THEN [arts[a] EXCEPT !.status = "claimed", !.holder = n, !.expires = until]
                   ELSE arts[a]]
      BY <1>5, <2>3, ClaimTakeArts
    <3>2. \A a \in Of(r) : [arts[a] EXCEPT !.status = "claimed", !.holder = n, !.expires = until] \in ArtifactRow
      BY <1>2 DEF ArtifactRow, OrNull, Of
    <3> QED BY <1>1, <3>1, <3>2 DEF OrNull
  <2>4. ASSUME NEW c \in Calls, CompleteWrite(c) PROVE (arts \in [Artifacts -> OrNull(ArtifactRow)])'
    <3>1. PICK n \in Runners, r \in ScrapeRuns :
              arts' = [a \in Artifacts |->
                   IF a \in Of(r) /\ arts[a].holder = n /\ arts[a].status = "claimed"
                   THEN [arts[a] EXCEPT !.status = "done", !.consumer = r]
                   ELSE arts[a]]
      BY <2>4, CompleteWriteArts
    <3>2. \A a \in Of(r) : [arts[a] EXCEPT !.status = "done", !.consumer = r] \in ArtifactRow
      BY <1>2 DEF ArtifactRow, OrNull, Of, Runs
    <3> QED BY <1>1, <3>1, <3>2 DEF OrNull
  <2>5. CASE SweepArtifacts
    <3>1. \A a \in Lapsed : [arts[a] EXCEPT !.status = "expired"] \in ArtifactRow
      BY <1>2, <2>5, SweepArts DEF ArtifactRow
    <3> QED BY <1>1, <2>1, <2>5, <3>1, SweepArts DEF OrNull
  <2>6. CASE ScrapeWrite
    BY <1>4, <2>6
  <2> QED BY <1>5, <2>1, <2>2, <2>3, <2>4, <2>5, <2>6, ArtsWriters
<1>6. UNCHANGED rank \/ ScrapeWrite
  BY RankWriters
<1> QED BY <1>3, <1>4, <1>5, <1>6

\* A row that is there stays, and only a scrape that had none inserts some.
LEMMA ArtsStay ==
    ASSUME Inv, [Next]_vars, NEW r \in ScrapeRuns
    PROVE  Of(r)' = Of(r) \/ (ScrapeWrite /\ r = wk.run /\ Of(r) = {})
<1>1. arts \in [Artifacts -> OrNull(ArtifactRow)]
  BY DEF Inv, TypeOK, DigestStoreTypeOK
<1>2. (arts \in [Artifacts -> OrNull(ArtifactRow)])'
  BY ArtsType
<1>3. \A a \in Artifacts : Exists(a) => arts[a] \in ArtifactRow
  BY <1>1 DEF OrNull, Exists
<1>4. CASE UNCHANGED <<arts, rank>>
  BY <1>4 DEF Of, Exists
<1>5. CASE ScrapeWrite
  <2>1. CASE r = wk.run
    BY <1>5, <2>1, ScrapeWriteArts
  <2>2. CASE r # wk.run
    <3>1. \A a \in Artifacts : Producer(a) = r => arts'[a] = arts[a]
      BY <1>5, <2>2, ScrapeWriteArts
    <3> QED BY <3>1 DEF Of, Exists
  <2> QED BY <2>1, <2>2
<1>6. CASE ~UNCHANGED arts /\ ~ScrapeWrite
  <2>1. ASSUME \A a \in Artifacts :
                  \/ arts'[a] = arts[a]
                  \/ Exists(a) /\ arts'[a] \in ArtifactRow
        PROVE  Of(r)' = Of(r)
    <3>1. \A a \in Artifacts : arts'[a] # Null <=> arts[a] # Null
      BY <2>1, DigestNull DEF Exists
    <3> QED BY <3>1 DEF Of, Exists
  <2>2. CASE Consume
    <3>1. PICK q \in Runs, S \in SUBSET Artifacts : q = wk.run /\ S = wk.set
      BY <2>2, ConsumeArts
    <3>2. \A a \in S : Exists(a)
      BY <2>2, <3>1, ConsumeArts
    <3>3. \A a \in S : [arts[a] EXCEPT !.status = "done", !.consumer = q] \in ArtifactRow
      BY <1>3, <3>2 DEF ArtifactRow, OrNull
    <3>4. arts' = [a \in Artifacts |->
              IF a \in S THEN [arts[a] EXCEPT !.status = "done", !.consumer = q] ELSE arts[a]]
      BY <2>2, <3>1, ConsumeArts
    <3> QED BY <2>1, <3>2, <3>3, <3>4
  <2>3. ASSUME NEW c \in Calls, ClaimTake(c) PROVE Of(r)' = Of(r)
    <3>1. PICK n \in Runners, q \in ScrapeRuns, until \in Nat :
              arts' = [a \in Artifacts |->
                   IF a \in Of(q) THEN [arts[a] EXCEPT !.status = "claimed", !.holder = n, !.expires = until]
                   ELSE arts[a]]
      BY <1>6, <2>3, ClaimTakeArts
    <3>2. \A a \in Of(q) : /\ Exists(a)
                           /\ [arts[a] EXCEPT !.status = "claimed", !.holder = n, !.expires = until] \in ArtifactRow
      BY <1>3 DEF ArtifactRow, OrNull, Of
    <3> QED BY <2>1, <3>1, <3>2
  <2>4. ASSUME NEW c \in Calls, CompleteWrite(c) PROVE Of(r)' = Of(r)
    <3>1. PICK n \in Runners, q \in ScrapeRuns :
              arts' = [a \in Artifacts |->
                   IF a \in Of(q) /\ arts[a].holder = n /\ arts[a].status = "claimed"
                   THEN [arts[a] EXCEPT !.status = "done", !.consumer = q]
                   ELSE arts[a]]
      BY <2>4, CompleteWriteArts
    <3>2. \A a \in Of(q) : /\ Exists(a)
                           /\ [arts[a] EXCEPT !.status = "done", !.consumer = q] \in ArtifactRow
      BY <1>3 DEF ArtifactRow, OrNull, Of, Runs
    <3> QED BY <2>1, <3>1, <3>2
  <2>5. CASE SweepArtifacts
    <3>1. \A a \in Lapsed : Exists(a) /\ [arts[a] EXCEPT !.status = "expired"] \in ArtifactRow
      BY <1>3, <2>5, SweepArts DEF ArtifactRow
    <3> QED BY <2>1, <2>5, <3>1, SweepArts
  <2> QED BY <1>6, <2>2, <2>3, <2>4, <2>5, ArtsWriters
<1> QED BY <1>4, <1>5, <1>6, RankWriters

-----------------------------------------------------------------------------
(* The rest of the store *)

\* Every step keeps the types of runs, digests and batches, and of the clock.
LEMMA StoreType == Inv /\ [Next]_vars => DigestStoreTypeOK'
<1> SUFFICES ASSUME Inv, [Next]_vars PROVE DigestStoreTypeOK'
  OBVIOUS
<1>1. DigestStoreTypeOK /\ WorkerKnows /\ WorkerTypeOK
  BY DEF Inv, TypeOK
<1>2. (clock \in Time)'
  BY <1>1, ClockWriters, DigestConstants DEF DigestStoreTypeOK, Tock, Time
<1>3. (mode \in Modes /\ external \subseteq Movable)'
  BY <1>1, ModeWriters DEF DigestStoreTypeOK, ChangeRunner
<1>4. (faults \in 0..MaxFaults)'
  BY <1>1, FaultsWriters, DigestConstants DEF DigestStoreTypeOK, Fault
<1>5. (runs \in [Runs -> RunRow])'
  <2>1. CASE UNCHANGED runs
    BY <1>1, <2>1 DEF DigestStoreTypeOK
  <2>2. ASSUME NEW r \in Runs, BeginRun(r) PROVE (runs \in [Runs -> RunRow])'
    <3>1. [runs[r] EXCEPT !.status = "running"] \in RunRow
      BY <1>1 DEF DigestStoreTypeOK, RunRow
    <3> QED BY <1>1, <2>2, <3>1 DEF BeginRun, Closed, DigestStoreTypeOK
  <2>3. CASE FinishRun
    <3>1. CASE Closed(wk.run, wk.outcome)
      <4>1. PICK r \in Runs, outcome \in {"succeeded", "failed"} : r = wk.run /\ outcome = wk.outcome
        BY <1>1, <2>3 DEF FinishRun, WorkerKnows
      <4>2. [runs[r] EXCEPT !.status = outcome] \in RunRow
        BY <1>1 DEF DigestStoreTypeOK, RunRow
      <4> QED BY <1>1, <3>1, <4>1, <4>2 DEF Closed, DigestStoreTypeOK
    <3> QED BY <2>1, <2>3, <3>1 DEF FinishRun
  <2>4. ASSUME NEW c \in Calls, CompleteWrite(c) PROVE (runs \in [Runs -> RunRow])'
    <3>1. PICK n \in Runners, r \in ScrapeRuns, status \in {"failed", "succeeded"} :
              runs' = [runs EXCEPT ![r] = [status |-> status, runner |-> n]]
      BY <2>4, CompleteWriteArts
    <3>2. [status |-> status, runner |-> n] \in RunRow
      BY DEF RunRow, OrNull
    <3> QED BY <1>1, <3>1, <3>2 DEF DigestStoreTypeOK, Runs
  <2> QED BY <2>1, <2>2, <2>3, <2>4, RunsWriters
<1>6. (digests \in [Days -> DigestRow])'
  <2>1. CASE UNCHANGED digests
    BY <1>1, <2>1 DEF DigestStoreTypeOK
  <2>2. ASSUME NEW d \in Days, NEW row \in DigestRow, Persisted(d, row) PROVE (digests \in [Days -> DigestRow])'
    BY <1>1, <2>2 DEF Persisted, DigestStoreTypeOK
  <2>3. ASSUME NEW d \in Days, Demoted(d) PROVE (digests \in [Days -> DigestRow])'
    <3>1. [digests[d] EXCEPT !.status = "failed", !.batch = Null] \in DigestRow
      BY <1>1 DEF DigestStoreTypeOK, DigestRow, OrNull
    <3> QED BY <1>1, <2>3, <3>1 DEF Demoted, DigestStoreTypeOK
  <2>4. CASE Record \/ Resolve
    <3>1. wk.day \in Days /\ wk.result \in DigestRow /\ (Persisted(wk.day, wk.result) \/ Demoted(wk.day))
      BY <1>1, <2>4 DEF Record, Resolve, WorkerKnows
    <3>2. PICK d \in Days, row \in DigestRow : d = wk.day /\ row = wk.result
      BY <3>1
    <3> QED BY <2>2, <2>3, <3>1, <3>2
  <2> QED BY <2>1, <2>4, DigestsWriters, CompleteWriteArts
<1>7. (batches \in [Batches -> BatchRow])'
  <2>1. ASSUME NEW b \in Batches, SubmitBatch(b) PROVE (batches \in [Batches -> BatchRow])'
    <3>1. [state |-> "processing", day |-> wk.day, from |-> wk.from] \in BatchRow
      BY <1>1 DEF WorkerTypeOK, WorkRow, BatchRow
    <3> QED BY <1>1, <2>1, <3>1 DEF SubmitBatch, DigestStoreTypeOK
  <2>2. ASSUME NEW b \in Batches, EndBatch(b) PROVE (batches \in [Batches -> BatchRow])'
    <3>1. PICK state \in {"good", "bad"} : batches' = [batches EXCEPT ![b].state = state]
      BY <2>2 DEF EndBatch
    <3>2. [batches[b] EXCEPT !.state = state] \in BatchRow
      BY <1>1 DEF DigestStoreTypeOK, BatchRow
    <3> QED BY <1>1, <3>1, <3>2 DEF DigestStoreTypeOK
  <2> QED BY <1>1, <2>1, <2>2, BatchesWriters DEF DigestStoreTypeOK
<1> QED BY <1>2, <1>3, <1>4, <1>5, <1>6, <1>7, ArtsType DEF DigestStoreTypeOK

\* A row of a day, once there, stays, and is pending only as long as it is unchanged.
LEMMA DaysStay ==
    ASSUME Inv, [Next]_vars, NEW d \in Days
    PROVE  digests[d].status # "absent" =>
              /\ digests'[d].status # "absent"
              /\ digests'[d].status = "pending" => digests'[d] = digests[d]
<1>1. digests \in [Days -> DigestRow] /\ WorkerKnows
  BY DEF Inv, TypeOK, DigestStoreTypeOK
<1>2. CASE UNCHANGED digests
  BY <1>2
<1>3. ASSUME NEW e \in Days, NEW row \in DigestRow, row.status # "absent", Persisted(e, row)
      PROVE  digests[d].status # "absent" =>
              /\ digests'[d].status # "absent"
              /\ digests'[d].status = "pending" => digests'[d] = digests[d]
  BY <1>1, <1>3 DEF Persisted
<1>4. ASSUME NEW e \in Days, Demoted(e)
      PROVE  digests[d].status # "absent" =>
              /\ digests'[d].status # "absent"
              /\ digests'[d].status = "pending" => digests'[d] = digests[d]
  <2>1. CASE d = e /\ digests[e].status = "pending"
    <3>1. digests'[d] = [digests[e] EXCEPT !.status = "failed", !.batch = Null]
      BY <1>1, <1>4, <2>1 DEF Demoted
    <3>2. digests'[d].status = "failed"
      BY <1>1, <3>1 DEF DigestRow
    <3> QED BY <3>2
  <2>2. CASE ~(d = e /\ digests[e].status = "pending")
    BY <1>1, <1>4, <2>2 DEF Demoted
  <2> QED BY <2>1, <2>2
<1>5. CASE Record \/ Resolve
  <2>1. /\ wk.day \in Days /\ wk.result \in DigestRow /\ wk.result.status # "absent"
        /\ Persisted(wk.day, wk.result) \/ Demoted(wk.day)
    BY <1>1, <1>5 DEF Record, Resolve, WorkerKnows
  <2>2. PICK e \in Days, row \in DigestRow : e = wk.day /\ row = wk.result
    BY <2>1
  <2> QED BY <1>3, <1>4, <2>1, <2>2
<1> QED BY <1>2, <1>5, DigestsWriters, CompleteWriteArts

\* A batch that went bad stays so.
LEMMA BadStays ==
    ASSUME Inv, [Next]_vars, NEW b \in Batches, batches[b].state = "bad"
    PROVE  batches'[b].state = "bad"
<1>1. batches \in [Batches -> BatchRow]
  BY DEF Inv, TypeOK, DigestStoreTypeOK
<1>2. ASSUME NEW e \in Batches, SubmitBatch(e) \/ EndBatch(e) PROVE batches'[b] = batches[b]
  <2>1. b # e
    BY <1>2 DEF SubmitBatch, EndBatch
  <2> QED BY <1>1, <1>2, <2>1 DEF SubmitBatch, EndBatch
<1> QED BY <1>2, BatchesWriters

-----------------------------------------------------------------------------
(* Where a handler goes next *)

\* Each step of a handler leads to few others.
LEMMA Destinations ==
    ASSUME Inv, [Next]_vars, ~UNCHANGED wk
    PROVE  /\ wk'.pc \in {"scrape", "write"} => (\E r \in Runs : BeginRun(r)) \/ ScrapeFetch
           /\ wk'.pc = "summarise" => (\E d \in BuildDays : BeginBuild(d)) \/ LlmAssemble
           /\ wk'.pc = "record" => SummariseInline \/ (\E b \in Batches : SubmitBatch(b)) \/ SubmitFails
           /\ wk'.pc = "consume" => Record
           /\ wk'.pc \in {"collect", "resolve"} =>
                 \/ BeginCollect \/ Resolve \/ ResolveFails
                 \/ \E p \in Days \X Batches : PollBatch(p) \/ PollFails(p)
<1>r. WorkerTypeOK /\ wk \in WorkRow /\ WorkerKnows
  BY DEF Inv, TypeOK, WorkerTypeOK
<1>c. \A outcome \in {"succeeded", "failed"} : Return(outcome) => wk'.pc \in {"idle", "finish"}
  BY <1>r, ReturnFits
<1>t. Return("succeeded") \/ Return("failed") => wk'.pc \in {"idle", "finish"}
  BY <1>c
<1>g. /\ Goto("newest") => wk'.pc = "newest"
      /\ Goto("consume") => wk'.pc = "consume"
  BY <1>r DEF Goto, WorkRow
<1>1. ASSUME NEW r \in Runs, BeginRun(r) PROVE wk'.pc \in {"scrape", "llm"}
  <2>1. wk' = [Idle EXCEPT !.pc = IF r \in ScrapeRuns THEN "scrape" ELSE "llm",
                           !.run = r, !.day = DayOf[r]]
    BY <1>1 DEF BeginRun
  <2> QED BY <2>1, IdleRow DEF WorkRow
<1>2. FinishRun \/ WorkerCrash => wk'.pc = "idle"
  BY IdleRow DEF FinishRun, WorkerCrash
<1>3. ScrapeFetch => wk'.pc \in {"write", "idle", "finish"}
  BY <1>r, <1>c DEF ScrapeFetch, WorkRow
<1>4. ScrapeWrite \/ ScrapeWriteFails \/ RecordFails \/ Consume \/ ConsumeFails => wk'.pc \in {"idle", "finish"}
  BY <1>t DEF ScrapeWrite, ScrapeWriteFails, RecordFails, Consume, ConsumeFails, FailsAt
<1>5. LlmStart => wk'.pc \in {"newest", "idle", "finish"}
  BY <1>t, <1>g DEF LlmStart
<1>6. LlmNewest => wk'.pc \in {"assemble", "idle", "finish"}
  BY <1>r, <1>t DEF LlmNewest, WorkRow
<1>7. LlmAssemble => wk'.pc \in {"summarise", "idle", "finish"}
  BY <1>r, <1>t DEF LlmAssemble, WorkRow
<1>8. ASSUME NEW d \in BuildDays, BeginBuild(d) PROVE wk'.pc = "summarise"
  BY <1>8, IdleRow DEF BeginBuild, WorkRow
<1>9. ASSUME NEW result, NEW outcome, ToRecord(result, outcome) PROVE wk'.pc = "record"
  BY <1>9, <1>r DEF ToRecord, WorkRow
<1>10. SummariseInline \/ SubmitFails => wk'.pc \in {"record", "idle", "finish"}
  BY <1>9, <1>t DEF SummariseInline, SubmitFails
<1>11. ASSUME NEW b \in Batches, SubmitBatch(b) PROVE wk'.pc \in {"record", "idle", "finish"}
  BY <1>11, <1>9, <1>t DEF SubmitBatch
<1>12. Record => wk'.pc \in {"consume", "idle", "finish"}
  <2>1. Record => wk.outcome \in {"succeeded", "failed"}
    BY <1>r DEF Record, WorkerKnows
  <2> QED BY <2>1, <1>c, <1>g DEF Record
<1>13. \A left : Sweep(left) => wk'.pc \in {"idle", "collect"}
  BY IdleRow DEF Sweep, WorkRow
<1>14. BeginCollect \/ Resolve \/ ResolveFails => wk'.pc \in {"idle", "collect"}
  BY <1>13 DEF BeginCollect, Resolve, ResolveFails
<1>15. ASSUME NEW p \in Days \X Batches, PollBatch(p) \/ PollFails(p) PROVE wk'.pc \in {"idle", "collect", "resolve"}
  BY <1>15, <1>13, <1>r DEF PollBatch, PollFails, WorkRow
<1>16. CASE WorkerNext
  BY <1>16, <1>1, <1>2, <1>3, <1>4, <1>5, <1>6, <1>7, <1>8, <1>10, <1>11, <1>12, <1>14, <1>15
     DEF WorkerNext
<1>17. CASE WorkerCrash
  BY <1>2, <1>17
<1> QED BY <1>16, <1>17 DEF Next, vars

-----------------------------------------------------------------------------
(* The rest of the invariant, a part at a time *)

\* Calls of the work API keep their types and what they know.
LEMMA CallsStep == Inv /\ [Next]_vars => WorkTypeOK' /\ CallsKnow'
<1> SUFFICES ASSUME Inv, [Next]_vars PROVE WorkTypeOK' /\ CallsKnow'
  OBVIOUS
<1>1. WorkTypeOK /\ CallsKnow /\ clock \in Nat /\ clock \in Time
  BY DigestConstants DEF Inv, TypeOK, DigestStoreTypeOK, Time
<1>2. CASE UNCHANGED workVars
  <2>1. clock' \in Nat /\ clock <= clock'
    BY <1>1, ClockWriters DEF Tock
  <2>2. \A c \in Calls : call[c].now \in Nat
    BY <1>1, DigestConstants DEF WorkTypeOK, CallRow, Time
  <2>3. \A c \in Calls : call[c].pc # "none" => call[c].now <= clock'
    BY <1>1, <2>1, <2>2 DEF CallsKnow
  <2> QED BY <1>1, <1>2, <2>3 DEF workVars, WorkTypeOK, CallsKnow
<1>3. CASE WorkNext
  <2>1. PICK c \in Calls :
          \/ \E n \in Runners : ClaimFind(c, n) \/ \E r \in ScrapeRuns : CompleteCheck(c, n, r)
          \/ ClaimTake(c) \/ CompleteConfirm(c) \/ CompleteWrite(c) \/ CallFails(c)
    BY <1>3 DEF WorkNext
  <2>2. UNCHANGED clock
    BY <2>1, OtherFootprints
  <2>3. ASSUME NEW row \in CallRow, call' = [call EXCEPT ![c] = row],
               row.pc # "none" => row.runner \in Runners /\ row.run \in ScrapeRuns /\ row.now <= clock
        PROVE  (call \in [Calls -> CallRow])' /\ CallsKnow'
    BY <1>1, <2>2, <2>3 DEF WorkTypeOK, CallsKnow
  <2>4. NoCall \in CallRow /\ NoCall.pc = "none"
    BY DigestConstants DEF NoCall, CallRow, OrNull, Time
  <2>5. Answered(c) => (call \in [Calls -> CallRow])' /\ CallsKnow'
    <3>1. PICK row \in CallRow : row = NoCall
      BY <2>4
    <3> QED BY <2>3, <2>4, <3>1 DEF Answered
  <2>6. ASSUME NEW n \in Runners, ClaimFind(c, n) PROVE WorkTypeOK' /\ CallsKnow'
    <3> DEFINE claimable == {r \in ScrapeRuns : ClaimableOf(r, clock) # {}}
    <3>1. claimable # {} /\ call' = [call EXCEPT ![c] = [NoCall EXCEPT
                !.pc = "claim", !.runner = n, !.run = Oldest(claimable), !.now = clock]]
      BY <2>6 DEF ClaimFind
    <3>2. Oldest(claimable) \in ScrapeRuns
      BY <3>1, NewestOldest DEF Inv, TypeOK, DigestStoreTypeOK
    <3>3. PICK r \in ScrapeRuns, now \in Time : r = Oldest(claimable) /\ now = clock
      BY <1>1, <3>2
    <3>4. PICK row : row = [NoCall EXCEPT !.pc = "claim", !.runner = n, !.run = r, !.now = now]
      OBVIOUS
    <3>5. row \in CallRow /\ row.runner = n /\ row.run = r /\ row.now = now
      BY <2>4, <3>4 DEF CallRow, OrNull
    <3>6. call' = [call EXCEPT ![c] = row] /\ now <= clock
      BY <1>1, <3>1, <3>3, <3>4
    <3>7. UNCHANGED told
      BY <2>6 DEF ClaimFind
    <3> QED BY <1>1, <2>3, <3>5, <3>6, <3>7 DEF WorkTypeOK
  <2>7. ASSUME NEW n \in Runners, NEW r \in ScrapeRuns, CompleteCheck(c, n, r) PROVE WorkTypeOK' /\ CallsKnow'
    <3>1. PICK post \in Posts : call' = [call EXCEPT ![c] = [NoCall EXCEPT
              !.pc = "confirm", !.runner = n, !.run = r, !.post = post]]
      BY <2>7 DEF CompleteCheck
    <3>2. PICK row : row = [NoCall EXCEPT !.pc = "confirm", !.runner = n, !.run = r, !.post = post]
      OBVIOUS
    <3>3. row \in CallRow /\ row.runner = n /\ row.run = r /\ row.now = 0
      BY <2>4, <3>2 DEF CallRow, OrNull, NoCall
    <3>4. call' = [call EXCEPT ![c] = row]
      BY <3>1, <3>2
    <3>5. UNCHANGED told /\ 0 <= clock
      BY <1>1, <2>7 DEF CompleteCheck
    <3> QED BY <1>1, <2>3, <3>3, <3>4, <3>5 DEF WorkTypeOK
  <2>8. CASE ClaimTake(c)
    <3>1. call[c].runner \in Runners /\ call[c].run \in ScrapeRuns /\ call[c].now \in Nat
      BY <1>1, <2>8, DigestConstants DEF ClaimTake, CallsKnow, WorkTypeOK, CallRow, Time
    <3>2. PICK n \in Runners, r \in ScrapeRuns, until \in Nat :
              n = call[c].runner /\ r = call[c].run /\ until = call[c].now + WorkLease
      BY <3>1, DigestConstants
    <3>3. UNCHANGED told \/ told' = [told EXCEPT ![n][r] = until]
      BY <2>8, <3>2 DEF ClaimTake
    <3>4. (told \in [Runners -> [ScrapeRuns -> Nat]])'
      BY <1>1, <3>3 DEF WorkTypeOK
    <3> QED BY <2>5, <2>8, <3>4 DEF ClaimTake, WorkTypeOK
  <2>9. CASE CompleteConfirm(c)
    <3>1. UNCHANGED told
      BY <2>9 DEF CompleteConfirm
    <3>2. CASE call' = [call EXCEPT ![c].pc = "write"]
      <4>1. PICK row : row = [call[c] EXCEPT !.pc = "write"]
        OBVIOUS
      <4>2. row \in CallRow /\ row.runner = call[c].runner /\ row.run = call[c].run /\ row.now = call[c].now
        BY <1>1, <4>1 DEF WorkTypeOK, CallRow
      <4>3. call[c].runner \in Runners /\ call[c].run \in ScrapeRuns /\ call[c].now <= clock
        BY <1>1, <2>9 DEF CompleteConfirm, CallsKnow
      <4>4. call' = [call EXCEPT ![c] = row]
        BY <3>2, <4>1
      <4> QED BY <1>1, <2>3, <3>1, <4>2, <4>3, <4>4 DEF WorkTypeOK
    <3> QED BY <1>1, <2>5, <2>9, <3>1, <3>2 DEF CompleteConfirm, WorkTypeOK
  <2>10. CASE CompleteWrite(c) \/ CallFails(c)
    <3>1. UNCHANGED told /\ Answered(c)
      BY <2>10 DEF CompleteWrite, CallFails
    <3> QED BY <1>1, <2>5, <3>1 DEF WorkTypeOK
  <2> QED BY <2>1, <2>6, <2>7, <2>8, <2>9, <2>10
<1> QED BY <1>2, <1>3 DEF Next, vars

\* A scrape has no artifacts before it runs, after the step either.
LEMMA UnwrittenStep == Inv /\ [Next]_vars => Unwritten'
<1> SUFFICES ASSUME Inv, [Next]_vars PROVE Unwritten'
  OBVIOUS
<1>1. Unwritten /\ WorkerKnows /\ runs \in [Runs -> RunRow] /\ wk \in WorkRow
  BY DEF Inv, TypeOK, DigestStoreTypeOK, WorkerTypeOK
<1>2. ASSUME NEW r \in Runs PROVE runs[r].status # "queued" => runs'[r].status # "queued"
  <2>1. ASSUME NEW q \in Runs, NEW status \in {"running", "failed", "succeeded"},
               runs' = [runs EXCEPT ![q].status = status]
        PROVE  runs[r].status # "queued" => runs'[r].status # "queued"
    <3>1. [runs[q] EXCEPT !.status = status].status = status
      BY <1>1 DEF RunRow
    <3> QED BY <1>1, <2>1, <3>1
  <2>2. ASSUME NEW q \in Runs, BeginRun(q) PROVE runs[r].status # "queued" => runs'[r].status # "queued"
    BY <2>1, <2>2 DEF BeginRun, Closed
  <2>3. CASE FinishRun
    <3>1. wk.run \in Runs /\ wk.outcome \in {"succeeded", "failed"}
      BY <1>1, <2>3 DEF FinishRun, WorkerKnows
    <3>2. PICK q \in Runs, status \in {"succeeded", "failed"} : q = wk.run /\ status = wk.outcome
      BY <3>1
    <3> QED BY <2>1, <2>3, <3>2 DEF FinishRun, Closed
  <2>4. ASSUME NEW c \in Calls, CompleteWrite(c) PROVE runs[r].status # "queued" => runs'[r].status # "queued"
    <3>1. PICK n \in Runners, q \in ScrapeRuns, status \in {"failed", "succeeded"} :
              runs' = [runs EXCEPT ![q] = [status |-> status, runner |-> n]]
      BY <2>4, CompleteWriteArts
    <3> QED BY <1>1, <3>1 DEF Runs
  <2> QED BY <2>2, <2>3, <2>4, RunsWriters
<1>3. ASSUME NEW r \in ScrapeRuns, runs'[r].status = "queued" PROVE Of(r)' = {}
  <2>1. runs[r].status = "queued" /\ Of(r) = {}
    BY <1>1, <1>2, <1>3 DEF Unwritten, Runs
  <2>2. ~(ScrapeWrite /\ r = wk.run)
    BY <1>1, <2>1 DEF ScrapeWrite, Unwritten
  <2> QED BY <2>1, <2>2, ArtsStay
<1>4. CASE UNCHANGED wk
  <2>1. ASSUME wk.pc \in {"scrape", "write"} PROVE Of(wk.run)' = {} /\ runs'[wk.run].status # "queued"
    <3>1. PICK r \in ScrapeRuns : r = wk.run
      BY <1>1, <2>1 DEF WorkerKnows
    <3>2. ~ScrapeWrite
      <4>1. ScrapeWrite => wk.pc = "write" /\ Return("succeeded")
        BY DEF ScrapeWrite
      <4>2. Return("succeeded") => wk'.pc \in {"idle", "finish"}
        BY <1>1, ReturnFits DEF WorkerTypeOK
      <4> QED BY <1>4, <4>1, <4>2
    <3>3. Of(r)' = Of(r) /\ Of(r) = {}
      BY <1>1, <2>1, <3>1, <3>2, ArtsStay DEF Unwritten
    <3>4. runs[r].status # "queued" /\ r \in Runs
      BY <1>1, <2>1, <3>1 DEF Unwritten, Runs
    <3>5. wk'.run = r
      BY <1>4, <3>1
    <3> QED BY <1>2, <1>4, <3>1, <3>3, <3>4, <3>5
  <2> QED BY <1>3, <1>4, <2>1 DEF Unwritten
<1>5. CASE ~UNCHANGED wk
  <2>1. ASSUME NEW r \in Runs, BeginRun(r), wk'.pc \in {"scrape", "write"}
        PROVE  Of(wk.run)' = {} /\ runs'[wk'.run].status # "queued"
    <3>1. runs[r].status = "queued" /\ runs' = [runs EXCEPT ![r].status = "running"] /\ UNCHANGED arts
      BY <2>1 DEF BeginRun, Closed
    <3>2. wk' = [Idle EXCEPT !.pc = IF r \in ScrapeRuns THEN "scrape" ELSE "llm",
                             !.run = r, !.day = DayOf[r]]
      BY <2>1 DEF BeginRun
    <3>3. wk'.run = r /\ r \in ScrapeRuns
      BY <2>1, <3>2, IdleRow DEF WorkRow
    <3>4. Of(r) = {}
      BY <1>1, <3>1, <3>3 DEF Unwritten
    <3>5. Of(r)' = {}
      BY <3>1, <3>4 DEF Of, Exists
    <3>6. [runs[r] EXCEPT !.status = "running"].status = "running"
      BY <1>1 DEF RunRow
    <3>7. runs'[r].status = "running"
      BY <1>1, <3>1, <3>6
    <3> QED BY <3>3, <3>5, <3>7
  <2>2. ASSUME ScrapeFetch, wk'.pc \in {"scrape", "write"}
        PROVE  Of(wk.run)' = {} /\ runs'[wk'.run].status # "queued"
    <3>1. UNCHANGED <<arts, runs>> /\ wk.pc = "scrape"
      BY <2>2 DEF ScrapeFetch, digestStoreVars
    <3>2. ~\E outcome \in {"succeeded", "failed"} : Return(outcome)
      BY <1>1, <2>2, ReturnFits DEF WorkerTypeOK
    <3>3. wk'.run = wk.run
      BY <1>1, <2>2, <3>2 DEF ScrapeFetch, WorkRow
    <3>4. Of(wk.run) = {} /\ runs[wk.run].status # "queued"
      BY <1>1, <3>1 DEF Unwritten
    <3> QED BY <3>1, <3>3, <3>4 DEF Of, Exists
  <2> QED BY <1>3, <1>5, <2>1, <2>2, Destinations DEF Unwritten
<1> QED BY <1>4, <1>5

\* The artifacts of a summary stay whole.
LEMMA WholeStep == Inv /\ [Next]_vars => WholeScrapes'
<1> SUFFICES ASSUME Inv, [Next]_vars, (wk.pc \in {"summarise", "record", "consume"})'
             PROVE  \A a \in wk'.set : Exists(a)' /\ Of(Producer(a))' \subseteq wk'.set
  BY DEF WholeScrapes
<1>1. WholeScrapes /\ WorkerKnows /\ ScrapeMovesTogether /\ wk \in WorkRow
  BY DEF Inv, TypeOK, WorkerTypeOK
<1>2. CASE UNCHANGED wk
  <2>1. ASSUME NEW a \in wk.set PROVE Exists(a)' /\ Of(Producer(a))' \subseteq wk.set
    <3>1. a \in Artifacts /\ Exists(a) /\ Of(Producer(a)) \subseteq wk.set
      BY <1>1, <1>2, <2>1 DEF WholeScrapes, WorkerKnows
    <3>2. PICK r \in ScrapeRuns : r = Producer(a)
      BY <3>1 DEF Artifacts, Producer
    <3>3. ~ScrapeWrite
      BY <1>2 DEF ScrapeWrite
    <3>4. Of(r)' = Of(r)
      BY <3>3, ArtsStay
    <3>5. a \in Of(r)
      BY <3>1, <3>2 DEF Of
    <3>6. Exists(a)'
      BY <3>4, <3>5 DEF Of
    <3> QED BY <3>1, <3>2, <3>4, <3>6
  <2> QED BY <1>2, <2>1
<1>3. CASE ~UNCHANGED wk
  <2>1. ASSUME NEW d \in BuildDays, BeginBuild(d) PROVE wk'.set = {}
    <3>1. wk' = [Idle EXCEPT !.pc = "summarise", !.day = d]
      BY <2>1 DEF BeginBuild
    <3> QED BY <3>1, IdleRow DEF WorkRow
  <2>2. CASE LlmAssemble
    <3> DEFINE found == {a \in Artifacts : Producer(a) \in wk.from /\ Is(a, "pending")}
    <3>1. UNCHANGED arts /\ ~Return("succeeded")
      BY <1>1, <2>2, ReturnFits DEF LlmAssemble, digestStoreVars, WorkerTypeOK
    <3>2. wk' = [wk EXCEPT !.pc = "summarise", !.set = found, !.from = {Producer(a) : a \in found}]
      BY <2>2, <3>1 DEF LlmAssemble
    <3>3. PICK S \in SUBSET Artifacts : S = found
      OBVIOUS
    <3>4. wk'.set = S
      BY <1>1, <3>2, <3>3 DEF WorkRow
    <3>5. \A a \in S, b \in Artifacts : Exists(a) /\ (Producer(b) = Producer(a) /\ Exists(b) => b \in S)
      BY <1>1, <3>3 DEF ScrapeMovesTogether, Is
    <3> QED BY <3>1, <3>4, <3>5 DEF Of, Exists
  <2>3. CASE SummariseInline \/ (\E b \in Batches : SubmitBatch(b)) \/ SubmitFails \/ Record
    <3>1. UNCHANGED arts /\ wk.pc \in {"summarise", "record"}
      BY <2>3, WorkerFootprints DEF SummariseInline, SubmitBatch, SubmitFails, Record
    <3>2. ~Return("succeeded") /\ ~Return("failed")
      BY <1>1, ReturnFits DEF WorkerTypeOK
    <3>3. Record => wk.outcome \in {"succeeded", "failed"}
      BY <1>1 DEF Record, WorkerKnows
    <3>4. \/ Goto("consume")
          \/ \E result, outcome : ToRecord(result, outcome)
      <4>1. CASE SummariseInline
        BY <4>1 DEF SummariseInline
      <4>2. CASE \E b \in Batches : SubmitBatch(b)
        BY <3>2, <4>2 DEF SubmitBatch
      <4>3. CASE SubmitFails
        BY <3>2, <4>3 DEF SubmitFails
      <4>4. CASE Record
        BY <3>2, <3>3, <4>4 DEF Record
      <4> QED BY <2>3, <4>1, <4>2, <4>3, <4>4
    <3>5. wk'.set = wk.set
      BY <1>1, <3>4 DEF Goto, ToRecord, WorkRow
    <3> QED BY <1>1, <3>1, <3>5 DEF WholeScrapes, Of, Exists
  <2> QED BY <1>3, <2>1, <2>2, <2>3, Destinations
<1> QED BY <1>2, <1>3

\* The collector's worklist and verdict still agree with the rows.
LEMMA VerdictStep == Inv /\ [Next]_vars => VerdictStands'
<1> SUFFICES ASSUME Inv, [Next]_vars PROVE VerdictStands'
  OBVIOUS
<1>1. /\ VerdictStands /\ WorkerKnows /\ wk \in WorkRow /\ digests \in [Days -> DigestRow]
      /\ batches \in [Batches -> BatchRow]
  BY DEF Inv, TypeOK, WorkerTypeOK, DigestStoreTypeOK
<1>2. ASSUME NEW p \in Days \X Batches, digests[p[1]].status # "absent",
             digests[p[1]].status = "pending" => digests[p[1]].batch = p[2]
      PROVE  /\ digests'[p[1]].status # "absent"
             /\ digests'[p[1]].status = "pending" => digests'[p[1]].batch = p[2]
  <2>1. PICK d \in Days : d = p[1]
    OBVIOUS
  <2> QED BY <1>2, <2>1, DaysStay
<1>3. CASE UNCHANGED wk
  <2>1. wk.pc \in {"collect", "resolve"} =>
          \A p \in wk.set : /\ digests'[p[1]].status # "absent"
                            /\ digests'[p[1]].status = "pending" => digests'[p[1]].batch = p[2]
    BY <1>1, <1>2 DEF VerdictStands, WorkerKnows
  <2>2. ASSUME wk.pc = "resolve"
        PROVE  /\ digests'[wk.day].status # "absent"
               /\ wk.result.status = "failed" /\ digests'[wk.day].status = "pending" =>
                    /\ digests'[wk.day].batch \in Batches
                    /\ batches'[digests'[wk.day].batch].state = "bad"
    <3>1. PICK d \in Days : d = wk.day
      BY <1>1, <2>2 DEF WorkerKnows
    <3>2. digests[d].status # "absent"
      BY <1>1, <2>2, <3>1 DEF VerdictStands
    <3>3. digests'[d].status # "absent" /\ (digests'[d].status = "pending" => digests'[d] = digests[d])
      BY <3>2, DaysStay
    <3>4. ASSUME wk.result.status = "failed", digests'[d].status = "pending"
          PROVE  digests'[d].batch \in Batches /\ batches'[digests'[d].batch].state = "bad"
      <4>1. digests[d].batch \in Batches /\ batches[digests[d].batch].state = "bad"
        BY <1>1, <2>2, <3>1, <3>3, <3>4 DEF VerdictStands
      <4>2. PICK b \in Batches : b = digests[d].batch
        BY <4>1
      <4> QED BY <3>3, <3>4, <4>1, <4>2, BadStays
    <3> QED BY <3>1, <3>3, <3>4
  <2> QED BY <1>3, <2>1, <2>2 DEF VerdictStands
<1>4. CASE ~UNCHANGED wk /\ wk'.pc \in {"collect", "resolve"}
  <2>1. ASSUME NEW left \in SUBSET (Days \X Batches), Sweep(left),
               \A p \in left : /\ digests[p[1]].status # "absent"
                               /\ digests[p[1]].status = "pending" => digests[p[1]].batch = p[2]
        PROVE  VerdictStands'
    <3>1. wk'.pc # "resolve" /\ (wk'.pc = "collect" => wk'.set = left)
      BY <2>1, SweepFits
    <3> QED BY <1>2, <2>1, <3>1 DEF VerdictStands
  <2>2. CASE BeginCollect
    <3>1. {<<d, digests[d].batch>> : d \in PendingDays} \in SUBSET (Days \X Batches)
      BY <1>1 DEF PendingDays, DigestRow, OrNull
    <3>2. PICK left \in SUBSET (Days \X Batches) : left = {<<d, digests[d].batch>> : d \in PendingDays}
      BY <3>1
    <3>3. Sweep(left)
      BY <2>2, <3>2 DEF BeginCollect
    <3>4. \A p \in left : digests[p[1]].status = "pending" /\ digests[p[1]].batch = p[2]
      BY <3>2 DEF PendingDays
    <3> QED BY <2>1, <3>3, <3>4
  <2>3. CASE Resolve \/ ResolveFails
    <3>1. wk.pc = "resolve" /\ Sweep(wk.set) /\ wk.set \in SUBSET (Days \X Batches)
      BY <1>1, <2>3 DEF Resolve, ResolveFails, WorkerKnows
    <3>2. PICK left \in SUBSET (Days \X Batches) : left = wk.set
      BY <3>1
    <3> QED BY <1>1, <2>1, <3>1, <3>2 DEF VerdictStands
  <2>4. ASSUME NEW p \in Days \X Batches, PollBatch(p) \/ PollFails(p) PROVE VerdictStands'
    <3>1. wk.pc = "collect" /\ p \in wk.set /\ wk.set \subseteq Days \X Batches
      BY <1>1, <2>4 DEF PollBatch, PollFails, WorkerKnows
    <3>2. PICK left \in SUBSET (Days \X Batches) : left = wk.set \ {p}
      BY <3>1
    <3>3. \A q \in wk.set : /\ digests[q[1]].status # "absent"
                            /\ digests[q[1]].status = "pending" => digests[q[1]].batch = q[2]
      BY <1>1, <3>1 DEF VerdictStands
    <3>4. CASE Sweep(left)
      BY <2>1, <3>2, <3>3, <3>4
    <3>5. CASE ~Sweep(left)
      <4>1. UNCHANGED <<digests, batches>>
        BY <2>4, WorkerFootprints
      <4>2. PICK row : /\ wk' = [wk EXCEPT !.pc = "resolve", !.set = @ \ {p}, !.day = p[1], !.result = row]
                       /\ row.status = "failed" => batches[p[2]].state = "bad"
        <5>1. Completed(batches[p[2]].from).status = "completed"
          BY DEF Completed
        <5> QED BY <2>4, <3>2, <3>5, <5>1 DEF PollBatch, PollFails
      <4>3. wk'.pc = "resolve" /\ wk'.set = left /\ wk'.day = p[1] /\ wk'.result = row
        BY <1>1, <3>2, <4>2 DEF WorkRow
      <4>4. p[2] \in Batches
        OBVIOUS
      <4> QED BY <3>1, <3>2, <3>3, <4>1, <4>2, <4>3, <4>4 DEF VerdictStands
    <3> QED BY <3>4, <3>5
  <2> QED BY <1>4, <2>2, <2>3, <2>4, Destinations
<1>5. CASE ~UNCHANGED wk /\ wk'.pc \notin {"collect", "resolve"}
  BY <1>5 DEF VerdictStands
<1> QED BY <1>3, <1>4, <1>5

\* A run that is about to use up artifacts has recorded its day.
LEMMA RecordedStep == Inv /\ [Next]_vars => AboutToConsume'
<1> SUFFICES ASSUME Inv, [Next]_vars, wk'.pc = "consume" PROVE digests'[wk'.day].status # "absent"
  BY DEF AboutToConsume
<1>1. AboutToConsume /\ WorkerKnows /\ wk \in WorkRow /\ digests \in [Days -> DigestRow]
  BY DEF Inv, TypeOK, WorkerTypeOK, DigestStoreTypeOK
<1>2. CASE UNCHANGED wk
  <2>1. wk.day \in Days
    BY <1>1, <1>2, DigestConstants DEF WorkerKnows, Runs
  <2>2. PICK d \in Days : d = wk.day
    BY <2>1
  <2> QED BY <1>1, <1>2, <2>2, DaysStay DEF AboutToConsume
<1>3. CASE ~UNCHANGED wk
  <2>1. Record
    BY <1>3, Destinations
  <2>2. wk.day \in Days /\ wk.result \in DigestRow /\ wk.result.status # "absent" /\ wk.outcome \in {"succeeded", "failed"}
    BY <1>1, <2>1 DEF Record, WorkerKnows
  <2>3. ~Return(wk.outcome)
    BY <1>1, <2>2, ReturnFits DEF WorkerTypeOK
  <2>4. wk'.day = wk.day
    BY <1>1, <2>1, <2>3 DEF Record, Goto, WorkRow
  <2>5. PICK d \in Days, row \in DigestRow : d = wk.day /\ row = wk.result
    BY <2>2
  <2>6. Persisted(d, row)
    BY <2>1, <2>5 DEF Record
  <2>7. digests'[d].status # "absent"
    BY <1>1, <2>2, <2>5, <2>6 DEF Persisted
  <2> QED BY <2>4, <2>5, <2>7
<1> QED BY <1>2, <1>3

\* Neither a text nor a batch is made of two scrapes.
LEMMA OneScrapeStep == Inv /\ [Next]_vars => OneScrapePerDigest'
<1> SUFFICES ASSUME Inv, [Next]_vars PROVE OneScrapePerDigest'
  OBVIOUS
<1>1. /\ OneScrapePerDigest /\ WorkerKnows /\ digests \in [Days -> DigestRow]
      /\ batches \in [Batches -> BatchRow]
  BY DEF Inv, TypeOK, DigestStoreTypeOK
<1>2. \A d \in Days : Single(digests'[d].from)
  <2>1. ASSUME NEW e \in Days, NEW row \in DigestRow, Single(row.from), Persisted(e, row)
        PROVE  \A d \in Days : Single(digests'[d].from)
    BY <1>1, <2>1 DEF Persisted, OneScrapePerDigest, Single
  <2>2. ASSUME NEW e \in Days, Demoted(e) PROVE \A d \in Days : Single(digests'[d].from)
    <3>1. [digests[e] EXCEPT !.status = "failed", !.batch = Null].from = digests[e].from
      BY <1>1 DEF DigestRow
    <3>2. \A d \in Days : digests'[d].from = digests[d].from
      BY <1>1, <2>2, <3>1 DEF Demoted
    <3> QED BY <1>1, <3>2 DEF OneScrapePerDigest, Single
  <2>3. CASE Record \/ Resolve
    <3>1. /\ wk.day \in Days /\ wk.result \in DigestRow /\ Single(wk.result.from)
          /\ Persisted(wk.day, wk.result) \/ Demoted(wk.day)
      BY <1>1, <2>3 DEF Record, Resolve, WorkerKnows
    <3>2. PICK e \in Days, row \in DigestRow : e = wk.day /\ row = wk.result
      BY <3>1
    <3> QED BY <2>1, <2>2, <3>1, <3>2
  <2>4. CASE UNCHANGED digests
    BY <1>1, <2>4 DEF OneScrapePerDigest, Single
  <2> QED BY <2>3, <2>4, DigestsWriters, CompleteWriteArts
<1>3. \A b \in Batches : Single(batches'[b].from)
  <2>1. ASSUME NEW e \in Batches, SubmitBatch(e) PROVE \A b \in Batches : Single(batches'[b].from)
    <3>1. Single(wk.from)
      BY <1>1 DEF WorkerKnows
    <3>2. \A b \in Batches : batches'[b].from = batches[b].from \/ batches'[b].from = wk.from
      BY <1>1, <2>1 DEF SubmitBatch
    <3> QED BY <1>1, <3>1, <3>2 DEF OneScrapePerDigest, Single
  <2>2. ASSUME NEW e \in Batches, EndBatch(e) PROVE \A b \in Batches : Single(batches'[b].from)
    <3>1. PICK state \in {"good", "bad"} : batches' = [batches EXCEPT ![e].state = state]
      BY <2>2 DEF EndBatch
    <3>2. [batches[e] EXCEPT !.state = state].from = batches[e].from
      BY <1>1 DEF BatchRow
    <3>3. \A b \in Batches : batches'[b].from = batches[b].from
      BY <1>1, <3>1, <3>2
    <3> QED BY <1>1, <3>3 DEF OneScrapePerDigest, Single
  <2>3. CASE UNCHANGED batches
    BY <1>1, <2>3 DEF OneScrapePerDigest, Single
  <2> QED BY <2>1, <2>2, <2>3, BatchesWriters
<1> QED BY <1>2, <1>3 DEF OneScrapePerDigest, Single

\* What a step can make of an artifact that is there.
LEMMA ArtifactFate ==
    ASSUME Inv, [Next]_vars, NEW a \in Artifacts, Exists(a)
    PROVE  \/ arts'[a] = arts[a]
           \/ /\ arts'[a].status = "done" /\ arts'[a].holder = arts[a].holder
              /\ \/ arts'[a].consumer \in ScrapeRuns
                 \/ /\ wk.pc = "consume" /\ wk.run \in LlmRuns /\ wk.day = DayOf[wk.run]
                    /\ arts'[a].consumer = wk.run
           \/ /\ arts'[a].status = "claimed" /\ arts'[a].consumer = arts[a].consumer
              /\ \/ arts[a].status = "pending"
                 \/ arts[a].status = "claimed" /\ arts[a].expires <= clock
           \/ /\ arts'[a].status = "expired" /\ arts[a].status = "pending"
              /\ arts'[a].consumer = arts[a].consumer /\ UNCHANGED told
<1> DEFINE Fate ==
           \/ arts'[a] = arts[a]
           \/ /\ arts'[a].status = "done" /\ arts'[a].holder = arts[a].holder
              /\ \/ arts'[a].consumer \in ScrapeRuns
                 \/ /\ wk.pc = "consume" /\ wk.run \in LlmRuns /\ wk.day = DayOf[wk.run]
                    /\ arts'[a].consumer = wk.run
           \/ /\ arts'[a].status = "claimed" /\ arts'[a].consumer = arts[a].consumer
              /\ \/ arts[a].status = "pending"
                 \/ arts[a].status = "claimed" /\ arts[a].expires <= clock
           \/ /\ arts'[a].status = "expired" /\ arts[a].status = "pending"
              /\ arts'[a].consumer = arts[a].consumer /\ UNCHANGED told
<1> SUFFICES Fate
  OBVIOUS
<1>1. arts[a] \in ArtifactRow /\ WorkerKnows
  BY DEF Inv, TypeOK, DigestStoreTypeOK, Exists, OrNull
<1>2. CASE UNCHANGED arts
  BY <1>2
<1>3. CASE ScrapeWrite
  <2>1. a \notin wk.set
    BY <1>3, ScrapeWriteArts DEF Of
  <2> QED BY <1>3, <2>1, ScrapeWriteArts
<1>4. CASE Consume
  <2>1. a \notin wk.set \/ arts'[a] = [arts[a] EXCEPT !.status = "done", !.consumer = wk.run]
    BY <1>4, ConsumeArts
  <2>2. a \notin wk.set => arts'[a] = arts[a]
    BY <1>4, ConsumeArts
  <2>3. wk.pc = "consume" /\ wk.run \in LlmRuns /\ wk.day = DayOf[wk.run]
    BY <1>1, <1>4, ConsumeArts DEF WorkerKnows
  <2> QED BY <1>1, <2>1, <2>2, <2>3 DEF ArtifactRow
<1>5. ASSUME NEW c \in Calls, ClaimTake(c), ~UNCHANGED arts PROVE Fate
  <2>1. PICK n \in Runners, r \in ScrapeRuns, until \in Nat :
             /\ \A b \in Of(r) : \/ Is(b, "pending")
                                 \/ Is(b, "claimed") /\ arts[b].expires <= clock
             /\ arts' = [b \in Artifacts |->
                   IF b \in Of(r) THEN [arts[b] EXCEPT !.status = "claimed", !.holder = n, !.expires = until]
                   ELSE arts[b]]
    BY <1>5, ClaimTakeArts
  <2>2. CASE a \in Of(r)
    <3>1. arts'[a] = [arts[a] EXCEPT !.status = "claimed", !.holder = n, !.expires = until]
      BY <2>1, <2>2
    <3>2. arts'[a].status = "claimed" /\ arts'[a].consumer = arts[a].consumer
      BY <1>1, <3>1 DEF ArtifactRow
    <3> QED BY <2>1, <2>2, <3>2 DEF Is
  <2>3. CASE a \notin Of(r)
    BY <2>1, <2>3
  <2> QED BY <2>2, <2>3
<1>6. ASSUME NEW c \in Calls, CompleteWrite(c) PROVE Fate
  <2>1. PICK n \in Runners, r \in ScrapeRuns :
             arts' = [b \in Artifacts |->
                   IF b \in Of(r) /\ arts[b].holder = n /\ arts[b].status = "claimed"
                   THEN [arts[b] EXCEPT !.status = "done", !.consumer = r]
                   ELSE arts[b]]
    BY <1>6, CompleteWriteArts
  <2>2. arts'[a] = arts[a] \/ arts'[a] = [arts[a] EXCEPT !.status = "done", !.consumer = r]
    BY <2>1
  <2> QED BY <1>1, <2>2 DEF ArtifactRow
<1>7. CASE SweepArtifacts /\ UNCHANGED <<wk, workVars>>
  <2>1. a \in Lapsed => /\ arts[a].status = "pending"
                        /\ arts'[a] = [arts[a] EXCEPT !.status = "expired"]
    BY <1>7, SweepArts
  <2>2. a \notin Lapsed => arts'[a] = arts[a]
    BY <1>7, SweepArts
  <2> QED BY <1>1, <1>7, <2>1, <2>2 DEF ArtifactRow, workVars
<1> QED BY <1>2, <1>3, <1>4, <1>5, <1>6, <1>7, ArtsWriters

\* What is inserted is pending, of the scrape that wrote it, and used up by nobody.
LEMMA ArtifactBirth ==
    ASSUME Inv, [Next]_vars, NEW a \in Artifacts, ~Exists(a), Exists(a)'
    PROVE  /\ ScrapeWrite /\ Producer(a) = wk.run
           /\ arts'[a] = [status |-> "pending", holder |-> Null, expires |-> wk.expires, consumer |-> Null]
<1>1. PICK r \in ScrapeRuns : r = Producer(a)
  BY DEF Artifacts, Producer
<1>2. a \notin Of(r) /\ a \in Of(r)'
  BY <1>1 DEF Of
<1>3. ScrapeWrite /\ r = wk.run
  BY <1>2, ArtsStay
<1>4. a \in wk.set
  BY <1>3, ScrapeWriteArts DEF Exists
<1> QED BY <1>1, <1>3, <1>4, ScrapeWriteArts

\* What a run of digest.llm used up stays with a row for its day.
LEMMA ConsumedStep == Inv /\ [Next]_vars => ConsumedMeansRecorded'
<1> SUFFICES ASSUME Inv, [Next]_vars, NEW a \in Artifacts, Exists(a)', arts'[a].consumer \in LlmRuns
             PROVE  digests'[DayOf[arts'[a].consumer]].status # "absent"
  BY DEF ConsumedMeansRecorded
<1>1. PICK q \in LlmRuns : q = arts'[a].consumer
  OBVIOUS
<1>2. PICK d \in Days : d = DayOf[q]
  BY DigestConstants DEF Runs
<1>3. Exists(a)
  BY <1>1, DigestNull, ArtifactBirth DEF Runs
<1>4. digests[d].status # "absent"
  <2>1. CASE arts[a].consumer = q
    BY <1>2, <1>3, <2>1 DEF Inv, ConsumedMeansRecorded
  <2>2. CASE arts[a].consumer # q
    <3>1. wk.pc = "consume" /\ wk.day = DayOf[wk.run] /\ arts'[a].consumer = wk.run
      BY <1>1, <1>3, <2>2, ArtifactFate, DigestConstants
    <3> QED BY <1>1, <1>2, <3>1 DEF Inv, AboutToConsume
  <2> QED BY <2>1, <2>2
<1> QED BY <1>1, <1>2, <1>4, DaysStay

\* The artifacts of a scrape move together.
LEMMA TogetherStep == Inv /\ [Next]_vars => ScrapeMovesTogether'
<1> SUFFICES ASSUME Inv, [Next]_vars, NEW a \in Artifacts, NEW b \in Artifacts,
                    Producer(a) = Producer(b), Exists(a)', Exists(b)'
             PROVE  arts'[a] = arts'[b]
  BY DEF ScrapeMovesTogether, Producer
<1>1. PICK r \in ScrapeRuns : r = Producer(a) /\ r = Producer(b)
  BY DEF Artifacts, Producer
<1>2. CASE Exists(a) /\ Exists(b)
  <2>1. arts[a] = arts[b] /\ a \in Of(r) /\ b \in Of(r)
    BY <1>1, <1>2 DEF Inv, ScrapeMovesTogether, Of
  <2>2. CASE UNCHANGED arts
    BY <2>1, <2>2
  <2>3. CASE ScrapeWrite
    <3>1. a \notin wk.set /\ b \notin wk.set
      BY <1>2, <2>3, ScrapeWriteArts DEF Of
    <3> QED BY <2>1, <2>3, <3>1, ScrapeWriteArts
  <2>4. CASE Consume
    <3>1. a \in wk.set <=> b \in wk.set
      BY <1>1, <2>1, <2>4, ConsumeArts
    <3> QED BY <2>1, <2>4, <3>1, ConsumeArts
  <2>5. ASSUME NEW c \in Calls, ClaimTake(c), ~UNCHANGED arts PROVE arts'[a] = arts'[b]
    <3>1. PICK n \in Runners, q \in ScrapeRuns, until \in Nat :
             arts' = [x \in Artifacts |->
                   IF x \in Of(q) THEN [arts[x] EXCEPT !.status = "claimed", !.holder = n, !.expires = until]
                   ELSE arts[x]]
      BY <2>5, ClaimTakeArts
    <3>2. a \in Of(q) <=> b \in Of(q)
      BY <1>1, <1>2 DEF Of
    <3> QED BY <2>1, <3>1, <3>2
  <2>6. ASSUME NEW c \in Calls, CompleteWrite(c) PROVE arts'[a] = arts'[b]
    <3>1. PICK n \in Runners, q \in ScrapeRuns :
             arts' = [x \in Artifacts |->
                   IF x \in Of(q) /\ arts[x].holder = n /\ arts[x].status = "claimed"
                   THEN [arts[x] EXCEPT !.status = "done", !.consumer = q]
                   ELSE arts[x]]
      BY <2>6, CompleteWriteArts
    <3>2. a \in Of(q) <=> b \in Of(q)
      BY <1>1, <1>2 DEF Of
    <3> QED BY <2>1, <3>1, <3>2
  <2>7. CASE SweepArtifacts
    <3>1. a \in Lapsed <=> b \in Lapsed
      BY <1>2, <2>1 DEF Lapsed, Is
    <3> QED BY <2>1, <2>7, <3>1, SweepArts
  <2> QED BY <2>2, <2>3, <2>4, <2>5, <2>6, <2>7, ArtsWriters
<1>3. ASSUME NEW x \in Artifacts, NEW y \in Artifacts, Producer(x) = r, Producer(y) = r,
             ~Exists(x), Exists(x)', Exists(y)'
      PROVE  arts'[x] = arts'[y]
  <2>1. ScrapeWrite /\ r = wk.run
    BY <1>3, ArtifactBirth
  <2>2. ~Exists(y)
    BY <1>3, <2>1, ScrapeWriteArts DEF Of
  <2> QED BY <1>3, <2>2, ArtifactBirth
<1>4. CASE ~Exists(a)
  BY <1>1, <1>3, <1>4
<1>5. CASE ~Exists(b)
  <2>1. arts'[b] = arts'[a]
    BY <1>1, <1>3, <1>5
  <2> QED BY <2>1
<1> QED BY <1>2, <1>4, <1>5
\* Runners are told of a claim by the call that made it.
LEMMA ToldWriters == ASSUME [Next]_vars PROVE UNCHANGED told \/ \E c \in Calls : ClaimTake(c)
<1>1. CASE WorkNext
  BY <1>1, OtherFootprints DEF WorkNext
<1>2. CASE UNCHANGED workVars
  BY <1>2 DEF workVars
<1>3. CASE UNCHANGED vars
  BY <1>3 DEF vars, workVars
<1> QED BY <1>1, <1>2, <1>3 DEF Next

\* A live claim holds, and is not longer than the lease of its artifacts.
LEMMA LeaseStep == Inv /\ [Next]_vars => LeaseCovers' /\ LiveClaimHolds'
<1> SUFFICES ASSUME Inv, [Next]_vars, NEW n \in Runners, NEW r \in ScrapeRuns, clock' < told'[n][r]
             PROVE  /\ Of(r)' # {}
                    /\ \A a \in Of(r)' : /\ arts'[a].holder = n /\ arts'[a].status \in {"claimed", "done"}
                                         /\ arts'[a].status = "claimed" => told'[n][r] <= arts'[a].expires
  BY DEF LeaseCovers, LiveClaimHolds
<1>1. /\ clock \in Nat /\ told \in [Runners -> [ScrapeRuns -> Nat]]
      /\ \A a \in Artifacts : Exists(a) => arts[a] \in ArtifactRow
  BY DigestConstants DEF Inv, TypeOK, DigestStoreTypeOK, WorkTypeOK, Time, OrNull, Exists
<1>2. clock' \in Nat /\ clock <= clock'
  BY <1>1, ClockWriters DEF Tock
<1>3. ASSUME Of(r) # {} PROVE Of(r)' = Of(r)
  BY <1>3, ArtsStay
<1>4. CASE told'[n][r] = told[n][r]
  <2>1. told[n][r] \in Nat /\ clock < told[n][r]
    BY <1>1, <1>2, <1>4
  <2>2. /\ Of(r) # {}
        /\ \A a \in Of(r) : /\ arts[a].holder = n /\ arts[a].status \in {"claimed", "done"}
                            /\ arts[a].status = "claimed" => told[n][r] <= arts[a].expires
    BY <2>1 DEF Inv, LeaseCovers, LiveClaimHolds
  <2>3. ASSUME NEW a \in Of(r)
        PROVE  /\ arts'[a].holder = n /\ arts'[a].status \in {"claimed", "done"}
               /\ arts'[a].status = "claimed" => told[n][r] <= arts'[a].expires
    <3>1. a \in Artifacts /\ Exists(a) /\ arts[a].expires \in Nat
      BY <1>1 DEF Of, ArtifactRow
    <3>2. ~(arts[a].status = "claimed" /\ arts[a].expires <= clock)
      BY <1>1, <2>1, <2>2, <3>1
    <3>3. arts'[a] = arts[a] \/ (arts'[a].status = "done" /\ arts'[a].holder = arts[a].holder)
      <4>1. arts[a].status # "pending"
        BY <2>2
      <4> QED BY <3>1, <3>2, <4>1, ArtifactFate
    <3> QED BY <2>2, <3>3
  <2> QED BY <1>3, <1>4, <2>2, <2>3
<1>5. CASE told'[n][r] # told[n][r]
  <2>1. PICK c \in Calls : ClaimTake(c)
    BY <1>5, ToldWriters
  <2>2. PICK m \in Runners, q \in ScrapeRuns, until \in Nat :
             /\ Of(q) # {}
             /\ arts' = [a \in Artifacts |->
                   IF a \in Of(q) THEN [arts[a] EXCEPT !.status = "claimed", !.holder = m, !.expires = until]
                   ELSE arts[a]]
             /\ UNCHANGED told \/ told' = [told EXCEPT ![m][q] = until]
    BY <1>5, <2>1, ClaimTakeArts
  <2>3. m = n /\ q = r /\ told'[n][r] = until
    BY <1>1, <1>5, <2>2
  <2>4. ASSUME NEW a \in Of(r)
        PROVE  arts'[a].holder = n /\ arts'[a].status = "claimed" /\ arts'[a].expires = until
    <3>1. arts[a] \in ArtifactRow /\ a \in Artifacts
      BY <1>1 DEF Of
    <3>2. arts'[a] = [arts[a] EXCEPT !.status = "claimed", !.holder = n, !.expires = until]
      BY <2>2, <2>3, <3>1
    <3> QED BY <3>1, <3>2 DEF ArtifactRow
  <2>5. Of(r)' = Of(r) /\ Of(r) # {}
    BY <1>3, <2>2, <2>3
  <2>6. until <= until
    OBVIOUS
  <2> QED BY <2>3, <2>4, <2>5, <2>6
<1> QED BY <1>4, <1>5

-----------------------------------------------------------------------------
(* The inductive invariant, and what follows from it *)

\* Every step keeps the inductive invariant.
LEMMA InvStep == Inv /\ [Next]_vars => Inv'
BY WorkerStep, StoreType, CallsStep, ArtsType, UnwrittenStep, WholeStep, VerdictStep, LeaseStep, RecordedStep,
   OneScrapeStep, ConsumedStep, TogetherStep DEF Inv, TypeOK, WorkerFit

\* The inductive invariant holds in every reachable state.
LEMMA Invariance == Spec => []Inv
BY InitInv, InvStep, PTL DEF Spec

\* The rows, the handler and the calls stay within their types, whatever the
\* interleaving of the worker, the runners, the scheduler and Anthropic.
THEOREM TypeCorrect == Spec => []TypeOK
<1>1. Inv => TypeOK
  BY DEF Inv
<1> QED BY <1>1, Invariance, PTL

\* AssembleFromArtifacts and Submit: no digest, and no batch in flight, is made
\* of the artifacts of two scrapes, however many scrapes are pending.
THEOREM OneScrape == Spec => []OneScrapePerDigest
<1>1. Inv => OneScrapePerDigest
  BY DEF Inv
<1> QED BY <1>1, Invariance, PTL

\* runLLM marks artifacts consumed after Persist only: what it used up has a row
\* for its day, wherever it failed or died.
THEOREM ConsumedRecorded == Spec => []ConsumedMeansRecorded
<1>1. Inv => ConsumedMeansRecorded
  BY DEF Inv
<1> QED BY <1>1, Invariance, PTL

\* claim-work: a runner that was told it holds a scrape's artifacts holds all of
\* them until the lease it was told of is over, for any number of runners and calls.
THEOREM ClaimHolds == Spec => []LiveClaimHolds
<1>1. Inv => LiveClaimHolds
  BY DEF Inv
<1> QED BY <1>1, Invariance, PTL

\* claim-work, complete-work, the sweep and MarkConsumed: the artifacts of one
\* scrape change together, so nobody ever gets a part of it.
THEOREM MovesTogether == Spec => []ScrapeMovesTogether
<1>1. Inv => ScrapeMovesTogether
  BY DEF Inv
<1> QED BY <1>1, Invariance, PTL

\* Persist and BatchFailed: a redelivery, a retry or a late verdict never demotes
\* a day that has its briefing, and a day in flight fails with its own batch.
THEOREM DemotionSafety == Spec => NeverDemoted
<1> DEFINE Kept ==
      \A d \in Days :
          /\ digests[d].status = "completed" => digests'[d].status = "completed"
          /\ digests[d].status = "pending" /\ digests'[d].status = "failed" =>
                batches[digests[d].batch].state = "bad"
<1>1. Inv /\ [Next]_vars => [Kept]_vars
  <2> SUFFICES ASSUME Inv, [Next]_vars, NEW d \in Days
               PROVE  /\ digests[d].status = "completed" => digests'[d].status = "completed"
                      /\ digests[d].status = "pending" /\ digests'[d].status = "failed" =>
                            batches[digests[d].batch].state = "bad"
    OBVIOUS
  <2>1. /\ digests \in [Days -> DigestRow] /\ WorkerKnows /\ VerdictStands
    BY DEF Inv, TypeOK, DigestStoreTypeOK
  <2>2. ASSUME NEW e \in Days, NEW row \in DigestRow, Persisted(e, row)
        PROVE  /\ digests[d].status = "completed" => digests'[d].status = "completed"
               /\ digests[d].status = "pending" => digests'[d].status # "failed"
    <3>1. \/ digests'[d] = digests[d]
          \/ digests'[d] = row /\ (row.status = "completed" \/ digests[d].status = "absent")
      BY <2>1, <2>2 DEF Persisted
    <3> QED BY <3>1
  <2>3. ASSUME NEW e \in Days, Demoted(e)
        PROVE  \/ digests'[d] = digests[d]
               \/ d = e /\ digests[d].status = "pending"
    BY <2>1, <2>3 DEF Demoted
  <2>4. CASE Record
    <3>1. PICK e \in Days, row \in DigestRow : e = wk.day /\ row = wk.result
      BY <2>1, <2>4 DEF Record, WorkerKnows
    <3>2. Persisted(e, row)
      BY <2>4, <3>1 DEF Record
    <3> QED BY <2>2, <3>2
  <2>5. CASE Resolve
    <3>1. wk.pc = "resolve"
      BY <2>5 DEF Resolve
    <3>2. PICK e \in Days, row \in DigestRow : e = wk.day /\ row = wk.result
      BY <2>1, <3>1 DEF WorkerKnows
    <3>3. CASE Persisted(e, row)
      BY <2>2, <3>3
    <3>4. CASE row = Failed /\ Demoted(e)
      <4>1. row.status = "failed"
        BY <3>4 DEF Failed
      <4>2. d = e /\ digests[d].status = "pending" => batches[digests[d].batch].state = "bad"
        BY <2>1, <3>1, <3>2, <4>1 DEF VerdictStands
      <4> QED BY <2>3, <3>4, <4>2
    <3> QED BY <2>5, <3>2, <3>3, <3>4 DEF Resolve
  <2>6. CASE UNCHANGED digests
    BY <2>6
  <2> QED BY <2>4, <2>5, <2>6, DigestsWriters, CompleteWriteArts
<1> QED BY <1>1, Invariance, PTL DEF Spec, NeverDemoted

\* sweepArtifacts, claim-work and runLLM: claimed artifacts are never swept, nor
\* given back, and finished ones stay as they are kept for the admin's view.
THEOREM ClaimedKept == Spec => ClaimedWorkIsKept
<1> DEFINE Kept ==
      \A a \in Artifacts :
          /\ Is(a, "claimed") => Is(a, "claimed")' \/ Is(a, "done")'
          /\ Is(a, "done") => Is(a, "done")'
<1>1. Inv /\ [Next]_vars => [Kept]_vars
  <2> SUFFICES ASSUME Inv, [Next]_vars, NEW a \in Artifacts, Exists(a)
               PROVE  /\ arts[a].status = "claimed" => Is(a, "claimed")' \/ Is(a, "done")'
                      /\ arts[a].status = "done" => Is(a, "done")'
    BY DEF Is
  <2>1. Exists(a)'
    <3>1. PICK r \in ScrapeRuns : r = Producer(a)
      BY DEF Artifacts, Producer
    <3>2. a \in Of(r)
      BY <3>1 DEF Of
    <3>3. Of(r)' = Of(r)
      BY <3>2, ArtsStay
    <3> QED BY <3>2, <3>3 DEF Of
  <2> QED BY <2>1, ArtifactFate DEF Is
<1> QED BY <1>1, Invariance, PTL DEF Spec, ClaimedWorkIsKept
=============================================================================
