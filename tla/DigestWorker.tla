---------------------------- MODULE DigestWorker ----------------------------
(***************************************************************************)
(* The worker's digest handlers (backend/cmd/worker/main.go and            *)
(* backend/internal/digest): scrape, llm, build and collect.  The worker   *)
(* handles one message at a time; a handler is cut at every statement,     *)
(* call to Anthropic and launch of the Fargate task, and another process   *)
(* may change the rows between two of them.                                *)
(***************************************************************************)
EXTENDS DigestStore

VARIABLE wk   \* what the handler in progress remembers

Idle == [pc |-> "idle", run |-> Null, day |-> Null, outcome |-> Null,
         set |-> {}, from |-> {}, expires |-> 0, result |-> Null]

Steps == {"idle", "scrape", "write", "llm", "newest", "assemble", "summarise",
          "record", "consume", "finish", "collect", "resolve"}

WorkRow ==
    [pc : Steps, run : OrNull(Runs), day : OrNull(Days),
     outcome : OrNull({"succeeded", "failed"}),
     set : (SUBSET Artifacts) \cup (SUBSET (Days \X Batches)),
     from : SUBSET ScrapeRuns, expires : Nat, result : OrNull(DigestRow)]

WorkerTypeOK == wk \in WorkRow

Goto(pc) == wk' = [wk EXCEPT !.pc = pc]

\* The handler returns: a run gets its terminal status next, a message without
\* one is done.
Return(outcome) ==
    wk' = IF wk.run = Null THEN Idle
          ELSE [Idle EXCEPT !.pc = "finish", !.run = wk.run, !.outcome = outcome]

RowsKept == UNCHANGED <<clock, mode, external, runs, arts, rank, digests, batches>>

\* A statement or a call of a handler fails, and so does the run.
FailsAt(pc) == wk.pc = pc /\ Fault /\ Return("failed") /\ RowsKept

-----------------------------------------------------------------------------
(* processScheduled, around a handler *)

\* A batch is left for whoever is about to submit one (bound).
MaySubmit == mode = "fargate" => \E b \in Batches : batches[b].state = "unused"

BeginRun(r) ==
    /\ wk.pc = "idle" /\ runs[r].status = "queued"
    /\ r \in LlmRuns => MaySubmit
    /\ Closed(r, "running")
    /\ wk' = [Idle EXCEPT !.pc = IF r \in ScrapeRuns THEN "scrape" ELSE "llm",
                          !.run = r, !.day = DayOf[r]]
    /\ UNCHANGED <<clock, mode, external, arts, rank, digests, batches, faults>>

\* finishRun: by id, whatever the status is now; a failure is only logged.
FinishRun ==
    /\ wk.pc = "finish" /\ wk' = Idle
    /\ \/ Closed(wk.run, wk.outcome) /\ UNCHANGED faults
       \/ Fault /\ UNCHANGED runs
    /\ UNCHANGED <<clock, mode, external, arts, rank, digests, batches>>

-----------------------------------------------------------------------------
(* digest.scrape *)

\* Some Sources are fetched.  Nothing written: none is active, or all failed.
ScrapeFetch ==
    /\ wk.pc = "scrape"
    /\ \/ \E got \in SUBSET Sources \ {{}} :
             wk' = [wk EXCEPT !.pc = "write", !.set = {wk.run} \X got,
                              !.expires = clock + ArtifactTTL]
       \/ \E outcome \in {"succeeded", "failed"} : Return(outcome)
    /\ UNCHANGED digestStoreVars

\* One transaction.
ScrapeWrite ==
    /\ wk.pc = "write"
    /\ ArtifactsWritten(wk.run, wk.set, wk.expires)
    /\ Return("succeeded")
    /\ UNCHANGED <<clock, mode, external, runs, digests, batches, faults>>

ScrapeWriteFails == FailsAt("write")

-----------------------------------------------------------------------------
(* digest.llm: assemble the newest scrape's pending artifacts *)

\* The job's runner is read once; an external runner leaves nothing to do here.
LlmStart ==
    /\ wk.pc = "llm"
    /\ IF "llm" \in external THEN Return("succeeded") ELSE Goto("newest")
    /\ UNCHANGED digestStoreVars

LlmNewest ==
    /\ wk.pc = "newest"
    /\ LET producers == {r \in ScrapeRuns : PendingOf(r) # {}}
       IN IF producers = {} THEN Return("succeeded")
          ELSE wk' = [wk EXCEPT !.pc = "assemble", !.from = {Newest(producers)}]
    /\ UNCHANGED digestStoreVars

\* Faulty variant: the second query does not ask for the producing run.
LlmAssembleAll ==
    /\ wk.pc = "assemble"
    /\ LET found == {a \in Artifacts : Is(a, "pending")}
       IN IF found = {} THEN Return("succeeded")
          ELSE wk' = [wk EXCEPT !.pc = "summarise", !.set = found,
                                !.from = {Producer(a) : a \in found}]
    /\ UNCHANGED digestStoreVars

\* The second query: what is still pending of that run by now.
LlmAssemble ==
    /\ wk.pc = "assemble"
    /\ LET found == {a \in Artifacts : Producer(a) \in wk.from /\ Is(a, "pending")}
       IN IF found = {} THEN Return("succeeded")
          ELSE wk' = [wk EXCEPT !.pc = "summarise", !.set = found,
                                !.from = {Producer(a) : a \in found}]
    /\ UNCHANGED digestStoreVars

-----------------------------------------------------------------------------
(* digest.build: a message of its own, for any day and as often as it comes. *)
(* It fetches the Sources itself.                                            *)

BeginBuild(d) ==
    /\ wk.pc = "idle" /\ MaySubmit
    /\ wk' = [Idle EXCEPT !.pc = "summarise", !.day = d]
    /\ UNCHANGED digestStoreVars

-----------------------------------------------------------------------------
(* The summary: inline, or by a batch that the Fargate task submits *)

ToRecord(result, outcome) ==
    wk' = [wk EXCEPT !.pc = "record", !.result = result, !.outcome = outcome]

SummariseInline ==
    /\ wk.pc = "summarise" /\ mode = "local"
    /\ \/ ToRecord(Completed(wk.from), "succeeded")
       \/ ToRecord(Failed, "failed")
    /\ UNCHANGED digestStoreVars

\* The task submits a batch; its result is read back from S3.  The exit may be
\* reported as a failure all the same (the poll cap, DescribeTasks), and the
\* result may be lost on its way.
SubmitBatch(b) ==
    /\ wk.pc = "summarise" /\ mode = "fargate"
    /\ batches[b].state = "unused"
    /\ batches' = [batches EXCEPT ![b] =
          [state |-> "processing", day |-> wk.day, from |-> wk.from]]
    /\ \/ ToRecord(Submitted(b, wk.from), "succeeded") /\ UNCHANGED faults
       \/ ToRecord(Submitted(b, wk.from), "failed") /\ Fault
       \/ Return("failed") /\ Fault
    /\ UNCHANGED <<clock, mode, external, runs, arts, rank, digests>>

\* No batch: the task recorded why, or never ran.
SubmitFails ==
    /\ wk.pc = "summarise" /\ mode = "fargate" /\ Fault
    /\ ToRecord(Failed, "failed") \/ Return("failed")
    /\ RowsKept

Record ==
    /\ wk.pc = "record"
    /\ Persisted(wk.day, wk.result)
    /\ IF wk.outcome = "succeeded" /\ wk.set # {} THEN Goto("consume")
       ELSE Return(wk.outcome)
    /\ UNCHANGED <<clock, mode, external, runs, arts, rank, batches, faults>>

\* Faulty variant: the error of Persist is logged and the run goes on.
RecordFailsLogged ==
    /\ wk.pc = "record" /\ Fault /\ RowsKept
    /\ IF wk.set # {} THEN Goto("consume") ELSE Return("failed")

RecordFails == FailsAt("record")

\* By id: the rows' status is not looked at again.
Consume ==
    /\ wk.pc = "consume"
    /\ Consumed(wk.set, wk.run)
    /\ Return("succeeded")
    /\ UNCHANGED <<clock, mode, external, runs, rank, digests, batches, faults>>

ConsumeFails == FailsAt("consume")

-----------------------------------------------------------------------------
(* digest.collect: poll the batches of the pending days read at the start *)

\* The sweep goes on with what is left of it.
Sweep(left) == wk' = IF left = {} THEN Idle ELSE [Idle EXCEPT !.pc = "collect", !.set = left]

BeginCollect ==
    /\ wk.pc = "idle" /\ PendingDays # {}
    /\ Sweep({<<d, digests[d].batch>> : d \in PendingDays})
    /\ UNCHANGED digestStoreVars

\* CollectBatch: still processing, or ended one way or the other.
PollBatch(p) ==
    /\ wk.pc = "collect" /\ p \in wk.set
    /\ LET b == p[2]
       IN \/ batches[b].state = "processing" /\ Sweep(wk.set \ {p})
          \/ /\ batches[b].state = "good"
             /\ wk' = [wk EXCEPT !.pc = "resolve", !.set = @ \ {p}, !.day = p[1],
                                 !.result = Completed(batches[b].from)]
          \/ /\ batches[b].state = "bad"
             /\ wk' = [wk EXCEPT !.pc = "resolve", !.set = @ \ {p}, !.day = p[1],
                                 !.result = Failed]
    /\ UNCHANGED digestStoreVars

\* A poll that fails leaves its row for the next sweep.
PollFails(p) ==
    /\ wk.pc = "collect" /\ p \in wk.set /\ Fault
    /\ Sweep(wk.set \ {p}) /\ RowsKept

\* Faulty variant: the guard looks for a row whose batch id is cleared already.
DemotedIfCleared(d) ==
    digests' = [digests EXCEPT ![d] =
        IF @.status = "pending" /\ @.batch = Null THEN [@ EXCEPT !.status = "failed"] ELSE @]

\* BatchFailed demotes a row only while it is still pending.
Demoted(d) ==
    digests' = [digests EXCEPT ![d] =
        IF @.status = "pending" THEN [@ EXCEPT !.status = "failed", !.batch = Null] ELSE @]

Resolve ==
    /\ wk.pc = "resolve"
    /\ IF wk.result = Failed THEN Demoted(wk.day) ELSE Persisted(wk.day, wk.result)
    /\ Sweep(wk.set)
    /\ UNCHANGED <<clock, mode, external, runs, arts, rank, batches, faults>>

ResolveFails == wk.pc = "resolve" /\ Fault /\ Sweep(wk.set) /\ RowsKept

-----------------------------------------------------------------------------
WorkerInit == wk = Idle

WorkerNext ==
    \/ \E r \in Runs : BeginRun(r)
    \/ FinishRun
    \/ ScrapeFetch \/ ScrapeWrite \/ ScrapeWriteFails
    \/ LlmStart \/ LlmNewest \/ LlmAssemble
    \/ \E d \in BuildDays : BeginBuild(d)
    \/ SummariseInline \/ (\E b \in Batches : SubmitBatch(b)) \/ SubmitFails
    \/ Record \/ RecordFails \/ Consume \/ ConsumeFails
    \/ BeginCollect
    \/ \E p \in Days \X Batches : PollBatch(p) \/ PollFails(p)
    \/ Resolve \/ ResolveFails
=============================================================================
