--------------------------- MODULE DigestPipeline ---------------------------
(***************************************************************************)
(* The digest pipeline: the worker that scrapes, summarises and collects,  *)
(* the external runners that claim its artifacts, the scheduler's sweep,   *)
(* an administrator who moves a stage between server and runners, and      *)
(* Anthropic.  They meet in the rows of artifacts and digests alone.       *)
(***************************************************************************)
EXTENDS DigestWorker, WorkApi

vars == <<digestStoreVars, wk, workVars>>

TypeOK == DigestStoreTypeOK /\ WorkerTypeOK /\ WorkTypeOK

Init == DigestStoreInit /\ WorkerInit /\ WorkInit

\* The worker process dies: the handler is gone, its message is a duplicate
\* when it comes back, and its run is left running.
WorkerCrash ==
    /\ wk.pc # "idle" /\ Fault /\ wk' = Idle /\ RowsKept

Environment ==
    \/ Tock \/ SweepArtifacts
    \/ \E b \in Batches : EndBatch(b)
    \/ \E stage \in Movable : ChangeRunner(stage)

Next ==
    \/ WorkerNext /\ UNCHANGED workVars
    \/ WorkerCrash /\ UNCHANGED workVars
    \/ WorkNext /\ UNCHANGED wk
    \/ Environment /\ UNCHANGED <<wk, workVars>>

Spec == Init /\ [][Next]_vars

\* The worker goes on with the handler it is in; digest.collect is delivered
\* again and again; Anthropic ends every batch.  Nobody has to schedule, build or claim anything.
Handling == WorkerNext /\ wk.pc # "idle" /\ UNCHANGED workVars

Fairness ==
    /\ WF_vars(Handling)
    /\ SF_vars(BeginCollect /\ UNCHANGED workVars)
    /\ \A b \in Batches : WF_vars(EndBatch(b) /\ UNCHANGED <<wk, workVars>>)

FairSpec == Spec /\ Fairness

-----------------------------------------------------------------------------
(* Days *)

\* result.go, collect.go: a redelivery, a retry or a late verdict never demotes
\* a briefing that is there; and a day with a batch in flight fails on the
\* verdict of that very batch only, whatever other builds of the day meet.
NeverDemoted ==
    [][\A d \in Days :
          /\ digests[d].status = "completed" => digests'[d].status = "completed"
          /\ digests[d].status = "pending" /\ digests'[d].status = "failed" =>
                batches[digests[d].batch].state = "bad"]_vars

\* stages.go, AssembleFromArtifacts: "folding every pending artifact globally
\* would merge two days into one digest".  Neither a text nor a batch in flight
\* is made of two scrapes, however many are pending.
OneScrapePerDigest ==
    /\ \A d \in Days : \A r, q \in digests[d].from : r = q
    /\ \A b \in Batches : \A r, q \in batches[b].from : r = q

\* main.go: artifacts are "marked done only after a clean submit + persist":
\* what a run of digest.llm used up is never without a row for its day, wherever
\* the run failed or died.
ConsumedMeansRecorded ==
    \A a \in Artifacts :
        Exists(a) /\ arts[a].consumer \in LlmRuns =>
            digests[DayOf[arts[a].consumer]].status # "absent"

\* A day whose batch is in flight is decided in the end (collect.go).
PendingDaysAreDecided ==
    \A d \in Days :
        digests[d].status = "pending" ~> digests[d].status \in {"completed", "failed"}

-----------------------------------------------------------------------------
(* Artifacts *)

\* work.go: "two concurrent claimers never take the same artifacts".  As long as
\* the lease a runner was told of is live, the artifacts are its own, through
\* sweeps, other runners' claims and the worker's own use of them.
LiveClaimHolds ==
    \A n \in Runners, r \in ScrapeRuns :
        clock < told[n][r] =>
            /\ Of(r) # {}
            /\ \A a \in Of(r) : arts[a].holder = n /\ arts[a].status \in {"claimed", "done"}

\* work.go: "A run's artifacts are claimed together".  They are also finished,
\* expired and used up together: no runner ever gets half a scrape.
ScrapeMovesTogether ==
    \A a, b \in Artifacts :
        Producer(a) = Producer(b) /\ Exists(a) /\ Exists(b) => arts[a] = arts[b]

\* scheduler.go, sweepArtifacts: claimed rows are never swept, since that "would
\* race that reclaim and strand a runner's work", and consumed ones are kept "as
\* retained job output".
ClaimedWorkIsKept ==
    [][\A a \in Artifacts :
          /\ Is(a, "claimed") => Is(a, "claimed")' \/ Is(a, "done")'
          /\ Is(a, "done") => Is(a, "done")']_vars
=============================================================================
