------------------------------- MODULE Worker -------------------------------
(***************************************************************************)
(* The poll loop of the worker process (backend/cmd/worker/main.go) for    *)
(* messages that carry a JobRunID: receive a batch, and for each message   *)
(* claim the run, do the work, record the outcome, delete the message.     *)
(* What a handler does is abstracted to its outcome.                       *)
(***************************************************************************)
EXTENDS JobStore

VARIABLE wrk  \* step, messages of the batch not yet processed, current run

WorkerTypeOK ==
    wrk \in [step : {"poll", "process", "handle", "ack"},
             inbox : SUBSET RunIds, msg : OrNull(RunIds)]

WorkerStart == [step |-> "poll", inbox |-> {}, msg |-> Null]

WorkerInit == wrk = WorkerStart

-----------------------------------------------------------------------------
\* ReceiveMessage: any messages on the queue.  They stay there, invisible for
\* a while, until they are deleted.
Receive(batch) ==
    /\ wrk.step = "poll"
    /\ batch # {} /\ batch \subseteq queue
    /\ wrk' = [wrk EXCEPT !.step = "process", !.inbox = batch]
    /\ UNCHANGED storeVars

\* The next message of the batch, or the next batch.
NextMessage(r) ==
    wrk' = [step |-> IF wrk.inbox \ {r} = {} THEN "poll" ELSE "process",
            inbox |-> wrk.inbox \ {r}, msg |-> Null]

Received(r) == wrk.step = "process" /\ r \in wrk.inbox

\* Faulty variant: a redelivery takes over a run that is being worked on.
ClaimableOnceQueued(r) == run[r].status \in {"queued", "running"}

\* WHERE status = queued, of the claim.
Claimable(r) == run[r].status = "queued"

\* processScheduled: queued -> running.
Claim(r) ==
    /\ Received(r) /\ Claimable(r)
    /\ StartRun(r)
    /\ wrk' = [wrk EXCEPT !.step = "handle", !.msg = r]
    /\ UNCHANGED <<clock, job, queue, faults, reports>>

\* Zero rows: a duplicate, a redelivery, or a run already closed.
NotClaimed(r) ==
    /\ Received(r) /\ ~ Claimable(r)
    /\ wrk' = [wrk EXCEPT !.step = "ack", !.msg = r]
    /\ UNCHANGED storeVars

\* The claim's statement fails: the message stays on the queue.
ClaimFails(r) ==
    /\ Received(r)
    /\ Fault
    /\ NextMessage(r)
    /\ UNCHANGED <<clock, job, run, queue, starts, reports>>

\* The handler returns and finishRun records its outcome by id, whatever the
\* row's status is by then.  A failure to record it is only logged.
Finish(outcome) ==
    /\ wrk.step = "handle"
    /\ \/ /\ CloseRun(wrk.msg, outcome, IF outcome = "failed" THEN "handler" ELSE Null)
          /\ NoFault
       \/ Fault /\ UNCHANGED run
    /\ wrk' = [wrk EXCEPT !.step = "ack"]
    /\ UNCHANGED <<clock, job, queue, starts, reports>>

\* Every outcome deletes the message: a scheduled run is retried by its next
\* tick, not by a redelivery.
Ack ==
    /\ wrk.step = "ack"
    /\ DeleteMessage(wrk.msg)
    /\ NextMessage(wrk.msg)
    /\ UNCHANGED <<clock, job, run, faults, starts, reports>>

WorkerNext ==
    \/ \E batch \in SUBSET RunIds : Receive(batch)
    \/ \E r \in RunIds : Claim(r) \/ NotClaimed(r) \/ ClaimFails(r)
    \/ \E outcome \in {"succeeded", "failed"} : Finish(outcome)
    \/ Ack
=============================================================================
