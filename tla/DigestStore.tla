---------------------------- MODULE DigestStore ----------------------------
(***************************************************************************)
(* The rows the digest pipeline works on: artifacts and digests            *)
(* (backend/ent/schema), the status and runner of the runs that produce    *)
(* and consume them, and the Message Batches in flight at Anthropic.  The  *)
(* atom is one SQL statement or one transaction.  How runs come to be      *)
(* queued is the matter of JobStore; here a run is queued from the start   *)
(* and taken at any time.                                                  *)
(***************************************************************************)
EXTENDS Integers

CONSTANTS
    Days,         \* UTC days, the keys of Digest
    ScrapeRuns,   \* runs of digest.scrape
    LlmRuns,      \* runs of digest.llm
    DayOf,        \* DayOf[r]: the day of a run's scheduled_for
    Sources,      \* the active Sources
    BuildDays,    \* days for which digest.build is delivered
    Modes,        \* DIGEST_MODE values of the deployments considered
    Movable,      \* stages whose runner an administrator may change
    Runners,      \* identities of external runners, one per bearer token
    MaxBatches,   \* bound: batches submitted
    MaxTime,      \* bound: the clock
    MaxFaults,    \* bound: failed calls, lost answers and crashes
    ArtifactTTL,  \* artifactTTL
    WorkLease,    \* workLeaseTTL
    Null          \* SQL NULL

Runs      == ScrapeRuns \cup LlmRuns
Batches   == 1..MaxBatches
Time      == 0..MaxTime

\* One artifact per source and run: label "source:<name>", unique within a run
\* because Scrape clears what the run wrote before.
Artifacts   == ScrapeRuns \X Sources
Producer(a) == a[1]

ASSUME DigestConstants ==
    /\ ScrapeRuns \cap LlmRuns = {}
    /\ DayOf \in [Runs -> Days]
    /\ BuildDays \subseteq Days
    /\ Modes \subseteq {"local", "fargate"} /\ Movable \subseteq {"scrape", "llm"}
    /\ MaxBatches \in Nat /\ MaxTime \in Nat /\ MaxFaults \in Nat
    /\ ArtifactTTL \in Nat /\ WorkLease \in Nat

VARIABLES
    clock,
    mode,      \* DIGEST_MODE of this deployment
    external,  \* the stages whose job has runner local or any
    runs,      \* job_runs: status and the runner that closed it
    arts,      \* artifacts: a row, or Null when it does not exist
    rank,      \* rank[r]: when r's artifacts were inserted, in id order; 0 before
    digests,   \* digests: a row per day, status "absent" before the insert
    batches,   \* what Anthropic knows of a batch
    faults

digestStoreVars == <<clock, mode, external, runs, arts, rank, digests, batches, faults>>

-----------------------------------------------------------------------------
OrNull(S) == S \cup {Null}

ArtifactRow == [status   : {"pending", "claimed", "done", "expired"},
                holder   : OrNull(Runners),   \* claimed_by
                expires  : Nat,               \* TTL, then lease: one column
                consumer : OrNull(Runs)]

\* "from" is no column: the scrape runs whose artifacts the text is made of.
DigestRow == [status : {"absent", "pending", "completed", "failed"},
              batch  : OrNull(Batches), from : SUBSET ScrapeRuns]

BatchRow  == [state : {"unused", "processing", "good", "bad"},
              day   : OrNull(Days), from : SUBSET ScrapeRuns]

RunRow    == [status : {"queued", "running", "succeeded", "failed"},
              runner : OrNull(Runners)]

\* NULL is neither a value nor a row.
ASSUME DigestNull == /\ Null \notin Nat \cup Days \cup Runs \cup Runners
                     /\ Null \notin ArtifactRow

DigestStoreTypeOK ==
    /\ clock \in Time
    /\ mode \in Modes /\ external \subseteq Movable
    /\ runs \in [Runs -> RunRow]
    /\ arts \in [Artifacts -> OrNull(ArtifactRow)]
    /\ rank \in [ScrapeRuns -> Nat]
    /\ digests \in [Days -> DigestRow]
    /\ batches \in [Batches -> BatchRow]
    /\ faults \in 0..MaxFaults

DigestStoreInit ==
    /\ clock = 0
    /\ mode \in Modes /\ external \in SUBSET Movable
    /\ runs = [r \in Runs |-> [status |-> "queued", runner |-> Null]]
    /\ arts = [a \in Artifacts |-> Null]
    /\ rank = [r \in ScrapeRuns |-> 0]
    /\ digests = [d \in Days |-> [status |-> "absent", batch |-> Null, from |-> {}]]
    /\ batches = [b \in Batches |-> [state |-> "unused", day |-> Null, from |-> {}]]
    /\ faults = 0

-----------------------------------------------------------------------------
(* Reading artifacts *)

Exists(a)     == arts[a] # Null
Is(a, status) == Exists(a) /\ arts[a].status = status
Of(r)         == {a \in Artifacts : Producer(a) = r /\ Exists(a)}
PendingOf(r)  == {a \in Of(r) : Is(a, "pending")}

\* claimableArtifacts.
ClaimableOf(r, now) ==
    {a \in Of(r) : /\ "scrape" \in external
                   /\ \/ Is(a, "pending")
                      \/ Is(a, "claimed") /\ arts[a].expires <= now}

HeldBy(n, r) == {a \in Of(r) : arts[a].holder = n}

\* Ids grow with the transaction that inserted them.
Newest(S) == CHOOSE r \in S : \A q \in S : rank[q] <= rank[r]
Oldest(S) == CHOOSE r \in S : \A q \in S : rank[r] <= rank[q]

-----------------------------------------------------------------------------
(* Writing rows *)

\* Insert a scrape's artifacts, first clearing what the run left pending.
ArtifactsWritten(r, new, expires) ==
    /\ arts' = [a \in Artifacts |->
          IF a \in new THEN [status |-> "pending", holder |-> Null,
                             expires |-> expires, consumer |-> Null]
          ELSE IF a \in PendingOf(r) THEN Null
          ELSE arts[a]]
    /\ rank' = [rank EXCEPT ![r] = 1 + (IF \E q \in ScrapeRuns : rank[q] # 0
                                         THEN rank[Newest(ScrapeRuns)] ELSE 0)]

\* Faulty variant: take the first row only, as a job queue would.
ClaimedFirst(S, n, until) ==
    arts' = [arts EXCEPT ![CHOOSE a \in S : TRUE] =
        [@ EXCEPT !.status = "claimed", !.holder = n, !.expires = until]]

\* Take every row of S with one UPDATE.
Claimed(S, n, until) ==
    arts' = [a \in Artifacts |->
        IF a \in S THEN [arts[a] EXCEPT !.status = "claimed", !.holder = n, !.expires = until]
        ELSE arts[a]]

\* MarkConsumed, and step (5) of a completion.
Consumed(S, r) ==
    arts' = [a \in Artifacts |->
        IF a \in S THEN [arts[a] EXCEPT !.status = "done", !.consumer = r] ELSE arts[a]]

\* Faulty variant: any result replaces the row.
PersistedAlways(d, result) == digests' = [digests EXCEPT ![d] = result]

\* Persist.  A completed result replaces the row; a pending or a failed one is
\* ON CONFLICT DO NOTHING.
Persisted(d, result) ==
    digests' = [digests EXCEPT ![d] =
        IF result.status = "completed" \/ @.status = "absent" THEN result ELSE @]

PendingDays == {d \in Days : digests[d].status = "pending" /\ digests[d].batch # Null}

Closed(r, status) == runs' = [runs EXCEPT ![r].status = status]

\* The result of a build: a row to be, with no batch unless it is pending.
Completed(from)     == [status |-> "completed", batch |-> Null, from |-> from]
Failed              == [status |-> "failed", batch |-> Null, from |-> {}]
Submitted(b, from)  == [status |-> "pending", batch |-> b, from |-> from]

-----------------------------------------------------------------------------
\* Something fails: every failure counts against one bound.
Fault == faults < MaxFaults /\ faults' = faults + 1

Tock ==
    /\ clock < MaxTime /\ clock' = clock + 1
    /\ UNCHANGED <<mode, external, runs, arts, rank, digests, batches, faults>>

\* A batch ends, with a summary, or errored, expired, canceled or refused.
EndBatch(b) ==
    /\ batches[b].state = "processing"
    /\ \E state \in {"good", "bad"} : batches' = [batches EXCEPT ![b].state = state]
    /\ UNCHANGED <<clock, mode, external, runs, arts, rank, digests, faults>>

\* update-job with a runner, by an administrator.
ChangeRunner(stage) ==
    /\ external' \in {external \cup {stage}, external \ {stage}}
    /\ external' # external
    /\ UNCHANGED <<clock, mode, runs, arts, rank, digests, batches, faults>>

\* Faulty variant: the lease of a claimed row is taken for its TTL.
LapsedOrLeased == {a \in Artifacts : (Is(a, "pending") \/ Is(a, "claimed")) /\ arts[a].expires < clock}

\* sweepArtifacts: only pending rows; a claimed row's expires_at is its lease.
Lapsed == {a \in Artifacts : Is(a, "pending") /\ arts[a].expires < clock}

SweepArtifacts ==
    /\ Lapsed # {}
    /\ arts' = [a \in Artifacts |->
          IF a \in Lapsed THEN [arts[a] EXCEPT !.status = "expired"] ELSE arts[a]]
    /\ UNCHANGED <<clock, mode, external, runs, rank, digests, batches, faults>>
=============================================================================
