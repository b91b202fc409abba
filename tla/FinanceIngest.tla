---------------------------- MODULE FinanceIngest ----------------------------
(***************************************************************************)
(* The finance ingest (internal/finance/ingest.go, hash.go, window.go, the *)
(* windows of api/finance_sync.go and the endpoint of api/finance.go): a   *)
(* broker at home claims a window per account, reads the bank and posts    *)
(* what it read; each post is one READ COMMITTED transaction, cut here     *)
(* where another one can get between its statements.                       *)
(*                                                                         *)
(* The unit of data is the canonical key of a posted row (canonicalFields: *)
(* account, date, amount, description, balance): the bank shows a key some *)
(* number of times, and a stored row is a key with an occurrence number.   *)
(***************************************************************************)
EXTENDS Integers, FiniteSets

CONSTANTS
    Accounts,   \* names of bank accounts
    Keys,       \* canonical keys of posted rows
    AccountOf,  \* [Keys -> Accounts]
    DayOf,      \* [Keys -> Nat]: the posted date in the key
    Holds,      \* the bank's pending (not yet settled) transactions
    HolderOf,   \* [Holds -> Accounts]
    Txs,        \* concurrent ingest requests
    Overlap,    \* FinanceSyncOverlapDays
    Lag,        \* how many days back the bank may still post a row
    Ahead,      \* how many days the broker's `to` may be ahead of UTC today
    MaxDay,     \* bound: the last day
    MaxCopies,  \* bound: identical rows of one key
    MaxSent,    \* bound: payloads that may still arrive
    DryRuns     \* the values of dry_run the broker sends

ASSUME IngestAssumption ==
    /\ AccountOf \in [Keys -> Accounts] /\ DayOf \in [Keys -> Nat]
    /\ HolderOf \in [Holds -> Accounts]
    /\ IsFiniteSet(Keys) /\ DryRuns \subseteq BOOLEAN
    /\ Overlap \in Nat /\ Lag \in Nat /\ Ahead \in Nat
    /\ MaxDay \in Nat /\ MaxCopies \in Nat /\ MaxSent \in Nat

VARIABLES
    clock,     \* today, in days
    bank,      \* bank[k]: how many posted rows of key k the bank shows
    held,      \* the holds the bank shows as pending
    sent,      \* payloads the broker may still deliver, again or for the first time
    accts,     \* the accounts table
    ledger,    \* the transactions table: one element per dedup_hash
    pend,      \* the pending_transactions table
    tx         \* tx[t]: the transaction of request t

ingestVars == <<clock, bank, held, sent, accts, ledger, pend, tx>>
tables == <<accts, ledger, pend>>
world == <<clock, bank, held>>

-----------------------------------------------------------------------------
(* Data *)

Never == -1          \* a nil posted_watermark
Earliest == 0        \* today less the backfill span: the bank shows nothing older
NoOne == "no account"

ASSUME NoOneAssumption == NoOne \notin Accounts

\* DedupHash of a row: its key and its occurrence number.
Hash == [key: Keys, occ: Nat]

Payload == [declared: SUBSET Accounts,        \* accounts[]
            named: Accounts \cup {NoOne},     \* window.account
            to: Nat,                          \* window.to
            posted: [Keys -> Nat],            \* rows that arrived, per key
            expected: Nat,                    \* expected_posted
            pending: SUBSET Holds,
            dry: BOOLEAN]

PendingRow == [hold: Holds, by: Txs, declared: BOOLEAN]

\* ComputeWindow: a full backfill, or from the overlap before the watermark.
WindowFrom(wm) ==
    IF wm = Never THEN Earliest
    ELSE IF wm - Overlap > Earliest THEN wm - Overlap ELSE Earliest

\* Faulty variant: identical rows share one hash.
HashesWithoutOccurrence(p) == {[key |-> k, occ |-> 0] : k \in {j \in Keys : p.posted[j] > 0}}
\* Faulty variant: the ordinal goes on from what the ledger holds.
HashesAfterLedger(p) ==
    UNION {{[key |-> k, occ |-> Cardinality({h \in ledger : h.key = k}) + n] :
                n \in 0 .. p.posted[k] - 1} : k \in Keys}
\* Faulty variant: the ordinals start below 0.
HashesOffByOne(p) ==
    UNION {{[key |-> k, occ |-> n - 1] : n \in 0 .. p.posted[k] - 1} : k \in Keys}
\* The occurrence counter numbers the identical rows of a payload from 0.
Numbered(counts) ==
    UNION {{[key |-> k, occ |-> n] : n \in 0 .. counts[k] - 1} : k \in Keys}
HashesOf(p) == Numbered(p.posted)

PostedRows(counts) == Cardinality(Numbered(counts))
PostedAccounts(p) == {AccountOf[k] : k \in {j \in Keys : p.posted[j] > 0}}
PendingAccounts(p) == {HolderOf[h] : h \in p.pending}

\* The accounts the run resolves before it gets to the watermark.
Resolved(p) == p.declared \cup PostedAccounts(p) \cup PendingAccounts(p)

Reconciled(p) == p.expected = PostedRows(p.posted)

\* Who was scanned: the nominated account, else those declared or posted to;
\* an account met in a pending row only is not.
Targets(p) ==
    IF p.named # NoOne THEN {p.named} ELSE p.declared \cup PostedAccounts(p)

IdleTx == [pc |-> "idle"]

-----------------------------------------------------------------------------
(* The bank, and the broker that reads it *)

NextDay ==
    /\ clock < MaxDay
    /\ clock' = clock + 1
    /\ UNCHANGED <<bank, held, sent, tables, tx>>

\* A row settles: dated at most Lag days back, for good.
BankPosts(k) ==
    /\ clock - Lag <= DayOf[k] /\ DayOf[k] <= clock
    /\ bank[k] < MaxCopies
    /\ bank' = [bank EXCEPT ![k] = @ + 1]
    /\ \E gone \in {{}} \cup {{h} : h \in {g \in held : HolderOf[g] = AccountOf[k]}} :
          held' = held \ gone
    /\ UNCHANGED <<clock, sent, tables, tx>>

\* A hold appears, or is released without settling.
BankHolds(h) ==
    /\ held' = IF h \in held THEN held \ {h} ELSE held \cup {h}
    /\ UNCHANGED <<clock, bank, sent, tables, tx>>

\* claimFinanceSync hands out one window per account, and the broker reads the
\* bank for the accounts in scanned (one the table lacks, in full).  It
\* declares none, what it scanned, or every account: then it names the one it
\* scanned.  A row may be lost on the way; expected_posted is the broker's own count
\* (without it a loss cannot be seen, and the payload is one that lost nothing).
Scrape(scanned, declared, lost, dry, slack) ==
    LET inWindow == {k \in Keys : /\ AccountOf[k] \in scanned
                                  /\ WindowFrom(accts[AccountOf[k]].wm) <= DayOf[k]}
        seen     == [k \in Keys |-> IF k \in inWindow THEN bank[k] ELSE 0]
    IN
    /\ Cardinality(sent) < MaxSent
    /\ scanned # {} /\ declared \in {{}, scanned, Accounts}
    /\ declared \subseteq scanned \/ Cardinality(scanned) = 1
    /\ lost \subseteq {k \in Keys : seen[k] > 0} /\ (dry => lost = {})
    /\ sent' = sent \cup
          {[declared |-> declared,
            named    |-> IF declared \subseteq scanned THEN NoOne
                         ELSE CHOOSE a \in scanned : TRUE,
            to       |-> clock + slack,
            posted   |-> [k \in Keys |-> IF k \in lost THEN seen[k] - 1 ELSE seen[k]],
            expected |-> PostedRows(seen),
            pending  |-> held, dry |-> dry]}
    /\ UNCHANGED <<world, tables, tx>>

\* The broker has its answer, or gives the payload up.
Retire(p) ==
    /\ sent' = sent \ {p}
    /\ UNCHANGED <<world, tables, tx>>

-----------------------------------------------------------------------------
(* The transaction of Ingest *)

Running(t) == tx[t].pc # "idle"

\* Row locks another transaction holds: accounts it declared (ON CONFLICT DO
\* UPDATE) or is creating.
LockedFor(t, a) == \E u \in Txs \ {t} : Running(u) /\ a \in tx[u].locks

\* Steps (1) and the account lookups of (3) and (4): declared accounts are
\* upserted and so locked, others read or created as a placeholder.
\* Faulty variant: a declared account is read before anything locks its row.
BeginUnlocked(t, p) ==
    /\ ~Running(t)
    /\ tx' = [tx EXCEPT ![t] = [pc |-> "begun", p |-> p, locks |-> {},
                                 seen |-> [a \in Accounts |-> accts[a].wm], cleared |-> {}]]
    /\ UNCHANGED <<world, sent, tables>>
Begin(t, p) ==
    /\ ~Running(t)
    /\ \A a \in Resolved(p) :
          a \in p.declared \/ ~accts[a].exists => ~LockedFor(t, a)
    /\ tx' = [tx EXCEPT ![t] =
                 [pc |-> "begun", p |-> p,
                  locks |-> p.declared \cup {a \in Resolved(p) : ~accts[a].exists},
                  seen |-> [a \in Accounts |-> accts[a].wm], cleared |-> {}]]
    /\ UNCHANGED <<world, sent, tables>>

\* Steps (2) to (4): the rows are inserted, which waits for another transaction
\* inserting the same hash; the pending rows of the accounts the payload has
\* pending rows for are deleted, as far as they are committed.
Cleared(p) == {r \in pend : HolderOf[r.hold] \in PendingAccounts(p)}

Write(t) ==
    LET p == tx[t].p IN
    /\ tx[t].pc = "begun"
    /\ \A u \in Txs \ {t} :
          tx[u].pc = "written" => HashesOf(tx[u].p) \cap HashesOf(p) \subseteq ledger
    /\ tx' = [tx EXCEPT ![t].pc = "written", ![t].cleared = Cleared(p)]
    /\ UNCHANGED <<world, sent, tables>>

\* Step (5): a dry run, or one that did not reconcile, rolls back.
Lands(p) == ~p.dry /\ Reconciled(p)

\* Step (6): the watermark as this transaction read it, moved forward only.
WatermarkRead(t, a) == IF a \in Resolved(tx[t].p) THEN tx[t].seen[a] ELSE accts[a].wm
NewWatermark(p) == IF p.to > clock THEN clock ELSE p.to
Advancing(t) ==
    {a \in Targets(tx[t].p) : WatermarkRead(t, a) < NewWatermark(tx[t].p)}

Commit(t) ==
    LET p   == tx[t].p
        own == {[hold |-> h, by |-> t, declared |-> HolderOf[h] \in p.declared] : h \in p.pending}
    IN
    /\ tx[t].pc = "written"
    /\ Lands(p)
    /\ \A a \in Advancing(t) : ~LockedFor(t, a)
    /\ accts' = [a \in Accounts |->
          [exists |-> accts[a].exists \/ a \in Resolved(p) \cup Targets(p),
           wm     |-> IF a \in Advancing(t) THEN NewWatermark(p) ELSE accts[a].wm]]
    /\ ledger' = ledger \cup HashesOf(p)
    /\ pend' = (pend \ tx[t].cleared) \cup own
    /\ tx' = [u \in Txs |-> IF u = t \/ ~Running(u) THEN IdleTx
                            ELSE [tx[u] EXCEPT !.cleared = @ \ own]]
    /\ UNCHANGED <<world, sent>>

\* A dry run and a refused one (422) leave nothing behind; neither does a
\* statement that fails, a killed process or a deadlock the database breaks.
Rollback(t) ==
    /\ tx[t].pc = "written" \/ (tx[t].pc = "begun" /\ Lands(tx[t].p))
    /\ tx' = [tx EXCEPT ![t] = IdleTx]
    /\ UNCHANGED <<world, sent, tables>>

-----------------------------------------------------------------------------
IngestInit ==
    /\ clock = 0 /\ bank = [k \in Keys |-> 0] /\ held = {}
    /\ sent = {}
    /\ accts = [a \in Accounts |-> [exists |-> FALSE, wm |-> Never]]
    /\ ledger = {} /\ pend = {}
    /\ tx = [t \in Txs |-> IdleTx]

BankNext == NextDay \/ (\E k \in Keys : BankPosts(k)) \/ (\E h \in Holds : BankHolds(h))

BrokerNext ==
    \/ \E scanned, declared \in SUBSET Accounts, lost \in {{}} \cup {{k} : k \in Keys},
          dry \in DryRuns, slack \in 0 .. Ahead :
          Scrape(scanned, declared, lost, dry, slack)
    \/ \E p \in sent : Retire(p)

IngestNext ==
    \E t \in Txs : Write(t) \/ Commit(t) \/ Rollback(t) \/ \E p \in sent : Begin(t, p)

Next == BankNext \/ BrokerNext \/ IngestNext

Spec == IngestInit /\ [][Next]_ingestVars

-----------------------------------------------------------------------------
TypeOK ==
    /\ clock \in Nat /\ bank \in [Keys -> Nat] /\ held \in SUBSET Holds
    /\ sent \in SUBSET Payload
    /\ accts \in [Accounts -> [exists: BOOLEAN, wm: Nat \cup {Never}]]
    /\ ledger \in SUBSET Hash
    /\ pend \in SUBSET PendingRow
    /\ tx \in [Txs -> {IdleTx} \cup
                  [pc: {"begun", "written"}, p: Payload, locks: SUBSET Accounts,
                   seen: [Accounts -> Nat \cup {Never}], cleared: SUBSET PendingRow]]

\* window.go: an incremental window re-scans the overlap "so a late-settling row
\* is still caught".  No row the bank has ever shown is out of the reach of the
\* next window and missing from the ledger, whatever the order in which
\* payloads arrive, however often, and whatever got lost on the way.
NothingIsForgotten ==
    Lag + Ahead <= Overlap =>
        \A k \in Keys, n \in 0 .. MaxCopies - 1 :
            n < bank[k] /\ DayOf[k] < WindowFrom(accts[AccountOf[k]].wm)
                => [key |-> k, occ |-> n] \in ledger

\* hash.go: re-scraped days give "the same set of ordinals, hence the same
\* hashes".  However windows overlap, the ledger never has more rows of
\* a key than the bank does, and it has no gap in their numbers.
LedgerWithinBank ==
    \A h \in ledger :
        h.occ < bank[h.key] /\ \A n \in 0 .. h.occ : [key |-> h.key, occ |-> n] \in ledger

\* ingest.go: "Monotonic: only ever move the watermark forward", of an account the
\* payload declares, whose row the upsert has locked since before it was read.  Of one
\* that only rows name it is false: its watermark is read without a lock, and written by id.
WatermarkForward ==
    [][\A t \in Txs, a \in Accounts :
          Commit(t) /\ a \in tx[t].p.declared => accts'[a].wm >= accts[a].wm]_ingestVars

\* ingest.go, step (4): the pending set is replaced.  Requests that overlap
\* never leave an account with the pending rows of two of them, as long as they declare it.
PendingIsOneSnapshot ==
    \A r, q \in pend :
        r.declared /\ q.declared /\ HolderOf[r.hold] = HolderOf[q.hold] => r.by = q.by

\* docs/adr/0015: "the whole pending set for an account is replaced on each
\* refresh".  What a payload says of an account it declares is what is stored of it.
PendingIsReplaced ==
    [][\A t \in Txs, a \in Accounts :
          Commit(t) /\ a \in tx[t].p.declared =>
              {r.hold : r \in {q \in pend' : HolderOf[q.hold] = a}}
                  \subseteq tx[t].p.pending]_ingestVars
=============================================================================
