----------------------------- MODULE IngestProofs -----------------------------
(***************************************************************************)
(* Theorems about FinanceIngest, for any accounts, keys, requests, overlap *)
(* and settling delay, and however long the calendar runs.                 *)
(***************************************************************************)
EXTENDS FinanceIngest, FiniteSetTheorems, TLAPS

-----------------------------------------------------------------------------
(* What every state satisfies *)

TxRow == [pc: {"begun", "written"}, p: Payload, locks: SUBSET Accounts,
          seen: [Accounts -> Nat \cup {Never}], cleared: SUBSET PendingRow]

\* A payload shows no row the bank has not got, and its `to` is not too far ahead.
Sound(p) == /\ \A k \in Keys : p.posted[k] <= bank[k]
            /\ p.to <= clock + Ahead

\* A payload that reconciles has, of the accounts it would move, every row that
\* its watermark would leave behind, unless the ledger already has it.
Covers(p) ==
    Lag + Ahead <= Overlap /\ Reconciled(p) =>
        \A k \in Keys, n \in Nat :
            AccountOf[k] \in Targets(p) /\ DayOf[k] + Overlap < p.to /\ n < bank[k]
                => n < p.posted[k] \/ [key |-> k, occ |-> n] \in ledger

Fits(p) == Sound(p) /\ Covers(p)

FlightOK == /\ \A p \in sent : Fits(p)
            /\ \A t \in Txs : Running(t) => Fits(tx[t].p)

\* No watermark is in the future, and the ledger has all that is behind one.
WatermarkCovered ==
    /\ \A a \in Accounts : accts[a].wm <= clock
    /\ Lag + Ahead <= Overlap =>
          \A k \in Keys, n \in Nat :
              n < bank[k] /\ DayOf[k] < WindowFrom(accts[AccountOf[k]].wm)
                  => [key |-> k, occ |-> n] \in ledger

\* A transaction holds the rows it declared against every other one, and knows
\* their watermarks as they are.
LocksOK ==
    \A t \in Txs : Running(t) =>
        /\ tx[t].p.declared \subseteq tx[t].locks
        /\ \A a \in tx[t].p.declared : tx[t].seen[a] = accts[a].wm
        /\ \A u \in Txs \ {t} : Running(u) => tx[t].locks \cap tx[u].locks = {}

\* It has seen, and so deletes, every declared pending row of its accounts.
PendingOK ==
    \A t \in Txs : tx[t].pc = "written" =>
        \A r \in pend :
            /\ r.declared /\ HolderOf[r.hold] \in tx[t].p.declared
            /\ HolderOf[r.hold] \in PendingAccounts(tx[t].p)
            => r \in tx[t].cleared

Inv == /\ TypeOK /\ FlightOK /\ LedgerWithinBank /\ WatermarkCovered
       /\ LocksOK /\ PendingOK /\ PendingIsOneSnapshot

-----------------------------------------------------------------------------
(* Counting rows *)

\* The numbers given to identical rows are those below their count, and there
\* are finitely many rows.
LEMMA NumberedFacts ==
    ASSUME NEW c \in [Keys -> Nat]
    PROVE  /\ Numbered(c) \in SUBSET Hash
           /\ \A k \in Keys, n \in Nat : [key |-> k, occ |-> n] \in Numbered(c) <=> n < c[k]
           /\ IsFiniteSet(Numbered(c))
           /\ PostedRows(c) \in Nat
<1> DEFINE Of(k) == {[key |-> k, occ |-> n] : n \in 0 .. c[k] - 1}
           All   == {Of(k) : k \in Keys}
<1>1. Numbered(c) \in SUBSET Hash
  BY DEF Numbered, Hash
<1>2. ASSUME NEW k \in Keys, NEW n \in Nat PROVE [key |-> k, occ |-> n] \in Numbered(c) <=> n < c[k]
  <2>1. n < c[k] => n \in 0 .. c[k] - 1
    OBVIOUS
  <2>2. n < c[k] => [key |-> k, occ |-> n] \in Numbered(c)
    BY <2>1 DEF Numbered
  <2>3. ASSUME [key |-> k, occ |-> n] \in Numbered(c) PROVE n < c[k]
    <3>1. PICK j \in Keys : \E m \in 0 .. c[j] - 1 : [key |-> k, occ |-> n] = [key |-> j, occ |-> m]
      BY <2>3 DEF Numbered
    <3>2. PICK m \in 0 .. c[j] - 1 : [key |-> k, occ |-> n] = [key |-> j, occ |-> m]
      BY <3>1
    <3>3. j = k /\ m = n
      BY <3>2
    <3> QED BY <3>3
  <2> QED BY <2>2, <2>3
<1>3. ASSUME NEW k \in Keys PROVE IsFiniteSet(Of(k))
  <2> DEFINE f == [n \in 0 .. c[k] - 1 |-> [key |-> k, occ |-> n]]
  <2>1. c[k] - 1 \in Int
    OBVIOUS
  <2>2. IsFiniteSet(0 .. c[k] - 1)
    BY <2>1, FS_Interval
  <2>3. f \in Surjection(0 .. c[k] - 1, Of(k))
    BY DEF Surjection
  <2> QED BY <2>2, <2>3, FS_Surjection
<1>4. IsFiniteSet(All)
  <2> DEFINE g == [k \in Keys |-> Of(k)]
  <2>1. g \in Surjection(Keys, All)
    <3> HIDE DEF Of
    <3> QED BY DEF Surjection
  <2> QED BY <2>1, FS_Surjection, IngestAssumption
<1>5. IsFiniteSet(Numbered(c))
  <2>1. Numbered(c) = UNION All
    BY DEF Numbered
  <2>2. \A T \in All : IsFiniteSet(T)
    BY <1>3
  <2> HIDE DEF All
  <2> QED BY <2>1, <2>2, <1>4, FS_UNION
<1> QED BY <1>1, <1>2, <1>5, FS_CardinalityType DEF PostedRows

\* Of two readings, one row for row within the other, with as many rows, neither
\* has a row the other lacks.
LEMMA SameCount ==
    ASSUME NEW c \in [Keys -> Nat], NEW d \in [Keys -> Nat],
           \A k \in Keys : c[k] <= d[k], PostedRows(c) = PostedRows(d)
    PROVE  \A k \in Keys : c[k] = d[k]
<1>1. Numbered(c) \in SUBSET Numbered(d)
  <2> SUFFICES ASSUME NEW h \in Numbered(c) PROVE h \in Numbered(d)
    OBVIOUS
  <2>1. PICK k \in Keys, n \in Nat : h = [key |-> k, occ |-> n]
    BY DEF Numbered
  <2> QED BY <2>1, NumberedFacts
<1>2. Numbered(c) = Numbered(d)
  BY <1>1, NumberedFacts, FS_Subset DEF PostedRows
<1>3. ASSUME NEW k \in Keys, c[k] < d[k] PROVE FALSE
  <2>1. [key |-> k, occ |-> c[k]] \in Numbered(d) /\ [key |-> k, occ |-> c[k]] \notin Numbered(c)
    BY <1>3, NumberedFacts
  <2> QED BY <2>1, <1>2
<1> QED BY <1>3

-----------------------------------------------------------------------------
(* Types *)

\* A running transaction has a row of its own.
LEMMA RunningRow ==
    ASSUME TypeOK, NEW t \in Txs
    PROVE  /\ Running(t) <=> tx[t] \in TxRow
           /\ ~Running(t) <=> tx[t] = IdleTx
           /\ tx[t].pc \in {"begun", "written"} => Running(t)
BY DEF TypeOK, TxRow, Running, IdleTx

\* What a payload is about.
LEMMA PayloadFacts ==
    ASSUME NEW p \in Payload
    PROVE  /\ Resolved(p) \subseteq Accounts /\ Targets(p) \subseteq Accounts
           /\ HashesOf(p) \in SUBSET Hash
           /\ \A k \in Keys, n \in Nat : [key |-> k, occ |-> n] \in HashesOf(p) <=> n < p.posted[k]
<1>1. p.posted \in [Keys -> Nat] /\ p.declared \subseteq Accounts /\ p.pending \subseteq Holds
      /\ (p.named # NoOne => p.named \in Accounts)
  BY DEF Payload
<1>2. PostedAccounts(p) \subseteq Accounts /\ PendingAccounts(p) \subseteq Accounts
  BY <1>1, IngestAssumption DEF PostedAccounts, PendingAccounts
<1>3. Resolved(p) \subseteq Accounts /\ Targets(p) \subseteq Accounts
  BY <1>1, <1>2 DEF Resolved, Targets
<1> QED BY <1>1, <1>3, NumberedFacts DEF HashesOf

\* What the broker reads of the accounts it scans, and what arrives of it.
Seen(scanned) ==
    [k \in Keys |-> IF AccountOf[k] \in scanned /\ WindowFrom(accts[AccountOf[k]].wm) <= DayOf[k]
                    THEN bank[k] ELSE 0]
Arrived(scanned, lost) ==
    [k \in Keys |-> IF k \in lost THEN Seen(scanned)[k] - 1 ELSE Seen(scanned)[k]]
Named(scanned, declared) ==
    IF declared \subseteq scanned THEN NoOne ELSE CHOOSE a \in scanned : TRUE
Sending(scanned, declared, lost, dry, slack) ==
    [declared |-> declared, named |-> Named(scanned, declared), to |-> clock + slack,
     posted |-> Arrived(scanned, lost), expected |-> PostedRows(Seen(scanned)),
     pending |-> held, dry |-> dry]

\* A scrape adds one well-formed payload.
LEMMA ScrapeSends ==
    ASSUME TypeOK, NEW scanned \in SUBSET Accounts, NEW declared \in SUBSET Accounts,
           NEW lost \in SUBSET Keys, NEW dry \in DryRuns, NEW slack \in 0 .. Ahead,
           Scrape(scanned, declared, lost, dry, slack)
    PROVE  /\ sent' = sent \cup {Sending(scanned, declared, lost, dry, slack)}
           /\ Sending(scanned, declared, lost, dry, slack) \in Payload
           /\ Seen(scanned) \in [Keys -> Nat] /\ Arrived(scanned, lost) \in [Keys -> Nat]
           /\ \A k \in Keys : Arrived(scanned, lost)[k] <= Seen(scanned)[k] /\ Seen(scanned)[k] <= bank[k]
           /\ Targets(Sending(scanned, declared, lost, dry, slack)) \subseteq scanned
           /\ UNCHANGED <<world, tables, tx>>
<1> DEFINE p == Sending(scanned, declared, lost, dry, slack)
<1>0. /\ clock \in Nat /\ bank \in [Keys -> Nat] /\ held \in SUBSET Holds
      /\ slack \in Nat /\ dry \in BOOLEAN
  BY IngestAssumption DEF TypeOK
<1>1. Seen(scanned) \in [Keys -> Nat] /\ \A k \in Keys : Seen(scanned)[k] <= bank[k]
  BY <1>0 DEF Seen
<1>2. \A k \in lost : Seen(scanned)[k] > 0
  BY DEF Scrape, Seen
<1>3. /\ Arrived(scanned, lost) \in [Keys -> Nat]
      /\ \A k \in Keys : Arrived(scanned, lost)[k] <= Seen(scanned)[k]
  BY <1>1, <1>2 DEF Arrived
<1>4. PostedRows(Seen(scanned)) \in Nat
  BY <1>1, NumberedFacts
<1>5. scanned # {} /\ (CHOOSE a \in scanned : TRUE) \in scanned
  BY DEF Scrape
<1>6. Named(scanned, declared) \in Accounts \cup {NoOne}
  BY <1>5 DEF Named
<1>7. p \in Payload
  BY <1>0, <1>3, <1>4, <1>6 DEF Payload, Sending
<1>8. sent' = sent \cup {p} /\ UNCHANGED <<world, tables, tx>>
  BY DEF Scrape, Sending, Seen, Arrived, Named
<1>9. Targets(p) \subseteq scanned
  <2>1. /\ p.named = Named(scanned, declared) /\ p.declared = declared
        /\ p.posted = Arrived(scanned, lost)
    BY DEF Sending
  <2>2. CASE declared \subseteq scanned
    <3>1. PostedAccounts(p) \subseteq scanned
      <4> SUFFICES ASSUME NEW k \in Keys, p.posted[k] > 0 PROVE AccountOf[k] \in scanned
        BY DEF PostedAccounts
      <4>1. Seen(scanned)[k] > 0
        BY <2>1, <1>1, <1>3
      <4> QED BY <4>1 DEF Seen
    <3>2. CASE p.named = NoOne
      BY <3>1, <3>2, <2>1, <2>2 DEF Targets
    <3> QED BY <3>2, <2>1, <2>2 DEF Named
  <2>3. CASE ~(declared \subseteq scanned)
    <3>1. p.named \in scanned
      BY <2>1, <2>3, <1>5 DEF Named
    <3>2. p.named # NoOne
      BY <3>1, NoOneAssumption
    <3> QED BY <3>1, <3>2 DEF Targets
  <2> QED BY <2>2, <2>3
<1> QED BY <1>1, <1>3, <1>7, <1>8, <1>9

-----------------------------------------------------------------------------
(* The steps of a transaction *)

TxTyped == tx \in [Txs -> {IdleTx} \cup TxRow]

\* A transaction begins: what it remembers, and that nobody holds what it takes.
LEMMA BeginFacts ==
    ASSUME TypeOK, NEW t \in Txs, NEW p \in sent, Begin(t, p)
    PROVE  /\ ~Running(t) /\ p \in Payload /\ TxTyped'
           /\ tx'[t] \in TxRow /\ tx'[t].pc = "begun" /\ tx'[t].p = p
           /\ p.declared \subseteq tx'[t].locks
           /\ \A a \in tx'[t].locks : ~LockedFor(t, a)
           /\ \A a \in Accounts : tx'[t].seen[a] = accts[a].wm
           /\ \A u \in Txs \ {t} : tx'[u] = tx[u]
           /\ UNCHANGED <<world, sent, tables>>
<1> DEFINE row == [pc |-> "begun", p |-> p,
                   locks |-> p.declared \cup {a \in Resolved(p) : ~accts[a].exists},
                   seen |-> [a \in Accounts |-> accts[a].wm], cleared |-> {}]
<1>1. p \in Payload /\ p.declared \subseteq Accounts /\ TxTyped
  BY DEF TypeOK, Payload, TxTyped, TxRow
<1>2. Resolved(p) \subseteq Accounts /\ p.declared \subseteq Resolved(p)
  BY <1>1, PayloadFacts DEF Resolved
<1>3. [a \in Accounts |-> accts[a].wm] \in [Accounts -> Nat \cup {Never}]
  BY DEF TypeOK
<1>4. row \in TxRow
  BY <1>1, <1>2, <1>3 DEF TxRow
<1>5. ~Running(t) /\ tx' = [tx EXCEPT ![t] = row] /\ UNCHANGED <<world, sent, tables>>
  BY DEF Begin
<1>6. tx'[t] = row /\ (\A u \in Txs \ {t} : tx'[u] = tx[u]) /\ TxTyped'
  BY <1>1, <1>4, <1>5 DEF TxTyped
<1>7. \A a \in row.locks : ~LockedFor(t, a)
  BY <1>2 DEF Begin
<1> HIDE DEF row
<1>8. /\ row.pc = "begun" /\ row.p = p /\ p.declared \subseteq row.locks
      /\ \A a \in Accounts : row.seen[a] = accts[a].wm
  BY DEF row
<1> QED BY <1>1, <1>4, <1>5, <1>6, <1>7, <1>8

\* A transaction has written its rows: it remembers the pending rows it deleted.
LEMMA WriteFacts ==
    ASSUME TypeOK, NEW t \in Txs, Write(t)
    PROVE  /\ Running(t) /\ tx[t] \in TxRow /\ TxTyped'
           /\ tx'[t] \in TxRow /\ tx'[t].pc = "written" /\ tx'[t].p = tx[t].p
           /\ tx'[t].locks = tx[t].locks /\ tx'[t].seen = tx[t].seen
           /\ tx'[t].cleared = Cleared(tx[t].p)
           /\ \A u \in Txs \ {t} : tx'[u] = tx[u]
           /\ UNCHANGED <<world, sent, tables>>
<1>1. tx[t].pc = "begun" /\ TxTyped
  BY DEF Write, TypeOK, TxTyped, TxRow
<1>2. Running(t) /\ tx[t] \in TxRow
  BY <1>1, RunningRow
<1>3. Cleared(tx[t].p) \in SUBSET PendingRow
  BY DEF Cleared, TypeOK
<1>4. tx' = [tx EXCEPT ![t] = [tx[t] EXCEPT !.pc = "written", !.cleared = Cleared(tx[t].p)]]
  BY <1>1 DEF Write, TxTyped
<1>5. PICK cleared \in SUBSET PendingRow : cleared = Cleared(tx[t].p)
  BY <1>3
<1>6. [tx[t] EXCEPT !.pc = "written", !.cleared = cleared] \in TxRow
  BY <1>2 DEF TxRow
<1>7. PICK row \in TxRow : row = [tx[t] EXCEPT !.pc = "written", !.cleared = cleared]
  BY <1>6
<1>8. /\ row.pc = "written" /\ row.p = tx[t].p /\ row.locks = tx[t].locks
      /\ row.seen = tx[t].seen /\ row.cleared = cleared
  BY <1>2, <1>7 DEF TxRow
<1>9. tx' = [tx EXCEPT ![t] = row]
  BY <1>4, <1>5, <1>7
<1>10. tx'[t] = row /\ (\A u \in Txs \ {t} : tx'[u] = tx[u]) /\ TxTyped'
  BY <1>1, <1>9 DEF TxTyped
<1>11. UNCHANGED <<world, sent, tables>>
  BY DEF Write
<1> QED BY <1>2, <1>5, <1>8, <1>10, <1>11

\* The pending rows a transaction leaves.
Own(t) == {[hold |-> h, by |-> t, declared |-> HolderOf[h] \in tx[t].p.declared] : h \in tx[t].p.pending}

\* Whose they are, and whether they are declared.
LEMMA OwnRow ==
    ASSUME NEW t \in Txs, NEW r \in Own(t)
    PROVE  /\ r.by = t /\ r.hold \in tx[t].p.pending
           /\ r.declared => HolderOf[r.hold] \in tx[t].p.declared
<1>1. PICK h \in tx[t].p.pending : r = [hold |-> h, by |-> t, declared |-> HolderOf[h] \in tx[t].p.declared]
  BY DEF Own
<1>2. r.by = t /\ r.hold = h
  BY <1>1
<1>3. CASE HolderOf[h] \in tx[t].p.declared
  BY <1>2, <1>3
<1>4. CASE ~(HolderOf[h] \in tx[t].p.declared)
  <2>1. r = [hold |-> h, by |-> t, declared |-> FALSE]
    <3>1. (HolderOf[h] \in tx[t].p.declared) = FALSE
      BY <1>4
    <3> QED BY <1>1, <3>1, Zenon
  <2>2. r.declared = FALSE
    BY <2>1
  <2> QED BY <1>2, <2>2
<1> QED BY <1>3, <1>4

\* A transaction lands: the others go on with what they had.
LEMMA CommitFacts ==
    ASSUME TypeOK, NEW t \in Txs, Commit(t)
    PROVE  /\ Running(t) /\ tx[t] \in TxRow /\ tx[t].pc = "written" /\ tx[t].p \in Payload
           /\ Lands(tx[t].p) /\ \A a \in Advancing(t) : ~LockedFor(t, a)
           /\ Advancing(t) \subseteq Targets(tx[t].p)
           /\ accts' \in [Accounts -> [exists: BOOLEAN, wm: Nat \cup {Never}]]
           /\ \A a \in Accounts :
                 accts'[a].wm = IF a \in Advancing(t) THEN NewWatermark(tx[t].p) ELSE accts[a].wm
           /\ ledger' = ledger \cup HashesOf(tx[t].p)
           /\ pend' = (pend \ tx[t].cleared) \cup Own(t)
           /\ Own(t) \subseteq PendingRow
           /\ TxTyped' /\ ~Running(t)'
           /\ \A u \in Txs : Running(u)' =>
                 /\ u # t /\ Running(u) /\ tx[u] \in TxRow /\ tx'[u] \in TxRow
                 /\ tx'[u].pc = tx[u].pc /\ tx'[u].p = tx[u].p
                 /\ tx'[u].locks = tx[u].locks /\ tx'[u].seen = tx[u].seen
                 /\ tx'[u].cleared = tx[u].cleared \ Own(t)
           /\ UNCHANGED <<world, sent>>
<1> DEFINE p == tx[t].p
<1>1. tx[t].pc = "written" /\ Lands(p) /\ \A a \in Advancing(t) : ~LockedFor(t, a)
  BY DEF Commit
<1>2. Running(t) /\ tx[t] \in TxRow /\ TxTyped
  BY <1>1, RunningRow DEF TypeOK, TxTyped, TxRow
<1>3. p \in Payload /\ p.to \in Nat /\ p.pending \subseteq Holds
  BY <1>2 DEF TxRow, Payload
<1>4. NewWatermark(p) \in Nat
  BY <1>3 DEF NewWatermark, TypeOK
<1>5. Advancing(t) \subseteq Targets(p)
  BY DEF Advancing
<1>6. accts' = [a \in Accounts |->
          [exists |-> accts[a].exists \/ a \in Resolved(p) \cup Targets(p),
           wm     |-> IF a \in Advancing(t) THEN NewWatermark(p) ELSE accts[a].wm]]
  BY DEF Commit
<1>7. accts' \in [Accounts -> [exists: BOOLEAN, wm: Nat \cup {Never}]]
  <2>1. \A a \in Accounts : accts[a].exists \in BOOLEAN /\ accts[a].wm \in Nat \cup {Never}
    BY DEF TypeOK
  <2> HIDE DEF p
  <2> QED BY <1>4, <1>6, <2>1
<1>8. \A a \in Accounts : accts'[a].wm = IF a \in Advancing(t) THEN NewWatermark(p) ELSE accts[a].wm
  BY <1>6
<1>9. ledger' = ledger \cup HashesOf(p) /\ pend' = (pend \ tx[t].cleared) \cup Own(t)
  BY DEF Commit, Own
<1>10. Own(t) \subseteq PendingRow
  <2> SUFFICES ASSUME NEW h \in p.pending
               PROVE  [hold |-> h, by |-> t, declared |-> HolderOf[h] \in p.declared] \in PendingRow
    BY DEF Own
  <2>1. (HolderOf[h] \in p.declared) \in BOOLEAN
    OBVIOUS
  <2>2. PICK declared \in BOOLEAN : declared = (HolderOf[h] \in p.declared)
    BY <2>1
  <2>3. [hold |-> h, by |-> t, declared |-> declared] \in PendingRow
    BY <1>3 DEF PendingRow
  <2> QED BY <2>2, <2>3
<1>11. tx' = [u \in Txs |-> IF u = t \/ ~Running(u) THEN IdleTx
                            ELSE [tx[u] EXCEPT !.cleared = @ \ Own(t)]]
  BY DEF Commit, Own
<1>12. \A u \in Txs : u = t \/ ~Running(u) => tx'[u] = IdleTx
  BY <1>11
<1>13. ASSUME NEW u \in Txs, u # t, Running(u)
       PROVE  /\ tx[u] \in TxRow /\ tx'[u] \in TxRow
              /\ tx'[u].pc = tx[u].pc /\ tx'[u].p = tx[u].p
              /\ tx'[u].locks = tx[u].locks /\ tx'[u].seen = tx[u].seen
              /\ tx'[u].cleared = tx[u].cleared \ Own(t)
  <2>1. tx[u] \in TxRow
    BY <1>13, RunningRow
  <2>2. PICK left \in SUBSET PendingRow : left = tx[u].cleared \ Own(t)
    BY <2>1 DEF TxRow
  <2>3. tx'[u] = [tx[u] EXCEPT !.cleared = left]
    BY <1>11, <1>13, <2>2
  <2> QED BY <2>1, <2>2, <2>3 DEF TxRow
<1>14. \A u \in Txs : Running(u)' => u # t /\ Running(u)
  BY <1>12 DEF Running, IdleTx
<1>15. ~Running(t)'
  BY <1>12 DEF Running, IdleTx
<1>16. TxTyped'
  <2>1. \A u \in Txs : tx'[u] \in {IdleTx} \cup TxRow
    BY <1>12, <1>13
  <2> QED BY <1>11, <2>1 DEF TxTyped
<1>17. UNCHANGED <<world, sent>>
  BY DEF Commit
<1> QED BY <1>1, <1>2, <1>3, <1>5, <1>7, <1>8, <1>9, <1>10, <1>13, <1>14, <1>15, <1>16, <1>17

\* A transaction rolls back.
LEMMA RollbackFacts ==
    ASSUME TypeOK, NEW t \in Txs, Rollback(t)
    PROVE  /\ TxTyped' /\ ~Running(t)' /\ tx'[t].pc = "idle"
           /\ \A u \in Txs \ {t} : tx'[u] = tx[u]
           /\ UNCHANGED <<world, sent, tables>>
BY DEF Rollback, TypeOK, TxTyped, TxRow, Running, IdleTx

-----------------------------------------------------------------------------
(* Types *)

\* The types hold initially, and every step keeps them.
LEMMA TypesStep == TypeOK /\ [Next]_ingestVars => TypeOK'
<1> SUFFICES ASSUME TypeOK, [Next]_ingestVars PROVE TypeOK'
  OBVIOUS
<1>t. TxTyped' => tx' \in [Txs -> {IdleTx} \cup
                  [pc: {"begun", "written"}, p: Payload, locks: SUBSET Accounts,
                   seen: [Accounts -> Nat \cup {Never}], cleared: SUBSET PendingRow]]
  BY DEF TxTyped, TxRow
<1>1. CASE BankNext
  <2>1. CASE NextDay
    BY <2>1 DEF NextDay, TypeOK, tables
  <2>2. ASSUME NEW k \in Keys, BankPosts(k) PROVE TypeOK'
    <3>1. bank' \in [Keys -> Nat]
      BY <2>2 DEF BankPosts, TypeOK
    <3>2. held' \in SUBSET Holds
      BY <2>2 DEF BankPosts, TypeOK
    <3> QED BY <2>2, <3>1, <3>2 DEF BankPosts, TypeOK, tables
  <2>3. ASSUME NEW h \in Holds, BankHolds(h) PROVE TypeOK'
    BY <2>3 DEF BankHolds, TypeOK, tables
  <2> QED BY <1>1, <2>1, <2>2, <2>3 DEF BankNext
<1>2. CASE BrokerNext
  <2>1. ASSUME NEW scanned \in SUBSET Accounts, NEW declared \in SUBSET Accounts,
               NEW lost \in {{}} \cup {{k} : k \in Keys}, NEW dry \in DryRuns, NEW slack \in 0 .. Ahead,
               Scrape(scanned, declared, lost, dry, slack)
        PROVE  TypeOK'
    <3>1. lost \in SUBSET Keys
      OBVIOUS
    <3> DEFINE p == Sending(scanned, declared, lost, dry, slack)
    <3>2. sent' = sent \cup {p} /\ p \in Payload /\ UNCHANGED <<world, tables, tx>>
      BY <2>1, <3>1, ScrapeSends
    <3> HIDE DEF p
    <3>3. sent' \in SUBSET Payload
      BY <3>2 DEF TypeOK
    <3> QED BY <3>2, <3>3 DEF TypeOK, world, tables
  <2>2. ASSUME NEW p \in sent, Retire(p) PROVE TypeOK'
    BY <2>2 DEF Retire, TypeOK, world, tables
  <2> QED BY <1>2, <2>1, <2>2 DEF BrokerNext
<1>3. ASSUME NEW t \in Txs, NEW p \in sent, Begin(t, p) PROVE TypeOK'
  BY <1>3, <1>t, BeginFacts DEF TypeOK, world, tables
<1>4. ASSUME NEW t \in Txs, Write(t) \/ Rollback(t) PROVE TypeOK'
  BY <1>4, <1>t, WriteFacts, RollbackFacts DEF TypeOK, world, tables
<1>5. ASSUME NEW t \in Txs, Commit(t) PROVE TypeOK'
  <2>1. ledger' \in SUBSET Hash
    BY <1>5, CommitFacts, PayloadFacts DEF TypeOK
  <2>2. pend' \in SUBSET PendingRow
    BY <1>5, CommitFacts DEF TypeOK
  <2> QED BY <1>5, <1>t, <2>1, <2>2, CommitFacts DEF TypeOK, world
<1>6. CASE UNCHANGED ingestVars
  BY <1>6 DEF TypeOK, ingestVars, tables
<1> QED BY <1>1, <1>2, <1>3, <1>4, <1>5, <1>6 DEF Next, IngestNext

-----------------------------------------------------------------------------
(* What only grows: the calendar, the bank and the ledger *)

Onward ==
    /\ clock <= clock'
    /\ \A k \in Keys : bank[k] <= bank'[k] /\ (bank[k] < bank'[k] => clock <= DayOf[k] + Lag)
    /\ ledger \subseteq ledger'

\* Days go by, rows settle at most Lag days late, and the ledger only gains rows.
LEMMA OnwardStep == TypeOK /\ [Next]_ingestVars => Onward
<1> SUFFICES ASSUME TypeOK, [Next]_ingestVars PROVE Onward
  OBVIOUS
<1>0. clock \in Nat /\ bank \in [Keys -> Nat] /\ \A k \in Keys : DayOf[k] \in Nat
  BY IngestAssumption DEF TypeOK
<1>1. CASE UNCHANGED <<clock, bank, ledger>>
  BY <1>0, <1>1 DEF Onward
<1>2. CASE NextDay
  BY <1>0, <1>2 DEF NextDay, Onward, tables
<1>3. ASSUME NEW k \in Keys, BankPosts(k) PROVE Onward
  <2>1. /\ clock' = clock /\ ledger' = ledger /\ bank' = [bank EXCEPT ![k] = @ + 1]
        /\ clock - Lag <= DayOf[k]
    BY <1>3 DEF BankPosts, tables
  <2>2. \A j \in Keys : bank'[j] = IF j = k THEN bank[j] + 1 ELSE bank[j]
    BY <1>0, <2>1
  <2>3. clock <= DayOf[k] + Lag
    BY <1>0, <2>1, IngestAssumption
  <2> QED BY <1>0, <2>1, <2>2, <2>3 DEF Onward
<1>4. ASSUME NEW t \in Txs, Commit(t) PROVE Onward
  BY <1>0, <1>4 DEF Commit, Onward, world
<1>5. ASSUME NEW t \in Txs, Write(t) \/ Rollback(t) \/ \E p \in sent : Begin(t, p) PROVE Onward
  BY <1>1, <1>5 DEF Write, Rollback, Begin, world, tables
<1>6. CASE BrokerNext
  BY <1>1, <1>6 DEF BrokerNext, Scrape, Retire, world, tables
<1>7. ASSUME NEW h \in Holds, BankHolds(h) PROVE Onward
  BY <1>1, <1>7 DEF BankHolds, tables
<1>8. CASE UNCHANGED ingestVars
  BY <1>1, <1>8 DEF ingestVars, tables
<1> QED BY <1>2, <1>3, <1>4, <1>5, <1>6, <1>7, <1>8 DEF Next, BankNext, IngestNext

\* A payload that fits goes on fitting: a row that settles now is too young for
\* its watermark to leave behind.
LEMMA FitsKept ==
    ASSUME TypeOK, TypeOK', Onward, NEW p \in Payload, Fits(p)
    PROVE  Fits(p)'
<1>0. /\ clock \in Nat /\ clock' \in Nat /\ bank \in [Keys -> Nat] /\ bank' \in [Keys -> Nat]
      /\ p.to \in Nat /\ p.posted \in [Keys -> Nat]
      /\ Overlap \in Nat /\ Lag \in Nat /\ Ahead \in Nat /\ \A k \in Keys : DayOf[k] \in Nat
  BY IngestAssumption DEF TypeOK, Payload
<1>1. Sound(p)'
  <2>1. \A k \in Keys : p.posted[k] <= bank'[k]
    BY <1>0 DEF Fits, Sound, Onward
  <2>2. p.to <= clock' + Ahead
    BY <1>0 DEF Fits, Sound, Onward
  <2> QED BY <2>1, <2>2 DEF Sound
<1>2. Covers(p)'
  <2> SUFFICES ASSUME Lag + Ahead <= Overlap, Reconciled(p), NEW k \in Keys, NEW n \in Nat,
                      AccountOf[k] \in Targets(p), DayOf[k] + Overlap < p.to, n < bank'[k]
               PROVE  n < p.posted[k] \/ [key |-> k, occ |-> n] \in ledger'
    BY DEF Covers, Reconciled, Targets
  <2>1. bank'[k] = bank[k]
    <3>1. p.to <= clock + Ahead
      BY DEF Fits, Sound
    <3>2. ~(clock <= DayOf[k] + Lag)
      BY <3>1, <1>0
    <3> QED BY <3>2, <1>0 DEF Onward
  <2> QED BY <2>1 DEF Fits, Covers, Onward
<1> QED BY <1>1, <1>2 DEF Fits

\* A date before a window is one its watermark leaves behind by the overlap.
LEMMA BeforeTheWindow ==
    ASSUME NEW wm \in Nat \cup {Never}, NEW d \in Nat, d < WindowFrom(wm)
    PROVE  wm \in Nat /\ d + Overlap < wm
BY IngestAssumption DEF WindowFrom, Earliest, Never

\* A new payload fits: it has all the bank shows of the accounts scanned but
\* for what the ledger had, or it does not reconcile.
LEMMA ScrapeFits ==
    ASSUME Inv, NEW scanned \in SUBSET Accounts, NEW declared \in SUBSET Accounts,
           NEW lost \in SUBSET Keys, NEW dry \in DryRuns, NEW slack \in 0 .. Ahead,
           Scrape(scanned, declared, lost, dry, slack),
           NEW p \in Payload, p = Sending(scanned, declared, lost, dry, slack)
    PROVE  Fits(p)
<1>0. /\ TypeOK /\ WatermarkCovered
      /\ clock \in Nat /\ bank \in [Keys -> Nat] /\ slack \in Nat /\ slack <= Ahead
  BY IngestAssumption DEF Inv, TypeOK
<1>s. /\ Seen(scanned) \in [Keys -> Nat] /\ Arrived(scanned, lost) \in [Keys -> Nat]
      /\ \A k \in Keys : Arrived(scanned, lost)[k] <= Seen(scanned)[k] /\ Seen(scanned)[k] <= bank[k]
      /\ Targets(p) \subseteq scanned
  BY <1>0, ScrapeSends
<1>p. /\ p.to = clock + slack /\ p.posted = Arrived(scanned, lost)
      /\ p.expected = PostedRows(Seen(scanned))
  BY DEF Sending
<1>1. Sound(p)
  <2>1. \A k \in Keys : p.posted[k] <= bank[k]
    BY <1>0, <1>s, <1>p
  <2> QED BY <2>1, <1>0, <1>p, IngestAssumption DEF Sound
<1>2. Covers(p)
  <2> SUFFICES ASSUME Lag + Ahead <= Overlap, Reconciled(p), NEW k \in Keys, NEW n \in Nat,
                      AccountOf[k] \in Targets(p), n < bank[k]
               PROVE  n < p.posted[k] \/ [key |-> k, occ |-> n] \in ledger
    BY DEF Covers
  <2>1. PICK c \in [Keys -> Nat], d \in [Keys -> Nat] : c = Arrived(scanned, lost) /\ d = Seen(scanned)
    BY <1>s
  <2>2. PostedRows(c) = PostedRows(d)
    BY <2>1, <1>p DEF Reconciled
  <2>3. c[k] = d[k]
    BY <2>1, <2>2, <1>s, SameCount
  <2>4. AccountOf[k] \in scanned
    BY <1>s
  <2>5. CASE WindowFrom(accts[AccountOf[k]].wm) <= DayOf[k]
    BY <2>1, <2>3, <2>4, <2>5, <1>p DEF Seen
  <2>6. CASE ~(WindowFrom(accts[AccountOf[k]].wm) <= DayOf[k])
    <3>1. accts[AccountOf[k]].wm \in Nat \cup {Never} /\ DayOf[k] \in Nat
      BY <1>0, IngestAssumption DEF TypeOK
    <3>2. WindowFrom(accts[AccountOf[k]].wm) \in Int
      BY <3>1, IngestAssumption DEF WindowFrom, Earliest, Never
    <3>3. DayOf[k] < WindowFrom(accts[AccountOf[k]].wm)
      BY <2>6, <3>1, <3>2
    <3> QED BY <3>3, <1>0 DEF WatermarkCovered
  <2> QED BY <2>5, <2>6
<1> QED BY <1>1, <1>2 DEF Fits

\* Every payload in flight goes on fitting.
LEMMA FlightStep == Inv /\ [Next]_ingestVars => FlightOK'
<1> SUFFICES ASSUME Inv, [Next]_ingestVars PROVE FlightOK'
  OBVIOUS
<1>0. TypeOK /\ TypeOK' /\ Onward /\ FlightOK /\ sent \subseteq Payload
  BY TypesStep, OnwardStep DEF Inv, TypeOK
<1>1. \A p \in Payload : Fits(p) => Fits(p)'
  BY <1>0, FitsKept
<1>2. \A p \in sent : Fits(p)'
  BY <1>0, <1>1 DEF FlightOK
<1>3. ASSUME NEW u \in Txs, Running(u) PROVE tx[u].p \in Payload /\ Fits(tx[u].p)
  BY <1>0, <1>3, RunningRow DEF FlightOK, TxRow
<1>4. ASSUME NEW u \in Txs, Running(u)', tx'[u].p \in sent \/ (Running(u) /\ tx'[u].p = tx[u].p)
      PROVE  Fits(tx[u].p)'
  <2>1. PICK p \in Payload : p = tx'[u].p /\ Fits(p)
    BY <1>0, <1>3, <1>4 DEF FlightOK
  <2>2. Fits(p)'
    BY <2>1, <1>1
  <2> QED BY <2>1, <2>2 DEF Fits, Sound, Covers, Reconciled, Targets, PostedAccounts
<1>5. ASSUME sent' \subseteq sent,
             \A u \in Txs : Running(u)' => tx'[u].p \in sent \/ (Running(u) /\ tx'[u].p = tx[u].p)
      PROVE  FlightOK'
  BY <1>2, <1>4, <1>5 DEF FlightOK
<1>6. ASSUME tx' = tx, sent' \subseteq sent PROVE FlightOK'
  BY <1>5, <1>6 DEF Running
<1>7. ASSUME NEW scanned \in SUBSET Accounts, NEW declared \in SUBSET Accounts,
             NEW lost \in {{}} \cup {{k} : k \in Keys}, NEW dry \in DryRuns, NEW slack \in 0 .. Ahead,
             Scrape(scanned, declared, lost, dry, slack)
      PROVE  FlightOK'
  <2>0. lost \in SUBSET Keys
    OBVIOUS
  <2>1. PICK p \in Payload : p = Sending(scanned, declared, lost, dry, slack)
    BY <1>0, <1>7, <2>0, ScrapeSends
  <2>2. sent' = sent \cup {p} /\ tx' = tx
    BY <1>0, <1>7, <2>0, <2>1, ScrapeSends
  <2>3. Fits(p)'
    BY <1>7, <2>0, <2>1, <1>1, ScrapeFits
  <2>4. \A q \in sent' : Fits(q)'
    BY <2>2, <2>3, <1>2
  <2>5. \A u \in Txs : Running(u)' => Fits(tx[u].p)'
    BY <2>2, <1>4 DEF Running
  <2> QED BY <2>4, <2>5 DEF FlightOK
<1>8. CASE BankNext
  BY <1>8, <1>6 DEF BankNext, NextDay, BankPosts, BankHolds
<1>9. ASSUME NEW p \in sent, Retire(p) PROVE FlightOK'
  BY <1>9, <1>6 DEF Retire
<1>10. ASSUME NEW t \in Txs, NEW p \in sent, Begin(t, p) PROVE FlightOK'
  <2>1. sent' \subseteq sent /\ tx'[t].p \in sent /\ \A u \in Txs \ {t} : tx'[u] = tx[u]
    BY <1>0, <1>10, BeginFacts
  <2> QED BY <2>1, <1>5 DEF Running
<1>11. ASSUME NEW t \in Txs, Write(t) PROVE FlightOK'
  <2>1. sent' \subseteq sent /\ Running(t) /\ tx'[t].p = tx[t].p /\ \A u \in Txs \ {t} : tx'[u] = tx[u]
    BY <1>0, <1>11, WriteFacts
  <2> QED BY <2>1, <1>5 DEF Running
<1>12. ASSUME NEW t \in Txs, Commit(t) PROVE FlightOK'
  BY <1>0, <1>12, <1>5, CommitFacts
<1>13. ASSUME NEW t \in Txs, Rollback(t) PROVE FlightOK'
  <2>1. sent' \subseteq sent /\ ~Running(t)' /\ \A u \in Txs \ {t} : tx'[u] = tx[u]
    BY <1>0, <1>13, RollbackFacts
  <2> QED BY <2>1, <1>5 DEF Running
<1>14. CASE UNCHANGED ingestVars
  BY <1>14, <1>6 DEF ingestVars
<1> QED BY <1>7, <1>8, <1>9, <1>10, <1>11, <1>12, <1>13, <1>14 DEF Next, BrokerNext, IngestNext

-----------------------------------------------------------------------------
(* The ledger and the watermarks *)

\* Only a commit writes a table.
LEMMA TablesWrittenByCommit ==
    ASSUME [Next]_ingestVars, \A t \in Txs : ~Commit(t) PROVE UNCHANGED tables
BY DEF Next, BankNext, NextDay, BankPosts, BankHolds, BrokerNext, Scrape, Retire,
       IngestNext, Begin, Write, Rollback, ingestVars, tables

\* What lands is numbered from 0, and within what the bank shows.
LEMMA LedgerStep == Inv /\ [Next]_ingestVars => LedgerWithinBank'
<1> SUFFICES ASSUME Inv, [Next]_ingestVars PROVE LedgerWithinBank'
  OBVIOUS
<1>0. /\ TypeOK /\ TypeOK' /\ Onward /\ LedgerWithinBank
      /\ bank \in [Keys -> Nat] /\ bank' \in [Keys -> Nat] /\ ledger \in SUBSET Hash
  BY TypesStep, OnwardStep DEF Inv, TypeOK
<1>1. ASSUME NEW h \in ledger
      PROVE  h.occ < bank'[h.key] /\ \A n \in 0 .. h.occ : [key |-> h.key, occ |-> n] \in ledger'
  <2>1. h.key \in Keys /\ h.occ \in Nat
    BY <1>0 DEF Hash
  <2> QED BY <2>1, <1>0 DEF LedgerWithinBank, Onward
<1>2. ASSUME NEW t \in Txs, Commit(t), NEW h \in HashesOf(tx[t].p)
      PROVE  h.occ < bank'[h.key] /\ \A n \in 0 .. h.occ : [key |-> h.key, occ |-> n] \in ledger'
  <2>1. PICK p \in Payload : p = tx[t].p
    BY <1>0, <1>2, CommitFacts
  <2>2. Sound(p) /\ ledger' = ledger \cup HashesOf(p) /\ p.posted \in [Keys -> Nat]
    BY <1>0, <1>2, <2>1, CommitFacts DEF Inv, FlightOK, Fits, Payload
  <2>3. PICK k \in Keys, n \in Nat : h = [key |-> k, occ |-> n]
    BY <1>2, <2>1, PayloadFacts DEF Hash
  <2>4. n < p.posted[k]
    BY <1>2, <2>1, <2>3, PayloadFacts
  <2>5. n < bank'[k]
    BY <2>2, <2>4, <1>0 DEF Sound, Onward
  <2>6. \A m \in 0 .. n : [key |-> k, occ |-> m] \in HashesOf(p)
    BY <2>2, <2>4, PayloadFacts
  <2> QED BY <2>2, <2>3, <2>5, <2>6
<1>3. CASE \E t \in Txs : Commit(t)
  BY <1>0, <1>1, <1>2, <1>3, CommitFacts DEF LedgerWithinBank
<1>4. CASE \A t \in Txs : ~Commit(t)
  BY <1>1, <1>4, TablesWrittenByCommit DEF LedgerWithinBank, tables
<1> QED BY <1>3, <1>4

\* A watermark that stays leaves nothing more behind: what settles is younger.
LEMMA WatermarkStays ==
    ASSUME TypeOK, TypeOK', Onward, WatermarkCovered, Lag + Ahead <= Overlap,
           NEW k \in Keys, NEW n \in Nat, n < bank'[k],
           NEW wm \in Nat \cup {Never}, wm = accts[AccountOf[k]].wm, DayOf[k] < WindowFrom(wm)
    PROVE  [key |-> k, occ |-> n] \in ledger'
<1>0. /\ clock \in Nat /\ bank[k] \in Nat /\ bank'[k] \in Nat /\ DayOf[k] \in Nat /\ AccountOf[k] \in Accounts
      /\ Overlap \in Nat /\ Lag \in Nat /\ Ahead \in Nat
  BY IngestAssumption DEF TypeOK
<1>1. wm \in Nat /\ DayOf[k] + Overlap < wm
  BY <1>0, BeforeTheWindow
<1>2. wm <= clock
  BY <1>0 DEF WatermarkCovered
<1>3. ~(clock <= DayOf[k] + Lag)
  BY <1>0, <1>1, <1>2
<1>4. bank'[k] = bank[k]
  <2>1. bank[k] <= bank'[k] /\ (bank[k] < bank'[k] => clock <= DayOf[k] + Lag)
    BY DEF Onward
  <2> QED BY <2>1, <1>0, <1>3
<1> QED BY <1>4 DEF WatermarkCovered, Onward

\* A watermark that moves leaves behind what its payload covers.
LEMMA WatermarkStep == Inv /\ [Next]_ingestVars => WatermarkCovered'
<1> SUFFICES ASSUME Inv, [Next]_ingestVars PROVE WatermarkCovered'
  OBVIOUS
<1>0. /\ TypeOK /\ TypeOK' /\ Onward /\ WatermarkCovered
      /\ clock \in Nat /\ clock' \in Nat /\ bank \in [Keys -> Nat] /\ bank' \in [Keys -> Nat]
      /\ AccountOf \in [Keys -> Accounts] /\ DayOf \in [Keys -> Nat]
      /\ Overlap \in Nat /\ Lag \in Nat /\ Ahead \in Nat
  BY TypesStep, OnwardStep, IngestAssumption DEF Inv, TypeOK
<1>w. \A a \in Accounts : accts[a].wm \in Nat \cup {Never} /\ accts'[a].wm \in Nat \cup {Never}
  BY <1>0 DEF TypeOK
<1>1. ASSUME NEW a \in Accounts, accts'[a].wm = accts[a].wm PROVE accts'[a].wm <= clock'
  BY <1>0, <1>1, <1>w DEF WatermarkCovered, Onward, Never
<1>2. ASSUME Lag + Ahead <= Overlap, NEW k \in Keys, NEW n \in Nat, n < bank'[k],
             accts'[AccountOf[k]].wm = accts[AccountOf[k]].wm,
             DayOf[k] < WindowFrom(accts[AccountOf[k]].wm)
      PROVE  [key |-> k, occ |-> n] \in ledger'
  <2>1. PICK wm \in Nat \cup {Never} : wm = accts[AccountOf[k]].wm
    BY <1>0, <1>w
  <2>2. DayOf[k] < WindowFrom(wm)
    BY <1>2, <2>1
  <2> QED BY <1>0, <1>2, <2>1, <2>2, WatermarkStays
<1>3. CASE \A t \in Txs : ~Commit(t)
  <2>1. accts' = accts
    BY <1>3, TablesWrittenByCommit DEF tables
  <2>2. \A a \in Accounts : accts'[a].wm <= clock'
    BY <2>1, <1>1
  <2>3. ASSUME Lag + Ahead <= Overlap, NEW k \in Keys, NEW n \in Nat, n < bank'[k],
               DayOf[k] < WindowFrom(accts'[AccountOf[k]].wm)
        PROVE  [key |-> k, occ |-> n] \in ledger'
    BY <2>1, <2>3, <1>2
  <2> QED BY <2>2, <2>3 DEF WatermarkCovered, WindowFrom
<1>4. ASSUME NEW t \in Txs, Commit(t) PROVE WatermarkCovered'
  <2>1. PICK p \in Payload : p = tx[t].p
    BY <1>0, <1>4, CommitFacts
  <2>2. /\ Covers(p) /\ Reconciled(p) /\ ledger' = ledger \cup HashesOf(p)
        /\ Advancing(t) \subseteq Targets(p)
        /\ \A a \in Accounts : accts'[a].wm = IF a \in Advancing(t) THEN NewWatermark(p) ELSE accts[a].wm
        /\ clock' = clock /\ bank' = bank
    BY <1>0, <1>4, <2>1, CommitFacts DEF Inv, FlightOK, Fits, Lands, world
  <2>3. p.to \in Nat /\ NewWatermark(p) <= clock /\ NewWatermark(p) <= p.to /\ NewWatermark(p) \in Nat
    BY <1>0 DEF NewWatermark, Payload
  <2>4. ASSUME NEW a \in Accounts PROVE accts'[a].wm <= clock'
    BY <2>2, <2>3, <1>1
  <2>5. ASSUME Lag + Ahead <= Overlap, NEW k \in Keys, NEW n \in Nat, n < bank'[k],
               DayOf[k] < WindowFrom(accts'[AccountOf[k]].wm)
        PROVE  [key |-> k, occ |-> n] \in ledger'
    <3>1. AccountOf[k] \in Accounts /\ DayOf[k] \in Nat
      BY <1>0
    <3>2. CASE AccountOf[k] \notin Advancing(t)
      BY <2>2, <2>5, <3>1, <3>2, <1>2
    <3>3. CASE AccountOf[k] \in Advancing(t)
      <4>1. PICK wm \in Nat \cup {Never} : wm = NewWatermark(p)
        BY <2>3
      <4>2. DayOf[k] < WindowFrom(wm)
        BY <2>2, <2>5, <3>1, <3>3, <4>1
      <4>3. DayOf[k] + Overlap < p.to
        BY <4>1, <4>2, <2>3, <3>1, <1>0, BeforeTheWindow
      <4>4. n < p.posted[k] \/ [key |-> k, occ |-> n] \in ledger
        BY <2>2, <2>5, <3>3, <4>3 DEF Covers
      <4> QED BY <4>4, <2>2, PayloadFacts
    <3> QED BY <3>2, <3>3
  <2> QED BY <2>4, <2>5 DEF WatermarkCovered, WindowFrom
<1> QED BY <1>3, <1>4

-----------------------------------------------------------------------------
(* Locks and pending rows *)

\* Whoever declares an account holds its row until it ends.
LEMMA LocksStep == Inv /\ [Next]_ingestVars => LocksOK'
<1> SUFFICES ASSUME Inv, [Next]_ingestVars PROVE LocksOK'
  OBVIOUS
<1>0. TypeOK /\ LocksOK
  BY DEF Inv
<1>1. ASSUME accts' = accts,
             \A u \in Txs : Running(u)' =>
                /\ Running(u) /\ tx'[u].p = tx[u].p
                /\ tx'[u].locks = tx[u].locks /\ tx'[u].seen = tx[u].seen
      PROVE  LocksOK'
  BY <1>0, <1>1 DEF LocksOK
<1>2. CASE UNCHANGED <<accts, tx>>
  BY <1>1, <1>2 DEF Running
<1>3. CASE BankNext \/ BrokerNext \/ UNCHANGED ingestVars
  BY <1>2, <1>3 DEF BankNext, NextDay, BankPosts, BankHolds, BrokerNext, Scrape, Retire, ingestVars, tables
<1>4. ASSUME NEW t \in Txs, NEW p \in sent, Begin(t, p) PROVE LocksOK'
  <2>1. /\ tx'[t].p = p /\ p.declared \subseteq tx'[t].locks /\ p.declared \subseteq Accounts
        /\ \A a \in tx'[t].locks : ~LockedFor(t, a)
        /\ \A a \in Accounts : tx'[t].seen[a] = accts[a].wm
        /\ \A u \in Txs \ {t} : tx'[u] = tx[u]
        /\ accts' = accts
    BY <1>0, <1>4, BeginFacts DEF Payload, tables
  <2>2. \A u \in Txs \ {t} : Running(u) => tx'[t].locks \cap tx[u].locks = {}
    BY <2>1 DEF LockedFor
  <2>3. ASSUME NEW u \in Txs, Running(u)'
        PROVE  /\ tx'[u].p.declared \subseteq tx'[u].locks
               /\ \A a \in tx'[u].p.declared : tx'[u].seen[a] = accts'[a].wm
               /\ \A v \in Txs \ {u} : Running(v)' => tx'[u].locks \cap tx'[v].locks = {}
    <3>1. CASE u = t
      BY <2>1, <2>2, <3>1 DEF Running
    <3>2. CASE u # t
      <4>1. Running(u) /\ tx'[u] = tx[u]
        BY <2>1, <2>3, <3>2 DEF Running
      <4>2. ASSUME NEW v \in Txs \ {u}, Running(v)' PROVE tx'[u].locks \cap tx'[v].locks = {}
        <5>1. CASE v = t
          BY <2>2, <3>2, <4>1, <5>1
        <5>2. CASE v # t
          BY <1>0, <2>1, <4>1, <4>2, <5>2 DEF LocksOK, Running
        <5> QED BY <5>1, <5>2
      <4> QED BY <1>0, <2>1, <4>1, <4>2 DEF LocksOK
    <3> QED BY <3>1, <3>2
  <2> QED BY <2>3 DEF LocksOK
<1>5. ASSUME NEW t \in Txs, Write(t) PROVE LocksOK'
  <2>1. /\ Running(t) /\ tx'[t].p = tx[t].p /\ tx'[t].locks = tx[t].locks /\ tx'[t].seen = tx[t].seen
        /\ \A u \in Txs \ {t} : tx'[u] = tx[u]
        /\ accts' = accts
    BY <1>0, <1>5, WriteFacts DEF tables
  <2> QED BY <2>1, <1>1 DEF Running
<1>6. ASSUME NEW t \in Txs, Rollback(t) PROVE LocksOK'
  <2>1. ~Running(t)' /\ accts' = accts /\ \A u \in Txs \ {t} : tx'[u] = tx[u]
    BY <1>0, <1>6, RollbackFacts DEF tables
  <2> QED BY <2>1, <1>1 DEF Running
<1>7. ASSUME NEW t \in Txs, Commit(t) PROVE LocksOK'
  <2>1. /\ \A a \in Advancing(t) : ~LockedFor(t, a)
        /\ \A a \in Accounts : a \notin Advancing(t) => accts'[a].wm = accts[a].wm
        /\ \A u \in Txs : Running(u)' =>
              /\ u # t /\ Running(u) /\ tx[u] \in TxRow /\ tx'[u].p = tx[u].p
              /\ tx'[u].locks = tx[u].locks /\ tx'[u].seen = tx[u].seen
    BY <1>0, <1>7, CommitFacts
  <2>2. ASSUME NEW u \in Txs, Running(u)', NEW a \in tx[u].p.declared
        PROVE  tx'[u].seen[a] = accts'[a].wm
    <3>1. u # t /\ Running(u) /\ tx'[u].seen = tx[u].seen /\ a \in Accounts
      BY <2>1, <2>2 DEF TxRow, Payload
    <3>2. a \in tx[u].locks /\ tx[u].seen[a] = accts[a].wm
      BY <1>0, <2>2, <3>1 DEF LocksOK
    <3>3. a \notin Advancing(t)
      BY <2>1, <3>1, <3>2 DEF LockedFor
    <3> QED BY <2>1, <3>1, <3>2, <3>3
  <2> QED BY <1>0, <2>1, <2>2 DEF LocksOK
<1> QED BY <1>3, <1>4, <1>5, <1>6, <1>7 DEF Next, IngestNext

\* Two transactions that run declare different accounts.
LEMMA DeclaredByOne ==
    ASSUME LocksOK, NEW t \in Txs, NEW u \in Txs \ {t}, Running(t), Running(u),
           NEW a, a \in tx[t].p.declared
    PROVE  a \notin tx[u].p.declared
BY DEF LocksOK

\* What is in the way of a transaction that declares an account, it deletes.
LEMMA PendingStep == Inv /\ [Next]_ingestVars => PendingOK'
<1> SUFFICES ASSUME Inv, [Next]_ingestVars PROVE PendingOK'
  OBVIOUS
<1>0. TypeOK /\ LocksOK /\ PendingOK
  BY DEF Inv
<1>1. ASSUME pend' = pend,
             \A u \in Txs : tx'[u].pc = "written" => tx'[u] = tx[u]
      PROVE  PendingOK'
  BY <1>0, <1>1 DEF PendingOK, PendingAccounts
<1>2. CASE UNCHANGED <<pend, tx>>
  BY <1>1, <1>2
<1>3. CASE BankNext \/ BrokerNext \/ UNCHANGED ingestVars
  BY <1>2, <1>3 DEF BankNext, NextDay, BankPosts, BankHolds, BrokerNext, Scrape, Retire, ingestVars, tables
<1>4. ASSUME NEW t \in Txs, NEW p \in sent, Begin(t, p) PROVE PendingOK'
  <2>1. tx'[t].pc = "begun" /\ pend' = pend /\ \A u \in Txs \ {t} : tx'[u] = tx[u]
    BY <1>0, <1>4, BeginFacts DEF tables
  <2> QED BY <2>1, <1>1
<1>5. ASSUME NEW t \in Txs, Write(t) PROVE PendingOK'
  <2>1. /\ tx'[t].p = tx[t].p /\ tx'[t].cleared = Cleared(tx[t].p)
        /\ pend' = pend /\ \A u \in Txs \ {t} : tx'[u] = tx[u]
    BY <1>0, <1>5, WriteFacts DEF tables
  <2>2. ASSUME NEW u \in Txs, tx'[u].pc = "written", NEW r \in pend', r.declared,
               HolderOf[r.hold] \in tx'[u].p.declared,
               HolderOf[r.hold] \in PendingAccounts(tx'[u].p)
        PROVE  r \in tx'[u].cleared
    <3>1. CASE u = t
      BY <2>1, <2>2, <3>1 DEF Cleared
    <3>2. CASE u # t
      BY <1>0, <2>1, <2>2, <3>2 DEF PendingOK
    <3> QED BY <3>1, <3>2
  <2> QED BY <2>2 DEF PendingOK, PendingAccounts
<1>6. ASSUME NEW t \in Txs, Rollback(t) PROVE PendingOK'
  <2>1. tx'[t].pc = "idle" /\ pend' = pend /\ \A u \in Txs \ {t} : tx'[u] = tx[u]
    BY <1>0, <1>6, RollbackFacts DEF tables
  <2> QED BY <2>1, <1>1
<1>7. ASSUME NEW t \in Txs, Commit(t) PROVE PendingOK'
  <2>1. /\ Running(t) /\ pend' = (pend \ tx[t].cleared) \cup Own(t) /\ TxTyped'
        /\ \A u \in Txs : Running(u)' =>
              /\ u # t /\ Running(u) /\ tx'[u].pc = tx[u].pc /\ tx'[u].p = tx[u].p
              /\ tx'[u].cleared = tx[u].cleared \ Own(t)
    BY <1>0, <1>7, CommitFacts
  <2>2. ASSUME NEW u \in Txs, tx'[u].pc = "written", NEW r \in pend', r.declared,
               HolderOf[r.hold] \in tx'[u].p.declared,
               HolderOf[r.hold] \in PendingAccounts(tx'[u].p)
        PROVE  r \in tx'[u].cleared
    <3>1. /\ u # t /\ Running(u) /\ tx[u].pc = "written" /\ tx'[u].p = tx[u].p
          /\ tx'[u].cleared = tx[u].cleared \ Own(t)
      BY <2>1, <2>2 DEF Running
    <3>2. r \notin Own(t)
      <4> SUFFICES ASSUME r \in Own(t) PROVE FALSE
        OBVIOUS
      <4>1. HolderOf[r.hold] \in tx[t].p.declared
        BY <2>2, OwnRow
      <4> QED BY <4>1, <2>1, <2>2, <3>1, <1>0, DeclaredByOne
    <3>3. r \in tx[u].cleared
      BY <1>0, <2>1, <2>2, <3>1, <3>2 DEF PendingOK
    <3> QED BY <3>1, <3>2, <3>3
  <2> QED BY <2>2 DEF PendingOK, PendingAccounts
<1> QED BY <1>3, <1>4, <1>5, <1>6, <1>7 DEF Next, IngestNext

\* A commit replaces the declared pending rows of an account by its own.
LEMMA SnapshotStep == Inv /\ [Next]_ingestVars => PendingIsOneSnapshot'
<1> SUFFICES ASSUME Inv, [Next]_ingestVars PROVE PendingIsOneSnapshot'
  OBVIOUS
<1>1. CASE \A t \in Txs : ~Commit(t)
  BY <1>1, TablesWrittenByCommit DEF Inv, PendingIsOneSnapshot, tables
<1>2. ASSUME NEW t \in Txs, Commit(t) PROVE PendingIsOneSnapshot'
  <2>1. tx[t].pc = "written" /\ pend' = (pend \ tx[t].cleared) \cup Own(t)
    BY <1>2, CommitFacts DEF Inv
  <2>2. \A r \in Own(t) : r.by = t
    BY OwnRow
  <2>3. ASSUME NEW r \in Own(t), NEW q \in pend \ tx[t].cleared, r.declared, q.declared,
               HolderOf[r.hold] = HolderOf[q.hold]
        PROVE  FALSE
    <3>1. HolderOf[r.hold] \in tx[t].p.declared /\ HolderOf[r.hold] \in PendingAccounts(tx[t].p)
      BY <2>3, OwnRow DEF PendingAccounts
    <3> QED BY <3>1, <2>1, <2>3 DEF Inv, PendingOK
  <2>4. ASSUME NEW r \in pend', NEW q \in pend', r.declared, q.declared, HolderOf[r.hold] = HolderOf[q.hold]
        PROVE  r.by = q.by
    <3>1. CASE r \in Own(t) /\ q \in Own(t)
      BY <2>2, <3>1
    <3>2. CASE r \notin Own(t) /\ q \notin Own(t)
      BY <2>1, <2>4, <3>2 DEF Inv, PendingIsOneSnapshot
    <3>3. CASE r \in Own(t) /\ q \notin Own(t)
      BY <2>1, <2>3, <2>4, <3>3
    <3>4. CASE r \notin Own(t) /\ q \in Own(t)
      BY <2>1, <2>3, <2>4, <3>4
    <3> QED BY <3>1, <3>2, <3>3, <3>4
  <2> QED BY <2>4 DEF PendingIsOneSnapshot
<1> QED BY <1>1, <1>2

-----------------------------------------------------------------------------
(* The theorems *)

\* The initial state satisfies the inductive invariant.
LEMMA InitInv == IngestInit => Inv
<1> SUFFICES ASSUME IngestInit PROVE Inv
  OBVIOUS
<1> USE IngestAssumption DEF IngestInit
<1>1. TypeOK
  BY DEF TypeOK, Never
<1>2. \A t \in Txs : ~Running(t) /\ tx[t].pc # "written"
  BY DEF Running, IdleTx
<1>3. FlightOK /\ LocksOK /\ PendingOK
  BY <1>2 DEF FlightOK, LocksOK, PendingOK
<1>4. WatermarkCovered
  BY DEF WatermarkCovered, Never
<1>5. LedgerWithinBank /\ PendingIsOneSnapshot
  BY DEF LedgerWithinBank, PendingIsOneSnapshot
<1> QED BY <1>1, <1>3, <1>4, <1>5 DEF Inv

\* Every state of every behaviour satisfies the inductive invariant: payloads in
\* flight cover what their watermark would leave behind, whoever declares an
\* account holds its row, and the tables agree with the bank.
THEOREM Invariance == Spec => []Inv
<1>1. Inv /\ [Next]_ingestVars => Inv'
  BY TypesStep, FlightStep, LedgerStep, WatermarkStep, LocksStep, PendingStep, SnapshotStep DEF Inv
<1> QED BY <1>1, InitInv, PTL DEF Spec

\* Ingest: the tables, payloads and transactions are well-typed.
THEOREM TypeCorrect == Spec => []TypeOK
<1>1. Inv => TypeOK
  BY DEF Inv
<1> QED BY <1>1, Invariance, PTL

\* hash.go: however windows overlap and payloads repeat, the ledger never has
\* more rows of a key than the bank, and no gap in their numbers.
THEOREM LedgerNeverOvercounts == Spec => []LedgerWithinBank
<1>1. Inv => LedgerWithinBank
  BY DEF Inv
<1> QED BY <1>1, Invariance, PTL

\* window.go, ComputeWindow: if rows settle, and broker clocks run ahead, by no
\* more than the overlap together, no row is out of the reach of the next window
\* and missing from the ledger.
THEOREM OverlapForgetsNothing == Spec => []NothingIsForgotten
<1>1. Inv => NothingIsForgotten
  BY IngestAssumption DEF Inv, WatermarkCovered, NothingIsForgotten
<1> QED BY <1>1, Invariance, PTL

\* ingest.go, step (4): overlapping requests never leave a declared account with
\* the pending rows of two of them.
THEOREM PendingFromOneRequest == Spec => []PendingIsOneSnapshot
<1>1. Inv => PendingIsOneSnapshot
  BY DEF Inv
<1> QED BY <1>1, Invariance, PTL

\* A watermark a transaction declared is the one it read, and it only raises it.
LEMMA CommitMovesForward ==
    ASSUME Inv, NEW t \in Txs, NEW a \in Accounts, Commit(t), a \in tx[t].p.declared
    PROVE  accts'[a].wm >= accts[a].wm
<1>0. TypeOK /\ LocksOK /\ accts[a].wm \in Nat \cup {Never}
  BY DEF Inv, TypeOK
<1>1. /\ Running(t) /\ tx[t].p \in Payload
      /\ accts'[a].wm = IF a \in Advancing(t) THEN NewWatermark(tx[t].p) ELSE accts[a].wm
  BY <1>0, CommitFacts
<1>2. CASE a \in Advancing(t)
  <2>1. WatermarkRead(t, a) = accts[a].wm
    BY <1>0, <1>1 DEF LocksOK, WatermarkRead, Resolved
  <2>2. accts[a].wm < NewWatermark(tx[t].p)
    BY <1>2, <2>1 DEF Advancing
  <2>3. NewWatermark(tx[t].p) \in Nat
    BY <1>0, <1>1 DEF NewWatermark, TypeOK, Payload
  <2> QED BY <1>0, <1>1, <1>2, <2>2, <2>3 DEF Never
<1>3. CASE a \notin Advancing(t)
  BY <1>0, <1>1, <1>3 DEF Never
<1> QED BY <1>2, <1>3

\* ingest.go: "Monotonic: only ever move the watermark forward".  No commit takes back the
\* watermark of an account its payload declares, whose row is locked from before it is
\* read.  (Of an account that only rows name it is false.)
THEOREM DeclaredWatermarkIsMonotone == Spec => WatermarkForward
<1> DEFINE Kept == \A t \in Txs, a \in Accounts :
                      Commit(t) /\ a \in tx[t].p.declared => accts'[a].wm >= accts[a].wm
<1>1. Inv /\ [Next]_ingestVars => [Kept]_ingestVars
  BY CommitMovesForward
<1> QED BY <1>1, Invariance, PTL DEF Spec, WatermarkForward
=============================================================================
