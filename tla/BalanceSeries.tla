---------------------------- MODULE BalanceSeries ----------------------------
(***************************************************************************)
(* The balance of an account over time (internal/finance/balance_series.go *)
(* and read.go): a series of buckets, from the bank's own readings or      *)
(* derived from posted rows, and the paged reads beside it (read.go), as   *)
(* operators over what has been stored.  Rows may carry the bank's running *)
(* balance, and rows may have been lost on the way.  An instant is its     *)
(* local day; a step is a number of days.                                  *)
(***************************************************************************)
EXTENDS Integers, SequencesExt

CONSTANTS
    Kinds,       \* rows the bank may post: [amt, internal]
    Opening,     \* the balance before the first row
    Widths,      \* the steps, in days
    Caps,        \* values of externalScanCap
    Budgets,     \* point budgets of the MCP tool
    Null,
    Horizon, MaxPosts, MaxReads   \* bounds

ASSUME SeriesAssumption ==
    /\ Kinds \subseteq [amt: Int, internal: BOOLEAN] /\ Opening \in Int
    /\ Widths \subseteq Nat \ {0} /\ Caps \cup Budgets \subseteq Nat
    /\ Null \notin Int /\ {Horizon, MaxPosts, MaxReads} \subseteq Nat

VARIABLES
    today,      \* the day of what happened last
    bank,       \* what the bank posted, in order, with the balance after it; covered: the row
                \* carries that balance; lost: it never reached the ledger
    readings    \* balance_snapshots, by (as_of, id); seen: history, the rows posted by then

vars == <<today, bank, readings>>

-----------------------------------------------------------------------------
(* Filters and sums, as recursive functions over the length of a sequence *)

\* The elements of s that are in T, in their order.
Keep(s, T) ==
    LET kept[n \in 0 .. Len(s)] ==
            IF n = 0 THEN << >>
            ELSE IF s[n] \in T THEN Append(kept[n - 1], s[n]) ELSE kept[n - 1]
    IN  kept[Len(s)]

\* What the rows of s add up to.
Sum(s) ==
    LET total[n \in 0 .. Len(s)] == IF n = 0 THEN 0 ELSE total[n - 1] + s[n].amt
    IN  total[Len(s)]

Level(n) == IF n = 0 THEN Opening ELSE bank[n].level
Rows == Keep(bank, {r \in Range(bank) : ~r.lost})

\* Rows of the ledger with a date in [from, to); Null is an open end.
Within(s, from, to) ==
    Keep(s, {r \in Range(s) : (from = Null \/ r.day >= from) /\ (to = Null \/ r.day < to)})
Covered(s) == Keep(s, {r \in Range(s) : r.covered})
External(s) == Keep(s, {r \in Range(s) : ~r.internal})
Least(S) == CHOOSE x \in S : \A y \in S : x <= y
Most(S) == CHOOSE x \in S : \A y \in S : x >= y

-----------------------------------------------------------------------------
(* Buckets *)

Start(d, w) == d - (d % w)
Buckets(lo, hi, w) == {b \in lo .. hi : b % w = 0}
In(s, b, w) == Within(s, b, b + w)

-----------------------------------------------------------------------------
(* basis=snapshot *)

\* The newest reading before the window.
\* Faulty variant: the window opens on a hole.
PrimeNever(from, w) == Null
Prime(from, w) ==
    LET before == Within(readings, Null, Start(from, w))
    IN  IF from = Null \/ before = << >> THEN Null ELSE Last(before).balance

SnapshotSeries(from, to, w) ==
    LET kept  == Within(readings, IF from = Null THEN Null ELSE Start(from, w),
                                  IF to = Null THEN Null ELSE Start(to, w) + w)
        prime == Prime(from, w)
        first == Start(kept[1].day, w)
        lo == IF prime = Null /\ kept # << >>
              THEN IF from = Null THEN first ELSE Most({first, Start(from, w)})
              ELSE Start(from, w)
        hi == IF to # Null THEN Start(to, w)
              ELSE IF kept # << >> THEN Start(Last(kept).day, w) ELSE lo
        Close(b) == Last(In(kept, b, w)).balance
        Earlier(b) == {c \in Buckets(lo, b - 1, w) : In(kept, c, w) # << >>}
        Point(b) == IF In(kept, b, w) # << >> THEN [balance |-> Close(b), carried |-> FALSE]
                    ELSE [balance |-> IF Earlier(b) # {} THEN Close(Most(Earlier(b))) ELSE prime,
                          carried |-> TRUE]
    IN  IF kept = << >> /\ prime = Null THEN << >>
        ELSE [b \in Buckets(lo, hi, w) |-> Point(b)]

-----------------------------------------------------------------------------
(* basis=ledger *)

\* spendTally: external income and spend.
Income(s) == Sum(Keep(s, {r \in Range(s) : ~r.internal /\ r.amt >= 0}))
Spend(s) == -Sum(Keep(s, {r \in Range(s) : ~r.internal /\ r.amt < 0}))

\* The close of a bucket some row of which carries the running balance: that of the
\* last such row, and what follows it.
\* Faulty variant: what follows is forgotten.
BankCloseStale(s) == Last(Covered(s)).level
BankClose(s) ==
    LET i == Most({k \in DOMAIN s : s[k].covered})
    IN  s[i].level + Sum(SubSeq(s, i + 1, Len(s)))

\* bucketOpening: the first running balance, walked back over the rows up to it.
BankOpening(s) ==
    LET i == Least({k \in DOMAIN s : s[k].covered})
    IN  s[i].level - Sum(SubSeq(s, 1, i))

\* walkFromAnchor: the anchor's bucket takes the reading as it is, and the others follow
\* from the rows in between, backwards and forwards.
WalkClose(s, anchor, b, w) ==
    LET at == Start(anchor.day, w)
    IN  IF b <= at THEN anchor.balance - Sum(Within(s, b + w, at + w))
        ELSE anchor.balance + Sum(Within(s, at + w, b + w))

\* checkRunningBalance: two consecutive rows, both covered, that do not tie; the
\* bucket of the later one is flagged.
\* Faulty variant: a row without a running balance is skipped over.
RowMismatchAcross(s, b, w) ==
    LET c == Covered(s) IN
    \E i \in DOMAIN c \ {1} : /\ Start(c[i].day, w) = b
                              /\ c[i].level - c[i - 1].level # c[i].amt
RowMismatch(s, b, w) ==
    \E i \in DOMAIN s \ {1} : /\ Start(s[i].day, w) = b
                              /\ s[i].covered /\ s[i - 1].covered
                              /\ s[i].level - s[i - 1].level # s[i].amt

\* The first bucket that is derived: the window's, or the anchor's, or that of the
\* newest covered row before both.
\* Faulty variant: no reaching back to the covered row.
DerivLoShort(s, lo, w) ==
    IF readings = << >> THEN lo
    ELSE Most({Least({lo, Start(Last(readings).day, w)}), Start(s[1].day, w)})
DerivLo(s, lo, w) ==
    LET near  == IF readings = << >> THEN lo ELSE Least({lo, Start(Last(readings).day, w)})
        prior == Covered(Within(s, Null, near))
        reach == IF prior = << >> THEN near ELSE Start(Last(prior).day, w)
    IN  Most({reach, Start(s[1].day, w)})

LedgerHi(s, to, w) ==
    IF to # Null THEN Start(to, w)
    ELSE Most({Start(Last(s).day, w)}
              \cup IF readings = << >> THEN {} ELSE {Start(Last(readings).day, w)})

\* The last bucket that is derived: the window's, or the anchor's, where a walk starts.
\* Faulty variant: the window ends the derivation.
DerivHiShort(hi, w) == hi
DerivHi(hi, w) == Most({hi} \cup IF readings = << >> THEN {} ELSE {Start(Last(readings).day, w)})

NoPoints == [points |-> << >>, unverified |-> FALSE]

\* The points over the buckets of the derivation range, from the level on, and the
\* slice [lo, hi] of them; s are the rows of that range.
LedgerPoints(s, order, lo, hi, w) ==
    LET anchor == Last(readings)
        byBank == Covered(s) # << >>
        leveled == {b \in order : Covered(In(s, b, w)) # << >>}
        level   == Least(IF byBank THEN leveled ELSE order)
        Close(b) ==
            IF ~byBank THEN WalkClose(s, anchor, b, w)
            ELSE LET c == Most({x \in leveled : x <= b})
                 IN  BankClose(In(s, c, w)) + Sum(Within(s, c + w, b + w))
        Open(b) == IF b > level THEN Close(b - w)
                   ELSE IF byBank THEN BankOpening(In(s, b, w)) ELSE Close(b) - Sum(In(s, b, w))
        Source(b) == IF In(s, b, w) = << >> THEN "carried"
                     ELSE IF byBank /\ Last(In(s, b, w)).covered THEN "balance_after"
                     ELSE "accumulated"
        Read(b) == In(readings, b, w)
        Point(b, open, close, in) ==
            [open |-> open, close |-> close, net |-> Sum(in), source |-> Source(b),
             in |-> Income(in), out |-> Spend(in),
             drift |-> IF Read(b) = << >> THEN Null ELSE close - Last(Read(b)).balance,
             mismatch |-> close - open # Sum(in) \/ (byBank /\ RowMismatch(s, b, w))]
        emitted == {b \in order : lo <= b /\ b <= hi /\ b >= level}
    IN  IF ~byBank /\ (readings = << >> \/ Start(anchor.day, w) \notin order) THEN NoPoints
        ELSE [points |-> [b \in emitted |-> Point(b, Open(b), Close(b), In(s, b, w))],
              unverified |-> emitted # {} /\ level >= lo]

LedgerSeries(from, to, w) ==
    LET all  == Rows
        lo   == Most({Start(all[1].day, w)} \cup IF from = Null THEN {} ELSE {Start(from, w)})
        hi   == LedgerHi(all, to, w)
        derivLo == DerivLo(all, lo, w)
        derivHi == DerivHi(hi, w)
    IN  IF all = << >> THEN NoPoints
        ELSE IF hi < lo THEN NoPoints
        ELSE LedgerPoints(Within(all, derivLo, derivHi + w), Buckets(derivLo, derivHi, w), lo, hi, w)

-----------------------------------------------------------------------------
(* The reads beside it *)

\* listExternalOnly: a page, how many there are, and whether rows were left out.
\* Faulty variant: the page is cut before internal transfers are dropped.
ExternalPageCut(from, limit, offset, cap) ==
    LET match == Reverse(Within(Rows, from, Null))
        page  == SubSeq(match, Least({offset, Len(match)}) + 1, Least({offset + limit, Len(match)}))
    IN  [rows |-> External(page), total |-> Len(External(match)), truncated |-> FALSE]
ExternalPage(from, limit, offset, cap) ==
    LET match == Reverse(Within(Rows, from, Null))
        over  == from = Null /\ Len(match) > cap
        ext   == External(IF over THEN SubSeq(match, 1, cap) ELSE match)
        last  == Least({offset + limit, Len(ext)})
    IN  [rows |-> SubSeq(ext, Least({offset, Len(ext)}) + 1, last), total |-> Len(ext),
         truncated |-> over]

\* SpendingSummary, both ends included.
\* Faulty variant: the last day left out.
SpendingSummaryShort(from, to) == LET s == Within(Rows, from, to)
                                  IN  [income |-> Income(s), spend |-> Spend(s)]
SpendingSummary(from, to) == LET s == Within(Rows, from, to + 1)
                             IN  [income |-> Income(s), spend |-> Spend(s)]

\* allotPoints: the budget, shared over the series from the shallowest to the deepest.
\* Faulty variant: an even split.
AllotEvenly(sizes, budget) ==
    IF Sum([i \in DOMAIN sizes |-> [amt |-> sizes[i]]]) <= budget THEN sizes
    ELSE [i \in DOMAIN sizes |-> Least({sizes[i], Most({1, budget \div Len(sizes)})})]
Allot(sizes, budget) ==
    LET total == Sum([i \in DOMAIN sizes |-> [amt |-> sizes[i]]])
        Shallowest(S) ==
            CHOOSE i \in S : \A j \in S : sizes[i] < sizes[j] \/ (sizes[i] = sizes[j] /\ i <= j)
        Share(acc, i) ==
            LET share == Least({sizes[i], Most({1, acc.remaining \div acc.left})})
            IN  [allot |-> [acc.allot EXCEPT ![i] = share], rest |-> acc.rest \ {i},
                 remaining |-> Most({0, acc.remaining - share}), left |-> acc.left - 1]
        shared[n \in 0 .. Len(sizes)] ==
            IF n = 0 THEN [allot |-> sizes, rest |-> DOMAIN sizes,
                           remaining |-> budget, left |-> Len(sizes)]
            ELSE Share(shared[n - 1], Shallowest(shared[n - 1].rest))
    IN  IF total <= budget THEN sizes ELSE shared[Len(sizes)].allot

-----------------------------------------------------------------------------
(* What happens to an account *)

Init ==
    /\ today = 0 /\ bank = << >> /\ readings = << >>

\* What happens next happens today or on a later day.
OnDay(d) == d \in today .. Horizon /\ today' = d

\* The bank posts a row, and an ingest lands it or loses it.
Post(d, kind, covered, lost) ==
    /\ OnDay(d)
    /\ Len(bank) < MaxPosts /\ (lost => ~covered)
    /\ bank' = Append(bank, [day |-> d, amt |-> kind.amt, internal |-> kind.internal,
                             level |-> Level(Len(bank)) + kind.amt, covered |-> covered, lost |-> lost])
    /\ UNCHANGED readings

\* An ingest stores a reading, unless one with that instant is there.
TakeReading(d) ==
    LET reading == [day |-> d, balance |-> Level(Len(bank)), seen |-> Len(bank)] IN
    /\ OnDay(d)
    /\ Len(readings) < MaxReads
    /\ \A i \in DOMAIN readings : readings[i] # reading
    /\ readings' = Append(readings, reading)
    /\ UNCHANGED bank

Next ==
    \E d \in 0 .. Horizon :
        TakeReading(d) \/ \E kind \in Kinds, covered, lost \in BOOLEAN : Post(d, kind, covered, lost)

Spec == Init /\ [][Next]_vars

-----------------------------------------------------------------------------
Days == 0 .. Horizon
Ends == Days \cup {Null}

\* The balance the bank had when a day was over.
AtEnd(day) == Level(Most({0} \cup {i \in DOMAIN bank : bank[i].day <= day}))
Complete == \A i \in DOMAIN bank : ~bank[i].lost
\* No row of the anchor's bucket was posted after the reading.
AnchorCloses(w) == readings # << >> =>
    \A i \in DOMAIN bank : i > Last(readings).seen => Start(bank[i].day, w) > Start(Last(readings).day, w)

\* A running balance is in reach of a window up to `to': it is in one of its buckets or
\* before, or no later than the anchor's bucket.
BankedBy(to, w) ==
    \E i \in DOMAIN Rows :
        /\ Rows[i].covered
        /\ \/ to = Null \/ Start(Rows[i].day, w) <= to
           \/ readings # << >> /\ Start(Rows[i].day, w) <= Last(readings).day

\* A window up to `to' comes to bucket b; one without an end comes to all that is known.
Reaches(to, b) ==
    IF to # Null THEN b <= to
    ELSE \/ \E i \in DOMAIN Rows : b <= Rows[i].day
         \/ \E i \in DOMAIN readings : b <= readings[i].day

\* The points at S, and no others.
IsPart(part, points, S) == DOMAIN part = S /\ \A b \in S : part[b] = points[b]

\* balance_series.go, on snapshots: a bucket closes on its last reading; one without
\* repeats the level it opens with and says so; nothing is invented before the first
\* reading, and a window opens on the last level known before it.
SnapshotIsTheLastReading ==
    \A from, to \in Ends, w \in Widths :
        LET pts == SnapshotSeries(from, to, w) IN
        /\ \A b \in DOMAIN pts :
              LET known == Within(readings, Null, b + w)
              IN  /\ known # << >> /\ pts[b].balance = Last(known).balance
                  /\ pts[b].carried <=> Last(known).day < b
        /\ from # Null /\ to # Null =>
              DOMAIN pts = {b \in Buckets(Start(from, w), to, w) : Within(readings, Null, b + w) # << >>}

\* balance_series.go, on the ledger: with every row there, each close is the balance the
\* bank had at the end of the bucket, by either path, wherever the window begins and
\* ends; the walk, which is taken when no running balance is in reach, assumes that its
\* anchor closes the bucket it was read in.
LedgerIsExact ==
    \A from, to \in Ends, w \in Widths :
        LET series == LedgerSeries(from, to, w).points IN
        Complete /\ (~BankedBy(to, w) => AnchorCloses(w)) =>
            \A b \in DOMAIN series : series[b].close = AtEnd(b + w - 1)

\* balance_series.go: the series is derived over a wider range and "only sliced to the
\* emitted window at the end".  Whatever is missing from the ledger, where a window
\* begins changes no figure of the answer and drops no bucket of it; nor does where it
\* ends, on an account without running balances or once one of them is in reach.
\* (With the first of them beyond the reach of a window, the window is walked and the
\* whole is not: there the two differ.)
WindowIsASlice ==
    \A w \in Widths :
        LET whole == LedgerSeries(Null, Horizon, w).points IN
        \A to \in Ends :
            LET ended == LedgerSeries(Null, to, w).points IN
            /\ \A from \in Days :
                  IsPart(LedgerSeries(from, to, w).points, ended,
                         {b \in DOMAIN ended : b >= Start(from, w)})
            /\ Covered(Rows) = << >> \/ BankedBy(to, w) =>
                  IsPart(ended, whole, {b \in DOMAIN whole : Reaches(to, b)})

\* balance_series.go, flow_mismatch: never raised while every row is there (a walk from a
\* reading that does not close its bucket included), and raised in the bucket of
\* the later row when what was lost between two rows of a covered account adds up to
\* something.
MismatchIsALostRow ==
    \A w \in Widths :
        LET series == LedgerSeries(Null, Null, w).points IN
        /\ Complete => \A b \in DOMAIN series : ~series[b].mismatch
        /\ Covered(Rows) = Rows =>
              \A i \in 1 .. Len(Rows) - 1 :
                  Rows[i + 1].level - Rows[i].level # Rows[i + 1].amt =>
                      series[Start(Rows[i + 1].day, w)].mismatch

\* balance_series.go: the per-bucket external figures "tie out to those tools over the
\* same window".
FlowsTieOut ==
    \A from, to \in Days, w \in Widths :
        LET series  == LedgerSeries(from, to, w).points
            uniform == Covered(Rows) \in {Rows, << >>}
            figures == SpendingSummary(from, to)
            Total(f) == Sum([n \in 1 .. Horizon + 1 |->
                                [amt |-> IF n - 1 \in DOMAIN f THEN f[n - 1] ELSE 0]])
        IN  from % w = 0 /\ (to + 1) % w = 0 /\ uniform /\ DOMAIN series # {} =>
                /\ Total([b \in DOMAIN series |-> series[b].in]) = figures.income
                /\ Total([b \in DOMAIN series |-> series[b].out]) = figures.spend

\* read.go, external_only: pages put end to end are the external rows, newest first, and
\* none but the last is short; unless truncated says so, they are those of the
\* whole ledger.
PagesAddUp ==
    \A from \in Ends, limit \in 1 .. 2, cap \in Caps :
        LET Page(k) == ExternalPage(from, limit, k * limit, cap)
            total == Page(0).total
            ext   == External(Reverse(Within(Rows, from, Null)))
        IN  /\ \A k \in 0 .. MaxPosts :
                  Page(k).rows = SubSeq(ext, k * limit + 1, Least({k * limit + limit, total}))
            /\ total <= Len(ext) /\ (~Page(0).truncated => total = Len(ext))

\* mcp/tools.go, allotPoints: beside series of any size, nothing is trimmed that fits; what
\* is handed out is the budget, unless each gets one point; and none is trimmed
\* below an equal share.
BudgetIsShared ==
    LET mine == Cardinality(DOMAIN LedgerSeries(Null, Null, 1).points) IN
    \A others \in {0, 1, 3} \X {0, 1, 3}, budget \in Budgets :
        LET sizes == <<mine>> \o others
            got   == Allot(sizes, budget)
            Total(s) == s[1] + s[2] + s[3]
        IN  /\ Total(got) <= Most({budget, 3})
            /\ Total(got) >= Least({budget, Total(sizes)})
            /\ \A i \in 1 .. 3 : got[i] >= Least({sizes[i], Most({1, budget \div 3})})
=============================================================================
