-------------------------------- MODULE Bills --------------------------------
(***************************************************************************)
(* Recurring bills (internal/finance/bills.go, api/admin_finance_bills.go, *)
(* the hook of api/finance.go): the matching pass that links a bill's      *)
(* cycles to posted rows, run after every ingest and on request, one       *)
(* statement at a time and without a transaction; the links made by hand;  *)
(* the owner's edits.  What is due and what is overdue is derived on       *)
(* every read (BillCalendar).                                              *)
(***************************************************************************)
EXTENDS BillCalendar

CONSTANTS
    BillIds, Rows,
    Patterns,   \* match patterns, with the amount and account they go with
    PostedOn,   \* [Rows -> Int]: posted_date
    Fits,       \* [Patterns -> SUBSET Rows]: the rows a pattern's text, account and amount accept
    Forms,      \* [BillIds -> set of bills]: what the owner may type in for a bill
    Given,      \* the cycles a link may name, Null for none
    Window,     \* match_window_days
    Passes, Linkers,   \* concurrent passes and requests of the owner
    HandLinked, \* bound: the bills whose payments the owner links
    NoPattern,  \* the empty match_pattern
    Null,
    Days,       \* bound: the days on which anything happens
    MaxEdits    \* bound: creations and edits of bills, none after a deletion

ASSUME PatternsAssumption ==
    /\ NoPattern \notin Patterns
    /\ Fits \in [Patterns -> SUBSET Rows]

\* Days are counted from before the first row; a bill has a cadence, and an anchor
\* that may be any day.
ASSUME BillsAssumption ==
    /\ PostedOn \in [Rows -> Nat] /\ Window \in Nat
    /\ Days \in SUBSET Nat /\ Days # {}
    /\ Null \notin Int /\ HandLinked \subseteq BillIds
    /\ \A b \in BillIds : \A r \in Forms[b] :
          r \in [anchor : Int, cadence : Cadences, status : {"active", "paused", "ended"},
                 ended : Int \cup {Null}, pattern : Patterns \cup {NoPattern}]

VARIABLES
    today,     \* the Melbourne calendar day
    rows,      \* posted rows in the ledger
    bill,      \* the recurring_bills table, Null for no such row
    payments,  \* the bill_payments table
    pass,      \* pass[p]: a matching pass
    link,      \* link[l]: a request that links a payment by hand
    trusted,   \* history: nothing has gone wrong since the last full pass
    edits      \* bound: how many edits there were

vars == <<today, rows, bill, payments, pass, link, trusted, edits>>

Idle == [pc |-> "idle"]
Exists(b) == bill[b] # Null
Quiet == \A p \in Passes : pass[p] = Idle

-----------------------------------------------------------------------------
(* Reading *)

CoverageFrom == Min({PostedOn[r] : r \in rows})

Settled(b, occ) == \E y \in payments : y.bill = b /\ y.occ = occ

\* billView and isOverdue, for a bill and the previous cycle.
Prev(b) == PrevDue(bill[b].anchor, bill[b].cadence, today)
Overdue(b) ==
    /\ bill[b].status = "active" /\ bill[b].pattern # NoPattern
    /\ Prev(b) >= bill[b].anchor
    /\ bill[b].ended # Null => Prev(b) <= bill[b].ended
    /\ rows # {} /\ Prev(b) + Window >= CoverageFrom
    /\ today > Prev(b) + Window
    /\ ~Settled(b, Prev(b))

\* billView: the due date reported for the bill r.
DueShown(r, day, overdue) ==
    LET next == NextDue(r.anchor, r.cadence, day)
    IN  IF overdue THEN PrevDue(r.anchor, r.cadence, day)
        ELSE IF r.ended # Null /\ next > r.ended
             THEN LastOnOrBefore(r.anchor, r.cadence, r.ended)
             ELSE next

\* cycleWindow: the cycles of a bill a pass bounded to [from, to] looks at.
\* Faulty variant: the range of the ingest is not widened by the match window.
CycleWindowExact(r, coverage, from, to) ==
    LET lo == Max({r.anchor, coverage - Window} \cup IF from = Null THEN {} ELSE {from})
        hi == Min({today + Window} \cup (IF to = Null THEN {} ELSE {to})
                                   \cup (IF r.ended = Null THEN {} ELSE {r.ended}))
    IN  IF hi < lo THEN {} ELSE OccurrencesBetween(r.anchor, r.cadence, lo, hi)
CycleWindow(r, coverage, from, to) ==
    LET lo == Max({r.anchor, coverage - Window} \cup IF from = Null THEN {} ELSE {from - Window})
        hi == Min({today + Window} \cup (IF to = Null THEN {} ELSE {to + Window})
                                   \cup (IF r.ended = Null THEN {} ELSE {r.ended}))
    IN  IF hi < lo THEN {} ELSE OccurrencesBetween(r.anchor, r.cadence, lo, hi)

Gap(day, occ) == IF day < occ THEN occ - day ELSE day - occ
Matches(pattern, r, occ) == r \in Fits[pattern] /\ Gap(PostedOn[r], occ) <= Window

\* bestMatch: the closest posted day, then the earlier one; among rows of one
\* day the lower id, which is any of them here.
Best(candidates, occ) ==
    {r \in candidates : \A q \in candidates :
        \/ Gap(PostedOn[r], occ) < Gap(PostedOn[q], occ)
        \/ Gap(PostedOn[r], occ) = Gap(PostedOn[q], occ) /\ PostedOn[r] <= PostedOn[q]}

-----------------------------------------------------------------------------
(* The matching pass: ReconcileBills *)

\* What else runs makes the outcome of a pass hard to predict; a full one
\* that runs alone, from its start to its end, makes up for it.
Together == [p \in Passes |-> IF pass[p] = Idle THEN Idle ELSE [pass[p] EXCEPT !.alone = FALSE]]

StartPass(p, from, to) ==
    /\ pass[p] = Idle
    /\ pass' = [Together EXCEPT ![p] = [pc |-> "start", from |-> from, to |-> to, alone |-> Quiet]]

\* An ingest lands rows, some of which it may have landed before, and then runs
\* a pass bounded to the days it carried.
LandRows(p, new) ==
    /\ \A r \in new : PostedOn[r] <= today
    /\ ~(new \subseteq rows)
    /\ rows' = rows \cup new
    /\ StartPass(p, Min({PostedOn[r] : r \in new}), Max({PostedOn[r] : r \in new}))
    /\ trusted' = (trusted /\ Quiet)
    /\ UNCHANGED <<today, bill, payments, link, edits>>

\* reconcile-finance-bills, or an ingest that carried no row: both bounds open.
ReconcileNow(p) ==
    /\ StartPass(p, Null, Null)
    /\ trusted' = (trusted /\ Quiet)
    /\ UNCHANGED <<today, rows, bill, payments, link, edits>>

\* The bills and the ledger's coverage are read; a paused bill, one matched by
\* hand and one with no cycle in range are left out.
CyclesOf(p, b) == CycleWindow(bill[b], CoverageFrom, pass[p].from, pass[p].to)
Todo(p) ==
    IF rows = {} THEN {}
    ELSE {b \in {x \in BillIds : Exists(x)} :
             bill[b].status # "paused" /\ bill[b].pattern # NoPattern /\ CyclesOf(p, b) # {}}

PassBills(p) ==
    /\ pass[p].pc = "start" /\ Todo(p) # {}
    /\ pass' = [pass EXCEPT ![p] =
          [pc |-> "rows", full |-> @.from = Null, alone |-> @.alone,
           cycles |-> [b \in Todo(p) |-> CyclesOf(p, b)],
           pattern |-> [b \in Todo(p) |-> bill[b].pattern]]]
    /\ UNCHANGED <<today, rows, bill, payments, link, trusted, edits>>

\* The posted rows are loaded once for the whole pass.
PassRows(p) ==
    /\ pass[p].pc = "rows"
    /\ pass' = [pass EXCEPT ![p] =
          [pc |-> "next", full |-> pass[p].full, alone |-> pass[p].alone,
           cycles |-> pass[p].cycles, pattern |-> pass[p].pattern, seen |-> rows]]
    /\ UNCHANGED <<today, rows, bill, payments, link, trusted, edits>>

\* existingPayments of one of the bills left (in the code, the one with the lowest id).
PassNext(p, b) ==
    LET mine == {y \in payments : y.bill = b} IN
    /\ pass[p].pc = "next" /\ b \in DOMAIN pass[p].cycles
    /\ pass' = [pass EXCEPT ![p] =
          [pc |-> "bill", full |-> @.full, alone |-> @.alone, cycles |-> @.cycles,
           pattern |-> @.pattern, seen |-> @.seen, b |-> b,
           settled |-> {y.occ : y \in mine}, used |-> {y.row : y \in mine}]]
    /\ UNCHANGED <<today, rows, bill, payments, link, trusted, edits>>

\* The unsettled cycles of the bill that some unused row would settle.
Fillable(s) ==
    {occ \in s.cycles[s.b] \ s.settled :
        \E r \in s.seen \ s.used : Matches(s.pattern[s.b], r, occ)}

\* A cycle is filled, oldest first.  A constraint error (a pass or a link got
\* there first, or the bill is gone) counts the cycle and the row as done.
PassLink(p) ==
    LET s   == pass[p]
        occ == Min(Fillable(s)) IN
    /\ s.pc = "bill" /\ Fillable(s) # {}
    /\ \E r \in Best({q \in s.seen \ s.used : Matches(s.pattern[s.b], q, occ)}, occ) :
        /\ payments' = IF Exists(s.b) /\ ~\E y \in payments : y.bill = s.b /\ (y.occ = occ \/ y.row = r)
                       THEN payments \cup {[bill |-> s.b, row |-> r, occ |-> occ, method |-> "auto"]}
                       ELSE payments
        /\ pass' = [pass EXCEPT ![p].settled = @ \cup {occ}, ![p].used = @ \cup {r}]
    /\ UNCHANGED <<today, rows, bill, link, trusted, edits>>

PassBillDone(p) ==
    LET s == pass[p] IN
    /\ s.pc = "bill" /\ Fillable(s) = {} /\ DOMAIN s.cycles # {s.b}
    /\ pass' = [pass EXCEPT ![p] =
          [pc |-> "next", full |-> s.full, alone |-> s.alone, seen |-> s.seen,
           cycles |-> [b \in DOMAIN s.cycles \ {s.b} |-> s.cycles[b]],
           pattern |-> [b \in DOMAIN s.cycles \ {s.b} |-> s.pattern[b]]]]
    /\ UNCHANGED <<today, rows, bill, payments, link, trusted, edits>>

\* The pass ends: nothing to do, or every bill done.
PassEnds(p) ==
    LET s == pass[p]
        nothing == s.pc = "start" /\ Todo(p) = {}
        done == s.pc = "bill" /\ Fillable(s) = {} /\ DOMAIN s.cycles = {s.b}
        full == (nothing /\ s.from = Null) \/ (done /\ s.full)
    IN
    /\ nothing \/ done
    /\ pass' = [pass EXCEPT ![p] = Idle]
    /\ trusted' = (trusted \/ (full /\ s.alone))
    /\ UNCHANGED <<today, rows, bill, payments, link, edits>>

\* A statement fails, or the process dies: the ingest reports success all the same.
PassFails(p) ==
    /\ pass[p] # Idle
    /\ pass' = [pass EXCEPT ![p] = Idle]
    /\ trusted' = FALSE
    /\ UNCHANGED <<today, rows, bill, payments, link, edits>>

-----------------------------------------------------------------------------
(* The owner *)

\* A change of a bill or of its links asks for a full pass: whatever runs now may miss it.
Disturbed == trusted' = FALSE /\ pass' = Together

\* create-finance-bill
CreateBill(b, form) ==
    /\ ~Exists(b) /\ edits < MaxEdits
    /\ bill' = [bill EXCEPT ![b] = form]
    /\ edits' = edits + 1 /\ Disturbed
    /\ UNCHANGED <<today, rows, payments, link>>

\* update-finance-bill: any column, in one statement.
EditBill(b, form) ==
    /\ Exists(b) /\ edits < MaxEdits /\ bill[b] # form
    /\ bill' = [bill EXCEPT ![b] = form]
    /\ edits' = edits + 1 /\ Disturbed
    /\ UNCHANGED <<today, rows, payments, link>>

\* delete-finance-bill: the links and the bill, in one transaction.
DeleteBill(b) ==
    /\ Exists(b) /\ edits < MaxEdits
    /\ bill' = [bill EXCEPT ![b] = Null]
    /\ payments' = {y \in payments : y.bill # b}
    /\ edits' = MaxEdits /\ Disturbed
    /\ UNCHANGED <<today, rows, link>>

\* LinkBillPayment: the bill and the row are read, the cycle is the nearest one
\* or a given one, which must be an occurrence; the link it replaces is read.
LinkRead(l, b, r, given) ==
    LET occ == IF given = Null
               THEN NearestOccurrence(bill[b].anchor, bill[b].cadence, PostedOn[r]) ELSE given
        old == {y \in payments : y.bill = b /\ y.occ = occ}
    IN
    /\ link[l] = Idle /\ Exists(b) /\ r \in rows
    /\ given # Null => IsOccurrence(bill[b].anchor, bill[b].cadence, given)
    /\ \A y \in old : y.method = "auto"
    /\ link' = [link EXCEPT ![l] = [pc |-> "write", b |-> b, r |-> r, occ |-> occ, old |-> old]]
    /\ UNCHANGED <<today, rows, bill, payments, pass, trusted, edits>>

\* The old link is deleted and the new one inserted in one transaction; if the old
\* one is gone, or an index or the bill's key refuses, nothing happens.
\* Faulty variant: the old link is deleted by cycle, whatever it has become.
LinkWriteByCycle(l) ==
    LET s    == link[l]
        rest == {y \in payments : ~(y.bill = s.b /\ y.occ = s.occ)}
        ok   == Exists(s.b) /\ ~\E y \in rest : y.bill = s.b /\ y.row = s.r IN
    /\ s.pc = "write"
    /\ payments' = IF ok THEN rest \cup {[bill |-> s.b, row |-> s.r, occ |-> s.occ, method |-> "manual"]}
                   ELSE payments
    /\ link' = [link EXCEPT ![l] = Idle]
    /\ Disturbed
    /\ UNCHANGED <<today, rows, bill, edits>>
LinkWrite(l) ==
    LET s    == link[l]
        rest == payments \ s.old
        ok   == /\ s.old \subseteq payments /\ Exists(s.b)
                /\ ~\E y \in rest : y.bill = s.b /\ (y.occ = s.occ \/ y.row = s.r) IN
    /\ s.pc = "write"
    /\ payments' = IF ok THEN rest \cup {[bill |-> s.b, row |-> s.r, occ |-> s.occ, method |-> "manual"]}
                   ELSE payments
    /\ link' = [link EXCEPT ![l] = Idle]
    /\ IF ok THEN Disturbed ELSE UNCHANGED <<pass, trusted>>
    /\ UNCHANGED <<today, rows, bill, edits>>

LinkFails(l) ==
    /\ link[l] # Idle
    /\ link' = [link EXCEPT ![l] = Idle]
    /\ UNCHANGED <<today, rows, bill, payments, pass, trusted, edits>>

NextDay ==
    /\ \E d \in Days : d > today
    /\ today' = Min({d \in Days : d > today})
    /\ UNCHANGED <<rows, bill, payments, pass, link, trusted, edits>>

-----------------------------------------------------------------------------
Init ==
    /\ today = Min(Days) /\ rows = {} /\ payments = {}
    /\ bill = [b \in BillIds |-> Null]
    /\ pass = [p \in Passes |-> Idle] /\ link = [l \in Linkers |-> Idle]
    /\ trusted = TRUE /\ edits = 0

PassStep(p) ==
    \/ PassBills(p) \/ PassRows(p) \/ (\E b \in BillIds : PassNext(p, b))
    \/ PassLink(p) \/ PassBillDone(p) \/ PassEnds(p)

Owner ==
    \/ \E b \in BillIds : \E form \in Forms[b] : CreateBill(b, form) \/ EditBill(b, form)
    \/ \E b \in BillIds : DeleteBill(b)
    \/ \E l \in Linkers :
          \/ \E b \in HandLinked, r \in Rows, given \in Given : LinkRead(l, b, r, given)
          \/ LinkWrite(l) \/ LinkFails(l)

Next ==
    \/ NextDay \/ Owner
    \/ \E p \in Passes : \/ PassStep(p) \/ PassFails(p) \/ ReconcileNow(p)
                         \/ \E new \in SUBSET Rows : LandRows(p, new)

Spec == Init /\ [][Next]_vars

-----------------------------------------------------------------------------
\* bills.go: due dates are derived, "so there is no bumping job and no cache to go
\* stale".  What the generator derives at any day, for any anchor and cadence, is
\* exactly the grid, month ends and days before the anchor included, and an ended bill
\* shows no due date after its end.
GridAgrees(form, day) ==
    LET a    == form.anchor
        c    == form.cadence
        near == day - 2 * PeriodDays .. day + 2 * PeriodDays
        grid == {d \in near : Due(a, c, d)}
        n    == NearestOccurrence(a, c, day)
    IN  /\ NextDue(a, c, day) = Min({d \in grid : d >= day})
        /\ PrevDue(a, c, day) = Max({d \in grid : d < day})
        /\ IsOccurrence(a, c, day) = Due(a, c, day)
        /\ OccurrencesBetween(a, c, day, day + PeriodDays) = grid \cap day .. day + PeriodDays
        /\ n \in grid /\ \A d \in grid : Gap(n, day) <= Gap(d, day)
        /\ Due(a, c, DueShown(form, day, FALSE))
        /\ form.ended # Null => DueShown(form, day, FALSE) <= form.ended
Grid == {[form |-> f, day |-> d, agrees |-> GridAgrees(f, d)] : f \in UNION {Forms[b] : b \in BillIds}, d \in Days}

DueDatesAreTheGrid == \A b \in BillIds : Exists(b) => [form |-> bill[b], day |-> today, agrees |-> TRUE] \in Grid

\* bills.go, isOverdue: overdue "is an inference from an absence and an absence only
\* means something where a payment could have been found".  While no pass has
\* failed, overlapped another or been outdated by an edit since a full one, a
\* bill shown as overdue has no posted row that could have settled the cycle and
\* settles no other, although every pass after an ingest was bounded.
OverdueIsAnAbsence ==
    trusted /\ Quiet =>
        \A b \in BillIds : Exists(b) /\ Overdue(b) =>
            \A r \in rows : Matches(bill[b].pattern, r, Prev(b)) =>
                \E y \in payments : y.bill = b /\ y.row = r

\* bills.go: "the matcher may be overruled, an earlier human decision may not be
\* silently replaced".  A manual link goes away with its bill only.
ManualLinksStay ==
    [][\A y \in payments :
          y.method = "manual" => y \in payments' \/ bill'[y.bill] = Null]_vars
=============================================================================
