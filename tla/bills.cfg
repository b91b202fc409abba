\* Two bills, two rows that fit them, a bounded pass after every ingest.
CONSTANTS
    r1 = r1
    r2 = r2
    rent = rent
    b1 = b1
    b2 = b2
    Ends <- MCEnds
    Cadences = {"weekly", "monthly", "quarterly"}
    StepDays <- MCStepDays
    StepMonths <- MCStepMonths
    BillIds = {b1, b2}
    Rows = {r1, r2}
    Patterns = {rent}
    PostedOn <- MCPostedOn
    Fits <- MCFits
    Forms <- MCForms
    Given = {Null, 4}
    HandLinked = {b1}
    Window = 2
    Passes = {p1}
    Linkers = {l1, l2}
    NoPattern = NoPattern
    Null = Null
    Days = {2, 5, 7}
    MaxEdits = 2
SYMMETRY LinkSymmetry
SPECIFICATION Spec
INVARIANTS DueDatesAreTheGrid OverdueIsAnAbsence
PROPERTIES ManualLinksStay
