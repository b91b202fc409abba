\* Two people, two addresses, one session cookie, two requests at a time.
CONSTANTS
    owner = owner
    guest = guest
    None = None
    Subs = {p1, p2}
    Emails = {owner, guest}
    Floor <- MCFloor
    Ids = {u1, u2}
    Sessions = {k1}
    Reqs = {q1, q2}
SYMMETRY AccountsSymmetry
SPECIFICATION AccountsSpec
INVARIANTS AccountsWhole FloorHolds
PROPERTIES RevokedStaysRevoked
