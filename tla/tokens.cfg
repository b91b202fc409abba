\* Two calls, two codes, and a lineage of up to three rows.
CONSTANTS
    None = None
    Codes = {c1, c2}
    Tokens = {t1, t2, t3}
    Calls = {q1, q2}
SYMMETRY OAuthSymmetry
SPECIFICATION OAuthSpec
INVARIANTS CodeBuysOneFamily FamilyRevokedWhole OneLiveRefresh
