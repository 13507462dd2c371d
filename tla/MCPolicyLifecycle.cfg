SPECIFICATION Spec
CONSTANTS
    Ursulas = {u1, u2, u3}
    Stakers = {u1, u2}
    NulinkWorkers = {u2, u3}
    Policies = {p}
    Requests = {r1, r2, r3}
    Shares = 2
    Threshold = 2
    Modes = {TRUE, FALSE}
SYMMETRY Symmetry
INVARIANTS  ActiveIsPaid ExactlyShares RevocationRepeatable
