SPECIFICATION Spec
CONSTANTS
    Versions = {v1, v2}
    Candidates = {c1, c2}
    Reviewers = {r1, r2}
    Policies = {FALSE}
    MaxCycles = 2
    None = None
SYMMETRY Symmetry
INVARIANTS
    ApprovedWereDecided
