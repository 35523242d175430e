SPECIFICATION Spec
CONSTANTS
    Commands = {d1, d2}
    Operators = {o1, o2}
    Policies = {TRUE, FALSE}
    NChunks = 2
    MaxBuilds = 2
SYMMETRY Symmetry
INVARIANTS
    DeliveredOnce
