SPECIFICATION FairSpec
CONSTANTS
    d1 = d1
    d2 = d2
    NSources = 2
    Docs <- MCDocs
    SourceOf <- MCSourceOf
    Contents = {x, y}
    Gone = Gone
    Conditional = {1}
    MaxChanges = 1
    MaxRuns = 2
INVARIANTS
    TypeOK
    CursorCovers
    ReturnedOrStranded
PROPERTIES
    StagesEnd
    ImplementsArchive
