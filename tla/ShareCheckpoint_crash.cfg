SPECIFICATION Spec
CONSTANTS
    Files = {f1, f2}
    Digests = {d1, d2}
    d1 = d1
    d2 = d2
    Procs = {p1, p2}
    p1 = p1
    p2 = p2
    None = None
    Edited = Edited
    NoProc = NoProc
    Torn = Torn
    OrderedMetadata = TRUE
    MaxRuns = 3
SYMMETRY Symmetric
CHECK_DEADLOCK FALSE
INVARIANTS NoFalseCredit ResumeLoads ReaderConsistent
PROPERTY KeepsCompletions
