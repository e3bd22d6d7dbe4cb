SPECIFICATION Spec
CONSTANTS
    s1 = s1
    s2 = s2
    s3 = s3
    s4 = s4
    Server = {s1, s2, s3, s4}
    Nil = Nil
    Noop = Noop
    Value = {}
    EnablePreVote = FALSE
    IntervalCheck = FALSE
    MaxTransferTerm = 1
    MaxElections = 2
    MaxRpcs = 2
    MaxDuplicates = 0
    MaxLog = 1
    MaxRestarts = 0
    MaxTransfers = 0
    MaxProposals = 0
SYMMETRY Symmetry
INVARIANTS
    ElectionSafety
CHECK_DEADLOCK FALSE
