SPECIFICATION Spec
CONSTANTS
    s1 = s1
    s2 = s2
    s3 = s3
    s4 = s4
    Server = {s1, s2, s3}
    Nil = Nil
    Noop = Noop
    Value = {"v1"}
    EnablePreVote = FALSE
    IntervalCheck = FALSE
    MaxTransferTerm = 1
    MaxElections = 1
    MaxRpcs = 3
    MaxDuplicates = 1
    MaxLog = 2
    MaxRestarts = 1
    MaxTransfers = 0
    MaxProposals = 2
SYMMETRY Symmetry
INVARIANTS
    AppliedMatchesLog
    IndicesWithinLog
CHECK_DEADLOCK FALSE
