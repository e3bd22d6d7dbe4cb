SPECIFICATION Spec
CONSTANTS
    s1 = s1
    s2 = s2
    s3 = s3
    s4 = s4
    Server = {s1, s2, s3}
    Nil = Nil
    Noop = Noop
    Value = {}
    EnablePreVote = FALSE
    IntervalCheck = FALSE
    MaxTransferTerm = 1
    MaxElections = 3
    MaxRpcs = 4
    MaxDuplicates = 0
    MaxLog = 2
    MaxRestarts = 1
    MaxTransfers = 0
    MaxProposals = 0
SYMMETRY Symmetry
INVARIANTS
    ElectionSafety
    ElectionInv
    TimersMatchRole
    LeaderCacheSound
PROPERTIES
    VoteStable
CHECK_DEADLOCK FALSE
