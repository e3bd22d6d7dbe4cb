SPECIFICATION Spec
CONSTANTS
    s1 = s1
    s2 = s2
    s3 = s3
    s4 = s4
    Server = {s1, s2, s3}
    Nil = Nil
    Noop = Noop
    Value = {}
    EnablePreVote = TRUE
    IntervalCheck = TRUE
    MaxTransferTerm = 1
    MaxElections = 2
    MaxRpcs = 4
    MaxDuplicates = 0
    MaxLog = 2
    MaxRestarts = 1
    MaxTransfers = 1
    MaxProposals = 0
SYMMETRY Symmetry
PROPERTIES
    PreVoteBeforeElection
CHECK_DEADLOCK FALSE
