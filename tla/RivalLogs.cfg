SPECIFICATION RivalSpec
CONSTANTS
    s1 = s1
    s2 = s2
    s3 = s3
    s4 = s4
    Server = {s1, s2, s3}
    Nil = Nil
    Noop = Noop
    Value = {"v1", "v2"}
    EnablePreVote = FALSE
    IntervalCheck = FALSE
    MaxTransferTerm = 1
    MaxElections = 2
    MaxRpcs = 5
    MaxDuplicates = 1
    MaxLog = 4
    MaxRestarts = 0
    MaxTransfers = 0
    MaxProposals = 0
INVARIANTS
    TypeOK
    LogMatching
    LeaderCompleteness
    CommittedNotOverwritten
    MatchIndexSound
    StateMachineSafety
CHECK_DEADLOCK FALSE
