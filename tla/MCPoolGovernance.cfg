SPECIFICATION BothSpec
CONSTANTS
    s1 = s1
    rpc = rpc
    Driver = driver
    Sweeper = sweeper
    None = None
    Txs <- OneSender
    Senders <- SendersA
    Balance <- Funds
    Admitters <- OneTask
    MaxCapacity = 2
    MaxPerAddress = 2
    MaxQueueGap = 2
    MaxQueued = 1
    MaxSeq = 2
    MaxCommits = 1
    v1 = v1
    v2 = v2
    v3 = v3
    v4 = v4
    c1 = c1
    o1 = o1
    o2 = o2
    none = none
    Addrs = {v1, v2, v3, v4, c1}
    Operator <- Operators
    Keys <- ConsensusKeys
    NoKey = 0
    GenesisSet = {v1, v2, v3, v4}
    Stakes = {0, 2}
    MinStake = 2
    Threshold = 1
    MinValidators = 3
    MaxHard = 5
    MaxValidators = 5
    MaxPerOperator = 2
    UptimeBps = 6000
    MaxStrikes = 1
    ProbationEpochs = 1
    Jail = 1
    Vesting = 1
    MaxTime = 7
    MaxTxs = 3
    Proposals <- Agenda
    Ballots <- Votes
    Absentees = {v1, v2}
    Actors = {v1, c1}
    Purse = 2
    ProposalFee = 1
    ApplicationFee = 1
    MinStakeToSubmit = 1
    MaxActive = 2
    VotingSecs = 3
    ExpirySecs = 4
    VoteCapBps = 5000
    StakerQuorumBps = 2000
    AdminEnd = 2
    InitialParams <- Daily
    SubmitUntil = 5
INVARIANTS
    NonceUnique
    IndexExact
    NothingLeaked
    ReturnNeedsApproval
    
    DepositsAccounted
PROPERTIES
    DepositTimely
CHECK_DEADLOCK FALSE
