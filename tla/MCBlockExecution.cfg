CONSTANTS
    a = a
    b = b
    c = c
    d = d
    w1 = w1
    w2 = w2
    rpc = rpc
    query = query
    None = None
    Main = main
    Producer = d
    Record = Record
    Height = Height
    Header = Header
    Proposal = Proposal
    LiquidityPool = LiquidityPool
    RewardPool = RewardPool
    TotalStaked = TotalStaked
    TransferIndex = TransferIndex
    ProposalCount = ProposalCount
    CurrentHeight = 9400
    LockHeight = 811
    D14Height = 9400
    Blocks <- AllBlocks
    Accounts <- AllAccounts
    Fresh <- NewAccounts
    Workers <- TwoWorkers
    Readers <- OneReader
    Handlers <- OneHandler
    Setups <- BothSetups
    MaxFailures = 1
SPECIFICATION FairSpec
INVARIANTS IndependentOfEarlier CrashConsistent  CleanMatchesDisk
PROPERTIES CommitEnds
CHECK_DEADLOCK FALSE
