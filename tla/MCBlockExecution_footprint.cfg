CONSTANTS
    a = a
    b = b
    c = c
    d = d
    w1 = w1
    w2 = w2
    rpc = rpc
    query = query
    None = None
    Main = main
    Producer = c
    Record = Record
    Height = Height
    Header = Header
    Proposal = Proposal
    LiquidityPool = LiquidityPool
    RewardPool = RewardPool
    TotalStaked = TotalStaked
    TransferIndex = TransferIndex
    ProposalCount = ProposalCount
    CurrentHeight = 9400
    LockHeight = 811
    D14Height = 9400
    Blocks <- ProducerPays
    Accounts <- AllAccounts
    Fresh <- NewAccounts
    Workers <- TwoWorkers
    Readers <- OneReader
    Handlers <- OneHandler
    Setups <- Alone
    MaxFailures = 0
SPECIFICATION Spec
INVARIANTS NoChangeLost
CHECK_DEADLOCK FALSE
