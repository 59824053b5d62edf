CONSTANTS
    val = val
    usr = usr
    adm = adm
    auth = auth
    Nobody = Nobody
    Addrs <- FourAccounts
    Admin = adm
    BridgeAuthority = auth
    Producers <- BlockProducers
    Factors <- RewardFactors
    Txs <- Money
    Genesis <- World
    Scale = 1000
    ValidatorBps = 2000
    FeeBps = 100
    MaxSwapPercent = 5
    MinZagros = 1000
    MinZerenya = 250
    Window = 2
    GasTarget = 2
    MinStakeZerenya = 250
    HysteresisBps = 2000
    ReporterBps = 5000
    Vesting = 1
    Unbonding = 2
    BondLock = 3
    Jail = 3
    AdminEnd = 3
    MaxSkew = 1
    MaxMint = 1000
    DailyMint = 500
    Day = 3
    MaxBurns = 1
    MaxTransfers = 1
    D14 = TRUE
    Calls <- EvmTxs
    Contracts <- Router
    Payees <- CallPayees
    Moves <- Moved
    CallFloor = 10
    FactoryFee = 20
    DeployLevy = 200
    MaxDepth = 3
    MaxOps = 4
    MaxBefore = 0
    MaxWith = 2
    Times <- BlockTimes
    MaxTxs = 3
SPECIFICATION EvmSpec
INVARIANTS SupplyAccounted TotalStakedExact ZerenyaBacked RewardsCovered
PROPERTIES BondNotEscaped RevertExact
CHECK_DEADLOCK FALSE
