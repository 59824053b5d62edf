CONSTANTS
    A = A
    B = B
    me = me
    p1 = p1
    p2 = p2
    p3 = p3
    Nil = Nil
    None = None
    Validators <- Four
    Me = me
    MyRounds <- SecondRound
    GraceOn = TRUE
    MaxRound = 1
    MaxMessages = 2
    MaxRebuilds = 1
    MaxBuffered = 1
    Lookahead = 1
    Blocks <- TwoBlocks
    ValidBlocks <- TwoBlocks
    HeaderRound <- RoundOfHeader
SPECIFICATION PrefixSpec
SYMMETRY Symmetry
INVARIANTS  RoundMonotone AdvanceSettled ProposerBacksItself
CHECK_DEADLOCK FALSE
