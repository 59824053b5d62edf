CONSTANTS
    A = A
    B = B
    Nil = Nil
    N = 4
    Height = 0
    MaxRound = 1
    MaxRebuilds = 2
    Byzantine <- NoByzantine
    Blocks <- MCBlocks
    ValidBlocks <- MCBlocks
SPECIFICATION CertifiedSpec
INVARIANT Agreement
