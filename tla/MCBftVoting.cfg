CONSTANTS
    A = A
    B = B
    C = C
    Nil = Nil
    N = 4
    Height = 3
    MaxRound = 2
    Byzantine <- MCByzantine
    Blocks <- MCBlocks
    ValidBlocks <- MCValidBlocks
SYMMETRY Symmetry
SPECIFICATION MCSpec
INVARIANTS Agreement CertifiedIsFinal PolBacked PrevoteJustified
