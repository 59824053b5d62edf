-------------------------- MODULE MCBlockExecution --------------------------
(* Instances of BlockExecution: four accounts, one of which does not exist  *)
(* yet, and blocks of two or three transactions.                            *)
EXTENDS BlockExecution

CONSTANTS a, b, c, d, w1, w2, rpc, query

Transfer(from, to, n, fails) ==
    [sender |-> from, receiver |-> to, extra |-> {}, kind |-> "transfer", nonce |-> n,
     writes |-> {from, to}, fails |-> fails]
\* A swap and a call pay the producer's share of their fees.
Swap(from, n) ==
    [Transfer(from, from, n, FALSE) EXCEPT !.kind = "pool", !.writes = {from, Producer}]
Call(from, to, n) ==
    [Transfer(from, to, n, FALSE) EXCEPT !.kind = "evm", !.writes = {from, to, Producer}]

\* Two independent transfers, one of which fails after creating d.
Parallel == <<Transfer(a, b, 0, FALSE), Transfer(c, d, 0, TRUE)>>
\* A call, then a transfer of its sender, which must not overtake it.
CallFirst == <<Call(a, b, 0), Transfer(a, c, 1, FALSE)>>
\* The third depends on the second, which waits for the first.
Chain == <<Transfer(a, b, 0, FALSE), Transfer(a, c, 1, FALSE), Transfer(c, d, 0, FALSE)>>

\* Two swaps that meet at the producer, and a transfer beside them.
Swaps == <<Swap(a, 0), Swap(b, 0), Transfer(c, c, 0, FALSE)>>

AllBlocks == {Parallel, CallFirst, Chain, Swaps}
\* A swap, and a transfer of the producer's own.
ProducerPays == {<<Swap(a, 0), Transfer(c, b, 0, FALSE)>>}
AllAccounts == {a, b, c, d}
NewAccounts == {d}
TwoWorkers == {w1, w2}
OneHandler == {rpc}
OneReader == {query}

\* A cache too small for the block, alone with it; or one that is large enough,
\* while a bridge request and a query of what is in it, of what does not exist
\* yet or of the archived block run beside it.
BothSetups ==
    {[limit |-> 3, warm |-> {}, queried |-> {}, requests |-> FALSE],
     [limit |-> 8, warm |-> {a}, queried |-> {a, d, Header}, requests |-> TRUE]}
\* A cache that holds everything, and nothing beside the block.
Alone == {[limit |-> 8, warm |-> {a, b, c}, queried |-> {}, requests |-> FALSE]}

=============================================================================
