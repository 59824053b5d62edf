-------------------------- MODULE MCPoolGovernance --------------------------
(* Instances of Mempool, for one sender, and of Governance: four validators  *)
(* and a candidate, whose admins' phase ends, or is cut short, while a       *)
(* proposal waits for its timelock.  The pool and the accounts of validators *)
(* and proposals share nothing: leg says which of the two a behaviour shows. *)
EXTENDS Mempool, Governance

CONSTANTS s1, rpc, v1, v2, v3, v4, c1, o1, o2, none

Pending(i, s, n, heavy) ==
    [id |-> i, sender |-> s, nonce |-> n, cost |-> 1, heavy |-> heavy, exempt |-> FALSE]

OneSender == {Pending(0, s1, 0, FALSE), Pending(1, s1, 1, FALSE), Pending(2, s1, 1, FALSE)}
SendersA == {s1}
Funds == [s \in Senders |-> 3]
OneTask == {rpc}

-----------------------------------------------------------------------------
\* The candidate shares its operator with v1; v1 owns a second key to rotate to.
Operators == (v1 :> o1) @@ (c1 :> o1) @@ (v2 :> o2) @@ (v3 :> o2) @@ (v4 :> o2)
ConsensusKeys == (v1 :> {11, 12}) @@ (v2 :> {21}) @@ (v3 :> {31}) @@ (v4 :> {41}) @@ (c1 :> {51})

Daily == [epochSeconds |-> 2, timelock |-> 1, votingEpochs |-> 1]
Slower == [Daily EXCEPT !.epochSeconds = 4]

Agenda ==
    {[id |-> 1, proposer |-> v2, action |-> "shorten", channel |-> "consensus",
      target |-> none, value |-> 1],
     [id |-> 2, proposer |-> v3, action |-> "approve", channel |-> "economic",
      target |-> c1, value |-> 0],
     [id |-> 3, proposer |-> v3, action |-> "text", channel |-> "economic",
      target |-> none, value |-> 0],
     [id |-> 4, proposer |-> v2, action |-> "param", channel |-> "consensus",
      target |-> none, value |-> Slower]}

\* All agree, they split, or one of them speaks alone.
Votes == {[a \in Addrs |-> TRUE], (v1 :> TRUE) @@ (v2 :> FALSE), (v1 :> TRUE)}

-----------------------------------------------------------------------------
VARIABLE leg
both == <<leg, vars, govVars>>

BothInit == leg \in {"pool", "governance"} /\ Init /\ GovInit

BothNext ==
    /\ \/ leg = "pool" /\ Next /\ UNCHANGED govVars
       \/ leg = "governance" /\ GovNext /\ UNCHANGED vars
    /\ UNCHANGED leg

BothSpec == BothInit /\ [][BothNext]_both
=============================================================================
