------------------------------ MODULE Scheduler ------------------------------
(***************************************************************************)
(* zagros-scheduler/src/lib.rs: classify_at_rules splits a block into the  *)
(* transactions Rayon runs in parallel and those run one after another,    *)
(* by the accounts and counters each is known to touch.  One step is one   *)
(* turn of its loop.  The groups are sets of positions in the block; the   *)
(* conflicting group runs in block order.                                  *)
(***************************************************************************)
EXTENDS Integers, Sequences

CONSTANTS
    Blocks,            \* the blocks: sequences of transactions
    LiquidityPool, RewardPool, TotalStaked, TransferIndex, ProposalCount,
    CurrentHeight,     \* current_block_height_for_rules
    LockHeight,        \* CLASSIFY_LOCK_ACTIVATION_HEIGHT
    D14Height          \* D14_RULES_ACTIVATION_HEIGHT

\* New blocks are above both heights; below them is replayed history.
ASSUME RulesAssumption ==
    /\ CurrentHeight \in Nat /\ LockHeight \in Nat /\ D14Height \in Nat
    /\ CurrentHeight >= LockHeight /\ CurrentHeight >= D14Height

VARIABLES
    transactions,      \* the block
    at,                \* the position the loop looks at
    independent_txs, conflicting_txs, locked_accounts

classify == <<transactions, at, independent_txs, conflicting_txs, locked_accounts>>

\* Mutants: the rules of the time before an activation height.
NotYet == FALSE

lock_conflicting == CurrentHeight >= LockHeight
d14 == CurrentHeight >= D14Height

IsEvm(x) == x.kind = "evm"

\* touched_addresses_at.  `extra` is what the payload names: a validator, a
\* slashing target, a proposal.  Addresses are in their canonical form (D14).
Touched(x) ==
    {x.sender, x.receiver} \cup x.extra
    \cup (IF x.kind \in {"evm", "pool"} THEN {LiquidityPool, RewardPool} ELSE {})
    \cup (IF IsEvm(x) THEN {TransferIndex} ELSE {})
    \cup (IF x.kind = "submit" THEN {ProposalCount} ELSE {})
    \cup (IF x.kind = "staking" \/ (d14 /\ x.kind = "submit") THEN {RewardPool, TotalStaked} ELSE {})

SchedulerInit ==
    /\ transactions \in Blocks /\ at = 1
    /\ independent_txs = {} /\ conflicting_txs = {} /\ locked_accounts = {}

Classify ==
    LET x == transactions[at]
        independent == ~ IsEvm(x) /\ Touched(x) \cap locked_accounts = {}
        locks == IF IsEvm(x) THEN d14 ELSE independent \/ lock_conflicting
    IN  /\ at <= Len(transactions) /\ at' = at + 1
        /\ independent_txs' = independent_txs \cup (IF independent THEN {at} ELSE {})
        /\ conflicting_txs' = conflicting_txs \cup (IF independent THEN {} ELSE {at})
        /\ locked_accounts' = locked_accounts \cup (IF locks THEN Touched(x) ELSE {})
        /\ UNCHANGED transactions

SchedulerSpec == SchedulerInit /\ [][Classify]_classify

\* Whatever runs in parallel shares no account with any earlier transaction of
\* the block, parallel or not: the parallel ones cannot race and none of them
\* overtakes a transaction it depends on (or whose nonce precedes its own).
IndependentOfEarlier ==
    \A j \in independent_txs : \A i \in 1 .. (j - 1) :
        Touched(transactions[i]) \cap Touched(transactions[j]) = {}

=============================================================================
