------------------------------- MODULE Bridge -------------------------------
(***************************************************************************)
(* The mint leg of the bridge.  Every node keeps a BridgeManager: proposals *)
(* in memory, one state key per pending proposal and an index of them.      *)
(* Authorities propose and sign at their own node; each node's executor     *)
(* loop reads the pending list, prunes the memory to it and hands the       *)
(* proposals that are ready to the mempool; a block ingests the proposals   *)
(* that travel with it on every node and executes the mint.  The manager's  *)
(* lock is held by a whole RPC and by the prune, but not between the read   *)
(* of the pending list and the prune, and no block takes it.                *)
(*                                                                          *)
(* Ethereum is seen as the set of its final deposits.  A proposal is        *)
(* [dep, nonce, at, sigs]: the deposit it is for, the manager's counter,    *)
(* its timestamp and the authorities that signed; dep fixes the recipient   *)
(* and the amount.  The counters of the bridge are written with the         *)
(* proposal, in one step.                                                   *)
(***************************************************************************)
EXTENDS Naturals, FiniteSets, FiniteSetsExt

CONSTANTS
    Nodes, Authorities, Deposits,
    Home,           \* the node whose RPC an authority calls
    Executors,      \* the nodes that hold the key of the bridge's signer
    Amount,         \* what a deposit locked, in the chain's token
    Required,       \* signatures a proposal needs
    Timelock,       \* how long a proposal waits
    Window,         \* the sliding window of the daily limit
    DailyLimit,
    MaxTime,        \* bound: the last instant explored
    FirstNonce,     \* what each node's counter has reached before the first step
    MaxNonces       \* bound: the numbers all nodes together give

VARIABLES
    now,
    confirmed,      \* the deposits final on Ethereum
    proposals,      \* BridgeManager.proposals of each node
    record,         \* the Bridge_<id> keys of each node's state
    index,          \* __BRIDGE_PENDING_PROPOSALS__ of each node
    nonce,          \* BridgeManager.nonce_counter of each node
    scan,           \* the executor loop of each node: its step and the list it loaded
    pool,           \* the mint transactions in circulation, by their payload
    processed,      \* the BridgeProcessedSource_<hash> keys
    minted,         \* how many times a deposit has been credited
    tracker,        \* BridgeDailyMintTracker: the mints, with their time
    archive         \* the BridgeArchive_<id> keys

local == <<proposals, record, index, nonce, scan>>
chain == <<processed, minted, tracker, archive>>
vars == <<now, confirmed, local, pool, chain>>

ASSUME RequiredAssumption == Required \in Nat \ {0}
ASSUME HomeAssumption == Home \in [Authorities -> Nodes]
ASSUME AmountAssumption == Amount \in [Deposits -> Nat]
ASSUME LimitAssumption == Window \in Nat /\ DailyLimit \in Nat
ASSUME NonceAssumption == FirstNonce \in [Nodes -> Nat]

Proposal == [dep: Deposits, nonce: Nat, at: Nat, sigs: SUBSET Authorities]

Id(p) == <<p.dep, p.nonce>>
IdsOf(S) == {Id(p) : p \in S}
Without(S, id) == {p \in S : Id(p) # id}
Replaced(S, p) == Without(S, Id(p)) \cup {p}

Idle == [step |-> "idle", list |-> {}]

\* The deposits a list of tracker entries credits, in the window that ends at t.
Recent(t) == {e \in tracker : e.time + Window > t}
Worth(S) == MapThenSumSet(LAMBDA e : Amount[e.dep], S)

-----------------------------------------------------------------------------
Init ==
    /\ now = 0
    /\ confirmed = {}
    /\ proposals = [n \in Nodes |-> {}]
    /\ record = [n \in Nodes |-> {}]
    /\ index = [n \in Nodes |-> {}]
    /\ nonce = FirstNonce
    /\ scan = [n \in Nodes |-> Idle]
    /\ pool = {}
    /\ processed = {}
    /\ minted = [d \in Deposits |-> 0]
    /\ tracker = {}
    /\ archive = {}

Tick == now < MaxTime /\ now' = now + 1 /\ UNCHANGED <<confirmed, local, pool, chain>>

Confirm(d) ==
    /\ d \notin confirmed
    /\ confirmed' = confirmed \cup {d}
    /\ UNCHANGED <<now, local, pool, chain>>

\* Mutant: the index is written before the proposal is in the map.
PersistedEarly(n, p, S) ==
    /\ proposals' = [proposals EXCEPT ![n] = S]
    /\ record' = [record EXCEPT ![n] = Replaced(@, p)]
    /\ index' = [index EXCEPT ![n] = IdsOf(proposals[n])]

\* persist_proposal: the proposal's own key, then the index rebuilt from memory.
Persisted(n, p, S) ==
    /\ proposals' = [proposals EXCEPT ![n] = S]
    /\ record' = [record EXCEPT ![n] = Replaced(@, p)]
    /\ index' = [index EXCEPT ![n] = IdsOf(S)]

\* zagros_proposeBridgeAction: a deposit this memory knows gets its proposal back
\* and changes nothing; one that is minted is refused.
Propose(a, d) ==
    LET n == Home[a]
        p == [dep |-> d, nonce |-> nonce[n] + 1, at |-> now, sigs |-> {}]
    IN  /\ d \in confirmed
        /\ MapThenSumSet(LAMBDA m : nonce[m], Nodes) < MaxNonces
        /\ \A q \in proposals[n] : q.dep # d
        /\ d \notin processed
        /\ nonce' = [nonce EXCEPT ![n] = @ + 1]
        /\ Persisted(n, p, proposals[n] \cup {p})
        /\ UNCHANGED <<now, confirmed, scan, pool, chain>>

\* zagros_signBridgeProposal, after the authority has found the deposit on Ethereum.
Sign(a, p) ==
    LET n == Home[a]
        q == [p EXCEPT !.sigs = @ \cup {a}]
    IN  /\ p \in proposals[n]
        /\ a \notin p.sigs
        /\ p.dep \in confirmed
        /\ Persisted(n, q, Replaced(proposals[n], q))
        /\ UNCHANGED <<now, confirmed, nonce, scan, pool, chain>>

-----------------------------------------------------------------------------
\* The executor loop: the pending list is read without the manager's lock.
Listed(n) == {p \in record[n] : Id(p) \in index[n]}

ScanLoad(n) ==
    /\ n \in Executors
    /\ scan[n].step = "idle"
    /\ scan' = [scan EXCEPT ![n] = [step |-> "loaded", list |-> Listed(n)]]
    /\ UNCHANGED <<now, confirmed, proposals, record, index, nonce, pool, chain>>

ScanPrune(n) ==
    /\ scan[n].step = "loaded"
    /\ proposals' = [proposals EXCEPT
                        ![n] = {p \in @ : Id(p) \in IdsOf(scan[n].list)}]
    /\ scan' = [scan EXCEPT ![n] = IF @.list = {} THEN Idle ELSE [@ EXCEPT !.step = "pruned"]]
    /\ UNCHANGED <<now, confirmed, record, index, nonce, pool, chain>>

\* proposal_is_executable: signatures are counted here, not verified.
Executable(p) == Cardinality(p.sigs) >= Required /\ p.at + Timelock <= now

\* can_execute looks at the memory's copy, the transaction carries the loaded one.
Ready(n, p) ==
    /\ p.dep \notin processed
    /\ \E q \in proposals[n] : Id(q) = Id(p) /\ Executable(q)
    /\ Id(p) \notin IdsOf(pool)

\* The loop is done with p.
Seen(n, p) == IF scan[n].list = {p} THEN Idle ELSE [scan[n] EXCEPT !.list = @ \ {p}]

ScanNext(n, p) ==
    /\ scan[n].step = "pruned"
    /\ p \in scan[n].list
    /\ pool' = IF Ready(n, p) THEN pool \cup {p} ELSE pool
    /\ scan' = [scan EXCEPT ![n] = Seen(n, p)]
    /\ UNCHANGED <<now, confirmed, proposals, record, index, nonce, chain>>

-----------------------------------------------------------------------------
\* Mutant: the deposit's own lock is not consulted.
MintValidById(p) == Executable(p) /\ p \notin archive

\* validate_bridge_mint_proposal: everything is read from the transaction's payload.
MintValid(p) == Executable(p) /\ p.dep \notin processed

\* Mutant: the days of the calendar instead of a sliding window.
WithinCalendarDay(d) ==
    Worth({e \in tracker : e.time \div Window = now \div Window}) + Amount[d] <= DailyLimit

\* check_and_record_daily_mint.
WithinDaily(d) == Worth(Recent(now)) + Amount[d] <= DailyLimit

\* ingest_relayed_proposals: the proposer's copy, if enough signatures are valid,
\* becomes the active record of every node, an archived one included.
Ingested(n, p) ==
    LET sent == {q \in (IF Id(p) \in IdsOf(record[n]) THEN record[n] ELSE archive) :
                    Id(q) = Id(p) /\ Cardinality(q.sigs) >= Required}
    IN  [m \in Nodes |-> IF sent = {} THEN record[m] ELSE Without(record[m], Id(p)) \cup sent]

\* A block of node n holds p's mint: the credit, the locks against another mint
\* and the archive are one checkpoint.
Mint(n, p) ==
    /\ p \in pool
    /\ MintValid(p)
    /\ WithinDaily(p.dep)
    /\ pool' = Without(pool, Id(p))
    /\ minted' = [minted EXCEPT ![p.dep] = @ + 1]
    /\ processed' = processed \cup {p.dep}
    /\ tracker' = Recent(now) \cup {[dep |-> p.dep, time |-> now]}
    /\ archive' = Replaced(archive, p)
    /\ record' = [m \in Nodes |-> Without(Ingested(n, p)[m], Id(p))]
    /\ index' = [m \in Nodes |-> index[m] \ {Id(p)}]
    /\ UNCHANGED <<now, confirmed, proposals, nonce, scan>>

\* The mint fails in its block: only what came with the block stays.
MintFails(n, p) ==
    /\ p \in pool
    /\ ~(MintValid(p) /\ WithinDaily(p.dep))
    /\ pool' = Without(pool, Id(p))
    /\ record' = Ingested(n, p)
    /\ UNCHANGED <<now, confirmed, proposals, index, nonce, scan, chain>>

\* The mempool drops a transaction.
Drop(p) == p \in pool /\ pool' = pool \ {p} /\ UNCHANGED <<now, confirmed, local, chain>>

\* A node restarts: load_from_state rebuilds the memory from the index.
Restart(n) ==
    /\ proposals' = [proposals EXCEPT ![n] = Listed(n)]
    /\ scan' = [scan EXCEPT ![n] = Idle]
    /\ UNCHANGED <<now, confirmed, record, index, nonce, pool, chain>>

-----------------------------------------------------------------------------
Next ==
    \/ Tick
    \/ \E d \in Deposits : Confirm(d)
    \/ \E a \in Authorities, d \in Deposits : Propose(a, d)
    \/ \E a \in Authorities : \E p \in proposals[Home[a]] : Sign(a, p)
    \/ \E n \in Nodes :
        \/ ScanLoad(n)
        \/ ScanPrune(n)
        \/ \E p \in scan[n].list : ScanNext(n, p)
        \/ \E p \in pool : Mint(n, p)
        \/ \E p \in pool : MintFails(n, p)
        \/ Restart(n)
    \/ \E p \in pool : Drop(p)

Spec == Init /\ [][Next]_vars

-----------------------------------------------------------------------------
TypeOK ==
    /\ now \in Nat
    /\ confirmed \subseteq Deposits
    /\ proposals \in [Nodes -> SUBSET Proposal]
    /\ record \in [Nodes -> SUBSET Proposal]
    /\ index \in [Nodes -> SUBSET (Deposits \X Nat)]
    /\ nonce \in [Nodes -> Nat]
    /\ scan \in [Nodes -> [step: {"idle", "loaded", "pruned"}, list: SUBSET Proposal]]
    /\ pool \subseteq Proposal
    /\ processed \subseteq Deposits
    /\ minted \in [Deposits -> Nat]
    /\ tracker \subseteq [dep: Deposits, time: Nat]
    /\ archive \subseteq Proposal

\* Every credit is that of a final deposit and no deposit is credited twice,
\* whatever proposals for it exist on whatever nodes, in blocks, memory or the
\* mempool, and whoever restarts (the lock of validate_bridge_mint_proposal).
Once == INSTANCE ExactlyOnce WITH Claims <- Deposits, owed <- confirmed, paid <- minted
MintsOnce == Once!Spec

\* What the chain itself mints in any sliding window stays within the daily limit,
\* wherever the window begins (check_and_record_daily_mint): the archive keeps no
\* times, so the history of the mints is the tracker's.
DailyLimitHolds ==
    \A e \in tracker : Worth({f \in tracker : f.time <= e.time /\ f.time + Window > e.time})
                           <= DailyLimit

\* A proposal a manager holds for a deposit not yet minted is in the index its
\* executor reads, through prunes, late signatures, mints of other nodes' proposals
\* and restarts: the loop cannot overlook what the RPC still shows.
HeldIsListed ==
    \A n \in Nodes : \A p \in proposals[n] :
        p.dep \in processed \/ Id(p) \in IdsOf(Listed(n))

=============================================================================
