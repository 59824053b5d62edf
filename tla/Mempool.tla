------------------------------- MODULE Mempool -------------------------------
(***************************************************************************)
(* zagros-mempool/src/lib.rs: admission, the forward-nonce queue, removal  *)
(* and block selection.  RPC and gossip tasks admit, the consensus driver  *)
(* removes what was committed and sweeps stale nonces, the TTL sweeper     *)
(* removes what expired, all at once on one Mempool whose indexes are      *)
(* separate concurrent maps.  A step here is what one thread does to one   *)
(* map (or to several when no other thread can tell the difference).  The  *)
(* only lock that spans steps is the entry guard on address_tx_count that  *)
(* add_transaction keeps for the sender.                                   *)
(*                                                                         *)
(* Signatures, sizes and fee schedules decide which transactions are ever  *)
(* acceptable; Txs are those.  total_bytes moves with tx_count.            *)
(***************************************************************************)
EXTENDS Integers, Sequences, FiniteSets, FiniteSetsExt, SequencesExt

CONSTANTS
    Txs,               \* records [id, sender, nonce, cost, heavy, exempt]
    Senders,
    Balance,           \* initial chain balance of each sender
    Admitters,         \* RPC and gossip tasks
    Driver,            \* the consensus driver's thread
    Sweeper,           \* the TTL task
    MaxCapacity,       \* max_capacity
    MaxPerAddress,     \* max_tx_per_address
    MaxQueueGap,       \* MAX_QUEUE_GAP
    MaxQueued,         \* MAX_QUEUED_PER_SENDER
    MaxSeq,            \* bound: admissions begun before fifo_seq reaches it
    MaxCommits,        \* bound: blocks committed
    None

ASSUME MempoolAssumption ==
    /\ \A x \in Txs : x.sender \in Senders /\ x.nonce \in Nat /\ x.cost \in Nat
    /\ Balance \in [Senders -> Nat] /\ MaxCapacity \in Nat /\ MaxPerAddress \in Nat
    /\ IsFiniteSet(Admitters) /\ None \notin Admitters \cup {Driver, Sweeper}

Threads == Admitters \cup {Driver, Sweeper}
NoEntry == -1     \* no entry in the map

VARIABLES
    nonce, balance,    \* chain state
    commits,           \* blocks committed
    pool, tx_count, nonce_index, arrival_time,
    fifo_seq, fifo_key, lanes,    \* lanes: the (key, transaction) buckets
    pending_costs, address_tx_count,
    queued,            \* forward-nonce queue
    guard,             \* who holds a sender's address_tx_count entry
    task               \* what each thread is doing

chain == <<nonce, balance, commits>>
vars == <<nonce, balance, commits, pool, tx_count, nonce_index, arrival_time, fifo_seq,
          fifo_key, lanes, pending_costs, address_tx_count, queued, guard, task>>

Same(x, y) == x.sender = y.sender /\ x.nonce = y.nonce
Present(v) == IF v = NoEntry THEN 0 ELSE v

\* What add_transaction reserves, and what remove_transaction gives back
\* (native_zagros_cost): they differ for the bridge authority's mints.
Reserves(x) == IF x.exempt THEN 0 ELSE x.cost

\* pending_nonce: the first nonce from the chain's on that nobody holds.
PendingNonce(s) ==
    Min({n \in 0 .. (nonce[s] + Cardinality(Txs)) :
            n >= nonce[s] /\ ~ \E x \in nonce_index : x.sender = s /\ x.nonce = n})

Idle == [pc |-> "idle", tx |-> None, funds |-> 0, todo |-> <<>>, who |-> None,
         below |-> 0, sweep |-> {}, stale |-> {}]

Init ==
    /\ nonce = [s \in Senders |-> 0] /\ balance = Balance /\ commits = 0
    /\ pool = {} /\ tx_count = 0 /\ nonce_index = {}
    /\ arrival_time = [x \in Txs |-> NoEntry]
    /\ fifo_seq = 0 /\ fifo_key = [x \in Txs |-> NoEntry] /\ lanes = {}
    /\ pending_costs = [s \in Senders |-> NoEntry]
    /\ address_tx_count = [s \in Senders |-> NoEntry]
    /\ queued = {}
    /\ guard = [s \in Senders |-> None]
    /\ task = [t \in Threads |-> Idle]

At(t, p) == task[t].pc = p
Goto(t, p) == task' = [task EXCEPT ![t].pc = p]
Sender(t) == task[t].tx.sender

\* A thread is done with its transaction: the driver goes on with its sweep.
Finished(t) ==
    IF task[t].sweep = {} THEN Idle
    ELSE [task[t] EXCEPT !.pc = "sweep", !.who = None, !.tx = None]

-----------------------------------------------------------------------------
(* Admission.                                                              *)

\* admit_transaction up to the nonce decision; the queue insert comes later.
Admit(t, x) ==
    /\ t \in Admitters /\ At(t, "idle") /\ fifo_seq < MaxSeq
    /\ tx_count < MaxCapacity
    /\ LET expected == PendingNonce(x.sender)
       IN  \/ /\ x.nonce > expected /\ x.nonce - expected <= MaxQueueGap
              /\ task' = [task EXCEPT ![t] = [Idle EXCEPT !.pc = "enqueue", !.tx = x]]
           \/ /\ x.nonce = expected
              /\ task' = [task EXCEPT ![t] = [Idle EXCEPT !.pc = "check", !.tx = x]]
    /\ UNCHANGED <<chain, pool, tx_count, nonce_index, arrival_time, fifo_seq, fifo_key, lanes,
                   pending_costs, address_tx_count, queued, guard>>

\* enqueue_forward_nonce: a transaction of the same nonce is replaced.
Enqueue(t) ==
    LET x == task[t].tx
        rest == {y \in queued : ~ Same(x, y)}
    IN  /\ At(t, "enqueue")
        /\ queued' = IF /\ balance[x.sender] >= x.cost
                        /\ Cardinality({y \in rest : y.sender = x.sender}) < MaxQueued
                     THEN rest \cup {x} ELSE queued
        /\ task' = [task EXCEPT ![t] = Idle]
        /\ UNCHANGED <<chain, pool, tx_count, nonce_index, arrival_time, fifo_seq, fifo_key,
                       lanes, pending_costs, address_tx_count, guard>>

\* add_transaction_with_min_fee before it takes the sender's guard.
Check(t) ==
    /\ At(t, "check")
    /\ task' = [task EXCEPT ![t] =
                   IF tx_count < MaxCapacity
                   THEN [@ EXCEPT !.pc = "reserve", !.funds = balance[Sender(t)]]
                   ELSE Finished(t)]
    /\ UNCHANGED <<chain, pool, tx_count, nonce_index, arrival_time, fifo_seq, fifo_key, lanes,
                   pending_costs, address_tx_count, queued, guard>>

\* Mutant: no duplicate-nonce check.
AcceptableAnyNonce(t, x) ==
    /\ Present(address_tx_count[x.sender]) < MaxPerAddress
    /\ x \notin pool
    /\ Reserves(x) = 0 \/ Reserves(x) <= task[t].funds - Present(pending_costs[x.sender])

\* The checks made under the guard, with the balance read before it.
Acceptable(t, x) ==
    /\ Present(address_tx_count[x.sender]) < MaxPerAddress
    /\ x \notin pool
    /\ ~ \E y \in nonce_index : Same(x, y)
    /\ Reserves(x) = 0 \/ Reserves(x) <= task[t].funds - Present(pending_costs[x.sender])

\* Taking the guard creates the counter; a refusal drops the guard.  The lane,
\* fifo_key and nonce_index are written first.
Reserve(t) ==
    LET x == task[t].tx
    IN  /\ At(t, "reserve") /\ guard[x.sender] = None
        /\ address_tx_count' = [address_tx_count EXCEPT ![x.sender] = Present(@)]
        /\ \/ /\ Acceptable(t, x)
              /\ guard' = [guard EXCEPT ![x.sender] = t]
              /\ fifo_seq' = fifo_seq + 1
              /\ fifo_key' = [fifo_key EXCEPT ![x] = fifo_seq]
              /\ lanes' = lanes \cup {[key |-> fifo_seq, tx |-> x]}
              /\ nonce_index' = nonce_index \cup {x}
              /\ Goto(t, "pend")
           \/ /\ ~ Acceptable(t, x)
              /\ task' = [task EXCEPT ![t] = Finished(t)]
              /\ UNCHANGED <<guard, fifo_seq, fifo_key, lanes, nonce_index>>
        /\ UNCHANGED <<chain, pool, tx_count, arrival_time, pending_costs, queued>>

Pend(t) ==
    /\ At(t, "pend")
    /\ pending_costs' = [pending_costs EXCEPT ![Sender(t)] = Present(@) + Reserves(task[t].tx)]
    /\ Goto(t, "insert")
    /\ UNCHANGED <<chain, pool, tx_count, nonce_index, arrival_time, fifo_seq, fifo_key, lanes,
                   address_tx_count, queued, guard>>

Insert(t) ==
    /\ At(t, "insert")
    /\ arrival_time' = [arrival_time EXCEPT ![task[t].tx] = fifo_seq]
    /\ pool' = pool \cup {task[t].tx}
    /\ tx_count' = tx_count + 1
    /\ Goto(t, "count")
    /\ UNCHANGED <<chain, nonce_index, fifo_seq, fifo_key, lanes, pending_costs,
                   address_tx_count, queued, guard>>

\* The counter is incremented through the guard, which ends here; then the
\* queued successors are promoted.
Count(t) ==
    /\ At(t, "count")
    /\ address_tx_count' = [address_tx_count EXCEPT ![Sender(t)] = @ + 1]
    /\ guard' = [guard EXCEPT ![Sender(t)] = None]
    /\ task' = [task EXCEPT ![t].pc = "promote", ![t].who = Sender(t)]
    /\ UNCHANGED <<chain, pool, tx_count, nonce_index, arrival_time, fifo_seq, fifo_key, lanes,
                   pending_costs, queued>>

\* promote_queued, one turn of its loop: drop what is below the expected
\* nonce, take the transaction at it through add_transaction.
Promote(t) ==
    LET s == task[t].who
        expected == PendingNonce(s)
        live == {x \in queued : x.sender = s => x.nonce >= expected}
        next == {x \in live : x.sender = s /\ x.nonce = expected}
    IN  /\ At(t, "promote")
        /\ queued' = live \ next
        /\ task' = [task EXCEPT ![t] =
                       IF next = {} THEN Finished(t)
                       ELSE [@ EXCEPT !.pc = "check", !.tx = CHOOSE x \in next : TRUE]]
        /\ UNCHANGED <<chain, pool, tx_count, nonce_index, arrival_time, fifo_seq, fifo_key,
                       lanes, pending_costs, address_tx_count, guard>>

-----------------------------------------------------------------------------
(* Removal: remove_transaction for each entry of `todo`.                   *)

\* pool.remove decides who removes; afterwards the indexes follow one by one.
Take(t) ==
    /\ At(t, "take")
    /\ \/ /\ task[t].todo = <<>>
          /\ queued' = queued \ task[t].stale
          /\ task' = [task EXCEPT ![t] = IF @.who # None THEN [@ EXCEPT !.pc = "purge"]
                                         ELSE Finished(t)]
          /\ UNCHANGED <<pool, tx_count>>
       \/ /\ task[t].todo # <<>> /\ Head(task[t].todo) \notin pool
          /\ task' = [task EXCEPT ![t].todo = Tail(@)]
          /\ UNCHANGED <<pool, tx_count, queued>>
       \/ /\ task[t].todo # <<>> /\ Head(task[t].todo) \in pool
          /\ pool' = pool \ {Head(task[t].todo)}
          /\ tx_count' = tx_count - 1
          /\ task' = [task EXCEPT ![t].pc = "unindex", ![t].tx = Head(task[t].todo),
                                  ![t].todo = Tail(@)]
          /\ UNCHANGED queued
    /\ UNCHANGED <<chain, nonce_index, arrival_time, fifo_seq, fifo_key, lanes, pending_costs,
                   address_tx_count, guard>>

\* Mutant: the nonce stays indexed after its transaction is gone.
UnindexForgotten(t) ==
    /\ At(t, "unindex") /\ Goto(t, "forget")
    /\ UNCHANGED <<chain, pool, tx_count, nonce_index, arrival_time, fifo_seq, fifo_key, lanes,
                   pending_costs, address_tx_count, queued, guard>>

Unindex(t) ==
    /\ At(t, "unindex")
    /\ nonce_index' = {y \in nonce_index : ~ Same(task[t].tx, y)}
    /\ Goto(t, "forget")
    /\ UNCHANGED <<chain, pool, tx_count, arrival_time, fifo_seq, fifo_key, lanes,
                   pending_costs, address_tx_count, queued, guard>>

Forget(t) ==
    /\ At(t, "forget")
    /\ arrival_time' = [arrival_time EXCEPT ![task[t].tx] = NoEntry]
    /\ Goto(t, "release")
    /\ UNCHANGED <<chain, pool, tx_count, nonce_index, fifo_seq, fifo_key, lanes,
                   pending_costs, address_tx_count, queued, guard>>

\* Mutant: the reservation of a removed transaction is kept.
ReleaseNothing(t) ==
    /\ At(t, "release") /\ Goto(t, "dequeue")
    /\ UNCHANGED <<chain, pool, tx_count, nonce_index, arrival_time, fifo_seq, fifo_key, lanes,
                   pending_costs, address_tx_count, queued, guard>>

\* The reservation is lowered under its guard; an entry that reached zero is
\* removed only after that guard is dropped.
Release(t) ==
    LET s == Sender(t)
        left == Max({0, pending_costs[s] - task[t].tx.cost})
    IN  /\ At(t, "release")
        /\ \/ /\ pending_costs[s] = NoEntry
              /\ Goto(t, "dequeue") /\ UNCHANGED pending_costs
           \/ /\ pending_costs[s] # NoEntry
              /\ pending_costs' = [pending_costs EXCEPT ![s] = left]
              /\ Goto(t, IF left = 0 THEN "drop_pending" ELSE "dequeue")
        /\ UNCHANGED <<chain, pool, tx_count, nonce_index, arrival_time, fifo_seq, fifo_key,
                       lanes, address_tx_count, queued, guard>>

DropPending(t) ==
    /\ At(t, "drop_pending")
    /\ pending_costs' = [pending_costs EXCEPT ![Sender(t)] = NoEntry]
    /\ Goto(t, "dequeue")
    /\ UNCHANGED <<chain, pool, tx_count, nonce_index, arrival_time, fifo_seq, fifo_key, lanes,
                   address_tx_count, queued, guard>>

Dequeue(t) ==
    LET x == task[t].tx
    IN  /\ At(t, "dequeue")
        /\ fifo_key' = [fifo_key EXCEPT ![x] = NoEntry]
        /\ lanes' = {b \in lanes : b.key # fifo_key[x]}
        /\ Goto(t, "uncount")
        /\ UNCHANGED <<chain, pool, tx_count, nonce_index, arrival_time, fifo_seq,
                       pending_costs, address_tx_count, queued, guard>>

Uncount(t) ==
    LET s == Sender(t)
        left == Max({0, address_tx_count[s] - 1})
    IN  /\ At(t, "uncount") /\ guard[s] = None
        /\ \/ /\ address_tx_count[s] = NoEntry
              /\ Goto(t, "take") /\ UNCHANGED address_tx_count
           \/ /\ address_tx_count[s] # NoEntry
              /\ address_tx_count' = [address_tx_count EXCEPT ![s] = left]
              /\ Goto(t, IF left = 0 THEN "drop_count" ELSE "take")
        /\ UNCHANGED <<chain, pool, tx_count, nonce_index, arrival_time, fifo_seq, fifo_key,
                       lanes, pending_costs, queued, guard>>

DropCount(t) ==
    /\ At(t, "drop_count") /\ guard[Sender(t)] = None
    /\ address_tx_count' = [address_tx_count EXCEPT ![Sender(t)] = NoEntry]
    /\ Goto(t, "take")
    /\ UNCHANGED <<chain, pool, tx_count, nonce_index, arrival_time, fifo_seq, fifo_key, lanes,
                   pending_costs, queued, guard>>

-----------------------------------------------------------------------------
(* Block selection, commit and expiry.                                     *)

\* One lane in key order; buckets of transactions no longer pooled are empty.
Lane(heavy) ==
    LET live == {b \in lanes : b.tx \in pool /\ b.tx.heavy = heavy}
        sorted == SetToSortSeq(live, LAMBDA a, b : a.key < b.key)
    IN  [i \in DOMAIN sorted |-> sorted[i].tx]

\* select_fifo: the heavy lane first, then the others.
Selected == Lane(TRUE) \o Lane(FALSE)

\* What is left of it under the block's count, gas and byte limits and with the
\* transactions stamped in the future skipped: a subsequence.
Selections == {SelectSeq(Selected, LAMBDA x : x \in kept) : kept \in SUBSET pool}

\* Executing a block: a transaction whose nonce is not next is dropped.
Executes(st, x) == x.nonce = st.nonce[x.sender] /\ x.cost <= st.balance[x.sender]
Execute(st, x) ==
    IF Executes(st, x)
    THEN [nonce |-> [st.nonce EXCEPT ![x.sender] = @ + 1],
          balance |-> [st.balance EXCEPT ![x.sender] = @ - x.cost]]
    ELSE st
ChainState == [nonce |-> nonce, balance |-> balance]

\* Blocks of other proposers hold transactions this pool may never have seen.
ForeignBlocks ==
    {b \in SeqOf(Txs, 2) : b # <<>> /\ \A i \in DOMAIN b :
        Executes(FoldLeft(Execute, ChainState, SubSeq(b, 1, i - 1)), b[i])}

\* commit_block, then persist_and_commit's removals and its sweep.
Commit(block) ==
    LET st == FoldLeft(Execute, ChainState, block)
    IN  /\ At(Driver, "idle") /\ commits < MaxCommits /\ block # <<>>
        /\ nonce' = st.nonce /\ balance' = st.balance /\ commits' = commits + 1
        /\ task' = [task EXCEPT ![Driver] =
                       [Idle EXCEPT !.pc = "take", !.todo = block,
                                    !.sweep = {x.sender : x \in ToSet(block)}]]
        /\ UNCHANGED <<pool, tx_count, nonce_index, arrival_time, fifo_seq, fifo_key, lanes,
                       pending_costs, address_tx_count, queued, guard>>

\* purge_below_nonce for the next sender of the block, from the chain's nonce
\* downwards to the first nonce nobody holds; then its queue is promoted.
Sweep(s) ==
    /\ At(Driver, "sweep") /\ s \in task[Driver].sweep
    /\ task' = [task EXCEPT ![Driver] = [@ EXCEPT !.pc = "purge", !.who = s,
                                                  !.below = nonce[s], !.sweep = @ \ {s}]]
    /\ UNCHANGED <<chain, pool, tx_count, nonce_index, arrival_time, fifo_seq, fifo_key, lanes,
                   pending_costs, address_tx_count, queued, guard>>

Purge ==
    LET d == task[Driver]
        held == {x \in nonce_index : x.sender = d.who /\ x.nonce = d.below - 1}
    IN  /\ At(Driver, "purge")
        /\ task' = [task EXCEPT ![Driver] =
                       IF held = {} THEN [d EXCEPT !.pc = "promote"]
                       ELSE [d EXCEPT !.pc = "take", !.below = @ - 1, !.todo = SetToSeq(held)]]
        /\ UNCHANGED <<chain, pool, tx_count, nonce_index, arrival_time, fifo_seq, fifo_key,
                       lanes, pending_costs, address_tx_count, queued, guard>>

\* get_transactions_for_block_bounded removes what is too old to execute, by
\* the time its sender stamped on it.
DropAged(x) ==
    /\ At(Driver, "idle") /\ x \in ToSet(Selected)
    /\ task' = [task EXCEPT ![Driver] = [Idle EXCEPT !.pc = "take", !.todo = <<x>>]]
    /\ UNCHANGED <<chain, pool, tx_count, nonce_index, arrival_time, fifo_seq, fifo_key, lanes,
                   pending_costs, address_tx_count, queued, guard>>

\* evict_expired: everything that arrived up to some moment and, when that is
\* removed, what is as old in the queue (whose arrival times are left out).
EvictExpired(until, stale) ==
    LET expired == {x \in Txs : arrival_time[x] # NoEntry /\ arrival_time[x] <= until}
    IN  /\ At(Sweeper, "idle") /\ expired \cup stale # {}
        /\ task' = [task EXCEPT ![Sweeper] =
                       [Idle EXCEPT !.pc = "take", !.todo = SetToSeq(expired), !.stale = stale]]
        /\ UNCHANGED <<chain, pool, tx_count, nonce_index, arrival_time, fifo_seq, fifo_key,
                       lanes, pending_costs, address_tx_count, queued, guard>>

-----------------------------------------------------------------------------
Step(t) ==
    \/ Enqueue(t) \/ Check(t) \/ Reserve(t) \/ Pend(t) \/ Insert(t) \/ Count(t) \/ Promote(t)
    \/ Take(t) \/ Unindex(t) \/ Forget(t) \/ Release(t) \/ DropPending(t) \/ Dequeue(t)
    \/ Uncount(t) \/ DropCount(t)

Next ==
    \/ \E t \in Admitters, x \in Txs : Admit(t, x)
    \/ \E t \in Threads : Step(t)
    \/ \E b \in Selections : Commit(b)
    \/ \E b \in ForeignBlocks : Commit(b)
    \/ \E s \in Senders : Sweep(s)
    \/ Purge
    \/ \E x \in pool : DropAged(x)
    \/ \E until \in 0 .. fifo_seq : \E stale \in SUBSET queued : EvictExpired(until, stale)

Spec == Init /\ [][Next]_vars

-----------------------------------------------------------------------------

Quiescent == \A t \in Threads : At(t, "idle")

\* Whatever admissions, removals and promotions overlap, the pool never holds
\* two transactions of one sender and nonce (K3: the duplicate-nonce index).
NonceUnique == \A x, y \in pool : Same(x, y) => x = y

\* When nothing is in flight the nonce index holds exactly the pool and
\* tx_count counts it: pending_nonce skips no free nonce and offers no taken
\* one, and is_full sees the real size.
IndexExact == Quiescent => nonce_index = pool /\ tx_count = Cardinality(pool)

\* Nothing stays charged to a sender for transactions that are gone: whatever
\* overlaps, its reserved cost and its count are at most those of what it has
\* pooled, so no sender is locked out by pending_costs or max_tx_per_address.
NothingLeaked ==
    Quiescent => \A s \in Senders :
        LET mine == {x \in pool : x.sender = s}
        IN  /\ Present(pending_costs[s]) <= MapThenSumSet(Reserves, mine)
            /\ Present(address_tx_count[s]) <= Cardinality(mine)

=============================================================================
