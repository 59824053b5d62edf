------------------------ MODULE PoolGovernance_proofs ------------------------
(***************************************************************************)
(* The mempool and governance, whose proofs are both about sums over what  *)
(* is held: first the mempool, then governance.                            *)
(***************************************************************************)
EXTENDS Mempool, Governance, Sums

-----------------------------------------------------------------------------
(***************************************************************************)
(* The mempool's safety for any number of admission tasks, senders and     *)
(* transactions.  Two inductive invariants, each a conjunction of named    *)
(* parts.                                                                  *)
(*                                                                         *)
(* Inv is about the nonce index.  A transaction is indexed before it is    *)
(* pooled and unpooled before it is unindexed, each in a step of its own:  *)
(* in between, exactly one thread holds it, and the index is exactly the   *)
(* pool and what threads hold.  NonceUnique and IndexExact follow.         *)
(*                                                                         *)
(* LeakInv is about the two counters of a sender.  A thread between two    *)
(* steps of an admission or of a removal has charged for a transaction     *)
(* that is not pooled yet, or still has to give back for one that no       *)
(* longer is. What is charged to a sender is at most the cost of what it   *)
(* has pooled and what threads still owe (Charge); what is counted, at     *)
(* most the number pooled, less the one admitted and not counted yet, plus *)
(* those removed and not discounted yet (Tally).  With no thread in        *)
(* between, NothingLeaked is what remains.                                 *)
(***************************************************************************)

\* Control points at which a thread's transaction is indexed and not pooled.
Between == {"pend", "insert", "unindex"}
\* Control points at which a thread has a transaction.
Carrying ==
    {"enqueue", "check", "reserve", "count", "forget", "release", "drop_pending", "dequeue",
     "uncount", "drop_count"} \cup Between

\* The fields of a thread's record, and a record that has just those.
Fields == {"pc", "tx", "funds", "todo", "who", "below", "sweep", "stale"}
Shape(r) == DOMAIN r = Fields /\ r = [f \in Fields |-> r[f]]

\* What the proofs use of the types.
TypeInv ==
    /\ pool \subseteq Txs /\ nonce_index \subseteq Txs /\ queued \subseteq Txs
    /\ task = [t \in Threads |-> task[t]]
    /\ \A t \in Threads : Shape(task[t]) /\ (task[t].pc \in Carrying => task[t].tx \in Txs)

\* The index holds at most one transaction of a sender and nonce.
IndexUnique == \A x, y \in nonce_index : Same(x, y) => x = y
\* What is pooled is indexed.
PoolIndexed == pool \subseteq nonce_index
\* What a thread holds in between is indexed and not pooled, and no other thread
\* holds it.
InFlight ==
    /\ \A t \in Threads : task[t].pc \in Between => task[t].tx \in nonce_index \ pool
    /\ \A t, u \in Threads :
          task[t].pc \in Between /\ task[u].pc \in Between /\ task[t].tx = task[u].tx => t = u
\* What is indexed is pooled or held.
IndexHeld ==
    \A x \in nonce_index : x \in pool \/ \E t \in Threads : task[t].pc \in Between /\ task[t].tx = x
\* tx_count moves with the pool.
CountedPool == IsFiniteSet(pool) /\ tx_count = Cardinality(pool)

\* The index's part of the invariant.
IndexInv == IndexUnique /\ PoolIndexed /\ InFlight /\ IndexHeld /\ CountedPool
\* The first inductive invariant.
Inv == TypeInv /\ IndexInv

\* It holds of an empty mempool (with_limits).
LEMMA InitInv == Init => Inv
<1> SUFFICES ASSUME Init PROVE Inv
  OBVIOUS
<1> USE DEF Init, Idle
<1>1. TypeInv
  BY DEF TypeInv, Shape, Fields, Carrying, Between
<1>2. IndexInv
  BY FS_EmptySet DEF IndexInv, IndexUnique, PoolIndexed, InFlight, IndexHeld, CountedPool, Between
<1>3. QED
  BY <1>1, <1>2 DEF Inv

\* What is not at a control point of interest leaves the index as it was.
Quiet(t) ==
    /\ UNCHANGED <<pool, nonce_index, tx_count>>
    /\ t \in Threads /\ task[t].pc \notin Between
    /\ task' = [task EXCEPT ![t] = task'[t]]
    /\ task'[t].pc \notin Between

\* A step that touches neither the pool nor the index, of a thread outside that
\* stretch, keeps the index's invariant.
LEMMA QuietKeeps == ASSUME Inv, NEW t, Quiet(t) PROVE IndexInv'
<1> USE DEF Quiet, Inv, TypeInv
<1>1. \A u \in Threads : u # t => task'[u] = task[u]
  OBVIOUS
<1>2. \A u \in Threads : task'[u].pc \in Between => u # t /\ task[u].pc \in Between
  BY <1>1
<1>3. \A u \in Threads : task[u].pc \in Between => u # t /\ task'[u] = task[u]
  BY <1>1
<1>4. IndexUnique' /\ PoolIndexed' /\ CountedPool'
  BY DEF IndexInv, IndexUnique, PoolIndexed, CountedPool
<1>5. InFlight'
  BY <1>1, <1>2 DEF IndexInv, InFlight
<1>6. IndexHeld'
  BY <1>3 DEF IndexInv, IndexHeld
<1>7. QED
  BY <1>4, <1>5, <1>6 DEF IndexInv

\* A thread's steps outside it.
QuietStep(t) ==
    \/ Enqueue(t) \/ Check(t) \/ Count(t) \/ Promote(t) \/ Forget(t) \/ Release(t)
    \/ DropPending(t) \/ Dequeue(t) \/ Uncount(t) \/ DropCount(t)

\* What a finished thread goes back to.
LEMMA FinishedShape ==
    ASSUME TypeInv, NEW t \in Threads
    PROVE  Shape(Finished(t)) /\ Finished(t).pc \in {"idle", "sweep"}
BY DEF TypeInv, Shape, Fields, Finished, Idle

\* A thread's step to a well-shaped record keeps the types.
LEMMA TypeStep ==
    ASSUME TypeInv, NEW t \in Threads, NEW r, task' = [task EXCEPT ![t] = r],
           Shape(r), r.pc \in Carrying => r.tx \in Txs,
           pool' \subseteq Txs, nonce_index' \subseteq Txs, queued' \subseteq Txs
    PROVE  TypeInv' /\ task'[t] = r
BY DEF TypeInv, Shape, Fields

\* A well-shaped step that leaves pool and index alone is quiet.
LEMMA QuietTask ==
    ASSUME TypeInv, NEW t \in Threads, NEW r, task' = [task EXCEPT ![t] = r],
           UNCHANGED <<pool, nonce_index, tx_count>>, queued' \subseteq Txs,
           Shape(r), r.pc \notin Between, r.pc \in Carrying => r.tx \in Txs,
           task[t].pc \notin Between
    PROVE  TypeInv' /\ Quiet(t)
BY TypeStep DEF TypeInv, Quiet

\* Those steps are quiet.
LEMMA QuietStepQuiet ==
    ASSUME TypeInv, NEW t \in Threads, QuietStep(t)
    PROVE  TypeInv' /\ Quiet(t)
<1> USE DEF TypeInv, Shape, Fields, Carrying, Between, At, Goto
<1>1. CASE Enqueue(t)
  BY <1>1, QuietTask DEF Enqueue, Idle
<1>2. CASE Check(t)
  BY <1>2, QuietTask, FinishedShape DEF Check
<1>3. CASE Count(t)
  <2> DEFINE r == [task[t] EXCEPT !.pc = "promote", !.who = Sender(t)]
  <2>1. task' = [task EXCEPT ![t] = r]
    BY <1>3 DEF Count
  <2>2. Shape(r) /\ r.pc = "promote"
    OBVIOUS
  <2> HIDE DEF r
  <2>3. QED
    BY <1>3, <2>1, <2>2, QuietTask DEF Count
<1>4. CASE Promote(t)
  BY <1>4, QuietTask, FinishedShape DEF Promote
<1>5. CASE Forget(t)
  BY <1>5, QuietTask DEF Forget
<1>6. CASE Release(t)
  BY <1>6, QuietTask DEF Release
<1>7. CASE DropPending(t)
  BY <1>7, QuietTask DEF DropPending
<1>8. CASE Dequeue(t)
  BY <1>8, QuietTask DEF Dequeue
<1>9. CASE Uncount(t)
  BY <1>9, QuietTask DEF Uncount
<1>10. CASE DropCount(t)
  BY <1>10, QuietTask DEF DropCount
<1>11. QED
  BY <1>1, <1>2, <1>3, <1>4, <1>5, <1>6, <1>7, <1>8, <1>9, <1>10 DEF QuietStep

\* What starts an admission, a commit, a sweep, a removal or an expiry.
BlockStep ==
    \/ \E t \in Admitters, x \in Txs : Admit(t, x)
    \/ \E b \in Selections : Commit(b)
    \/ \E b \in ForeignBlocks : Commit(b)
    \/ \E s \in Senders : Sweep(s)
    \/ Purge
    \/ \E x \in pool : DropAged(x)
    \/ \E until \in 0 .. fifo_seq : \E stale \in SUBSET queued : EvictExpired(until, stale)

\* Those are quiet as well: they only give a thread its next task.
LEMMA BlockStepQuiet ==
    ASSUME TypeInv, BlockStep
    PROVE  TypeInv' /\ \E t \in Threads : Quiet(t)
<1> USE DEF TypeInv, Shape, Fields, Carrying, Between, At, Idle
<1>1. \A t \in Admitters : t \in Threads
  BY DEF Threads
<1>2. Driver \in Threads /\ Sweeper \in Threads
  BY DEF Threads
<1>3. ASSUME NEW t \in Admitters, NEW x \in Txs, Admit(t, x) PROVE TypeInv' /\ Quiet(t)
  <2>1. t \in Threads /\ task[t].pc = "idle" /\ queued' \subseteq Txs
        /\ UNCHANGED <<pool, nonce_index, tx_count>>
    BY <1>1, <1>3 DEF Admit
  <2>2. CASE task' = [task EXCEPT ![t] = [Idle EXCEPT !.pc = "enqueue", !.tx = x]]
    BY <2>1, <2>2, QuietTask
  <2>3. CASE task' = [task EXCEPT ![t] = [Idle EXCEPT !.pc = "check", !.tx = x]]
    BY <2>1, <2>3, QuietTask
  <2>4. QED
    BY <1>3, <2>2, <2>3 DEF Admit
<1>4. ASSUME NEW b, Commit(b) PROVE TypeInv' /\ Quiet(Driver)
  BY <1>2, <1>4, QuietTask DEF Commit
<1>5. ASSUME NEW s \in Senders, Sweep(s) PROVE TypeInv' /\ Quiet(Driver)
  BY <1>2, <1>5, QuietTask DEF Sweep
<1>6. ASSUME Purge PROVE TypeInv' /\ Quiet(Driver)
  <2> DEFINE d == task[Driver]
             held == {x \in nonce_index : x.sender = d.who /\ x.nonce = d.below - 1}
             more == [d EXCEPT !.pc = "take", !.below = d.below - 1, !.todo = SetToSeq(held)]
  <2>1. /\ d.pc = "purge" /\ UNCHANGED <<pool, nonce_index, tx_count>> /\ queued' \subseteq Txs
        /\ \/ task' = [task EXCEPT ![Driver] = [d EXCEPT !.pc = "promote"]]
           \/ task' = [task EXCEPT ![Driver] = more]
    BY <1>2, <1>6 DEF Purge
  <2>2. Shape(d) /\ Driver \in Threads
    BY <1>2
  <2>3. CASE task' = [task EXCEPT ![Driver] = [d EXCEPT !.pc = "promote"]]
    <3>1. Shape([d EXCEPT !.pc = "promote"]) /\ [d EXCEPT !.pc = "promote"].pc = "promote"
      BY <2>2
    <3>2. QED
      BY <2>1, <2>2, <2>3, <3>1, QuietTask
  <2>4. CASE task' = [task EXCEPT ![Driver] = more]
    <3>1. Shape(more) /\ more.pc = "take"
      BY <2>2
    <3>2. QED
      BY <2>1, <2>2, <2>4, <3>1, QuietTask
  <2>5. QED
    BY <2>1, <2>3, <2>4
<1>7. ASSUME NEW x, DropAged(x) PROVE TypeInv' /\ Quiet(Driver)
  BY <1>2, <1>7, QuietTask DEF DropAged
<1>8. ASSUME NEW until, NEW stale, EvictExpired(until, stale) PROVE TypeInv' /\ Quiet(Sweeper)
  BY <1>2, <1>8, QuietTask DEF EvictExpired
<1>9. QED
  BY <1>1, <1>2, <1>3, <1>4, <1>5, <1>6, <1>7, <1>8 DEF BlockStep

-----------------------------------------------------------------------------

\* add_transaction takes the nonce only when the index has none of it.
LEMMA ReserveKeeps == ASSUME Inv, NEW t \in Threads, Reserve(t) PROVE Inv'
<1> USE DEF Inv, At, Goto
<1> DEFINE x == task[t].tx
<1>1. x \in Txs
  BY DEF TypeInv, Reserve, Carrying
<1>2. CASE ~ Acceptable(t, x)
  <2>1. TypeInv' /\ Quiet(t)
    BY <1>2, QuietTask, FinishedShape DEF Reserve, TypeInv, Carrying, Between
  <2>2. QED
    BY <2>1, QuietKeeps
<1>3. CASE Acceptable(t, x)
  <2> DEFINE r == [task[t] EXCEPT !.pc = "pend"]
  <2>1. /\ task' = [task EXCEPT ![t] = r] /\ Shape(r) /\ r.pc = "pend" /\ r.tx = x
        /\ nonce_index' = nonce_index \cup {x} /\ UNCHANGED <<pool, queued, tx_count>>
    BY <1>3 DEF Reserve, TypeInv, Shape, Fields
  <2> HIDE DEF r
  <2>2. TypeInv' /\ task'[t] = r
    BY <1>1, <2>1, TypeStep DEF TypeInv
  <2>3. \A u \in Threads : u # t => task'[u] = task[u]
    BY <2>1 DEF TypeInv
  <2>4. x \notin pool /\ x \notin nonce_index /\ \A y \in nonce_index : ~ Same(x, y) /\ ~ Same(y, x)
    BY <1>3 DEF Acceptable, Same
  <2>5. IndexUnique'
    BY <2>1, <2>4 DEF IndexInv, IndexUnique
  <2>6. PoolIndexed' /\ CountedPool'
    BY <2>1 DEF IndexInv, PoolIndexed, CountedPool
  <2>7. task[t].pc \notin Between
    BY DEF Reserve, Between
  <2>8. InFlight'
    BY <2>1, <2>2, <2>3, <2>4 DEF IndexInv, InFlight
  <2>9. IndexHeld'
    BY <2>1, <2>2, <2>3, <2>7 DEF IndexInv, IndexHeld, Between
  <2>10. QED
    BY <2>2, <2>5, <2>6, <2>8, <2>9 DEF IndexInv
<1>4. QED
  BY <1>2, <1>3

\* Charging the reserved cost moves the thread on with its nonce held.
LEMMA PendKeeps == ASSUME Inv, NEW t \in Threads, Pend(t) PROVE Inv'
<1> DEFINE r == [task[t] EXCEPT !.pc = "insert"]
<1>1. /\ task' = [task EXCEPT ![t] = r] /\ Shape(r) /\ r.pc = "insert" /\ r.tx = task[t].tx
      /\ UNCHANGED <<pool, nonce_index, queued, tx_count>> /\ task[t].pc = "pend"
  BY DEF Pend, At, Goto, Inv, TypeInv, Shape, Fields
<1> HIDE DEF r
<1>2. TypeInv' /\ task'[t] = r
  BY <1>1, TypeStep DEF Inv, TypeInv, Carrying, Between
<1>3. \A u \in Threads : u # t => task'[u] = task[u]
  BY <1>1 DEF Inv, TypeInv
<1>4. IndexUnique' /\ PoolIndexed' /\ CountedPool'
  BY <1>1 DEF Inv, IndexInv, IndexUnique, PoolIndexed, CountedPool
<1>5. \A u \in Threads : /\ task'[u].pc \in Between <=> task[u].pc \in Between
                         /\ task'[u].tx = task[u].tx
  BY <1>1, <1>2, <1>3 DEF Between
<1>6. InFlight' /\ IndexHeld'
  BY <1>1, <1>5 DEF Inv, IndexInv, InFlight, IndexHeld
<1>7. QED
  BY <1>2, <1>4, <1>6 DEF Inv, IndexInv

\* The insert hands the transaction from the thread to the pool.
LEMMA InsertKeeps == ASSUME Inv, NEW t \in Threads, Insert(t) PROVE Inv'
<1> DEFINE r == [task[t] EXCEPT !.pc = "count"]
           x == task[t].tx
<1>1. /\ task' = [task EXCEPT ![t] = r] /\ Shape(r) /\ r.pc = "count" /\ r.tx = x
      /\ pool' = pool \cup {x} /\ tx_count' = tx_count + 1
      /\ UNCHANGED <<nonce_index, queued>> /\ task[t].pc = "insert"
  BY DEF Insert, At, Goto, Inv, TypeInv, Shape, Fields
<1> HIDE DEF r
<1>2. x \in nonce_index \ pool /\ x \in Txs
  BY <1>1 DEF Inv, IndexInv, InFlight, TypeInv, Between, Carrying
<1>3. TypeInv' /\ task'[t] = r
  BY <1>1, <1>2, TypeStep DEF Inv, TypeInv, Carrying, Between
<1>4. \A u \in Threads : u # t => task'[u] = task[u]
  BY <1>1 DEF Inv, TypeInv
<1>5. IndexUnique' /\ PoolIndexed'
  BY <1>1, <1>2 DEF Inv, IndexInv, IndexUnique, PoolIndexed
<1>6. CountedPool'
  BY <1>1, <1>2, FS_AddElement DEF Inv, IndexInv, CountedPool
<1>7. \A u \in Threads : task'[u].pc \in Between =>
         u # t /\ task[u].pc \in Between /\ task'[u] = task[u] /\ task[u].tx # x
  BY <1>1, <1>3, <1>4 DEF Between, Inv, IndexInv, InFlight
<1>8. InFlight'
  BY <1>1, <1>7 DEF Inv, IndexInv, InFlight
<1>9. \A u \in Threads : task[u].pc \in Between =>
         \/ task[u].tx = x
         \/ task'[u] = task[u]
  BY <1>4
<1>10. IndexHeld'
  BY <1>1, <1>9 DEF Inv, IndexInv, IndexHeld
<1>11. QED
  BY <1>3, <1>5, <1>6, <1>8, <1>10 DEF Inv, IndexInv

\* remove_transaction takes it out of the pool, and the thread holds it.
LEMMA TakeKeeps == ASSUME Inv, NEW t \in Threads, Take(t) PROVE Inv'
<1> USE DEF Inv
<1> DEFINE x == Head(task[t].todo)
<1>1. CASE pool' = pool \ {x} /\ x \in pool /\ tx_count' = tx_count - 1
  <2> DEFINE r == [task[t] EXCEPT !.pc = "unindex", !.tx = x, !.todo = Tail(task[t].todo)]
  <2>1. /\ task' = [task EXCEPT ![t] = r] /\ Shape(r) /\ r.pc = "unindex" /\ r.tx = x
        /\ UNCHANGED <<nonce_index, queued>> /\ task[t].pc = "take"
    BY <1>1 DEF Take, At, TypeInv, Shape, Fields, CountedPool, IndexInv
  <2> HIDE DEF r
  <2>2. x \in nonce_index /\ x \in Txs
    BY <1>1 DEF IndexInv, PoolIndexed, TypeInv
  <2>3. TypeInv' /\ task'[t] = r
    BY <1>1, <2>1, <2>2, TypeStep DEF TypeInv
  <2>4. \A u \in Threads : u # t => task'[u] = task[u]
    BY <2>1 DEF TypeInv
  <2>5. IndexUnique' /\ PoolIndexed'
    BY <1>1, <2>1 DEF IndexInv, IndexUnique, PoolIndexed
  <2>6. CountedPool'
    BY <1>1, FS_RemoveElement DEF IndexInv, CountedPool
  <2>7. \A u \in Threads : task[u].pc \in Between => u # t /\ task[u].tx # x /\ task'[u] = task[u]
    BY <1>1, <2>1, <2>4 DEF IndexInv, InFlight, Between
  <2>8. InFlight'
    BY <1>1, <2>1, <2>2, <2>3, <2>4, <2>7 DEF IndexInv, InFlight
  <2>9. IndexHeld'
    BY <1>1, <2>1, <2>3, <2>7 DEF IndexInv, IndexHeld, Between
  <2>10. QED
    BY <2>3, <2>5, <2>6, <2>8, <2>9 DEF IndexInv
<1>2. CASE UNCHANGED <<pool, tx_count>>
  <2>1. TypeInv' /\ Quiet(t)
    <3> USE DEF TypeInv, Shape, Fields, Carrying, Between, At
    <3>1. CASE task[t].todo = <<>> /\ task[t].who # None
      BY <1>2, <3>1, QuietTask DEF Take
    <3>2. CASE task[t].todo = <<>> /\ task[t].who = None
      BY <1>2, <3>2, QuietTask, FinishedShape DEF Take
    <3>3. CASE task[t].todo # <<>>
      BY <1>2, <3>3, QuietTask DEF Take
    <3>4. QED
      BY <3>1, <3>2, <3>3
  <2>2. QED
    BY <2>1, QuietKeeps
<1>3. QED
  BY <1>1, <1>2 DEF Take

\* Only then is its nonce released.
LEMMA UnindexKeeps == ASSUME Inv, NEW t \in Threads, Unindex(t) PROVE Inv'
<1> DEFINE r == [task[t] EXCEPT !.pc = "forget"]
           x == task[t].tx
<1>1. /\ task' = [task EXCEPT ![t] = r] /\ Shape(r) /\ r.pc = "forget" /\ r.tx = x
      /\ nonce_index' = {y \in nonce_index : ~ Same(x, y)}
      /\ UNCHANGED <<pool, queued, tx_count>> /\ task[t].pc = "unindex"
  BY DEF Unindex, At, Goto, Inv, TypeInv, Shape, Fields
<1> HIDE DEF r
<1>2. x \in nonce_index \ pool
  BY <1>1 DEF Inv, IndexInv, InFlight, Between
<1>3. TypeInv' /\ task'[t] = r
  BY <1>1, <1>2, TypeStep DEF Inv, TypeInv, Carrying, Between
<1>4. \A u \in Threads : u # t => task'[u] = task[u]
  BY <1>1 DEF Inv, TypeInv
<1>5. nonce_index' = nonce_index \ {x}
  BY <1>1, <1>2 DEF Inv, IndexInv, IndexUnique, Same
<1>6. IndexUnique' /\ PoolIndexed' /\ CountedPool'
  BY <1>1, <1>2, <1>5 DEF Inv, IndexInv, IndexUnique, PoolIndexed, CountedPool
<1>7. \A u \in Threads : task'[u].pc \in Between =>
         u # t /\ task[u].pc \in Between /\ task'[u] = task[u] /\ task[u].tx # x
  BY <1>1, <1>3, <1>4 DEF Between, Inv, IndexInv, InFlight
<1>8. InFlight'
  BY <1>1, <1>5, <1>7 DEF Inv, IndexInv, InFlight
<1>9. \A u \in Threads : task[u].pc \in Between => task[u].tx = x \/ task'[u] = task[u]
  BY <1>4
<1>10. IndexHeld'
  BY <1>1, <1>5, <1>9 DEF Inv, IndexInv, IndexHeld
<1>11. QED
  BY <1>3, <1>6, <1>8, <1>10 DEF Inv, IndexInv

\* Every step keeps the first invariant.
LEMMA NextInv == ASSUME Inv, [Next]_vars PROVE Inv'
<1>1. CASE BlockStep
  BY <1>1, BlockStepQuiet, QuietKeeps DEF Inv
<1>2. ASSUME NEW t \in Threads, QuietStep(t) PROVE Inv'
  BY <1>2, QuietStepQuiet, QuietKeeps DEF Inv
<1>3. CASE UNCHANGED vars
  BY <1>3 DEF vars, Inv, TypeInv, IndexInv, IndexUnique, PoolIndexed, InFlight, IndexHeld, CountedPool
<1>4. QED
  BY <1>1, <1>2, <1>3, ReserveKeeps, PendKeeps, InsertKeeps, TakeKeeps, UnindexKeeps
     DEF Next, Step, BlockStep, QuietStep

\* The first invariant holds of every reachable mempool.
THEOREM SpecInv == Spec => []Inv
BY InitInv, NextInv, PTL DEF Spec

\* K3 of add_transaction_with_min_fee: whatever admissions, promotions and
\* removals overlap, the pool holds one transaction of a sender and nonce.
THEOREM NonceUniqueHolds == Spec => []NonceUnique
<1>1. Inv => NonceUnique
  BY DEF Inv, IndexInv, IndexUnique, PoolIndexed, NonceUnique
<1>2. QED
  BY <1>1, SpecInv, PTL

\* With nothing in flight nonce_index is exactly the pool and tx_count its size:
\* pending_nonce and is_full judge by the real pool.
THEOREM IndexExactHolds == Spec => []IndexExact
<1>1. Inv => IndexExact
  BY DEF Inv, IndexInv, PoolIndexed, IndexHeld, CountedPool, IndexExact, Quiescent, At, Between
<1>2. QED
  BY <1>1, SpecInv, PTL

-----------------------------------------------------------------------------
\* Where a thread's transaction is charged and not pooled.
Owing == {"insert", "unindex", "forget", "release"}
\* Where it was pooled and is still counted.
Leaving == {"unindex", "forget", "release", "drop_pending", "dequeue", "uncount"}
\* Where the thread holds the sender's address_tx_count entry.
Guarding == {"pend", "insert", "count"}

\* What a thread still owes of a sender's charge.
Due(r, s) == IF r.pc \in Owing /\ r.tx.sender = s THEN Reserves(r.tx) ELSE 0
\* What a thread adds to a sender's tally: one for a transaction that left, less
\* one for a transaction pooled before it is counted.
Burden(r, s) ==
    IF r.pc \in Leaving /\ r.tx.sender = s THEN 1
    ELSE IF r.pc = "count" /\ r.tx.sender = s THEN -1 ELSE 0

\* The summands: over transactions, their cost and one each; over threads, what
\* they owe and what they weigh.
CostOf(s) == [x \in Txs |-> IF x.sender = s THEN Reserves(x) ELSE 0]
OneOf(s) == [x \in Txs |-> IF x.sender = s THEN 1 ELSE 0]
DueOf(tk, s) == [t \in Threads |-> Due(tk[t], s)]
WeightOf(tk, s) == [t \in Threads |-> Burden(tk[t], s)]

\* The most that may be charged to a sender.
Charge(p, tk, s) == SumOf(CostOf(s), p) + SumOf(DueOf(tk, s), Threads)
\* The most that may be counted.
Tally(p, tk, s) == SumOf(OneOf(s), p) + SumOf(WeightOf(tk, s), Threads)

\* The counters' types.
CountersType ==
    /\ pending_costs \in [Senders -> Nat \cup {NoEntry}]
    /\ address_tx_count \in [Senders -> Nat \cup {NoEntry}]
    /\ guard \in [Senders -> Threads \cup {None}]
\* add_transaction keeps the sender's entry from the check to the count.
GuardHeld == \A t \in Threads : task[t].pc \in Guarding => guard[task[t].tx.sender] = t
\* pending_costs is covered by what is pooled or owed.
ChargesCovered == \A s \in Senders : Present(pending_costs[s]) <= Charge(pool, task, s)
\* address_tx_count is covered by what is pooled or still to be discounted.
CountsCovered == \A s \in Senders : Present(address_tx_count[s]) <= Tally(pool, task, s)
\* The second inductive invariant.
LeakInv == CountersType /\ GuardHeld /\ ChargesCovered /\ CountsCovered

\* Threads are finitely many, and None is not one of them.
LEMMA ThreadsFinite == IsFiniteSet(Threads) /\ None \notin Threads
<1>1. IsFiniteSet(Admitters \cup {Driver}) /\ IsFiniteSet((Admitters \cup {Driver}) \cup {Sweeper})
  BY MempoolAssumption, FS_AddElement
<1>2. Threads = (Admitters \cup {Driver}) \cup {Sweeper}
  BY DEF Threads
<1>3. QED
  BY <1>1, <1>2, MempoolAssumption

\* Types of a thread's share.
LEMMA WeightTypes ==
    ASSUME NEW r, NEW s, r.pc \in Carrying => r.tx \in Txs
    PROVE  Due(r, s) \in Nat /\ Burden(r, s) \in Int
BY MempoolAssumption DEF Due, Burden, Owing, Carrying, Between, Reserves

\* Types of the sums.
LEMMA TypedSums ==
    ASSUME Inv, NEW s
    PROVE  /\ \A t \in Threads : DueOf(task, s)[t] \in Nat /\ WeightOf(task, s)[t] \in Int
           /\ \A x \in Txs : CostOf(s)[x] \in Nat /\ OneOf(s)[x] \in Nat
           /\ SumOf(CostOf(s), pool) \in Nat /\ SumOf(OneOf(s), pool) \in Nat
           /\ SumOf(DueOf(task, s), Threads) \in Nat /\ SumOf(WeightOf(task, s), Threads) \in Int
<1>1. \A t \in Threads : DueOf(task, s)[t] \in Nat /\ WeightOf(task, s)[t] \in Int
  BY WeightTypes DEF DueOf, WeightOf, Inv, TypeInv
<1>2. \A x \in Txs : CostOf(s)[x] \in Nat /\ OneOf(s)[x] \in Nat
  BY MempoolAssumption DEF CostOf, OneOf, Reserves
<1>3. IsFiniteSet(pool) /\ pool \subseteq Txs
  BY DEF Inv, TypeInv, IndexInv, CountedPool
<1>4. SumOf(CostOf(s), pool) \in Nat /\ SumOf(OneOf(s), pool) \in Nat
  BY <1>2, <1>3, SumNat
<1>5. SumOf(DueOf(task, s), Threads) \in Nat /\ SumOf(WeightOf(task, s), Threads) \in Int
  BY <1>1, ThreadsFinite, SumNat, SumType
<1>6. QED
  BY <1>1, <1>2, <1>4, <1>5

\* What one thread's step makes of the sums over the threads.
LEMMA ThreadMoves ==
    ASSUME Inv, NEW s, NEW t \in Threads, NEW r, task' = [task EXCEPT ![t] = r],
           r.pc \in Carrying => r.tx \in Txs
    PROVE  /\ SumOf(DueOf(task', s), Threads)
                 = SumOf(DueOf(task, s), Threads) - Due(task[t], s) + Due(r, s)
           /\ SumOf(WeightOf(task', s), Threads)
                 = SumOf(WeightOf(task, s), Threads) - Burden(task[t], s) + Burden(r, s)
<1>1. task'[t] = r /\ \A u \in Threads \ {t} : task'[u] = task[u]
  BY DEF Inv, TypeInv
<1>2. Due(r, s) \in Int /\ Burden(r, s) \in Int
  BY WeightTypes
<1>3. /\ DueOf(task', s)[t] = Due(r, s) /\ DueOf(task, s)[t] = Due(task[t], s)
      /\ \A u \in Threads \ {t} : DueOf(task', s)[u] = DueOf(task, s)[u]
  BY <1>1 DEF DueOf
<1>4. /\ WeightOf(task', s)[t] = Burden(r, s) /\ WeightOf(task, s)[t] = Burden(task[t], s)
      /\ \A u \in Threads \ {t} : WeightOf(task', s)[u] = WeightOf(task, s)[u]
  BY <1>1 DEF WeightOf
<1>5. \A u \in Threads : DueOf(task, s)[u] \in Int /\ WeightOf(task, s)[u] \in Int
  BY TypedSums
<1>6. DueOf(task', s)[t] \in Int /\ WeightOf(task', s)[t] \in Int
  BY <1>2, <1>3, <1>4
<1>7. SumOf(DueOf(task', s), Threads)
         = SumOf(DueOf(task, s), Threads) - DueOf(task, s)[t] + DueOf(task', s)[t]
  <2> DEFINE f == DueOf(task, s)
             g == DueOf(task', s)
  <2> HIDE DEF f, g
  <2>1. /\ \A u \in Threads : f[u] \in Int
        /\ g[t] \in Int
        /\ \A u \in Threads \ {t} : g[u] = f[u]
    BY <1>3, <1>5, <1>6 DEF f, g
  <2>2. SumOf(g, Threads) = SumOf(f, Threads) - f[t] + g[t]
    BY <2>1, ThreadsFinite, SumChange
  <2>3. QED
    BY <2>2 DEF f, g
<1>8. SumOf(WeightOf(task', s), Threads)
         = SumOf(WeightOf(task, s), Threads) - WeightOf(task, s)[t] + WeightOf(task', s)[t]
  <2> DEFINE f == WeightOf(task, s)
             g == WeightOf(task', s)
  <2> HIDE DEF f, g
  <2>1. /\ \A u \in Threads : f[u] \in Int
        /\ g[t] \in Int
        /\ \A u \in Threads \ {t} : g[u] = f[u]
    BY <1>4, <1>5, <1>6 DEF f, g
  <2>2. SumOf(g, Threads) = SumOf(f, Threads) - f[t] + g[t]
    BY <2>1, ThreadsFinite, SumChange
  <2>3. QED
    BY <2>2 DEF f, g
<1>9. QED
  BY <1>3, <1>4, <1>7, <1>8

\* What a step that leaves the pool alone makes of a sender's charge and tally.
LEMMA PoolStays ==
    ASSUME Inv, NEW s, NEW t \in Threads, NEW r, task' = [task EXCEPT ![t] = r],
           r.pc \in Carrying => r.tx \in Txs, pool' = pool
    PROVE  /\ Charge(pool', task', s) = Charge(pool, task, s) - Due(task[t], s) + Due(r, s)
           /\ Tally(pool', task', s) = Tally(pool, task, s) - Burden(task[t], s) + Burden(r, s)
           /\ Charge(pool, task, s) \in Nat /\ Tally(pool, task, s) \in Int
           /\ Due(task[t], s) \in Nat /\ Due(r, s) \in Nat
<1>1. Due(task[t], s) \in Nat /\ Due(r, s) \in Nat /\ Burden(task[t], s) \in Int /\ Burden(r, s) \in Int
  BY WeightTypes DEF Inv, TypeInv
<1>2. /\ SumOf(CostOf(s), pool) \in Nat /\ SumOf(OneOf(s), pool) \in Nat
      /\ SumOf(DueOf(task, s), Threads) \in Nat /\ SumOf(WeightOf(task, s), Threads) \in Int
  BY TypedSums
<1>3. /\ SumOf(DueOf(task', s), Threads)
            = SumOf(DueOf(task, s), Threads) - Due(task[t], s) + Due(r, s)
      /\ SumOf(WeightOf(task', s), Threads)
            = SumOf(WeightOf(task, s), Threads) - Burden(task[t], s) + Burden(r, s)
  BY ThreadMoves
<1>4. QED
  BY <1>1, <1>2, <1>3 DEF Charge, Tally

\* A step that touches none of the counters and gives up no more than it had.
LEMMA LeakIdle ==
    ASSUME Inv, LeakInv, NEW t \in Threads, NEW r, task' = [task EXCEPT ![t] = r],
           r.pc \in Carrying => r.tx \in Txs, pool' = pool,
           CountersType', GuardHeld',
           \A s \in Senders : Present(pending_costs'[s]) <= Present(pending_costs[s]),
           \A s \in Senders : Present(address_tx_count'[s]) <= Present(address_tx_count[s]),
           \A s \in Senders : Due(r, s) = Due(task[t], s) /\ Burden(r, s) >= Burden(task[t], s)
    PROVE  LeakInv'
<1>1. ASSUME NEW s \in Senders
      PROVE  /\ Present(pending_costs'[s]) <= Charge(pool', task', s)
             /\ Present(address_tx_count'[s]) <= Tally(pool', task', s)
  <2>1. /\ Charge(pool', task', s) = Charge(pool, task, s) - Due(task[t], s) + Due(r, s)
        /\ Tally(pool', task', s) = Tally(pool, task, s) - Burden(task[t], s) + Burden(r, s)
        /\ Charge(pool, task, s) \in Nat /\ Tally(pool, task, s) \in Int
        /\ Due(task[t], s) \in Nat /\ Due(r, s) \in Nat
    BY PoolStays
  <2>2. Burden(task[t], s) \in Int /\ Burden(r, s) \in Int
    BY WeightTypes DEF Inv, TypeInv
  <2>3. /\ Present(pending_costs[s]) \in Nat /\ Present(pending_costs'[s]) \in Nat
        /\ Present(address_tx_count[s]) \in Nat /\ Present(address_tx_count'[s]) \in Nat
    BY DEF LeakInv, CountersType, Present, NoEntry
  <2>4. /\ Present(pending_costs[s]) <= Charge(pool, task, s)
        /\ Present(address_tx_count[s]) <= Tally(pool, task, s)
    BY DEF LeakInv, ChargesCovered, CountsCovered
  <2>5. /\ Present(pending_costs'[s]) <= Present(pending_costs[s])
        /\ Present(address_tx_count'[s]) <= Present(address_tx_count[s])
        /\ Due(r, s) = Due(task[t], s) /\ Burden(r, s) >= Burden(task[t], s)
    OBVIOUS
  <2>6. QED
    BY <2>1, <2>2, <2>3, <2>4, <2>5
<1>2. QED
  BY <1>1 DEF LeakInv, ChargesCovered, CountsCovered

\* A step that keeps the guards and does not enter the guarded stretch.
LEMMA GuardKept ==
    ASSUME Inv, LeakInv, NEW t \in Threads, NEW r, task' = [task EXCEPT ![t] = r],
           UNCHANGED guard,
           r.pc \in Guarding => task[t].pc \in Guarding /\ r.tx = task[t].tx
    PROVE  GuardHeld'
BY DEF Inv, TypeInv, LeakInv, GuardHeld

\* Control points that count for nothing.
Neutral(p) == p \notin Owing \cup Leaving \cup Guarding

\* A step of thread t to r between control points of one class.
Shifts(t, r) ==
    /\ task' = [task EXCEPT ![t] = r] /\ UNCHANGED <<pool, guard>>
    /\ r.pc \in Carrying => r.tx \in Txs
    /\ \/ Neutral(task[t].pc) /\ Neutral(r.pc)
       \/ /\ r.pc \in Owing <=> task[t].pc \in Owing
          /\ r.pc \in Leaving <=> task[t].pc \in Leaving
          /\ r.pc \notin Guarding
          /\ task[t].pc \notin Guarding
          /\ r.tx = task[t].tx

\* Such a step keeps the invariant when no counter grows.
LEMMA ShiftKeeps ==
    ASSUME Inv, LeakInv, NEW t \in Threads, NEW r, Shifts(t, r), CountersType',
           \A s \in Senders : Present(pending_costs'[s]) <= Present(pending_costs[s]),
           \A s \in Senders : Present(address_tx_count'[s]) <= Present(address_tx_count[s])
    PROVE  LeakInv'
<1>1. GuardHeld'
  BY GuardKept DEF Shifts, Neutral
<1>2. \A s \in Senders : Due(r, s) = Due(task[t], s) /\ Burden(r, s) = Burden(task[t], s)
  BY DEF Shifts, Neutral, Due, Burden, Owing, Leaving, Guarding
<1>3. \A s \in Senders : Burden(task[t], s) \in Int
  BY WeightTypes DEF Inv, TypeInv
<1>4. \A s \in Senders : Due(r, s) = Due(task[t], s) /\ Burden(r, s) >= Burden(task[t], s)
  BY <1>2, <1>3
<1>5. QED
  BY <1>1, <1>4, LeakIdle DEF Shifts

\* No counter changes at all.
LEMMA QuietShiftKeeps ==
    ASSUME Inv, LeakInv, NEW t \in Threads, NEW r, Shifts(t, r),
           UNCHANGED <<pending_costs, address_tx_count>>
    PROVE  LeakInv'
<1>1. CountersType'
  BY DEF Shifts, LeakInv, CountersType
<1>2. \A s \in Senders : Present(pending_costs[s]) \in Nat /\ Present(address_tx_count[s]) \in Nat
  BY DEF LeakInv, CountersType, Present, NoEntry
<1>3. QED
  BY <1>1, <1>2, ShiftKeeps

\* Steps of a thread on its way into or out of the pool that only move it on.
MoveOn(t) ==
    \/ Enqueue(t) \/ Check(t) \/ Promote(t) \/ Unindex(t) \/ Forget(t) \/ Dequeue(t)

\* They keep it: no counter changes.
LEMMA MoveOnKeeps == ASSUME Inv, LeakInv, NEW t \in Threads, MoveOn(t) PROVE LeakInv'
<1> USE DEF At, Goto, Shifts, Neutral, Owing, Leaving, Guarding, Carrying, Between, Inv, TypeInv,
            Shape, Fields
<1>1. CASE Enqueue(t)
  BY <1>1, QuietShiftKeeps DEF Enqueue, Idle
<1>2. CASE Check(t)
  BY <1>2, QuietShiftKeeps, FinishedShape DEF Check
<1>3. CASE Promote(t)
  BY <1>3, QuietShiftKeeps, FinishedShape DEF Promote
<1>4. CASE Unindex(t)
  BY <1>4, QuietShiftKeeps DEF Unindex
<1>5. CASE Forget(t)
  BY <1>5, QuietShiftKeeps DEF Forget
<1>6. CASE Dequeue(t)
  BY <1>6, QuietShiftKeeps DEF Dequeue
<1>7. QED
  BY <1>1, <1>2, <1>3, <1>4, <1>5, <1>6 DEF MoveOn

\* Nor does starting a task change a counter.
LEMMA BlockStepKeeps == ASSUME Inv, LeakInv, BlockStep PROVE LeakInv'
<1> USE DEF At, Shifts, Neutral, Owing, Leaving, Guarding, Carrying, Between, Inv, TypeInv,
            Shape, Fields, Idle
<1>1. \A t \in Admitters : t \in Threads
  BY DEF Threads
<1>2. Driver \in Threads /\ Sweeper \in Threads
  BY DEF Threads
<1>3. ASSUME NEW t \in Admitters, NEW x \in Txs, Admit(t, x) PROVE LeakInv'
  <2>1. CASE task' = [task EXCEPT ![t] = [Idle EXCEPT !.pc = "enqueue", !.tx = x]]
    BY <1>1, <1>3, <2>1, QuietShiftKeeps DEF Admit
  <2>2. CASE task' = [task EXCEPT ![t] = [Idle EXCEPT !.pc = "check", !.tx = x]]
    BY <1>1, <1>3, <2>2, QuietShiftKeeps DEF Admit
  <2>3. QED
    BY <1>3, <2>1, <2>2 DEF Admit
<1>4. ASSUME NEW b, Commit(b) PROVE LeakInv'
  BY <1>2, <1>4, QuietShiftKeeps DEF Commit
<1>5. ASSUME NEW s \in Senders, Sweep(s) PROVE LeakInv'
  BY <1>2, <1>5, QuietShiftKeeps DEF Sweep
<1>6. ASSUME Purge PROVE LeakInv'
  BY <1>2, <1>6, QuietShiftKeeps DEF Purge
<1>7. ASSUME NEW x, DropAged(x) PROVE LeakInv'
  BY <1>2, <1>7, QuietShiftKeeps DEF DropAged
<1>8. ASSUME NEW until, NEW stale, EvictExpired(until, stale) PROVE LeakInv'
  BY <1>2, <1>8, QuietShiftKeeps DEF EvictExpired
<1>9. QED
  BY <1>3, <1>4, <1>5, <1>6, <1>7, <1>8 DEF BlockStep

\* remove_if drops a pending_costs entry only at zero.
LEMMA DropPendingKeeps == ASSUME Inv, LeakInv, NEW t \in Threads, DropPending(t) PROVE LeakInv'
<1> DEFINE r == [task[t] EXCEPT !.pc = "dequeue"]
<1>1. Shifts(t, r)
  BY DEF DropPending, At, Goto, Shifts, Neutral, Owing, Leaving, Guarding, Carrying, Inv, TypeInv,
         Shape, Fields
<1> HIDE DEF r
<1>2. \A s \in Senders : /\ pending_costs'[s] = NoEntry \/ pending_costs'[s] = pending_costs[s]
                         /\ address_tx_count'[s] = address_tx_count[s]
  BY DEF DropPending, LeakInv, CountersType
<1>3. CountersType'
  BY DEF DropPending, LeakInv, CountersType
<1>4. \A s \in Senders : /\ Present(pending_costs'[s]) <= Present(pending_costs[s])
                         /\ Present(address_tx_count'[s]) <= Present(address_tx_count[s])
  BY <1>2 DEF Present, NoEntry, LeakInv, CountersType
<1>5. QED
  BY <1>1, <1>3, <1>4, ShiftKeeps

\* remove_if drops an address_tx_count entry only at zero.
LEMMA DropCountKeeps == ASSUME Inv, LeakInv, NEW t \in Threads, DropCount(t) PROVE LeakInv'
<1> DEFINE r == [task[t] EXCEPT !.pc = "take"]
<1>1. Shifts(t, r)
  BY DEF DropCount, At, Goto, Shifts, Neutral, Owing, Leaving, Guarding, Carrying, Between, Inv, TypeInv,
         Shape, Fields
<1> HIDE DEF r
<1>2. \A s \in Senders : /\ address_tx_count'[s] = NoEntry \/ address_tx_count'[s] = address_tx_count[s]
                         /\ pending_costs'[s] = pending_costs[s]
  BY DEF DropCount, LeakInv, CountersType
<1>3. CountersType'
  BY DEF DropCount, LeakInv, CountersType
<1>4. \A s \in Senders : /\ Present(pending_costs'[s]) <= Present(pending_costs[s])
                         /\ Present(address_tx_count'[s]) <= Present(address_tx_count[s])
  BY <1>2 DEF Present, NoEntry, LeakInv, CountersType
<1>5. QED
  BY <1>1, <1>3, <1>4, ShiftKeeps

\* Taking the sender's entry: the guard is the thread's, nothing is charged yet.
LEMMA ReserveKeepsLeak == ASSUME Inv, LeakInv, NEW t \in Threads, Reserve(t) PROVE LeakInv'
<1> DEFINE x == task[t].tx
<1>1. x \in Txs /\ x.sender \in Senders /\ guard[x.sender] = None
  BY MempoolAssumption DEF Reserve, At, Inv, TypeInv, Carrying
<1>2. address_tx_count' = [address_tx_count EXCEPT ![x.sender] = Present(address_tx_count[x.sender])]
  BY DEF Reserve
<1>3. \A s \in Senders : /\ Present(address_tx_count'[s]) = Present(address_tx_count[s])
                         /\ address_tx_count'[s] \in Nat \cup {NoEntry}
                         /\ Present(address_tx_count[s]) \in Nat
                         /\ Present(pending_costs[s]) \in Nat
  BY <1>2 DEF LeakInv, CountersType, Present, NoEntry
<1>4. /\ pending_costs' = pending_costs /\ pool' = pool
      /\ address_tx_count' \in [Senders -> Nat \cup {NoEntry}]
  BY <1>2, <1>3 DEF Reserve, LeakInv, CountersType
<1>5. \A s \in Senders : /\ Present(pending_costs'[s]) <= Present(pending_costs[s])
                         /\ Present(address_tx_count'[s]) <= Present(address_tx_count[s])
  BY <1>3, <1>4
<1>6. CASE ~ Acceptable(t, x)
  <2>1. Shifts(t, Finished(t))
    BY <1>6, FinishedShape DEF Reserve, At, Shifts, Neutral, Owing, Leaving, Guarding, Carrying,
       Between, Inv, TypeInv
  <2>2. CountersType'
    BY <1>4, <1>6 DEF Reserve, LeakInv, CountersType
  <2>3. QED
    BY <1>5, <2>1, <2>2, ShiftKeeps
<1>7. CASE Acceptable(t, x)
  <2> DEFINE r == [task[t] EXCEPT !.pc = "pend"]
  <2>1. /\ task' = [task EXCEPT ![t] = r] /\ r.pc = "pend" /\ r.tx = x /\ task[t].pc = "reserve"
        /\ guard' = [guard EXCEPT ![x.sender] = t]
    BY <1>7 DEF Reserve, At, Goto, Inv, TypeInv, Shape, Fields
  <2> HIDE DEF r
  <2>2. CountersType'
    BY <1>4, <2>1 DEF LeakInv, CountersType
  <2>3. task'[t] = r /\ \A u \in Threads : u # t => task'[u] = task[u]
    BY <2>1 DEF Inv, TypeInv
  <2>4. guard'[x.sender] = t /\ \A s \in Senders : s # x.sender => guard'[s] = guard[s]
    BY <1>1, <2>1 DEF LeakInv, CountersType
  <2>5. \A u \in Threads : task[u].pc \in Guarding =>
           task[u].tx.sender \in Senders /\ task[u].tx.sender # x.sender
    BY <1>1, ThreadsFinite, MempoolAssumption
       DEF Inv, TypeInv, LeakInv, GuardHeld, Guarding, Carrying, Between
  <2>6. GuardHeld'
    BY <2>1, <2>3, <2>4, <2>5 DEF LeakInv, GuardHeld
  <2>7. \A s \in Senders : Due(r, s) = 0 /\ Due(task[t], s) = 0 /\ Burden(r, s) = 0 /\ Burden(task[t], s) = 0
    BY <2>1 DEF Due, Burden, Owing, Leaving
  <2>8. \A s \in Senders : Due(r, s) = Due(task[t], s) /\ Burden(r, s) >= Burden(task[t], s)
    BY <2>7
  <2>9. QED
    BY <1>1, <1>4, <1>5, <2>1, <2>2, <2>6, <2>8, LeakIdle
<1>8. QED
  BY <1>6, <1>7

\* Charging: the thread owes what it charged until it pools the transaction.
LEMMA PendKeepsLeak == ASSUME Inv, LeakInv, NEW t \in Threads, Pend(t) PROVE LeakInv'
<1> DEFINE x == task[t].tx
           r == [task[t] EXCEPT !.pc = "insert"]
<1>1. x \in Txs /\ x.sender \in Senders /\ Reserves(x) \in Nat
  BY MempoolAssumption DEF Pend, At, Inv, TypeInv, Carrying, Between, Reserves
<1>2. /\ task' = [task EXCEPT ![t] = r] /\ r.pc = "insert" /\ r.tx = x /\ task[t].pc = "pend"
      /\ UNCHANGED <<pool, guard, address_tx_count>>
      /\ pending_costs' = [pending_costs EXCEPT ![x.sender] = Present(pending_costs[x.sender]) + Reserves(x)]
  BY DEF Pend, At, Goto, Inv, TypeInv, Shape, Fields, Sender
<1> HIDE DEF r
<1>3. \A s \in Senders : Present(pending_costs[s]) \in Nat /\ Present(address_tx_count[s]) \in Nat
  BY DEF LeakInv, CountersType, Present, NoEntry
<1>4. \A s \in Senders :
         /\ pending_costs'[s] \in Nat \cup {NoEntry}
         /\ Present(pending_costs'[s])
               = Present(pending_costs[s]) + (IF s = x.sender THEN Reserves(x) ELSE 0)
  BY <1>1, <1>2, <1>3 DEF LeakInv, CountersType, Present, NoEntry
<1>5. CountersType'
  BY <1>2, <1>4 DEF LeakInv, CountersType
<1>6. GuardHeld'
  BY <1>2, GuardKept DEF Guarding
<1>7. \A s \in Senders : /\ Due(task[t], s) = 0 /\ Burden(r, s) = 0 /\ Burden(task[t], s) = 0
                         /\ Due(r, s) = IF s = x.sender THEN Reserves(x) ELSE 0
  BY <1>2 DEF Due, Burden, Owing, Leaving
<1>8. ASSUME NEW s \in Senders
      PROVE  /\ Present(pending_costs'[s]) <= Charge(pool', task', s)
             /\ Present(address_tx_count'[s]) <= Tally(pool', task', s)
  <2>1. /\ Charge(pool', task', s) = Charge(pool, task, s) - Due(task[t], s) + Due(r, s)
        /\ Tally(pool', task', s) = Tally(pool, task, s) - Burden(task[t], s) + Burden(r, s)
        /\ Charge(pool, task, s) \in Nat /\ Tally(pool, task, s) \in Int
    BY <1>1, <1>2, PoolStays
  <2>2. /\ Present(pending_costs[s]) <= Charge(pool, task, s)
        /\ Present(address_tx_count[s]) <= Tally(pool, task, s)
    BY DEF LeakInv, ChargesCovered, CountsCovered
  <2>3. QED
    BY <1>1, <1>2, <1>3, <1>4, <1>7, <2>1, <2>2
<1>9. QED
  BY <1>5, <1>6, <1>8 DEF LeakInv, ChargesCovered, CountsCovered

\* Counting: the sender's count grows by the transaction it has in the pool.
LEMMA CountKeepsLeak == ASSUME Inv, LeakInv, NEW t \in Threads, Count(t) PROVE LeakInv'
<1> DEFINE x == task[t].tx
           r == [task[t] EXCEPT !.pc = "promote", !.who = Sender(t)]
<1>1. x \in Txs /\ x.sender \in Senders
  BY MempoolAssumption DEF Count, At, Inv, TypeInv, Carrying
<1>2. /\ task' = [task EXCEPT ![t] = r] /\ r.pc = "promote" /\ task[t].pc = "count"
      /\ UNCHANGED <<pool, pending_costs>> /\ guard' = [guard EXCEPT ![x.sender] = None]
      /\ address_tx_count' = [address_tx_count EXCEPT ![x.sender] = @ + 1]
  BY DEF Count, At, Inv, TypeInv, Shape, Fields, Sender
<1> HIDE DEF r
<1>3. \A s \in Senders : Present(pending_costs[s]) \in Nat /\ Present(address_tx_count[s]) \in Nat
  BY DEF LeakInv, CountersType, Present, NoEntry
<1>4. \A s \in Senders :
         /\ address_tx_count'[s] \in Nat \cup {NoEntry} /\ pending_costs'[s] = pending_costs[s]
         /\ Present(address_tx_count'[s])
               <= Present(address_tx_count[s]) + (IF s = x.sender THEN 1 ELSE 0)
         /\ Present(address_tx_count'[s]) \in Nat
  BY <1>1, <1>2, <1>3 DEF LeakInv, CountersType, Present, NoEntry
<1>5. CountersType'
  BY <1>2, <1>4 DEF LeakInv, CountersType
<1>6. GuardHeld'
  <2>1. task'[t] = r /\ \A u \in Threads : u # t => task'[u] = task[u]
    BY <1>2 DEF Inv, TypeInv
  <2>2. \A u \in Threads : u # t /\ task[u].pc \in Guarding => task[u].tx.sender # x.sender
    BY <1>2 DEF LeakInv, GuardHeld, Guarding
  <2>3. QED
    BY <1>1, <1>2, <2>1, <2>2 DEF LeakInv, GuardHeld, Guarding, CountersType
<1>7. \A s \in Senders : /\ Due(task[t], s) = 0 /\ Due(r, s) = 0 /\ Burden(r, s) = 0
                         /\ Burden(task[t], s) = IF s = x.sender THEN -1 ELSE 0
  BY <1>2 DEF Due, Burden, Owing, Leaving
<1>8. ASSUME NEW s \in Senders
      PROVE  /\ Present(pending_costs'[s]) <= Charge(pool', task', s)
             /\ Present(address_tx_count'[s]) <= Tally(pool', task', s)
  <2>1. /\ Charge(pool', task', s) = Charge(pool, task, s) - Due(task[t], s) + Due(r, s)
        /\ Tally(pool', task', s) = Tally(pool, task, s) - Burden(task[t], s) + Burden(r, s)
        /\ Charge(pool, task, s) \in Nat /\ Tally(pool, task, s) \in Int
    BY <1>2, PoolStays DEF Carrying, Between
  <2>2. /\ Present(pending_costs[s]) <= Charge(pool, task, s)
        /\ Present(address_tx_count[s]) <= Tally(pool, task, s)
    BY DEF LeakInv, ChargesCovered, CountsCovered
  <2>3. QED
    BY <1>3, <1>4, <1>7, <2>1, <2>2
<1>9. QED
  BY <1>5, <1>6, <1>8 DEF LeakInv, ChargesCovered, CountsCovered

\* A thread's own share of its sender's charge; and of the tally, while the
\* sender's guard is free.
LEMMA OwnShare ==
    ASSUME Inv, NEW s, NEW t \in Threads
    PROVE  /\ Due(task[t], s) <= Charge(pool, task, s)
           /\ (\A u \in Threads : Burden(task[u], s) >= 0) => Burden(task[t], s) <= Tally(pool, task, s)
<1> DEFINE d == DueOf(task, s)
           w == WeightOf(task, s)
           R == Threads \ {t}
<1>1. /\ \A u \in Threads : d[u] \in Nat /\ w[u] \in Int
      /\ SumOf(CostOf(s), pool) \in Nat /\ SumOf(OneOf(s), pool) \in Nat
  BY TypedSums
<1>2. IsFiniteSet(R) /\ R \subseteq Threads
  BY ThreadsFinite, FS_Subset
<1>3. d[t] = Due(task[t], s) /\ w[t] = Burden(task[t], s) /\ \A u \in Threads : w[u] = Burden(task[u], s)
  BY DEF DueOf, WeightOf
<1> HIDE DEF d, w
<1>4. SumOf(d, Threads) = d[t] + SumOf(d, R) /\ SumOf(w, Threads) = w[t] + SumOf(w, R)
  BY <1>1, ThreadsFinite, SumRemove
<1> HIDE DEF R
<1>5. SumOf(d, R) \in Nat /\ SumOf(w, R) \in Int
  BY <1>1, <1>2, SumNat, SumType
<1>6. (\A u \in Threads : Burden(task[u], s) >= 0) => SumOf(w, R) \in Nat
  BY <1>1, <1>2, <1>3, SumNat
<1>7. Due(task[t], s) <= SumOf(CostOf(s), pool) + SumOf(d, Threads)
  BY <1>1, <1>3, <1>4, <1>5
<1>8. ASSUME \A u \in Threads : Burden(task[u], s) >= 0
      PROVE  Burden(task[t], s) <= SumOf(OneOf(s), pool) + SumOf(w, Threads)
  BY <1>1, <1>3, <1>4, <1>5, <1>6, <1>8
<1>9. QED
  BY <1>7, <1>8 DEF Charge, Tally, d, w

\* saturating_sub on the counters.
LEMMA AtLeastZero == ASSUME NEW a \in Int PROVE Max({0, a}) = IF a >= 0 THEN a ELSE 0
BY DEF Max

\* remove_transaction gives back at least what the transaction reserved.
LEMMA ReleaseKeepsLeak == ASSUME Inv, LeakInv, NEW t \in Threads, Release(t) PROVE LeakInv'
<1> DEFINE x == task[t].tx
           left == Max({0, pending_costs[x.sender] - x.cost})
<1>1. x \in Txs /\ x.sender \in Senders /\ Reserves(x) \in Nat /\ x.cost \in Nat /\ Reserves(x) <= x.cost
  BY MempoolAssumption DEF Release, At, Inv, TypeInv, Carrying, Reserves
<1>2. PICK p \in {"dequeue", "drop_pending"} : Goto(t, p)
  BY DEF Release
<1> DEFINE r == [task[t] EXCEPT !.pc = p]
<1>3. /\ task' = [task EXCEPT ![t] = r] /\ r.pc = p /\ r.tx = x /\ task[t].pc = "release"
      /\ UNCHANGED <<pool, guard, address_tx_count>>
  BY <1>2 DEF Release, At, Goto, Inv, TypeInv, Shape, Fields
<1> HIDE DEF r
<1>4. \A s \in Senders : Present(pending_costs[s]) \in Nat /\ Present(address_tx_count[s]) \in Nat
  BY DEF LeakInv, CountersType, Present, NoEntry
<1>5. pending_costs[x.sender] \in Int /\ pending_costs[x.sender] - x.cost \in Int
  BY <1>1 DEF LeakInv, CountersType, NoEntry
<1>6. left = IF pending_costs[x.sender] - x.cost >= 0 THEN pending_costs[x.sender] - x.cost ELSE 0
  BY <1>5, AtLeastZero
<1>7. \/ pending_costs' = pending_costs /\ pending_costs[x.sender] = NoEntry
      \/ pending_costs' = [pending_costs EXCEPT ![x.sender] = left] /\ pending_costs[x.sender] # NoEntry
  BY DEF Release, Sender
<1> HIDE DEF left
<1>8. \A s \in Senders :
         /\ pending_costs'[s] \in Nat \cup {NoEntry}
         /\ s # x.sender => pending_costs'[s] = pending_costs[s]
         /\ \/ Present(pending_costs'[s]) = 0
            \/ s = x.sender /\ Present(pending_costs'[s]) <= Present(pending_costs[s]) - Reserves(x)
            \/ s # x.sender
  BY <1>1, <1>4, <1>5, <1>6, <1>7 DEF LeakInv, CountersType, Present, NoEntry
<1>9. CountersType'
  BY <1>3, <1>7, <1>8 DEF LeakInv, CountersType
<1>10. GuardHeld'
  BY <1>3, GuardKept DEF Guarding
<1>11. \A s \in Senders : /\ Due(r, s) = 0 /\ Burden(r, s) = Burden(task[t], s)
                          /\ Due(task[t], s) = IF s = x.sender THEN Reserves(x) ELSE 0
                          /\ Burden(task[t], s) \in Int
  BY <1>3 DEF Due, Burden, Owing, Leaving
<1>12. ASSUME NEW s \in Senders
       PROVE  /\ Present(pending_costs'[s]) <= Charge(pool', task', s)
              /\ Present(address_tx_count'[s]) <= Tally(pool', task', s)
  <2>1. /\ Charge(pool', task', s) = Charge(pool, task, s) - Due(task[t], s) + Due(r, s)
        /\ Tally(pool', task', s) = Tally(pool, task, s) - Burden(task[t], s) + Burden(r, s)
        /\ Charge(pool, task, s) \in Nat /\ Tally(pool, task, s) \in Int
    BY <1>1, <1>3, PoolStays
  <2>2. /\ Present(pending_costs[s]) <= Charge(pool, task, s)
        /\ Present(address_tx_count[s]) <= Tally(pool, task, s)
    BY DEF LeakInv, ChargesCovered, CountsCovered
  <2>3. Due(task[t], s) <= Charge(pool, task, s)
    BY OwnShare
  <2>4. Present(pending_costs'[s]) \in Nat
    BY <1>8 DEF Present, NoEntry
  <2>5. Present(address_tx_count'[s]) <= Tally(pool', task', s)
    BY <1>3, <1>11, <2>1, <2>2
  <2>6. CASE s # x.sender
    BY <1>4, <1>8, <1>11, <2>1, <2>2, <2>5, <2>6
  <2>7. CASE s = x.sender
    BY <1>1, <1>4, <1>8, <1>11, <2>1, <2>2, <2>3, <2>4, <2>5, <2>7
  <2>8. QED
    BY <2>6, <2>7
<1>13. QED
  BY <1>9, <1>10, <1>12 DEF LeakInv, ChargesCovered, CountsCovered

\* The count goes down by one, never below zero, and not while add_transaction
\* holds the entry.
LEMMA UncountKeepsLeak == ASSUME Inv, LeakInv, NEW t \in Threads, Uncount(t) PROVE LeakInv'
<1> DEFINE x == task[t].tx
           left == Max({0, address_tx_count[x.sender] - 1})
<1>1. x \in Txs /\ x.sender \in Senders
  BY MempoolAssumption DEF Uncount, At, Inv, TypeInv, Carrying
<1>2. PICK p \in {"take", "drop_count"} : Goto(t, p)
  BY DEF Uncount
<1> DEFINE r == [task[t] EXCEPT !.pc = p]
<1>3. /\ task' = [task EXCEPT ![t] = r] /\ r.pc = p /\ r.tx = x /\ task[t].pc = "uncount"
      /\ UNCHANGED <<pool, guard, pending_costs>> /\ guard[x.sender] = None
  BY <1>2 DEF Uncount, At, Goto, Inv, TypeInv, Shape, Fields, Sender
<1> HIDE DEF r
<1>4. \A s \in Senders : Present(pending_costs[s]) \in Nat /\ Present(address_tx_count[s]) \in Nat
  BY DEF LeakInv, CountersType, Present, NoEntry
<1>5. address_tx_count[x.sender] \in Int /\ address_tx_count[x.sender] - 1 \in Int
  BY <1>1 DEF LeakInv, CountersType, NoEntry
<1>6. left = IF address_tx_count[x.sender] - 1 >= 0 THEN address_tx_count[x.sender] - 1 ELSE 0
  BY <1>5, AtLeastZero
<1>7. \/ address_tx_count' = address_tx_count /\ address_tx_count[x.sender] = NoEntry
      \/ address_tx_count' = [address_tx_count EXCEPT ![x.sender] = left] /\ address_tx_count[x.sender] # NoEntry
  BY DEF Uncount, Sender
<1> HIDE DEF left
<1>8. \A s \in Senders :
         /\ address_tx_count'[s] \in Nat \cup {NoEntry}
         /\ s # x.sender => address_tx_count'[s] = address_tx_count[s]
         /\ \/ Present(address_tx_count'[s]) = 0
            \/ s = x.sender /\ Present(address_tx_count'[s]) <= Present(address_tx_count[s]) - 1
            \/ s # x.sender
  BY <1>1, <1>4, <1>5, <1>6, <1>7 DEF LeakInv, CountersType, Present, NoEntry
<1>9. CountersType'
  BY <1>3, <1>7, <1>8 DEF LeakInv, CountersType
<1>10. GuardHeld'
  BY <1>3, GuardKept DEF Guarding
<1>11. \A s \in Senders : /\ Due(r, s) = 0 /\ Due(task[t], s) = 0 /\ Burden(r, s) = 0
                          /\ Burden(task[t], s) = IF s = x.sender THEN 1 ELSE 0
  BY <1>3 DEF Due, Burden, Owing, Leaving
<1>12. \A u \in Threads : Burden(task[u], x.sender) >= 0
  BY <1>3, ThreadsFinite DEF LeakInv, GuardHeld, Guarding, Burden
<1>13. ASSUME NEW s \in Senders
       PROVE  /\ Present(pending_costs'[s]) <= Charge(pool', task', s)
              /\ Present(address_tx_count'[s]) <= Tally(pool', task', s)
  <2>1. /\ Charge(pool', task', s) = Charge(pool, task, s) - Due(task[t], s) + Due(r, s)
        /\ Tally(pool', task', s) = Tally(pool, task, s) - Burden(task[t], s) + Burden(r, s)
        /\ Charge(pool, task, s) \in Nat /\ Tally(pool, task, s) \in Int
    BY <1>1, <1>3, PoolStays
  <2>2. /\ Present(pending_costs[s]) <= Charge(pool, task, s)
        /\ Present(address_tx_count[s]) <= Tally(pool, task, s)
    BY DEF LeakInv, ChargesCovered, CountsCovered
  <2>3. s = x.sender => Burden(task[t], s) <= Tally(pool, task, s)
    BY <1>12, OwnShare
  <2>4. Present(address_tx_count'[s]) \in Nat
    BY <1>8 DEF Present, NoEntry
  <2>5. Present(pending_costs'[s]) <= Charge(pool', task', s)
    BY <1>3, <1>11, <2>1, <2>2
  <2>6. CASE s # x.sender
    BY <1>4, <1>8, <1>11, <2>1, <2>2, <2>5, <2>6
  <2>7. CASE s = x.sender
    BY <1>1, <1>4, <1>8, <1>11, <2>1, <2>2, <2>3, <2>4, <2>5, <2>7
  <2>8. QED
    BY <2>6, <2>7
<1>14. QED
  BY <1>9, <1>10, <1>13 DEF LeakInv, ChargesCovered, CountsCovered

\* A step that carries a transaction over between the pool and a thread.
LEMMA CarriedOver ==
    ASSUME Inv, LeakInv, NEW t \in Threads, NEW r, NEW x \in Txs, task' = [task EXCEPT ![t] = r],
           r.pc \in Carrying, r.tx \in Txs,
           UNCHANGED <<pending_costs, address_tx_count, guard>>, GuardHeld',
           NEW sign \in {-1, 1},
           \/ sign = 1 /\ x \notin pool /\ pool' = pool \cup {x}
           \/ sign = -1 /\ x \in pool /\ pool' = pool \ {x},
           \A s \in Senders : /\ Due(task[t], s) = Due(r, s) + sign * CostOf(s)[x]
                              /\ Burden(task[t], s) = Burden(r, s) + sign * OneOf(s)[x]
    PROVE  LeakInv'
<1>1. CountersType'
  BY DEF LeakInv, CountersType
<1>2. IsFiniteSet(pool) /\ pool \subseteq Txs
  BY DEF Inv, TypeInv, IndexInv, CountedPool
<1>3. ASSUME NEW s \in Senders
      PROVE  /\ Charge(pool', task', s) = Charge(pool, task, s)
             /\ Tally(pool', task', s) = Tally(pool, task, s)
  <2> DEFINE c == CostOf(s)
             o == OneOf(s)
  <2>1. /\ SumOf(c, pool) \in Nat /\ SumOf(o, pool) \in Nat
        /\ SumOf(DueOf(task, s), Threads) \in Nat /\ SumOf(WeightOf(task, s), Threads) \in Int
        /\ \A y \in Txs : c[y] \in Nat /\ o[y] \in Nat
    BY TypedSums
  <2>2. /\ SumOf(DueOf(task', s), Threads)
              = SumOf(DueOf(task, s), Threads) - Due(task[t], s) + Due(r, s)
        /\ SumOf(WeightOf(task', s), Threads)
              = SumOf(WeightOf(task, s), Threads) - Burden(task[t], s) + Burden(r, s)
    BY ThreadMoves
  <2>3. Due(task[t], s) \in Nat /\ Due(r, s) \in Nat /\ Burden(task[t], s) \in Int /\ Burden(r, s) \in Int
    BY WeightTypes DEF Inv, TypeInv
  <2>4. Due(task[t], s) = Due(r, s) + sign * c[x] /\ Burden(task[t], s) = Burden(r, s) + sign * o[x]
    OBVIOUS
  <2> HIDE DEF c, o
  <2>5. SumOf(c, pool') = SumOf(c, pool) + sign * c[x] /\ SumOf(o, pool') = SumOf(o, pool) + sign * o[x]
    <3>1. CASE sign = 1
      <4>1. x \notin pool /\ pool' = pool \cup {x}
        BY <3>1
      <4>2. x \in pool' /\ pool' \ {x} = pool /\ IsFiniteSet(pool')
        BY <1>2, <4>1, FS_AddElement
      <4>5. \A y \in pool' : c[y] \in Int /\ o[y] \in Int
        BY <1>2, <2>1, <4>1
      <4>6. SumOf(c, pool') = c[x] + SumOf(c, pool' \ {x}) /\ SumOf(o, pool') = o[x] + SumOf(o, pool' \ {x})
        BY <4>2, <4>5, SumRemove
      <4>7. SumOf(c, pool') = c[x] + SumOf(c, pool) /\ SumOf(o, pool') = o[x] + SumOf(o, pool)
        BY <4>2, <4>6, Zenon
      <4>3. c[x] \in Int /\ o[x] \in Int
        BY <2>1
      <4>4. QED
        BY <2>1, <3>1, <4>3, <4>7
    <3>2. CASE sign = -1
      <4>1. x \in pool /\ pool' = pool \ {x}
        BY <3>2
      <4>2. SumOf(c, pool) = c[x] + SumOf(c, pool \ {x}) /\ SumOf(o, pool) = o[x] + SumOf(o, pool \ {x})
        BY <1>2, <2>1, <4>1, SumRemove
      <4>3. SumOf(c, pool) = c[x] + SumOf(c, pool') /\ SumOf(o, pool) = o[x] + SumOf(o, pool')
        BY <4>1, <4>2, Zenon
      <4>4. IsFiniteSet(pool') /\ pool' \subseteq Txs
        BY <1>2, <4>1, FS_Subset
      <4>5. SumOf(c, pool') \in Nat /\ SumOf(o, pool') \in Nat
        BY <2>1, <4>4, SumNat
      <4>6. QED
        BY <2>1, <3>2, <4>3, <4>5
    <3>3. QED
      BY <3>1, <3>2
  <2>6. c[x] \in Int /\ o[x] \in Int
    BY <2>1
  <2>7. SumOf(c, pool') + SumOf(DueOf(task', s), Threads) = SumOf(c, pool) + SumOf(DueOf(task, s), Threads)
    <3>1. CASE sign = 1
      BY <2>1, <2>2, <2>3, <2>4, <2>5, <2>6, <3>1
    <3>2. CASE sign = -1
      BY <2>1, <2>2, <2>3, <2>4, <2>5, <2>6, <3>2
    <3>3. QED
      BY <3>1, <3>2
  <2>8. SumOf(o, pool') + SumOf(WeightOf(task', s), Threads) = SumOf(o, pool) + SumOf(WeightOf(task, s), Threads)
    <3>1. CASE sign = 1
      BY <2>1, <2>2, <2>3, <2>4, <2>5, <2>6, <3>1
    <3>2. CASE sign = -1
      BY <2>1, <2>2, <2>3, <2>4, <2>5, <2>6, <3>2
    <3>3. QED
      BY <3>1, <3>2
  <2>9. QED
    BY <2>7, <2>8 DEF Charge, Tally, c, o
<1>4. QED
  BY <1>1, <1>3 DEF LeakInv, ChargesCovered, CountsCovered

\* The insert turns what the thread owed into what the pool holds.
LEMMA InsertKeepsLeak == ASSUME Inv, LeakInv, NEW t \in Threads, Insert(t) PROVE LeakInv'
<1> DEFINE r == [task[t] EXCEPT !.pc = "count"]
           x == task[t].tx
<1>1. /\ task' = [task EXCEPT ![t] = r] /\ r.pc = "count" /\ r.tx = x /\ task[t].pc = "insert"
      /\ pool' = pool \cup {x} /\ UNCHANGED <<pending_costs, address_tx_count, guard>>
  BY DEF Insert, At, Goto, Inv, TypeInv, Shape, Fields
<1> HIDE DEF r
<1>2. x \in Txs /\ x \notin pool
  BY <1>1 DEF Inv, IndexInv, InFlight, TypeInv, Carrying, Between
<1>3. GuardHeld'
  BY <1>1, GuardKept DEF Guarding
<1>4. \A s \in Senders : /\ Due(task[t], s) = Due(r, s) + 1 * CostOf(s)[x]
                         /\ Burden(task[t], s) = Burden(r, s) + 1 * OneOf(s)[x]
  BY <1>1, <1>2, MempoolAssumption DEF Due, Burden, CostOf, OneOf, Owing, Leaving, Reserves
<1>5. QED
  BY <1>1, <1>2, <1>3, <1>4, CarriedOver DEF Carrying

\* The removal turns it back.
LEMMA TakeKeepsLeak == ASSUME Inv, LeakInv, NEW t \in Threads, Take(t) PROVE LeakInv'
<1> DEFINE x == Head(task[t].todo)
<1>1. CASE pool' = pool \ {x} /\ x \in pool /\ task[t].todo # <<>>
  <2> DEFINE r == [task[t] EXCEPT !.pc = "unindex", !.tx = x, !.todo = Tail(task[t].todo)]
  <2>1. /\ task' = [task EXCEPT ![t] = r] /\ r.pc = "unindex" /\ r.tx = x /\ task[t].pc = "take"
        /\ UNCHANGED <<pending_costs, address_tx_count, guard>>
    BY <1>1 DEF Take, At, Inv, TypeInv, Shape, Fields
  <2> HIDE DEF r
  <2>2. x \in Txs
    BY <1>1 DEF Inv, TypeInv
  <2> HIDE DEF x
  <2>3. GuardHeld'
    BY <2>1, GuardKept DEF Guarding
  <2>4. \A s \in Senders : /\ Due(task[t], s) = Due(r, s) + (-1) * CostOf(s)[x]
                           /\ Burden(task[t], s) = Burden(r, s) + (-1) * OneOf(s)[x]
    BY <2>1, <2>2, MempoolAssumption DEF Due, Burden, CostOf, OneOf, Owing, Leaving, Reserves
  <2>5. QED
    BY <1>1, <2>1, <2>2, <2>3, <2>4, CarriedOver DEF Carrying, Between
<1>2. CASE UNCHANGED pool
  <2> USE DEF At, Goto, Shifts, Neutral, Owing, Leaving, Guarding, Carrying, Between, Inv, TypeInv,
              Shape, Fields
  <2>1. CASE task[t].todo = <<>> /\ task[t].who # None
    BY <1>2, <2>1, QuietShiftKeeps DEF Take
  <2>2. CASE task[t].todo = <<>> /\ task[t].who = None
    BY <1>2, <2>2, QuietShiftKeeps, FinishedShape DEF Take
  <2>3. CASE task[t].todo # <<>> /\ Head(task[t].todo) \notin pool
    BY <1>2, <2>3, QuietShiftKeeps DEF Take
  <2>4. CASE task[t].todo # <<>> /\ Head(task[t].todo) \in pool
    BY <1>2, <2>4 DEF Take
  <2>5. QED
    BY <2>1, <2>2, <2>3, <2>4
<1>3. QED
  BY <1>1, <1>2 DEF Take

\* Nothing is charged to anyone in an empty mempool.
LEMMA InitLeak == Init => LeakInv
<1> SUFFICES ASSUME Init PROVE LeakInv
  OBVIOUS
<1>1. CountersType /\ GuardHeld
  BY DEF Init, Idle, CountersType, GuardHeld, Guarding, NoEntry
<1>2. ASSUME NEW s \in Senders PROVE Charge(pool, task, s) >= 0 /\ Tally(pool, task, s) >= 0
  <2>1. Inv
    BY InitInv
  <2>2. \A t \in Threads : WeightOf(task, s)[t] = 0
    BY DEF Init, Idle, WeightOf, Burden, Leaving
  <2>3. SumOf(WeightOf(task, s), Threads) \in Nat
    BY <2>2, ThreadsFinite, SumNat
  <2>4. QED
    BY <2>1, <2>3, TypedSums DEF Charge, Tally
<1>3. QED
  BY <1>1, <1>2 DEF Init, LeakInv, ChargesCovered, CountsCovered, Present, NoEntry

\* Every step keeps the second invariant.
LEMMA NextLeak == ASSUME Inv, LeakInv, [Next]_vars PROVE LeakInv'
<1>1. CASE BlockStep
  BY <1>1, BlockStepKeeps
<1>2. ASSUME NEW t \in Threads, MoveOn(t) PROVE LeakInv'
  BY <1>2, MoveOnKeeps
<1>3. CASE UNCHANGED vars
  BY <1>3 DEF vars, LeakInv, CountersType, GuardHeld, ChargesCovered, CountsCovered
<1>4. QED
  BY <1>1, <1>2, <1>3, ReserveKeepsLeak, PendKeepsLeak, InsertKeepsLeak, CountKeepsLeak, TakeKeepsLeak,
     ReleaseKeepsLeak, DropPendingKeeps, UncountKeepsLeak, DropCountKeeps
     DEF Next, Step, BlockStep, MoveOn

\* NothingLeaked writes the sum over an operator; it is the sum of a function.
LEMMA ReservesSum ==
    ASSUME NEW S, S \subseteq Txs, IsFiniteSet(S)
    PROVE  MapThenSumSet(Reserves, S) = SumOf([x \in Txs |-> Reserves(x)], S)
<1> DEFINE f == [x \in Txs |-> Reserves(x)]
           E(it) == it = [s \in SUBSET S |-> IF s = {} THEN 0
                                              ELSE Reserves(Pick(s)) + it[s \ {Pick(s)}]]
<1>1. MapThenSumSet(Reserves, S) = (CHOOSE it : E(it))[S]
  BY DEF MapThenSumSet, MapThenFoldSet, Pick
<1>2. ASSUME NEW it PROVE E(it) <=> IsIter(it, f, S)
  <2>1. \A s \in SUBSET S : s # {} => f[Pick(s)] = Reserves(Pick(s))
    BY DEF Pick
  <2>2. QED
    BY <2>1 DEF IsIter
<1>3. (CHOOSE it : E(it)) = CHOOSE it : IsIter(it, f, S)
  <2> HIDE DEF E, f
  <2>1. QED
    BY <1>2
<1>4. QED
  BY <1>1, <1>3, SumIsIter

\* With every thread idle, the charge is the pooled cost and the tally the
\* pooled number.
LEMMA QuietTallies ==
    ASSUME Inv, Quiescent, NEW s \in Senders
    PROVE  LET mine == {x \in pool : x.sender = s}
           IN  /\ Charge(pool, task, s) = MapThenSumSet(Reserves, mine)
               /\ Tally(pool, task, s) = Cardinality(mine)
<1> DEFINE mine == {x \in pool : x.sender = s}
           f == [x \in Txs |-> Reserves(x)]
<1>1. IsFiniteSet(pool) /\ pool \subseteq Txs /\ mine \in SUBSET pool /\ IsFiniteSet(mine)
  BY FS_Subset DEF Inv, TypeInv, IndexInv, CountedPool
<1>2. /\ \A x \in Txs : CostOf(s)[x] \in Nat /\ OneOf(s)[x] \in Nat
      /\ SumOf(CostOf(s), pool) \in Nat /\ SumOf(OneOf(s), pool) \in Nat
  BY TypedSums
<1>3. /\ \A x \in pool \ mine : CostOf(s)[x] = 0 /\ OneOf(s)[x] = 0
      /\ \A x \in mine : CostOf(s)[x] = f[x] /\ OneOf(s)[x] = 1
  BY <1>1 DEF CostOf, OneOf
<1>4. \A t \in Threads : DueOf(task, s)[t] = 0 /\ WeightOf(task, s)[t] = 0
  BY DEF Quiescent, At, DueOf, WeightOf, Due, Burden, Owing, Leaving
<1>5. SumOf(DueOf(task, s), Threads) = 0 /\ SumOf(WeightOf(task, s), Threads) = 0
  BY <1>4, ThreadsFinite, SumFilter, SumEmpty
<1> HIDE DEF mine, f
<1>6. SumOf(CostOf(s), pool) = SumOf(CostOf(s), mine) /\ SumOf(OneOf(s), pool) = SumOf(OneOf(s), mine)
  BY <1>1, <1>2, <1>3, SumFilter
<1>7. SumOf(CostOf(s), mine) = SumOf(f, mine) /\ SumOf(OneOf(s), mine) = Cardinality(mine)
  BY <1>1, <1>3, SumAgree, SumOnes
<1>8. SumOf(f, mine) = MapThenSumSet(Reserves, mine)
  BY <1>1, ReservesSum DEF f
<1>9. Charge(pool, task, s) = MapThenSumSet(Reserves, mine) /\ Tally(pool, task, s) = Cardinality(mine)
  BY <1>2, <1>5, <1>6, <1>7, <1>8 DEF Charge, Tally
<1>10. QED
  BY <1>9 DEF mine

\* remove_transaction, add_transaction and the promotions together: whatever
\* overlapped, a sender with nothing in flight is charged and counted for no
\* more than it has pooled, so pending_costs and max_tx_per_address never lock
\* it out for good.
THEOREM NothingLeakedHolds == Spec => []NothingLeaked
<1>1. Inv /\ LeakInv => NothingLeaked
  <2> SUFFICES ASSUME Inv, LeakInv, Quiescent, NEW s \in Senders
               PROVE  LET mine == {x \in pool : x.sender = s}
                      IN  /\ Present(pending_costs[s]) <= MapThenSumSet(Reserves, mine)
                          /\ Present(address_tx_count[s]) <= Cardinality(mine)
    BY DEF NothingLeaked
  <2>1. /\ Present(pending_costs[s]) <= Charge(pool, task, s)
        /\ Present(address_tx_count[s]) <= Tally(pool, task, s)
    BY DEF LeakInv, ChargesCovered, CountsCovered
  <2>2. QED
    BY <2>1, QuietTallies
<1>2. QED
  BY <1>1, InitInv, InitLeak, NextInv, NextLeak, PTL DEF Spec

-----------------------------------------------------------------------------
(***************************************************************************)
(* Governance for any number of accounts, proposals and epochs: who may be *)
(* on the way to the validator set, when an approval may be given, and     *)
(* what becomes of a proposal's deposit.                                   *)
(*                                                                         *)
(* GovernanceInv is the inductive invariant.  Its parts about the records  *)
(* alone (GovOk, Money, Stages) are predicates of a record and a time, so  *)
(* that they can be carried through the functions an epoch boundary is     *)
(* made of, where no variable holds the intermediate results: a boundary   *)
(* turns a world [acct, set, gov, params, endorsed, gate] into another,    *)
(* one proposal after the other, and WorldOk says of a world what          *)
(* GovernanceInv says of the state.                                        *)
(*                                                                         *)
(* The properties are not inductive by themselves.  DepositsAccounted      *)
(* needs HeldIsOpen: a deposit is settled again when a proposal is counted *)
(* or vetoed, and only because a proposal that is queued, closed or not    *)
(* yet submitted holds none does nothing get paid twice or overwritten.    *)
(* OneGate needs ApprovalLate: a vote's approval is executed epochs after  *)
(* it was submitted, when the admins' phase may have been shortened but    *)
(* never extended, so what was late when it was submitted still is.        *)
(* ReturnNeedsApproval needs nothing but a step by step account of who is  *)
(* given a seat (NoNewSeats).  DepositTimely, about a whole boundary,      *)
(* needs Timely, the invariant of its loop.                                *)
(*                                                                         *)
(* The two loops, over the open proposals and over the list a proposal is  *)
(* removed from, are folds; what each turn keeps is carried to the end of  *)
(* the loop by FoldLeftInduction, instantiated once for each.              *)
(***************************************************************************)

\* The shape of the account records: the code's structs have no optional part.
AccountFields ==
    {"status", "key", "stake", "pending", "vests", "since", "registeredAt", "jailedUntil", "live"}

\* ac is a function on the accounts to such records.
AcctOk(ac) ==
    /\ ac = [a \in Addrs |-> ac[a]]
    /\ \A a \in Addrs : DOMAIN ac[a] = AccountFields

\* The accounts that hold a place or have been given one.
SeatedIn(ac) == {a \in Addrs : ac[a].status \in Seated}

\* The members of a set are accounts.
SetOk(s) == \A m \in s.members : DOMAIN m = {"addr", "key"} /\ m.addr \in Addrs

\* ac2 is ac with nobody newly seated.
NoNewSeats(ac, ac2) == AcctOk(ac2) /\ SeatedIn(ac2) \subseteq SeatedIn(ac)

\* Rewriting the accounts of S seats nobody if none of the new records does.
LEMMA EachKeeps ==
    ASSUME NEW ac, NEW ac2, NEW S \in SUBSET Addrs, AcctOk(ac), NEW f,
           ac2 = [a \in DOMAIN ac |-> IF a \in S THEN f[a] ELSE ac[a]],
           \A a \in S : DOMAIN f[a] = AccountFields /\ (f[a].status \in Seated => ac[a].status \in Seated)
    PROVE  NoNewSeats(ac, ac2)
BY DEF AcctOk, NoNewSeats, SeatedIn

\* The members of a set, as accounts.
LEMMA MembersInAddrs == ASSUME NEW s, SetOk(s) PROVE Members(s) \in SUBSET Addrs
BY DEF SetOk, Members

\* record_qc_liveness touches the measurements alone.
LEMMA QcKeeps ==
    ASSUME NEW ac, AcctOk(ac), SetOk(voted), NEW signers
    PROVE  NoNewSeats(ac, QcRecorded(ac, signers))
<1> DEFINE S == Members(voted)
           f == [a \in S |-> [ac[a] EXCEPT !.live = Measured(ac[a].live, voted.epoch, a \in signers)]]
           ac2 == [a \in DOMAIN ac |-> IF a \in S THEN f[a] ELSE ac[a]]
<1>1. QcRecorded(ac, signers) = ac2
  BY DEF QcRecorded, Each
<1>2. S \in SUBSET Addrs
  BY MembersInAddrs
<1>3. \A a \in S : DOMAIN f[a] = AccountFields /\ (f[a].status \in Seated => ac[a].status \in Seated)
  BY <1>2 DEF AcctOk, AccountFields
<1> HIDE DEF S, f
<1>4. NoNewSeats(ac, ac2)
  BY <1>2, <1>3, EachKeeps
<1>5. QED
  BY <1>1, <1>4

\* So do the shadow votes.
LEMMA ShadowsKeep ==
    ASSUME NEW ac, AcctOk(ac), NEW shadows \in SUBSET Addrs
    PROVE  NoNewSeats(ac, ShadowsRecorded(ac, shadows))
<1> DEFINE f == [a \in shadows |-> [ac[a] EXCEPT !.live = Measured(ac[a].live, set.epoch, TRUE)]]
           ac2 == [a \in DOMAIN ac |-> IF a \in shadows THEN f[a] ELSE ac[a]]
<1>1. ShadowsRecorded(ac, shadows) = ac2
  BY DEF ShadowsRecorded, Each
<1>3. \A a \in shadows : DOMAIN f[a] = AccountFields /\ (f[a].status \in Seated => ac[a].status \in Seated)
  BY DEF AcctOk, AccountFields
<1> HIDE DEF f
<1>4. NoNewSeats(ac, ac2)
  BY <1>3, EachKeeps
<1>5. QED
  BY <1>1, <1>4

\* Step 1 of an epoch may take a seat away and gives none: who is released from
\* jail becomes a candidate again.
LEMMA JudgedKeeps ==
    ASSUME NEW ac, AcctOk(ac), NEW a \in Addrs, NEW e
    PROVE  LET j == Judged(Settled(a, ac[a], e), e)
           IN  DOMAIN j = AccountFields /\ (j.status \in Seated => ac[a].status \in Seated)
<1> DEFINE v == Vested(ac[a])
           w == Settled(a, ac[a], e)
<1>1. DOMAIN v = AccountFields /\ v.status = ac[a].status
  BY DEF Vested, AcctOk, AccountFields
<1> HIDE DEF v
<1>2. DOMAIN w = AccountFields /\ w.status = ac[a].status
  BY <1>1 DEF Settled, AccountFields, v
<1> HIDE DEF w
<1>3. DOMAIN Judged(w, e) = AccountFields /\ (Judged(w, e).status \in Seated => w.status \in Seated)
  BY <1>2 DEF Judged, AccountFields, Seated
<1>4. QED
  BY <1>2, <1>3 DEF w

\* Step 1b moves the slow from one seat to a lower one.
LEMMA PenalisedKeeps ==
    ASSUME NEW ac, AcctOk(ac), NEW listed \in SUBSET Addrs, NEW e
    PROVE  NoNewSeats(ac, Penalised(ac, listed, e))
<1> DEFINE slow == {a \in listed : ac[a].status = "active" /\ ac[a].live.strikes >= MaxStrikes}
           f == [a \in slow |-> [ac[a] EXCEPT !.status = "probation", !.since = e,
                                     !.live = [Unmeasured EXCEPT !.epoch = ac[a].live.epoch]]]
           ac2 == [a \in DOMAIN ac |-> IF a \in slow THEN f[a] ELSE ac[a]]
<1>1. Penalised(ac, listed, e) \in {ac, ac2}
  BY DEF Penalised, Each
<1>2. slow \in SUBSET Addrs /\ \A a \in slow : DOMAIN f[a] = AccountFields /\ ac[a].status \in Seated
  BY DEF AcctOk, AccountFields, Seated
<1> HIDE DEF slow, f
<1>3. NoNewSeats(ac, ac2)
  BY <1>2, EachKeeps
<1>4. NoNewSeats(ac, ac)
  BY DEF NoNewSeats
<1>5. QED
  BY <1>1, <1>3, <1>4

\* Step 2 moves who has served the probation to a higher one.
LEMMA PromotedKeeps ==
    ASSUME NEW ac, AcctOk(ac), NEW listed \in SUBSET Addrs, NEW e
    PROVE  NoNewSeats(ac, Promoted(ac, listed, e))
<1> DEFINE served(a) == /\ ac[a].status = "probation" /\ e - ac[a].since >= ProbationEpochs
                        /\ Above(ac[a].live) /\ ac[a].stake >= Threshold /\ ac[a].key # NoKey
           S == {a \in listed : served(a)}
           f == [a \in S |-> [ac[a] EXCEPT !.status = "active", !.since = e]]
           ac2 == [a \in DOMAIN ac |-> IF a \in S THEN f[a] ELSE ac[a]]
<1>1. Promoted(ac, listed, e) = ac2
  BY DEF Promoted, Each
<1>2. S \in SUBSET Addrs /\ \A a \in S : DOMAIN f[a] = AccountFields /\ ac[a].status \in Seated
  BY DEF AcctOk, AccountFields, Seated
<1> HIDE DEF S, f
<1>3. NoNewSeats(ac, ac2)
  BY <1>2, EachKeeps
<1>4. QED
  BY <1>1, <1>3

\* Step 3 seats the approved, who count as seated already.
LEMMA AdmittedKeeps ==
    ASSUME NEW ac, AcctOk(ac), NEW listed \in SUBSET Addrs, NEW e
    PROVE  NoNewSeats(ac, Admitted(ac, listed, e))
<1> DEFINE waiting == {a \in listed : ac[a].status = "approved"}
           used == Cardinality({a \in listed : ac[a].status \in {"active", "probation"}})
           before(a) == {b \in waiting : ac[b].registeredAt < ac[a].registeredAt}
           S == {a \in waiting : Cardinality(before(a)) < Monus(MaxValidators, used)}
           f == [a \in S |-> [ac[a] EXCEPT !.status = "probation", !.since = e, !.live = Unmeasured]]
           ac2 == [a \in DOMAIN ac |-> IF a \in S THEN f[a] ELSE ac[a]]
<1>1. Admitted(ac, listed, e) = ac2
  BY DEF Admitted, Each
<1>2. S \in SUBSET Addrs /\ \A a \in S : DOMAIN f[a] = AccountFields /\ ac[a].status \in Seated
  BY DEF AcctOk, AccountFields, Seated
<1> HIDE DEF S, f
<1>3. NoNewSeats(ac, ac2)
  BY <1>2, EachKeeps
<1>4. QED
  BY <1>1, <1>3

\* The steps one after the other.
LEMMA RebuiltKeeps ==
    ASSUME NEW ac, AcctOk(ac), NEW listed \in SUBSET Addrs, NEW e, NEW x \in Rebuilt(ac, listed, e)
    PROVE  NoNewSeats(ac, x)
<1> DEFINE f == [a \in listed |-> Judged(Settled(a, ac[a], e), e)]
           first == [a \in DOMAIN ac |-> IF a \in listed THEN f[a] ELSE ac[a]]
<1>1. \A a \in listed : DOMAIN f[a] = AccountFields /\ (f[a].status \in Seated => ac[a].status \in Seated)
  BY JudgedKeeps
<1>2. x = Admitted(Promoted(Penalised(first, listed, e), listed, e), listed, e)
  BY DEF Rebuilt, Each
<1> HIDE DEF f
<1>3. NoNewSeats(ac, first)
  BY <1>1, EachKeeps
<1> HIDE DEF first
<1> DEFINE second == Penalised(first, listed, e)
           third == Promoted(second, listed, e)
<1>4. NoNewSeats(first, second)
  BY <1>3, PenalisedKeeps DEF NoNewSeats
<1> HIDE DEF second
<1>5. NoNewSeats(second, third)
  BY <1>4, PromotedKeeps DEF NoNewSeats
<1> HIDE DEF third
<1>6. NoNewSeats(third, Admitted(third, listed, e))
  BY <1>5, AdmittedKeeps DEF NoNewSeats
<1>7. QED
  BY <1>2, <1>3, <1>4, <1>5, <1>6 DEF NoNewSeats, second, third

\* Step 4: the new set is of accounts, and of the new epoch.
LEMMA NextSetOk ==
    ASSUME NEW ac, NEW listed \in SUBSET Addrs, NEW e, SetOk(set)
    PROVE  SetOk(NextSet(ac, listed, e)) /\ NextSet(ac, listed, e).epoch = e
<1>1. \A m \in NextSet(ac, listed, e).members :
         \/ \E a \in listed : m = [addr |-> a, key |-> ac[a].key]
         \/ \E o \in set.members : \E k : m = [o EXCEPT !.key = k]
  BY DEF NextSet
<1>2. QED
  BY <1>1 DEF SetOk, NextSet

\* What the end of a block makes of the validators.
LEMMA AfterBlockKeeps ==
    ASSUME AcctOk(acct), SetOk(set), SetOk(voted), NEW signers, NEW shadows \in SUBSET Addrs,
           NEW after \in AfterBlock(signers, shadows)
    PROVE  /\ NoNewSeats(acct, after.acct) /\ SetOk(after.set)
           /\ IF Epoch(now) > set.epoch THEN after.set.epoch = Epoch(now) ELSE after.set = set
<1> DEFINE qc == QcRecorded(acct, signers)
           met == ShadowsRecorded(qc, shadows)
           listed == Listed(met, set)
<1>1. NoNewSeats(acct, qc)
  BY QcKeeps
<1> HIDE DEF qc
<1>2. NoNewSeats(qc, met)
  BY <1>1, ShadowsKeep DEF NoNewSeats
<1>3. NoNewSeats(acct, met)
  BY <1>1, <1>2 DEF NoNewSeats
<1>4. listed \in SUBSET Addrs
  BY MembersInAddrs DEF Listed
<1>5. after \in IF Epoch(now) > set.epoch THEN Advanced(met, Epoch(now))
                ELSE {[acct |-> met, set |-> set, rotation |-> rotation]}
  BY DEF AfterBlock, qc
<1> HIDE DEF met
<1>6. CASE Epoch(now) > set.epoch
  <2>1. PICK next \in Rebuilt(met, listed, Epoch(now)) :
            after.acct = next /\ after.set = NextSet(next, listed, Epoch(now))
    BY <1>5, <1>6 DEF Advanced
  <2> HIDE DEF listed
  <2>2. NoNewSeats(met, next)
    BY <1>3, <1>4, RebuiltKeeps DEF NoNewSeats
  <2>3. SetOk(after.set) /\ after.set.epoch = Epoch(now)
    BY <1>4, <2>1, NextSetOk
  <2>4. QED
    BY <1>3, <1>6, <2>1, <2>2, <2>3 DEF NoNewSeats
<1>7. CASE ~(Epoch(now) > set.epoch)
  BY <1>3, <1>5, <1>7
<1>8. QED
  BY <1>6, <1>7

-----------------------------------------------------------------------------

\* One turn of remove_typed_active, and what it keeps: every identifier met that
\* is not the one removed is in the list.
Retain(kept, i, id) == IF i = id THEN kept ELSE Append(kept, i)
Retained(kept, k, s, id) ==
    /\ kept \in Seq(Ids)
    /\ \A i \in 1 .. k : s[i] # id => \E j \in DOMAIN kept : kept[j] = s[i]

Retaining == INSTANCE FoldInduction WITH Op <- Retain, P <- Retained

\* What remove_typed_active leaves: everything but the proposal removed.
LEMMA WithoutKeeps ==
    ASSUME NEW s \in Seq(Ids), NEW id
    PROVE  /\ Without(s, id) \in Seq(Ids)
           /\ \A i \in DOMAIN s : s[i] # id => \E j \in DOMAIN Without(s, id) : Without(s, id)[j] = s[i]
<1>1. Without(s, id) = Retaining!Fold(<<>>, s, id)
  BY DEF Without, Retaining!Fold, FoldLeft, MapThenFoldSet, Max, Retain,
         Retaining!FoldLeft, Retaining!MapThenFoldSet, Retaining!Max
<1>2. Retained(<<>>, 0, s, id)
  BY DEF Retained
<1>3. ASSUME NEW k \in 1 .. Len(s), NEW y, Retained(y, k - 1, s, id)
      PROVE  Retained(Retain(y, s[k], id), k, s, id)
  <2> DEFINE z == Retain(y, s[k], id)
  <2>1. y \in Seq(Ids) /\ s[k] \in Ids
    BY <1>3 DEF Retained
  <2>2. z \in Seq(Ids) /\ (s[k] # id => \E j \in DOMAIN z : z[j] = s[k])
    <3>1. CASE s[k] = id
      BY <2>1, <3>1 DEF Retain
    <3>2. CASE s[k] # id
      <4>1. z = Append(y, s[k])
        BY <3>2 DEF Retain
      <4> HIDE DEF z
      <4>2. z \in Seq(Ids) /\ Len(y) + 1 \in DOMAIN z /\ z[Len(y) + 1] = s[k]
        BY <2>1, <4>1
      <4>3. QED
        BY <4>2
    <3>3. QED
      BY <3>1, <3>2
  <2>3. \A j \in DOMAIN y : j \in DOMAIN z /\ z[j] = y[j]
    BY <2>1 DEF Retain
  <2>4. \A i \in 1 .. k : i = k \/ i \in 1 .. (k - 1)
    OBVIOUS
  <2> HIDE DEF z
  <2>5. QED
    BY <1>3, <2>2, <2>3, <2>4 DEF Retained, z
<1>4. DOMAIN s = 1 .. Len(s) /\ Len(s) \in Nat
  OBVIOUS
<1>5. Retained(Retaining!Fold(<<>>, s, id), Len(s), s, id)
  <2> HIDE DEF Retaining!Fold
  <2> QED
    BY <1>2, <1>3, <1>4, Retaining!FoldLeftInduction, Zenon
<1>6. QED
  BY <1>1, <1>4, <1>5 DEF Retained

-----------------------------------------------------------------------------

\* The shape of the governance records.
GovFields == {"props", "open", "count", "deposit", "escrow", "purse", "treasury", "adminEnd"}
ProposalFields == {"status", "votes", "ends", "executes", "created"}

\* The governance records are well formed.
GovOk(g) ==
    /\ DOMAIN g = GovFields
    /\ g.props = [id \in Ids |-> g.props[id]]
    /\ \A id \in Ids : DOMAIN g.props[id] = ProposalFields
    /\ g.open \in Seq(Ids)
    /\ g.deposit \in [Ids -> Nat] /\ g.escrow \in Nat
    /\ g.purse \in [Addrs -> Int] /\ g.treasury \in Int
    /\ g.adminEnd \in Int

\* id is one of those a boundary goes over.
InList(s, id) == \E i \in DOMAIN s : s[i] = id

\* The escrow holds the deposits, and nothing is made or lost.
Escrowed(g) == g.escrow = SumOf(g.deposit, Ids)
Conserved(g) == SumOf(g.purse, Addrs) + g.treasury + g.escrow = Purse * Cardinality(Addrs)
\* A deposit is held only for a proposal that a boundary will go over and whose
\* votes are not counted.
HeldIsOpen(g) ==
    \A id \in Ids : g.deposit[id] > 0 => InList(g.open, id) /\ g.props[id].status = "active"
\* Only a proposal that decides something waits behind the timelock.
QueuedTyped(g) == \A id \in Ids : g.props[id].status = "queued" => Typed(Find(id))
\* A vote to approve a validator was submitted after the admins' phase, which has
\* not come back.
ApprovalLate(g, t) ==
    \A id \in Ids :
        Find(id).action = "approve" /\ g.props[id].status # "absent" => g.adminEnd < t

\* The invariant of the governance records at a time.
Money(g) == Escrowed(g) /\ Conserved(g)
Stages(g, t) == HeldIsOpen(g) /\ QueuedTyped(g) /\ ApprovalLate(g, t)
GovInv(g, t) == GovOk(g) /\ Money(g) /\ Stages(g, t)

\* A proposal is found by its identifier.
LEMMA Owners == \A id \in Ids : Find(id) \in Proposals /\ Find(id).id = id /\ Find(id).proposer \in Addrs
BY GovernanceAssumption DEF Ids, Find

\* And it is the only one that has it.
LEMMA TheOne == \A p \in Proposals : p.id \in Ids /\ Find(p.id) = p
BY GovernanceAssumption DEF Ids, Find

\* The deposits and the purses are finitely many.
LEMMA FiniteIds == IsFiniteSet(Ids) /\ IsFiniteSet(Addrs)
<1> DEFINE f == [p \in Proposals |-> p.id]
<1>1. f \in Surjection(Proposals, Ids)
  BY DEF Ids, Surjection
<1>2. IsFiniteSet(Ids)
  <2> HIDE DEF f
  <2> QED  BY <1>1, GovernanceAssumption, FS_Surjection
<1>3. QED
  BY <1>2, GovernanceAssumption

\* A deposit that is settled leaves the escrow and goes to its owner or to the
\* treasury, and to nobody else.
LEMMA SettledKeeps ==
    ASSUME NEW g, NEW t, GovInv(g, t), NEW id \in Ids, NEW refund
    PROVE  LET n == DepositSettled(g, id, refund)
           IN  /\ GovInv(n, t) /\ n.props = g.props /\ n.open = g.open /\ n.adminEnd = g.adminEnd
               /\ n.deposit = [g.deposit EXCEPT ![id] = 0]
<1> DEFINE n == DepositSettled(g, id, refund)
           owner == Find(id).proposer
           d == g.deposit[id]
<1>1. /\ DOMAIN n = GovFields
      /\ n.props = g.props /\ n.open = g.open /\ n.adminEnd = g.adminEnd
      /\ n.deposit = [g.deposit EXCEPT ![id] = 0]
      /\ n.escrow = Monus(g.escrow, d)
      /\ n.purse = [g.purse EXCEPT ![owner] = IF refund THEN @ + d ELSE @]
      /\ n.treasury = IF refund THEN g.treasury ELSE g.treasury + d
  BY DEF GovInv, GovOk, GovFields, DepositSettled
<1> HIDE DEF n
<1>2. /\ g.deposit \in [Ids -> Nat] /\ g.escrow \in Nat
      /\ g.purse \in [Addrs -> Int] /\ g.treasury \in Int /\ d \in Nat
      /\ owner \in Addrs
  BY Owners DEF GovInv, GovOk
<1> HIDE DEF owner, d
<1>3. n.deposit \in [Ids -> Nat] /\ n.purse \in [Addrs -> Int] /\ n.treasury \in Int
  BY <1>1, <1>2
<1>4. SumOf(g.deposit, Ids) = g.escrow
  BY DEF GovInv, Money, Escrowed
<1>5. SumOf(n.deposit, Ids) = SumOf(g.deposit, Ids) - d /\ SumOf(n.deposit, Ids) \in Nat
  <2> DEFINE f == g.deposit
             h == n.deposit
  <2>1. /\ \A y \in Ids : f[y] \in Int /\ h[y] \in Nat
        /\ h[id] = 0 /\ f[id] = d /\ \A y \in Ids \ {id} : h[y] = f[y]
    BY <1>1, <1>2, <1>3 DEF d
  <2> HIDE DEF f, h
  <2>2. SumOf(h, Ids) = SumOf(f, Ids) - f[id] + h[id]
    BY <2>1, FiniteIds, SumChange
  <2>3. SumOf(h, Ids) \in Nat /\ SumOf(f, Ids) \in Int
    BY <2>1, FiniteIds, SumNat, SumType
  <2>4. QED
    BY <1>2, <2>1, <2>2, <2>3 DEF f, h
<1>6. n.escrow = g.escrow - d /\ n.escrow \in Nat /\ n.escrow = SumOf(n.deposit, Ids)
  BY <1>1, <1>2, <1>4, <1>5 DEF Monus
<1>7. SumOf(n.purse, Addrs) = IF refund THEN SumOf(g.purse, Addrs) + d ELSE SumOf(g.purse, Addrs)
  <2> DEFINE f == g.purse
             h == n.purse
  <2>1. /\ \A y \in Addrs : f[y] \in Int /\ h[y] \in Int
        /\ h[owner] = (IF refund THEN f[owner] + d ELSE f[owner])
        /\ \A y \in Addrs \ {owner} : h[y] = f[y]
    BY <1>1, <1>2, <1>3
  <2> HIDE DEF f, h
  <2>2. SumOf(h, Addrs) = SumOf(f, Addrs) - f[owner] + h[owner]
    BY <1>2, <2>1, FiniteIds, SumChange
  <2>3. SumOf(f, Addrs) \in Int
    BY <2>1, FiniteIds, SumType
  <2>4. QED
    BY <1>2, <2>1, <2>2, <2>3 DEF f, h
<1>8. SumOf(g.purse, Addrs) \in Int
  BY <1>2, FiniteIds, SumType
<1>9. Money(n)
  <2>1. SumOf(g.purse, Addrs) + g.treasury + g.escrow = Purse * Cardinality(Addrs)
    BY DEF GovInv, Money, Conserved
  <2>2. SumOf(n.purse, Addrs) + n.treasury + n.escrow = SumOf(g.purse, Addrs) + g.treasury + g.escrow
    BY <1>1, <1>2, <1>6, <1>7, <1>8
  <2>3. QED
    BY <1>6, <2>1, <2>2 DEF Money, Escrowed, Conserved
<1>10. GovOk(n)
  BY <1>1, <1>3, <1>6 DEF GovInv, GovOk
<1>11. Stages(n, t)
  BY <1>1, <1>2 DEF GovInv, Stages, HeldIsOpen, QueuedTyped, ApprovalLate
<1>12. QED
  BY <1>1, <1>9, <1>10, <1>11 DEF GovInv, n

\* n is g with some proposals moved along, and the admins' phase perhaps shortened.
Moved(g, n) ==
    /\ DOMAIN n = GovFields
    /\ n.deposit = g.deposit /\ n.escrow = g.escrow /\ n.purse = g.purse
    /\ n.treasury = g.treasury /\ n.adminEnd \in Int /\ n.adminEnd <= g.adminEnd
    /\ n.props = [id \in Ids |-> n.props[id]]
    /\ \A id \in Ids : DOMAIN n.props[id] = ProposalFields
    /\ n.open \in Seq(Ids)
    /\ \A id \in Ids : g.deposit[id] > 0 => (InList(g.open, id) => InList(n.open, id))
    /\ \A id \in Ids : g.deposit[id] > 0 => n.props[id].status = g.props[id].status
    /\ \A id \in Ids : n.props[id].status = "queued" => Typed(Find(id))
    /\ \A id \in Ids : g.props[id].status = "absent" => n.props[id].status = "absent"

\* Proposals move along without money, and keep the invariant.
LEMMA MovedKeeps ==
    ASSUME NEW g, NEW t \in Int, GovInv(g, t), NEW n, Moved(g, n)
    PROVE  GovInv(n, t)
<1> USE DEF Moved
<1>1. GovOk(n)
  BY DEF GovInv, GovOk
<1>2. Money(n)
  BY DEF GovInv, Money, Escrowed, Conserved
<1>3. Stages(n, t)
  <2>1. HeldIsOpen(n) /\ QueuedTyped(n)
    BY DEF GovInv, Stages, HeldIsOpen, QueuedTyped
  <2>2. ASSUME NEW id \in Ids, Find(id).action = "approve", n.props[id].status # "absent"
        PROVE  n.adminEnd < t
    BY <2>2 DEF GovInv, Stages, ApprovalLate, GovOk
  <2>3. QED
    BY <2>1, <2>2 DEF Stages, ApprovalLate
<1>4. QED
  BY <1>1, <1>2, <1>3 DEF GovInv

\* A proposal without a deposit may leave the list, and change its status.
LEMMA ClosedKeeps ==
    ASSUME NEW g, NEW t \in Int, GovInv(g, t), NEW id \in Ids, g.deposit[id] = 0,
           g.props[id].status # "absent", NEW status, status # "queued"
    PROVE  /\ GovInv(Closed(g, id), t) /\ GovInv(Terminal(g, id, status), t)
           /\ Closed(g, id).deposit = g.deposit /\ Terminal(g, id, status).deposit = g.deposit
           /\ Closed(g, id).adminEnd = g.adminEnd /\ Terminal(g, id, status).adminEnd = g.adminEnd
           /\ Closed(g, id).props = g.props
           /\ \A x \in Ids \ {id} : Terminal(g, id, status).props[x] = g.props[x]
<1> DEFINE n == Closed(g, id)
           m == Terminal(g, id, status)
           w == Without(g.open, id)
<1>1. w \in Seq(Ids) /\ \A x \in Ids \ {id} : InList(g.open, x) => InList(w, x)
  BY WithoutKeeps DEF InList, GovInv, GovOk
<1> HIDE DEF w
<1>2. /\ DOMAIN n = GovFields /\ n.open = w /\ n.props = g.props
      /\ n.deposit = g.deposit /\ n.escrow = g.escrow /\ n.purse = g.purse
      /\ n.treasury = g.treasury /\ n.adminEnd = g.adminEnd
  BY DEF GovInv, GovOk, GovFields, Closed, w
<1> HIDE DEF n
<1>3. m = [n EXCEPT !.props[id].status = status, !.count = Monus(@, 1)]
  BY DEF Terminal, n
<1>4. /\ DOMAIN m = GovFields /\ m.open = w
      /\ m.props = [g.props EXCEPT ![id].status = status]
      /\ m.deposit = g.deposit /\ m.escrow = g.escrow /\ m.purse = g.purse
      /\ m.treasury = g.treasury /\ m.adminEnd = g.adminEnd
  BY <1>2, <1>3 DEF GovFields
<1> HIDE DEF m
<1>5. /\ g.props = [x \in Ids |-> g.props[x]]
      /\ \A x \in Ids : DOMAIN g.props[x] = ProposalFields /\ g.deposit[x] \in Nat
      /\ g.adminEnd \in Int
  BY DEF GovInv, GovOk
<1>6. /\ m.props = [x \in Ids |-> m.props[x]]
      /\ \A x \in Ids : DOMAIN m.props[x] = ProposalFields
      /\ m.props[id].status = status /\ \A x \in Ids \ {id} : m.props[x] = g.props[x]
  BY <1>4, <1>5 DEF ProposalFields
<1>7. \A x \in Ids : g.props[x].status = "queued" => Typed(Find(x))
  BY DEF GovInv, Stages, QueuedTyped
<1>8. \A x \in Ids : g.deposit[x] > 0 => x # id
  OBVIOUS
<1>9. \A x \in Ids : g.deposit[x] > 0 => (InList(g.open, x) => InList(w, x))
  BY <1>1, <1>8
<1>10. GovInv(n, t)
  <2>1. Moved(g, n)
    BY <1>1, <1>2, <1>5, <1>7, <1>9 DEF Moved
  <2>2. QED
    BY <2>1, MovedKeeps
<1>11. \A x \in Ids : m.props[x].status = "queued" => Typed(Find(x))
  BY <1>6, <1>7
<1>12. \A x \in Ids : g.deposit[x] > 0 => m.props[x].status = g.props[x].status
  BY <1>6, <1>8
<1>13. \A x \in Ids : g.props[x].status = "absent" => m.props[x].status = "absent"
  BY <1>6
<1>14. GovInv(m, t)
  <2>1. /\ DOMAIN m = GovFields /\ m.open = w
        /\ m.deposit = g.deposit /\ m.escrow = g.escrow /\ m.purse = g.purse
        /\ m.treasury = g.treasury /\ m.adminEnd \in Int /\ m.adminEnd <= g.adminEnd
    BY <1>4, <1>5
  <2>2. m.props = [x \in Ids |-> m.props[x]] /\ \A x \in Ids : DOMAIN m.props[x] = ProposalFields
    BY <1>6
  <2>3. Moved(g, m)
    BY <1>1, <1>9, <1>11, <1>12, <1>13, <2>1, <2>2 DEF Moved
  <2>4. QED
    BY <2>3, MovedKeeps
<1>15. QED
  BY <1>2, <1>4, <1>6, <1>10, <1>14 DEF n, m

-----------------------------------------------------------------------------

\* A world, between two proposals of a boundary.
WorldFields == {"acct", "set", "gov", "params", "endorsed", "gate"}

\* Approvals on record were given by whoever could give them then.
GateOk(g) ==
    /\ g = [a \in Addrs |-> g[a]]
    /\ \A a \in Addrs : /\ DOMAIN g[a] = {"by", "at", "phaseEnd"}
                        /\ g[a].by = "admin" => g[a].at <= g[a].phaseEnd
                        /\ g[a].by = "vote" => g[a].at > g[a].phaseEnd

\* The proposals as the boundary finds them are those of the state before it:
\* the ones gone over whose votes have ended hold no deposit any more.
Timely(g, k, s, e) ==
    /\ \A id \in Ids : g.deposit[id] > 0 => g.props[id] = gov.props[id] /\ gov.deposit[id] > 0
    /\ \A i \in 1 .. k :
          gov.props[s[i]].status = "active" /\ e >= gov.props[s[i]].ends => g.deposit[s[i]] = 0

\* What the invariant says of a world.
WorldOk(b, e) ==
    /\ DOMAIN b = WorldFields
    /\ AcctOk(b.acct) /\ SeatedIn(b.acct) \subseteq b.endorsed
    /\ SetOk(b.set) /\ b.set.epoch = e
    /\ GateOk(b.gate)
    /\ GovInv(b.gov, now)

\* One proposal done with: it holds no deposit, the others are untouched.
LEMMA TimelyKeeps ==
    ASSUME NEW g, NEW n, NEW s, NEW e, NEW k \in Nat, k # 0, NEW id \in Ids, s[k] = id,
           Timely(g, k - 1, s, e), \A i \in 1 .. k : s[i] \in Ids,
           n.deposit = [g.deposit EXCEPT ![id] = 0], g.deposit \in [Ids -> Nat],
           \A x \in Ids \ {id} : n.props[x] = g.props[x]
    PROVE  Timely(n, k, s, e)
<1>1. n.deposit[id] = 0 /\ \A x \in Ids \ {id} : n.deposit[x] = g.deposit[x]
  OBVIOUS
<1>2. \A x \in Ids : n.deposit[x] > 0 => n.props[x] = gov.props[x] /\ gov.deposit[x] > 0
  BY <1>1 DEF Timely
<1>3. ASSUME NEW i \in 1 .. k, gov.props[s[i]].status = "active", e >= gov.props[s[i]].ends
      PROVE  n.deposit[s[i]] = 0
  <2>1. CASE s[i] = id
    BY <1>1, <2>1
  <2>2. CASE s[i] # id
    <3>1. i \in 1 .. (k - 1) /\ s[i] \in Ids \ {id}
      BY <2>2
    <3>2. QED
      BY <1>1, <1>3, <3>1 DEF Timely
  <2>3. QED
    BY <2>1, <2>2
<1>4. QED
  BY <1>2, <1>3 DEF Timely

\* The end of a voting window settles the deposit, whichever way it ends.
LEMMA CountedKeeps ==
    ASSUME now \in Int, NEW b, NEW e, WorldOk(b, e), NEW id \in Ids, b.gov.props[id].status = "active"
    PROVE  LET n == Counted(b, Find(id), e)
           IN  /\ WorldOk(n, e)
               /\ n.gov.deposit = [b.gov.deposit EXCEPT ![id] = 0]
               /\ \A x \in Ids \ {id} : n.gov.props[x] = b.gov.props[x]
<1> DEFINE p == Find(id)
           r == b.gov.props[id]
           refund == QuorumReached(b, p, r)
           paid == DepositSettled(b.gov, id, refund)
           back == DepositSettled(b.gov, id, TRUE)
           waits == [back EXCEPT !.props[id].status = "queued",
                                 !.props[id].executes = e + params.timelock]
           n == Counted(b, p, e)
<1>1. p.id = id
  BY Owners
<1>2. \/ n = [b EXCEPT !.gov = Closed(paid, id)]
      \/ n = [b EXCEPT !.gov = Terminal(paid, id, "rejected")]
      \/ n = [b EXCEPT !.gov = waits] /\ Typed(p)
  BY <1>1 DEF Counted
<1> HIDE DEF n, refund
<1>3. GovInv(b.gov, now) /\ b.gov.deposit \in [Ids -> Nat]
  BY DEF WorldOk, GovInv, GovOk
<1>4. /\ GovInv(paid, now) /\ paid.props = b.gov.props
      /\ paid.deposit = [b.gov.deposit EXCEPT ![id] = 0]
      /\ GovInv(back, now) /\ back.props = b.gov.props /\ back.open = b.gov.open
      /\ back.deposit = [b.gov.deposit EXCEPT ![id] = 0]
  <2>1. ASSUME NEW y
        PROVE  /\ GovInv(DepositSettled(b.gov, id, y), now)
               /\ DepositSettled(b.gov, id, y).props = b.gov.props
               /\ DepositSettled(b.gov, id, y).open = b.gov.open
               /\ DepositSettled(b.gov, id, y).deposit = [b.gov.deposit EXCEPT ![id] = 0]
    <3> DEFINE g == b.gov
    <3>1. GovInv(g, now)
      BY <1>3
    <3> HIDE DEF g
    <3>2. /\ GovInv(DepositSettled(g, id, y), now)
          /\ DepositSettled(g, id, y).props = g.props
          /\ DepositSettled(g, id, y).open = g.open
          /\ DepositSettled(g, id, y).deposit = [g.deposit EXCEPT ![id] = 0]
      BY <3>1, SettledKeeps
    <3>3. QED
      BY <3>2 DEF g
  <2>2. QED
    BY <2>1
<1> HIDE DEF paid, back
<1>5. paid.deposit[id] = 0 /\ back.deposit[id] = 0 /\ paid.props[id].status # "absent"
  BY <1>3, <1>4
<1>6. ASSUME NEW m, n = [b EXCEPT !.gov = m], GovInv(m, now), m.deposit = [b.gov.deposit EXCEPT ![id] = 0],
             \A x \in Ids \ {id} : m.props[x] = b.gov.props[x]
      PROVE  /\ WorldOk(n, e) /\ n.gov.deposit = [b.gov.deposit EXCEPT ![id] = 0]
             /\ \A x \in Ids \ {id} : n.gov.props[x] = b.gov.props[x]
  BY <1>6 DEF WorldOk, WorldFields
<1>7. CASE n = [b EXCEPT !.gov = Closed(paid, id)]
  <2>1. GovInv(Closed(paid, id), now) /\ Closed(paid, id).deposit = paid.deposit
        /\ Closed(paid, id).props = paid.props
    BY <1>4, <1>5, ClosedKeeps
  <2>2. QED
    BY <1>4, <1>6, <1>7, <2>1 DEF n
<1>8. CASE n = [b EXCEPT !.gov = Terminal(paid, id, "rejected")]
  <2>1. GovInv(Terminal(paid, id, "rejected"), now) /\ Terminal(paid, id, "rejected").deposit = paid.deposit
        /\ \A x \in Ids \ {id} : Terminal(paid, id, "rejected").props[x] = paid.props[x]
    <3> DEFINE g == paid
               status == "rejected"
    <3>1. status # "queued" /\ GovInv(g, now) /\ g.deposit[id] = 0 /\ g.props[id].status # "absent"
      BY <1>4, <1>5
    <3> HIDE DEF g, status
    <3>2. /\ GovInv(Terminal(g, id, status), now) /\ Terminal(g, id, status).deposit = g.deposit
          /\ \A x \in Ids \ {id} : Terminal(g, id, status).props[x] = g.props[x]
      BY <3>1, ClosedKeeps
    <3>3. QED
      BY <3>2 DEF g, status
  <2>2. QED
    BY <1>4, <1>6, <1>8, <2>1 DEF n
<1>9. CASE n = [b EXCEPT !.gov = waits] /\ Typed(p)
  <2>1. /\ DOMAIN back = GovFields /\ back.props = [x \in Ids |-> back.props[x]]
        /\ \A x \in Ids : DOMAIN back.props[x] = ProposalFields /\ back.deposit[x] \in Nat
        /\ back.open \in Seq(Ids) /\ back.adminEnd \in Int
        /\ \A x \in Ids : back.props[x].status = "queued" => Typed(Find(x))
    BY <1>4 DEF GovInv, GovOk, Stages, QueuedTyped
  <2>2. /\ DOMAIN waits = GovFields /\ waits.open = back.open
        /\ waits.deposit = back.deposit /\ waits.escrow = back.escrow /\ waits.purse = back.purse
        /\ waits.treasury = back.treasury /\ waits.adminEnd = back.adminEnd
        /\ waits.props = [back.props EXCEPT ![id] =
                               [back.props[id] EXCEPT !.status = "queued", !.executes = e + params.timelock]]
    BY <2>1 DEF GovFields
  <2> HIDE DEF waits
  <2>3. /\ waits.props = [x \in Ids |-> waits.props[x]]
        /\ \A x \in Ids : DOMAIN waits.props[x] = ProposalFields
        /\ waits.props[id].status = "queued" /\ \A x \in Ids \ {id} : waits.props[x] = back.props[x]
    BY <2>1, <2>2 DEF ProposalFields
  <2>4. \A x \in Ids : waits.props[x].status = "queued" => Typed(Find(x))
    BY <1>9, <2>1, <2>3
  <2>5. \A x \in Ids : back.deposit[x] > 0 =>
           (InList(back.open, x) => InList(waits.open, x)) /\ waits.props[x].status = back.props[x].status
    BY <1>5, <2>2, <2>3
  <2>6. \A x \in Ids : back.props[x].status = "absent" => waits.props[x].status = "absent"
    BY <1>4, <2>3
  <2>7. waits.open \in Seq(Ids) /\ waits.adminEnd \in Int /\ waits.adminEnd <= back.adminEnd
    BY <2>1, <2>2
  <2>8. GovInv(waits, now)
    <3>1. GovInv(back, now)
      BY <1>4
    <3>2. \A x \in Ids : back.deposit[x] > 0 => (InList(back.open, x) => InList(waits.open, x))
      BY <2>5
    <3>3. \A x \in Ids : back.deposit[x] > 0 => waits.props[x].status = back.props[x].status
      BY <2>5
    <3>4. QED
      <4>1. Moved(back, waits)
        BY <3>2, <3>3, <2>2, <2>3, <2>4, <2>6, <2>7 DEF Moved
      <4>2. QED
        BY <3>1, <4>1, MovedKeeps
  <2>9. QED
    BY <1>4, <1>6, <1>9, <2>2, <2>3, <2>8 DEF n
<1>10. QED
  BY <1>2, <1>7, <1>8, <1>9 DEF n

\* An approval seats one account.
LEMMA ApprovedSeats ==
    ASSUME NEW ac, AcctOk(ac), NEW a \in Addrs, NEW e
    PROVE  AcctOk(Approved(ac, a, e)) /\ SeatedIn(Approved(ac, a, e)) \subseteq SeatedIn(ac) \cup {a}
BY DEF AcctOk, AccountFields, Approved, SeatedIn

\* A removal takes one seat.
LEMMA RemovedSeats ==
    ASSUME NEW ac, AcctOk(ac), NEW a \in Addrs, NEW e
    PROVE  AcctOk(Removed(ac, a, e)) /\ SeatedIn(Removed(ac, a, e)) \subseteq SeatedIn(ac) \ {a}
BY DEF AcctOk, AccountFields, Removed, SeatedIn, Seated

\* A decision taken by vote: an approval is one given after the admins' phase.
LEMMA EffectKeeps ==
    ASSUME now \in Int, NEW b, NEW e, WorldOk(b, e), NEW p \in Proposals, Typed(p),
           Executable(b, p, e), p.action = "approve" => b.gov.adminEnd < now
    PROVE  LET n == Effect(b, p, e)
           IN  /\ WorldOk(n, e) /\ n.gov.deposit = b.gov.deposit /\ n.gov.props = b.gov.props
<1> DEFINE n == Effect(b, p, e)
<1>1. p.action \in {"param", "shorten", "approve", "remove"}
  BY GovernanceAssumption DEF Typed
<1>2. /\ DOMAIN b = WorldFields
      /\ AcctOk(b.acct) /\ SeatedIn(b.acct) \subseteq b.endorsed
      /\ SetOk(b.set) /\ b.set.epoch = e
      /\ GateOk(b.gate) /\ GovInv(b.gov, now) /\ DOMAIN b.gov = GovFields /\ b.gov.adminEnd \in Int
  BY DEF WorldOk, GovInv, GovOk
<1>3. CASE p.action = "param"
  <2>1. n = [b EXCEPT !.params = p.value]
    BY <1>3 DEF Effect
  <2> HIDE DEF n
  <2>2. DOMAIN n = WorldFields /\ n.acct = b.acct /\ n.set = b.set /\ n.gov = b.gov
        /\ n.endorsed = b.endorsed /\ n.gate = b.gate
    BY <1>2, <2>1 DEF WorldFields
  <2>3. QED
    BY <1>2, <2>2 DEF WorldOk, n
<1>4. CASE p.action = "shorten"
  <2> DEFINE g == b.gov
             m == [g EXCEPT !.adminEnd = p.value]
  <2>1. n = [b EXCEPT !.gov = m]
    BY <1>4 DEF Effect
  <2>2. p.value \in Int /\ p.value < g.adminEnd
    BY <1>4, GovernanceAssumption DEF Executable
  <2>3. GovInv(g, now)
    BY <1>2
  <2>4. DOMAIN g = GovFields /\ g.adminEnd \in Int
    BY <1>2
  <2> HIDE DEF n, g
  <2>5. /\ DOMAIN m = GovFields /\ m.props = g.props /\ m.open = g.open
        /\ m.deposit = g.deposit /\ m.escrow = g.escrow /\ m.purse = g.purse
        /\ m.treasury = g.treasury /\ m.adminEnd = p.value
    BY <2>4 DEF GovFields
  <2> HIDE DEF m
  <2>6. Moved(g, m)
    BY <2>2, <2>3, <2>4, <2>5 DEF Moved, GovInv, GovOk, Stages, QueuedTyped
  <2>7. GovInv(m, now)
    BY <2>3, <2>6, MovedKeeps
  <2>8. DOMAIN n = WorldFields /\ n.acct = b.acct /\ n.set = b.set /\ n.gov = m
        /\ n.endorsed = b.endorsed /\ n.gate = b.gate
    BY <1>2, <2>1 DEF WorldFields
  <2>9. WorldOk(n, e)
    BY <1>2, <2>7, <2>8 DEF WorldOk
  <2>10. QED
    BY <2>5, <2>8, <2>9 DEF n, g
<1>5. CASE p.action = "approve"
  <2> DEFINE a == p.target
             ac == Approved(b.acct, a, e)
             mark == [by |-> "vote", at |-> now, phaseEnd |-> b.gov.adminEnd]
             gt == [b.gate EXCEPT ![a] = mark]
  <2>1. n = [b EXCEPT !.acct = ac, !.endorsed = @ \cup {a}, !.gate = gt]
    BY <1>5 DEF Effect
  <2>2. a \in Addrs
    BY <1>5, GovernanceAssumption
  <2>3. AcctOk(ac) /\ SeatedIn(ac) \subseteq SeatedIn(b.acct) \cup {a}
    BY <1>2, <2>2, ApprovedSeats
  <2>4. GateOk(gt)
    <3>1. DOMAIN mark = {"by", "at", "phaseEnd"} /\ mark.by = "vote" /\ mark.at > mark.phaseEnd
      BY <1>2, <1>5
    <3> HIDE DEF mark
    <3>2. QED
      BY <1>2, <2>2, <3>1 DEF GateOk
  <2> HIDE DEF n, ac, gt
  <2>5. DOMAIN n = WorldFields /\ n.acct = ac /\ n.set = b.set /\ n.gov = b.gov
        /\ n.endorsed = b.endorsed \cup {a} /\ n.gate = gt
    BY <1>2, <2>1 DEF WorldFields
  <2>6. QED
    BY <1>2, <2>3, <2>4, <2>5 DEF WorldOk, n
<1>6. CASE p.action = "remove"
  <2> DEFINE a == p.target
             ac == Removed(b.acct, a, e)
  <2>1. n = [b EXCEPT !.acct = ac, !.endorsed = @ \ {a}]
    BY <1>6 DEF Effect
  <2>2. a \in Addrs
    BY <1>6, GovernanceAssumption
  <2>3. AcctOk(ac) /\ SeatedIn(ac) \subseteq SeatedIn(b.acct) \ {a}
    BY <1>2, <2>2, RemovedSeats
  <2> HIDE DEF n, ac
  <2>5. DOMAIN n = WorldFields /\ n.acct = ac /\ n.set = b.set /\ n.gov = b.gov
        /\ n.endorsed = b.endorsed \ {a} /\ n.gate = b.gate
    BY <1>2, <2>1 DEF WorldFields
  <2>6. QED
    BY <1>2, <2>3, <2>5 DEF WorldOk, n
<1>7. QED
  BY <1>1, <1>3, <1>4, <1>5, <1>6

\* The proposal id holds no deposit any more, and the others are as they were.
Left(g, n, id) ==
    /\ n.deposit = [g.deposit EXCEPT ![id] = 0]
    /\ \A x \in Ids \ {id} : n.props[x] = g.props[x]

\* A decision whose timelock is over leaves the list, carried out or not.
LEMMA ExecutedKeeps ==
    ASSUME now \in Int, NEW b, NEW e, WorldOk(b, e), NEW id \in Ids, b.gov.props[id].status = "queued",
           NEW done, done = IF Executable(b, Find(id), e) THEN Effect(b, Find(id), e) ELSE b,
           NEW status, status # "queued", NEW n, n = [done EXCEPT !.gov = Terminal(done.gov, id, status)]
    PROVE  WorldOk(n, e) /\ Left(b.gov, n.gov, id)
<1> DEFINE g == done.gov
           m == Terminal(g, id, status)
<1>1. Find(id) \in Proposals /\ Typed(Find(id))
      /\ (Find(id).action = "approve" => b.gov.adminEnd < now)
      /\ b.gov.deposit \in [Ids -> Nat] /\ b.gov.deposit[id] = 0
  BY Owners DEF WorldOk, GovInv, GovOk, Stages, QueuedTyped, ApprovalLate, HeldIsOpen
<1>2. WorldOk(done, e) /\ done.gov.deposit = b.gov.deposit /\ done.gov.props = b.gov.props
  BY <1>1, EffectKeeps
<1>3. GovInv(g, now) /\ g.deposit[id] = 0 /\ g.props[id].status # "absent"
      /\ g.deposit = b.gov.deposit /\ g.props = b.gov.props
  BY <1>1, <1>2 DEF WorldOk
<1> HIDE DEF g
<1>4. GovInv(m, now) /\ m.deposit = g.deposit /\ \A x \in Ids \ {id} : m.props[x] = g.props[x]
  BY <1>3, ClosedKeeps
<1>5. n = [done EXCEPT !.gov = m]
  BY DEF g
<1> HIDE DEF m
<1>6. DOMAIN done = WorldFields
  BY <1>2 DEF WorldOk
<1>7. DOMAIN n = WorldFields /\ n.acct = done.acct /\ n.set = done.set /\ n.gov = m
      /\ n.endorsed = done.endorsed /\ n.gate = done.gate
  BY <1>5, <1>6 DEF WorldFields
<1>8. WorldOk(n, e)
  BY <1>2, <1>4, <1>7 DEF WorldOk
<1>9. n.gov.deposit = [b.gov.deposit EXCEPT ![id] = 0]
  BY <1>1, <1>3, <1>4, <1>7
<1>10. QED
  BY <1>3, <1>4, <1>7, <1>8, <1>9 DEF Left

\* One turn of process_at_epoch, whatever becomes of the proposal.
LEMMA ProcessedKeeps ==
    ASSUME now \in Int, NEW b, NEW e, WorldOk(b, e), NEW s, NEW k \in Nat, k # 0,
           \A i \in 1 .. k : s[i] \in Ids, Timely(b.gov, k - 1, s, e)
    PROVE  LET n == Processed(b, s[k], e) IN WorldOk(n, e) /\ Timely(n.gov, k, s, e)
<1> DEFINE id == s[k]
           p == Find(id)
           r == b.gov.props[id]
           n == Processed(b, id, e)
           done == IF Executable(b, p, e) THEN Effect(b, p, e) ELSE b
           status == IF Executable(b, p, e) THEN "executed" ELSE "rejected"
           counted == Counted(b, p, e)
           executed == [done EXCEPT !.gov = Terminal(@, id, status)]
<1>1. id \in Ids
  OBVIOUS
<1>2. n = IF r.status = "active" /\ e >= r.ends THEN counted
          ELSE IF r.status = "queued" /\ e >= r.executes THEN executed ELSE b
  BY DEF Processed
<1>3. b.gov.deposit \in [Ids -> Nat]
  BY DEF WorldOk, GovInv, GovOk
<1> HIDE DEF n
<1>4. CASE r.status = "active" /\ e >= r.ends
  <2>1. WorldOk(counted, e) /\ counted.gov.deposit = [b.gov.deposit EXCEPT ![id] = 0]
        /\ \A x \in Ids \ {id} : counted.gov.props[x] = b.gov.props[x]
    <3> HIDE DEF id
    <3>1. /\ WorldOk(Counted(b, Find(id), e), e)
          /\ Counted(b, Find(id), e).gov.deposit = [b.gov.deposit EXCEPT ![id] = 0]
          /\ \A x \in Ids \ {id} : Counted(b, Find(id), e).gov.props[x] = b.gov.props[x]
      BY <1>1, <1>4, CountedKeeps
    <3>2. QED
      BY <3>1
  <2> HIDE DEF counted, id
  <2>2. Timely(counted.gov, k, s, e)
    <3> DEFINE g == b.gov
               m == counted.gov
    <3>1. /\ m.deposit = [g.deposit EXCEPT ![id] = 0] /\ g.deposit \in [Ids -> Nat]
          /\ \A x \in Ids \ {id} : m.props[x] = g.props[x]
      BY <1>3, <2>1
    <3>2. Timely(g, k - 1, s, e) /\ s[k] = id
      BY DEF id
    <3> HIDE DEF g, m
    <3>3. Timely(m, k, s, e)
      BY <1>1, <3>1, <3>2, TimelyKeeps
    <3>4. QED
      BY <3>3 DEF m
  <2>3. QED
    BY <1>2, <1>4, <2>1, <2>2 DEF n, id
<1>5. CASE r.status = "queued" /\ e >= r.executes
  <2>1. status # "queued"
    OBVIOUS
  <2> HIDE DEF status, done
  <2>2. WorldOk(executed, e) /\ executed.gov.deposit = [b.gov.deposit EXCEPT ![id] = 0]
        /\ \A x \in Ids \ {id} : executed.gov.props[x] = b.gov.props[x]
    <3> HIDE DEF id
    <3>1. done = IF Executable(b, Find(id), e) THEN Effect(b, Find(id), e) ELSE b
      BY DEF done
    <3>2. executed = [done EXCEPT !.gov = Terminal(done.gov, id, status)]
      OBVIOUS
    <3> HIDE DEF executed
    <3>3. b.gov.props[id].status = "queued"
      BY <1>5
    <3>4. WorldOk(executed, e)
      BY <1>1, <2>1, <3>1, <3>2, <3>3, ExecutedKeeps, Zenon
    <3>5. Left(b.gov, executed.gov, id)
      BY <1>1, <2>1, <3>1, <3>2, <3>3, ExecutedKeeps, Zenon
    <3>6. QED
      BY <3>4, <3>5 DEF Left
  <2> HIDE DEF executed, id
  <2>3. Timely(executed.gov, k, s, e)
    <3> DEFINE g == b.gov
               m == executed.gov
    <3>1. /\ m.deposit = [g.deposit EXCEPT ![id] = 0] /\ g.deposit \in [Ids -> Nat]
          /\ \A x \in Ids \ {id} : m.props[x] = g.props[x]
      BY <1>3, <2>2
    <3>2. Timely(g, k - 1, s, e) /\ s[k] = id
      BY DEF id
    <3> HIDE DEF g, m
    <3>3. Timely(m, k, s, e)
      BY <1>1, <3>1, <3>2, TimelyKeeps
    <3>4. QED
      BY <3>3 DEF m
  <2>4. QED
    BY <1>2, <1>5, <2>2, <2>3 DEF n, id
<1>6. CASE ~(r.status = "active" /\ e >= r.ends) /\ ~(r.status = "queued" /\ e >= r.executes)
  <2>1. n = b
    BY <1>2, <1>6
  <2>2. b.gov.deposit[id] > 0 => ~(gov.props[id].status = "active" /\ e >= gov.props[id].ends)
    BY <1>1, <1>6 DEF Timely
  <2>3. gov.props[id].status = "active" /\ e >= gov.props[id].ends => b.gov.deposit[id] = 0
    BY <1>1, <1>3, <2>2
  <2>4. \A i \in 1 .. k : i = k \/ i \in 1 .. (k - 1)
    OBVIOUS
  <2>5. Timely(b.gov, k, s, e)
    BY <2>3, <2>4 DEF Timely
  <2>6. QED
    BY <2>1, <2>5 DEF n
<1>7. QED
  BY <1>4, <1>5, <1>6

\* The boundary's loop over the open proposals, and what each turn keeps.
Turn(worlds, id, e) == {Processed(b, id, e) : b \in worlds}
TurnKeeps(worlds, k, s, e) == \A b \in worlds : WorldOk(b, e) /\ Timely(b.gov, k, s, e)

Boundary == INSTANCE FoldInduction WITH Op <- Turn, P <- TurnKeeps

\* The whole boundary.
LEMMA AllProcessedKeeps ==
    ASSUME now \in Int, gov.open \in Seq(Ids), NEW world, NEW e, WorldOk(world, e), world.gov = gov,
           NEW b \in AllProcessed(world, e)
    PROVE  WorldOk(b, e) /\ Timely(b.gov, Len(gov.open), gov.open, e)
<1> DEFINE s == gov.open
<1>1. AllProcessed(world, e) = Boundary!Fold({world}, s, e)
  BY DEF AllProcessed, Boundary!Fold, FoldLeft, MapThenFoldSet, Max, Turn,
         Boundary!FoldLeft, Boundary!MapThenFoldSet, Boundary!Max
<1>2. TurnKeeps({world}, 0, s, e)
  BY DEF TurnKeeps, Timely
<1> HIDE DEF s
<1>3. DOMAIN s = 1 .. Len(s) /\ Len(s) \in Nat /\ \A i \in 1 .. Len(s) : s[i] \in Ids
  BY DEF s
<1>4. ASSUME NEW k \in 1 .. Len(s), NEW y, TurnKeeps(y, k - 1, s, e)
      PROVE  TurnKeeps(Turn(y, s[k], e), k, s, e)
  <2> SUFFICES ASSUME NEW x \in y
               PROVE  LET n == Processed(x, s[k], e) IN WorldOk(n, e) /\ Timely(n.gov, k, s, e)
    BY DEF TurnKeeps, Turn
  <2>1. WorldOk(x, e) /\ Timely(x.gov, k - 1, s, e)
    BY <1>4 DEF TurnKeeps
  <2>2. k \in Nat /\ k # 0 /\ \A i \in 1 .. k : s[i] \in Ids
    BY <1>3
  <2>3. QED
    BY <2>1, <2>2, ProcessedKeeps
<1>5. TurnKeeps(Boundary!Fold({world}, s, e), Len(s), s, e)
  <2> HIDE DEF Boundary!Fold
  <2> QED
    BY <1>2, <1>3, <1>4, Boundary!FoldLeftInduction, Zenon
<1>6. QED
  BY <1>1, <1>5 DEF TurnKeeps, s

-----------------------------------------------------------------------------

\* The part of the invariant that is about accounts.
Standing == AcctOk(acct) /\ SeatedIn(acct) \subseteq endorsed

\* The inductive invariant.
GovernanceInv ==
    /\ now \in Int
    /\ Standing
    /\ SetOk(set) /\ SetOk(voted) /\ GateOk(gate) /\ GovInv(gov, now)

\* Genesis: the validators it starts with count as approved.
LEMMA InitStanding == GovInit => Standing /\ SetOk(set) /\ SetOk(voted) /\ GateOk(gate) /\ now \in Int
<1> SUFFICES ASSUME GovInit PROVE Standing /\ SetOk(set) /\ SetOk(voted) /\ GateOk(gate) /\ now \in Int
  OBVIOUS
<1>1. AcctOk(acct)
  BY DEF GovInit, ValidatorsInit, AcctOk, AccountFields
<1>2. SeatedIn(acct) \subseteq endorsed
  BY DEF GovInit, ValidatorsInit, SeatedIn, Seated
<1>3. SetOk(set) /\ SetOk(voted)
  <2>1. set.members = {[addr |-> a, key |-> acct[a].key] : a \in GenesisSet} /\ voted = set
    BY DEF GovInit, ValidatorsInit
  <2>2. \A m \in set.members : \E a \in GenesisSet : m = [addr |-> a, key |-> acct[a].key]
    BY <2>1
  <2>3. QED
    BY <2>1, <2>2, ValidatorsAssumption DEF SetOk
<1>4. GateOk(gate)
  BY DEF GovInit, GateOk
<1>5. now \in Int
  BY DEF GovInit, ValidatorsInit
<1>6. QED
  BY <1>1, <1>2, <1>3, <1>4, <1>5 DEF Standing

\* Genesis: no proposal and no deposit.
LEMMA InitGov == GovInit => GovInv(gov, now)
<1> SUFFICES ASSUME GovInit PROVE GovInv(gov, now)
  OBVIOUS
<1>1. GovOk(gov)
  BY GovernanceAssumption DEF GovInit, GovOk, GovFields, ProposalFields, Absent
<1>2. Escrowed(gov)
  <2> DEFINE f == gov.deposit
  <2>1. (\A x \in Ids : f[x] = 0) /\ gov.escrow = 0
    BY DEF GovInit
  <2> HIDE DEF f
  <2>2. SumOf(f, Ids) = 0 * Cardinality(Ids)
    BY <2>1, FiniteIds, SumConstant
  <2>3. Cardinality(Ids) \in Nat
    BY FiniteIds, FS_CardinalityType
  <2>4. QED
    BY <2>1, <2>2, <2>3 DEF Escrowed, f
<1>3. Conserved(gov)
  <2> DEFINE f == gov.purse
  <2>1. (\A x \in Addrs : f[x] = Purse) /\ gov.escrow = 0 /\ gov.treasury = 0
    BY DEF GovInit
  <2> HIDE DEF f
  <2>2. SumOf(f, Addrs) = Purse * Cardinality(Addrs)
    BY <2>1, FiniteIds, GovernanceAssumption, SumConstant
  <2>3. Cardinality(Addrs) \in Nat
    BY FiniteIds, FS_CardinalityType
  <2>4. Purse * Cardinality(Addrs) \in Int
    BY <2>3, GovernanceAssumption
  <2>5. QED
    BY <2>1, <2>2, <2>4 DEF Conserved, f
<1>4. \A id \in Ids : gov.props[id].status = "absent" /\ gov.deposit[id] = 0
  BY DEF GovInit, Absent
<1>5. Stages(gov, now)
  BY <1>4 DEF Stages, HeldIsOpen, QueuedTyped, ApprovalLate
<1>6. QED
  BY <1>1, <1>2, <1>3, <1>5 DEF GovInv, Money

\* One account's record rewritten.
LEMMA RewrittenSeats ==
    ASSUME NEW ac, AcctOk(ac), NEW a \in Addrs, NEW v, DOMAIN v = AccountFields,
           NEW ac2, ac2 = [ac EXCEPT ![a] = v]
    PROVE  /\ AcctOk(ac2)
           /\ v.status \notin Seated => SeatedIn(ac2) \subseteq SeatedIn(ac) \ {a}
           /\ v.status = ac[a].status => SeatedIn(ac2) \subseteq SeatedIn(ac)
BY DEF AcctOk, SeatedIn

\* What changes an account's own standing.
LEMMA LifecycleKeeps == Standing /\ Lifecycle => Standing' /\ UNCHANGED <<set, voted, now, gov, gate>>
<1> SUFFICES ASSUME Standing, Lifecycle PROVE Standing' /\ UNCHANGED <<set, voted, now, gov, gate>>
  OBVIOUS
<1>1. PICK a \in Actors :
          \/ \E k \in Keys[a] : Register(a, k) \/ RotateConsensusKey(a, k)
          \/ Unregister(a) \/ Slash(a)
          \/ \E n \in Stakes : ChangeStake(a, n)
  BY DEF Lifecycle
<1>2. UNCHANGED <<set, voted, now, gov, gate>>
  BY <1>1 DEF Lifecycle, Tx, Register, RotateConsensusKey, Unregister, Slash, ChangeStake
<1>3. a \in Addrs
  BY GovernanceAssumption
<1>4. AcctOk(acct) /\ SeatedIn(acct) \subseteq endorsed /\ DOMAIN acct[a] = AccountFields
      /\ DOMAIN acct = Addrs
  BY <1>3 DEF Standing, AcctOk
<1>5. ASSUME NEW v, acct' = [acct EXCEPT ![a] = v], DOMAIN v = AccountFields,
             \/ v.status \notin Seated /\ SeatedIn(acct) \ {a} \subseteq endorsed'
             \/ v.status = acct[a].status /\ SeatedIn(acct) \subseteq endorsed'
      PROVE  Standing'
  <2> DEFINE ac2 == [acct EXCEPT ![a] = v]
  <2>1. /\ AcctOk(ac2)
        /\ v.status \notin Seated => SeatedIn(ac2) \subseteq SeatedIn(acct) \ {a}
        /\ v.status = acct[a].status => SeatedIn(ac2) \subseteq SeatedIn(acct)
    <3>1. DOMAIN v = AccountFields /\ AcctOk(acct) /\ ac2 = [acct EXCEPT ![a] = v]
      BY <1>4, <1>5
    <3> HIDE DEF ac2
    <3>2. QED
      BY <1>3, <3>1, RewrittenSeats
  <2> HIDE DEF ac2
  <2>2. SeatedIn(ac2) \subseteq endorsed'
    BY <1>4, <1>5, <2>1
  <2>3. acct' = ac2
    BY <1>5 DEF ac2
  <2>4. QED
    BY <2>1, <2>2, <2>3 DEF Standing, AcctOk, SeatedIn
<1>6. ASSUME NEW k, Register(a, k) PROVE Standing'
  <2> DEFINE v == [acct[a] EXCEPT !.status = "candidate", !.key = k,
                       !.registeredAt = now, !.live = Unmeasured, !.since = Epoch(now)]
  <2>1. acct' = [acct EXCEPT ![a] = v] /\ SeatedIn(acct) \ {a} \subseteq endorsed'
    BY <1>4, <1>6 DEF Register
  <2>2. DOMAIN v = AccountFields /\ v.status \notin Seated
    BY <1>4 DEF AccountFields, Seated
  <2> HIDE DEF v
  <2>3. QED
    BY <1>2, <1>5, <2>1, <2>2
<1>7. ASSUME NEW k, RotateConsensusKey(a, k) PROVE Standing'
  BY <1>7 DEF RotateConsensusKey, Standing, AcctOk, SeatedIn
<1>8. CASE Unregister(a)
  <2> DEFINE v == [acct[a] EXCEPT !.status = "exiting"]
  <2>1. acct' = [acct EXCEPT ![a] = v] /\ SeatedIn(acct) \ {a} \subseteq endorsed'
    BY <1>4, <1>8 DEF Unregister
  <2>2. DOMAIN v = AccountFields /\ v.status \notin Seated
    BY <1>4 DEF AccountFields, Seated
  <2> HIDE DEF v
  <2>3. QED
    BY <1>2, <1>5, <2>1, <2>2
<1>9. CASE Slash(a)
  <2> DEFINE v == [acct[a] EXCEPT !.stake = 0, !.pending = 0, !.status = "jailed",
                                  !.jailedUntil = now + Jail]
  <2>1. acct' = [acct EXCEPT ![a] = v] /\ SeatedIn(acct) \ {a} \subseteq endorsed'
    BY <1>3, <1>4, <1>9 DEF Slash
  <2>2. DOMAIN v = AccountFields /\ v.status \notin Seated
    BY <1>4 DEF AccountFields, Seated
  <2> HIDE DEF v
  <2>3. QED
    BY <1>2, <1>5, <2>1, <2>2
<1>10. ASSUME NEW n \in Stakes, ChangeStake(a, n) PROVE Standing'
  <2> DEFINE v == Vested(acct[a])
             w == [v EXCEPT !.stake = Min({@, n}), !.pending = Monus(n, v.stake),
                            !.vests = IF n > v.stake + v.pending THEN now + Vesting ELSE @]
  <2>1. DOMAIN v = AccountFields /\ v.status = acct[a].status
    BY <1>4 DEF Vested, AccountFields
  <2>2. acct' = [acct EXCEPT ![a] = w] /\ SeatedIn(acct) \subseteq endorsed'
    BY <1>4, <1>10 DEF ChangeStake
  <2> HIDE DEF v
  <2>3. DOMAIN w = AccountFields /\ w.status = acct[a].status
    BY <2>1 DEF AccountFields
  <2> HIDE DEF w
  <2>4. QED
    BY <1>5, <2>2, <2>3
<1>11. QED
  BY <1>1, <1>2, <1>6, <1>7, <1>8, <1>9, <1>10

-----------------------------------------------------------------------------

\* A fee that an account pays to the treasury.
LEMMA FeeKeeps ==
    ASSUME NEW g, NEW t \in Int, GovInv(g, t), NEW a \in Addrs, NEW fee \in Int,
           NEW n, n = [g EXCEPT !.purse[a] = @ - fee, !.treasury = @ + fee]
    PROVE  GovInv(n, t)
<1>1. /\ DOMAIN g = GovFields /\ g.purse \in [Addrs -> Int] /\ g.treasury \in Int /\ g.escrow \in Nat
  BY DEF GovInv, GovOk
<1>2. /\ DOMAIN n = GovFields /\ n.props = g.props /\ n.open = g.open /\ n.adminEnd = g.adminEnd
      /\ n.deposit = g.deposit /\ n.escrow = g.escrow /\ n.treasury = g.treasury + fee
      /\ n.purse = [g.purse EXCEPT ![a] = @ - fee]
  BY <1>1 DEF GovFields
<1>3. SumOf(n.purse, Addrs) = SumOf(g.purse, Addrs) - fee /\ SumOf(g.purse, Addrs) \in Int
  <2> DEFINE f == g.purse
             h == n.purse
  <2>1. /\ \A y \in Addrs : f[y] \in Int /\ h[y] \in Int
        /\ h[a] = f[a] - fee /\ \A y \in Addrs \ {a} : h[y] = f[y]
    BY <1>1, <1>2
  <2> HIDE DEF f, h
  <2>2. SumOf(h, Addrs) = SumOf(f, Addrs) - f[a] + h[a]
    BY <2>1, FiniteIds, SumChange
  <2>3. SumOf(f, Addrs) \in Int
    BY <2>1, FiniteIds, SumType
  <2>4. QED
    BY <2>1, <2>2, <2>3 DEF f, h
<1>4. GovOk(n)
  BY <1>1, <1>2 DEF GovInv, GovOk
<1>5. Money(n)
  <2>1. SumOf(g.purse, Addrs) + g.treasury + g.escrow = Purse * Cardinality(Addrs) /\ Escrowed(g)
    BY DEF GovInv, Money, Conserved
  <2>2. SumOf(n.purse, Addrs) + n.treasury + n.escrow = SumOf(g.purse, Addrs) + g.treasury + g.escrow
    BY <1>1, <1>2, <1>3
  <2>3. QED
    BY <1>2, <2>1, <2>2 DEF Money, Escrowed, Conserved
<1>6. Stages(n, t)
  BY <1>2 DEF GovInv, Stages, HeldIsOpen, QueuedTyped, ApprovalLate
<1>7. QED
  BY <1>4, <1>5, <1>6 DEF GovInv

\* What a step other than the end of a block leaves of the invariant.
Keeps == Standing' /\ GateOk(gate)' /\ GovInv(gov, now)' /\ UNCHANGED <<set, voted, now>>

\* The admins approve: a fee, a seat, and the record of when it was given.
LEMMA AdminApproveKeeps ==
    ASSUME GovernanceInv, NEW a \in Addrs, AdminApprove(a)
    PROVE  Keeps
<1> DEFINE e == Epoch(now)
           ac2 == Approved(acct, a, e)
           mark == [by |-> "admin", at |-> now, phaseEnd |-> gov.adminEnd]
           gt == [gate EXCEPT ![a] = mark]
           n == [gov EXCEPT !.purse[a] = @ - ApplicationFee, !.treasury = @ + ApplicationFee]
<1>1. /\ acct' = ac2 /\ endorsed' = endorsed \cup {a} /\ gate' = gt /\ gov' = n
      /\ UNCHANGED <<set, voted, now>> /\ now <= gov.adminEnd
  BY DEF AdminApprove, Tx, AdminPhase
<1>2. /\ now \in Int /\ AcctOk(acct) /\ SeatedIn(acct) \subseteq endorsed
      /\ GateOk(gate) /\ GovInv(gov, now) /\ ApplicationFee \in Int
  BY GovernanceAssumption DEF GovernanceInv, Standing
<1>3. Standing'
  <2>1. AcctOk(ac2) /\ SeatedIn(ac2) \subseteq SeatedIn(acct) \cup {a}
    BY <1>2, ApprovedSeats
  <2> HIDE DEF ac2
  <2>2. QED
    BY <1>1, <1>2, <2>1 DEF Standing, AcctOk, SeatedIn
<1>4. GateOk(gate)'
  <2>1. DOMAIN mark = {"by", "at", "phaseEnd"} /\ mark.by = "admin" /\ mark.at <= mark.phaseEnd
    BY <1>1
  <2> HIDE DEF mark
  <2>2. GateOk(gt)
    BY <1>2, <2>1 DEF GateOk
  <2> HIDE DEF gt
  <2>3. QED
    BY <1>1, <2>2 DEF GateOk
<1>5. GovInv(gov', now')
  <2>1. \A m : m = [gov EXCEPT !.purse[a] = @ - ApplicationFee, !.treasury = @ + ApplicationFee]
               => GovInv(m, now)
    BY <1>2, FeeKeeps
  <2>2. GovInv(n, now)
    BY <2>1
  <2> HIDE DEF n
  <2>3. QED
    BY <1>1, <2>2
<1>6. QED
  BY <1>1, <1>3, <1>4, <1>5 DEF Keeps

\* The admins remove: a seat and its approval go together.
LEMMA AdminRemoveKeeps ==
    ASSUME GovernanceInv, NEW a \in Addrs, AdminRemove(a)
    PROVE  Keeps
<1> DEFINE ac2 == Removed(acct, a, Epoch(now))
<1>1. acct' = ac2 /\ endorsed' = endorsed \ {a} /\ UNCHANGED <<set, voted, now, gate, gov>>
  BY DEF AdminRemove, Tx
<1>2. now \in Int /\ AcctOk(acct) /\ SeatedIn(acct) \subseteq endorsed /\ GateOk(gate) /\ GovInv(gov, now)
  BY DEF GovernanceInv, Standing
<1>3. AcctOk(ac2) /\ SeatedIn(ac2) \subseteq SeatedIn(acct) \ {a}
  BY <1>2, RemovedSeats
<1> HIDE DEF ac2
<1>4. Standing'
  BY <1>1, <1>2, <1>3 DEF Standing, AcctOk, SeatedIn
<1>5. GateOk(gate)' /\ GovInv(gov', now')
  BY <1>1, <1>2 DEF GateOk
<1>6. QED
  BY <1>1, <1>4, <1>5 DEF Keeps

\* A proposal submitted: its deposit enters the escrow, itself the list.
LEMMA SubmitKeeps ==
    ASSUME GovernanceInv, NEW p \in Proposals, SubmitProposal(p)
    PROVE  Keeps
<1> DEFINE id == p.id
           owner == p.proposer
           fee == ProposalFee
           r == [Absent EXCEPT !.status = "active", !.created = now,
                               !.ends = Epoch(now) + params.votingEpochs]
           g == gov
           n == gov'
<1>1. /\ n = [g EXCEPT !.purse[owner] = @ - fee, !.deposit[id] = fee, !.escrow = @ + fee,
                       !.props[id] = r, !.count = @ + 1, !.open = Append(@, id)]
      /\ g.props[id] = Absent /\ Sensible(p)
      /\ UNCHANGED <<set, voted, now, acct, endorsed, gate>>
  BY DEF SubmitProposal, Tx
<1>2. /\ now \in Int /\ Standing /\ GateOk(gate) /\ GovInv(g, now)
      /\ fee \in Nat /\ id \in Ids /\ Find(id) = p /\ owner \in Addrs
  BY TheOne, GovernanceAssumption DEF GovernanceInv
<1>3. DOMAIN r = ProposalFields /\ r.status = "active"
  BY DEF Absent, ProposalFields
<1>4. p.action = "approve" => g.adminEnd < now
  BY <1>1, <1>2 DEF Sensible, AdminPhase, GovInv, GovOk
<1>5. /\ DOMAIN g = GovFields
      /\ g.props = [x \in Ids |-> g.props[x]] /\ \A x \in Ids : DOMAIN g.props[x] = ProposalFields
      /\ g.open \in Seq(Ids)
      /\ g.deposit \in [Ids -> Nat] /\ g.escrow \in Nat
      /\ g.purse \in [Addrs -> Int] /\ g.treasury \in Int /\ g.adminEnd \in Int
  BY <1>2 DEF GovInv, GovOk
<1>6. g.deposit[id] = 0
  <2>1. g.props[id].status = "absent"
    BY <1>1 DEF Absent
  <2>2. g.deposit[id] \in Nat /\ id \in Ids
    BY <1>2, <1>5
  <2>3. HeldIsOpen(g)
    BY <1>2 DEF GovInv, Stages
  <2> HIDE DEF g, id
  <2>4. QED
    BY <2>1, <2>2, <2>3 DEF HeldIsOpen
<1>7. UNCHANGED <<set, voted, now>> /\ Standing' /\ GateOk(gate)'
  BY <1>1, <1>2 DEF Standing, AcctOk, SeatedIn, GateOk
<1>8. Sensible(p) /\ id \in DOMAIN g.props /\ id \in DOMAIN g.deposit /\ owner \in DOMAIN g.purse
  BY <1>1, <1>2, <1>5
<1> HIDE DEF r, n, g, fee, owner, id
<1>9. /\ DOMAIN n = GovFields
      /\ n.purse = [g.purse EXCEPT ![owner] = @ - fee]
      /\ n.deposit = [g.deposit EXCEPT ![id] = fee] /\ n.escrow = g.escrow + fee
      /\ n.props = [g.props EXCEPT ![id] = r] /\ n.open = Append(g.open, id)
      /\ n.treasury = g.treasury /\ n.adminEnd = g.adminEnd
  BY <1>1, <1>5 DEF GovFields
<1>10. SumOf(n.deposit, Ids) = SumOf(g.deposit, Ids) + fee
  <2> DEFINE f == g.deposit
             h == n.deposit
  <2>1. /\ \A y \in Ids : f[y] \in Int /\ h[y] \in Int
        /\ h[id] = fee /\ f[id] = 0 /\ \A y \in Ids \ {id} : h[y] = f[y]
    BY <1>2, <1>5, <1>6, <1>9
  <2> HIDE DEF f, h
  <2>2. SumOf(h, Ids) = SumOf(f, Ids) - f[id] + h[id]
    BY <1>2, <2>1, FiniteIds, SumChange
  <2>3. SumOf(f, Ids) \in Int
    BY <2>1, FiniteIds, SumType
  <2>4. QED
    BY <1>2, <2>1, <2>2, <2>3 DEF f, h
<1>11. SumOf(n.purse, Addrs) = SumOf(g.purse, Addrs) - fee /\ SumOf(g.purse, Addrs) \in Int
  <2> DEFINE f == g.purse
             h == n.purse
  <2>1. /\ \A y \in Addrs : f[y] \in Int /\ h[y] \in Int
        /\ h[owner] = f[owner] - fee /\ \A y \in Addrs \ {owner} : h[y] = f[y]
        /\ owner \in Addrs
    BY <1>2, <1>5, <1>9
  <2> HIDE DEF f, h
  <2>2. SumOf(h, Addrs) = SumOf(f, Addrs) - f[owner] + h[owner]
    BY <2>1, FiniteIds, SumChange
  <2>3. SumOf(f, Addrs) \in Int
    BY <2>1, FiniteIds, SumType
  <2>4. QED
    BY <1>2, <2>1, <2>2, <2>3 DEF f, h
<1>12. Money(n)
  <2>1. SumOf(g.purse, Addrs) + g.treasury + g.escrow = Purse * Cardinality(Addrs)
        /\ g.escrow = SumOf(g.deposit, Ids)
    BY <1>2 DEF GovInv, Money, Conserved, Escrowed
  <2>2. SumOf(n.purse, Addrs) + n.treasury + n.escrow = SumOf(g.purse, Addrs) + g.treasury + g.escrow
    BY <1>2, <1>5, <1>9, <1>11
  <2>3. n.escrow = SumOf(n.deposit, Ids)
    BY <1>9, <1>10, <2>1
  <2>4. QED
    BY <2>1, <2>2, <2>3 DEF Money, Escrowed, Conserved
<1>13. /\ n.props = [x \in Ids |-> n.props[x]] /\ \A x \in Ids : DOMAIN n.props[x] = ProposalFields
       /\ n.props[id] = r /\ \A x \in Ids \ {id} : n.props[x] = g.props[x]
  BY <1>2, <1>3, <1>5, <1>9
<1>14. /\ n.open \in Seq(Ids) /\ InList(n.open, id)
       /\ \A x \in Ids : InList(g.open, x) => InList(n.open, x)
  <2>1. n.open = Append(g.open, id) /\ g.open \in Seq(Ids) /\ id \in Ids
    BY <1>2, <1>5, <1>9
  <2>2. n.open \in Seq(Ids) /\ Len(g.open) \in Nat /\ Len(n.open) = Len(g.open) + 1
        /\ DOMAIN n.open = 1 .. (Len(g.open) + 1) /\ DOMAIN g.open = 1 .. Len(g.open)
        /\ n.open[Len(g.open) + 1] = id /\ \A i \in 1 .. Len(g.open) : n.open[i] = g.open[i]
    BY <2>1
  <2>3. QED
    BY <2>2 DEF InList
<1>15. GovOk(n)
  <2>1. n.deposit \in [Ids -> Nat] /\ n.escrow \in Nat /\ n.purse \in [Addrs -> Int]
    BY <1>2, <1>5, <1>9
  <2>2. n.treasury \in Int /\ n.adminEnd \in Int /\ DOMAIN n = GovFields
    BY <1>5, <1>9
  <2>3. QED
    BY <1>13, <1>14, <2>1, <2>2 DEF GovOk
<1>16. Stages(n, now)
  <2>1. HeldIsOpen(n)
    <3>1. HeldIsOpen(g)
      BY <1>2 DEF GovInv, Stages
    <3>2. ASSUME NEW x \in Ids \ {id}, n.deposit[x] > 0
          PROVE  InList(n.open, x) /\ n.props[x].status = "active"
      <4>1. g.deposit[x] > 0
        BY <1>5, <1>9, <3>2
      <4>2. QED
        BY <1>13, <1>14, <3>1, <4>1 DEF HeldIsOpen
    <3>3. InList(n.open, id) /\ n.props[id].status = "active"
      BY <1>3, <1>13, <1>14
    <3>4. QED
      BY <3>2, <3>3 DEF HeldIsOpen
  <2>2. QueuedTyped(n)
    BY <1>2, <1>3, <1>13 DEF GovInv, Stages, QueuedTyped
  <2>3. ApprovalLate(n, now)
    <3>1. \A x \in Ids : Find(x).action = "approve" /\ g.props[x].status # "absent" => g.adminEnd < now
      BY <1>2 DEF GovInv, Stages, ApprovalLate
    <3>2. Find(id).action = "approve" => n.adminEnd < now
      BY <1>2, <1>4, <1>9
    <3>3. QED
      BY <1>9, <1>13, <3>1, <3>2 DEF ApprovalLate
  <2>4. QED
    BY <2>1, <2>2, <2>3 DEF Stages
<1>17. GovInv(n, now)
  BY <1>12, <1>15, <1>16 DEF GovInv
<1>18. QED
  BY <1>7, <1>17 DEF Keeps, n

\* Votes touch nothing but the record of the votes.
LEMMA VoteKeeps ==
    ASSUME GovernanceInv, NEW id \in Ids, NEW ballot, Vote(id, ballot)
    PROVE  Keeps
<1> DEFINE vote(a) == [voter |-> a, support |-> ballot[a], weight |-> acct[a].stake]
           votes == gov.props[id].votes \o SetToSeq({vote(a) : a \in DOMAIN ballot})
           g == gov
           n == gov'
<1>1. gov' = [gov EXCEPT !.props[id].votes = votes]
      /\ UNCHANGED <<set, voted, now, acct, endorsed, gate>>
  BY DEF Vote
<1>2. now \in Int /\ Standing /\ GateOk(gate) /\ GovInv(gov, now)
  BY DEF GovernanceInv
<1>3. UNCHANGED <<set, voted, now>> /\ Standing' /\ GateOk(gate)'
  BY <1>1, <1>2 DEF Standing, AcctOk, SeatedIn, GateOk
<1> HIDE DEF votes
<1>4. GovInv(g, now) /\ n = [g EXCEPT !.props[id].votes = votes]
  BY <1>1, <1>2
<1> HIDE DEF g, n
<1>5. /\ DOMAIN g = GovFields
      /\ g.props = [x \in Ids |-> g.props[x]] /\ \A x \in Ids : DOMAIN g.props[x] = ProposalFields
      /\ g.open \in Seq(Ids) /\ g.adminEnd \in Int
  BY <1>4 DEF GovInv, GovOk
<1>6. /\ DOMAIN n = GovFields /\ n.open = g.open /\ n.deposit = g.deposit /\ n.escrow = g.escrow
      /\ n.purse = g.purse /\ n.treasury = g.treasury /\ n.adminEnd = g.adminEnd
      /\ n.props = [g.props EXCEPT ![id] = [g.props[id] EXCEPT !.votes = votes]]
  BY <1>4, <1>5 DEF GovFields
<1>7. /\ n.props = [x \in Ids |-> n.props[x]]
      /\ \A x \in Ids : DOMAIN n.props[x] = ProposalFields /\ n.props[x].status = g.props[x].status
  BY <1>5, <1>6 DEF ProposalFields
<1>8. \A x \in Ids : g.props[x].status = "queued" => Typed(Find(x))
  BY <1>4 DEF GovInv, Stages, QueuedTyped
<1>9. Moved(g, n)
  BY <1>5, <1>6, <1>7, <1>8 DEF Moved
<1>10. GovInv(n, now)
  BY <1>2, <1>4, <1>9, MovedKeeps
<1>11. QED
  BY <1>3, <1>10 DEF Keeps, n

\* A veto settles the deposit before the proposal leaves the list.
LEMMA VetoKeeps ==
    ASSUME GovernanceInv, NEW id \in Ids, Veto(id)
    PROVE  Keeps
<1> DEFINE paid == DepositSettled(gov, id, FALSE)
<1>1. /\ gov' = Terminal(paid, id, "vetoed") /\ gov.props[id].status # "absent"
      /\ UNCHANGED <<set, voted, now, acct, endorsed, gate>>
  BY DEF Veto, Tx
<1>2. now \in Int /\ Standing /\ GateOk(gate) /\ GovInv(gov, now) /\ gov.deposit \in [Ids -> Nat]
  BY DEF GovernanceInv, GovInv, GovOk
<1>3. UNCHANGED <<set, voted, now>> /\ Standing' /\ GateOk(gate)'
  BY <1>1, <1>2 DEF Standing, AcctOk, SeatedIn, GateOk
<1>4. GovInv(paid, now) /\ paid.props = gov.props /\ paid.deposit = [gov.deposit EXCEPT ![id] = 0]
  <2> DEFINE g == gov
  <2>1. GovInv(g, now)
    BY <1>2
  <2> HIDE DEF g
  <2>2. ASSUME NEW y
        PROVE  /\ GovInv(DepositSettled(g, id, y), now) /\ DepositSettled(g, id, y).props = g.props
               /\ DepositSettled(g, id, y).deposit = [g.deposit EXCEPT ![id] = 0]
    BY <2>1, SettledKeeps
  <2>3. QED
    BY <2>2 DEF g
<1> HIDE DEF paid
<1>5. paid.deposit[id] = 0 /\ paid.props[id].status # "absent"
  BY <1>1, <1>2, <1>4
<1>6. \A status : status # "queued" => GovInv(Terminal(paid, id, status), now)
  BY <1>2, <1>4, <1>5, ClosedKeeps
<1>7. GovInv(Terminal(paid, id, "vetoed"), now)
  BY <1>6
<1>8. GovInv(gov', now')
  BY <1>1, <1>7
<1>9. QED
  BY <1>3, <1>8 DEF Keeps

-----------------------------------------------------------------------------

\* The end of a block: every world it may leave is well kept, and at a boundary
\* the deposits of the proposals whose votes have ended are settled.
SealLeaves ==
    /\ Standing' /\ SetOk(set)' /\ SetOk(voted)' /\ GateOk(gate)' /\ GovInv(gov', now)
    /\ now' = now + 1
    /\ set'.epoch # set.epoch =>
          /\ set'.epoch = Epoch(now)
          /\ Timely(gov', Len(gov.open), gov.open, Epoch(now))

\* The end of a block, at a boundary or not.
LEMMA SealKeeps ==
    ASSUME GovernanceInv, NEW signers, NEW shadows \in SUBSET Addrs, SealBlock(signers, shadows)
    PROVE  SealLeaves
<1> DEFINE e == Epoch(now)
           World(after) == [acct |-> after.acct, set |-> after.set, gov |-> gov, params |-> params,
                            endorsed |-> StillEndorsed(after.acct), gate |-> gate]
<1>1. PICK after \in AfterBlock(signers, shadows) :
         \E b \in IF e > set.epoch THEN AllProcessed(World(after), e) ELSE {World(after)} :
            /\ acct' = b.acct /\ set' = b.set /\ gov' = b.gov
            /\ params' = b.params /\ endorsed' = b.endorsed /\ gate' = b.gate
  BY DEF SealBlock
<1>2. voted' = set /\ now' = now + 1
  BY DEF SealBlock
<1>3. /\ now \in Int /\ AcctOk(acct) /\ SeatedIn(acct) \subseteq endorsed
      /\ SetOk(set) /\ SetOk(voted) /\ GateOk(gate) /\ GovInv(gov, now)
  BY DEF GovernanceInv, Standing
<1>4. /\ NoNewSeats(acct, after.acct) /\ SetOk(after.set)
      /\ IF e > set.epoch THEN after.set.epoch = e ELSE after.set = set
  BY <1>3, AfterBlockKeeps
<1> DEFINE w == World(after)
<1>5. /\ w.acct = after.acct /\ w.set = after.set /\ w.gov = gov /\ w.gate = gate
      /\ w.endorsed = StillEndorsed(after.acct) /\ DOMAIN w = WorldFields
  BY DEF WorldFields
<1> HIDE DEF w
<1>6. PICK b \in IF e > set.epoch THEN AllProcessed(w, e) ELSE {w} :
            /\ acct' = b.acct /\ set' = b.set /\ gov' = b.gov
            /\ params' = b.params /\ endorsed' = b.endorsed /\ gate' = b.gate
  BY <1>1 DEF w
<1> HIDE DEF World, e
<1>7. AcctOk(after.acct) /\ SeatedIn(after.acct) \subseteq StillEndorsed(after.acct)
  BY <1>3, <1>4 DEF NoNewSeats, SeatedIn, StillEndorsed, Seated, Registered
<1>8. ASSUME NEW x, x = b, AcctOk(x.acct), SeatedIn(x.acct) \subseteq x.endorsed, SetOk(x.set), GateOk(x.gate)
      PROVE  Standing' /\ SetOk(set)' /\ SetOk(voted)' /\ GateOk(gate)'
  BY <1>2, <1>3, <1>6, <1>8 DEF Standing, AcctOk, SeatedIn, SetOk, GateOk
<1>9. CASE e > set.epoch
  <2>1. WorldOk(w, e)
    BY <1>3, <1>4, <1>5, <1>7, <1>9 DEF WorldOk
  <2>2. b \in AllProcessed(w, e)
    BY <1>6, <1>9
  <2>3. gov.open \in Seq(Ids)
    BY <1>3 DEF GovInv, GovOk
  <2>4. WorldOk(b, e) /\ Timely(b.gov, Len(gov.open), gov.open, e)
    BY <1>3, <1>5, <2>1, <2>2, <2>3, AllProcessedKeeps
  <2>5. Standing' /\ SetOk(set)' /\ SetOk(voted)' /\ GateOk(gate)'
    BY <1>8, <2>4 DEF WorldOk
  <2>6. GovInv(gov', now) /\ set'.epoch = e /\ Timely(gov', Len(gov.open), gov.open, e)
    BY <1>6, <2>4 DEF WorldOk
  <2>7. QED
    BY <1>2, <2>5, <2>6 DEF SealLeaves, e
<1>10. CASE ~(e > set.epoch)
  <2>1. b = w
    BY <1>6, <1>10
  <2>2. Standing' /\ SetOk(set)' /\ SetOk(voted)' /\ GateOk(gate)'
    BY <1>3, <1>4, <1>5, <1>7, <1>8, <2>1
  <2>3. gov' = gov /\ set' = set
    BY <1>4, <1>5, <1>6, <1>10, <2>1
  <2>4. GovInv(gov', now)
    BY <1>3, <2>3
  <2>5. QED
    BY <1>2, <2>2, <2>3, <2>4 DEF SealLeaves
<1>11. QED
  BY <1>9, <1>10

\* An approval that was late stays late.
LEMMA LaterKeeps ==
    ASSUME NEW g, NEW t \in Int, GovInv(g, t)
    PROVE  GovInv(g, t + 1)
<1>1. ASSUME NEW id \in Ids, Find(id).action = "approve", g.props[id].status # "absent"
      PROVE  g.adminEnd < t + 1
  BY <1>1 DEF GovInv, Stages, ApprovalLate, GovOk
<1>2. QED
  BY <1>1 DEF GovInv, Stages, ApprovalLate

-----------------------------------------------------------------------------

\* The invariant holds at genesis,
LEMMA InvInit == GovInit => GovernanceInv
BY InitStanding, InitGov DEF GovernanceInv

\* is kept by every step,
LEMMA InvNext == GovernanceInv /\ [GovNext]_govVars => GovernanceInv'
<1> SUFFICES ASSUME GovernanceInv, [GovNext]_govVars PROVE GovernanceInv'
  OBVIOUS
<1>1. /\ now \in Int /\ Standing
      /\ SetOk(set) /\ SetOk(voted) /\ GateOk(gate) /\ GovInv(gov, now)
  BY DEF GovernanceInv
<1>2. CASE Keeps
  <2>1. SetOk(set)' /\ SetOk(voted)' /\ now' \in Int
    BY <1>1, <1>2 DEF Keeps, SetOk
  <2>2. QED
    BY <1>2, <2>1 DEF Keeps, GovernanceInv
<1>3. CASE Lifecycle
  <2>1. Standing' /\ UNCHANGED <<set, voted, now, gov, gate>>
    BY <1>1, <1>3, LifecycleKeeps
  <2>2. GateOk(gate)' /\ GovInv(gov, now)'
    BY <1>1, <2>1 DEF GateOk
  <2>3. Keeps
    BY <2>1, <2>2 DEF Keeps
  <2>4. QED
    BY <1>2, <2>3
<1>4. CASE Decisions
  <2>1. Actors \subseteq Addrs
    BY GovernanceAssumption
  <2>2. CASE \E a \in Actors : AdminApprove(a)
    BY <1>2, <2>1, <2>2, AdminApproveKeeps
  <2>3. CASE \E a \in Actors : AdminRemove(a)
    BY <1>2, <2>1, <2>3, AdminRemoveKeeps
  <2>4. CASE \E p \in Proposals : SubmitProposal(p)
    BY <1>2, <2>4, SubmitKeeps
  <2>5. CASE \E id \in Ids, ballot \in Ballots : Vote(id, ballot)
    BY <1>2, <2>5, VoteKeeps
  <2>6. CASE \E id \in Ids : Veto(id)
    BY <1>2, <2>6, VetoKeeps
  <2>7. QED
    BY <1>4, <2>2, <2>3, <2>4, <2>5, <2>6 DEF Decisions
<1>5. CASE Seal
  <2>1. PICK signers : \E shadows \in SUBSET Addrs : SealBlock(signers, shadows)
    BY <1>5 DEF Seal, With
  <2>2. SealLeaves
    BY <2>1, SealKeeps
  <2>3. GovInv(gov', now + 1)
    BY <1>1, <2>2, LaterKeeps DEF SealLeaves
  <2>4. GovInv(gov, now)' /\ now' \in Int
    BY <1>1, <2>2, <2>3 DEF SealLeaves
  <2>5. QED
    BY <2>2, <2>4 DEF SealLeaves, GovernanceInv
<1>6. CASE UNCHANGED govVars
  BY <1>1, <1>6 DEF govVars, validatorVars, GovernanceInv, Standing, AcctOk, SeatedIn, SetOk, GateOk
<1>7. QED
  BY <1>3, <1>4, <1>5, <1>6 DEF GovNext

\* and so always holds.
THEOREM GovernanceInvHolds == GovSpec => []GovernanceInv
BY InvInit, InvNext, PTL DEF GovSpec

\* Whoever lost its place is back on the way to the set only after an approval
\* given since (advance_epoch_if_due gives no seat that was not approved).
THEOREM ReturnNeedsApprovalHolds == GovSpec => []ReturnNeedsApproval
<1>1. GovernanceInv => ReturnNeedsApproval
  BY DEF GovernanceInv, Standing, SeatedIn, ReturnNeedsApproval
<1>2. QED
  BY <1>1, GovernanceInvHolds, PTL

\* Approvals come from the admins while their phase lasts and from votes only when
\* it is over (apply_admin_approve, reached from both sides).
THEOREM OneGateHolds == GovSpec => []OneGate
<1>1. GovernanceInv => OneGate
  BY DEF GovernanceInv, GateOk, OneGate
<1>2. QED
  BY <1>1, GovernanceInvHolds, PTL

\* No deposit is paid out twice or forgotten (settle_deposit): the escrow is the
\* sum of the deposits held, and with purses and treasury it is what genesis gave.
THEOREM DepositsAccountedHolds == GovSpec => []DepositsAccounted
<1>1. GovernanceInv => DepositsAccounted
  <2> SUFFICES ASSUME GovernanceInv PROVE DepositsAccounted
    OBVIOUS
  <2>1. Escrowed(gov) /\ Conserved(gov)
    BY DEF GovernanceInv, GovInv, Money
  <2>2. SumOf(gov.deposit, Ids) = MapThenSumSet(LAMBDA id : gov.deposit[id], Ids)
    BY DEF SumOf
  <2>3. SumOf(gov.purse, Addrs) = MapThenSumSet(LAMBDA a : gov.purse[a], Addrs)
    BY DEF SumOf
  <2>4. QED
    BY <2>1, <2>2, <2>3, Zenon DEF Escrowed, Conserved, DepositsAccounted
<1>2. QED
  BY <1>1, GovernanceInvHolds, PTL

\* The first boundary at or past the end of a proposal's votes settles its deposit
\* (process_at_epoch), and none is held for a proposal no boundary goes over.
THEOREM DepositTimelyHolds == GovSpec => DepositTimely
<1>1. ASSUME GovernanceInv, GovernanceInv', [GovNext]_govVars, NEW id \in Ids
      PROVE  /\ gov'.deposit[id] > 0 =>
                   /\ \E i \in DOMAIN gov'.open : gov'.open[i] = id
                   /\ gov'.props[id].status = "active"
             /\ set'.epoch # set.epoch /\ gov.props[id].status = "active"
                   /\ set'.epoch >= gov.props[id].ends => gov'.deposit[id] = 0
  <2>1. HeldIsOpen(gov') /\ gov'.deposit \in [Ids -> Nat]
    BY <1>1 DEF GovernanceInv, GovInv, GovOk, Stages
  <2>2. HeldIsOpen(gov) /\ gov.open \in Seq(Ids)
    BY <1>1 DEF GovernanceInv, GovInv, GovOk, Stages
  <2>3. set'.epoch = set.epoch \/ SealLeaves
    <3>1. CASE Seal
      <4>1. PICK signers : \E shadows \in SUBSET Addrs : SealBlock(signers, shadows)
        BY <3>1 DEF Seal, With
      <4>2. QED
        BY <1>1, <4>1, SealKeeps
    <3>2. CASE Lifecycle
      BY <1>1, <3>2, LifecycleKeeps DEF GovernanceInv
    <3>3. CASE Decisions
      BY <3>3 DEF Decisions, AdminApprove, AdminRemove, SubmitProposal, Vote, Veto, Tx
    <3>4. QED
      BY <1>1, <3>1, <3>2, <3>3 DEF GovNext, govVars, validatorVars
  <2>4. ASSUME set'.epoch # set.epoch, gov.props[id].status = "active",
               set'.epoch >= gov.props[id].ends, gov'.deposit[id] > 0
        PROVE  FALSE
    <3>1. set'.epoch = Epoch(now) /\ Timely(gov', Len(gov.open), gov.open, Epoch(now))
      BY <2>3, <2>4 DEF SealLeaves
    <3>2. gov.deposit[id] > 0
      BY <2>4, <3>1 DEF Timely
    <3>3. PICK i \in DOMAIN gov.open : gov.open[i] = id
      BY <2>2, <3>2 DEF HeldIsOpen, InList
    <3>4. i \in 1 .. Len(gov.open)
      BY <2>2
    <3>5. gov'.deposit[id] = 0
      BY <2>4, <3>1, <3>3, <3>4 DEF Timely
    <3>6. QED
      BY <2>4, <3>5
  <2>5. gov'.deposit[id] > 0 \/ gov'.deposit[id] = 0
    BY <2>1
  <2>6. QED
    BY <2>1, <2>4, <2>5 DEF HeldIsOpen, InList
<1>2. GovernanceInv /\ GovernanceInv' /\ [GovNext]_govVars =>
         [\A id \in Ids :
            /\ gov'.deposit[id] > 0 =>
                  /\ \E i \in DOMAIN gov'.open : gov'.open[i] = id
                  /\ gov'.props[id].status = "active"
            /\ set'.epoch # set.epoch /\ gov.props[id].status = "active"
                  /\ set'.epoch >= gov.props[id].ends => gov'.deposit[id] = 0]_govVars
  BY <1>1
<1>3. QED
  BY <1>2, GovernanceInvHolds, PTL DEF GovSpec, DepositTimely

=============================================================================
