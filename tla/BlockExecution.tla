--------------------------- MODULE BlockExecution ---------------------------
(***************************************************************************)
(* Executing a block on the state store: runtime commit_block, the batch   *)
(* of the scheduler, the executor's transaction skeleton and StateDbManager*)
(* (zagros-state/src/manager.rs) with its cache, its per-thread journals   *)
(* and the gate between checkpoints and flushes.  At the same time the RPC *)
(* server reads accounts (Readers), and bridge requests store a proposal   *)
(* and flush (Handlers).  A step is one access to the cache, the storage   *)
(* or the gate.                                                            *)
(*                                                                         *)
(* An account holds the transactions that changed it, in order: enough to  *)
(* tell a lost, a repeated or a half-written transaction.  A crash at any  *)
(* moment leaves `disk`, so what survives one is a property of `disk`.     *)
(***************************************************************************)
EXTENDS Scheduler, FiniteSets, FiniteSetsExt, SequencesExt

CONSTANTS
    Accounts,          \* accounts transactions write
    Fresh,             \* those that do not exist yet
    Record,            \* the consensus record of the block's height
    Height, Header, Proposal,    \* other keys outside the state root
    Main,              \* the thread that commits the block
    Workers, Readers, Handlers,
    Producer,          \* current_block_producer
    Setups,            \* [limit: max_cache_entries, warm: the accounts already in the
                       \* cache, queried: what the RPC reads, requests: BOOLEAN]
    MaxFailures,       \* bound: write_batch failures
    None

Others == {Record, Height, Header, Proposal}
Keys == Accounts \cup Others
Threads == {Main} \cup Workers \cup Readers \cup Handlers

\* What a key can hold: an account's history, or nothing.
Slots == Seq([tx : Nat, ok : BOOLEAN]) \cup {None}

ASSUME StoreAssumption ==
    /\ IsFiniteSet(Threads) /\ Main \notin Workers \cup Readers \cup Handlers
    /\ Workers \cap Readers = {} /\ Workers \cap Handlers = {} /\ Readers \cap Handlers = {}
    /\ IsFiniteSet(Keys) /\ Cardinality(Others) = 4 /\ Accounts \cap Others = {}
    /\ \A s \in Setups : /\ s.limit \in Nat \ {0} /\ s.warm \subseteq Accounts \ Fresh
                         /\ s.queried \subseteq Keys /\ s.requests \in BOOLEAN

\* None is no key, no account's history, no cache entry and no checkpoint.
ASSUME NoneAssumption ==
    /\ None \notin Keys \cup Seq([tx : Nat, ok : BOOLEAN]) \cup [slot : Slots, dirty : BOOLEAN]
    /\ \A ks \in SUBSET Keys : None \notin [ks -> Slots]

\* distribute_staking_reward credits the block's producer with its share of the
\* fees of these, on whichever thread they run.
Rewarded(x) == IF x.kind \in {"evm", "pool", "staking", "submit"} THEN {Producer} ELSE {}

\* A transaction writes what it touches, and what it pays out; its sender in any case.
ASSUME FootprintAssumption ==
    \A b \in Blocks :
        /\ Len(b) \in Nat /\ DOMAIN b = 1 .. Len(b)
        /\ \A i \in DOMAIN b :
              /\ b[i].sender \in b[i].writes /\ b[i].fails \in BOOLEAN
              /\ b[i].writes \subseteq Accounts \cap (Touched(b[i]) \cup Rewarded(b[i]))

VARIABLES
    setup,             \* the limit of the cache, and what goes on beside the block
    cache,             \* key -> None or [slot, dirty]; a slot None is Deleted
    disk,              \* the storage engine
    journal,           \* thread -> None or its checkpoint's old values, by key
    open_checkpoints, flush_active,    \* CheckpointGate
    started,           \* transactions taken up
    failures,          \* write_batch failures so far
    task               \* thread -> what it is doing

store == <<cache, disk, journal, open_checkpoints, flush_active, failures>>
vars == <<setup, classify, store, started, task>>

Busy == [pc |-> "idle", ret |-> "idle", key |-> None, val |-> None, tx |-> 0, todo |-> {},
         batch |-> <<>>, ok |-> TRUE]

Initial(k) == IF k \in Accounts \ Fresh THEN <<>> ELSE None

Init ==
    /\ SchedulerInit
    /\ setup \in Setups
    /\ disk = [k \in Keys |-> Initial(k)]
    /\ cache = [k \in Keys |-> IF k \in setup.warm THEN [slot |-> disk[k], dirty |-> FALSE]
                               ELSE None]
    /\ journal = [t \in Threads |-> None]
    /\ open_checkpoints = 0 /\ flush_active = FALSE
    /\ started = {} /\ failures = 0
    /\ task = [t \in Threads |-> IF t = Main THEN [Busy EXCEPT !.pc = "record"] ELSE Busy]

At(t, p) == task[t].pc = p
Goto(t, p) == task' = [task EXCEPT ![t].pc = p]
Stopped == [t \in Threads |-> [Busy EXCEPT !.pc = "halted"]]    \* the process panics
Tx(t) == transactions[task[t].tx]

\* What a key holds, as get_account sees it.
View(k) == IF cache[k] = None THEN disk[k] ELSE cache[k].slot
Dirty(k) == cache[k] # None /\ cache[k].dirty

\* A map with v at k; the storage with a batch written to it.
Put(f, k, v) == [x \in DOMAIN f \cup {k} |-> IF x = k THEN v ELSE f[x]]
Written(batch) == [k \in Keys |-> IF k \in DOMAIN batch THEN batch[k] ELSE disk[k]]

-----------------------------------------------------------------------------
(* The store.                                                              *)

\* maybe_evict_cache: down to four fifths of the limit, clean entries only.
Evictions(c) ==
    LET held == {k \in Keys : c[k] # None}
        clean == {k \in held : ~ c[k].dirty}
        surplus == Cardinality(held) - (setup.limit * 4) \div 5
    IN  IF Cardinality(held) <= setup.limit THEN {c}
        ELSE {[k \in Keys |-> IF k \in gone THEN None ELSE c[k]] :
                gone \in kSubset(Min({surplus, Cardinality(clean)}), clean)}

\* get_account: a hit answers, a miss reads the storage; what it finds there is
\* put into the cache in a second step.
Lookup(t) ==
    LET k == task[t].key
    IN  /\ At(t, "lookup")
        /\ task' = [task EXCEPT ![t].val = View(k),
                                ![t].pc = IF cache[k] = None /\ disk[k] # None
                                          THEN "fill" ELSE task[t].ret]
        /\ UNCHANGED <<classify, store, started>>

Fill(t) ==
    /\ At(t, "fill")
    /\ cache' \in Evictions([cache EXCEPT ![task[t].key] =
                                [slot |-> task[t].val, dirty |-> FALSE]])
    /\ Goto(t, task[t].ret)
    /\ UNCHANGED <<classify, disk, journal, open_checkpoints, flush_active, failures, started>>

\* set_account: the old value goes into the thread's open checkpoint first.
SetAccount(t, k, v) ==
    /\ journal' = IF journal[t] = None \/ k \in DOMAIN journal[t] THEN journal
                  ELSE [journal EXCEPT ![t] = Put(@, k, View(k))]
    /\ cache' \in Evictions([cache EXCEPT ![k] = [slot |-> v, dirty |-> TRUE]])
    /\ UNCHANGED <<disk, open_checkpoints, flush_active, failures>>

\* checkpoint
Open(t) ==
    /\ At(t, "open") /\ ~ flush_active
    /\ open_checkpoints' = open_checkpoints + 1
    /\ journal' = [journal EXCEPT ![t] = <<>>]
    /\ Goto(t, "run")
    /\ UNCHANGED <<classify, cache, disk, flush_active, failures, started>>

\* A closed checkpoint ends the transaction, unless a failed one must be settled.
Rest(t) == IF t = Main THEN "sequential" ELSE "idle"
Return(t) ==
    IF task[t].ret = "open" THEN Goto(t, "open")
    ELSE task' = [task EXCEPT ![t] = [Busy EXCEPT !.pc = Rest(t)]]

\* Mutant: a reverted checkpoint stays counted.
CloseCommittedOnly(t) ==
    /\ At(t, "close")
    /\ open_checkpoints' = IF task[t].ret = "open" THEN open_checkpoints
                           ELSE open_checkpoints - 1
    /\ Return(t)
    /\ UNCHANGED <<classify, cache, disk, journal, flush_active, failures, started>>

\* close_checkpoint_in_gate
Close(t) ==
    /\ At(t, "close")
    /\ open_checkpoints' = open_checkpoints - 1
    /\ Return(t)
    /\ UNCHANGED <<classify, cache, disk, journal, flush_active, failures, started>>

\* Mutant: a flush waits for another flush only.
ClaimAnyTime(t) ==
    /\ At(t, "claim") /\ ~ flush_active
    /\ flush_active' = TRUE
    /\ task' = [task EXCEPT ![t].pc = "gather",
                            ![t].todo = {k \in Keys : Dirty(k)}]
    /\ UNCHANGED <<classify, cache, disk, journal, open_checkpoints, failures, started>>

\* flush: it waits for the open checkpoints and for another flush.
Claim(t) ==
    /\ At(t, "claim") /\ open_checkpoints = 0 /\ ~ flush_active
    /\ flush_active' = TRUE
    /\ task' = [task EXCEPT ![t].pc = "gather",
                            ![t].todo = {k \in Keys : Dirty(k)}]
    /\ UNCHANGED <<classify, cache, disk, journal, open_checkpoints, failures, started>>

\* Each candidate that is still dirty is copied and marked clean.
Gather(t, k) ==
    /\ At(t, "gather") /\ k \in task[t].todo
    /\ IF Dirty(k)
       THEN /\ cache' = [cache EXCEPT ![k].dirty = FALSE]
            /\ task' = [task EXCEPT ![t].todo = @ \ {k},
                                    ![t].batch = Put(@, k, cache[k].slot)]
       ELSE task' = [task EXCEPT ![t].todo = @ \ {k}] /\ UNCHANGED cache
    /\ UNCHANGED <<classify, disk, journal, open_checkpoints, flush_active, failures, started>>

\* Mutant: a failed write leaves the entries clean.
WriteBatchForgets(t) ==
    /\ At(t, "gather") /\ task[t].todo = {}
    /\ \/ disk' = Written(task[t].batch) /\ Goto(t, "release") /\ UNCHANGED failures
       \/ /\ DOMAIN task[t].batch # {} /\ failures < MaxFailures /\ failures' = failures + 1
          /\ task' = [task EXCEPT ![t].pc = "release", ![t].ok = FALSE]
          /\ UNCHANGED disk
    /\ UNCHANGED <<classify, cache, journal, open_checkpoints, flush_active, started>>

\* The batch is written at once; if that fails its entries are dirty again.
WriteBatch(t) ==
    LET batch == task[t].batch
    IN  /\ At(t, "gather") /\ task[t].todo = {}
        /\ \/ disk' = Written(batch) /\ Goto(t, "release") /\ UNCHANGED <<cache, failures>>
           \/ /\ DOMAIN batch # {} /\ failures < MaxFailures /\ failures' = failures + 1
              /\ cache' = [k \in Keys |-> IF k \in DOMAIN batch /\ cache[k] # None
                                          THEN [cache[k] EXCEPT !.dirty = TRUE] ELSE cache[k]]
              /\ task' = [task EXCEPT ![t].pc = "release", ![t].ok = FALSE]
              /\ UNCHANGED disk
        /\ UNCHANGED <<classify, journal, open_checkpoints, flush_active, started>>

\* A failed flush of the committing thread stops the process.
Release(t) ==
    /\ At(t, "release") /\ flush_active' = FALSE
    /\ task' = IF t = Main /\ ~ task[t].ok THEN Stopped
               ELSE [task EXCEPT ![t] = [Busy EXCEPT !.pc = IF t = Main THEN "evict" ELSE "done"]]
    /\ UNCHANGED <<classify, cache, disk, journal, open_checkpoints, failures, started>>

-----------------------------------------------------------------------------
(* A transaction: apply_transaction.                                       *)

\* The nonce an account has reached, from its history.
Nonce(val, s) ==
    IF val = None THEN 0
    ELSE Cardinality({n \in DOMAIN val : transactions[val[n].tx].sender = s})

\* The addresses reserved by the transactions that are running.
processing_addresses ==
    UNION {{transactions[i].sender, transactions[i].receiver} :
              i \in {task[t].tx : t \in Threads} \ {0}}

\* A transaction whose addresses are reserved is rejected (Reentrancy).
StartTx(t, i) ==
    LET x == transactions[i]
    IN  /\ started' = started \cup {i}
        /\ task' = IF {x.sender, x.receiver} \cap processing_addresses # {} THEN task
                   ELSE [task EXCEPT ![t] = [Busy EXCEPT !.pc = "lookup", !.ret = "nonce",
                                                         !.tx = i, !.key = x.sender]]
        /\ UNCHANGED <<classify, store>>

\* A wrong nonce drops the transaction before a checkpoint is opened.
CheckNonce(t) ==
    /\ At(t, "nonce")
    /\ task' = [task EXCEPT ![t] =
                   IF Nonce(@.val, Tx(t).sender) = Tx(t).nonce
                   THEN [@ EXCEPT !.pc = "open", !.todo = Tx(t).writes]
                   ELSE [Busy EXCEPT !.pc = Rest(t)]]
    /\ UNCHANGED <<classify, store, started>>

\* The accounts are read and written one by one, the sender last.
Touch(t, a) ==
    /\ At(t, "run") /\ a \in task[t].todo
    /\ a = Tx(t).sender => task[t].todo = {a}
    /\ task' = [task EXCEPT ![t].pc = "lookup", ![t].ret = "write", ![t].key = a]
    /\ UNCHANGED <<classify, store, started>>

Write(t) ==
    LET old == IF task[t].val = None THEN <<>> ELSE task[t].val
    IN  /\ At(t, "write")
        /\ SetAccount(t, task[t].key, Append(old, [tx |-> task[t].tx, ok |-> task[t].ok]))
        /\ task' = [task EXCEPT ![t].pc = "run", ![t].todo = @ \ {task[t].key}]
        /\ UNCHANGED <<classify, started>>

CommitTx(t) ==
    /\ At(t, "run") /\ task[t].todo = {}
    /\ Tx(t).fails => ~ task[t].ok
    /\ journal' = [journal EXCEPT ![t] = None]
    /\ task' = [task EXCEPT ![t].pc = "close", ![t].ret = Rest(t)]
    /\ UNCHANGED <<classify, cache, disk, open_checkpoints, flush_active, failures, started>>

\* revert_checkpoint puts the old values back (Deleted where there was none);
\* then the fee and the nonce are settled in a checkpoint of their own.
RevertTx(t) ==
    /\ At(t, "run") /\ Tx(t).fails /\ task[t].ok
    /\ cache' = [k \in Keys |-> IF k \in DOMAIN journal[t]
                                THEN [slot |-> journal[t][k], dirty |-> TRUE] ELSE cache[k]]
    /\ journal' = [journal EXCEPT ![t] = None]
    /\ task' = [task EXCEPT ![t].pc = "close", ![t].ret = "open", ![t].ok = FALSE,
                            ![t].todo = {Tx(t).sender}]
    /\ UNCHANGED <<classify, disk, open_checkpoints, flush_active, failures, started>>

-----------------------------------------------------------------------------
(* The block: the driver's persist_and_commit, commit_block and             *)
(* execute_block_body, on the committing thread.                           *)

Plain == <<[tx |-> 0, ok |-> TRUE]>>     \* what is stored under the other keys

\* Executed one after another in block order, as the proposer's simulation and
\* every other validator must find it.
Serially(state, i) ==
    LET x == transactions[i]
        got(a) == IF state[a] = None THEN <<>> ELSE state[a]
    IN  IF Nonce(state[x.sender], x.sender) # x.nonce THEN state
        ELSE [a \in Accounts |->
                IF a \in (IF x.fails THEN {x.sender} ELSE x.writes)
                THEN Append(got(a), [tx |-> i, ok |-> ~ x.fails]) ELSE state[a]]
Expected ==
    FoldLeft(Serially, [a \in Accounts |-> Initial(a)], [i \in DOMAIN transactions |-> i])

\* store_consensus_records.  It writes __CONSENSUS_TIP__ first, for which load_tip
\* falls back to this record.
StoreRecord ==
    /\ At(Main, "record") /\ SetAccount(Main, Record, Plain) /\ Goto(Main, "height")
    /\ UNCHANGED <<classify, started>>

WriteHeight ==
    /\ At(Main, "height") /\ SetAccount(Main, Height, Plain) /\ Goto(Main, "classify")
    /\ UNCHANGED <<classify, started>>

ClassifyBlock ==
    /\ At(Main, "classify")
    /\ \/ Classify /\ UNCHANGED task
       \/ at > Len(transactions) /\ Goto(Main, "parallel") /\ UNCHANGED classify
    /\ UNCHANGED <<store, started>>

\* Rayon workers take the independent transactions; the scheduler joins them.
Spawn(t, i) ==
    /\ At(Main, "parallel") /\ t \in Workers /\ At(t, "idle")
    /\ i \in independent_txs \ started /\ StartTx(t, i)

Join ==
    /\ At(Main, "parallel") /\ independent_txs \subseteq started
    /\ \A t \in Workers : At(t, "idle")
    /\ Goto(Main, "sequential") /\ UNCHANGED <<classify, store, started>>

NextConflicting ==
    /\ At(Main, "sequential")
    /\ \/ conflicting_txs \ started # {} /\ StartTx(Main, Min(conflicting_txs \ started))
       \/ /\ conflicting_txs \subseteq started /\ Goto(Main, "root")
          /\ UNCHANGED <<classify, store, started>>

\* The state root against the header's; a difference stops the process before
\* anything is flushed.  The archived header is written in between.
Root ==
    /\ At(Main, "root")
    /\ task' = [task EXCEPT ![Main].pc = "archive",
                            ![Main].ok = \A a \in Accounts : View(a) = Expected[a]]
    /\ UNCHANGED <<classify, store, started>>

Archive ==
    /\ At(Main, "archive") /\ SetAccount(Main, Header, Plain)
    /\ task' = IF task[Main].ok THEN [task EXCEPT ![Main].pc = "claim"] ELSE Stopped
    /\ UNCHANGED <<classify, started>>

\* evict_from_cache of the block's archive keys.
EvictArchive ==
    /\ At(Main, "evict")
    /\ cache' = [cache EXCEPT ![Header] = None] /\ Goto(Main, "done")
    /\ UNCHANGED <<classify, disk, journal, open_checkpoints, flush_active, failures, started>>

\* persist_proposal in an RPC handler: a write outside any checkpoint, a flush.
PersistProposal(h) ==
    /\ h \in Handlers /\ setup.requests /\ At(h, "idle")
    /\ SetAccount(h, Proposal, Plain) /\ Goto(h, "claim")
    /\ UNCHANGED <<classify, started>>

\* An RPC query of an account or an archived block; a reader asks once.
Query(r, k) ==
    /\ r \in Readers /\ At(r, "idle")
    /\ task' = [task EXCEPT ![r] = [Busy EXCEPT !.pc = "lookup", !.ret = "done", !.key = k]]
    /\ UNCHANGED <<classify, store, started>>

-----------------------------------------------------------------------------
Step(t) ==
    \/ Lookup(t) \/ Fill(t) \/ CheckNonce(t) \/ Open(t) \/ Write(t) \/ CommitTx(t) \/ RevertTx(t)
    \/ Close(t) \/ Claim(t) \/ WriteBatch(t) \/ Release(t)
    \/ \E a \in Accounts : Touch(t, a)
    \/ \E k \in Keys : Gather(t, k)
    \/ \E i \in independent_txs : Spawn(t, i)

MainStep == \/ StoreRecord \/ WriteHeight \/ ClassifyBlock \/ Join \/ NextConflicting
            \/ Root \/ Archive \/ EvictArchive

Next ==
    /\ \/ MainStep
       \/ \E t \in Threads : Step(t)
       \/ \E h \in Handlers : PersistProposal(h)
       \/ \E r \in Readers, k \in setup.queried : Query(r, k)
    /\ UNCHANGED setup

Spec == Init /\ [][Next]_vars

\* Every thread that can take its next step eventually does.
FairSpec ==
    /\ Spec /\ WF_vars(MainStep /\ UNCHANGED setup)
    /\ \A t \in Threads : WF_vars(Step(t) /\ UNCHANGED setup)

-----------------------------------------------------------------------------
\* At every moment the storage holds all the writes of a transaction or none,
\* and none of a reverted one.
TxAtomicOnDisk ==
    \A i \in DOMAIN transactions :
        LET x == transactions[i]
            on == {a \in x.writes : disk[a] # None /\ [tx |-> i, ok |-> TRUE] \in ToSet(disk[a])}
        IN  on \in {{}, IF x.fails THEN {} ELSE x.writes}

\* load_tip: a height on the disk comes with a consensus record of that height,
\* without which build_engine refuses to start the node.
TipLoads == disk[Height] # None => disk[Record] # None

\* A crash finds neither half a transaction nor a height that the node could not
\* restart from, even while bridge requests flush in the middle of the block and
\* batches fail (CheckpointGate; "crash/restart kurtarma" of load_tip).
CrashConsistent == TxAtomicOnDisk /\ TipLoads

\* When the block has run, its accounts are as if its transactions had run
\* alone, one after another in block order: nothing raced, nothing was dropped
\* and nothing of a reverted transaction is left.
ParallelIsSerial == At(Main, "root") => \A a \in Accounts : View(a) = Expected[a]

\* No change is lost and none is made twice: when the block has run, each account
\* has the changes that serial execution makes, in whatever order (credits
\* commute).  The comments of touched_addresses_at give the scheduler's lock
\* tokens as what keeps unsynchronised add_balance calls apart.
NoChangeLost ==
    At(Main, "root") =>
        \A a \in Accounts \ Fresh : ToSet(View(a)) = ToSet(Expected[a])

\* Outside a flush every clean cache entry is what the storage holds, so that
\* evicting it loses nothing; also after a failed write_batch.
CleanMatchesDisk ==
    ~ flush_active =>
        \A k \in Keys : cache[k] # None /\ ~ cache[k].dirty => cache[k].slot = disk[k]

\* The commit ends, whatever flushes and checkpoints wait for each other.
CommitEnds == <>(At(Main, "done") \/ At(Main, "halted"))

=============================================================================
