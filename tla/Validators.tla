----------------------------- MODULE Validators -----------------------------
(***************************************************************************)
(* zagros-executor/src/validator_set.rs and the lifecycle arms of          *)
(* execute_transaction_inner: how an account becomes a validator and stops *)
(* being one, and how the active set is rebuilt at an epoch boundary.      *)
(* A block executes its transactions at its own time, then records who     *)
(* signed its parent, then advances the epoch if it is due.                *)
(*                                                                         *)
(* Stake is moved by the arms of Ledger; here it changes in whole amounts. *)
(* Signatures hold, declarations are reduced to the operator, the order of *)
(* the members is left out.  The chain is past epoch 57: the rules of      *)
(* earlier epochs and the one amnesty are history.                         *)
(***************************************************************************)
EXTENDS Integers, FiniteSets, FiniteSetsExt, TLC

CONSTANTS
    Addrs, Operator,       \* accounts, and who declares to operate each
    Keys,                  \* Keys[a]: the consensus keys a can prove to own
    NoKey,
    GenesisSet,            \* the accounts the chain starts with as validators
    Stakes,                \* amounts an account can have staked
    MinStake, Threshold,   \* min_validator_stake_zagros, qualification_threshold
    MinValidators, MaxHard,    \* MIN_VALIDATORS, MAX_VALIDATORS_HARD
    MaxValidators, MaxPerOperator,
    UptimeBps,             \* effective_uptime_threshold_bps
    MaxStrikes,            \* effective_max_liveness_strikes
    ProbationEpochs,
    Jail, Vesting,
    MaxTime, MaxTxs        \* bounds

ASSUME ValidatorsAssumption ==
    /\ MinValidators \in Nat /\ MaxStrikes \in Nat
    /\ GenesisSet \subseteq Addrs /\ Threshold <= MinStake

VARIABLES
    acct,       \* the validator fields of the accounts
    set,        \* __ACTIVE_VALIDATOR_SET__: [epoch, members]
    voted,      \* the set that signs the last block's quorum certificate
    rotation,   \* __KEYROT_*: pending key rotations
    params,     \* the chain parameters a vote can change
    now,        \* the time of the block being executed
    txs,        \* transactions executed so far
    endorsed    \* history: accounts approved since they last lost their place

validatorVars == <<acct, set, voted, rotation, params, now, txs, endorsed>>

NoRotation == [key |-> NoKey, requested |-> 0]
Registered == {"candidate", "approved", "probation", "active"}
Seated == {"approved", "probation", "active"}

\* ac with the accounts of S rewritten.
Each(ac, S, Op(_)) == [a \in DOMAIN ac |-> IF a \in S THEN Op(a) ELSE ac[a]]

Monus(a, b) == IF a > b THEN a - b ELSE 0

\* epoch_at
Epoch(t) == t \div params.epochSeconds
Quorum(n) == (2 * n) \div 3 + 1
With(ac, status) == {a \in Addrs : ac[a].status = status}
Members(s) == {m.addr : m \in s.members}

\* registered_validator_accounts: what has stake, and the members of the set.
Listed(ac, s) == {a \in Addrs : ac[a].status # "none" /\ ac[a].stake > 0} \cup Members(s)

-----------------------------------------------------------------------------
(* Transactions.                                                           *)

\* settle_pending_stake and settle_matured_stake
Vested(v) ==
    IF v.pending > 0 /\ now >= v.vests THEN [v EXCEPT !.stake = @ + v.pending, !.pending = 0]
    ELSE v

Unmeasured == [epoch |-> 0, participated |-> 0, total |-> 0, strikes |-> 0]

Tx(a) == txs < MaxTxs /\ txs' = txs + 1 /\ UNCHANGED <<set, voted, params, now>>

\* RegisterValidator
Register(a, k) ==
    /\ Tx(a) /\ k \in Keys[a]
    /\ acct[a].status \notin Registered \cup {"exiting"}
    /\ now >= acct[a].jailedUntil /\ acct[a].stake >= MinStake
    /\ \A b \in Listed(acct, set) \ {a} : acct[b].key # k
    /\ acct' = [acct EXCEPT ![a] = [@ EXCEPT !.status = "candidate", !.key = k,
                    !.registeredAt = now, !.live = Unmeasured, !.since = Epoch(now)]]
    /\ UNCHANGED <<rotation, endorsed>>

\* UnregisterValidator
Unregister(a) ==
    /\ Tx(a) /\ acct[a].status \in Registered
    /\ acct' = [acct EXCEPT ![a].status = "exiting"]
    /\ endorsed' = endorsed \ {a}
    /\ UNCHANGED rotation

\* apply_admin_approve, reached by the admins' signatures or by a vote.
CanApprove(ac, s, a) ==
    /\ ac[a].status = "candidate" /\ ac[a].key # NoKey /\ ac[a].stake >= Threshold
    /\ Cardinality({b \in Listed(ac, s) \ {a} :
           ac[b].status \in Seated /\ Operator[b] = Operator[a]}) < MaxPerOperator
Approved(ac, a, e) == [ac EXCEPT ![a].status = "approved", ![a].since = e]

\* apply_admin_remove
CanRemove(ac, a) == ac[a].status \notin {"none", "removed"}
Removed(ac, a, e) == [ac EXCEPT ![a].status = "removed", ![a].since = e]

\* RotateConsensusKey
RotateConsensusKey(a, k) ==
    /\ Tx(a) /\ k \in Keys[a] /\ k # acct[a].key
    /\ acct[a].key # NoKey /\ acct[a].status \in Registered
    /\ \A b \in Listed(acct, set) \ {a} : acct[b].key # k /\ rotation[b].key # k
    /\ rotation' = [rotation EXCEPT ![a] = [key |-> k, requested |-> Epoch(now)]]
    /\ UNCHANGED <<acct, endorsed>>

\* StakeZagros and UnstakeZagros as seen from here; new stake vests first.
ChangeStake(a, n) ==
    LET v == Vested(acct[a])
    IN  /\ Tx(a) /\ n # v.stake + v.pending
        /\ acct' = [acct EXCEPT ![a] = [v EXCEPT
                        !.stake = Min({@, n}), !.pending = Monus(n, v.stake),
                        !.vests = IF n > v.stake + v.pending THEN now + Vesting ELSE @]]
        /\ UNCHANGED <<rotation, endorsed>>

\* ReportMalicious, and SlashValidator after D14.
Slash(a) ==
    /\ Tx(a) /\ acct[a].stake + acct[a].pending > 0 /\ acct[a].status # "none"
    /\ acct' = [acct EXCEPT ![a].stake = 0, ![a].pending = 0, ![a].status = "jailed",
                            ![a].jailedUntil = now + Jail]
    /\ endorsed' = endorsed \ {a}
    /\ UNCHANGED rotation

-----------------------------------------------------------------------------
(* The end of a block: record_qc_liveness, the shadow votes, the epoch.    *)

\* One measurement of a validator in an epoch.
Measured(l, e, took) ==
    LET fresh == IF l.epoch = e THEN l ELSE [Unmeasured EXCEPT !.epoch = e, !.strikes = l.strikes]
    IN  [fresh EXCEPT !.total = @ + 1, !.participated = @ + (IF took THEN 1 ELSE 0)]

QcRecorded(ac, signers) ==
    LET met(a) == [ac[a] EXCEPT !.live = Measured(@, voted.epoch, a \in signers)]
    IN  Each(ac, Members(voted), met)

\* A shadow vote counts for whoever owns the key that signed it.
ShadowsRecorded(ac, shadows) ==
    LET met(a) == [ac[a] EXCEPT !.live = Measured(@, set.epoch, TRUE)]
    IN  Each(ac, shadows, met)

Above(l) == l.total > 0 /\ l.participated * 10000 >= l.total * UptimeBps

\* Before the steps: vested stake, and apply_pending_key_rotations.
RotationDue(a, e) == rotation[a].key # NoKey /\ rotation[a].requested < e
Settled(a, v, e) ==
    [Vested(v) EXCEPT !.key = IF RotationDue(a, e) THEN rotation[a].key ELSE @]

\* Mutant: who is released from jail goes back to probation at once.
JudgedForgiving(v, e) ==
    CASE v.status = "exiting" -> [v EXCEPT !.status = "removed", !.since = e]
      [] v.status = "jailed" /\ now >= v.jailedUntil ->
            [v EXCEPT !.status = "probation", !.since = e]
      [] OTHER -> v

\* Step 1: who leaves, who is released, who is below the threshold.
Judged(v, e) ==
    LET measured == v.live.epoch = set.epoch /\ v.live.total > 0
        strikes == IF ~measured THEN v.live.strikes
                   ELSE IF Above(v.live) THEN 0 ELSE v.live.strikes + 1
    IN  CASE v.status = "exiting" -> [v EXCEPT !.status = "removed", !.since = e]
          [] v.status = "jailed" /\ now >= v.jailedUntil ->
                [v EXCEPT !.status = "candidate", !.since = e]
          [] v.status = "active" /\ strikes < MaxStrikes /\ v.stake < Threshold ->
                [v EXCEPT !.status = "probation", !.since = e, !.live.strikes = strikes]
          [] v.status = "active" /\ (strikes >= MaxStrikes \/ v.stake >= Threshold) ->
                [v EXCEPT !.live.strikes = strikes, !.since = IF measured THEN e ELSE @]
          [] OTHER -> v

\* Step 1b: the slow go to probation together, or, if too few would stay, none.
Penalised(ac, listed, e) ==
    LET slow == {a \in listed : ac[a].status = "active" /\ ac[a].live.strikes >= MaxStrikes}
        enough == Cardinality(With(ac, "active") \cap listed) - Cardinality(slow) >= MinValidators
        penalty(a) == [ac[a] EXCEPT !.status = "probation", !.since = e,
                                    !.live = [Unmeasured EXCEPT !.epoch = ac[a].live.epoch]]
    IN  IF enough THEN Each(ac, slow, penalty) ELSE ac

\* Step 2: who has served the probation.
Promoted(ac, listed, e) ==
    LET served(a) == /\ ac[a].status = "probation" /\ e - ac[a].since >= ProbationEpochs
                     /\ Above(ac[a].live) /\ ac[a].stake >= Threshold /\ ac[a].key # NoKey
        active(a) == [ac[a] EXCEPT !.status = "active", !.since = e]
    IN  Each(ac, {a \in listed : served(a)}, active)

\* Step 3: the free seats, first registered first served.
Admitted(ac, listed, e) ==
    LET waiting == {a \in listed : ac[a].status = "approved"}
        used == Cardinality({a \in listed : ac[a].status \in {"active", "probation"}})
        before(a) == {b \in waiting : ac[b].registeredAt < ac[a].registeredAt}
        seated(a) == [ac[a] EXCEPT !.status = "probation", !.since = e, !.live = Unmeasured]
    IN  Each(ac, {a \in waiting : Cardinality(before(a)) < Monus(MaxValidators, used)}, seated)

\* Steps 1 to 3, each over what the one before left (one result, in a set).
Rebuilt(ac, listed, e) ==
    LET judged(a) == Judged(Settled(a, ac[a], e), e)
        penalised == {Penalised(x, listed, e) : x \in {Each(ac, listed, judged)}}
        promoted == {Promoted(x, listed, e) : x \in penalised}
    IN  {Admitted(x, listed, e) : x \in promoted}

\* Step 4: the new set, or the old one under its new keys when it is too small.
NextSet(ac, listed, e) ==
    LET actives == {a \in listed : ac[a].status = "active"}
        key(m) == IF RotationDue(m.addr, e) THEN rotation[m.addr].key ELSE m.key
    IN  [epoch |-> e,
         members |-> IF Cardinality(actives) \in MinValidators .. MaxHard
                     THEN {[addr |-> a, key |-> ac[a].key] : a \in actives}
                     ELSE {[m EXCEPT !.key = key(m)] : m \in set.members}]

\* advance_epoch_if_due, up to what governance does at the boundary.
Advanced(ac, e) ==
    LET cleared == [a \in Addrs |-> IF a \in Listed(ac, set) /\ RotationDue(a, e)
                                    THEN NoRotation ELSE rotation[a]]
    IN  {[acct |-> next, set |-> NextSet(next, Listed(ac, set), e), rotation |-> cleared] :
            next \in Rebuilt(ac, Listed(ac, set), e)}

\* What the end of a block makes of the validators.
AfterBlock(signers, shadows) ==
    UNION {IF Epoch(now) > set.epoch THEN Advanced(met, Epoch(now))
           ELSE {[acct |-> met, set |-> set, rotation |-> rotation]} :
              met \in {ShadowsRecorded(QcRecorded(acct, signers), shadows)}}

\* A quorum signed the parent; the shadow votes are of validators on probation.
Certified(signers, shadows) ==
    /\ signers \subseteq Members(voted)
    /\ Cardinality(signers) >= Quorum(Cardinality(voted.members))
    /\ shadows \subseteq With(acct, "probation")

\* ActiveValidatorSet::validate: a set it refuses stops the block.
Valid(s) == \A m, n \in s.members : m.key = n.key => m = n

ValidatorsInit ==
    /\ acct = [a \in Addrs |->
           [status |-> IF a \in GenesisSet THEN "active" ELSE "none",
            key |-> IF a \in GenesisSet THEN CHOOSE k \in Keys[a] : TRUE ELSE NoKey,
            stake |-> Max(Stakes), pending |-> 0, vests |-> 0, since |-> 0, registeredAt |-> 0,
            jailedUntil |-> 0, live |-> Unmeasured]]
    /\ set = [epoch |-> 0,
              members |-> {[addr |-> a, key |-> acct[a].key] : a \in GenesisSet}]
    /\ voted = set /\ rotation = [a \in Addrs |-> NoRotation]
    /\ now = 1 /\ txs = 0 /\ endorsed = GenesisSet

=============================================================================
