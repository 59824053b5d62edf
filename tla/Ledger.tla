------------------------------- MODULE Ledger -------------------------------
(***************************************************************************)
(* zagros-executor/src/lib.rs and swap.rs: what the native transactions do *)
(* to the chain's money.  An arm of execute_transaction_inner works on a   *)
(* private copy of the sender's account (`me`) and, beside it, writes the  *)
(* state (`w`); the copy is written back over the sender's account when    *)
(* the arm ends, whatever the state holds by then.  An arm is therefore an *)
(* operator that yields the pair [w, me], or nothing when it returns Err.  *)
(*                                                                         *)
(* A transaction of Txs has passed its signature and nonce checks and is   *)
(* in the block being executed.  Addresses are canonical, receipts and     *)
(* logs are left out, and no amount nears 2^128.  The arms of the          *)
(* validator lifecycle and of governance are in Validators and Governance, *)
(* the EVM is in EvmCall, the making of bridge proposals in Bridge.        *)
(***************************************************************************)
EXTENDS Integers, Sequences, FiniteSets, FiniteSetsExt, SequencesExt

CONSTANTS
    Addrs,             \* accounts that hold coins
    Admin,             \* admin_authority
    BridgeAuthority,   \* bridge_authority
    Nobody,            \* the empty block_producer_address
    Txs,               \* transactions: [type, from, to, amt, min, fee, skew, ref]
    Genesis,           \* the world Init starts from
    Producers,         \* who may produce a block
    Factors,           \* values of producer_reward_factor_bps
    Scale,             \* 1e12 in reward_owed
    ValidatorBps,      \* VALIDATOR_REWARD_BPS
    FeeBps,            \* STANDARD_SWAP_FEE_BPS
    MaxSwapPercent,    \* MAX_SWAP_AMOUNT_PERCENT
    MinZagros, MinZerenya,     \* MIN_POOL_LIQUIDITY_*
    Window,            \* SWAP_VOLUME_WINDOW_SECS
    GasTarget,         \* gas_target_zerenya
    MinStakeZerenya,   \* min_validator_stake_zerenya
    HysteresisBps,     \* stake_hysteresis_bps
    ReporterBps,       \* reporter_reward_cap_bps
    Vesting,           \* REWARD_VESTING_SECONDS
    Unbonding,         \* 172_800
    BondLock,          \* bond_lock_seconds
    Jail,              \* JAIL_DURATION_SECONDS
    AdminEnd,          \* admin_authority_end
    MaxSkew,           \* 300: |block time - tx.timestamp|
    MaxMint,           \* MAX_SINGLE_BRIDGE_MINT
    DailyMint, Day,    \* bridge_daily_mint_limit, 86_400
    MaxBurns,          \* MAX_RECENT_BRIDGE_BURNS
    MaxTransfers,      \* MAX_RECENT_TRANSFERS
    D14,               \* the D14 rules are active at this height
    Times, MaxTxs      \* bounds: the times of blocks, transactions executed

ASSUME LedgerAssumption ==
    /\ Scale \in Nat \ {0} /\ Window \in Nat \ {0}
    /\ \A b \in {ValidatorBps, FeeBps, ReporterBps} \cup Factors : b \in Nat /\ b <= 10000
    /\ Producers \subseteq Addrs \cup {Nobody}
    /\ Times \subseteq Nat
    /\ \A x \in Txs : x.from \in Addrs /\ x.amt \in Nat /\ x.fee \in Nat

VARIABLES
    w,          \* the state: accounts, pool, treasury and the sentinel records
    gas,        \* pending_gas_reward
    counter,    \* recent_transfer_index_counter
    now,        \* the block's time
    producer, factor,    \* the block's producer and its reward factor
    lost,       \* history: coins an arm credited to its sender and then overwrote
    left        \* history: when an account last began to leave as a validator

vars == <<w, gas, counter, now, producer, factor, lost, left>>
block == <<now, producer, factor>>

Pool == "pool"       \* LIQUIDITY_POOL_ADDRESS
Registered == {"candidate", "approved", "probation", "active"}
Directions == {"zerenya_in", "zagros_in"}

TxTypes ==
    {"transfer", "buy", "sell", "stake", "unstake", "claim", "slash", "report", "unregister",
     "mint", "mint_and_swap", "burn", "swap_and_burn"}

Monus(a, b) == IF a > b THEN a - b ELSE 0
When(guard, result) == IF guard THEN {result} ELSE {}
Sum(f) == MapThenSumSet(LAMBDA a : f[a], DOMAIN f)
Executed(wd) == Sum([a \in Addrs |-> wd.acct[a].nonce])

-----------------------------------------------------------------------------
(* Prices, stake thresholds and the reward engine.                         *)

\* base_gas_fee_from_reserves
Price(wd, zerenya) ==
    IF wd.pool.zerenya = 0 THEN zerenya ELSE (zerenya * wd.pool.zagros) \div wd.pool.zerenya

GasMultiplier(type) ==
    CASE type \in {"transfer", "vote"} -> 1
      [] type \in {"mint", "mint_and_swap", "burn", "swap_and_burn"} -> 3
      [] type \in {"slash", "report", "propose", "approve", "remove"} -> 10
      [] OTHER -> 2

\* D14: a native fee is at most 1024 times the canonical one.
FeeAllowed(wd, x) ==
    LET base == Price(wd, GasTarget) * GasMultiplier(x.type)
    IN  D14 /\ base > 0 => x.fee <= 1024 * base

MinStake(wd) == Price(wd, MinStakeZerenya)

QualificationThreshold(wd, a) ==
    ((IF a.snapshot = 0 THEN MinStake(wd) ELSE a.snapshot) * (10000 - HysteresisBps)) \div 10000

Qualifies(wd, a) ==
    /\ a.registered /\ a.staked >= QualificationThreshold(wd, a) /\ now >= a.jailedUntil

RewardOwed(staked, acc) == (staked * acc) \div Scale

\* distribute_staking_reward: a share to the block's producer, the rest to
\* the treasury and, through acc, to every staker.
Distribute(wd, reward) ==
    IF reward = 0 THEN wd
    ELSE IF wd.totalStaked = 0 THEN [wd EXCEPT !.treasury = @ + reward]
    ELSE LET base == (reward * ValidatorBps) \div 10000
             share == IF producer # Nobody /\ Qualifies(wd, wd.acct[producer])
                      THEN (base * factor) \div 10000 ELSE 0
             rest == reward - share
             paid == IF share = 0 THEN wd ELSE [wd EXCEPT !.acct[producer].balance = @ + share]
         IN  [paid EXCEPT !.treasury = @ + rest, !.acc = @ + (rest * Scale) \div wd.totalStaked]

\* Mutants: The matured stake is forgotten in the total; in the debt.
SettleUncounted(s) ==
    IF s.me.pendingStake = 0 \/ now < s.me.activatesAt THEN s
    ELSE [s EXCEPT !.me.debt = @ + RewardOwed(s.me.pendingStake, s.w.acc),
                   !.me.staked = @ + s.me.pendingStake,
                   !.me.pendingStake = 0, !.me.activatesAt = 0]

SettleUnindebted(s) ==
    IF s.me.pendingStake = 0 \/ now < s.me.activatesAt THEN s
    ELSE [w |-> [s.w EXCEPT !.totalStaked = @ + s.me.pendingStake],
          me |-> [s.me EXCEPT !.staked = @ + s.me.pendingStake,
                              !.pendingStake = 0, !.activatesAt = 0]]

\* settle_pending_stake: a matured stake joins the rewards, not the past ones.
Settle(s) ==
    IF s.me.pendingStake = 0 \/ now < s.me.activatesAt THEN s
    ELSE [w |-> [s.w EXCEPT !.totalStaked = @ + s.me.pendingStake],
          me |-> [s.me EXCEPT !.debt = @ + RewardOwed(s.me.pendingStake, s.w.acc),
                              !.staked = @ + s.me.pendingStake,
                              !.pendingStake = 0, !.activatesAt = 0]]

Pending(s) == Monus(RewardOwed(s.me.staked, s.w.acc), s.me.debt)
Payout(s) == Min({Pending(s), s.w.treasury})
Shortfall(s) == Pending(s) - Payout(s)
\* Mutant: The payout leaves no trace in the treasury.
PaidUnbooked(s) == [s EXCEPT !.me.balance = @ + Payout(s)]

Paid(s) == [w |-> [s.w EXCEPT !.treasury = @ - Payout(s)],
            me |-> [s.me EXCEPT !.balance = @ + Payout(s)]]

-----------------------------------------------------------------------------
(* The swap pool.                                                          *)

Align(t) == t - (t % Window)

\* SwapVolumeTracker::advance_to
Advance(v, t) ==
    IF Align(t) <= v.start THEN v
    ELSE [start |-> Align(t),
          current |-> [d \in Directions |-> 0],
          previous |-> IF Align(t) - v.start >= 2 * Window
                       THEN [d \in Directions |-> 0] ELSE v.current]

\* SwapVolumeTracker::effective
Effective(v, d, t) ==
    LET remaining == Window - Min({Monus(t, v.start), Window})
    IN  v.current[d] + (v.previous[d] * remaining) \div Window

\* check_and_record_swap_volume: the worlds in which the volume is recorded.
VolumeRecorded(wd, d, amount, reserve) ==
    LET v == Advance(wd.volume, now)
    IN  When(Effective(v, d, now) + amount <= (reserve * MaxSwapPercent) \div 100,
             [wd EXCEPT !.volume = [v EXCEPT !.current[d] = @ + amount]])

Liquid(wd) == wd.pool.zagros >= MinZagros /\ wd.pool.zerenya >= MinZerenya

\* quote_swap_buy and quote_bridge_mint_and_swap: the fee comes off the output.
BuyQuote(wd, amount) ==
    LET raw == (amount * wd.pool.zagros) \div (wd.pool.zerenya + amount)
        fee == (raw * FeeBps) \div 10000
    IN  When(/\ Liquid(wd) /\ amount <= (wd.pool.zerenya * MaxSwapPercent) \div 100
             /\ raw - fee > 0,
             [out |-> raw - fee, fee |-> fee,
              pool |-> [zagros |-> wd.pool.zagros - raw, zerenya |-> wd.pool.zerenya + amount]])

\* The SwapSell arm and quote_bridge_swap_and_burn: it comes off the input.
SellQuote(wd, amount) ==
    LET fee == (amount * FeeBps) \div 10000
        in == amount - fee
        out == (in * wd.pool.zerenya) \div (wd.pool.zagros + in)
    IN  When(/\ Liquid(wd) /\ amount <= (wd.pool.zagros * MaxSwapPercent) \div 100
             /\ out > 0,
             [out |-> out, fee |-> fee,
              pool |-> [zagros |-> wd.pool.zagros + in, zerenya |-> wd.pool.zerenya - out]])

SlippageOk(x, q) == x.min > 0 => q.out >= x.min

-----------------------------------------------------------------------------
(* The arms.  s is [w, me]; x is the transaction.                          *)

\* record_transfer: the index leaves the window of the last MaxTransfers.
Evicted(i) == IF i >= MaxTransfers THEN {i - MaxTransfers} ELSE {}
TransferRecorded(wd, i) == [wd EXCEPT !.transfers = (@ \ Evicted(i)) \cup {i}]

Transfer(s, x) ==
    When(x.to # Pool /\ (D14 => x.to # x.from),
         [w |-> TransferRecorded([s.w EXCEPT !.acct[x.to].balance = @ + x.amt], counter),
          me |-> [s.me EXCEPT !.balance = Monus(@, x.amt)]])

SwapBuy(s, x) ==
    {[w |-> [Distribute(p[1], p[2].fee) EXCEPT !.pool = p[2].pool],
      me |-> [s.me EXCEPT !.zerenya = Monus(@, x.amt), !.balance = @ + p[2].out]] :
        p \in {o \in VolumeRecorded(s.w, "zerenya_in", x.amt, s.w.pool.zerenya)
                      \X BuyQuote(s.w, x.amt) :
                   s.me.zerenya >= x.amt /\ SlippageOk(x, o[2])}}

SwapSell(s, x) ==
    {[w |-> [Distribute(p[1], p[2].fee) EXCEPT !.pool = p[2].pool],
      me |-> [s.me EXCEPT !.balance = Monus(@, x.amt), !.zerenya = @ + p[2].out]] :
        p \in {o \in VolumeRecorded(s.w, "zagros_in", x.amt, s.w.pool.zagros)
                      \X SellQuote(s.w, x.amt) : o[2].out >= x.min}}

StakeZagros(s, x) ==
    LET t == Settle(s)
        p == Paid([t EXCEPT !.me.balance = @ - x.amt])
    IN  {[w |-> p.w,
          me |-> [p.me EXCEPT !.pendingStake = @ + x.amt, !.activatesAt = now + Vesting,
                              !.debt = Monus(RewardOwed(t.me.staked, t.w.acc), Shortfall(t))]]}

\* UnstakeZagros with amount 0: what has matured comes out.
Withdraw(s, x) ==
    When(s.me.unbonding > 0 /\ now + x.skew >= s.me.unlocksAt,
         [w |-> s.w, me |-> [s.me EXCEPT !.unbonding = 0, !.balance = @ + s.me.unbonding]])

\* UnstakeZagros: what has not vested goes first; the rest is paid its reward.
Unbond(s, x) ==
    LET t == Settle(s)
        fresh == Min({x.amt, t.me.pendingStake})
        active == x.amt - fresh
        drawn == [t EXCEPT !.me.pendingStake = @ - fresh,
                           !.me.activatesAt = IF t.me.pendingStake = fresh THEN 0 ELSE @]
        p == IF active = 0 THEN drawn ELSE Paid(drawn)
        owed == Monus(RewardOwed(t.me.staked - active, t.w.acc), Shortfall(drawn))
    IN  When(s.me.unbonding = 0 /\ x.amt <= t.me.staked + t.me.pendingStake,
             [w |-> [p.w EXCEPT !.totalStaked = Monus(@, active)],
              me |-> [p.me EXCEPT !.staked = @ - active,
                                  !.debt = IF active = 0 THEN @ ELSE owed,
                                  !.unbonding = x.amt,
                                  !.unlocksAt = now + x.skew + Unbonding,
                                  !.bondedUntil = IF p.me.registered
                                                  THEN Max({@, now + BondLock}) ELSE @]])

\* Mutant: A withdrawal is let through before the bond lock is looked at.
UnstakeZagrosUnlocked(s, x) ==
    IF x.amt = 0 THEN Withdraw(s, x)
    ELSE IF s.me.bondedUntil > 0 /\ now < s.me.bondedUntil THEN {} ELSE Unbond(s, x)

UnstakeZagros(s, x) ==
    IF s.me.bondedUntil > 0 /\ now < s.me.bondedUntil THEN {}
    ELSE IF x.amt = 0 THEN Withdraw(s, x) ELSE Unbond(s, x)

ClaimReward(s, x) ==
    LET t == Settle(s)
    IN  {[Paid(t) EXCEPT !.me.debt = @ + Payout(t)]}

Bonded(a) == a.staked + a.unbonding + a.pendingStake

\* What SlashValidator and ReportMalicious leave of the target's account.
Confiscated(a) ==
    [a EXCEPT !.staked = 0, !.unbonding = 0, !.unlocksAt = 0, !.pendingStake = 0,
              !.activatesAt = 0, !.registered = FALSE, !.jailedUntil = now + Jail]

Jailed(a) == [a EXCEPT !.status = IF D14 /\ @ # "none" THEN "jailed" ELSE @]

Slashed(wd, target, reason, amount) ==
    [wd EXCEPT !.slashes = Append(@, [target |-> target, reason |-> reason, amount |-> amount])]

SlashValidator(s, x) ==
    LET own == x.to = x.from
        target == IF own THEN s.me ELSE s.w.acct[x.to]
        after == Jailed(Confiscated(target))
        wd == [s.w EXCEPT !.totalStaked = Monus(@, target.staked),
                          !.acct[x.to] = IF own THEN @ ELSE after]
    IN  When(x.from = Admin /\ now <= AdminEnd /\ Bonded(target) > 0,
             [w |-> Slashed(Distribute(wd, Bonded(target)), x.to, "admin", Bonded(target)),
              me |-> IF own THEN after ELSE s.me])

ProofUsed(wd, ref) == [wd EXCEPT !.usedProofs = @ \cup {ref}]

\* ReportMalicious once its evidence stands: a share of the bond is the reporter's.
Convicted(s, x) ==
    LET target == s.w.acct[x.to]
        reward == (Bonded(target) * ReporterBps) \div 10000
        wd == [s.w EXCEPT !.totalStaked = Monus(@, target.staked),
                          !.acct[x.to] = [Confiscated(target) EXCEPT !.status = "jailed"]]
    IN  [w |-> ProofUsed(Slashed(Distribute(wd, Bonded(target) - reward), x.to, "double_sign",
                                 Bonded(target)), x.ref),
         me |-> [s.me EXCEPT !.unbonding = @ + reward, !.unlocksAt = now + Unbonding]]

\* ReportMalicious with consensus evidence: x.ref.until is the last moment at
\* which a validator set of the evidence window verifies it.
ReportMalicious(s, x) ==
    When(/\ now <= x.ref.until /\ x.ref.validator = x.to /\ x.ref \notin s.w.usedProofs
         /\ x.to # x.from /\ Bonded(s.w.acct[x.to]) > 0,
         Convicted(s, x))

UnregisterValidator(s, x) ==
    When(s.me.status \in Registered,
         [w |-> s.w, me |-> [s.me EXCEPT !.status = "exiting", !.registered = FALSE,
                                         !.bondedUntil = now + BondLock]])

-----------------------------------------------------------------------------
(* The bridge's arms.  x.ref is the deposit the proposal names; x.signed   *)
(* says whether enough authorities of the on-chain set signed it.          *)

\* check_and_record_daily_mint: a sliding window of one day.
DailyMintRecorded(wd, amount) ==
    LET recent == SelectSeq(wd.daily, LAMBDA e : e.at > Monus(now, Day))
        minted == FoldLeft(LAMBDA sum, e : sum + e.amount, 0, recent)
    IN  When(minted + amount <= DailyMint,
             [wd EXCEPT !.daily = Append(recent, [at |-> now, amount |-> amount])])

\* validate_bridge_mint_proposal and the guards before it.
MintValid(s, x, auto) ==
    /\ x.from = BridgeAuthority /\ x.to # BridgeAuthority /\ x.amt <= MaxMint
    /\ x.ref.signed /\ x.ref.to = x.to /\ x.ref.amt = x.amt /\ x.ref.auto = auto
    /\ x.ref.source \notin s.w.processed

BridgeMint(s, x) ==
    {[s EXCEPT !.w = [wd EXCEPT !.acct[x.to].zerenya = @ + x.amt, !.backed = @ + x.amt,
                                !.processed = @ \cup {x.ref.source}]] :
        wd \in {v \in DailyMintRecorded(s.w, x.amt) : MintValid(s, x, FALSE)}}

BridgeMintAndSwap(s, x) ==
    {[s EXCEPT !.w = [Distribute([p[1] EXCEPT !.acct[x.to].balance = @ + p[2].out,
                                              !.backed = @ + x.amt], p[2].fee)
                         EXCEPT !.pool = p[2].pool, !.processed = @ \cup {x.ref.source}]] :
        p \in {o \in (UNION {VolumeRecorded(d, "zerenya_in", x.amt, d.pool.zerenya) :
                                 d \in DailyMintRecorded(s.w, x.amt)})
                      \X BuyQuote(s.w, x.amt) :
                   MintValid(s, x, TRUE) /\ SlippageOk(x.ref, o[2])}}

\* record_bridge_burn
BurnRecorded(wd, from, amount) ==
    LET all == Append(wd.burns, [index |-> wd.nextBurn, from |-> from, amount |-> amount])
    IN  [wd EXCEPT !.burns = IF Len(all) > MaxBurns THEN Tail(all) ELSE all,
                   !.nextBurn = @ + 1]

\* Mutant: The burn is recorded, the backing is not reduced.
BridgeBurnStillBacked(s, x) ==
    When(s.me.zerenya >= x.amt /\ s.w.backed >= x.amt,
         [w |-> BurnRecorded(s.w, x.from, x.amt),
          me |-> [s.me EXCEPT !.zerenya = @ - x.amt]])

BridgeBurn(s, x) ==
    When(s.me.zerenya >= x.amt /\ s.w.backed >= x.amt,
         [w |-> BurnRecorded([s.w EXCEPT !.backed = @ - x.amt], x.from, x.amt),
          me |-> [s.me EXCEPT !.zerenya = @ - x.amt]])

BridgeSwapAndBurn(s, x) ==
    {[w |-> BurnRecorded([Distribute(p[1], p[2].fee) EXCEPT !.pool = p[2].pool,
                                                            !.backed = @ - p[2].out],
                         x.from, p[2].out),
      me |-> [s.me EXCEPT !.balance = @ - x.amt]] :
        p \in {o \in VolumeRecorded(s.w, "zagros_in", x.amt, s.w.pool.zagros)
                      \X SellQuote(s.w, x.amt) :
                   SlippageOk(x, o[2]) /\ s.w.backed >= o[2].out}}

-----------------------------------------------------------------------------
(* apply_transaction around the arms.                                      *)

Exempt(x) == x.type \in {"mint", "mint_and_swap"} /\ x.from = BridgeAuthority
Fee(x) == IF Exempt(x) THEN 0 ELSE x.fee

\* The balance execute_transaction_inner asks for before it enters an arm.
Required(x) ==
    Fee(x) + (IF x.type \in {"transfer", "sell", "stake", "swap_and_burn"} THEN x.amt ELSE 0)

Arm(s, x) ==
    CASE x.type = "transfer" -> Transfer(s, x)
      [] x.type = "buy" -> SwapBuy(s, x)
      [] x.type = "sell" -> SwapSell(s, x)
      [] x.type = "stake" -> StakeZagros(s, x)
      [] x.type = "unstake" -> UnstakeZagros(s, x)
      [] x.type = "claim" -> ClaimReward(s, x)
      [] x.type = "slash" -> SlashValidator(s, x)
      [] x.type = "report" -> ReportMalicious(s, x)
      [] x.type = "unregister" -> UnregisterValidator(s, x)
      [] x.type = "mint" -> BridgeMint(s, x)
      [] x.type = "mint_and_swap" -> BridgeMintAndSwap(s, x)
      [] x.type = "burn" -> BridgeBurn(s, x)
      [] x.type = "swap_and_burn" -> BridgeSwapAndBurn(s, x)

Outcomes(x) ==
    LET s == [w |-> w, me |-> w.acct[x.from]]
    IN  IF s.me.balance < Required(x) THEN {} ELSE Arm(s, x)

Admitted(x) ==
    /\ x.skew \in (-MaxSkew) .. MaxSkew /\ FeeAllowed(w, x)
    /\ w.acct[x.from].balance >= Fee(x)

\* The arm succeeded: its copy of the sender overwrites the sender's account,
\* then the nonce and the fee are settled in the same checkpoint.
Succeed(x, s) ==
    LET charged == Min({Fee(x), s.me.balance})
    IN  /\ w' = [s.w EXCEPT !.acct[x.from] =
                    [s.me EXCEPT !.nonce = @ + 1, !.balance = @ - charged]]
        /\ gas' = gas + charged
        /\ lost' = lost + (s.w.acct[x.from].balance - w.acct[x.from].balance)
        /\ counter' = IF x.type = "transfer" THEN counter + 1 ELSE counter
        /\ left' = IF \/ x.type = "unregister"
                      \/ x.type = "unstake" /\ x.amt > 0 /\ w.acct[x.from].registered
                   THEN [left EXCEPT ![x.from] = now] ELSE left

\* settle_failed_native_transaction: the checkpoint is reverted, the fee kept.
Fail(x) ==
    /\ w' = [w EXCEPT !.acct[x.from].nonce = @ + 1, !.acct[x.from].balance = @ - Fee(x)]
    /\ gas' = gas + Fee(x)
    /\ UNCHANGED <<counter, lost, left>>

Apply(x) ==
    /\ Admitted(x) /\ Executed(w) < MaxTxs
    /\ \E out \in {Outcomes(x)} :
          \/ \E s \in out : Succeed(x, s)
          \/ out = {} /\ Fail(x)
    /\ UNCHANGED block

\* Types: what every account and every world holds, and no amount is negative.
AccountOk(a) ==
    /\ DOMAIN a = {"balance", "zerenya", "staked", "pendingStake", "activatesAt", "unbonding",
                   "unlocksAt", "debt", "registered", "status", "snapshot", "jailedUntil",
                   "bondedUntil", "nonce", "allow"}
    /\ \A f \in {"balance", "zerenya", "staked", "pendingStake", "unbonding", "debt"} :
          a[f] \in Nat

WorldOk(wd) ==
    /\ DOMAIN wd = {"acct", "pool", "treasury", "totalStaked", "acc", "backed", "volume",
                    "usedProofs", "slashes", "burns", "nextBurn", "transfers", "daily",
                    "processed"}
    /\ wd.acct = [a \in Addrs |-> wd.acct[a]] /\ \A a \in Addrs : AccountOk(wd.acct[a])
    /\ wd.pool \in [zagros: Nat, zerenya: Nat]
    /\ wd.treasury \in Nat /\ wd.totalStaked \in Nat /\ wd.acc \in Nat /\ wd.backed \in Nat

\* Genesis adds up, and a pool that may be traded with is not empty.
ASSUME GenesisAssumption ==
    /\ IsFiniteSet(Addrs) /\ WorldOk(Genesis)
    /\ Genesis.totalStaked = Sum([a \in Addrs |-> Genesis.acct[a].staked])
    /\ MinZagros \in Nat \ {0} /\ MinZerenya \in Nat \ {0}
    /\ GasTarget \in Nat /\ MinStakeZerenya \in Nat
    /\ \A x \in Txs : x.to \in Addrs /\ x.type \in TxTypes

\* Genesis is before the first reward, bond, slash and transaction.
ASSUME FreshGenesis ==
    /\ BondLock \in Nat /\ Genesis.slashes = <<>> /\ Genesis.acc = 0
    /\ \A a \in Addrs :
          /\ Genesis.acct[a].debt = 0 /\ Genesis.acct[a].nonce \in Nat
          /\ Genesis.acct[a].bondedUntil \in Nat

\* The block ends (flush_block_rewards); the next one begins at t.
SealBlock(p, f, t) ==
    /\ w' = Distribute(w, gas) /\ gas' = 0
    /\ producer' = p /\ factor' = f /\ now' = t
    /\ UNCHANGED <<counter, lost, left>>

Init ==
    /\ w = Genesis /\ gas = 0 /\ counter = 0 /\ lost = 0
    /\ now = 0 /\ producer = Nobody /\ factor = 10000
    /\ left = [a \in Addrs |-> -BondLock]

Next ==
    \/ \E x \in Txs : Apply(x)
    \/ \E p \in Producers, f \in Factors, t \in Times : t > now /\ SealBlock(p, f, t)

Spec == Init /\ [][Next]_vars

-----------------------------------------------------------------------------
(* Properties.                                                             *)

Amounts(wd, a) == wd.acct[a].balance + Bonded(wd.acct[a])
Zagros(wd) == Sum([a \in Addrs |-> Amounts(wd, a)]) + wd.treasury + wd.pool.zagros
Zerenya(wd) == Sum([a \in Addrs |-> wd.acct[a].zerenya]) + wd.pool.zerenya

\* The fixed supply: across every arm, fee, reward, confiscation and failed
\* transaction, ZAGROS is neither made nor destroyed, except for the credits
\* that the last write of an arm takes back from its own sender.
SupplyAccounted == Zagros(w) + gas + lost = Zagros(Genesis)

\* __GLOBAL_TOTAL_STAKED__, the divisor of every reward, is the sum of the
\* staked balances after any mixture of vesting, unstaking and confiscation.
TotalStakedExact == w.totalStaked = Sum([a \in Addrs |-> w.acct[a].staked])

\* Every ZERENYA in circulation is the founder's or is backed by a deposit:
\* what totalSupply() answers is what the accounts and the pool hold.
ZerenyaBacked == Zerenya(w) - w.backed = Zerenya(Genesis) - Genesis.backed

\* The treasury can pay the rewards every staker could claim now, up to one
\* unit of rounding for each account and transaction.
RewardsCovered ==
    Sum([a \in Addrs |-> Pending([w |-> w, me |-> w.acct[a]])])
        <= w.treasury + Cardinality(Addrs) + Executed(w)

\* What an account unbonded while it was a registered validator, or held when
\* it resigned, stays within reach of evidence for the whole bond lock.
BondNotEscaped ==
    [][\A a \in Addrs :
          w'.acct[a].unbonding < w.acct[a].unbonding /\ w'.slashes = w.slashes
              => now >= left[a] + BondLock]_vars

=============================================================================
