-------------------------- MODULE Execution_proofs --------------------------
(***************************************************************************)
(* The ledger's books, for every genesis that adds up, every set of        *)
(* accounts, transactions and fees, and every rule of rounding, where each *)
(* arm of the executor is a lemma, from what it starts with to what it     *)
(* hands back; then the EVM calls, whose stack of frames can undo from any *)
(* depth what it did to ZERENYA; then the bonds under the lock and the     *)
(* rewards that the treasury must be able to pay.                          *)
(***************************************************************************)
EXTENDS EvmCall, Sums, SequenceTheorems

-----------------------------------------------------------------------------
(* The constants. *)

\* The scale of the reward accumulator (1e18) divides.
LEMMA ScaleIs == Scale \in Nat \ {0}
  BY LedgerAssumption

\* The shares of a fee and of a report are parts of ten thousand.
LEMMA SharesAre ==
    /\ ValidatorBps \in Nat /\ ValidatorBps <= 10000
    /\ FeeBps \in Nat /\ FeeBps <= 10000
    /\ ReporterBps \in Nat /\ ReporterBps <= 10000
  BY LedgerAssumption

\* A transaction has a sender, an amount and a fee.
LEMMA TxsAre == \A x \in Txs : x.from \in Addrs /\ x.amt \in Nat /\ x.fee \in Nat
  BY LedgerAssumption

\* Whoever may produce a block, and by what factor its reward may be cut.
LEMMA ProducersAre ==
    /\ Producers \subseteq Addrs \cup {Nobody}
    /\ \A f \in Factors : f \in Nat /\ f <= 10000
  BY LedgerAssumption

-----------------------------------------------------------------------------
(* The books of the ledger. *)

\* The accounts of a world, and what they hold together.
AccountsOk(ac) == ac = [a \in Addrs |-> ac[a]] /\ \A a \in Addrs : AccountOk(ac[a])
Own(m) == m.balance + Bonded(m)
CoinsOf(ac) == [a \in Addrs |-> Own(ac[a])]
TokensOf(ac) == [a \in Addrs |-> ac[a].zerenya]
StakesOf(ac) == [a \in Addrs |-> ac[a].staked]
Coins(ac) == SumOf(CoinsOf(ac), Addrs)
Tokens(ac) == SumOf(TokensOf(ac), Addrs)
Stakes(ac) == SumOf(StakesOf(ac), Addrs)

\* The three books: what the transactions keep, but for what they say.
Gold(wd) == Coins(wd.acct) + wd.treasury + wd.pool.zagros
Notes(wd) == Tokens(wd.acct) + wd.pool.zerenya - wd.backed
Excess(wd) == Stakes(wd.acct) - wd.totalStaked

\* The model's sums are these.
LEMMA SumIs == \A f : Sum(f) = SumOf(f, DOMAIN f)
BY DEF Sum, SumOf

\* The totals that the properties speak of.
LEMMA BooksAre ==
    ASSUME NEW wd
    PROVE  /\ Zagros(wd) = Gold(wd)
           /\ Zerenya(wd) = Tokens(wd.acct) + wd.pool.zerenya
           /\ Sum([a \in Addrs |-> wd.acct[a].staked]) = Stakes(wd.acct)
<1>1. Sum([a \in Addrs |-> Amounts(wd, a)]) = Coins(wd.acct)
  <2>1. [a \in Addrs |-> Amounts(wd, a)] = CoinsOf(wd.acct)
    BY DEF Amounts, CoinsOf, Own
  <2>2. DOMAIN CoinsOf(wd.acct) = Addrs
    BY DEF CoinsOf
  <2>3. QED
    BY <2>1, <2>2, SumIs DEF Coins
<1>2. Sum([a \in Addrs |-> wd.acct[a].zerenya]) = Tokens(wd.acct)
  <2>1. DOMAIN TokensOf(wd.acct) = Addrs
    BY DEF TokensOf
  <2>2. QED
    BY <2>1, SumIs DEF Tokens, TokensOf
<1>3. Sum([a \in Addrs |-> wd.acct[a].staked]) = Stakes(wd.acct)
  <2>1. DOMAIN StakesOf(wd.acct) = Addrs
    BY DEF StakesOf
  <2>2. QED
    BY <2>1, SumIs DEF Stakes, StakesOf
<1>4. Zagros(wd) = Gold(wd)
  BY <1>1 DEF Zagros, Gold
<1>5. Zerenya(wd) = Tokens(wd.acct) + wd.pool.zerenya
  BY <1>2 DEF Zerenya
<1>6. QED
  BY <1>3, <1>4, <1>5

\* What the types say of one account.
LEMMA AccountTypes ==
    ASSUME NEW m, AccountOk(m)
    PROVE  /\ m.balance \in Nat /\ m.zerenya \in Nat /\ m.staked \in Nat
           /\ m.pendingStake \in Nat /\ m.unbonding \in Nat /\ m.debt \in Nat
           /\ Own(m) \in Nat /\ Bonded(m) \in Nat
BY DEF AccountOk, Own, Bonded

\* The books are natural numbers.
LEMMA BooksTyped ==
    ASSUME NEW ac, AccountsOk(ac)
    PROVE  Coins(ac) \in Nat /\ Tokens(ac) \in Nat /\ Stakes(ac) \in Nat
<1>1. IsFiniteSet(Addrs)
  BY GenesisAssumption
<1>2. \A a \in Addrs : CoinsOf(ac)[a] \in Nat /\ TokensOf(ac)[a] \in Nat /\ StakesOf(ac)[a] \in Nat
  BY AccountTypes DEF AccountsOk, CoinsOf, TokensOf, StakesOf
<1>3. QED
  BY <1>1, <1>2, SumNat DEF Coins, Tokens, Stakes

\* One account changes, and the sums by as much.
LEMMA OneAccount ==
    ASSUME NEW ac, NEW ad, AccountsOk(ac), AccountsOk(ad), NEW b \in Addrs,
           \A a \in Addrs \ {b} : ad[a] = ac[a]
    PROVE  /\ Coins(ad) = Coins(ac) - Own(ac[b]) + Own(ad[b])
           /\ Tokens(ad) = Tokens(ac) - ac[b].zerenya + ad[b].zerenya
           /\ Stakes(ad) = Stakes(ac) - ac[b].staked + ad[b].staked
<1>1. IsFiniteSet(Addrs)
  BY GenesisAssumption
<1>2. \A a \in Addrs : /\ CoinsOf(ac)[a] \in Int /\ TokensOf(ac)[a] \in Int /\ StakesOf(ac)[a] \in Int
                       /\ CoinsOf(ad)[a] \in Int /\ TokensOf(ad)[a] \in Int /\ StakesOf(ad)[a] \in Int
  BY AccountTypes DEF AccountsOk, CoinsOf, TokensOf, StakesOf
<1>3. \A a \in Addrs \ {b} : /\ CoinsOf(ad)[a] = CoinsOf(ac)[a] /\ TokensOf(ad)[a] = TokensOf(ac)[a]
                             /\ StakesOf(ad)[a] = StakesOf(ac)[a]
  BY DEF CoinsOf, TokensOf, StakesOf
<1>4. /\ CoinsOf(ac)[b] = Own(ac[b]) /\ CoinsOf(ad)[b] = Own(ad[b])
      /\ TokensOf(ac)[b] = ac[b].zerenya /\ TokensOf(ad)[b] = ad[b].zerenya
      /\ StakesOf(ac)[b] = ac[b].staked /\ StakesOf(ad)[b] = ad[b].staked
  BY DEF CoinsOf, TokensOf, StakesOf
<1>5. Coins(ad) = Coins(ac) - Own(ac[b]) + Own(ad[b])
  <2> DEFINE f == CoinsOf(ac)
             g == CoinsOf(ad)
  <2>1. /\ \A a \in Addrs : f[a] \in Int
        /\ g[b] \in Int /\ \A a \in Addrs \ {b} : g[a] = f[a]
    BY <1>2, <1>3
  <2> HIDE DEF f, g
  <2>2. SumOf(g, Addrs) = SumOf(f, Addrs) - f[b] + g[b]
    BY <1>1, <2>1, SumChange
  <2>3. QED
    BY <1>4, <2>2 DEF Coins, f, g
<1>6. Tokens(ad) = Tokens(ac) - ac[b].zerenya + ad[b].zerenya
  <2> DEFINE f == TokensOf(ac)
             g == TokensOf(ad)
  <2>1. /\ \A a \in Addrs : f[a] \in Int
        /\ g[b] \in Int /\ \A a \in Addrs \ {b} : g[a] = f[a]
    BY <1>2, <1>3
  <2> HIDE DEF f, g
  <2>2. SumOf(g, Addrs) = SumOf(f, Addrs) - f[b] + g[b]
    BY <1>1, <2>1, SumChange
  <2>3. QED
    BY <1>4, <2>2 DEF Tokens, f, g
<1>7. Stakes(ad) = Stakes(ac) - ac[b].staked + ad[b].staked
  <2> DEFINE f == StakesOf(ac)
             g == StakesOf(ad)
  <2>1. /\ \A a \in Addrs : f[a] \in Int
        /\ g[b] \in Int /\ \A a \in Addrs \ {b} : g[a] = f[a]
    BY <1>2, <1>3
  <2> HIDE DEF f, g
  <2>2. SumOf(g, Addrs) = SumOf(f, Addrs) - f[b] + g[b]
    BY <1>1, <2>1, SumChange
  <2>3. QED
    BY <1>4, <2>2 DEF Stakes, f, g
<1>8. QED
  BY <1>5, <1>6, <1>7

\* No account has more staked than all together.
LEMMA StakeBounded ==
    ASSUME NEW ac, AccountsOk(ac), NEW b \in Addrs
    PROVE  ac[b].staked <= Stakes(ac)
<1>1. IsFiniteSet(Addrs)
  BY GenesisAssumption
<1>2. \A a \in Addrs : StakesOf(ac)[a] \in Nat
  BY AccountTypes DEF AccountsOk, StakesOf
<1>3. IsFiniteSet(Addrs \ {b}) /\ \A a \in Addrs \ {b} : StakesOf(ac)[a] \in Nat
  BY <1>1, <1>2, FS_Subset
<1>4. SumOf(StakesOf(ac), Addrs \ {b}) \in Nat
  BY <1>3, SumNat
<1>5. Stakes(ac) = StakesOf(ac)[b] + SumOf(StakesOf(ac), Addrs \ {b})
  BY <1>1, <1>2, SumRemove DEF Stakes
<1>6. StakesOf(ac)[b] = ac[b].staked /\ ac[b].staked \in Nat
  BY <1>2 DEF StakesOf
<1>7. QED
  BY <1>4, <1>5, <1>6

\* Prices, shares and quotes are all a product divided.
Ratio(a, b, c) == (a * b) \div c

\* A ratio is a natural number.
LEMMA RatioType ==
    ASSUME NEW a \in Nat, NEW b \in Nat, NEW c \in Nat \ {0}
    PROVE  Ratio(a, b, c) \in Nat
<1> DEFINE p == a * b
<1>1. p \in Nat
  OBVIOUS
<1> HIDE DEF p
<1>2. p \div c \in Nat
  BY <1>1
<1>3. QED
  BY <1>2 DEF p, Ratio

\* A share is at most the amount.
LEMMA ShareOf ==
    ASSUME NEW a \in Nat, NEW b \in Nat, NEW c \in Nat \ {0}, b <= c
    PROVE  Ratio(a, b, c) \in Nat /\ Ratio(a, b, c) <= a
<1> DEFINE p == a * b
<1>1. p \in Nat /\ p <= a * c
  OBVIOUS
<1> HIDE DEF p
<1>2. p \div c \in Nat /\ p \div c <= a
  BY <1>1
<1>3. QED
  BY <1>2 DEF p, Ratio

\* What a pool gives for an amount is no more than it has.
LEMMA SwapOutput ==
    ASSUME NEW a \in Nat, NEW r \in Nat, NEW o \in Nat \ {0}
    PROVE  Ratio(a, r, o + a) \in Nat /\ Ratio(a, r, o + a) <= r
<1> DEFINE p == a * r
           c == o + a
<1>1. c \in Nat /\ c > 0 /\ p \in Nat /\ p <= c * r
  <2>1. p \in Nat /\ c \in Nat /\ c > 0
    OBVIOUS
  <2>2. c * r = o * r + a * r /\ o * r \in Nat
    OBVIOUS
  <2>3. QED
    BY <2>1, <2>2
<1> HIDE DEF p, c
<1>2. p \div c \in Nat /\ p \div c <= r
  BY <1>1
<1>3. QED
  BY <1>2 DEF p, c, Ratio

\* An account is written into a world.
LEMMA Written ==
    ASSUME NEW v, WorldOk(v), NEW b \in Addrs, NEW m, AccountOk(m)
    PROVE  LET u == [v EXCEPT !.acct[b] = m]
           IN  /\ WorldOk(u) /\ u.acct[b] = m
               /\ \A a \in Addrs \ {b} : u.acct[a] = v.acct[a]
               /\ u.pool = v.pool /\ u.treasury = v.treasury /\ u.totalStaked = v.totalStaked
               /\ u.acc = v.acc /\ u.backed = v.backed
               /\ Gold(u) = Gold(v) - Own(v.acct[b]) + Own(m)
               /\ Notes(u) = Notes(v) - v.acct[b].zerenya + m.zerenya
               /\ Excess(u) = Excess(v) - v.acct[b].staked + m.staked
<1> DEFINE u == [v EXCEPT !.acct[b] = m]
<1>1. /\ DOMAIN u = DOMAIN v /\ u.acct = [v.acct EXCEPT ![b] = m]
      /\ u.pool = v.pool /\ u.treasury = v.treasury /\ u.totalStaked = v.totalStaked
      /\ u.acc = v.acc /\ u.backed = v.backed
  BY DEF WorldOk
<1> HIDE DEF u
<1>2. u.acct = [a \in Addrs |-> u.acct[a]] /\ u.acct[b] = m
      /\ \A a \in Addrs \ {b} : u.acct[a] = v.acct[a]
  BY <1>1 DEF WorldOk
<1>3. \A a \in Addrs : AccountOk(u.acct[a])
  BY <1>2 DEF WorldOk
<1>4. WorldOk(u)
  BY <1>1, <1>2, <1>3 DEF WorldOk
<1>5. AccountsOk(v.acct) /\ AccountsOk(u.acct)
  BY <1>4 DEF WorldOk, AccountsOk
<1>6. /\ Coins(u.acct) = Coins(v.acct) - Own(v.acct[b]) + Own(m)
      /\ Tokens(u.acct) = Tokens(v.acct) - v.acct[b].zerenya + m.zerenya
      /\ Stakes(u.acct) = Stakes(v.acct) - v.acct[b].staked + m.staked
  BY <1>2, <1>5, OneAccount
<1>7. /\ Coins(v.acct) \in Int /\ Tokens(v.acct) \in Int /\ Stakes(v.acct) \in Int
      /\ Own(v.acct[b]) \in Int /\ v.acct[b].zerenya \in Int /\ v.acct[b].staked \in Int
      /\ Own(m) \in Int /\ m.zerenya \in Int /\ m.staked \in Int
  BY <1>5, BooksTyped, AccountTypes DEF AccountsOk
<1>8. /\ v.treasury \in Int /\ v.pool.zagros \in Int /\ v.pool.zerenya \in Int
      /\ v.backed \in Int /\ v.totalStaked \in Int
  BY DEF WorldOk
<1>9. Gold(u) = Gold(v) - Own(v.acct[b]) + Own(m)
  BY <1>1, <1>6, <1>7, <1>8 DEF Gold
<1>10. Notes(u) = Notes(v) - v.acct[b].zerenya + m.zerenya
  BY <1>1, <1>6, <1>7, <1>8 DEF Notes
<1>11. Excess(u) = Excess(v) - v.acct[b].staked + m.staked
  BY <1>1, <1>6, <1>7, <1>8 DEF Excess
<1>12. QED
  BY <1>1, <1>2, <1>4, <1>9, <1>10, <1>11 DEF u

\* The scalars of a world and its books are numbers.
LEMMA WorldTypes ==
    ASSUME NEW v, WorldOk(v)
    PROVE  /\ Gold(v) \in Int /\ Notes(v) \in Int /\ Excess(v) \in Int
           /\ v.treasury \in Nat /\ v.pool.zagros \in Nat /\ v.pool.zerenya \in Nat
           /\ v.totalStaked \in Nat /\ v.acc \in Nat /\ v.backed \in Nat
           /\ AccountsOk(v.acct) /\ \A a \in Addrs : AccountOk(v.acct[a])
<1>1. /\ v.treasury \in Nat /\ v.pool.zagros \in Nat /\ v.pool.zerenya \in Nat
      /\ v.totalStaked \in Nat /\ v.acc \in Nat /\ v.backed \in Nat
      /\ AccountsOk(v.acct) /\ \A a \in Addrs : AccountOk(v.acct[a])
  BY DEF WorldOk, AccountsOk
<1>2. Coins(v.acct) \in Int /\ Tokens(v.acct) \in Int /\ Stakes(v.acct) \in Int
  BY <1>1, BooksTyped
<1>3. QED
  BY <1>1, <1>2 DEF Gold, Notes, Excess

\* A world whose accounts are those of another.
LEMMA SameAccounts ==
    ASSUME NEW v, WorldOk(v), NEW u, DOMAIN u = DOMAIN v, u.acct = v.acct,
           u.pool \in [zagros: Nat, zerenya: Nat],
           u.treasury \in Nat, u.totalStaked \in Nat, u.acc \in Nat, u.backed \in Nat
    PROVE  /\ WorldOk(u)
           /\ Gold(u) = Gold(v) - v.treasury - v.pool.zagros + u.treasury + u.pool.zagros
           /\ Notes(u) = Notes(v) - v.pool.zerenya + v.backed + u.pool.zerenya - u.backed
           /\ Excess(u) = Excess(v) + v.totalStaked - u.totalStaked
<1>1. WorldOk(u)
  BY DEF WorldOk
<1>2. Coins(v.acct) \in Int /\ Tokens(v.acct) \in Int /\ Stakes(v.acct) \in Int
  BY WorldTypes, BooksTyped
<1>3. /\ v.treasury \in Int /\ v.pool.zagros \in Int /\ v.pool.zerenya \in Int
      /\ v.totalStaked \in Int /\ v.backed \in Int
      /\ u.treasury \in Int /\ u.pool.zagros \in Int /\ u.pool.zerenya \in Int
      /\ u.totalStaked \in Int /\ u.backed \in Int
  BY WorldTypes
<1>4. QED
  BY <1>1, <1>2, <1>3 DEF Gold, Notes, Excess

\* Two versions of an account that differ in their balance at most, as to money.
SamePurse(m, n) ==
    /\ n.staked = m.staked /\ n.pendingStake = m.pendingStake
    /\ n.unbonding = m.unbonding /\ n.zerenya = m.zerenya

\* What an account has at stake, and when: no balance, no note.
SameTerms(m, n) ==
    /\ n.staked = m.staked /\ n.debt = m.debt /\ n.pendingStake = m.pendingStake
    /\ n.unbonding = m.unbonding /\ n.bondedUntil = m.bondedUntil /\ n.nonce = m.nonce

\* A world that is another but for what is no money.
LEMMA SameMoney ==
    ASSUME NEW v, WorldOk(v), NEW u, DOMAIN u = DOMAIN v, u.acct = v.acct, u.pool = v.pool,
           u.treasury = v.treasury, u.totalStaked = v.totalStaked, u.acc = v.acc,
           u.backed = v.backed
    PROVE  WorldOk(u) /\ Gold(u) = Gold(v) /\ Notes(u) = Notes(v) /\ Excess(u) = Excess(v)
BY DEF WorldOk, Gold, Notes, Excess

\* A balance is credited.
LEMMA Credited ==
    ASSUME NEW v, WorldOk(v), NEW b \in Addrs, NEW k \in Nat
    PROVE  LET u == [v EXCEPT !.acct[b] = [v.acct[b] EXCEPT !.balance = @ + k]]
           IN  /\ WorldOk(u) /\ u.pool = v.pool /\ u.treasury = v.treasury
               /\ u.totalStaked = v.totalStaked /\ u.acc = v.acc /\ u.backed = v.backed
               /\ Gold(u) = Gold(v) + k /\ Notes(u) = Notes(v) /\ Excess(u) = Excess(v)
               /\ \A a \in Addrs : SamePurse(v.acct[a], u.acct[a])
<1> DEFINE old == v.acct[b]
           m == [old EXCEPT !.balance = @ + k]
           u == [v EXCEPT !.acct[b] = m]
<1>1. AccountOk(old) /\ Gold(v) \in Int /\ Notes(v) \in Int /\ Excess(v) \in Int
  BY WorldTypes
<1>2. /\ DOMAIN m = DOMAIN old /\ m.balance = old.balance + k /\ m.zerenya = old.zerenya
      /\ m.staked = old.staked /\ m.pendingStake = old.pendingStake
      /\ m.unbonding = old.unbonding /\ m.debt = old.debt
  BY <1>1 DEF AccountOk
<1> HIDE DEF m, old
<1>3. AccountOk(m) /\ Own(m) = Own(old) + k /\ SamePurse(old, m)
  BY <1>1, <1>2 DEF AccountOk, Own, Bonded, SamePurse
<1>4. Own(old) \in Nat /\ old.zerenya \in Nat /\ old.staked \in Nat
  BY <1>1, AccountTypes
<1>5. /\ WorldOk(u) /\ u.acct[b] = m /\ \A a \in Addrs \ {b} : u.acct[a] = v.acct[a]
      /\ u.pool = v.pool /\ u.treasury = v.treasury /\ u.totalStaked = v.totalStaked
      /\ u.acc = v.acc /\ u.backed = v.backed
      /\ Gold(u) = Gold(v) - Own(old) + Own(m)
      /\ Notes(u) = Notes(v) - old.zerenya + m.zerenya
      /\ Excess(u) = Excess(v) - old.staked + m.staked
  BY <1>3, Written DEF old
<1> HIDE DEF u
<1>6. Gold(u) = Gold(v) + k /\ Notes(u) = Notes(v) /\ Excess(u) = Excess(v)
  BY <1>1, <1>2, <1>3, <1>4, <1>5
<1>7. \A a \in Addrs : SamePurse(v.acct[a], u.acct[a])
  BY <1>3, <1>5 DEF SamePurse, old
<1>8. QED
  BY <1>5, <1>6, <1>7 DEF u, m, old

\* The block's producer and its factor, as SealBlock sets them.
BlockOk == producer \in Addrs \cup {Nobody} /\ factor \in Nat /\ factor <= 10000

\* distribute_staking_reward gives out what it is given, to balances and the treasury.
LEMMA Distributed ==
    ASSUME NEW v, WorldOk(v), NEW r \in Nat, BlockOk
    PROVE  LET u == Distribute(v, r)
           IN  /\ WorldOk(u) /\ Gold(u) = Gold(v) + r /\ Notes(u) = Notes(v) /\ Excess(u) = Excess(v)
               /\ u.pool = v.pool /\ u.totalStaked = v.totalStaked /\ u.backed = v.backed
               /\ \A a \in Addrs : SamePurse(v.acct[a], u.acct[a])
<1> DEFINE base == (r * ValidatorBps) \div 10000
           share == IF producer # Nobody /\ Qualifies(v, v.acct[producer])
                    THEN (base * factor) \div 10000 ELSE 0
           rest == r - share
           rise == (rest * Scale) \div v.totalStaked
           m == [v.acct[producer] EXCEPT !.balance = @ + share]
           paid == IF share = 0 THEN v ELSE [v EXCEPT !.acct[producer] = m]
           u == [paid EXCEPT !.treasury = @ + rest, !.acc = @ + rise]
<1>1. /\ v.treasury \in Nat /\ v.pool \in [zagros: Nat, zerenya: Nat] /\ v.totalStaked \in Nat
      /\ v.acc \in Nat /\ v.backed \in Nat /\ Gold(v) \in Int /\ Notes(v) \in Int
      /\ Excess(v) \in Int
  BY WorldTypes DEF WorldOk
<1>2. CASE r = 0
  BY <1>1, <1>2 DEF Distribute, SamePurse
<1>3. CASE r # 0 /\ v.totalStaked = 0
  <2> DEFINE k == [v EXCEPT !.treasury = @ + r]
  <2>1. /\ DOMAIN k = DOMAIN v /\ k.acct = v.acct /\ k.pool = v.pool /\ k.treasury = v.treasury + r
        /\ k.totalStaked = v.totalStaked /\ k.acc = v.acc /\ k.backed = v.backed
    BY DEF WorldOk
  <2>2. Distribute(v, r) = k
    BY <1>3 DEF Distribute
  <2> HIDE DEF k
  <2>3. k.treasury \in Nat
    BY <1>1, <2>1
  <2>4. /\ WorldOk(k)
        /\ Gold(k) = Gold(v) - v.treasury - v.pool.zagros + k.treasury + k.pool.zagros
        /\ Notes(k) = Notes(v) - v.pool.zerenya + v.backed + k.pool.zerenya - k.backed
        /\ Excess(k) = Excess(v) + v.totalStaked - k.totalStaked
    BY <1>1, <2>1, <2>3, SameAccounts
  <2>5. Gold(k) = Gold(v) + r /\ Notes(k) = Notes(v) /\ Excess(k) = Excess(v)
    BY <1>1, <2>1, <2>4
  <2>6. QED
    BY <2>1, <2>2, <2>4, <2>5 DEF SamePurse
<1>4. CASE r # 0 /\ v.totalStaked # 0
  <2>1. base \in Nat /\ base <= r
    <3>1. ValidatorBps \in Nat /\ ValidatorBps <= 10000 /\ 10000 \in Nat \ {0}
      BY SharesAre
    <3>2. base = Ratio(r, ValidatorBps, 10000)
      BY DEF Ratio
    <3> HIDE DEF base
    <3>3. QED
      BY <3>1, <3>2, ShareOf
  <2>2. share \in Nat /\ share <= r
    <3>1. (base * factor) \div 10000 \in Nat /\ (base * factor) \div 10000 <= base
      <4>1. factor \in Nat /\ factor <= 10000 /\ 10000 \in Nat \ {0}
        BY DEF BlockOk
      <4> HIDE DEF base
      <4>2. Ratio(base, factor, 10000) \in Nat /\ Ratio(base, factor, 10000) <= base
        BY <2>1, <4>1, ShareOf
      <4>3. QED
        BY <4>2 DEF Ratio
    <3> HIDE DEF base
    <3>2. QED
      BY <2>1, <3>1
  <2>3. producer \in Addrs \/ share = 0
    BY DEF BlockOk
  <2>4. Distribute(v, r) = u
    <3>1. [v EXCEPT !.acct[producer].balance = @ + share] = [v EXCEPT !.acct[producer] = m]
      OBVIOUS
    <3>2. QED
      BY <1>4, <3>1 DEF Distribute
  <2> HIDE DEF share
  <2>5. rest \in Nat
    BY <2>2
  <2>6. rise \in Nat
    <3> HIDE DEF rest
    <3>1. Scale \in Nat
      BY ScaleIs
    <3>2. v.totalStaked \in Nat \ {0}
      BY <1>1, <1>4
    <3>3. Ratio(rest, Scale, v.totalStaked) \in Nat
      BY <2>5, <3>1, <3>2, RatioType
    <3>4. QED
      BY <3>3 DEF Ratio
  <2>7. /\ WorldOk(paid) /\ paid.pool = v.pool /\ paid.treasury = v.treasury
        /\ paid.totalStaked = v.totalStaked /\ paid.acc = v.acc /\ paid.backed = v.backed
        /\ Gold(paid) = Gold(v) + share /\ Notes(paid) = Notes(v) /\ Excess(paid) = Excess(v)
        /\ \A a \in Addrs : SamePurse(v.acct[a], paid.acct[a])
    <3>1. CASE share = 0
      BY <1>1, <3>1 DEF SamePurse
    <3>2. CASE share # 0
      BY <2>2, <2>3, <3>2, Credited DEF paid, m
    <3>3. QED
      BY <3>1, <3>2
  <2>8. /\ DOMAIN u = DOMAIN paid /\ u.acct = paid.acct /\ u.pool = paid.pool
        /\ u.treasury = paid.treasury + rest /\ u.totalStaked = paid.totalStaked
        /\ u.acc = paid.acc + rise /\ u.backed = paid.backed
    <3> HIDE DEF paid, rest, rise
    <3>1. QED
      BY <2>7 DEF WorldOk
  <2> HIDE DEF u, paid, rise
  <2>9. /\ paid.treasury \in Nat /\ paid.pool.zagros \in Nat /\ paid.pool.zerenya \in Nat
        /\ paid.acc \in Nat /\ paid.totalStaked \in Nat /\ paid.backed \in Nat
        /\ paid.pool \in [zagros: Nat, zerenya: Nat]
    BY <1>1, <2>7
  <2>10. u.treasury \in Nat /\ u.acc \in Nat
    BY <2>5, <2>6, <2>8, <2>9
  <2>11. /\ WorldOk(u)
         /\ Gold(u) = Gold(paid) - paid.treasury - paid.pool.zagros + u.treasury + u.pool.zagros
         /\ Notes(u) = Notes(paid) - paid.pool.zerenya + paid.backed + u.pool.zerenya - u.backed
         /\ Excess(u) = Excess(paid) + paid.totalStaked - u.totalStaked
    BY <2>7, <2>8, <2>9, <2>10, SameAccounts
  <2>12. Gold(u) = Gold(v) + r /\ Notes(u) = Notes(v) /\ Excess(u) = Excess(v)
    BY <1>1, <2>2, <2>7, <2>8, <2>9, <2>11
  <2>13. QED
    BY <2>4, <2>7, <2>8, <2>11, <2>12
<1>5. QED
  BY <1>2, <1>3, <1>4

-----------------------------------------------------------------------------
(* An arm's pair. *)

\* The least of two numbers.
LEMMA MinOfTwo ==
    ASSUME NEW a \in Int, NEW b \in Int
    PROVE  Min({a, b}) = IF a <= b THEN a ELSE b
<1> DEFINE m == IF a <= b THEN a ELSE b
<1>1. m \in {a, b} /\ \A y \in {a, b} : m <= y
  OBVIOUS
<1>2. \A z \in {a, b} : (\A y \in {a, b} : z <= y) => z = m
  OBVIOUS
<1>3. QED
  BY <1>1, <1>2 DEF Min

\* A pair of a world and the sender's copy.
PairOk(s) == DOMAIN s = {"w", "me"} /\ WorldOk(s.w) /\ AccountOk(s.me)

\* From pair s to pair t nothing is made or destroyed, and of the sender's account in the
\* state, which will be overwritten, at most the balance has changed.
Kept(b, s, t) ==
    /\ PairOk(t)
    /\ Gold(t.w) + Own(t.me) = Gold(s.w) + Own(s.me)
    /\ Notes(t.w) + t.me.zerenya = Notes(s.w) + s.me.zerenya
    /\ Excess(t.w) + t.me.staked = Excess(s.w) + s.me.staked
    /\ SamePurse(s.w.acct[b], t.w.acct[b])

\* What each of two steps keeps, both keep.
LEMMA KeptTwice ==
    ASSUME NEW b, NEW s, NEW t, NEW u, Kept(b, s, t), Kept(b, t, u)
    PROVE  Kept(b, s, u)
BY DEF Kept, SamePurse

\* settle_pending_stake.
LEMMA Settled ==
    ASSUME NEW b, NEW s, PairOk(s)
    PROVE  LET t == Settle(s)
           IN  /\ Kept(b, s, t) /\ t.w.acct = s.w.acct /\ t.me.balance = s.me.balance
               /\ t.me.unbonding = s.me.unbonding /\ t.me.zerenya = s.me.zerenya
               /\ t.w.backed = s.w.backed /\ t.w.pool = s.w.pool
<1> DEFINE k == s.me.pendingStake
           wd == [s.w EXCEPT !.totalStaked = @ + k]
           m == [s.me EXCEPT !.debt = @ + RewardOwed(k, s.w.acc), !.staked = @ + k,
                             !.pendingStake = 0, !.activatesAt = 0]
           t == [w |-> wd, me |-> m]
<1>1. CASE s.me.pendingStake = 0 \/ now < s.me.activatesAt
  BY <1>1 DEF Settle, Kept, SamePurse
<1>2. CASE ~ (s.me.pendingStake = 0 \/ now < s.me.activatesAt)
  <2>1. Settle(s) = t
    BY <1>2 DEF Settle
  <2>2. /\ DOMAIN wd = DOMAIN s.w /\ wd.acct = s.w.acct /\ wd.pool = s.w.pool
        /\ wd.treasury = s.w.treasury /\ wd.totalStaked = s.w.totalStaked + k
        /\ wd.acc = s.w.acc /\ wd.backed = s.w.backed
    BY DEF PairOk, WorldOk
  <2>3. /\ DOMAIN m = DOMAIN s.me /\ m.balance = s.me.balance /\ m.zerenya = s.me.zerenya
        /\ m.staked = s.me.staked + k /\ m.pendingStake = 0 /\ m.unbonding = s.me.unbonding
        /\ m.debt = s.me.debt + RewardOwed(k, s.w.acc)
    BY DEF PairOk, AccountOk
  <2>4. RewardOwed(k, s.w.acc) \in Nat
    <3>1. Scale \in Nat \ {0}
      BY ScaleIs
    <3>2. k \in Nat /\ s.w.acc \in Nat
      BY AccountTypes DEF PairOk, WorldOk
    <3>3. Ratio(k, s.w.acc, Scale) \in Nat
      BY <3>1, <3>2, RatioType
    <3>4. QED
      BY <3>3 DEF RewardOwed, Ratio
  <2>5. DOMAIN t = {"w", "me"} /\ t.w = wd /\ t.me = m
    OBVIOUS
  <2> HIDE DEF wd, m, t
  <2>6. AccountOk(m) /\ Own(m) = Own(s.me) /\ s.me.staked \in Nat /\ k \in Nat
    BY <2>3, <2>4, AccountTypes DEF PairOk, AccountOk, Own, Bonded
  <2>7. /\ s.w.treasury \in Nat /\ s.w.pool \in [zagros: Nat, zerenya: Nat]
        /\ s.w.totalStaked \in Nat /\ s.w.acc \in Nat /\ s.w.backed \in Nat
        /\ Gold(s.w) \in Int /\ Notes(s.w) \in Int /\ Excess(s.w) \in Int
        /\ s.w.pool.zagros \in Nat /\ s.w.pool.zerenya \in Nat
    BY WorldTypes DEF PairOk, WorldOk
  <2>8. wd.totalStaked \in Nat
    BY <2>2, <2>6, <2>7
  <2>9. /\ WorldOk(wd)
        /\ Gold(wd) = Gold(s.w) - s.w.treasury - s.w.pool.zagros + wd.treasury + wd.pool.zagros
        /\ Notes(wd) = Notes(s.w) - s.w.pool.zerenya + s.w.backed + wd.pool.zerenya - wd.backed
        /\ Excess(wd) = Excess(s.w) + s.w.totalStaked - wd.totalStaked
    BY <2>2, <2>7, <2>8, SameAccounts DEF PairOk
  <2>10. Gold(wd) = Gold(s.w) /\ Notes(wd) = Notes(s.w) /\ Excess(wd) = Excess(s.w) - k
    BY <2>2, <2>6, <2>7, <2>9
  <2>11. Excess(wd) + m.staked = Excess(s.w) + s.me.staked
    BY <2>3, <2>6, <2>7, <2>10
  <2>12. Kept(b, s, t)
    BY <2>2, <2>3, <2>5, <2>6, <2>9, <2>10, <2>11 DEF Kept, PairOk, SamePurse
  <2>13. QED
    BY <2>1, <2>2, <2>3, <2>5, <2>12
<1>3. QED
  BY <1>1, <1>2

\* The reward is paid out of the treasury, as far as that reaches.
LEMMA RewardPaid ==
    ASSUME NEW b, NEW s, PairOk(s)
    PROVE  LET t == Paid(s)
           IN  /\ Kept(b, s, t) /\ t.w.acct = s.w.acct /\ t.me.balance >= s.me.balance
               /\ t.me = [s.me EXCEPT !.balance = t.me.balance]
               /\ t.w.totalStaked = s.w.totalStaked /\ t.w.backed = s.w.backed
               /\ t.w.pool = s.w.pool
               /\ Payout(s) \in Nat /\ Shortfall(s) \in Nat
<1> DEFINE k == Payout(s)
           wd == [s.w EXCEPT !.treasury = @ - k]
           m == [s.me EXCEPT !.balance = @ + k]
           t == [w |-> wd, me |-> m]
<1>1. /\ s.w.treasury \in Nat /\ s.w.pool \in [zagros: Nat, zerenya: Nat]
      /\ s.w.totalStaked \in Nat /\ s.w.acc \in Nat /\ s.w.backed \in Nat
      /\ Gold(s.w) \in Int /\ Notes(s.w) \in Int /\ Excess(s.w) \in Int
      /\ s.w.pool.zagros \in Nat /\ s.w.pool.zerenya \in Nat
      /\ s.me.staked \in Nat /\ s.me.debt \in Nat /\ s.me.balance \in Nat
  BY WorldTypes, AccountTypes DEF PairOk, WorldOk
<1>2. Pending(s) \in Nat
  <2>1. Scale \in Nat \ {0}
    BY ScaleIs
  <2>2. Ratio(s.me.staked, s.w.acc, Scale) \in Nat
    BY <1>1, <2>1, RatioType
  <2>3. RewardOwed(s.me.staked, s.w.acc) \in Nat
    BY <2>2 DEF RewardOwed, Ratio
  <2>4. QED
    BY <1>1, <2>3 DEF Pending, Monus
<1>3. k = IF Pending(s) <= s.w.treasury THEN Pending(s) ELSE s.w.treasury
  BY <1>1, <1>2, MinOfTwo DEF Payout
<1> HIDE DEF k
<1>4. k \in Nat /\ k <= s.w.treasury /\ k <= Pending(s)
  BY <1>1, <1>2, <1>3
<1>5. /\ DOMAIN wd = DOMAIN s.w /\ wd.acct = s.w.acct /\ wd.pool = s.w.pool
      /\ wd.treasury = s.w.treasury - k /\ wd.totalStaked = s.w.totalStaked
      /\ wd.acc = s.w.acc /\ wd.backed = s.w.backed
  BY DEF PairOk, WorldOk
<1>6. /\ DOMAIN m = DOMAIN s.me /\ m.balance = s.me.balance + k /\ m.zerenya = s.me.zerenya
      /\ m.staked = s.me.staked /\ m.pendingStake = s.me.pendingStake
      /\ m.unbonding = s.me.unbonding /\ m.debt = s.me.debt
      /\ m = [s.me EXCEPT !.balance = m.balance]
  BY DEF PairOk, AccountOk
<1>7. DOMAIN t = {"w", "me"} /\ t.w = wd /\ t.me = m /\ Paid(s) = t
  BY DEF Paid, k
<1> HIDE DEF wd, m, t
<1>8. AccountOk(m) /\ Own(m) = Own(s.me) + k /\ Own(s.me) \in Nat
  BY <1>4, <1>6, AccountTypes DEF PairOk, AccountOk, Own, Bonded
<1>9. wd.treasury \in Nat
  BY <1>1, <1>4, <1>5
<1>10. /\ WorldOk(wd)
       /\ Gold(wd) = Gold(s.w) - s.w.treasury - s.w.pool.zagros + wd.treasury + wd.pool.zagros
       /\ Notes(wd) = Notes(s.w) - s.w.pool.zerenya + s.w.backed + wd.pool.zerenya - wd.backed
       /\ Excess(wd) = Excess(s.w) + s.w.totalStaked - wd.totalStaked
  BY <1>1, <1>5, <1>9, SameAccounts DEF PairOk
<1>11. Gold(wd) = Gold(s.w) - k /\ Notes(wd) = Notes(s.w) /\ Excess(wd) = Excess(s.w)
  BY <1>1, <1>4, <1>5, <1>10
<1>12. Gold(wd) + Own(m) = Gold(s.w) + Own(s.me)
  BY <1>1, <1>4, <1>8, <1>11
<1>13. Kept(b, s, t)
  BY <1>5, <1>6, <1>7, <1>8, <1>10, <1>11, <1>12 DEF Kept, PairOk, SamePurse
<1>14. Shortfall(s) \in Nat
  BY <1>2, <1>4 DEF Shortfall, k
<1>15. QED
  BY <1>1, <1>4, <1>5, <1>6, <1>7, <1>13, <1>14 DEF k

-----------------------------------------------------------------------------
(* The arms of staking. *)

\* What an arm starts with: the sender's account as the state holds it, exact
\* totals, and the balance that execute_transaction_inner has asked for.
Start(s, x) ==
    /\ x \in Txs /\ BlockOk
    /\ DOMAIN s = {"w", "me"} /\ s.me = s.w.acct[x.from] /\ WorldOk(s.w) /\ Excess(s.w) = 0
    /\ s.me.balance >= Required(x)

\* What the start of an arm says of the transaction, the account and the stakes.
LEMMA StartTypes ==
    ASSUME NEW s, NEW x, Start(s, x)
    PROVE  /\ x.from \in Addrs /\ x.to \in Addrs /\ x.amt \in Nat /\ x.type \in TxTypes
           /\ Fee(x) \in Nat
           /\ PairOk(s) /\ s.me = s.w.acct[x.from] /\ WorldOk(s.w) /\ AccountOk(s.me)
           /\ Excess(s.w) = 0
           /\ \A a \in Addrs : s.w.acct[a].staked <= s.w.totalStaked
           /\ x.type \in {"transfer", "sell", "stake", "swap_and_burn"} => s.me.balance >= x.amt
<1>1. x.from \in Addrs /\ x.amt \in Nat /\ x.fee \in Nat
  BY TxsAre DEF Start
<1>2. x.to \in Addrs /\ x.type \in TxTypes
  BY GenesisAssumption DEF Start
<1>3. Fee(x) \in Nat
  BY <1>1 DEF Fee
<1>4. AccountOk(s.me) /\ PairOk(s)
  BY <1>1, WorldTypes DEF Start, PairOk
<1>5. s.me.balance \in Nat
  BY <1>4, AccountTypes
<1>6. x.type \in {"transfer", "sell", "stake", "swap_and_burn"} => s.me.balance >= x.amt
  BY <1>1, <1>3, <1>5 DEF Start, Required
<1>7. \A a \in Addrs : s.w.acct[a].staked <= s.w.totalStaked
  <2>1. AccountsOk(s.w.acct) /\ s.w.totalStaked \in Nat
    BY WorldTypes DEF Start
  <2>2. Stakes(s.w.acct) \in Nat /\ \A a \in Addrs : s.w.acct[a].staked <= Stakes(s.w.acct)
    BY <2>1, BooksTyped, StakeBounded
  <2>3. Stakes(s.w.acct) = s.w.totalStaked
    BY <2>1, <2>2 DEF Start, Excess
  <2>4. QED
    BY <2>2, <2>3
<1>8. QED
  BY <1>1, <1>2, <1>3, <1>4, <1>6, <1>7 DEF Start

\* The sender's copy alone is written, in its balance and what is bonded.
LEMMA OwnMoved ==
    ASSUME NEW b, NEW s, PairOk(s), NEW m, AccountOk(m), Own(m) = Own(s.me),
           m.zerenya = s.me.zerenya, m.staked = s.me.staked
    PROVE  Kept(b, s, [w |-> s.w, me |-> m])
<1> DEFINE t == [w |-> s.w, me |-> m]
<1>1. DOMAIN t = {"w", "me"} /\ t.w = s.w /\ t.me = m
  OBVIOUS
<1> HIDE DEF t
<1>2. Kept(b, s, t)
  BY <1>1 DEF Kept, PairOk, SamePurse
<1>3. QED
  BY <1>2 DEF t

\* StakeZagros.
LEMMA StakeKeeps ==
    ASSUME NEW s, NEW x, Start(s, x), x.type = "stake"
    PROVE  \A t \in StakeZagros(s, x) : Kept(x.from, s, t)
<1> DEFINE b == x.from
           t == Settle(s)
           less == [t EXCEPT !.me.balance = @ - x.amt]
           p == Paid(less)
           debt == Monus(RewardOwed(t.me.staked, t.w.acc), Shortfall(t))
           m == [p.me EXCEPT !.pendingStake = @ + x.amt, !.activatesAt = now + Vesting,
                             !.debt = debt]
           out == [w |-> p.w, me |-> m]
<1>1. PairOk(s) /\ x.amt \in Nat /\ s.me.balance >= x.amt
  BY StartTypes
<1>2. Kept(b, s, t) /\ t.me.balance = s.me.balance
  BY <1>1, Settled
<1> HIDE DEF t
<1>3. PairOk(t)
  BY <1>2 DEF Kept
<1>4. /\ DOMAIN less = {"w", "me"} /\ less.w = t.w /\ DOMAIN less.me = DOMAIN t.me
      /\ less.me.balance = t.me.balance - x.amt /\ less.me.zerenya = t.me.zerenya
      /\ less.me.staked = t.me.staked /\ less.me.pendingStake = t.me.pendingStake
      /\ less.me.unbonding = t.me.unbonding /\ less.me.debt = t.me.debt
  BY <1>3 DEF PairOk, AccountOk
<1> HIDE DEF less
<1>5. AccountOk(less.me) /\ PairOk(less)
  BY <1>1, <1>2, <1>3, <1>4 DEF PairOk, AccountOk
<1>6. /\ Kept(b, less, p) /\ p.me = [less.me EXCEPT !.balance = p.me.balance]
  BY <1>5, RewardPaid
<1>7. Shortfall(t) \in Nat
  BY <1>3, RewardPaid
<1> HIDE DEF p
<1>8. debt \in Nat
  <2>1. Scale \in Nat \ {0}
    BY ScaleIs
  <2>2. t.me.staked \in Nat /\ t.w.acc \in Nat
    BY <1>3, AccountTypes, WorldTypes DEF PairOk
  <2>3. Ratio(t.me.staked, t.w.acc, Scale) \in Nat
    BY <2>1, <2>2, RatioType
  <2>4. RewardOwed(t.me.staked, t.w.acc) \in Nat
    BY <2>3 DEF RewardOwed, Ratio
  <2>5. QED
    BY <1>7, <2>4 DEF Monus
<1> HIDE DEF debt
<1>9. PairOk(p) /\ AccountOk(p.me)
  BY <1>6 DEF Kept, PairOk
<1>10. /\ DOMAIN m = DOMAIN p.me /\ m.balance = p.me.balance /\ m.zerenya = p.me.zerenya
       /\ m.staked = p.me.staked /\ m.pendingStake = p.me.pendingStake + x.amt
       /\ m.unbonding = p.me.unbonding /\ m.debt = debt
  BY <1>9 DEF AccountOk
<1>11. DOMAIN out = {"w", "me"} /\ out.w = p.w /\ out.me = m /\ StakeZagros(s, x) = {out}
  BY DEF StakeZagros, t, less, p, debt
<1> HIDE DEF m, out
<1>12. AccountOk(m)
  BY <1>1, <1>8, <1>9, <1>10 DEF AccountOk
<1>13. Own(m) = Own(p.me) + x.amt /\ Own(less.me) = Own(t.me) - x.amt
  BY <1>1, <1>3, <1>4, <1>9, <1>10, AccountTypes DEF Own, Bonded, PairOk
<1>14. /\ Own(t.me) \in Int /\ Own(less.me) \in Int /\ Own(p.me) \in Int /\ Own(m) \in Int
       /\ Gold(p.w) \in Int /\ Gold(t.w) \in Int /\ Gold(less.w) \in Int /\ x.amt \in Int
  BY <1>1, <1>3, <1>5, <1>9, <1>12, AccountTypes, WorldTypes DEF PairOk
<1>15. Gold(out.w) + Own(out.me) = Gold(t.w) + Own(t.me)
  BY <1>4, <1>6, <1>11, <1>13, <1>14 DEF Kept
<1>16. Kept(b, t, out)
  BY <1>4, <1>6, <1>9, <1>10, <1>11, <1>12, <1>15 DEF Kept, PairOk, SamePurse
<1>17. Kept(b, s, out)
  BY <1>2, <1>16, KeptTwice
<1>18. QED
  BY <1>11, <1>17

\* UnstakeZagros of amount 0.
LEMMA WithdrawKeeps ==
    ASSUME NEW s, NEW x, Start(s, x)
    PROVE  \A t \in Withdraw(s, x) : Kept(x.from, s, t)
<1> DEFINE m == [s.me EXCEPT !.unbonding = 0, !.balance = @ + s.me.unbonding]
<1>1. PairOk(s) /\ AccountOk(s.me)
  BY StartTypes
<1>2. /\ DOMAIN m = DOMAIN s.me /\ m.balance = s.me.balance + s.me.unbonding
      /\ m.zerenya = s.me.zerenya /\ m.staked = s.me.staked
      /\ m.pendingStake = s.me.pendingStake /\ m.unbonding = 0 /\ m.debt = s.me.debt
  BY <1>1 DEF AccountOk
<1>3. \A t \in Withdraw(s, x) : t = [w |-> s.w, me |-> m]
  BY DEF Withdraw, When
<1> HIDE DEF m
<1>4. AccountOk(m) /\ Own(m) = Own(s.me)
  BY <1>1, <1>2, AccountTypes DEF AccountOk, Own, Bonded
<1>5. Kept(x.from, s, [w |-> s.w, me |-> m])
  BY <1>1, <1>2, <1>4, OwnMoved
<1>6. QED
  BY <1>3, <1>5

\* ClaimReward: the debt is no money.
LEMMA ClaimKeeps ==
    ASSUME NEW s, NEW x, Start(s, x)
    PROVE  \A t \in ClaimReward(s, x) : Kept(x.from, s, t)
<1> DEFINE b == x.from
           t == Settle(s)
           p == Paid(t)
           k == Payout(t)
           out == [p EXCEPT !.me.debt = @ + k]
<1>1. Kept(b, s, t)
  BY StartTypes, Settled
<1>2. ClaimReward(s, x) = {out}
  BY DEF ClaimReward
<1> HIDE DEF t
<1>3. Kept(b, t, p) /\ k \in Nat
  BY <1>1, RewardPaid DEF Kept
<1> HIDE DEF p, k
<1>4. PairOk(p) /\ AccountOk(p.me)
  BY <1>3 DEF Kept, PairOk
<1>5. /\ DOMAIN out = {"w", "me"} /\ out.w = p.w /\ DOMAIN out.me = DOMAIN p.me
      /\ out.me.balance = p.me.balance /\ out.me.zerenya = p.me.zerenya
      /\ out.me.staked = p.me.staked /\ out.me.pendingStake = p.me.pendingStake
      /\ out.me.unbonding = p.me.unbonding /\ out.me.debt = p.me.debt + k
  BY <1>4 DEF AccountOk, PairOk
<1> HIDE DEF out
<1>6. AccountOk(out.me) /\ Own(out.me) = Own(p.me)
  BY <1>3, <1>4, <1>5 DEF AccountOk, Own, Bonded
<1>7. Kept(b, p, out)
  BY <1>4, <1>5, <1>6 DEF Kept, PairOk, SamePurse
<1>8. Kept(b, s, out)
  BY <1>1, <1>3, <1>7, KeptTwice
<1>9. QED
  BY <1>2, <1>8

\* UnregisterValidator.
LEMMA UnregisterKeeps ==
    ASSUME NEW s, NEW x, Start(s, x)
    PROVE  \A t \in UnregisterValidator(s, x) : Kept(x.from, s, t)
<1> DEFINE m == [s.me EXCEPT !.status = "exiting", !.registered = FALSE,
                             !.bondedUntil = now + BondLock]
<1>1. PairOk(s) /\ AccountOk(s.me)
  BY StartTypes
<1>2. /\ DOMAIN m = DOMAIN s.me /\ m.balance = s.me.balance
      /\ m.zerenya = s.me.zerenya /\ m.staked = s.me.staked
      /\ m.pendingStake = s.me.pendingStake /\ m.unbonding = s.me.unbonding
      /\ m.debt = s.me.debt
  BY <1>1, Zenon DEF AccountOk
<1>3. \A t \in UnregisterValidator(s, x) : t = [w |-> s.w, me |-> m]
  BY DEF UnregisterValidator, When
<1> HIDE DEF m
<1>4. AccountOk(m) /\ Own(m) = Own(s.me)
  BY <1>1, <1>2, AccountTypes DEF AccountOk, Own, Bonded
<1>5. Kept(x.from, s, [w |-> s.w, me |-> m])
  BY <1>1, <1>2, <1>4, OwnMoved
<1>6. QED
  BY <1>3, <1>5

\* The total of stakes falls by what it holds of an account.
LEMMA Unstaked ==
    ASSUME NEW v, WorldOk(v), NEW k \in Nat, k <= v.totalStaked
    PROVE  LET u == [v EXCEPT !.totalStaked = Monus(@, k)]
           IN  /\ WorldOk(u) /\ u.acct = v.acct /\ u.pool = v.pool /\ u.backed = v.backed
               /\ u.totalStaked = v.totalStaked - k
               /\ Gold(u) = Gold(v) /\ Notes(u) = Notes(v) /\ Excess(u) = Excess(v) + k
<1> DEFINE u == [v EXCEPT !.totalStaked = Monus(@, k)]
<1>1. /\ v.treasury \in Nat /\ v.pool \in [zagros: Nat, zerenya: Nat] /\ v.totalStaked \in Nat
      /\ v.acc \in Nat /\ v.backed \in Nat /\ v.pool.zagros \in Nat /\ v.pool.zerenya \in Nat
      /\ Gold(v) \in Int /\ Notes(v) \in Int /\ Excess(v) \in Int
  BY WorldTypes DEF WorldOk
<1>2. /\ DOMAIN u = DOMAIN v /\ u.acct = v.acct /\ u.pool = v.pool /\ u.treasury = v.treasury
      /\ u.totalStaked = Monus(v.totalStaked, k) /\ u.acc = v.acc /\ u.backed = v.backed
  BY DEF WorldOk
<1> HIDE DEF u
<1>3. u.totalStaked = v.totalStaked - k /\ u.totalStaked \in Nat
  BY <1>1, <1>2 DEF Monus
<1>4. /\ WorldOk(u)
      /\ Gold(u) = Gold(v) - v.treasury - v.pool.zagros + u.treasury + u.pool.zagros
      /\ Notes(u) = Notes(v) - v.pool.zerenya + v.backed + u.pool.zerenya - u.backed
      /\ Excess(u) = Excess(v) + v.totalStaked - u.totalStaked
  BY <1>1, <1>2, <1>3, SameAccounts
<1>5. Gold(u) = Gold(v) /\ Notes(u) = Notes(v) /\ Excess(u) = Excess(v) + k
  BY <1>1, <1>2, <1>3, <1>4
<1>6. QED
  BY <1>2, <1>3, <1>4, <1>5 DEF u

\* UnstakeZagros of an amount: the total falls by the part that was active.
LEMMA UnbondKeeps ==
    ASSUME NEW s, NEW x, Start(s, x)
    PROVE  \A o \in Unbond(s, x) : Kept(x.from, s, o)
<1> DEFINE b == x.from
           t == Settle(s)
           fresh == Min({x.amt, t.me.pendingStake})
           active == x.amt - fresh
           drawn == [t EXCEPT !.me.pendingStake = @ - fresh,
                              !.me.activatesAt = IF t.me.pendingStake = fresh THEN 0 ELSE @]
           p == IF active = 0 THEN drawn ELSE Paid(drawn)
           owed == Monus(RewardOwed(t.me.staked - active, t.w.acc), Shortfall(drawn))
           wd == [p.w EXCEPT !.totalStaked = Monus(@, active)]
           m == [p.me EXCEPT !.staked = @ - active, !.debt = IF active = 0 THEN @ ELSE owed,
                             !.unbonding = x.amt, !.unlocksAt = now + x.skew + Unbonding,
                             !.bondedUntil = IF p.me.registered
                                             THEN Max({@, now + BondLock}) ELSE @]
           out == [w |-> wd, me |-> m]
<1>1. SUFFICES ASSUME s.me.unbonding = 0, x.amt <= t.me.staked + t.me.pendingStake
               PROVE  Kept(b, s, out)
  BY DEF Unbond, When
<1>2. /\ PairOk(s) /\ x.amt \in Nat /\ b \in Addrs /\ s.me = s.w.acct[b] /\ Excess(s.w) = 0
      /\ \A a \in Addrs : s.w.acct[a].staked <= s.w.totalStaked
  BY StartTypes
<1>3. Kept(b, s, t) /\ t.w.acct = s.w.acct /\ t.me.unbonding = 0
  BY <1>1, <1>2, Settled
<1>4. x.amt <= t.me.staked + t.me.pendingStake
  BY <1>1
<1> HIDE DEF t
<1>5. /\ PairOk(t) /\ t.me.staked \in Nat /\ t.me.pendingStake \in Nat /\ Own(t.me) \in Nat
      /\ t.w.acc \in Nat /\ t.w.totalStaked \in Nat
  BY <1>3, AccountTypes, WorldTypes DEF Kept, PairOk
<1>6. fresh = IF x.amt <= t.me.pendingStake THEN x.amt ELSE t.me.pendingStake
  BY <1>2, <1>5, MinOfTwo
<1> HIDE DEF fresh
<1>7. /\ fresh \in Nat /\ fresh <= t.me.pendingStake /\ active \in Nat /\ active <= t.me.staked
      /\ active + fresh = x.amt
  BY <1>2, <1>4, <1>5, <1>6
<1> HIDE DEF active
<1>8. active <= t.w.totalStaked
  <2>1. /\ Stakes(s.w.acct) \in Nat /\ s.me.staked <= Stakes(s.w.acct) /\ s.me.staked \in Nat
        /\ s.w.totalStaked \in Nat
    <3>1. AccountsOk(s.w.acct) /\ s.w.totalStaked \in Nat
      BY <1>2, WorldTypes DEF PairOk
    <3>2. QED
      BY <1>2, <3>1, BooksTyped, StakeBounded, AccountTypes DEF PairOk
  <2>2. Stakes(s.w.acct) - t.w.totalStaked + t.me.staked
            = Stakes(s.w.acct) - s.w.totalStaked + s.me.staked
    BY <1>3 DEF Kept, Excess
  <2>3. Stakes(s.w.acct) - s.w.totalStaked = 0
    BY <1>2 DEF Excess
  <2>4. t.me.staked <= t.w.totalStaked
    BY <1>5, <2>1, <2>2, <2>3
  <2>5. QED
    BY <1>5, <1>7, <2>4
<1>9. /\ DOMAIN drawn = {"w", "me"} /\ drawn.w = t.w /\ DOMAIN drawn.me = DOMAIN t.me
      /\ drawn.me.balance = t.me.balance /\ drawn.me.zerenya = t.me.zerenya
      /\ drawn.me.staked = t.me.staked /\ drawn.me.pendingStake = t.me.pendingStake - fresh
      /\ drawn.me.unbonding = t.me.unbonding /\ drawn.me.debt = t.me.debt
  BY <1>5 DEF PairOk, AccountOk
<1> HIDE DEF drawn
<1>10. PairOk(drawn) /\ AccountOk(drawn.me)
  BY <1>5, <1>7, <1>9 DEF PairOk, AccountOk
<1>11. /\ Kept(b, drawn, p) /\ p.me.staked = t.me.staked /\ p.me.unbonding = 0
       /\ p.me.pendingStake = drawn.me.pendingStake /\ p.me.zerenya = t.me.zerenya
       /\ p.w.totalStaked = t.w.totalStaked /\ p.w.acct = t.w.acct
  <2>1. CASE active = 0
    BY <1>3, <1>9, <1>10, <2>1 DEF Kept, SamePurse
  <2>2. CASE active # 0
    <3> DEFINE q == Paid(drawn)
    <3>1. /\ Kept(b, drawn, q) /\ q.w.acct = drawn.w.acct /\ q.w.totalStaked = drawn.w.totalStaked
          /\ q.me = [drawn.me EXCEPT !.balance = q.me.balance]
      BY <1>10, RewardPaid
    <3>2. p = q
      BY <2>2
    <3> HIDE DEF q, p
    <3>3. /\ q.me.staked = drawn.me.staked /\ q.me.unbonding = drawn.me.unbonding
          /\ q.me.pendingStake = drawn.me.pendingStake /\ q.me.zerenya = drawn.me.zerenya
      BY <1>10, <3>1 DEF AccountOk
    <3>4. QED
      BY <1>3, <1>9, <3>1, <3>2, <3>3
  <2>3. QED
    BY <2>1, <2>2
<1>12. owed \in Nat
  <2>1. Shortfall(drawn) \in Nat
    BY <1>10, RewardPaid
  <2>2. Scale \in Nat \ {0}
    BY ScaleIs
  <2>3. t.me.staked - active \in Nat
    BY <1>5, <1>7
  <2>4. Ratio(t.me.staked - active, t.w.acc, Scale) \in Nat
    BY <1>5, <2>2, <2>3, RatioType
  <2>5. RewardOwed(t.me.staked - active, t.w.acc) \in Nat
    BY <2>4 DEF RewardOwed, Ratio
  <2>6. QED
    BY <2>1, <2>5 DEF Monus
<1> HIDE DEF p, owed
<1>13. PairOk(p) /\ AccountOk(p.me)
  BY <1>11 DEF Kept, PairOk
<1>14. /\ WorldOk(wd) /\ wd.acct = p.w.acct /\ Gold(wd) = Gold(p.w) /\ Notes(wd) = Notes(p.w)
       /\ Excess(wd) = Excess(p.w) + active
  BY <1>7, <1>8, <1>11, <1>13, Unstaked DEF PairOk
<1>15. /\ DOMAIN m = DOMAIN p.me /\ m.balance = p.me.balance /\ m.zerenya = p.me.zerenya
       /\ m.staked = p.me.staked - active /\ m.pendingStake = p.me.pendingStake
       /\ m.unbonding = x.amt /\ m.debt = (IF active = 0 THEN p.me.debt ELSE owed)
  BY <1>13 DEF AccountOk
<1>16. DOMAIN out = {"w", "me"} /\ out.w = wd /\ out.me = m
  OBVIOUS
<1> HIDE DEF wd, m, out
<1>17. AccountOk(m)
  BY <1>2, <1>5, <1>7, <1>11, <1>12, <1>13, <1>15 DEF AccountOk
<1>18. /\ Own(p.me) = p.me.balance + p.me.staked + p.me.pendingStake
       /\ Own(m) = p.me.balance + p.me.staked - active + p.me.pendingStake + x.amt
       /\ Own(drawn.me) = Own(t.me) - fresh
  BY <1>2, <1>5, <1>7, <1>9, <1>10, <1>11, <1>13, <1>15, AccountTypes DEF Own, Bonded, PairOk
<1>19. /\ Own(t.me) \in Int /\ Own(drawn.me) \in Int /\ Own(p.me) \in Int /\ Own(m) \in Int
       /\ Gold(p.w) \in Int /\ Gold(t.w) \in Int /\ Excess(p.w) \in Int /\ Excess(t.w) \in Int
       /\ p.me.balance \in Int /\ p.me.staked \in Int /\ p.me.pendingStake \in Int
  BY <1>5, <1>10, <1>13, <1>17, AccountTypes, WorldTypes DEF PairOk
<1>20. Gold(out.w) + Own(out.me) = Gold(t.w) + Own(t.me)
  <2>1. Gold(p.w) + Own(p.me) = Gold(t.w) + Own(drawn.me)
    BY <1>9, <1>11 DEF Kept
  <2>2. Own(m) = Own(p.me) + fresh
    BY <1>2, <1>7, <1>18, <1>19
  <2>3. QED
    BY <1>7, <1>14, <1>16, <1>18, <1>19, <2>1, <2>2
<1>21. Notes(out.w) + out.me.zerenya = Notes(t.w) + t.me.zerenya
  BY <1>9, <1>11, <1>14, <1>15, <1>16 DEF Kept
<1>22. Excess(out.w) + out.me.staked = Excess(t.w) + t.me.staked
  <2>1. Excess(p.w) = Excess(t.w)
    <3>1. Excess(p.w) + p.me.staked = Excess(t.w) + p.me.staked
      BY <1>9, <1>11 DEF Kept
    <3>2. Excess(p.w) \in Int /\ Excess(t.w) \in Int /\ p.me.staked \in Int
      BY <1>19
    <3>3. \A i, j, k \in Int : i + k = j + k => i = j
      OBVIOUS
    <3>4. QED
      BY <3>1, <3>2, <3>3
  <2>2. QED
    BY <1>7, <1>11, <1>14, <1>15, <1>16, <1>19, <2>1
<1>23. Kept(b, t, out)
  BY <1>11, <1>14, <1>16, <1>17, <1>20, <1>21, <1>22 DEF Kept, PairOk, SamePurse
<1>24. QED
  BY <1>3, <1>23, KeptTwice

\* UnstakeZagros, behind the bond lock.
LEMMA UnstakeKeeps ==
    ASSUME NEW s, NEW x, Start(s, x)
    PROVE  \A o \in UnstakeZagros(s, x) : Kept(x.from, s, o)
BY WithdrawKeeps, UnbondKeeps DEF UnstakeZagros

-----------------------------------------------------------------------------
(* Confiscation. *)

\* One account and the scalars of world v are rewritten, which gives u.
IsRewrite(v, b, m, u) ==
    /\ WorldOk(v) /\ b \in Addrs /\ AccountOk(m)
    /\ DOMAIN u = DOMAIN v /\ u.acct = [v.acct EXCEPT ![b] = m]
    /\ u.pool \in [zagros: Nat, zerenya: Nat]
    /\ u.treasury \in Nat /\ u.totalStaked \in Nat /\ u.acc \in Nat /\ u.backed \in Nat

\* Its books are those of v but for what was rewritten.
LEMMA Rewritten ==
    ASSUME NEW v, NEW b, NEW m, NEW u, IsRewrite(v, b, m, u)
    PROVE  /\ WorldOk(u) /\ u.acct[b] = m /\ \A a \in Addrs \ {b} : u.acct[a] = v.acct[a]
           /\ Gold(u) = Gold(v) - Own(v.acct[b]) + Own(m)
                        - v.treasury - v.pool.zagros + u.treasury + u.pool.zagros
           /\ Notes(u) = Notes(v) - v.acct[b].zerenya + m.zerenya
                         - v.pool.zerenya + v.backed + u.pool.zerenya - u.backed
           /\ Excess(u) = Excess(v) - v.acct[b].staked + m.staked + v.totalStaked - u.totalStaked
<1> DEFINE k == [v EXCEPT !.acct[b] = m]
<1>1. /\ WorldOk(v) /\ b \in Addrs /\ AccountOk(m)
      /\ DOMAIN u = DOMAIN v /\ u.acct = [v.acct EXCEPT ![b] = m]
      /\ u.pool \in [zagros: Nat, zerenya: Nat]
      /\ u.treasury \in Nat /\ u.totalStaked \in Nat /\ u.acc \in Nat /\ u.backed \in Nat
  BY DEF IsRewrite
<1>2. /\ DOMAIN k = DOMAIN v /\ k.acct = [v.acct EXCEPT ![b] = m]
  BY <1>1 DEF WorldOk
<1>3. /\ WorldOk(k) /\ k.acct[b] = m /\ \A a \in Addrs \ {b} : k.acct[a] = v.acct[a]
      /\ k.pool = v.pool /\ k.treasury = v.treasury /\ k.totalStaked = v.totalStaked
      /\ k.acc = v.acc /\ k.backed = v.backed
      /\ Gold(k) = Gold(v) - Own(v.acct[b]) + Own(m)
      /\ Notes(k) = Notes(v) - v.acct[b].zerenya + m.zerenya
      /\ Excess(k) = Excess(v) - v.acct[b].staked + m.staked
  BY <1>1, Written
<1> HIDE DEF k
<1>4. DOMAIN u = DOMAIN k /\ u.acct = k.acct
  BY <1>1, <1>2
<1>5. /\ WorldOk(u)
      /\ Gold(u) = Gold(k) - k.treasury - k.pool.zagros + u.treasury + u.pool.zagros
      /\ Notes(u) = Notes(k) - k.pool.zerenya + k.backed + u.pool.zerenya - u.backed
      /\ Excess(u) = Excess(k) + k.totalStaked - u.totalStaked
  BY <1>1, <1>3, <1>4, SameAccounts
<1>6. /\ v.treasury \in Int /\ v.totalStaked \in Int /\ v.backed \in Int
      /\ v.pool.zagros \in Int /\ v.pool.zerenya \in Int
      /\ u.treasury \in Int /\ u.totalStaked \in Int /\ u.backed \in Int
      /\ u.pool.zagros \in Int /\ u.pool.zerenya \in Int
      /\ Gold(v) \in Int /\ Notes(v) \in Int /\ Excess(v) \in Int /\ AccountOk(v.acct[b])
  BY <1>1, WorldTypes
<1>7. /\ Own(v.acct[b]) \in Int /\ v.acct[b].zerenya \in Int /\ v.acct[b].staked \in Int
      /\ Own(m) \in Int /\ m.zerenya \in Int /\ m.staked \in Int
  BY <1>1, <1>6, AccountTypes
<1>8. Gold(u) = Gold(v) - Own(v.acct[b]) + Own(m)
                - v.treasury - v.pool.zagros + u.treasury + u.pool.zagros
  BY <1>3, <1>5, <1>6, <1>7
<1>9. Notes(u) = Notes(v) - v.acct[b].zerenya + m.zerenya
                 - v.pool.zerenya + v.backed + u.pool.zerenya - u.backed
  BY <1>3, <1>5, <1>6, <1>7
<1>10. Excess(u) = Excess(v) - v.acct[b].staked + m.staked + v.totalStaked - u.totalStaked
  BY <1>3, <1>5, <1>6, <1>7
<1>11. QED
  BY <1>3, <1>4, <1>5, <1>8, <1>9, <1>10

\* What is taken from an account is what it had bonded.
LEMMA Taken ==
    ASSUME NEW k, AccountOk(k), NEW m, m = Confiscated(k) \/ m = Jailed(Confiscated(k))
                                      \/ m = [Confiscated(k) EXCEPT !.status = "jailed"]
    PROVE  /\ AccountOk(m) /\ Own(m) = Own(k) - Bonded(k) /\ m.zerenya = k.zerenya /\ m.staked = 0
<1> DEFINE c == Confiscated(k)
<1>1. /\ DOMAIN c = DOMAIN k /\ c.balance = k.balance /\ c.zerenya = k.zerenya
      /\ c.staked = 0 /\ c.pendingStake = 0 /\ c.unbonding = 0 /\ c.debt = k.debt
  BY Zenon DEF AccountOk, Confiscated
<1> HIDE DEF c
<1>2. /\ DOMAIN m = DOMAIN c /\ m.balance = c.balance /\ m.zerenya = c.zerenya
      /\ m.staked = c.staked /\ m.pendingStake = c.pendingStake /\ m.unbonding = c.unbonding
      /\ m.debt = c.debt
  <2>1. CASE m = c
    BY <2>1
  <2>2. CASE m = Jailed(c)
    BY <1>1, <2>2 DEF Jailed, AccountOk
  <2>3. CASE m = [c EXCEPT !.status = "jailed"]
    BY <1>1, <2>3 DEF AccountOk
  <2>4. QED
    BY <2>1, <2>2, <2>3 DEF c
<1>3. AccountOk(m)
  BY <1>1, <1>2 DEF AccountOk
<1>4. Own(m) = k.balance /\ Own(k) = k.balance + Bonded(k) /\ k.balance \in Nat /\ Bonded(k) \in Nat
  BY <1>1, <1>2, AccountTypes DEF Own, Bonded
<1>5. QED
  BY <1>1, <1>2, <1>3, <1>4

\* The total less the target's stake, the target's account less what it had bonded.
IsTaking(s, x, m, u) ==
    /\ Start(s, x) /\ AccountOk(m) /\ m.zerenya = s.w.acct[x.to].zerenya
    /\ DOMAIN u = DOMAIN s.w /\ u.acct = [s.w.acct EXCEPT ![x.to] = m]
    /\ u.totalStaked = Monus(s.w.totalStaked, s.w.acct[x.to].staked)
    /\ u.pool = s.w.pool /\ u.treasury = s.w.treasury /\ u.acc = s.w.acc
    /\ u.backed = s.w.backed

\* Its books are short of what was bonded, and its stakes are exact but for the new account's.
LEMMA TargetTaken ==
    ASSUME NEW s, NEW x, NEW m, NEW u, IsTaking(s, x, m, u)
    PROVE  /\ WorldOk(u) /\ u.acct[x.to] = m /\ \A a \in Addrs \ {x.to} : u.acct[a] = s.w.acct[a]
           /\ Gold(u) = Gold(s.w) - Own(s.w.acct[x.to]) + Own(m) /\ Notes(u) = Notes(s.w)
           /\ Excess(u) = Excess(s.w) + m.staked
<1> DEFINE v == s.w
           k == v.acct[x.to]
<1>1. /\ Start(s, x) /\ AccountOk(m) /\ m.zerenya = k.zerenya
      /\ DOMAIN u = DOMAIN v /\ u.acct = [v.acct EXCEPT ![x.to] = m]
      /\ u.totalStaked = Monus(v.totalStaked, k.staked)
      /\ u.pool = v.pool /\ u.treasury = v.treasury /\ u.acc = v.acc
      /\ u.backed = v.backed
  BY DEF IsTaking
<1>2. x.to \in Addrs /\ WorldOk(v) /\ k.staked <= v.totalStaked
  BY <1>1, StartTypes
<1>3. /\ v.treasury \in Nat /\ v.pool \in [zagros: Nat, zerenya: Nat] /\ v.totalStaked \in Nat
      /\ v.acc \in Nat /\ v.backed \in Nat /\ v.pool.zagros \in Nat /\ v.pool.zerenya \in Nat
      /\ Gold(v) \in Int /\ Notes(v) \in Int /\ Excess(v) \in Int /\ AccountOk(k)
  BY <1>2, WorldTypes DEF WorldOk
<1>4. Own(k) \in Nat /\ k.staked \in Nat /\ k.zerenya \in Nat /\ Own(m) \in Nat /\ m.staked \in Nat
  BY <1>1, <1>3, AccountTypes
<1>5. u.totalStaked = v.totalStaked - k.staked /\ u.totalStaked \in Nat
  BY <1>1, <1>2, <1>3, <1>4 DEF Monus
<1>6. IsRewrite(v, x.to, m, u)
  BY <1>1, <1>2, <1>3, <1>5 DEF IsRewrite
<1> HIDE DEF v
<1>7. /\ WorldOk(u) /\ u.acct[x.to] = m /\ \A a \in Addrs \ {x.to} : u.acct[a] = v.acct[a]
      /\ Gold(u) = Gold(v) - Own(k) + Own(m)
                   - v.treasury - v.pool.zagros + u.treasury + u.pool.zagros
      /\ Notes(u) = Notes(v) - k.zerenya + m.zerenya
                    - v.pool.zerenya + v.backed + u.pool.zerenya - u.backed
      /\ Excess(u) = Excess(v) - k.staked + m.staked + v.totalStaked - u.totalStaked
  BY <1>6, Rewritten
<1> HIDE DEF k
<1>8. u.treasury = v.treasury /\ u.pool = v.pool /\ u.backed = v.backed
  BY <1>1
<1>9. Gold(u) = Gold(v) - Own(k) + Own(m)
  BY <1>3, <1>4, <1>7, <1>8
<1>10. Notes(u) = Notes(v)
  BY <1>1, <1>3, <1>4, <1>7, <1>8
<1>11. Excess(u) = Excess(v) + m.staked
  BY <1>3, <1>4, <1>5, <1>7
<1>12. QED
  BY <1>7, <1>9, <1>10, <1>11 DEF v, k

\* A slash is noted.
LEMMA SlashNoted ==
    ASSUME NEW v, WorldOk(v), NEW target, NEW reason, NEW amount
    PROVE  LET u == Slashed(v, target, reason, amount)
           IN  /\ WorldOk(u) /\ Gold(u) = Gold(v) /\ Notes(u) = Notes(v) /\ Excess(u) = Excess(v)
               /\ u.acct = v.acct
<1> DEFINE u == Slashed(v, target, reason, amount)
<1>1. /\ DOMAIN u = DOMAIN v /\ u.acct = v.acct /\ u.pool = v.pool /\ u.treasury = v.treasury
      /\ u.totalStaked = v.totalStaked /\ u.acc = v.acc /\ u.backed = v.backed
  BY DEF Slashed, WorldOk
<1> HIDE DEF u
<1>2. QED
  BY <1>1, SameMoney DEF u

\* SlashValidator, of another or of the sender itself.
LEMMA SlashKeeps ==
    ASSUME NEW s, NEW x, Start(s, x)
    PROVE  \A o \in SlashValidator(s, x) : Kept(x.from, s, o)
<1> DEFINE own == x.to = x.from
           k == s.w.acct[x.to]
           after == Jailed(Confiscated(k))
           n == IF own THEN k ELSE after
           wd == [s.w EXCEPT !.totalStaked = Monus(@, k.staked),
                             !.acct[x.to] = IF own THEN @ ELSE after]
           d == Distribute(wd, Bonded(k))
           u == Slashed(d, x.to, "admin", Bonded(k))
           m == IF own THEN after ELSE s.me
           o == [w |-> u, me |-> m]
<1>1. /\ x.from \in Addrs /\ x.to \in Addrs /\ PairOk(s) /\ s.me = s.w.acct[x.from] /\ WorldOk(s.w)
      /\ AccountOk(s.me) /\ BlockOk
  BY StartTypes DEF Start
<1>2. AccountOk(k) /\ (own => k = s.me)
  BY <1>1, WorldTypes
<1>3. \A t \in SlashValidator(s, x) : t = o
  <2>1. (IF own THEN s.me ELSE s.w.acct[x.to]) = k
    BY <1>2
  <2>2. QED
    BY <2>1 DEF SlashValidator, When
<1>4. /\ AccountOk(after) /\ Own(after) = Own(k) - Bonded(k) /\ after.zerenya = k.zerenya
      /\ after.staked = 0
  BY <1>2, Taken
<1>5. /\ DOMAIN wd = DOMAIN s.w /\ wd.acct = [s.w.acct EXCEPT ![x.to] = n]
      /\ wd.totalStaked = Monus(s.w.totalStaked, k.staked) /\ wd.pool = s.w.pool
      /\ wd.treasury = s.w.treasury /\ wd.acc = s.w.acc /\ wd.backed = s.w.backed
  BY <1>1 DEF WorldOk
<1>6. /\ DOMAIN o = {"w", "me"} /\ o.w = u /\ o.me = m
  OBVIOUS
<1>7. AccountOk(n) /\ n.zerenya = s.w.acct[x.to].zerenya
  BY <1>2, <1>4
<1> HIDE DEF wd, n, after
<1>8. /\ WorldOk(wd) /\ wd.acct[x.to] = n /\ \A a \in Addrs \ {x.to} : wd.acct[a] = s.w.acct[a]
      /\ Gold(wd) = Gold(s.w) - Own(k) + Own(n) /\ Notes(wd) = Notes(s.w)
      /\ Excess(wd) = Excess(s.w) + n.staked
  <2>1. IsTaking(s, x, n, wd)
    BY <1>5, <1>7 DEF IsTaking
  <2>2. QED
    BY <2>1, TargetTaken
<1>9. Bonded(k) \in Nat /\ Own(k) \in Nat /\ k.staked \in Nat
  BY <1>2, AccountTypes
<1>10. /\ WorldOk(d) /\ Gold(d) = Gold(wd) + Bonded(k) /\ Notes(d) = Notes(wd)
       /\ Excess(d) = Excess(wd) /\ \A a \in Addrs : SamePurse(wd.acct[a], d.acct[a])
  BY <1>1, <1>8, <1>9, Distributed
<1> HIDE DEF d
<1>11. /\ WorldOk(u) /\ Gold(u) = Gold(d) /\ Notes(u) = Notes(d) /\ Excess(u) = Excess(d)
       /\ u.acct = d.acct
  BY <1>10, SlashNoted
<1>12. /\ Gold(s.w) \in Int /\ Notes(s.w) \in Int /\ Excess(s.w) \in Int
  BY <1>1, WorldTypes
<1> HIDE DEF u, o
<1>13. AccountOk(m) /\ m.zerenya = s.me.zerenya
  BY <1>1, <1>2, <1>4
<1>14. Gold(u) + Own(m) = Gold(s.w) + Own(s.me) /\ Excess(u) + m.staked = Excess(s.w) + s.me.staked
  <2>1. CASE own
    <3>1. m = after /\ n = k /\ k = s.me
      BY <1>2, <2>1 DEF n
    <3> HIDE DEF k, m, n
    <3>2. QED
      BY <1>4, <1>8, <1>9, <1>10, <1>11, <1>12, <3>1
  <2>2. CASE ~ own
    <3>1. m = s.me /\ n = after /\ Own(s.me) \in Int /\ s.me.staked \in Int
      BY <1>1, <2>2, AccountTypes DEF n
    <3> HIDE DEF k, m, n
    <3>2. QED
      BY <1>4, <1>8, <1>9, <1>10, <1>11, <1>12, <3>1
  <2>3. QED
    BY <2>1, <2>2
<1>15. SamePurse(s.w.acct[x.from], u.acct[x.from])
  <2>1. wd.acct[x.from] = s.w.acct[x.from]
    <3>1. CASE own
      BY <1>1, <1>8, <3>1 DEF n
    <3>2. CASE ~ own
      BY <1>1, <1>8, <3>2
    <3>3. QED
      BY <3>1, <3>2
  <2>2. SamePurse(wd.acct[x.from], d.acct[x.from])
    BY <1>1, <1>10
  <2>3. QED
    BY <1>11, <2>1, <2>2
<1>16. Kept(x.from, s, o)
  BY <1>6, <1>8, <1>10, <1>11, <1>13, <1>14, <1>15 DEF Kept, PairOk
<1>17. QED
  BY <1>3, <1>16

\* ReportMalicious: the reporter's share and the stakers' are what was bonded.
LEMMA ReportKeeps ==
    ASSUME NEW s, NEW x, Start(s, x)
    PROVE  \A o \in ReportMalicious(s, x) : Kept(x.from, s, o)
<1> DEFINE k == s.w.acct[x.to]
           n == [Confiscated(k) EXCEPT !.status = "jailed"]
           reward == (Bonded(k) * ReporterBps) \div 10000
           wd == [s.w EXCEPT !.totalStaked = Monus(@, k.staked), !.acct[x.to] = n]
           d == Distribute(wd, Bonded(k) - reward)
           e == Slashed(d, x.to, "double_sign", Bonded(k))
           u == ProofUsed(e, x.ref)
           m == [s.me EXCEPT !.unbonding = @ + reward, !.unlocksAt = now + Unbonding]
           o == [w |-> u, me |-> m]
<1>1. SUFFICES ASSUME x.to # x.from PROVE Kept(x.from, s, o)
  <2>1. \A t \in ReportMalicious(s, x) : x.to # x.from /\ t = Convicted(s, x)
    BY DEF ReportMalicious, When
  <2>2. Convicted(s, x) = o
    BY DEF Convicted
  <2> HIDE DEF o
  <2>3. QED
    BY <2>1, <2>2
<1>2. /\ x.from \in Addrs /\ x.to \in Addrs /\ PairOk(s) /\ s.me = s.w.acct[x.from] /\ WorldOk(s.w)
      /\ AccountOk(s.me) /\ BlockOk
  BY StartTypes DEF Start
<1>3. AccountOk(k)
  BY <1>2, WorldTypes
<1>4. /\ AccountOk(n) /\ Own(n) = Own(k) - Bonded(k) /\ n.zerenya = k.zerenya /\ n.staked = 0
  BY <1>3, Taken
<1>5. Bonded(k) \in Nat /\ Own(k) \in Nat /\ k.staked \in Nat
  BY <1>3, AccountTypes
<1>6. reward \in Nat /\ reward <= Bonded(k)
  <2>1. ReporterBps \in Nat /\ ReporterBps <= 10000 /\ 10000 \in Nat \ {0}
    BY SharesAre
  <2>2. Ratio(Bonded(k), ReporterBps, 10000) \in Nat
        /\ Ratio(Bonded(k), ReporterBps, 10000) <= Bonded(k)
    BY <1>5, <2>1, ShareOf
  <2>3. QED
    BY <2>2 DEF Ratio
<1> HIDE DEF reward
<1>7. /\ DOMAIN wd = DOMAIN s.w /\ wd.acct = [s.w.acct EXCEPT ![x.to] = n]
      /\ wd.totalStaked = Monus(s.w.totalStaked, k.staked) /\ wd.pool = s.w.pool
      /\ wd.treasury = s.w.treasury /\ wd.acc = s.w.acc /\ wd.backed = s.w.backed
  BY <1>2 DEF WorldOk
<1>8. /\ DOMAIN o = {"w", "me"} /\ o.w = u /\ o.me = m
  OBVIOUS
<1> HIDE DEF wd, n
<1>9. /\ WorldOk(wd) /\ wd.acct[x.to] = n /\ \A a \in Addrs \ {x.to} : wd.acct[a] = s.w.acct[a]
      /\ Gold(wd) = Gold(s.w) - Own(k) + Own(n) /\ Notes(wd) = Notes(s.w)
      /\ Excess(wd) = Excess(s.w) + n.staked
  <2>1. IsTaking(s, x, n, wd)
    BY <1>4, <1>7 DEF IsTaking
  <2>2. QED
    BY <2>1, TargetTaken
<1>10. Bonded(k) - reward \in Nat
  BY <1>5, <1>6
<1>11. /\ WorldOk(d) /\ Gold(d) = Gold(wd) + (Bonded(k) - reward) /\ Notes(d) = Notes(wd)
       /\ Excess(d) = Excess(wd) /\ \A a \in Addrs : SamePurse(wd.acct[a], d.acct[a])
  BY <1>2, <1>9, <1>10, Distributed
<1> HIDE DEF d
<1>12. /\ WorldOk(e) /\ Gold(e) = Gold(d) /\ Notes(e) = Notes(d) /\ Excess(e) = Excess(d)
       /\ e.acct = d.acct
  BY <1>11, SlashNoted
<1> HIDE DEF e
<1>13. /\ DOMAIN u = DOMAIN e /\ u.acct = e.acct /\ u.pool = e.pool /\ u.treasury = e.treasury
       /\ u.totalStaked = e.totalStaked /\ u.acc = e.acc /\ u.backed = e.backed
  BY <1>12 DEF WorldOk, ProofUsed
<1>14. /\ DOMAIN m = DOMAIN s.me /\ m.balance = s.me.balance /\ m.zerenya = s.me.zerenya
       /\ m.staked = s.me.staked /\ m.pendingStake = s.me.pendingStake
       /\ m.unbonding = s.me.unbonding + reward /\ m.debt = s.me.debt
  BY <1>2 DEF AccountOk
<1> HIDE DEF u, m, o, k
<1>15. WorldOk(u) /\ Gold(u) = Gold(e) /\ Notes(u) = Notes(e) /\ Excess(u) = Excess(e)
  BY <1>12, <1>13, SameMoney
<1>16. AccountOk(m) /\ Own(m) = Own(s.me) + reward /\ Own(s.me) \in Int
  BY <1>2, <1>6, <1>14, AccountTypes DEF AccountOk, Own, Bonded
<1>17. /\ Gold(s.w) \in Int /\ Notes(s.w) \in Int /\ Excess(s.w) \in Int
  BY <1>2, WorldTypes
<1>18. Gold(u) + Own(m) = Gold(s.w) + Own(s.me)
  BY <1>4, <1>5, <1>6, <1>9, <1>11, <1>12, <1>15, <1>16, <1>17
<1>19. Excess(u) = Excess(s.w)
  BY <1>4, <1>9, <1>11, <1>12, <1>15, <1>17
<1>20. SamePurse(s.w.acct[x.from], u.acct[x.from])
  <2>1. wd.acct[x.from] = s.w.acct[x.from]
    BY <1>1, <1>2, <1>9
  <2>2. SamePurse(wd.acct[x.from], d.acct[x.from])
    BY <1>2, <1>11
  <2>3. QED
    BY <1>12, <1>13, <2>1, <2>2
<1>21. QED
  BY <1>8, <1>9, <1>11, <1>12, <1>14, <1>15, <1>16, <1>18, <1>19, <1>20 DEF Kept, PairOk

-----------------------------------------------------------------------------
(* Transfers and swaps. *)

\* Transfer, to another or (before D14) to oneself.
LEMMA TransferKeeps ==
    ASSUME NEW s, NEW x, Start(s, x), x.type = "transfer"
    PROVE  \A o \in Transfer(s, x) : Kept(x.from, s, o)
<1> DEFINE c == [s.w EXCEPT !.acct[x.to] = [s.w.acct[x.to] EXCEPT !.balance = @ + x.amt]]
           u == TransferRecorded(c, counter)
           m == [s.me EXCEPT !.balance = Monus(@, x.amt)]
           o == [w |-> u, me |-> m]
<1>1. /\ x.from \in Addrs /\ x.to \in Addrs /\ PairOk(s) /\ WorldOk(s.w) /\ AccountOk(s.me)
      /\ x.amt \in Nat /\ s.me.balance >= x.amt
  BY StartTypes
<1>2. \A t \in Transfer(s, x) : t = o
  <2>1. [s.w EXCEPT !.acct[x.to].balance = @ + x.amt] = c
    OBVIOUS
  <2>2. QED
    BY <2>1 DEF Transfer, When
<1>3. /\ WorldOk(c) /\ Gold(c) = Gold(s.w) + x.amt /\ Notes(c) = Notes(s.w)
      /\ Excess(c) = Excess(s.w) /\ \A a \in Addrs : SamePurse(s.w.acct[a], c.acct[a])
  BY <1>1, Credited
<1> HIDE DEF c
<1>4. /\ DOMAIN u = DOMAIN c /\ u.acct = c.acct /\ u.pool = c.pool /\ u.treasury = c.treasury
      /\ u.totalStaked = c.totalStaked /\ u.acc = c.acc /\ u.backed = c.backed
  BY <1>3 DEF WorldOk, TransferRecorded
<1>5. /\ DOMAIN m = DOMAIN s.me /\ m.balance = Monus(s.me.balance, x.amt)
      /\ m.zerenya = s.me.zerenya /\ m.staked = s.me.staked
      /\ m.pendingStake = s.me.pendingStake /\ m.unbonding = s.me.unbonding
      /\ m.debt = s.me.debt
  BY <1>1 DEF AccountOk
<1>6. DOMAIN o = {"w", "me"} /\ o.w = u /\ o.me = m
  OBVIOUS
<1> HIDE DEF u, m, o
<1>7. WorldOk(u) /\ Gold(u) = Gold(c) /\ Notes(u) = Notes(c) /\ Excess(u) = Excess(c)
  BY <1>3, <1>4, SameMoney
<1>8. s.me.balance \in Nat /\ m.balance = s.me.balance - x.amt /\ m.balance \in Nat
  BY <1>1, <1>5, AccountTypes DEF Monus
<1>9. AccountOk(m) /\ Own(m) = Own(s.me) - x.amt /\ Own(s.me) \in Int /\ Gold(s.w) \in Int
  BY <1>1, <1>5, <1>8, AccountTypes, WorldTypes DEF AccountOk, Own, Bonded
<1>10. Gold(u) + Own(m) = Gold(s.w) + Own(s.me)
  BY <1>1, <1>3, <1>7, <1>9
<1>11. Kept(x.from, s, o)
  BY <1>1, <1>3, <1>4, <1>5, <1>6, <1>7, <1>9, <1>10 DEF Kept, PairOk
<1>12. QED
  BY <1>2, <1>11

\* What a quote takes from the pool on one side it adds on the other, or gives out.
LEMMA BuyQuoted ==
    ASSUME NEW wd, WorldOk(wd), NEW amount \in Nat
    PROVE  \A q \in BuyQuote(wd, amount) :
              /\ q.out \in Nat /\ q.fee \in Nat /\ q.pool \in [zagros: Nat, zerenya: Nat]
              /\ q.pool.zagros + q.out + q.fee = wd.pool.zagros
              /\ q.pool.zerenya = wd.pool.zerenya + amount
<1> DEFINE a == wd.pool.zagros
           b == wd.pool.zerenya
           raw == (amount * a) \div (b + amount)
           fee == (raw * FeeBps) \div 10000
           q == [out |-> raw - fee, fee |-> fee,
                 pool |-> [zagros |-> a - raw, zerenya |-> b + amount]]
<1>1. a \in Nat /\ b \in Nat
  BY WorldTypes
<1>2. \A p \in BuyQuote(wd, amount) : p = q /\ Liquid(wd) /\ raw - fee > 0
  BY DEF BuyQuote, When
<1>3. SUFFICES ASSUME Liquid(wd), raw - fee > 0
               PROVE  /\ q.out \in Nat /\ q.fee \in Nat /\ q.pool \in [zagros: Nat, zerenya: Nat]
                      /\ q.pool.zagros + q.out + q.fee = a /\ q.pool.zerenya = b + amount
  <2> HIDE DEF q, a, b
  <2>1. QED
    BY <1>2 DEF a, b
<1>4. b \in Nat \ {0}
  <2>1. MinZerenya \in Nat \ {0}
    BY GenesisAssumption
  <2>2. QED
    BY <1>1, <1>3, <2>1 DEF Liquid
<1>5. raw \in Nat /\ raw <= a
  <2> HIDE DEF a, b
  <2>1. Ratio(amount, a, b + amount) \in Nat /\ Ratio(amount, a, b + amount) <= a
    BY <1>1, <1>4, SwapOutput
  <2>2. QED
    BY <2>1 DEF Ratio
<1> HIDE DEF raw
<1>6. fee \in Nat /\ fee <= raw
  <2>1. FeeBps \in Nat /\ FeeBps <= 10000 /\ 10000 \in Nat \ {0}
    BY SharesAre
  <2>2. Ratio(raw, FeeBps, 10000) \in Nat /\ Ratio(raw, FeeBps, 10000) <= raw
    BY <1>5, <2>1, ShareOf
  <2>3. QED
    BY <2>2 DEF Ratio
<1> HIDE DEF fee, a, b
<1>7. QED
  BY <1>1, <1>5, <1>6

\* The same of a sale, whose fee comes off the input.
LEMMA SellQuoted ==
    ASSUME NEW wd, WorldOk(wd), NEW amount \in Nat
    PROVE  \A q \in SellQuote(wd, amount) :
              /\ q.out \in Nat /\ q.fee \in Nat /\ q.pool \in [zagros: Nat, zerenya: Nat]
              /\ q.pool.zagros + q.fee = wd.pool.zagros + amount
              /\ q.pool.zerenya + q.out = wd.pool.zerenya
<1> DEFINE a == wd.pool.zagros
           b == wd.pool.zerenya
           fee == (amount * FeeBps) \div 10000
           in == amount - fee
           out == (in * b) \div (a + in)
           q == [out |-> out, fee |-> fee,
                 pool |-> [zagros |-> a + in, zerenya |-> b - out]]
<1>1. a \in Nat /\ b \in Nat
  BY WorldTypes
<1>2. \A p \in SellQuote(wd, amount) : p = q /\ Liquid(wd)
  BY DEF SellQuote, When
<1>3. SUFFICES ASSUME Liquid(wd)
               PROVE  /\ q.out \in Nat /\ q.fee \in Nat /\ q.pool \in [zagros: Nat, zerenya: Nat]
                      /\ q.pool.zagros + q.fee = a + amount /\ q.pool.zerenya + q.out = b
  <2> HIDE DEF q, a, b
  <2>1. QED
    BY <1>2 DEF a, b
<1>4. a \in Nat \ {0}
  <2>1. MinZagros \in Nat \ {0}
    BY GenesisAssumption
  <2>2. QED
    BY <1>1, <1>3, <2>1 DEF Liquid
<1>5. fee \in Nat /\ fee <= amount
  <2>1. FeeBps \in Nat /\ FeeBps <= 10000 /\ 10000 \in Nat \ {0}
    BY SharesAre
  <2>2. Ratio(amount, FeeBps, 10000) \in Nat /\ Ratio(amount, FeeBps, 10000) <= amount
    BY <2>1, ShareOf
  <2>3. QED
    BY <2>2 DEF Ratio
<1> HIDE DEF fee
<1>6. in \in Nat /\ in = amount - fee
  BY <1>5
<1> HIDE DEF in
<1>7. out \in Nat /\ out <= b
  <2> HIDE DEF a, b
  <2>1. Ratio(in, b, a + in) \in Nat /\ Ratio(in, b, a + in) <= b
    BY <1>1, <1>4, <1>6, SwapOutput
  <2>2. QED
    BY <2>1 DEF Ratio
<1> HIDE DEF out, a, b
<1>8. QED
  BY <1>1, <1>5, <1>6, <1>7

\* The volume of a swap is recorded beside the money.
LEMMA VolumeNoted ==
    ASSUME NEW v, WorldOk(v), NEW d, NEW amount, NEW reserve
    PROVE  \A u \in VolumeRecorded(v, d, amount, reserve) :
              /\ WorldOk(u) /\ Gold(u) = Gold(v) /\ Notes(u) = Notes(v) /\ Excess(u) = Excess(v)
              /\ u.acct = v.acct /\ u.pool = v.pool /\ u.backed = v.backed
<1> SUFFICES ASSUME NEW u \in VolumeRecorded(v, d, amount, reserve)
             PROVE  /\ WorldOk(u) /\ Gold(u) = Gold(v) /\ Notes(u) = Notes(v)
                    /\ Excess(u) = Excess(v)
                    /\ u.acct = v.acct /\ u.pool = v.pool /\ u.backed = v.backed
  OBVIOUS
<1>1. \E new : u = [v EXCEPT !.volume = new]
  BY DEF VolumeRecorded, When
<1>2. /\ DOMAIN u = DOMAIN v /\ u.acct = v.acct /\ u.pool = v.pool /\ u.treasury = v.treasury
      /\ u.totalStaked = v.totalStaked /\ u.acc = v.acc /\ u.backed = v.backed
  BY <1>1 DEF WorldOk
<1>3. QED
  BY <1>2, SameMoney

\* A swap leaves its fee to the stakers and the pool as quoted.
LEMMA SwapClosed ==
    ASSUME NEW v, WorldOk(v), NEW fee \in Nat, BlockOk, NEW pool \in [zagros: Nat, zerenya: Nat]
    PROVE  LET u == [Distribute(v, fee) EXCEPT !.pool = pool]
           IN  /\ WorldOk(u) /\ u.pool = pool /\ u.backed = v.backed
               /\ Gold(u) = Gold(v) + fee - v.pool.zagros + pool.zagros
               /\ Notes(u) = Notes(v) - v.pool.zerenya + pool.zerenya
               /\ Excess(u) = Excess(v)
               /\ \A a \in Addrs : SamePurse(v.acct[a], u.acct[a])
<1> DEFINE d == Distribute(v, fee)
           u == [d EXCEPT !.pool = pool]
<1>1. /\ WorldOk(d) /\ Gold(d) = Gold(v) + fee /\ Notes(d) = Notes(v) /\ Excess(d) = Excess(v)
      /\ d.pool = v.pool /\ d.backed = v.backed
      /\ \A a \in Addrs : SamePurse(v.acct[a], d.acct[a])
  BY Distributed
<1> HIDE DEF d
<1>2. /\ DOMAIN u = DOMAIN d /\ u.acct = d.acct /\ u.pool = pool /\ u.treasury = d.treasury
      /\ u.totalStaked = d.totalStaked /\ u.acc = d.acc /\ u.backed = d.backed
  BY <1>1 DEF WorldOk
<1> HIDE DEF u
<1>3. /\ d.treasury \in Nat /\ d.totalStaked \in Nat /\ d.acc \in Nat /\ d.backed \in Nat
      /\ d.pool.zagros \in Nat /\ d.pool.zerenya \in Nat
      /\ pool.zagros \in Nat /\ pool.zerenya \in Nat
      /\ Gold(v) \in Int /\ Notes(v) \in Int /\ Excess(v) \in Int
  BY <1>1, WorldTypes
<1>4. /\ WorldOk(u)
      /\ Gold(u) = Gold(d) - d.treasury - d.pool.zagros + u.treasury + u.pool.zagros
      /\ Notes(u) = Notes(d) - d.pool.zerenya + d.backed + u.pool.zerenya - u.backed
      /\ Excess(u) = Excess(d) + d.totalStaked - u.totalStaked
  BY <1>1, <1>2, <1>3, SameAccounts
<1>5. Gold(u) = Gold(v) + fee - v.pool.zagros + pool.zagros
  BY <1>1, <1>2, <1>3, <1>4
<1>6. Notes(u) = Notes(v) - v.pool.zerenya + pool.zerenya /\ Excess(u) = Excess(v)
  BY <1>1, <1>2, <1>3, <1>4
<1>7. QED
  BY <1>1, <1>2, <1>4, <1>5, <1>6 DEF u, d

\* SwapBuy.
LEMMA SwapBuyKeeps ==
    ASSUME NEW s, NEW x, Start(s, x)
    PROVE  \A o \in SwapBuy(s, x) : Kept(x.from, s, o)
<1> SUFFICES ASSUME NEW o \in SwapBuy(s, x) PROVE Kept(x.from, s, o)
  OBVIOUS
<1>1. PICK p \in VolumeRecorded(s.w, "zerenya_in", x.amt, s.w.pool.zerenya)
                   \X BuyQuote(s.w, x.amt) :
         /\ s.me.zerenya >= x.amt
         /\ o = [w |-> [Distribute(p[1], p[2].fee) EXCEPT !.pool = p[2].pool],
                 me |-> [s.me EXCEPT !.zerenya = Monus(@, x.amt), !.balance = @ + p[2].out]]
  BY DEF SwapBuy
<1> DEFINE v == p[1]
           q == p[2]
           u == [Distribute(v, q.fee) EXCEPT !.pool = q.pool]
           m == [s.me EXCEPT !.zerenya = Monus(@, x.amt), !.balance = @ + q.out]
<1>2. v \in VolumeRecorded(s.w, "zerenya_in", x.amt, s.w.pool.zerenya) /\ q \in BuyQuote(s.w, x.amt)
  BY <1>1
<1>3. DOMAIN o = {"w", "me"} /\ o.w = u /\ o.me = m
  BY <1>1
<1> HIDE DEF v, q
<1>4. /\ x.from \in Addrs /\ WorldOk(s.w) /\ AccountOk(s.me) /\ x.amt \in Nat /\ BlockOk
  BY StartTypes DEF Start
<1>5. /\ WorldOk(v) /\ Gold(v) = Gold(s.w) /\ Notes(v) = Notes(s.w) /\ Excess(v) = Excess(s.w)
      /\ v.acct = s.w.acct /\ v.pool = s.w.pool
  BY <1>2, <1>4, VolumeNoted
<1>6. /\ q.out \in Nat /\ q.fee \in Nat /\ q.pool \in [zagros: Nat, zerenya: Nat]
      /\ q.pool.zagros + q.out + q.fee = s.w.pool.zagros
      /\ q.pool.zerenya = s.w.pool.zerenya + x.amt
  BY <1>2, <1>4, BuyQuoted
<1>7. /\ WorldOk(u) /\ Excess(u) = Excess(v)
      /\ Gold(u) = Gold(v) + q.fee - v.pool.zagros + q.pool.zagros
      /\ Notes(u) = Notes(v) - v.pool.zerenya + q.pool.zerenya
      /\ \A a \in Addrs : SamePurse(v.acct[a], u.acct[a])
  BY <1>4, <1>5, <1>6, SwapClosed
<1> HIDE DEF u
<1>8. /\ DOMAIN m = DOMAIN s.me /\ m.balance = s.me.balance + q.out
      /\ m.zerenya = Monus(s.me.zerenya, x.amt) /\ m.staked = s.me.staked
      /\ m.pendingStake = s.me.pendingStake /\ m.unbonding = s.me.unbonding
      /\ m.debt = s.me.debt
  BY <1>4 DEF AccountOk
<1> HIDE DEF m
<1>9. s.me.zerenya \in Nat /\ m.zerenya = s.me.zerenya - x.amt /\ m.zerenya \in Nat
  BY <1>1, <1>4, <1>8, AccountTypes DEF Monus
<1>10. AccountOk(m) /\ Own(m) = Own(s.me) + q.out /\ Own(s.me) \in Int
  BY <1>4, <1>6, <1>8, <1>9, AccountTypes DEF AccountOk, Own, Bonded
<1>11. /\ Gold(s.w) \in Int /\ Notes(s.w) \in Int /\ s.w.pool.zagros \in Nat
       /\ s.w.pool.zerenya \in Nat /\ q.pool.zagros \in Nat /\ q.pool.zerenya \in Nat
  BY <1>4, <1>6, WorldTypes
<1>12. Gold(u) + Own(m) = Gold(s.w) + Own(s.me)
  BY <1>5, <1>6, <1>7, <1>10, <1>11
<1>13. Notes(u) + m.zerenya = Notes(s.w) + s.me.zerenya
  BY <1>4, <1>5, <1>6, <1>7, <1>9, <1>11
<1>14. QED
  BY <1>3, <1>4, <1>5, <1>7, <1>8, <1>10, <1>12, <1>13 DEF Kept, PairOk

\* SwapSell.
LEMMA SwapSellKeeps ==
    ASSUME NEW s, NEW x, Start(s, x), x.type = "sell"
    PROVE  \A o \in SwapSell(s, x) : Kept(x.from, s, o)
<1> SUFFICES ASSUME NEW o \in SwapSell(s, x) PROVE Kept(x.from, s, o)
  OBVIOUS
<1>1. PICK p \in VolumeRecorded(s.w, "zagros_in", x.amt, s.w.pool.zagros)
                   \X SellQuote(s.w, x.amt) :
         o = [w |-> [Distribute(p[1], p[2].fee) EXCEPT !.pool = p[2].pool],
              me |-> [s.me EXCEPT !.balance = Monus(@, x.amt), !.zerenya = @ + p[2].out]]
  BY DEF SwapSell
<1> DEFINE v == p[1]
           q == p[2]
           u == [Distribute(v, q.fee) EXCEPT !.pool = q.pool]
           m == [s.me EXCEPT !.balance = Monus(@, x.amt), !.zerenya = @ + q.out]
<1>2. v \in VolumeRecorded(s.w, "zagros_in", x.amt, s.w.pool.zagros) /\ q \in SellQuote(s.w, x.amt)
  BY <1>1
<1>3. DOMAIN o = {"w", "me"} /\ o.w = u /\ o.me = m
  BY <1>1
<1> HIDE DEF v, q
<1>4. /\ x.from \in Addrs /\ WorldOk(s.w) /\ AccountOk(s.me) /\ x.amt \in Nat /\ BlockOk
      /\ s.me.balance >= x.amt
  BY StartTypes DEF Start
<1>5. /\ WorldOk(v) /\ Gold(v) = Gold(s.w) /\ Notes(v) = Notes(s.w) /\ Excess(v) = Excess(s.w)
      /\ v.acct = s.w.acct /\ v.pool = s.w.pool
  BY <1>2, <1>4, VolumeNoted
<1>6. /\ q.out \in Nat /\ q.fee \in Nat /\ q.pool \in [zagros: Nat, zerenya: Nat]
      /\ q.pool.zagros + q.fee = s.w.pool.zagros + x.amt
      /\ q.pool.zerenya + q.out = s.w.pool.zerenya
  BY <1>2, <1>4, SellQuoted
<1>7. /\ WorldOk(u) /\ Excess(u) = Excess(v)
      /\ Gold(u) = Gold(v) + q.fee - v.pool.zagros + q.pool.zagros
      /\ Notes(u) = Notes(v) - v.pool.zerenya + q.pool.zerenya
      /\ \A a \in Addrs : SamePurse(v.acct[a], u.acct[a])
  BY <1>4, <1>5, <1>6, SwapClosed
<1> HIDE DEF u
<1>8. /\ DOMAIN m = DOMAIN s.me /\ m.balance = Monus(s.me.balance, x.amt)
      /\ m.zerenya = s.me.zerenya + q.out /\ m.staked = s.me.staked
      /\ m.pendingStake = s.me.pendingStake /\ m.unbonding = s.me.unbonding
      /\ m.debt = s.me.debt
  BY <1>4 DEF AccountOk
<1> HIDE DEF m
<1>9. /\ s.me.balance \in Nat /\ m.balance = s.me.balance - x.amt /\ m.balance \in Nat
      /\ s.me.zerenya \in Nat
  BY <1>4, <1>8, AccountTypes DEF Monus
<1>10. AccountOk(m) /\ Own(m) = Own(s.me) - x.amt /\ Own(s.me) \in Int
  BY <1>4, <1>6, <1>8, <1>9, AccountTypes DEF AccountOk, Own, Bonded
<1>11. /\ Gold(s.w) \in Int /\ Notes(s.w) \in Int /\ s.w.pool.zagros \in Nat
       /\ s.w.pool.zerenya \in Nat /\ q.pool.zagros \in Nat /\ q.pool.zerenya \in Nat
  BY <1>4, <1>6, WorldTypes
<1>12. Gold(u) + Own(m) = Gold(s.w) + Own(s.me)
  <2>1. Gold(u) = Gold(s.w) + x.amt
    BY <1>4, <1>5, <1>6, <1>7, <1>11
  <2>2. QED
    BY <1>4, <1>10, <1>11, <2>1
<1>13. Notes(u) + m.zerenya = Notes(s.w) + s.me.zerenya
  BY <1>5, <1>6, <1>7, <1>8, <1>9, <1>11
<1>14. QED
  BY <1>3, <1>4, <1>5, <1>7, <1>8, <1>10, <1>12, <1>13 DEF Kept, PairOk

-----------------------------------------------------------------------------
(* The bridge's arms. *)

\* The day's mints are recorded beside the money.
LEMMA MintNoted ==
    ASSUME NEW v, WorldOk(v), NEW amount
    PROVE  \A u \in DailyMintRecorded(v, amount) :
              /\ WorldOk(u) /\ Gold(u) = Gold(v) /\ Notes(u) = Notes(v) /\ Excess(u) = Excess(v)
              /\ u.acct = v.acct /\ u.pool = v.pool /\ u.backed = v.backed
<1> SUFFICES ASSUME NEW u \in DailyMintRecorded(v, amount)
             PROVE  /\ WorldOk(u) /\ Gold(u) = Gold(v) /\ Notes(u) = Notes(v)
                    /\ Excess(u) = Excess(v)
                    /\ u.acct = v.acct /\ u.pool = v.pool /\ u.backed = v.backed
  OBVIOUS
<1>1. \E new : u = [v EXCEPT !.daily = new]
  BY DEF DailyMintRecorded, When
<1>2. /\ DOMAIN u = DOMAIN v /\ u.acct = v.acct /\ u.pool = v.pool /\ u.treasury = v.treasury
      /\ u.totalStaked = v.totalStaked /\ u.acc = v.acc /\ u.backed = v.backed
  BY <1>1 DEF WorldOk
<1>3. QED
  BY <1>2, SameMoney

\* So is a burn.
LEMMA BurnNoted ==
    ASSUME NEW v, WorldOk(v), NEW from, NEW amount
    PROVE  LET u == BurnRecorded(v, from, amount)
           IN  /\ WorldOk(u) /\ Gold(u) = Gold(v) /\ Notes(u) = Notes(v) /\ Excess(u) = Excess(v)
               /\ u.acct = v.acct /\ u.pool = v.pool /\ u.backed = v.backed
<1> DEFINE u == BurnRecorded(v, from, amount)
<1>1. \E new : u = [v EXCEPT !.burns = new, !.nextBurn = @ + 1]
  BY DEF BurnRecorded
<1> HIDE DEF u
<1>2. /\ DOMAIN u = DOMAIN v /\ u.acct = v.acct /\ u.pool = v.pool /\ u.treasury = v.treasury
      /\ u.totalStaked = v.totalStaked /\ u.acc = v.acc /\ u.backed = v.backed
  BY <1>1 DEF WorldOk
<1>3. QED
  BY <1>2, SameMoney DEF u

\* The backing changes and nothing else that is money.
IsRebacked(v, k, u) ==
    /\ WorldOk(v) /\ k \in Int /\ u.backed \in Nat /\ u.backed = v.backed + k
    /\ DOMAIN u = DOMAIN v /\ u.acct = v.acct /\ u.pool = v.pool /\ u.treasury = v.treasury
    /\ u.totalStaked = v.totalStaked /\ u.acc = v.acc

\* The notes change by as much, and no other book.
LEMMA Rebacked ==
    ASSUME NEW v, NEW k, NEW u, IsRebacked(v, k, u)
    PROVE  WorldOk(u) /\ Gold(u) = Gold(v) /\ Notes(u) = Notes(v) - k /\ Excess(u) = Excess(v)
<1>1. /\ v.treasury \in Nat /\ v.totalStaked \in Nat /\ v.acc \in Nat /\ v.backed \in Nat
      /\ v.pool.zagros \in Nat /\ v.pool.zerenya \in Nat
      /\ v.pool \in [zagros: Nat, zerenya: Nat]
      /\ Gold(v) \in Int /\ Notes(v) \in Int /\ Excess(v) \in Int
  BY WorldTypes DEF IsRebacked, WorldOk
<1>2. /\ WorldOk(u)
      /\ Gold(u) = Gold(v) - v.treasury - v.pool.zagros + u.treasury + u.pool.zagros
      /\ Notes(u) = Notes(v) - v.pool.zerenya + v.backed + u.pool.zerenya - u.backed
      /\ Excess(u) = Excess(v) + v.totalStaked - u.totalStaked
  BY <1>1, SameAccounts DEF IsRebacked
<1>3. Gold(u) = Gold(v) /\ Excess(u) = Excess(v)
  BY <1>1, <1>2 DEF IsRebacked
<1>4. Notes(u) = Notes(v) - k
  BY <1>1, <1>2 DEF IsRebacked
<1>5. QED
  BY <1>2, <1>3, <1>4

\* BridgeBurn: the backing falls with the notes.
LEMMA BurnKeeps ==
    ASSUME NEW s, NEW x, Start(s, x)
    PROVE  \A o \in BridgeBurn(s, x) : Kept(x.from, s, o)
<1> DEFINE v == [s.w EXCEPT !.backed = @ - x.amt]
           u == BurnRecorded(v, x.from, x.amt)
           m == [s.me EXCEPT !.zerenya = @ - x.amt]
           o == [w |-> u, me |-> m]
<1>1. SUFFICES ASSUME s.me.zerenya >= x.amt, s.w.backed >= x.amt
               PROVE  Kept(x.from, s, o)
  BY DEF BridgeBurn, When
<1>2. WorldOk(s.w) /\ AccountOk(s.me) /\ x.amt \in Nat
  BY StartTypes
<1>3. /\ DOMAIN v = DOMAIN s.w /\ v.acct = s.w.acct /\ v.pool = s.w.pool
      /\ v.treasury = s.w.treasury /\ v.totalStaked = s.w.totalStaked
      /\ v.acc = s.w.acc /\ v.backed = s.w.backed - x.amt
  BY <1>2 DEF WorldOk
<1>4. DOMAIN o = {"w", "me"} /\ o.w = u /\ o.me = m
  OBVIOUS
<1>5. /\ DOMAIN m = DOMAIN s.me /\ m.balance = s.me.balance
      /\ m.zerenya = s.me.zerenya - x.amt /\ m.staked = s.me.staked
      /\ m.pendingStake = s.me.pendingStake /\ m.unbonding = s.me.unbonding
      /\ m.debt = s.me.debt
  BY <1>2 DEF AccountOk
<1> HIDE DEF v, m
<1>6. s.w.backed \in Nat /\ s.me.zerenya \in Nat
  BY <1>2, AccountTypes, WorldTypes
<1>7. IsRebacked(s.w, - x.amt, v)
  BY <1>1, <1>2, <1>3, <1>6 DEF IsRebacked
<1>8. WorldOk(v) /\ Gold(v) = Gold(s.w) /\ Notes(v) = Notes(s.w) + x.amt /\ Excess(v) = Excess(s.w)
  <2>1. /\ WorldOk(v) /\ Gold(v) = Gold(s.w) /\ Notes(v) = Notes(s.w) - (- x.amt)
        /\ Excess(v) = Excess(s.w)
    BY <1>7, Rebacked
  <2>2. Notes(s.w) \in Int
    BY <1>2, WorldTypes
  <2>3. QED
    BY <1>2, <2>1, <2>2
<1>9. /\ WorldOk(u) /\ Gold(u) = Gold(v) /\ Notes(u) = Notes(v) /\ Excess(u) = Excess(v)
      /\ u.acct = v.acct
  BY <1>8, BurnNoted
<1> HIDE DEF u
<1>10. AccountOk(m) /\ Own(m) = Own(s.me)
  BY <1>1, <1>2, <1>5, <1>6 DEF AccountOk, Own, Bonded
<1>11. Notes(u) + m.zerenya = Notes(s.w) + s.me.zerenya
  <2>1. Notes(s.w) \in Int
    BY <1>2, WorldTypes
  <2>2. QED
    BY <1>2, <1>5, <1>6, <1>8, <1>9, <2>1
<1>12. QED
  BY <1>3, <1>4, <1>5, <1>8, <1>9, <1>10, <1>11 DEF Kept, PairOk, SamePurse

\* BridgeSwapAndBurn.
LEMMA SwapAndBurnKeeps ==
    ASSUME NEW s, NEW x, Start(s, x), x.type = "swap_and_burn"
    PROVE  \A o \in BridgeSwapAndBurn(s, x) : Kept(x.from, s, o)
<1> SUFFICES ASSUME NEW o \in BridgeSwapAndBurn(s, x) PROVE Kept(x.from, s, o)
  OBVIOUS
<1>1. PICK p \in VolumeRecorded(s.w, "zagros_in", x.amt, s.w.pool.zagros)
                   \X SellQuote(s.w, x.amt) :
         /\ s.w.backed >= p[2].out
         /\ o = [w |-> BurnRecorded([Distribute(p[1], p[2].fee) EXCEPT !.pool = p[2].pool,
                                                                       !.backed = @ - p[2].out],
                                    x.from, p[2].out),
                 me |-> [s.me EXCEPT !.balance = @ - x.amt]]
  BY DEF BridgeSwapAndBurn
<1> DEFINE v == p[1]
           q == p[2]
           d == Distribute(v, q.fee)
           c == [d EXCEPT !.pool = q.pool]
           r == [d EXCEPT !.pool = q.pool, !.backed = @ - q.out]
           u == BurnRecorded(r, x.from, q.out)
           m == [s.me EXCEPT !.balance = @ - x.amt]
<1>2. /\ v \in VolumeRecorded(s.w, "zagros_in", x.amt, s.w.pool.zagros)
      /\ q \in SellQuote(s.w, x.amt) /\ s.w.backed >= q.out
  BY <1>1
<1>3. DOMAIN o = {"w", "me"} /\ o.w = u /\ o.me = m
  BY <1>1
<1> HIDE DEF v, q
<1>4. /\ x.from \in Addrs /\ WorldOk(s.w) /\ AccountOk(s.me) /\ x.amt \in Nat /\ BlockOk
      /\ s.me.balance >= x.amt
  BY StartTypes DEF Start
<1>5. /\ WorldOk(v) /\ Gold(v) = Gold(s.w) /\ Notes(v) = Notes(s.w) /\ Excess(v) = Excess(s.w)
      /\ v.acct = s.w.acct /\ v.pool = s.w.pool /\ v.backed = s.w.backed
  BY <1>2, <1>4, VolumeNoted
<1>6. /\ q.out \in Nat /\ q.fee \in Nat /\ q.pool \in [zagros: Nat, zerenya: Nat]
      /\ q.pool.zagros + q.fee = s.w.pool.zagros + x.amt
      /\ q.pool.zerenya + q.out = s.w.pool.zerenya
  BY <1>2, <1>4, SellQuoted
<1>7. /\ WorldOk(c) /\ Excess(c) = Excess(v) /\ c.backed = v.backed
      /\ Gold(c) = Gold(v) + q.fee - v.pool.zagros + q.pool.zagros
      /\ Notes(c) = Notes(v) - v.pool.zerenya + q.pool.zerenya
      /\ \A a \in Addrs : SamePurse(v.acct[a], c.acct[a])
  BY <1>4, <1>5, <1>6, SwapClosed
<1>8. WorldOk(d)
  BY <1>4, <1>5, <1>6, Distributed
<1> HIDE DEF d
<1>9. /\ DOMAIN r = DOMAIN c /\ r.acct = c.acct /\ r.pool = c.pool /\ r.treasury = c.treasury
      /\ r.totalStaked = c.totalStaked /\ r.acc = c.acc /\ r.backed = c.backed - q.out
  BY <1>8 DEF WorldOk
<1> HIDE DEF c, r
<1>10. /\ Gold(s.w) \in Int /\ Notes(s.w) \in Int /\ s.w.pool.zagros \in Nat
       /\ s.w.pool.zerenya \in Nat /\ q.pool.zagros \in Nat /\ q.pool.zerenya \in Nat
       /\ s.w.backed \in Nat
  BY <1>4, <1>6, WorldTypes
<1>11. IsRebacked(c, - q.out, r)
  BY <1>2, <1>5, <1>6, <1>7, <1>9, <1>10 DEF IsRebacked
<1>12. /\ WorldOk(r) /\ Gold(r) = Gold(c) /\ Notes(r) = Notes(c) - (- q.out)
       /\ Excess(r) = Excess(c)
  BY <1>11, Rebacked
<1>13. /\ WorldOk(u) /\ Gold(u) = Gold(r) /\ Notes(u) = Notes(r) /\ Excess(u) = Excess(r)
       /\ u.acct = r.acct
  BY <1>12, BurnNoted
<1> HIDE DEF u
<1>14. /\ DOMAIN m = DOMAIN s.me /\ m.balance = s.me.balance - x.amt
       /\ m.zerenya = s.me.zerenya /\ m.staked = s.me.staked
       /\ m.pendingStake = s.me.pendingStake /\ m.unbonding = s.me.unbonding
       /\ m.debt = s.me.debt
  BY <1>4 DEF AccountOk
<1> HIDE DEF m
<1>15. s.me.balance \in Nat /\ m.balance \in Nat
  BY <1>4, <1>14, AccountTypes
<1>16. AccountOk(m) /\ Own(m) = Own(s.me) - x.amt /\ Own(s.me) \in Int
  BY <1>4, <1>14, <1>15, AccountTypes DEF AccountOk, Own, Bonded
<1>17. Gold(u) + Own(m) = Gold(s.w) + Own(s.me)
  <2>1. Gold(c) = Gold(s.w) + x.amt
    BY <1>4, <1>5, <1>6, <1>7, <1>10
  <2>2. QED
    BY <1>4, <1>10, <1>12, <1>13, <1>16, <2>1
<1>18. Notes(u) = Notes(s.w)
  <2>1. Notes(c) = Notes(s.w) - q.out
    BY <1>5, <1>6, <1>7, <1>10
  <2>2. QED
    BY <1>6, <1>10, <1>12, <1>13, <2>1
<1>19. QED
  BY <1>3, <1>4, <1>5, <1>7, <1>9, <1>12, <1>13, <1>14, <1>16, <1>17, <1>18 DEF Kept, PairOk

\* BridgeMint: the recipient is never the authority that sends it.
LEMMA MintKeeps ==
    ASSUME NEW s, NEW x, Start(s, x)
    PROVE  \A o \in BridgeMint(s, x) : Kept(x.from, s, o)
<1> SUFFICES ASSUME NEW o \in BridgeMint(s, x) PROVE Kept(x.from, s, o)
  OBVIOUS
<1>1. PICK v \in DailyMintRecorded(s.w, x.amt) :
         /\ MintValid(s, x, FALSE)
         /\ o = [s EXCEPT !.w = [v EXCEPT !.acct[x.to].zerenya = @ + x.amt, !.backed = @ + x.amt,
                                          !.processed = @ \cup {x.ref.source}]]
  BY DEF BridgeMint
<1> DEFINE k == v.acct[x.to]
           n == [k EXCEPT !.zerenya = @ + x.amt]
           u == [v EXCEPT !.acct[x.to].zerenya = @ + x.amt, !.backed = @ + x.amt,
                          !.processed = @ \cup {x.ref.source}]
<1>2. /\ x.from \in Addrs /\ x.to \in Addrs /\ WorldOk(s.w) /\ AccountOk(s.me) /\ x.amt \in Nat
      /\ PairOk(s)
  BY StartTypes
<1>3. x.to # x.from
  BY <1>1 DEF MintValid
<1>4. DOMAIN o = {"w", "me"} /\ o.w = u /\ o.me = s.me
  BY <1>1, <1>2 DEF PairOk
<1>5. /\ WorldOk(v) /\ Gold(v) = Gold(s.w) /\ Notes(v) = Notes(s.w) /\ Excess(v) = Excess(s.w)
      /\ v.acct = s.w.acct
  BY <1>2, MintNoted
<1>6. /\ DOMAIN u = DOMAIN v /\ u.acct = [v.acct EXCEPT ![x.to] = n] /\ u.pool = v.pool
      /\ u.treasury = v.treasury /\ u.totalStaked = v.totalStaked /\ u.acc = v.acc
      /\ u.backed = v.backed + x.amt
  BY <1>5 DEF WorldOk
<1> HIDE DEF u
<1>7. AccountOk(k)
  BY <1>2, <1>5, WorldTypes
<1> HIDE DEF k
<1>8. /\ DOMAIN n = DOMAIN k /\ n.balance = k.balance /\ n.zerenya = k.zerenya + x.amt
      /\ n.staked = k.staked /\ n.pendingStake = k.pendingStake /\ n.unbonding = k.unbonding
      /\ n.debt = k.debt
  BY <1>7 DEF AccountOk
<1> HIDE DEF n
<1>9. /\ k.zerenya \in Nat /\ k.staked \in Nat /\ Own(k) \in Nat
      /\ v.treasury \in Nat /\ v.totalStaked \in Nat /\ v.acc \in Nat /\ v.backed \in Nat
      /\ v.pool \in [zagros: Nat, zerenya: Nat] /\ v.pool.zagros \in Nat /\ v.pool.zerenya \in Nat
      /\ Gold(v) \in Int /\ Notes(v) \in Int /\ Excess(v) \in Int
  BY <1>5, <1>7, AccountTypes, WorldTypes DEF WorldOk
<1>10. AccountOk(n) /\ Own(n) = Own(k)
  BY <1>2, <1>7, <1>8, <1>9 DEF AccountOk, Own, Bonded
<1>11. u.backed \in Nat
  BY <1>2, <1>6, <1>9
<1>12. IsRewrite(v, x.to, n, u)
  BY <1>2, <1>5, <1>6, <1>9, <1>10, <1>11 DEF IsRewrite
<1>13. /\ WorldOk(u) /\ \A a \in Addrs \ {x.to} : u.acct[a] = v.acct[a]
       /\ Gold(u) = Gold(v) - Own(k) + Own(n)
                    - v.treasury - v.pool.zagros + u.treasury + u.pool.zagros
       /\ Notes(u) = Notes(v) - k.zerenya + n.zerenya
                     - v.pool.zerenya + v.backed + u.pool.zerenya - u.backed
       /\ Excess(u) = Excess(v) - k.staked + n.staked + v.totalStaked - u.totalStaked
  BY <1>12, Rewritten DEF k
<1>14. Gold(u) = Gold(v) /\ Excess(u) = Excess(v)
  BY <1>6, <1>8, <1>9, <1>10, <1>13
<1>15. Notes(u) = Notes(v)
  BY <1>2, <1>6, <1>8, <1>9, <1>13
<1>16. u.acct[x.from] = s.w.acct[x.from]
  BY <1>2, <1>3, <1>5, <1>13
<1>17. QED
  BY <1>2, <1>4, <1>5, <1>13, <1>14, <1>15, <1>16 DEF Kept, PairOk, SamePurse

\* BridgeMintAndSwap: the notes minted go to the pool.
LEMMA MintAndSwapKeeps ==
    ASSUME NEW s, NEW x, Start(s, x)
    PROVE  \A o \in BridgeMintAndSwap(s, x) : Kept(x.from, s, o)
<1> SUFFICES ASSUME NEW o \in BridgeMintAndSwap(s, x) PROVE Kept(x.from, s, o)
  OBVIOUS
<1>1. PICK p \in (UNION {VolumeRecorded(day, "zerenya_in", x.amt, day.pool.zerenya) :
                            day \in DailyMintRecorded(s.w, x.amt)}) \X BuyQuote(s.w, x.amt) :
         o = [s EXCEPT !.w = [Distribute([p[1] EXCEPT !.acct[x.to].balance = @ + p[2].out,
                                                      !.backed = @ + x.amt], p[2].fee)
                                 EXCEPT !.pool = p[2].pool,
                                        !.processed = @ \cup {x.ref.source}]]
  BY DEF BridgeMintAndSwap
<1> DEFINE v == p[1]
           q == p[2]
           c == [v EXCEPT !.acct[x.to] = [v.acct[x.to] EXCEPT !.balance = @ + q.out]]
           r == [v EXCEPT !.acct[x.to].balance = @ + q.out, !.backed = @ + x.amt]
           d == Distribute(r, q.fee)
           e == [d EXCEPT !.pool = q.pool]
           u == [d EXCEPT !.pool = q.pool, !.processed = @ \cup {x.ref.source}]
<1>2. /\ x.from \in Addrs /\ x.to \in Addrs /\ WorldOk(s.w) /\ AccountOk(s.me) /\ x.amt \in Nat
      /\ PairOk(s) /\ BlockOk
  BY StartTypes DEF Start
<1>3. q \in BuyQuote(s.w, x.amt)
  BY <1>1
<1>4. PICK day \in DailyMintRecorded(s.w, x.amt) :
         v \in VolumeRecorded(day, "zerenya_in", x.amt, day.pool.zerenya)
  BY <1>1
<1>5. DOMAIN o = {"w", "me"} /\ o.w = u /\ o.me = s.me
  BY <1>1, <1>2 DEF PairOk
<1> HIDE DEF v, q
<1>6. /\ WorldOk(v) /\ Gold(v) = Gold(s.w) /\ Notes(v) = Notes(s.w) /\ Excess(v) = Excess(s.w)
      /\ v.acct = s.w.acct /\ v.pool = s.w.pool
  <2>1. /\ WorldOk(day) /\ Gold(day) = Gold(s.w) /\ Notes(day) = Notes(s.w)
        /\ Excess(day) = Excess(s.w) /\ day.acct = s.w.acct /\ day.pool = s.w.pool
    BY <1>2, MintNoted
  <2>2. /\ WorldOk(v) /\ Gold(v) = Gold(day) /\ Notes(v) = Notes(day) /\ Excess(v) = Excess(day)
        /\ v.acct = day.acct /\ v.pool = day.pool
    BY <1>4, <2>1, VolumeNoted
  <2>3. QED
    BY <2>1, <2>2
<1>7. /\ q.out \in Nat /\ q.fee \in Nat /\ q.pool \in [zagros: Nat, zerenya: Nat]
      /\ q.pool.zagros + q.out + q.fee = s.w.pool.zagros
      /\ q.pool.zerenya = s.w.pool.zerenya + x.amt
  BY <1>2, <1>3, BuyQuoted
<1>8. /\ WorldOk(c) /\ c.pool = v.pool /\ Gold(c) = Gold(v) + q.out /\ Notes(c) = Notes(v)
      /\ Excess(c) = Excess(v) /\ \A a \in Addrs : SamePurse(v.acct[a], c.acct[a])
  <2> DEFINE k == q.out
  <2>1. WorldOk(v) /\ x.to \in Addrs /\ k \in Nat
    BY <1>2, <1>6, <1>7
  <2>2. c = [v EXCEPT !.acct[x.to] = [v.acct[x.to] EXCEPT !.balance = @ + k]]
    OBVIOUS
  <2> HIDE DEF c, k
  <2>3. LET i == [v EXCEPT !.acct[x.to] = [v.acct[x.to] EXCEPT !.balance = @ + k]]
        IN  /\ WorldOk(i) /\ i.pool = v.pool /\ i.treasury = v.treasury
            /\ i.totalStaked = v.totalStaked /\ i.acc = v.acc /\ i.backed = v.backed
            /\ Gold(i) = Gold(v) + k /\ Notes(i) = Notes(v) /\ Excess(i) = Excess(v)
            /\ \A a \in Addrs : SamePurse(v.acct[a], i.acct[a])
    BY <2>1, Credited
  <2>4. QED
    BY <2>2, <2>3, Zenon DEF k
<1>9. /\ DOMAIN r = DOMAIN c /\ r.acct = c.acct /\ r.pool = c.pool /\ r.treasury = c.treasury
      /\ r.totalStaked = c.totalStaked /\ r.acc = c.acc /\ r.backed = c.backed + x.amt
  BY <1>6 DEF WorldOk
<1> HIDE DEF c, r
<1>10. c.backed \in Nat
  BY <1>8, WorldTypes
<1>11. IsRebacked(c, x.amt, r)
  BY <1>2, <1>8, <1>9, <1>10 DEF IsRebacked
<1>12. WorldOk(r) /\ Gold(r) = Gold(c) /\ Notes(r) = Notes(c) - x.amt /\ Excess(r) = Excess(c)
  BY <1>11, Rebacked
<1>13. /\ WorldOk(e) /\ Excess(e) = Excess(r)
       /\ Gold(e) = Gold(r) + q.fee - r.pool.zagros + q.pool.zagros
       /\ Notes(e) = Notes(r) - r.pool.zerenya + q.pool.zerenya
       /\ \A a \in Addrs : SamePurse(r.acct[a], e.acct[a])
  BY <1>2, <1>7, <1>12, SwapClosed
<1>14. WorldOk(d)
  BY <1>2, <1>7, <1>12, Distributed
<1> HIDE DEF d
<1>15. /\ DOMAIN u = DOMAIN e /\ u.acct = e.acct /\ u.pool = e.pool /\ u.treasury = e.treasury
       /\ u.totalStaked = e.totalStaked /\ u.acc = e.acc /\ u.backed = e.backed
  BY <1>14 DEF WorldOk
<1> HIDE DEF e, u
<1>16. WorldOk(u) /\ Gold(u) = Gold(e) /\ Notes(u) = Notes(e) /\ Excess(u) = Excess(e)
  BY <1>13, <1>15, SameMoney
<1>17. /\ Gold(s.w) \in Int /\ Notes(s.w) \in Int /\ s.w.pool.zagros \in Nat
       /\ s.w.pool.zerenya \in Nat /\ q.pool.zagros \in Nat /\ q.pool.zerenya \in Nat
  BY <1>2, <1>7, WorldTypes
<1>18. Gold(u) = Gold(s.w)
  <2>1. Gold(e) = Gold(s.w) + q.out + q.fee - s.w.pool.zagros + q.pool.zagros
    BY <1>6, <1>8, <1>9, <1>12, <1>13
  <2>2. QED
    BY <1>7, <1>16, <1>17, <2>1
<1>19. Notes(u) = Notes(s.w)
  <2>1. Notes(e) = Notes(s.w) - x.amt - s.w.pool.zerenya + q.pool.zerenya
    BY <1>6, <1>8, <1>9, <1>12, <1>13
  <2>2. QED
    BY <1>2, <1>7, <1>16, <1>17, <2>1
<1>20. SamePurse(s.w.acct[x.from], u.acct[x.from])
  BY <1>2, <1>6, <1>8, <1>9, <1>13, <1>15 DEF SamePurse
<1>21. QED
  BY <1>2, <1>5, <1>6, <1>8, <1>12, <1>13, <1>16, <1>18, <1>19, <1>20 DEF Kept, PairOk

-----------------------------------------------------------------------------
(* The transaction around its arm. *)

\* Every arm keeps the books.
LEMMA ArmKeeps ==
    ASSUME NEW s, NEW x, Start(s, x)
    PROVE  \A o \in Arm(s, x) : Kept(x.from, s, o)
<1>1. x.type \in TxTypes
  BY StartTypes
<1>2. CASE x.type = "transfer"
  BY <1>2, TransferKeeps DEF Arm
<1>3. CASE x.type = "buy"
  BY <1>3, SwapBuyKeeps DEF Arm
<1>4. CASE x.type = "sell"
  BY <1>4, SwapSellKeeps DEF Arm
<1>5. CASE x.type = "stake"
  BY <1>5, StakeKeeps DEF Arm
<1>6. CASE x.type = "unstake"
  BY <1>6, UnstakeKeeps DEF Arm
<1>7. CASE x.type = "claim"
  BY <1>7, ClaimKeeps DEF Arm
<1>8. CASE x.type = "slash"
  BY <1>8, SlashKeeps DEF Arm
<1>9. CASE x.type = "report"
  BY <1>9, ReportKeeps DEF Arm
<1>10. CASE x.type = "unregister"
  BY <1>10, UnregisterKeeps DEF Arm
<1>11. CASE x.type = "mint"
  BY <1>11, MintKeeps DEF Arm
<1>12. CASE x.type = "mint_and_swap"
  BY <1>12, MintAndSwapKeeps DEF Arm
<1>13. CASE x.type = "burn"
  BY <1>13, BurnKeeps DEF Arm
<1>14. CASE x.type = "swap_and_burn"
  BY <1>14, SwapAndBurnKeeps DEF Arm
<1>15. QED
  BY <1>1, <1>2, <1>3, <1>4, <1>5, <1>6, <1>7, <1>8, <1>9, <1>10, <1>11, <1>12, <1>13, <1>14
     DEF TxTypes

\* The books balance: what is in circulation, what the fees have gathered and what the last
\* writes took back is what genesis gave; no total departs from what it totals.
LedgerInv ==
    /\ WorldOk(w) /\ gas \in Nat /\ lost \in Int /\ BlockOk
    /\ Gold(w) + gas + lost = Gold(Genesis)
    /\ Notes(w) = Notes(Genesis)
    /\ Excess(w) = 0

\* They balance as long as nothing that they count has changed.
LEMMA LedgerSame ==
    ASSUME LedgerInv, w' = w, UNCHANGED <<gas, lost, block>>
    PROVE  LedgerInv'
<1>1. gas' = gas /\ lost' = lost /\ producer' = producer /\ factor' = factor
  BY DEF block
<1>2. BlockOk'
  BY <1>1 DEF LedgerInv, BlockOk
<1>3. WorldOk(w') /\ Gold(w') = Gold(w) /\ Notes(w') = Notes(w) /\ Excess(w') = Excess(w)
  BY DEF LedgerInv
<1>4. QED
  BY <1>1, <1>2, <1>3 DEF LedgerInv

\* An account is charged a fee and its nonce moves.
LEMMA Charged ==
    ASSUME NEW m, AccountOk(m), NEW k \in Nat, k <= m.balance
    PROVE  LET n == [m EXCEPT !.nonce = @ + 1, !.balance = @ - k]
           IN  /\ AccountOk(n) /\ Own(n) = Own(m) - k /\ n.zerenya = m.zerenya
               /\ n.staked = m.staked
<1> DEFINE n == [m EXCEPT !.nonce = @ + 1, !.balance = @ - k]
<1>1. /\ DOMAIN n = DOMAIN m /\ n.balance = m.balance - k /\ n.zerenya = m.zerenya
      /\ n.staked = m.staked /\ n.pendingStake = m.pendingStake
      /\ n.unbonding = m.unbonding /\ n.debt = m.debt
  BY DEF AccountOk
<1> HIDE DEF n
<1>2. m.balance \in Nat
  BY AccountTypes
<1>3. AccountOk(n) /\ Own(n) = Own(m) - k
  BY <1>1, <1>2, AccountTypes DEF AccountOk, Own, Bonded
<1>4. QED
  BY <1>1, <1>3 DEF n

\* What a transaction's arm starts with.
LEMMA Outcome ==
    ASSUME LedgerInv, NEW x \in Txs, NEW s \in Outcomes(x)
    PROVE  LET first == [w |-> w, me |-> w.acct[x.from]]
           IN  Start(first, x) /\ s \in Arm(first, x)
<1> DEFINE first == [w |-> w, me |-> w.acct[x.from]]
<1>1. first.me.balance \in Nat /\ Required(x) \in Nat
  <2>1. x.amt \in Nat /\ x.fee \in Nat /\ x.from \in Addrs
    BY TxsAre
  <2>2. Required(x) \in Nat
    BY <2>1 DEF Required, Fee
  <2>3. AccountOk(w.acct[x.from])
    BY <2>1, WorldTypes DEF LedgerInv
  <2>4. QED
    BY <2>2, <2>3, AccountTypes
<1>2. Outcomes(x) = IF first.me.balance < Required(x) THEN {} ELSE Arm(first, x)
  BY DEF Outcomes
<1>3. DOMAIN first = {"w", "me"} /\ first.w = w /\ first.me = w.acct[x.from]
  OBVIOUS
<1> HIDE DEF first
<1>4. s \in Arm(first, x) /\ first.me.balance >= Required(x)
  BY <1>1, <1>2
<1>5. Start(first, x)
  BY <1>3, <1>4 DEF Start, LedgerInv
<1>6. QED
  BY <1>4, <1>5 DEF first

\* The last write of an arm, and its fee.
LEMMA SucceedKeeps ==
    ASSUME LedgerInv, NEW x \in Txs, Admitted(x), NEW s \in Outcomes(x), Succeed(x, s),
           UNCHANGED block
    PROVE  LedgerInv'
<1> DEFINE b == x.from
           old == w.acct[b]
           over == s.w.acct[b]
           first == [w |-> w, me |-> old]
           charged == Min({Fee(x), s.me.balance})
           n == [s.me EXCEPT !.nonce = @ + 1, !.balance = @ - charged]
<1>1. /\ w' = [s.w EXCEPT !.acct[b] = n] /\ gas' = gas + charged
      /\ lost' = lost + (over.balance - old.balance)
  BY DEF Succeed
<1>2. Start(first, x) /\ s \in Arm(first, x)
  BY Outcome
<1>3. Kept(b, first, s)
  BY <1>2, ArmKeeps
<1>4. first.w = w /\ first.me = old
  OBVIOUS
<1> HIDE DEF first, charged, n
<1>5. /\ WorldOk(s.w) /\ AccountOk(s.me) /\ b \in Addrs /\ Fee(x) \in Nat
      /\ Gold(s.w) + Own(s.me) = Gold(w) + Own(old)
      /\ Notes(s.w) + s.me.zerenya = Notes(w) + old.zerenya
      /\ Excess(s.w) + s.me.staked = Excess(w) + old.staked
      /\ SamePurse(old, over)
  BY <1>2, <1>3, <1>4, StartTypes DEF Kept, PairOk
<1>6. charged \in Nat /\ charged <= s.me.balance
  <2>1. s.me.balance \in Nat
    BY <1>5, AccountTypes
  <2>2. charged = IF Fee(x) <= s.me.balance THEN Fee(x) ELSE s.me.balance
    BY <1>5, <2>1, MinOfTwo DEF charged
  <2>3. QED
    BY <1>5, <2>1, <2>2
<1>7. AccountOk(n) /\ Own(n) = Own(s.me) - charged /\ n.zerenya = s.me.zerenya
      /\ n.staked = s.me.staked
  BY <1>5, <1>6, Charged DEF n
<1>8. /\ WorldOk(w') /\ Gold(w') = Gold(s.w) - Own(over) + Own(n)
      /\ Notes(w') = Notes(s.w) - over.zerenya + n.zerenya
      /\ Excess(w') = Excess(s.w) - over.staked + n.staked
  BY <1>1, <1>5, <1>7, Written
<1>9. AccountOk(old) /\ AccountOk(over) /\ WorldOk(w)
  BY <1>5, WorldTypes DEF LedgerInv
<1>10. /\ Own(old) \in Int /\ Own(over) \in Int /\ Own(s.me) \in Int /\ old.balance \in Int
       /\ over.balance \in Int /\ old.zerenya \in Int /\ old.staked \in Int
       /\ s.me.zerenya \in Int /\ s.me.staked \in Int
       /\ Gold(w) \in Int /\ Notes(w) \in Int /\ Excess(w) \in Int
       /\ Gold(s.w) \in Int /\ Notes(s.w) \in Int /\ Excess(s.w) \in Int
  BY <1>5, <1>9, AccountTypes, WorldTypes
<1>11. Own(over) - Own(old) = over.balance - old.balance
  <2>1. /\ over.staked = old.staked /\ over.pendingStake = old.pendingStake
        /\ over.unbonding = old.unbonding
    BY <1>5 DEF SamePurse
  <2>2. Bonded(over) = Bonded(old) /\ Bonded(old) \in Int
    BY <1>9, <2>1, AccountTypes DEF Bonded
  <2>3. QED
    BY <1>10, <2>2 DEF Own
<1>12. over.zerenya = old.zerenya /\ over.staked = old.staked
  BY <1>5 DEF SamePurse
<1> HIDE DEF old, over
<1>13. gas \in Nat /\ lost \in Int /\ Gold(w) + gas + lost = Gold(Genesis)
       /\ Notes(w) = Notes(Genesis) /\ Excess(w) = 0
  BY DEF LedgerInv
<1>14. gas' \in Nat /\ lost' \in Int
  BY <1>1, <1>6, <1>10, <1>13
<1>15. Gold(w') + gas' + lost' = Gold(Genesis)
  <2>1. Gold(w') = Gold(w) - (over.balance - old.balance) - charged
    BY <1>5, <1>6, <1>7, <1>8, <1>10, <1>11
  <2>2. QED
    BY <1>1, <1>6, <1>10, <1>13, <2>1
<1>16. Notes(w') = Notes(Genesis) /\ Excess(w') = 0
  <2>1. Notes(w') = Notes(s.w) - old.zerenya + s.me.zerenya
    BY <1>7, <1>8, <1>12
  <2>2. \A i, j, k, l \in Int : i + j = k + l => i - l + j = k
    OBVIOUS
  <2>3. Notes(w') = Notes(w)
    <3>1. Notes(s.w) + s.me.zerenya = Notes(w) + old.zerenya
      BY <1>5
    <3>2. /\ Notes(s.w) \in Int /\ s.me.zerenya \in Int
          /\ Notes(w) \in Int /\ old.zerenya \in Int
      BY <1>10
    <3>3. Notes(s.w) - old.zerenya + s.me.zerenya = Notes(w)
      BY <2>2, <3>1, <3>2
    <3>4. QED
      BY <2>1, <3>3
  <2>4. Excess(w') = Excess(s.w) - old.staked + s.me.staked
    BY <1>7, <1>8, <1>12
  <2>5. Excess(w') = Excess(w)
    <3>1. Excess(s.w) + s.me.staked = Excess(w) + old.staked
      BY <1>5
    <3>2. Excess(s.w) - old.staked + s.me.staked = Excess(w)
      BY <1>10, <2>2, <3>1
    <3>3. QED
      BY <2>4, <3>2
  <2>6. QED
    BY <1>13, <2>3, <2>5
<1>17. BlockOk'
  BY DEF BlockOk, LedgerInv, block
<1>18. QED
  BY <1>8, <1>14, <1>15, <1>16, <1>17 DEF LedgerInv

\* A transaction whose arm returned Err.
LEMMA FailKeeps ==
    ASSUME LedgerInv, NEW x \in Txs, Admitted(x), Fail(x), UNCHANGED block
    PROVE  LedgerInv'
<1> DEFINE b == x.from
           old == w.acct[b]
           n == [old EXCEPT !.nonce = @ + 1, !.balance = @ - Fee(x)]
<1>1. b \in Addrs /\ Fee(x) \in Nat
  BY TxsAre DEF Fee
<1>2. AccountOk(old) /\ WorldOk(w)
  BY <1>1, WorldTypes DEF LedgerInv
<1>3. Fee(x) <= old.balance
  <2>1. old.balance \in Nat /\ old.balance >= Fee(x)
    BY <1>2, AccountTypes DEF Admitted
  <2>2. QED
    BY <1>1, <2>1
<1>4. gas' = gas + Fee(x) /\ lost' = lost
  BY DEF Fail
<1>5. w' = [w EXCEPT !.acct[b] = n]
  <2>1. w' = [w EXCEPT !.acct[b].nonce = @ + 1, !.acct[b].balance = @ - Fee(x)]
    BY DEF Fail
  <2>2. DOMAIN w.acct = Addrs /\ "acct" \in DOMAIN w
    BY <1>2 DEF WorldOk
  <2>3. QED
    BY <1>1, <2>1, <2>2
<1>6. AccountOk(n) /\ Own(n) = Own(old) - Fee(x) /\ n.zerenya = old.zerenya
      /\ n.staked = old.staked
  BY <1>1, <1>2, <1>3, Charged
<1> HIDE DEF n
<1>7. /\ WorldOk(w') /\ Gold(w') = Gold(w) - Own(old) + Own(n)
      /\ Notes(w') = Notes(w) - old.zerenya + n.zerenya
      /\ Excess(w') = Excess(w) - old.staked + n.staked
  BY <1>1, <1>2, <1>5, <1>6, Written
<1>8. /\ Own(old) \in Int /\ old.zerenya \in Int /\ old.staked \in Int
      /\ Gold(w) \in Int /\ Notes(w) \in Int /\ Excess(w) \in Int
  BY <1>2, AccountTypes, WorldTypes
<1> HIDE DEF old
<1>9. gas \in Nat /\ lost \in Int /\ Gold(w) + gas + lost = Gold(Genesis)
      /\ Notes(w) = Notes(Genesis) /\ Excess(w) = 0
  BY DEF LedgerInv
<1>10. gas' \in Nat /\ lost' \in Int /\ Gold(w') + gas' + lost' = Gold(Genesis)
  BY <1>1, <1>4, <1>6, <1>7, <1>8, <1>9
<1>11. Notes(w') = Notes(Genesis) /\ Excess(w') = 0
  BY <1>6, <1>7, <1>8, <1>9
<1>12. BlockOk'
  BY DEF BlockOk, LedgerInv, block
<1>13. QED
  BY <1>7, <1>10, <1>11, <1>12 DEF LedgerInv

\* The end of a block gives its gas to the stakers.
LEMMA SealKeeps ==
    ASSUME LedgerInv, NEW p \in Producers, NEW f \in Factors, NEW t, SealBlock(p, f, t)
    PROVE  LedgerInv'
<1>1. /\ w' = Distribute(w, gas) /\ gas' = 0 /\ lost' = lost /\ producer' = p /\ factor' = f
  BY DEF SealBlock
<1>2. WorldOk(w) /\ gas \in Nat /\ BlockOk
  BY DEF LedgerInv
<1>3. /\ WorldOk(w') /\ Gold(w') = Gold(w) + gas /\ Notes(w') = Notes(w)
      /\ Excess(w') = Excess(w)
  BY <1>1, <1>2, Distributed
<1>4. /\ Gold(w) \in Int /\ lost \in Int /\ Gold(w) + gas + lost = Gold(Genesis)
      /\ Notes(w) = Notes(Genesis) /\ Excess(w) = 0
  BY <1>2, WorldTypes DEF LedgerInv
<1>5. Gold(w') + gas' + lost' = Gold(Genesis)
  BY <1>1, <1>2, <1>3, <1>4
<1>6. BlockOk'
  BY <1>1, ProducersAre DEF BlockOk
<1>7. QED
  BY <1>1, <1>3, <1>4, <1>5, <1>6 DEF LedgerInv

\* Genesis balances.
LEMMA LedgerStarts == Init => LedgerInv
<1> SUFFICES ASSUME Init PROVE LedgerInv
  OBVIOUS
<1>1. WorldOk(Genesis)
  BY GenesisAssumption
<1>2. Gold(Genesis) \in Int /\ Genesis.totalStaked \in Nat /\ AccountsOk(Genesis.acct)
  BY <1>1, WorldTypes
<1>3. Genesis.totalStaked = Stakes(Genesis.acct) /\ Stakes(Genesis.acct) \in Nat
  BY <1>2, GenesisAssumption, BooksAre, BooksTyped
<1>4. Excess(Genesis) = 0
  BY <1>3 DEF Excess
<1>5. /\ w = Genesis /\ gas = 0 /\ lost = 0 /\ producer = Nobody /\ factor = 10000
  BY DEF Init
<1>6. QED
  BY <1>1, <1>2, <1>4, <1>5 DEF LedgerInv, BlockOk

\* A step of the ledger keeps the books.
LEMMA LedgerKeeps ==
    ASSUME LedgerInv, [Next]_vars
    PROVE  LedgerInv'
<1>1. CASE \E x \in Txs : Apply(x)
  <2>1. PICK x \in Txs : Apply(x)
    BY <1>1
  <2>2. Admitted(x) /\ UNCHANGED block
    BY <2>1 DEF Apply
  <2>3. CASE \E s \in Outcomes(x) : Succeed(x, s)
    BY <2>2, <2>3, SucceedKeeps
  <2>4. CASE Fail(x)
    BY <2>2, <2>4, FailKeeps
  <2>5. QED
    BY <2>1, <2>3, <2>4 DEF Apply
<1>2. CASE \E p \in Producers, f \in Factors, t \in Times : t > now /\ SealBlock(p, f, t)
  BY <1>2, SealKeeps
<1>3. CASE UNCHANGED vars
  BY <1>3 DEF LedgerInv, BlockOk, vars
<1>4. QED
  BY <1>1, <1>2, <1>3 DEF Next

\* What balances accounts for the supply, totals the stakes and backs the notes.
LEMMA SupplyOf == LedgerInv => SupplyAccounted
BY BooksAre DEF LedgerInv, SupplyAccounted

\* The total is what the accounts have staked.
LEMMA StakesTotalled == LedgerInv => TotalStakedExact
<1> SUFFICES ASSUME LedgerInv PROVE TotalStakedExact
  OBVIOUS
<1>1. WorldOk(w) /\ Excess(w) = 0
  BY DEF LedgerInv
<1>2. w.totalStaked \in Nat /\ Stakes(w.acct) \in Nat
  BY <1>1, WorldTypes, BooksTyped
<1>3. w.totalStaked = Stakes(w.acct)
  BY <1>1, <1>2 DEF Excess
<1>4. QED
  BY <1>3, BooksAre DEF TotalStakedExact

\* What circulates beyond genesis is backed.
LEMMA NotesBacked == LedgerInv => ZerenyaBacked
<1>1. ASSUME NEW wd, WorldOk(wd) PROVE Zerenya(wd) - wd.backed = Notes(wd)
  <2>1. /\ Tokens(wd.acct) \in Nat /\ wd.pool.zerenya \in Nat /\ wd.backed \in Nat
    BY <1>1, WorldTypes, BooksTyped
  <2>2. Zerenya(wd) = Tokens(wd.acct) + wd.pool.zerenya
    BY BooksAre
  <2>3. QED
    BY <2>1, <2>2 DEF Notes
<1>2. QED
  BY <1>1, GenesisAssumption DEF LedgerInv, ZerenyaBacked

\* Every transaction and every sealed block keeps the books of genesis.
THEOREM LedgerInvariant == Spec => []LedgerInv
  BY LedgerStarts, LedgerKeeps, PTL DEF Spec


-----------------------------------------------------------------------------
(* The interceptor's frames. *)

\* A view as the frame that undoes it would have found it.
Undone(v, f) ==
    [acct |-> [a \in Addrs |-> IF a \in DOMAIN f.acct THEN f.acct[a] ELSE v.acct[a]],
     transfers |-> {i \in v.transfers \cup DOMAIN f.transfers :
                       i \in DOMAIN f.transfers => f.transfers[i]}]

IsHeld(h) == h = [zerenya |-> h.zerenya, allow |-> h.allow] /\ h.zerenya \in Nat

FrameOk(f) ==
    DOMAIN f.acct \subseteq Addrs /\ \A a \in DOMAIN f.acct : IsHeld(f.acct[a])

ViewOk(v) ==
    /\ v = [acct |-> v.acct, transfers |-> v.transfers]
    /\ v.acct = [a \in Addrs |-> v.acct[a]] /\ \A a \in Addrs : IsHeld(v.acct[a])

\* The view of a world holds what its accounts hold.
LEMMA HeldOk ==
    ASSUME NEW wd, WorldOk(wd)
    PROVE  /\ ViewOk(View(wd)) /\ View(wd).transfers = wd.transfers
           /\ \A a \in Addrs : /\ IsHeld(Held(wd, a)) /\ View(wd).acct[a] = Held(wd, a)
                               /\ Held(wd, a).zerenya = wd.acct[a].zerenya
                               /\ Held(wd, a).allow = wd.acct[a].allow
<1>1. \A a \in Addrs : wd.acct[a].zerenya \in Nat
  BY AccountTypes DEF WorldOk
<1>2. \A a \in Addrs : /\ Held(wd, a).zerenya = wd.acct[a].zerenya
                       /\ Held(wd, a).allow = wd.acct[a].allow
  BY DEF Held
<1>3. \A a \in Addrs : IsHeld(Held(wd, a))
  BY <1>1 DEF IsHeld, Held
<1>4. /\ View(wd).transfers = wd.transfers /\ View(wd).acct = [a \in Addrs |-> Held(wd, a)]
      /\ View(wd) = [acct |-> View(wd).acct, transfers |-> View(wd).transfers]
  BY DEF View
<1>5. QED
  BY <1>2, <1>3, <1>4 DEF ViewOk

\* Undoing a frame leaves a view.
LEMMA UndoneOk ==
    ASSUME NEW v, ViewOk(v), NEW f, FrameOk(f)
    PROVE  ViewOk(Undone(v, f))
<1> DEFINE u == Undone(v, f)
<1>1. /\ u.acct = [a \in Addrs |-> IF a \in DOMAIN f.acct THEN f.acct[a] ELSE v.acct[a]]
      /\ u = [acct |-> u.acct, transfers |-> u.transfers]
  BY DEF Undone
<1> HIDE DEF u
<1>2. \A a \in Addrs : u.acct[a] = IF a \in DOMAIN f.acct THEN f.acct[a] ELSE v.acct[a]
  BY <1>1
<1>3. \A a \in Addrs : IsHeld(u.acct[a])
  BY <1>2 DEF ViewOk, FrameOk
<1>4. u.acct = [a \in Addrs |-> u.acct[a]]
  BY <1>1
<1>5. ViewOk(u)
  BY <1>1, <1>3, <1>4 DEF ViewOk
<1>6. QED
  BY <1>5 DEF u

\* A frame that has touched nothing undoes nothing.
LEMMA UndoneNew ==
    ASSUME NEW v, ViewOk(v)
    PROVE  FrameOk(NewFrame) /\ Undone(v, NewFrame) = v
<1>1. DOMAIN NewFrame.acct = {} /\ DOMAIN NewFrame.transfers = {}
  BY DEF NewFrame
<1>2. [a \in Addrs |-> IF a \in DOMAIN NewFrame.acct THEN NewFrame.acct[a] ELSE v.acct[a]] = v.acct
  BY <1>1 DEF ViewOk
<1>3. {i \in v.transfers \cup DOMAIN NewFrame.transfers :
         i \in DOMAIN NewFrame.transfers => NewFrame.transfers[i]} = v.transfers
  BY <1>1
<1>4. Undone(v, NewFrame) = [acct |-> v.acct, transfers |-> v.transfers]
  BY <1>2, <1>3 DEF Undone
<1>5. QED
  BY <1>1, <1>4 DEF FrameOk, ViewOk

\* Undoing a frame merged into its parent is undoing the one and then the other.
LEMMA UndoneMerged ==
    ASSUME NEW v, ViewOk(v), NEW f, FrameOk(f), NEW g, FrameOk(g)
    PROVE  FrameOk(Merged(f, g)) /\ Undone(v, Merged(f, g)) = Undone(Undone(v, g), f)
<1> DEFINE h == Merged(f, g)
           u == Undone(v, g)
<1>1. /\ DOMAIN h.acct = DOMAIN f.acct \cup DOMAIN g.acct
      /\ DOMAIN h.transfers = DOMAIN f.transfers \cup DOMAIN g.transfers
      /\ \A a \in DOMAIN h.acct : h.acct[a] = IF a \in DOMAIN f.acct THEN f.acct[a] ELSE g.acct[a]
      /\ \A i \in DOMAIN h.transfers :
            h.transfers[i] = IF i \in DOMAIN f.transfers THEN f.transfers[i] ELSE g.transfers[i]
  BY DEF Merged, Over
<1>2. /\ u.acct = [a \in Addrs |-> IF a \in DOMAIN g.acct THEN g.acct[a] ELSE v.acct[a]]
      /\ u.transfers = {i \in v.transfers \cup DOMAIN g.transfers :
                           i \in DOMAIN g.transfers => g.transfers[i]}
  BY DEF Undone
<1> HIDE DEF h, u
<1>3. FrameOk(h)
  BY <1>1 DEF FrameOk
<1>4. [a \in Addrs |-> IF a \in DOMAIN h.acct THEN h.acct[a] ELSE v.acct[a]]
          = [a \in Addrs |-> IF a \in DOMAIN f.acct THEN f.acct[a] ELSE u.acct[a]]
  <2>1. \A a \in Addrs : (IF a \in DOMAIN h.acct THEN h.acct[a] ELSE v.acct[a])
                            = IF a \in DOMAIN f.acct THEN f.acct[a] ELSE u.acct[a]
    BY <1>1, <1>2
  <2>2. QED
    BY <2>1
<1>5. {i \in v.transfers \cup DOMAIN h.transfers : i \in DOMAIN h.transfers => h.transfers[i]}
          = {i \in u.transfers \cup DOMAIN f.transfers :
                i \in DOMAIN f.transfers => f.transfers[i]}
  <2>1. ASSUME NEW i
        PROVE  (/\ i \in v.transfers \cup DOMAIN h.transfers
                /\ i \in DOMAIN h.transfers => h.transfers[i])
               <=> (/\ i \in u.transfers \cup DOMAIN f.transfers
                    /\ i \in DOMAIN f.transfers => f.transfers[i])
    <3>1. CASE i \in DOMAIN f.transfers
      BY <1>1, <3>1
    <3>2. CASE i \notin DOMAIN f.transfers /\ i \in DOMAIN g.transfers
      BY <1>1, <1>2, <3>2
    <3>3. CASE i \notin DOMAIN f.transfers /\ i \notin DOMAIN g.transfers
      BY <1>1, <1>2, <3>3
    <3>4. QED
      BY <3>1, <3>2, <3>3
  <2>2. QED
    BY <2>1
<1>6. Undone(v, h) = Undone(u, f)
  BY <1>4, <1>5 DEF Undone
<1>7. QED
  BY <1>3, <1>6 DEF h, u

\* What was recorded before a write undoes the write.
LEMMA UndoneWrite ==
    ASSUME NEW v, WorldOk(v), NEW u, WorldOk(u), NEW accounts \in SUBSET Addrs, NEW records,
           \A a \in Addrs \ accounts : Held(u, a) = Held(v, a),
           \A i : i \notin records => (i \in u.transfers <=> i \in v.transfers)
    PROVE  /\ FrameOk(Recorded(v, accounts, records))
           /\ Undone(View(u), Recorded(v, accounts, records)) = View(v)
<1> DEFINE f == Recorded(v, accounts, records)
<1>1. /\ DOMAIN f.acct = accounts /\ DOMAIN f.transfers = records
      /\ \A a \in accounts : f.acct[a] = Held(v, a)
      /\ \A i \in records : f.transfers[i] = (i \in v.transfers)
  BY DEF Recorded
<1> HIDE DEF f
<1>2. FrameOk(f)
  <2>1. \A a \in DOMAIN f.acct : IsHeld(f.acct[a])
    BY <1>1, HeldOk
  <2>2. QED
    BY <1>1, <2>1 DEF FrameOk
<1>3. [a \in Addrs |-> IF a \in DOMAIN f.acct THEN f.acct[a] ELSE View(u).acct[a]] = View(v).acct
  <2>1. \A a \in Addrs :
           (IF a \in DOMAIN f.acct THEN f.acct[a] ELSE View(u).acct[a]) = View(v).acct[a]
    BY <1>1, HeldOk
  <2>2. QED
    BY <2>1, HeldOk DEF ViewOk
<1>4. {i \in View(u).transfers \cup DOMAIN f.transfers :
          i \in DOMAIN f.transfers => f.transfers[i]} = View(v).transfers
  <2>1. View(u).transfers = u.transfers /\ View(v).transfers = v.transfers
    BY HeldOk
  <2>2. QED
    BY <1>1, <2>1
<1>5. Undone(View(u), f) = [acct |-> View(v).acct, transfers |-> View(v).transfers]
  BY <1>3, <1>4 DEF Undone
<1>6. QED
  BY <1>2, <1>5, HeldOk DEF ViewOk, f

\* A reverted frame leaves the view it undoes, and writes nothing but views.
Beside(v, u) ==
    /\ u.pool = v.pool /\ u.treasury = v.treasury /\ u.totalStaked = v.totalStaked
    /\ u.acc = v.acc /\ u.backed = v.backed /\ u.slashes = v.slashes
    /\ \A a \in Addrs : /\ u.acct[a].balance = v.acct[a].balance
                        /\ SameTerms(v.acct[a], u.acct[a])

\* pop_frame of a reverted frame.
LEMMA RestoredView ==
    ASSUME NEW v, WorldOk(v), NEW f, FrameOk(f)
    PROVE  LET u == Restored(v, f)
           IN  WorldOk(u) /\ Beside(v, u) /\ View(u) = Undone(View(v), f)
<1> DEFINE u == Restored(v, f)
           n(a) == IF a \in DOMAIN f.acct
                   THEN [v.acct[a] EXCEPT !.zerenya = f.acct[a].zerenya, !.allow = f.acct[a].allow]
                   ELSE v.acct[a]
<1>1. /\ DOMAIN u = DOMAIN v /\ u.acct = [a \in Addrs |-> n(a)]
      /\ u.pool = v.pool /\ u.treasury = v.treasury /\ u.totalStaked = v.totalStaked
      /\ u.acc = v.acc /\ u.backed = v.backed /\ u.slashes = v.slashes
      /\ u.transfers = {i \in v.transfers \cup DOMAIN f.transfers :
                           i \in DOMAIN f.transfers => f.transfers[i]}
  BY DEF Restored, WorldOk
<1> HIDE DEF u
<1>2. ASSUME NEW a \in Addrs
      PROVE  /\ AccountOk(n(a)) /\ n(a).balance = v.acct[a].balance
             /\ SameTerms(v.acct[a], n(a))
             /\ Held(u, a) = IF a \in DOMAIN f.acct THEN f.acct[a] ELSE Held(v, a)
  <2>1. AccountOk(v.acct[a]) /\ u.acct[a] = n(a)
    BY <1>1, <1>2, WorldTypes
  <2>2. CASE a \notin DOMAIN f.acct
    BY <2>1, <2>2 DEF Held, SameTerms
  <2>3. CASE a \in DOMAIN f.acct
    <3> DEFINE m == [v.acct[a] EXCEPT !.zerenya = f.acct[a].zerenya, !.allow = f.acct[a].allow]
    <3>1. /\ DOMAIN m = DOMAIN v.acct[a] /\ m.balance = v.acct[a].balance
          /\ m.staked = v.acct[a].staked /\ m.pendingStake = v.acct[a].pendingStake
          /\ m.unbonding = v.acct[a].unbonding /\ m.debt = v.acct[a].debt
          /\ m.bondedUntil = v.acct[a].bondedUntil /\ m.nonce = v.acct[a].nonce
          /\ m.zerenya = f.acct[a].zerenya /\ m.allow = f.acct[a].allow
      BY <2>1 DEF AccountOk
    <3>2. n(a) = m
      BY <2>3
    <3> HIDE DEF m, n
    <3>3. IsHeld(f.acct[a])
      BY <2>3 DEF FrameOk
    <3>4. AccountOk(m)
      BY <2>1, <3>1, <3>3 DEF AccountOk, IsHeld
    <3>5. Held(u, a) = f.acct[a]
      BY <2>1, <3>1, <3>2, <3>3 DEF Held, IsHeld
    <3>6. QED
      BY <2>3, <3>1, <3>2, <3>4, <3>5 DEF SameTerms
  <2>4. QED
    BY <2>2, <2>3
<1> HIDE DEF n
<1>3. u.acct = [a \in Addrs |-> u.acct[a]] /\ \A a \in Addrs : u.acct[a] = n(a)
  BY <1>1
<1>4. WorldOk(u)
  BY <1>1, <1>2, <1>3 DEF WorldOk
<1>5. Beside(v, u)
  BY <1>1, <1>2, <1>3 DEF Beside
<1>6. View(u) = Undone(View(v), f)
  <2>1. \A a \in Addrs : Held(u, a) = IF a \in DOMAIN f.acct THEN f.acct[a] ELSE View(v).acct[a]
    BY <1>2, HeldOk
  <2>2. View(v).transfers = v.transfers
    BY HeldOk
  <2>3. [a \in Addrs |-> Held(u, a)]
           = [a \in Addrs |-> IF a \in DOMAIN f.acct THEN f.acct[a] ELSE View(v).acct[a]]
    BY <2>1
  <2>4. QED
    BY <1>1, <2>2, <2>3 DEF View, Undone
<1>7. QED
  BY <1>4, <1>5, <1>6 DEF u

\* The notes a view holds.
TokensIn(v) == SumOf([a \in Addrs |-> v.acct[a].zerenya], Addrs)

\* A view holds the notes its world holds.
LEMMA ViewTokens ==
    ASSUME NEW v, WorldOk(v)
    PROVE  TokensIn(View(v)) = Tokens(v.acct)
<1>1. \A a \in Addrs : View(v).acct[a].zerenya = v.acct[a].zerenya
  BY HeldOk
<1>2. [a \in Addrs |-> View(v).acct[a].zerenya] = TokensOf(v.acct)
  BY <1>1 DEF TokensOf
<1>3. QED
  BY <1>2 DEF TokensIn, Tokens

\* What the interceptor leaves alone keeps the coins and the stakes.
LEMMA BesideBooks ==
    ASSUME NEW v, WorldOk(v), NEW u, WorldOk(u), Beside(v, u)
    PROVE  /\ Gold(u) = Gold(v) /\ Excess(u) = Excess(v)
           /\ Tokens(u.acct) = Tokens(v.acct) => Notes(u) = Notes(v)
<1>1. \A a \in Addrs : Own(u.acct[a]) = Own(v.acct[a])
  BY DEF Beside, SameTerms, Own, Bonded
<1>2. CoinsOf(u.acct) = CoinsOf(v.acct)
  BY <1>1 DEF CoinsOf
<1>3. StakesOf(u.acct) = StakesOf(v.acct)
  BY DEF StakesOf, Beside, SameTerms
<1>4. QED
  BY <1>2, <1>3 DEF Gold, Excess, Notes, Coins, Stakes, Beside

-----------------------------------------------------------------------------
(* The stack of frames. *)

IsSeq(s) == \E X : s \in Seq(X)

\* An element is pushed on a sequence.
LEMMA Pushed ==
    ASSUME NEW s, IsSeq(s), NEW e
    PROVE  /\ IsSeq(Append(s, e)) /\ Len(s) \in Nat /\ Len(Append(s, e)) = Len(s) + 1
           /\ \A i \in 1 .. Len(s) : Append(s, e)[i] = s[i]
           /\ Append(s, e)[Len(s) + 1] = e /\ Append(s, e) # <<>>
<1>1. PICK X : s \in Seq(X)
  BY DEF IsSeq
<1>2. s \in Seq(X \cup {e})
  BY <1>1, SeqMonotonic
<1>3. Len(s) \in Nat
  BY <1>1, LenProperties
<1>4. /\ Append(s, e) \in Seq(X \cup {e}) /\ Len(Append(s, e)) = Len(s) + 1
      /\ \A i \in 1 .. Len(s) : Append(s, e)[i] = s[i]
      /\ Append(s, e)[Len(s) + 1] = e /\ Append(s, e) # <<>>
  BY <1>2, AppendProperties
<1>5. QED
  BY <1>3, <1>4 DEF IsSeq

\* The last element is popped off a sequence.
LEMMA Popped ==
    ASSUME NEW s, IsSeq(s), s # <<>>
    PROVE  /\ IsSeq(Front(s)) /\ Len(s) \in Nat \ {0} /\ Len(Front(s)) = Len(s) - 1
           /\ \A i \in 1 .. Len(s) - 1 : Front(s)[i] = s[i]
           /\ Last(s) = s[Len(s)]
<1>1. PICK X : s \in Seq(X)
  BY DEF IsSeq
<1>2. Len(s) \in Nat \ {0}
  BY <1>1, LenProperties, EmptySeq
<1>3. \A i \in 1 .. Len(s) - 1 : s[i] \in X
  BY <1>1, <1>2, ElementOfSeq
<1>4. /\ SubSeq(s, 1, Len(s) - 1) \in Seq(X)
      /\ Len(SubSeq(s, 1, Len(s) - 1)) = IF 1 <= Len(s) - 1 THEN Len(s) - 1 - 1 + 1 ELSE 0
      /\ \A i \in 1 .. Len(s) - 1 - 1 + 1 : SubSeq(s, 1, Len(s) - 1)[i] = s[1 + i - 1]
  BY <1>2, <1>3, SubSeqProperties
<1> DEFINE t == SubSeq(s, 1, Len(s) - 1)
<1>5. t = Front(s) /\ Last(s) = s[Len(s)]
  BY DEF Front, Last
<1> HIDE DEF t
<1>6. Len(t) = Len(s) - 1 /\ IsSeq(t)
  <2>1. t \in Seq(X) /\ Len(t) = IF 1 <= Len(s) - 1 THEN Len(s) - 1 - 1 + 1 ELSE 0
    BY <1>4 DEF t
  <2>2. \A n \in Nat \ {0} : (IF 1 <= n - 1 THEN n - 1 - 1 + 1 ELSE 0) = n - 1
    OBVIOUS
  <2>3. Len(t) = Len(s) - 1
    BY <1>2, <2>1, <2>2
  <2>4. QED
    BY <2>1, <2>3 DEF IsSeq
<1>7. \A i \in 1 .. Len(s) - 1 : t[i] = s[i]
  <2>1. \A i \in 1 .. Len(s) - 1 : i \in 1 .. Len(s) - 1 - 1 + 1 /\ s[1 + i - 1] = s[i]
    BY <1>2
  <2>2. \A i \in 1 .. Len(s) - 1 - 1 + 1 : t[i] = s[1 + i - 1]
    BY <1>4 DEF t
  <2>3. QED
    BY <2>1, <2>2
<1>8. QED
  BY <1>2, <1>5, <1>6, <1>7

\* Frame by frame: what a frame would restore is what it found.
StackOk(fs, vs, v) ==
    /\ IsSeq(fs) /\ IsSeq(vs) /\ Len(vs) = Len(fs) /\ ViewOk(v)
    /\ \A i \in 1 .. Len(fs) :
          /\ FrameOk(fs[i]) /\ ViewOk(vs[i]) /\ TokensIn(vs[i]) = TokensIn(v)
          /\ Undone(IF i = Len(fs) THEN v ELSE vs[i + 1], fs[i]) = vs[i]

\* A new frame finds the view of now.
LEMMA StackPushed ==
    ASSUME NEW fs, NEW vs, NEW v, StackOk(fs, vs, v)
    PROVE  StackOk(Append(fs, NewFrame), Append(vs, v), v)
<1> DEFINE gs == Append(fs, NewFrame)
           bs == Append(vs, v)
           n == Len(fs)
<1>1. /\ IsSeq(gs) /\ IsSeq(bs) /\ n \in Nat /\ Len(gs) = n + 1 /\ Len(bs) = n + 1
      /\ \A i \in 1 .. n : gs[i] = fs[i] /\ bs[i] = vs[i]
      /\ gs[n + 1] = NewFrame /\ bs[n + 1] = v
  BY Pushed DEF StackOk
<1> HIDE DEF gs, bs
<1>2. ASSUME NEW i \in 1 .. (n + 1)
      PROVE  /\ FrameOk(gs[i]) /\ ViewOk(bs[i]) /\ TokensIn(bs[i]) = TokensIn(v)
             /\ Undone(IF i = n + 1 THEN v ELSE bs[i + 1], gs[i]) = bs[i]
  <2>1. CASE i = n + 1
    BY <1>1, <2>1, UndoneNew DEF StackOk
  <2>2. CASE i # n + 1
    <3>1. i \in 1 .. n /\ gs[i] = fs[i] /\ bs[i] = vs[i]
      BY <1>1, <2>2
    <3>2. bs[i + 1] = IF i = n THEN v ELSE vs[i + 1]
      <4>1. CASE i = n
        BY <1>1, <4>1
      <4>2. CASE i # n
        <5>1. i + 1 \in 1 .. n
          BY <1>1, <3>1, <4>2
        <5>2. QED
          BY <1>1, <4>2, <5>1
      <4>3. QED
        BY <4>1, <4>2
    <3>3. /\ FrameOk(fs[i]) /\ ViewOk(vs[i]) /\ TokensIn(vs[i]) = TokensIn(v)
          /\ Undone(IF i = n THEN v ELSE vs[i + 1], fs[i]) = vs[i]
      BY <3>1 DEF StackOk
    <3>4. QED
      BY <2>2, <3>1, <3>2, <3>3
  <2>3. QED
    BY <2>1, <2>2
<1>3. StackOk(gs, bs, v)
  BY <1>1, <1>2 DEF StackOk
<1>4. QED
  BY <1>3 DEF gs, bs

\* A write noted in the innermost frame.
LEMMA StackWritten ==
    ASSUME NEW fs, NEW vs, NEW v, StackOk(fs, vs, v), fs # <<>>,
           NEW u, ViewOk(u), NEW g, FrameOk(g), Undone(u, g) = v, TokensIn(u) = TokensIn(v)
    PROVE  StackOk(Append(Front(fs), Merged(Last(fs), g)), vs, u)
<1> DEFINE f == Last(fs)
           h == Merged(f, g)
           gs == Append(Front(fs), h)
           n == Len(fs)
<1>1. /\ IsSeq(Front(fs)) /\ n \in Nat \ {0} /\ Len(Front(fs)) = n - 1
      /\ \A i \in 1 .. n - 1 : Front(fs)[i] = fs[i]
      /\ f = fs[n]
  BY Popped DEF StackOk
<1>2. FrameOk(f) /\ Undone(v, f) = vs[n] /\ ViewOk(vs[n]) /\ TokensIn(vs[n]) = TokensIn(v)
  <2>1. n \in 1 .. n
    BY <1>1
  <2>2. QED
    BY <1>1, <2>1 DEF StackOk
<1>3. FrameOk(h) /\ Undone(u, h) = vs[n]
  <2> HIDE DEF f, n
  <2>1. FrameOk(Merged(f, g)) /\ Undone(u, Merged(f, g)) = Undone(Undone(u, g), f)
    BY <1>2, UndoneMerged
  <2>2. QED
    BY <1>2, <2>1
<1> HIDE DEF f, h
<1>4. /\ IsSeq(gs) /\ Len(gs) = n /\ gs[n] = h /\ \A i \in 1 .. n - 1 : gs[i] = fs[i]
  <2> DEFINE p == Front(fs)
  <2> HIDE DEF p, n
  <2>1. /\ IsSeq(Append(p, h)) /\ Len(Append(p, h)) = Len(p) + 1
        /\ \A i \in 1 .. Len(p) : Append(p, h)[i] = p[i]
        /\ Append(p, h)[Len(p) + 1] = h
    BY <1>1, Pushed DEF p
  <2>2. Len(p) = n - 1 /\ Len(p) + 1 = n /\ \A i \in 1 .. n - 1 : p[i] = fs[i]
    BY <1>1 DEF p
  <2>3. QED
    BY <2>1, <2>2 DEF p
<1> HIDE DEF gs
<1>5. ASSUME NEW i \in 1 .. n
      PROVE  /\ FrameOk(gs[i]) /\ ViewOk(vs[i]) /\ TokensIn(vs[i]) = TokensIn(u)
             /\ Undone(IF i = n THEN u ELSE vs[i + 1], gs[i]) = vs[i]
  <2>1. CASE i = n
    BY <1>2, <1>3, <1>4, <2>1
  <2>2. CASE i # n
    <3>1. i \in 1 .. n - 1
      BY <1>1, <2>2
    <3>2. /\ FrameOk(fs[i]) /\ ViewOk(vs[i]) /\ TokensIn(vs[i]) = TokensIn(v)
          /\ Undone(IF i = n THEN v ELSE vs[i + 1], fs[i]) = vs[i]
      BY DEF StackOk
    <3>3. QED
      BY <1>4, <2>2, <3>1, <3>2
  <2>3. QED
    BY <2>1, <2>2
<1>6. StackOk(gs, vs, u)
  BY <1>4, <1>5 DEF StackOk
<1>7. QED
  BY <1>6 DEF gs, h, f

\* The innermost frame is gone, and the view is the one it found.
LEMMA StackDropped ==
    ASSUME NEW fs, NEW vs, NEW v, StackOk(fs, vs, v), fs # <<>>
    PROVE  /\ StackOk(Front(fs), Front(vs), Last(vs))
           /\ FrameOk(Last(fs)) /\ Undone(v, Last(fs)) = Last(vs)
           /\ ViewOk(Last(vs)) /\ TokensIn(Last(vs)) = TokensIn(v)
<1> DEFINE gs == Front(fs)
           bs == Front(vs)
           n == Len(fs)
           u == Last(vs)
<1>1. /\ IsSeq(gs) /\ n \in Nat \ {0} /\ Len(gs) = n - 1
      /\ \A i \in 1 .. n - 1 : gs[i] = fs[i]
      /\ Last(fs) = fs[n]
  BY Popped DEF StackOk
<1>2. vs # <<>>
  <2>1. vs = <<>> => Len(vs) = 0
    BY EmptySeq
  <2>2. QED
    BY <1>1, <2>1 DEF StackOk
<1>3. IsSeq(bs) /\ Len(bs) = n - 1 /\ u = vs[n] /\ \A i \in 1 .. n - 1 : bs[i] = vs[i]
  <2>1. /\ IsSeq(bs) /\ Len(bs) = Len(vs) - 1
        /\ \A i \in 1 .. Len(vs) - 1 : bs[i] = vs[i]
        /\ Last(vs) = vs[Len(vs)]
    BY <1>2, Popped DEF StackOk
  <2>2. QED
    BY <2>1 DEF StackOk
<1>4. n \in 1 .. n
  BY <1>1
<1>5. /\ FrameOk(Last(fs)) /\ Undone(v, Last(fs)) = u /\ ViewOk(u) /\ TokensIn(u) = TokensIn(v)
  BY <1>1, <1>3, <1>4 DEF StackOk
<1> HIDE DEF gs, bs, u
<1>6. ASSUME NEW i \in 1 .. n - 1
      PROVE  /\ FrameOk(gs[i]) /\ ViewOk(bs[i]) /\ TokensIn(bs[i]) = TokensIn(u)
             /\ Undone(IF i = n - 1 THEN u ELSE bs[i + 1], gs[i]) = bs[i]
  <2>1. i \in 1 .. n /\ i # n
    BY <1>1
  <2>2. /\ FrameOk(fs[i]) /\ ViewOk(vs[i]) /\ TokensIn(vs[i]) = TokensIn(v)
        /\ Undone(vs[i + 1], fs[i]) = vs[i]
    BY <2>1 DEF StackOk
  <2>3. vs[i + 1] = IF i = n - 1 THEN u ELSE bs[i + 1]
    <3>1. CASE i = n - 1
      <4>1. i + 1 = n
        BY <1>1, <3>1
      <4>2. QED
        BY <1>3, <3>1, <4>1
    <3>2. CASE i # n - 1
      <4>1. i + 1 \in 1 .. n - 1
        BY <1>1, <3>2
      <4>2. QED
        BY <1>3, <3>2, <4>1
    <3>3. QED
      BY <3>1, <3>2
  <2>4. QED
    BY <1>1, <1>3, <1>5, <2>2, <2>3
<1>7. StackOk(gs, bs, u)
  BY <1>1, <1>3, <1>5, <1>6 DEF StackOk
<1>8. QED
  BY <1>5, <1>7 DEF gs, bs, u

-----------------------------------------------------------------------------
(* The interceptor's writes. *)

\* An account is rewritten in its ZERENYA and its allowances.
IsRetokened(v, b, k, al, u) ==
    u = [v EXCEPT !.acct[b] = [v.acct[b] EXCEPT !.zerenya = k, !.allow = al]]

\* One account's notes and allowances are written, beside the books.
LEMMA Retokened ==
    ASSUME NEW v, WorldOk(v), NEW b \in Addrs, NEW k \in Nat, NEW al,
           NEW u, IsRetokened(v, b, k, al, u)
    PROVE  /\ WorldOk(u) /\ Beside(v, u) /\ u.transfers = v.transfers
           /\ Tokens(u.acct) = Tokens(v.acct) - v.acct[b].zerenya + k
           /\ u.acct[b].zerenya = k /\ u.acct[b].allow = al
           /\ \A a \in Addrs \ {b} : u.acct[a] = v.acct[a]
<1> DEFINE old == v.acct[b]
           m == [old EXCEPT !.zerenya = k, !.allow = al]
<1>1. AccountOk(old)
  BY WorldTypes
<1>2. /\ DOMAIN m = DOMAIN old /\ m.balance = old.balance /\ m.zerenya = k /\ m.allow = al
      /\ m.staked = old.staked /\ m.pendingStake = old.pendingStake
      /\ m.unbonding = old.unbonding /\ m.debt = old.debt
      /\ m.bondedUntil = old.bondedUntil /\ m.nonce = old.nonce
  BY <1>1 DEF AccountOk
<1>3. u = [v EXCEPT !.acct[b] = m]
  BY DEF IsRetokened
<1> HIDE DEF m
<1>4. AccountOk(m)
  BY <1>1, <1>2 DEF AccountOk
<1>5. /\ WorldOk(u) /\ u.acct[b] = m /\ \A a \in Addrs \ {b} : u.acct[a] = v.acct[a]
      /\ u.pool = v.pool /\ u.treasury = v.treasury /\ u.totalStaked = v.totalStaked
      /\ u.acc = v.acc /\ u.backed = v.backed
  <2> HIDE DEF old
  <2> DEFINE t == [v EXCEPT !.acct[b] = m]
  <2>1. /\ WorldOk(t) /\ t.acct[b] = m /\ \A a \in Addrs \ {b} : t.acct[a] = v.acct[a]
        /\ t.pool = v.pool /\ t.treasury = v.treasury /\ t.totalStaked = v.totalStaked
        /\ t.acc = v.acc /\ t.backed = v.backed
    BY <1>4, Written
  <2> HIDE DEF t
  <2>2. u = t
    BY <1>3 DEF t
  <2>3. QED
    BY <2>1, <2>2
<1>6. u.transfers = v.transfers /\ u.slashes = v.slashes
  BY <1>3 DEF WorldOk
<1>7. Beside(v, u)
  BY <1>2, <1>5, <1>6 DEF Beside, SameTerms
<1>8. Tokens(u.acct) = Tokens(v.acct) - old.zerenya + k
  <2>1. AccountsOk(v.acct) /\ AccountsOk(u.acct)
    BY <1>5, WorldTypes
  <2>2. Tokens(u.acct) = Tokens(v.acct) - v.acct[b].zerenya + u.acct[b].zerenya
    <3> DEFINE ac == v.acct
               ad == u.acct
    <3>1. AccountsOk(ac) /\ AccountsOk(ad) /\ \A a \in Addrs \ {b} : ad[a] = ac[a]
      BY <1>5, <2>1
    <3> HIDE DEF ac, ad
    <3>2. Tokens(ad) = Tokens(ac) - ac[b].zerenya + ad[b].zerenya
      BY <3>1, OneAccount
    <3>3. QED
      BY <3>2 DEF ac, ad
  <2>3. QED
    BY <1>2, <1>5, <2>2
<1>9. QED
  BY <1>2, <1>5, <1>6, <1>7, <1>8

\* What is beside one write and the next is beside both.
LEMMA BesideTwice ==
    ASSUME NEW v, NEW u, NEW t, Beside(v, u), Beside(u, t)
    PROVE  Beside(v, t)
BY DEF Beside, SameTerms

\* record_transfer touches the accounts of no one.
LEMMA RecordKept ==
    ASSUME NEW v, WorldOk(v), NEW i
    PROVE  LET u == TransferRecorded(v, i)
           IN  /\ WorldOk(u) /\ Beside(v, u) /\ u.acct = v.acct
               /\ u.transfers = (v.transfers \ Evicted(i)) \cup {i}
<1> DEFINE u == TransferRecorded(v, i)
<1>1. /\ DOMAIN u = DOMAIN v /\ u.acct = v.acct /\ u.pool = v.pool /\ u.treasury = v.treasury
      /\ u.totalStaked = v.totalStaked /\ u.acc = v.acc /\ u.backed = v.backed
      /\ u.transfers = (v.transfers \ Evicted(i)) \cup {i} /\ u.slashes = v.slashes
  BY DEF TransferRecorded, WorldOk
<1> HIDE DEF u
<1>2. WorldOk(u)
  BY <1>1, SameMoney
<1>3. QED
  BY <1>1, <1>2 DEF Beside, SameTerms, u

\* ZERENYA moves from an account, which may lose some of an allowance, to another or to itself.
IsMoved(v, from, to, k, al, u, t) ==
    /\ v.acct[from].zerenya >= k
    /\ u = [v EXCEPT !.acct[from] = [v.acct[from] EXCEPT !.zerenya = @ - k, !.allow = al]]
    /\ t = [u EXCEPT !.acct[to] = [u.acct[to] EXCEPT !.zerenya = @ + k]]

\* Notes move from one account to another, beside the books.
LEMMA Moved ==
    ASSUME NEW v, WorldOk(v), NEW from \in Addrs, NEW to \in Addrs, NEW k \in Nat, NEW al,
           NEW u, NEW t, IsMoved(v, from, to, k, al, u, t)
    PROVE  /\ WorldOk(t) /\ Beside(v, t) /\ t.transfers = v.transfers
           /\ Tokens(t.acct) = Tokens(v.acct)
           /\ \A a \in Addrs \ {from, to} : t.acct[a] = v.acct[a]
<1>1. v.acct[from].zerenya - k \in Nat
  <2>1. v.acct[from].zerenya \in Nat
    BY WorldTypes, AccountTypes
  <2>2. QED
    BY <2>1 DEF IsMoved
<1>2. /\ WorldOk(u) /\ Beside(v, u) /\ u.transfers = v.transfers
      /\ Tokens(u.acct) = Tokens(v.acct) - v.acct[from].zerenya + (v.acct[from].zerenya - k)
      /\ \A a \in Addrs \ {from} : u.acct[a] = v.acct[a]
  <2> DEFINE j == v.acct[from].zerenya - k
  <2>1. j \in Nat /\ IsRetokened(v, from, j, al, u)
    BY <1>1 DEF IsRetokened, IsMoved
  <2> HIDE DEF j
  <2>2. /\ WorldOk(u) /\ Beside(v, u) /\ u.transfers = v.transfers
        /\ Tokens(u.acct) = Tokens(v.acct) - v.acct[from].zerenya + j
        /\ \A a \in Addrs \ {from} : u.acct[a] = v.acct[a]
    BY <2>1, Retokened
  <2>3. QED
    BY <2>2 DEF j
<1>3. AccountOk(u.acct[to]) /\ u.acct[to].zerenya \in Nat
  BY <1>2, WorldTypes, AccountTypes
<1> DEFINE old == u.acct[to]
<1>4. t = [u EXCEPT !.acct[to] = [old EXCEPT !.zerenya = old.zerenya + k, !.allow = old.allow]]
  <2>1. AccountOk(old)
    BY <1>3
  <2>2. t = [u EXCEPT !.acct[to] = [old EXCEPT !.zerenya = old.zerenya + k]]
    BY DEF IsMoved
  <2> HIDE DEF old
  <2>3. [old EXCEPT !.zerenya = old.zerenya + k]
           = [old EXCEPT !.zerenya = old.zerenya + k, !.allow = old.allow]
    BY <2>1 DEF AccountOk
  <2>4. QED
    BY <2>2, <2>3
<1>5. old.zerenya + k \in Nat
  BY <1>3
<1>6. /\ WorldOk(t) /\ Beside(u, t) /\ t.transfers = u.transfers
      /\ Tokens(t.acct) = Tokens(u.acct) - old.zerenya + (old.zerenya + k)
      /\ \A a \in Addrs \ {to} : t.acct[a] = u.acct[a]
  <2> DEFINE j == old.zerenya + k
             l == old.allow
  <2>1. j \in Nat /\ WorldOk(u) /\ IsRetokened(u, to, j, l, t)
    BY <1>2, <1>4, <1>5 DEF IsRetokened
  <2> HIDE DEF j, l
  <2>2. /\ WorldOk(t) /\ Beside(u, t) /\ t.transfers = u.transfers
        /\ Tokens(t.acct) = Tokens(u.acct) - u.acct[to].zerenya + j
        /\ \A a \in Addrs \ {to} : t.acct[a] = u.acct[a]
    BY <2>1, Retokened
  <2>3. QED
    BY <2>2 DEF j
<1>7. Tokens(v.acct) \in Int /\ v.acct[from].zerenya \in Int /\ old.zerenya \in Int
  BY <1>3, WorldTypes, BooksTyped, AccountTypes
<1>8. Tokens(t.acct) = Tokens(v.acct)
  <2> HIDE DEF old
  <2>1. QED
    BY <1>2, <1>6, <1>7
<1>9. Beside(v, t)
  BY <1>2, <1>6, BesideTwice
<1>10. QED
  BY <1>2, <1>6, <1>8, <1>9

-----------------------------------------------------------------------------
(* A call in flight. *)

\* What the call has left alone since its checkpoint, and what its frames would restore.
CallInv ==
    Running =>
        /\ DOMAIN call = {"x", "saved", "frames", "at", "ops"} /\ call.x \in Calls
        /\ WorldOk(call.saved) /\ Beside(call.saved, w)
        /\ Tokens(w.acct) = Tokens(call.saved.acct)
        /\ call.saved.acct[call.x.from].balance >= call.x.fee + call.x.amt
        /\ call.saved.acct[call.x.from].balance >= Floor(call.saved, call.x)
        /\ StackOk(call.frames, call.at, View(w))

EvmInv == LedgerInv /\ CallInv

\* The books of the ledger see nothing of a write that is beside them.
LEMMA BesideLedger ==
    ASSUME LedgerInv, WorldOk(w'), Beside(w, w'), Tokens(w.acct)' = Tokens(w.acct),
           UNCHANGED <<gas, lost, block>>
    PROVE  LedgerInv'
<1>1. WorldOk(w)
  BY DEF LedgerInv
<1>2. Gold(w') = Gold(w) /\ Excess(w') = Excess(w) /\ Notes(w') = Notes(w)
  BY <1>1, BesideBooks
<1>3. QED
  BY <1>2 DEF LedgerInv, BlockOk, block

\* Of a write that is beside the books, noted in the innermost frame.
LEMMA InterceptedKeeps ==
    ASSUME EvmInv, Running, NEW accounts \in SUBSET Addrs, NEW records, NEW u,
           WorldOk(u), Beside(w, u), Tokens(u.acct) = Tokens(w.acct),
           \A a \in Addrs \ accounts : Held(u, a) = Held(w, a),
           \A i : i \notin records => (i \in u.transfers <=> i \in w.transfers),
           Intercepted(accounts, records, u), UNCHANGED <<gas, lost, block>>
    PROVE  EvmInv'
<1> DEFINE g == Recorded(w, accounts, records)
           fs == Append(Front(call.frames), Merged(Last(call.frames), g))
<1>1. w' = u /\ WorldOk(w)
  BY DEF Intercepted, EvmInv, LedgerInv
<1>2. /\ DOMAIN call = {"x", "saved", "frames", "at", "ops"} /\ call.x \in Calls
      /\ WorldOk(call.saved) /\ Beside(call.saved, w)
      /\ Tokens(w.acct) = Tokens(call.saved.acct)
      /\ call.saved.acct[call.x.from].balance >= call.x.fee + call.x.amt
      /\ call.saved.acct[call.x.from].balance >= Floor(call.saved, call.x)
      /\ StackOk(call.frames, call.at, View(w))
      /\ call.frames # <<>>
  BY DEF EvmInv, CallInv, Running
<1>3. /\ DOMAIN call' = DOMAIN call /\ call'.x = call.x /\ call'.saved = call.saved
      /\ call'.at = call.at /\ call'.frames = fs
  BY <1>2 DEF Intercepted
<1> HIDE DEF fs
<1>4. FrameOk(g) /\ Undone(View(u), g) = View(w)
  BY <1>1, UndoneWrite
<1> HIDE DEF g
<1>5. ViewOk(View(u)) /\ TokensIn(View(u)) = TokensIn(View(w))
  BY <1>1, HeldOk, ViewTokens
<1>6. StackOk(fs, call.at, View(u))
  BY <1>2, <1>4, <1>5, StackWritten DEF fs
<1>7. Beside(call.saved, u)
  BY <1>2, BesideTwice
<1>8. LedgerInv'
  BY <1>1, BesideLedger DEF EvmInv
<1>9. CallInv'
  BY <1>1, <1>2, <1>3, <1>6, <1>7 DEF CallInv
<1>10. QED
  BY <1>8, <1>9 DEF EvmInv

\* A frame is opened.
LEMMA EnterKeeps ==
    ASSUME EvmInv, EnterFrame
    PROVE  EvmInv'
<1>1. /\ Running /\ w' = w /\ UNCHANGED <<gas, lost, block>>
      /\ call' = [call EXCEPT !.frames = Append(@, NewFrame), !.at = Append(@, View(w)),
                              !.ops = @ + 1]
  BY DEF EnterFrame, InCall
<1>2. /\ DOMAIN call = {"x", "saved", "frames", "at", "ops"} /\ call.x \in Calls
      /\ WorldOk(call.saved) /\ Beside(call.saved, w)
      /\ Tokens(w.acct) = Tokens(call.saved.acct)
      /\ call.saved.acct[call.x.from].balance >= call.x.fee + call.x.amt
      /\ call.saved.acct[call.x.from].balance >= Floor(call.saved, call.x)
      /\ StackOk(call.frames, call.at, View(w))
  BY <1>1 DEF EvmInv, CallInv
<1>3. /\ DOMAIN call' = DOMAIN call /\ call'.x = call.x /\ call'.saved = call.saved
      /\ call'.frames = Append(call.frames, NewFrame) /\ call'.at = Append(call.at, View(w))
  BY <1>1, <1>2
<1>4. StackOk(Append(call.frames, NewFrame), Append(call.at, View(w)), View(w))
  BY <1>2, StackPushed
<1>5. CallInv'
  BY <1>1, <1>2, <1>3, <1>4 DEF CallInv
<1>6. LedgerInv'
  BY <1>1, LedgerSame DEF EvmInv
<1>7. QED
  BY <1>5, <1>6 DEF EvmInv

\* A frame is closed, merged or undone; undone, it leaves the view it found.
LEMMA ExitKeeps ==
    ASSUME EvmInv, NEW ok \in BOOLEAN, ExitFrame(ok)
    PROVE  EvmInv' /\ (~ok => View(w') = Last(call.at))
<1> DEFINE fs == call.frames
           f == Last(fs)
           outer == Front(fs)
<1>1. /\ Running /\ fs # <<>> /\ Len(fs) > 1 /\ UNCHANGED <<gas, lost, block>>
      /\ w' = IF ok THEN w ELSE Restored(w, f)
      /\ call' = [call EXCEPT !.at = Front(@),
                     !.frames = IF ok THEN Append(Front(outer), Merged(Last(outer), f))
                                ELSE outer]
  BY DEF ExitFrame, Running
<1>2. /\ DOMAIN call = {"x", "saved", "frames", "at", "ops"} /\ call.x \in Calls
      /\ WorldOk(call.saved) /\ Beside(call.saved, w)
      /\ Tokens(w.acct) = Tokens(call.saved.acct)
      /\ call.saved.acct[call.x.from].balance >= call.x.fee + call.x.amt
      /\ call.saved.acct[call.x.from].balance >= Floor(call.saved, call.x)
      /\ StackOk(fs, call.at, View(w))
  BY <1>1 DEF EvmInv, CallInv
<1>3. /\ DOMAIN call' = DOMAIN call /\ call'.x = call.x /\ call'.saved = call.saved
      /\ call'.at = Front(call.at)
      /\ call'.frames = IF ok THEN Append(Front(outer), Merged(Last(outer), f)) ELSE outer
  BY <1>1, <1>2
<1> HIDE DEF fs
<1>4. /\ StackOk(outer, Front(call.at), Last(call.at)) /\ FrameOk(f)
      /\ Undone(View(w), f) = Last(call.at) /\ ViewOk(Last(call.at))
      /\ TokensIn(Last(call.at)) = TokensIn(View(w))
  BY <1>1, <1>2, StackDropped
<1>5. WorldOk(w) /\ ViewOk(View(w))
  BY HeldOk DEF EvmInv, LedgerInv
<1>6. outer # <<>>
  <2>1. IsSeq(fs) /\ Len(outer) = Len(fs) - 1 /\ Len(fs) \in Nat
    BY <1>1, <1>2, Popped DEF StackOk
  <2>2. outer = <<>> => Len(outer) = 0
    BY EmptySeq
  <2>3. QED
    BY <1>1, <2>1, <2>2
<1> HIDE DEF f, outer
<1>7. CASE ok
  <2>1. StackOk(Append(Front(outer), Merged(Last(outer), f)), Front(call.at), View(w))
    BY <1>4, <1>5, <1>6, StackWritten
  <2>2. CallInv'
    BY <1>1, <1>2, <1>3, <1>7, <2>1 DEF CallInv
  <2>3. LedgerInv'
    BY <1>1, <1>7, LedgerSame DEF EvmInv
  <2>4. QED
    BY <1>7, <2>2, <2>3 DEF EvmInv
<1>8. CASE ~ok
  <2>1. w' = Restored(w, f)
    BY <1>1, <1>8
  <2>2. WorldOk(w') /\ Beside(w, w') /\ View(w') = Last(call.at)
    BY <1>4, <1>5, <2>1, RestoredView
  <2>3. Tokens(w.acct)' = Tokens(w.acct)
    BY <1>4, <1>5, <2>2, ViewTokens
  <2>4. Beside(call.saved, w')
    BY <1>2, <2>2, BesideTwice
  <2>5. CallInv'
    BY <1>2, <1>3, <1>4, <1>8, <2>2, <2>3, <2>4 DEF CallInv
  <2>6. LedgerInv'
    BY <1>1, <2>2, <2>3, BesideLedger DEF EvmInv
  <2>7. QED
    BY <2>2, <2>5, <2>6 DEF EvmInv
<1>9. QED
  BY <1>7, <1>8

\* ZERENYA moved and the transfer recorded, as both of the interceptor's arms do it.
LEMMA MoveIntercepted ==
    ASSUME EvmInv, Running, NEW from \in Addrs, NEW to \in Addrs, NEW k \in Nat, NEW al,
           NEW u, NEW t, IsMoved(w, from, to, k, al, u, t),
           Intercepted({from, to}, RecordKeys, TransferRecorded(t, counter)),
           UNCHANGED <<gas, lost, block>>
    PROVE  EvmInv'
<1> DEFINE r == TransferRecorded(t, counter)
<1>1. WorldOk(w)
  BY DEF EvmInv, LedgerInv
<1>2. /\ WorldOk(t) /\ Beside(w, t) /\ t.transfers = w.transfers /\ Tokens(t.acct) = Tokens(w.acct)
      /\ \A a \in Addrs \ {from, to} : t.acct[a] = w.acct[a]
  BY <1>1, Moved
<1>3. /\ WorldOk(r) /\ Beside(t, r) /\ r.acct = t.acct
      /\ r.transfers = (t.transfers \ Evicted(counter)) \cup {counter}
  BY <1>2, RecordKept
<1> HIDE DEF r
<1>4. \A a \in Addrs \ {from, to} : Held(r, a) = Held(w, a)
  BY <1>2, <1>3 DEF Held
<1>5. \A i : i \notin RecordKeys => (i \in r.transfers <=> i \in w.transfers)
  BY <1>2, <1>3 DEF RecordKeys
<1>6. Beside(w, r) /\ Tokens(r.acct) = Tokens(w.acct)
  BY <1>2, <1>3, BesideTwice
<1> DEFINE two == {from, to}
           keys == RecordKeys
<1>7. Intercepted(two, keys, r) /\ two \in SUBSET Addrs
  BY DEF r
<1> HIDE DEF two, keys
<1>8. /\ \A a \in Addrs \ two : Held(r, a) = Held(w, a)
      /\ \A i : i \notin keys => (i \in r.transfers <=> i \in w.transfers)
  BY <1>4, <1>5 DEF two, keys
<1>9. QED
  BY <1>3, <1>6, <1>7, <1>8, InterceptedKeeps

\* transfer
LEMMA TransferZerenyaKeeps ==
    ASSUME EvmInv, NEW from \in Addrs, NEW to \in Payees, NEW n \in Moves,
           TransferZerenya(from, to, n)
    PROVE  EvmInv'
<1>1. to \in Addrs /\ n \in Nat
  BY CallAssumption
<1> DEFINE old == w.acct[from]
           al == old.allow
           u == [w EXCEPT !.acct[from] = [w.acct[from] EXCEPT !.zerenya = @ - n, !.allow = al]]
           t == [u EXCEPT !.acct[to] = [u.acct[to] EXCEPT !.zerenya = @ + n]]
           s == Given([w EXCEPT !.acct[from].zerenya = @ - n], to, n)
<1>2. /\ Running /\ old.zerenya >= n /\ UNCHANGED <<gas, lost, block>>
      /\ Intercepted({from, to}, RecordKeys, TransferRecorded(s, counter))
  BY DEF TransferZerenya, InCall
<1>3. AccountOk(old) /\ WorldOk(w)
  BY WorldTypes DEF EvmInv, LedgerInv
<1>4. s = t
  <2>1. [old EXCEPT !.zerenya = @ - n] = [old EXCEPT !.zerenya = @ - n, !.allow = al]
    <3> HIDE DEF old
    <3>1. QED
      BY <1>3 DEF AccountOk
  <2>2. u = [w EXCEPT !.acct[from].zerenya = @ - n]
    BY <2>1
  <2> HIDE DEF u
  <2>3. s = Given(u, to, n)
    BY <2>2
  <2>4. QED
    BY <2>3 DEF Given
<1>5. IsMoved(w, from, to, n, al, u, t)
  BY <1>2 DEF IsMoved
<1> HIDE DEF s, t, u, al, old
<1>6. Intercepted({from, to}, RecordKeys, TransferRecorded(t, counter))
  BY <1>2, <1>4
<1>7. QED
  BY <1>1, <1>2, <1>5, <1>6, MoveIntercepted

\* transferFrom
LEMMA TransferFromKeeps ==
    ASSUME EvmInv, NEW spender \in Contracts, NEW owner \in Addrs, NEW to \in Payees,
           NEW n \in Moves, TransferFrom(spender, owner, to, n)
    PROVE  EvmInv'
<1>1. to \in Addrs /\ n \in Nat
  BY CallAssumption
<1> DEFINE old == w.acct[owner]
           al == [old.allow EXCEPT ![spender] = @ - n]
           u == [w EXCEPT !.acct[owner] = [w.acct[owner] EXCEPT !.zerenya = @ - n, !.allow = al]]
           t == [u EXCEPT !.acct[to] = [u.acct[to] EXCEPT !.zerenya = @ + n]]
           paid == [w EXCEPT !.acct[owner] = Spent(@, spender, n)]
           s == Given(paid, to, n)
<1>2. /\ Running /\ old.zerenya >= n /\ UNCHANGED <<gas, lost, block>>
      /\ Intercepted({owner, to}, RecordKeys, TransferRecorded(s, counter))
  BY DEF TransferFrom, InCall
<1>3. AccountOk(old) /\ WorldOk(w)
  BY WorldTypes DEF EvmInv, LedgerInv
<1>4. s = t
  <2>1. Spent(old, spender, n) = [old EXCEPT !.zerenya = @ - n, !.allow = al]
    <3> HIDE DEF old
    <3>1. QED
      BY <1>3 DEF AccountOk, Spent
  <2>2. paid = u
    BY <2>1
  <2> HIDE DEF u, paid
  <2>3. QED
    BY <2>2 DEF Given
<1>5. IsMoved(w, owner, to, n, al, u, t)
  BY <1>2 DEF IsMoved
<1> HIDE DEF s, paid, t, u, al, old
<1>6. Intercepted({owner, to}, RecordKeys, TransferRecorded(t, counter))
  BY <1>2, <1>4
<1>7. QED
  BY <1>1, <1>2, <1>5, <1>6, MoveIntercepted

\* approve
LEMMA ApproveKeeps ==
    ASSUME EvmInv, NEW owner \in Addrs, NEW spender \in Payees, NEW n \in Moves,
           Approve(owner, spender, n)
    PROVE  EvmInv'
<1> DEFINE old == w.acct[owner]
           al == [old.allow EXCEPT ![spender] = n]
           k == old.zerenya
           s == [w EXCEPT !.acct[owner].allow[spender] = n]
<1>1. Running /\ UNCHANGED <<gas, lost, block>> /\ Intercepted({owner}, {}, s)
  BY DEF Approve, InCall
<1>2. AccountOk(old) /\ WorldOk(w) /\ k \in Nat
  BY WorldTypes, AccountTypes DEF EvmInv, LedgerInv
<1>3. IsRetokened(w, owner, k, al, s)
  <2>1. [old EXCEPT !.allow[spender] = n] = [old EXCEPT !.zerenya = k, !.allow = al]
    <3> HIDE DEF old
    <3>1. QED
      BY <1>2 DEF AccountOk
  <2>2. QED
    BY <2>1 DEF IsRetokened
<1> HIDE DEF s, al
<1>4. /\ WorldOk(s) /\ Beside(w, s) /\ s.transfers = w.transfers
      /\ Tokens(s.acct) = Tokens(w.acct) - w.acct[owner].zerenya + k
      /\ \A a \in Addrs \ {owner} : s.acct[a] = w.acct[a]
  BY <1>2, <1>3, Retokened
<1>5. Tokens(s.acct) = Tokens(w.acct)
  <2>1. Tokens(w.acct) \in Int /\ k \in Int /\ k = w.acct[owner].zerenya
    BY <1>2, WorldTypes, BooksTyped
  <2>2. QED
    BY <1>4, <2>1
<1> DEFINE one == {owner}
           none == {}
<1>6. /\ Intercepted(one, none, s) /\ one \in SUBSET Addrs
      /\ \A a \in Addrs \ one : Held(s, a) = Held(w, a)
      /\ \A i : i \notin none => (i \in s.transfers <=> i \in w.transfers)
  BY <1>1, <1>4 DEF Held
<1> HIDE DEF one, none
<1>7. QED
  BY <1>1, <1>4, <1>5, <1>6, InterceptedKeeps

-----------------------------------------------------------------------------
(* What a call settles. *)

\* The greatest of two numbers.
LEMMA MaxOfTwo ==
    ASSUME NEW a \in Int, NEW b \in Int
    PROVE  Max({a, b}) = IF a >= b THEN a ELSE b
<1> DEFINE m == IF a >= b THEN a ELSE b
<1>1. m \in {a, b} /\ \A y \in {a, b} : m >= y
  OBVIOUS
<1>2. \A z \in {a, b} : (\A y \in {a, b} : z >= y) => z = m
  OBVIOUS
<1>3. QED
  BY <1>1, <1>2 DEF Max

\* A price is a number.
LEMMA PriceType ==
    ASSUME NEW v, WorldOk(v), NEW k \in Nat
    PROVE  Price(v, k) \in Nat
<1> DEFINE a == v.pool.zagros
           b == v.pool.zerenya
<1>1. a \in Nat /\ b \in Nat
  BY WorldTypes
<1>2. Price(v, k) = IF b = 0 THEN k ELSE Ratio(k, a, b)
  BY DEF Price, Ratio
<1> HIDE DEF a, b
<1>3. b # 0 => Ratio(k, a, b) \in Nat
  BY <1>1, RatioType
<1>4. QED
  BY <1>1, <1>2, <1>3

\* Floors, levies and factory fees are numbers.
LEMMA DuesTyped ==
    ASSUME NEW v, WorldOk(v), NEW x \in Calls
    PROVE  Floor(v, x) \in Nat /\ Levy(v, x) \in Nat /\ FactoryTotal(v, x) \in Nat
<1>1. /\ Price(v, CallFloor) \in Nat /\ Price(v, DeployLevy) \in Nat
      /\ Price(v, FactoryFee) \in Nat
  BY CallAssumption, PriceType
<1>2. x.creates \in Nat
  BY CallAssumption
<1>3. FactoryTotal(v, x) \in Nat
  <2> DEFINE p == Price(v, FactoryFee)
             c == x.creates
  <2>1. p \in Nat /\ c \in Nat /\ FactoryTotal(v, x) = c * p
    BY <1>1, <1>2 DEF FactoryTotal
  <2> HIDE DEF p, c
  <2>2. c * p \in Nat
    BY <2>1
  <2>3. QED
    BY <2>1, <2>2
<1>4. QED
  BY <1>1, <1>3 DEF Floor, Levy

\* What an account and the pool hold is written: the books move by the differences.
IsRepaid(v, b, c, z, pool, u) ==
    /\ DOMAIN u = DOMAIN v /\ u.acct = [v.acct EXCEPT ![b] = u.acct[b]]
    /\ u.acct[b] = [v.acct[b] EXCEPT !.balance = c, !.zerenya = z]
    /\ u.pool = pool /\ u.treasury = v.treasury /\ u.totalStaked = v.totalStaked
    /\ u.acc = v.acc /\ u.backed = v.backed

\* The books then move by the differences.
LEMMA Repaid ==
    ASSUME NEW v, WorldOk(v), NEW b \in Addrs, NEW c \in Nat, NEW z \in Nat,
           NEW pool \in [zagros: Nat, zerenya: Nat], NEW u, IsRepaid(v, b, c, z, pool, u)
    PROVE  /\ WorldOk(u) /\ u.acct[b].balance = c /\ u.acct[b].zerenya = z
           /\ Gold(u) = Gold(v) - v.acct[b].balance - v.pool.zagros + c + pool.zagros
           /\ Notes(u) = Notes(v) - v.acct[b].zerenya - v.pool.zerenya + z + pool.zerenya
           /\ Excess(u) = Excess(v)
<1> DEFINE old == v.acct[b]
           m == u.acct[b]
           t == [v EXCEPT !.acct[b] = m]
<1>1. AccountOk(old) /\ old.balance \in Nat /\ old.zerenya \in Nat /\ Own(old) \in Nat
      /\ old.staked \in Nat
  BY WorldTypes, AccountTypes
<1>2. m = [old EXCEPT !.balance = c, !.zerenya = z]
  BY DEF IsRepaid
<1> HIDE DEF old, m
<1>3. /\ DOMAIN m = DOMAIN old /\ m.balance = c /\ m.zerenya = z
      /\ m.staked = old.staked /\ m.pendingStake = old.pendingStake
      /\ m.unbonding = old.unbonding /\ m.debt = old.debt
  BY <1>1, <1>2 DEF AccountOk
<1>4. AccountOk(m) /\ Own(m) = Own(old) - old.balance + c
  BY <1>1, <1>3 DEF AccountOk, Own, Bonded
<1>5. /\ WorldOk(t) /\ t.pool = v.pool /\ t.treasury = v.treasury
      /\ t.totalStaked = v.totalStaked /\ t.acc = v.acc /\ t.backed = v.backed
      /\ Gold(t) = Gold(v) - Own(old) + Own(m)
      /\ Notes(t) = Notes(v) - old.zerenya + m.zerenya
      /\ Excess(t) = Excess(v) - old.staked + m.staked
  BY <1>4, Written DEF old
<1>6. t.acct = [v.acct EXCEPT ![b] = m] /\ DOMAIN t = DOMAIN v
  BY DEF WorldOk
<1> HIDE DEF t
<1>7. /\ DOMAIN u = DOMAIN t /\ u.acct = t.acct /\ u.pool = pool /\ u.treasury = t.treasury
      /\ u.totalStaked = t.totalStaked /\ u.acc = t.acc /\ u.backed = t.backed
  BY <1>5, <1>6 DEF IsRepaid, m
<1>8. /\ t.treasury \in Nat /\ t.totalStaked \in Nat /\ t.acc \in Nat /\ t.backed \in Nat
      /\ v.pool.zagros \in Nat /\ v.pool.zerenya \in Nat
      /\ pool.zagros \in Nat /\ pool.zerenya \in Nat
      /\ Gold(v) \in Int /\ Notes(v) \in Int /\ Excess(v) \in Int
      /\ Gold(t) \in Int /\ Notes(t) \in Int /\ Excess(t) \in Int
  BY <1>5, WorldTypes
<1>9. /\ WorldOk(u)
      /\ Gold(u) = Gold(t) - t.treasury - t.pool.zagros + u.treasury + u.pool.zagros
      /\ Notes(u) = Notes(t) - t.pool.zerenya + t.backed + u.pool.zerenya - u.backed
      /\ Excess(u) = Excess(t) + t.totalStaked - u.totalStaked
  <2>1. /\ u.pool \in [zagros: Nat, zerenya: Nat] /\ u.treasury \in Nat
        /\ u.totalStaked \in Nat /\ u.acc \in Nat /\ u.backed \in Nat
    BY <1>7, <1>8
  <2>2. QED
    BY <1>5, <1>7, <2>1, SameAccounts
<1>10. Gold(u) = Gold(v) - old.balance - v.pool.zagros + c + pool.zagros
  <2>1. Gold(t) = Gold(v) - old.balance + c
    BY <1>1, <1>4, <1>5, <1>8
  <2>2. Gold(u) = Gold(t) - v.pool.zagros + pool.zagros
    BY <1>5, <1>7, <1>8, <1>9
  <2>3. QED
    BY <1>1, <1>8, <2>1, <2>2
<1>11. Notes(u) = Notes(v) - old.zerenya - v.pool.zerenya + z + pool.zerenya
  <2>1. Notes(t) = Notes(v) - old.zerenya + z
    BY <1>3, <1>5
  <2>2. Notes(u) = Notes(t) - v.pool.zerenya + pool.zerenya
    BY <1>5, <1>7, <1>8, <1>9
  <2>3. QED
    BY <1>1, <1>8, <2>1, <2>2
<1>12. Excess(u) = Excess(v)
  BY <1>1, <1>3, <1>5, <1>7, <1>8, <1>9
<1>13. QED
  BY <1>3, <1>9, <1>10, <1>11, <1>12 DEF old, m

\* A world whose books, with the gas and the lost credits, are those of genesis.
Balanced(wd) ==
    /\ WorldOk(wd) /\ Gold(wd) + gas + lost = Gold(Genesis)
    /\ Notes(wd) = Notes(Genesis) /\ Excess(wd) = 0

\* The fee of a call, and its nonce, written into a world that balances.
LEMMA FeeSettled ==
    ASSUME gas \in Nat, lost \in Int, BlockOk, NEW v, Balanced(v), NEW b \in Addrs,
           NEW k \in Nat, k <= v.acct[b].balance, UNCHANGED <<lost, block>>,
           w' = [v EXCEPT !.acct[b].nonce = @ + 1, !.acct[b].balance = @ - k],
           gas' = gas + k
    PROVE  LedgerInv'
<1> DEFINE old == v.acct[b]
           n == [old EXCEPT !.nonce = @ + 1, !.balance = @ - k]
<1>1. AccountOk(old) /\ WorldOk(v)
  BY WorldTypes DEF Balanced
<1>2. w' = [v EXCEPT !.acct[b] = n]
  <2>1. DOMAIN v.acct = Addrs /\ "acct" \in DOMAIN v
    BY <1>1 DEF WorldOk
  <2>2. QED
    BY <2>1
<1>3. AccountOk(n) /\ Own(n) = Own(old) - k /\ n.zerenya = old.zerenya
      /\ n.staked = old.staked
  BY <1>1, Charged
<1> HIDE DEF n
<1>4. /\ WorldOk(w') /\ Gold(w') = Gold(v) - Own(old) + Own(n)
      /\ Notes(w') = Notes(v) - old.zerenya + n.zerenya
      /\ Excess(w') = Excess(v) - old.staked + n.staked
  <2> DEFINE t == [v EXCEPT !.acct[b] = n]
  <2>1. /\ WorldOk(t) /\ Gold(t) = Gold(v) - Own(old) + Own(n)
        /\ Notes(t) = Notes(v) - old.zerenya + n.zerenya
        /\ Excess(t) = Excess(v) - old.staked + n.staked
    BY <1>1, <1>3, Written
  <2>2. w' = t
    BY <1>2
  <2> HIDE DEF t, old
  <2>3. QED
    BY <2>1, <2>2
<1>5. /\ Own(old) \in Int /\ old.zerenya \in Int /\ old.staked \in Int
      /\ Gold(v) \in Int /\ Notes(v) \in Int /\ Excess(v) \in Int
  BY <1>1, AccountTypes, WorldTypes
<1> HIDE DEF old
<1>6. Gold(v) + gas + lost = Gold(Genesis) /\ Notes(v) = Notes(Genesis) /\ Excess(v) = 0
  BY DEF Balanced
<1>7. gas' \in Nat /\ lost' \in Int /\ Gold(w') + gas' + lost' = Gold(Genesis)
  BY <1>3, <1>4, <1>5, <1>6
<1>8. Notes(w') = Notes(Genesis) /\ Excess(w') = 0
  BY <1>3, <1>4, <1>5, <1>6
<1>9. BlockOk'
  BY DEF BlockOk, block
<1>10. QED
  BY <1>4, <1>7, <1>8, <1>9 DEF LedgerInv

\* The checkpoint is reverted and the fee kept.
LEMMA FailedKeeps ==
    ASSUME LedgerInv, NEW v, Balanced(v), NEW x \in Calls, NEW metered \in Nat,
           metered <= v.acct[x.from].balance, Floor(v, x) <= v.acct[x.from].balance,
           CallFailed(v, x, metered), UNCHANGED <<lost, block>>
    PROVE  LedgerInv'
<1> DEFINE due == Max({metered, Floor(v, x)})
           b == x.from
<1>1. b \in Addrs /\ Floor(v, x) \in Nat
  BY CallAssumption, DuesTyped DEF Balanced
<1>2. due = IF metered >= Floor(v, x) THEN metered ELSE Floor(v, x)
  BY <1>1, MaxOfTwo
<1>3. /\ w' = [v EXCEPT !.acct[b].nonce = @ + 1, !.acct[b].balance = @ - due]
      /\ gas' = gas + due
  BY DEF CallFailed
<1> HIDE DEF due
<1>4. due \in Nat /\ due <= v.acct[b].balance
  BY <1>1, <1>2
<1>5. gas \in Nat /\ lost \in Int /\ BlockOk
  BY DEF LedgerInv
<1>6. QED
  BY <1>1, <1>3, <1>4, <1>5, FeeSettled

\* The fee of a call that succeeds, as far as the balance goes.
LEMMA SettledKeeps ==
    ASSUME LedgerInv, NEW v, Balanced(v), NEW x \in Calls, NEW due \in Nat,
           CallSettled(v, x, due), UNCHANGED <<lost, block>>
    PROVE  LedgerInv'
<1> DEFINE b == x.from
           k == Min({due, v.acct[b].balance})
<1>1. b \in Addrs /\ v.acct[b].balance \in Nat
  BY CallAssumption, WorldTypes, AccountTypes DEF Balanced
<1>2. k = IF due <= v.acct[b].balance THEN due ELSE v.acct[b].balance
  BY <1>1, MinOfTwo
<1>3. /\ w' = [v EXCEPT !.acct[b].nonce = @ + 1, !.acct[b].balance = @ - k]
      /\ gas' = gas + k
  BY DEF CallSettled
<1> HIDE DEF k
<1>4. k \in Nat /\ k <= v.acct[b].balance
  BY <1>1, <1>2
<1>5. gas \in Nat /\ lost \in Int /\ BlockOk
  BY DEF LedgerInv
<1>6. QED
  BY <1>1, <1>3, <1>4, <1>5, FeeSettled

\* A balance alone is written.
IsRebalanced(v, b, c, u) == u = [v EXCEPT !.acct[b].balance = c]

\* ZAGROS then moves by the difference, and nothing else does.
LEMMA Rebalanced ==
    ASSUME NEW v, WorldOk(v), NEW b \in Addrs, NEW c \in Nat, NEW u, IsRebalanced(v, b, c, u)
    PROVE  /\ WorldOk(u) /\ u.acct[b].balance = c
           /\ Gold(u) = Gold(v) - v.acct[b].balance + c
           /\ Notes(u) = Notes(v) /\ Excess(u) = Excess(v)
<1> DEFINE old == v.acct[b]
           z == old.zerenya
           pool == v.pool
<1>1. AccountOk(old) /\ old.balance \in Nat /\ z \in Nat
  BY WorldTypes, AccountTypes
<1>2. /\ pool \in [zagros: Nat, zerenya: Nat] /\ pool.zagros \in Nat /\ pool.zerenya \in Nat
      /\ Gold(v) \in Int /\ Notes(v) \in Int
  BY WorldTypes DEF WorldOk
<1>3. IsRepaid(v, b, c, z, pool, u)
  <2>1. [old EXCEPT !.balance = c] = [old EXCEPT !.balance = c, !.zerenya = z]
    <3> HIDE DEF old
    <3>1. QED
      BY <1>1 DEF AccountOk
  <2>2. /\ DOMAIN u = DOMAIN v /\ u.acct = [v.acct EXCEPT ![b] = [old EXCEPT !.balance = c]]
        /\ u.pool = pool /\ u.treasury = v.treasury /\ u.totalStaked = v.totalStaked
        /\ u.acc = v.acc /\ u.backed = v.backed
    BY DEF WorldOk, IsRebalanced
  <2>3. u.acct[b] = [old EXCEPT !.balance = c]
    BY <2>2 DEF WorldOk
  <2> HIDE DEF old
  <2>4. QED
    BY <2>1, <2>2, <2>3 DEF IsRepaid, old
<1>4. /\ WorldOk(u) /\ u.acct[b].balance = c
      /\ Gold(u) = Gold(v) - old.balance - pool.zagros + c + pool.zagros
      /\ Notes(u) = Notes(v) - z - pool.zerenya + z + pool.zerenya
      /\ Excess(u) = Excess(v)
  <2> HIDE DEF z, pool
  <2>1. /\ WorldOk(u) /\ u.acct[b].balance = c
        /\ Gold(u) = Gold(v) - v.acct[b].balance - v.pool.zagros + c + pool.zagros
        /\ Notes(u) = Notes(v) - v.acct[b].zerenya - v.pool.zerenya + z + pool.zerenya
        /\ Excess(u) = Excess(v)
    BY <1>1, <1>2, <1>3, Repaid
  <2>2. QED
    BY <2>1 DEF z, pool
<1> HIDE DEF old, z, pool
<1>5. Gold(u) = Gold(v) - old.balance + c /\ Notes(u) = Notes(v)
  BY <1>1, <1>2, <1>4
<1>6. QED
  BY <1>4, <1>5 DEF old

\* commit: the gas leaves the sender's balance, the value goes to the recipient.
LEMMA CommitKeeps ==
    ASSUME NEW v, WorldOk(v), NEW x \in Calls, v.acct[x.from].balance >= x.fee + x.amt
    PROVE  LET u == Committed(v, x)
           IN  /\ WorldOk(u) /\ Gold(u) = Gold(v) - x.used
               /\ Notes(u) = Notes(v) /\ Excess(u) = Excess(v)
<1> DEFINE from == x.from
           to == x.to
           old == v.acct[from].balance
           c == old - x.used - x.amt
           p == [v EXCEPT !.acct[from].balance = c]
           d == p.acct[to].balance + x.amt
           u == [p EXCEPT !.acct[to].balance = d]
<1>1. /\ from \in Addrs /\ to \in Addrs /\ x.amt \in Nat /\ x.fee \in Nat /\ x.used \in Nat
      /\ x.used <= x.fee
  BY CallAssumption
<1>2. old \in Nat
  BY <1>1, WorldTypes, AccountTypes
<1>3. Committed(v, x) = u
  BY DEF Committed
<1>4. c \in Nat /\ c = old - x.used - x.amt
  <2>1. old >= x.fee + x.amt
    OBVIOUS
  <2> HIDE DEF old
  <2>2. QED
    BY <1>1, <1>2, <2>1
<1> HIDE DEF u
<1>5. /\ WorldOk(p) /\ Gold(p) = Gold(v) - old + c
      /\ Notes(p) = Notes(v) /\ Excess(p) = Excess(v)
  <2>1. IsRebalanced(v, from, c, p)
    BY DEF IsRebalanced
  <2> HIDE DEF c, p
  <2>2. QED
    BY <1>1, <1>4, <2>1, Rebalanced
<1> HIDE DEF p, c, old
<1>6. d \in Nat /\ p.acct[to].balance \in Nat
  BY <1>1, <1>5, WorldTypes, AccountTypes
<1>7. IsRebalanced(p, to, d, u)
  BY DEF u, IsRebalanced
<1>8. /\ WorldOk(u) /\ Gold(u) = Gold(p) - p.acct[to].balance + d
      /\ Notes(u) = Notes(p) /\ Excess(u) = Excess(p)
  <2> HIDE DEF d
  <2>1. QED
    BY <1>1, <1>5, <1>6, <1>7, Rebalanced
<1>9. Gold(v) \in Int
  BY WorldTypes
<1>10. Gold(u) = Gold(v) - x.used
  BY <1>1, <1>2, <1>4, <1>5, <1>6, <1>8, <1>9
<1>11. QED
  BY <1>3, <1>5, <1>8, <1>10

\* The checkpoint of a call balances, as the world does that the call has written.
LEMMA SavedBalanced ==
    ASSUME EvmInv, Running
    PROVE  /\ Balanced(w) /\ Balanced(call.saved) /\ call.x \in Calls
           /\ call.saved.acct[call.x.from].balance \in Nat
           /\ w.acct[call.x.from].balance = call.saved.acct[call.x.from].balance
           /\ call.saved.acct[call.x.from].balance >= call.x.fee + call.x.amt
           /\ call.saved.acct[call.x.from].balance >= Floor(call.saved, call.x)
<1>1. /\ WorldOk(call.saved) /\ Beside(call.saved, w) /\ call.x \in Calls
      /\ Tokens(w.acct) = Tokens(call.saved.acct)
      /\ call.saved.acct[call.x.from].balance >= call.x.fee + call.x.amt
      /\ call.saved.acct[call.x.from].balance >= Floor(call.saved, call.x)
  BY DEF EvmInv, CallInv
<1>2. Balanced(w) /\ WorldOk(w)
  BY DEF EvmInv, LedgerInv, Balanced
<1>3. Gold(w) = Gold(call.saved) /\ Excess(w) = Excess(call.saved) /\ Notes(w) = Notes(call.saved)
  BY <1>1, <1>2, BesideBooks
<1>4. Balanced(call.saved)
  BY <1>1, <1>2, <1>3 DEF Balanced
<1>5. call.x.from \in Addrs
  BY <1>1, CallAssumption
<1>6. call.saved.acct[call.x.from].balance \in Nat
  BY <1>1, <1>5, WorldTypes, AccountTypes
<1>7. w.acct[call.x.from].balance = call.saved.acct[call.x.from].balance
  BY <1>1, <1>5 DEF Beside
<1>8. QED
  BY <1>1, <1>2, <1>4, <1>6, <1>7

\* A call that is over has no frame.
LEMMA Ended == call' = Done => CallInv'
BY DEF Done, CallInv, Running

\* call_end with a revert.
LEMMA RevertKeeps ==
    ASSUME EvmInv, RevertCall
    PROVE  EvmInv'
<1> DEFINE x == call.x
           v == call.saved
           k == x.used
<1>1. Running /\ CallFailed(v, x, k) /\ call' = Done /\ UNCHANGED <<lost, block>>
  BY DEF RevertCall
<1>2. /\ Balanced(v) /\ x \in Calls /\ v.acct[x.from].balance \in Nat
      /\ v.acct[x.from].balance >= x.fee + x.amt /\ v.acct[x.from].balance >= Floor(v, x)
  BY <1>1, SavedBalanced
<1> HIDE DEF x, v
<1>3. /\ x.fee \in Nat /\ x.amt \in Nat /\ k \in Nat /\ k <= x.fee /\ Floor(v, x) \in Nat
  BY <1>2, CallAssumption, DuesTyped DEF Balanced
<1> HIDE DEF k
<1>4. k <= v.acct[x.from].balance /\ Floor(v, x) <= v.acct[x.from].balance
  BY <1>2, <1>3
<1>5. LedgerInv'
  BY <1>1, <1>2, <1>3, <1>4, FailedKeeps DEF EvmInv
<1>6. QED
  BY <1>1, <1>5, Ended DEF EvmInv

\* A call that ends well: its commit, its rewards, the factory's fee and the rest.
LEMMA FinishKeeps ==
    ASSUME EvmInv, FinishCall
    PROVE  EvmInv'
<1> DEFINE x == call.x
           v == call.saved
           b == x.from
           k == x.used
           done == Committed(w, x)
           earned == Distribute(done, k)
           fee == FactoryTotal(earned, x)
           spent == [earned EXCEPT !.acct[b].balance = @ - fee]
           built == Distribute(spent, fee)
           floor == IF x.creates > 0 THEN 0 ELSE Floor(v, x)
           due == Monus(floor, k) + Levy(v, x)
<1>1. /\ Running /\ call' = Done /\ UNCHANGED <<lost, block>>
      /\ IF earned.acct[b].balance < fee THEN CallFailed(v, x, k) ELSE CallSettled(built, x, due)
  BY DEF FinishCall
<1>2. /\ Balanced(w) /\ Balanced(v) /\ x \in Calls /\ v.acct[b].balance \in Nat
      /\ w.acct[b].balance = v.acct[b].balance
      /\ v.acct[b].balance >= x.fee + x.amt /\ v.acct[b].balance >= Floor(v, x)
  BY <1>1, SavedBalanced
<1> HIDE DEF x, v
<1>3. /\ x.fee \in Nat /\ x.amt \in Nat /\ k \in Nat /\ k <= x.fee /\ b \in Addrs
      /\ Floor(v, x) \in Nat /\ Levy(v, x) \in Nat
  BY <1>2, CallAssumption, DuesTyped DEF Balanced
<1>4. BlockOk /\ LedgerInv /\ gas \in Nat /\ lost \in Int
  BY DEF EvmInv, LedgerInv
<1>5. /\ WorldOk(done) /\ Gold(done) = Gold(w) - k
      /\ Notes(done) = Notes(w) /\ Excess(done) = Excess(w)
  BY <1>2, CommitKeeps DEF Balanced
<1> HIDE DEF done, k
<1>6. /\ WorldOk(earned) /\ Gold(earned) = Gold(done) + k
      /\ Notes(earned) = Notes(done) /\ Excess(earned) = Excess(done)
  BY <1>3, <1>4, <1>5, Distributed
<1>7. Gold(w) \in Int /\ Gold(earned) = Gold(w)
  BY <1>2, <1>3, <1>5, <1>6, WorldTypes DEF Balanced
<1> HIDE DEF earned
<1>8. fee \in Nat /\ earned.acct[b].balance \in Nat
  BY <1>2, <1>3, <1>6, DuesTyped, WorldTypes, AccountTypes
<1> HIDE DEF fee
<1>9. CASE earned.acct[b].balance < fee
  <2>1. CallFailed(v, x, k)
    BY <1>1, <1>9
  <2>2. k <= v.acct[x.from].balance /\ Floor(v, x) <= v.acct[x.from].balance
    BY <1>2, <1>3
  <2>3. LedgerInv'
    BY <1>1, <1>2, <1>3, <1>4, <2>1, <2>2, FailedKeeps
  <2>4. QED
    BY <1>1, <2>3, Ended DEF EvmInv
<1>10. CASE ~(earned.acct[b].balance < fee)
  <2> DEFINE c == earned.acct[b].balance - fee
  <2>1. c \in Nat /\ IsRebalanced(earned, b, c, spent)
    BY <1>8, <1>10 DEF IsRebalanced
  <2> HIDE DEF spent
  <2>2. /\ WorldOk(spent) /\ Gold(spent) = Gold(earned) - earned.acct[b].balance + c
        /\ Notes(spent) = Notes(earned) /\ Excess(spent) = Excess(earned)
    <3> HIDE DEF c
    <3>1. QED
      BY <1>3, <1>6, <2>1, Rebalanced
  <2>3. /\ WorldOk(built) /\ Gold(built) = Gold(spent) + fee
        /\ Notes(built) = Notes(spent) /\ Excess(built) = Excess(spent)
    BY <1>4, <1>8, <2>2, Distributed
  <2> HIDE DEF built
  <2>4. Gold(built) = Gold(w)
    BY <1>7, <1>8, <2>2, <2>3
  <2>5. Balanced(built)
    BY <1>2, <1>5, <1>6, <2>2, <2>3, <2>4 DEF Balanced
  <2>6. due \in Nat
    <3>1. floor \in Nat
      BY <1>3
    <3> HIDE DEF floor
    <3>2. Monus(floor, k) \in Nat
      BY <1>3, <3>1 DEF Monus
    <3>3. QED
      BY <1>3, <3>2
  <2>7. CallSettled(built, x, due)
    BY <1>1, <1>10
  <2> HIDE DEF due
  <2>8. LedgerInv'
    BY <1>1, <1>2, <1>4, <2>5, <2>6, <2>7, SettledKeeps
  <2>9. QED
    BY <1>1, <2>8, Ended DEF EvmInv
<1>11. QED
  BY <1>9, <1>10

\* A call begins: its checkpoint is the world of now, its first frame is new.
LEMMA BeginKeeps ==
    ASSUME EvmInv, NEW x \in Calls, BeginCall(x)
    PROVE  EvmInv'
<1>1. /\ CallAdmitted(x) /\ w.acct[x.from].balance >= x.fee + x.amt
      /\ call' = [x |-> x, saved |-> w, frames |-> <<NewFrame>>, at |-> <<View(w)>>, ops |-> 0]
      /\ w' = w /\ UNCHANGED <<gas, lost, block>>
  BY DEF BeginCall
<1>2. WorldOk(w) /\ x.from \in Addrs /\ x.fee \in Nat
  BY CallAssumption DEF EvmInv, LedgerInv
<1>3. Floor(w, x) \in Nat /\ Levy(w, x) \in Nat /\ w.acct[x.from].balance \in Nat
  BY <1>2, DuesTyped, WorldTypes, AccountTypes
<1>4. w.acct[x.from].balance >= Floor(w, x)
  <2> DEFINE f == Floor(w, x)
             m == Max({x.fee, f})
  <2>1. m = (IF x.fee >= f THEN x.fee ELSE f) /\ w.acct[x.from].balance >= m + Levy(w, x)
    BY <1>1, <1>2, <1>3, MaxOfTwo DEF CallAdmitted
  <2> HIDE DEF m, f
  <2>2. f \in Nat
    BY <1>3 DEF f
  <2>3. QED
    BY <1>2, <1>3, <2>1, <2>2 DEF f
<1>5. StackOk(<<NewFrame>>, <<View(w)>>, View(w))
  <2> DEFINE v == View(w)
             f == NewFrame
  <2>1. ViewOk(v) /\ FrameOk(f) /\ Undone(v, f) = v
    BY <1>2, HeldOk, UndoneNew
  <2> HIDE DEF v, f
  <2>2. IsSeq(<<f>>) /\ IsSeq(<<v>>)
    <3>1. <<f>> \in Seq({f}) /\ <<v>> \in Seq({v})
      OBVIOUS
    <3>2. QED
      BY <3>1 DEF IsSeq
  <2>3. Len(<<f>>) = 1 /\ Len(<<v>>) = 1 /\ <<f>>[1] = f /\ <<v>>[1] = v
    OBVIOUS
  <2>4. \A i \in 1 .. Len(<<f>>) : i = 1
    BY <2>3
  <2>5. QED
    BY <2>1, <2>2, <2>3, <2>4 DEF StackOk, v, f
<1>6. Beside(w, w)
  BY DEF Beside, SameTerms
<1>7. /\ DOMAIN call' = {"x", "saved", "frames", "at", "ops"} /\ call'.x = x /\ call'.saved = w
      /\ call'.frames = <<NewFrame>> /\ call'.at = <<View(w)>>
  BY <1>1
<1>8. CallInv'
  BY <1>1, <1>2, <1>4, <1>5, <1>6, <1>7 DEF CallInv
<1>9. LedgerInv'
  BY <1>1, LedgerSame DEF EvmInv
<1>10. QED
  BY <1>8, <1>9 DEF EvmInv

\* A swap written beside revm: the account and the pool change hands, the fee is earned.
LEMMA SwapBalanced ==
    ASSUME BlockOk, gas \in Nat, lost \in Int, Balanced(w),
           NEW v, WorldOk(v), Gold(v) = Gold(w), Notes(v) = Notes(w), Excess(v) = Excess(w),
           v.acct = w.acct, v.pool = w.pool, NEW b \in Addrs, NEW c \in Nat, NEW z \in Nat,
           NEW pool \in [zagros: Nat, zerenya: Nat], NEW fee \in Nat, NEW u,
           IsRepaid(v, b, c, z, pool, u),
           c + pool.zagros + fee = w.acct[b].balance + w.pool.zagros,
           z + pool.zerenya = w.acct[b].zerenya + w.pool.zerenya
    PROVE  Balanced(Distribute(u, fee))
<1> DEFINE t == Distribute(u, fee)
<1>1. /\ WorldOk(u)
      /\ Gold(u) = Gold(v) - v.acct[b].balance - v.pool.zagros + c + pool.zagros
      /\ Notes(u) = Notes(v) - v.acct[b].zerenya - v.pool.zerenya + z + pool.zerenya
      /\ Excess(u) = Excess(v)
  BY Repaid
<1>2. /\ WorldOk(t) /\ Gold(t) = Gold(u) + fee /\ Notes(t) = Notes(u) /\ Excess(t) = Excess(u)
  BY <1>1, Distributed
<1> HIDE DEF t
<1>3. /\ w.acct[b].balance \in Nat /\ w.acct[b].zerenya \in Nat /\ w.pool.zagros \in Nat
      /\ w.pool.zerenya \in Nat /\ pool.zagros \in Nat /\ pool.zerenya \in Nat
      /\ Gold(w) \in Int /\ Notes(w) \in Int
  BY WorldTypes, AccountTypes DEF Balanced
<1> DEFINE bal == w.acct[b].balance
           tok == w.acct[b].zerenya
           pg == w.pool.zagros
           pz == w.pool.zerenya
           ng == pool.zagros
           nz == pool.zerenya
<1>4. /\ Gold(t) = (Gold(w) - bal - pg + c + ng) + fee /\ c + ng + fee = bal + pg
      /\ Notes(t) = Notes(w) - tok - pz + z + nz /\ z + nz = tok + pz
      /\ bal \in Int /\ tok \in Int /\ pg \in Int /\ pz \in Int /\ ng \in Int /\ nz \in Int
  BY <1>1, <1>2, <1>3
<1> HIDE DEF bal, tok, pg, pz, ng, nz
<1>5. Gold(t) = Gold(w) /\ Notes(t) = Notes(w)
  <2>1. \A g, h, i, j, k, l \in Int : j + k + l = h + i => (g - h - i + j + k) + l = g
    OBVIOUS
  <2>2. \A g, h, i, j, k \in Int : j + k = h + i => g - h - i + j + k = g
    OBVIOUS
  <2>3. c \in Int /\ z \in Int /\ fee \in Int /\ Gold(w) \in Int /\ Notes(w) \in Int
    BY <1>3
  <2>4. Gold(t) = Gold(w)
    BY <1>4, <2>1, <2>3
  <2>5. Notes(t) = Notes(w)
    BY <1>4, <2>2, <2>3
  <2>6. QED
    BY <2>4, <2>5
<1>6. QED
  BY <1>1, <1>2, <1>5 DEF Balanced, t

\* swapSell and swapBuy sent to the token.
LEMMA EvmSwapKeeps ==
    ASSUME EvmInv, NEW x \in Calls, EvmSwap(x)
    PROVE  EvmInv'
<1> DEFINE b == x.from
           d == IF x.type = "evm_sell" THEN "zagros_in" ELSE "zerenya_in"
           reserve == IF d = "zagros_in" THEN w.pool.zagros ELSE w.pool.zerenya
           volumes == VolumeRecorded(w, d, x.amt, reserve)
           quotes == {q \in IF d = "zagros_in" THEN SellQuote(w, x.amt) ELSE BuyQuote(w, x.amt) :
                         IF d = "zagros_in" THEN w.acct[b].balance >= x.fee + x.amt
                         ELSE w.acct[b].zerenya >= x.amt /\ w.acct[b].balance >= x.fee}
           due == Max({x.fee, Floor(w, x)})
           repaid(v, q) == [v EXCEPT !.pool = q.pool,
                                !.acct[b].balance =
                                    IF d = "zagros_in" THEN @ - x.amt ELSE @ + q.out,
                                !.acct[b].zerenya =
                                    IF d = "zagros_in" THEN @ + q.out ELSE @ - x.amt]
<1>1. /\ CallAdmitted(x) /\ call' = Done /\ UNCHANGED <<lost, block>>
      /\ \/ \E p \in volumes \X quotes : CallSettled(Distribute(repaid(p[1], p[2]), p[2].fee), x, due)
         \/ CallFailed(w, x, x.fee)
  BY DEF EvmSwap
<1>2. /\ Balanced(w) /\ BlockOk /\ LedgerInv /\ gas \in Nat /\ lost \in Int
  BY DEF EvmInv, LedgerInv, Balanced
<1>3. /\ x.fee \in Nat /\ x.amt \in Nat /\ b \in Addrs /\ WorldOk(w)
      /\ Floor(w, x) \in Nat /\ Levy(w, x) \in Nat
  BY <1>2, CallAssumption, DuesTyped DEF Balanced
<1>4. AccountOk(w.acct[b]) /\ w.acct[b].balance \in Nat /\ w.acct[b].zerenya \in Nat
  BY <1>3, WorldTypes, AccountTypes
<1>5. due \in Nat /\ due >= x.fee /\ due >= Floor(w, x) /\ w.acct[b].balance >= due + Levy(w, x)
  <2> DEFINE f == Floor(w, x)
  <2>1. due = Max({x.fee, f}) /\ w.acct[b].balance >= due + Levy(w, x)
    BY <1>1 DEF CallAdmitted
  <2>2. f \in Nat
    BY <1>3
  <2> HIDE DEF f
  <2>3. Max({x.fee, f}) = (IF x.fee >= f THEN x.fee ELSE f)
    BY <1>3, <2>2, MaxOfTwo
  <2> HIDE DEF due
  <2>4. due \in Nat /\ due >= x.fee /\ due >= f
    BY <1>3, <2>1, <2>2, <2>3
  <2>5. QED
    BY <2>1, <2>4 DEF f
<1> HIDE DEF due
<1>6. CASE CallFailed(w, x, x.fee)
  <2>1. x.fee <= w.acct[x.from].balance /\ Floor(w, x) <= w.acct[x.from].balance
    BY <1>3, <1>4, <1>5
  <2>2. LedgerInv'
    BY <1>1, <1>2, <1>3, <1>6, <2>1, FailedKeeps
  <2>3. QED
    BY <1>1, <2>2, Ended DEF EvmInv
<1>7. CASE \E p \in volumes \X quotes : CallSettled(Distribute(repaid(p[1], p[2]), p[2].fee), x, due)
  <2>1. PICK v \in volumes, q \in quotes : CallSettled(Distribute(repaid(v, q), q.fee), x, due)
    BY <1>7
  <2> DEFINE u == repaid(v, q)
             c == IF d = "zagros_in" THEN w.acct[b].balance - x.amt ELSE w.acct[b].balance + q.out
             z == IF d = "zagros_in" THEN w.acct[b].zerenya + q.out ELSE w.acct[b].zerenya - x.amt
  <2>2. /\ WorldOk(v) /\ Gold(v) = Gold(w) /\ Notes(v) = Notes(w) /\ Excess(v) = Excess(w)
        /\ v.acct = w.acct /\ v.pool = w.pool
    BY <1>3, <2>1, VolumeNoted
  <2>3. /\ q.out \in Nat /\ q.fee \in Nat /\ q.pool \in [zagros: Nat, zerenya: Nat]
        /\ c \in Nat /\ z \in Nat
        /\ c + q.pool.zagros + q.fee = w.acct[b].balance + w.pool.zagros
        /\ z + q.pool.zerenya = w.acct[b].zerenya + w.pool.zerenya
    <3>1. w.pool.zagros \in Nat /\ w.pool.zerenya \in Nat
      BY <1>3, WorldTypes
    <3>2. CASE d = "zagros_in"
      <4>1. q \in SellQuote(w, x.amt) /\ w.acct[b].balance >= x.fee + x.amt
        BY <2>1, <3>2
      <4>2. /\ q.out \in Nat /\ q.fee \in Nat /\ q.pool \in [zagros: Nat, zerenya: Nat]
            /\ q.pool.zagros + q.fee = w.pool.zagros + x.amt
            /\ q.pool.zerenya + q.out = w.pool.zerenya
        BY <1>3, <4>1, SellQuoted
      <4>3. q.pool.zagros \in Nat /\ q.pool.zerenya \in Nat
        BY <4>2
      <4>4. c = w.acct[b].balance - x.amt /\ z = w.acct[b].zerenya + q.out
        BY <3>2
      <4> HIDE DEF c, z
      <4>5. c \in Nat /\ z \in Nat
        BY <1>3, <1>4, <4>1, <4>2, <4>4
      <4>6. c + q.pool.zagros + q.fee = w.acct[b].balance + w.pool.zagros
        <5>1. \A g, h, i, j, k \in Int : i + j = h + k => (g - k) + i + j = g + h
          OBVIOUS
        <5>2. /\ w.acct[b].balance \in Int /\ w.pool.zagros \in Int /\ q.pool.zagros \in Int
              /\ x.amt \in Int /\ q.fee \in Int
          BY <1>3, <1>4, <3>1, <4>2, <4>3
        <5>3. (w.acct[b].balance - x.amt) + q.pool.zagros + q.fee
                 = w.acct[b].balance + w.pool.zagros
          BY <4>2, <5>1, <5>2
        <5>4. QED
          BY <4>4, <5>3
      <4>7. z + q.pool.zerenya = w.acct[b].zerenya + w.pool.zerenya
        BY <1>3, <1>4, <3>1, <4>2, <4>3, <4>4
      <4>8. QED
        BY <4>2, <4>5, <4>6, <4>7
    <3>3. CASE d # "zagros_in"
      <4>1. /\ q \in BuyQuote(w, x.amt) /\ w.acct[b].zerenya >= x.amt
            /\ w.acct[b].balance >= x.fee
        BY <2>1, <3>3
      <4>2. /\ q.out \in Nat /\ q.fee \in Nat /\ q.pool \in [zagros: Nat, zerenya: Nat]
            /\ q.pool.zagros + q.out + q.fee = w.pool.zagros
            /\ q.pool.zerenya = w.pool.zerenya + x.amt
        BY <1>3, <4>1, BuyQuoted
      <4>3. q.pool.zagros \in Nat /\ q.pool.zerenya \in Nat
        BY <4>2
      <4>4. c = w.acct[b].balance + q.out /\ z = w.acct[b].zerenya - x.amt
        BY <3>3
      <4> HIDE DEF c, z
      <4>5. c \in Nat /\ z \in Nat
        BY <1>3, <1>4, <4>1, <4>2, <4>4
      <4>6. c + q.pool.zagros + q.fee = w.acct[b].balance + w.pool.zagros
        <5>1. \A g, h, i, j, k \in Int : i + j + k = h => (g + j) + i + k = g + h
          OBVIOUS
        <5>2. /\ w.acct[b].balance \in Int /\ w.pool.zagros \in Int /\ q.pool.zagros \in Int
              /\ q.out \in Int /\ q.fee \in Int
          BY <1>4, <3>1, <4>2, <4>3
        <5>3. (w.acct[b].balance + q.out) + q.pool.zagros + q.fee
                 = w.acct[b].balance + w.pool.zagros
          BY <4>2, <5>1, <5>2
        <5>4. QED
          BY <4>4, <5>3
      <4>7. z + q.pool.zerenya = w.acct[b].zerenya + w.pool.zerenya
        BY <1>3, <1>4, <3>1, <4>2, <4>3, <4>4
      <4>8. QED
        BY <4>2, <4>5, <4>6, <4>7
    <3>4. QED
      BY <3>2, <3>3
  <2>4. IsRepaid(v, b, c, z, q.pool, u)
    <3> DEFINE old == v.acct[b]
               m == [old EXCEPT !.balance = c, !.zerenya = z]
    <3>1. old = w.acct[b]
      BY <2>2
    <3>2. u = [v EXCEPT !.pool = q.pool, !.acct[b].balance = c, !.acct[b].zerenya = z]
      BY <3>1
    <3> HIDE DEF u, c, z
    <3>3. /\ DOMAIN u = DOMAIN v /\ u.acct = [v.acct EXCEPT ![b] = m]
          /\ u.pool = q.pool /\ u.treasury = v.treasury /\ u.totalStaked = v.totalStaked
          /\ u.acc = v.acc /\ u.backed = v.backed
      BY <1>3, <2>2, <3>2 DEF WorldOk
    <3>4. u.acct[b] = m
      BY <1>3, <2>2, <3>3 DEF WorldOk
    <3>5. QED
      BY <3>3, <3>4 DEF IsRepaid
  <2> DEFINE fee == q.fee
             pool == q.pool
             after == Distribute(u, fee)
  <2>5. CallSettled(after, x, due)
    BY <2>1
  <2> HIDE DEF u, c, z, fee, pool
  <2>6. Balanced(after)
    <3>1. /\ fee \in Nat /\ pool \in [zagros: Nat, zerenya: Nat] /\ c \in Nat /\ z \in Nat
          /\ IsRepaid(v, b, c, z, pool, u)
          /\ c + pool.zagros + fee = w.acct[b].balance + w.pool.zagros
          /\ z + pool.zerenya = w.acct[b].zerenya + w.pool.zerenya
      BY <2>3, <2>4 DEF fee, pool
    <3>2. QED
      BY <1>2, <1>3, <2>2, <3>1, SwapBalanced
  <2> HIDE DEF after
  <2>7. LedgerInv'
    BY <1>1, <1>2, <1>5, <2>5, <2>6, SettledKeeps
  <2>8. QED
    BY <1>1, <2>7, Ended DEF EvmInv
<1>8. QED
  BY <1>1, <1>6, <1>7

-----------------------------------------------------------------------------
(* Native transactions and calls, one after the other. *)

\* Every step, of a native transaction or of a call, keeps the books and the frames.
LEMMA EvmKeeps ==
    ASSUME EvmInv, [EvmNext]_evmVars
    PROVE  EvmInv'
<1>1. CASE ~Running /\ Next /\ UNCHANGED call
  <2>1. LedgerInv'
    BY <1>1, LedgerKeeps DEF EvmInv
  <2>2. CallInv'
    BY <1>1 DEF CallInv, Running
  <2>3. QED
    BY <2>1, <2>2 DEF EvmInv
<1>2. CASE \E x \in Calls : BeginCall(x) \/ EvmSwap(x)
  BY <1>2, BeginKeeps, EvmSwapKeeps
<1>3. CASE \E from \in Addrs, to \in Payees, n \in Moves :
              TransferZerenya(from, to, n) \/ Approve(from, to, n)
  BY <1>3, TransferZerenyaKeeps, ApproveKeeps
<1>4. CASE \E spender \in Contracts, owner \in Addrs, to \in Payees, n \in Moves :
              TransferFrom(spender, owner, to, n)
  BY <1>4, TransferFromKeeps
<1>5. CASE EnterFrame
  BY <1>5, EnterKeeps
<1>6. CASE \E ok \in BOOLEAN : ExitFrame(ok)
  BY <1>6, ExitKeeps
<1>7. CASE FinishCall
  BY <1>7, FinishKeeps
<1>8. CASE RevertCall
  BY <1>8, RevertKeeps
<1>9. CASE UNCHANGED evmVars
  BY <1>9 DEF EvmInv, LedgerInv, BlockOk, CallInv, Running, evmVars
<1>10. QED
  BY <1>1, <1>2, <1>3, <1>4, <1>5, <1>6, <1>7, <1>8, <1>9 DEF EvmNext

\* The ledger's books balance at every step of native transactions and EVM calls, and
\* every frame of a call in flight can restore what it found.
THEOREM EvmInvariant == EvmSpec => []EvmInv
<1>1. EvmInit => EvmInv
  <2> SUFFICES ASSUME EvmInit PROVE EvmInv
    OBVIOUS
  <2>1. LedgerInv
    BY LedgerStarts DEF EvmInit
  <2>2. ~Running
    BY DEF EvmInit, Idle, Running
  <2>3. QED
    BY <2>1, <2>2 DEF EvmInv, CallInv
<1>2. EvmInv /\ [EvmNext]_evmVars => EvmInv'
  BY EvmKeeps
<1>3. QED
  BY <1>1, <1>2, PTL DEF EvmSpec

\* No mixture of native transactions and EVM calls, committed, reverted or halted, makes or
\* destroys ZAGROS but for the credits that an arm's last write takes back.
THEOREM SupplyAccountedHolds == EvmSpec => []SupplyAccounted
<1>1. EvmInv => SupplyAccounted
  BY SupplyOf DEF EvmInv
<1>2. QED
  BY <1>1, EvmInvariant, PTL

\* Nor does a call disturb the divisor of the rewards.
THEOREM TotalStakedExactHolds == EvmSpec => []TotalStakedExact
<1>1. EvmInv => TotalStakedExact
  BY StakesTotalled DEF EvmInv
<1>2. QED
  BY <1>1, EvmInvariant, PTL

\* ZERENYA that contracts move in the middle of a call, and take back, stays backed.
THEOREM ZerenyaBackedHolds == EvmSpec => []ZerenyaBacked
<1>1. EvmInv => ZerenyaBacked
  BY NotesBacked DEF EvmInv
<1>2. QED
  BY <1>1, EvmInvariant, PTL

\* A reverted frame leaves every balance, allowance and record of ZERENYA as it found them,
\* however deep it was and whatever the frames inside it did.
THEOREM RevertExactHolds == EvmSpec => RevertExact
<1>1. EvmInv /\ [EvmNext]_evmVars => [ExitFrame(FALSE) => View(w') = Last(call.at)]_evmVars
  BY ExitKeeps
<1>2. QED
  BY <1>1, EvmInvariant, PTL DEF EvmSpec, RevertExact

-----------------------------------------------------------------------------
(* What leaves every stake as it is. *)

\* Rewards may be given out, at the treasury's expense; nobody's terms change.
Quiet(v, u) ==
    /\ u.slashes = v.slashes /\ u.totalStaked = v.totalStaked
    /\ \A a \in Addrs : SameTerms(v.acct[a], u.acct[a])
    /\ \E d \in Nat : /\ u.acc = v.acc + d
                      /\ d * v.totalStaked <= (u.treasury - v.treasury) * Scale

\* Two quiet steps are one.
LEMMA QuietTwice ==
    ASSUME NEW v, NEW u, NEW t, WorldOk(v), WorldOk(u), WorldOk(t), Quiet(v, u), Quiet(u, t)
    PROVE  Quiet(v, t)
<1> DEFINE k == v.totalStaked
           p == v.treasury
           q == u.treasury
           r == t.treasury
           z == Scale
<1>1. PICK d \in Nat : u.acc = v.acc + d /\ d * k <= (q - p) * z
  BY DEF Quiet
<1>2. PICK e \in Nat : t.acc = u.acc + e /\ e * k <= (r - q) * z
  BY DEF Quiet
<1>3. k \in Nat /\ p \in Int /\ q \in Int /\ r \in Int /\ z \in Int /\ v.acc \in Int
  <2>1. z \in Int
    BY ScaleIs
  <2>2. k \in Nat /\ p \in Int /\ q \in Int /\ r \in Int /\ v.acc \in Int
    BY WorldTypes
  <2>3. QED
    BY <2>1, <2>2
<1> HIDE DEF k, p, q, r, z
<1>4. (d + e) * k <= (r - p) * z
  <2>1. (d + e) * k = d * k + e * k
    BY <1>3
  <2>2. (r - p) * z = (q - p) * z + (r - q) * z
    <3>1. \A a, b, c \in Int : (a + b) * c = a * c + b * c
      OBVIOUS
    <3>2. r - p = (q - p) + (r - q) /\ q - p \in Int /\ r - q \in Int
      BY <1>3
    <3>3. QED
      BY <1>3, <3>1, <3>2
  <2>3. d * k \in Int /\ e * k \in Int /\ (q - p) * z \in Int /\ (r - q) * z \in Int
    BY <1>3
  <2>4. QED
    BY <1>1, <1>2, <2>1, <2>2, <2>3
<1>5. t.acc = v.acc + (d + e) /\ d + e \in Nat
  BY <1>1, <1>2, <1>3
<1>6. QED
  BY <1>4, <1>5 DEF Quiet, SameTerms, k, p, r, z

\* A write beside the stakes and the rewards.
IsAside(v, u) ==
    /\ WorldOk(v) /\ u.slashes = v.slashes /\ u.totalStaked = v.totalStaked
    /\ u.acc = v.acc /\ u.treasury = v.treasury
    /\ \A a \in Addrs : SameTerms(v.acct[a], u.acct[a])

\* Such a write is quiet.
LEMMA QuietAside ==
    ASSUME NEW v, NEW u, IsAside(v, u)
    PROVE  Quiet(v, u)
<1>1. v.acc \in Int /\ v.treasury \in Int /\ v.totalStaked \in Int /\ Scale \in Int
  <2>1. Scale \in Int
    BY ScaleIs
  <2>2. v.acc \in Int /\ v.treasury \in Int /\ v.totalStaked \in Int
    BY WorldTypes DEF IsAside
  <2>3. QED
    BY <2>1, <2>2
<1>2. u.acc = v.acc + 0 /\ u.treasury - v.treasury = 0
  BY <1>1 DEF IsAside
<1>3. 0 * v.totalStaked <= 0 * Scale
  BY <1>1
<1>4. 0 * v.totalStaked <= (u.treasury - v.treasury) * Scale
  BY <1>2, <1>3
<1>5. QED
  BY <1>2, <1>4 DEF Quiet, IsAside

\* Nobody's terms change when the accounts do not.
LEMMA TermsKept ==
    ASSUME NEW v, NEW u, u.acct = v.acct
    PROVE  \A a \in Addrs : SameTerms(v.acct[a], u.acct[a])
BY DEF SameTerms

\* A credit.
LEMMA QuietCredit ==
    ASSUME NEW v, WorldOk(v), NEW b \in Addrs, NEW k
    PROVE  LET u == [v EXCEPT !.acct[b] = [v.acct[b] EXCEPT !.balance = @ + k]]
           IN  IsAside(v, u)
<1> DEFINE old == v.acct[b]
           m == [old EXCEPT !.balance = @ + k]
           u == [v EXCEPT !.acct[b] = m]
<1>1. AccountOk(old)
  BY WorldTypes
<1>2. SameTerms(old, m)
  <2> HIDE DEF old
  <2>1. QED
    BY <1>1 DEF AccountOk, SameTerms
<1> HIDE DEF m
<1>3. /\ u.acct = [v.acct EXCEPT ![b] = m] /\ u.slashes = v.slashes
      /\ u.totalStaked = v.totalStaked /\ u.acc = v.acc /\ u.treasury = v.treasury
  BY DEF WorldOk
<1>4. DOMAIN v.acct = Addrs
  BY DEF WorldOk
<1> HIDE DEF u
<1>5. \A a \in Addrs : u.acct[a] = IF a = b THEN m ELSE v.acct[a]
  BY <1>3, <1>4
<1>6. \A a \in Addrs : SameTerms(v.acct[a], u.acct[a])
  BY <1>2, <1>5 DEF SameTerms, old
<1>7. QED
  BY <1>3, <1>6 DEF IsAside, u, m, old

\* A reward is given out.
LEMMA QuietDistributed ==
    ASSUME NEW v, WorldOk(v), NEW r \in Nat, BlockOk
    PROVE  Quiet(v, Distribute(v, r))
<1> DEFINE base == (r * ValidatorBps) \div 10000
           share == IF producer # Nobody /\ Qualifies(v, v.acct[producer])
                    THEN (base * factor) \div 10000 ELSE 0
           rest == r - share
           rise == (rest * Scale) \div v.totalStaked
           m == [v.acct[producer] EXCEPT !.balance = @ + share]
           paid == IF share = 0 THEN v ELSE [v EXCEPT !.acct[producer] = m]
           u == [paid EXCEPT !.treasury = @ + rest, !.acc = @ + rise]
<1>1. /\ v.treasury \in Nat /\ v.totalStaked \in Nat /\ v.acc \in Nat /\ Scale \in Nat
      /\ Scale \in Nat \ {0}
  BY WorldTypes, ScaleIs
<1>2. CASE r = 0
  <2>1. Distribute(v, r) = v
    BY <1>2 DEF Distribute
  <2>2. IsAside(v, v)
    BY TermsKept DEF IsAside
  <2>3. QED
    BY <2>1, <2>2, QuietAside
<1>3. CASE r # 0 /\ v.totalStaked = 0
  <2> DEFINE k == [v EXCEPT !.treasury = @ + r]
  <2>1. /\ k.acct = v.acct /\ k.treasury = v.treasury + r /\ k.slashes = v.slashes
        /\ k.totalStaked = v.totalStaked /\ k.acc = v.acc
    BY DEF WorldOk
  <2>2. Distribute(v, r) = k
    BY <1>3 DEF Distribute
  <2> HIDE DEF k
  <2>3. k.treasury - v.treasury = r /\ k.acc = v.acc + 0
    BY <1>1, <2>1
  <2>4. 0 * v.totalStaked <= r * Scale
    BY <1>1
  <2>5. 0 * v.totalStaked <= (k.treasury - v.treasury) * Scale
    BY <2>3, <2>4
  <2>6. QED
    BY <2>1, <2>2, <2>3, <2>5, TermsKept DEF Quiet
<1>4. CASE r # 0 /\ v.totalStaked # 0
  <2>1. base \in Nat /\ base <= r
    <3>1. ValidatorBps \in Nat /\ ValidatorBps <= 10000 /\ 10000 \in Nat \ {0}
      BY SharesAre
    <3>2. base = Ratio(r, ValidatorBps, 10000)
      BY DEF Ratio
    <3> HIDE DEF base
    <3>3. QED
      BY <3>1, <3>2, ShareOf
  <2>2. share \in Nat /\ share <= r
    <3>1. (base * factor) \div 10000 \in Nat /\ (base * factor) \div 10000 <= base
      <4>1. factor \in Nat /\ factor <= 10000 /\ 10000 \in Nat \ {0}
        BY DEF BlockOk
      <4> HIDE DEF base
      <4>2. Ratio(base, factor, 10000) \in Nat /\ Ratio(base, factor, 10000) <= base
        BY <2>1, <4>1, ShareOf
      <4>3. QED
        BY <4>2 DEF Ratio
    <3> HIDE DEF base
    <3>2. QED
      BY <2>1, <3>1
  <2>3. producer \in Addrs \/ share = 0
    BY DEF BlockOk
  <2>4. Distribute(v, r) = u
    <3>1. [v EXCEPT !.acct[producer].balance = @ + share] = [v EXCEPT !.acct[producer] = m]
      OBVIOUS
    <3>2. QED
      BY <1>4, <3>1 DEF Distribute
  <2> HIDE DEF share
  <2>5. rest \in Nat
    BY <2>2
  <2>6. rise \in Nat /\ rise * v.totalStaked <= rest * Scale
    <3> DEFINE n == rest * Scale
               k == v.totalStaked
    <3>1. n \in Nat /\ k \in Nat \ {0}
      <4> HIDE DEF rest
      <4>1. QED
        BY <1>1, <1>4, <2>5
    <3>2. rise = n \div k
      OBVIOUS
    <3> HIDE DEF n, k, rise
    <3>3. n \div k \in Nat /\ (n \div k) * k <= n
      BY <3>1
    <3>4. QED
      BY <3>2, <3>3 DEF n, k
  <2>7. WorldOk(paid) /\ IsAside(v, paid)
    <3>1. CASE share = 0
      BY <3>1, TermsKept DEF IsAside
    <3>2. CASE share # 0
      <4>1. paid = [v EXCEPT !.acct[producer] = [v.acct[producer] EXCEPT !.balance = @ + share]]
        BY <3>2
      <4>2. producer \in Addrs
        BY <2>3, <3>2
      <4> HIDE DEF paid
      <4>3. WorldOk(paid)
        BY <2>2, <4>1, <4>2, Credited
      <4>4. QED
        BY <4>1, <4>2, <4>3, QuietCredit
    <3>3. QED
      BY <3>1, <3>2
  <2>8. /\ u.acct = paid.acct /\ u.treasury = paid.treasury + rest
        /\ u.totalStaked = paid.totalStaked /\ u.acc = paid.acc + rise
        /\ u.slashes = paid.slashes
    <3> HIDE DEF paid, rest, rise
    <3>1. QED
      BY <2>7 DEF WorldOk
  <2> HIDE DEF u, paid, rise, rest
  <2>9. /\ u.acc = v.acc + rise /\ u.treasury - v.treasury = rest
        /\ u.slashes = v.slashes /\ u.totalStaked = v.totalStaked
    BY <1>1, <2>5, <2>7, <2>8 DEF IsAside
  <2>10. \A a \in Addrs : SameTerms(v.acct[a], u.acct[a])
    BY <2>7, <2>8 DEF IsAside
  <2>11. rise * v.totalStaked <= (u.treasury - v.treasury) * Scale
    BY <2>6, <2>9
  <2>12. QED
    BY <2>4, <2>6, <2>9, <2>10, <2>11 DEF Quiet
<1>5. QED
  BY <1>1, <1>2, <1>3, <1>4

\* A note in the state.
LEMMA QuietNote ==
    ASSUME NEW v, WorldOk(v), NEW u, u.acct = v.acct, u.slashes = v.slashes,
           u.totalStaked = v.totalStaked, u.acc = v.acc, u.treasury = v.treasury
    PROVE  IsAside(v, u) /\ Quiet(v, u)
<1>1. IsAside(v, u)
  BY TermsKept DEF IsAside
<1>2. QED
  BY <1>1, QuietAside

\* A swap's volume is a note.
LEMMA QuietVolume ==
    ASSUME NEW v, WorldOk(v), NEW d, NEW amount, NEW reserve
    PROVE  \A u \in VolumeRecorded(v, d, amount, reserve) : WorldOk(u) /\ Quiet(v, u)
<1> SUFFICES ASSUME NEW u \in VolumeRecorded(v, d, amount, reserve)
             PROVE  WorldOk(u) /\ Quiet(v, u)
  OBVIOUS
<1>1. \E new : u = [v EXCEPT !.volume = new]
  BY DEF VolumeRecorded, When
<1>2. /\ u.acct = v.acct /\ u.slashes = v.slashes /\ u.treasury = v.treasury
      /\ u.totalStaked = v.totalStaked /\ u.acc = v.acc
  BY <1>1 DEF WorldOk
<1>3. QED
  BY <1>2, QuietNote, VolumeNoted

\* So is a mint of the day.
LEMMA QuietMinted ==
    ASSUME NEW v, WorldOk(v), NEW amount
    PROVE  \A u \in DailyMintRecorded(v, amount) : WorldOk(u) /\ Quiet(v, u)
<1> SUFFICES ASSUME NEW u \in DailyMintRecorded(v, amount) PROVE WorldOk(u) /\ Quiet(v, u)
  OBVIOUS
<1>1. \E new : u = [v EXCEPT !.daily = new]
  BY DEF DailyMintRecorded, When
<1>2. /\ u.acct = v.acct /\ u.slashes = v.slashes /\ u.treasury = v.treasury
      /\ u.totalStaked = v.totalStaked /\ u.acc = v.acc
  BY <1>1 DEF WorldOk
<1>3. QED
  BY <1>2, QuietNote, MintNoted

\* So is a burn.
LEMMA QuietBurned ==
    ASSUME NEW v, WorldOk(v), NEW from, NEW amount
    PROVE  LET u == BurnRecorded(v, from, amount) IN WorldOk(u) /\ Quiet(v, u)
<1> DEFINE u == BurnRecorded(v, from, amount)
<1>1. \E new : u = [v EXCEPT !.burns = new, !.nextBurn = @ + 1]
  BY DEF BurnRecorded
<1>2. WorldOk(u)
  BY BurnNoted
<1> HIDE DEF u
<1>3. /\ u.acct = v.acct /\ u.slashes = v.slashes /\ u.treasury = v.treasury
      /\ u.totalStaked = v.totalStaked /\ u.acc = v.acc
  BY <1>1 DEF WorldOk
<1>4. Quiet(v, u)
  BY <1>3, QuietNote
<1>5. QED
  BY <1>2, <1>4 DEF u

\* A swap is closed.
LEMMA QuietClosed ==
    ASSUME NEW v, WorldOk(v), NEW fee \in Nat, BlockOk, NEW pool \in [zagros: Nat, zerenya: Nat]
    PROVE  LET u == [Distribute(v, fee) EXCEPT !.pool = pool] IN WorldOk(u) /\ Quiet(v, u)
<1> DEFINE d == Distribute(v, fee)
           u == [d EXCEPT !.pool = pool]
<1>1. WorldOk(d) /\ WorldOk(u)
  BY Distributed, SwapClosed
<1>2. Quiet(v, d)
  BY QuietDistributed
<1> HIDE DEF d
<1>3. /\ u.acct = d.acct /\ u.slashes = d.slashes /\ u.treasury = d.treasury
      /\ u.totalStaked = d.totalStaked /\ u.acc = d.acc
  BY <1>1 DEF WorldOk
<1> HIDE DEF u
<1>4. Quiet(d, u)
  BY <1>1, <1>3, QuietNote
<1>5. Quiet(v, u)
  BY <1>1, <1>2, <1>4, QuietTwice
<1>6. QED
  BY <1>1, <1>5 DEF u, d

\* An arm that leaves every stake as it is.
QuietPair(s, o) == Quiet(s.w, o.w) /\ SameTerms(s.me, o.me)

\* What an arm leaves is a world.
LEMMA ArmTyped ==
    ASSUME NEW s, NEW x, Start(s, x), NEW o \in Arm(s, x)
    PROVE  /\ WorldOk(s.w) /\ WorldOk(o.w) /\ AccountOk(s.me) /\ AccountOk(o.me)
           /\ DOMAIN s = {"w", "me"} /\ x.from \in Addrs /\ x.to \in Addrs /\ x.amt \in Nat
           /\ BlockOk
BY ArmKeeps, StartTypes DEF Kept, PairOk, Start

\* Transfers, swaps and the bridge's arms are such arms.
LEMMA TransferQuiet ==
    ASSUME NEW s, NEW x, Start(s, x), x.type = "transfer", NEW o \in Transfer(s, x)
    PROVE  QuietPair(s, o)
<1> DEFINE c == [s.w EXCEPT !.acct[x.to] = [s.w.acct[x.to] EXCEPT !.balance = @ + x.amt]]
           u == TransferRecorded(c, counter)
           m == [s.me EXCEPT !.balance = Monus(@, x.amt)]
<1>1. o = [w |-> u, me |-> m]
  <2>1. [s.w EXCEPT !.acct[x.to].balance = @ + x.amt] = c
    OBVIOUS
  <2>2. QED
    BY <2>1 DEF Transfer, When
<1>2. x.to \in Addrs /\ WorldOk(s.w) /\ AccountOk(s.me) /\ x.amt \in Nat
  BY StartTypes
<1>3. SameTerms(s.me, m)
  BY <1>2 DEF AccountOk, SameTerms
<1>4. WorldOk(c) /\ IsAside(s.w, c)
  BY <1>2, Credited, QuietCredit
<1>5. o.w = u /\ o.me = m
  BY <1>1
<1> HIDE DEF c, m
<1>6. /\ u.acct = c.acct /\ u.slashes = c.slashes /\ u.treasury = c.treasury
      /\ u.totalStaked = c.totalStaked /\ u.acc = c.acc
  BY <1>4 DEF WorldOk, TransferRecorded
<1> HIDE DEF u
<1>7. IsAside(s.w, u)
  BY <1>4, <1>6 DEF IsAside
<1>8. QED
  BY <1>3, <1>5, <1>7, QuietAside DEF QuietPair

\* A purchase of ZAGROS.
LEMMA SwapBuyQuiet ==
    ASSUME NEW s, NEW x, Start(s, x), NEW o \in SwapBuy(s, x)
    PROVE  QuietPair(s, o)
<1>1. PICK p \in VolumeRecorded(s.w, "zerenya_in", x.amt, s.w.pool.zerenya)
                   \X BuyQuote(s.w, x.amt) :
         o = [w |-> [Distribute(p[1], p[2].fee) EXCEPT !.pool = p[2].pool],
              me |-> [s.me EXCEPT !.zerenya = Monus(@, x.amt), !.balance = @ + p[2].out]]
  BY DEF SwapBuy
<1> DEFINE v == p[1]
           q == p[2]
           u == [Distribute(v, q.fee) EXCEPT !.pool = q.pool]
           m == [s.me EXCEPT !.zerenya = Monus(@, x.amt), !.balance = @ + q.out]
<1>2. v \in VolumeRecorded(s.w, "zerenya_in", x.amt, s.w.pool.zerenya) /\ q \in BuyQuote(s.w, x.amt)
  BY <1>1
<1>3. o.w = u /\ o.me = m
  BY <1>1
<1> HIDE DEF v, q
<1>4. /\ WorldOk(s.w) /\ AccountOk(s.me) /\ x.amt \in Nat /\ BlockOk
  BY StartTypes DEF Start
<1>5. WorldOk(v) /\ Quiet(s.w, v)
  BY <1>2, <1>4, QuietVolume
<1>6. q.fee \in Nat /\ q.pool \in [zagros: Nat, zerenya: Nat]
  BY <1>2, <1>4, BuyQuoted
<1>7. SameTerms(s.me, m)
  BY <1>4 DEF AccountOk, SameTerms
<1>8. WorldOk(u) /\ Quiet(v, u)
  BY <1>4, <1>5, <1>6, QuietClosed
<1> HIDE DEF u, m
<1>9. Quiet(s.w, u)
  BY <1>4, <1>5, <1>8, QuietTwice
<1>10. QED
  BY <1>3, <1>7, <1>9 DEF QuietPair

\* A sale of ZAGROS.
LEMMA SwapSellQuiet ==
    ASSUME NEW s, NEW x, Start(s, x), NEW o \in SwapSell(s, x)
    PROVE  QuietPair(s, o)
<1>1. PICK p \in VolumeRecorded(s.w, "zagros_in", x.amt, s.w.pool.zagros)
                   \X SellQuote(s.w, x.amt) :
         o = [w |-> [Distribute(p[1], p[2].fee) EXCEPT !.pool = p[2].pool],
              me |-> [s.me EXCEPT !.balance = Monus(@, x.amt), !.zerenya = @ + p[2].out]]
  BY DEF SwapSell
<1> DEFINE v == p[1]
           q == p[2]
           u == [Distribute(v, q.fee) EXCEPT !.pool = q.pool]
           m == [s.me EXCEPT !.balance = Monus(@, x.amt), !.zerenya = @ + q.out]
<1>2. v \in VolumeRecorded(s.w, "zagros_in", x.amt, s.w.pool.zagros) /\ q \in SellQuote(s.w, x.amt)
  BY <1>1
<1>3. o.w = u /\ o.me = m
  BY <1>1
<1> HIDE DEF v, q
<1>4. /\ WorldOk(s.w) /\ AccountOk(s.me) /\ x.amt \in Nat /\ BlockOk
  BY StartTypes DEF Start
<1>5. WorldOk(v) /\ Quiet(s.w, v)
  BY <1>2, <1>4, QuietVolume
<1>6. q.fee \in Nat /\ q.pool \in [zagros: Nat, zerenya: Nat]
  BY <1>2, <1>4, SellQuoted
<1>7. SameTerms(s.me, m)
  BY <1>4 DEF AccountOk, SameTerms
<1>8. WorldOk(u) /\ Quiet(v, u)
  BY <1>4, <1>5, <1>6, QuietClosed
<1> HIDE DEF u, m
<1>9. Quiet(s.w, u)
  BY <1>4, <1>5, <1>8, QuietTwice
<1>10. QED
  BY <1>3, <1>7, <1>9 DEF QuietPair

\* A burn of ZERENYA.
LEMMA BurnQuiet ==
    ASSUME NEW s, NEW x, Start(s, x), NEW o \in BridgeBurn(s, x)
    PROVE  QuietPair(s, o)
<1> DEFINE u == BurnRecorded([s.w EXCEPT !.backed = @ - x.amt], x.from, x.amt)
           m == [s.me EXCEPT !.zerenya = @ - x.amt]
<1>1. o = [w |-> u, me |-> m]
  BY DEF BridgeBurn, When
<1>2. WorldOk(s.w) /\ AccountOk(s.me)
  BY StartTypes
<1>3. o.w = u /\ o.me = m
  BY <1>1
<1>4. SameTerms(s.me, m)
  BY <1>2 DEF AccountOk, SameTerms
<1>5. /\ u.acct = s.w.acct /\ u.slashes = s.w.slashes /\ u.treasury = s.w.treasury
      /\ u.totalStaked = s.w.totalStaked /\ u.acc = s.w.acc
  BY <1>2 DEF WorldOk, BurnRecorded
<1> HIDE DEF u, m
<1>6. Quiet(s.w, u)
  BY <1>2, <1>5, QuietNote
<1>7. QED
  BY <1>3, <1>4, <1>6 DEF QuietPair

\* A sale whose ZERENYA is burned.
LEMMA SwapAndBurnQuiet ==
    ASSUME NEW s, NEW x, Start(s, x), x.type = "swap_and_burn",
           NEW o \in BridgeSwapAndBurn(s, x)
    PROVE  QuietPair(s, o)
<1>1. PICK p \in VolumeRecorded(s.w, "zagros_in", x.amt, s.w.pool.zagros)
                   \X SellQuote(s.w, x.amt) :
         o = [w |-> BurnRecorded([Distribute(p[1], p[2].fee) EXCEPT !.pool = p[2].pool,
                                                                    !.backed = @ - p[2].out],
                                 x.from, p[2].out),
              me |-> [s.me EXCEPT !.balance = @ - x.amt]]
  BY DEF BridgeSwapAndBurn
<1> DEFINE v == p[1]
           q == p[2]
           d == Distribute(v, q.fee)
           u == BurnRecorded([d EXCEPT !.pool = q.pool, !.backed = @ - q.out], x.from, q.out)
           m == [s.me EXCEPT !.balance = @ - x.amt]
<1>2. v \in VolumeRecorded(s.w, "zagros_in", x.amt, s.w.pool.zagros) /\ q \in SellQuote(s.w, x.amt)
  BY <1>1
<1>3. o.w = u /\ o.me = m
  BY <1>1
<1> HIDE DEF v, q
<1>4. /\ WorldOk(s.w) /\ AccountOk(s.me) /\ x.amt \in Nat /\ BlockOk
  BY StartTypes DEF Start
<1>5. WorldOk(v) /\ Quiet(s.w, v)
  BY <1>2, <1>4, QuietVolume
<1>6. q.fee \in Nat
  BY <1>2, <1>4, SellQuoted
<1>7. SameTerms(s.me, m)
  BY <1>4 DEF AccountOk, SameTerms
<1>8. WorldOk(d) /\ Quiet(v, d)
  BY <1>4, <1>5, <1>6, Distributed, QuietDistributed
<1> HIDE DEF d
<1>9. /\ u.acct = d.acct /\ u.slashes = d.slashes /\ u.treasury = d.treasury
      /\ u.totalStaked = d.totalStaked /\ u.acc = d.acc
  BY <1>8 DEF WorldOk, BurnRecorded
<1>10. WorldOk(u)
  BY <1>3, SwapAndBurnKeeps DEF Kept, PairOk
<1> HIDE DEF u, m
<1>11. Quiet(d, u)
  BY <1>8, <1>9, QuietNote
<1>12. Quiet(s.w, d)
  BY <1>4, <1>5, <1>8, QuietTwice
<1>13. Quiet(s.w, u)
  BY <1>4, <1>8, <1>10, <1>11, <1>12, QuietTwice
<1>14. QED
  BY <1>3, <1>7, <1>13 DEF QuietPair

\* A mint of ZERENYA.
LEMMA MintQuiet ==
    ASSUME NEW s, NEW x, Start(s, x), NEW o \in BridgeMint(s, x)
    PROVE  QuietPair(s, o)
<1>1. PICK v \in DailyMintRecorded(s.w, x.amt) :
         o = [s EXCEPT !.w = [v EXCEPT !.acct[x.to].zerenya = @ + x.amt, !.backed = @ + x.amt,
                                       !.processed = @ \cup {x.ref.source}]]
  BY DEF BridgeMint
<1> DEFINE k == v.acct[x.to]
           n == [k EXCEPT !.zerenya = @ + x.amt]
           u == [v EXCEPT !.acct[x.to].zerenya = @ + x.amt, !.backed = @ + x.amt,
                          !.processed = @ \cup {x.ref.source}]
<1>2. x.to \in Addrs /\ WorldOk(s.w) /\ PairOk(s)
  BY StartTypes
<1>3. o.w = u /\ o.me = s.me
  BY <1>1, <1>2 DEF PairOk
<1>4. WorldOk(v) /\ Quiet(s.w, v)
  BY <1>2, QuietMinted
<1>5. /\ u.acct = [v.acct EXCEPT ![x.to] = n] /\ u.slashes = v.slashes
      /\ u.treasury = v.treasury /\ u.totalStaked = v.totalStaked /\ u.acc = v.acc
  BY <1>4 DEF WorldOk
<1>6. WorldOk(u)
  BY <1>3, MintKeeps DEF Kept, PairOk
<1> HIDE DEF u
<1>7. AccountOk(k) /\ DOMAIN v.acct = Addrs
  BY <1>2, <1>4, WorldTypes DEF WorldOk
<1>8. \A a \in Addrs : u.acct[a] = IF a = x.to THEN n ELSE v.acct[a]
  BY <1>5, <1>7
<1> HIDE DEF k
<1>9. SameTerms(k, n)
  BY <1>7 DEF AccountOk, SameTerms
<1> HIDE DEF n
<1>10. \A a \in Addrs : SameTerms(v.acct[a], u.acct[a])
  BY <1>8, <1>9 DEF SameTerms, k
<1>11. Quiet(v, u)
  BY <1>4, <1>5, <1>10, QuietAside DEF IsAside
<1>12. Quiet(s.w, u)
  BY <1>2, <1>4, <1>6, <1>11, QuietTwice
<1>13. QED
  BY <1>3, <1>12 DEF QuietPair, SameTerms

\* A mint whose ZERENYA is sold.
LEMMA MintAndSwapQuiet ==
    ASSUME NEW s, NEW x, Start(s, x), NEW o \in BridgeMintAndSwap(s, x)
    PROVE  QuietPair(s, o)
<1>1. PICK p \in (UNION {VolumeRecorded(day, "zerenya_in", x.amt, day.pool.zerenya) :
                            day \in DailyMintRecorded(s.w, x.amt)}) \X BuyQuote(s.w, x.amt) :
         o = [s EXCEPT !.w = [Distribute([p[1] EXCEPT !.acct[x.to].balance = @ + p[2].out,
                                                      !.backed = @ + x.amt], p[2].fee)
                                 EXCEPT !.pool = p[2].pool,
                                        !.processed = @ \cup {x.ref.source}]]
  BY DEF BridgeMintAndSwap
<1> DEFINE v == p[1]
           q == p[2]
           k == q.out
           c == [v EXCEPT !.acct[x.to] = [v.acct[x.to] EXCEPT !.balance = @ + k]]
           r == [v EXCEPT !.acct[x.to].balance = @ + k, !.backed = @ + x.amt]
           d == Distribute(r, q.fee)
           u == [d EXCEPT !.pool = q.pool, !.processed = @ \cup {x.ref.source}]
<1>2. x.to \in Addrs /\ WorldOk(s.w) /\ PairOk(s) /\ BlockOk /\ x.amt \in Nat
  BY StartTypes DEF Start
<1>3. q \in BuyQuote(s.w, x.amt)
  BY <1>1
<1>4. PICK day \in DailyMintRecorded(s.w, x.amt) :
         v \in VolumeRecorded(day, "zerenya_in", x.amt, day.pool.zerenya)
  BY <1>1
<1>5. o.w = u /\ o.me = s.me
  BY <1>1, <1>2 DEF PairOk
<1>6. k \in Nat /\ q.fee \in Nat
  BY <1>2, <1>3, BuyQuoted
<1> HIDE DEF v, q, k
<1>7. WorldOk(v) /\ Quiet(s.w, v)
  <2>1. WorldOk(day) /\ Quiet(s.w, day)
    BY <1>2, QuietMinted
  <2>2. WorldOk(v) /\ Quiet(day, v)
    BY <1>4, <2>1, QuietVolume
  <2>3. QED
    BY <1>2, <2>1, <2>2, QuietTwice
<1>8. WorldOk(c) /\ IsAside(v, c)
  BY <1>2, <1>6, <1>7, Credited, QuietCredit
<1>9. /\ DOMAIN r = DOMAIN c /\ r.acct = c.acct /\ r.pool = c.pool /\ r.treasury = c.treasury
      /\ r.totalStaked = c.totalStaked /\ r.acc = c.acc /\ r.slashes = c.slashes
      /\ r.backed = c.backed + x.amt
  BY <1>7 DEF WorldOk
<1> HIDE DEF c, r
<1>10. WorldOk(r)
  BY <1>2, <1>8, <1>9 DEF WorldOk
<1>11. Quiet(v, r)
  BY <1>8, <1>9, QuietAside DEF IsAside
<1>12. WorldOk(d) /\ Quiet(r, d)
  BY <1>2, <1>6, <1>10, Distributed, QuietDistributed
<1> HIDE DEF d
<1>13. /\ u.acct = d.acct /\ u.slashes = d.slashes /\ u.treasury = d.treasury
       /\ u.totalStaked = d.totalStaked /\ u.acc = d.acc
  BY <1>12 DEF WorldOk
<1>14. WorldOk(u)
  BY <1>5, MintAndSwapKeeps DEF Kept, PairOk
<1> HIDE DEF u
<1>15. Quiet(d, u)
  BY <1>12, <1>13, QuietNote
<1>16. Quiet(s.w, r)
  BY <1>2, <1>7, <1>10, <1>11, QuietTwice
<1>17. Quiet(s.w, d)
  BY <1>2, <1>10, <1>12, <1>16, QuietTwice
<1>18. Quiet(s.w, u)
  BY <1>2, <1>12, <1>14, <1>15, <1>17, QuietTwice
<1>19. QED
  BY <1>5, <1>18 DEF QuietPair, SameTerms

-----------------------------------------------------------------------------
(* What the arms of staking do to the sender's terms. *)

\* Nobody's account, no slash and no reward: at most the treasury and the total are written.
Steady(v, u) == u.acct = v.acct /\ u.slashes = v.slashes /\ u.acc = v.acc

\* What is unbonding, and until when the bond is locked, is left alone.
Unmoved(m, n) ==
    /\ n.unbonding = m.unbonding /\ n.bondedUntil = m.bondedUntil
    /\ n.registered = m.registered /\ n.nonce = m.nonce

\* Of the stake that matures, k leaves what is pending, joins the stake and is in debt for
\* the rewards of the past.
Matures(s, k, t) ==
    /\ PairOk(t) /\ Steady(s.w, t.w) /\ t.w.treasury = s.w.treasury /\ Unmoved(s.me, t.me)
    /\ k \in Nat /\ s.me.pendingStake = k + t.me.pendingStake
    /\ k > 0 => t.me.pendingStake = 0
    /\ t.me.staked = s.me.staked + k /\ t.w.totalStaked = s.w.totalStaked + k
    /\ t.me.debt = s.me.debt + RewardOwed(k, s.w.acc)

\* settle_pending_stake.
LEMMA SettleTerms ==
    ASSUME NEW s, PairOk(s)
    PROVE  \E k : Matures(s, k, Settle(s))
<1> DEFINE k == s.me.pendingStake
           wd == [s.w EXCEPT !.totalStaked = @ + k]
           m == [s.me EXCEPT !.debt = @ + RewardOwed(k, s.w.acc), !.staked = @ + k,
                             !.pendingStake = 0, !.activatesAt = 0]
           t == [w |-> wd, me |-> m]
<1>1. /\ k \in Nat /\ s.me.staked \in Nat /\ s.me.debt \in Nat /\ s.w.totalStaked \in Nat
      /\ s.w.acc \in Nat
  BY AccountTypes, WorldTypes DEF PairOk
<1>2. PairOk(Settle(s))
  BY Settled DEF Kept
<1>3. CASE k = 0 \/ now < s.me.activatesAt
  <2>1. Settle(s) = s
    BY <1>3 DEF Settle
  <2>2. RewardOwed(0, s.w.acc) = 0
    <3>1. 0 * s.w.acc = 0
      BY <1>1
    <3>2. Scale \in Nat \ {0}
      BY ScaleIs
    <3>3. 0 \div Scale = 0
      BY <3>2
    <3>4. QED
      BY <3>1, <3>3 DEF RewardOwed
  <2>3. k = 0 + k /\ s.me.staked = s.me.staked + 0 /\ s.w.totalStaked = s.w.totalStaked + 0
        /\ s.me.debt = s.me.debt + RewardOwed(0, s.w.acc)
    BY <1>1, <2>2
  <2>4. Matures(s, 0, s)
    BY <2>3 DEF Matures, Steady, Unmoved
  <2>5. QED
    BY <2>1, <2>4
<1>4. CASE ~ (k = 0 \/ now < s.me.activatesAt)
  <2>1. Settle(s) = t
    BY <1>4 DEF Settle
  <2>2. /\ wd.acct = s.w.acct /\ wd.slashes = s.w.slashes /\ wd.acc = s.w.acc
        /\ wd.treasury = s.w.treasury /\ wd.totalStaked = s.w.totalStaked + k
    BY DEF PairOk, WorldOk
  <2>3. /\ m.staked = s.me.staked + k /\ m.pendingStake = 0 /\ m.unbonding = s.me.unbonding
        /\ m.bondedUntil = s.me.bondedUntil /\ m.registered = s.me.registered
        /\ m.nonce = s.me.nonce /\ m.debt = s.me.debt + RewardOwed(k, s.w.acc)
    BY DEF PairOk, AccountOk
  <2>4. t.w = wd /\ t.me = m /\ PairOk(t)
    BY <1>2, <2>1
  <2> HIDE DEF wd, m, t
  <2>5. k = k + t.me.pendingStake
    BY <1>1, <2>3, <2>4
  <2>6. Matures(s, k, t)
    BY <1>1, <2>2, <2>3, <2>4, <2>5 DEF Matures, Steady, Unmoved
  <2>7. QED
    BY <2>1, <2>6
<1>5. QED
  BY <1>3, <1>4

\* A reward is paid.
LEMMA PaidTerms ==
    ASSUME NEW s, PairOk(s)
    PROVE  LET t == Paid(s)
           IN  /\ PairOk(t) /\ Steady(s.w, t.w) /\ SameTerms(s.me, t.me) /\ Unmoved(s.me, t.me)
               /\ t.w.totalStaked = s.w.totalStaked /\ t.w.treasury = s.w.treasury - Payout(s)
<1> DEFINE k == Payout(s)
           wd == [s.w EXCEPT !.treasury = @ - k]
           m == [s.me EXCEPT !.balance = @ + k]
           t == [w |-> wd, me |-> m]
<1>1. PairOk(Paid(s))
  BY RewardPaid DEF Kept
<1> HIDE DEF k
<1>2. /\ wd.acct = s.w.acct /\ wd.slashes = s.w.slashes /\ wd.acc = s.w.acc
      /\ wd.treasury = s.w.treasury - k /\ wd.totalStaked = s.w.totalStaked
  BY DEF PairOk, WorldOk
<1>3. /\ m.staked = s.me.staked /\ m.pendingStake = s.me.pendingStake
      /\ m.unbonding = s.me.unbonding /\ m.debt = s.me.debt
      /\ m.bondedUntil = s.me.bondedUntil /\ m.registered = s.me.registered
      /\ m.nonce = s.me.nonce
  BY DEF PairOk, AccountOk
<1>4. t.w = wd /\ t.me = m /\ Paid(s) = t
  BY DEF Paid, k
<1> HIDE DEF wd, m, t
<1>5. QED
  BY <1>1, <1>2, <1>3, <1>4 DEF Steady, SameTerms, Unmoved, k

\* The sender's copy alone is written, and in it no stake and no debt.
LEMMA OwnTerms ==
    ASSUME NEW s, PairOk(s), NEW c, NEW t, t = [s EXCEPT !.me.balance = c]
    PROVE  /\ t.w = s.w /\ SameTerms(s.me, t.me) /\ Unmoved(s.me, t.me)
           /\ Payout(t) = Payout(s) /\ Shortfall(t) = Shortfall(s)
           /\ DOMAIN t = {"w", "me"} /\ DOMAIN t.me = DOMAIN s.me
           /\ t.me.zerenya = s.me.zerenya /\ t.me.balance = c
<1>1. /\ DOMAIN t = {"w", "me"} /\ t.w = s.w /\ DOMAIN t.me = DOMAIN s.me
      /\ t.me.staked = s.me.staked /\ t.me.pendingStake = s.me.pendingStake
      /\ t.me.unbonding = s.me.unbonding /\ t.me.debt = s.me.debt
      /\ t.me.bondedUntil = s.me.bondedUntil /\ t.me.registered = s.me.registered
      /\ t.me.nonce = s.me.nonce /\ t.me.zerenya = s.me.zerenya /\ t.me.balance = c
  BY DEF PairOk, AccountOk
<1>2. Pending(t) = Pending(s)
  BY <1>1 DEF Pending
<1>3. Payout(t) = Payout(s) /\ Shortfall(t) = Shortfall(s)
  BY <1>1, <1>2 DEF Payout, Shortfall
<1>4. QED
  BY <1>1, <1>3 DEF SameTerms, Unmoved

\* ClaimReward.
LEMMA ClaimTerms ==
    ASSUME NEW s, NEW x, Start(s, x), NEW o \in ClaimReward(s, x)
    PROVE  LET t == Settle(s)
           IN  /\ Steady(s.w, o.w) /\ Unmoved(s.me, o.me)
               /\ o.w.totalStaked = t.w.totalStaked /\ o.w.treasury = t.w.treasury - Payout(t)
               /\ o.me.staked = t.me.staked /\ o.me.pendingStake = t.me.pendingStake
               /\ o.me.debt = t.me.debt + Payout(t)
<1> DEFINE t == Settle(s)
           p == Paid(t)
           k == Payout(t)
           out == [p EXCEPT !.me.debt = @ + k]
<1>1. PairOk(s)
  BY StartTypes
<1>2. PICK j : Matures(s, j, t)
  BY <1>1, SettleTerms
<1>3. o = out
  BY DEF ClaimReward
<1> HIDE DEF t
<1>4. PairOk(t)
  BY <1>2 DEF Matures
<1>5. /\ PairOk(p) /\ Steady(t.w, p.w) /\ SameTerms(t.me, p.me) /\ Unmoved(t.me, p.me)
      /\ p.w.totalStaked = t.w.totalStaked /\ p.w.treasury = t.w.treasury - k
  BY <1>4, PaidTerms
<1> HIDE DEF p, k
<1>6. /\ out.w = p.w /\ out.me.staked = p.me.staked /\ out.me.pendingStake = p.me.pendingStake
      /\ out.me.unbonding = p.me.unbonding /\ out.me.debt = p.me.debt + k
      /\ out.me.bondedUntil = p.me.bondedUntil /\ out.me.registered = p.me.registered
      /\ out.me.nonce = p.me.nonce
  BY <1>5 DEF AccountOk, PairOk
<1> HIDE DEF out
<1>7. Steady(s.w, o.w) /\ Unmoved(s.me, o.me)
  BY <1>2, <1>3, <1>5, <1>6 DEF Matures, Steady, Unmoved
<1>8. QED
  BY <1>3, <1>5, <1>6, <1>7 DEF SameTerms, t, k

\* StakeZagros.
LEMMA StakeTerms ==
    ASSUME NEW s, NEW x, Start(s, x), x.type = "stake", NEW o \in StakeZagros(s, x)
    PROVE  LET t == Settle(s)
           IN  /\ Steady(s.w, o.w) /\ Unmoved(s.me, o.me)
               /\ o.w.totalStaked = t.w.totalStaked /\ o.w.treasury = t.w.treasury - Payout(t)
               /\ o.me.staked = t.me.staked /\ o.me.pendingStake = t.me.pendingStake + x.amt
               /\ o.me.debt = Monus(RewardOwed(t.me.staked, t.w.acc), Shortfall(t))
<1> DEFINE t == Settle(s)
           c == t.me.balance - x.amt
           less == [t EXCEPT !.me.balance = c]
           p == Paid(less)
           debt == Monus(RewardOwed(t.me.staked, t.w.acc), Shortfall(t))
           m == [p.me EXCEPT !.pendingStake = @ + x.amt, !.activatesAt = now + Vesting,
                             !.debt = debt]
           out == [w |-> p.w, me |-> m]
<1>1. PairOk(s) /\ x.amt \in Nat /\ s.me.balance >= x.amt
  BY StartTypes
<1>2. PICK j : Matures(s, j, t)
  BY <1>1, SettleTerms
<1>3. t.me.balance = s.me.balance
  BY <1>1, Settled
<1>4. o = out
  BY DEF StakeZagros
<1> HIDE DEF t
<1>5. PairOk(t) /\ t.me.balance \in Nat
  BY <1>2, AccountTypes DEF Matures, PairOk
<1>6. c \in Nat
  BY <1>1, <1>3, <1>5
<1>14. less = [t EXCEPT !.me.balance = c]
  OBVIOUS
<1> HIDE DEF c, less
<1>7. /\ less.w = t.w /\ SameTerms(t.me, less.me) /\ Unmoved(t.me, less.me)
      /\ Payout(less) = Payout(t) /\ Shortfall(less) = Shortfall(t)
      /\ DOMAIN less = {"w", "me"} /\ DOMAIN less.me = DOMAIN t.me
      /\ less.me.zerenya = t.me.zerenya /\ less.me.balance = c
  BY <1>5, <1>14, OwnTerms
<1>8. PairOk(less)
  <2>1. AccountOk(less.me)
    BY <1>5, <1>6, <1>7 DEF PairOk, AccountOk, SameTerms
  <2>2. QED
    BY <1>5, <1>7, <2>1 DEF PairOk
<1>9. /\ PairOk(p) /\ Steady(less.w, p.w) /\ SameTerms(less.me, p.me) /\ Unmoved(less.me, p.me)
      /\ p.w.totalStaked = less.w.totalStaked /\ p.w.treasury = less.w.treasury - Payout(less)
  BY <1>8, PaidTerms
<1> HIDE DEF p, debt
<1>10. /\ m.staked = p.me.staked /\ m.pendingStake = p.me.pendingStake + x.amt
       /\ m.unbonding = p.me.unbonding /\ m.debt = debt /\ m.bondedUntil = p.me.bondedUntil
       /\ m.registered = p.me.registered /\ m.nonce = p.me.nonce
  BY <1>9 DEF AccountOk, PairOk
<1>11. out.w = p.w /\ out.me = m
  OBVIOUS
<1> HIDE DEF m, out
<1>12. Steady(s.w, o.w) /\ Unmoved(s.me, o.me)
  BY <1>2, <1>4, <1>7, <1>9, <1>10, <1>11 DEF Matures, Steady, Unmoved
<1>13. QED
  BY <1>4, <1>7, <1>9, <1>10, <1>11, <1>12 DEF SameTerms, t, debt

\* Of x.amt unbonded, what has not vested is fresh and the rest was active.
Fresh(t, x) == Min({x.amt, t.me.pendingStake})
Active(t, x) == x.amt - Fresh(t, x)

\* UnstakeZagros of an amount.
LEMMA UnbondTerms ==
    ASSUME NEW s, NEW x, Start(s, x), NEW o \in Unbond(s, x)
    PROVE  LET t == Settle(s)
               active == Active(t, x)
           IN  /\ Steady(s.w, o.w) /\ o.w.totalStaked = Monus(t.w.totalStaked, active)
               /\ o.w.treasury = t.w.treasury - (IF active = 0 THEN 0 ELSE Payout(t))
               /\ x.amt <= t.me.staked + t.me.pendingStake /\ s.me.unbonding = 0
               /\ o.me.staked = t.me.staked - active
               /\ o.me.pendingStake = t.me.pendingStake - Fresh(t, x)
               /\ o.me.debt = IF active = 0 THEN t.me.debt
                              ELSE Monus(RewardOwed(t.me.staked - active, t.w.acc), Shortfall(t))
               /\ o.me.unbonding = x.amt /\ o.me.nonce = s.me.nonce
               /\ o.me.bondedUntil = IF s.me.registered
                                     THEN Max({s.me.bondedUntil, now + BondLock})
                                     ELSE s.me.bondedUntil
<1> DEFINE t == Settle(s)
           fresh == Fresh(t, x)
           active == Active(t, x)
           drawn == [t EXCEPT !.me.pendingStake = @ - fresh,
                              !.me.activatesAt = IF t.me.pendingStake = fresh THEN 0 ELSE @]
           p == IF active = 0 THEN drawn ELSE Paid(drawn)
           owed == Monus(RewardOwed(t.me.staked - active, t.w.acc), Shortfall(drawn))
           wd == [p.w EXCEPT !.totalStaked = Monus(@, active)]
           m == [p.me EXCEPT !.staked = @ - active, !.debt = IF active = 0 THEN @ ELSE owed,
                             !.unbonding = x.amt, !.unlocksAt = now + x.skew + Unbonding,
                             !.bondedUntil = IF p.me.registered
                                             THEN Max({@, now + BondLock}) ELSE @]
           out == [w |-> wd, me |-> m]
<1>1. PairOk(s) /\ x.amt \in Nat
  BY StartTypes
<1>2. PICK j : Matures(s, j, t)
  BY <1>1, SettleTerms
<1>3. o = out /\ s.me.unbonding = 0 /\ x.amt <= t.me.staked + t.me.pendingStake
  BY DEF Unbond, When, Fresh, Active
<1> HIDE DEF t
<1>4. /\ PairOk(t) /\ t.me.staked \in Nat /\ t.me.pendingStake \in Nat
  BY <1>2, AccountTypes DEF Matures, PairOk
<1>5. fresh = IF x.amt <= t.me.pendingStake THEN x.amt ELSE t.me.pendingStake
  BY <1>1, <1>4, MinOfTwo DEF Fresh
<1>6. active = x.amt - fresh
  BY DEF Active
<1> HIDE DEF fresh
<1>7. fresh \in Nat /\ fresh <= t.me.pendingStake
  BY <1>1, <1>4, <1>5
<1> HIDE DEF active
<1>8. /\ DOMAIN drawn = {"w", "me"} /\ drawn.w = t.w /\ DOMAIN drawn.me = DOMAIN t.me
      /\ drawn.me.balance = t.me.balance /\ drawn.me.zerenya = t.me.zerenya
      /\ drawn.me.staked = t.me.staked /\ drawn.me.pendingStake = t.me.pendingStake - fresh
      /\ drawn.me.unbonding = t.me.unbonding /\ drawn.me.debt = t.me.debt
      /\ drawn.me.bondedUntil = t.me.bondedUntil /\ drawn.me.registered = t.me.registered
      /\ drawn.me.nonce = t.me.nonce
  BY <1>4 DEF PairOk, AccountOk
<1> HIDE DEF drawn
<1>9. PairOk(drawn)
  BY <1>4, <1>7, <1>8 DEF PairOk, AccountOk
<1>10. Payout(drawn) = Payout(t) /\ Shortfall(drawn) = Shortfall(t)
  <2>1. Pending(drawn) = Pending(t)
    BY <1>8 DEF Pending
  <2>2. QED
    BY <1>8, <2>1 DEF Payout, Shortfall
<1> DEFINE q == Paid(drawn)
<1>11. /\ PairOk(q) /\ Steady(drawn.w, q.w) /\ SameTerms(drawn.me, q.me)
       /\ Unmoved(drawn.me, q.me) /\ q.w.totalStaked = drawn.w.totalStaked
       /\ q.w.treasury = drawn.w.treasury - Payout(drawn)
  BY <1>9, PaidTerms
<1> HIDE DEF q
<1>12. p = IF active = 0 THEN drawn ELSE q
  BY DEF q
<1> HIDE DEF p
<1>13. t.w.treasury \in Nat
  BY <1>4, WorldTypes DEF PairOk
<1>14. /\ PairOk(p) /\ Steady(t.w, p.w) /\ SameTerms(drawn.me, p.me) /\ Unmoved(drawn.me, p.me)
       /\ p.w.totalStaked = t.w.totalStaked
       /\ p.w.treasury = t.w.treasury - (IF active = 0 THEN 0 ELSE Payout(t))
  <2>1. CASE active = 0
    BY <1>8, <1>9, <1>12, <1>13, <2>1 DEF Steady, SameTerms, Unmoved
  <2>2. CASE active # 0
    BY <1>8, <1>10, <1>11, <1>12, <2>2
  <2>3. QED
    BY <2>1, <2>2
<1> HIDE DEF owed
<1>15. /\ wd.acct = p.w.acct /\ wd.slashes = p.w.slashes /\ wd.acc = p.w.acc
       /\ wd.treasury = p.w.treasury /\ wd.totalStaked = Monus(p.w.totalStaked, active)
  BY <1>14 DEF PairOk, WorldOk
<1>16. /\ m.staked = p.me.staked - active /\ m.pendingStake = p.me.pendingStake
       /\ m.unbonding = x.amt /\ m.debt = (IF active = 0 THEN p.me.debt ELSE owed)
       /\ m.nonce = p.me.nonce
       /\ m.bondedUntil = IF p.me.registered THEN Max({p.me.bondedUntil, now + BondLock})
                          ELSE p.me.bondedUntil
  BY <1>14 DEF PairOk, AccountOk
<1>17. out.w = wd /\ out.me = m
  OBVIOUS
<1> HIDE DEF wd, m, out
<1>18. Steady(s.w, o.w)
  BY <1>2, <1>3, <1>14, <1>15, <1>17 DEF Matures, Steady
<1>19. /\ o.w.totalStaked = Monus(t.w.totalStaked, active)
       /\ o.w.treasury = t.w.treasury - (IF active = 0 THEN 0 ELSE Payout(t))
  BY <1>3, <1>14, <1>15, <1>17
<1>20. /\ o.me.staked = t.me.staked - active /\ o.me.pendingStake = t.me.pendingStake - fresh
       /\ o.me.debt = (IF active = 0 THEN t.me.debt ELSE owed)
       /\ o.me.unbonding = x.amt
  BY <1>3, <1>8, <1>14, <1>16, <1>17 DEF SameTerms
<1>21. /\ p.me.registered = s.me.registered /\ p.me.bondedUntil = s.me.bondedUntil
       /\ p.me.nonce = s.me.nonce
  BY <1>2, <1>8, <1>14 DEF Matures, Unmoved
<1>22. /\ o.me.nonce = s.me.nonce
       /\ o.me.bondedUntil = IF s.me.registered THEN Max({s.me.bondedUntil, now + BondLock})
                             ELSE s.me.bondedUntil
  BY <1>3, <1>16, <1>17, <1>21
<1>23. owed = Monus(RewardOwed(t.me.staked - active, t.w.acc), Shortfall(t))
  BY <1>10 DEF owed
<1>24. QED
  BY <1>3, <1>18, <1>19, <1>20, <1>22, <1>23 DEF t, fresh, active

\* UnstakeZagros of nothing: only what was unbonding is written.
LEMMA WithdrawTerms ==
    ASSUME NEW s, NEW x, Start(s, x), NEW o \in Withdraw(s, x)
    PROVE  /\ o.w = s.w /\ o.me.staked = s.me.staked /\ o.me.debt = s.me.debt
           /\ o.me.pendingStake = s.me.pendingStake /\ o.me.nonce = s.me.nonce
           /\ o.me.bondedUntil = s.me.bondedUntil
<1> DEFINE m == [s.me EXCEPT !.unbonding = 0, !.balance = @ + s.me.unbonding]
<1>1. o = [w |-> s.w, me |-> m]
  BY DEF Withdraw, When
<1>2. AccountOk(s.me)
  BY StartTypes
<1>3. /\ m.staked = s.me.staked /\ m.debt = s.me.debt /\ m.pendingStake = s.me.pendingStake
      /\ m.nonce = s.me.nonce /\ m.bondedUntil = s.me.bondedUntil
  BY <1>2 DEF AccountOk
<1> HIDE DEF m
<1>4. QED
  BY <1>1, <1>3

\* UnregisterValidator.
LEMMA UnregisterTerms ==
    ASSUME NEW s, NEW x, Start(s, x), NEW o \in UnregisterValidator(s, x)
    PROVE  /\ o.w = s.w /\ o.me.staked = s.me.staked /\ o.me.debt = s.me.debt
           /\ o.me.pendingStake = s.me.pendingStake /\ o.me.nonce = s.me.nonce
           /\ o.me.unbonding = s.me.unbonding /\ o.me.bondedUntil = now + BondLock
<1> DEFINE m == [s.me EXCEPT !.status = "exiting", !.registered = FALSE,
                             !.bondedUntil = now + BondLock]
<1>1. o = [w |-> s.w, me |-> m]
  BY DEF UnregisterValidator, When
<1>2. AccountOk(s.me)
  BY StartTypes
<1>3. /\ m.staked = s.me.staked /\ m.debt = s.me.debt /\ m.pendingStake = s.me.pendingStake
      /\ m.nonce = s.me.nonce /\ m.unbonding = s.me.unbonding
      /\ m.bondedUntil = now + BondLock
  BY <1>2, Zenon DEF AccountOk
<1> HIDE DEF m
<1>4. QED
  BY <1>1, <1>3

-----------------------------------------------------------------------------
(* What a confiscation does to the terms. *)

\* What is left of account k is its debt, its bond's end and its nonce.
Stripped(k, m) ==
    /\ AccountOk(m) /\ m.staked = 0 /\ m.pendingStake = 0 /\ m.unbonding = 0
    /\ m.debt = k.debt /\ m.bondedUntil = k.bondedUntil /\ m.nonce = k.nonce

\* Both ways to confiscate strip the account.
LEMMA ConfiscatedTerms ==
    ASSUME NEW k, AccountOk(k)
    PROVE  Stripped(k, Jailed(Confiscated(k)))
           /\ Stripped(k, [Confiscated(k) EXCEPT !.status = "jailed"])
<1> DEFINE c == Confiscated(k)
           j == [c EXCEPT !.status = "jailed"]
<1>1. /\ DOMAIN c = DOMAIN k /\ c.staked = 0 /\ c.pendingStake = 0 /\ c.unbonding = 0
      /\ c.debt = k.debt /\ c.bondedUntil = k.bondedUntil /\ c.nonce = k.nonce
  BY Zenon DEF AccountOk, Confiscated
<1>2. AccountOk(Jailed(c)) /\ AccountOk(j)
  BY Taken
<1> HIDE DEF c
<1>3. /\ j.staked = c.staked /\ j.pendingStake = c.pendingStake /\ j.unbonding = c.unbonding
      /\ j.debt = c.debt /\ j.bondedUntil = c.bondedUntil /\ j.nonce = c.nonce
  BY <1>1 DEF AccountOk
<1> DEFINE i == Jailed(c)
<1>4. /\ i.staked = c.staked /\ i.pendingStake = c.pendingStake /\ i.unbonding = c.unbonding
      /\ i.debt = c.debt /\ i.bondedUntil = c.bondedUntil /\ i.nonce = c.nonce
  BY <1>1 DEF AccountOk, Jailed
<1> HIDE DEF i, j
<1>5. Stripped(k, i) /\ Stripped(k, j)
  <2>1. AccountOk(i) /\ AccountOk(j)
    BY <1>2 DEF i, j
  <2>2. QED
    BY <1>1, <1>3, <1>4, <2>1 DEF Stripped
<1>6. QED
  BY <1>5 DEF i, j, c

\* From world v, the target's account rewritten and its stake out of the total, rewards are
\* given out and a slash is noted.
Strips(s, x, n, v, o) ==
    /\ WorldOk(v) /\ v.acct = [s.w.acct EXCEPT ![x.to] = n] /\ v.slashes = s.w.slashes
    /\ v.totalStaked = Monus(s.w.totalStaked, s.w.acct[x.to].staked)
    /\ v.treasury = s.w.treasury /\ v.acc = s.w.acc
    /\ \E d, e :
          /\ WorldOk(d) /\ Quiet(v, d)
          /\ o.w.acct = d.acct /\ o.w.totalStaked = d.totalStaked /\ o.w.acc = d.acc
          /\ o.w.treasury = d.treasury /\ o.w.slashes = Append(s.w.slashes, e)

\* SlashValidator: the sender's own stake is taken from its copy.
LEMMA SlashTerms ==
    ASSUME NEW s, NEW x, Start(s, x), NEW o \in SlashValidator(s, x)
    PROVE  LET k == s.w.acct[x.to]
           IN  \E n, v :
                  /\ Strips(s, x, n, v, o)
                  /\ IF x.to = x.from THEN n = k /\ Stripped(k, o.me)
                     ELSE Stripped(k, n) /\ o.me = s.me
<1> DEFINE own == x.to = x.from
           k == s.w.acct[x.to]
           after == Jailed(Confiscated(k))
           n == IF own THEN k ELSE after
           wd == [s.w EXCEPT !.totalStaked = Monus(@, k.staked),
                             !.acct[x.to] = IF own THEN @ ELSE after]
           d == Distribute(wd, Bonded(k))
           e == [target |-> x.to, reason |-> "admin", amount |-> Bonded(k)]
           u == Slashed(d, x.to, "admin", Bonded(k))
           m == IF own THEN after ELSE s.me
           p == [w |-> u, me |-> m]
<1>1. /\ x.from \in Addrs /\ x.to \in Addrs /\ PairOk(s) /\ s.me = s.w.acct[x.from] /\ WorldOk(s.w)
      /\ AccountOk(s.me) /\ BlockOk
  BY StartTypes DEF Start
<1>2. AccountOk(k) /\ (own => k = s.me)
  BY <1>1, WorldTypes
<1>3. o = p
  <2>1. (IF own THEN s.me ELSE s.w.acct[x.to]) = k
    BY <1>2
  <2>2. QED
    BY <2>1 DEF SlashValidator, When
<1>4. Stripped(k, after)
  BY <1>2, ConfiscatedTerms
<1>5. /\ DOMAIN wd = DOMAIN s.w /\ wd.acct = [s.w.acct EXCEPT ![x.to] = n]
      /\ wd.totalStaked = Monus(s.w.totalStaked, k.staked) /\ wd.pool = s.w.pool
      /\ wd.treasury = s.w.treasury /\ wd.acc = s.w.acc /\ wd.backed = s.w.backed
      /\ wd.slashes = s.w.slashes
  BY <1>1 DEF WorldOk
<1>6. p.w = u /\ p.me = m
  OBVIOUS
<1>7. AccountOk(n) /\ n.zerenya = s.w.acct[x.to].zerenya
  BY <1>2, Taken
<1> HIDE DEF wd, n, after
<1>8. WorldOk(wd)
  <2>1. IsTaking(s, x, n, wd)
    BY <1>5, <1>7 DEF IsTaking
  <2>2. QED
    BY <2>1, TargetTaken
<1>9. Bonded(k) \in Nat
  BY <1>2, AccountTypes
<1>10. WorldOk(d) /\ Quiet(wd, d)
  BY <1>1, <1>8, <1>9, Distributed, QuietDistributed
<1>11. d.slashes = s.w.slashes
  BY <1>5, <1>10 DEF Quiet
<1> HIDE DEF d, p, e
<1>12. /\ u.acct = d.acct /\ u.totalStaked = d.totalStaked /\ u.acc = d.acc
       /\ u.treasury = d.treasury /\ u.slashes = Append(s.w.slashes, e)
  BY <1>10, <1>11 DEF WorldOk, Slashed, e
<1> HIDE DEF u
<1>13. Strips(s, x, n, wd, o)
  BY <1>3, <1>5, <1>6, <1>8, <1>10, <1>12 DEF Strips
<1>15. IF own THEN n = k /\ Stripped(k, o.me) ELSE Stripped(k, n) /\ o.me = s.me
  BY <1>3, <1>4, <1>6 DEF n
<1>16. QED
  BY <1>13, <1>15

\* ReportMalicious: the reporter gains what is unbonding and nothing else.
LEMMA ReportTerms ==
    ASSUME NEW s, NEW x, Start(s, x), NEW o \in ReportMalicious(s, x)
    PROVE  /\ x.to # x.from
           /\ o.me.staked = s.me.staked /\ o.me.debt = s.me.debt
           /\ o.me.pendingStake = s.me.pendingStake /\ o.me.nonce = s.me.nonce
           /\ o.me.bondedUntil = s.me.bondedUntil
           /\ \E n, v : Strips(s, x, n, v, o) /\ Stripped(s.w.acct[x.to], n)
<1> DEFINE k == s.w.acct[x.to]
           n == [Confiscated(k) EXCEPT !.status = "jailed"]
           reward == (Bonded(k) * ReporterBps) \div 10000
           wd == [s.w EXCEPT !.totalStaked = Monus(@, k.staked), !.acct[x.to] = n]
           d == Distribute(wd, Bonded(k) - reward)
           e == [target |-> x.to, reason |-> "double_sign", amount |-> Bonded(k)]
           g == Slashed(d, x.to, "double_sign", Bonded(k))
           u == ProofUsed(g, x.ref)
           m == [s.me EXCEPT !.unbonding = @ + reward, !.unlocksAt = now + Unbonding]
           p == [w |-> u, me |-> m]
<1>1. x.to # x.from /\ o = p
  <2>1. x.to # x.from /\ o = Convicted(s, x)
    BY DEF ReportMalicious, When
  <2>2. Convicted(s, x) = p
    BY DEF Convicted
  <2> HIDE DEF p
  <2>3. QED
    BY <2>1, <2>2
<1>2. /\ x.from \in Addrs /\ x.to \in Addrs /\ PairOk(s) /\ s.me = s.w.acct[x.from] /\ WorldOk(s.w)
      /\ AccountOk(s.me) /\ BlockOk
  BY StartTypes DEF Start
<1>3. AccountOk(k)
  BY <1>2, WorldTypes
<1>4. Stripped(k, n) /\ AccountOk(n) /\ n.zerenya = k.zerenya
  BY <1>3, Taken, ConfiscatedTerms
<1>5. Bonded(k) \in Nat
  BY <1>3, AccountTypes
<1>6. reward \in Nat /\ reward <= Bonded(k)
  <2>1. ReporterBps \in Nat /\ ReporterBps <= 10000 /\ 10000 \in Nat \ {0}
    BY SharesAre
  <2>2. Ratio(Bonded(k), ReporterBps, 10000) \in Nat
        /\ Ratio(Bonded(k), ReporterBps, 10000) <= Bonded(k)
    BY <1>5, <2>1, ShareOf
  <2>3. QED
    BY <2>2 DEF Ratio
<1> HIDE DEF reward
<1>7. /\ DOMAIN wd = DOMAIN s.w /\ wd.acct = [s.w.acct EXCEPT ![x.to] = n]
      /\ wd.totalStaked = Monus(s.w.totalStaked, k.staked) /\ wd.pool = s.w.pool
      /\ wd.treasury = s.w.treasury /\ wd.acc = s.w.acc /\ wd.backed = s.w.backed
      /\ wd.slashes = s.w.slashes
  BY <1>2 DEF WorldOk
<1>8. p.w = u /\ p.me = m
  OBVIOUS
<1> HIDE DEF wd, n
<1>9. WorldOk(wd)
  <2>1. IsTaking(s, x, n, wd)
    BY <1>4, <1>7 DEF IsTaking
  <2>2. QED
    BY <2>1, TargetTaken
<1>10. Bonded(k) - reward \in Nat
  BY <1>5, <1>6
<1>11. WorldOk(d) /\ Quiet(wd, d)
  BY <1>2, <1>9, <1>10, Distributed, QuietDistributed
<1>12. d.slashes = s.w.slashes
  BY <1>7, <1>11 DEF Quiet
<1> HIDE DEF d, p, e
<1>13. /\ WorldOk(g) /\ g.acct = d.acct /\ g.totalStaked = d.totalStaked /\ g.acc = d.acc
       /\ g.treasury = d.treasury /\ g.slashes = Append(s.w.slashes, e)
  <2>1. WorldOk(g)
    BY <1>11, SlashNoted
  <2>2. QED
    BY <1>11, <1>12, <2>1 DEF WorldOk, Slashed, e
<1> HIDE DEF g
<1>14. /\ u.acct = g.acct /\ u.totalStaked = g.totalStaked /\ u.acc = g.acc
       /\ u.treasury = g.treasury /\ u.slashes = g.slashes
  BY <1>13 DEF WorldOk, ProofUsed
<1> HIDE DEF u
<1>15. Strips(s, x, n, wd, o)
  BY <1>1, <1>7, <1>8, <1>9, <1>11, <1>13, <1>14 DEF Strips
<1>16. /\ m.staked = s.me.staked /\ m.pendingStake = s.me.pendingStake
       /\ m.debt = s.me.debt /\ m.nonce = s.me.nonce /\ m.bondedUntil = s.me.bondedUntil
  BY <1>2 DEF AccountOk
<1> HIDE DEF m, k
<1>17. QED
  BY <1>1, <1>4, <1>8, <1>15, <1>16 DEF k

-----------------------------------------------------------------------------
(* The bond lock. *)

\* The transaction begins to take a validator's stake away.
Leaves(x, m) ==
    x.type = "unregister" \/ (x.type = "unstake" /\ x.amt > 0 /\ m.registered)

\* Unless something is slashed, an arm takes out what is unbonding only after the bond's end,
\* and its sender's alone; it moves the end only for a sender that leaves.
BondKept(x, s, o) ==
    /\ IsSeq(o.w.slashes)
    /\ \A a \in Addrs : a # x.from => o.w.acct[a].bondedUntil = s.w.acct[a].bondedUntil
    /\ o.w.slashes = s.w.slashes =>
          /\ \A a \in Addrs : a # x.from => o.w.acct[a].unbonding = s.w.acct[a].unbonding
          /\ o.me.unbonding < s.me.unbonding => now >= s.me.bondedUntil
    /\ o.me.bondedUntil \in Nat
    /\ IF Leaves(x, s.me) THEN o.me.bondedUntil >= now + BondLock
       ELSE o.me.bondedUntil = s.me.bondedUntil

\* Where the bonds are counted from: times are natural numbers and slashes a sequence.
BondStart(s) == IsSeq(s.w.slashes) /\ s.me.bondedUntil \in Nat /\ now \in Nat

\* An arm that leaves every stake as it is.
LEMMA QuietBond ==
    ASSUME NEW s, NEW x, Start(s, x), BondStart(s), NEW o, QuietPair(s, o),
           ~ Leaves(x, s.me)
    PROVE  BondKept(x, s, o)
<1>1. /\ o.w.slashes = s.w.slashes /\ \A a \in Addrs : SameTerms(s.w.acct[a], o.w.acct[a])
      /\ SameTerms(s.me, o.me)
  BY DEF QuietPair, Quiet
<1>2. s.me.unbonding \in Nat
  BY StartTypes, AccountTypes
<1>3. o.me.unbonding = s.me.unbonding /\ o.me.bondedUntil = s.me.bondedUntil
  BY <1>1 DEF SameTerms
<1>4. ~ (o.me.unbonding < s.me.unbonding)
  BY <1>2, <1>3
<1>5. QED
  BY <1>1, <1>3, <1>4 DEF SameTerms, BondKept, BondStart

\* An arm that leaves the accounts, what is unbonding and the bond's end alone.
LEMMA SteadyBond ==
    ASSUME NEW s, NEW x, Start(s, x), BondStart(s), NEW o, Steady(s.w, o.w),
           Unmoved(s.me, o.me), ~ Leaves(x, s.me)
    PROVE  BondKept(x, s, o)
<1>1. s.me.unbonding \in Nat
  BY StartTypes, AccountTypes
<1>2. ~ (o.me.unbonding < s.me.unbonding)
  BY <1>1 DEF Unmoved
<1>3. QED
  BY <1>2 DEF Steady, Unmoved, BondKept, BondStart

\* UnstakeZagros: nothing leaves before the bond's end.
LEMMA UnstakeBond ==
    ASSUME NEW s, NEW x, Start(s, x), BondStart(s), x.type = "unstake",
           NEW o \in UnstakeZagros(s, x)
    PROVE  BondKept(x, s, o)
<1>1. /\ s.me.unbonding \in Nat /\ x.amt \in Nat /\ s.me.bondedUntil \in Nat /\ now \in Nat
      /\ BondLock \in Nat
  BY StartTypes, AccountTypes, FreshGenesis DEF BondStart
<1>2. now >= s.me.bondedUntil
  BY <1>1 DEF UnstakeZagros
<1>3. CASE x.amt = 0
  <2>1. o \in Withdraw(s, x)
    BY <1>3 DEF UnstakeZagros
  <2>2. o.w = s.w /\ o.me.bondedUntil = s.me.bondedUntil
    BY <2>1, WithdrawTerms
  <2>3. ~ Leaves(x, s.me)
    BY <1>3 DEF Leaves
  <2>4. QED
    BY <1>2, <2>2, <2>3 DEF BondKept, BondStart
<1>4. CASE x.amt # 0
  <2> DEFINE until == Max({s.me.bondedUntil, now + BondLock})
  <2>1. o \in Unbond(s, x)
    BY <1>4 DEF UnstakeZagros
  <2>2. /\ Steady(s.w, o.w)
        /\ o.me.bondedUntil = IF s.me.registered THEN until ELSE s.me.bondedUntil
    BY <2>1, UnbondTerms
  <2>3. now + BondLock \in Nat
    BY <1>1
  <2>4. until = IF s.me.bondedUntil >= now + BondLock THEN s.me.bondedUntil ELSE now + BondLock
    BY <1>1, <2>3, MaxOfTwo
  <2> HIDE DEF until
  <2>5. until \in Nat /\ until >= now + BondLock
    BY <1>1, <2>3, <2>4
  <2>6. Leaves(x, s.me) <=> s.me.registered
    BY <1>1, <1>4 DEF Leaves
  <2>7. QED
    BY <1>1, <1>2, <2>2, <2>5, <2>6 DEF BondKept, BondStart, Steady
<1>5. QED
  BY <1>3, <1>4

\* UnregisterValidator.
LEMMA UnregisterBond ==
    ASSUME NEW s, NEW x, Start(s, x), BondStart(s), x.type = "unregister",
           NEW o \in UnregisterValidator(s, x)
    PROVE  BondKept(x, s, o)
<1>1. /\ o.w = s.w /\ o.me.unbonding = s.me.unbonding /\ o.me.bondedUntil = now + BondLock
  BY UnregisterTerms
<1>2. s.me.unbonding \in Nat /\ now \in Nat /\ BondLock \in Nat
  BY StartTypes, AccountTypes, FreshGenesis DEF BondStart
<1>3. ~ (o.me.unbonding < s.me.unbonding) /\ now + BondLock \in Nat
  BY <1>1, <1>2
<1>4. Leaves(x, s.me)
  BY DEF Leaves
<1>5. now + BondLock >= now + BondLock
  BY <1>3
<1>6. QED
  BY <1>1, <1>3, <1>4, <1>5 DEF BondKept, BondStart

\* A confiscation is always noted among the slashes.
LEMMA StripsBond ==
    ASSUME NEW s, NEW x, Start(s, x), BondStart(s), NEW n, NEW v, NEW o,
           Strips(s, x, n, v, o), n.bondedUntil = s.w.acct[x.to].bondedUntil
    PROVE  /\ IsSeq(o.w.slashes) /\ o.w.slashes # s.w.slashes
           /\ \A a \in Addrs : o.w.acct[a].bondedUntil = s.w.acct[a].bondedUntil
<1>1. PICK d, e :
          /\ WorldOk(d) /\ Quiet(v, d)
          /\ o.w.acct = d.acct /\ o.w.slashes = Append(s.w.slashes, e)
  BY DEF Strips
<1>2. v.acct = [s.w.acct EXCEPT ![x.to] = n] /\ DOMAIN s.w.acct = Addrs
  <2>1. WorldOk(s.w)
    BY StartTypes
  <2>2. DOMAIN s.w.acct = Addrs
    BY <2>1 DEF WorldOk
  <2>3. QED
    BY <2>2 DEF Strips
<1>3. \A a \in Addrs : v.acct[a].bondedUntil = s.w.acct[a].bondedUntil
  BY <1>2
<1>4. \A a \in Addrs : d.acct[a].bondedUntil = v.acct[a].bondedUntil
  BY <1>1 DEF Quiet, SameTerms
<1>5. IsSeq(Append(s.w.slashes, e)) /\ Append(s.w.slashes, e) # s.w.slashes
  <2> DEFINE z == s.w.slashes
             y == Append(z, e)
  <2>1. IsSeq(z)
    BY DEF BondStart
  <2> HIDE DEF z
  <2>2. IsSeq(y) /\ Len(y) = Len(z) + 1 /\ Len(z) \in Nat
    BY <2>1, Pushed
  <2>3. Len(y) # Len(z)
    BY <2>2
  <2>4. y # z
    BY <2>3
  <2>5. QED
    BY <2>2, <2>4 DEF z
<1>6. QED
  BY <1>1, <1>3, <1>4, <1>5

\* SlashValidator.
LEMMA SlashBond ==
    ASSUME NEW s, NEW x, Start(s, x), BondStart(s), x.type = "slash",
           NEW o \in SlashValidator(s, x)
    PROVE  BondKept(x, s, o)
<1>1. PICK n, v : /\ Strips(s, x, n, v, o)
                  /\ IF x.to = x.from THEN n = s.w.acct[x.to] /\ Stripped(s.w.acct[x.to], o.me)
                     ELSE Stripped(s.w.acct[x.to], n) /\ o.me = s.me
  BY SlashTerms
<1>2. n.bondedUntil = s.w.acct[x.to].bondedUntil
  BY <1>1 DEF Stripped
<1>3. s.me = s.w.acct[x.from]
  BY StartTypes
<1>4. o.me.bondedUntil = s.me.bondedUntil
  BY <1>1, <1>3 DEF Stripped
<1>5. ~ Leaves(x, s.me)
  BY DEF Leaves
<1>6. /\ IsSeq(o.w.slashes) /\ o.w.slashes # s.w.slashes
      /\ \A a \in Addrs : o.w.acct[a].bondedUntil = s.w.acct[a].bondedUntil
  BY <1>1, <1>2, StripsBond
<1>7. QED
  BY <1>4, <1>5, <1>6 DEF BondKept, BondStart

\* ReportMalicious.
LEMMA ReportBond ==
    ASSUME NEW s, NEW x, Start(s, x), BondStart(s), x.type = "report",
           NEW o \in ReportMalicious(s, x)
    PROVE  BondKept(x, s, o)
<1>1. PICK n, v : Strips(s, x, n, v, o) /\ Stripped(s.w.acct[x.to], n)
  BY ReportTerms
<1>2. o.me.bondedUntil = s.me.bondedUntil
  BY ReportTerms
<1>3. /\ IsSeq(o.w.slashes) /\ o.w.slashes # s.w.slashes
      /\ \A a \in Addrs : o.w.acct[a].bondedUntil = s.w.acct[a].bondedUntil
  BY <1>1, StripsBond DEF Stripped
<1>4. ~ Leaves(x, s.me)
  BY DEF Leaves
<1>5. QED
  BY <1>2, <1>3, <1>4 DEF BondKept, BondStart

\* Every arm keeps the bonds.
LEMMA ArmBond ==
    ASSUME NEW s, NEW x, Start(s, x), BondStart(s), NEW o \in Arm(s, x)
    PROVE  BondKept(x, s, o)
<1>1. x.type \in TxTypes
  BY StartTypes
<1>2. x.type \notin {"unregister", "unstake"} => ~ Leaves(x, s.me)
  BY DEF Leaves
<1>3. CASE x.type = "transfer"
  BY <1>2, <1>3, TransferQuiet, QuietBond DEF Arm
<1>4. CASE x.type = "buy"
  BY <1>2, <1>4, SwapBuyQuiet, QuietBond DEF Arm
<1>5. CASE x.type = "sell"
  BY <1>2, <1>5, SwapSellQuiet, QuietBond DEF Arm
<1>6. CASE x.type = "stake"
  BY <1>2, <1>6, StakeTerms, SteadyBond DEF Arm
<1>7. CASE x.type = "unstake"
  BY <1>7, UnstakeBond DEF Arm
<1>8. CASE x.type = "claim"
  BY <1>2, <1>8, ClaimTerms, SteadyBond DEF Arm
<1>9. CASE x.type = "slash"
  BY <1>9, SlashBond DEF Arm
<1>10. CASE x.type = "report"
  BY <1>10, ReportBond DEF Arm
<1>11. CASE x.type = "unregister"
  BY <1>11, UnregisterBond DEF Arm
<1>12. CASE x.type = "mint"
  BY <1>2, <1>12, MintQuiet, QuietBond DEF Arm
<1>13. CASE x.type = "mint_and_swap"
  BY <1>2, <1>13, MintAndSwapQuiet, QuietBond DEF Arm
<1>14. CASE x.type = "burn"
  BY <1>2, <1>14, BurnQuiet, QuietBond DEF Arm
<1>15. CASE x.type = "swap_and_burn"
  BY <1>2, <1>15, SwapAndBurnQuiet, QuietBond DEF Arm
<1>16. QED
  BY <1>1, <1>3, <1>4, <1>5, <1>6, <1>7, <1>8, <1>9, <1>10, <1>11, <1>12, <1>13, <1>14, <1>15
     DEF TxTypes

-----------------------------------------------------------------------------
(* What the end of a transaction does to the terms. *)

\* A fee is charged and a nonce moves; nobody's stake does.
Charges(v, t, b) ==
    /\ t.slashes = v.slashes /\ t.totalStaked = v.totalStaked /\ t.acc = v.acc
    /\ t.treasury = v.treasury
    /\ \A a \in Addrs :
          /\ t.acct[a].staked = v.acct[a].staked /\ t.acct[a].debt = v.acct[a].debt
          /\ t.acct[a].pendingStake = v.acct[a].pendingStake
          /\ t.acct[a].unbonding = v.acct[a].unbonding
          /\ t.acct[a].bondedUntil = v.acct[a].bondedUntil
          /\ t.acct[a].nonce = IF a = b THEN v.acct[a].nonce + 1 ELSE v.acct[a].nonce

\* Writing a nonce and a balance is such a charge.
LEMMA ChargedTerms ==
    ASSUME NEW v, WorldOk(v), NEW b \in Addrs, NEW k, NEW t,
           t = [v EXCEPT !.acct[b].nonce = @ + 1, !.acct[b].balance = @ - k]
    PROVE  Charges(v, t, b)
<1> DEFINE old == v.acct[b]
           n == [old EXCEPT !.nonce = @ + 1, !.balance = @ - k]
<1>1. AccountOk(old) /\ DOMAIN v.acct = Addrs
  BY WorldTypes DEF WorldOk
<1>2. /\ t.acct = [v.acct EXCEPT ![b] = n] /\ t.slashes = v.slashes
      /\ t.totalStaked = v.totalStaked /\ t.acc = v.acc /\ t.treasury = v.treasury
  BY <1>1 DEF WorldOk
<1>3. /\ n.staked = old.staked /\ n.debt = old.debt /\ n.pendingStake = old.pendingStake
      /\ n.unbonding = old.unbonding /\ n.bondedUntil = old.bondedUntil
      /\ n.nonce = old.nonce + 1
  <2> HIDE DEF old
  <2>1. QED
    BY <1>1 DEF AccountOk
<1> HIDE DEF n
<1>4. \A a \in Addrs : t.acct[a] = IF a = b THEN n ELSE v.acct[a]
  BY <1>1, <1>2
<1>5. SUFFICES ASSUME NEW a \in Addrs
               PROVE  /\ t.acct[a].staked = v.acct[a].staked /\ t.acct[a].debt = v.acct[a].debt
                      /\ t.acct[a].pendingStake = v.acct[a].pendingStake
                      /\ t.acct[a].unbonding = v.acct[a].unbonding
                      /\ t.acct[a].bondedUntil = v.acct[a].bondedUntil
                      /\ t.acct[a].nonce = IF a = b THEN v.acct[a].nonce + 1
                                           ELSE v.acct[a].nonce
  BY <1>2 DEF Charges
<1>6. CASE a = b
  BY <1>3, <1>4, <1>6 DEF old
<1>7. CASE a # b
  BY <1>4, <1>7
<1>8. QED
  BY <1>6, <1>7

\* A write beside the books is beside the stakes, either way.
LEMMA QuietBeside ==
    ASSUME NEW v, NEW u, WorldOk(v), WorldOk(u), Beside(v, u)
    PROVE  Quiet(v, u) /\ Quiet(u, v)
<1>1. IsAside(v, u) /\ IsAside(u, v)
  BY DEF Beside, IsAside, SameTerms
<1>2. QED
  BY <1>1, QuietAside

\* So is the write of an account's balance.
LEMMA QuietRebalanced ==
    ASSUME NEW v, WorldOk(v), NEW b \in Addrs, NEW c \in Nat, NEW u, IsRebalanced(v, b, c, u)
    PROVE  Quiet(v, u)
<1> DEFINE old == v.acct[b]
           n == [old EXCEPT !.balance = c]
<1>1. AccountOk(old) /\ DOMAIN v.acct = Addrs
  BY WorldTypes DEF WorldOk
<1>2. /\ u.acct = [v.acct EXCEPT ![b] = n] /\ u.slashes = v.slashes
      /\ u.totalStaked = v.totalStaked /\ u.acc = v.acc /\ u.treasury = v.treasury
  BY DEF WorldOk, IsRebalanced
<1>3. SameTerms(old, n)
  <2> HIDE DEF old
  <2>1. QED
    BY <1>1 DEF AccountOk, SameTerms
<1> HIDE DEF n
<1>4. \A a \in Addrs : u.acct[a] = IF a = b THEN n ELSE v.acct[a]
  BY <1>1, <1>2
<1>5. \A a \in Addrs : SameTerms(v.acct[a], u.acct[a])
  BY <1>3, <1>4 DEF SameTerms, old
<1>6. QED
  BY <1>2, <1>5, QuietAside DEF IsAside

\* And the commit of a call.
LEMMA QuietCommitted ==
    ASSUME NEW v, WorldOk(v), NEW x \in Calls, v.acct[x.from].balance >= x.fee + x.amt
    PROVE  Quiet(v, Committed(v, x))
<1> DEFINE from == x.from
           to == x.to
           old == v.acct[from].balance
           c == old - x.used - x.amt
           p == [v EXCEPT !.acct[from].balance = c]
           d == p.acct[to].balance + x.amt
           u == [p EXCEPT !.acct[to].balance = d]
<1>1. /\ from \in Addrs /\ to \in Addrs /\ x.amt \in Nat /\ x.fee \in Nat /\ x.used \in Nat
      /\ x.used <= x.fee
  BY CallAssumption
<1>2. old \in Nat
  BY <1>1, WorldTypes, AccountTypes
<1>3. Committed(v, x) = u
  BY DEF Committed
<1>4. c \in Nat
  <2>1. old >= x.fee + x.amt
    OBVIOUS
  <2> HIDE DEF old
  <2>2. QED
    BY <1>1, <1>2, <2>1
<1> HIDE DEF u
<1>5. WorldOk(p) /\ Quiet(v, p)
  <2>1. IsRebalanced(v, from, c, p)
    BY DEF IsRebalanced
  <2> HIDE DEF c, p
  <2>2. QED
    BY <1>1, <1>4, <2>1, Rebalanced, QuietRebalanced
<1> HIDE DEF p, c, old
<1>6. d \in Nat
  BY <1>1, <1>5, WorldTypes, AccountTypes
<1>7. IsRebalanced(p, to, d, u)
  BY DEF u, IsRebalanced
<1>8. WorldOk(u) /\ Quiet(p, u)
  <2> HIDE DEF d
  <2>1. QED
    BY <1>1, <1>5, <1>6, <1>7, Rebalanced, QuietRebalanced
<1>9. Quiet(v, u)
  BY <1>5, <1>8, QuietTwice
<1>10. QED
  BY <1>3, <1>9

\* A transaction ends that has left the stakes as they were.
Ends == \E v, b : b \in Addrs /\ WorldOk(v) /\ Quiet(w, v) /\ Charges(v, w', b)

\* A call that fails goes back to its checkpoint.
LEMMA FailedEnds ==
    ASSUME NEW v, WorldOk(v), Quiet(w, v), NEW x \in Calls, NEW metered, CallFailed(v, x, metered)
    PROVE  Ends
<1> DEFINE k == Max({metered, Floor(v, x)})
<1>1. w' = [v EXCEPT !.acct[x.from].nonce = @ + 1, !.acct[x.from].balance = @ - k]
  BY DEF CallFailed
<1>2. x.from \in Addrs
  BY CallAssumption
<1> HIDE DEF k
<1>3. Charges(v, w', x.from)
  BY <1>1, <1>2, ChargedTerms
<1>4. QED
  BY <1>2, <1>3 DEF Ends

\* A call that succeeds is charged in the world it has written.
LEMMA SettledEnds ==
    ASSUME NEW v, WorldOk(v), Quiet(w, v), NEW x \in Calls, NEW due, CallSettled(v, x, due)
    PROVE  Ends
<1> DEFINE k == Min({due, v.acct[x.from].balance})
<1>1. w' = [v EXCEPT !.acct[x.from].nonce = @ + 1, !.acct[x.from].balance = @ - k]
  BY DEF CallSettled
<1>2. x.from \in Addrs
  BY CallAssumption
<1> HIDE DEF k
<1>3. Charges(v, w', x.from)
  BY <1>1, <1>2, ChargedTerms
<1>4. QED
  BY <1>2, <1>3 DEF Ends

\* A reverted call.
LEMMA RevertEnds == EvmInv /\ RevertCall => Ends
<1> SUFFICES ASSUME EvmInv, RevertCall PROVE Ends
  OBVIOUS
<1>1. Running /\ CallFailed(call.saved, call.x, call.x.used)
  BY DEF RevertCall
<1>2. WorldOk(w) /\ WorldOk(call.saved) /\ Beside(call.saved, w) /\ call.x \in Calls
  BY <1>1 DEF EvmInv, LedgerInv, CallInv
<1>3. QED
  BY <1>1, <1>2, QuietBeside, FailedEnds

\* A call that ends well, or cannot pay the factory.
LEMMA FinishEnds == EvmInv /\ FinishCall => Ends
<1> SUFFICES ASSUME EvmInv, FinishCall PROVE Ends
  OBVIOUS
<1> DEFINE x == call.x
           v == call.saved
           b == x.from
           k == x.used
           done == Committed(w, x)
           earned == Distribute(done, k)
           fee == FactoryTotal(earned, x)
           spent == [earned EXCEPT !.acct[b].balance = @ - fee]
           built == Distribute(spent, fee)
           floor == IF x.creates > 0 THEN 0 ELSE Floor(v, x)
           due == Monus(floor, k) + Levy(v, x)
<1>1. /\ Running
      /\ IF earned.acct[b].balance < fee THEN CallFailed(v, x, k) ELSE CallSettled(built, x, due)
  BY DEF FinishCall
<1>2. /\ Balanced(w) /\ Balanced(v) /\ x \in Calls /\ v.acct[b].balance \in Nat
      /\ w.acct[b].balance = v.acct[b].balance /\ v.acct[b].balance >= x.fee + x.amt
      /\ Beside(v, w)
  BY <1>1, SavedBalanced DEF EvmInv, CallInv
<1> HIDE DEF x, v
<1>3. /\ k \in Nat /\ b \in Addrs
  BY <1>2, CallAssumption
<1>4. BlockOk
  BY DEF EvmInv, LedgerInv
<1>5. WorldOk(done) /\ Quiet(w, done)
  BY <1>2, CommitKeeps, QuietCommitted DEF Balanced
<1> HIDE DEF done, k
<1>6. WorldOk(earned) /\ Quiet(done, earned)
  BY <1>3, <1>4, <1>5, Distributed, QuietDistributed
<1> HIDE DEF earned
<1>7. fee \in Nat /\ earned.acct[b].balance \in Nat
  BY <1>2, <1>3, <1>6, DuesTyped, WorldTypes, AccountTypes
<1> HIDE DEF fee
<1>8. CASE earned.acct[b].balance < fee
  BY <1>1, <1>2, <1>8, QuietBeside, FailedEnds DEF Balanced
<1>9. CASE ~(earned.acct[b].balance < fee)
  <2> DEFINE c == earned.acct[b].balance - fee
  <2>1. c \in Nat /\ IsRebalanced(earned, b, c, spent)
    BY <1>7, <1>9 DEF IsRebalanced
  <2> HIDE DEF spent
  <2>2. WorldOk(spent) /\ Quiet(earned, spent)
    <3> HIDE DEF c
    <3>1. QED
      BY <1>3, <1>6, <2>1, Rebalanced, QuietRebalanced
  <2>3. WorldOk(built) /\ Quiet(spent, built)
    BY <1>4, <1>7, <2>2, Distributed, QuietDistributed
  <2>4. CallSettled(built, x, due)
    BY <1>1, <1>9
  <2> HIDE DEF built, due
  <2>5. Quiet(w, earned)
    BY <1>2, <1>5, <1>6, QuietTwice DEF Balanced
  <2>6. Quiet(w, spent)
    BY <1>2, <1>6, <2>2, <2>5, QuietTwice DEF Balanced
  <2>7. Quiet(w, built)
    BY <1>2, <2>2, <2>3, <2>6, QuietTwice DEF Balanced
  <2>8. QED
    BY <1>2, <2>3, <2>4, <2>7, SettledEnds
<1>10. QED
  BY <1>8, <1>9

\* A swap sent to the token.
LEMMA SwapEnds == ASSUME EvmInv, NEW x \in Calls, EvmSwap(x) PROVE Ends
<1> DEFINE b == x.from
           d == IF x.type = "evm_sell" THEN "zagros_in" ELSE "zerenya_in"
           reserve == IF d = "zagros_in" THEN w.pool.zagros ELSE w.pool.zerenya
           volumes == VolumeRecorded(w, d, x.amt, reserve)
           quotes == {q \in IF d = "zagros_in" THEN SellQuote(w, x.amt) ELSE BuyQuote(w, x.amt) :
                         IF d = "zagros_in" THEN w.acct[b].balance >= x.fee + x.amt
                         ELSE w.acct[b].zerenya >= x.amt /\ w.acct[b].balance >= x.fee}
           due == Max({x.fee, Floor(w, x)})
           repaid(v, q) == [v EXCEPT !.pool = q.pool,
                                !.acct[b].balance =
                                    IF d = "zagros_in" THEN @ - x.amt ELSE @ + q.out,
                                !.acct[b].zerenya =
                                    IF d = "zagros_in" THEN @ + q.out ELSE @ - x.amt]
<1>1. \/ \E p \in volumes \X quotes : CallSettled(Distribute(repaid(p[1], p[2]), p[2].fee), x, due)
      \/ CallFailed(w, x, x.fee)
  BY DEF EvmSwap
<1>2. /\ WorldOk(w) /\ BlockOk /\ x.fee \in Nat /\ x.amt \in Nat /\ b \in Addrs
  BY CallAssumption DEF EvmInv, LedgerInv
<1>3. CASE CallFailed(w, x, x.fee)
  <2>1. Quiet(w, w)
    BY <1>2, TermsKept, QuietAside DEF IsAside
  <2>2. QED
    BY <1>2, <1>3, <2>1, FailedEnds
<1>4. CASE \E p \in volumes \X quotes : CallSettled(Distribute(repaid(p[1], p[2]), p[2].fee), x, due)
  <2>1. PICK v \in volumes, q \in quotes : CallSettled(Distribute(repaid(v, q), q.fee), x, due)
    BY <1>4
  <2> DEFINE u == repaid(v, q)
             old == v.acct[b]
             c == IF d = "zagros_in" THEN old.balance - x.amt ELSE old.balance + q.out
             z == IF d = "zagros_in" THEN old.zerenya + q.out ELSE old.zerenya - x.amt
             m == [old EXCEPT !.balance = c, !.zerenya = z]
  <2>2. WorldOk(v) /\ Quiet(w, v) /\ v.acct = w.acct
    BY <1>2, <2>1, QuietVolume, VolumeNoted
  <2>3. /\ AccountOk(old) /\ old.balance \in Nat /\ old.zerenya \in Nat
    BY <1>2, <2>2, WorldTypes, AccountTypes
  <2>4. /\ q.out \in Nat /\ q.fee \in Nat /\ q.pool \in [zagros: Nat, zerenya: Nat]
        /\ c \in Nat /\ z \in Nat
    <3>1. CASE d = "zagros_in"
      <4>1. q \in SellQuote(w, x.amt) /\ old.balance >= x.fee + x.amt
        BY <2>1, <2>2, <3>1
      <4>2. /\ q.out \in Nat /\ q.fee \in Nat /\ q.pool \in [zagros: Nat, zerenya: Nat]
        BY <1>2, <4>1, SellQuoted
      <4>3. c = old.balance - x.amt /\ z = old.zerenya + q.out
        BY <3>1
      <4> HIDE DEF c, z, old
      <4>4. QED
        BY <1>2, <2>3, <4>1, <4>2, <4>3
    <3>2. CASE d # "zagros_in"
      <4>1. q \in BuyQuote(w, x.amt) /\ old.zerenya >= x.amt
        BY <2>1, <2>2, <3>2
      <4>2. /\ q.out \in Nat /\ q.fee \in Nat /\ q.pool \in [zagros: Nat, zerenya: Nat]
        BY <1>2, <4>1, BuyQuoted
      <4>3. c = old.balance + q.out /\ z = old.zerenya - x.amt
        BY <3>2
      <4> HIDE DEF c, z, old
      <4>4. QED
        BY <1>2, <2>3, <4>1, <4>2, <4>3
    <3>3. QED
      BY <3>1, <3>2
  <2> DEFINE fee == q.fee
             after == Distribute(u, fee)
  <2>5. CallSettled(after, x, due)
    BY <2>1
  <2>6. u = [v EXCEPT !.pool = q.pool, !.acct[b].balance = c, !.acct[b].zerenya = z]
    OBVIOUS
  <2> HIDE DEF u, c, z, fee, due
  <2>7. /\ DOMAIN u = DOMAIN v /\ u.acct = [v.acct EXCEPT ![b] = m] /\ u.pool = q.pool
        /\ u.treasury = v.treasury /\ u.totalStaked = v.totalStaked /\ u.acc = v.acc
        /\ u.backed = v.backed /\ u.slashes = v.slashes
    BY <1>2, <2>2, <2>6 DEF WorldOk
  <2> HIDE DEF old
  <2>8. AccountOk(m) /\ SameTerms(old, m)
    BY <2>3, <2>4 DEF AccountOk, SameTerms
  <2> HIDE DEF m
  <2>9. WorldOk(u)
    <3>1. IsRewrite(v, b, m, u)
      BY <1>2, <2>2, <2>4, <2>7, <2>8, WorldTypes DEF IsRewrite
    <3>2. QED
      BY <3>1, Rewritten
  <2>10. Quiet(v, u)
    <3>1. DOMAIN v.acct = Addrs
      BY <2>2 DEF WorldOk
    <3>2. \A a \in Addrs : u.acct[a] = IF a = b THEN m ELSE v.acct[a]
      BY <2>7, <3>1
    <3>3. \A a \in Addrs : SameTerms(v.acct[a], u.acct[a])
      BY <2>8, <3>2 DEF SameTerms, old
    <3>4. QED
      BY <2>2, <2>7, <3>3, QuietAside DEF IsAside
  <2>11. fee \in Nat
    BY <2>4 DEF fee
  <2>12. WorldOk(after) /\ Quiet(u, after)
    BY <1>2, <2>9, <2>11, Distributed, QuietDistributed
  <2> HIDE DEF after
  <2>13. Quiet(w, u)
    BY <1>2, <2>2, <2>9, <2>10, QuietTwice
  <2>14. Quiet(w, after)
    BY <1>2, <2>9, <2>12, <2>13, QuietTwice
  <2>15. QED
    BY <2>5, <2>12, <2>14, SettledEnds
<1>5. QED
  BY <1>1, <1>3, <1>4

\* A native transaction that fails.
LEMMA FailEnds ==
    ASSUME LedgerInv, NEW x \in Txs, Fail(x)
    PROVE  Ends
<1> DEFINE k == Fee(x)
<1>1. w' = [w EXCEPT !.acct[x.from].nonce = @ + 1, !.acct[x.from].balance = @ - k]
  BY DEF Fail
<1> HIDE DEF k
<1>2. x.from \in Addrs /\ WorldOk(w)
  <2>1. x.from \in Addrs
    BY TxsAre
  <2>2. QED
    BY <2>1 DEF LedgerInv
<1> HIDE DEF k
<1>3. Charges(w, w', x.from)
  BY <1>1, <1>2, ChargedTerms
<1>4. Quiet(w, w)
  BY <1>2, TermsKept, QuietAside DEF IsAside
<1>5. QED
  BY <1>2, <1>3, <1>4 DEF Ends

\* A block ends.
LEMMA SealQuiet ==
    ASSUME LedgerInv, NEW p, NEW f, NEW t, SealBlock(p, f, t)
    PROVE  Quiet(w, w')
BY QuietDistributed DEF LedgerInv, SealBlock

\* A step in the middle of a call.
LEMMA CallQuiet ==
    ASSUME EvmInv, Running, EvmInv', Running', call'.saved = call.saved
    PROVE  Quiet(w, w')
<1>1. /\ WorldOk(w) /\ WorldOk(w') /\ WorldOk(call.saved)
      /\ Beside(call.saved, w) /\ Beside(call.saved, w')
  BY DEF EvmInv, LedgerInv, CallInv
<1>2. Quiet(w, call.saved) /\ Quiet(call.saved, w')
  BY <1>1, QuietBeside
<1>3. QED
  BY <1>1, <1>2, QuietTwice

\* A write in the middle of a call leaves it running, its checkpoint untouched.
LEMMA InterceptedRuns ==
    ASSUME EvmInv, Running, NEW accounts, NEW records, NEW u, Intercepted(accounts, records, u)
    PROVE  Running' /\ call'.saved = call.saved
<1> DEFINE m == Merged(Last(call.frames), Recorded(w, accounts, records))
           f == Front(call.frames)
<1>1. /\ DOMAIN call = {"x", "saved", "frames", "at", "ops"} /\ IsSeq(call.frames)
      /\ call.frames # <<>>
  BY DEF EvmInv, CallInv, Running, StackOk
<1>2. call'.saved = call.saved /\ call'.frames = Append(f, m)
  BY <1>1 DEF Intercepted
<1>3. IsSeq(f)
  BY <1>1, Popped
<1> HIDE DEF f, m
<1>4. Append(f, m) # <<>>
  BY <1>3, Pushed
<1>5. QED
  BY <1>2, <1>4 DEF Running

\* So do the opening and the closing of a frame.
LEMMA EnterRuns ==
    ASSUME EvmInv, EnterFrame
    PROVE  Running' /\ call'.saved = call.saved
<1>1. /\ DOMAIN call = {"x", "saved", "frames", "at", "ops"} /\ IsSeq(call.frames)
  BY DEF EvmInv, CallInv, StackOk, EnterFrame, InCall
<1>2. call'.saved = call.saved /\ call'.frames = Append(call.frames, NewFrame)
  BY <1>1 DEF EnterFrame
<1> DEFINE f == call.frames
           m == NewFrame
<1>3. IsSeq(f) /\ call'.frames = Append(f, m)
  BY <1>1, <1>2
<1> HIDE DEF f, m
<1>4. Append(f, m) # <<>>
  BY <1>3, Pushed
<1>5. QED
  BY <1>2, <1>3, <1>4 DEF Running

\* Closing an inner frame leaves the call running, its checkpoint untouched.
LEMMA ExitRuns ==
    ASSUME EvmInv, NEW ok \in BOOLEAN, ExitFrame(ok)
    PROVE  Running /\ Running' /\ call'.saved = call.saved
<1> DEFINE fs == call.frames
           f == Last(fs)
           outer == Front(fs)
           m == Merged(Last(outer), f)
           first == Front(outer)
<1>1. /\ Running /\ fs # <<>> /\ Len(fs) > 1
      /\ call' = [call EXCEPT !.at = Front(@),
                     !.frames = IF ok THEN Append(first, m) ELSE outer]
  BY DEF ExitFrame, Running
<1>2. DOMAIN call = {"x", "saved", "frames", "at", "ops"} /\ IsSeq(fs)
  BY <1>1 DEF EvmInv, CallInv, StackOk
<1>3. call'.saved = call.saved /\ call'.frames = IF ok THEN Append(first, m) ELSE outer
  BY <1>1, <1>2
<1> HIDE DEF fs
<1>4. IsSeq(outer) /\ outer # <<>>
  <2>1. IsSeq(outer) /\ Len(outer) = Len(fs) - 1 /\ Len(fs) \in Nat
    BY <1>1, <1>2, Popped
  <2> HIDE DEF outer
  <2>2. outer = <<>> => Len(outer) = 0
    BY EmptySeq
  <2>3. QED
    BY <1>1, <2>1, <2>2
<1> HIDE DEF outer
<1>5. IsSeq(first)
  BY <1>4, Popped
<1> HIDE DEF first, m
<1>6. Append(first, m) # <<>>
  BY <1>5, Pushed
<1>7. QED
  BY <1>1, <1>3, <1>4, <1>6 DEF Running

\* Between native transactions a step leaves the stakes as they were, or ends a call.
LEMMA EvmQuiet ==
    ASSUME EvmInv, EvmNext, ~ (~Running /\ Next /\ UNCHANGED call)
    PROVE  (Quiet(w, w') \/ Ends) /\ UNCHANGED <<left, now>>
<1>1. EvmInv' /\ WorldOk(w)
  BY EvmKeeps DEF EvmInv, LedgerInv
<1>2. Quiet(w, w)
  BY <1>1, TermsKept, QuietAside DEF IsAside
<1>3. ASSUME NEW x \in Calls, BeginCall(x) \/ EvmSwap(x)
      PROVE  (Quiet(w, w') \/ Ends) /\ UNCHANGED <<left, now>>
  <2>1. CASE BeginCall(x)
    BY <1>2, <2>1 DEF BeginCall, block
  <2>2. CASE EvmSwap(x)
    <3>1. UNCHANGED <<left, now>>
      BY <2>2 DEF EvmSwap, block
    <3>2. QED
      BY <2>2, <3>1, SwapEnds
  <2>3. QED
    BY <1>3, <2>1, <2>2
<1>4. ASSUME NEW from \in Addrs, NEW to \in Payees, NEW n \in Moves,
             TransferZerenya(from, to, n) \/ Approve(from, to, n)
      PROVE  Quiet(w, w') /\ UNCHANGED <<left, now>>
  <2>1. Running /\ UNCHANGED <<left, now>>
    BY <1>4 DEF TransferZerenya, Approve, InCall, block
  <2>2. \E accounts, records, u : Intercepted(accounts, records, u)
    BY <1>4 DEF TransferZerenya, Approve
  <2>3. QED
    BY <1>1, <2>1, <2>2, InterceptedRuns, CallQuiet
<1>5. ASSUME NEW spender \in Contracts, NEW owner \in Addrs, NEW to \in Payees, NEW n \in Moves,
             TransferFrom(spender, owner, to, n)
      PROVE  Quiet(w, w') /\ UNCHANGED <<left, now>>
  <2>1. Running /\ UNCHANGED <<left, now>>
    BY <1>5 DEF TransferFrom, InCall, block
  <2>2. \E accounts, records, u : Intercepted(accounts, records, u)
    BY <1>5 DEF TransferFrom
  <2>3. QED
    BY <1>1, <2>1, <2>2, InterceptedRuns, CallQuiet
<1>6. CASE EnterFrame
  BY <1>2, <1>6 DEF EnterFrame, block
<1>7. ASSUME NEW ok \in BOOLEAN, ExitFrame(ok)
      PROVE  Quiet(w, w') /\ UNCHANGED <<left, now>>
  <2>1. UNCHANGED <<left, now>>
    BY <1>7 DEF ExitFrame, block
  <2>2. QED
    BY <1>1, <1>7, <2>1, ExitRuns, CallQuiet
<1>8. CASE FinishCall
  <2>1. UNCHANGED <<left, now>>
    BY <1>8 DEF FinishCall, block
  <2>2. QED
    BY <1>8, <2>1, FinishEnds
<1>9. CASE RevertCall
  <2>1. UNCHANGED <<left, now>>
    BY <1>9 DEF RevertCall, block
  <2>2. QED
    BY <1>9, <2>1, RevertEnds
<1>10. QED
  BY <1>3, <1>4, <1>5, <1>6, <1>7, <1>8, <1>9 DEF EvmNext

-----------------------------------------------------------------------------
(* The bond lock, over all steps. *)

\* Whoever left at left[a] is bonded for the whole lock from then on.
BondInv ==
    /\ now \in Nat /\ IsSeq(w.slashes) /\ DOMAIN left = Addrs
    /\ \A a \in Addrs : /\ left[a] \in Int /\ w.acct[a].bondedUntil \in Nat
                        /\ left[a] + BondLock <= w.acct[a].bondedUntil

\* What a step may not do unless it slashes.
BondStep ==
    \A a \in Addrs :
        w'.acct[a].unbonding < w.acct[a].unbonding /\ w'.slashes = w.slashes
            => now >= left[a] + BondLock

\* A step that leaves what is bonded as it is.
LEMMA StillBonded ==
    ASSUME EvmInv, BondInv, Quiet(w, w') \/ Ends, left' = left, now' \in Nat
    PROVE  BondInv' /\ BondStep
<1>1. /\ w'.slashes = w.slashes
      /\ \A a \in Addrs : /\ w'.acct[a].unbonding = w.acct[a].unbonding
                          /\ w'.acct[a].bondedUntil = w.acct[a].bondedUntil
  <2>1. CASE Quiet(w, w')
    BY <2>1 DEF Quiet, SameTerms
  <2>2. CASE Ends
    BY <2>2 DEF Ends, Charges, Quiet, SameTerms
  <2>3. QED
    BY <2>1, <2>2
<1>2. \A a \in Addrs : w.acct[a].unbonding \in Nat
  BY WorldTypes, AccountTypes DEF EvmInv, LedgerInv
<1>3. BondStep
  BY <1>1, <1>2 DEF BondStep
<1>4. BondInv'
  BY <1>1 DEF BondInv
<1>5. QED
  BY <1>3, <1>4

\* A native transaction that succeeds.
LEMMA SucceedBonded ==
    ASSUME EvmInv, BondInv, NEW x \in Txs, NEW s \in Outcomes(x), Succeed(x, s),
           UNCHANGED block
    PROVE  BondInv' /\ BondStep
<1> DEFINE b == x.from
           first == [w |-> w, me |-> w.acct[b]]
           charged == Min({Fee(x), s.me.balance})
           n == [s.me EXCEPT !.nonce = @ + 1, !.balance = @ - charged]
<1>1. /\ w' = [s.w EXCEPT !.acct[b] = n] /\ now' = now
      /\ left' = IF Leaves(x, w.acct[b]) THEN [left EXCEPT ![b] = now] ELSE left
  BY DEF Succeed, Leaves, block
<1>2. Start(first, x) /\ s \in Arm(first, x)
  BY Outcome DEF EvmInv
<1>3. first.w = w /\ first.me = w.acct[b]
  OBVIOUS
<1> HIDE DEF first, charged, n
<1>4. b \in Addrs /\ WorldOk(s.w) /\ AccountOk(s.me)
  BY <1>2, ArmTyped
<1>5. BondStart(first)
  BY <1>3, <1>4 DEF BondStart, BondInv
<1>6. BondKept(x, first, s)
  BY <1>2, <1>5, ArmBond
<1>7. /\ n.unbonding = s.me.unbonding /\ n.bondedUntil = s.me.bondedUntil
  BY <1>4 DEF AccountOk, n
<1>8. /\ w'.slashes = s.w.slashes
      /\ \A a \in Addrs : w'.acct[a] = IF a = b THEN n ELSE s.w.acct[a]
  BY <1>1, <1>4 DEF WorldOk
<1>9. \A a \in Addrs : a # b =>
         /\ w'.acct[a].bondedUntil = w.acct[a].bondedUntil
         /\ w'.slashes = w.slashes => w'.acct[a].unbonding = w.acct[a].unbonding
  BY <1>3, <1>6, <1>8 DEF BondKept
<1>10. /\ w'.acct[b].unbonding = s.me.unbonding /\ w'.acct[b].bondedUntil = s.me.bondedUntil
       /\ s.me.bondedUntil \in Nat
  BY <1>4, <1>6, <1>7, <1>8 DEF BondKept
<1>11. BondLock \in Nat /\ now \in Nat
  BY FreshGenesis DEF BondInv
<1>12. BondStep
  <2>1. SUFFICES ASSUME NEW a \in Addrs, w'.acct[a].unbonding < w.acct[a].unbonding,
                        w'.slashes = w.slashes
                 PROVE  now >= left[a] + BondLock
    BY DEF BondStep
  <2>2. w.acct[a].unbonding \in Nat /\ left[a] \in Int /\ w.acct[a].bondedUntil \in Nat
        /\ left[a] + BondLock <= w.acct[a].bondedUntil
    BY WorldTypes, AccountTypes DEF EvmInv, LedgerInv, BondInv
  <2>3. a = b
    BY <1>9, <2>1, <2>2
  <2>4. now >= w.acct[a].bondedUntil
    BY <1>3, <1>6, <1>8, <1>10, <2>1, <2>3 DEF BondKept
  <2>5. QED
    BY <1>11, <2>2, <2>4
<1>13. BondInv'
  <2>1. now' \in Nat /\ IsSeq(w'.slashes) /\ DOMAIN left' = Addrs
    BY <1>1, <1>6, <1>8 DEF BondInv, BondKept
  <2>2. ASSUME NEW a \in Addrs
        PROVE  /\ left'[a] \in Int /\ w'.acct[a].bondedUntil \in Nat
               /\ left'[a] + BondLock <= w'.acct[a].bondedUntil
    <3>1. left[a] \in Int /\ w.acct[a].bondedUntil \in Nat
          /\ left[a] + BondLock <= w.acct[a].bondedUntil /\ DOMAIN left = Addrs
      BY DEF BondInv
    <3>2. CASE a # b
      BY <1>1, <1>9, <3>1, <3>2
    <3>3. CASE a = b /\ Leaves(x, w.acct[b])
      <4>1. left'[a] = now
        BY <1>1, <3>1, <3>3
      <4>2. s.me.bondedUntil >= now + BondLock
        BY <1>3, <1>6, <3>3 DEF BondKept
      <4>3. QED
        BY <1>10, <1>11, <3>3, <4>1, <4>2
    <3>4. CASE a = b /\ ~ Leaves(x, w.acct[b])
      <4>1. s.me.bondedUntil = w.acct[b].bondedUntil
        BY <1>3, <1>6, <3>4 DEF BondKept
      <4>2. QED
        BY <1>1, <1>10, <3>1, <3>4, <4>1
    <3>5. QED
      BY <3>2, <3>3, <3>4
  <2>3. QED
    BY <2>1, <2>2 DEF BondInv
<1>14. QED
  BY <1>12, <1>13

\* Times are natural numbers.
LEMMA TimesAre == \A t \in Times : t \in Nat
<1>1. Times \subseteq Nat
  BY LedgerAssumption
<1>2. QED
  BY <1>1

\* Every step keeps the bonds.
LEMMA BondKeeps ==
    ASSUME EvmInv, BondInv, [EvmNext]_evmVars
    PROVE  BondInv' /\ [BondStep]_vars
<1>1. CASE ~Running /\ Next /\ UNCHANGED call
  <2>1. ASSUME NEW x \in Txs, Apply(x) PROVE BondInv' /\ BondStep
    <3>1. UNCHANGED block
      BY <2>1 DEF Apply
    <3>2. ASSUME NEW s \in Outcomes(x), Succeed(x, s) PROVE BondInv' /\ BondStep
      BY <3>1, <3>2, SucceedBonded
    <3>3. CASE Fail(x)
      <4>1. left' = left /\ now' \in Nat
        BY <3>1, <3>3 DEF Fail, block, BondInv
      <4>2. Ends
        BY <3>3, FailEnds DEF EvmInv
      <4>3. QED
        BY <4>1, <4>2, StillBonded
    <3>4. QED
      BY <2>1, <3>2, <3>3 DEF Apply
  <2>2. ASSUME NEW p \in Producers, NEW f \in Factors, NEW t \in Times, SealBlock(p, f, t)
        PROVE  BondInv' /\ BondStep
    <3>1. left' = left /\ now' \in Nat
      <4>1. t \in Nat
        BY TimesAre
      <4>2. QED
        BY <2>2, <4>1 DEF SealBlock
    <3>2. Quiet(w, w')
      BY <2>2, SealQuiet DEF EvmInv
    <3>3. QED
      BY <3>1, <3>2, StillBonded
  <2>3. QED
    BY <1>1, <2>1, <2>2 DEF Next
<1>2. CASE EvmNext /\ ~ (~Running /\ Next /\ UNCHANGED call)
  <2>1. (Quiet(w, w') \/ Ends) /\ UNCHANGED <<left, now>>
    BY <1>2, EvmQuiet
  <2>2. QED
    BY <2>1, StillBonded DEF BondInv
<1>3. CASE UNCHANGED evmVars
  BY <1>3 DEF evmVars, vars, BondInv
<1>4. QED
  BY <1>1, <1>2, <1>3

\* Bonds are kept at genesis: nobody has left.
LEMMA BondStarts == Init => BondInv
<1> SUFFICES ASSUME Init PROVE BondInv
  OBVIOUS
<1>1. /\ w = Genesis /\ now = 0 /\ left = [a \in Addrs |-> -BondLock]
  BY DEF Init
<1>2. /\ BondLock \in Nat /\ Genesis.slashes = <<>>
      /\ \A a \in Addrs : Genesis.acct[a].bondedUntil \in Nat
  BY FreshGenesis
<1>3. IsSeq(w.slashes)
  <2>1. <<>> \in Seq({})
    OBVIOUS
  <2>2. QED
    BY <1>1, <1>2, <2>1 DEF IsSeq
<1>4. QED
  BY <1>1, <1>2, <1>3 DEF BondInv

\* What an account began to unbond as a registered validator, or held when it resigned, stays
\* within reach of evidence for the whole bond lock: no native transaction, call, revert or
\* end of a block takes it out before, unless a slash does.
THEOREM BondNotEscapedHolds == EvmSpec => BondNotEscaped
<1>1. EvmInit => BondInv
  BY BondStarts DEF EvmInit
<1>2. EvmInv /\ BondInv /\ [EvmNext]_evmVars => BondInv' /\ [BondStep]_vars
  BY BondKeeps
<1>3. EvmSpec => [][BondStep]_vars
  BY <1>1, <1>2, EvmInvariant, PTL DEF EvmSpec
<1>4. QED
  BY <1>3 DEF BondNotEscaped, BondStep

-----------------------------------------------------------------------------
(* What the accounts may claim, in units of the scale. *)

\* What m's stake has earned beyond its debt; its debt may be more after a confiscation.
Earned(m, acc) == m.staked * acc - m.debt * Scale

\* An account's claim: what it has earned, or one unit that a later reset of its debt may
\* round up to, and one unit for the debt that its pending stake will take on, rounded down.
ClaimOf(m, acc) ==
    (IF Earned(m, acc) >= 0 THEN Earned(m, acc) ELSE IF m.staked > 0 THEN Scale ELSE 0)
    + (IF m.pendingStake > 0 THEN Scale ELSE 0)

ClaimsOf(ac, acc) == [a \in Addrs |-> ClaimOf(ac[a], acc)]
Claims(ac, acc) == SumOf(ClaimsOf(ac, acc), Addrs)

\* The stake terms that a claim depends on.
SameClaim(m, n) ==
    n.staked = m.staked /\ n.debt = m.debt /\ n.pendingStake = m.pendingStake

\* The terms are natural numbers.
ClaimOk(m) == m.staked \in Nat /\ m.debt \in Nat /\ m.pendingStake \in Nat

\* The scale of the accumulator (1e18) divides.
LEMMA ScaleType == Scale \in Nat /\ Scale > 0
  BY ScaleIs

\* A claim is a natural number.
LEMMA ClaimType ==
    ASSUME NEW m, ClaimOk(m), NEW acc \in Nat
    PROVE  ClaimOf(m, acc) \in Nat /\ Earned(m, acc) \in Int
<1>1. Earned(m, acc) \in Int
  BY ScaleType DEF Earned, ClaimOk
<1>2. QED
  BY <1>1, ScaleType DEF ClaimOf

\* RewardOwed rounds down.
LEMMA OwedBounds ==
    ASSUME NEW k \in Nat, NEW acc \in Nat
    PROVE  /\ RewardOwed(k, acc) \in Nat /\ RewardOwed(k, acc) * Scale <= k * acc
           /\ k * acc < RewardOwed(k, acc) * Scale + Scale
<1> DEFINE n == k * acc
           q == n \div Scale
<1>1. n \in Nat
  OBVIOUS
<1>2. RewardOwed(k, acc) = q
  BY DEF RewardOwed
<1> HIDE DEF n
<1>3. q \in Nat /\ q * Scale <= n /\ n < q * Scale + Scale
  BY <1>1, ScaleType
<1> HIDE DEF q
<1>4. QED
  BY <1>2, <1>3 DEF n

\* When rewards are given out, a claim rises by no more than the stake's part.
LEMMA ClaimRises ==
    ASSUME NEW m, NEW n, ClaimOk(m), SameClaim(m, n), NEW acc \in Nat, NEW d \in Nat
    PROVE  ClaimOf(n, acc + d) <= ClaimOf(m, acc) + d * m.staked
<1> DEFINE k == m.staked
           e == Earned(m, acc)
<1>1. k \in Nat /\ e \in Int /\ Earned(n, acc + d) \in Int
  BY ClaimType, ScaleType DEF ClaimOk, SameClaim, Earned
<1>2. Earned(n, acc + d) = e + d * k
  <2>1. k * (acc + d) = k * acc + d * k
    BY <1>1
  <2>2. k * acc \in Int /\ d * k \in Int /\ m.debt * Scale \in Int
    BY <1>1, ScaleType DEF ClaimOk
  <2>3. QED
    BY <2>1, <2>2 DEF Earned, SameClaim
<1>3. d * k \in Nat
  BY <1>1
<1> DEFINE r == d * k
<1> HIDE DEF k, e, r
<1>4. \A g, s \in Nat :
        (IF e + r >= 0 THEN e + r ELSE s) + g <= (IF e >= 0 THEN e ELSE s) + g + r
  BY <1>1, <1>3 DEF r
<1>5. /\ (IF m.staked > 0 THEN Scale ELSE 0) \in Nat
      /\ (IF m.pendingStake > 0 THEN Scale ELSE 0) \in Nat
  BY ScaleType
<1>6. ClaimOf(n, acc + d) = (IF e + r >= 0 THEN e + r ELSE IF m.staked > 0 THEN Scale ELSE 0)
                            + (IF m.pendingStake > 0 THEN Scale ELSE 0)
  BY <1>2 DEF ClaimOf, SameClaim, r
<1>7. ClaimOf(m, acc) = (IF e >= 0 THEN e ELSE IF m.staked > 0 THEN Scale ELSE 0)
                        + (IF m.pendingStake > 0 THEN Scale ELSE 0)
  BY DEF ClaimOf, e
<1>8. ClaimOf(n, acc + d) <= ClaimOf(m, acc) + r
  BY <1>4, <1>5, <1>6, <1>7
<1>9. QED
  BY <1>8 DEF r, k

\* A stake that matures claims nothing of the past.
LEMMA ClaimMatures ==
    ASSUME NEW s, NEW k, NEW t, PairOk(s), Matures(s, k, t)
    PROVE  ClaimOf(t.me, s.w.acc) <= ClaimOf(s.me, s.w.acc)
<1> DEFINE acc == s.w.acc
           q == RewardOwed(k, acc)
           e == Earned(s.me, acc)
           f == Earned(t.me, acc)
           r == k * acc - q * Scale
<1>1. /\ s.me.staked \in Nat /\ s.me.debt \in Nat /\ s.me.pendingStake \in Nat /\ acc \in Nat
      /\ t.me.pendingStake \in Nat /\ k \in Nat
  BY AccountTypes, WorldTypes DEF PairOk, Matures
<1>2. /\ s.me.pendingStake = k + t.me.pendingStake /\ (k > 0 => t.me.pendingStake = 0)
      /\ t.me.staked = s.me.staked + k /\ t.me.debt = s.me.debt + q
  BY DEF Matures
<1>3. /\ q \in Nat /\ r \in Int /\ 0 <= r /\ r < Scale /\ Scale \in Nat /\ k * acc \in Int
      /\ q * Scale \in Int
  BY <1>1, OwedBounds, ScaleType
<1>4. e \in Int
  BY <1>1, ClaimType DEF ClaimOk
<1> HIDE DEF acc, q
<1>5. f = e + r
  <2>1. /\ s.me.staked * acc \in Int /\ s.me.debt * Scale \in Int
    BY <1>1, <1>3
  <2>2. t.me.staked * acc = s.me.staked * acc + k * acc
    BY <1>1, <1>2
  <2>3. t.me.debt * Scale = s.me.debt * Scale + q * Scale
    BY <1>1, <1>2, <1>3
  <2>4. QED
    BY <1>3, <2>1, <2>2, <2>3 DEF Earned
<1>6. k = 0 => f = e /\ t.me.staked = s.me.staked /\ t.me.pendingStake = s.me.pendingStake
  <2>1. SUFFICES ASSUME k = 0 PROVE f = e /\ t.me.staked = s.me.staked
                                    /\ t.me.pendingStake = s.me.pendingStake
    OBVIOUS
  <2>2. t.me.staked = s.me.staked /\ t.me.pendingStake = s.me.pendingStake
    BY <1>1, <1>2, <2>1
  <2>3. q = 0
    <3>1. 0 * acc = 0
      BY <1>1
    <3>2. q * Scale <= 0
      BY <1>1, <2>1, <3>1, OwedBounds DEF q
    <3>3. QED
      BY <1>3, <3>2, ScaleType
  <2>4. r = 0
    BY <1>1, <1>3, <2>1, <2>3
  <2>5. QED
    BY <1>4, <1>5, <2>2, <2>4
<1> HIDE DEF e, f, r
<1>7. CASE k = 0
  BY <1>6, <1>7, ClaimType, <1>1 DEF ClaimOf, e, f, acc, ClaimOk
<1>8. CASE k > 0
  <2>1. s.me.pendingStake > 0 /\ t.me.pendingStake = 0
    BY <1>1, <1>2, <1>8
  <2>2. ClaimOf(s.me, acc) = (IF e >= 0 THEN e ELSE IF s.me.staked > 0 THEN Scale ELSE 0) + Scale
    BY <2>1 DEF ClaimOf, e
  <2>3. ClaimOf(t.me, acc) = (IF f >= 0 THEN f ELSE Scale) + 0
    BY <1>1, <1>2, <1>8, <2>1 DEF ClaimOf, f
  <2>4. QED
    BY <1>3, <1>4, <1>5, <2>2, <2>3 DEF acc
<1>9. QED
  BY <1>1, <1>7, <1>8

\* What a staker is paid and what it is still owed, within its claim.
LEMMA PayoutBounds ==
    ASSUME NEW t, PairOk(t)
    PROVE  /\ Payout(t) \in Nat /\ Shortfall(t) \in Nat /\ Payout(t) <= t.w.treasury
           /\ Pending(t) = Payout(t) + Shortfall(t)
           /\ IF Earned(t.me, t.w.acc) >= 0
              THEN /\ t.me.debt + Pending(t) = RewardOwed(t.me.staked, t.w.acc)
                   /\ Pending(t) * Scale <= Earned(t.me, t.w.acc)
              ELSE Pending(t) = 0
<1> DEFINE acc == t.w.acc
           q == RewardOwed(t.me.staked, acc)
           e == Earned(t.me, acc)
           d == t.me.debt
           p == Pending(t)
<1>1. /\ t.me.staked \in Nat /\ d \in Nat /\ acc \in Nat /\ t.w.treasury \in Nat
  BY AccountTypes, WorldTypes DEF PairOk
<1> DEFINE n == t.me.staked * acc
<1>2. /\ q \in Nat /\ n \in Nat /\ q * Scale <= n /\ n < q * Scale + Scale
  BY <1>1, OwedBounds
<1>3. p = IF q > d THEN q - d ELSE 0
  BY DEF Pending, Monus
<1>4. e = n - d * Scale
  BY DEF Earned
<1> HIDE DEF acc, q, e, d, p, n
<1>5. p \in Nat
  BY <1>1, <1>2, <1>3
<1>6. /\ Payout(t) \in Nat /\ Shortfall(t) \in Nat /\ Payout(t) <= t.w.treasury
      /\ p = Payout(t) + Shortfall(t)
  <2>1. Payout(t) = IF p <= t.w.treasury THEN p ELSE t.w.treasury
    BY <1>1, <1>5, MinOfTwo DEF Payout, p
  <2>2. Shortfall(t) = p - Payout(t)
    BY DEF Shortfall, p
  <2>3. QED
    BY <1>1, <1>5, <2>1, <2>2
<1>7. CASE e >= 0
  <2>1. d <= q
    <3>1. SUFFICES ASSUME d >= q + 1 PROVE FALSE
      BY <1>1, <1>2
    <3>2. d * Scale >= q * Scale + Scale
      <4>1. \A a, b, z \in Nat : a >= b + 1 => a * z >= b * z + z
        OBVIOUS
      <4>2. QED
        BY <1>1, <1>2, <3>1, <4>1, ScaleType
    <3>3. d * Scale \in Int /\ q * Scale \in Int /\ Scale \in Int
      BY <1>1, <1>2, ScaleType
    <3>4. QED
      BY <1>2, <1>4, <1>7, <3>2, <3>3
  <2>2. d + p = q
    BY <1>1, <1>2, <1>3, <2>1
  <2>3. q * Scale = d * Scale + p * Scale
    BY <1>1, <1>5, <2>2, ScaleType
  <2>4. d * Scale \in Int /\ p * Scale \in Int
    BY <1>1, <1>5, ScaleType
  <2>5. p * Scale <= e
    BY <1>2, <1>4, <2>3, <2>4
  <2>6. QED
    BY <1>6, <1>7, <2>2, <2>5 DEF p, q, d, e, acc
<1>8. CASE ~ (e >= 0)
  <2>1. d >= q
    <3>1. SUFFICES ASSUME q >= d + 1 PROVE FALSE
      BY <1>1, <1>2
    <3>2. q * Scale >= d * Scale
      <4>1. \A a, b, z \in Nat : a >= b + 1 => a * z >= b * z
        OBVIOUS
      <4>2. QED
        BY <1>1, <1>2, <3>1, <4>1, ScaleType
    <3>3. d * Scale \in Int /\ q * Scale \in Int
      BY <1>1, <1>2, ScaleType
    <3>4. QED
      BY <1>2, <1>4, <1>8, <3>2, <3>3
  <2>2. p = 0
    BY <1>1, <1>2, <1>3, <2>1
  <2>3. QED
    BY <1>6, <1>8, <2>2 DEF p, e, acc
<1>9. QED
  BY <1>7, <1>8

\* A debt reset to what a stake owes, less what the treasury could not pay.
LEMMA DebtReset ==
    ASSUME NEW t, PairOk(t), NEW m, m.staked \in Nat,
           m.debt = Monus(RewardOwed(m.staked, t.w.acc), Shortfall(t))
    PROVE  /\ m.debt \in Nat /\ Earned(m, t.w.acc) \in Nat
           /\ Earned(m, t.w.acc) < Shortfall(t) * Scale + Scale
           /\ m.staked = 0 => Earned(m, t.w.acc) = 0
           /\ m.staked = t.me.staked /\ Earned(t.me, t.w.acc) >= 0
              => Earned(m, t.w.acc) = Earned(t.me, t.w.acc) - Payout(t) * Scale
<1> DEFINE acc == t.w.acc
           j == m.staked
           q == RewardOwed(j, acc)
           h == Shortfall(t)
           k == Payout(t)
           n == j * acc
           d == m.debt
<1>1. acc \in Nat /\ j \in Nat /\ t.me.debt \in Nat
  BY WorldTypes, AccountTypes DEF PairOk
<1>2. q \in Nat /\ n \in Nat /\ q * Scale <= n /\ n < q * Scale + Scale
  BY <1>1, OwedBounds
<1>3. h \in Nat /\ k \in Nat /\ Pending(t) = k + h
  BY PayoutBounds
<1>4. d = IF q > h THEN q - h ELSE 0
  BY DEF Monus
<1>5. Earned(m, acc) = n - d * Scale
  BY DEF Earned
<1>6. j = t.me.staked /\ Earned(t.me, acc) >= 0 =>
         t.me.debt + (k + h) = q /\ Earned(t.me, acc) = n - t.me.debt * Scale
  BY <1>3, PayoutBounds DEF Earned
<1>7. j = 0 => n = 0
  BY <1>1
<1> HIDE DEF acc, j, q, h, k, n, d
<1>8. d \in Nat /\ q * Scale \in Int /\ h * Scale \in Nat /\ d * Scale \in Nat /\ Scale \in Nat
      /\ k * Scale \in Int /\ t.me.debt * Scale \in Int
  BY <1>1, <1>2, <1>3, <1>4, ScaleType
<1>9. CASE q > h
  <2>1. q = d + h
    BY <1>2, <1>3, <1>4, <1>9
  <2>2. q * Scale = d * Scale + h * Scale
    BY <1>3, <1>8, <2>1
  <2>3. Earned(m, acc) \in Nat /\ Earned(m, acc) < h * Scale + Scale
    BY <1>2, <1>5, <1>8, <2>2
  <2>4. j # 0
    <3>1. q >= 1 /\ q * Scale >= Scale
      <4>1. \A a, z \in Nat : a >= 1 => a * z >= z
        OBVIOUS
      <4>2. QED
        BY <1>2, <1>3, <1>8, <1>9, <4>1
    <3>2. QED
      BY <1>2, <1>7, <1>8, <3>1, ScaleType
  <2>5. ASSUME j = t.me.staked, Earned(t.me, acc) >= 0
        PROVE  Earned(m, acc) = Earned(t.me, acc) - k * Scale
    <3>1. t.me.debt + (k + h) = q /\ Earned(t.me, acc) = n - t.me.debt * Scale
      BY <1>6, <2>5
    <3>2. d = t.me.debt + k
      <4>1. \A a, b, u, v \in Nat : a + (u + v) = b + v => b = a + u
        OBVIOUS
      <4>2. t.me.debt + (k + h) = d + h /\ d \in Nat
        BY <1>8, <2>1, <3>1
      <4>3. QED
        BY <1>1, <1>3, <4>1, <4>2
    <3>3. d * Scale = t.me.debt * Scale + k * Scale
      BY <1>1, <1>3, <1>8, <3>2
    <3>4. QED
      BY <1>2, <1>5, <1>8, <3>1, <3>3
  <2>6. QED
    BY <1>8, <2>3, <2>4, <2>5 DEF acc, j, h, k, d
<1>10. CASE ~ (q > h)
  <2>1. d = 0 /\ q <= h
    BY <1>2, <1>3, <1>4, <1>10
  <2>2. Earned(m, acc) = n
    <3>1. 0 * Scale = 0
      BY <1>8
    <3>2. QED
      BY <1>2, <1>5, <2>1, <3>1
  <2>3. q * Scale <= h * Scale
    <3>1. \A a, b, z \in Nat : a <= b => a * z <= b * z
      OBVIOUS
    <3>2. QED
      BY <1>2, <1>3, <1>8, <2>1, <3>1
  <2>4. Earned(m, acc) \in Nat /\ Earned(m, acc) < h * Scale + Scale
    BY <1>2, <1>8, <2>2, <2>3
  <2>5. ASSUME j = t.me.staked, Earned(t.me, acc) >= 0
        PROVE  Earned(m, acc) = Earned(t.me, acc) - k * Scale
    <3>1. t.me.debt + (k + h) = q /\ Earned(t.me, acc) = n - t.me.debt * Scale
      BY <1>6, <2>5
    <3>2. t.me.debt = 0 /\ k = 0
      BY <1>1, <1>2, <1>3, <2>1, <3>1
    <3>3. 0 * Scale = 0
      BY <1>8
    <3>4. QED
      BY <1>2, <2>2, <3>1, <3>2, <3>3
  <2>6. QED
    BY <1>7, <1>8, <2>1, <2>2, <2>4, <2>5 DEF acc, j, h, k, d
<1>11. QED
  BY <1>9, <1>10

\* ClaimReward: what is paid is owed no more.
LEMMA ClaimClaimed ==
    ASSUME NEW t, PairOk(t), NEW m, m.staked = t.me.staked, m.pendingStake = t.me.pendingStake,
           m.debt = t.me.debt + Payout(t)
    PROVE  ClaimOk(m) /\ ClaimOf(m, t.w.acc) <= ClaimOf(t.me, t.w.acc) - Payout(t) * Scale
<1> DEFINE acc == t.w.acc
           k == Payout(t)
           e == Earned(t.me, acc)
           f == Earned(m, acc)
<1>1. /\ t.me.staked \in Nat /\ t.me.debt \in Nat /\ t.me.pendingStake \in Nat /\ acc \in Nat
  BY WorldTypes, AccountTypes DEF PairOk
<1>2. k \in Nat /\ Shortfall(t) \in Nat /\ Pending(t) = k + Shortfall(t)
      /\ IF e >= 0 THEN Pending(t) * Scale <= e ELSE Pending(t) = 0
  BY PayoutBounds
<1> HIDE DEF k
<1>3. ClaimOk(m) /\ e \in Int /\ f \in Int
  BY <1>1, <1>2, ClaimType DEF ClaimOk, k
<1>4. k * Scale \in Nat /\ t.me.debt * Scale \in Int /\ Scale \in Nat
  BY <1>1, <1>2, ScaleType
<1>5. f = e - k * Scale
  <2>1. m.debt * Scale = t.me.debt * Scale + k * Scale
    <3>1. (t.me.debt + k) * Scale = t.me.debt * Scale + k * Scale
      BY <1>1, <1>2, ScaleType
    <3>2. QED
      BY <3>1 DEF k
  <2>2. t.me.staked * acc \in Int
    BY <1>1
  <2>3. QED
    BY <1>4, <2>1, <2>2 DEF Earned
<1>6. ClaimOf(m, acc) = (IF f >= 0 THEN f ELSE IF t.me.staked > 0 THEN Scale ELSE 0)
                        + (IF t.me.pendingStake > 0 THEN Scale ELSE 0)
  BY DEF ClaimOf
<1>7. ClaimOf(t.me, acc) = (IF e >= 0 THEN e ELSE IF t.me.staked > 0 THEN Scale ELSE 0)
                           + (IF t.me.pendingStake > 0 THEN Scale ELSE 0)
  BY DEF ClaimOf
<1> HIDE DEF e, f, acc
<1>8. CASE e >= 0
  <2>1. k * Scale <= e
    <3>1. Pending(t) * Scale = k * Scale + Shortfall(t) * Scale
      BY <1>2, <1>4
    <3>2. Shortfall(t) * Scale \in Nat
      BY <1>2, <1>4
    <3>3. QED
      BY <1>2, <1>3, <1>4, <1>8, <3>1, <3>2
  <2>2. QED
    BY <1>3, <1>4, <1>5, <1>6, <1>7, <1>8, <2>1 DEF acc, k
<1>9. CASE ~ (e >= 0)
  <2>1. k = 0
    BY <1>2, <1>9
  <2>2. 0 * Scale = 0
    BY <1>4
  <2>3. f = e /\ k * Scale = 0
    BY <1>3, <1>5, <2>1, <2>2
  <2>4. ClaimOf(m, acc) = ClaimOf(t.me, acc) /\ ClaimOf(t.me, acc) \in Int
    BY <1>4, <1>6, <1>7, <1>9, <2>3
  <2>5. QED
    BY <1>3, <2>3, <2>4 DEF acc, k
<1>10. QED
  BY <1>8, <1>9

\* StakeZagros: the pending stake claims a unit at most, and what is paid is owed no more.
LEMMA ClaimStaked ==
    ASSUME NEW t, PairOk(t), NEW amt \in Nat, NEW m, m.staked = t.me.staked,
           m.pendingStake = t.me.pendingStake + amt,
           m.debt = Monus(RewardOwed(t.me.staked, t.w.acc), Shortfall(t))
    PROVE  /\ ClaimOk(m)
           /\ ClaimOf(m, t.w.acc) <= ClaimOf(t.me, t.w.acc) - Payout(t) * Scale + Scale
<1> DEFINE acc == t.w.acc
           k == Payout(t)
           h == Shortfall(t)
           e == Earned(t.me, acc)
           f == Earned(m, acc)
<1>1. /\ t.me.staked \in Nat /\ t.me.debt \in Nat /\ t.me.pendingStake \in Nat /\ acc \in Nat
  BY WorldTypes, AccountTypes DEF PairOk
<1>2. /\ m.debt \in Nat /\ f \in Nat /\ f < h * Scale + Scale
      /\ m.staked = 0 => f = 0
      /\ e >= 0 => f = e - k * Scale
  BY <1>1, DebtReset
<1>3. k \in Nat /\ h \in Nat /\ (~ (e >= 0) => k = 0 /\ h = 0)
  BY PayoutBounds
<1>4. ClaimOk(m) /\ e \in Int
  BY <1>1, <1>2, ClaimType DEF ClaimOk
<1>5. Scale \in Nat /\ k * Scale \in Int /\ h * Scale \in Int /\ 0 * Scale = 0
  BY <1>3, ScaleType
<1>6. ClaimOf(m, acc) = (IF f >= 0 THEN f ELSE IF t.me.staked > 0 THEN Scale ELSE 0)
                        + (IF m.pendingStake > 0 THEN Scale ELSE 0)
  BY DEF ClaimOf
<1>7. ClaimOf(t.me, acc) = (IF e >= 0 THEN e ELSE IF t.me.staked > 0 THEN Scale ELSE 0)
                           + (IF t.me.pendingStake > 0 THEN Scale ELSE 0)
  BY DEF ClaimOf
<1> HIDE DEF e, f, acc, k, h
<1>8. ClaimOf(m, acc) <= f + Scale
  BY <1>2, <1>5, <1>6
<1>9. CASE e >= 0
  BY <1>2, <1>4, <1>5, <1>6, <1>7, <1>9, <1>8 DEF acc, k
<1>10. CASE ~ (e >= 0)
  <2>1. f < Scale /\ k * Scale = 0
    BY <1>2, <1>3, <1>5, <1>10
  <2>2. CASE m.staked = 0
    BY <1>2, <1>4, <1>5, <1>6, <1>7, <1>8, <1>10, <2>1, <2>2 DEF acc, k
  <2>3. CASE m.staked > 0
    <3>1. ClaimOf(t.me, acc) >= Scale
      BY <1>5, <1>7, <1>10, <2>3
    <3>2. ClaimOf(m, acc) \in Int /\ ClaimOf(t.me, acc) \in Int
      BY <1>2, <1>4, <1>5, <1>6, <1>7
    <3>3. QED
      BY <1>2, <1>4, <1>5, <1>8, <2>1, <3>1, <3>2 DEF acc, k
  <2>4. QED
    BY <1>1, <2>2, <2>3
<1>11. QED
  BY <1>9, <1>10

\* UnstakeZagros: what is paid is owed no more, and the debt's rounding claims a unit at most.
LEMMA ClaimUnbonded ==
    ASSUME NEW t, PairOk(t), NEW active \in Nat, NEW m, active <= t.me.staked,
           m.staked = t.me.staked - active, m.pendingStake \in Nat,
           m.pendingStake <= t.me.pendingStake,
           m.debt = IF active = 0 THEN t.me.debt
                    ELSE Monus(RewardOwed(t.me.staked - active, t.w.acc), Shortfall(t))
    PROVE  /\ ClaimOk(m)
           /\ ClaimOf(m, t.w.acc) <= ClaimOf(t.me, t.w.acc)
                                     - (IF active = 0 THEN 0 ELSE Payout(t)) * Scale + Scale
<1> DEFINE acc == t.w.acc
           k == Payout(t)
           h == Shortfall(t)
           e == Earned(t.me, acc)
           f == Earned(m, acc)
<1>1. /\ t.me.staked \in Nat /\ t.me.debt \in Nat /\ t.me.pendingStake \in Nat /\ acc \in Nat
      /\ m.staked \in Nat
  BY WorldTypes, AccountTypes DEF PairOk
<1>2. /\ k \in Nat /\ h \in Nat /\ Pending(t) = k + h
      /\ IF e >= 0 THEN Pending(t) * Scale <= e ELSE Pending(t) = 0
  BY PayoutBounds
<1>3. Scale \in Nat /\ k * Scale \in Nat /\ h * Scale \in Nat /\ 0 * Scale = 0
  BY <1>2, ScaleType
<1>4. e \in Int
  BY <1>1, ClaimType DEF ClaimOk
<1>5. ClaimOf(m, acc) = (IF f >= 0 THEN f ELSE IF m.staked > 0 THEN Scale ELSE 0)
                        + (IF m.pendingStake > 0 THEN Scale ELSE 0)
  BY DEF ClaimOf
<1>6. ClaimOf(t.me, acc) = (IF e >= 0 THEN e ELSE IF t.me.staked > 0 THEN Scale ELSE 0)
                           + (IF t.me.pendingStake > 0 THEN Scale ELSE 0)
  BY DEF ClaimOf
<1>7. CASE active = 0
  <2>1. m.staked = t.me.staked /\ m.debt = t.me.debt
    BY <1>1, <1>7
  <2>2. f = e
    BY <2>1 DEF Earned
  <2>3. ClaimOk(m)
    BY <1>1, <2>1 DEF ClaimOk
  <2> HIDE DEF e, f, acc
  <2>4. ClaimOf(m, acc) <= ClaimOf(t.me, acc) - 0 * Scale + Scale
    BY <1>1, <1>3, <1>4, <1>5, <1>6, <2>1, <2>2
  <2>5. QED
    BY <1>7, <2>3, <2>4 DEF acc
<1>8. CASE active # 0
  <2>1. m.debt = Monus(RewardOwed(m.staked, t.w.acc), Shortfall(t))
    BY <1>8
  <2>2. m.debt \in Nat /\ f \in Nat /\ f < h * Scale + Scale
    BY <1>1, <2>1, DebtReset
  <2>3. ClaimOk(m)
    BY <1>1, <2>2 DEF ClaimOk
  <2> HIDE DEF e, f, acc, k, h
  <2>4. (k + h) * Scale = k * Scale + h * Scale
    BY <1>2, <1>3
  <2>5. CASE e >= 0
    <3>1. k * Scale + h * Scale <= e
      BY <1>2, <2>4, <2>5
    <3>2. f <= e - k * Scale + Scale
      BY <1>3, <1>4, <2>2, <3>1
    <3>3. ClaimOf(m, acc) <= ClaimOf(t.me, acc) - k * Scale + Scale
      BY <1>1, <1>3, <1>4, <1>5, <1>6, <2>2, <2>5, <3>2
    <3>4. QED
      BY <1>8, <2>3, <3>3 DEF acc, k
  <2>6. CASE ~ (e >= 0)
    <3>1. h = 0 /\ k = 0
      BY <1>2, <2>6
    <3>2. f < Scale /\ k * Scale = 0
      BY <1>3, <2>2, <3>1
    <3>3. ClaimOf(m, acc) <= ClaimOf(t.me, acc) - k * Scale + Scale
      BY <1>1, <1>3, <1>4, <1>5, <1>6, <2>2, <2>6, <3>2
    <3>4. QED
      BY <1>8, <2>3, <3>3 DEF acc, k
  <2>7. QED
    BY <2>5, <2>6
<1>9. QED
  BY <1>7, <1>8

-----------------------------------------------------------------------------
(* All claims together, against the treasury. *)

\* Accounts of a world have claims.
LEMMA AccountClaim ==
    ASSUME NEW m, AccountOk(m)
    PROVE  ClaimOk(m)
BY AccountTypes DEF ClaimOk

\* The claims are natural numbers.
LEMMA ClaimsType ==
    ASSUME NEW ac, \A a \in Addrs : ClaimOk(ac[a]), NEW acc \in Nat
    PROVE  /\ \A a \in Addrs : ClaimsOf(ac, acc)[a] \in Nat /\ StakesOf(ac)[a] \in Nat
           /\ Claims(ac, acc) \in Nat /\ Stakes(ac) \in Nat
<1>1. \A a \in Addrs : ClaimsOf(ac, acc)[a] \in Nat
  BY ClaimType DEF ClaimsOf
<1>2. \A a \in Addrs : StakesOf(ac)[a] \in Nat
  BY DEF ClaimOk, StakesOf
<1>3. IsFiniteSet(Addrs)
  BY GenesisAssumption
<1>4. QED
  BY <1>1, <1>2, <1>3, SumNat DEF Claims, Stakes

\* Rewards given out raise all claims by no more than was given.
LEMMA ClaimsRise ==
    ASSUME NEW ac, NEW bc, NEW acc \in Nat, NEW d \in Nat,
           \A a \in Addrs : ClaimOk(ac[a]) /\ SameClaim(ac[a], bc[a])
    PROVE  Claims(bc, acc + d) <= Claims(ac, acc) + d * Stakes(ac)
<1> DEFINE f == ClaimsOf(ac, acc)
           g == StakesOf(ac)
           h == ClaimsOf(bc, acc + d)
<1>1. \A a \in Addrs : ClaimOk(bc[a])
  BY DEF ClaimOk, SameClaim
<1>2. \A a \in Addrs : f[a] \in Int /\ g[a] \in Int /\ h[a] \in Int
  <2>1. \A a \in Addrs : ClaimOk(ac[a])
    OBVIOUS
  <2>2. \A a \in Addrs : f[a] \in Nat /\ g[a] \in Nat
    BY <2>1, ClaimsType
  <2>3. acc + d \in Nat
    OBVIOUS
  <2>4. \A a \in Addrs : h[a] \in Nat
    BY <1>1, <2>3, ClaimsType
  <2>5. QED
    BY <2>2, <2>4
<1>3. \A a \in Addrs : h[a] <= f[a] + d * g[a]
  BY ClaimRises DEF ClaimsOf, StakesOf
<1>4. IsFiniteSet(Addrs) /\ d \in Int
  BY GenesisAssumption
<1> HIDE DEF f, g, h
<1>5. SumOf(h, Addrs) <= SumOf(f, Addrs) + d * SumOf(g, Addrs)
  BY <1>2, <1>3, <1>4, SumLinear
<1>6. QED
  BY <1>5 DEF f, g, h, Claims, Stakes

\* Accounts whose claims depend on the terms of ac, but m's in place of b's.
IsReplaced(ac, b, m, bc) ==
    /\ ClaimOk(m) /\ \A a \in Addrs : ClaimOk(ac[a])
    /\ \A a \in Addrs : SameClaim(IF a = b THEN m ELSE ac[a], bc[a])

\* An account's terms change, and the claims by as much.
LEMMA ClaimsChange ==
    ASSUME NEW ac, NEW bc, NEW acc \in Nat, NEW b \in Addrs, NEW m, IsReplaced(ac, b, m, bc)
    PROVE  Claims(bc, acc) = Claims(ac, acc) - ClaimOf(ac[b], acc) + ClaimOf(m, acc)
<1> DEFINE f == ClaimsOf(ac, acc)
           g == ClaimsOf(bc, acc)
<1>1. \A a \in Addrs : ClaimOk(bc[a])
  BY DEF IsReplaced, SameClaim, ClaimOk
<1>2. IsFiniteSet(Addrs)
  BY GenesisAssumption
<1>3. \A a \in Addrs : f[a] \in Int /\ g[a] \in Int
  <2>1. \A a \in Addrs : f[a] \in Nat
    BY ClaimsType DEF IsReplaced
  <2>2. \A a \in Addrs : g[a] \in Nat
    BY <1>1, ClaimsType
  <2>3. QED
    BY <2>1, <2>2
<1>4. \A a \in Addrs \ {b} : g[a] = f[a]
  BY DEF IsReplaced, ClaimsOf, ClaimOf, Earned, SameClaim
<1>5. g[b] = ClaimOf(m, acc) /\ f[b] = ClaimOf(ac[b], acc)
  BY DEF IsReplaced, ClaimsOf, ClaimOf, Earned, SameClaim
<1> HIDE DEF f, g
<1>6. SumOf(g, Addrs) = SumOf(f, Addrs) - f[b] + g[b]
  BY <1>2, <1>3, <1>4, SumChange
<1>7. QED
  BY <1>5, <1>6 DEF f, g, Claims

\* And the stakes.
LEMMA StakesChange ==
    ASSUME NEW ac, NEW bc, NEW b \in Addrs, NEW m, IsReplaced(ac, b, m, bc)
    PROVE  Stakes(bc) = Stakes(ac) - ac[b].staked + m.staked
<1> DEFINE f == StakesOf(ac)
           g == StakesOf(bc)
<1>1. IsFiniteSet(Addrs)
  BY GenesisAssumption
<1>2. \A a \in Addrs : f[a] \in Int /\ g[a] \in Int
  BY DEF IsReplaced, StakesOf, SameClaim, ClaimOk
<1>3. \A a \in Addrs \ {b} : g[a] = f[a]
  BY DEF IsReplaced, StakesOf, SameClaim
<1>4. g[b] = m.staked /\ f[b] = ac[b].staked
  BY DEF IsReplaced, StakesOf, SameClaim
<1> HIDE DEF f, g
<1>5. SumOf(g, Addrs) = SumOf(f, Addrs) - f[b] + g[b]
  BY <1>1, <1>2, <1>3, SumChange
<1>6. QED
  BY <1>4, <1>5 DEF f, g, Stakes

\* What a quiet step does to the claims.
LEMMA ClaimsQuiet ==
    ASSUME NEW v, NEW u, WorldOk(v), WorldOk(u), Quiet(v, u), NEW ac, NEW bc,
           \A a \in Addrs : ClaimOk(ac[a]) /\ SameClaim(ac[a], bc[a]),
           Stakes(ac) = v.totalStaked
    PROVE  Claims(bc, u.acc) <= Claims(ac, v.acc) + (u.treasury - v.treasury) * Scale
<1>1. PICK d \in Nat : u.acc = v.acc + d /\ d * v.totalStaked <= (u.treasury - v.treasury) * Scale
  BY DEF Quiet
<1>2. v.acc \in Nat /\ u.acc \in Nat /\ v.totalStaked \in Nat /\ u.treasury - v.treasury \in Int
  BY WorldTypes
<1>3. Claims(bc, u.acc) <= Claims(ac, v.acc) + d * v.totalStaked
  BY <1>1, <1>2, ClaimsRise
<1>4. Claims(bc, u.acc) \in Nat /\ Claims(ac, v.acc) \in Nat
  <2>1. \A a \in Addrs : ClaimOk(bc[a])
    BY DEF ClaimOk, SameClaim
  <2>2. QED
    BY <1>2, <2>1, ClaimsType
<1>5. d * v.totalStaked \in Int /\ (u.treasury - v.treasury) * Scale \in Int
  BY <1>2, ScaleType
<1> DEFINE p == d * v.totalStaked
           q == (u.treasury - v.treasury) * Scale
           r == Claims(bc, u.acc)
           z == Claims(ac, v.acc)
<1>6. r <= z + p /\ p <= q /\ r \in Int /\ z \in Int /\ p \in Int /\ q \in Int
  BY <1>1, <1>3, <1>4, <1>5
<1> HIDE DEF p, q, r, z
<1>7. r <= z + q
  BY <1>6
<1>8. QED
  BY <1>7 DEF q, r, z

\* The accounts once the sender's copy has overwritten its account.
Back(b, o) == [a \in Addrs |-> IF a = b THEN o.me ELSE o.w.acct[a]]

\* An arm lets the claims rise by what the treasury gains, and a unit; no nonce moves.
RewardKept(x, s, o) ==
    /\ \A a \in Addrs : Back(x.from, o)[a].nonce = s.w.acct[a].nonce
    /\ Claims(Back(x.from, o), o.w.acc)
          <= Claims(s.w.acct, s.w.acc) + (o.w.treasury - s.w.treasury) * Scale + Scale

\* What an arm's claims are counted from.
LEMMA StartClaims ==
    ASSUME NEW s, NEW x, Start(s, x)
    PROVE  /\ \A a \in Addrs : ClaimOk(s.w.acct[a])
           /\ Stakes(s.w.acct) = s.w.totalStaked /\ s.w.acc \in Nat
           /\ s.w.treasury \in Nat /\ Claims(s.w.acct, s.w.acc) \in Nat
           /\ x.from \in Addrs /\ x.to \in Addrs /\ s.me = s.w.acct[x.from]
<1>1. WorldOk(s.w) /\ Excess(s.w) = 0
  BY StartTypes
<1>2. \A a \in Addrs : ClaimOk(s.w.acct[a])
  BY <1>1, WorldTypes, AccountClaim
<1>3. s.w.acc \in Nat /\ s.w.treasury \in Nat /\ s.w.totalStaked \in Nat
  BY <1>1, WorldTypes
<1>4. Claims(s.w.acct, s.w.acc) \in Nat /\ Stakes(s.w.acct) \in Nat
  BY <1>2, <1>3, ClaimsType
<1>5. Stakes(s.w.acct) = s.w.totalStaked
  BY <1>1, <1>3, <1>4 DEF Excess
<1>6. QED
  BY <1>2, <1>3, <1>4, <1>5, StartTypes

\* An arm that leaves every stake as it is.
LEMMA QuietReward ==
    ASSUME NEW s, NEW x, Start(s, x), NEW o \in Arm(s, x), QuietPair(s, o)
    PROVE  RewardKept(x, s, o)
<1> DEFINE bc == Back(x.from, o)
           ac == s.w.acct
<1>1. /\ WorldOk(s.w) /\ WorldOk(o.w) /\ Quiet(s.w, o.w) /\ SameTerms(s.me, o.me)
      /\ \A a \in Addrs : SameTerms(ac[a], o.w.acct[a])
  BY ArmTyped DEF QuietPair, Quiet
<1>2. s.me = ac[x.from]
  BY StartClaims
<1>3. \A a \in Addrs : SameTerms(ac[a], bc[a])
  BY <1>1, <1>2 DEF Back, SameTerms
<1> HIDE DEF bc, ac
<1>4. \A a \in Addrs : ClaimOk(ac[a]) /\ SameClaim(ac[a], bc[a])
  BY <1>3, StartClaims DEF SameTerms, SameClaim, ac
<1>5. Stakes(ac) = s.w.totalStaked
  BY StartClaims DEF ac
<1>6. Claims(bc, o.w.acc) <= Claims(ac, s.w.acc) + (o.w.treasury - s.w.treasury) * Scale
  BY <1>1, <1>4, <1>5, ClaimsQuiet
<1>7. /\ Claims(bc, o.w.acc) \in Int /\ Claims(ac, s.w.acc) \in Int
      /\ (o.w.treasury - s.w.treasury) * Scale \in Int /\ Scale \in Nat
  <2>1. \A a \in Addrs : ClaimOk(bc[a])
    BY <1>4 DEF ClaimOk, SameClaim
  <2>2. o.w.acc \in Nat /\ s.w.acc \in Nat /\ o.w.treasury \in Nat /\ s.w.treasury \in Nat
    BY <1>1, WorldTypes
  <2>3. Claims(bc, o.w.acc) \in Int /\ Claims(ac, s.w.acc) \in Int
    <3>1. Claims(bc, o.w.acc) \in Nat
      BY <2>1, <2>2, ClaimsType
    <3>2. Claims(ac, s.w.acc) \in Nat
      BY StartClaims DEF ac
    <3>3. QED
      BY <3>1, <3>2
  <2>4. QED
    BY <2>2, <2>3, ScaleType
<1>8. Claims(bc, o.w.acc) <= Claims(ac, s.w.acc) + (o.w.treasury - s.w.treasury) * Scale + Scale
  BY <1>6, <1>7
<1>9. QED
  BY <1>3, <1>8 DEF RewardKept, SameTerms, bc, ac

\* An arm that writes the sender's copy, the treasury and the total.
LEMMA OwnReward ==
    ASSUME NEW s, NEW x, Start(s, x), NEW o \in Arm(s, x), Steady(s.w, o.w),
           o.me.nonce = s.me.nonce,
           ClaimOf(o.me, s.w.acc)
               <= ClaimOf(s.me, s.w.acc) + (o.w.treasury - s.w.treasury) * Scale + Scale
    PROVE  RewardKept(x, s, o)
<1> DEFINE b == x.from
           bc == Back(b, o)
           ac == s.w.acct
           acc == s.w.acc
<1>1. /\ b \in Addrs /\ acc \in Nat /\ s.me = ac[b] /\ \A a \in Addrs : ClaimOk(ac[a])
      /\ Claims(ac, acc) \in Nat
  BY StartClaims
<1>2. ClaimOk(o.me) /\ o.w.treasury \in Nat /\ s.w.treasury \in Nat
  BY ArmTyped, AccountClaim, WorldTypes
<1>3. o.w.acct = ac /\ o.w.acc = acc
  BY DEF Steady
<1>4. \A a \in Addrs : bc[a] = IF a = b THEN o.me ELSE ac[a]
  BY <1>3 DEF Back
<1> HIDE DEF bc, ac, acc, b
<1>5. IsReplaced(ac, b, o.me, bc)
  BY <1>1, <1>2, <1>4 DEF SameClaim, IsReplaced
<1>6. Claims(bc, acc) = Claims(ac, acc) - ClaimOf(ac[b], acc) + ClaimOf(o.me, acc)
  BY <1>1, <1>5, ClaimsChange
<1>7. ClaimOf(ac[b], acc) \in Nat /\ ClaimOf(o.me, acc) \in Nat
  BY <1>1, <1>2, ClaimType
<1> DEFINE z == (o.w.treasury - s.w.treasury) * Scale
<1>8. z \in Int /\ Scale \in Nat
  BY <1>2, ScaleType
<1>9. ClaimOf(o.me, acc) <= ClaimOf(ac[b], acc) + z + Scale
  BY <1>1 DEF acc
<1> HIDE DEF z
<1>10. Claims(bc, acc) <= Claims(ac, acc) + z + Scale
  BY <1>1, <1>6, <1>7, <1>8, <1>9
<1>11. \A a \in Addrs : bc[a].nonce = ac[a].nonce
  BY <1>1, <1>4
<1>12. QED
  BY <1>3, <1>10, <1>11 DEF RewardKept, bc, ac, acc, b, z

\* What the settled stake claims, and the treasury, before a reward is paid.
LEMMA SettledClaims ==
    ASSUME NEW s, NEW x, Start(s, x)
    PROVE  LET t == Settle(s)
           IN  /\ PairOk(t) /\ t.w.acc = s.w.acc /\ t.w.treasury = s.w.treasury
               /\ t.w.treasury \in Nat /\ Payout(t) \in Nat
               /\ ClaimOf(t.me, t.w.acc) \in Nat /\ ClaimOf(s.me, s.w.acc) \in Nat
               /\ ClaimOf(t.me, t.w.acc) <= ClaimOf(s.me, s.w.acc)
<1> DEFINE t == Settle(s)
<1>1. PairOk(s)
  BY StartTypes
<1>2. PICK k : Matures(s, k, t)
  BY <1>1, SettleTerms
<1> HIDE DEF t
<1>3. PairOk(t) /\ t.w.acc = s.w.acc /\ t.w.treasury = s.w.treasury
  BY <1>2 DEF Matures, Steady
<1>4. t.w.acc \in Nat /\ s.w.acc \in Nat /\ t.w.treasury \in Nat
  BY <1>1, <1>3, WorldTypes DEF PairOk
<1>5. ClaimOk(t.me) /\ ClaimOk(s.me)
  BY <1>1, <1>3, AccountClaim DEF PairOk
<1>6. ClaimOf(t.me, t.w.acc) <= ClaimOf(s.me, s.w.acc)
  BY <1>1, <1>2, <1>3, ClaimMatures
<1>7. ClaimOf(t.me, t.w.acc) \in Nat /\ ClaimOf(s.me, s.w.acc) \in Nat
  BY <1>4, <1>5, ClaimType
<1>8. QED
  BY <1>3, <1>4, <1>6, <1>7, PayoutBounds DEF t

\* A payment out of the treasury, in units of the scale.
LEMMA TreasuryPays ==
    ASSUME NEW u \in Nat, NEW v, NEW k \in Nat, v = u - k
    PROVE  (v - u) * Scale = - (k * Scale) /\ k * Scale \in Nat
<1>1. v - u = -k
  OBVIOUS
<1>2. (-k) * Scale = - (k * Scale) /\ k * Scale \in Nat
  BY ScaleType
<1>3. QED
  BY <1>1, <1>2

\* ClaimReward.
LEMMA ClaimRewarded ==
    ASSUME NEW s, NEW x, Start(s, x), NEW o \in Arm(s, x), o \in ClaimReward(s, x)
    PROVE  RewardKept(x, s, o)
<1> DEFINE t == Settle(s)
           k == Payout(t)
<1>1. /\ Steady(s.w, o.w) /\ Unmoved(s.me, o.me) /\ o.w.treasury = t.w.treasury - k
      /\ o.me.staked = t.me.staked /\ o.me.pendingStake = t.me.pendingStake
      /\ o.me.debt = t.me.debt + k
  BY ClaimTerms
<1>2. /\ PairOk(t) /\ t.w.acc = s.w.acc /\ t.w.treasury = s.w.treasury
      /\ t.w.treasury \in Nat /\ k \in Nat
      /\ ClaimOf(t.me, t.w.acc) \in Nat /\ ClaimOf(s.me, s.w.acc) \in Nat
      /\ ClaimOf(t.me, t.w.acc) <= ClaimOf(s.me, s.w.acc)
  BY SettledClaims
<1> HIDE DEF t
<1>3. ClaimOk(o.me) /\ ClaimOf(o.me, t.w.acc) <= ClaimOf(t.me, t.w.acc) - k * Scale
  BY <1>1, <1>2, ClaimClaimed
<1>4. ClaimOf(o.me, s.w.acc) \in Nat
  BY <1>3, ClaimType, StartClaims
<1> HIDE DEF k
<1>5. (o.w.treasury - s.w.treasury) * Scale = - (k * Scale) /\ k * Scale \in Nat
  <2> DEFINE u == s.w.treasury
             v == o.w.treasury
  <2>1. k \in Nat /\ u \in Nat /\ v = u - k
    BY <1>1, <1>2 DEF k
  <2> HIDE DEF u, v
  <2>2. (v - u) * Scale = - (k * Scale) /\ k * Scale \in Nat
    BY <2>1, TreasuryPays
  <2>3. QED
    BY <2>2 DEF u, v
<1>6. ClaimOf(o.me, s.w.acc)
          <= ClaimOf(s.me, s.w.acc) + (o.w.treasury - s.w.treasury) * Scale + Scale
  BY <1>2, <1>3, <1>4, <1>5, ScaleType
<1>7. QED
  BY <1>1, <1>6, OwnReward DEF Unmoved

\* StakeZagros.
LEMMA StakeRewarded ==
    ASSUME NEW s, NEW x, Start(s, x), x.type = "stake", NEW o \in Arm(s, x),
           o \in StakeZagros(s, x)
    PROVE  RewardKept(x, s, o)
<1> DEFINE t == Settle(s)
           k == Payout(t)
<1>1. /\ Steady(s.w, o.w) /\ Unmoved(s.me, o.me) /\ o.w.treasury = t.w.treasury - k
      /\ o.me.staked = t.me.staked /\ o.me.pendingStake = t.me.pendingStake + x.amt
      /\ o.me.debt = Monus(RewardOwed(t.me.staked, t.w.acc), Shortfall(t))
  BY StakeTerms
<1>2. /\ PairOk(t) /\ t.w.acc = s.w.acc /\ t.w.treasury = s.w.treasury
      /\ t.w.treasury \in Nat /\ k \in Nat
      /\ ClaimOf(t.me, t.w.acc) \in Nat /\ ClaimOf(s.me, s.w.acc) \in Nat
      /\ ClaimOf(t.me, t.w.acc) <= ClaimOf(s.me, s.w.acc)
  BY SettledClaims
<1> HIDE DEF t
<1>3. x.amt \in Nat
  BY StartTypes
<1>4. /\ ClaimOk(o.me)
      /\ ClaimOf(o.me, t.w.acc) <= ClaimOf(t.me, t.w.acc) - k * Scale + Scale
  BY <1>1, <1>2, <1>3, ClaimStaked
<1>5. ClaimOf(o.me, s.w.acc) \in Nat
  BY <1>4, ClaimType, StartClaims
<1> HIDE DEF k
<1>6. (o.w.treasury - s.w.treasury) * Scale = - (k * Scale) /\ k * Scale \in Nat
  <2> DEFINE u == s.w.treasury
             v == o.w.treasury
  <2>1. k \in Nat /\ u \in Nat /\ v = u - k
    BY <1>1, <1>2 DEF k
  <2> HIDE DEF u, v
  <2>2. (v - u) * Scale = - (k * Scale) /\ k * Scale \in Nat
    BY <2>1, TreasuryPays
  <2>3. QED
    BY <2>2 DEF u, v
<1>7. ClaimOf(o.me, s.w.acc)
          <= ClaimOf(s.me, s.w.acc) + (o.w.treasury - s.w.treasury) * Scale + Scale
  BY <1>2, <1>4, <1>5, <1>6, ScaleType
<1>8. QED
  BY <1>1, <1>7, OwnReward DEF Unmoved

\* UnstakeZagros of an amount.
LEMMA UnbondRewarded ==
    ASSUME NEW s, NEW x, Start(s, x), NEW o \in Arm(s, x), o \in Unbond(s, x)
    PROVE  RewardKept(x, s, o)
<1> DEFINE t == Settle(s)
           active == Active(t, x)
           fresh == Fresh(t, x)
           k == IF active = 0 THEN 0 ELSE Payout(t)
<1>1. /\ Steady(s.w, o.w) /\ o.w.treasury = t.w.treasury - k
      /\ x.amt <= t.me.staked + t.me.pendingStake
      /\ o.me.staked = t.me.staked - active /\ o.me.pendingStake = t.me.pendingStake - fresh
      /\ o.me.debt = IF active = 0 THEN t.me.debt
                     ELSE Monus(RewardOwed(t.me.staked - active, t.w.acc), Shortfall(t))
      /\ o.me.nonce = s.me.nonce
  BY UnbondTerms
<1>2. /\ PairOk(t) /\ t.w.acc = s.w.acc /\ t.w.treasury = s.w.treasury
      /\ t.w.treasury \in Nat /\ Payout(t) \in Nat
      /\ ClaimOf(t.me, t.w.acc) \in Nat /\ ClaimOf(s.me, s.w.acc) \in Nat
      /\ ClaimOf(t.me, t.w.acc) <= ClaimOf(s.me, s.w.acc)
  BY SettledClaims
<1> HIDE DEF t
<1>3. x.amt \in Nat /\ t.me.pendingStake \in Nat /\ t.me.staked \in Nat
  BY <1>2, StartTypes, AccountTypes DEF PairOk
<1>4. fresh = IF x.amt <= t.me.pendingStake THEN x.amt ELSE t.me.pendingStake
  BY <1>3, MinOfTwo DEF Fresh
<1>5. active = x.amt - fresh
  BY DEF Active
<1> HIDE DEF fresh, active
<1>6. active \in Nat /\ active <= t.me.staked /\ fresh \in Nat /\ fresh <= t.me.pendingStake
  BY <1>1, <1>3, <1>4, <1>5
<1>7. o.me.pendingStake \in Nat /\ o.me.pendingStake <= t.me.pendingStake
  BY <1>1, <1>3, <1>6
<1>8. /\ ClaimOk(o.me)
      /\ ClaimOf(o.me, t.w.acc) <= ClaimOf(t.me, t.w.acc) - k * Scale + Scale
  BY <1>1, <1>2, <1>6, <1>7, ClaimUnbonded
<1>9. ClaimOf(o.me, s.w.acc) \in Nat
  BY <1>8, ClaimType, StartClaims
<1>10. k \in Nat
  BY <1>2
<1> HIDE DEF k
<1>11. (o.w.treasury - s.w.treasury) * Scale = - (k * Scale) /\ k * Scale \in Nat
  <2>1. s.w.treasury \in Nat /\ o.w.treasury = s.w.treasury - k
    BY <1>1, <1>2
  <2>2. QED
    BY <1>10, <2>1, TreasuryPays
<1>12. ClaimOf(o.me, s.w.acc)
          <= ClaimOf(s.me, s.w.acc) + (o.w.treasury - s.w.treasury) * Scale + Scale
  BY <1>2, <1>8, <1>9, <1>11, ScaleType
<1>13. QED
  BY <1>1, <1>12, OwnReward

\* An arm that writes nothing that a claim depends on.
LEMMA IdleReward ==
    ASSUME NEW s, NEW x, Start(s, x), NEW o \in Arm(s, x), o.w = s.w,
           o.me.staked = s.me.staked, o.me.debt = s.me.debt,
           o.me.pendingStake = s.me.pendingStake, o.me.nonce = s.me.nonce
    PROVE  RewardKept(x, s, o)
<1>1. ClaimOf(o.me, s.w.acc) = ClaimOf(s.me, s.w.acc)
  BY DEF ClaimOf, Earned
<1>2. ClaimOf(s.me, s.w.acc) \in Nat /\ s.w.treasury \in Nat
  BY StartClaims, ClaimType
<1>3. (o.w.treasury - s.w.treasury) * Scale = 0
  <2>1. o.w.treasury - s.w.treasury = 0
    BY <1>2
  <2>2. 0 * Scale = 0
    BY ScaleType
  <2>3. QED
    BY <2>1, <2>2
<1>4. ClaimOf(o.me, s.w.acc)
          <= ClaimOf(s.me, s.w.acc) + (o.w.treasury - s.w.treasury) * Scale + Scale
  BY <1>1, <1>2, <1>3, ScaleType
<1>5. Steady(s.w, o.w)
  BY DEF Steady
<1>6. QED
  BY <1>4, <1>5, OwnReward

\* UnstakeZagros, with and without an amount.
LEMMA UnstakeRewarded ==
    ASSUME NEW s, NEW x, Start(s, x), NEW o \in Arm(s, x), o \in UnstakeZagros(s, x)
    PROVE  RewardKept(x, s, o)
<1>1. CASE x.amt = 0
  <2>1. o \in Withdraw(s, x)
    BY <1>1 DEF UnstakeZagros
  <2>2. QED
    BY <2>1, WithdrawTerms, IdleReward
<1>2. CASE x.amt # 0
  <2>1. o \in Unbond(s, x)
    BY <1>2 DEF UnstakeZagros
  <2>2. QED
    BY <2>1, UnbondRewarded
<1>3. QED
  BY <1>1, <1>2

\* An account that was confiscated claims nothing.
LEMMA StrippedClaim ==
    ASSUME NEW k, ClaimOk(k), NEW m, Stripped(k, m), NEW acc \in Nat
    PROVE  ClaimOk(m) /\ ClaimOf(m, acc) = 0
<1>1. m.staked = 0 /\ m.pendingStake = 0 /\ m.debt = k.debt /\ k.debt \in Nat
  BY DEF Stripped, ClaimOk
<1>2. 0 * acc = 0 /\ k.debt * Scale \in Nat
  BY <1>1, ScaleType
<1>3. Earned(m, acc) = - (k.debt * Scale)
  BY <1>1, <1>2 DEF Earned
<1>4. QED
  BY <1>1, <1>2, <1>3 DEF ClaimOk, ClaimOf

\* What a confiscation leaves of the terms of everybody else, and of the target in the state.
LEMMA StripsOthers ==
    ASSUME NEW s, NEW x, Start(s, x), NEW n, NEW v, NEW o, Strips(s, x, n, v, o)
    PROVE  \A a \in Addrs : SameTerms(IF a = x.to THEN n ELSE s.w.acct[a], o.w.acct[a])
<1>1. PICK d : Quiet(v, d) /\ o.w.acct = d.acct
  BY DEF Strips
<1>2. v.acct = [s.w.acct EXCEPT ![x.to] = n] /\ DOMAIN s.w.acct = Addrs
  <2>1. WorldOk(s.w)
    BY StartTypes
  <2>2. DOMAIN s.w.acct = Addrs
    BY <2>1 DEF WorldOk
  <2>3. QED
    BY <2>2 DEF Strips
<1>3. \A a \in Addrs : v.acct[a] = IF a = x.to THEN n ELSE s.w.acct[a]
  BY <1>2
<1>4. QED
  BY <1>1, <1>3 DEF Quiet

\* A confiscation of x.to: m is what is left of its account once the arm is over.
LEMMA StripsReward ==
    ASSUME NEW s, NEW x, Start(s, x), NEW o \in Arm(s, x), NEW n, NEW v,
           Strips(s, x, n, v, o), NEW m, Stripped(s.w.acct[x.to], m),
           \A a \in Addrs :
              LET p == IF a = x.to THEN m ELSE s.w.acct[a]
                  q == Back(x.from, o)[a]
              IN  SameClaim(p, q) /\ q.nonce = p.nonce
    PROVE  RewardKept(x, s, o)
<1> DEFINE ac == s.w.acct
           acc == s.w.acc
           k == ac[x.to]
           ad == [a \in Addrs |-> IF a = x.to THEN m ELSE ac[a]]
           bc == Back(x.from, o)
<1>1. /\ \A a \in Addrs : ClaimOk(ac[a])
      /\ Stakes(ac) = s.w.totalStaked /\ acc \in Nat
      /\ s.w.treasury \in Nat /\ Claims(ac, acc) \in Nat /\ x.to \in Addrs
  BY StartClaims
<1>2. PICK d, e :
          /\ WorldOk(d) /\ Quiet(v, d) /\ o.w.acct = d.acct /\ o.w.acc = d.acc
          /\ o.w.treasury = d.treasury
  BY DEF Strips
<1>3. /\ WorldOk(v) /\ v.totalStaked = Monus(s.w.totalStaked, k.staked)
      /\ v.treasury = s.w.treasury /\ v.acc = acc
  BY DEF Strips
<1>4. ClaimOk(m) /\ ClaimOf(m, acc) = 0 /\ m.staked = 0
  BY <1>1, StrippedClaim DEF Stripped
<1>5. k.staked \in Nat /\ k.staked <= s.w.totalStaked /\ s.w.totalStaked \in Nat
      /\ ClaimOf(k, acc) \in Nat
  <2>1. k.staked \in Nat
    BY <1>1 DEF ClaimOk
  <2>2. k.staked <= s.w.totalStaked /\ WorldOk(s.w)
    BY <1>1, StartTypes
  <2>3. s.w.totalStaked \in Nat
    BY <2>2, WorldTypes
  <2>4. ClaimOf(k, acc) \in Nat
    BY <1>1, ClaimType
  <2>5. QED
    BY <2>1, <2>2, <2>3, <2>4
<1>6. \A a \in Addrs : SameClaim(IF a = x.to THEN m ELSE ac[a], ad[a])
  BY DEF SameClaim
<1>7. \A a \in Addrs : SameClaim(ad[a], bc[a])
  BY DEF SameClaim
<1>8. \A a \in Addrs : bc[a].nonce = ac[a].nonce
  <2>1. m.nonce = k.nonce
    BY DEF Stripped
  <2>2. \A a \in Addrs : bc[a].nonce = (IF a = x.to THEN m ELSE ac[a]).nonce
    OBVIOUS
  <2>3. QED
    BY <2>1, <2>2
<1> HIDE DEF ac, acc, k, ad, bc
<1>9. /\ Claims(ad, acc) = Claims(ac, acc) - ClaimOf(k, acc) + ClaimOf(m, acc)
      /\ Stakes(ad) = Stakes(ac) - k.staked + m.staked
      /\ \A a \in Addrs : ClaimOk(ad[a])
  <2> DEFINE b == x.to
  <2>1. IsReplaced(ac, b, m, ad)
    BY <1>1, <1>4, <1>6 DEF IsReplaced
  <2>2. k = ac[b] /\ b \in Addrs
    BY <1>1 DEF k
  <2> HIDE DEF b
  <2>3. Claims(ad, acc) = Claims(ac, acc) - ClaimOf(ac[b], acc) + ClaimOf(m, acc)
    BY <1>1, <2>1, <2>2, ClaimsChange
  <2>4. Stakes(ad) = Stakes(ac) - ac[b].staked + m.staked
    BY <2>1, <2>2, StakesChange
  <2>5. \A a \in Addrs : ClaimOk(ad[a])
    BY <2>1 DEF SameClaim, ClaimOk, IsReplaced
  <2>6. QED
    BY <2>2, <2>3, <2>4, <2>5
<1>10. Stakes(ad) = v.totalStaked
  BY <1>1, <1>3, <1>4, <1>5, <1>9 DEF Monus
<1>11. Claims(bc, d.acc) <= Claims(ad, v.acc) + (d.treasury - v.treasury) * Scale
  BY <1>2, <1>3, <1>7, <1>9, <1>10, ClaimsQuiet
<1>12. /\ Claims(ad, acc) <= Claims(ac, acc) /\ Claims(ad, acc) \in Int
  BY <1>1, <1>4, <1>5, <1>9
<1>13. Claims(bc, d.acc) \in Nat
  <2>1. \A a \in Addrs : ClaimOk(bc[a])
    BY <1>7, <1>9 DEF SameClaim, ClaimOk
  <2>2. d.acc \in Nat
    BY <1>2, WorldTypes
  <2>3. QED
    BY <2>1, <2>2, ClaimsType
<1> DEFINE z == (d.treasury - v.treasury) * Scale
<1>14. z \in Int /\ Scale \in Nat
  BY <1>2, <1>3, WorldTypes, ScaleType
<1>15. z = (o.w.treasury - s.w.treasury) * Scale
  BY <1>2, <1>3
<1>16. Claims(bc, d.acc) <= Claims(ad, acc) + z
  BY <1>3, <1>11
<1> HIDE DEF z
<1>17. Claims(bc, o.w.acc) <= Claims(ac, acc) + z + Scale
  BY <1>1, <1>2, <1>12, <1>13, <1>14, <1>16
<1>18. QED
  BY <1>8, <1>15, <1>17 DEF RewardKept, bc, ac, acc

\* SlashValidator: the copy of a sender that slashes itself is what is written back.
LEMMA SlashRewarded ==
    ASSUME NEW s, NEW x, Start(s, x), NEW o \in Arm(s, x), o \in SlashValidator(s, x)
    PROVE  RewardKept(x, s, o)
<1>1. PICK n, v : /\ Strips(s, x, n, v, o)
                  /\ IF x.to = x.from THEN n = s.w.acct[x.to] /\ Stripped(s.w.acct[x.to], o.me)
                     ELSE Stripped(s.w.acct[x.to], n) /\ o.me = s.me
  BY SlashTerms
<1>2. \A a \in Addrs : SameTerms(IF a = x.to THEN n ELSE s.w.acct[a], o.w.acct[a])
  BY <1>1, StripsOthers
<1>3. s.me = s.w.acct[x.from]
  BY StartClaims
<1> DEFINE m == IF x.to = x.from THEN o.me ELSE n
<1>4. Stripped(s.w.acct[x.to], m)
  BY <1>1
<1>5. ASSUME NEW a \in Addrs
      PROVE  LET p == IF a = x.to THEN m ELSE s.w.acct[a]
                 q == Back(x.from, o)[a]
             IN  SameClaim(p, q) /\ q.nonce = p.nonce
  <2>1. CASE a = x.from
    BY <1>1, <1>3, <2>1 DEF Back, SameClaim
  <2>2. CASE a # x.from
    <3>1. Back(x.from, o)[a] = o.w.acct[a]
      BY <2>2 DEF Back
    <3>2. SameTerms(IF a = x.to THEN m ELSE s.w.acct[a], o.w.acct[a])
      BY <1>2, <2>2
    <3>3. QED
      BY <3>1, <3>2 DEF SameTerms, SameClaim
  <2>3. QED
    BY <2>1, <2>2
<1> HIDE DEF m
<1>6. QED
  BY <1>1, <1>4, <1>5, StripsReward

\* ReportMalicious: the reporter's share is not staked.
LEMMA ReportRewarded ==
    ASSUME NEW s, NEW x, Start(s, x), NEW o \in Arm(s, x), o \in ReportMalicious(s, x)
    PROVE  RewardKept(x, s, o)
<1>1. PICK n, v : Strips(s, x, n, v, o) /\ Stripped(s.w.acct[x.to], n)
  BY ReportTerms
<1>2. /\ x.to # x.from /\ o.me.staked = s.me.staked /\ o.me.debt = s.me.debt
      /\ o.me.pendingStake = s.me.pendingStake /\ o.me.nonce = s.me.nonce
  BY ReportTerms
<1>3. \A a \in Addrs : SameTerms(IF a = x.to THEN n ELSE s.w.acct[a], o.w.acct[a])
  BY <1>1, StripsOthers
<1>4. s.me = s.w.acct[x.from]
  BY StartClaims
<1>5. ASSUME NEW a \in Addrs
      PROVE  LET p == IF a = x.to THEN n ELSE s.w.acct[a]
                 q == Back(x.from, o)[a]
             IN  SameClaim(p, q) /\ q.nonce = p.nonce
  <2>1. CASE a = x.from
    BY <1>2, <1>4, <2>1 DEF Back, SameClaim
  <2>2. CASE a # x.from
    BY <1>3, <2>2 DEF Back, SameTerms, SameClaim
  <2>3. QED
    BY <2>1, <2>2
<1>6. QED
  BY <1>1, <1>5, StripsReward

\* What every arm does to the claims.
LEMMA ArmReward ==
    ASSUME NEW s, NEW x, Start(s, x), NEW o \in Arm(s, x)
    PROVE  RewardKept(x, s, o)
<1>1. x.type \in TxTypes
  BY StartTypes
<1>2. CASE x.type = "transfer"
  BY <1>2, TransferQuiet, QuietReward DEF Arm
<1>3. CASE x.type = "buy"
  BY <1>3, SwapBuyQuiet, QuietReward DEF Arm
<1>4. CASE x.type = "sell"
  BY <1>4, SwapSellQuiet, QuietReward DEF Arm
<1>5. CASE x.type = "stake"
  BY <1>5, StakeRewarded DEF Arm
<1>6. CASE x.type = "unstake"
  BY <1>6, UnstakeRewarded DEF Arm
<1>7. CASE x.type = "claim"
  BY <1>7, ClaimRewarded DEF Arm
<1>8. CASE x.type = "slash"
  BY <1>8, SlashRewarded DEF Arm
<1>9. CASE x.type = "report"
  BY <1>9, ReportRewarded DEF Arm
<1>10. CASE x.type = "unregister"
  <2>1. o \in UnregisterValidator(s, x)
    BY <1>10 DEF Arm
  <2>2. QED
    BY <2>1, UnregisterTerms, IdleReward
<1>11. CASE x.type = "mint"
  BY <1>11, MintQuiet, QuietReward DEF Arm
<1>12. CASE x.type = "mint_and_swap"
  BY <1>12, MintAndSwapQuiet, QuietReward DEF Arm
<1>13. CASE x.type = "burn"
  BY <1>13, BurnQuiet, QuietReward DEF Arm
<1>14. CASE x.type = "swap_and_burn"
  BY <1>14, SwapAndBurnQuiet, QuietReward DEF Arm
<1>15. QED
  BY <1>1, <1>2, <1>3, <1>4, <1>5, <1>6, <1>7, <1>8, <1>9, <1>10, <1>11, <1>12, <1>13, <1>14
     DEF TxTypes

-----------------------------------------------------------------------------
(* The rewards, over all steps. *)

NoncesOf(ac) == [a \in Addrs |-> ac[a].nonce]
Nonces(ac) == SumOf(NoncesOf(ac), Addrs)

\* The claims are within the treasury, and a unit for each account and transaction.
Covered(wd) ==
    Claims(wd.acct, wd.acc) <= (wd.treasury + Cardinality(Addrs) + Nonces(wd.acct)) * Scale

RewardInv == (\A a \in Addrs : w.acct[a].nonce \in Nat) /\ Covered(w)

\* Nonces are counted.
LEMMA NoncesType ==
    ASSUME NEW ac, \A a \in Addrs : ac[a].nonce \in Nat
    PROVE  Nonces(ac) \in Nat /\ Cardinality(Addrs) \in Nat
<1>1. IsFiniteSet(Addrs)
  BY GenesisAssumption
<1>2. \A a \in Addrs : NoncesOf(ac)[a] \in Nat
  BY DEF NoncesOf
<1>3. QED
  BY <1>1, <1>2, SumNat, FS_CardinalityType DEF Nonces

\* A transaction moves one nonce by one.
LEMMA OneMore ==
    ASSUME NEW ac, NEW ad, NEW b \in Addrs, \A a \in Addrs : ac[a].nonce \in Nat,
           \A a \in Addrs : ad[a].nonce = IF a = b THEN ac[a].nonce + 1 ELSE ac[a].nonce
    PROVE  Nonces(ad) = Nonces(ac) + 1 /\ \A a \in Addrs : ad[a].nonce \in Nat
<1> DEFINE f == NoncesOf(ac)
           g == NoncesOf(ad)
<1>1. IsFiniteSet(Addrs)
  BY GenesisAssumption
<1>2. /\ \A a \in Addrs : f[a] \in Int
      /\ \A a \in Addrs : g[a] \in Int
      /\ \A a \in Addrs \ {b} : g[a] = f[a]
      /\ g[b] = f[b] + 1
  BY DEF NoncesOf
<1>3. Nonces(ac) \in Nat
  BY NoncesType
<1> HIDE DEF f, g
<1>4. SumOf(g, Addrs) = SumOf(f, Addrs) - f[b] + g[b]
  <2>1. \A a \in Addrs : f[a] \in Int
    BY <1>2
  <2>2. g[b] \in Int
    BY <1>2
  <2>3. \A a \in Addrs \ {b} : g[a] = f[a]
    BY <1>2
  <2>4. QED
    BY <1>1, <2>1, <2>2, <2>3, SumChange
<1>5. SumOf(f, Addrs) = Nonces(ac) /\ SumOf(g, Addrs) = Nonces(ad)
  BY DEF f, g, Nonces
<1>6. QED
  BY <1>2, <1>3, <1>4, <1>5

\* Without a transaction, none.
LEMMA NoMore ==
    ASSUME NEW ac, NEW ad, \A a \in Addrs : ad[a].nonce = ac[a].nonce
    PROVE  Nonces(ad) = Nonces(ac)
<1>1. NoncesOf(ad) = NoncesOf(ac)
  BY DEF NoncesOf
<1>2. QED
  BY <1>1 DEF Nonces

\* Claims that rise by what the treasury gains, and a unit for a transaction, stay covered.
LEMMA StillCovered ==
    ASSUME NEW v, WorldOk(v), NEW u, WorldOk(u), NEW k \in Nat,
           \A a \in Addrs : v.acct[a].nonce \in Nat, Covered(v),
           Nonces(u.acct) = Nonces(v.acct) + k,
           Claims(u.acct, u.acc)
               <= Claims(v.acct, v.acc) + (u.treasury - v.treasury) * Scale + k * Scale
    PROVE  Covered(u)
<1> DEFINE p == Claims(v.acct, v.acc)
           q == Claims(u.acct, u.acc)
           t == v.treasury
           r == u.treasury
           c == Cardinality(Addrs)
           n == Nonces(v.acct)
           m == Nonces(u.acct)
<1>1. t \in Nat /\ r \in Nat /\ c \in Nat /\ n \in Nat /\ Scale \in Nat
  BY WorldTypes, NoncesType, ScaleType
<1>2. p \in Nat
  <2>1. (\A a \in Addrs : ClaimOk(v.acct[a])) /\ v.acc \in Nat
    BY WorldTypes, AccountClaim
  <2>2. QED
    BY <2>1, ClaimsType
<1>3. q \in Nat
  <2>1. (\A a \in Addrs : ClaimOk(u.acct[a])) /\ u.acc \in Nat
    BY WorldTypes, AccountClaim
  <2>2. QED
    BY <2>1, ClaimsType
<1>4. p <= (t + c + n) * Scale /\ m = n + k /\ q <= p + (r - t) * Scale + k * Scale
  BY DEF Covered
<1> HIDE DEF p, q, t, r, c, n, m
<1>5. (r + c + m) * Scale = (t + c + n) * Scale + (r - t) * Scale + k * Scale
  <2>1. \A a, b, d, z \in Int : (a + b + d) * z = a * z + b * z + d * z
    OBVIOUS
  <2>2. r + c + m = (t + c + n) + (r - t) + k
    BY <1>1, <1>4
  <2>3. t + c + n \in Int /\ r - t \in Int /\ k \in Int /\ Scale \in Int
    BY <1>1
  <2>4. QED
    BY <2>1, <2>2, <2>3
<1>6. /\ (t + c + n) * Scale \in Int /\ (r - t) * Scale \in Int /\ k * Scale \in Int
  BY <1>1
<1>7. q <= (r + c + m) * Scale
  BY <1>2, <1>3, <1>4, <1>5, <1>6
<1>8. QED
  BY <1>7 DEF Covered, q, r, c, m

\* A step that leaves every stake as it is.
LEMMA QuietCovered ==
    ASSUME EvmInv, EvmInv', RewardInv, Quiet(w, w')
    PROVE  RewardInv'
<1> DEFINE ac == w.acct
           bc == w'.acct
<1>1. WorldOk(w) /\ WorldOk(w') /\ Excess(w) = 0
  BY DEF EvmInv, LedgerInv
<1>2. \A a \in Addrs : SameTerms(ac[a], bc[a])
  BY DEF Quiet
<1>3. \A a \in Addrs : ac[a].nonce \in Nat
  BY DEF RewardInv
<1>4. Stakes(ac) = w.totalStaked
  <2>1. w.totalStaked \in Nat /\ Stakes(ac) \in Nat
    BY <1>1, WorldTypes, BooksTyped
  <2>2. QED
    BY <1>1, <2>1 DEF Excess
<1> HIDE DEF ac, bc
<1>5. \A a \in Addrs : ClaimOk(ac[a]) /\ SameClaim(ac[a], bc[a])
  BY <1>1, <1>2, WorldTypes, AccountClaim DEF SameTerms, SameClaim, ac
<1>6. Claims(bc, w'.acc) <= Claims(ac, w.acc) + (w'.treasury - w.treasury) * Scale
  BY <1>1, <1>4, <1>5, ClaimsQuiet
<1>7. Claims(bc, w'.acc) <= Claims(ac, w.acc) + (w'.treasury - w.treasury) * Scale + 0 * Scale
  <2>1. 0 * Scale = 0 /\ (w'.treasury - w.treasury) * Scale \in Int
    BY <1>1, WorldTypes, ScaleType
  <2>2. Claims(ac, w.acc) \in Int
    <3>1. w.acc \in Nat
      BY <1>1, WorldTypes
    <3>2. \A a \in Addrs : ClaimOk(ac[a])
      BY <1>5
    <3>3. Claims(ac, w.acc) \in Nat
      BY <3>1, <3>2, ClaimsType
    <3>4. QED
      BY <3>3
  <2>3. QED
    BY <1>6, <2>1, <2>2
<1>8. \A a \in Addrs : bc[a].nonce = ac[a].nonce
  BY <1>2 DEF SameTerms
<1>9. Nonces(bc) = Nonces(ac) + 0
  <2>1. Nonces(bc) = Nonces(ac) /\ Nonces(ac) \in Nat
    BY <1>3, <1>8, NoMore, NoncesType
  <2>2. QED
    BY <2>1
<1>10. Covered(w')
  <2>1. Covered(w) /\ 0 \in Nat
    BY DEF RewardInv
  <2>2. QED
    BY <1>1, <1>3, <1>7, <1>9, <2>1, StillCovered DEF ac, bc
<1>11. QED
  BY <1>3, <1>8, <1>10 DEF RewardInv, ac, bc

\* A transaction ends that has left the stakes as they were.
LEMMA EndsCovered ==
    ASSUME EvmInv, EvmInv', RewardInv, Ends
    PROVE  RewardInv'
<1> DEFINE ac == w.acct
           bc == w'.acct
<1>1. PICK v, b : b \in Addrs /\ WorldOk(v) /\ Quiet(w, v) /\ Charges(v, w', b)
  BY DEF Ends
<1>2. WorldOk(w) /\ WorldOk(w') /\ Excess(w) = 0
  BY DEF EvmInv, LedgerInv
<1>3. \A a \in Addrs : ac[a].nonce \in Nat
  BY DEF RewardInv
<1>4. Stakes(ac) = w.totalStaked
  <2>1. w.totalStaked \in Nat /\ Stakes(ac) \in Nat
    BY <1>2, WorldTypes, BooksTyped
  <2>2. QED
    BY <1>2, <2>1 DEF Excess
<1>5. \A a \in Addrs :
         /\ SameClaim(ac[a], bc[a])
         /\ bc[a].nonce = IF a = b THEN ac[a].nonce + 1 ELSE ac[a].nonce
  BY <1>1 DEF Quiet, Charges, SameTerms, SameClaim
<1>6. w'.acc = v.acc /\ w'.treasury = v.treasury
  BY <1>1 DEF Charges
<1> HIDE DEF ac, bc
<1>7. \A a \in Addrs : ClaimOk(ac[a]) /\ SameClaim(ac[a], bc[a])
  BY <1>2, <1>5, WorldTypes, AccountClaim DEF ac
<1>8. Claims(bc, v.acc) <= Claims(ac, w.acc) + (v.treasury - w.treasury) * Scale
  BY <1>1, <1>2, <1>4, <1>7, ClaimsQuiet
<1>9. Claims(bc, w'.acc) <= Claims(ac, w.acc) + (w'.treasury - w.treasury) * Scale + 1 * Scale
  <2>1. 1 * Scale = Scale /\ (w'.treasury - w.treasury) * Scale \in Int /\ Scale \in Nat
    BY <1>2, WorldTypes, ScaleType
  <2>2. Claims(ac, w.acc) \in Int
    <3>1. w.acc \in Nat
      BY <1>2, WorldTypes
    <3>2. \A a \in Addrs : ClaimOk(ac[a])
      BY <1>7
    <3>3. Claims(ac, w.acc) \in Nat
      BY <3>1, <3>2, ClaimsType
    <3>4. QED
      BY <3>3
  <2>3. Claims(bc, w'.acc) \in Int
    <3>1. w'.acc \in Nat
      BY <1>2, WorldTypes
    <3>2. \A a \in Addrs : ClaimOk(bc[a])
      BY <1>7 DEF ClaimOk, SameClaim
    <3>3. Claims(bc, w'.acc) \in Nat
      BY <3>1, <3>2, ClaimsType
    <3>4. QED
      BY <3>3
  <2>4. Claims(bc, w'.acc) <= Claims(ac, w.acc) + (w'.treasury - w.treasury) * Scale
    BY <1>6, <1>8
  <2>5. QED
    BY <2>1, <2>2, <2>3, <2>4
<1>10. Nonces(bc) = Nonces(ac) + 1 /\ \A a \in Addrs : bc[a].nonce \in Nat
  BY <1>1, <1>3, <1>5, OneMore
<1>11. Covered(w')
  <2>1. Covered(w) /\ 1 \in Nat
    BY DEF RewardInv
  <2>2. QED
    BY <1>2, <1>3, <1>9, <1>10, <2>1, StillCovered DEF ac, bc
<1>12. QED
  BY <1>10, <1>11 DEF RewardInv, bc

\* A native transaction that succeeds.
LEMMA SucceedCovered ==
    ASSUME EvmInv, EvmInv', RewardInv, NEW x \in Txs, NEW s \in Outcomes(x), Succeed(x, s)
    PROVE  RewardInv'
<1> DEFINE b == x.from
           first == [w |-> w, me |-> w.acct[b]]
           charged == Min({Fee(x), s.me.balance})
           n == [s.me EXCEPT !.nonce = @ + 1, !.balance = @ - charged]
           ac == Back(b, s)
           bc == w'.acct
<1>1. w' = [s.w EXCEPT !.acct[b] = n]
  BY DEF Succeed
<1>2. Start(first, x) /\ s \in Arm(first, x)
  BY Outcome DEF EvmInv
<1>3. first.w = w /\ first.me = w.acct[b]
  OBVIOUS
<1> HIDE DEF first, charged, n
<1>4. b \in Addrs /\ WorldOk(s.w) /\ AccountOk(s.me)
  BY <1>2, ArmTyped
<1>5. WorldOk(w) /\ WorldOk(w')
  BY DEF EvmInv, LedgerInv
<1>6. RewardKept(x, first, s)
  BY <1>2, ArmReward
<1>7. /\ n.staked = s.me.staked /\ n.debt = s.me.debt /\ n.pendingStake = s.me.pendingStake
      /\ n.nonce = s.me.nonce + 1
  BY <1>4 DEF AccountOk, n
<1>8. /\ w'.acc = s.w.acc /\ w'.treasury = s.w.treasury
      /\ \A a \in Addrs : bc[a] = IF a = b THEN n ELSE s.w.acct[a]
  BY <1>1, <1>4 DEF WorldOk
<1>9. \A a \in Addrs : ac[a] = IF a = b THEN s.me ELSE s.w.acct[a]
  BY DEF Back
<1>10. /\ \A a \in Addrs : ac[a].nonce = w.acct[a].nonce
       /\ Claims(ac, w'.acc)
            <= Claims(w.acct, w.acc) + (w'.treasury - w.treasury) * Scale + Scale
  BY <1>3, <1>6, <1>8 DEF RewardKept
<1> HIDE DEF ac, bc
<1>11. \A a \in Addrs : /\ SameClaim(ac[a], bc[a])
                         /\ bc[a].nonce = IF a = b THEN ac[a].nonce + 1 ELSE ac[a].nonce
  BY <1>7, <1>8, <1>9 DEF SameClaim
<1>12. Claims(bc, w'.acc) = Claims(ac, w'.acc)
  <2>1. ClaimsOf(bc, w'.acc) = ClaimsOf(ac, w'.acc)
    BY <1>11 DEF ClaimsOf, ClaimOf, Earned, SameClaim
  <2>2. QED
    BY <2>1 DEF Claims
<1>13. Claims(bc, w'.acc)
          <= Claims(w.acct, w.acc) + (w'.treasury - w.treasury) * Scale + 1 * Scale
  <2>1. 1 * Scale = Scale
    BY ScaleType
  <2>2. QED
    BY <1>10, <1>12, <2>1
<1>14. \A a \in Addrs : w.acct[a].nonce \in Nat
  BY DEF RewardInv
<1>15. \A a \in Addrs : bc[a].nonce = IF a = b THEN w.acct[a].nonce + 1 ELSE w.acct[a].nonce
  BY <1>10, <1>11
<1>16. Nonces(bc) = Nonces(w.acct) + 1 /\ \A a \in Addrs : bc[a].nonce \in Nat
  <2> DEFINE old == w.acct
  <2>1. /\ \A a \in Addrs : old[a].nonce \in Nat
        /\ \A a \in Addrs : bc[a].nonce = IF a = b THEN old[a].nonce + 1 ELSE old[a].nonce
    BY <1>14, <1>15
  <2>2. b \in Addrs
    BY <1>4
  <2> HIDE DEF old, b
  <2>3. Nonces(bc) = Nonces(old) + 1 /\ \A a \in Addrs : bc[a].nonce \in Nat
    BY <2>1, <2>2, OneMore
  <2>4. QED
    BY <2>3 DEF old
<1>17. Covered(w')
  <2>1. Covered(w) /\ 1 \in Nat
    BY DEF RewardInv
  <2>2. QED
    BY <1>5, <1>13, <1>14, <1>16, <2>1, StillCovered DEF bc
<1>18. QED
  BY <1>16, <1>17 DEF RewardInv, bc

\* Every step keeps the claims covered.
LEMMA RewardKeeps == EvmInv /\ RewardInv /\ [EvmNext]_evmVars => RewardInv'
<1> SUFFICES ASSUME EvmInv, RewardInv, [EvmNext]_evmVars PROVE RewardInv'
  OBVIOUS
<1>1. EvmInv'
  BY EvmKeeps
<1>2. CASE ~Running /\ Next /\ UNCHANGED call
  <2>1. ASSUME NEW x \in Txs, Apply(x) PROVE RewardInv'
    <3>1. ASSUME NEW s \in Outcomes(x), Succeed(x, s) PROVE RewardInv'
      BY <1>1, <3>1, SucceedCovered
    <3>2. CASE Fail(x)
      BY <1>1, <3>2, FailEnds, EndsCovered DEF EvmInv
    <3>3. QED
      BY <2>1, <3>1, <3>2 DEF Apply
  <2>2. ASSUME NEW p \in Producers, NEW f \in Factors, NEW t \in Times, SealBlock(p, f, t)
        PROVE  RewardInv'
    BY <1>1, <2>2, SealQuiet, QuietCovered DEF EvmInv
  <2>3. QED
    BY <1>2, <2>1, <2>2 DEF Next
<1>3. CASE EvmNext /\ ~ (~Running /\ Next /\ UNCHANGED call)
  <2>1. Quiet(w, w') \/ Ends
    BY <1>3, EvmQuiet
  <2>2. QED
    BY <1>1, <2>1, QuietCovered, EndsCovered
<1>4. CASE UNCHANGED evmVars
  BY <1>4 DEF evmVars, RewardInv
<1>5. QED
  BY <1>2, <1>3, <1>4

\* At genesis nobody has earned anything.
LEMMA RewardStarts == Init => RewardInv
<1> SUFFICES ASSUME Init PROVE RewardInv
  OBVIOUS
<1> DEFINE f == ClaimsOf(w.acct, w.acc)
           g == [a \in Addrs |-> 1]
           z == [a \in Addrs |-> 0]
<1>1. /\ w = Genesis /\ w.acc = 0 /\ WorldOk(w)
      /\ \A a \in Addrs : w.acct[a].debt = 0 /\ w.acct[a].nonce \in Nat
  BY FreshGenesis, GenesisAssumption DEF Init
<1>2. IsFiniteSet(Addrs) /\ Scale \in Int
  BY GenesisAssumption, ScaleType
<1>3. \A a \in Addrs : ClaimOk(w.acct[a])
  BY <1>1, WorldTypes, AccountClaim
<1>4. \A a \in Addrs : f[a] <= z[a] + Scale * g[a]
  <2>1. SUFFICES ASSUME NEW a \in Addrs PROVE f[a] <= Scale
    BY ScaleType
  <2>2. w.acct[a].staked \in Nat
    BY <1>3 DEF ClaimOk
  <2>3. w.acct[a].staked * 0 = 0 /\ 0 * Scale = 0
    BY <2>2, ScaleType
  <2>4. Earned(w.acct[a], w.acc) = 0
    BY <1>1, <2>3 DEF Earned
  <2>5. QED
    BY <2>4, ScaleType DEF ClaimsOf, ClaimOf
<1>5. /\ \A a \in Addrs : f[a] \in Int
      /\ Claims(w.acct, w.acc) \in Int
  <2>1. w.acc \in Nat
    BY <1>1
  <2>2. /\ \A a \in Addrs : f[a] \in Nat
        /\ Claims(w.acct, w.acc) \in Nat
    BY <1>3, <2>1, ClaimsType
  <2>3. QED
    BY <2>2
<1>6. \A a \in Addrs : z[a] \in Int /\ g[a] \in Int
  OBVIOUS
<1>7. SumOf(g, Addrs) = Cardinality(Addrs) /\ SumOf(z, Addrs) = 0 * Cardinality(Addrs)
  <2>1. \A a \in Addrs : g[a] = 1 /\ z[a] = 0
    OBVIOUS
  <2> HIDE DEF g, z
  <2>2. QED
    BY <1>2, <2>1, SumOnes, SumConstant
<1> HIDE DEF f, g, z
<1>8. SumOf(f, Addrs) <= SumOf(z, Addrs) + Scale * SumOf(g, Addrs)
  BY <1>2, <1>4, <1>5, <1>6, SumLinear
<1>9. /\ Nonces(w.acct) \in Nat /\ Cardinality(Addrs) \in Nat /\ w.treasury \in Nat
      /\ Claims(w.acct, w.acc) \in Int
  <2>1. Nonces(w.acct) \in Nat /\ Cardinality(Addrs) \in Nat
    BY <1>1, NoncesType
  <2>2. w.treasury \in Nat
    BY <1>1, WorldTypes
  <2>3. QED
    BY <1>5, <2>1, <2>2
<1>10. Claims(w.acct, w.acc) <= Scale * Cardinality(Addrs)
  BY <1>2, <1>7, <1>8, <1>9 DEF Claims, f
<1>11. Scale * Cardinality(Addrs)
          <= (w.treasury + Cardinality(Addrs) + Nonces(w.acct)) * Scale
  <2>1. \A a, b, c, d \in Nat : d * b <= (a + b + c) * d
    <3>1. \A a, b, c, d \in Nat : (a + b + c) * d = a * d + d * b + c * d
      OBVIOUS
    <3>2. \A a, d \in Nat : a * d \in Nat
      OBVIOUS
    <3>3. QED
      BY <3>1, <3>2
  <2>2. QED
    BY <1>9, <2>1, ScaleType
<1>12. Covered(w)
  BY <1>9, <1>10, <1>11, ScaleType DEF Covered
<1>13. QED
  BY <1>1, <1>12 DEF RewardInv

\* The transactions executed are the nonces.
LEMMA ExecutedAre == Executed(w) = Nonces(w.acct)
<1>1. [a \in Addrs |-> w.acct[a].nonce] = NoncesOf(w.acct) /\ DOMAIN NoncesOf(w.acct) = Addrs
  BY DEF NoncesOf
<1>2. QED
  BY <1>1, SumIs DEF Executed, Nonces

\* Whatever is pending is claimed.
LEMMA CoveredPays == EvmInv /\ RewardInv => RewardsCovered
<1> SUFFICES ASSUME EvmInv, RewardInv PROVE RewardsCovered
  OBVIOUS
<1> DEFINE f == ClaimsOf(w.acct, w.acc)
           pair(a) == [w |-> w, me |-> w.acct[a]]
           g == [a \in Addrs |-> Pending(pair(a))]
           z == [a \in Addrs |-> 0]
           bound == w.treasury + Cardinality(Addrs) + Nonces(w.acct)
<1>1. WorldOk(w) /\ IsFiniteSet(Addrs) /\ -Scale \in Int
  BY GenesisAssumption, ScaleType DEF EvmInv, LedgerInv
<1>2. \A a \in Addrs : ClaimOk(w.acct[a]) /\ AccountOk(w.acct[a])
  BY <1>1, WorldTypes, AccountClaim
<1>3. w.acc \in Nat /\ w.treasury \in Nat
  BY <1>1, WorldTypes
<1>4. \A a \in Addrs : f[a] \in Nat
  BY <1>2, <1>3, ClaimsType
<1>5. ASSUME NEW a \in Addrs PROVE g[a] \in Nat /\ g[a] * Scale <= f[a]
  <2> DEFINE t == pair(a)
  <2>1. PairOk(t) /\ t.me = w.acct[a] /\ t.w = w
    BY <1>1, <1>2 DEF PairOk
  <2>2. g[a] = Pending(t) /\ f[a] = ClaimOf(t.me, t.w.acc)
    BY <2>1 DEF ClaimsOf
  <2> HIDE DEF t, f, g
  <2>3. /\ Payout(t) \in Nat /\ Shortfall(t) \in Nat /\ Pending(t) = Payout(t) + Shortfall(t)
        /\ Earned(t.me, t.w.acc) >= 0 => Pending(t) * Scale <= Earned(t.me, t.w.acc)
        /\ ~ (Earned(t.me, t.w.acc) >= 0) => Pending(t) = 0
    BY <2>1, PayoutBounds
  <2>4. Pending(t) \in Nat /\ Pending(t) * Scale \in Nat
    BY <2>3, ScaleType
  <2>5. ClaimOf(t.me, t.w.acc) \in Nat /\ Earned(t.me, t.w.acc) \in Int
    BY <1>2, <1>3, <2>1, ClaimType
  <2>6. CASE Earned(t.me, t.w.acc) >= 0
    <3>1. ClaimOf(t.me, t.w.acc) >= Earned(t.me, t.w.acc)
      BY <2>5, <2>6, ScaleType DEF ClaimOf
    <3>2. QED
      BY <2>2, <2>3, <2>4, <2>5, <2>6, <3>1
  <2>7. CASE ~ (Earned(t.me, t.w.acc) >= 0)
    <3>1. 0 * Scale = 0
      BY ScaleType
    <3>2. QED
      BY <2>2, <2>3, <2>4, <2>5, <2>7, <3>1
  <2>8. QED
    BY <2>6, <2>7
<1>6. \A a \in Addrs : z[a] \in Int /\ z[a] = 0
  OBVIOUS
<1>7. Sum(g) = SumOf(g, Addrs)
  BY SumIs
<1> HIDE DEF f, g, z
<1>8. \A a \in Addrs : z[a] <= f[a] + (-Scale) * g[a]
  <2>1. SUFFICES ASSUME NEW a \in Addrs PROVE z[a] <= f[a] + (-Scale) * g[a]
    OBVIOUS
  <2>2. g[a] \in Nat /\ g[a] * Scale <= f[a] /\ f[a] \in Nat /\ z[a] = 0
    BY <1>4, <1>5, <1>6
  <2>3. (-Scale) * g[a] = - (g[a] * Scale) /\ g[a] * Scale \in Int
    BY <2>2, ScaleType
  <2>4. QED
    BY <2>2, <2>3
<1>9. SumOf(z, Addrs) <= SumOf(f, Addrs) + (-Scale) * SumOf(g, Addrs)
  <2>1. \A a \in Addrs : f[a] \in Int /\ g[a] \in Int /\ z[a] \in Int
    BY <1>4, <1>5, <1>6
  <2>2. QED
    BY <1>1, <1>8, <2>1, SumLinear
<1>10. SumOf(z, Addrs) = 0
  <2>1. SumOf(z, Addrs) = 0 * Cardinality(Addrs) /\ Cardinality(Addrs) \in Nat
    BY <1>1, <1>6, SumConstant, FS_CardinalityType
  <2>2. QED
    BY <2>1
<1>11. SumOf(g, Addrs) \in Nat /\ SumOf(f, Addrs) \in Nat
  BY <1>1, <1>4, <1>5, SumNat
<1>12. SumOf(f, Addrs) <= bound * Scale /\ bound \in Nat
  <2>1. \A a \in Addrs : w.acct[a].nonce \in Nat
    BY DEF RewardInv
  <2>2. bound \in Nat
    BY <1>3, <2>1, NoncesType
  <2>3. QED
    BY <2>2 DEF RewardInv, Covered, Claims, f
<1> HIDE DEF bound
<1>13. SumOf(g, Addrs) <= bound
  <2>1. \A a, b, s \in Nat : s > 0 /\ a >= b + 1 => a * s >= b * s + s
    OBVIOUS
  <2>2. (-Scale) * SumOf(g, Addrs) = - (SumOf(g, Addrs) * Scale)
        /\ SumOf(g, Addrs) * Scale \in Int /\ bound * Scale \in Int
    BY <1>11, <1>12, ScaleType
  <2>3. SumOf(g, Addrs) * Scale <= bound * Scale
    BY <1>9, <1>10, <1>11, <1>12, <2>2
  <2>4. SUFFICES ASSUME SumOf(g, Addrs) >= bound + 1 PROVE FALSE
    BY <1>11, <1>12
  <2>5. SumOf(g, Addrs) * Scale >= bound * Scale + Scale
    BY <1>11, <1>12, <2>1, <2>4, ScaleType
  <2>6. QED
    BY <2>2, <2>3, <2>5, ScaleType
<1>14. QED
  BY <1>7, <1>13, ExecutedAre DEF RewardsCovered, g, bound

\* The treasury can always pay what every staker could claim, up to a unit of rounding for
\* each account and transaction: whatever is staked, settled, claimed, unstaked, confiscated,
\* given out or reverted, in any order.
THEOREM RewardsCoveredHolds == EvmSpec => []RewardsCovered
<1>1. EvmInit => RewardInv
  BY RewardStarts DEF EvmInit
<1>2. EvmInv /\ RewardInv /\ [EvmNext]_evmVars => RewardInv'
  BY RewardKeeps
<1>3. EvmInv /\ RewardInv => RewardsCovered
  BY CoveredPays
<1>4. QED
  BY <1>1, <1>2, <1>3, EvmInvariant, PTL DEF EvmSpec
=============================================================================
