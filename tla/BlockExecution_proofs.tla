------------------------ MODULE BlockExecution_proofs ------------------------
(***************************************************************************)
(* Executing a block on the state store, for every block, every cache      *)
(* limit, every number of threads and of failing writes.  First the loop   *)
(* of the scheduler.  Then the invariant: serial execution is a function   *)
(* of the position in the block, and at every moment each account is where *)
(* that function has it after the last transaction that changed it, or     *)
(* half way through the one that is running.  From it follow what a crash  *)
(* leaves on the disk (CrashConsistent), what the block has computed       *)
(* (ParallelIsSerial) and that no clean entry is lost (CleanMatchesDisk).  *)
(* The order is: serial execution, the scheduler, the invariant, what each *)
(* action does, what each part of the invariant does not see, one lemma    *)
(* per action, the theorems.                                               *)
(***************************************************************************)
EXTENDS BlockExecution, Sums, SequenceTheorems

-----------------------------------------------------------------------------
(* Serial execution. *)

\* An empty account's history is the empty one.
Got(slot) == IF slot = None THEN <<>> ELSE slot

\* What the accounts hold before the block.
First == [x \in Accounts |-> Initial(x)]

\* Nonce and Serially, over a block that is given.
NonceIn(txs, val, s) ==
    IF val = None THEN 0 ELSE Cardinality({n \in DOMAIN val : txs[val[n].tx].sender = s})
Turn(txs, y, i) ==
    IF NonceIn(txs, y[txs[i].sender], txs[i].sender) # txs[i].nonce THEN y
    ELSE [x \in Accounts |->
            IF x \in (IF txs[i].fails THEN {txs[i].sender} ELSE txs[i].writes)
            THEN Append(Got(y[x]), [tx |-> i, ok |-> ~ txs[i].fails]) ELSE y[x]]

\* The accounts after each of the first k transactions.
IsSerial(f, txs, k) ==
    /\ DOMAIN f = 0 .. k /\ f[0] = First
    /\ \A i \in 1 .. k : f[i] = Turn(txs, f[i - 1], i)

\* Serial execution of a block, after each number of its transactions.
SerialOf(txs) == CHOOSE f : IsSerial(f, txs, Len(txs))

\* The loop of Expected, and what has been built of that function after k turns.
SerialTurn(y, i, c) == Turn(c, y, i)
SerialBuilt(y, k, s, c) == \E f : IsSerial(f, c, k) /\ f[k] = y

\* The rules about folds, for that loop.
Serial == INSTANCE FoldInduction WITH Op <- SerialTurn, P <- SerialBuilt

\* What holds at 0 and is handed on by each number up to n holds of all of them.
LEMMA RangeInduction ==
  ASSUME NEW n \in Nat, NEW G, 0 \in G, \A k \in 1 .. n : k - 1 \in G => k \in G
  PROVE  \A k \in 0 .. n : k \in G
<1> DEFINE T == {k \in 0 .. n : k \notin G}
<1>1. SUFFICES ASSUME T # {} PROVE FALSE
  OBVIOUS
<1>2. T \in SUBSET Nat
  OBVIOUS
<1>3. PICK m \in T : \A y \in T : m <= y
  <2> HIDE DEF T
  <2> QED  BY <1>1, <1>2, Serial!FirstNat
<1>4. m \in 1 .. n /\ m - 1 \in 0 .. n /\ m - 1 \notin T
  BY <1>3
<1> QED  BY <1>3, <1>4

\* A block is a sequence of transactions that write what is theirs to write.
LEMMA BlockTypes ==
  ASSUME NEW txs \in Blocks
  PROVE  /\ Len(txs) \in Nat /\ DOMAIN txs = 1 .. Len(txs)
         /\ \A i \in 1 .. Len(txs) :
               /\ txs[i].sender \in txs[i].writes /\ txs[i].fails \in BOOLEAN
               /\ txs[i].writes \subseteq Accounts
  BY FootprintAssumption DEF FootprintAssumption

\* The function is there, and its last value is where the loop ends.
LEMMA SerialBuild ==
  ASSUME NEW txs \in Blocks
  PROVE  SerialBuilt(Serial!Fold(First, [i \in DOMAIN txs |-> i], txs), Len(txs),
                     [i \in DOMAIN txs |-> i], txs)
<1> DEFINE s == [i \in DOMAIN txs |-> i]
           n == Len(txs)
<1>1. n \in Nat /\ DOMAIN s = 1 .. n
  BY BlockTypes
<1>2. SerialBuilt(First, 0, s, txs)
  <2> DEFINE f == [i \in 0 .. 0 |-> First]
  <2>1. IsSerial(f, txs, 0) /\ f[0] = First
    BY DEF IsSerial
  <2> QED  BY <2>1 DEF SerialBuilt
<1>3. ASSUME NEW k \in 1 .. n, NEW y, SerialBuilt(y, k - 1, s, txs)
      PROVE  SerialBuilt(SerialTurn(y, s[k], txs), k, s, txs)
  <2>1. PICK f : IsSerial(f, txs, k - 1) /\ f[k - 1] = y
    BY <1>3 DEF SerialBuilt
  <2> DEFINE v == SerialTurn(y, k, txs)
             g == [i \in 0 .. k |-> IF i = k THEN v ELSE f[i]]
  <2>2. s[k] = k /\ v = Turn(txs, y, k)
    BY <1>1 DEF SerialTurn
  <2>3. g[k] = v /\ \A i \in 0 .. (k - 1) : g[i] = f[i]
    OBVIOUS
  <2>4. DOMAIN g = 0 .. k /\ g[0] = First
    BY <2>1 DEF IsSerial
  <2> HIDE DEF v, g
  <2>5. ASSUME NEW i \in 1 .. k PROVE g[i] = Turn(txs, g[i - 1], i)
    <3>1. CASE i = k
      <4>1. g[i - 1] = y
        BY <3>1, <2>1, <2>3
      <4> QED  BY <3>1, <4>1, <2>2, <2>3
    <3>2. CASE i # k
      <4>1. i \in 1 .. (k - 1) /\ g[i] = f[i] /\ g[i - 1] = f[i - 1]
        BY <3>2, <2>3
      <4> QED  BY <4>1, <2>1 DEF IsSerial
    <3> QED  BY <3>1, <3>2
  <2>6. IsSerial(g, txs, k) /\ g[k] = v
    BY <2>3, <2>4, <2>5 DEF IsSerial
  <2>7. SerialBuilt(v, k, s, txs)
    BY <2>6 DEF SerialBuilt
  <2> QED  BY <2>2, <2>7 DEF v
<1> HIDE DEF s, n
<1>4. SerialBuilt(Serial!Fold(First, s, txs), n, s, txs)
  <2> HIDE DEF Serial!Fold, SerialBuilt, SerialTurn
  <2> QED  BY <1>1, <1>2, <1>3, Serial!FoldLeftInduction, Zenon
<1> QED  BY <1>4 DEF s, n

\* Two such functions agree.
LEMMA SerialUnique ==
  ASSUME NEW txs, NEW n \in Nat, NEW f, NEW g, IsSerial(f, txs, n), IsSerial(g, txs, n)
  PROVE  f[n] = g[n]
<1> DEFINE G == {k \in 0 .. n : f[k] = g[k]}
<1>1. 0 \in G
  BY DEF IsSerial
<1>2. ASSUME NEW k \in 1 .. n, k - 1 \in G PROVE k \in G
  <2>1. f[k - 1] = g[k - 1]
    BY <1>2
  <2>2. f[k] = Turn(txs, f[k - 1], k) /\ g[k] = Turn(txs, g[k - 1], k)
    BY DEF IsSerial
  <2> HIDE DEF Turn
  <2>3. f[k] = g[k]
    BY <2>1, <2>2, Zenon
  <2> QED  BY <2>3
<1> HIDE DEF G
<1>3. \A k \in 0 .. n : k \in G
  BY <1>1, <1>2, RangeInduction
<1> QED  BY <1>3 DEF G

\* Serial execution exists, and its last value is the one the fold computes.
LEMMA SerialIs ==
  ASSUME NEW txs \in Blocks
  PROVE  /\ IsSerial(SerialOf(txs), txs, Len(txs))
         /\ SerialOf(txs)[Len(txs)] = Serial!Fold(First, [i \in DOMAIN txs |-> i], txs)
<1> DEFINE z == Serial!Fold(First, [i \in DOMAIN txs |-> i], txs)
<1>1. PICK f : IsSerial(f, txs, Len(txs)) /\ f[Len(txs)] = z
  <2> HIDE DEF Serial!Fold
  <2> QED  BY SerialBuild DEF SerialBuilt
<1>2. IsSerial(SerialOf(txs), txs, Len(txs))
  BY <1>1 DEF SerialOf
<1>3. SerialOf(txs)[Len(txs)] = f[Len(txs)]
  <2>1. Len(txs) \in Nat
    BY BlockTypes
  <2> QED  BY <1>1, <1>2, <2>1, SerialUnique
<1> QED  BY <1>1, <1>2, <1>3

\* Expected, the reference of the checks, is its last value.
LEMMA ExpectedIs ==
  ASSUME transactions \in Blocks
  PROVE  Expected = SerialOf(transactions)[Len(transactions)]
<1>1. \A y, i : Serially(y, i) = Turn(transactions, y, i)
  BY DEF Serially, Turn, Nonce, NonceIn, Got
<1>2. Expected = Serial!Fold(First, [i \in DOMAIN transactions |-> i], transactions)
  BY <1>1 DEF Expected, Serial!Fold, FoldLeft, MapThenFoldSet, Max, First,
         Serial!FoldLeft, Serial!MapThenFoldSet, Serial!Max, SerialTurn
<1> QED  BY <1>2, SerialIs

\* What transaction i writes when the block is executed serially.
Wrote(txs, i) ==
    IF NonceIn(txs, SerialOf(txs)[i - 1][txs[i].sender], txs[i].sender) # txs[i].nonce THEN {}
    ELSE IF txs[i].fails THEN {txs[i].sender} ELSE txs[i].writes

\* One transaction after another.
LEMMA SerialSteps ==
  ASSUME NEW txs \in Blocks
  PROVE  /\ SerialOf(txs)[0] = First
         /\ \A i \in 1 .. Len(txs), x \in Accounts :
              SerialOf(txs)[i][x] =
                IF x \in Wrote(txs, i)
                THEN Append(Got(SerialOf(txs)[i - 1][x]), [tx |-> i, ok |-> ~ txs[i].fails])
                ELSE SerialOf(txs)[i - 1][x]
<1> DEFINE f == SerialOf(txs)
<1>1. IsSerial(f, txs, Len(txs)) /\ Len(txs) \in Nat
  BY SerialIs, BlockTypes
<1> HIDE DEF f
<1>2. f[0] = First
  BY <1>1 DEF IsSerial
<1> DEFINE G == {i \in 0 .. Len(txs) : DOMAIN f[i] = Accounts}
<1>3. 0 \in G
  BY <1>1, <1>2 DEF First
<1>4. ASSUME NEW i \in 1 .. Len(txs), i - 1 \in G PROVE i \in G
  <2>1. f[i] = Turn(txs, f[i - 1], i) /\ DOMAIN f[i - 1] = Accounts
    BY <1>1, <1>4 DEF IsSerial
  <2>2. DOMAIN f[i] = Accounts
    BY <2>1 DEF Turn
  <2> QED  BY <2>2
<1>5. \A i \in 0 .. Len(txs) : i \in G
  <2> HIDE DEF G
  <2> QED  BY <1>1, <1>3, <1>4, RangeInduction
<1>6. ASSUME NEW i \in 1 .. Len(txs), NEW x \in Accounts
      PROVE  f[i][x] = IF x \in Wrote(txs, i)
                       THEN Append(Got(f[i - 1][x]), [tx |-> i, ok |-> ~ txs[i].fails])
                       ELSE f[i - 1][x]
  <2>1. f[i] = Turn(txs, f[i - 1], i)
    BY <1>1 DEF IsSerial
  <2>2. Wrote(txs, i) =
           IF NonceIn(txs, f[i - 1][txs[i].sender], txs[i].sender) # txs[i].nonce THEN {}
           ELSE IF txs[i].fails THEN {txs[i].sender} ELSE txs[i].writes
    BY DEF Wrote, f
  <2>3. CASE NonceIn(txs, f[i - 1][txs[i].sender], txs[i].sender) # txs[i].nonce
    BY <2>1, <2>2, <2>3 DEF Turn
  <2>4. CASE NonceIn(txs, f[i - 1][txs[i].sender], txs[i].sender) = txs[i].nonce
    BY <2>1, <2>2, <2>4 DEF Turn
  <2> QED  BY <2>3, <2>4
<1> QED  BY <1>2, <1>6 DEF f

\* What the scheduler locks for a transaction, and what it writes.
Footprint(x) == Touched(x) \cup x.writes

\* Serial execution writes no account that the transaction does not list.
LEMMA WroteWithin ==
  ASSUME NEW txs \in Blocks, NEW i \in 1 .. Len(txs)
  PROVE  /\ Wrote(txs, i) \subseteq txs[i].writes
         /\ Wrote(txs, i) \subseteq Footprint(txs[i])
  BY BlockTypes DEF Wrote, Footprint

\* Each account holds what accounts hold.
LEMMA SerialTypes ==
  ASSUME NEW txs \in Blocks, NEW j \in 0 .. Len(txs), NEW x \in Accounts
  PROVE  SerialOf(txs)[j][x] \in Slots
<1> DEFINE f == SerialOf(txs)
           Change == [tx : Nat, ok : BOOLEAN]
           G == {i \in 0 .. Len(txs) : f[i][x] \in Slots}
<1>1. Len(txs) \in Nat /\ \A i \in 1 .. Len(txs) : txs[i].fails \in BOOLEAN
  BY BlockTypes
<1>2. f[0] = First /\ \A i \in 1 .. Len(txs) :
          f[i][x] = IF x \in Wrote(txs, i)
                    THEN Append(Got(f[i - 1][x]), [tx |-> i, ok |-> ~ txs[i].fails])
                    ELSE f[i - 1][x]
  BY SerialSteps
<1> HIDE DEF f
<1>3. 0 \in G
  <2>1. <<>> \in Slots /\ None \in Slots
    BY DEF Slots
  <2> QED  BY <1>1, <1>2, <2>1 DEF First, Initial
<1>4. ASSUME NEW i \in 1 .. Len(txs), i - 1 \in G PROVE i \in G
  <2> DEFINE e == [tx |-> i, ok |-> ~ txs[i].fails]
             o == Got(f[i - 1][x])
  <2>1. f[i - 1][x] \in Slots
    BY <1>4
  <2>2. o \in Seq(Change)
    BY <2>1 DEF Got, Slots
  <2>3. e \in Change
    BY <1>1
  <2> HIDE DEF o, e, Change
  <2>4. Append(o, e) \in Seq(Change)
    BY <2>2, <2>3
  <2>5. f[i][x] = IF x \in Wrote(txs, i) THEN Append(o, e) ELSE f[i - 1][x]
    BY <1>2 DEF o, e
  <2>6. f[i][x] \in Slots
    BY <2>1, <2>4, <2>5 DEF Slots, Change
  <2> QED  BY <2>6
<1> HIDE DEF G
<1>5. \A i \in 0 .. Len(txs) : i \in G
  BY <1>1, <1>3, <1>4, RangeInduction
<1> QED  BY <1>5 DEF G, f

\* An account is the same before and after transactions that have nothing to do with it.
LEMMA SerialSame ==
  ASSUME NEW txs \in Blocks, NEW x \in Accounts,
         NEW j \in 0 .. Len(txs), NEW k \in 0 .. Len(txs), j <= k,
         \A i \in 1 .. Len(txs) : j < i /\ i <= k => x \notin Footprint(txs[i])
  PROVE  SerialOf(txs)[j][x] = SerialOf(txs)[k][x]
<1> DEFINE f == SerialOf(txs)
           G == {i \in 0 .. Len(txs) : (j <= i /\ i <= k) => f[i][x] = f[j][x]}
<1>1. Len(txs) \in Nat
  BY BlockTypes
<1>2. \A i \in 1 .. Len(txs) :
          f[i][x] = IF x \in Wrote(txs, i)
                    THEN Append(Got(f[i - 1][x]), [tx |-> i, ok |-> ~ txs[i].fails])
                    ELSE f[i - 1][x]
  BY SerialSteps
<1> HIDE DEF f
<1>3. 0 \in G
  BY <1>1
<1>4. ASSUME NEW i \in 1 .. Len(txs), i - 1 \in G PROVE i \in G
  <2>1. CASE j < i /\ i <= k
    <3>1. x \notin Wrote(txs, i)
      BY <2>1, WroteWithin
    <3>2. f[i][x] = f[i - 1][x]
      BY <1>2, <3>1
    <3>3. f[i - 1][x] = f[j][x]
      BY <1>4, <2>1
    <3> QED  BY <3>2, <3>3
  <2>2. CASE ~(j < i /\ i <= k)
    <3>1. (j <= i /\ i <= k) => i = j
      BY <2>2
    <3> QED  BY <3>1
  <2> QED  BY <2>1, <2>2
<1>5. \A i \in 0 .. Len(txs) : i \in G
  <2> HIDE DEF G
  <2> QED  BY <1>1, <1>3, <1>4, RangeInduction
<1>6. k \in G
  BY <1>5
<1> QED  BY <1>6 DEF f

\* What i did is in the history of an account.
Shows(slot, i) == slot # None /\ [tx |-> i, ok |-> TRUE] \in ToSet(slot)

\* One more change adds itself to a history, and nothing else.
LEMMA ShowsAppend ==
  ASSUME NEW slot \in Slots, NEW i \in Nat, NEW j \in Nat, NEW ok \in BOOLEAN
  PROVE  Shows(Append(Got(slot), [tx |-> j, ok |-> ok]), i) <=>
            Shows(slot, i) \/ (i = j /\ ok)
<1> DEFINE Change == [tx : Nat, ok : BOOLEAN]
           s == Got(slot)
           e == [tx |-> j, ok |-> ok]
           m == [tx |-> i, ok |-> TRUE]
           r == Append(s, e)
<1>1. s \in Seq(Change)
  BY DEF Got, Slots
<1>2. e \in Change /\ (m = e <=> (i = j /\ ok))
  <2>1. e \in Change
    OBVIOUS
  <2>2. m = e => m.tx = e.tx /\ m.ok = e.ok
    OBVIOUS
  <2>3. m.tx = i /\ m.ok = TRUE /\ e.tx = j /\ e.ok = ok
    OBVIOUS
  <2> HIDE DEF m, e
  <2>4. m = e => (i = j /\ ok)
    BY <2>2, <2>3
  <2>5. (i = j /\ ok) => m = e
    BY DEF m, e
  <2> QED  BY <2>1, <2>4, <2>5
<1>3. Shows(slot, i) <=> \E n \in DOMAIN s : s[n] = m
  <2>1. CASE slot = None
    <3>1. s = <<>> /\ DOMAIN s = {}
      BY <2>1 DEF Got
    <3> QED  BY <2>1, <3>1 DEF Shows
  <2>2. CASE slot # None
    BY <2>2 DEF Got, Shows, ToSet
  <2> QED  BY <2>1, <2>2
<1> HIDE DEF s, e, m, Change
<1>4. /\ DOMAIN r = 1 .. (Len(s) + 1) /\ DOMAIN s = 1 .. Len(s) /\ Len(s) \in Nat
      /\ \A n \in 1 .. Len(s) : r[n] = s[n]
      /\ r[Len(s) + 1] = e /\ r \in Seq(Change)
  BY <1>1, <1>2
<1> HIDE DEF r
<1>5. (\E n \in DOMAIN r : r[n] = m) <=> (\E n \in DOMAIN s : s[n] = m) \/ m = e
  <2>1. ASSUME NEW n \in DOMAIN r, r[n] = m PROVE (\E l \in DOMAIN s : s[l] = m) \/ m = e
    <3>1. n \in 1 .. Len(s) \/ n = Len(s) + 1
      BY <1>4
    <3> QED  BY <1>4, <2>1, <3>1
  <2>2. ASSUME NEW n \in DOMAIN s, s[n] = m PROVE \E l \in DOMAIN r : r[l] = m
    <3>1. n \in DOMAIN r /\ r[n] = m
      BY <1>4, <2>2
    <3> QED  BY <3>1
  <2>3. m = e => \E l \in DOMAIN r : r[l] = m
    <3>1. Len(s) + 1 \in DOMAIN r
      BY <1>4
    <3> QED  BY <1>4, <3>1
  <2> QED  BY <2>1, <2>2, <2>3
<1>6. r # None
  BY <1>4, NoneAssumption DEF NoneAssumption, Change
<1>7. Shows(r, i) <=> \E n \in DOMAIN r : r[n] = m
  BY <1>6 DEF Shows, ToSet, m
<1> QED  BY <1>2, <1>3, <1>5, <1>7 DEF r, s, e

\* After j transactions an account shows i when i is one of them, took effect,
\* and writes it.
LEMMA SerialShows ==
  ASSUME NEW txs \in Blocks, NEW x \in Accounts, NEW j \in 0 .. Len(txs),
         NEW i \in 1 .. Len(txs)
  PROVE  Shows(SerialOf(txs)[j][x], i) <=>
            i <= j /\ x \in Wrote(txs, i) /\ ~ txs[i].fails
<1> DEFINE f == SerialOf(txs)
           G == {k \in 0 .. Len(txs) : Shows(f[k][x], i) <=>
                    i <= k /\ x \in Wrote(txs, i) /\ ~ txs[i].fails}
<1>1. Len(txs) \in Nat /\ \A k \in 1 .. Len(txs) : txs[k].fails \in BOOLEAN
  BY BlockTypes
<1>2. f[0] = First /\ \A k \in 1 .. Len(txs) :
          f[k][x] = IF x \in Wrote(txs, k)
                    THEN Append(Got(f[k - 1][x]), [tx |-> k, ok |-> ~ txs[k].fails])
                    ELSE f[k - 1][x]
  BY SerialSteps
<1>3. \A k \in 0 .. Len(txs) : f[k][x] \in Slots
  BY SerialTypes
<1> HIDE DEF f
<1>4. 0 \in G
  <2>1. f[0][x] = None \/ f[0][x] = <<>>
    BY <1>2 DEF First, Initial
  <2>2. ~ Shows(f[0][x], i)
    BY <2>1 DEF Shows, ToSet
  <2>3. ~(i <= 0) /\ 0 \in 0 .. Len(txs)
    BY <1>1
  <2> HIDE DEF Shows
  <2> QED  BY <2>2, <2>3
<1>5. ASSUME NEW k \in 1 .. Len(txs), k - 1 \in G PROVE k \in G
  <2>1. f[k - 1][x] \in Slots /\ k \in Nat /\ i \in Nat /\ (~ txs[k].fails) \in BOOLEAN
    BY <1>1, <1>3
  <2>2. Shows(f[k - 1][x], i) <=> i <= k - 1 /\ x \in Wrote(txs, i) /\ ~ txs[i].fails
    BY <1>5
  <2>3. i <= k <=> i <= k - 1 \/ i = k
    OBVIOUS
  <2>4. CASE x \in Wrote(txs, k)
    <3>1. Shows(f[k][x], i) <=> Shows(f[k - 1][x], i) \/ (i = k /\ ~ txs[k].fails)
      <4>1. f[k][x] = Append(Got(f[k - 1][x]), [tx |-> k, ok |-> ~ txs[k].fails])
        BY <1>2, <2>4
      <4>2. Shows(Append(Got(f[k - 1][x]), [tx |-> k, ok |-> ~ txs[k].fails]), i) <=>
               Shows(f[k - 1][x], i) \/ (i = k /\ ~ txs[k].fails)
        <5> HIDE DEF Shows
        <5> QED  BY <2>1, ShowsAppend
      <4> QED  BY <4>1, <4>2
    <3> HIDE DEF Shows
    <3>2. Shows(f[k][x], i) <=> i <= k /\ x \in Wrote(txs, i) /\ ~ txs[i].fails
      BY <2>2, <2>3, <2>4, <3>1
    <3> QED  BY <3>2
  <2>5. CASE x \notin Wrote(txs, k)
    <3>1. f[k][x] = f[k - 1][x]
      BY <1>2, <2>5
    <3> HIDE DEF Shows
    <3>2. Shows(f[k][x], i) <=> i <= k /\ x \in Wrote(txs, i) /\ ~ txs[i].fails
      BY <2>2, <2>3, <2>5, <3>1
    <3> QED  BY <3>2
  <2> QED  BY <2>4, <2>5
<1> HIDE DEF G
<1>6. \A k \in 0 .. Len(txs) : k \in G
  BY <1>1, <1>4, <1>5, RangeInduction
<1> QED  BY <1>6 DEF G, f

\* What the loop maintains: the positions seen are classified, and the accounts
\* of every one of them are locked, whichever group it went to.
SeenAreLocked ==
    /\ at \in Nat \ {0}
    /\ independent_txs \subseteq 1 .. (at - 1)
    /\ \A i \in 1 .. (at - 1) : Touched(transactions[i]) \subseteq locked_accounts

\* The invariant of the loop: what is locked, and the property itself.
ClassifyInv == SeenAreLocked /\ IndependentOfEarlier

\* Both rules are in force at the heights of new blocks.
LEMMA RulesInForce == lock_conflicting /\ d14
  BY RulesAssumption DEF RulesAssumption, lock_conflicting, d14

\* Before the first turn nothing is classified.
LEMMA ClassifyStarts == SchedulerInit => ClassifyInv
  BY DEF SchedulerInit, ClassifyInv, SeenAreLocked, IndependentOfEarlier

\* One turn of the loop locks what it looked at and admits to the parallel
\* group only what meets no lock.
LEMMA ClassifyKeeps ==
  ASSUME ClassifyInv, Classify
  PROVE  ClassifyInv'
<1> DEFINE x == transactions[at]
<1>1. /\ at \in Nat \ {0} /\ at' = at + 1 /\ transactions' = transactions
      /\ at' \in Nat \ {0}
  BY DEF ClassifyInv, SeenAreLocked, Classify
<1>2. independent_txs' \subseteq independent_txs \cup {at}
  BY DEF Classify
<1>3. at \in independent_txs' \ independent_txs => Touched(x) \cap locked_accounts = {}
  BY DEF Classify
<1>4. /\ Touched(x) \subseteq locked_accounts'
      /\ locked_accounts \subseteq locked_accounts'
  BY RulesInForce DEF Classify
<1>5. \A i : Touched(transactions'[i]) = Touched(transactions[i])
  BY <1>1
<1>6. ASSUME NEW i \in 1 .. (at' - 1)
      PROVE  Touched(transactions[i]) \subseteq locked_accounts'
  <2>1. i \in 1 .. (at - 1) \/ i = at
    BY <1>1
  <2> QED  BY <2>1, <1>4 DEF ClassifyInv, SeenAreLocked
<1>7. SeenAreLocked'
  <2>1. independent_txs' \subseteq 1 .. (at' - 1)
    BY <1>1, <1>2 DEF ClassifyInv, SeenAreLocked
  <2>2. \A i \in 1 .. (at' - 1) : Touched(transactions'[i]) \subseteq locked_accounts'
    BY <1>5, <1>6
  <2> QED  BY <1>1, <2>1, <2>2 DEF SeenAreLocked
<1>8. ASSUME NEW j \in independent_txs', NEW i \in 1 .. (j - 1)
      PROVE  Touched(transactions[i]) \cap Touched(transactions[j]) = {}
  <2>1. CASE j \in independent_txs
    BY <2>1 DEF ClassifyInv, IndependentOfEarlier
  <2>2. CASE j \notin independent_txs
    <3>1. j = at
      BY <2>2, <1>2
    <3>2. Touched(transactions[i]) \subseteq locked_accounts
      BY <3>1 DEF ClassifyInv, SeenAreLocked
    <3> QED  BY <3>1, <3>2, <2>2, <1>3
  <2> QED  BY <2>1, <2>2
<1>9. IndependentOfEarlier'
  <2>1. \A j \in independent_txs' : \A i \in 1 .. (j - 1) :
           Touched(transactions'[i]) \cap Touched(transactions'[j]) = {}
    BY <1>5, <1>8
  <2> QED  BY <2>1 DEF IndependentOfEarlier
<1> QED  BY <1>7, <1>9 DEF ClassifyInv

\* Whatever classify_at_rules puts into the parallel group shares no account
\* with any earlier transaction of the block: Rayon's threads do not race and
\* no transaction overtakes one it depends on.
THEOREM ParallelGroupIsIndependent == SchedulerSpec => []IndependentOfEarlier
<1>1. SchedulerInit => ClassifyInv
  BY ClassifyStarts
<1>2. ClassifyInv /\ [Classify]_classify => ClassifyInv'
  <2> SUFFICES ASSUME ClassifyInv, [Classify]_classify PROVE ClassifyInv'
    OBVIOUS
  <2>1. CASE Classify
    BY <2>1, ClassifyKeeps
  <2>2. CASE UNCHANGED classify
    BY <2>2 DEF classify, ClassifyInv, SeenAreLocked, IndependentOfEarlier, Touched, IsEvm, d14
  <2> QED  BY <2>1, <2>2
<1>3. ClassifyInv => IndependentOfEarlier
  BY DEF ClassifyInv
<1> QED  BY <1>1, <1>2, <1>3, PTL DEF SchedulerSpec

-----------------------------------------------------------------------------
(* What is true while the block is executed. *)

\* The number of transactions in the block.
Size == Len(transactions)

\* Nothing reads accounts beside the block and no bridge request comes in.
Alone(s) == s.queried = {} /\ ~ s.requests

\* Everything fits into the cache, and what is read beside the block is in it from
\* the start or does not exist yet.
Roomy(s) == /\ Cardinality(Keys) <= s.limit
            /\ s.queried \cap Accounts \subseteq Fresh \cup s.warm

\* Two transactions of the block with an account in common, the producer they pay
\* included, have an account or a pool in common that the scheduler locks for both.
SharesToken(txs) ==
    \A i, j \in 1 .. Len(txs) :
        Footprint(txs[i]) \cap Footprint(txs[j]) # {} => Touched(txs[i]) \cap Touched(txs[j]) # {}

\* What the results ask of the setup and of the block, each for a reason in the code:
\* a reader that misses an account puts back the old value over one that is written
\* meanwhile; a flush of a request makes entries clean, which a full cache may then
\* drop before the batch is written; and the producer is paid behind the locks.
Undisturbed == (Alone(setup) \/ Roomy(setup)) /\ SharesToken(transactions)

\* What a thread is doing.
Runs(r) == r.tx # 0
Checking(r) == r.ret = "nonce" /\ r.pc \in {"lookup", "fill", "nonce"}
Access(r) == r.ret = "write" /\ r.pc \in {"lookup", "fill", "write"}
Holding(r) == r.pc = "run" \/ r.pc = "close" \/ Access(r)
Flushing(r) == r.pc = "gather" \/ r.pc = "release"

\* Where the committing thread is.
Early(p) == p \in {"record", "height", "classify"}
Late(p) == p \in {"root", "archive", "claim", "gather", "release", "evict", "done"}

\* The steps of the threads.
Labels == {"record", "height", "classify", "parallel", "sequential", "root", "archive", "claim",
           "gather", "release", "evict", "done", "idle", "lookup", "fill", "nonce", "write",
           "open", "run", "close", "halted"}
Entries == [slot : Slots, dirty : BOOLEAN] \cup {None}
Values == UNION {[ks -> Slots] : ks \in SUBSET Keys}
Tasks == [pc : Labels, ret : Labels, key : Keys \cup {None}, val : Slots, tx : Nat,
          todo : SUBSET Keys, batch : Values, ok : BOOLEAN]

\* The types of the variables.
TypeInv ==
    /\ setup \in Setups /\ transactions \in Blocks
    /\ cache \in [Keys -> Entries]
    /\ disk \in [Keys -> Slots]
    /\ journal \in [Threads -> Values \cup {None}]
    /\ flush_active \in BOOLEAN
    /\ task \in [Threads -> Tasks]
    /\ started \subseteq 1 .. Size

\* What the task of a thread can be, with n transactions in the block.
Running(n, t, r) ==
    /\ \/ Checking(r) \/ Access(r) \/ (r.pc = "open" /\ r.ret \in {"nonce", "open"})
       \/ (r.pc = "run" /\ r.ret \in {"nonce", "open", "write"})
       \/ (r.pc = "close" /\ r.ret \in {"open", Rest(t)})
    /\ r.tx \in 1 .. n /\ r.todo \subseteq Accounts
    /\ r.pc \in {"lookup", "fill", "nonce", "write"} => r.key \in Accounts

\* What a thread of the block is at while it runs no transaction.
Resting(t, r) ==
    /\ t = Main => Early(r.pc) \/ r.pc \in {"parallel", "sequential"} \/ Late(r.pc)
    /\ t \in Workers => r.pc = "idle"

\* What the RPC server does, and what it does it for.
Asking(s, r) ==
    /\ ~ Runs(r) /\ r.pc \in {"idle", "lookup", "fill", "done"}
    /\ r.pc \in {"lookup", "fill"} => r.key \in s.queried /\ r.ret = "done"

\* What a bridge request does.
Requesting(r) == ~ Runs(r) /\ r.pc \in {"idle", "claim", "gather", "release", "done"}

\* The four kinds of threads.
Kind(s, n, t, r) ==
    /\ t \in {Main} \cup Workers => IF Runs(r) THEN Running(n, t, r) ELSE Resting(t, r)
    /\ t \in Readers => Asking(s, r)
    /\ t \in Handlers => Requesting(r)
    /\ Alone(s) /\ t \in Readers \cup Handlers => r.pc = "idle"
KindInv == \A t \in Threads : Kind(setup, Size, t, task[t])

\* Which transactions have been taken up when the committing thread is at p.
StageInv ==
    LET p == task[Main].pc
    IN  /\ Early(p) => started = {}
        /\ ~ Early(p) => at = Size + 1
        /\ p = "parallel" => started \subseteq independent_txs
        /\ ~ Early(p) /\ p # "parallel" => independent_txs \subseteq started
        /\ Late(p) => started = 1 .. Size

\* Conflicting transactions are taken up in block order, and no two threads run
\* the same one.
TakenUpInv ==
    /\ \A i, j \in conflicting_txs : (j \in started /\ i < j) => i \in started
    /\ \A t \in Threads : Runs(task[t]) => task[t].tx \in started
    /\ \A t \in Workers : Runs(task[t]) => /\ task[t].tx \in independent_txs
                                           /\ task[Main].pc = "parallel"
    /\ \A t, u \in Threads : (Runs(task[t]) /\ task[t].tx = task[u].tx) => t = u

\* The two groups share out the positions the loop has seen.
GroupInv ==
    /\ at \in 1 .. (Size + 1) /\ independent_txs \cap conflicting_txs = {}
    /\ independent_txs \cup conflicting_txs = 1 .. (at - 1)
    /\ ClassifyInv

\* Which transactions run when.
OrderInv == StageInv /\ TakenUpInv /\ GroupInv

\* CheckpointGate: who is between a checkpoint and its end, and who flushes.
HoldingSet == {t \in Threads : Holding(task[t])}

\* The count is that of the threads inside a checkpoint, none of which is inside
\* while one thread flushes.
GateInv ==
    /\ open_checkpoints = Cardinality(HoldingSet)
    /\ \A t \in Threads : Holding(task[t]) => ~ flush_active /\ Runs(task[t])
    /\ \A t \in Threads : Flushing(task[t]) => flush_active
    /\ \A t, u \in Threads : (Flushing(task[t]) /\ Flushing(task[u])) => t = u
    /\ \A t \in Threads : ~ Flushing(task[t]) => DOMAIN task[t].batch = {}

\* k is in a batch that is not written yet.
Taken(tasks, k) == \E t \in Threads : tasks[t].pc = "gather" /\ k \in DOMAIN tasks[t].batch
\* The keys that others may set while t flushes.
Beside(t) == IF t = Main THEN {Proposal} ELSE Others

\* The keys outside the state root hold the one value that is stored there.
OthersInv ==
    \A k \in Others : disk[k] \in {None, Plain} /\ (cache[k] # None => cache[k].slot = Plain)

\* A batch holds what the cache holds, and misses nothing that was dirty.
BatchInv ==
    \A t \in Threads : task[t].pc = "gather" =>
        /\ \A k \in DOMAIN task[t].batch : /\ cache[k] # None
                                           /\ cache[k].slot = task[t].batch[k]
        /\ \A k \in Keys \ Beside(t) : Dirty(k) => k \in task[t].todo

\* A clean entry is what the storage holds, or will once a batch is written.
CleanInv ==
    \A k \in Keys : (cache[k] # None /\ ~ cache[k].dirty) =>
        (cache[k].slot = disk[k] \/ Taken(task, k))

\* What a miss has read is still what the storage holds when it is put into the
\* cache: nobody has changed the account in between.
FillInv ==
    \A t \in Threads : task[t].pc = "fill" =>
        LET k == task[t].key
        IN  /\ cache[k] \in {None, [slot |-> disk[k], dirty |-> FALSE]} /\ ~ Taken(task, k)
            /\ task[t].val = disk[k] /\ disk[k] # None
            /\ ~ Runs(task[t]) => k = Header /\ task[Main].pc = "done"

\* With a cache that is large enough nothing leaves it but the archived header.
RoomInv ==
    Roomy(setup) =>
        /\ \A k \in Keys \ {Header} :
              (k \in setup.warm \/ disk[k] # Initial(k)) => cache[k] # None
        /\ (disk[Header] # None /\ cache[Header] = None) => task[Main].pc = "done"

\* The archived header is stored before it is evicted.
EndInv ==
    ((task[Main].pc = "release" /\ task[Main].ok) \/ task[Main].pc \in {"evict", "done"}) =>
        ~ Dirty(Header) /\ ~ Taken(task, Header)

\* What cache and storage have to do with each other.
StoreInv == OthersInv /\ BatchInv /\ CleanInv /\ FillInv /\ RoomInv /\ EndInv

\* A height is not stored without its record.
TipInv ==
    /\ disk[Height] # None => disk[Record] # None
    /\ cache[Height] # None => View(Record) # None
    /\ task[Main].pc = "height" => View(Record) # None
    /\ \A t \in Threads : (/\ task[t].pc = "gather"
                           /\ Height \in task[t].todo \cup DOMAIN task[t].batch) =>
          \/ disk[Record] # None \/ Record \in DOMAIN task[t].batch
          \/ Dirty(Record) /\ Record \in task[t].todo

\* The transactions that have ended, and how far an account has got when e have.
Ended == {i \in started : \A t \in Threads : task[t].tx # i}

\* The first j transactions, and no others, of those that have to do with x have ended.
Reached(txs, e, x, j) == \A i \in 1 .. Len(txs) : x \in Footprint(txs[i]) => (i <= j <=> i \in e)

\* What a transaction changes, what it has changed so far, and what it has made
\* of an account.
Scope(txs, r) == IF r.ok THEN txs[r.tx].writes ELSE {txs[r.tx].sender}

\* The accounts a running transaction has changed so far.
Changed(txs, r) == IF Holding(r) THEN Scope(txs, r) \ r.todo ELSE {}

\* The accounts before a running transaction, as serial execution has them.
Before(txs, r) == SerialOf(txs)[r.tx - 1]

\* An account as a running transaction has left it.
Now(txs, r, x) ==
    IF x \in Changed(txs, r) THEN Append(Got(Before(txs, r)[x]), [tx |-> r.tx, ok |-> r.ok])
    ELSE Before(txs, r)[x]

\* How far a transaction is, and what it has found.
TaskInv(txs, r) ==
    LET x == txs[r.tx]
    IN  /\ ~ r.ok => x.fails
        /\ Checking(r) => r.key = x.sender /\ r.ok
        /\ ~ Checking(r) => /\ NonceIn(txs, Before(txs, r)[x.sender], x.sender) = x.nonce
                            /\ r.todo \subseteq Scope(txs, r)
        /\ (r.ret = "nonce" /\ ~ Checking(r)) => r.todo = x.writes
        /\ r.ret = "open" => ~ r.ok /\ r.todo = {x.sender}
        /\ (r.pc = "close" /\ r.ret # "open") => r.todo = {} /\ (x.fails => ~ r.ok)
        /\ Access(r) => r.key \in r.todo
        /\ r.pc \in {"fill", "nonce", "write"} => r.val = Before(txs, r)[r.key]

\* A checkpoint has the old value of whatever the transaction has changed.
Journal(txs, r) ==
    IF Runs(r) /\ Holding(r) /\ r.pc # "close"
    THEN [x \in Changed(txs, r) |-> Before(txs, r)[x]] ELSE None

\* The accounts of a running transaction are as it has left them, on top of what
\* all its predecessors did.
Level(txs, e, views, r) ==
    \A x \in Accounts \cap Footprint(txs[r.tx]) :
        Reached(txs, e, x, r.tx - 1) /\ views[x] = Now(txs, r, x)

\* An account nobody works on is as serial execution leaves it after some transaction.
Settled(txs, e, views, x) ==
    \E j \in 0 .. Len(txs) : Reached(txs, e, x, j) /\ views[x] = SerialOf(txs)[j][x]

\* No running transaction has to do with the account.
Free(txs, tasks, x) == \A t \in Threads : Runs(tasks[t]) => x \notin Footprint(txs[tasks[t].tx])

\* What every key holds.
Views == [k \in Keys |-> View(k)]

\* The block so far is a serial execution, account by account.
SerialInv ==
    /\ \A t \in Threads : Runs(task[t]) => /\ TaskInv(transactions, task[t])
                                           /\ Level(transactions, Ended, Views, task[t])
    /\ \A t \in Threads : journal[t] = Journal(transactions, task[t])
    /\ \A x \in Accounts : Free(transactions, task, x) => Settled(transactions, Ended, Views, x)
    /\ task[Main].pc \in {"archive", "claim"} => task[Main].ok

\* All of this, as long as the process runs.
Live == TypeInv /\ KindInv /\ OrderInv /\ GateInv /\ StoreInv /\ TipInv /\ SerialInv

\* The process has panicked: what it leaves behind stays.
Halted == task = Stopped

\* The inductive invariant: the storage is whole at every moment; the process runs
\* as described, or has stopped and left behind what a restart can read.
IInv ==
    Undisturbed => TxAtomicOnDisk /\ (Live \/ (Halted /\ TipLoads /\ CleanMatchesDisk))

-----------------------------------------------------------------------------
(* Keys, threads and what they hold. *)

\* The threads are the four kinds, which have no thread in common.
LEMMA ThreadFacts ==
  /\ Main \in Threads /\ Workers \subseteq Threads /\ Readers \subseteq Threads
  /\ Handlers \subseteq Threads /\ IsFiniteSet(Threads)
  /\ Main \notin Workers /\ Main \notin Readers /\ Main \notin Handlers
  /\ \A t \in Threads : t = Main \/ t \in Workers \/ t \in Readers \/ t \in Handlers
  /\ \A t \in Workers : t \notin Readers /\ t \notin Handlers
  /\ \A t \in Readers : t \notin Handlers
  BY StoreAssumption DEF StoreAssumption, Threads

\* The four keys outside the state root are different, and no accounts.
LEMMA KeyFacts ==
  /\ Accounts \subseteq Keys /\ Others \subseteq Keys /\ IsFiniteSet(Keys)
  /\ \A k \in Others : k \notin Accounts
  /\ {Record, Height, Header, Proposal} = Others
  /\ Record # Height /\ Record # Header /\ Record # Proposal
  /\ Height # Header /\ Height # Proposal /\ Header # Proposal
<1>1. ASSUME NEW a, NEW b, NEW c, Others = {a, b, c} PROVE FALSE
  <2>1. IsFiniteSet({}) /\ Cardinality({}) = 0
    BY FS_EmptySet
  <2> DEFINE A == {} \cup {a}
             B == A \cup {b}
             C == B \cup {c}
  <2>2. IsFiniteSet(A) /\ Cardinality(A) \in Int /\ Cardinality(A) <= 1
    <3>1. IsFiniteSet(A) /\ Cardinality(A) = IF a \in {} THEN Cardinality({}) ELSE Cardinality({}) + 1
      BY <2>1, FS_AddElement
    <3> HIDE DEF A
    <3> QED  BY <2>1, <3>1
  <2> HIDE DEF A
  <2>3. IsFiniteSet(B) /\ Cardinality(B) \in Int /\ Cardinality(B) <= 2
    <3>1. IsFiniteSet(B) /\ Cardinality(B) = IF b \in A THEN Cardinality(A) ELSE Cardinality(A) + 1
      BY <2>2, FS_AddElement
    <3> HIDE DEF B
    <3> QED  BY <2>2, <3>1
  <2> HIDE DEF B
  <2>4. Cardinality(C) \in Int /\ Cardinality(C) <= 3
    <3>1. Cardinality(C) = IF c \in B THEN Cardinality(B) ELSE Cardinality(B) + 1
      BY <2>3, FS_AddElement
    <3> HIDE DEF C
    <3> QED  BY <2>3, <3>1
  <2>5. C = Others
    BY <1>1 DEF A, B
  <2>6. Cardinality(Others) = 4
    BY StoreAssumption DEF StoreAssumption
  <2> HIDE DEF C
  <2> QED  BY <2>4, <2>5, <2>6
<1>2. Record # Height /\ Record # Header /\ Record # Proposal
  <2>1. Record = Height => Others = {Height, Header, Proposal}
    BY DEF Others
  <2>2. Record = Header => Others = {Height, Header, Proposal}
    BY DEF Others
  <2>3. Record = Proposal => Others = {Height, Header, Proposal}
    BY DEF Others
  <2> QED  BY <1>1, <2>1, <2>2, <2>3
<1>3. Height # Header /\ Height # Proposal
  <2>1. Height = Header => Others = {Record, Header, Proposal}
    BY DEF Others
  <2>2. Height = Proposal => Others = {Record, Header, Proposal}
    BY DEF Others
  <2> QED  BY <1>1, <2>1, <2>2
<1>4. Header # Proposal
  <2>1. Header = Proposal => Others = {Record, Height, Proposal}
    BY DEF Others
  <2> QED  BY <1>1, <2>1
<1>5. Accounts \cap Others = {} /\ IsFiniteSet(Keys)
  BY StoreAssumption DEF StoreAssumption
<1> QED  BY <1>2, <1>3, <1>4, <1>5 DEF Keys, Others

\* None is none of the values it stands beside.
LEMMA NoneFacts ==
  /\ None \notin Keys /\ None \notin Values
  /\ None \notin [slot : Slots, dirty : BOOLEAN]
  /\ Plain \in Slots /\ Plain # None /\ <<>> \in Slots /\ None \in Slots /\ <<>> # None
  /\ \A ks \in SUBSET Keys : [ks -> Slots] \subseteq Values
<1> DEFINE Change == [tx : Nat, ok : BOOLEAN]
<1>1. Plain \in Seq(Change) /\ <<>> \in Seq(Change)
  <2>1. [tx |-> 0, ok |-> TRUE] \in Change
    OBVIOUS
  <2> HIDE DEF Change
  <2> QED  BY <2>1 DEF Plain
<1>2. None \notin Seq(Change)
  BY NoneAssumption DEF NoneAssumption
<1>3. Plain # None /\ <<>> # None
  <2> HIDE DEF Change
  <2> QED  BY <1>1, <1>2
<1>4. Plain \in Slots /\ <<>> \in Slots /\ None \in Slots
  <2> HIDE DEF Plain
  <2> QED  BY <1>1 DEF Slots
<1>5. None \notin Keys /\ None \notin [slot : Slots, dirty : BOOLEAN]
  BY NoneAssumption DEF NoneAssumption
<1>6. None \notin Values
  BY NoneAssumption DEF NoneAssumption, Values
<1>7. \A ks \in SUBSET Keys : [ks -> Slots] \subseteq Values
  BY DEF Values
<1> QED  BY <1>3, <1>4, <1>5, <1>6, <1>7

\* The empty function, with which a checkpoint and a batch begin.
LEMMA EmptyValue == <<>> \in Values /\ DOMAIN <<>> = {}
<1>1. <<>> \in [{} -> Slots] /\ DOMAIN <<>> = {}
  OBVIOUS
<1>2. {} \in SUBSET Keys
  OBVIOUS
<1> QED  BY <1>1, <1>2, NoneFacts

\* What a key holds is a slot, and a cached key has an entry.
LEMMA ViewTypes ==
  ASSUME TypeInv, NEW k \in Keys
  PROVE  /\ View(k) \in Slots /\ disk[k] \in Slots
         /\ cache[k] # None => /\ cache[k] \in [slot : Slots, dirty : BOOLEAN]
                               /\ cache[k].slot \in Slots /\ cache[k].dirty \in BOOLEAN
<1>1. cache[k] \in Entries /\ disk[k] \in Slots
  BY DEF TypeInv
<1>2. cache[k] # None => cache[k] \in [slot : Slots, dirty : BOOLEAN]
  BY <1>1 DEF Entries
<1>3. cache[k] # None => cache[k].slot \in Slots /\ cache[k].dirty \in BOOLEAN
  <2> HIDE DEF Slots
  <2> QED  BY <1>2
<1> QED  BY <1>1, <1>2, <1>3 DEF View

\* A thread that looks up or fills does so for a key, one that writes for an account.
LEMMA KeyOfTask ==
  ASSUME TypeInv, KindInv, NEW t \in Threads
  PROVE  /\ task[t].pc \in {"lookup", "fill"} => task[t].key \in Keys
         /\ task[t].pc \in {"nonce", "write"} => task[t].key \in Accounts /\ Runs(task[t])
<1>1. Kind(setup, Size, t, task[t])
  BY DEF KindInv
<1>2. setup.queried \subseteq Keys
  BY StoreAssumption DEF StoreAssumption, TypeInv
<1>3. CASE t \in Readers
  BY <1>1, <1>2, <1>3 DEF Kind, Asking
<1>4. CASE t \in Handlers
  BY <1>1, <1>4 DEF Kind, Requesting
<1>5. CASE t = Main \/ t \in Workers
  <2>1. CASE Runs(task[t])
    BY <1>1, <1>5, <2>1, KeyFacts DEF Kind, Running
  <2>2. CASE ~ Runs(task[t])
    BY <1>1, <1>5, <2>2 DEF Kind, Resting, Early, Late
  <2> QED  BY <2>1, <2>2
<1> QED  BY <1>3, <1>4, <1>5, ThreadFacts

\* Only a transaction runs, closes, opens.
LEMMA RunsTask ==
  ASSUME KindInv, NEW t \in Threads,
         task[t].pc \in {"run", "close", "open", "nonce", "write"}
  PROVE  Runs(task[t]) /\ Running(Size, t, task[t]) /\ (t = Main \/ t \in Workers)
<1>1. Kind(setup, Size, t, task[t])
  BY DEF KindInv
<1>2. CASE t \in Readers
  BY <1>1, <1>2 DEF Kind, Asking
<1>3. CASE t \in Handlers
  BY <1>1, <1>3 DEF Kind, Requesting
<1>4. CASE t = Main \/ t \in Workers
  BY <1>1, <1>4 DEF Kind, Resting, Early, Late
<1> QED  BY <1>2, <1>3, <1>4, ThreadFacts

-----------------------------------------------------------------------------
(* What each action does. *)

\* A task, field by field.
Doing(r, pc, ret, key, val, tx, todo, batch, ok) ==
    /\ r.pc = pc /\ r.ret = ret /\ r.key = key /\ r.val = val /\ r.tx = tx
    /\ r.todo = todo /\ r.batch = batch /\ r.ok = ok

\* Only the task of t changes.
Moves(t) == task' \in [Threads -> Tasks] /\ \A u \in Threads : u # t => task'[u] = task[u]

\* The block and what of it has been taken up stay.
BlockSame ==
    /\ transactions' = transactions /\ at' = at /\ independent_txs' = independent_txs
    /\ conflicting_txs' = conflicting_txs /\ locked_accounts' = locked_accounts
    /\ started' = started
\* The gate stays.
GateSame == open_checkpoints' = open_checkpoints /\ flush_active' = flush_active
\* Cache and storage stay.
StoreSame == cache' = cache /\ disk' = disk

\* Each field of a task has its type.
LEMMA TaskTypes ==
  ASSUME TypeInv, NEW t \in Threads
  PROVE  /\ task[t] \in Tasks
         /\ task[t].pc \in Labels /\ task[t].ret \in Labels /\ task[t].key \in Keys \cup {None}
         /\ task[t].val \in Slots /\ task[t].tx \in Nat /\ task[t].todo \in SUBSET Keys
         /\ task[t].batch \in Values /\ task[t].ok \in BOOLEAN
<1>1. task[t] \in Tasks
  BY DEF TypeInv
<1> HIDE DEF Slots, Values, Keys
<1> QED  BY <1>1 DEF Tasks

\* A record of the right fields is a task.
LEMMA TaskIs ==
  ASSUME NEW pc \in Labels, NEW ret \in Labels, NEW key \in Keys \cup {None}, NEW val \in Slots,
         NEW tx \in Nat, NEW todo \in SUBSET Keys, NEW batch \in Values, NEW ok \in BOOLEAN
  PROVE  [pc |-> pc, ret |-> ret, key |-> key, val |-> val, tx |-> tx, todo |-> todo,
          batch |-> batch, ok |-> ok] \in Tasks
  BY DEF Tasks

\* A thread that has nothing to do is idle.
LEMMA BusyIs ==
  /\ Busy \in Tasks
  /\ Doing(Busy, "idle", "idle", None, None, 0, {}, <<>>, TRUE)
<1>1. <<>> \in Values /\ None \in Slots
  BY EmptyValue, NoneFacts
<1> HIDE DEF Slots, Values, Keys
<1>2. Busy \in Tasks
  <2>1. "idle" \in Labels /\ None \in Keys \cup {None} /\ 0 \in Nat /\ {} \in SUBSET Keys
        /\ TRUE \in BOOLEAN
    BY DEF Labels
  <2> HIDE DEF Tasks
  <2> QED  BY <1>1, <2>1, TaskIs DEF Busy
<1>3. Doing(Busy, "idle", "idle", None, None, 0, {}, <<>>, TRUE)
  BY DEF Busy, Doing
<1> QED  BY <1>2, <1>3

\* What a thread does next is a task.
LEMMA MoveTo ==
  ASSUME TypeInv, NEW t \in Threads, NEW r \in Tasks, task' = [task EXCEPT ![t] = r]
  PROVE  Moves(t) /\ task'[t] = r
<1>1. task \in [Threads -> Tasks]
  BY DEF TypeInv
<1> HIDE DEF Tasks
<1> QED  BY <1>1 DEF Moves

\* A thread goes to its next step.
LEMMA GotoEffect ==
  ASSUME TypeInv, NEW t \in Threads, NEW p \in Labels, Goto(t, p)
  PROVE  /\ Moves(t)
         /\ Doing(task'[t], p, task[t].ret, task[t].key, task[t].val, task[t].tx,
                  task[t].todo, task[t].batch, task[t].ok)
<1> DEFINE r == [task[t] EXCEPT !.pc = p]
<1>1. task' = [task EXCEPT ![t] = r]
  BY DEF Goto
<1>2. task[t] \in Tasks
  BY TaskTypes
<1> HIDE DEF Slots, Values, Keys
<1>3. r \in Tasks
  BY <1>2 DEF Tasks
<1>4. Doing(r, p, task[t].ret, task[t].key, task[t].val, task[t].tx, task[t].todo,
            task[t].batch, task[t].ok)
  BY <1>2 DEF Tasks, Doing
<1> HIDE DEF r
<1> QED  BY <1>1, <1>3, <1>4, MoveTo

\* A thread that has nothing to do, at a step.
LEMMA BusyEffect ==
  ASSUME TypeInv, NEW t \in Threads, NEW p \in Labels,
         task' = [task EXCEPT ![t] = [Busy EXCEPT !.pc = p]]
  PROVE  Moves(t) /\ Doing(task'[t], p, "idle", None, None, 0, {}, <<>>, TRUE)
<1> DEFINE r == [Busy EXCEPT !.pc = p]
<1> HIDE DEF Slots, Values, Keys
<1>1. r \in Tasks /\ Doing(r, p, "idle", None, None, 0, {}, <<>>, TRUE)
  BY BusyIs DEF Tasks, Doing
<1>2. task' = [task EXCEPT ![t] = r]
  OBVIOUS
<1> HIDE DEF r
<1> QED  BY <1>1, <1>2, MoveTo

\* get_account changes nothing but what the thread has found.
LEMMA LookupEffect ==
  ASSUME TypeInv, KindInv, NEW t \in Threads, Lookup(t)
  PROVE  /\ Moves(t) /\ BlockSame /\ StoreSame /\ GateSame /\ journal' = journal
         /\ task[t].pc = "lookup"
         /\ Doing(task'[t], IF cache[task[t].key] = None /\ disk[task[t].key] # None
                            THEN "fill" ELSE task[t].ret,
                  task[t].ret, task[t].key, View(task[t].key), task[t].tx,
                  task[t].todo, task[t].batch, task[t].ok)
<1> DEFINE k == task[t].key
           p == IF cache[k] = None /\ disk[k] # None THEN "fill" ELSE task[t].ret
           v == View(k)
           r == [task[t] EXCEPT !.val = v, !.pc = p]
<1>1. task' = [task EXCEPT ![t] = r] /\ task[t].pc = "lookup"
  BY DEF Lookup, At, TypeInv
<1>2. task[t] \in Tasks /\ v \in Slots /\ p \in Labels
  <2>1. task[t] \in Tasks /\ task[t].ret \in Labels
    BY TaskTypes
  <2>2. k \in Keys
    BY KeyOfTask, <1>1
  <2>3. v \in Slots
    BY <2>2, ViewTypes
  <2>4. p \in Labels
    <3>1. "fill" \in Labels
      BY DEF Labels
    <3>2. p = "fill" \/ p = task[t].ret
      OBVIOUS
    <3> HIDE DEF p
    <3> QED  BY <2>1, <3>1, <3>2
  <2> QED  BY <2>1, <2>3, <2>4
<1>3. BlockSame /\ StoreSame /\ GateSame /\ journal' = journal
  BY DEF Lookup, BlockSame, StoreSame, GateSame, classify, store
<1> HIDE DEF Slots, Values, Keys, v, p
<1>4. r \in Tasks
  BY <1>2 DEF Tasks
<1>5. Doing(r, p, task[t].ret, k, v, task[t].tx, task[t].todo, task[t].batch, task[t].ok)
  BY <1>2 DEF Tasks, Doing
<1> HIDE DEF r
<1>6. Moves(t) /\ task'[t] = r
  BY <1>1, <1>4, MoveTo
<1> QED  BY <1>1, <1>3, <1>5, <1>6 DEF p, v

\* What was found on the disk goes into the cache.
LEMMA FillEffect ==
  ASSUME TypeInv, KindInv, NEW t \in Threads, Fill(t)
  PROVE  /\ Moves(t) /\ BlockSame /\ GateSame /\ disk' = disk /\ journal' = journal
         /\ task[t].pc = "fill" /\ task[t].key \in Keys
         /\ cache' \in Evictions([cache EXCEPT ![task[t].key] =
                                     [slot |-> task[t].val, dirty |-> FALSE]])
         /\ Doing(task'[t], task[t].ret, task[t].ret, task[t].key, task[t].val, task[t].tx,
                  task[t].todo, task[t].batch, task[t].ok)
<1>1. Goto(t, task[t].ret) /\ task[t].pc = "fill"
  BY DEF Fill, At
<1>2. task[t].key \in Keys /\ task[t].ret \in Labels
  BY <1>1, KeyOfTask, TaskTypes
<1>3. /\ BlockSame /\ GateSame /\ disk' = disk /\ journal' = journal
      /\ cache' \in Evictions([cache EXCEPT ![task[t].key] =
                                  [slot |-> task[t].val, dirty |-> FALSE]])
  BY DEF Fill, BlockSame, GateSame, classify
<1> QED  BY <1>1, <1>2, <1>3, GotoEffect

\* A transaction with its account's nonce goes on to a checkpoint, another ends.
LEMMA CheckNonceEffect ==
  ASSUME TypeInv, KindInv, NEW t \in Threads, CheckNonce(t)
  PROVE  /\ Moves(t) /\ BlockSame /\ StoreSame /\ GateSame /\ journal' = journal
         /\ task[t].pc = "nonce" /\ Runs(task[t])
         /\ IF Nonce(task[t].val, Tx(t).sender) = Tx(t).nonce
            THEN Doing(task'[t], "open", task[t].ret, task[t].key, task[t].val, task[t].tx,
                       Tx(t).writes, task[t].batch, task[t].ok)
            ELSE Doing(task'[t], Rest(t), "idle", None, None, 0, {}, <<>>, TRUE)
<1> DEFINE good == Nonce(task[t].val, Tx(t).sender) = Tx(t).nonce
           w == Tx(t).writes
           r == [task[t] EXCEPT !.pc = "open", !.todo = w]
           z == [Busy EXCEPT !.pc = Rest(t)]
<1>1. task' = [task EXCEPT ![t] = IF good THEN r ELSE z] /\ task[t].pc = "nonce"
  BY DEF CheckNonce, At, TypeInv
<1>2. BlockSame /\ StoreSame /\ GateSame /\ journal' = journal
  BY DEF CheckNonce, BlockSame, StoreSame, GateSame, classify, store
<1>3. Runs(task[t]) /\ Running(Size, t, task[t])
  BY <1>1, RunsTask
<1>4. w \in SUBSET Keys /\ "open" \in Labels /\ Rest(t) \in Labels
  <2>1. task[t].tx \in 1 .. Len(transactions) /\ transactions \in Blocks
    BY <1>3 DEF Running, Size, TypeInv
  <2> QED  BY <2>1, BlockTypes, KeyFacts DEF Tx, Rest, Labels
<1> HIDE DEF good, w
<1>5. CASE good
  <2>1. r \in Tasks /\ Doing(r, "open", task[t].ret, task[t].key, task[t].val, task[t].tx,
                             w, task[t].batch, task[t].ok)
    <3> HIDE DEF Slots, Values, Keys, Labels
    <3>1. task[t] \in Tasks
      BY TaskTypes
    <3> QED  BY <3>1, <1>4 DEF Tasks, Doing
  <2>2. task' = [task EXCEPT ![t] = r]
    BY <1>1, <1>5
  <2> HIDE DEF r
  <2>3. Moves(t) /\ task'[t] = r
    BY <2>1, <2>2, MoveTo
  <2> QED  BY <1>1, <1>2, <1>3, <1>5, <2>1, <2>3 DEF good, w
<1>6. CASE ~ good
  <2>1. task' = [task EXCEPT ![t] = z]
    BY <1>1, <1>6
  <2>2. Moves(t) /\ Doing(task'[t], Rest(t), "idle", None, None, 0, {}, <<>>, TRUE)
    BY <1>4, <2>1, BusyEffect
  <2> QED  BY <1>1, <1>2, <1>3, <1>6, <2>2 DEF good
<1> QED  BY <1>5, <1>6

\* A checkpoint is opened: it is counted, and remembers nothing yet.
LEMMA OpenEffect ==
  ASSUME TypeInv, KindInv, NEW t \in Threads, Open(t)
  PROVE  /\ Moves(t) /\ BlockSame /\ StoreSame /\ task[t].pc = "open" /\ Runs(task[t])
         /\ ~ flush_active /\ flush_active' = flush_active
         /\ open_checkpoints' = open_checkpoints + 1
         /\ journal' = [journal EXCEPT ![t] = <<>>]
         /\ Doing(task'[t], "run", task[t].ret, task[t].key, task[t].val, task[t].tx,
                  task[t].todo, task[t].batch, task[t].ok)
<1>1. Goto(t, "run") /\ task[t].pc = "open" /\ "run" \in Labels
  BY DEF Open, At, Labels
<1>2. Runs(task[t])
  BY <1>1, RunsTask
<1>3. /\ BlockSame /\ StoreSame /\ ~ flush_active /\ flush_active' = flush_active
      /\ open_checkpoints' = open_checkpoints + 1
      /\ journal' = [journal EXCEPT ![t] = <<>>]
  BY DEF Open, BlockSame, StoreSame, classify
<1> QED  BY <1>1, <1>2, <1>3, GotoEffect

\* A checkpoint is closed: the transaction ends, or settles its fee in another one.
LEMMA CloseEffect ==
  ASSUME TypeInv, KindInv, NEW t \in Threads, Close(t)
  PROVE  /\ Moves(t) /\ BlockSame /\ StoreSame /\ journal' = journal /\ flush_active' = flush_active
         /\ task[t].pc = "close" /\ Runs(task[t])
         /\ open_checkpoints' = open_checkpoints - 1
         /\ IF task[t].ret = "open"
            THEN Doing(task'[t], "open", task[t].ret, task[t].key, task[t].val, task[t].tx,
                       task[t].todo, task[t].batch, task[t].ok)
            ELSE Doing(task'[t], Rest(t), "idle", None, None, 0, {}, <<>>, TRUE)
<1>1. /\ task[t].pc = "close" /\ "open" \in Labels /\ Rest(t) \in Labels
      /\ IF task[t].ret = "open" THEN Goto(t, "open")
         ELSE task' = [task EXCEPT ![t] = [Busy EXCEPT !.pc = Rest(t)]]
  BY DEF Close, Return, At, Labels, Rest
<1>2. Runs(task[t])
  BY <1>1, RunsTask
<1>3. /\ BlockSame /\ StoreSame /\ journal' = journal /\ flush_active' = flush_active
      /\ open_checkpoints' = open_checkpoints - 1
  BY DEF Close, BlockSame, StoreSame, classify
<1>4. CASE task[t].ret = "open"
  BY <1>1, <1>2, <1>3, <1>4, GotoEffect
<1>5. CASE task[t].ret # "open"
  <2>1. task' = [task EXCEPT ![t] = [Busy EXCEPT !.pc = Rest(t)]]
    BY <1>1, <1>5
  <2>2. Moves(t) /\ Doing(task'[t], Rest(t), "idle", None, None, 0, {}, <<>>, TRUE)
    BY <1>1, <2>1, BusyEffect
  <2> QED  BY <1>1, <1>2, <1>3, <1>5, <2>2
<1> QED  BY <1>4, <1>5

\* A flush begins, with the keys that are dirty.
LEMMA ClaimEffect ==
  ASSUME TypeInv, KindInv, NEW t \in Threads, Claim(t)
  PROVE  /\ Moves(t) /\ BlockSame /\ StoreSame /\ journal' = journal
         /\ task[t].pc = "claim" /\ open_checkpoints = 0 /\ ~ flush_active /\ flush_active' = TRUE
         /\ open_checkpoints' = open_checkpoints
         /\ Doing(task'[t], "gather", task[t].ret, task[t].key, task[t].val, task[t].tx,
                  {k \in Keys : Dirty(k)}, task[t].batch, task[t].ok)
<1> DEFINE r == [task[t] EXCEPT !.pc = "gather", !.todo = {k \in Keys : Dirty(k)}]
<1>1. task' = [task EXCEPT ![t] = r]
  BY DEF Claim, At, TypeInv
<1>2. task[t].pc = "claim" /\ open_checkpoints = 0 /\ ~ flush_active /\ flush_active' = TRUE
         /\ open_checkpoints' = open_checkpoints /\ BlockSame /\ StoreSame /\ journal' = journal
  BY DEF Claim, At, BlockSame, StoreSame, GateSame, classify, store
<1>3. "gather" \in Labels /\ {k \in Keys : Dirty(k)} \in SUBSET Keys
  BY DEF Labels
<1>4. r \in Tasks /\ Doing(r, "gather", task[t].ret, task[t].key, task[t].val, task[t].tx,
    {k \in Keys : Dirty(k)}, task[t].batch, task[t].ok)
  <2> HIDE DEF Slots, Values, Keys, Labels
  <2>1. task[t] \in Tasks
    BY TaskTypes
  <2> QED  BY <2>1, <1>3 DEF Tasks, Doing
<1> HIDE DEF r
<1>5. Moves(t) /\ task'[t] = r
  BY <1>1, <1>4, MoveTo
<1> QED  BY <1>2, <1>4, <1>5

\* A transaction turns to an account it has to write.
LEMMA TouchEffect ==
  ASSUME TypeInv, KindInv, NEW t \in Threads, NEW a \in Accounts, Touch(t, a)
  PROVE  /\ Moves(t) /\ BlockSame /\ StoreSame /\ GateSame /\ journal' = journal
         /\ task[t].pc = "run" /\ a \in task[t].todo
         /\ Doing(task'[t], "lookup", "write", a, task[t].val, task[t].tx,
                  task[t].todo, task[t].batch, task[t].ok)
<1> DEFINE r == [task[t] EXCEPT !.pc = "lookup", !.ret = "write", !.key = a]
<1>1. task' = [task EXCEPT ![t] = r]
  BY DEF Touch, At, TypeInv
<1>2. task[t].pc = "run" /\ a \in task[t].todo /\ BlockSame /\ StoreSame /\ GateSame
    /\ journal' = journal
  BY DEF Touch, At, BlockSame, StoreSame, GateSame, classify, store
<1>3. "lookup" \in Labels /\ "write" \in Labels /\ a \in Keys \cup {None}
  BY KeyFacts DEF Labels
<1>4. r \in Tasks /\ Doing(r, "lookup", "write", a, task[t].val, task[t].tx, task[t].todo,
    task[t].batch, task[t].ok)
  <2> HIDE DEF Slots, Values, Keys, Labels
  <2>1. task[t] \in Tasks
    BY TaskTypes
  <2> QED  BY <2>1, <1>3 DEF Tasks, Doing
<1> HIDE DEF r
<1>5. Moves(t) /\ task'[t] = r
  BY <1>1, <1>4, MoveTo
<1> QED  BY <1>2, <1>4, <1>5

\* A checkpoint is committed.
LEMMA CommitEffect ==
  ASSUME TypeInv, KindInv, NEW t \in Threads, CommitTx(t)
  PROVE  /\ Moves(t) /\ BlockSame /\ StoreSame /\ GateSame
         /\ task[t].pc = "run" /\ task[t].todo = {} /\ (Tx(t).fails => ~ task[t].ok)
         /\ journal' = [journal EXCEPT ![t] = None]
         /\ Doing(task'[t], "close", Rest(t), task[t].key, task[t].val, task[t].tx,
                  task[t].todo, task[t].batch, task[t].ok)
<1> DEFINE r == [task[t] EXCEPT !.pc = "close", !.ret = Rest(t)]
<1>1. task' = [task EXCEPT ![t] = r]
  BY DEF CommitTx, At, TypeInv
<1>2. task[t].pc = "run" /\ task[t].todo = {} /\ (Tx(t).fails => ~ task[t].ok)
         /\ journal' = [journal EXCEPT ![t] = None] /\ BlockSame /\ StoreSame /\ GateSame
  BY DEF CommitTx, At, BlockSame, StoreSame, GateSame, classify, store
<1>3. "close" \in Labels /\ Rest(t) \in Labels
  BY DEF Labels, Rest
<1>4. r \in Tasks /\ Doing(r, "close", Rest(t), task[t].key, task[t].val, task[t].tx,
    task[t].todo, task[t].batch, task[t].ok)
  <2> HIDE DEF Slots, Values, Keys, Labels
  <2>1. task[t] \in Tasks
    BY TaskTypes
  <2> QED  BY <2>1, <1>3 DEF Tasks, Doing
<1> HIDE DEF r
<1>5. Moves(t) /\ task'[t] = r
  BY <1>1, <1>4, MoveTo
<1> QED  BY <1>2, <1>4, <1>5

\* A checkpoint is reverted.
LEMMA RevertEffect ==
  ASSUME TypeInv, KindInv, NEW t \in Threads, RevertTx(t)
  PROVE  /\ Moves(t) /\ BlockSame /\ GateSame
         /\ task[t].pc = "run" /\ Tx(t).fails /\ task[t].ok
         /\ disk' = disk /\ journal' = [journal EXCEPT ![t] = None]
         /\ cache' = [k \in Keys |-> IF k \in DOMAIN journal[t]
                                     THEN [slot |-> journal[t][k], dirty |-> TRUE] ELSE cache[k]]
         /\ Doing(task'[t], "close", "open", task[t].key, task[t].val, task[t].tx,
                  {Tx(t).sender}, task[t].batch, FALSE)
<1> DEFINE r == [task[t] EXCEPT !.pc = "close", !.ret = "open", !.ok = FALSE, !.todo = {Tx(t).sender}]
<1>1. task' = [task EXCEPT ![t] = r]
  BY DEF RevertTx, At, TypeInv
<1>2. task[t].pc = "run" /\ Tx(t).fails /\ task[t].ok
         /\ disk' = disk /\ journal' = [journal EXCEPT ![t] = None]
         /\ cache' = [k \in Keys |-> IF k \in DOMAIN journal[t]
                                     THEN [slot |-> journal[t][k],
                                         dirty |-> TRUE] ELSE cache[k]] /\ BlockSame /\ GateSame
  BY DEF RevertTx, At, BlockSame, StoreSame, GateSame, classify, store
<1>3. "close" \in Labels /\ "open" \in Labels /\ {Tx(t).sender} \in SUBSET Keys
  <2>1. Running(Size, t, task[t])
    BY <1>2, RunsTask
  <2>2. task[t].tx \in 1 .. Len(transactions) /\ transactions \in Blocks
    BY <2>1 DEF Running, Size, TypeInv
  <2> QED  BY <2>2, BlockTypes, KeyFacts DEF Tx, Labels
<1>4. r \in Tasks /\ Doing(r, "close", "open", task[t].key, task[t].val, task[t].tx,
    {Tx(t).sender}, task[t].batch, FALSE)
  <2> HIDE DEF Slots, Values, Keys, Labels
  <2>1. task[t] \in Tasks
    BY TaskTypes
  <2> QED  BY <2>1, <1>3 DEF Tasks, Doing
<1> HIDE DEF r
<1>5. Moves(t) /\ task'[t] = r
  BY <1>1, <1>4, MoveTo
<1> QED  BY <1>2, <1>4, <1>5

\* A query begins.
LEMMA QueryEffect ==
  ASSUME TypeInv, KindInv, NEW t \in Threads, NEW k \in Keys, Query(t, k)
  PROVE  /\ Moves(t) /\ BlockSame /\ StoreSame /\ GateSame /\ journal' = journal
         /\ t \in Readers /\ task[t].pc = "idle"
         /\ Doing(task'[t], "lookup", "done", k, None, 0,
                  {}, <<>>, TRUE)
<1> DEFINE r == [Busy EXCEPT !.pc = "lookup", !.ret = "done", !.key = k]
<1>1. task' = [task EXCEPT ![t] = r]
  BY DEF Query, At, TypeInv
<1>2. t \in Readers /\ task[t].pc = "idle" /\ BlockSame /\ StoreSame /\ GateSame
    /\ journal' = journal
  BY DEF Query, At, BlockSame, StoreSame, GateSame, classify, store
<1>3. "lookup" \in Labels /\ "done" \in Labels /\ k \in Keys \cup {None}
  BY DEF Labels
<1>4. r \in Tasks /\ Doing(r, "lookup", "done", k, None, 0, {}, <<>>, TRUE)
  <2> HIDE DEF Slots, Values, Keys, Labels
  <2> QED  BY BusyIs, <1>3 DEF Tasks, Doing
<1> HIDE DEF r
<1>5. Moves(t) /\ task'[t] = r
  BY <1>1, <1>4, MoveTo
<1> QED  BY <1>2, <1>4, <1>5

\* A transaction writes an account and has one less to write.
LEMMA WriteEffect ==
  ASSUME TypeInv, KindInv, NEW t \in Threads, Write(t)
  PROVE  /\ Moves(t) /\ BlockSame
         /\ task[t].pc = "write"
         /\ SetAccount(t, task[t].key, Append(Got(task[t].val), [tx |-> task[t].tx, ok |-> task[t].ok]))
         /\ Doing(task'[t], "run", task[t].ret, task[t].key, task[t].val, task[t].tx,
                  task[t].todo \ {task[t].key}, task[t].batch, task[t].ok)
<1> DEFINE r == [task[t] EXCEPT !.pc = "run", !.todo = task[t].todo \ {task[t].key}]
<1>1. task' = [task EXCEPT ![t] = r]
  BY DEF Write, At, Got, TypeInv
<1>2. task[t].pc = "write"
         /\ SetAccount(t, task[t].key, Append(Got(task[t].val),
            [tx |-> task[t].tx, ok |-> task[t].ok])) /\ BlockSame
  BY DEF Write, At, Got, BlockSame, StoreSame, GateSame, classify, store
<1>3. "run" \in Labels /\ task[t].todo \ {task[t].key} \in SUBSET Keys
  BY TaskTypes DEF Labels
<1>4. r \in Tasks /\ Doing(r, "run", task[t].ret, task[t].key, task[t].val, task[t].tx,
    task[t].todo \ {task[t].key}, task[t].batch, task[t].ok)
  <2> HIDE DEF Slots, Values, Keys, Labels
  <2>1. task[t] \in Tasks
    BY TaskTypes
  <2> QED  BY <2>1, <1>3 DEF Tasks, Doing
<1> HIDE DEF r
<1>5. Moves(t) /\ task'[t] = r
  BY <1>1, <1>4, MoveTo
<1> QED  BY <1>2, <1>4, <1>5

\* A flush looks at a key, and copies it when it is dirty.
LEMMA GatherEffect ==
  ASSUME TypeInv, KindInv, NEW t \in Threads, NEW k \in Keys, Gather(t, k)
  PROVE  /\ Moves(t) /\ BlockSame /\ disk' = disk /\ GateSame /\ journal' = journal
         /\ task[t].pc = "gather" /\ k \in task[t].todo
         /\ IF Dirty(k)
            THEN /\ cache' = [cache EXCEPT ![k].dirty = FALSE]
                 /\ Doing(task'[t], task[t].pc, task[t].ret, task[t].key, task[t].val, task[t].tx,
                          task[t].todo \ {k}, Put(task[t].batch, k, cache[k].slot), task[t].ok)
            ELSE /\ cache' = cache
                 /\ Doing(task'[t], task[t].pc, task[t].ret, task[t].key, task[t].val, task[t].tx,
                          task[t].todo \ {k}, task[t].batch, task[t].ok)
<1> DEFINE d == task[t].todo \ {k}
           e == Put(task[t].batch, k, cache[k].slot)
           r == [task[t] EXCEPT !.todo = d, !.batch = e]
           z == [task[t] EXCEPT !.todo = d]
<1>1. /\ task[t].pc = "gather" /\ k \in task[t].todo
      /\ IF Dirty(k) THEN cache' = [cache EXCEPT ![k].dirty = FALSE]
         /\ task' = [task EXCEPT ![t] = r]
         ELSE cache' = cache /\ task' = [task EXCEPT ![t] = z]
  BY DEF Gather, At, TypeInv
<1>2. BlockSame /\ disk' = disk /\ GateSame /\ journal' = journal
  BY DEF Gather, BlockSame, StoreSame, GateSame, classify
<1>3. task[t] \in Tasks /\ d \in SUBSET Keys
  BY TaskTypes
<1>4. CASE Dirty(k)
  <2>1. e \in Values
    <3>1. cache[k].slot \in Slots
      BY <1>4, ViewTypes DEF Dirty
    <3>2. PICK ks \in SUBSET Keys : task[t].batch \in [ks -> Slots]
      BY TaskTypes DEF Values
    <3>3. e \in [ks \cup {k} -> Slots]
      <4> HIDE DEF Slots
      <4> QED  BY <3>1, <3>2 DEF Put
    <3>4. ks \cup {k} \in SUBSET Keys
      OBVIOUS
    <3> HIDE DEF e
    <3> QED  BY <3>3, <3>4, NoneFacts
  <2> HIDE DEF d, e
  <2>2. r \in Tasks /\ Doing(r, task[t].pc, task[t].ret, task[t].key, task[t].val, task[t].tx,
                             d, e, task[t].ok)
    <3> HIDE DEF Slots, Values, Keys, Labels
    <3> QED  BY <1>3, <2>1 DEF Tasks, Doing
  <2>3. task' = [task EXCEPT ![t] = r] /\ cache' = [cache EXCEPT ![k].dirty = FALSE]
    BY <1>1, <1>4
  <2> HIDE DEF r
  <2>4. Moves(t) /\ task'[t] = r
    BY <2>2, <2>3, MoveTo
  <2> QED  BY <1>1, <1>2, <1>4, <2>2, <2>3, <2>4 DEF d, e
<1>5. CASE ~ Dirty(k)
  <2> HIDE DEF d
  <2>2. z \in Tasks /\ Doing(z, task[t].pc, task[t].ret, task[t].key, task[t].val, task[t].tx,
                             d, task[t].batch, task[t].ok)
    <3> HIDE DEF Slots, Values, Keys, Labels
    <3> QED  BY <1>3 DEF Tasks, Doing
  <2>3. task' = [task EXCEPT ![t] = z] /\ cache' = cache
    BY <1>1, <1>5
  <2> HIDE DEF z
  <2>4. Moves(t) /\ task'[t] = z
    BY <2>2, <2>3, MoveTo
  <2> QED  BY <1>1, <1>2, <1>5, <2>2, <2>3, <2>4 DEF d
<1> QED  BY <1>4, <1>5

\* The batch is written, or its entries are dirty again.
LEMMA WriteBatchEffect ==
  ASSUME TypeInv, KindInv, NEW t \in Threads, WriteBatch(t)
  PROVE  /\ Moves(t) /\ BlockSame /\ GateSame /\ journal' = journal
         /\ task[t].pc = "gather" /\ task[t].todo = {}
         /\ \/ /\ disk' = Written(task[t].batch) /\ cache' = cache
               /\ Doing(task'[t], "release", task[t].ret, task[t].key, task[t].val, task[t].tx,
                        task[t].todo, task[t].batch, task[t].ok)
            \/ /\ disk' = disk
               /\ cache' = [k \in Keys |-> IF k \in DOMAIN task[t].batch /\ cache[k] # None
                                           THEN [cache[k] EXCEPT !.dirty = TRUE] ELSE cache[k]]
               /\ Doing(task'[t], "release", task[t].ret, task[t].key, task[t].val, task[t].tx,
                        task[t].todo, task[t].batch, FALSE)
<1> DEFINE b == task[t].batch
           r == [task[t] EXCEPT !.pc = "release", !.ok = FALSE]
<1>1. /\ task[t].pc = "gather" /\ task[t].todo = {}
      /\ \/ disk' = Written(b) /\ cache' = cache /\ Goto(t, "release")
         \/ /\ disk' = disk
            /\ cache' = [k \in Keys |-> IF k \in DOMAIN b /\ cache[k] # None
                                        THEN [cache[k] EXCEPT !.dirty = TRUE] ELSE cache[k]]
            /\ task' = [task EXCEPT ![t] = r]
  BY DEF WriteBatch, At, TypeInv
<1>2. BlockSame /\ GateSame /\ journal' = journal
  BY DEF WriteBatch, BlockSame, StoreSame, GateSame, classify
<1>3. "release" \in Labels
  BY DEF Labels
<1>4. CASE disk' = Written(b) /\ cache' = cache /\ Goto(t, "release")
  BY <1>1, <1>2, <1>3, <1>4, GotoEffect
<1>5. CASE /\ disk' = disk
           /\ cache' = [k \in Keys |-> IF k \in DOMAIN b /\ cache[k] # None
                                       THEN [cache[k] EXCEPT !.dirty = TRUE] ELSE cache[k]]
           /\ task' = [task EXCEPT ![t] = r]
  <2>1. task[t] \in Tasks
    BY TaskTypes
  <2>2. r \in Tasks /\ Doing(r, "release", task[t].ret, task[t].key, task[t].val, task[t].tx,
                             task[t].todo, b, FALSE)
    <3> HIDE DEF Slots, Values, Keys, Labels
    <3> QED  BY <2>1, <1>3 DEF Tasks, Doing
  <2> HIDE DEF r
  <2>3. Moves(t) /\ task'[t] = r
    BY <1>5, <2>2, MoveTo
  <2> QED  BY <1>1, <1>2, <1>5, <2>2, <2>3
<1> QED  BY <1>1, <1>4, <1>5

\* A flush ends; one of the committing thread that failed stops the process.
LEMMA ReleaseEffect ==
  ASSUME TypeInv, KindInv, NEW t \in Threads, Release(t)
  PROVE  /\ BlockSame /\ StoreSame /\ journal' = journal /\ open_checkpoints' = open_checkpoints
         /\ task[t].pc = "release" /\ flush_active' = FALSE
         /\ IF t = Main /\ ~ task[t].ok THEN task' = Stopped
            ELSE Moves(t) /\ Doing(task'[t], IF t = Main THEN "evict" ELSE "done", "idle", None, None,
                                   0, {}, <<>>, TRUE)
<1> DEFINE p == IF t = Main THEN "evict" ELSE "done"
<1>1. /\ task[t].pc = "release" /\ flush_active' = FALSE
      /\ IF t = Main /\ ~ task[t].ok THEN task' = Stopped
         ELSE task' = [task EXCEPT ![t] = [Busy EXCEPT !.pc = p]]
  BY DEF Release, At, TypeInv
<1>2. BlockSame /\ StoreSame /\ journal' = journal /\ open_checkpoints' = open_checkpoints
  BY DEF Release, BlockSame, StoreSame, GateSame, classify
<1>3. p \in Labels
  BY DEF Labels
<1>4. CASE t = Main /\ ~ task[t].ok
  BY <1>1, <1>2, <1>4
<1>5. CASE ~(t = Main /\ ~ task[t].ok)
  <2> HIDE DEF p
  <2>1. task' = [task EXCEPT ![t] = [Busy EXCEPT !.pc = p]]
    BY <1>1, <1>5
  <2>2. Moves(t) /\ Doing(task'[t], p, "idle", None, None, 0, {}, <<>>, TRUE)
    BY <1>3, <2>1, BusyEffect
  <2> QED  BY <1>1, <1>2, <1>5, <2>2 DEF p
<1> QED  BY <1>4, <1>5

\* A transaction is taken up: rejected, or begun with its sender's nonce.
LEMMA StartEffect ==
  ASSUME TypeInv, KindInv, NEW t \in Threads, NEW i \in 1 .. Size, StartTx(t, i)
  PROVE  /\ started' = started \cup {i} /\ transactions' = transactions /\ at' = at
         /\ independent_txs' = independent_txs /\ conflicting_txs' = conflicting_txs
         /\ locked_accounts' = locked_accounts
         /\ StoreSame /\ GateSame /\ journal' = journal
         /\ IF {transactions[i].sender, transactions[i].receiver} \cap processing_addresses # {}
            THEN task' = task
            ELSE Moves(t) /\ Doing(task'[t], "lookup", "nonce", transactions[i].sender, None, i,
                                   {}, <<>>, TRUE)
<1> DEFINE s == transactions[i].sender
           met == {s, transactions[i].receiver} \cap processing_addresses # {}
           r == [Busy EXCEPT !.pc = "lookup", !.ret = "nonce", !.tx = i, !.key = s]
<1>1. IF met THEN task' = task ELSE task' = [task EXCEPT ![t] = r]
  BY DEF StartTx, TypeInv
<1>2. /\ started' = started \cup {i} /\ transactions' = transactions /\ at' = at
      /\ independent_txs' = independent_txs /\ conflicting_txs' = conflicting_txs
      /\ locked_accounts' = locked_accounts
      /\ StoreSame /\ GateSame /\ journal' = journal
  BY DEF StartTx, BlockSame, StoreSame, GateSame, classify, store
<1>3. "lookup" \in Labels /\ "nonce" \in Labels /\ s \in Keys \cup {None} /\ i \in Nat
  <2>1. transactions \in Blocks /\ i \in 1 .. Len(transactions)
    BY DEF TypeInv, Size
  <2>2. s \in Keys /\ i \in Nat
    BY <2>1, BlockTypes, KeyFacts
  <2> QED  BY <2>2 DEF Labels
<1> HIDE DEF met, s
<1>4. CASE met
  <2>1. task' = task
    BY <1>1, <1>4
  <2> QED  BY <1>2, <1>4, <2>1 DEF met, s
<1>5. CASE ~ met
  <2>1. r \in Tasks /\ Doing(r, "lookup", "nonce", s, None, i, {}, <<>>, TRUE)
    <3> HIDE DEF Slots, Values, Keys, Labels
    <3> QED  BY BusyIs, <1>3 DEF Tasks, Doing
  <2>2. task' = [task EXCEPT ![t] = r]
    BY <1>1, <1>5
  <2> HIDE DEF r
  <2>3. Moves(t) /\ task'[t] = r
    BY <2>1, <2>2, MoveTo
  <2> QED  BY <1>2, <1>5, <2>1, <2>3 DEF met, s
<1> QED  BY <1>4, <1>5

\* The state root is compared.
LEMMA RootEffect ==
  ASSUME TypeInv, KindInv, Root
  PROVE  /\ Moves(Main) /\ BlockSame /\ StoreSame /\ GateSame /\ journal' = journal
         /\ task[Main].pc = "root"
         /\ Doing(task'[Main], "archive", task[Main].ret, task[Main].key, task[Main].val, task[Main].tx,
                  task[Main].todo, task[Main].batch, \A a \in Accounts : View(a) = Expected[a])
<1> DEFINE g == \A a \in Accounts : View(a) = Expected[a]
           r == [task[Main] EXCEPT !.pc = "archive", !.ok = g]
<1>1. task' = [task EXCEPT ![Main] = r] /\ task[Main].pc = "root"
  BY ThreadFacts DEF Root, At, TypeInv
<1>2. BlockSame /\ StoreSame /\ GateSame /\ journal' = journal
  BY DEF Root, BlockSame, StoreSame, GateSame, classify, store
<1>3. "archive" \in Labels /\ g \in BOOLEAN /\ task[Main] \in Tasks
  BY TaskTypes, ThreadFacts DEF Labels
<1> HIDE DEF g
<1>4. r \in Tasks /\ Doing(r, "archive", task[Main].ret, task[Main].key, task[Main].val, task[Main].tx,
                           task[Main].todo, task[Main].batch, g)
  <2> HIDE DEF Slots, Values, Keys, Labels
  <2> QED  BY <1>3 DEF Tasks, Doing
<1> HIDE DEF r
<1>5. Moves(Main) /\ task'[Main] = r
  BY <1>1, <1>4, MoveTo, ThreadFacts
<1> QED  BY <1>1, <1>2, <1>4, <1>5 DEF g

\* The consensus record is stored.
LEMMA StoreRecordEffect ==
  ASSUME TypeInv, KindInv, StoreRecord
  PROVE  /\ Moves(Main) /\ BlockSame /\ SetAccount(Main, Record, Plain)
         /\ task[Main].pc = "record"
         /\ Doing(task'[Main], "height", task[Main].ret, task[Main].key, task[Main].val, task[Main].tx,
                  task[Main].todo, task[Main].batch, task[Main].ok)
<1>1. /\ Goto(Main, "height") /\ task[Main].pc = "record" /\ "height" \in Labels
      /\ BlockSame /\ SetAccount(Main, Record, Plain)
  BY DEF StoreRecord, At, Labels, BlockSame, StoreSame, GateSame, classify, store
<1>2. Main \in Threads
  BY ThreadFacts
<1> QED  BY <1>1, <1>2, GotoEffect

\* The height is stored.
LEMMA WriteHeightEffect ==
  ASSUME TypeInv, KindInv, WriteHeight
  PROVE  /\ Moves(Main) /\ BlockSame /\ SetAccount(Main, Height, Plain)
         /\ task[Main].pc = "height"
         /\ Doing(task'[Main], "classify", task[Main].ret, task[Main].key, task[Main].val,
            task[Main].tx,
                  task[Main].todo, task[Main].batch, task[Main].ok)
<1>1. /\ Goto(Main, "classify") /\ task[Main].pc = "height" /\ "classify" \in Labels
      /\ BlockSame /\ SetAccount(Main, Height, Plain)
  BY DEF WriteHeight, At, Labels, BlockSame, StoreSame, GateSame, classify, store
<1>2. Main \in Threads
  BY ThreadFacts
<1> QED  BY <1>1, <1>2, GotoEffect

\* The parallel group has run.
LEMMA JoinEffect ==
  ASSUME TypeInv, KindInv, Join
  PROVE  /\ Moves(Main) /\ BlockSame /\ StoreSame /\ GateSame /\ journal' = journal
         /\ task[Main].pc = "parallel"
         /\ independent_txs \subseteq started /\ \A t \in Workers : task[t].pc = "idle"
         /\ Doing(task'[Main], "sequential", task[Main].ret, task[Main].key, task[Main].val,
            task[Main].tx,
                  task[Main].todo, task[Main].batch, task[Main].ok)
<1>1. /\ Goto(Main, "sequential") /\ task[Main].pc = "parallel" /\ "sequential" \in Labels
         /\ independent_txs \subseteq started /\ \A t \in Workers : task[t].pc = "idle"
      /\ BlockSame /\ StoreSame /\ GateSame /\ journal' = journal
  BY DEF Join, At, Labels, BlockSame, StoreSame, GateSame, classify, store
<1>2. Main \in Threads
  BY ThreadFacts
<1> QED  BY <1>1, <1>2, GotoEffect

\* The archived header leaves the cache.
LEMMA EvictArchiveEffect ==
  ASSUME TypeInv, KindInv, EvictArchive
  PROVE  /\ Moves(Main) /\ BlockSame /\ GateSame /\ journal' = journal /\ disk' = disk
            /\ cache' = [cache EXCEPT ![Header] = None]
         /\ task[Main].pc = "evict"
         /\ Doing(task'[Main], "done", task[Main].ret, task[Main].key, task[Main].val, task[Main].tx,
                  task[Main].todo, task[Main].batch, task[Main].ok)
<1>1. /\ Goto(Main, "done") /\ task[Main].pc = "evict" /\ "done" \in Labels
      /\ BlockSame /\ GateSame /\ journal' = journal /\ disk' = disk
         /\ cache' = [cache EXCEPT ![Header] = None]
  BY DEF EvictArchive, At, Labels, BlockSame, StoreSame, GateSame, classify, store
<1>2. Main \in Threads
  BY ThreadFacts
<1> QED  BY <1>1, <1>2, GotoEffect

\* A bridge request stores a proposal.
LEMMA PersistEffect ==
  ASSUME TypeInv, KindInv, NEW h \in Handlers, PersistProposal(h)
  PROVE  /\ Moves(h) /\ BlockSame /\ SetAccount(h, Proposal, Plain)
         /\ task[h].pc = "idle" /\ setup.requests
         /\ Doing(task'[h], "claim", task[h].ret, task[h].key, task[h].val, task[h].tx,
                  task[h].todo, task[h].batch, task[h].ok)
<1>1. /\ Goto(h, "claim") /\ task[h].pc = "idle" /\ "claim" \in Labels /\ setup.requests
      /\ BlockSame /\ SetAccount(h, Proposal, Plain)
  BY DEF PersistProposal, At, Labels, BlockSame, StoreSame, GateSame, classify, store
<1>2. h \in Threads
  BY ThreadFacts
<1> QED  BY <1>1, <1>2, GotoEffect

\* The archived header is stored; a wrong state root stops the process.
LEMMA ArchiveEffect ==
  ASSUME TypeInv, KindInv, Archive
  PROVE  /\ BlockSame /\ SetAccount(Main, Header, Plain) /\ task[Main].pc = "archive"
         /\ task[Main].ok =>
               /\ Moves(Main)
               /\ Doing(task'[Main], "claim", task[Main].ret, task[Main].key, task[Main].val,
                        task[Main].tx, task[Main].todo, task[Main].batch, task[Main].ok)
<1>1. /\ BlockSame /\ SetAccount(Main, Header, Plain) /\ task[Main].pc = "archive"
      /\ task[Main].ok => Goto(Main, "claim")
      /\ "claim" \in Labels
  BY DEF Archive, At, Labels, BlockSame, classify, Goto
<1>2. Main \in Threads
  BY ThreadFacts
<1> QED  BY <1>1, <1>2, GotoEffect

-----------------------------------------------------------------------------
(* What the parts of the invariant do not see. *)

\* The types are kept when each variable keeps its own.
LEMMA TypeFrame ==
  ASSUME TypeInv, setup' = setup, transactions' = transactions, cache' \in [Keys -> Entries],
         disk' \in [Keys -> Slots], journal' \in [Threads -> Values \cup {None}],
         flush_active' \in BOOLEAN, task' \in [Threads -> Tasks], started' \subseteq 1 .. Size
  PROVE  TypeInv'
  BY DEF TypeInv, Size

\* A thread goes on with its kind of work.
LEMMA KindFrame ==
  ASSUME KindInv, setup' = setup, transactions' = transactions, NEW t \in Threads, Moves(t),
         Kind(setup, Size, t, task'[t])
  PROVE  KindInv'
<1>1. Size' = Size
  BY DEF Size
<1>2. \A u \in Threads : Kind(setup, Size, u, task'[u])
  BY DEF KindInv, Moves
<1> QED  BY <1>1, <1>2 DEF KindInv

\* What a thread that runs a transaction must be, and one that does not.
LEMMA KindIs ==
  ASSUME NEW s, NEW n, NEW t \in Threads, NEW r
  PROVE  /\ (t = Main \/ t \in Workers) /\ Runs(r) /\ Running(n, t, r) => Kind(s, n, t, r)
         /\ t = Main /\ ~ Runs(r) /\ Resting(t, r) => Kind(s, n, t, r)
         /\ t \in Workers /\ ~ Runs(r) /\ r.pc = "idle" => Kind(s, n, t, r)
         /\ Kind(s, n, t, r) /\ (t = Main \/ t \in Workers) /\ Runs(r) => Running(n, t, r)
         /\ Kind(s, n, t, r) /\ t = Main /\ ~ Runs(r) => Resting(t, r)
  BY ThreadFacts DEF Kind, Resting

\* No transaction is taken up and none but that of t ends.
LEMMA OrderFrame ==
  ASSUME OrderInv, BlockSame, NEW t \in Threads, Moves(t),
         task'[t].tx = task[t].tx \/ ~ Runs(task'[t]),
         t = Main => /\ Early(task'[t].pc) <=> Early(task[t].pc)
                     /\ task'[t].pc = "parallel" <=> task[t].pc = "parallel"
                     /\ Late(task'[t].pc) => Late(task[t].pc)
  PROVE  OrderInv'
<1>1. GroupInv'
  BY DEF OrderInv, GroupInv, BlockSame, ClassifyInv, SeenAreLocked, IndependentOfEarlier, Size
<1>2. /\ Early(task'[Main].pc) <=> Early(task[Main].pc)
      /\ task'[Main].pc = "parallel" <=> task[Main].pc = "parallel"
      /\ Late(task'[Main].pc) => Late(task[Main].pc)
  BY ThreadFacts DEF Moves
<1>3. StageInv'
  BY <1>2 DEF OrderInv, StageInv, BlockSame, Size
<1>4. \A u \in Threads : Runs(task'[u]) => Runs(task[u]) /\ task'[u].tx = task[u].tx
  BY DEF Moves, Runs
<1>5. TakenUpInv'
  <2>1. /\ \A i, j \in conflicting_txs : (j \in started /\ i < j) => i \in started
        /\ \A u \in Threads : Runs(task[u]) => task[u].tx \in started
        /\ \A u \in Workers : Runs(task[u]) => /\ task[u].tx \in independent_txs
                                               /\ task[Main].pc = "parallel"
        /\ \A u, w \in Threads : (Runs(task[u]) /\ task[u].tx = task[w].tx) => u = w
    BY DEF OrderInv, TakenUpInv
  <2>2. \A u, w \in Threads : (Runs(task'[u]) /\ task'[u].tx = task'[w].tx) => u = w
    <3> SUFFICES ASSUME NEW u \in Threads, NEW w \in Threads, Runs(task'[u]),
                        task'[u].tx = task'[w].tx
                 PROVE  u = w
      OBVIOUS
    <3>1. Runs(task'[w])
      BY DEF Runs
    <3> QED  BY <1>4, <2>1, <3>1
  <2>3. \A u \in Threads : Runs(task'[u]) => task'[u].tx \in started
    BY <1>4, <2>1
  <2>4. \A u \in Workers : Runs(task'[u]) => /\ task'[u].tx \in independent_txs
                                             /\ task'[Main].pc = "parallel"
    BY <1>2, <1>4, <2>1, ThreadFacts
  <2> QED  BY <2>1, <2>2, <2>3, <2>4 DEF TakenUpInv, BlockSame
<1> QED  BY <1>1, <1>3, <1>5 DEF OrderInv

\* The gate sees who holds a checkpoint and who flushes.
LEMMA GateFrame ==
  ASSUME GateInv, GateSame, NEW t \in Threads, Moves(t),
         Holding(task'[t]) <=> Holding(task[t]),
         Holding(task'[t]) => Runs(task'[t]),
         Flushing(task'[t]) => Flushing(task[t]),
         ~ Flushing(task'[t]) => DOMAIN task'[t].batch = {}
  PROVE  GateInv'
<1>1. HoldingSet' = HoldingSet
  BY DEF HoldingSet, Moves
<1>2. \A u \in Threads : /\ Holding(task'[u]) => ~ flush_active /\ Runs(task'[u])
                         /\ Flushing(task'[u]) => flush_active
                         /\ Flushing(task'[u]) => Flushing(task[u])
                         /\ ~ Flushing(task'[u]) => DOMAIN task'[u].batch = {}
  BY DEF GateInv, Moves
<1>3. \A u, w \in Threads : (Flushing(task'[u]) /\ Flushing(task'[w])) => u = w
  BY <1>2 DEF GateInv
<1>4. open_checkpoints' = Cardinality(HoldingSet')
  BY <1>1 DEF GateInv, GateSame
<1> QED  BY <1>2, <1>3, <1>4 DEF GateInv, GateSame

\* What a thread has found on the disk may go into the cache.
Fillable(r) ==
    /\ cache[r.key] \in {None, [slot |-> disk[r.key], dirty |-> FALSE]}
    /\ ~ Taken(task, r.key) /\ r.val = disk[r.key] /\ disk[r.key] # None
    /\ ~ Runs(r) => r.key = Header /\ task[Main].pc = "done"

\* The archived header has been flushed.
Past(r) == (r.pc = "release" /\ r.ok) \/ r.pc \in {"evict", "done"}

\* A thread that touches neither the cache nor the storage.
LEMMA StoreMoves ==
  ASSUME StoreInv, StoreSame, setup' = setup, NEW t \in Threads, Moves(t),
         task[t].pc # "gather", task'[t].pc # "gather",
         task'[t].pc = "fill" => Fillable(task'[t]),
         t = Main => task[t].pc # "done" /\ (Past(task'[t]) => Past(task[t]))
  PROVE  StoreInv'
<1>1. \A k : Taken(task', k) <=> Taken(task, k)
  BY DEF Taken, Moves
<1>2. OthersInv' /\ CleanInv'
  BY <1>1 DEF StoreInv, StoreSame, OthersInv, CleanInv
<1>3. BatchInv'
  BY DEF StoreInv, StoreSame, BatchInv, Moves, Dirty
<1>4. task[Main].pc = "done" => task'[Main].pc = "done"
  BY ThreadFacts DEF Moves
<1>5. FillInv'
  <2> SUFFICES ASSUME NEW u \in Threads, task'[u].pc = "fill"
               PROVE  /\ cache'[task'[u].key] \in
                            {None, [slot |-> disk'[task'[u].key], dirty |-> FALSE]}
                      /\ ~ Taken(task', task'[u].key) /\ task'[u].val = disk'[task'[u].key]
                      /\ disk'[task'[u].key] # None
                      /\ ~ Runs(task'[u]) => task'[u].key = Header /\ task'[Main].pc = "done"
    BY DEF FillInv
  <2>1. CASE u = t
    BY <1>1, <1>4, <2>1 DEF StoreSame, Fillable
  <2>2. CASE u # t
    <3>1. task'[u] = task[u]
      BY <2>2 DEF Moves
    <3> QED  BY <1>1, <1>4, <3>1 DEF StoreInv, StoreSame, FillInv
  <2> QED  BY <2>1, <2>2
<1>6. RoomInv'
  BY <1>4 DEF StoreInv, StoreSame, RoomInv
<1>7. EndInv'
  <2>1. Past(task'[Main]) => Past(task[Main])
    BY ThreadFacts DEF Moves
  <2> QED  BY <1>1, <2>1 DEF StoreInv, StoreSame, EndInv, Dirty, Past
<1> QED  BY <1>2, <1>3, <1>5, <1>6, <1>7 DEF StoreInv

\* The same before the header is flushed.
LEMMA StoreFrame ==
  ASSUME StoreInv, StoreSame, setup' = setup, NEW t \in Threads, Moves(t),
         task[t].pc # "gather", task'[t].pc # "gather",
         task'[t].pc = "fill" => Fillable(task'[t]),
         t = Main => task[t].pc # "done" /\ task'[t].pc \notin {"release", "evict", "done"}
  PROVE  StoreInv'
<1>1. t = Main => ~ Past(task'[t])
  BY DEF Past
<1> QED  BY <1>1, StoreMoves

\* A step that leaves the store alone leaves the tip loadable.
LEMMA TipFrame ==
  ASSUME TipInv, StoreSame, NEW t \in Threads, Moves(t),
         task'[t].pc # "gather", t = Main => task'[t].pc # "height"
  PROVE  TipInv'
<1>1. \A u \in Threads : task'[u].pc = "gather" => task'[u] = task[u]
  BY DEF Moves
<1>2. task'[Main].pc = "height" => task'[Main] = task[Main]
  BY ThreadFacts DEF Moves
<1>3. View(Record)' = View(Record) /\ Dirty(Record)' = Dirty(Record)
  BY DEF View, Dirty, StoreSame
<1>4. disk' = disk /\ cache' = cache
  BY DEF StoreSame
<1>5. \A u \in Threads : (/\ task[u].pc = "gather"
                          /\ Height \in task[u].todo \cup DOMAIN task[u].batch) =>
          \/ disk[Record] # None \/ Record \in DOMAIN task[u].batch
          \/ Dirty(Record) /\ Record \in task[u].todo
  BY DEF TipInv
<1>6. \A u \in Threads : (/\ task'[u].pc = "gather"
                          /\ Height \in task'[u].todo \cup DOMAIN task'[u].batch) =>
          \/ disk'[Record] # None \/ Record \in DOMAIN task'[u].batch
          \/ Dirty(Record)' /\ Record \in task'[u].todo
  BY <1>1, <1>3, <1>4, <1>5
<1> QED  BY <1>2, <1>3, <1>4, <1>6 DEF TipInv

\* Accounts look the same and no transaction ends.
LEMMA SerialFrame ==
  ASSUME SerialInv, BlockSame, NEW t \in Threads, Moves(t),
         \A x \in Accounts : Views'[x] = Views[x],
         task'[t].tx = task[t].tx,
         Runs(task[t]) => /\ TaskInv(transactions, task'[t])
                          /\ \A x \in Accounts : Now(transactions, task'[t], x) =
                                                 Now(transactions, task[t], x),
         \A u \in Threads : u # t => journal'[u] = journal[u],
         journal'[t] = Journal(transactions, task'[t]),
         (t = Main /\ task'[t].pc \in {"archive", "claim"}) => task'[t].ok
  PROVE  SerialInv'
<1> DEFINE txs == transactions
<1>1. transactions' = transactions
  BY DEF BlockSame
<1>2. Ended' = Ended
  <2>1. \A u \in Threads : task'[u].tx = task[u].tx
    BY DEF Moves
  <2> QED  BY <2>1 DEF Ended, BlockSame
<1>3. ASSUME NEW u \in Threads, Runs(task'[u])
      PROVE  TaskInv(txs, task'[u]) /\ Level(txs, Ended, Views', task'[u])
  <2>1. Runs(task[u]) /\ TaskInv(txs, task'[u]) /\ task'[u].tx = task[u].tx
    BY <1>3 DEF SerialInv, Moves, Runs
  <2>2. Level(txs, Ended, Views, task[u])
    BY <2>1 DEF SerialInv
  <2>3. \A x \in Accounts : Now(txs, task'[u], x) = Now(txs, task[u], x)
    <3>1. CASE u = t
      BY <2>1, <3>1
    <3>2. CASE u # t
      <4>1. task'[u] = task[u]
        BY <3>2 DEF Moves
      <4> QED  BY <4>1, Zenon
    <3> QED  BY <3>1, <3>2
  <2> HIDE DEF Views
  <2>4. Level(txs, Ended, Views', task'[u])
    BY <2>1, <2>2, <2>3 DEF Level
  <2> QED  BY <2>1, <2>4
<1>4. ASSUME NEW u \in Threads PROVE journal'[u] = Journal(txs, task'[u])
  <2>1. CASE u = t
    BY <2>1
  <2>2. CASE u # t
    <3>1. task'[u] = task[u] /\ journal'[u] = journal[u] /\ journal[u] = Journal(txs, task[u])
      BY <2>2 DEF Moves, SerialInv
    <3> QED  BY <3>1, Zenon
  <2> QED  BY <2>1, <2>2
<1>5. ASSUME NEW x \in Accounts, Free(txs, task', x)
      PROVE  Settled(txs, Ended, Views', x)
  <2>1. Free(txs, task, x)
    BY <1>5 DEF Free, Moves, Runs
  <2>2. Settled(txs, Ended, Views, x)
    BY <2>1 DEF SerialInv
  <2> HIDE DEF Views
  <2> QED  BY <2>2 DEF Settled
<1>6. task'[Main].pc \in {"archive", "claim"} => task'[Main].ok
  BY ThreadFacts DEF SerialInv, Moves
<1> QED  BY <1>1, <1>2, <1>3, <1>4, <1>5, <1>6 DEF SerialInv

-----------------------------------------------------------------------------
(* The cache. *)

\* Eviction drops clean entries only, and none when there is room for all.
LEMMA EvictionsAre ==
  ASSUME TypeInv, NEW c \in [Keys -> Entries], NEW d \in Evictions(c)
  PROVE  /\ d \in [Keys -> Entries]
         /\ \A k \in Keys : d[k] = c[k] \/ (d[k] = None /\ c[k] # None /\ ~ c[k].dirty)
         /\ Roomy(setup) => d = c
<1> DEFINE held == {k \in Keys : c[k] # None}
           clean == {k \in held : ~ c[k].dirty}
           n == Min({Cardinality(held) - (setup.limit * 4) \div 5, Cardinality(clean)})
<1>1. IF Cardinality(held) <= setup.limit THEN d = c
      ELSE \E gone \in SUBSET clean : d = [k \in Keys |-> IF k \in gone THEN None ELSE c[k]]
  <2>1. d \in IF Cardinality(held) <= setup.limit THEN {c}
              ELSE {[k \in Keys |-> IF k \in gone THEN None ELSE c[k]] : gone \in kSubset(n, clean)}
    BY DEF Evictions
  <2>2. kSubset(n, clean) \subseteq SUBSET clean
    BY DEF kSubset
  <2> HIDE DEF held, clean, n
  <2> QED  BY <2>1, <2>2
<1>2. /\ d \in [Keys -> Entries]
      /\ \A k \in Keys : d[k] = c[k] \/ (d[k] = None /\ c[k] # None /\ ~ c[k].dirty)
  <2>1. CASE d = c
    BY <2>1
  <2>2. CASE \E gone \in SUBSET clean : d = [k \in Keys |-> IF k \in gone THEN None ELSE c[k]]
    <3>1. PICK gone \in SUBSET clean : d = [k \in Keys |-> IF k \in gone THEN None ELSE c[k]]
      BY <2>2
    <3>2. None \in Entries
      BY DEF Entries
    <3> HIDE DEF Entries
    <3> QED  BY <3>1, <3>2
  <2> QED  BY <1>1, <2>1, <2>2
<1>3. Roomy(setup) => d = c
  <2> SUFFICES ASSUME Roomy(setup) PROVE Cardinality(held) <= setup.limit
    BY <1>1
  <2>1. held \in SUBSET Keys
    OBVIOUS
  <2> HIDE DEF held
  <2>2. IsFiniteSet(held) /\ Cardinality(held) <= Cardinality(Keys)
    BY <2>1, KeyFacts, FS_Subset
  <2>3. Cardinality(held) \in Nat /\ Cardinality(Keys) \in Nat
    BY <2>2, KeyFacts, FS_CardinalityType
  <2>4. setup.limit \in Nat /\ Cardinality(Keys) <= setup.limit
    BY StoreAssumption DEF StoreAssumption, TypeInv, Roomy
  <2> QED  BY <2>2, <2>3, <2>4
<1> QED  BY <1>2, <1>3

\* The entry of k is set, and what is evicted for it is clean.
SetsTo(k, v, b) ==
    /\ cache' \in [Keys -> Entries]
    /\ cache'[k] = [slot |-> v, dirty |-> b] \/ (~ Roomy(setup) /\ ~ b /\ cache'[k] = None)
    /\ \A x \in Keys : x # k =>
          \/ cache'[x] = cache[x]
          \/ ~ Roomy(setup) /\ cache'[x] = None /\ cache[x] # None /\ ~ cache[x].dirty

\* Putting an entry in sets that key; eviction may drop clean ones besides, in a
\* cache that is not large enough.
LEMMA SetCache ==
  ASSUME TypeInv, NEW k \in Keys, NEW v \in Slots, NEW b \in BOOLEAN,
         cache' \in Evictions([cache EXCEPT ![k] = [slot |-> v, dirty |-> b]])
  PROVE  SetsTo(k, v, b)
<1> DEFINE e == [slot |-> v, dirty |-> b]
           c == [cache EXCEPT ![k] = e]
<1>1. e \in Entries /\ e.dirty = b
  BY DEF Entries
<1>2. cache \in [Keys -> Entries]
  BY DEF TypeInv
<1> HIDE DEF e, Entries
<1>3. c \in [Keys -> Entries] /\ c[k] = e /\ \A x \in Keys : x # k => c[x] = cache[x]
  BY <1>1, <1>2
<1>4. cache' \in Evictions(c)
  BY DEF e
<1> HIDE DEF c
<1>5. /\ cache' \in [Keys -> Entries]
      /\ \A x \in Keys : cache'[x] = c[x] \/ (cache'[x] = None /\ c[x] # None /\ ~ c[x].dirty)
      /\ Roomy(setup) => cache' = c
  BY <1>3, <1>4, EvictionsAre
<1>6. cache'[k] = e \/ (~ Roomy(setup) /\ ~ b /\ cache'[k] = None)
  BY <1>1, <1>3, <1>5
<1>7. \A x \in Keys : x # k =>
          \/ cache'[x] = cache[x]
          \/ ~ Roomy(setup) /\ cache'[x] = None /\ cache[x] # None /\ ~ cache[x].dirty
  BY <1>3, <1>5
<1> QED  BY <1>5, <1>6, <1>7 DEF SetsTo, e

\* What keys look like after that, when no clean entry waits for its batch.
LEMMA SetView ==
  ASSUME TypeInv, CleanInv, NEW k \in Keys, NEW v \in Slots, NEW b \in BOOLEAN, SetsTo(k, v, b),
         disk' = disk, b \/ v = disk[k],
         ~ Roomy(setup) => \A x \in Keys : ~ Taken(task, x)
  PROVE  /\ View(k)' = v /\ Views'[k] = v
         /\ \A x \in Keys : x # k => View(x)' = View(x) /\ Views'[x] = Views[x]
<1>1. None \notin [slot : Slots, dirty : BOOLEAN] /\ [slot |-> v, dirty |-> b] # None
  <2>1. [slot |-> v, dirty |-> b] \in [slot : Slots, dirty : BOOLEAN]
    OBVIOUS
  <2> QED  BY <2>1, NoneFacts
<1>2. View(k)' = v
  <2>1. CASE cache'[k] = [slot |-> v, dirty |-> b]
    BY <1>1, <2>1 DEF View
  <2>2. CASE ~ b /\ cache'[k] = None
    BY <2>2 DEF View
  <2> QED  BY <2>1, <2>2 DEF SetsTo
<1>3. ASSUME NEW x \in Keys, x # k PROVE View(x)' = View(x)
  <2>1. CASE cache'[x] = cache[x]
    BY <2>1 DEF View
  <2>2. CASE ~ Roomy(setup) /\ cache'[x] = None /\ cache[x] # None /\ ~ cache[x].dirty
    <3>1. cache[x].slot = disk[x]
      BY <2>2 DEF CleanInv
    <3> QED  BY <2>2, <3>1 DEF View
  <2> QED  BY <1>3, <2>1, <2>2 DEF SetsTo
<1>4. \A x \in Keys : Views[x] = View(x) /\ Views'[x] = View(x)'
  BY DEF Views
<1> QED  BY <1>2, <1>3, <1>4

\* Nothing but the committing thread flushes when it is alone.
LEMMA NoneTaken ==
  ASSUME KindInv, Undisturbed, ~ Roomy(setup), task[Main].pc # "gather"
  PROVE  \A x \in Keys : ~ Taken(task, x)
<1>1. ASSUME NEW t \in Threads PROVE task[t].pc # "gather"
  <2>1. Kind(setup, Size, t, task[t]) /\ Alone(setup)
    BY DEF KindInv, Undisturbed
  <2>2. CASE t \in Workers
    <3>1. Runs(task[t]) => Running(Size, t, task[t])
      BY <2>1, <2>2 DEF Kind
    <3> QED  BY <2>1, <2>2, <3>1 DEF Kind, Resting, Running, Checking, Access
  <2>3. CASE t \in Readers \cup Handlers
    BY <2>1, <2>3 DEF Kind
  <2> QED  BY <2>2, <2>3, ThreadFacts
<1> QED  BY <1>1 DEF Taken

\* A key is set, while those that flush leave it aside.
LEMMA StoreSets ==
  ASSUME TypeInv, StoreInv, setup' = setup, NEW t \in Threads, Moves(t), disk' = disk,
         NEW k \in Keys, NEW v \in Slots, SetsTo(k, v, TRUE),
         k \in Others => v = Plain,
         ~ Roomy(setup) => \A x \in Keys : ~ Taken(task, x),
         task[t].pc # "gather", task'[t].pc # "gather", task'[t].pc # "fill",
         t = Main => task[t].pc # "done" /\ task'[t].pc \notin {"release", "evict", "done"},
         \A u \in Threads : task[u].pc = "gather" => k \in Beside(u),
         \A u \in Threads : u # t /\ task[u].pc = "fill" => task[u].key # k /\ task[u].key \in Keys,
         task[Main].pc \in {"release", "evict", "done"} => k # Header
  PROVE  StoreInv'
<1>1. \A x : Taken(task', x) <=> Taken(task, x)
  BY DEF Taken, Moves
<1>2. /\ cache' \in [Keys -> Entries]
      /\ cache'[k] = [slot |-> v, dirty |-> TRUE]
      /\ \A x \in Keys : x # k =>
          \/ cache'[x] = cache[x]
          \/ ~ Roomy(setup) /\ cache'[x] = None /\ cache[x] # None /\ ~ cache[x].dirty
  BY DEF SetsTo
<1>3. cache'[k] # None /\ cache'[k].slot = v /\ cache'[k].dirty
  <2> DEFINE e == [slot |-> v, dirty |-> TRUE]
  <2>1. e \in [slot : Slots, dirty : BOOLEAN] /\ e.slot = v /\ e.dirty = TRUE
    OBVIOUS
  <2>2. cache'[k] = e
    BY <1>2
  <2> HIDE DEF e
  <2> QED  BY <2>1, <2>2, NoneFacts
<1>4. OthersInv'
  <2> SUFFICES ASSUME NEW x \in Others
               PROVE  disk[x] \in {None, Plain} /\ (cache'[x] # None => cache'[x].slot = Plain)
    BY DEF OthersInv
  <2>1. disk[x] \in {None, Plain} /\ (cache[x] # None => cache[x].slot = Plain)
    BY DEF StoreInv, OthersInv
  <2>2. x \in Keys
    BY KeyFacts
  <2> QED  BY <1>2, <1>3, <2>1, <2>2
<1>5. BatchInv'
  <2> SUFFICES ASSUME NEW u \in Threads, task'[u].pc = "gather"
               PROVE  /\ \A x \in DOMAIN task'[u].batch : /\ cache'[x] # None
                                                          /\ cache'[x].slot = task'[u].batch[x]
                      /\ \A x \in Keys \ Beside(u) : Dirty(x)' => x \in task'[u].todo
    BY DEF BatchInv
  <2>1. task'[u] = task[u]
    BY DEF Moves
  <2>2. /\ \A x \in DOMAIN task[u].batch : cache[x] # None /\ cache[x].slot = task[u].batch[x]
        /\ \A x \in Keys \ Beside(u) : Dirty(x) => x \in task[u].todo
        /\ k \in Beside(u)
    BY <2>1 DEF StoreInv, BatchInv
  <2>3. ASSUME NEW x \in DOMAIN task[u].batch
        PROVE  cache'[x] # None /\ cache'[x].slot = task[u].batch[x]
    <3>1. x \in Keys
      BY TaskTypes DEF Values
    <3>2. Taken(task, x)
      BY <2>1 DEF Taken
    <3>3. CASE x = k
      <4>1. k \in Others
        BY <2>2, KeyFacts DEF Beside
      <4>2. cache[x].slot = Plain /\ v = Plain
        BY <2>2, <3>3, <4>1 DEF StoreInv, OthersInv
      <4> QED  BY <1>3, <2>2, <3>3, <4>2
    <3>4. CASE x # k
      BY <1>2, <2>2, <3>1, <3>2, <3>4
    <3> QED  BY <3>3, <3>4
  <2>4. ASSUME NEW x \in Keys \ Beside(u), Dirty(x)' PROVE x \in task[u].todo
    <3>1. x # k /\ cache'[x] # None /\ cache'[x].dirty
      BY <2>2, <2>4 DEF Dirty
    <3>2. cache'[x] = cache[x]
      BY <1>2, <3>1
    <3> QED  BY <2>2, <3>1, <3>2 DEF Dirty
  <2> QED  BY <2>1, <2>3, <2>4
<1>6. CleanInv'
  <2> SUFFICES ASSUME NEW x \in Keys, cache'[x] # None, ~ cache'[x].dirty
               PROVE  cache'[x].slot = disk[x] \/ Taken(task, x)
    BY <1>1 DEF CleanInv
  <2>1. x # k /\ cache'[x] = cache[x]
    BY <1>2, <1>3
  <2> QED  BY <2>1 DEF StoreInv, CleanInv
<1>7. task[Main].pc = "done" => task'[Main].pc = "done"
  BY ThreadFacts DEF Moves
<1>8. FillInv'
  <2> SUFFICES ASSUME NEW u \in Threads, task'[u].pc = "fill"
               PROVE  /\ cache'[task'[u].key] \in
                            {None, [slot |-> disk'[task'[u].key], dirty |-> FALSE]}
                      /\ ~ Taken(task', task'[u].key) /\ task'[u].val = disk'[task'[u].key]
                      /\ disk'[task'[u].key] # None
                      /\ ~ Runs(task'[u]) => task'[u].key = Header /\ task'[Main].pc = "done"
    BY DEF FillInv
  <2>1. u # t /\ task'[u] = task[u]
    BY DEF Moves
  <2>2. /\ cache[task[u].key] \in {None, [slot |-> disk[task[u].key], dirty |-> FALSE]}
        /\ ~ Taken(task, task[u].key) /\ task[u].val = disk[task[u].key]
        /\ disk[task[u].key] # None
        /\ ~ Runs(task[u]) => task[u].key = Header /\ task[Main].pc = "done"
    BY <2>1 DEF StoreInv, FillInv
  <2>3. task[u].key # k /\ task[u].key \in Keys
    BY <2>1
  <2> QED  BY <1>1, <1>2, <1>7, <2>1, <2>2, <2>3
<1>9. RoomInv'
  <2>1. Roomy(setup) => \A x \in Keys : cache[x] # None => cache'[x] # None
    BY <1>2, <1>3
  <2>2. Header \in Keys
    BY KeyFacts
  <2> QED  BY <1>7, <2>1, <2>2 DEF StoreInv, RoomInv
<1>10. EndInv'
  <2> SUFFICES ASSUME \/ task'[Main].pc = "release" /\ task'[Main].ok
                      \/ task'[Main].pc \in {"evict", "done"}
               PROVE  ~ Dirty(Header)' /\ ~ Taken(task', Header)
    BY DEF EndInv
  <2>1. task'[Main] = task[Main]
    BY ThreadFacts DEF Moves
  <2>2. ~ Dirty(Header) /\ ~ Taken(task, Header) /\ k # Header
    BY <2>1 DEF StoreInv, EndInv
  <2>3. cache'[Header] = cache[Header] \/ cache'[Header] = None
    BY <1>2, <2>2, KeyFacts
  <2> QED  BY <1>1, <2>2, <2>3 DEF Dirty
<1> QED  BY <1>4, <1>5, <1>6, <1>8, <1>9, <1>10 DEF StoreInv

\* The same for the record and the height.
LEMMA TipSets ==
  ASSUME TypeInv, TipInv, CleanInv, NEW t \in Threads, Moves(t), disk' = disk,
         NEW k \in Keys, NEW v \in Slots, SetsTo(k, v, TRUE),
         k \in Others => v = Plain,
         ~ Roomy(setup) => \A x \in Keys : ~ Taken(task, x),
         task'[t].pc # "gather",
         k = Height => View(Record) # None,
         t = Main /\ task'[t].pc = "height" => k = Record
  PROVE  TipInv'
<1>1. View(k)' = v /\ \A x \in Keys : x # k => View(x)' = View(x)
  BY SetView
<1>2. Record \in Keys /\ Height \in Keys /\ Record \in Others /\ Record # Height /\ Plain # None
  BY KeyFacts, NoneFacts
<1>3. View(Record) # None => View(Record)' # None
  BY <1>1, <1>2
<1>4. k = Record => View(Record)' # None
  BY <1>1, <1>2
<1>5. cache'[Height] # None => View(Record)' # None
  <2>1. CASE k = Height
    BY <1>3, <2>1
  <2>2. CASE k # Height
    <3>1. cache'[Height] # None => cache[Height] # None
      BY <1>2, <2>2 DEF SetsTo
    <3> QED  BY <1>3, <3>1 DEF TipInv
  <2> QED  BY <2>1, <2>2
<1>6. task'[Main].pc = "height" => View(Record)' # None
  <2>1. CASE t = Main
    BY <1>4, <2>1
  <2>2. CASE t # Main
    BY <1>3, <2>2, ThreadFacts DEF Moves, TipInv
  <2> QED  BY <2>1, <2>2
<1>7. Dirty(Record) => Dirty(Record)'
  <2>1. [slot |-> v, dirty |-> TRUE] \in [slot : Slots, dirty : BOOLEAN]
    OBVIOUS
  <2>2. [slot |-> v, dirty |-> TRUE] # None /\ [slot |-> v, dirty |-> TRUE].dirty = TRUE
    BY <2>1, NoneFacts
  <2> QED  BY <1>2, <2>2 DEF Dirty, SetsTo
<1>8. \A u \in Threads : (/\ task'[u].pc = "gather"
                          /\ Height \in task'[u].todo \cup DOMAIN task'[u].batch) =>
          \/ disk'[Record] # None \/ Record \in DOMAIN task'[u].batch
          \/ Dirty(Record)' /\ Record \in task'[u].todo
  <2>1. \A u \in Threads : task'[u].pc = "gather" => task'[u] = task[u]
    BY DEF Moves
  <2>2. \A u \in Threads : (/\ task[u].pc = "gather"
                            /\ Height \in task[u].todo \cup DOMAIN task[u].batch) =>
          \/ disk[Record] # None \/ Record \in DOMAIN task[u].batch
          \/ Dirty(Record) /\ Record \in task[u].todo
    BY DEF TipInv
  <2> QED  BY <1>7, <2>1, <2>2
<1>9. disk'[Height] # None => disk'[Record] # None
  BY DEF TipInv
<1> QED  BY <1>5, <1>6, <1>8, <1>9 DEF TipInv

-----------------------------------------------------------------------------
(* The threads that run transactions. *)

\* Where a thread that runs a transaction can be.
LEMMA RunningPcs ==
  ASSUME NEW n, NEW t, NEW r, Running(n, t, r)
  PROVE  r.pc \in {"lookup", "fill", "nonce", "write", "open", "run", "close"}
  BY DEF Running, Checking, Access

\* Only the committing thread and the workers run transactions.
LEMMA RunsIs ==
  ASSUME KindInv, NEW t \in Threads, Runs(task[t])
  PROVE  Running(Size, t, task[t]) /\ (t = Main \/ t \in Workers)
<1>1. Kind(setup, Size, t, task[t])
  BY DEF KindInv
<1>2. t \notin Readers /\ t \notin Handlers
  BY <1>1 DEF Kind, Asking, Requesting
<1> QED  BY <1>1, <1>2, ThreadFacts DEF Kind

\* The transaction of a thread that runs one.
LEMMA TxFacts ==
  ASSUME TypeInv, KindInv, Undisturbed, NEW t \in Threads, Runs(task[t])
  PROVE  LET x == transactions[task[t].tx]
         IN  /\ transactions \in Blocks /\ Len(transactions) \in Nat
             /\ task[t].tx \in 1 .. Len(transactions) /\ task[t].tx - 1 \in 0 .. Len(transactions)
             /\ x.sender \in x.writes /\ x.fails \in BOOLEAN
             /\ x.writes \subseteq Accounts /\ x.writes \subseteq Footprint(x)
             /\ task[t].ok \in BOOLEAN
             /\ Scope(transactions, task[t]) \subseteq x.writes
<1> DEFINE x == transactions[task[t].tx]
<1>1. task[t].tx \in 1 .. Len(transactions)
  BY RunsIs DEF Running, Size
<1>2. transactions \in Blocks /\ task[t].ok \in BOOLEAN
  BY TaskTypes DEF TypeInv, Undisturbed
<1>3. /\ Len(transactions) \in Nat /\ x.sender \in x.writes /\ x.fails \in BOOLEAN
      /\ x.writes \subseteq Accounts
  BY <1>1, <1>2, BlockTypes
<1>4. x.writes \subseteq Footprint(x)
  BY DEF Footprint
<1>5. task[t].tx - 1 \in 0 .. Len(transactions)
  BY <1>1, <1>3
<1>6. Scope(transactions, task[t]) \subseteq x.writes
  BY <1>3 DEF Scope
<1> QED  BY <1>1, <1>2, <1>3, <1>4, <1>5, <1>6

\* Two transactions that run share no account.
LEMMA RunApart ==
  ASSUME TypeInv, KindInv, OrderInv, Undisturbed, NEW t \in Threads, NEW u \in Threads, t # u,
         Runs(task[t]), Runs(task[u])
  PROVE  Footprint(transactions[task[t].tx]) \cap Footprint(transactions[task[u].tx]) = {}
<1>1. /\ Running(Size, t, task[t]) /\ (t = Main \/ t \in Workers)
      /\ Running(Size, u, task[u]) /\ (u = Main \/ u \in Workers)
  BY RunsIs
<1>2. t \in Workers /\ u \in Workers
  <2>1. \A w \in Workers : Runs(task[w]) => task[Main].pc = "parallel"
    BY DEF OrderInv, TakenUpInv
  <2>2. Running(Size, Main, task[Main]) => task[Main].pc # "parallel"
    BY RunningPcs
  <2> QED  BY <1>1, <2>1, <2>2
<1>3. task[t].tx \in independent_txs /\ task[u].tx \in independent_txs /\ task[t].tx # task[u].tx
  BY <1>2 DEF OrderInv, TakenUpInv
<1>4. task[t].tx \in 1 .. Size /\ task[u].tx \in 1 .. Size /\ Size \in Nat
  BY <1>1, BlockTypes DEF Running, Size, TypeInv
<1>5. \A j \in independent_txs : \A i \in 1 .. (j - 1) :
          Touched(transactions[i]) \cap Touched(transactions[j]) = {}
  BY DEF OrderInv, GroupInv, ClassifyInv, IndependentOfEarlier
<1>6. task[t].tx \in 1 .. (task[u].tx - 1) \/ task[u].tx \in 1 .. (task[t].tx - 1)
  BY <1>3, <1>4
<1>7. Touched(transactions[task[t].tx]) \cap Touched(transactions[task[u].tx]) = {}
  BY <1>3, <1>5, <1>6
<1> QED  BY <1>4, <1>7 DEF Undisturbed, SharesToken, Size

\* What a transaction has made of an account is seen by what it has changed.
LEMMA NowSame ==
  ASSUME NEW txs, NEW r, NEW q, q.tx = r.tx, q.ok = r.ok, Changed(txs, q) = Changed(txs, r)
  PROVE  \A x : Now(txs, q, x) = Now(txs, r, x)
  BY DEF Now, Before

\* A transaction goes on without a write.
LEMMA RunFrame ==
  ASSUME Live, setup' = setup, BlockSame, StoreSame, NEW t \in Threads, Moves(t),
         Runs(task[t]), Running(Size, t, task'[t]), task'[t].tx = task[t].tx,
         task'[t].pc = "fill" => Fillable(task'[t]),
         TaskInv(transactions, task'[t]),
         \A x : Now(transactions, task'[t], x) = Now(transactions, task[t], x),
         \A u \in Threads : u # t => journal'[u] = journal[u],
         journal'[t] = Journal(transactions, task'[t]),
         journal' \in [Threads -> Values \cup {None}], flush_active' \in BOOLEAN
  PROVE  TypeInv' /\ KindInv' /\ OrderInv' /\ StoreInv' /\ TipInv' /\ SerialInv'
<1>1. TypeInv /\ KindInv /\ OrderInv /\ GateInv /\ StoreInv /\ TipInv /\ SerialInv
  BY DEF Live
<1>2. Running(Size, t, task[t]) /\ (t = Main \/ t \in Workers) /\ Runs(task'[t])
  BY <1>1, RunsIs DEF Runs
<1>3. /\ task[t].pc \in {"lookup", "fill", "nonce", "write", "open", "run", "close"}
      /\ task'[t].pc \in {"lookup", "fill", "nonce", "write", "open", "run", "close"}
  BY <1>2, RunningPcs
<1>4. transactions' = transactions /\ started' = started
  BY DEF BlockSame
<1>5. TypeInv'
  <2>1. cache' \in [Keys -> Entries] /\ disk' \in [Keys -> Slots] /\ task' \in [Threads -> Tasks]
        /\ started' \subseteq 1 .. Size
    BY <1>1, <1>4 DEF TypeInv, StoreSame, Moves
  <2> QED  BY <1>1, <1>4, <2>1, TypeFrame
<1>6. KindInv'
  <2>1. Kind(setup, Size, t, task'[t])
    BY <1>2, KindIs
  <2> QED  BY <1>1, <1>4, <2>1, KindFrame
<1>7. OrderInv'
  <2>1. t = Main => /\ Early(task'[t].pc) <=> Early(task[t].pc)
                    /\ task'[t].pc = "parallel" <=> task[t].pc = "parallel"
                    /\ Late(task'[t].pc) => Late(task[t].pc)
    BY <1>3 DEF Early, Late
  <2> QED  BY <1>1, <2>1, OrderFrame
<1>8. StoreInv'
  <2>1. task[t].pc # "gather" /\ task'[t].pc # "gather"
        /\ (t = Main => task[t].pc # "done" /\ task'[t].pc \notin {"release", "evict", "done"})
    BY <1>3
  <2> QED  BY <1>1, <2>1, StoreFrame
<1>9. TipInv'
  <2>1. task'[t].pc # "gather" /\ (t = Main => task'[t].pc # "height")
    BY <1>3
  <2> QED  BY <1>1, <2>1, TipFrame
<1>10. SerialInv'
  <2>1. \A x \in Accounts : Views'[x] = Views[x]
    BY DEF Views, View, StoreSame
  <2>2. (t = Main /\ task'[t].pc \in {"archive", "claim"}) => task'[t].ok
    BY <1>3
  <2> QED  BY <1>1, <2>1, <2>2, SerialFrame
<1> QED  BY <1>5, <1>6, <1>7, <1>8, <1>9, <1>10

\* A thread that runs no transaction goes on without setting a key.
LEMMA RestMoves ==
  ASSUME Live, setup' = setup, BlockSame, StoreSame, journal' = journal, flush_active' \in BOOLEAN,
         NEW t \in Threads, Moves(t), ~ Runs(task[t]), ~ Runs(task'[t]),
         Kind(setup, Size, t, task'[t]),
         task[t].pc # "gather", task'[t].pc # "gather",
         task'[t].pc = "fill" => Fillable(task'[t]),
         t = Main => /\ task[t].pc # "done" /\ (Past(task'[t]) => Past(task[t]))
                     /\ task'[t].pc # "height"
                     /\ task'[t].pc \in {"archive", "claim"} => task'[t].ok
  PROVE  TypeInv' /\ KindInv' /\ StoreInv' /\ TipInv' /\ SerialInv'
<1>1. TypeInv /\ KindInv /\ OrderInv /\ GateInv /\ StoreInv /\ TipInv /\ SerialInv
  BY DEF Live
<1>2. transactions' = transactions /\ started' = started
  BY DEF BlockSame
<1>3. TypeInv'
  <2>1. cache' \in [Keys -> Entries] /\ disk' \in [Keys -> Slots] /\ task' \in [Threads -> Tasks]
        /\ started' \subseteq 1 .. Size /\ journal' \in [Threads -> Values \cup {None}]
    BY <1>1, <1>2 DEF TypeInv, StoreSame, Moves
  <2> QED  BY <1>1, <1>2, <2>1, TypeFrame
<1>4. KindInv'
  BY <1>1, <1>2, KindFrame
<1>5. StoreInv'
  BY <1>1, StoreMoves
<1>6. TipInv'
  BY <1>1, TipFrame
<1>7. SerialInv'
  <2>1. \A x \in Accounts : Views'[x] = Views[x]
    BY DEF Views, View, StoreSame
  <2>2. journal'[t] = Journal(transactions, task'[t])
    <3>1. journal[t] = Journal(transactions, task[t])
      BY <1>1 DEF SerialInv
    <3> QED  BY <3>1 DEF Journal
  <2>3. task'[t].tx = task[t].tx
    BY DEF Runs
  <2> QED  BY <1>1, <2>1, <2>2, <2>3, SerialFrame
<1> QED  BY <1>3, <1>4, <1>5, <1>6, <1>7

\* And the committing thread stays in the same part of the block.
LEMMA RestFrame ==
  ASSUME Live, setup' = setup, BlockSame, StoreSame, journal' = journal, flush_active' \in BOOLEAN,
         NEW t \in Threads, Moves(t), ~ Runs(task[t]), ~ Runs(task'[t]),
         Kind(setup, Size, t, task'[t]),
         task[t].pc # "gather", task'[t].pc # "gather",
         task'[t].pc = "fill" => Fillable(task'[t]),
         t = Main => /\ task[t].pc # "done" /\ (Past(task'[t]) => Past(task[t]))
                     /\ task'[t].pc # "height"
                     /\ task'[t].pc \in {"archive", "claim"} => task'[t].ok
                     /\ Early(task'[t].pc) <=> Early(task[t].pc)
                     /\ task'[t].pc = "parallel" <=> task[t].pc = "parallel"
                     /\ Late(task'[t].pc) => Late(task[t].pc)
  PROVE  TypeInv' /\ KindInv' /\ OrderInv' /\ StoreInv' /\ TipInv' /\ SerialInv'
<1>1. OrderInv
  BY DEF Live
<1>2. OrderInv'
  BY <1>1, OrderFrame
<1>3. TypeInv' /\ KindInv' /\ StoreInv' /\ TipInv' /\ SerialInv'
  BY RestMoves
<1> QED  BY <1>2, <1>3

\* The account a transaction looks up holds what serial execution left there.
LEMMA LooksUp ==
  ASSUME Live, Undisturbed, NEW t \in Threads, Runs(task[t]),
         Checking(task[t]) \/ Access(task[t])
  PROVE  /\ task[t].key \in Accounts
         /\ task[t].key \in Footprint(transactions[task[t].tx])
         /\ View(task[t].key) = Before(transactions, task[t])[task[t].key]
         /\ task[t].key \notin Changed(transactions, task[t])
<1> DEFINE x == transactions[task[t].tx]
           k == task[t].key
<1>1. TypeInv /\ KindInv /\ SerialInv
  BY DEF Live
<1>2. /\ TaskInv(transactions, task[t])
      /\ Level(transactions, Ended, Views, task[t])
  BY <1>1 DEF SerialInv
<1>3. /\ x.sender \in x.writes /\ x.writes \subseteq Accounts /\ x.writes \subseteq Footprint(x)
      /\ Scope(transactions, task[t]) \subseteq x.writes
  BY <1>1, TxFacts
<1>4. CASE Checking(task[t])
  <2>1. k = x.sender
    BY <1>2, <1>4 DEF TaskInv
  <2>2. ~ Holding(task[t])
    BY <1>4 DEF Checking, Holding, Access
  <2>3. Changed(transactions, task[t]) = {}
    BY <2>2 DEF Changed
  <2>4. k \in Accounts /\ k \in Footprint(x)
    BY <1>3, <2>1
  <2>5. Views[k] = View(k)
    BY <2>4, KeyFacts DEF Views
  <2> QED  BY <1>2, <2>3, <2>4, <2>5 DEF Level, Now
<1>5. CASE Access(task[t])
  <2>1. k \in task[t].todo /\ ~ Checking(task[t])
    BY <1>2, <1>5 DEF TaskInv, Checking, Access
  <2>2. task[t].todo \subseteq Scope(transactions, task[t])
    BY <1>2, <2>1 DEF TaskInv
  <2>3. k \notin Changed(transactions, task[t])
    BY <2>1 DEF Changed
  <2>4. k \in Accounts /\ k \in Footprint(x)
    BY <1>3, <2>1, <2>2
  <2>5. Views[k] = View(k)
    BY <2>4, KeyFacts DEF Views
  <2> QED  BY <1>2, <2>3, <2>4, <2>5 DEF Level, Now
<1> QED  BY <1>4, <1>5

\* A key that is not in the cache is in no batch.
LEMMA NotCachedNotTaken ==
  ASSUME TypeInv, StoreInv, NEW k, cache[k] = None
  PROVE  ~ Taken(task, k)
  BY DEF StoreInv, BatchInv, Taken

\* get_account keeps the invariant.
LEMMA LookupKeeps ==
  ASSUME Live, Undisturbed, setup' = setup, NEW t \in Threads, Lookup(t)
  PROVE  Live'
<1> DEFINE k == task[t].key
           p == IF cache[k] = None /\ disk[k] # None THEN "fill" ELSE task[t].ret
<1>1. TypeInv /\ KindInv /\ OrderInv /\ GateInv /\ StoreInv /\ TipInv /\ SerialInv
  BY DEF Live
<1>2. /\ Moves(t) /\ BlockSame /\ StoreSame /\ GateSame /\ journal' = journal
      /\ task[t].pc = "lookup"
      /\ Doing(task'[t], p, task[t].ret, k, View(k), task[t].tx,
               task[t].todo, task[t].batch, task[t].ok)
  BY <1>1, LookupEffect
<1>3. flush_active' \in BOOLEAN /\ journal' \in [Threads -> Values \cup {None}]
  BY <1>1, <1>2 DEF TypeInv, GateSame
<1>4. k \in Keys /\ Kind(setup, Size, t, task[t])
  BY <1>1, <1>2, KeyOfTask DEF KindInv
<1>5. task'[t].pc = "fill" =>
        /\ cache[task'[t].key] \in {None, [slot |-> disk[task'[t].key], dirty |-> FALSE]}
        /\ ~ Taken(task, task'[t].key) /\ task'[t].val = disk[task'[t].key]
        /\ disk[task'[t].key] # None
        \/ task[t].ret = "fill"
  <2>1. CASE cache[k] = None /\ disk[k] # None
    <3>1. ~ Taken(task, k)
      BY <1>1, <2>1, NotCachedNotTaken
    <3>2. View(k) = disk[k]
      BY <2>1 DEF View
    <3> QED  BY <1>2, <2>1, <3>1, <3>2 DEF Doing
  <2>2. CASE ~(cache[k] = None /\ disk[k] # None)
    BY <1>2, <2>2 DEF Doing
  <2> QED  BY <2>1, <2>2
<1>6. /\ Holding(task'[t]) <=> Holding(task[t])
      /\ ~ Flushing(task'[t]) /\ ~ Flushing(task[t])
      /\ Checking(task'[t]) <=> Checking(task[t])
      /\ Access(task'[t]) <=> Access(task[t])
      /\ task'[t].pc \in {"fill", "nonce", "write", "done"}
      /\ Runs(task[t]) <=> Runs(task'[t])
      /\ task[t].ret \in {"nonce", "write", "done"}
      /\ Runs(task[t]) => task[t].ret \in {"nonce", "write"}
      /\ ~ Runs(task[t]) => t \in Readers /\ task[t].ret = "done"
  <2>1. CASE Runs(task[t])
    <3>1. Running(Size, t, task[t])
      BY <1>1, <2>1, RunsIs
    <3>2. task[t].ret \in {"nonce", "write"}
      BY <1>2, <3>1 DEF Running, Checking, Access
    <3> QED  BY <1>2, <2>1, <3>2 DEF Doing, Holding, Flushing, Checking, Access, Runs
  <2>2. CASE ~ Runs(task[t])
    <3>1. t \in Readers
      BY <1>2, <1>4, <2>2, ThreadFacts DEF Kind, Resting, Early, Late, Requesting
    <3>2. task[t].ret = "done"
      BY <1>2, <1>4, <3>1 DEF Kind, Asking
    <3> QED  BY <1>2, <2>2, <3>1, <3>2 DEF Doing, Holding, Flushing, Checking, Access, Runs
  <2> QED  BY <2>1, <2>2
<1>7. GateInv'
  <2>1. Holding(task'[t]) => Runs(task'[t])
    BY <1>1, <1>6 DEF GateInv
  <2>2. DOMAIN task'[t].batch = {}
    BY <1>1, <1>2, <1>6 DEF GateInv, Doing
  <2> QED  BY <1>1, <1>2, <1>6, <2>1, <2>2, GateFrame
<1>8. CASE Runs(task[t])
  <2>1. Running(Size, t, task[t]) /\ (t = Main \/ t \in Workers)
    BY <1>1, <1>8, RunsIs
  <2>2. Running(Size, t, task'[t])
    BY <1>2, <1>6, <1>8, <2>1 DEF Running, Doing, Checking, Access
  <2>3. task'[t].pc = "fill" => Fillable(task'[t])
    BY <1>5, <1>6, <1>8 DEF Fillable
  <2>4. TaskInv(transactions, task'[t])
    <3>1. TaskInv(transactions, task[t])
      BY <1>1, <1>8 DEF SerialInv
    <3>2. Checking(task[t]) \/ Access(task[t])
      BY <1>2, <1>6, <1>8 DEF Checking, Access
    <3>3. View(k) = Before(transactions, task[t])[k]
      BY <1>8, <3>2, LooksUp
    <3>4. Before(transactions, task'[t]) = Before(transactions, task[t])
      BY <1>2 DEF Before, Doing
    <3>5. Scope(transactions, task'[t]) = Scope(transactions, task[t])
      BY <1>2 DEF Scope, Doing
    <3>6. task'[t].pc \in {"fill", "nonce", "write"} =>
        task'[t].val = Before(transactions, task'[t])[task'[t].key]
      BY <1>2, <3>3, <3>4 DEF Doing
    <3> QED  BY <1>2, <1>6, <1>8, <3>1, <3>4, <3>5, <3>6 DEF TaskInv, Doing
  <2>5. Changed(transactions, task'[t]) = Changed(transactions, task[t])
    BY <1>2, <1>6 DEF Changed, Scope, Doing
  <2>6. \A x : Now(transactions, task'[t], x) = Now(transactions, task[t], x)
    <3>1. task'[t].tx = task[t].tx /\ task'[t].ok = task[t].ok
      BY <1>2 DEF Doing
    <3> QED  BY <2>5, <3>1, NowSame
  <2>7. journal'[t] = Journal(transactions, task'[t])
    <3>1. journal[t] = Journal(transactions, task[t])
      BY <1>1 DEF SerialInv
    <3>2. Before(transactions, task'[t]) = Before(transactions, task[t])
      BY <1>2 DEF Before, Doing
    <3>3. task[t].pc # "close" /\ task'[t].pc # "close"
      BY <1>2, <1>6
    <3> QED  BY <1>2, <1>6, <2>5, <3>1, <3>2, <3>3 DEF Journal
  <2>8. task'[t].tx = task[t].tx
    BY <1>2 DEF Doing
  <2>9. TypeInv' /\ KindInv' /\ OrderInv' /\ StoreInv' /\ TipInv' /\ SerialInv'
    BY <1>2, <1>3, <1>8, <2>2, <2>3, <2>4, <2>6, <2>7, <2>8, RunFrame
  <2> QED  BY <1>7, <2>9 DEF Live
<1>9. CASE ~ Runs(task[t])
  <2>1. t \in Readers /\ task[t].ret = "done" /\ t # Main
    BY <1>6, <1>9, ThreadFacts
  <2>2. k \in setup.queried /\ ~ Alone(setup)
    BY <1>2, <1>4, <2>1 DEF Kind, Asking
  <2>3. Kind(setup, Size, t, task'[t])
    <3>1. Asking(setup, task'[t])
      BY <1>2, <1>4, <1>6, <1>9, <2>1 DEF Kind, Asking, Doing, Runs
    <3> QED  BY <2>1, <2>2, <3>1, ThreadFacts DEF Kind
  <2>4. task'[t].pc = "fill" => Fillable(task'[t])
    <3> SUFFICES ASSUME task'[t].pc = "fill" PROVE Fillable(task'[t])
      OBVIOUS
    <3>1. cache[k] = None /\ disk[k] # None
      BY <1>2, <2>1 DEF Doing
    <3>2. Roomy(setup)
      BY <2>2 DEF Undisturbed
    <3>3. k = Header
      <4> SUFFICES ASSUME k # Header PROVE FALSE
        OBVIOUS
      <4>1. k \notin setup.warm /\ disk[k] = Initial(k)
        BY <1>1, <1>4, <3>1, <3>2 DEF StoreInv, RoomInv
      <4>2. k \in Accounts /\ k \notin Fresh
        BY <3>1, <4>1 DEF Initial
      <4> QED  BY <2>2, <3>2, <4>1, <4>2 DEF Roomy
    <3>4. task[Main].pc = "done"
      BY <1>1, <3>1, <3>2, <3>3 DEF StoreInv, RoomInv
    <3>5. task'[t].key = k
      BY <1>2 DEF Doing
    <3> QED  BY <1>5, <2>1, <3>3, <3>4, <3>5 DEF Fillable
  <2>5. ~ Runs(task'[t]) /\ task[t].pc # "gather" /\ task'[t].pc # "gather"
    BY <1>2, <1>6, <1>9
  <2>6. TypeInv' /\ KindInv' /\ OrderInv' /\ StoreInv' /\ TipInv' /\ SerialInv'
    BY <1>2, <1>3, <1>9, <2>1, <2>3, <2>4, <2>5, RestFrame
  <2> QED  BY <1>7, <2>6 DEF Live
<1> QED  BY <1>8, <1>9

\* What was found on the disk is put into the cache.
LEMMA StoreFills ==
  ASSUME TypeInv, StoreInv, setup' = setup, NEW t \in Threads, Moves(t), disk' = disk,
         NEW k \in Keys, SetsTo(k, disk[k], FALSE), disk[k] # None, ~ Taken(task, k),
         ~ Roomy(setup) => \A x \in Keys : ~ Taken(task, x),
         task[t].pc # "gather", task'[t].pc # "gather", task'[t].pc # "fill",
         t = Main => task[t].pc # "done" /\ task'[t].pc \notin {"release", "evict", "done"},
         \A u \in Threads : u # t /\ task[u].pc = "fill" => task[u].key \in Keys
  PROVE  StoreInv'
<1>1. \A x : Taken(task', x) <=> Taken(task, x)
  BY DEF Taken, Moves
<1> DEFINE e == [slot |-> disk[k], dirty |-> FALSE]
<1>2. /\ cache' \in [Keys -> Entries]
      /\ cache'[k] = e \/ cache'[k] = None
      /\ Roomy(setup) => cache'[k] = e
      /\ \A x \in Keys : x # k =>
          \/ cache'[x] = cache[x]
          \/ ~ Roomy(setup) /\ cache'[x] = None /\ cache[x] # None /\ ~ cache[x].dirty
  BY DEF SetsTo
<1>3. e # None /\ e.slot = disk[k] /\ e.dirty = FALSE
  <2>1. e \in [slot : Slots, dirty : BOOLEAN] /\ e.slot = disk[k] /\ e.dirty = FALSE
    BY ViewTypes
  <2> HIDE DEF e
  <2> QED  BY <2>1, NoneFacts
<1> HIDE DEF e
<1>4. OthersInv'
  <2> SUFFICES ASSUME NEW x \in Others
               PROVE  disk[x] \in {None, Plain} /\ (cache'[x] # None => cache'[x].slot = Plain)
    BY DEF OthersInv
  <2>1. disk[x] \in {None, Plain} /\ (cache[x] # None => cache[x].slot = Plain)
    BY DEF StoreInv, OthersInv
  <2>2. x \in Keys
    BY KeyFacts
  <2> QED  BY <1>2, <1>3, <2>1, <2>2
<1>5. BatchInv'
  <2> SUFFICES ASSUME NEW u \in Threads, task'[u].pc = "gather"
               PROVE  /\ \A x \in DOMAIN task'[u].batch : /\ cache'[x] # None
                                                          /\ cache'[x].slot = task'[u].batch[x]
                      /\ \A x \in Keys \ Beside(u) : Dirty(x)' => x \in task'[u].todo
    BY DEF BatchInv
  <2>1. task'[u] = task[u]
    BY DEF Moves
  <2>2. /\ \A x \in DOMAIN task[u].batch : cache[x] # None /\ cache[x].slot = task[u].batch[x]
        /\ \A x \in Keys \ Beside(u) : Dirty(x) => x \in task[u].todo
    BY <2>1 DEF StoreInv, BatchInv
  <2>3. ASSUME NEW x \in DOMAIN task[u].batch
        PROVE  cache'[x] # None /\ cache'[x].slot = task[u].batch[x]
    <3>1. x \in Keys
      BY TaskTypes DEF Values
    <3>2. Taken(task, x)
      BY <2>1 DEF Taken
    <3>3. x # k /\ cache'[x] = cache[x]
      BY <1>2, <3>1, <3>2
    <3> QED  BY <2>2, <3>3
  <2>4. ASSUME NEW x \in Keys \ Beside(u), Dirty(x)' PROVE x \in task[u].todo
    <3>1. cache'[x] # None /\ cache'[x].dirty
      BY <2>4 DEF Dirty
    <3>2. x # k
      BY <1>2, <1>3, <3>1
    <3>3. cache'[x] = cache[x]
      BY <1>2, <3>1, <3>2
    <3> QED  BY <2>2, <3>1, <3>3 DEF Dirty
  <2> QED  BY <2>1, <2>3, <2>4
<1>6. CleanInv'
  <2> SUFFICES ASSUME NEW x \in Keys, cache'[x] # None, ~ cache'[x].dirty
               PROVE  cache'[x].slot = disk[x] \/ Taken(task, x)
    BY <1>1 DEF CleanInv
  <2>1. CASE x = k
    BY <1>2, <1>3, <2>1
  <2>2. CASE x # k
    <3>1. cache'[x] = cache[x]
      BY <1>2, <2>2
    <3> QED  BY <3>1 DEF StoreInv, CleanInv
  <2> QED  BY <2>1, <2>2
<1>7. task[Main].pc = "done" => task'[Main].pc = "done"
  BY ThreadFacts DEF Moves
<1>8. FillInv'
  <2> SUFFICES ASSUME NEW u \in Threads, task'[u].pc = "fill"
               PROVE  /\ cache'[task'[u].key] \in
                            {None, [slot |-> disk'[task'[u].key], dirty |-> FALSE]}
                      /\ ~ Taken(task', task'[u].key) /\ task'[u].val = disk'[task'[u].key]
                      /\ disk'[task'[u].key] # None
                      /\ ~ Runs(task'[u]) => task'[u].key = Header /\ task'[Main].pc = "done"
    BY DEF FillInv
  <2>1. u # t /\ task'[u] = task[u]
    BY DEF Moves
  <2> DEFINE y == task[u].key
  <2>2. /\ cache[y] \in {None, [slot |-> disk[y], dirty |-> FALSE]}
        /\ ~ Taken(task, y) /\ task[u].val = disk[y]
        /\ disk[y] # None
        /\ ~ Runs(task[u]) => y = Header /\ task[Main].pc = "done"
    BY <2>1 DEF StoreInv, FillInv
  <2>3. y \in Keys
    BY <2>1
  <2>4. cache'[y] \in {None, [slot |-> disk[y], dirty |-> FALSE]}
    <3>1. CASE y = k
      BY <1>2, <3>1 DEF e
    <3>2. CASE y # k
      BY <1>2, <2>2, <2>3, <3>2
    <3> QED  BY <3>1, <3>2
  <2> QED  BY <1>1, <1>7, <2>1, <2>2, <2>4
<1>9. RoomInv'
  <2>1. Roomy(setup) => \A x \in Keys : cache[x] # None => cache'[x] # None
    BY <1>2, <1>3
  <2>2. Header \in Keys
    BY KeyFacts
  <2> QED  BY <1>7, <2>1, <2>2 DEF StoreInv, RoomInv
<1>10. EndInv'
  <2> SUFFICES ASSUME \/ task'[Main].pc = "release" /\ task'[Main].ok
                      \/ task'[Main].pc \in {"evict", "done"}
               PROVE  ~ Dirty(Header)' /\ ~ Taken(task', Header)
    BY DEF EndInv
  <2>1. task'[Main] = task[Main]
    BY ThreadFacts DEF Moves
  <2>2. ~ Dirty(Header) /\ ~ Taken(task, Header)
    BY <2>1 DEF StoreInv, EndInv
  <2>3. cache'[Header] = cache[Header] \/ cache'[Header] = None \/ cache'[Header] = e
    BY <1>2, <2>2, KeyFacts
  <2> QED  BY <1>1, <1>3, <2>2, <2>3 DEF Dirty
<1> QED  BY <1>4, <1>5, <1>6, <1>8, <1>9, <1>10 DEF StoreInv

\* The same for the record and the height.
LEMMA TipFills ==
  ASSUME TypeInv, TipInv, CleanInv, NEW t \in Threads, Moves(t), disk' = disk,
         NEW k \in Keys, SetsTo(k, disk[k], FALSE), disk[k] # None,
         k \notin {Record, Height},
         ~ Roomy(setup) => \A x \in Keys : ~ Taken(task, x),
         task'[t].pc # "gather", t = Main => task'[t].pc # "height"
  PROVE  TipInv'
<1>1. Record \in Keys /\ Height \in Keys /\ disk[k] \in Slots
  BY KeyFacts, ViewTypes
<1>2. View(Record)' = View(Record)
  BY <1>1, SetView
<1>3. cache'[Height] # None => cache[Height] # None
  BY <1>1 DEF SetsTo
<1>4. Dirty(Record) => Dirty(Record)'
  BY <1>1 DEF Dirty, SetsTo
<1>5. task'[Main].pc = "height" => task[Main].pc = "height"
  BY ThreadFacts DEF Moves
<1>6. \A u \in Threads : (/\ task'[u].pc = "gather"
                          /\ Height \in task'[u].todo \cup DOMAIN task'[u].batch) =>
          \/ disk'[Record] # None \/ Record \in DOMAIN task'[u].batch
          \/ Dirty(Record)' /\ Record \in task'[u].todo
  <2>1. \A u \in Threads : task'[u].pc = "gather" => task'[u] = task[u]
    BY DEF Moves
  <2>2. \A u \in Threads : (/\ task[u].pc = "gather"
                            /\ Height \in task[u].todo \cup DOMAIN task[u].batch) =>
          \/ disk[Record] # None \/ Record \in DOMAIN task[u].batch
          \/ Dirty(Record) /\ Record \in task[u].todo
    BY DEF TipInv
  <2> QED  BY <1>4, <2>1, <2>2
<1> QED  BY <1>2, <1>3, <1>5, <1>6 DEF TipInv

\* A thread goes on, and no account looks different.
LEMMA ViewFrame ==
  ASSUME TypeInv, KindInv, OrderInv, SerialInv, setup' = setup, BlockSame,
         cache' \in [Keys -> Entries], disk' \in [Keys -> Slots], flush_active' \in BOOLEAN,
         journal' = journal, NEW t \in Threads, Moves(t), Kind(setup, Size, t, task'[t]),
         \A x \in Accounts : Views'[x] = Views[x],
         task'[t].tx = task[t].tx,
         t = Main => /\ Early(task'[t].pc) <=> Early(task[t].pc)
                     /\ task'[t].pc = "parallel" <=> task[t].pc = "parallel"
                     /\ Late(task'[t].pc) => Late(task[t].pc)
                     /\ task'[t].pc \in {"archive", "claim"} => task'[t].ok,
         Runs(task[t]) => /\ TaskInv(transactions, task'[t])
                          /\ task'[t].ok = task[t].ok /\ task'[t].todo = task[t].todo
                          /\ Holding(task'[t]) <=> Holding(task[t])
                          /\ task'[t].pc # "close" /\ task[t].pc # "close"
  PROVE  TypeInv' /\ KindInv' /\ OrderInv' /\ SerialInv'
<1>1. transactions' = transactions /\ started' = started
  BY DEF BlockSame
<1>2. TypeInv'
  <2>1. task' \in [Threads -> Tasks] /\ started' \subseteq 1 .. Size
        /\ journal' \in [Threads -> Values \cup {None}]
    BY <1>1 DEF TypeInv, Moves
  <2> QED  BY <1>1, <2>1, TypeFrame
<1>3. KindInv'
  BY <1>1, KindFrame
<1>4. OrderInv'
  BY OrderFrame
<1>5. SerialInv'
  <2>1. Runs(task'[t]) <=> Runs(task[t])
    BY DEF Runs
  <2>2. Before(transactions, task'[t]) = Before(transactions, task[t])
    BY DEF Before
  <2>3. Runs(task[t]) => Changed(transactions, task'[t]) = Changed(transactions, task[t])
    BY DEF Changed, Scope
  <2>4. journal'[t] = Journal(transactions, task'[t])
    <3>1. journal[t] = Journal(transactions, task[t])
      BY DEF SerialInv
    <3>2. CASE Runs(task[t])
      BY <2>1, <2>2, <2>3, <3>1, <3>2 DEF Journal
    <3>3. CASE ~ Runs(task[t])
      BY <2>1, <3>1, <3>3 DEF Journal
    <3> QED  BY <3>2, <3>3
  <2>5. Runs(task[t]) => \A x \in Accounts : Now(transactions, task'[t], x) =
                                             Now(transactions, task[t], x)
    BY <2>3, NowSame
  <2> QED  BY <2>4, <2>5, SerialFrame
<1> QED  BY <1>2, <1>3, <1>4, <1>5

\* A cache miss that is filled.
LEMMA FillKeeps ==
  ASSUME Live, Undisturbed, setup' = setup, NEW t \in Threads, Fill(t)
  PROVE  Live'
<1> DEFINE k == task[t].key
<1>1. TypeInv /\ KindInv /\ OrderInv /\ GateInv /\ StoreInv /\ TipInv /\ SerialInv
  BY DEF Live
<1>2. /\ Moves(t) /\ BlockSame /\ GateSame /\ disk' = disk /\ journal' = journal
      /\ task[t].pc = "fill" /\ k \in Keys
      /\ cache' \in Evictions([cache EXCEPT ![k] = [slot |-> task[t].val, dirty |-> FALSE]])
      /\ Doing(task'[t], task[t].ret, task[t].ret, k, task[t].val, task[t].tx,
               task[t].todo, task[t].batch, task[t].ok)
  BY <1>1, FillEffect
<1>3. /\ ~ Taken(task, k) /\ task[t].val = disk[k] /\ disk[k] # None
      /\ ~ Runs(task[t]) => k = Header /\ task[Main].pc = "done"
  BY <1>1, <1>2 DEF StoreInv, FillInv
<1>4. SetsTo(k, disk[k], FALSE)
  <2>1. disk[k] \in Slots
    BY <1>1, <1>2, ViewTypes
  <2> QED  BY <1>1, <1>2, <1>3, <2>1, SetCache
<1>5. Kind(setup, Size, t, task[t])
  BY <1>1 DEF KindInv
<1>6. /\ task'[t].pc \in {"nonce", "write", "done"} /\ task'[t].pc = task[t].ret
      /\ Runs(task[t]) => task[t].ret \in {"nonce", "write"} /\ k \in Accounts
      /\ ~ Runs(task[t]) => t \in Readers /\ task[t].ret = "done"
  <2>1. CASE Runs(task[t])
    <3>1. Running(Size, t, task[t])
      BY <1>1, <2>1, RunsIs
    <3> QED  BY <1>2, <2>1, <3>1 DEF Doing, Running, Checking, Access
  <2>2. CASE ~ Runs(task[t])
    <3>1. t \in Readers
      BY <1>2, <1>5, <2>2, ThreadFacts DEF Kind, Resting, Early, Late, Requesting
    <3> QED  BY <1>2, <1>5, <2>2, <3>1 DEF Kind, Asking, Doing
  <2> QED  BY <2>1, <2>2
<1>7. ~ Roomy(setup) => \A x \in Keys : ~ Taken(task, x)
  <2> SUFFICES ASSUME ~ Roomy(setup) PROVE task[Main].pc # "gather"
    BY <1>1, NoneTaken
  <2>1. CASE ~ Runs(task[t])
    BY <1>3, <2>1
  <2>2. CASE Runs(task[t])
    <3>1. t = Main \/ t \in Workers
      BY <1>1, <2>2, RunsIs
    <3> QED  BY <1>1, <1>2, <2>2, <3>1 DEF OrderInv, TakenUpInv
  <2> QED  BY <2>1, <2>2
<1>8. k \in Accounts \/ k = Header
  BY <1>3, <1>6
<1>9. disk[k] \in Slots
  BY <1>1, <1>2, ViewTypes
<1>10. \A x \in Accounts : Views'[x] = Views[x]
  <2>1. View(k) = disk[k]
    <3>1. cache[k] \in {None, [slot |-> disk[k], dirty |-> FALSE]}
      BY <1>1, <1>2 DEF StoreInv, FillInv
    <3> QED  BY <3>1, NoneFacts DEF View
  <2>2. /\ Views'[k] = disk[k]
        /\ \A x \in Keys : x # k => Views'[x] = Views[x]
    BY <1>1, <1>2, <1>4, <1>7, <1>9, SetView DEF StoreInv
  <2>3. Views[k] = View(k)
    BY <1>2 DEF Views
  <2> HIDE DEF Views
  <2> QED  BY <2>1, <2>2, <2>3, KeyFacts
<1>11. t = Main => Runs(task[t])
  BY <1>6, ThreadFacts
<1>12. StoreInv'
  <2>1. \A u \in Threads : u # t /\ task[u].pc = "fill" => task[u].key \in Keys
    BY <1>1, KeyOfTask
  <2>2. /\ task[t].pc # "gather" /\ task'[t].pc # "gather" /\ task'[t].pc # "fill"
        /\ t = Main => task[t].pc # "done" /\ task'[t].pc \notin {"release", "evict", "done"}
    BY <1>2, <1>6, <1>11
  <2> QED  BY <1>1, <1>2, <1>3, <1>4, <1>7, <2>1, <2>2, StoreFills
<1>13. TipInv'
  <2>1. k \notin {Record, Height}
    BY <1>8, KeyFacts
  <2>2. task'[t].pc # "gather" /\ (t = Main => task'[t].pc # "height")
    BY <1>6
  <2> QED  BY <1>1, <1>2, <1>3, <1>4, <1>7, <2>1, <2>2, TipFills DEF StoreInv
<1>14. GateInv'
  <2>1. /\ Holding(task'[t]) <=> Holding(task[t])
        /\ ~ Flushing(task'[t]) /\ ~ Flushing(task[t])
    BY <1>2, <1>6 DEF Holding, Flushing, Access, Doing
  <2>2. Holding(task'[t]) => Runs(task'[t])
    BY <1>1, <1>2, <2>1 DEF GateInv, Runs, Doing
  <2>3. DOMAIN task'[t].batch = {}
    BY <1>1, <1>2, <2>1 DEF GateInv, Doing
  <2> QED  BY <1>1, <1>2, <2>1, <2>2, <2>3, GateFrame
<1>15. Kind(setup, Size, t, task'[t])
  <2>1. CASE Runs(task[t])
    <3>1. Running(Size, t, task[t]) /\ (t = Main \/ t \in Workers)
      BY <1>1, <2>1, RunsIs
    <3>2. Running(Size, t, task'[t]) /\ Runs(task'[t])
      BY <1>2, <1>6, <2>1, <3>1 DEF Running, Doing, Checking, Access, Runs
    <3> QED  BY <3>1, <3>2, KindIs
  <2>2. CASE ~ Runs(task[t])
    <3>1. Asking(setup, task'[t])
      BY <1>2, <1>6, <2>2 DEF Asking, Doing, Runs
    <3>2. ~ Alone(setup)
      BY <1>2, <1>5, <1>6, <2>2 DEF Kind
    <3> QED  BY <1>6, <2>2, <3>1, <3>2, ThreadFacts DEF Kind
  <2> QED  BY <2>1, <2>2
<1>16. ASSUME Runs(task[t])
       PROVE  /\ TaskInv(transactions, task'[t])
              /\ task'[t].ok = task[t].ok /\ task'[t].todo = task[t].todo
              /\ Holding(task'[t]) <=> Holding(task[t])
              /\ task'[t].pc # "close" /\ task[t].pc # "close"
  <2>1. /\ Checking(task'[t]) <=> Checking(task[t])
        /\ Access(task'[t]) <=> Access(task[t])
        /\ Holding(task'[t]) <=> Holding(task[t])
        /\ task'[t].pc # "close" /\ task[t].pc # "close"
    BY <1>2, <1>6 DEF Checking, Access, Holding, Doing
  <2>2. TaskInv(transactions, task[t])
    BY <1>1, <1>16 DEF SerialInv
  <2>3. /\ Before(transactions, task'[t]) = Before(transactions, task[t])
        /\ Scope(transactions, task'[t]) = Scope(transactions, task[t])
    BY <1>2 DEF Before, Scope, Doing
  <2>4. TaskInv(transactions, task'[t])
    BY <1>2, <1>6, <2>1, <2>2, <2>3 DEF TaskInv, Doing
  <2> QED  BY <1>2, <2>1, <2>4 DEF Doing
<1>17. TypeInv' /\ KindInv' /\ OrderInv' /\ SerialInv'
  <2>1. t = Main => /\ Early(task'[t].pc) <=> Early(task[t].pc)
                    /\ task'[t].pc = "parallel" <=> task[t].pc = "parallel"
                    /\ Late(task'[t].pc) => Late(task[t].pc)
                    /\ task'[t].pc \in {"archive", "claim"} => task'[t].ok
    BY <1>2, <1>6, <1>11 DEF Early, Late
  <2>2. cache' \in [Keys -> Entries] /\ disk' \in [Keys -> Slots] /\ flush_active' \in BOOLEAN
    BY <1>1, <1>2, <1>4 DEF SetsTo, TypeInv, GateSame
  <2>3. task'[t].tx = task[t].tx
    BY <1>2 DEF Doing
  <2> HIDE DEF Views
  <2> QED  BY <1>1, <1>2, <1>10, <1>15, <1>16, <2>1, <2>2, <2>3, ViewFrame
<1> QED  BY <1>12, <1>13, <1>14, <1>17 DEF Live

-----------------------------------------------------------------------------
(* A transaction goes on. *)

\* One more thread holds a checkpoint.
LEMMA GateOpens ==
  ASSUME GateInv, NEW t \in Threads, Moves(t), ~ Holding(task[t]), Holding(task'[t]),
         Runs(task'[t]), ~ flush_active, flush_active' = flush_active,
         open_checkpoints' = open_checkpoints + 1, ~ Flushing(task'[t]),
         DOMAIN task'[t].batch = {}
  PROVE  GateInv'
<1>1. HoldingSet \in SUBSET Threads /\ HoldingSet' = HoldingSet \cup {t} /\ t \notin HoldingSet
  BY DEF HoldingSet, Moves
<1>2. Cardinality(HoldingSet') = Cardinality(HoldingSet) + 1
  <2>1. IsFiniteSet(HoldingSet)
    BY <1>1, ThreadFacts, FS_Subset
  <2> QED  BY <1>1, <2>1, FS_AddElement
<1>3. open_checkpoints' = Cardinality(HoldingSet')
  BY <1>2 DEF GateInv
<1>4. \A u \in Threads : /\ Holding(task'[u]) => Runs(task'[u])
                         /\ ~ Flushing(task'[u])
                         /\ DOMAIN task'[u].batch = {}
  BY DEF GateInv, Moves
<1> QED  BY <1>3, <1>4 DEF GateInv

\* One thread less does.
LEMMA GateCloses ==
  ASSUME GateInv, NEW t \in Threads, Moves(t), Holding(task[t]), ~ Holding(task'[t]),
         flush_active' = flush_active, open_checkpoints' = open_checkpoints - 1,
         ~ Flushing(task'[t]), DOMAIN task'[t].batch = {}
  PROVE  GateInv'
<1>1. HoldingSet \in SUBSET Threads /\ HoldingSet' = HoldingSet \ {t} /\ t \in HoldingSet
  BY DEF HoldingSet, Moves
<1>2. Cardinality(HoldingSet') = Cardinality(HoldingSet) - 1
  <2>1. IsFiniteSet(HoldingSet)
    BY <1>1, ThreadFacts, FS_Subset
  <2> QED  BY <1>1, <2>1, FS_RemoveElement
<1>3. open_checkpoints' = Cardinality(HoldingSet')
  BY <1>2 DEF GateInv
<1>4. \A u \in Threads : /\ Holding(task'[u]) => ~ flush_active /\ Runs(task'[u])
                         /\ ~ Flushing(task'[u])
                         /\ DOMAIN task'[u].batch = {}
  BY DEF GateInv, Moves
<1> QED  BY <1>3, <1>4 DEF GateInv

\* A transaction with its account's nonce goes on to a checkpoint.
LEMMA NoncePasses ==
  ASSUME Live, Undisturbed, setup' = setup, NEW t \in Threads, CheckNonce(t),
         Nonce(task[t].val, Tx(t).sender) = Tx(t).nonce
  PROVE  Live'
<1> DEFINE x == transactions[task[t].tx]
<1>1. TypeInv /\ KindInv /\ OrderInv /\ GateInv /\ StoreInv /\ TipInv /\ SerialInv
  BY DEF Live
<1>2. /\ Moves(t) /\ BlockSame /\ StoreSame /\ GateSame /\ journal' = journal
      /\ task[t].pc = "nonce" /\ Runs(task[t])
      /\ Doing(task'[t], "open", task[t].ret, task[t].key, task[t].val, task[t].tx,
               x.writes, task[t].batch, task[t].ok)
  BY <1>1, CheckNonceEffect DEF Tx
<1>3. Running(Size, t, task[t]) /\ task[t].ret = "nonce"
  BY <1>1, <1>2, RunsIs DEF Running, Checking, Access
<1>4. /\ ~ Holding(task[t]) /\ ~ Holding(task'[t]) /\ ~ Flushing(task[t]) /\ ~ Flushing(task'[t])
      /\ Checking(task[t]) /\ ~ Checking(task'[t]) /\ ~ Access(task'[t])
  BY <1>2, <1>3 DEF Holding, Flushing, Checking, Access, Doing
<1>5. GateInv'
  <2>1. DOMAIN task'[t].batch = {}
    BY <1>1, <1>2, <1>4 DEF GateInv, Doing
  <2> QED  BY <1>1, <1>2, <1>4, <2>1, GateFrame
<1>6. /\ x.sender \in x.writes /\ x.writes \subseteq Accounts
  BY <1>1, <1>2, TxFacts
<1>7. Running(Size, t, task'[t])
  BY <1>2, <1>3, <1>6 DEF Running, Doing
<1>8. TaskInv(transactions, task'[t])
  <2>1. TaskInv(transactions, task[t])
    BY <1>1, <1>2 DEF SerialInv
  <2>2. task[t].key = x.sender /\ task[t].ok
      /\ task[t].val = Before(transactions, task[t])[x.sender]
    BY <1>2, <1>4, <2>1 DEF TaskInv
  <2>3. NonceIn(transactions, Before(transactions, task[t])[x.sender], x.sender) = x.nonce
    BY <2>2 DEF Nonce, NonceIn, Tx
  <2>4. /\ Before(transactions, task'[t]) = Before(transactions, task[t])
        /\ Scope(transactions, task'[t]) = x.writes
    BY <1>2, <2>2 DEF Before, Scope, Doing
  <2> QED  BY <1>2, <1>3, <1>4, <2>2, <2>3, <2>4 DEF TaskInv, Doing
<1>9. Changed(transactions, task'[t]) = Changed(transactions, task[t])
  BY <1>4 DEF Changed
<1>10. \A y : Now(transactions, task'[t], y) = Now(transactions, task[t], y)
  <2>1. task'[t].tx = task[t].tx /\ task'[t].ok = task[t].ok
    BY <1>2 DEF Doing
  <2> QED  BY <1>9, <2>1, NowSame
<1>11. journal'[t] = Journal(transactions, task'[t])
  <2>1. journal[t] = Journal(transactions, task[t])
    BY <1>1 DEF SerialInv
  <2> QED  BY <1>2, <1>4, <2>1 DEF Journal
<1>12. TypeInv' /\ KindInv' /\ OrderInv' /\ StoreInv' /\ TipInv' /\ SerialInv'
  <2>1. task'[t].tx = task[t].tx /\ task'[t].pc # "fill"
    BY <1>2 DEF Doing
  <2>2. flush_active' \in BOOLEAN /\ journal' \in [Threads -> Values \cup {None}]
    BY <1>1, <1>2 DEF TypeInv, GateSame
  <2> QED  BY <1>2, <1>7, <1>8, <1>10, <1>11, <2>1, <2>2, RunFrame
<1> QED  BY <1>5, <1>12 DEF Live

\* A transaction goes on to the next account.
LEMMA TouchKeeps ==
  ASSUME Live, Undisturbed, setup' = setup, NEW t \in Threads, NEW a \in Accounts, Touch(t, a)
  PROVE  Live'
<1>1. TypeInv /\ KindInv /\ OrderInv /\ GateInv /\ StoreInv /\ TipInv /\ SerialInv
  BY DEF Live
<1>2. /\ Moves(t) /\ BlockSame /\ StoreSame /\ GateSame /\ journal' = journal
      /\ task[t].pc = "run" /\ a \in task[t].todo
      /\ Doing(task'[t], "lookup", "write", a, task[t].val, task[t].tx,
               task[t].todo, task[t].batch, task[t].ok)
  BY <1>1, TouchEffect
<1>3. Runs(task[t]) /\ Running(Size, t, task[t])
  BY <1>1, <1>2, RunsTask
<1>4. /\ Holding(task[t]) /\ Holding(task'[t]) /\ ~ Flushing(task[t]) /\ ~ Flushing(task'[t])
      /\ ~ Checking(task[t]) /\ ~ Checking(task'[t]) /\ Access(task'[t])
  BY <1>2 DEF Holding, Flushing, Checking, Access, Doing
<1>5. GateInv'
  <2>1. DOMAIN task'[t].batch = {} /\ Runs(task'[t])
    BY <1>1, <1>2, <1>3, <1>4 DEF GateInv, Doing, Runs
  <2> QED  BY <1>1, <1>2, <1>4, <2>1, GateFrame
<1>6. Running(Size, t, task'[t])
  BY <1>2, <1>3, <1>4 DEF Running, Doing
<1>7. /\ Before(transactions, task'[t]) = Before(transactions, task[t])
      /\ Scope(transactions, task'[t]) = Scope(transactions, task[t])
  BY <1>2 DEF Before, Scope, Doing
<1>8. TaskInv(transactions, task'[t])
  <2>1. TaskInv(transactions, task[t])
    BY <1>1, <1>3 DEF SerialInv
  <2> QED  BY <1>2, <1>4, <1>7, <2>1 DEF TaskInv, Doing
<1>9. Changed(transactions, task'[t]) = Changed(transactions, task[t])
  BY <1>2, <1>4, <1>7 DEF Changed, Doing
<1>10. \A y : Now(transactions, task'[t], y) = Now(transactions, task[t], y)
  <2>1. task'[t].tx = task[t].tx /\ task'[t].ok = task[t].ok
    BY <1>2 DEF Doing
  <2> QED  BY <1>9, <2>1, NowSame
<1>11. journal'[t] = Journal(transactions, task'[t])
  <2>1. journal[t] = Journal(transactions, task[t])
    BY <1>1 DEF SerialInv
  <2> QED  BY <1>2, <1>4, <1>7, <1>9, <2>1 DEF Journal, Doing, Runs
<1>12. TypeInv' /\ KindInv' /\ OrderInv' /\ StoreInv' /\ TipInv' /\ SerialInv'
  <2>1. task'[t].tx = task[t].tx /\ task'[t].pc # "fill"
    BY <1>2 DEF Doing
  <2>2. flush_active' \in BOOLEAN /\ journal' \in [Threads -> Values \cup {None}]
    BY <1>1, <1>2 DEF TypeInv, GateSame
  <2> QED  BY <1>2, <1>3, <1>6, <1>8, <1>10, <1>11, <2>1, <2>2, RunFrame
<1> QED  BY <1>5, <1>12 DEF Live

\* A transaction keeps what it has done.
LEMMA CommitKeeps ==
  ASSUME Live, Undisturbed, setup' = setup, NEW t \in Threads, CommitTx(t)
  PROVE  Live'
<1>1. TypeInv /\ KindInv /\ OrderInv /\ GateInv /\ StoreInv /\ TipInv /\ SerialInv
  BY DEF Live
<1>2. /\ Moves(t) /\ BlockSame /\ StoreSame /\ GateSame
      /\ task[t].pc = "run" /\ task[t].todo = {} /\ (Tx(t).fails => ~ task[t].ok)
      /\ journal' = [journal EXCEPT ![t] = None]
      /\ Doing(task'[t], "close", Rest(t), task[t].key, task[t].val, task[t].tx,
               task[t].todo, task[t].batch, task[t].ok)
  BY <1>1, CommitEffect
<1>3. Runs(task[t]) /\ Running(Size, t, task[t]) /\ Rest(t) \notin {"open", "nonce", "write"}
  BY <1>1, <1>2, RunsTask DEF Rest
<1>4. /\ Holding(task[t]) /\ Holding(task'[t]) /\ ~ Flushing(task[t]) /\ ~ Flushing(task'[t])
      /\ ~ Checking(task[t]) /\ ~ Checking(task'[t]) /\ ~ Access(task'[t])
  BY <1>2 DEF Holding, Flushing, Checking, Access, Doing
<1>5. GateInv'
  <2>1. DOMAIN task'[t].batch = {} /\ Runs(task'[t])
    BY <1>1, <1>2, <1>3, <1>4 DEF GateInv, Doing, Runs
  <2> QED  BY <1>1, <1>2, <1>4, <2>1, GateFrame
<1>6. Running(Size, t, task'[t])
  BY <1>2, <1>3, <1>4 DEF Running, Doing
<1>7. /\ Before(transactions, task'[t]) = Before(transactions, task[t])
      /\ Scope(transactions, task'[t]) = Scope(transactions, task[t])
  BY <1>2 DEF Before, Scope, Doing
<1>8. TaskInv(transactions, task'[t])
  <2>1. TaskInv(transactions, task[t])
    BY <1>1, <1>3 DEF SerialInv
  <2> QED  BY <1>2, <1>3, <1>4, <1>7, <2>1 DEF TaskInv, Doing, Tx
<1>9. Changed(transactions, task'[t]) = Changed(transactions, task[t])
  BY <1>2, <1>4, <1>7 DEF Changed, Doing
<1>10. \A y : Now(transactions, task'[t], y) = Now(transactions, task[t], y)
  <2>1. task'[t].tx = task[t].tx /\ task'[t].ok = task[t].ok
    BY <1>2 DEF Doing
  <2> QED  BY <1>9, <2>1, NowSame
<1>11. journal \in [Threads -> Values \cup {None}]
  BY <1>1 DEF TypeInv
<1>12. /\ journal'[t] = Journal(transactions, task'[t])
       /\ \A u \in Threads : u # t => journal'[u] = journal[u]
       /\ journal' \in [Threads -> Values \cup {None}]
  <2>1. Journal(transactions, task'[t]) = None
    BY <1>2 DEF Journal, Doing
  <2> QED  BY <1>2, <1>11, <2>1
<1>13. TypeInv' /\ KindInv' /\ OrderInv' /\ StoreInv' /\ TipInv' /\ SerialInv'
  <2>1. task'[t].tx = task[t].tx /\ task'[t].pc # "fill"
    BY <1>2 DEF Doing
  <2>2. flush_active' \in BOOLEAN
    BY <1>1, <1>2 DEF TypeInv, GateSame
  <2> QED  BY <1>2, <1>3, <1>6, <1>8, <1>10, <1>12, <2>1, <2>2, RunFrame
<1> QED  BY <1>5, <1>13 DEF Live

\* A transaction opens its checkpoint.
LEMMA OpenKeeps ==
  ASSUME Live, Undisturbed, setup' = setup, NEW t \in Threads, Open(t)
  PROVE  Live'
<1>1. TypeInv /\ KindInv /\ OrderInv /\ GateInv /\ StoreInv /\ TipInv /\ SerialInv
  BY DEF Live
<1>2. /\ Moves(t) /\ BlockSame /\ StoreSame /\ task[t].pc = "open" /\ Runs(task[t])
      /\ ~ flush_active /\ flush_active' = flush_active
      /\ open_checkpoints' = open_checkpoints + 1
      /\ journal' = [journal EXCEPT ![t] = <<>>]
      /\ Doing(task'[t], "run", task[t].ret, task[t].key, task[t].val, task[t].tx,
               task[t].todo, task[t].batch, task[t].ok)
  BY <1>1, OpenEffect
<1>3. Running(Size, t, task[t]) /\ task[t].ret \in {"nonce", "open"}
  BY <1>1, <1>2, RunsTask DEF Running, Checking, Access
<1>4. /\ ~ Holding(task[t]) /\ Holding(task'[t]) /\ ~ Flushing(task[t]) /\ ~ Flushing(task'[t])
      /\ ~ Checking(task[t]) /\ ~ Checking(task'[t]) /\ ~ Access(task'[t])
  BY <1>2 DEF Holding, Flushing, Checking, Access, Doing
<1>5. GateInv'
  <2>1. DOMAIN task'[t].batch = {} /\ Runs(task'[t])
    BY <1>1, <1>2, <1>4 DEF GateInv, Doing, Runs
  <2> QED  BY <1>1, <1>2, <1>4, <2>1, GateOpens
<1>6. Running(Size, t, task'[t])
  BY <1>2, <1>3 DEF Running, Doing
<1>7. /\ Before(transactions, task'[t]) = Before(transactions, task[t])
      /\ Scope(transactions, task'[t]) = Scope(transactions, task[t])
  BY <1>2 DEF Before, Scope, Doing
<1>8. TaskInv(transactions, task[t])
  BY <1>1, <1>2 DEF SerialInv
<1>9. TaskInv(transactions, task'[t])
  BY <1>2, <1>4, <1>7, <1>8 DEF TaskInv, Doing
<1>10. Scope(transactions, task[t]) \subseteq task[t].todo
  <2>1. CASE task[t].ret = "nonce"
    <3>1. task[t].todo = transactions[task[t].tx].writes
      BY <1>4, <1>8, <2>1 DEF TaskInv
    <3> QED  BY <1>1, <1>2, <3>1, TxFacts
  <2>2. CASE task[t].ret = "open"
    BY <1>8, <2>2 DEF TaskInv, Scope
  <2> QED  BY <1>3, <2>1, <2>2
<1>11. Changed(transactions, task'[t]) = {} /\ Changed(transactions, task[t]) = {}
  BY <1>2, <1>4, <1>7, <1>10 DEF Changed, Doing
<1>12. \A y : Now(transactions, task'[t], y) = Now(transactions, task[t], y)
  <2>1. task'[t].tx = task[t].tx /\ task'[t].ok = task[t].ok
    BY <1>2 DEF Doing
  <2> QED  BY <1>11, <2>1, NowSame
<1>13. journal \in [Threads -> Values \cup {None}]
  BY <1>1 DEF TypeInv
<1>14. /\ journal'[t] = Journal(transactions, task'[t])
       /\ \A u \in Threads : u # t => journal'[u] = journal[u]
       /\ journal' \in [Threads -> Values \cup {None}]
  <2>1. Journal(transactions, task'[t]) = <<>>
    <3>1. [y \in Changed(transactions, task'[t]) |-> Before(transactions, task'[t])[y]] = <<>>
      <4> DEFINE f == [y \in Changed(transactions, task'[t]) |-> Before(transactions, task'[t])[y]]
      <4>1. f = [y \in {} |-> Before(transactions, task'[t])[y]]
        BY <1>11
      <4> QED  BY <4>1
    <3>2. Runs(task'[t]) /\ task'[t].pc # "close"
      BY <1>2 DEF Doing, Runs
    <3> QED  BY <1>4, <3>1, <3>2 DEF Journal
  <2> QED  BY <1>2, <1>13, <2>1, EmptyValue
<1>15. TypeInv' /\ KindInv' /\ OrderInv' /\ StoreInv' /\ TipInv' /\ SerialInv'
  <2>1. task'[t].tx = task[t].tx /\ task'[t].pc # "fill"
    BY <1>2 DEF Doing
  <2>2. flush_active' \in BOOLEAN
    BY <1>1, <1>2 DEF TypeInv
  <2> QED  BY <1>2, <1>6, <1>9, <1>12, <1>14, <2>1, <2>2, RunFrame
<1> QED  BY <1>5, <1>15 DEF Live

\* The checkpoint of a transaction that failed is closed; the fee is still due.
LEMMA ClosesFailed ==
  ASSUME Live, Undisturbed, setup' = setup, NEW t \in Threads, Close(t), task[t].ret = "open"
  PROVE  Live'
<1>1. TypeInv /\ KindInv /\ OrderInv /\ GateInv /\ StoreInv /\ TipInv /\ SerialInv
  BY DEF Live
<1>2. /\ Moves(t) /\ BlockSame /\ StoreSame /\ journal' = journal /\ flush_active' = flush_active
      /\ task[t].pc = "close" /\ Runs(task[t])
      /\ open_checkpoints' = open_checkpoints - 1
      /\ Doing(task'[t], "open", task[t].ret, task[t].key, task[t].val, task[t].tx,
               task[t].todo, task[t].batch, task[t].ok)
  BY <1>1, CloseEffect
<1>3. Running(Size, t, task[t])
  BY <1>1, <1>2, RunsTask
<1>4. /\ Holding(task[t]) /\ ~ Holding(task'[t]) /\ ~ Flushing(task[t]) /\ ~ Flushing(task'[t])
      /\ ~ Checking(task[t]) /\ ~ Checking(task'[t]) /\ ~ Access(task'[t])
  BY <1>2 DEF Holding, Flushing, Checking, Access, Doing
<1>5. GateInv'
  <2>1. DOMAIN task'[t].batch = {}
    BY <1>1, <1>2, <1>4 DEF GateInv, Doing
  <2> QED  BY <1>1, <1>2, <1>4, <2>1, GateCloses
<1>6. Running(Size, t, task'[t])
  BY <1>2, <1>3 DEF Running, Doing
<1>7. /\ Before(transactions, task'[t]) = Before(transactions, task[t])
      /\ Scope(transactions, task'[t]) = Scope(transactions, task[t])
  BY <1>2 DEF Before, Scope, Doing
<1>8. TaskInv(transactions, task[t])
  BY <1>1, <1>2 DEF SerialInv
<1>9. TaskInv(transactions, task'[t])
  BY <1>2, <1>4, <1>7, <1>8 DEF TaskInv, Doing
<1>10. Changed(transactions, task'[t]) = {} /\ Changed(transactions, task[t]) = {}
  BY <1>4, <1>8 DEF Changed, Scope, TaskInv
<1>11. \A y : Now(transactions, task'[t], y) = Now(transactions, task[t], y)
  <2>1. task'[t].tx = task[t].tx /\ task'[t].ok = task[t].ok
    BY <1>2 DEF Doing
  <2> QED  BY <1>10, <2>1, NowSame
<1>12. journal'[t] = Journal(transactions, task'[t])
  <2>1. journal[t] = Journal(transactions, task[t])
    BY <1>1 DEF SerialInv
  <2> QED  BY <1>2, <1>4, <2>1 DEF Journal
<1>13. TypeInv' /\ KindInv' /\ OrderInv' /\ StoreInv' /\ TipInv' /\ SerialInv'
  <2>1. task'[t].tx = task[t].tx /\ task'[t].pc # "fill"
    BY <1>2 DEF Doing
  <2>2. flush_active' \in BOOLEAN /\ journal' \in [Threads -> Values \cup {None}]
    BY <1>1, <1>2 DEF TypeInv
  <2> QED  BY <1>2, <1>6, <1>9, <1>11, <1>12, <2>1, <2>2, RunFrame
<1> QED  BY <1>5, <1>13 DEF Live

-----------------------------------------------------------------------------
(* A transaction ends. *)

\* It leaves its accounts as serial execution does.
LEMMA SerialEnds ==
  ASSUME Live, Undisturbed, BlockSame, StoreSame, NEW t \in Threads, Moves(t),
         Runs(task[t]), ~ Runs(task'[t]), task'[t].pc \notin {"archive", "claim"},
         journal' = journal, Journal(transactions, task[t]) = None,
         \A x \in Accounts \cap Footprint(transactions[task[t].tx]) :
             Views[x] = SerialOf(transactions)[task[t].tx][x]
  PROVE  SerialInv'
<1> DEFINE txs == transactions
           i == task[t].tx
           n == Len(txs)
<1>1. TypeInv /\ KindInv /\ OrderInv /\ SerialInv /\ transactions' = transactions
  BY DEF Live, BlockSame
<1>2. i \in 1 .. n /\ n \in Nat /\ started \subseteq 1 .. n
  BY <1>1, TxFacts DEF TypeInv, Size
<1>3. Ended' = Ended \cup {i}
  <2>1. i \in started /\ \A u \in Threads : u # t => task[u].tx # i
    BY <1>1 DEF OrderInv, TakenUpInv
  <2>2. task'[t].tx = 0 /\ \A u \in Threads : u # t => task'[u].tx = task[u].tx
    BY DEF Runs, Moves
  <2>3. \A u \in Threads : task'[u].tx # i
    BY <1>2, <2>1, <2>2
  <2>4. \A m \in started : m # i =>
          ((\A u \in Threads : task[u].tx # m) <=> (\A u \in Threads : task'[u].tx # m))
    BY <1>2, <2>2
  <2> QED  BY <2>1, <2>3, <2>4 DEF Ended, BlockSame
<1>4. \A x \in Accounts : Views'[x] = Views[x]
  BY DEF Views, View, StoreSame
<1>5. ASSUME NEW x, NEW j, x \notin Footprint(txs[i]), Reached(txs, Ended, x, j)
      PROVE  Reached(txs, Ended', x, j)
  BY <1>3, <1>5 DEF Reached
<1>6. ASSUME NEW u \in Threads, Runs(task'[u])
      PROVE  TaskInv(txs, task'[u]) /\ Level(txs, Ended', Views', task'[u])
  <2>1. u # t /\ task'[u] = task[u]
    BY <1>6 DEF Moves
  <2>2. Runs(task[u]) /\ TaskInv(txs, task[u]) /\ Level(txs, Ended, Views, task[u])
    BY <1>1, <1>6, <2>1 DEF SerialInv
  <2>3. Footprint(txs[task[u].tx]) \cap Footprint(txs[i]) = {}
    BY <1>1, <2>1, <2>2, RunApart
  <2> HIDE DEF Views
  <2>4. Level(txs, Ended', Views', task[u])
    BY <1>4, <1>5, <2>2, <2>3 DEF Level
  <2> QED  BY <2>1, <2>2, <2>4
<1>7. ASSUME NEW u \in Threads PROVE journal'[u] = Journal(txs, task'[u])
  <2>1. journal[u] = Journal(txs, task[u])
    BY <1>1 DEF SerialInv
  <2>2. CASE u = t
    <3>1. Journal(txs, task'[t]) = None
      BY DEF Journal
    <3> QED  BY <2>1, <2>2, <3>1
  <2>3. CASE u # t
    <3>1. task'[u] = task[u]
      BY <2>3 DEF Moves
    <3> QED  BY <2>1, <3>1
  <2> QED  BY <2>2, <2>3
<1>8. ASSUME NEW x \in Accounts, Free(txs, task', x)
      PROVE  Settled(txs, Ended', Views', x)
  <2>1. CASE x \in Footprint(txs[i])
    <3>1. Level(txs, Ended, Views, task[t])
      BY <1>1 DEF SerialInv
    <3>2. Reached(txs, Ended, x, i - 1)
      BY <2>1, <3>1 DEF Level
    <3>3. Reached(txs, Ended', x, i)
      <4>1. \A m \in 1 .. n : m <= i <=> (m <= i - 1 \/ m = i)
        BY <1>2
      <4>2. ~ (i <= i - 1)
        BY <1>2
      <4> QED  BY <1>3, <3>2, <4>1, <4>2 DEF Reached
    <3>4. Views'[x] = SerialOf(txs)[i][x]
      BY <1>4, <2>1
    <3> HIDE DEF Views
    <3> QED  BY <1>2, <3>3, <3>4 DEF Settled
  <2>2. CASE x \notin Footprint(txs[i])
    <3>1. Free(txs, task, x)
      <4>1. \A u \in Threads : u # t => task'[u] = task[u]
        BY DEF Moves
      <4> QED  BY <1>8, <2>2, <4>1 DEF Free
    <3>2. PICK j \in 0 .. n : Reached(txs, Ended, x, j) /\ Views[x] = SerialOf(txs)[j][x]
      BY <1>1, <3>1 DEF SerialInv, Settled
    <3>3. Reached(txs, Ended', x, j) /\ Views'[x] = SerialOf(txs)[j][x]
      BY <1>4, <1>5, <2>2, <3>2
    <3> HIDE DEF Views
    <3> QED  BY <3>3 DEF Settled
  <2> QED  BY <2>1, <2>2
<1>9. task'[Main].pc \in {"archive", "claim"} => task'[Main].ok
  BY <1>1, ThreadFacts DEF SerialInv, Moves
<1> HIDE DEF Views
<1> QED  BY <1>1, <1>6, <1>7, <1>8, <1>9 DEF SerialInv

\* The thread is free again.
LEMMA EndFrame ==
  ASSUME Live, setup' = setup, BlockSame, StoreSame, journal' = journal,
         flush_active' \in BOOLEAN, NEW t \in Threads, Moves(t), Runs(task[t]), ~ Runs(task'[t]),
         task'[t].pc = Rest(t)
  PROVE  TypeInv' /\ KindInv' /\ OrderInv' /\ StoreInv' /\ TipInv'
<1>1. TypeInv /\ KindInv /\ OrderInv /\ StoreInv /\ TipInv
  BY DEF Live
<1>2. Running(Size, t, task[t]) /\ (t = Main \/ t \in Workers)
  BY <1>1, RunsIs
<1>3. task[t].pc \in {"lookup", "fill", "nonce", "write", "open", "run", "close"}
  BY <1>2, RunningPcs
<1>4. task'[t].pc = IF t = Main THEN "sequential" ELSE "idle"
  BY DEF Rest
<1>5. transactions' = transactions /\ started' = started
  BY DEF BlockSame
<1>6. TypeInv'
  <2>1. cache' \in [Keys -> Entries] /\ disk' \in [Keys -> Slots] /\ task' \in [Threads -> Tasks]
        /\ started' \subseteq 1 .. Size /\ journal' \in [Threads -> Values \cup {None}]
    BY <1>1, <1>5 DEF TypeInv, StoreSame, Moves
  <2> QED  BY <1>1, <1>5, <2>1, TypeFrame
<1>7. KindInv'
  <2>1. t = Main => Resting(t, task'[t])
    BY <1>4, ThreadFacts DEF Resting
  <2>2. t \in Workers => task'[t].pc = "idle"
    BY <1>4, ThreadFacts
  <2>3. Kind(setup, Size, t, task'[t])
    BY <1>2, <2>1, <2>2, KindIs
  <2> QED  BY <1>1, <1>5, <2>3, KindFrame
<1>8. OrderInv'
  <2>1. t = Main => /\ Early(task'[t].pc) <=> Early(task[t].pc)
                    /\ task'[t].pc = "parallel" <=> task[t].pc = "parallel"
                    /\ Late(task'[t].pc) => Late(task[t].pc)
    BY <1>3, <1>4 DEF Early, Late
  <2> QED  BY <1>1, <2>1, OrderFrame
<1>9. StoreInv'
  <2>1. /\ task[t].pc # "gather" /\ task'[t].pc # "gather" /\ task'[t].pc # "fill"
        /\ t = Main => task[t].pc # "done" /\ task'[t].pc \notin {"release", "evict", "done"}
    BY <1>3, <1>4
  <2> QED  BY <1>1, <2>1, StoreFrame
<1>10. TipInv'
  <2>1. task'[t].pc # "gather" /\ (t = Main => task'[t].pc # "height")
    BY <1>4
  <2> QED  BY <1>1, <2>1, TipFrame
<1> QED  BY <1>6, <1>7, <1>8, <1>9, <1>10

\* A wrong nonce drops a transaction, here as in serial execution.
LEMMA NonceDrops ==
  ASSUME Live, Undisturbed, setup' = setup, NEW t \in Threads, CheckNonce(t),
         Nonce(task[t].val, Tx(t).sender) # Tx(t).nonce
  PROVE  Live'
<1> DEFINE x == transactions[task[t].tx]
           i == task[t].tx
<1>1. TypeInv /\ KindInv /\ OrderInv /\ GateInv /\ StoreInv /\ TipInv /\ SerialInv
  BY DEF Live
<1>2. /\ Moves(t) /\ BlockSame /\ StoreSame /\ GateSame /\ journal' = journal
      /\ task[t].pc = "nonce" /\ Runs(task[t])
      /\ Doing(task'[t], Rest(t), "idle", None, None, 0, {}, <<>>, TRUE)
  BY <1>1, CheckNonceEffect
<1>3. Running(Size, t, task[t]) /\ task[t].ret = "nonce"
  BY <1>1, <1>2, RunsIs DEF Running, Checking, Access
<1>4. /\ ~ Holding(task[t]) /\ ~ Holding(task'[t]) /\ ~ Flushing(task[t]) /\ ~ Flushing(task'[t])
      /\ Checking(task[t]) /\ ~ Runs(task'[t]) /\ task'[t].pc = Rest(t)
      /\ Rest(t) \notin {"archive", "claim"}
  BY <1>2, <1>3 DEF Holding, Flushing, Checking, Access, Doing, Rest, Runs
<1>5. GateInv'
  <2>1. DOMAIN task'[t].batch = {}
    BY <1>2, EmptyValue DEF Doing
  <2> QED  BY <1>1, <1>2, <1>4, <2>1, GateFrame
<1>6. /\ transactions \in Blocks /\ i \in 1 .. Len(transactions)
  BY <1>1, <1>2, TxFacts
<1>7. ASSUME NEW y \in Accounts \cap Footprint(x)
      PROVE  Views[y] = SerialOf(transactions)[i][y]
  <2>1. /\ TaskInv(transactions, task[t])
        /\ Level(transactions, Ended, Views, task[t])
    BY <1>1, <1>2 DEF SerialInv
  <2>2. Views[y] = Now(transactions, task[t], y)
    BY <2>1 DEF Level
  <2>3. Changed(transactions, task[t]) = {}
    BY <1>4 DEF Changed
  <2>4. Views[y] = SerialOf(transactions)[i - 1][y]
    BY <2>2, <2>3 DEF Now, Before
  <2>5. task[t].key = x.sender /\ task[t].val = Before(transactions, task[t])[x.sender]
    BY <1>2, <1>4, <2>1 DEF TaskInv
  <2>6. NonceIn(transactions, SerialOf(transactions)[i - 1][x.sender], x.sender) # x.nonce
    BY <2>5 DEF Nonce, NonceIn, Tx, Before
  <2>7. Wrote(transactions, i) = {}
    BY <2>6 DEF Wrote
  <2> HIDE DEF Views
  <2> QED  BY <1>6, <2>4, <2>7, SerialSteps
<1>8. SerialInv'
  <2>1. Journal(transactions, task[t]) = None
    BY <1>4 DEF Journal
  <2> HIDE DEF Views
  <2> QED  BY <1>2, <1>4, <1>7, <2>1, SerialEnds
<1>9. TypeInv' /\ KindInv' /\ OrderInv' /\ StoreInv' /\ TipInv'
  <2>1. flush_active' \in BOOLEAN
    BY <1>1, <1>2 DEF TypeInv, GateSame
  <2> QED  BY <1>2, <1>4, <2>1, EndFrame
<1> QED  BY <1>5, <1>8, <1>9 DEF Live

\* A transaction that was committed, or that failed and has paid, is through.
LEMMA ClosesLast ==
  ASSUME Live, Undisturbed, setup' = setup, NEW t \in Threads, Close(t), task[t].ret # "open"
  PROVE  Live'
<1> DEFINE x == transactions[task[t].tx]
           i == task[t].tx
<1>1. TypeInv /\ KindInv /\ OrderInv /\ GateInv /\ StoreInv /\ TipInv /\ SerialInv
  BY DEF Live
<1>2. /\ Moves(t) /\ BlockSame /\ StoreSame /\ journal' = journal /\ flush_active' = flush_active
      /\ task[t].pc = "close" /\ Runs(task[t])
      /\ open_checkpoints' = open_checkpoints - 1
      /\ Doing(task'[t], Rest(t), "idle", None, None, 0, {}, <<>>, TRUE)
  BY <1>1, CloseEffect
<1>3. /\ Holding(task[t]) /\ ~ Holding(task'[t]) /\ ~ Flushing(task[t]) /\ ~ Flushing(task'[t])
      /\ ~ Checking(task[t]) /\ ~ Runs(task'[t]) /\ task'[t].pc = Rest(t)
      /\ Rest(t) \notin {"archive", "claim"}
  BY <1>2 DEF Holding, Flushing, Checking, Access, Doing, Rest, Runs
<1>4. GateInv'
  <2>1. DOMAIN task'[t].batch = {}
    BY <1>2, EmptyValue DEF Doing
  <2> QED  BY <1>1, <1>2, <1>3, <2>1, GateCloses
<1>5. /\ transactions \in Blocks /\ i \in 1 .. Len(transactions)
      /\ task[t].ok \in BOOLEAN /\ x.fails \in BOOLEAN
  BY <1>1, <1>2, TxFacts
<1>6. ASSUME NEW y \in Accounts \cap Footprint(x)
      PROVE  Views[y] = SerialOf(transactions)[i][y]
  <2>1. /\ TaskInv(transactions, task[t])
        /\ Level(transactions, Ended, Views, task[t])
    BY <1>1, <1>2 DEF SerialInv
  <2>2. Views[y] = Now(transactions, task[t], y)
    BY <2>1 DEF Level
  <2>3. task[t].todo = {} /\ (x.fails <=> ~ task[t].ok)
    BY <1>2, <2>1 DEF TaskInv
  <2>4. NonceIn(transactions, SerialOf(transactions)[i - 1][x.sender], x.sender) = x.nonce
    BY <1>3, <2>1 DEF TaskInv, Before
  <2>5. Changed(transactions, task[t]) = Wrote(transactions, i)
    BY <1>3, <2>3, <2>4 DEF Changed, Scope, Wrote
  <2>6. task[t].ok = ~ x.fails
    BY <1>5, <2>3
  <2>7. Now(transactions, task[t], y) =
            IF y \in Wrote(transactions, i)
            THEN Append(Got(SerialOf(transactions)[i - 1][y]), [tx |-> i, ok |-> ~ x.fails])
            ELSE SerialOf(transactions)[i - 1][y]
    BY <2>5, <2>6 DEF Now, Before
  <2> HIDE DEF Views
  <2> QED  BY <1>5, <2>2, <2>7, SerialSteps
<1>7. SerialInv'
  <2>1. Journal(transactions, task[t]) = None
    BY <1>2 DEF Journal
  <2> HIDE DEF Views
  <2> QED  BY <1>2, <1>3, <1>6, <2>1, SerialEnds
<1>8. TypeInv' /\ KindInv' /\ OrderInv' /\ StoreInv' /\ TipInv'
  <2>1. flush_active' \in BOOLEAN
    BY <1>1, <1>2 DEF TypeInv
  <2> QED  BY <1>2, <1>3, <2>1, EndFrame
<1> QED  BY <1>4, <1>7, <1>8 DEF Live

-----------------------------------------------------------------------------
(* A transaction changes accounts. *)

\* Only the accounts of a running transaction change, and as it says.
LEMMA SerialChanges ==
  ASSUME TypeInv, KindInv, OrderInv, SerialInv, Undisturbed, BlockSame, NEW t \in Threads,
         Moves(t), Runs(task[t]), task'[t].tx = task[t].tx, task'[t].pc \notin {"archive", "claim"},
         \A y \in Accounts : y \notin Footprint(transactions[task[t].tx]) => Views'[y] = Views[y],
         \A y \in Accounts \cap Footprint(transactions[task[t].tx]) :
             Views'[y] = Now(transactions, task'[t], y),
         TaskInv(transactions, task'[t]),
         \A u \in Threads : u # t => journal'[u] = journal[u],
         journal'[t] = Journal(transactions, task'[t])
  PROVE  SerialInv'
<1> DEFINE txs == transactions
<1>1. transactions' = transactions
  BY DEF BlockSame
<1>2. Ended' = Ended
  <2>1. \A u \in Threads : task'[u].tx = task[u].tx
    BY DEF Moves
  <2> QED  BY <2>1 DEF Ended, BlockSame
<1>3. ASSUME NEW u \in Threads, Runs(task'[u])
      PROVE  TaskInv(txs, task'[u]) /\ Level(txs, Ended, Views', task'[u])
  <2>1. CASE u = t
    <3>1. Level(txs, Ended, Views, task[t])
      BY DEF SerialInv
    <3> HIDE DEF Views
    <3> QED  BY <2>1, <3>1 DEF Level
  <2>2. CASE u # t
    <3>1. task'[u] = task[u]
      BY <2>2 DEF Moves
    <3>2. Runs(task[u]) /\ TaskInv(txs, task[u]) /\ Level(txs, Ended, Views, task[u])
      BY <1>3, <3>1 DEF SerialInv
    <3>3. Footprint(txs[task[u].tx]) \cap Footprint(txs[task[t].tx]) = {}
      BY <2>2, <3>2, RunApart
    <3> HIDE DEF Views
    <3>4. Level(txs, Ended, Views', task[u])
      BY <3>2, <3>3 DEF Level
    <3> QED  BY <3>1, <3>2, <3>4
  <2> QED  BY <2>1, <2>2
<1>4. ASSUME NEW u \in Threads PROVE journal'[u] = Journal(txs, task'[u])
  <2>1. CASE u = t
    BY <2>1
  <2>2. CASE u # t
    <3>1. task'[u] = task[u] /\ journal'[u] = journal[u] /\ journal[u] = Journal(txs, task[u])
      BY <2>2 DEF Moves, SerialInv
    <3> QED  BY <3>1, Zenon
  <2> QED  BY <2>1, <2>2
<1>5. ASSUME NEW x \in Accounts, Free(txs, task', x)
      PROVE  Settled(txs, Ended, Views', x)
  <2>1. Free(txs, task, x)
    BY <1>5 DEF Free, Moves, Runs
  <2>2. Settled(txs, Ended, Views, x) /\ x \notin Footprint(txs[task[t].tx])
    BY <2>1 DEF SerialInv, Free
  <2> HIDE DEF Views
  <2> QED  BY <2>2 DEF Settled
<1>6. task'[Main].pc \in {"archive", "claim"} => task'[Main].ok
  BY ThreadFacts DEF SerialInv, Moves
<1> HIDE DEF Views
<1> QED  BY <1>1, <1>2, <1>3, <1>4, <1>5, <1>6 DEF SerialInv

\* A transaction that goes on, whatever it does to the cache.
LEMMA GoesOn ==
  ASSUME TypeInv, KindInv, OrderInv, setup' = setup, BlockSame,
         cache' \in [Keys -> Entries], disk' \in [Keys -> Slots],
         journal' \in [Threads -> Values \cup {None}], flush_active' \in BOOLEAN,
         NEW t \in Threads, Moves(t), Runs(task[t]), task'[t].tx = task[t].tx,
         Running(Size, t, task'[t])
  PROVE  TypeInv' /\ KindInv' /\ OrderInv'
<1>1. Running(Size, t, task[t]) /\ (t = Main \/ t \in Workers) /\ Runs(task'[t])
  BY RunsIs DEF Runs
<1>2. /\ task[t].pc \in {"lookup", "fill", "nonce", "write", "open", "run", "close"}
      /\ task'[t].pc \in {"lookup", "fill", "nonce", "write", "open", "run", "close"}
  BY <1>1, RunningPcs
<1>3. transactions' = transactions /\ started' = started
  BY DEF BlockSame
<1>4. TypeInv'
  <2>1. task' \in [Threads -> Tasks] /\ started' \subseteq 1 .. Size
    BY <1>3 DEF TypeInv, Moves
  <2> QED  BY <1>3, <2>1, TypeFrame
<1>5. KindInv'
  <2>1. Kind(setup, Size, t, task'[t])
    BY <1>1, KindIs
  <2> QED  BY <1>3, <2>1, KindFrame
<1>6. OrderInv'
  <2>1. t = Main => /\ Early(task'[t].pc) <=> Early(task[t].pc)
                    /\ task'[t].pc = "parallel" <=> task[t].pc = "parallel"
                    /\ Late(task'[t].pc) => Late(task[t].pc)
    BY <1>2 DEF Early, Late
  <2> QED  BY <2>1, OrderFrame
<1> QED  BY <1>4, <1>5, <1>6

\* While a checkpoint is open nothing is flushed, and nobody else is about to
\* fill the cache with an account of the transaction.
LEMMA HoldingAlone ==
  ASSUME Live, Undisturbed, NEW t \in Threads, Holding(task[t])
  PROVE  /\ Runs(task[t])
         /\ \A u \in Threads : task[u].pc # "gather"
         /\ \A x \in Keys : ~ Taken(task, x)
         /\ t = Main \/ task[Main].pc = "parallel"
         /\ \A u \in Threads : u # t /\ task[u].pc = "fill" =>
                /\ task[u].key \in Keys
                /\ task[u].key \notin Accounts \cap Footprint(transactions[task[t].tx])
<1>1. TypeInv /\ KindInv /\ OrderInv /\ GateInv /\ StoreInv /\ SerialInv
  BY DEF Live
<1>2. Runs(task[t]) /\ ~ flush_active
  BY <1>1 DEF GateInv
<1>3. \A u \in Threads : task[u].pc # "gather"
  BY <1>1, <1>2 DEF GateInv, Flushing
<1>4. t = Main \/ task[Main].pc = "parallel"
  BY <1>1, <1>2, RunsIs DEF OrderInv, TakenUpInv
<1>5. ASSUME NEW u \in Threads, u # t, task[u].pc = "fill"
      PROVE  /\ task[u].key \in Keys
             /\ task[u].key \notin Accounts \cap Footprint(transactions[task[t].tx])
  <2>1. task[u].key \in Keys
    BY <1>1, <1>5, KeyOfTask
  <2>2. CASE Runs(task[u])
    <3>1. Checking(task[u]) \/ Access(task[u])
      BY <1>1, <1>5, <2>2, RunsIs DEF Running
    <3>2. task[u].key \in Footprint(transactions[task[u].tx])
      BY <2>2, <3>1, LooksUp
    <3>3. Footprint(transactions[task[u].tx]) \cap Footprint(transactions[task[t].tx]) = {}
      BY <1>1, <1>2, <1>5, <2>2, RunApart
    <3> QED  BY <2>1, <3>2, <3>3
  <2>3. CASE ~ Runs(task[u])
    <3>1. task[u].key = Header
      BY <1>1, <1>5, <2>3 DEF StoreInv, FillInv
    <3> QED  BY <2>1, <3>1, KeyFacts
  <2> QED  BY <2>2, <2>3
<1> QED  BY <1>2, <1>3, <1>4, <1>5 DEF Taken

\* A transaction changes an account.
LEMMA WriteKeeps ==
  ASSUME Live, Undisturbed, setup' = setup, NEW t \in Threads, Write(t)
  PROVE  Live'
<1> DEFINE k == task[t].key
           e == [tx |-> task[t].tx, ok |-> task[t].ok]
           v == Append(Got(task[t].val), e)
           x == transactions[task[t].tx]
           b == Before(transactions, task[t])
<1>1. TypeInv /\ KindInv /\ OrderInv /\ GateInv /\ StoreInv /\ TipInv /\ SerialInv
  BY DEF Live
<1>2. /\ Moves(t) /\ BlockSame
      /\ task[t].pc = "write"
      /\ SetAccount(t, k, v)
      /\ Doing(task'[t], "run", task[t].ret, k, task[t].val, task[t].tx,
               task[t].todo \ {k}, task[t].batch, task[t].ok)
  BY <1>1, WriteEffect
<1>3. Runs(task[t]) /\ Running(Size, t, task[t]) /\ task[t].ret = "write"
  BY <1>1, <1>2, RunsTask DEF Running, Checking, Access
<1>4. /\ Holding(task[t]) /\ Holding(task'[t]) /\ ~ Flushing(task[t]) /\ ~ Flushing(task'[t])
      /\ ~ Checking(task[t]) /\ ~ Checking(task'[t]) /\ ~ Access(task'[t]) /\ Access(task[t])
      /\ Runs(task'[t])
  BY <1>2, <1>3 DEF Holding, Flushing, Checking, Access, Doing, Runs
<1>5. /\ k \in Accounts /\ k \in Footprint(x) /\ View(k) = b[k] /\ k \in Keys
      /\ k \notin Changed(transactions, task[t])
  BY <1>3, <1>4, LooksUp, KeyFacts
<1>6. TaskInv(transactions, task[t])
  BY <1>1, <1>3 DEF SerialInv
<1>7. task[t].val = b[k] /\ k \in task[t].todo
    /\ task[t].todo \subseteq Scope(transactions, task[t])
  BY <1>2, <1>4, <1>6 DEF TaskInv
<1>8. /\ \A u \in Threads : task[u].pc # "gather"
      /\ \A y \in Keys : ~ Taken(task, y)
      /\ t = Main \/ task[Main].pc = "parallel"
      /\ \A u \in Threads : u # t /\ task[u].pc = "fill" => task[u].key # k /\ task[u].key \in Keys
  BY <1>4, <1>5, HoldingAlone
<1>9. v \in Slots
  <2> DEFINE Change == [tx : Nat, ok : BOOLEAN]
  <2>1. e \in Change
    BY <1>1, TaskTypes
  <2>2. task[t].val \in Seq(Change) \cup {None}
    BY <1>1, TaskTypes DEF Slots
  <2> HIDE DEF e, Change
  <2>3. Got(task[t].val) \in Seq(Change)
    BY <2>2 DEF Got
  <2>4. v \in Seq(Change)
    BY <2>1, <2>3
  <2> HIDE DEF v
  <2> QED  BY <2>4 DEF Slots, Change
<1>10. /\ disk' = disk /\ GateSame
       /\ cache' \in Evictions([cache EXCEPT ![k] = [slot |-> v, dirty |-> TRUE]])
       /\ journal' = IF journal[t] = None \/ k \in DOMAIN journal[t] THEN journal
                     ELSE [journal EXCEPT ![t] = Put(journal[t], k, View(k))]
  BY <1>2 DEF SetAccount, GateSame
<1> HIDE DEF v
<1>11. SetsTo(k, v, TRUE)
  BY <1>1, <1>5, <1>9, <1>10, SetCache
<1>12. Views'[k] = v /\ \A y \in Keys : y # k => Views'[y] = Views[y]
  BY <1>1, <1>5, <1>8, <1>9, <1>10, <1>11, SetView DEF StoreInv
<1>13. StoreInv'
  <2>1. k \notin Others
    BY <1>5, KeyFacts
  <2>2. task'[t].pc = "run"
    BY <1>2 DEF Doing
  <2>3. task[Main].pc \in {"release", "evict", "done"} => k # Header
    BY <2>1, KeyFacts
  <2>4. /\ task[t].pc # "gather" /\ task'[t].pc # "gather" /\ task'[t].pc # "fill"
        /\ t = Main => task[t].pc # "done" /\ task'[t].pc \notin {"release", "evict", "done"}
        /\ \A u \in Threads : task[u].pc = "gather" => k \in Beside(u)
    BY <1>2, <1>8, <2>2
  <2>5. ~ Roomy(setup) => \A y \in Keys : ~ Taken(task, y)
    BY <1>8
  <2>6. k \in Others => v = Plain
    BY <2>1
  <2>7. /\ TypeInv /\ StoreInv /\ Moves(t) /\ disk' = disk /\ k \in Keys /\ v \in Slots
        /\ \A u \in Threads : u # t /\ task[u].pc = "fill" => task[u].key # k
           /\ task[u].key \in Keys
    BY <1>1, <1>2, <1>5, <1>8, <1>9, <1>10
  <2> HIDE DEF k
  <2> QED  BY <1>11, <2>3, <2>4, <2>5, <2>6, <2>7, StoreSets
<1>14. TipInv'
  <2>1. k \notin Others /\ k # Height
    BY <1>5, KeyFacts
  <2>2. task'[t].pc = "run"
    BY <1>2 DEF Doing
  <2> QED  BY <1>1, <1>2, <1>5, <1>8, <1>9, <1>10, <1>11, <2>1, <2>2, TipSets DEF StoreInv
<1>15. GateInv'
  <2>1. DOMAIN task'[t].batch = {}
    BY <1>1, <1>2, <1>4 DEF GateInv, Doing
  <2> QED  BY <1>1, <1>2, <1>4, <1>10, <2>1, GateFrame
<1>16. Running(Size, t, task'[t])
  BY <1>2, <1>3 DEF Running, Doing
<1>17. /\ Before(transactions, task'[t]) = b
       /\ Scope(transactions, task'[t]) = Scope(transactions, task[t])
  BY <1>2 DEF Before, Scope, Doing
<1>18. TaskInv(transactions, task'[t])
  BY <1>2, <1>3, <1>4, <1>6, <1>17 DEF TaskInv, Doing
<1>19. Changed(transactions, task'[t]) = Changed(transactions, task[t]) \cup {k}
  BY <1>2, <1>4, <1>7, <1>17 DEF Changed, Doing
<1>20. journal \in [Threads -> Values \cup {None}]
  BY <1>1 DEF TypeInv
<1>21. journal[t] = [y \in Changed(transactions, task[t]) |-> b[y]] /\ journal[t] # None
  <2>1. journal[t] = [y \in Changed(transactions, task[t]) |-> b[y]]
    BY <1>1, <1>2, <1>3, <1>4 DEF SerialInv, Journal
  <2>2. \A y \in Changed(transactions, task[t]) : y \in Keys /\ b[y] \in Slots
    <3>1. /\ transactions \in Blocks /\ task[t].tx - 1 \in 0 .. Len(transactions)
          /\ Scope(transactions, task[t]) \subseteq x.writes /\ x.writes \subseteq Accounts
      BY <1>1, <1>3, TxFacts
    <3>2. Changed(transactions, task[t]) \subseteq Accounts
      BY <3>1 DEF Changed
    <3> QED  BY <3>1, <3>2, SerialTypes, KeyFacts DEF Before
  <2> HIDE DEF b
  <2>3. [y \in Changed(transactions, task[t]) |-> b[y]] \in [Changed(transactions, task[t]) -> Slots]
    BY <2>2
  <2>4. Changed(transactions, task[t]) \in SUBSET Keys
    BY <2>2
  <2> QED  BY <2>1, <2>3, <2>4, NoneFacts
<1>22. /\ journal'[t] = Journal(transactions, task'[t])
       /\ \A u \in Threads : u # t => journal'[u] = journal[u]
       /\ journal' \in [Threads -> Values \cup {None}]
  <2> DEFINE c == Changed(transactions, task[t])
             p == Put(journal[t], k, View(k))
  <2>1. DOMAIN journal[t] = c /\ k \notin c
    BY <1>5, <1>21
  <2>2. journal' = [journal EXCEPT ![t] = p]
    BY <1>10, <1>21, <2>1
  <2>3. p = [y \in c \cup {k} |-> b[y]]
    <3> HIDE DEF b, c
    <3> QED  BY <1>5, <1>21, <2>1 DEF Put, c
  <2>4. Journal(transactions, task'[t]) = [y \in c \cup {k} |-> b[y]]
    <3>1. task'[t].pc # "close"
      BY <1>2 DEF Doing
    <3> QED  BY <1>4, <1>17, <1>19, <3>1 DEF Journal
  <2>5. p \in Values
    <3>1. \A y \in c \cup {k} : y \in Keys /\ p[y] \in Slots
      <4>1. journal[t] \in Values
        BY <1>20, <1>21
      <4>2. \A y \in c : y \in Keys /\ journal[t][y] \in Slots
        BY <2>1, <4>1 DEF Values
      <4>3. View(k) \in Slots
        BY <1>1, <1>5, ViewTypes
      <4> HIDE DEF c
      <4> QED  BY <1>5, <2>1, <4>2, <4>3 DEF Put
    <3>2. DOMAIN p = c \cup {k}
      BY <2>3
    <3>3. p = [y \in c \cup {k} |-> p[y]]
      BY <2>3
    <3> HIDE DEF p, c
    <3>4. p \in [c \cup {k} -> Slots] /\ c \cup {k} \in SUBSET Keys
      BY <3>1, <3>3
    <3> QED  BY <3>4, NoneFacts
  <2> HIDE DEF p, c, b
  <2> QED  BY <1>20, <2>2, <2>3, <2>4, <2>5
<1>23. TypeInv' /\ KindInv' /\ OrderInv'
  <2>1. task'[t].tx = task[t].tx
    BY <1>2 DEF Doing
  <2>2. cache' \in [Keys -> Entries] /\ disk' \in [Keys -> Slots] /\ flush_active' \in BOOLEAN
    BY <1>1, <1>10, <1>11 DEF SetsTo, TypeInv, GateSame
  <2> QED  BY <1>1, <1>2, <1>3, <1>16, <1>22, <2>1, <2>2, GoesOn
<1>24. SerialInv'
  <2>1. task'[t].tx = task[t].tx /\ task'[t].ok = task[t].ok
        /\ task'[t].pc \notin {"archive", "claim"}
    BY <1>2 DEF Doing
  <2>2. \A y \in Accounts : y \notin Footprint(x) => Views'[y] = Views[y]
    BY <1>5, <1>12, KeyFacts
  <2>3. ASSUME NEW y \in Accounts \cap Footprint(x)
        PROVE  Views'[y] = Now(transactions, task'[t], y)
    <3>1. CASE y = k
      <4>1. Now(transactions, task'[t], y) = Append(Got(b[k]), e)
        BY <1>17, <1>19, <2>1, <3>1 DEF Now
      <4> QED  BY <1>7, <1>12, <3>1, <4>1 DEF v
    <3>2. CASE y # k
      <4>1. Views'[y] = Views[y]
        BY <1>12, <3>2, KeyFacts
      <4>2. Level(transactions, Ended, Views, task[t])
        BY <1>1, <1>3 DEF SerialInv
      <4>3. Views[y] = Now(transactions, task[t], y)
        BY <4>2 DEF Level
      <4>4. Now(transactions, task'[t], y) = Now(transactions, task[t], y)
        BY <1>17, <1>19, <2>1, <3>2 DEF Now
      <4> QED  BY <4>1, <4>3, <4>4
    <3> QED  BY <3>1, <3>2
  <2> HIDE DEF Views
  <2> QED  BY <1>1, <1>2, <1>3, <1>18, <1>22, <2>1, <2>2, <2>3, SerialChanges
<1> QED  BY <1>13, <1>14, <1>15, <1>23, <1>24 DEF Live

\* Accounts get old values back, while nobody flushes and nobody is about to
\* fill the cache with one of them.
LEMMA StoreReverts ==
  ASSUME TypeInv, StoreInv, TipInv, setup' = setup, NEW t \in Threads, Moves(t), disk' = disk,
         NEW D \in SUBSET Accounts, NEW b, \A k \in D : b[k] \in Slots,
         cache' = [k \in Keys |-> IF k \in D THEN [slot |-> b[k], dirty |-> TRUE] ELSE cache[k]],
         \A u \in Threads : task[u].pc # "gather", task'[t].pc = "close", task[t].pc = "run",
         \A u \in Threads : u # t /\ task[u].pc = "fill" => task[u].key \in Keys \ D
  PROVE  /\ cache' \in [Keys -> Entries] /\ StoreInv' /\ TipInv'
         /\ \A k \in Keys : Views'[k] = IF k \in D THEN b[k] ELSE Views[k]
<1>1. ASSUME NEW k \in Keys
      PROVE  /\ k \in D => /\ cache'[k] \in [slot : Slots, dirty : BOOLEAN] /\ cache'[k] # None
                           /\ cache'[k].slot = b[k] /\ cache'[k].dirty
             /\ k \notin D => cache'[k] = cache[k]
  <2>1. CASE k \in D
    <3> DEFINE e == [slot |-> b[k], dirty |-> TRUE]
    <3>1. b[k] \in Slots
      BY <2>1
    <3> HIDE DEF Slots
    <3>2. e \in [slot : Slots, dirty : BOOLEAN] /\ e.slot = b[k] /\ e.dirty = TRUE
      BY <3>1
    <3>3. cache'[k] = e
      BY <2>1
    <3> HIDE DEF e
    <3> QED  BY <2>1, <3>2, <3>3, NoneFacts
  <2>2. CASE k \notin D
    BY <2>2
  <2> QED  BY <2>1, <2>2
<1>2. cache' \in [Keys -> Entries]
  <2> DEFINE c(k) == IF k \in D THEN [slot |-> b[k], dirty |-> TRUE] ELSE cache[k]
  <2>1. cache \in [Keys -> Entries]
    BY DEF TypeInv
  <2>2. ASSUME NEW k \in Keys PROVE cache'[k] \in Entries
    <3>1. CASE k \in D
      BY <1>1, <3>1 DEF Entries
    <3>2. CASE k \notin D
      BY <1>1, <2>1, <3>2
    <3> QED  BY <3>1, <3>2
  <2>3. cache' = [k \in Keys |-> c(k)]
    OBVIOUS
  <2> HIDE DEF c, Entries
  <2>4. cache' = [k \in Keys |-> cache'[k]]
    BY <2>3
  <2> QED  BY <2>2, <2>4
<1>3. \A u \in Threads : task'[u].pc # "gather"
  BY DEF Moves
<1>4. \A x : ~ Taken(task, x) /\ ~ Taken(task', x)
  BY <1>3 DEF Taken
<1>5. {Record, Height, Header, Proposal} = Others /\ \A k \in Others : k \in Keys /\ k \notin D
  BY KeyFacts
<1>6. OthersInv'
  BY <1>1, <1>5 DEF StoreInv, OthersInv
<1>7. BatchInv'
  BY <1>3 DEF BatchInv
<1>8. CleanInv'
  BY <1>1, <1>4 DEF StoreInv, CleanInv
<1>9. task[Main].pc = "done" => task'[Main].pc = "done"
  BY ThreadFacts DEF Moves
<1>10. FillInv'
  <2> SUFFICES ASSUME NEW u \in Threads, task'[u].pc = "fill"
               PROVE  /\ cache'[task'[u].key] \in
                            {None, [slot |-> disk'[task'[u].key], dirty |-> FALSE]}
                      /\ ~ Taken(task', task'[u].key) /\ task'[u].val = disk'[task'[u].key]
                      /\ disk'[task'[u].key] # None
                      /\ ~ Runs(task'[u]) => task'[u].key = Header /\ task'[Main].pc = "done"
    BY DEF FillInv
  <2>1. u # t /\ task'[u] = task[u]
    BY DEF Moves
  <2>2. cache'[task[u].key] = cache[task[u].key]
    BY <1>1, <2>1
  <2> QED  BY <1>4, <1>9, <2>1, <2>2 DEF StoreInv, FillInv
<1>11. RoomInv'
  <2>1. \A k \in Keys : cache[k] # None => cache'[k] # None
    BY <1>1
  <2> QED  BY <1>5, <1>9, <2>1 DEF StoreInv, RoomInv
<1>12. EndInv'
  <2> SUFFICES ASSUME \/ task'[Main].pc = "release" /\ task'[Main].ok
                      \/ task'[Main].pc \in {"evict", "done"}
               PROVE  ~ Dirty(Header)' /\ ~ Taken(task', Header)
    BY DEF EndInv
  <2>1. task'[Main] = task[Main]
    BY ThreadFacts DEF Moves
  <2>2. ~ Dirty(Header) /\ cache'[Header] = cache[Header]
    BY <1>1, <1>5, <2>1 DEF StoreInv, EndInv
  <2> QED  BY <1>4, <2>2 DEF Dirty
<1>13. ASSUME NEW k \in Keys PROVE Views'[k] = IF k \in D THEN b[k] ELSE Views[k]
  <2>1. View(k)' = IF k \in D THEN b[k] ELSE View(k)
    BY <1>1 DEF View
  <2> QED  BY <2>1 DEF Views
<1>14. TipInv'
  <2>1. cache'[Record] = cache[Record] /\ cache'[Height] = cache[Height]
    BY <1>1, <1>5
  <2>2. View(Record)' = View(Record)
    <3>1. Record \in Keys /\ Record \notin D
      BY <1>5
    <3>2. Views'[Record] = Views[Record]
      BY <1>13, <3>1
    <3> QED  BY <3>1, <3>2 DEF Views
  <2>3. task'[Main].pc = "height" => task[Main].pc = "height"
    BY ThreadFacts DEF Moves
  <2> QED  BY <1>3, <2>1, <2>2, <2>3 DEF TipInv
<1> QED  BY <1>2, <1>6, <1>7, <1>8, <1>10, <1>11, <1>12, <1>13, <1>14 DEF StoreInv

\* A transaction that failed leaves its accounts as it found them.
LEMMA RevertKeeps ==
  ASSUME Live, Undisturbed, setup' = setup, NEW t \in Threads, RevertTx(t)
  PROVE  Live'
<1> DEFINE x == transactions[task[t].tx]
           b == Before(transactions, task[t])
           D == Changed(transactions, task[t])
<1>1. TypeInv /\ KindInv /\ OrderInv /\ GateInv /\ StoreInv /\ TipInv /\ SerialInv
  BY DEF Live
<1>2. /\ Moves(t) /\ BlockSame /\ GateSame
      /\ task[t].pc = "run" /\ x.fails /\ task[t].ok
      /\ disk' = disk /\ journal' = [journal EXCEPT ![t] = None]
      /\ cache' = [k \in Keys |-> IF k \in DOMAIN journal[t]
                                  THEN [slot |-> journal[t][k], dirty |-> TRUE] ELSE cache[k]]
      /\ Doing(task'[t], "close", "open", task[t].key, task[t].val, task[t].tx,
               {x.sender}, task[t].batch, FALSE)
  BY <1>1, RevertEffect DEF Tx
<1>3. Runs(task[t]) /\ Running(Size, t, task[t])
  BY <1>1, <1>2, RunsTask
<1>4. /\ Holding(task[t]) /\ Holding(task'[t]) /\ ~ Flushing(task[t]) /\ ~ Flushing(task'[t])
      /\ ~ Checking(task[t]) /\ ~ Checking(task'[t]) /\ ~ Access(task'[t]) /\ Runs(task'[t])
  BY <1>2, <1>3 DEF Holding, Flushing, Checking, Access, Doing, Runs
<1>5. /\ transactions \in Blocks /\ task[t].tx - 1 \in 0 .. Len(transactions)
      /\ x.sender \in x.writes /\ x.writes \subseteq Accounts /\ x.writes \subseteq Footprint(x)
      /\ Scope(transactions, task[t]) \subseteq x.writes
  BY <1>1, <1>3, TxFacts
<1>6. journal[t] = [y \in D |-> b[y]] /\ D \subseteq x.writes
  <2>1. D \subseteq x.writes
    BY <1>5 DEF Changed
  <2>2. journal[t] = Journal(transactions, task[t])
    BY <1>1 DEF SerialInv
  <2> QED  BY <1>2, <1>3, <1>4, <2>1, <2>2 DEF Journal
<1>7. D \in SUBSET Accounts /\ \A y \in D : b[y] \in Slots
  BY <1>5, <1>6, SerialTypes DEF Before
<1>8. /\ \A u \in Threads : task[u].pc # "gather"
      /\ \A u \in Threads : u # t /\ task[u].pc = "fill" => task[u].key \in Keys \ D
  BY <1>4, <1>5, <1>6, <1>7, HoldingAlone
<1>9. /\ cache' \in [Keys -> Entries] /\ StoreInv' /\ TipInv'
      /\ \A y \in Keys : Views'[y] = IF y \in D THEN b[y] ELSE Views[y]
  <2> HIDE DEF D, b
  <2>1. cache' = [k \in Keys |-> IF k \in D THEN [slot |-> b[k], dirty |-> TRUE] ELSE cache[k]]
    BY <1>2, <1>6
  <2>2. task'[t].pc = "close"
    BY <1>2 DEF Doing
  <2> HIDE DEF Views
  <2> QED  BY <1>1, <1>2, <1>7, <1>8, <2>1, <2>2, StoreReverts
<1>10. GateInv'
  <2>1. DOMAIN task'[t].batch = {}
    BY <1>1, <1>2, <1>4 DEF GateInv, Doing
  <2> QED  BY <1>1, <1>2, <1>4, <2>1, GateFrame
<1>11. Running(Size, t, task'[t])
  BY <1>2, <1>3, <1>5 DEF Running, Doing
<1>12. Before(transactions, task'[t]) = b /\ Scope(transactions, task'[t]) = {x.sender}
  BY <1>2 DEF Before, Scope, Doing
<1>13. TaskInv(transactions, task'[t])
  <2>1. TaskInv(transactions, task[t])
    BY <1>1, <1>3 DEF SerialInv
  <2> QED  BY <1>2, <1>4, <1>12, <2>1 DEF TaskInv, Doing
<1>14. Changed(transactions, task'[t]) = {}
  BY <1>2, <1>12 DEF Changed, Doing
<1>15. /\ journal'[t] = Journal(transactions, task'[t])
       /\ \A u \in Threads : u # t => journal'[u] = journal[u]
       /\ journal' \in [Threads -> Values \cup {None}]
  <2>1. journal \in [Threads -> Values \cup {None}]
    BY <1>1 DEF TypeInv
  <2>2. Journal(transactions, task'[t]) = None
    BY <1>2 DEF Journal, Doing
  <2> QED  BY <1>2, <2>1, <2>2
<1>16. task'[t].tx = task[t].tx /\ task'[t].pc \notin {"archive", "claim"}
  BY <1>2 DEF Doing
<1>17. TypeInv' /\ KindInv' /\ OrderInv'
  <2>1. disk' \in [Keys -> Slots] /\ flush_active' \in BOOLEAN
    BY <1>1, <1>2 DEF TypeInv, GateSame
  <2> QED  BY <1>1, <1>2, <1>3, <1>9, <1>11, <1>15, <1>16, <2>1, GoesOn
<1>18. SerialInv'
  <2>1. \A y \in Accounts : y \notin Footprint(x) => Views'[y] = Views[y]
    BY <1>5, <1>6, <1>9, KeyFacts
  <2>2. ASSUME NEW y \in Accounts \cap Footprint(x)
        PROVE  Views'[y] = Now(transactions, task'[t], y)
    <3>1. Level(transactions, Ended, Views, task[t])
      BY <1>1, <1>3 DEF SerialInv
    <3>2. Views[y] = Now(transactions, task[t], y)
      BY <3>1 DEF Level
    <3>3. y \notin D => Views[y] = b[y]
      BY <3>2 DEF Now
    <3>4. Views'[y] = b[y]
      BY <1>9, <3>3, KeyFacts
    <3>5. Now(transactions, task'[t], y) = b[y]
      BY <1>12, <1>14 DEF Now
    <3> QED  BY <3>4, <3>5
  <2> HIDE DEF Views
  <2> QED  BY <1>1, <1>2, <1>3, <1>13, <1>15, <1>16, <2>1, <2>2, SerialChanges
<1> QED  BY <1>9, <1>10, <1>17, <1>18 DEF Live

-----------------------------------------------------------------------------
(* Flushing. *)

\* Only the committing thread and the handlers of bridge requests flush.
LEMMA FlusherIs ==
  ASSUME KindInv, NEW t \in Threads, task[t].pc \in {"claim", "gather", "release"}
  PROVE  /\ t = Main \/ t \in Handlers
         /\ ~ Runs(task[t]) /\ ~ Holding(task[t]) /\ Kind(setup, Size, t, task[t])
<1>1. Kind(setup, Size, t, task[t])
  BY DEF KindInv
<1>2. t = Main \/ t \in Handlers
  <2>1. t \notin Readers
    BY <1>1 DEF Kind, Asking
  <2>2. t \notin Workers
    <3>1. Runs(task[t]) => ~ Running(Size, t, task[t])
      BY RunningPcs
    <3> QED  BY <1>1, <3>1 DEF Kind, Resting
  <2> QED  BY <2>1, <2>2, ThreadFacts
<1>3. ~ Runs(task[t])
  BY RunsIs, RunningPcs
<1> QED  BY <1>1, <1>2, <1>3 DEF Holding, Access

\* It goes on doing so, or is through.
LEMMA FlushKind ==
  ASSUME NEW t \in Threads, t = Main \/ t \in Handlers, NEW r, NEW q, ~ Runs(q),
         Kind(setup, Size, t, r), r.pc \in {"claim", "gather", "release"},
         q.pc \in {"gather", "release"} \/ (q.pc = "done" /\ t \in Handlers)
            \/ (q.pc = "evict" /\ t = Main)
  PROVE  Kind(setup, Size, t, q)
<1>1. CASE t = Main
  BY <1>1, ThreadFacts DEF Kind, Resting, Late, Early
<1>2. CASE t \in Handlers
  BY <1>2, ThreadFacts DEF Kind, Requesting
<1> QED  BY <1>1, <1>2

\* Only one thread gathers.
LEMMA OneGathers ==
  ASSUME GateInv, NEW t \in Threads, Flushing(task[t])
  PROVE  /\ \A u \in Threads : task[u].pc = "gather" => u = t
         /\ flush_active
         /\ \A k : task[t].pc = "gather" => (Taken(task, k) <=> k \in DOMAIN task[t].batch)
         /\ \A k : task[t].pc # "gather" => ~ Taken(task, k)
<1>1. \A u \in Threads : task[u].pc = "gather" => u = t
  BY DEF GateInv, Flushing
<1> QED  BY <1>1 DEF Taken, GateInv

\* A flush begins: it lists what is dirty.
LEMMA ClaimKeeps ==
  ASSUME Live, setup' = setup, NEW t \in Threads, Claim(t)
  PROVE  Live'
<1>1. TypeInv /\ KindInv /\ OrderInv /\ GateInv /\ StoreInv /\ TipInv /\ SerialInv
  BY DEF Live
<1>2. /\ Moves(t) /\ BlockSame /\ StoreSame /\ journal' = journal
      /\ task[t].pc = "claim" /\ open_checkpoints = 0 /\ ~ flush_active /\ flush_active' = TRUE
      /\ open_checkpoints' = open_checkpoints
      /\ Doing(task'[t], "gather", task[t].ret, task[t].key, task[t].val, task[t].tx,
               {k \in Keys : Dirty(k)}, task[t].batch, task[t].ok)
  BY <1>1, ClaimEffect
<1>3. /\ t = Main \/ t \in Handlers
      /\ ~ Runs(task[t]) /\ ~ Holding(task[t]) /\ Kind(setup, Size, t, task[t])
  BY <1>1, <1>2, FlusherIs
<1>4. /\ ~ Runs(task'[t]) /\ ~ Holding(task'[t]) /\ Flushing(task'[t]) /\ ~ Flushing(task[t])
      /\ task'[t].pc = "gather"
  BY <1>2, <1>3 DEF Runs, Holding, Access, Flushing, Doing
<1>5. DOMAIN task[t].batch = {} /\ task'[t].batch = task[t].batch
  BY <1>1, <1>2, <1>4 DEF GateInv, Doing
<1>6. \A u \in Threads : ~ Flushing(task[u]) /\ task[u].pc # "gather"
  BY <1>1, <1>2 DEF GateInv, Flushing
<1>7. GateInv'
  <2>1. HoldingSet \in SUBSET Threads /\ HoldingSet' = HoldingSet
    BY <1>2, <1>3, <1>4 DEF HoldingSet, Moves
  <2>2. HoldingSet = {}
    <3>1. IsFiniteSet(HoldingSet) /\ Cardinality(HoldingSet) = 0
      BY <1>1, <1>2, <2>1, ThreadFacts, FS_Subset DEF GateInv
    <3> QED  BY <3>1, FS_EmptySet
  <2>3. open_checkpoints' = Cardinality(HoldingSet')
    BY <1>1, <1>2, <2>1 DEF GateInv
  <2>4. \A u \in Threads : ~ Holding(task'[u])
    BY <2>1, <2>2 DEF HoldingSet
  <2>5. \A u \in Threads : Flushing(task'[u]) => u = t
    BY <1>2, <1>6 DEF Moves
  <2>6. \A u \in Threads : ~ Flushing(task'[u]) => DOMAIN task'[u].batch = {}
    BY <1>1, <1>2, <1>4 DEF Moves, GateInv
  <2> QED  BY <1>2, <2>3, <2>4, <2>5, <2>6 DEF GateInv
<1>8. \A k : ~ Taken(task', k) /\ ~ Taken(task, k)
  BY <1>2, <1>5, <1>6 DEF Taken, Moves
<1>9. StoreInv'
  <2>1. OthersInv' /\ CleanInv' /\ RoomInv'
    <3>1. task[Main].pc = "done" => task'[Main].pc = "done"
      BY <1>2, ThreadFacts DEF Moves
    <3> QED  BY <1>1, <1>2, <1>8, <3>1 DEF StoreInv, StoreSame, OthersInv, CleanInv, RoomInv
  <2>2. BatchInv'
    <3>1. \A u \in Threads : task'[u].pc = "gather" => u = t
      BY <1>2, <1>6 DEF Moves
    <3>2. \A k \in Keys : Dirty(k)' => k \in task'[t].todo
      BY <1>2 DEF Dirty, StoreSame, Doing
    <3> QED  BY <1>5, <3>1, <3>2 DEF BatchInv
  <2>3. FillInv'
    <3>1. \A u \in Threads : task'[u].pc = "fill" => task'[u] = task[u]
      BY <1>2, <1>4 DEF Moves
    <3>2. task[Main].pc = "done" => task'[Main].pc = "done"
      BY <1>2, ThreadFacts DEF Moves
    <3> QED  BY <1>1, <1>2, <1>8, <3>1, <3>2 DEF StoreInv, FillInv, StoreSame
  <2>4. EndInv'
    <3>1. (task'[Main].pc = "release" /\ task'[Main].ok) \/ task'[Main].pc \in {"evict", "done"} =>
             task'[Main] = task[Main]
      BY <1>2, <1>4, ThreadFacts DEF Moves
    <3> QED  BY <1>1, <1>2, <1>8, <3>1 DEF StoreInv, EndInv, StoreSame, Dirty
  <2> QED  BY <2>1, <2>2, <2>3, <2>4 DEF StoreInv
<1>10. TipInv'
  <2>1. View(Record)' = View(Record)
    BY <1>2 DEF View, StoreSame
  <2>2. task'[Main].pc = "height" => task[Main].pc = "height"
    BY <1>2, <1>4, ThreadFacts DEF Moves
  <2>3. /\ disk'[Height] # None => disk'[Record] # None
        /\ cache'[Height] # None => View(Record)' # None
        /\ task'[Main].pc = "height" => View(Record)' # None
    BY <1>1, <1>2, <2>1, <2>2 DEF TipInv, StoreSame
  <2>4. \A u \in Threads : task'[u].pc = "gather" => u = t
    BY <1>2, <1>6 DEF Moves
  <2>5. ASSUME Height \in task'[t].todo \cup DOMAIN task'[t].batch
        PROVE  disk[Record] # None \/ (Dirty(Record) /\ Record \in task'[t].todo)
    <3>1. cache[Height] # None
      BY <1>2, <1>5, <2>5 DEF Doing, Dirty
    <3>2. View(Record) # None /\ Record \in Keys
      BY <1>1, <3>1, KeyFacts DEF TipInv
    <3>3. CASE Dirty(Record)
      BY <1>2, <3>2, <3>3 DEF Doing
    <3>4. CASE ~ Dirty(Record)
      BY <1>1, <1>8, <3>2, <3>4 DEF StoreInv, CleanInv, Dirty, View
    <3> QED  BY <3>3, <3>4
  <2>6. disk' = disk /\ Dirty(Record)' = Dirty(Record)
    BY <1>2 DEF StoreSame, Dirty
  <2> QED  BY <2>3, <2>4, <2>5, <2>6 DEF TipInv
<1>11. Kind(setup, Size, t, task'[t])
  BY <1>2, <1>3, <1>4, FlushKind
<1>12. TypeInv' /\ KindInv' /\ OrderInv' /\ SerialInv'
  <2>1. t = Main => /\ Early(task'[t].pc) <=> Early(task[t].pc)
                    /\ task'[t].pc = "parallel" <=> task[t].pc = "parallel"
                    /\ Late(task'[t].pc) => Late(task[t].pc)
                    /\ task'[t].pc \in {"archive", "claim"} => task'[t].ok
    BY <1>2, <1>4 DEF Early, Late
  <2>2. /\ cache' \in [Keys -> Entries] /\ disk' \in [Keys -> Slots] /\ flush_active' \in BOOLEAN
    BY <1>1, <1>2 DEF TypeInv, StoreSame
  <2>3. task'[t].tx = task[t].tx
    BY <1>2 DEF Doing
  <2>4. \A x \in Accounts : Views'[x] = Views[x]
    BY <1>2 DEF Views, View, StoreSame
  <2> HIDE DEF Views
  <2> QED  BY <1>1, <1>2, <1>3, <1>11, <2>1, <2>2, <2>3, <2>4, ViewFrame
<1> QED  BY <1>7, <1>9, <1>10, <1>12 DEF Live

\* A flush takes the next key; what it takes is clean from then on.
LEMMA GatherKeeps ==
  ASSUME Live, setup' = setup, NEW t \in Threads, NEW k \in Keys, Gather(t, k)
  PROVE  Live'
<1> DEFINE o == task[t].batch
           n == task'[t].batch
<1>1. TypeInv /\ KindInv /\ OrderInv /\ GateInv /\ StoreInv /\ TipInv /\ SerialInv
  BY DEF Live
<1>2. /\ Moves(t) /\ BlockSame /\ disk' = disk /\ GateSame /\ journal' = journal
      /\ task[t].pc = "gather" /\ k \in task[t].todo
      /\ IF Dirty(k)
         THEN /\ cache' = [cache EXCEPT ![k].dirty = FALSE]
              /\ Doing(task'[t], task[t].pc, task[t].ret, task[t].key, task[t].val, task[t].tx,
                       task[t].todo \ {k}, Put(o, k, cache[k].slot), task[t].ok)
         ELSE /\ cache' = cache
              /\ Doing(task'[t], task[t].pc, task[t].ret, task[t].key, task[t].val, task[t].tx,
                       task[t].todo \ {k}, o, task[t].ok)
  BY <1>1, GatherEffect
<1>3. /\ t = Main \/ t \in Handlers
      /\ ~ Runs(task[t]) /\ ~ Holding(task[t]) /\ Kind(setup, Size, t, task[t])
  BY <1>1, <1>2, FlusherIs
<1>4. /\ task'[t].pc = "gather" /\ task'[t].tx = task[t].tx /\ task'[t].ok = task[t].ok
      /\ task'[t].todo = task[t].todo \ {k}
  BY <1>2 DEF Doing
<1>5. ~ Runs(task'[t]) /\ ~ Holding(task'[t]) /\ Flushing(task'[t]) /\ Flushing(task[t])
  BY <1>2, <1>3, <1>4 DEF Runs, Holding, Access, Flushing
<1>6. /\ \A u \in Threads : task[u].pc = "gather" => u = t
      /\ \A x : Taken(task, x) <=> x \in DOMAIN o
  BY <1>1, <1>2, <1>5, OneGathers
<1>7. \A u \in Threads : task'[u].pc = "gather" => u = t
  BY <1>2, <1>6 DEF Moves
<1>8. \A x : Taken(task', x) <=> x \in DOMAIN n
  BY <1>4, <1>7 DEF Taken
<1>9. /\ cache' \in [Keys -> Entries]
      /\ \A x \in Keys : x # k => cache'[x] = cache[x]
      /\ ~ Dirty(k) => cache'[k] = cache[k] /\ n = o
      /\ Dirty(k) => /\ cache[k] # None /\ cache'[k] # None
                     /\ cache'[k].slot = cache[k].slot /\ ~ cache'[k].dirty
                     /\ DOMAIN n = DOMAIN o \cup {k} /\ n[k] = cache[k].slot
                     /\ \A x \in DOMAIN o : x # k => n[x] = o[x]
  <2>1. CASE ~ Dirty(k)
    BY <1>1, <1>2, <2>1 DEF Doing, TypeInv
  <2>2. CASE Dirty(k)
    <3> DEFINE e == [cache[k] EXCEPT !.dirty = FALSE]
    <3>1. cache[k] # None /\ cache[k] \in [slot : Slots, dirty : BOOLEAN]
      BY <1>1, <2>2, ViewTypes DEF Dirty
    <3>2. e \in [slot : Slots, dirty : BOOLEAN] /\ e.slot = cache[k].slot /\ e.dirty = FALSE
      <4> HIDE DEF Slots
      <4> QED  BY <3>1
    <3>3. e # None /\ e \in Entries
      BY <3>2, NoneFacts DEF Entries
    <3>4. cache' = [cache EXCEPT ![k] = e] /\ cache \in [Keys -> Entries]
      BY <1>1, <1>2, <2>2 DEF TypeInv
    <3> HIDE DEF e, Entries
    <3>5. /\ cache' \in [Keys -> Entries] /\ cache'[k] = e
          /\ \A x \in Keys : x # k => cache'[x] = cache[x]
      BY <3>3, <3>4
    <3>6. n = Put(o, k, cache[k].slot)
      BY <1>2, <2>2 DEF Doing
    <3>7. /\ DOMAIN n = DOMAIN o \cup {k} /\ n[k] = cache[k].slot
          /\ \A x \in DOMAIN o : x # k => n[x] = o[x]
      <4> HIDE DEF o, n
      <4> QED  BY <3>6 DEF Put
    <3> QED  BY <2>2, <3>1, <3>2, <3>3, <3>5, <3>7
  <2> QED  BY <2>1, <2>2
<1> HIDE DEF o, n
<1>10. \A x \in Keys : /\ cache'[x] # None <=> cache[x] # None
                       /\ cache[x] # None => cache'[x].slot = cache[x].slot
                       /\ Dirty(x)' <=> (Dirty(x) /\ x # k)
                       /\ View(x)' = View(x)
  <2>1. \A x \in Keys : /\ cache'[x] # None <=> cache[x] # None
                        /\ cache[x] # None => cache'[x].slot = cache[x].slot
    BY <1>9
  <2>2. \A x \in Keys : Dirty(x)' <=> (Dirty(x) /\ x # k)
    BY <1>9 DEF Dirty
  <2>3. \A x \in Keys : View(x)' = View(x)
    BY <1>2, <2>1 DEF View
  <2> QED  BY <2>1, <2>2, <2>3
<1>11. \A x : x \in DOMAIN n <=> (x \in DOMAIN o \/ (x = k /\ Dirty(k)))
  BY <1>9
<1>12. GateInv'
  BY <1>1, <1>2, <1>3, <1>5, GateFrame
<1>13. task[Main].pc = "done" => task'[Main].pc = "done"
  BY <1>2, ThreadFacts DEF Moves
<1>14. StoreInv'
  <2>1. OthersInv'
    BY <1>1, <1>2, <1>10, KeyFacts DEF StoreInv, OthersInv
  <2>2. BatchInv'
    <3>1. /\ \A x \in DOMAIN o : cache[x] # None /\ cache[x].slot = o[x]
          /\ \A x \in Keys \ Beside(t) : Dirty(x) => x \in task[t].todo
      BY <1>1, <1>2 DEF StoreInv, BatchInv, o
    <3>2. \A x \in DOMAIN o : x \in Keys
      BY <1>1, TaskTypes DEF Values, o
    <3>3. \A x \in DOMAIN n : cache'[x] # None /\ cache'[x].slot = n[x]
      BY <1>9, <1>10, <1>11, <3>1, <3>2
    <3>4. \A x \in Keys \ Beside(t) : Dirty(x)' => x \in task'[t].todo
      BY <1>4, <1>10, <3>1
    <3> QED  BY <1>7, <3>3, <3>4 DEF BatchInv, n
  <2>3. CleanInv'
    <3> SUFFICES ASSUME NEW x \in Keys, cache'[x] # None, ~ cache'[x].dirty
                 PROVE  cache'[x].slot = disk[x] \/ Taken(task', x)
      BY <1>2 DEF CleanInv
    <3>1. CASE x = k /\ Dirty(k)
      BY <1>8, <1>11, <3>1
    <3>2. CASE ~ (x = k /\ Dirty(k))
      <4>1. cache'[x] = cache[x]
        BY <1>9, <3>2
      <4> QED  BY <1>1, <1>6, <1>8, <1>11, <4>1 DEF StoreInv, CleanInv
    <3> QED  BY <3>1, <3>2
  <2>4. FillInv'
    <3> SUFFICES ASSUME NEW u \in Threads, task'[u].pc = "fill"
                 PROVE  /\ cache'[task'[u].key] \in
                              {None, [slot |-> disk'[task'[u].key], dirty |-> FALSE]}
                        /\ ~ Taken(task', task'[u].key) /\ task'[u].val = disk'[task'[u].key]
                        /\ disk'[task'[u].key] # None
                        /\ ~ Runs(task'[u]) => task'[u].key = Header /\ task'[Main].pc = "done"
      BY DEF FillInv
    <3> DEFINE y == task[u].key
    <3>1. u # t /\ task'[u] = task[u]
      BY <1>2, <1>4 DEF Moves
    <3>2. /\ cache[y] \in {None, [slot |-> disk[y], dirty |-> FALSE]} /\ ~ Taken(task, y)
          /\ task[u].val = disk[y] /\ disk[y] # None
          /\ ~ Runs(task[u]) => y = Header /\ task[Main].pc = "done"
      BY <1>1, <3>1 DEF StoreInv, FillInv
    <3>3. y \in Keys
      BY <1>1, <3>1, KeyOfTask
    <3>4. ~ Dirty(y)
      <4>1. [slot |-> disk[y], dirty |-> FALSE].dirty = FALSE
        OBVIOUS
      <4> QED  BY <3>2, <4>1 DEF Dirty
    <3>5. cache'[y] = cache[y] /\ ~ Taken(task', y)
      BY <1>6, <1>8, <1>9, <1>11, <3>2, <3>3, <3>4
    <3> QED  BY <1>2, <1>13, <3>1, <3>2, <3>5
  <2>5. RoomInv'
    BY <1>1, <1>2, <1>10, <1>13, KeyFacts DEF StoreInv, RoomInv
  <2>6. EndInv'
    <3> SUFFICES ASSUME \/ task'[Main].pc = "release" /\ task'[Main].ok
                        \/ task'[Main].pc \in {"evict", "done"}
                 PROVE  ~ Dirty(Header)' /\ ~ Taken(task', Header)
      BY DEF EndInv
    <3>1. task'[Main] = task[Main]
      BY <1>2, <1>4, ThreadFacts DEF Moves
    <3>2. ~ Dirty(Header) /\ ~ Taken(task, Header) /\ Header \in Keys
      BY <1>1, <3>1, KeyFacts DEF StoreInv, EndInv
    <3> QED  BY <1>6, <1>8, <1>10, <1>11, <3>2
  <2> QED  BY <2>1, <2>2, <2>3, <2>4, <2>5, <2>6 DEF StoreInv
<1>15. TipInv'
  <2>1. Record \in Keys /\ Height \in Keys
    BY KeyFacts
  <2>2. task'[Main].pc = "height" => task[Main].pc = "height"
    BY <1>2, <1>4, ThreadFacts DEF Moves
  <2>3. /\ disk'[Height] # None => disk'[Record] # None
        /\ cache'[Height] # None => View(Record)' # None
        /\ task'[Main].pc = "height" => View(Record)' # None
    BY <1>1, <1>2, <1>10, <2>1, <2>2 DEF TipInv
  <2>4. ASSUME Height \in task'[t].todo \cup DOMAIN n
        PROVE  \/ disk[Record] # None \/ Record \in DOMAIN n
               \/ Dirty(Record)' /\ Record \in task'[t].todo
    <3>1. Height \in task[t].todo \cup DOMAIN o
      BY <1>2, <1>4, <1>11, <2>4
    <3>2. \/ disk[Record] # None \/ Record \in DOMAIN o
          \/ Dirty(Record) /\ Record \in task[t].todo
      BY <1>1, <1>2, <3>1 DEF TipInv, o
    <3> QED  BY <1>4, <1>10, <1>11, <2>1, <3>2
  <2> QED  BY <1>2, <1>7, <2>3, <2>4 DEF TipInv, n
<1>16. TypeInv' /\ KindInv' /\ OrderInv' /\ SerialInv'
  <2>1. t = Main => /\ Early(task'[t].pc) <=> Early(task[t].pc)
                    /\ task'[t].pc = "parallel" <=> task[t].pc = "parallel"
                    /\ Late(task'[t].pc) => Late(task[t].pc)
                    /\ task'[t].pc \in {"archive", "claim"} => task'[t].ok
    BY <1>2, <1>4 DEF Early, Late
  <2>2. disk' \in [Keys -> Slots] /\ flush_active' \in BOOLEAN
    BY <1>1, <1>2 DEF TypeInv, GateSame
  <2>3. \A x \in Accounts : Views'[x] = Views[x]
    BY <1>10, KeyFacts DEF Views
  <2>4. Kind(setup, Size, t, task'[t])
    BY <1>2, <1>3, <1>4, <1>5, FlushKind
  <2> HIDE DEF Views
  <2> QED  BY <1>1, <1>2, <1>3, <1>4, <1>9, <2>1, <2>2, <2>3, <2>4, ViewFrame
<1> QED  BY <1>12, <1>14, <1>15, <1>16 DEF Live

\* What a flusher's next step is, when its batch has been tried.
LEMMA WrittenFrame ==
  ASSUME TypeInv, KindInv, OrderInv, GateInv, SerialInv, setup' = setup, NEW t \in Threads,
         Moves(t), BlockSame, GateSame, journal' = journal,
         task[t].pc = "gather", task'[t].pc = "release", task'[t].tx = task[t].tx,
         cache' \in [Keys -> Entries], disk' \in [Keys -> Slots],
         \A x \in Keys : View(x)' = View(x)
  PROVE  TypeInv' /\ KindInv' /\ OrderInv' /\ GateInv' /\ SerialInv'
<1>1. /\ t = Main \/ t \in Handlers
      /\ ~ Runs(task[t]) /\ ~ Holding(task[t]) /\ Kind(setup, Size, t, task[t])
  BY FlusherIs
<1>2. ~ Runs(task'[t]) /\ ~ Holding(task'[t]) /\ Flushing(task'[t]) /\ Flushing(task[t])
  BY <1>1 DEF Runs, Holding, Access, Flushing
<1>3. GateInv'
  BY <1>1, <1>2, GateFrame
<1>4. t = Main => /\ Early(task'[t].pc) <=> Early(task[t].pc)
                  /\ task'[t].pc = "parallel" <=> task[t].pc = "parallel"
                  /\ Late(task'[t].pc) => Late(task[t].pc)
                  /\ task'[t].pc \in {"archive", "claim"} => task'[t].ok
  BY DEF Early, Late
<1>5. flush_active' \in BOOLEAN
  BY DEF TypeInv, GateSame
<1>6. \A x \in Accounts : Views'[x] = Views[x]
  BY KeyFacts DEF Views
<1>7. Kind(setup, Size, t, task'[t])
  BY <1>1, <1>2, FlushKind
<1> HIDE DEF Views
<1>8. TypeInv' /\ KindInv' /\ OrderInv' /\ SerialInv'
  BY <1>1, <1>4, <1>5, <1>6, <1>7, ViewFrame
<1> QED  BY <1>3, <1>8

\* The batch is on the disk.
LEMMA WriteSucceeds ==
  ASSUME Live, setup' = setup, NEW t \in Threads, Moves(t), BlockSame, GateSame,
         journal' = journal, task[t].pc = "gather", task[t].todo = {},
         disk' = Written(task[t].batch), cache' = cache,
         task'[t].pc = "release", task'[t].tx = task[t].tx, task'[t].batch = task[t].batch
  PROVE  /\ Live'
         /\ \A x \in Keys : View(x)' = View(x)
         /\ \A x \in Keys \ Beside(t) : disk'[x] = View(x)
<1> DEFINE o == task[t].batch
<1>1. TypeInv /\ KindInv /\ OrderInv /\ GateInv /\ StoreInv /\ TipInv /\ SerialInv
  BY DEF Live
<1>2. /\ \A u \in Threads : task[u].pc = "gather" => u = t
      /\ \A x : Taken(task, x) <=> x \in DOMAIN o
  BY <1>1, OneGathers DEF Flushing
<1>3. \A u \in Threads : task'[u].pc # "gather"
  BY <1>2 DEF Moves
<1>4. \A x : ~ Taken(task', x)
  BY <1>3 DEF Taken
<1>5. /\ \A x \in DOMAIN o : x \in Keys /\ o[x] \in Slots /\ cache[x] # None /\ cache[x].slot = o[x]
      /\ \A x \in Keys \ Beside(t) : ~ Dirty(x)
  <2>1. \A x \in DOMAIN o : x \in Keys /\ o[x] \in Slots
    BY <1>1, TaskTypes DEF Values
  <2> QED  BY <1>1, <2>1 DEF StoreInv, BatchInv
<1> HIDE DEF o
<1>6. \A x \in Keys : disk'[x] = IF x \in DOMAIN o THEN o[x] ELSE disk[x]
  BY DEF Written, o
<1>7. \A x \in Keys : View(x)' = View(x)
  BY <1>5, <1>6 DEF View
<1>8. \A x \in Keys : cache[x] # None /\ ~ cache[x].dirty => cache[x].slot = disk'[x]
  BY <1>1, <1>2, <1>5, <1>6 DEF StoreInv, CleanInv
<1>9. \A x \in Keys \ Beside(t) : disk'[x] = View(x)
  <2> SUFFICES ASSUME NEW x \in Keys \ Beside(t) PROVE disk'[x] = View(x)
    OBVIOUS
  <2>1. CASE cache[x] = None
    BY <1>5, <1>6, <2>1 DEF View
  <2>2. CASE cache[x] # None
    BY <1>5, <1>8, <2>2 DEF View, Dirty
  <2> QED  BY <2>1, <2>2
<1>10. task[Main].pc = "done" => task'[Main].pc = "done"
  BY ThreadFacts DEF Moves
<1>11. Others \subseteq Keys /\ {Record, Height, Header, Proposal} = Others /\ Header # Proposal
       /\ Plain # None
  BY KeyFacts, NoneFacts
<1>12. StoreInv'
  <2>1. OthersInv'
    <3>1. \A x \in Others : /\ disk[x] \in {None, Plain}
                            /\ cache[x] # None => cache[x].slot = Plain
      BY <1>1 DEF StoreInv, OthersInv
    <3>2. \A x \in Others : disk'[x] \in {None, Plain}
      BY <1>5, <1>6, <1>11, <3>1
    <3> QED  BY <3>1, <3>2 DEF OthersInv
  <2>2. BatchInv'
    BY <1>3 DEF BatchInv
  <2>3. CleanInv'
    BY <1>8 DEF CleanInv
  <2>4. FillInv'
    <3> SUFFICES ASSUME NEW u \in Threads, task'[u].pc = "fill"
                 PROVE  /\ cache'[task'[u].key] \in
                              {None, [slot |-> disk'[task'[u].key], dirty |-> FALSE]}
                        /\ ~ Taken(task', task'[u].key) /\ task'[u].val = disk'[task'[u].key]
                        /\ disk'[task'[u].key] # None
                        /\ ~ Runs(task'[u]) => task'[u].key = Header /\ task'[Main].pc = "done"
      BY DEF FillInv
    <3> DEFINE y == task[u].key
    <3>1. u # t /\ task'[u] = task[u]
      BY DEF Moves
    <3>2. /\ cache[y] \in {None, [slot |-> disk[y], dirty |-> FALSE]} /\ ~ Taken(task, y)
          /\ task[u].val = disk[y] /\ disk[y] # None
          /\ ~ Runs(task[u]) => y = Header /\ task[Main].pc = "done"
      BY <1>1, <3>1 DEF StoreInv, FillInv
    <3>3. y \in Keys
      BY <1>1, <3>1, KeyOfTask
    <3>4. disk'[y] = disk[y]
      BY <1>2, <1>6, <3>2, <3>3
    <3> QED  BY <1>4, <1>10, <3>1, <3>2, <3>4
  <2>5. RoomInv'
    <3>1. \A x \in Keys : x \in DOMAIN o => cache[x] # None
      BY <1>5
    <3>2. \A x \in Keys : cache[x] = None => disk'[x] = disk[x]
      BY <1>5, <1>6
    <3> QED  BY <1>1, <1>10, <1>11, <3>2 DEF StoreInv, RoomInv
  <2>6. EndInv'
    <3> SUFFICES ASSUME \/ task'[Main].pc = "release" /\ task'[Main].ok
                        \/ task'[Main].pc \in {"evict", "done"}
                 PROVE  ~ Dirty(Header)'
      BY <1>4 DEF EndInv
    <3>1. CASE t = Main
      BY <1>5, <1>11, <3>1 DEF Beside, Dirty
    <3>2. CASE t # Main
      <4>1. task'[Main] = task[Main]
        BY <3>2, ThreadFacts DEF Moves
      <4> QED  BY <1>1, <4>1 DEF StoreInv, EndInv, Dirty
    <3> QED  BY <3>1, <3>2
  <2> QED  BY <2>1, <2>2, <2>3, <2>4, <2>5, <2>6 DEF StoreInv
<1>13. TipInv'
  <2>1. Record \in Others /\ Record \in Keys /\ Height \in Keys
    BY <1>11
  <2>2. Record \in DOMAIN o => disk'[Record] = Plain
    BY <1>1, <1>5, <1>6, <2>1 DEF StoreInv, OthersInv
  <2>3. disk[Record] # None => disk'[Record] # None
    BY <1>6, <1>11, <2>1, <2>2
  <2>4. Height \in DOMAIN o => disk'[Record] # None
    <3>1. Height \in DOMAIN o => disk[Record] # None \/ Record \in DOMAIN o
      BY <1>1 DEF TipInv, o
    <3> QED  BY <1>11, <2>2, <2>3, <3>1
  <2>5. disk'[Height] # None => disk'[Record] # None
    BY <1>1, <1>6, <2>1, <2>3, <2>4 DEF TipInv
  <2>6. task'[Main].pc = "height" => task[Main].pc = "height"
    BY ThreadFacts DEF Moves
  <2> QED  BY <1>1, <1>3, <1>7, <2>1, <2>5, <2>6 DEF TipInv
<1>14. TypeInv' /\ KindInv' /\ OrderInv' /\ GateInv' /\ SerialInv'
  <2>1. disk' \in [Keys -> Slots]
    <3>1. \A x \in Keys : disk'[x] \in Slots
      BY <1>1, <1>5, <1>6 DEF TypeInv
    <3>2. disk' = [x \in Keys |-> disk'[x]]
      BY DEF Written
    <3> HIDE DEF Slots
    <3> QED  BY <3>1, <3>2
  <2>2. cache' \in [Keys -> Entries]
    BY <1>1 DEF TypeInv
  <2> QED  BY <1>1, <1>7, <2>1, <2>2, WrittenFrame
<1> QED  BY <1>7, <1>9, <1>12, <1>13, <1>14 DEF Live

\* The batch could not be written: its keys are dirty again.
LEMMA WriteFails ==
  ASSUME Live, setup' = setup, NEW t \in Threads, Moves(t), BlockSame, GateSame,
         journal' = journal, task[t].pc = "gather", disk' = disk,
         cache' = [k \in Keys |-> IF k \in DOMAIN task[t].batch /\ cache[k] # None
                                  THEN [cache[k] EXCEPT !.dirty = TRUE] ELSE cache[k]],
         task'[t].pc = "release", task'[t].tx = task[t].tx, task'[t].ok = FALSE
  PROVE  Live'
<1> DEFINE o == task[t].batch
<1>1. TypeInv /\ KindInv /\ OrderInv /\ GateInv /\ StoreInv /\ TipInv /\ SerialInv
  BY DEF Live
<1>2. /\ \A u \in Threads : task[u].pc = "gather" => u = t
      /\ \A x : Taken(task, x) <=> x \in DOMAIN o
  BY <1>1, OneGathers DEF Flushing
<1>3. \A u \in Threads : task'[u].pc # "gather"
  BY <1>2 DEF Moves
<1>4. \A x : ~ Taken(task', x)
  BY <1>3 DEF Taken
<1> HIDE DEF o
<1>5. ASSUME NEW k \in Keys
      PROVE  /\ cache'[k] \in Entries
             /\ cache'[k] # None <=> cache[k] # None
             /\ cache[k] # None => cache'[k].slot = cache[k].slot
             /\ k \notin DOMAIN o => cache'[k] = cache[k]
             /\ k \in DOMAIN o /\ cache[k] # None => cache'[k].dirty
  <2>1. CASE k \in DOMAIN o /\ cache[k] # None
    <3> DEFINE e == [cache[k] EXCEPT !.dirty = TRUE]
    <3>1. cache[k] \in [slot : Slots, dirty : BOOLEAN]
      BY <1>1, <2>1, ViewTypes
    <3>2. e \in [slot : Slots, dirty : BOOLEAN] /\ e.slot = cache[k].slot /\ e.dirty = TRUE
      <4> HIDE DEF Slots
      <4> QED  BY <3>1
    <3>3. cache'[k] = e
      BY <2>1 DEF o
    <3> HIDE DEF e
    <3> QED  BY <2>1, <3>2, <3>3, NoneFacts DEF Entries
  <2>2. CASE ~ (k \in DOMAIN o /\ cache[k] # None)
    <3>1. cache'[k] = cache[k]
      BY <2>2 DEF o
    <3> QED  BY <1>1, <2>2, <3>1 DEF TypeInv
  <2> QED  BY <2>1, <2>2
<1>6. cache' \in [Keys -> Entries]
  <2>1. cache' = [k \in Keys |-> cache'[k]]
    OBVIOUS
  <2> HIDE DEF Entries
  <2> QED  BY <1>5, <2>1
<1>7. \A k \in Keys : View(k)' = View(k)
  <2> SUFFICES ASSUME NEW k \in Keys PROVE View(k)' = View(k)
    OBVIOUS
  <2>1. disk'[k] = disk[k]
    OBVIOUS
  <2>2. (cache'[k] # None <=> cache[k] # None)
      /\ (cache[k] # None => cache'[k].slot = cache[k].slot)
    BY <1>5
  <2> QED  BY <2>1, <2>2, Zenon DEF View
<1>8. task[Main].pc = "done" => task'[Main].pc = "done"
  BY ThreadFacts DEF Moves
<1>9. {Record, Height, Header, Proposal} = Others /\ Others \subseteq Keys
  BY KeyFacts
<1>10. StoreInv'
  <2>1. OthersInv'
    BY <1>1, <1>5, <1>9 DEF StoreInv, OthersInv
  <2>2. BatchInv'
    BY <1>3 DEF BatchInv
  <2>3. CleanInv'
    <3> SUFFICES ASSUME NEW x \in Keys, cache'[x] # None, ~ cache'[x].dirty
                 PROVE  cache'[x].slot = disk[x]
      BY DEF CleanInv
    <3>1. x \notin DOMAIN o /\ cache'[x] = cache[x]
      BY <1>5
    <3> QED  BY <1>1, <1>2, <3>1 DEF StoreInv, CleanInv
  <2>4. FillInv'
    <3> SUFFICES ASSUME NEW u \in Threads, task'[u].pc = "fill"
                 PROVE  /\ cache'[task'[u].key] \in
                              {None, [slot |-> disk'[task'[u].key], dirty |-> FALSE]}
                        /\ ~ Taken(task', task'[u].key) /\ task'[u].val = disk'[task'[u].key]
                        /\ disk'[task'[u].key] # None
                        /\ ~ Runs(task'[u]) => task'[u].key = Header /\ task'[Main].pc = "done"
      BY DEF FillInv
    <3> DEFINE y == task[u].key
    <3>1. u # t /\ task'[u] = task[u]
      BY DEF Moves
    <3>2. /\ cache[y] \in {None, [slot |-> disk[y], dirty |-> FALSE]} /\ ~ Taken(task, y)
          /\ task[u].val = disk[y] /\ disk[y] # None
          /\ ~ Runs(task[u]) => y = Header /\ task[Main].pc = "done"
      BY <1>1, <3>1 DEF StoreInv, FillInv
    <3>3. y \in Keys
      BY <1>1, <3>1, KeyOfTask
    <3>4. cache'[y] = cache[y]
      BY <1>2, <1>5, <3>2, <3>3
    <3> QED  BY <1>4, <1>8, <3>1, <3>2, <3>4
  <2>5. RoomInv'
    BY <1>1, <1>5, <1>8, <1>9 DEF StoreInv, RoomInv
  <2>6. EndInv'
    <3> SUFFICES ASSUME \/ task'[Main].pc = "release" /\ task'[Main].ok
                        \/ task'[Main].pc \in {"evict", "done"}
                 PROVE  ~ Dirty(Header)'
      BY <1>4 DEF EndInv
    <3>1. task'[Main] = task[Main]
      BY ThreadFacts DEF Moves
    <3>2. ~ Dirty(Header) /\ ~ Taken(task, Header)
      BY <1>1, <3>1 DEF StoreInv, EndInv
    <3>3. cache'[Header] = cache[Header]
      BY <1>2, <1>5, <1>9, <3>2
    <3> QED  BY <3>2, <3>3 DEF Dirty
  <2> QED  BY <2>1, <2>2, <2>3, <2>4, <2>5, <2>6 DEF StoreInv
<1>11. TipInv'
  <2>1. Record \in Keys /\ Height \in Keys
    BY <1>9
  <2>2. task'[Main].pc = "height" => task[Main].pc = "height"
    BY ThreadFacts DEF Moves
  <2>3. View(Record)' = View(Record) /\ (cache'[Height] # None <=> cache[Height] # None)
    BY <1>5, <1>7, <2>1
  <2> QED  BY <1>1, <1>3, <2>2, <2>3 DEF TipInv
<1>12. TypeInv' /\ KindInv' /\ OrderInv' /\ GateInv' /\ SerialInv'
  <2>1. disk' \in [Keys -> Slots]
    BY <1>1 DEF TypeInv
  <2> QED  BY <1>1, <1>6, <1>7, <2>1, WrittenFrame
<1> QED  BY <1>10, <1>11, <1>12 DEF Live

\* The batch is written, or it is not.
LEMMA WriteBatchKeeps ==
  ASSUME Live, setup' = setup, NEW t \in Threads, WriteBatch(t)
  PROVE  Live'
<1>1. TypeInv /\ KindInv
  BY DEF Live
<1>2. /\ Moves(t) /\ BlockSame /\ GateSame /\ journal' = journal
      /\ task[t].pc = "gather" /\ task[t].todo = {}
      /\ \/ /\ disk' = Written(task[t].batch) /\ cache' = cache
            /\ Doing(task'[t], "release", task[t].ret, task[t].key, task[t].val, task[t].tx,
                     task[t].todo, task[t].batch, task[t].ok)
         \/ /\ disk' = disk
            /\ cache' = [k \in Keys |-> IF k \in DOMAIN task[t].batch /\ cache[k] # None
                                        THEN [cache[k] EXCEPT !.dirty = TRUE] ELSE cache[k]]
            /\ Doing(task'[t], "release", task[t].ret, task[t].key, task[t].val, task[t].tx,
                     task[t].todo, task[t].batch, FALSE)
  BY <1>1, WriteBatchEffect
<1>3. CASE disk' = Written(task[t].batch) /\ cache' = cache
           /\ Doing(task'[t], "release", task[t].ret, task[t].key, task[t].val, task[t].tx,
                    task[t].todo, task[t].batch, task[t].ok)
  <2>1. task'[t].pc = "release" /\ task'[t].tx = task[t].tx /\ task'[t].batch = task[t].batch
    BY <1>3 DEF Doing
  <2> QED  BY <1>2, <1>3, <2>1, WriteSucceeds
<1>4. CASE /\ disk' = disk
           /\ cache' = [k \in Keys |-> IF k \in DOMAIN task[t].batch /\ cache[k] # None
                                       THEN [cache[k] EXCEPT !.dirty = TRUE] ELSE cache[k]]
           /\ Doing(task'[t], "release", task[t].ret, task[t].key, task[t].val, task[t].tx,
                    task[t].todo, task[t].batch, FALSE)
  <2>1. task'[t].pc = "release" /\ task'[t].tx = task[t].tx /\ task'[t].ok = FALSE
    BY <1>4 DEF Doing
  <2> QED  BY <1>2, <1>4, <2>1, WriteFails
<1> QED  BY <1>2, <1>3, <1>4

\* A flush ends; the committing thread goes on only if its batch was written.
LEMMA ReleaseKeeps ==
  ASSUME Live, setup' = setup, NEW t \in Threads, Release(t), t = Main => task[t].ok
  PROVE  Live'
<1> DEFINE p == IF t = Main THEN "evict" ELSE "done"
<1>1. TypeInv /\ KindInv /\ OrderInv /\ GateInv /\ StoreInv /\ TipInv /\ SerialInv
  BY DEF Live
<1>2. /\ BlockSame /\ StoreSame /\ journal' = journal /\ open_checkpoints' = open_checkpoints
      /\ task[t].pc = "release" /\ flush_active' = FALSE
      /\ Moves(t) /\ Doing(task'[t], p, "idle", None, None, 0, {}, <<>>, TRUE)
  BY <1>1, ReleaseEffect
<1>3. /\ t = Main \/ t \in Handlers
      /\ ~ Runs(task[t]) /\ ~ Holding(task[t]) /\ Kind(setup, Size, t, task[t])
  BY <1>1, <1>2, FlusherIs
<1>4. /\ task'[t].pc = p /\ ~ Runs(task'[t]) /\ ~ Holding(task'[t]) /\ ~ Flushing(task'[t])
      /\ Flushing(task[t]) /\ DOMAIN task'[t].batch = {}
  BY <1>2, EmptyValue DEF Runs, Holding, Access, Flushing, Doing
<1>5. GateInv'
  <2>1. HoldingSet' = HoldingSet
    BY <1>2, <1>3, <1>4 DEF HoldingSet, Moves
  <2>2. open_checkpoints' = Cardinality(HoldingSet')
    BY <1>1, <1>2, <2>1 DEF GateInv
  <2>3. \A u \in Threads : ~ Holding(task[u]) /\ (Flushing(task[u]) => u = t)
    BY <1>1, <1>4 DEF GateInv
  <2>4. \A u \in Threads : ~ Holding(task'[u]) /\ ~ Flushing(task'[u])
                           /\ DOMAIN task'[u].batch = {}
    BY <1>1, <1>2, <1>4, <2>3 DEF Moves, GateInv
  <2> QED  BY <2>2, <2>4 DEF GateInv
<1>6. Kind(setup, Size, t, task'[t])
  BY <1>2, <1>3, <1>4, ThreadFacts, FlushKind
<1>7. t = Main => /\ task[t].pc # "done" /\ (Past(task'[t]) => Past(task[t]))
                  /\ task'[t].pc # "height"
                  /\ task'[t].pc \in {"archive", "claim"} => task'[t].ok
                  /\ Early(task'[t].pc) <=> Early(task[t].pc)
                  /\ task'[t].pc = "parallel" <=> task[t].pc = "parallel"
                  /\ Late(task'[t].pc) => Late(task[t].pc)
  BY <1>2, <1>4 DEF Past, Early, Late
<1>8. TypeInv' /\ KindInv' /\ OrderInv' /\ StoreInv' /\ TipInv' /\ SerialInv'
  <2>1. /\ flush_active' \in BOOLEAN /\ task'[t].pc # "gather" /\ task[t].pc # "gather"
        /\ task'[t].pc # "fill"
    BY <1>2, <1>4
  <2> QED  BY <1>2, <1>3, <1>4, <1>6, <1>7, <2>1, RestFrame
<1> QED  BY <1>5, <1>8 DEF Live

\* A query of the RPC server.
LEMMA QueryKeeps ==
  ASSUME Live, setup' = setup, NEW t \in Readers, NEW k \in setup.queried, Query(t, k)
  PROVE  Live'
<1>1. TypeInv /\ KindInv /\ OrderInv /\ GateInv /\ StoreInv /\ TipInv /\ SerialInv
  BY DEF Live
<1>2. k \in Keys /\ t \in Threads /\ t # Main
  BY <1>1, ThreadFacts, StoreAssumption DEF StoreAssumption, TypeInv
<1>3. /\ Moves(t) /\ BlockSame /\ StoreSame /\ GateSame /\ journal' = journal
      /\ task[t].pc = "idle"
      /\ Doing(task'[t], "lookup", "done", k, None, 0, {}, <<>>, TRUE)
  BY <1>1, <1>2, QueryEffect
<1>4. Kind(setup, Size, t, task[t])
  BY <1>1, <1>2 DEF KindInv
<1>5. /\ ~ Runs(task[t]) /\ ~ Runs(task'[t]) /\ ~ Holding(task[t]) /\ ~ Holding(task'[t])
      /\ ~ Flushing(task'[t]) /\ task'[t].pc = "lookup" /\ DOMAIN task'[t].batch = {}
  BY <1>3, <1>4, EmptyValue DEF Runs, Holding, Access, Flushing, Doing, Kind, Asking
<1>6. Kind(setup, Size, t, task'[t])
  <2>1. Asking(setup, task'[t]) /\ ~ Alone(setup)
    BY <1>3, <1>5 DEF Asking, Alone, Doing
  <2> QED  BY <1>2, <2>1, ThreadFacts DEF Kind
<1>7. GateInv'
  BY <1>1, <1>2, <1>3, <1>5, GateFrame
<1>8. TypeInv' /\ KindInv' /\ OrderInv' /\ StoreInv' /\ TipInv' /\ SerialInv'
  <2>1. /\ flush_active' \in BOOLEAN /\ task'[t].pc # "gather" /\ task[t].pc # "gather"
        /\ task'[t].pc # "fill"
    BY <1>1, <1>3, <1>5 DEF TypeInv, GateSame
  <2> QED  BY <1>2, <1>3, <1>5, <1>6, <2>1, RestFrame
<1> QED  BY <1>7, <1>8 DEF Live

\* The archived header leaves the cache; it is on the disk.
LEMMA EvictArchiveKeeps ==
  ASSUME Live, setup' = setup, EvictArchive
  PROVE  Live'
<1> DEFINE t == Main
<1>1. TypeInv /\ KindInv /\ OrderInv /\ GateInv /\ StoreInv /\ TipInv /\ SerialInv
  BY DEF Live
<1>2. /\ Moves(t) /\ BlockSame /\ GateSame /\ journal' = journal /\ disk' = disk
      /\ cache' = [cache EXCEPT ![Header] = None]
      /\ task[t].pc = "evict"
      /\ Doing(task'[t], "done", task[t].ret, task[t].key, task[t].val, task[t].tx,
               task[t].todo, task[t].batch, task[t].ok)
  BY <1>1, EvictArchiveEffect
<1>3. t \in Threads /\ Header \in Keys /\ Header \notin Accounts
      /\ Height # Header /\ Record # Header /\ Record \in Keys /\ Height \in Keys
  BY ThreadFacts, KeyFacts
<1>4. /\ cache' \in [Keys -> Entries] /\ cache'[Header] = None
      /\ \A k \in Keys : k # Header => cache'[k] = cache[k]
  <2>1. cache \in [Keys -> Entries] /\ None \in Entries
    BY <1>1 DEF TypeInv, Entries
  <2> HIDE DEF Entries
  <2> QED  BY <1>2, <1>3, <2>1
<1>5. /\ \A k \in Keys : k # Header => View(k)' = View(k)
      /\ ~ Taken(task, Header)
  BY <1>1, <1>2, <1>4 DEF View, StoreInv, EndInv
<1>6. /\ ~ Runs(task[t]) /\ ~ Runs(task'[t]) /\ ~ Holding(task[t]) /\ ~ Holding(task'[t])
      /\ ~ Flushing(task[t]) /\ ~ Flushing(task'[t]) /\ task'[t].pc = "done"
      /\ Kind(setup, Size, t, task[t])
  <2>1. ~ Runs(task[t])
    BY <1>1, <1>2, <1>3, RunsIs, RunningPcs
  <2> QED  BY <1>1, <1>2, <1>3, <2>1 DEF Runs, Holding, Access, Flushing, Doing, KindInv
<1>7. Kind(setup, Size, t, task'[t])
  BY <1>6, ThreadFacts DEF Kind, Resting, Late
<1>8. GateInv'
  <2>1. DOMAIN task'[t].batch = {}
    BY <1>1, <1>2, <1>3, <1>6 DEF GateInv, Doing
  <2> QED  BY <1>1, <1>2, <1>3, <1>6, <2>1, GateFrame
<1>9. \A k : Taken(task', k) <=> Taken(task, k)
  BY <1>2, <1>3, <1>6 DEF Taken, Moves
<1>10. \A u \in Threads : task'[u].pc # "fill"
  <2> SUFFICES ASSUME NEW u \in Threads, task[u].pc = "fill" PROVE FALSE
    BY <1>2, <1>6 DEF Moves
  <2>1. Runs(task[u])
    BY <1>1, <1>2 DEF StoreInv, FillInv
  <2>2. u = Main \/ u \in Workers
    BY <1>1, <2>1, RunsIs
  <2> QED  BY <1>1, <1>2, <1>6, <2>1, <2>2 DEF OrderInv, TakenUpInv
<1>11. StoreInv'
  <2>1. OthersInv' /\ CleanInv'
    BY <1>1, <1>2, <1>4, <1>9, KeyFacts DEF StoreInv, OthersInv, CleanInv
  <2>2. BatchInv'
    <3> SUFFICES ASSUME NEW u \in Threads, task'[u].pc = "gather"
                 PROVE  /\ \A x \in DOMAIN task'[u].batch : /\ cache'[x] # None
                                                            /\ cache'[x].slot = task'[u].batch[x]
                        /\ \A x \in Keys \ Beside(u) : Dirty(x)' => x \in task'[u].todo
      BY DEF BatchInv
    <3>1. task'[u] = task[u]
      BY <1>2, <1>6 DEF Moves
    <3>2. \A x \in DOMAIN task[u].batch : x \in Keys /\ x # Header
      <4>1. \A x \in DOMAIN task[u].batch : x \in Keys
        BY <1>1, TaskTypes DEF Values
      <4> QED  BY <1>5, <3>1, <4>1 DEF Taken
    <3>3. \A x \in Keys : Dirty(x)' => Dirty(x)
      BY <1>4 DEF Dirty
    <3> QED  BY <1>1, <1>4, <3>1, <3>2, <3>3 DEF StoreInv, BatchInv
  <2>3. FillInv'
    BY <1>10 DEF FillInv
  <2>4. RoomInv'
    BY <1>1, <1>2, <1>4, <1>6 DEF StoreInv, RoomInv
  <2>5. EndInv'
    BY <1>4, <1>5, <1>9 DEF EndInv, Dirty
  <2> QED  BY <2>1, <2>2, <2>3, <2>4, <2>5 DEF StoreInv
<1>12. TipInv'
  <2>1. \A u \in Threads : task'[u].pc = "gather" => task'[u] = task[u]
    BY <1>2, <1>6 DEF Moves
  <2>2. View(Record)' = View(Record) /\ cache'[Height] = cache[Height]
        /\ (Dirty(Record) => Dirty(Record)')
    BY <1>3, <1>4, <1>5 DEF Dirty
  <2>3. \A u \in Threads : (/\ task[u].pc = "gather"
                            /\ Height \in task[u].todo \cup DOMAIN task[u].batch) =>
          \/ disk[Record] # None \/ Record \in DOMAIN task[u].batch
          \/ Dirty(Record) /\ Record \in task[u].todo
    BY <1>1 DEF TipInv
  <2>4. \A u \in Threads : (/\ task'[u].pc = "gather"
                            /\ Height \in task'[u].todo \cup DOMAIN task'[u].batch) =>
          \/ disk'[Record] # None \/ Record \in DOMAIN task'[u].batch
          \/ Dirty(Record)' /\ Record \in task'[u].todo
    BY <1>2, <2>1, <2>2, <2>3
  <2>5. task'[Main].pc # "height"
    BY <1>6
  <2> QED  BY <1>1, <1>2, <2>2, <2>4, <2>5 DEF TipInv
<1>13. TypeInv' /\ KindInv' /\ OrderInv' /\ SerialInv'
  <2>1. /\ Early(task'[t].pc) <=> Early(task[t].pc)
        /\ task'[t].pc = "parallel" <=> task[t].pc = "parallel"
        /\ Late(task'[t].pc) => Late(task[t].pc)
        /\ task'[t].pc \in {"archive", "claim"} => task'[t].ok
    BY <1>2, <1>6 DEF Early, Late
  <2>2. disk' \in [Keys -> Slots] /\ flush_active' \in BOOLEAN
    BY <1>1, <1>2 DEF TypeInv, GateSame
  <2>3. \A x \in Accounts : Views'[x] = Views[x]
    BY <1>3, <1>5, KeyFacts DEF Views
  <2>4. task'[t].tx = task[t].tx
    BY <1>2 DEF Doing
  <2> HIDE DEF Views
  <2> QED  BY <1>1, <1>2, <1>3, <1>4, <1>6, <1>7, <2>1, <2>2, <2>3, <2>4, ViewFrame
<1> QED  BY <1>8, <1>11, <1>12, <1>13 DEF Live

\* A record outside the accounts is set by a thread that runs no transaction, and
\* by a bridge request only if everything fits into the cache.
LEMMA PlainSets ==
  ASSUME Live, Undisturbed, setup' = setup, BlockSame, NEW t \in Threads, Moves(t),
         NEW k \in Others, SetAccount(t, k, Plain),
         ~ Runs(task[t]), task'[t].tx = task[t].tx, task'[t].batch = task[t].batch,
         task[t].pc \in {"idle", "record", "height", "archive"},
         task'[t].pc \in {"height", "classify", "claim"},
         Kind(setup, Size, t, task'[t]),
         t # Main => k = Proposal /\ Roomy(setup),
         k = Height => View(Record) # None,
         t = Main => /\ Early(task'[t].pc) <=> Early(task[t].pc)
                     /\ task'[t].pc \in {"archive", "claim"} => task'[t].ok
                     /\ Late(task'[t].pc) => Late(task[t].pc)
                     /\ task'[t].pc = "height" => k = Record
  PROVE  Live'
<1>1. TypeInv /\ KindInv /\ OrderInv /\ GateInv /\ StoreInv /\ TipInv /\ SerialInv
  BY DEF Live
<1>2. ~ Runs(task'[t])
  BY DEF Runs
<1>3. k \in Keys /\ Plain \in Slots /\ k \notin Accounts
  BY KeyFacts, NoneFacts
<1>4. journal[t] = None
  BY <1>1 DEF SerialInv, Journal
<1>5. /\ journal' = journal /\ disk' = disk /\ GateSame
      /\ cache' \in Evictions([cache EXCEPT ![k] = [slot |-> Plain, dirty |-> TRUE]])
  BY <1>4 DEF SetAccount, GateSame
<1>6. SetsTo(k, Plain, TRUE)
  BY <1>1, <1>3, <1>5, SetCache
<1>7. ~ Roomy(setup) => \A x \in Keys : ~ Taken(task, x)
  <2> SUFFICES ASSUME ~ Roomy(setup) PROVE task[Main].pc # "gather"
    BY <1>1, NoneTaken
  <2> QED  OBVIOUS
<1>8. \A u \in Threads : task[u].pc = "gather" => k \in Beside(u)
  <2> SUFFICES ASSUME NEW u \in Threads, task[u].pc = "gather" PROVE k \in Beside(u)
    OBVIOUS
  <2> QED  BY KeyFacts DEF Beside
<1>9. \A u \in Threads : u # t /\ task[u].pc = "fill" => task[u].key # k /\ task[u].key \in Keys
  <2> SUFFICES ASSUME NEW u \in Threads, u # t, task[u].pc = "fill"
               PROVE  task[u].key # k /\ task[u].key \in Keys
    OBVIOUS
  <2>1. task[u].key \in Keys
    BY <1>1, KeyOfTask
  <2>2. CASE Runs(task[u])
    <3>1. Running(Size, u, task[u])
      BY <1>1, <2>2, RunsIs
    <3>2. task[u].key \in Accounts
      BY <3>1 DEF Running
    <3> QED  BY <1>3, <2>1, <3>2
  <2>3. CASE ~ Runs(task[u])
    <3>1. task[u].key = Header /\ task[Main].pc = "done"
      BY <1>1, <2>3 DEF StoreInv, FillInv
    <3>2. t # Main
      BY <3>1
    <3> QED  BY <2>1, <3>1, <3>2, KeyFacts
  <2> QED  BY <2>2, <2>3
<1>10. /\ task[t].pc # "gather" /\ task'[t].pc # "gather" /\ task'[t].pc # "fill"
       /\ t = Main => task[t].pc # "done" /\ task'[t].pc \notin {"release", "evict", "done"}
       /\ task[Main].pc \in {"release", "evict", "done"} => k # Header
       /\ k \in Others => Plain = Plain
  BY KeyFacts
<1>11. StoreInv'
  BY <1>1, <1>3, <1>5, <1>6, <1>7, <1>8, <1>9, <1>10, StoreSets
<1>12. TipInv'
  <2>1. CleanInv
    BY <1>1 DEF StoreInv
  <2>2. t = Main /\ task'[t].pc = "height" => k = Record
    OBVIOUS
  <2> QED  BY <1>1, <1>3, <1>5, <1>6, <1>7, <1>10, <2>1, <2>2, TipSets
<1>13. /\ ~ Holding(task'[t]) /\ ~ Holding(task[t]) /\ ~ Flushing(task'[t]) /\ ~ Flushing(task[t])
  BY DEF Holding, Flushing, Access
<1>14. GateInv'
  <2>1. DOMAIN task'[t].batch = {}
    BY <1>1, <1>13 DEF GateInv
  <2> QED  BY <1>1, <1>5, <1>13, <2>1, GateFrame
<1>15. \A x \in Accounts : Views'[x] = Views[x]
  <2>1. \A x \in Keys : x # k => Views'[x] = Views[x]
    <3>1. CleanInv
      BY <1>1 DEF StoreInv
    <3> HIDE DEF Views
    <3> QED  BY <1>1, <1>3, <1>5, <1>6, <1>7, <3>1, SetView
  <2> HIDE DEF Views
  <2> QED  BY <1>3, <2>1, KeyFacts
<1>16. TypeInv' /\ KindInv' /\ OrderInv' /\ SerialInv'
  <2>1. cache' \in [Keys -> Entries] /\ disk' \in [Keys -> Slots] /\ flush_active' \in BOOLEAN
    BY <1>1, <1>5, <1>6 DEF SetsTo, TypeInv, GateSame
  <2>2. t = Main => /\ Early(task'[t].pc) <=> Early(task[t].pc)
                    /\ task'[t].pc = "parallel" <=> task[t].pc = "parallel"
                    /\ Late(task'[t].pc) => Late(task[t].pc)
                    /\ task'[t].pc \in {"archive", "claim"} => task'[t].ok
    OBVIOUS
  <2> HIDE DEF Views
  <2> QED  BY <1>1, <1>5, <1>15, <2>1, <2>2, ViewFrame
<1> QED  BY <1>11, <1>12, <1>14, <1>16 DEF Live

\* The committing thread runs no transaction at these places.
LEMMA MainRests ==
  ASSUME KindInv,
         task[Main].pc \notin {"lookup", "fill", "nonce", "write", "open", "run", "close"}
  PROVE  ~ Runs(task[Main])
  BY ThreadFacts, RunsIs, RunningPcs

\* Store_consensus_records keeps what is true.
LEMMA StoreRecordKeeps ==
  ASSUME Live, Undisturbed, setup' = setup, StoreRecord
  PROVE  Live'
<1>1. TypeInv /\ KindInv
  BY DEF Live
<1>2. /\ Moves(Main) /\ BlockSame /\ SetAccount(Main, Record, Plain)
      /\ task[Main].pc = "record"
      /\ Doing(task'[Main], "height", task[Main].ret, task[Main].key, task[Main].val,
               task[Main].tx, task[Main].todo, task[Main].batch, task[Main].ok)
  BY <1>1, StoreRecordEffect
<1>3. Main \in Threads /\ Record \in Others /\ Record # Height
  BY ThreadFacts, KeyFacts
<1>4. ~ Runs(task[Main])
  BY <1>1, <1>2, MainRests
<1>5. /\ task'[Main].pc = "height" /\ task'[Main].tx = task[Main].tx
      /\ task'[Main].batch = task[Main].batch
  BY <1>2 DEF Doing
<1>6. Kind(setup, Size, Main, task'[Main])
  BY <1>3, <1>4, <1>5, ThreadFacts DEF Kind, Resting, Early, Runs
<1>7. /\ Early(task'[Main].pc) <=> Early(task[Main].pc)
      /\ Late(task'[Main].pc) => Late(task[Main].pc)
  BY <1>2, <1>5 DEF Early, Late
<1> QED  BY <1>2, <1>3, <1>4, <1>5, <1>6, <1>7, PlainSets

\* The height is written when its record is.
LEMMA WriteHeightKeeps ==
  ASSUME Live, Undisturbed, setup' = setup, WriteHeight
  PROVE  Live'
<1>1. TypeInv /\ KindInv /\ TipInv
  BY DEF Live
<1>2. /\ Moves(Main) /\ BlockSame /\ SetAccount(Main, Height, Plain)
      /\ task[Main].pc = "height"
      /\ Doing(task'[Main], "classify", task[Main].ret, task[Main].key, task[Main].val,
               task[Main].tx, task[Main].todo, task[Main].batch, task[Main].ok)
  BY <1>1, WriteHeightEffect
<1>3. Main \in Threads /\ Height \in Others
  BY ThreadFacts, KeyFacts
<1>4. ~ Runs(task[Main]) /\ View(Record) # None
  BY <1>1, <1>2, MainRests DEF TipInv
<1>5. /\ task'[Main].pc = "classify" /\ task'[Main].tx = task[Main].tx
      /\ task'[Main].batch = task[Main].batch
  BY <1>2 DEF Doing
<1>6. Kind(setup, Size, Main, task'[Main])
  BY <1>3, <1>4, <1>5, ThreadFacts DEF Kind, Resting, Early, Runs
<1>7. /\ Early(task'[Main].pc) <=> Early(task[Main].pc)
      /\ Late(task'[Main].pc) => Late(task[Main].pc)
  BY <1>2, <1>5 DEF Early, Late
<1> QED  BY <1>2, <1>3, <1>4, <1>5, <1>6, <1>7, PlainSets

\* So does the archived header; the root was the expected one.
LEMMA ArchiveKeeps ==
  ASSUME Live, Undisturbed, setup' = setup, Archive
  PROVE  Live'
<1>1. TypeInv /\ KindInv /\ SerialInv
  BY DEF Live
<1>2. BlockSame /\ SetAccount(Main, Header, Plain) /\ task[Main].pc = "archive"
  BY <1>1, ArchiveEffect
<1>3. task[Main].ok
  BY <1>1, <1>2 DEF SerialInv
<1>4. /\ Moves(Main)
      /\ Doing(task'[Main], "claim", task[Main].ret, task[Main].key, task[Main].val,
               task[Main].tx, task[Main].todo, task[Main].batch, task[Main].ok)
  BY <1>1, <1>3, ArchiveEffect
<1>5. Main \in Threads /\ Header \in Others /\ Header # Height
  BY ThreadFacts, KeyFacts
<1>6. ~ Runs(task[Main])
  BY <1>1, <1>2, MainRests
<1>7. /\ task'[Main].pc = "claim" /\ task'[Main].tx = task[Main].tx
      /\ task'[Main].batch = task[Main].batch /\ task'[Main].ok
  BY <1>3, <1>4 DEF Doing
<1>8. Kind(setup, Size, Main, task'[Main])
  BY <1>5, <1>6, <1>7, ThreadFacts DEF Kind, Resting, Late, Runs
<1>9. /\ Early(task'[Main].pc) <=> Early(task[Main].pc)
      /\ Late(task'[Main].pc) => Late(task[Main].pc)
  BY <1>2, <1>7 DEF Early, Late
<1> QED  BY <1>2, <1>4, <1>5, <1>6, <1>7, <1>8, <1>9, PlainSets

\* A bridge request comes in only where all fits into the cache.
LEMMA PersistKeeps ==
  ASSUME Live, Undisturbed, setup' = setup, NEW h \in Handlers, PersistProposal(h)
  PROVE  Live'
<1>1. TypeInv /\ KindInv
  BY DEF Live
<1>2. /\ Moves(h) /\ BlockSame /\ SetAccount(h, Proposal, Plain)
      /\ task[h].pc = "idle" /\ setup.requests
      /\ Doing(task'[h], "claim", task[h].ret, task[h].key, task[h].val, task[h].tx,
               task[h].todo, task[h].batch, task[h].ok)
  BY <1>1, PersistEffect
<1>3. h \in Threads /\ h # Main /\ Proposal \in Others /\ Proposal # Height
  BY ThreadFacts, KeyFacts
<1>4. ~ Runs(task[h])
  BY <1>1, <1>3 DEF KindInv, Kind, Requesting
<1>5. ~ Alone(setup) /\ Roomy(setup)
  BY <1>2 DEF Alone, Undisturbed
<1>6. /\ task'[h].pc = "claim" /\ task'[h].tx = task[h].tx /\ task'[h].batch = task[h].batch
  BY <1>2 DEF Doing
<1>7. Kind(setup, Size, h, task'[h])
  BY <1>3, <1>4, <1>5, <1>6, ThreadFacts DEF Kind, Requesting, Runs
<1> QED  BY <1>2, <1>3, <1>4, <1>5, <1>6, <1>7, PlainSets

\* A worker that is idle, or whose committing thread is past the parallel group,
\* runs nothing.
LEMMA WorkersRest ==
  ASSUME KindInv, OrderInv, NEW t \in Workers,
         task[t].pc = "idle" \/ task[Main].pc # "parallel"
  PROVE  ~ Runs(task[t])
<1>1. t \in Threads
  BY ThreadFacts
<1>2. CASE task[t].pc = "idle"
  BY <1>1, <1>2, RunsIs, RunningPcs
<1>3. CASE task[Main].pc # "parallel"
  BY <1>3 DEF OrderInv, TakenUpInv
<1> QED  BY <1>2, <1>3

\* Only the committing thread and the workers run transactions.
LEMMA NobodyRuns ==
  ASSUME KindInv, OrderInv, task[Main].pc # "parallel", ~ Runs(task[Main])
  PROVE  \A t \in Threads : ~ Runs(task[t])
<1> SUFFICES ASSUME NEW t \in Threads, Runs(task[t]) PROVE FALSE
  OBVIOUS
<1>1. t \in Workers
  BY RunsIs
<1> QED  BY <1>1, WorkersRest

\* The groups are what they were.
LEMMA GroupSame ==
  ASSUME GroupInv, transactions' = transactions, at' = at, independent_txs' = independent_txs,
         conflicting_txs' = conflicting_txs, locked_accounts' = locked_accounts
  PROVE  GroupInv'
<1>1. \A i : Touched(transactions'[i]) = Touched(transactions[i])
  OBVIOUS
<1>2. SeenAreLocked /\ IndependentOfEarlier
  BY DEF GroupInv, ClassifyInv
<1>3. SeenAreLocked'
  BY <1>1, <1>2 DEF SeenAreLocked
<1>4. IndependentOfEarlier'
  BY <1>1, <1>2 DEF IndependentOfEarlier
<1>5. ClassifyInv'
  BY <1>3, <1>4 DEF ClassifyInv
<1> QED  BY <1>5 DEF GroupInv, Size

\* When the committing thread goes on to p and nothing else changes.
LEMMA OrderGoes ==
  ASSUME TypeInv, KindInv, OrderInv, BlockSame, Moves(Main),
         ~ Runs(task[Main]), task'[Main].tx = task[Main].tx,
         \A t \in Workers : ~ Runs(task[t]),
         StageInv'
  PROVE  OrderInv'
<1>1. Main \in Threads /\ \A t \in Workers : t \in Threads /\ t # Main
  BY ThreadFacts
<1>2. \A t \in Threads : task'[t].tx = task[t].tx
  BY DEF Moves
<1>3. TakenUpInv'
  <2>1. \A t \in Threads : Runs(task'[t]) <=> Runs(task[t])
    BY <1>2 DEF Runs
  <2>2. \A t \in Workers : ~ Runs(task'[t])
    BY <1>1, <2>1
  <2> QED  BY <1>2, <2>1, <2>2 DEF OrderInv, TakenUpInv, BlockSame
<1>4. GroupInv'
  BY GroupSame DEF OrderInv, BlockSame
<1> QED  BY <1>3, <1>4 DEF OrderInv

\* The workers are joined.
LEMMA JoinKeeps ==
  ASSUME Live, setup' = setup, Join
  PROVE  Live'
<1>1. TypeInv /\ KindInv /\ OrderInv /\ GateInv
  BY DEF Live
<1>2. /\ Moves(Main) /\ BlockSame /\ StoreSame /\ GateSame /\ journal' = journal
      /\ task[Main].pc = "parallel"
      /\ independent_txs \subseteq started /\ \A t \in Workers : task[t].pc = "idle"
      /\ Doing(task'[Main], "sequential", task[Main].ret, task[Main].key, task[Main].val,
               task[Main].tx, task[Main].todo, task[Main].batch, task[Main].ok)
  BY <1>1, JoinEffect
<1>3. Main \in Threads
  BY ThreadFacts
<1>4. ~ Runs(task[Main])
  BY <1>1, <1>2, MainRests
<1>5. /\ task'[Main].pc = "sequential" /\ task'[Main].tx = task[Main].tx
      /\ task'[Main].batch = task[Main].batch /\ ~ Runs(task'[Main])
  BY <1>2, <1>4 DEF Doing, Runs
<1>6. Kind(setup, Size, Main, task'[Main])
  BY <1>3, <1>5, ThreadFacts DEF Kind, Resting
<1>7. /\ ~ Holding(task'[Main]) /\ ~ Holding(task[Main])
      /\ ~ Flushing(task'[Main]) /\ ~ Flushing(task[Main])
  BY <1>2, <1>5 DEF Holding, Flushing, Access
<1>8. GateInv'
  <2>1. DOMAIN task'[Main].batch = {}
    BY <1>1, <1>3, <1>5, <1>7 DEF GateInv
  <2> QED  BY <1>1, <1>2, <1>3, <1>7, <2>1, GateFrame
<1>9. TypeInv' /\ KindInv' /\ StoreInv' /\ TipInv' /\ SerialInv'
  <2>1. ~ Past(task'[Main])
    BY <1>5 DEF Past
  <2>2. flush_active' \in BOOLEAN
    BY <1>1, <1>2 DEF TypeInv, GateSame
  <2> QED  BY <1>2, <1>3, <1>4, <1>5, <1>6, <2>1, <2>2, RestMoves
<1>10. OrderInv'
  <2>1. StageInv'
    <3>1. at = Size + 1
      BY <1>1, <1>2 DEF OrderInv, StageInv, Early
    <3> QED  BY <1>2, <1>5, <3>1 DEF StageInv, Early, Late, BlockSame, Size
  <2>2. \A t \in Workers : ~ Runs(task[t])
    BY <1>1, <1>2, WorkersRest
  <2> QED  BY <1>1, <1>2, <1>4, <1>5, <2>1, <2>2, OrderGoes
<1> QED  BY <1>8, <1>9, <1>10 DEF Live

\* Every transaction has been taken up.
LEMMA AllTakenUp ==
  ASSUME TypeInv, OrderInv, at = Size + 1, independent_txs \subseteq started,
         conflicting_txs \subseteq started
  PROVE  started = 1 .. Size
<1>1. Size \in Nat
  BY BlockTypes DEF TypeInv, Size
<1>2. independent_txs \cup conflicting_txs = 1 .. Size
  BY <1>1 DEF OrderInv, GroupInv
<1> QED  BY <1>2 DEF TypeInv

\* The sequential group is through.
LEMMA GoesToRoot ==
  ASSUME Live, setup' = setup, At(Main, "sequential"), conflicting_txs \subseteq started,
         Goto(Main, "root"), UNCHANGED <<classify, store, started>>
  PROVE  Live'
<1>1. TypeInv /\ KindInv /\ OrderInv /\ GateInv
  BY DEF Live
<1>2. Main \in Threads /\ "root" \in Labels
  BY ThreadFacts DEF Labels
<1>3. /\ Moves(Main) /\ task[Main].pc = "sequential"
      /\ Doing(task'[Main], "root", task[Main].ret, task[Main].key, task[Main].val,
               task[Main].tx, task[Main].todo, task[Main].batch, task[Main].ok)
  BY <1>1, <1>2, GotoEffect DEF At
<1>4. BlockSame /\ StoreSame /\ GateSame /\ journal' = journal
  BY DEF BlockSame, StoreSame, GateSame, classify, store
<1>5. ~ Runs(task[Main])
  BY <1>1, <1>3, MainRests
<1>6. /\ task'[Main].pc = "root" /\ task'[Main].tx = task[Main].tx
      /\ task'[Main].batch = task[Main].batch /\ ~ Runs(task'[Main])
  BY <1>3, <1>5 DEF Doing, Runs
<1>7. Kind(setup, Size, Main, task'[Main])
  BY <1>2, <1>6, ThreadFacts DEF Kind, Resting, Late
<1>8. /\ ~ Holding(task'[Main]) /\ ~ Holding(task[Main])
      /\ ~ Flushing(task'[Main]) /\ ~ Flushing(task[Main])
  BY <1>3, <1>6 DEF Holding, Flushing, Access
<1>9. GateInv'
  <2>1. DOMAIN task'[Main].batch = {}
    BY <1>1, <1>2, <1>6, <1>8 DEF GateInv
  <2> QED  BY <1>1, <1>2, <1>3, <1>4, <1>8, <2>1, GateFrame
<1>10. TypeInv' /\ KindInv' /\ StoreInv' /\ TipInv' /\ SerialInv'
  <2>1. ~ Past(task'[Main])
    BY <1>6 DEF Past
  <2>2. flush_active' \in BOOLEAN
    BY <1>1, <1>4 DEF TypeInv, GateSame
  <2> QED  BY <1>2, <1>3, <1>4, <1>5, <1>6, <1>7, <2>1, <2>2, RestMoves
<1>11. OrderInv'
  <2>1. at = Size + 1 /\ independent_txs \subseteq started
    BY <1>1, <1>3 DEF OrderInv, StageInv, Early
  <2>2. started = 1 .. Size
    BY <1>1, <2>1, AllTakenUp
  <2>3. StageInv'
    BY <1>4, <1>6, <2>1, <2>2 DEF StageInv, Early, Late, BlockSame, Size
  <2>4. \A t \in Workers : ~ Runs(task[t])
    BY <1>1, <1>3, WorkersRest
  <2> QED  BY <1>1, <1>3, <1>4, <1>5, <1>6, <2>3, <2>4, OrderGoes
<1> QED  BY <1>9, <1>10, <1>11 DEF Live

\* Where the groups at most change, all but the order of the transactions is kept.
LEMMA StateSame ==
  ASSUME Live, setup' = setup, transactions' = transactions, UNCHANGED <<task, store, started>>
  PROVE  TypeInv' /\ KindInv' /\ GateInv' /\ StoreInv' /\ TipInv' /\ SerialInv'
<1>1. TypeInv /\ KindInv /\ OrderInv /\ GateInv /\ StoreInv /\ TipInv /\ SerialInv
  BY DEF Live
<1>2. /\ task' = task /\ started' = started /\ transactions' = transactions
      /\ cache' = cache /\ disk' = disk /\ journal' = journal
      /\ open_checkpoints' = open_checkpoints /\ flush_active' = flush_active
  BY DEF store
<1>3. TypeInv' /\ KindInv'
  BY <1>1, <1>2 DEF TypeInv, KindInv, Size
<1>4. GateInv'
  <2>1. HoldingSet' = HoldingSet
    BY <1>2 DEF HoldingSet
  <2> QED  BY <1>1, <1>2, <2>1 DEF GateInv
<1>5. StoreInv'
  <2>1. OthersInv' /\ BatchInv'
    BY <1>1, <1>2 DEF StoreInv, OthersInv, BatchInv, Dirty
  <2>2. CleanInv' /\ RoomInv'
    BY <1>1, <1>2 DEF StoreInv, CleanInv, RoomInv
  <2>3. FillInv' /\ EndInv'
    BY <1>1, <1>2 DEF StoreInv, FillInv, EndInv, Dirty
  <2> QED  BY <2>1, <2>2, <2>3 DEF StoreInv
<1>6. TipInv'
  <2>1. View(Record)' = View(Record) /\ Dirty(Record)' = Dirty(Record)
    BY <1>2 DEF View, Dirty
  <2> QED  BY <1>1, <1>2, <2>1 DEF TipInv
<1>7. SerialInv'
  <2>1. Ended' = Ended
    BY <1>2 DEF Ended
  <2>2. Views' = Views
    BY <1>2 DEF Views, View
  <2> HIDE DEF Views, Ended
  <2> QED  BY <1>1, <1>2, <2>1, <2>2 DEF SerialInv
<1> QED  BY <1>3, <1>4, <1>5, <1>6, <1>7

\* A turn of the classification touches nothing but the groups.
LEMMA ClassifyTurns ==
  ASSUME Live, setup' = setup, At(Main, "classify"), Classify,
         UNCHANGED <<task, store, started>>
  PROVE  Live'
<1>1. TypeInv /\ KindInv /\ OrderInv
  BY DEF Live
<1>2. task' = task /\ started' = started /\ transactions' = transactions
  BY DEF Classify
<1>3. TypeInv' /\ KindInv' /\ GateInv' /\ StoreInv' /\ TipInv' /\ SerialInv'
  BY <1>2, StateSame
<1>8. started = {} /\ Early(task[Main].pc)
  BY <1>1 DEF OrderInv, StageInv, Early, At
<1>9. StageInv'
  BY <1>2, <1>8 DEF StageInv, Early, Late
<1>10. TakenUpInv'
  <2>1. \A t \in Threads : ~ Runs(task[t])
    BY <1>1, <1>8 DEF OrderInv, TakenUpInv
  <2>2. \A t \in Workers : t \in Threads
    BY ThreadFacts
  <2>3. \A t \in Threads : ~ Runs(task'[t])
    BY <1>2, <2>1
  <2> QED  BY <1>2, <1>8, <2>2, <2>3 DEF TakenUpInv
<1>11. GroupInv'
  <2>1. ClassifyInv'
    BY <1>1, ClassifyKeeps DEF OrderInv, GroupInv
  <2>2. Size \in Nat /\ at \in 1 .. Size /\ at' = at + 1
    <3>1. Size \in Nat
      BY <1>1, BlockTypes DEF TypeInv, Size
    <3> QED  BY <1>1, <3>1 DEF OrderInv, GroupInv, Classify, Size
  <2>3. /\ independent_txs \cap conflicting_txs = {}
        /\ independent_txs \cup conflicting_txs = 1 .. (at - 1)
    BY <1>1 DEF OrderInv, GroupInv
  <2>4. \/ independent_txs' = independent_txs \cup {at} /\ conflicting_txs' = conflicting_txs
        \/ independent_txs' = independent_txs /\ conflicting_txs' = conflicting_txs \cup {at}
    BY DEF Classify
  <2>5. at \notin 1 .. (at - 1) /\ 1 .. (at' - 1) = 1 .. (at - 1) \cup {at}
    BY <2>2
  <2>6. independent_txs' \cap conflicting_txs' = {}
    BY <2>3, <2>4, <2>5
  <2>7. independent_txs' \cup conflicting_txs' = 1 .. (at' - 1)
    BY <2>3, <2>4, <2>5
  <2>8. at' \in 1 .. (Size' + 1)
    BY <1>2, <2>2 DEF Size
  <2> QED  BY <2>1, <2>6, <2>7, <2>8 DEF GroupInv
<1> QED  BY <1>3, <1>9, <1>10, <1>11 DEF Live, OrderInv

\* Every transaction has been looked at: the parallel group may start.
LEMMA ClassifyEnds ==
  ASSUME Live, setup' = setup, At(Main, "classify"), at > Size, Goto(Main, "parallel"),
         UNCHANGED <<classify, store, started>>
  PROVE  Live'
<1>1. TypeInv /\ KindInv /\ OrderInv /\ GateInv
  BY DEF Live
<1>2. Main \in Threads /\ "parallel" \in Labels
  BY ThreadFacts DEF Labels
<1>3. /\ Moves(Main) /\ task[Main].pc = "classify"
      /\ Doing(task'[Main], "parallel", task[Main].ret, task[Main].key, task[Main].val,
               task[Main].tx, task[Main].todo, task[Main].batch, task[Main].ok)
  BY <1>1, <1>2, GotoEffect DEF At
<1>4. BlockSame /\ StoreSame /\ GateSame /\ journal' = journal
  BY DEF BlockSame, StoreSame, GateSame, classify, store
<1>5. ~ Runs(task[Main])
  BY <1>1, <1>3, MainRests
<1>6. /\ task'[Main].pc = "parallel" /\ task'[Main].tx = task[Main].tx
      /\ task'[Main].batch = task[Main].batch /\ ~ Runs(task'[Main])
  BY <1>3, <1>5 DEF Doing, Runs
<1>7. Kind(setup, Size, Main, task'[Main])
  BY <1>2, <1>6, ThreadFacts DEF Kind, Resting
<1>8. /\ ~ Holding(task'[Main]) /\ ~ Holding(task[Main])
      /\ ~ Flushing(task'[Main]) /\ ~ Flushing(task[Main])
  BY <1>3, <1>6 DEF Holding, Flushing, Access
<1>9. GateInv'
  <2>1. DOMAIN task'[Main].batch = {}
    BY <1>1, <1>2, <1>6, <1>8 DEF GateInv
  <2> QED  BY <1>1, <1>2, <1>3, <1>4, <1>8, <2>1, GateFrame
<1>10. TypeInv' /\ KindInv' /\ StoreInv' /\ TipInv' /\ SerialInv'
  <2>1. ~ Past(task'[Main])
    BY <1>6 DEF Past
  <2>2. flush_active' \in BOOLEAN
    BY <1>1, <1>4 DEF TypeInv, GateSame
  <2> QED  BY <1>2, <1>3, <1>4, <1>5, <1>6, <1>7, <2>1, <2>2, RestMoves
<1>11. OrderInv'
  <2>1. started = {}
    BY <1>1, <1>3 DEF OrderInv, StageInv, Early
  <2>2. at = Size + 1
    <3>1. Size \in Nat
      BY <1>1, BlockTypes DEF TypeInv, Size
    <3> QED  BY <1>1, <3>1 DEF OrderInv, GroupInv
  <2>3. StageInv'
    BY <1>4, <1>6, <2>1, <2>2 DEF StageInv, Early, Late, BlockSame, Size
  <2>4. \A t \in Workers : ~ Runs(task[t])
    BY <1>1, <1>3, WorkersRest
  <2> QED  BY <1>1, <1>3, <1>4, <1>5, <1>6, <2>3, <2>4, OrderGoes
<1> QED  BY <1>9, <1>10, <1>11 DEF Live

\* Both together.
LEMMA ClassifyBlockKeeps ==
  ASSUME Live, setup' = setup, ClassifyBlock
  PROVE  Live'
<1>1. CASE Classify /\ UNCHANGED task
  <2>1. At(Main, "classify") /\ UNCHANGED <<task, store, started>>
    BY <1>1 DEF ClassifyBlock
  <2> QED  BY <1>1, <2>1, ClassifyTurns
<1>2. CASE at > Len(transactions) /\ Goto(Main, "parallel") /\ UNCHANGED classify
  <2>1. At(Main, "classify") /\ UNCHANGED <<classify, store, started>> /\ at > Size
    BY <1>2 DEF ClassifyBlock, Size
  <2> QED  BY <1>2, <2>1, ClassifyEnds
<1> QED  BY <1>1, <1>2 DEF ClassifyBlock

\* When the block has run, its accounts are those of the serial execution.
LEMMA SerialHolds ==
  ASSUME Live, Undisturbed, task[Main].pc = "root"
  PROVE  \A a \in Accounts : View(a) = Expected[a]
<1> DEFINE n == Len(transactions)
           S == SerialOf(transactions)
<1>1. TypeInv /\ KindInv /\ OrderInv /\ SerialInv
  BY DEF Live
<1>2. transactions \in Blocks /\ n \in Nat
  BY <1>1, BlockTypes DEF TypeInv, Undisturbed
<1>3. \A t \in Threads : ~ Runs(task[t])
  <2>1. ~ Runs(task[Main])
    BY <1>1, MainRests
  <2> QED  BY <1>1, <2>1, NobodyRuns
<1>4. started = 1 .. n
  BY <1>1 DEF OrderInv, StageInv, Late, Size
<1>5. \A i \in 1 .. n : i \in Ended
  <2> SUFFICES ASSUME NEW i \in 1 .. n PROVE i \in Ended
    OBVIOUS
  <2>1. i # 0
    BY <1>2
  <2> QED  BY <1>3, <1>4, <2>1 DEF Ended, Runs
<1>6. Expected = S[n]
  BY <1>2, ExpectedIs
<1> SUFFICES ASSUME NEW a \in Accounts PROVE View(a) = S[n][a]
  BY <1>6
<1>7. Settled(transactions, Ended, Views, a)
  <2>1. Free(transactions, task, a)
    BY <1>3 DEF Free
  <2> HIDE DEF Views
  <2> QED  BY <1>1, <2>1 DEF SerialInv
<1>8. Views[a] = View(a)
  BY KeyFacts DEF Views
<1>9. PICK j \in 0 .. n : Reached(transactions, Ended, a, j) /\ Views[a] = S[j][a]
  <2> HIDE DEF Views
  <2> QED  BY <1>7 DEF Settled
<1>10. \A i \in 1 .. n : j < i /\ i <= n => a \notin Footprint(transactions[i])
  <2> SUFFICES ASSUME NEW i \in 1 .. n, j < i, a \in Footprint(transactions[i]) PROVE FALSE
    OBVIOUS
  <2>1. i <= j
    BY <1>5, <1>9 DEF Reached
  <2> QED  BY <1>2, <2>1
<1>11. n \in 0 .. n /\ j <= n
  BY <1>2
<1>12. S[j][a] = S[n][a]
  <2> HIDE DEF S
  <2> QED  BY <1>2, <1>10, <1>11, SerialSame DEF S
<1> QED  BY <1>8, <1>9, <1>12

\* The state root is the expected one.
LEMMA RootKeeps ==
  ASSUME Live, Undisturbed, setup' = setup, Root
  PROVE  Live'
<1>1. TypeInv /\ KindInv /\ OrderInv /\ GateInv
  BY DEF Live
<1>2. /\ Moves(Main) /\ BlockSame /\ StoreSame /\ GateSame /\ journal' = journal
      /\ task[Main].pc = "root"
      /\ Doing(task'[Main], "archive", task[Main].ret, task[Main].key, task[Main].val,
               task[Main].tx, task[Main].todo, task[Main].batch,
               \A a \in Accounts : View(a) = Expected[a])
  BY <1>1, RootEffect
<1>3. Main \in Threads
  BY ThreadFacts
<1>4. ~ Runs(task[Main])
  BY <1>1, <1>2, MainRests
<1>5. \A a \in Accounts : View(a) = Expected[a]
  BY <1>2, SerialHolds
<1>6. /\ task'[Main].pc = "archive" /\ task'[Main].tx = task[Main].tx
      /\ task'[Main].batch = task[Main].batch /\ ~ Runs(task'[Main]) /\ task'[Main].ok
  BY <1>2, <1>4, <1>5 DEF Doing, Runs
<1>7. Kind(setup, Size, Main, task'[Main])
  BY <1>3, <1>6, ThreadFacts DEF Kind, Resting, Late
<1>8. /\ ~ Holding(task'[Main]) /\ ~ Holding(task[Main])
      /\ ~ Flushing(task'[Main]) /\ ~ Flushing(task[Main])
  BY <1>2, <1>6 DEF Holding, Flushing, Access
<1>9. GateInv'
  <2>1. DOMAIN task'[Main].batch = {}
    BY <1>1, <1>3, <1>6, <1>8 DEF GateInv
  <2> QED  BY <1>1, <1>2, <1>3, <1>8, <2>1, GateFrame
<1>10. TypeInv' /\ KindInv' /\ OrderInv' /\ StoreInv' /\ TipInv' /\ SerialInv'
  <2>1. ~ Past(task'[Main])
    BY <1>6 DEF Past
  <2>2. flush_active' \in BOOLEAN
    BY <1>1, <1>2 DEF TypeInv, GateSame
  <2>3. /\ Early(task'[Main].pc) <=> Early(task[Main].pc)
        /\ task'[Main].pc = "parallel" <=> task[Main].pc = "parallel"
        /\ Late(task'[Main].pc) => Late(task[Main].pc)
    BY <1>2, <1>6 DEF Early, Late
  <2> QED  BY <1>2, <1>3, <1>4, <1>6, <1>7, <2>1, <2>2, <2>3, RestFrame
<1> QED  BY <1>9, <1>10 DEF Live

\* Between two numbers of transactions that fit what has ended, an account is the same.
LEMMA LevelFrom ==
  ASSUME NEW txs \in Blocks, NEW e, NEW x \in Accounts,
         NEW j \in 0 .. Len(txs), NEW k \in 0 .. Len(txs),
         Reached(txs, e, x, j), Reached(txs, e, x, k)
  PROVE  SerialOf(txs)[j][x] = SerialOf(txs)[k][x]
<1>1. Len(txs) \in Nat
  BY BlockTypes
<1>2. \A i \in 1 .. Len(txs) : x \in Footprint(txs[i]) => (i <= j <=> i <= k)
  BY DEF Reached
<1>3. CASE j <= k
  <2>1. \A i \in 1 .. Len(txs) : j < i /\ i <= k => x \notin Footprint(txs[i])
    BY <1>1, <1>2
  <2> QED  BY <1>3, <2>1, SerialSame
<1>4. CASE k <= j
  <2>1. \A i \in 1 .. Len(txs) : k < i /\ i <= j => x \notin Footprint(txs[i])
    BY <1>1, <1>2
  <2>2. SerialOf(txs)[k][x] = SerialOf(txs)[j][x]
    BY <1>4, <2>1, SerialSame
  <2> QED  BY <2>2
<1> QED  BY <1>1, <1>3, <1>4

\* A transaction that shares no account with those running is not rejected.
LEMMA StartsClear ==
  ASSUME NEW i \in 1 .. Size,
         \A u \in Threads : Runs(task[u]) =>
             Footprint(transactions[task[u].tx]) \cap Footprint(transactions[i]) = {}
  PROVE  {transactions[i].sender, transactions[i].receiver} \cap processing_addresses = {}
<1>1. \A m : {transactions[m].sender, transactions[m].receiver} \subseteq Footprint(transactions[m])
  BY DEF Touched, Footprint
<1> SUFFICES ASSUME NEW a \in {transactions[i].sender, transactions[i].receiver},
                    a \in processing_addresses
             PROVE  FALSE
  OBVIOUS
<1>2. PICK m \in {task[t].tx : t \in Threads} \ {0} :
         a \in {transactions[m].sender, transactions[m].receiver}
  BY DEF processing_addresses
<1>3. PICK u \in Threads : task[u].tx = m
  BY <1>2
<1>4. Runs(task[u])
  BY <1>2, <1>3 DEF Runs
<1>5. a \in Footprint(transactions[i]) /\ a \in Footprint(transactions[m])
  BY <1>1, <1>2
<1> QED  BY <1>3, <1>4, <1>5

\* A thread takes up transaction i, whose accounts nobody uses and where all
\* that comes before it has ended, and nothing that comes after it.
LEMMA SerialStarts ==
  ASSUME Live, Undisturbed, transactions' = transactions, StoreSame, journal' = journal,
         NEW i \in 1 .. Size, i \notin started, started' = started \cup {i},
         NEW t \in Threads, Moves(t), ~ Runs(task[t]),
         Doing(task'[t], "lookup", "nonce", transactions[i].sender, None, i, {}, <<>>, TRUE),
         \A u \in Threads : Runs(task[u]) =>
             Footprint(transactions[task[u].tx]) \cap Footprint(transactions[i]) = {},
         \A x \in Accounts \cap Footprint(transactions[i]) :
             Reached(transactions, Ended, x, i - 1)
  PROVE  SerialInv'
<1> DEFINE txs == transactions
           n == Len(txs)
<1>1. TypeInv /\ KindInv /\ SerialInv /\ txs \in Blocks
  BY DEF Live, TypeInv, Undisturbed
<1>2. n \in Nat /\ i \in 1 .. n /\ started \subseteq 1 .. n /\ i - 1 \in 0 .. n
  BY <1>1, BlockTypes DEF TypeInv, Size
<1>3. Ended' = Ended
  <2>1. task[t].tx = 0 /\ task'[t].tx = i /\ \A u \in Threads : u # t => task'[u].tx = task[u].tx
    BY DEF Runs, Moves, Doing
  <2>2. \A m \in started : m # i /\ m # 0
    BY <1>2
  <2>3. \A m \in started :
          (\A u \in Threads : task[u].tx # m) <=> (\A u \in Threads : task'[u].tx # m)
    BY <2>1, <2>2
  <2> QED  BY <2>1, <2>3 DEF Ended
<1>4. \A x \in Accounts : Views'[x] = Views[x]
  BY DEF Views, View, StoreSame
<1>5. task'[t].pc = "lookup" /\ task'[t].ret = "nonce" /\ task'[t].ok /\ task'[t].tx = i
      /\ task'[t].key = txs[i].sender
  BY DEF Doing
<1>6. Checking(task'[t]) /\ ~ Access(task'[t]) /\ ~ Holding(task'[t])
  BY <1>5 DEF Checking, Access, Holding
<1>7. TaskInv(txs, task'[t])
  BY <1>5, <1>6 DEF TaskInv
<1>8. Level(txs, Ended, Views, task'[t])
  <2> SUFFICES ASSUME NEW x \in Accounts \cap Footprint(txs[i])
               PROVE  Reached(txs, Ended, x, i - 1) /\ Views[x] = Now(txs, task'[t], x)
    BY <1>5 DEF Level
  <2>1. Free(txs, task, x)
    BY DEF Free
  <2>2. PICK j \in 0 .. n : Reached(txs, Ended, x, j) /\ Views[x] = SerialOf(txs)[j][x]
    <3> HIDE DEF Views
    <3> QED  BY <1>1, <2>1 DEF SerialInv, Settled
  <2>3. SerialOf(txs)[j][x] = SerialOf(txs)[i - 1][x]
    BY <1>1, <1>2, <2>2, LevelFrom
  <2>4. Now(txs, task'[t], x) = SerialOf(txs)[i - 1][x]
    BY <1>5, <1>6 DEF Now, Changed, Before
  <2> QED  BY <2>2, <2>3, <2>4
<1>9. ASSUME NEW u \in Threads, Runs(task'[u])
      PROVE  TaskInv(txs, task'[u]) /\ Level(txs, Ended', Views', task'[u])
  <2>1. TaskInv(txs, task'[u]) /\ Level(txs, Ended, Views, task'[u])
    <3>1. CASE u = t
      BY <1>7, <1>8, <3>1
    <3>2. CASE u # t
      <4>1. task'[u] = task[u]
        BY <3>2 DEF Moves
      <4> HIDE DEF Views
      <4> QED  BY <1>1, <1>9, <4>1 DEF SerialInv
    <3> QED  BY <3>1, <3>2
  <2> HIDE DEF Views
  <2> QED  BY <1>3, <1>4, <2>1 DEF Level
<1>10. ASSUME NEW u \in Threads PROVE journal'[u] = Journal(txs, task'[u])
  <2>1. journal[u] = Journal(txs, task[u])
    BY <1>1 DEF SerialInv
  <2>2. CASE u = t
    <3>1. Journal(txs, task'[t]) = None /\ Journal(txs, task[t]) = None
      BY <1>6 DEF Journal
    <3> QED  BY <2>1, <2>2, <3>1
  <2>3. CASE u # t
    <3>1. task'[u] = task[u]
      BY <2>3 DEF Moves
    <3> QED  BY <2>1, <3>1
  <2> QED  BY <2>2, <2>3
<1>11. ASSUME NEW x \in Accounts, Free(txs, task', x)
       PROVE  Settled(txs, Ended', Views', x)
  <2>1. Free(txs, task, x)
    <3>1. \A u \in Threads : u # t => task'[u] = task[u]
      BY DEF Moves
    <3> QED  BY <1>11, <3>1 DEF Free
  <2>2. PICK j \in 0 .. n : Reached(txs, Ended, x, j) /\ Views[x] = SerialOf(txs)[j][x]
    <3> HIDE DEF Views
    <3> QED  BY <1>1, <2>1 DEF SerialInv, Settled
  <2>3. Reached(txs, Ended', x, j) /\ Views'[x] = SerialOf(txs)[j][x]
    BY <1>3, <1>4, <2>2
  <2> HIDE DEF Views
  <2> QED  BY <2>3 DEF Settled
<1>12. task'[Main].pc \in {"archive", "claim"} => task'[Main].ok
  BY <1>1, <1>5, ThreadFacts DEF SerialInv, Moves
<1> HIDE DEF Views
<1> QED  BY <1>1, <1>9, <1>10, <1>11, <1>12 DEF SerialInv

\* The whole step, but for the order of the transactions.
LEMMA TxStarts ==
  ASSUME Live, Undisturbed, setup' = setup, NEW i \in 1 .. Size, i \notin started,
         NEW t \in Threads, t = Main \/ t \in Workers, ~ Runs(task[t]),
         task[t].pc \in {"idle", "sequential"},
         StartTx(t, i),
         \A u \in Threads : Runs(task[u]) =>
             Footprint(transactions[task[u].tx]) \cap Footprint(transactions[i]) = {},
         \A x \in Accounts \cap Footprint(transactions[i]) :
             Reached(transactions, Ended, x, i - 1),
         Moves(t) /\ task'[t].tx = i /\ task'[t].pc = "lookup" /\ started' = started \cup {i}
            => StageInv' /\ TakenUpInv'
  PROVE  Live'
<1>1. TypeInv /\ KindInv /\ OrderInv /\ GateInv /\ StoreInv /\ TipInv /\ SerialInv
  BY DEF Live
<1>2. {transactions[i].sender, transactions[i].receiver} \cap processing_addresses = {}
  BY StartsClear
<1>3. /\ started' = started \cup {i} /\ transactions' = transactions /\ at' = at
      /\ independent_txs' = independent_txs /\ conflicting_txs' = conflicting_txs
      /\ locked_accounts' = locked_accounts
      /\ StoreSame /\ GateSame /\ journal' = journal /\ Moves(t)
      /\ Doing(task'[t], "lookup", "nonce", transactions[i].sender, None, i, {}, <<>>, TRUE)
  BY <1>1, <1>2, StartEffect
<1>4. /\ task'[t].pc = "lookup" /\ task'[t].ret = "nonce" /\ task'[t].ok /\ task'[t].tx = i
      /\ task'[t].key = transactions[i].sender /\ task'[t].todo = {} /\ task'[t].batch = <<>>
  BY <1>3 DEF Doing
<1>5. /\ Checking(task'[t]) /\ ~ Holding(task'[t]) /\ ~ Holding(task[t])
      /\ ~ Flushing(task'[t]) /\ ~ Flushing(task[t])
  BY <1>4 DEF Checking, Access, Holding, Flushing
<1>6. i # 0 /\ i \in 1 .. Len(transactions) /\ transactions \in Blocks
  <2>1. transactions \in Blocks
    BY <1>1 DEF TypeInv
  <2>2. Len(transactions) \in Nat
    BY <2>1, BlockTypes
  <2> QED  BY <2>1, <2>2 DEF Size
<1>7. TypeInv'
  <2>1. cache' \in [Keys -> Entries] /\ disk' \in [Keys -> Slots] /\ flush_active' \in BOOLEAN
        /\ journal' \in [Threads -> Values \cup {None}] /\ task' \in [Threads -> Tasks]
        /\ started' \subseteq 1 .. Size
    BY <1>1, <1>3 DEF TypeInv, StoreSame, GateSame, Moves
  <2> QED  BY <1>1, <1>3, <2>1, TypeFrame
<1>8. KindInv'
  <2>1. transactions[i].sender \in Accounts
    BY <1>6, BlockTypes
  <2>2. Running(Size, t, task'[t]) /\ Runs(task'[t])
    BY <1>4, <1>5, <1>6, <2>1 DEF Running, Runs
  <2>3. Kind(setup, Size, t, task'[t])
    BY <2>2, KindIs
  <2> QED  BY <1>1, <1>3, <2>3, KindFrame
<1>9. OrderInv'
  <2>1. StageInv' /\ TakenUpInv'
    BY <1>3, <1>4
  <2>2. GroupInv'
    BY <1>1, <1>3, GroupSame DEF OrderInv
  <2> QED  BY <2>1, <2>2 DEF OrderInv
<1>10. GateInv'
  <2>1. DOMAIN task'[t].batch = {}
    BY <1>4, EmptyValue
  <2> QED  BY <1>1, <1>3, <1>5, <2>1, GateFrame
<1>11. StoreInv'
  BY <1>1, <1>3, <1>4, StoreFrame
<1>12. TipInv'
  BY <1>1, <1>3, <1>4, TipFrame
<1>13. SerialInv'
  BY <1>3, SerialStarts
<1> QED  BY <1>7, <1>8, <1>9, <1>10, <1>11, <1>12, <1>13 DEF Live

\* The groups share the positions of the block.
LEMMA GroupFacts ==
  ASSUME TypeInv, OrderInv, Undisturbed, at = Size + 1
  PROVE  /\ Size \in Nat /\ Size = Len(transactions)
         /\ \A i \in 1 .. Size : i \in independent_txs \/ i \in conflicting_txs
         /\ \A i \in independent_txs : i \in 1 .. Size /\ i \notin conflicting_txs
         /\ \A i \in conflicting_txs : i \in 1 .. Size
         /\ \A j \in independent_txs : \A i \in 1 .. (j - 1) :
               Footprint(transactions[i]) \cap Footprint(transactions[j]) = {}
<1>1. Size \in Nat /\ Size = Len(transactions)
  BY BlockTypes DEF TypeInv, Size
<1>2. /\ independent_txs \cap conflicting_txs = {}
      /\ independent_txs \cup conflicting_txs = 1 .. Size
  BY <1>1 DEF OrderInv, GroupInv
<1>3. IndependentOfEarlier
  BY DEF OrderInv, GroupInv, ClassifyInv
<1>4. ASSUME NEW j \in independent_txs, NEW i \in 1 .. (j - 1)
      PROVE  Footprint(transactions[i]) \cap Footprint(transactions[j]) = {}
  <2>1. i \in 1 .. Size /\ j \in 1 .. Size
    BY <1>1, <1>2
  <2>2. Touched(transactions[i]) \cap Touched(transactions[j]) = {}
    BY <1>3 DEF IndependentOfEarlier
  <2> QED  BY <1>1, <2>1, <2>2 DEF Undisturbed, SharesToken
<1> QED  BY <1>1, <1>2, <1>4

\* A worker takes up an independent transaction.
LEMMA SpawnKeeps ==
  ASSUME Live, Undisturbed, setup' = setup, NEW t \in Threads, NEW i \in independent_txs,
         Spawn(t, i)
  PROVE  Live'
<1>1. TypeInv /\ KindInv /\ OrderInv
  BY DEF Live
<1>2. /\ task[Main].pc = "parallel" /\ t \in Workers /\ task[t].pc = "idle"
      /\ i \notin started /\ StartTx(t, i)
  BY DEF Spawn, At
<1>3. Main \in Threads /\ t # Main /\ ~ Runs(task[t]) /\ ~ Runs(task[Main])
  BY <1>1, <1>2, ThreadFacts, WorkersRest, MainRests
<1>4. at = Size + 1 /\ started \subseteq independent_txs
  BY <1>1, <1>2 DEF OrderInv, StageInv, Early
<1>5. /\ Size \in Nat /\ Size = Len(transactions) /\ i \in 1 .. Size
      /\ \A m \in 1 .. Size : m \in independent_txs \/ m \in conflicting_txs
      /\ \A m \in independent_txs : m \in 1 .. Size /\ m \notin conflicting_txs
      /\ \A j \in independent_txs : \A m \in 1 .. (j - 1) :
            Footprint(transactions[m]) \cap Footprint(transactions[j]) = {}
  BY <1>1, <1>4, GroupFacts
<1>6. ASSUME NEW u \in Threads, Runs(task[u])
      PROVE  Footprint(transactions[task[u].tx]) \cap Footprint(transactions[i]) = {}
  <2>1. task[u].tx \in started /\ task[u].tx \in independent_txs
    BY <1>1, <1>4, <1>6 DEF OrderInv, TakenUpInv
  <2> DEFINE m == task[u].tx
  <2>2. m \in 1 .. Size /\ m # i /\ m \in independent_txs
    BY <1>2, <1>5, <2>1
  <2>3. m \in 1 .. (i - 1) \/ i \in 1 .. (m - 1)
    BY <1>5, <2>2
  <2> HIDE DEF m
  <2>4. Footprint(transactions[m]) \cap Footprint(transactions[i]) = {}
    BY <1>5, <2>2, <2>3
  <2> QED  BY <2>4 DEF m
<1>7. ASSUME NEW x \in Accounts \cap Footprint(transactions[i])
      PROVE  Reached(transactions, Ended, x, i - 1)
  <2> SUFFICES ASSUME NEW j \in 1 .. Size, x \in Footprint(transactions[j])
               PROVE  j <= i - 1 <=> j \in Ended
    BY <1>5 DEF Reached
  <2>1. ~ (j <= i - 1)
    <3> SUFFICES ASSUME j <= i - 1 PROVE FALSE
      OBVIOUS
    <3>1. j \in 1 .. (i - 1)
      BY <1>5
    <3> QED  BY <1>5, <3>1
  <2>2. j \notin started
    <3> SUFFICES ASSUME j \in started PROVE FALSE
      OBVIOUS
    <3>1. j # i /\ j \in independent_txs
      BY <1>2, <1>4
    <3>2. i \in 1 .. (j - 1)
      BY <1>5, <2>1, <3>1
    <3> QED  BY <1>5, <3>1, <3>2
  <2> QED  BY <2>1, <2>2 DEF Ended
<1>8. ASSUME Moves(t), task'[t].tx = i, task'[t].pc = "lookup", started' = started \cup {i}
      PROVE  StageInv' /\ TakenUpInv'
  <2>1. /\ transactions' = transactions /\ at' = at /\ independent_txs' = independent_txs
        /\ conflicting_txs' = conflicting_txs
    BY <1>2 DEF StartTx, classify
  <2>2. task'[Main] = task[Main] /\ \A u \in Threads : u # t => task'[u] = task[u]
    BY <1>3, <1>8 DEF Moves
  <2>3. StageInv'
    BY <1>2, <1>4, <1>8, <2>1, <2>2 DEF StageInv, Early, Late, Size
  <2>4. \A a, b \in conflicting_txs' : (b \in started' /\ a < b) => a \in started'
    BY <1>1, <1>5, <1>8, <2>1 DEF OrderInv, TakenUpInv
  <2>5. \A u \in Threads : Runs(task'[u]) => task'[u].tx \in started'
    BY <1>1, <1>8, <2>2 DEF OrderInv, TakenUpInv
  <2>6. \A u \in Workers : Runs(task'[u]) => /\ task'[u].tx \in independent_txs'
                                             /\ task'[Main].pc = "parallel"
    <3>1. \A u \in Workers : u \in Threads
      BY ThreadFacts
    <3> QED  BY <1>1, <1>2, <1>8, <2>1, <2>2, <3>1 DEF OrderInv, TakenUpInv
  <2>7. ASSUME NEW u \in Threads, NEW v \in Threads, Runs(task'[u]), task'[u].tx = task'[v].tx
        PROVE  u = v
    <3>1. \A w \in Threads : w # t /\ Runs(task[w]) => task[w].tx # i
      BY <1>1, <1>2 DEF OrderInv, TakenUpInv
    <3>2. Runs(task'[v])
      BY <2>7 DEF Runs
    <3>3. CASE u = t \/ v = t
      BY <1>8, <2>2, <2>7, <3>1, <3>2, <3>3
    <3>4. CASE u # t /\ v # t
      <4>1. task'[u] = task[u] /\ task'[v] = task[v]
        BY <2>2, <3>4
      <4>2. Runs(task[u]) /\ task[u].tx = task[v].tx
        BY <2>7, <4>1
      <4> QED  BY <1>1, <4>2 DEF OrderInv, TakenUpInv
    <3> QED  BY <3>3, <3>4
  <2>8. TakenUpInv'
    BY <2>4, <2>5, <2>6, <2>7 DEF TakenUpInv
  <2> QED  BY <2>3, <2>8
<1> QED  BY <1>2, <1>3, <1>5, <1>6, <1>7, <1>8, TxStarts

\* The first transaction of the sequential group that is left.
LEMMA FirstLeft ==
  ASSUME NEW S \in SUBSET Nat, S # {}
  PROVE  Min(S) \in S /\ \A j \in S : Min(S) <= j
<1>1. \E m \in S : \A j \in S : m <= j
  BY Serial!FirstNat
<1> QED  BY <1>1 DEF Min

\* The committing thread takes it up.
LEMMA ConflictingKeeps ==
  ASSUME Live, Undisturbed, setup' = setup, At(Main, "sequential"),
         conflicting_txs \ started # {}, StartTx(Main, Min(conflicting_txs \ started))
  PROVE  Live'
<1> DEFINE i == Min(conflicting_txs \ started)
<1>1. TypeInv /\ KindInv /\ OrderInv
  BY DEF Live
<1>2. Main \in Threads /\ task[Main].pc = "sequential" /\ ~ Runs(task[Main])
  BY <1>1, ThreadFacts, MainRests DEF At
<1>3. at = Size + 1 /\ independent_txs \subseteq started
  BY <1>1, <1>2 DEF OrderInv, StageInv, Early
<1>4. /\ Size \in Nat /\ Size = Len(transactions)
      /\ \A m \in 1 .. Size : m \in independent_txs \/ m \in conflicting_txs
      /\ \A m \in independent_txs : m \in 1 .. Size /\ m \notin conflicting_txs
      /\ \A m \in conflicting_txs : m \in 1 .. Size
      /\ \A j \in independent_txs : \A m \in 1 .. (j - 1) :
            Footprint(transactions[m]) \cap Footprint(transactions[j]) = {}
  BY <1>1, <1>3, GroupFacts
<1>5. /\ i \in conflicting_txs /\ i \notin started /\ i \in 1 .. Size
      /\ \A j \in conflicting_txs : j \notin started => i <= j
  <2>1. conflicting_txs \ started \in SUBSET Nat
    BY <1>4
  <2> HIDE DEF i
  <2>2. i \in conflicting_txs \ started /\ \A j \in conflicting_txs \ started : i <= j
    BY <2>1, FirstLeft DEF i
  <2> QED  BY <1>4, <2>2
<1>6. \A u \in Threads : ~ Runs(task[u])
  BY <1>1, <1>2, NobodyRuns
<1>7. StartTx(Main, i)
  OBVIOUS
<1> HIDE DEF i
<1>8. Ended = started
  <2>1. \A j \in started : j # 0
    BY <1>1, <1>4 DEF TypeInv
  <2> QED  BY <1>6, <2>1 DEF Ended, Runs
<1>9. ASSUME NEW x \in Accounts \cap Footprint(transactions[i])
      PROVE  Reached(transactions, Ended, x, i - 1)
  <2> SUFFICES ASSUME NEW j \in 1 .. Size, x \in Footprint(transactions[j])
               PROVE  j <= i - 1 <=> j \in started
    BY <1>4, <1>8 DEF Reached
  <2>1. CASE j <= i - 1
    <3>1. ~ (i <= j)
      BY <1>5, <2>1
    <3>2. j \in started
      BY <1>3, <1>4, <1>5, <3>1
    <3> QED  BY <2>1, <3>2
  <2>2. CASE j = i
    BY <1>5, <2>2
  <2>3. CASE i < j
    <3>1. j \notin independent_txs
      <4>1. i \in 1 .. (j - 1)
        BY <1>5, <2>3
      <4> QED  BY <1>4, <4>1
    <3>2. j \in conflicting_txs
      BY <1>4, <3>1
    <3>3. j \notin started
      BY <1>1, <1>5, <2>3, <3>2 DEF OrderInv, TakenUpInv
    <3> QED  BY <1>5, <2>3, <3>3
  <2> QED  BY <1>5, <2>1, <2>2, <2>3
<1>10. ASSUME Moves(Main), task'[Main].tx = i, task'[Main].pc = "lookup",
              started' = started \cup {i}
       PROVE  StageInv' /\ TakenUpInv'
  <2>1. /\ transactions' = transactions /\ at' = at /\ independent_txs' = independent_txs
        /\ conflicting_txs' = conflicting_txs
    BY <1>7 DEF StartTx, classify
  <2>2. \A u \in Threads : u # Main => task'[u] = task[u]
    BY <1>10 DEF Moves
  <2>3. StageInv'
    BY <1>3, <1>10, <2>1 DEF StageInv, Early, Late, Size
  <2>4. ASSUME NEW a \in conflicting_txs', NEW b \in conflicting_txs', b \in started', a < b
        PROVE  a \in started'
    <3>1. CASE b \in started
      BY <1>1, <1>10, <2>1, <2>4, <3>1 DEF OrderInv, TakenUpInv
    <3>2. CASE b = i
      <4>1. ~ (i <= a)
        BY <1>4, <1>5, <2>1, <2>4, <3>2
      <4>2. a \in started
        BY <1>5, <2>1, <4>1
      <4> QED  BY <1>10, <4>2
    <3> QED  BY <1>10, <2>4, <3>1, <3>2
  <2>5. \A u \in Threads : Runs(task'[u]) => u = Main
    BY <1>6, <2>2
  <2>6. \A u \in Threads : Runs(task'[u]) => task'[u].tx \in started'
    BY <1>10, <2>5
  <2>7. \A u \in Workers : ~ Runs(task'[u])
    BY <2>5, ThreadFacts
  <2>8. \A u, v \in Threads : (Runs(task'[u]) /\ task'[u].tx = task'[v].tx) => u = v
    <3>1. \A u, v \in Threads : (Runs(task'[u]) /\ task'[u].tx = task'[v].tx) => Runs(task'[v])
      BY DEF Runs
    <3> QED  BY <2>5, <3>1
  <2>9. TakenUpInv'
    BY <2>4, <2>6, <2>7, <2>8 DEF TakenUpInv
  <2> QED  BY <2>3, <2>9
<1> QED  BY <1>2, <1>5, <1>6, <1>7, <1>9, <1>10, TxStarts

\* The sequential group, to its end.
LEMMA NextConflictingKeeps ==
  ASSUME Live, Undisturbed, setup' = setup, NextConflicting
  PROVE  Live'
<1>1. CASE conflicting_txs \ started # {} /\ StartTx(Main, Min(conflicting_txs \ started))
  <2>1. At(Main, "sequential")
    BY DEF NextConflicting
  <2> QED  BY <1>1, <2>1, ConflictingKeeps
<1>2. CASE /\ conflicting_txs \subseteq started /\ Goto(Main, "root")
           /\ UNCHANGED <<classify, store, started>>
  <2>1. At(Main, "sequential")
    BY DEF NextConflicting
  <2> QED  BY <1>2, <2>1, GoesToRoot
<1> QED  BY <1>1, <1>2 DEF NextConflicting

\* While a flush goes on, what the accounts show is what the transactions that have
\* ended made of them: no checkpoint is open.
LEMMA FlushSees ==
  ASSUME Live, Undisturbed, flush_active, NEW a \in Accounts
  PROVE  \E j \in 0 .. Len(transactions) :
            /\ Reached(transactions, Ended, a, j)
            /\ View(a) = SerialOf(transactions)[j][a]
<1> DEFINE txs == transactions
<1>1. TypeInv /\ KindInv /\ GateInv /\ SerialInv
  BY DEF Live
<1>2. Views[a] = View(a)
  BY KeyFacts DEF Views
<1>3. CASE Free(txs, task, a)
  <2> HIDE DEF Views
  <2> QED  BY <1>1, <1>2, <1>3 DEF SerialInv, Settled
<1>4. CASE ~ Free(txs, task, a)
  <2>1. PICK t \in Threads : Runs(task[t]) /\ a \in Footprint(txs[task[t].tx])
    BY <1>4 DEF Free
  <2>2. ~ Holding(task[t])
    BY <1>1 DEF GateInv
  <2>3. Reached(txs, Ended, a, task[t].tx - 1) /\ Views[a] = Now(txs, task[t], a)
    <3> HIDE DEF Views
    <3> QED  BY <1>1, <2>1 DEF SerialInv, Level
  <2>4. Now(txs, task[t], a) = SerialOf(txs)[task[t].tx - 1][a]
    BY <2>2 DEF Now, Changed, Before
  <2>5. task[t].tx - 1 \in 0 .. Len(txs)
    BY <1>1, <2>1, TxFacts
  <2> HIDE DEF Views
  <2> QED  BY <1>2, <2>3, <2>4, <2>5
<1> QED  BY <1>3, <1>4

\* All of a transaction or nothing of it.
LEMMA AllOrNothing ==
  ASSUME Live, Undisturbed, flush_active, NEW d, \A a \in Accounts : d[a] = View(a),
         NEW i \in DOMAIN transactions
  PROVE  LET x == transactions[i]
             on == {a \in x.writes : d[a] # None /\ [tx |-> i, ok |-> TRUE] \in ToSet(d[a])}
         IN  on \in {{}, IF x.fails THEN {} ELSE x.writes}
<1> DEFINE txs == transactions
           x == transactions[i]
           on == {a \in x.writes : d[a] # None /\ [tx |-> i, ok |-> TRUE] \in ToSet(d[a])}
<1>1. txs \in Blocks
  BY DEF Live, TypeInv, Undisturbed
<1>2. i \in 1 .. Len(txs) /\ x.writes \subseteq Accounts /\ x.fails \in BOOLEAN
  BY <1>1, BlockTypes
<1>3. x.writes \subseteq Footprint(x)
  BY DEF Footprint
<1>4. ASSUME NEW a \in x.writes
      PROVE  a \in on <=> (i \in Ended /\ a \in Wrote(txs, i) /\ ~ x.fails)
  <2>1. a \in Accounts /\ a \in Footprint(x)
    BY <1>2, <1>3
  <2>2. PICK j \in 0 .. Len(txs) : /\ Reached(txs, Ended, a, j)
                                   /\ View(a) = SerialOf(txs)[j][a]
    BY <2>1, FlushSees
  <2>3. i <= j <=> i \in Ended
    BY <1>2, <2>1, <2>2 DEF Reached
  <2>4. Shows(SerialOf(txs)[j][a], i) <=> (i <= j /\ a \in Wrote(txs, i) /\ ~ x.fails)
    BY <1>1, <1>2, <2>1, SerialShows
  <2>5. d[a] = SerialOf(txs)[j][a]
    BY <2>1, <2>2
  <2>6. a \in on <=> Shows(d[a], i)
    BY DEF Shows
  <2> HIDE DEF on
  <2> QED  BY <2>3, <2>4, <2>5, <2>6
<1>5. ~ x.fails => Wrote(txs, i) \in {{}, x.writes}
  BY DEF Wrote
<1>6. on \subseteq x.writes
  OBVIOUS
<1> HIDE DEF on
<1>7. on \in {{}, IF x.fails THEN {} ELSE x.writes}
  <2>1. CASE x.fails
    <3>1. on = {}
      BY <1>4, <1>6, <2>1
    <3> QED  BY <3>1
  <2>2. CASE ~ x.fails
    <3>1. CASE i \in Ended /\ Wrote(txs, i) = x.writes
      <4>1. on = x.writes
        BY <1>4, <1>6, <2>2, <3>1
      <4> QED  BY <2>2, <4>1
    <3>2. CASE i \notin Ended \/ Wrote(txs, i) = {}
      <4>1. on = {}
        BY <1>4, <1>6, <3>2
      <4> QED  BY <4>1
    <3> QED  BY <1>5, <2>2, <3>1, <3>2
  <2> QED  BY <2>1, <2>2
<1> QED  BY <1>7 DEF on

\* A step that leaves the storage alone keeps it whole.
LEMMA DiskSame ==
  ASSUME TxAtomicOnDisk, disk' = disk, transactions' = transactions
  PROVE  TxAtomicOnDisk'
  BY DEF TxAtomicOnDisk

\* The one step that writes the storage does so too.
LEMMA BatchIsAtomic ==
  ASSUME Live, Undisturbed, setup' = setup, TxAtomicOnDisk, NEW t \in Threads, WriteBatch(t)
  PROVE  TxAtomicOnDisk'
<1>1. TypeInv /\ KindInv /\ GateInv
  BY DEF Live
<1>2. /\ Moves(t) /\ BlockSame /\ GateSame /\ journal' = journal
      /\ task[t].pc = "gather" /\ task[t].todo = {}
      /\ \/ /\ disk' = Written(task[t].batch) /\ cache' = cache
            /\ Doing(task'[t], "release", task[t].ret, task[t].key, task[t].val, task[t].tx,
                     task[t].todo, task[t].batch, task[t].ok)
         \/ disk' = disk
  BY <1>1, WriteBatchEffect
<1>3. transactions' = transactions
  BY <1>2 DEF BlockSame
<1>4. CASE disk' = disk
  BY <1>3, <1>4, DiskSame
<1>5. CASE /\ disk' = Written(task[t].batch) /\ cache' = cache
           /\ Doing(task'[t], "release", task[t].ret, task[t].key, task[t].val, task[t].tx,
                    task[t].todo, task[t].batch, task[t].ok)
  <2>1. task'[t].pc = "release" /\ task'[t].tx = task[t].tx /\ task'[t].batch = task[t].batch
    BY <1>5 DEF Doing
  <2>2. \A k \in Keys \ Beside(t) : disk'[k] = View(k)
    BY <1>2, <1>5, <2>1, WriteSucceeds
  <2>3. \A a \in Accounts : a \in Keys \ Beside(t)
    BY KeyFacts DEF Beside
  <2>4. flush_active
    BY <1>1, <1>2 DEF GateInv, Flushing
  <2>5. \A a \in Accounts : disk'[a] = View(a)
    BY <2>2, <2>3
  <2> SUFFICES ASSUME NEW i \in DOMAIN transactions
               PROVE  LET x == transactions[i]
                          on == {a \in x.writes : disk'[a] # None
                                                  /\ [tx |-> i, ok |-> TRUE] \in ToSet(disk'[a])}
                      IN  on \in {{}, IF x.fails THEN {} ELSE x.writes}
    BY <1>3 DEF TxAtomicOnDisk
  <2> QED  BY <2>4, <2>5, AllOrNothing
<1> QED  BY <1>2, <1>4, <1>5

\* When no flush goes on nothing is in a batch, and clean entries are as stored.
LEMMA CleanHolds ==
  ASSUME Live
  PROVE  CleanMatchesDisk
<1>1. GateInv /\ CleanInv
  BY DEF Live, StoreInv
<1>2. ~ flush_active => \A k : ~ Taken(task, k)
  BY <1>1 DEF GateInv, Flushing, Taken
<1> QED  BY <1>1, <1>2 DEF CleanMatchesDisk, CleanInv

\* Nothing runs any more.
LEMMA HaltedStays ==
  ASSUME Halted, Next
  PROVE  FALSE
<1>1. \A t \in Threads : task[t].pc = "halted"
  <2>1. "pc" \in DOMAIN Busy
    BY DEF Busy
  <2> QED  BY <2>1 DEF Halted, Stopped
<1>2. Main \in Threads /\ Readers \subseteq Threads /\ Handlers \subseteq Threads
      /\ Workers \subseteq Threads
  BY ThreadFacts
<1>3. ~ MainStep
  BY <1>1, <1>2 DEF MainStep, StoreRecord, WriteHeight, ClassifyBlock, Join, NextConflicting, Root,
                    Archive, EvictArchive, At
<1>4. ASSUME NEW t \in Threads, Step(t) PROVE FALSE
  BY <1>1, <1>2, <1>4 DEF Step, Lookup, Fill, CheckNonce, Open, Write, CommitTx, RevertTx, Close,
                          Claim, WriteBatch, Release, Touch, Gather, Spawn, At
<1>5. \A h \in Handlers : ~ PersistProposal(h)
  BY <1>1, <1>2 DEF PersistProposal, At
<1>6. \A r \in Readers, k \in setup.queried : ~ Query(r, k)
  BY <1>1, <1>2 DEF Query, At
<1> QED  BY <1>3, <1>4, <1>5, <1>6 DEF Next

\* What every thread does at first.
LEMMA FirstTasks ==
  ASSUME Init, NEW t \in Threads
  PROVE  /\ task[t] \in Tasks
         /\ Doing(task[t], IF t = Main THEN "record" ELSE "idle", "idle", None, None, 0, {},
                  <<>>, TRUE)
<1>1. task[t] = IF t = Main THEN [Busy EXCEPT !.pc = "record"] ELSE Busy
  BY DEF Init
<1>2. CASE t = Main
  <2> DEFINE e == [Busy EXCEPT !.pc = "record"]
  <2> HIDE DEF Slots, Values, Keys
  <2>1. "record" \in Labels
    BY DEF Labels
  <2>2. e \in Tasks /\ Doing(e, "record", "idle", None, None, 0, {}, <<>>, TRUE)
    BY <2>1, BusyIs DEF Tasks, Doing
  <2> HIDE DEF e
  <2>5. task[t] = e
    BY <1>1, <1>2 DEF e
  <2> QED  BY <1>2, <2>2, <2>5
<1>3. CASE t # Main
  BY <1>1, <1>3, BusyIs
<1> QED  BY <1>2, <1>3

\* What the store holds at first.
LEMMA FirstStore ==
  ASSUME Init
  PROVE  /\ setup \in Setups /\ setup.warm \subseteq Accounts \ Fresh
         /\ \A k \in Keys : /\ disk[k] = Initial(k) /\ disk[k] \in Slots
                            /\ cache[k] \in Entries
                            /\ cache[k] # None => /\ k \in setup.warm
                                                  /\ cache[k] = [slot |-> disk[k], dirty |-> FALSE]
                            /\ k \in setup.warm => cache[k] # None
                            /\ View(k) = Initial(k)
         /\ cache \in [Keys -> Entries] /\ disk \in [Keys -> Slots]
         /\ \A k \in Others : disk[k] = None /\ cache[k] = None
<1>1. setup \in Setups /\ setup.warm \subseteq Accounts \ Fresh
  BY StoreAssumption DEF Init, StoreAssumption
<1>2. /\ disk = [k \in Keys |-> Initial(k)]
      /\ cache = [k \in Keys |-> IF k \in setup.warm THEN [slot |-> disk[k], dirty |-> FALSE]
                                 ELSE None]
  BY DEF Init
<1>3. \A k \in Keys : Initial(k) \in Slots
  BY NoneFacts DEF Initial
<1>4. ASSUME NEW k \in Keys
      PROVE  /\ disk[k] = Initial(k) /\ disk[k] \in Slots
             /\ cache[k] \in Entries
             /\ cache[k] # None => /\ k \in setup.warm
                                   /\ cache[k] = [slot |-> disk[k], dirty |-> FALSE]
             /\ k \in setup.warm => cache[k] # None
             /\ View(k) = Initial(k)
  <2>1. disk[k] = Initial(k) /\ disk[k] \in Slots
    BY <1>2, <1>3
  <2> DEFINE e == [slot |-> disk[k], dirty |-> FALSE]
  <2>2. e \in [slot : Slots, dirty : BOOLEAN] /\ e.slot = disk[k]
    BY <2>1
  <2>3. cache[k] = IF k \in setup.warm THEN e ELSE None
    BY <1>2
  <2> HIDE DEF e
  <2>4. e # None /\ e \in Entries /\ None \in Entries
    BY <2>2, NoneFacts DEF Entries
  <2>5. View(k) = disk[k]
    BY <2>2, <2>3, <2>4 DEF View
  <2> QED  BY <2>1, <2>3, <2>4, <2>5 DEF e
<1>5. cache \in [Keys -> Entries] /\ disk \in [Keys -> Slots]
  <2>1. cache = [k \in Keys |-> cache[k]] /\ disk = [k \in Keys |-> disk[k]]
    BY <1>2
  <2> QED  BY <1>4, <2>1
<1>6. \A k \in Others : disk[k] = None /\ cache[k] = None
  <2> SUFFICES ASSUME NEW k \in Others PROVE disk[k] = None /\ cache[k] = None
    OBVIOUS
  <2>1. k \in Keys /\ k \notin Accounts
    BY KeyFacts
  <2>2. Initial(k) = None
    BY <2>1 DEF Initial
  <2> QED  BY <1>1, <1>4, <2>1, <2>2
<1> QED  BY <1>1, <1>4, <1>5, <1>6

\* At first all of it holds.
LEMMA LiveStarts ==
  ASSUME Init, Undisturbed
  PROVE  Live
<1> DEFINE txs == transactions
<1>1. /\ txs \in Blocks /\ at = 1 /\ independent_txs = {} /\ conflicting_txs = {}
      /\ open_checkpoints = 0 /\ flush_active = FALSE /\ started = {}
      /\ journal = [t \in Threads |-> None]
      /\ ClassifyInv
  BY ClassifyStarts DEF Init, SchedulerInit
<1>2. Size \in Nat /\ Len(txs) \in Nat
  BY <1>1, BlockTypes DEF Size
<1>3. \A t \in Threads : /\ task[t] \in Tasks
                         /\ Doing(task[t], IF t = Main THEN "record" ELSE "idle", "idle", None,
                                  None, 0, {}, <<>>, TRUE)
  BY FirstTasks
<1>4. \A t \in Threads : /\ ~ Runs(task[t]) /\ ~ Holding(task[t]) /\ ~ Flushing(task[t])
                         /\ task[t].pc = (IF t = Main THEN "record" ELSE "idle")
                         /\ DOMAIN task[t].batch = {}
  BY <1>3, EmptyValue DEF Doing, Runs, Holding, Access, Flushing
<1>5. Main \in Threads /\ task[Main].pc = "record"
  BY <1>4, ThreadFacts
<1>6. TypeInv
  <2>1. task \in [Threads -> Tasks]
    <3>1. task = [t \in Threads |-> task[t]]
      BY DEF Init
    <3> QED  BY <1>3, <3>1
  <2>2. journal \in [Threads -> Values \cup {None}] /\ flush_active \in BOOLEAN
        /\ started \subseteq 1 .. Size
    BY <1>1
  <2> QED  BY <1>1, <2>1, <2>2, FirstStore DEF TypeInv
<1>7. KindInv
  <2> SUFFICES ASSUME NEW t \in Threads PROVE Kind(setup, Size, t, task[t])
    BY DEF KindInv
  <2>1. ~ Runs(task[t]) /\ task[t].pc = (IF t = Main THEN "record" ELSE "idle")
    BY <1>4
  <2> QED  BY <2>1, ThreadFacts DEF Kind, Resting, Asking, Requesting, Early
<1>8. OrderInv
  <2>1. StageInv
    BY <1>1, <1>5 DEF StageInv, Early, Late
  <2>2. TakenUpInv
    BY <1>1, <1>4, ThreadFacts DEF TakenUpInv
  <2>3. GroupInv
    <3>1. 1 .. (at - 1) = {} /\ at \in 1 .. (Size + 1)
      BY <1>1, <1>2
    <3> QED  BY <1>1, <3>1 DEF GroupInv
  <2> QED  BY <2>1, <2>2, <2>3 DEF OrderInv
<1>9. GateInv
  <2>1. HoldingSet = {}
    BY <1>4 DEF HoldingSet
  <2>2. open_checkpoints = Cardinality(HoldingSet)
    BY <1>1, <2>1, FS_EmptySet
  <2> QED  BY <1>4, <2>2 DEF GateInv
<1>10. StoreInv
  <2>1. OthersInv
    BY FirstStore DEF OthersInv
  <2>2. BatchInv /\ FillInv
    BY <1>4 DEF BatchInv, FillInv
  <2>3. CleanInv
    <3> SUFFICES ASSUME NEW k \in Keys, cache[k] # None PROVE cache[k].slot = disk[k]
      BY DEF CleanInv
    <3>1. cache[k] = [slot |-> disk[k], dirty |-> FALSE]
      BY FirstStore
    <3> QED  BY <3>1
  <2>4. RoomInv
    <3>1. \A k \in Keys : disk[k] = Initial(k) /\ (k \in setup.warm => cache[k] # None)
      BY FirstStore
    <3>2. disk[Header] = None
      BY FirstStore, KeyFacts
    <3> QED  BY <3>1, <3>2 DEF RoomInv
  <2>5. EndInv
    BY <1>5 DEF EndInv
  <2> QED  BY <2>1, <2>2, <2>3, <2>4, <2>5 DEF StoreInv
<1>11. TipInv
  <2>1. disk[Height] = None /\ cache[Height] = None
    BY FirstStore, KeyFacts
  <2> QED  BY <1>4, <1>5, <2>1 DEF TipInv
<1>12. SerialInv
  <2>1. \A t \in Threads : journal[t] = Journal(txs, task[t])
    BY <1>1, <1>4 DEF Journal
  <2>2. ASSUME NEW x \in Accounts PROVE Settled(txs, Ended, Views, x)
    <3>1. Ended = {}
      BY <1>1 DEF Ended
    <3>2. 0 \in 0 .. Len(txs) /\ \A i \in 1 .. Len(txs) : ~ (i <= 0)
      BY <1>2
    <3>3. Reached(txs, Ended, x, 0)
      BY <3>1, <3>2 DEF Reached
    <3>4. Views[x] = SerialOf(txs)[0][x]
      <4>1. View(x) = Initial(x) /\ Views[x] = View(x)
        BY FirstStore, KeyFacts DEF Views
      <4>2. SerialOf(txs)[0] = First
        BY <1>1, SerialSteps
      <4> QED  BY <4>1, <4>2 DEF First
    <3> HIDE DEF Views
    <3> QED  BY <3>2, <3>3, <3>4 DEF Settled
  <2>3. task[Main].pc \notin {"archive", "claim"}
    BY <1>5
  <2> HIDE DEF Views
  <2> QED  BY <1>4, <2>1, <2>2, <2>3 DEF SerialInv
<1> QED  BY <1>6, <1>7, <1>8, <1>9, <1>10, <1>11, <1>12 DEF Live

\* The invariant holds at first: no transaction is on the disk.
LEMMA IInvStarts == Init => IInv
<1> SUFFICES ASSUME Init, Undisturbed PROVE TxAtomicOnDisk /\ Live
  BY DEF IInv
<1>1. \A k \in Keys : disk[k] = Initial(k)
  BY FirstStore
<1>2. transactions \in Blocks
  BY DEF Init, SchedulerInit
<1>3. TxAtomicOnDisk
  <2> SUFFICES ASSUME NEW i \in DOMAIN transactions
               PROVE  LET x == transactions[i]
                          on == {a \in x.writes : disk[a] # None
                                                  /\ [tx |-> i, ok |-> TRUE] \in ToSet(disk[a])}
                      IN  on \in {{}, IF x.fails THEN {} ELSE x.writes}
    BY DEF TxAtomicOnDisk
  <2> DEFINE x == transactions[i]
  <2>1. x.writes \subseteq Accounts
    BY <1>2, BlockTypes
  <2>2. \A a \in x.writes : disk[a] # None => ToSet(disk[a]) = {}
    <3> SUFFICES ASSUME NEW a \in x.writes, disk[a] # None PROVE ToSet(disk[a]) = {}
      OBVIOUS
    <3>1. disk[a] = <<>>
      BY <1>1, <2>1, KeyFacts DEF Initial
    <3>2. DOMAIN <<>> = {}
      BY EmptyValue
    <3> QED  BY <3>1, <3>2 DEF ToSet
  <2> QED  BY <2>2
<1> QED  BY <1>3, LiveStarts

\* When nothing changes, nothing is lost.
LEMMA LiveStays ==
  ASSUME Live, UNCHANGED vars
  PROVE  Live'
<1>1. OrderInv
  BY DEF Live
<1>2. /\ setup' = setup /\ task' = task /\ started' = started /\ store' = store
      /\ transactions' = transactions /\ at' = at /\ independent_txs' = independent_txs
      /\ conflicting_txs' = conflicting_txs /\ locked_accounts' = locked_accounts
  BY DEF vars, classify
<1>3. TypeInv' /\ KindInv' /\ GateInv' /\ StoreInv' /\ TipInv' /\ SerialInv'
  BY <1>2, StateSame
<1>4. StageInv' /\ TakenUpInv'
  BY <1>1, <1>2 DEF OrderInv, StageInv, TakenUpInv, Size
<1>5. GroupInv'
  BY <1>1, <1>2, GroupSame DEF OrderInv
<1> QED  BY <1>3, <1>4, <1>5 DEF Live, OrderInv

\* The process stops when the flush of the committing thread has failed.
LEMMA ReleaseHalts ==
  ASSUME Live, Release(Main), ~ task[Main].ok
  PROVE  Halted' /\ disk' = disk /\ transactions' = transactions /\ TipLoads' /\ CleanMatchesDisk'
<1>1. TypeInv /\ KindInv /\ GateInv /\ CleanInv /\ TipInv /\ Main \in Threads
  BY ThreadFacts DEF Live, StoreInv
<1>2. /\ task' = Stopped /\ disk' = disk /\ cache' = cache /\ transactions' = transactions
      /\ task[Main].pc = "release"
  BY <1>1, ReleaseEffect DEF BlockSame, StoreSame
<1>3. Halted'
  BY <1>2 DEF Halted, Stopped, Busy
<1>4. TipLoads'
  BY <1>1, <1>2 DEF TipLoads, TipInv
<1>5. \A k : ~ Taken(task, k)
  BY <1>1, <1>2, OneGathers DEF Flushing
<1>6. CleanMatchesDisk'
  BY <1>1, <1>2, <1>5 DEF CleanMatchesDisk, CleanInv
<1> QED  BY <1>2, <1>3, <1>4, <1>6

\* A step of a thread.
LEMMA StepKeeps ==
  ASSUME Live, Undisturbed, setup' = setup, NEW t \in Threads, Step(t)
  PROVE  Live' \/ (Release(Main) /\ ~ task[Main].ok)
<1>1. CASE Lookup(t)
  BY <1>1, LookupKeeps
<1>2. CASE Fill(t)
  BY <1>2, FillKeeps
<1>3. CASE CheckNonce(t)
  BY <1>3, NoncePasses, NonceDrops
<1>4. CASE Open(t)
  BY <1>4, OpenKeeps
<1>5. CASE Write(t)
  BY <1>5, WriteKeeps
<1>6. CASE CommitTx(t)
  BY <1>6, CommitKeeps
<1>7. CASE RevertTx(t)
  BY <1>7, RevertKeeps
<1>8. CASE Close(t)
  BY <1>8, ClosesFailed, ClosesLast
<1>9. CASE Claim(t)
  BY <1>9, ClaimKeeps
<1>10. CASE WriteBatch(t)
  BY <1>10, WriteBatchKeeps
<1>11. CASE Release(t)
  BY <1>11, ReleaseKeeps
<1>12. CASE \E a \in Accounts : Touch(t, a)
  BY <1>12, TouchKeeps
<1>13. CASE \E k \in Keys : Gather(t, k)
  BY <1>13, GatherKeeps
<1>14. CASE \E i \in independent_txs : Spawn(t, i)
  BY <1>14, SpawnKeeps
<1> QED  BY <1>1, <1>2, <1>3, <1>4, <1>5, <1>6, <1>7, <1>8, <1>9, <1>10, <1>11, <1>12, <1>13,
            <1>14 DEF Step

\* A step of the block.
LEMMA MainKeeps ==
  ASSUME Live, Undisturbed, setup' = setup, MainStep
  PROVE  Live'
<1>1. CASE StoreRecord
  BY <1>1, StoreRecordKeeps
<1>2. CASE WriteHeight
  BY <1>2, WriteHeightKeeps
<1>3. CASE ClassifyBlock
  BY <1>3, ClassifyBlockKeeps
<1>4. CASE Join
  BY <1>4, JoinKeeps
<1>5. CASE NextConflicting
  BY <1>5, NextConflictingKeeps
<1>6. CASE Root
  BY <1>6, RootKeeps
<1>7. CASE Archive
  BY <1>7, ArchiveKeeps
<1>8. CASE EvictArchive
  BY <1>8, EvictArchiveKeeps
<1> QED  BY <1>1, <1>2, <1>3, <1>4, <1>5, <1>6, <1>7, <1>8 DEF MainStep

\* Only write_batch changes the storage.
LEMMA OnlyBatchWrites ==
  ASSUME Next
  PROVE  /\ transactions' = transactions
         /\ disk' = disk \/ \E t \in Threads : WriteBatch(t)
<1>1. CASE MainStep
  BY <1>1 DEF MainStep, StoreRecord, WriteHeight, ClassifyBlock, Join, NextConflicting, StartTx,
              Root, Archive, EvictArchive, SetAccount, Classify, classify, store
<1>2. ASSUME NEW t \in Threads, Step(t)
      PROVE  /\ transactions' = transactions
             /\ disk' = disk \/ WriteBatch(t)
  BY <1>2 DEF Step, Lookup, Fill, CheckNonce, Open, Write, CommitTx, RevertTx, Close, Claim,
              WriteBatch, Release, Touch, Gather, Spawn, StartTx, SetAccount, classify, store
<1>3. CASE \E h \in Handlers : PersistProposal(h)
  BY <1>3 DEF PersistProposal, SetAccount, classify
<1>4. CASE \E r \in Readers, k \in setup.queried : Query(r, k)
  BY <1>4 DEF Query, classify, store
<1> QED  BY <1>1, <1>2, <1>3, <1>4 DEF Next

\* Every step keeps the invariant.
LEMMA IInvKeeps == IInv /\ [Next]_vars => IInv'
<1> SUFFICES ASSUME IInv, [Next]_vars, Undisturbed' PROVE
        TxAtomicOnDisk' /\ (Live' \/ (Halted' /\ TipLoads' /\ CleanMatchesDisk'))
  BY DEF IInv
<1>1. setup' = setup /\ transactions' = transactions
  BY OnlyBatchWrites DEF Next, vars, classify
<1>2. Undisturbed
  BY <1>1 DEF Undisturbed, Alone, Roomy
<1>3. TxAtomicOnDisk /\ (Live \/ (Halted /\ TipLoads /\ CleanMatchesDisk))
  BY <1>2 DEF IInv
<1>4. CASE UNCHANGED vars
  <2>1. /\ disk' = disk /\ cache' = cache /\ flush_active' = flush_active /\ task' = task
    BY <1>4 DEF vars, store
  <2>2. TxAtomicOnDisk'
    BY <1>1, <1>3, <2>1, DiskSame
  <2>3. CASE Live
    BY <1>4, <2>2, <2>3, LiveStays
  <2>4. CASE Halted /\ TipLoads /\ CleanMatchesDisk
    BY <2>1, <2>2, <2>4 DEF Halted, Stopped, Busy, TipLoads, CleanMatchesDisk
  <2> QED  BY <1>3, <2>3, <2>4
<1>5. CASE Next
  <2>1. Live
    BY <1>3, <1>5, HaltedStays
  <2>2. TxAtomicOnDisk'
    <3>1. CASE disk' = disk
      BY <1>1, <1>3, <3>1, DiskSame
    <3>2. CASE \E t \in Threads : WriteBatch(t)
      BY <1>1, <1>2, <1>3, <2>1, <3>2, BatchIsAtomic
    <3> QED  BY <1>5, <3>1, <3>2, OnlyBatchWrites
  <2>3. Live' \/ (Release(Main) /\ ~ task[Main].ok)
    <3>1. CASE MainStep
      BY <1>1, <1>2, <2>1, <3>1, MainKeeps
    <3>2. CASE \E t \in Threads : Step(t)
      BY <1>1, <1>2, <2>1, <3>2, StepKeeps
    <3>3. CASE \E h \in Handlers : PersistProposal(h)
      BY <1>1, <1>2, <2>1, <3>3, PersistKeeps
    <3>4. CASE \E r \in Readers, k \in setup.queried : Query(r, k)
      BY <1>1, <2>1, <3>4, QueryKeeps
    <3> QED  BY <1>5, <3>1, <3>2, <3>3, <3>4 DEF Next
  <2>4. CASE Release(Main) /\ ~ task[Main].ok
    BY <2>1, <2>2, <2>4, ReleaseHalts
  <2> QED  BY <2>2, <2>3, <2>4
<1> QED  BY <1>4, <1>5

\* It gives the three properties of the runs.
LEMMA IInvGives ==
  IInv => (Undisturbed => CrashConsistent /\ ParallelIsSerial /\ CleanMatchesDisk)
<1> SUFFICES ASSUME IInv, Undisturbed PROVE CrashConsistent /\ ParallelIsSerial /\ CleanMatchesDisk
  OBVIOUS
<1>1. TxAtomicOnDisk /\ (Live \/ (Halted /\ TipLoads /\ CleanMatchesDisk))
  BY DEF IInv
<1>2. CASE Live
  <2>1. TipLoads
    BY <1>2 DEF Live, TipInv, TipLoads
  <2>2. ParallelIsSerial
    BY <1>2, SerialHolds DEF ParallelIsSerial, At
  <2> QED  BY <1>1, <1>2, <2>1, <2>2, CleanHolds DEF CrashConsistent
<1>3. CASE Halted /\ TipLoads /\ CleanMatchesDisk
  <2>1. ~ At(Main, "root")
    <3>1. task[Main] = [Busy EXCEPT !.pc = "halted"]
      BY <1>3, ThreadFacts DEF Halted, Stopped
    <3>2. task[Main].pc = "halted"
      BY <3>1 DEF Busy
    <3> QED  BY <3>2 DEF At
  <2> QED  BY <1>1, <1>3, <2>1 DEF CrashConsistent, ParallelIsSerial
<1> QED  BY <1>1, <1>2, <1>3

\* CrashConsistent: at whatever moment the node crashes, the storage has all the
\* writes of a transaction or none, none of a reverted one, and no height without
\* its consensus record.  checkpoint, revert_checkpoint and flush owe this to the
\* CheckpointGate, also while other threads run transactions, bridge requests
\* flush and write_batch fails.
THEOREM CrashIsConsistent == Spec => [](Undisturbed => CrashConsistent)
<1>1. Init => IInv
  BY IInvStarts
<1>2. IInv /\ [Next]_vars => IInv'
  BY IInvKeeps
<1>3. IInv => (Undisturbed => CrashConsistent)
  BY IInvGives
<1> QED  BY <1>1, <1>2, <1>3, PTL DEF Spec

\* ParallelIsSerial: the accounts whose root commit_block compares with the header's
\* are those of serial execution in block order, however the Rayon workers and the
\* RPC server interleave and whatever the cache evicts.
THEOREM ExecutionIsSerial == Spec => [](Undisturbed => ParallelIsSerial)
<1>1. Init => IInv
  BY IInvStarts
<1>2. IInv /\ [Next]_vars => IInv'
  BY IInvKeeps
<1>3. IInv => (Undisturbed => ParallelIsSerial)
  BY IInvGives
<1> QED  BY <1>1, <1>2, <1>3, PTL DEF Spec

\* CleanMatchesDisk: what the cache calls clean is what the storage holds whenever
\* nobody flushes, so that maybe_evict_cache never drops a change.
THEOREM CleanIsStored == Spec => [](Undisturbed => CleanMatchesDisk)
<1>1. Init => IInv
  BY IInvStarts
<1>2. IInv /\ [Next]_vars => IInv'
  BY IInvKeeps
<1>3. IInv => (Undisturbed => CleanMatchesDisk)
  BY IInvGives
<1> QED  BY <1>1, <1>2, <1>3, PTL DEF Spec

\* Every step of a block's execution is a turn of the classifying loop or leaves
\* what it works on alone.
LEMMA OnlyClassifyBlock ==
  ASSUME Next
  PROVE  [Classify]_classify
<1>1. CASE MainStep
  BY <1>1 DEF MainStep, StoreRecord, WriteHeight, ClassifyBlock, Join, NextConflicting, StartTx,
              Root, Archive, EvictArchive, SetAccount, store
<1>2. ASSUME NEW t \in Threads, Step(t)
      PROVE  UNCHANGED classify
  BY <1>2 DEF Step, Lookup, Fill, CheckNonce, Open, Write, CommitTx, RevertTx, Close, Claim,
              WriteBatch, Release, Touch, Gather, Spawn, StartTx, SetAccount, store
<1>3. CASE \E h \in Handlers : PersistProposal(h)
  BY <1>3 DEF PersistProposal, SetAccount
<1>4. CASE \E r \in Readers, k \in setup.queried : Query(r, k)
  BY <1>4 DEF Query, store
<1> QED  BY <1>1, <1>2, <1>3, <1>4 DEF Next

\* commit_block classifies a block exactly as the scheduler does alone, whatever
\* the threads, the RPC server and the bridge do meanwhile.
THEOREM BlockClassifies == Spec => SchedulerSpec
<1>1. Init => SchedulerInit
  BY DEF Init
<1>2. [Next]_vars => [Classify]_classify
  BY OnlyClassifyBlock DEF vars
<1> QED  BY <1>1, <1>2, PTL DEF Spec, SchedulerSpec

\* So what the workers of a block run never shares a lock with what precedes it.
THEOREM WorkersAreIndependent == Spec => []IndependentOfEarlier
  BY BlockClassifies, ParallelGroupIsIndependent, PTL

\* Whoever pays the producer holds the RewardPool, so that payments alone never
\* make two transactions meet behind the scheduler's back: a block is undisturbed
\* as soon as those that pay nobody leave the producer alone.
THEOREM PayersShare ==
  ASSUME NEW txs \in Blocks,
         \A i \in 1 .. Len(txs) : Rewarded(txs[i]) = {} => Producer \notin Touched(txs[i])
  PROVE  SharesToken(txs)
<1> SUFFICES ASSUME NEW i \in 1 .. Len(txs), NEW j \in 1 .. Len(txs),
                    NEW a \in Footprint(txs[i]) \cap Footprint(txs[j])
             PROVE  Touched(txs[i]) \cap Touched(txs[j]) # {}
  BY DEF SharesToken
<1>1. \A m \in 1 .. Len(txs) : txs[m].writes \subseteq Touched(txs[m]) \cup Rewarded(txs[m])
  BY FootprintAssumption DEF FootprintAssumption
<1>2. \A m \in 1 .. Len(txs) : Rewarded(txs[m]) # {} =>
          Rewarded(txs[m]) = {Producer} /\ RewardPool \in Touched(txs[m])
  BY RulesInForce DEF Rewarded, Touched
<1>3. a \in Touched(txs[i]) \cup Rewarded(txs[i]) /\ a \in Touched(txs[j]) \cup Rewarded(txs[j])
  BY <1>1 DEF Footprint
<1>4. CASE a \in Touched(txs[i]) /\ a \in Touched(txs[j])
  BY <1>4
<1>5. CASE a \in Rewarded(txs[i]) \/ a \in Rewarded(txs[j])
  <2>1. a = Producer
    BY <1>5 DEF Rewarded
  <2>2. Rewarded(txs[i]) # {} /\ Rewarded(txs[j]) # {}
    BY <1>3, <1>5, <2>1
  <2> QED  BY <1>2, <2>2
<1> QED  BY <1>3, <1>4, <1>5
=============================================================================
