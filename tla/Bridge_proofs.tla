---------------------------- MODULE Bridge_proofs ----------------------------
(***************************************************************************)
(* The bridge implements ExactlyOnce, and what a manager holds is listed:   *)
(* for any nodes, authorities, deposits, limits and quorums.  The argument  *)
(* is the same for both: where a proposal goes (memory, state key, the      *)
(* executor's list, mempool, archive) it keeps the deposit it was made for, *)
(* and a deposit is credited in the step that locks it.                     *)
(* The daily limit is about sums of amounts, for which Worth is shown to be *)
(* a sum in the sense of Sums.                                              *)
(*                                                                         *)
(* The inbound loop of a relayer skips no deposit and signs none that      *)
(* Ethereum may take back: for any deposits, depth, window and start       *)
(* block. The argument: a cursor, and the end of the chunk at work, are    *)
(* Depth below the head, so no deposit can enter or leave the blocks below *)
(* them; and each deposit in those blocks is proposed or still to do,      *)
(* unless the chunk has failed.                                            *)
(*                                                                         *)
(* The outbound loop of a relayer skips no burn: for any number of burns,  *)
(* size of the chain's index and number of attempts.  The argument: the    *)
(* burns of a scan, from the cursor to its top, are filed, or still to do, *)
(* or failed, and the cursor goes to the first that failed.                *)
(***************************************************************************)
EXTENDS Bridge, Inbound, Outbound, Sums

-----------------------------------------------------------------------------
(* The managers and the chain. *)

\* Everything that is called a proposal anywhere is for a final deposit.
Founded ==
    /\ \A n \in Nodes : \A p \in proposals[n] \cup record[n] \cup scan[n].list :
          p.dep \in confirmed
    /\ \A p \in pool \cup archive : p.dep \in confirmed

\* A deposit is locked exactly when it has been credited, once.
Credited == \A d \in Deposits : minted[d] = IF d \in processed THEN 1 ELSE 0

BInv == TypeOK /\ Founded /\ Credited /\ HeldIsListed

-----------------------------------------------------------------------------
\* What the helpers on sets of proposals keep.
LEMMA ReplacedType ==
    ASSUME NEW S \in SUBSET Proposal, NEW p \in Proposal
    PROVE  /\ Replaced(S, p) \in SUBSET Proposal
           /\ IdsOf(S) \in SUBSET (Deposits \X Nat)
           /\ \A i : Without(S, i) \in SUBSET S
           /\ \A q \in Replaced(S, p) : q = p \/ q \in S
           /\ \A i \in IdsOf(S) : i \in IdsOf(Replaced(S, p))
BY DEF Replaced, Without, IdsOf, Id, Proposal

\* A block brings every node a proposal its proposer had, and takes away none.
LEMMA IngestedKeeps ==
    ASSUME TypeOK, NEW n \in Nodes, NEW m \in Nodes, NEW p \in Proposal
    PROVE  /\ Ingested(n, p)[m] \in SUBSET Proposal
           /\ \A q \in Ingested(n, p)[m] : q \in record[m] \cup record[n] \cup archive
           /\ \A i \in IdsOf(record[m]) : i \in IdsOf(Ingested(n, p)[m])
<1> DEFINE sent == {q \in (IF Id(p) \in IdsOf(record[n]) THEN record[n] ELSE archive) :
                       Id(q) = Id(p) /\ Cardinality(q.sigs) >= Required}
<1>1. Ingested(n, p)[m] = IF sent = {} THEN record[m]
                          ELSE Without(record[m], Id(p)) \cup sent
  BY DEF Ingested
<1>2. sent \in SUBSET (record[n] \cup archive)
  OBVIOUS
<1>3. record[m] \in SUBSET Proposal /\ record[n] \in SUBSET Proposal
      /\ archive \in SUBSET Proposal
  BY DEF TypeOK
<1>4. \A q \in sent : Id(q) = Id(p)
  OBVIOUS
<1> HIDE DEF sent
<1>5. \A q \in record[m] : Id(q) # Id(p) => q \in Without(record[m], Id(p))
  BY DEF Without
<1>6. ASSUME NEW i \in IdsOf(record[m])
      PROVE  i \in IdsOf(Ingested(n, p)[m])
  <2>1. PICK q \in record[m] : i = Id(q)
    BY <1>6 DEF IdsOf
  <2>2. CASE sent = {}
    BY <2>1, <2>2, <1>1 DEF IdsOf
  <2>3. CASE sent # {} /\ Id(q) # Id(p)
    BY <2>1, <2>3, <1>1, <1>5 DEF IdsOf
  <2>4. CASE sent # {} /\ Id(q) = Id(p)
    <3>1. PICK r \in sent : TRUE
      BY <2>4
    <3>2. r \in Ingested(n, p)[m] /\ Id(r) = i
      BY <3>1, <2>1, <2>4, <1>1, <1>4
    <3> QED
      BY <3>2 DEF IdsOf
  <2> QED
    BY <2>2, <2>3, <2>4
<1>7. Without(record[m], Id(p)) \in SUBSET record[m]
  BY DEF Without
<1> QED
  BY <1>1, <1>2, <1>3, <1>6, <1>7

\* The initial state satisfies the invariant.
LEMMA BridgeInit == Init => BInv
BY NonceAssumption
   DEF Init, BInv, TypeOK, Founded, Credited, HeldIsListed, Idle

\* persist_proposal, by a node that holds S once p is in it: every proposal held
\* that is not minted is listed, if all but p were before.
LEMMA PersistedKeeps ==
    ASSUME BInv, NEW n \in Nodes, NEW p \in Proposal, NEW S \in SUBSET Proposal,
           p \in S, p.dep \in confirmed,
           \A q \in S : q = p \/ q \in proposals[n],
           Persisted(n, p, S), UNCHANGED <<confirmed, scan, pool, processed, minted,
                                           tracker, archive, now>>,
           nonce' \in [Nodes -> Nat]
    PROVE  BInv'
<1>1. /\ Replaced(record[n], p) \in SUBSET Proposal
      /\ IdsOf(S) \in SUBSET (Deposits \X Nat)
      /\ \A q \in Replaced(record[n], p) : q = p \/ q \in record[n]
      /\ \A i \in IdsOf(record[n]) : i \in IdsOf(Replaced(record[n], p))
  BY ReplacedType DEF BInv, TypeOK
<1>2. TypeOK'
  BY <1>1 DEF BInv, TypeOK, Persisted
<1>3. /\ proposals'[n] = S /\ record'[n] = Replaced(record[n], p) /\ index'[n] = IdsOf(S)
      /\ \A m \in Nodes \ {n} : /\ proposals'[m] = proposals[m]
                                /\ record'[m] = record[m]
                                /\ index'[m] = index[m]
  BY DEF BInv, TypeOK, Persisted
<1>4. Founded'
  <2>1. ASSUME NEW m \in Nodes
        PROVE  \A q \in proposals'[m] \cup record'[m] \cup scan'[m].list : q.dep \in confirmed'
    BY <1>1, <1>3 DEF BInv, Founded
  <2> QED
    BY <2>1 DEF BInv, Founded
<1>5. Credited'
  BY DEF BInv, Credited
<1>6. HeldIsListed'
  <2> SUFFICES ASSUME NEW m \in Nodes, NEW q \in proposals'[m], q.dep \notin processed'
               PROVE  Id(q) \in IdsOf(Listed(m)')
    BY DEF HeldIsListed, IdsOf, Id
  <2>1. CASE m = n
    <3>1. Id(q) \in index'[n]
      BY <1>3, <2>1 DEF IdsOf
    <3>2. Id(q) \in IdsOf(record'[n])
      <4>1. CASE q = p
        BY <4>1, <1>3 DEF IdsOf, Replaced
      <4>2. CASE q # p
        <5>1. q \in proposals[n] /\ q.dep \notin processed
          BY <4>2, <2>1, <1>3
        <5>2. Id(q) \in IdsOf(record[n])
          BY <5>1 DEF BInv, HeldIsListed, IdsOf, Listed
        <5> QED
          BY <5>2, <1>1, <1>3
      <4> QED
        BY <4>1, <4>2
    <3> QED
      BY <3>1, <3>2, <2>1 DEF Listed, IdsOf
  <2>2. CASE m # n
    <3>1. Id(q) \in IdsOf(Listed(m))
      BY <2>2, <1>3 DEF BInv, HeldIsListed
    <3>2. Listed(m)' = Listed(m)
      BY <2>2, <1>3 DEF Listed
    <3> QED
      BY <3>1, <3>2
  <2> QED
    BY <2>1, <2>2
<1> QED
  BY <1>2, <1>4, <1>5, <1>6 DEF BInv

\* The state a block leaves: what it ingests, without the proposals in gone.
LEMMA BlockKeeps ==
    ASSUME BInv, NEW n \in Nodes, NEW p \in pool, NEW i,
           i = Id(p),
           UNCHANGED <<now, confirmed, proposals, nonce, scan>>,
           pool' = Without(pool, Id(p)),
           \/ /\ record' = Ingested(n, p)
              /\ index' = index
              /\ processed' = processed
           \/ /\ record' = [m \in Nodes |-> Without(Ingested(n, p)[m], i)]
              /\ index' = [m \in Nodes |-> index[m] \ {i}]
              /\ processed' = processed \cup {p.dep}
    PROVE  /\ record' \in [Nodes -> SUBSET Proposal]
           /\ index' \in [Nodes -> SUBSET (Deposits \X Nat)]
           /\ pool' \subseteq pool
           /\ \A m \in Nodes : \A q \in record'[m] : q.dep \in confirmed
           /\ HeldIsListed'
<1>0. p \in Proposal
  BY DEF BInv, TypeOK
<1>1. \A m \in Nodes : /\ Ingested(n, p)[m] \in SUBSET Proposal
                       /\ \A q \in Ingested(n, p)[m] : q \in record[m] \cup record[n] \cup archive
                       /\ \A j \in IdsOf(record[m]) : j \in IdsOf(Ingested(n, p)[m])
  BY <1>0, IngestedKeeps DEF BInv
<1>2. DOMAIN Ingested(n, p) = Nodes
      /\ Ingested(n, p) = [m \in Nodes |-> Ingested(n, p)[m]]
  BY DEF Ingested
<1>3. record' \in [Nodes -> SUBSET Proposal]
      /\ \A m \in Nodes : record'[m] \in SUBSET Ingested(n, p)[m]
  BY <1>1, <1>2 DEF Without
<1>4. index' \in [Nodes -> SUBSET (Deposits \X Nat)]
  BY DEF BInv, TypeOK
<1>5. \A m \in Nodes : \A q \in record'[m] : q.dep \in confirmed
  BY <1>1, <1>3 DEF BInv, Founded
<1>6. ASSUME NEW m \in Nodes, NEW q \in proposals[m], q.dep \notin processed'
      PROVE  Id(q) \in IdsOf(Listed(m)')
  <2>1. Id(q) \in IdsOf(Listed(m))
    BY <1>6 DEF BInv, HeldIsListed
  <2>2. Id(q) \in index[m] /\ Id(q) \in IdsOf(record[m])
    BY <2>1 DEF Listed, IdsOf
  <2>3. PICK r \in Ingested(n, p)[m] : Id(r) = Id(q)
    BY <2>2, <1>1 DEF IdsOf
  <2>4. CASE record' = Ingested(n, p) /\ index' = index
    BY <2>2, <2>3, <2>4 DEF Listed, IdsOf
  <2>5. CASE /\ record' = [k \in Nodes |-> Without(Ingested(n, p)[k], i)]
             /\ index' = [k \in Nodes |-> index[k] \ {i}]
             /\ processed' = processed \cup {p.dep}
    <3>1. Id(q) # i
      BY <2>5, <1>6 DEF Id
    <3>2. r \in record'[m] /\ Id(q) \in index'[m]
      BY <2>2, <2>3, <2>5, <3>1 DEF Without
    <3> QED
      BY <3>2, <2>3 DEF Listed, IdsOf
  <2> QED
    BY <2>4, <2>5
<1>7. HeldIsListed'
  BY <1>6 DEF HeldIsListed
<1> QED
  BY <1>3, <1>4, <1>5, <1>7 DEF Without

\* Every step keeps the invariant.
LEMMA BridgeStep == BInv /\ [Next]_vars => BInv'
<1> SUFFICES ASSUME BInv, [Next]_vars PROVE BInv'
  OBVIOUS
<1> USE DEF local, chain
<1>1. CASE Tick
  BY <1>1 DEF Tick, BInv, TypeOK, Founded, Credited, HeldIsListed, Listed
<1>2. ASSUME NEW d \in Deposits, Confirm(d) PROVE BInv'
  BY <1>2 DEF Confirm, BInv, TypeOK, Founded, Credited, HeldIsListed, Listed
<1>3. ASSUME NEW a \in Authorities, NEW d \in Deposits, Propose(a, d) PROVE BInv'
  <2> DEFINE n == Home[a]
             p == [dep |-> d, nonce |-> nonce[n] + 1, at |-> now, sigs |-> {}]
  <2>1. n \in Nodes /\ p \in Proposal /\ nonce' \in [Nodes -> Nat]
    BY <1>3, HomeAssumption DEF BInv, TypeOK, Proposal, Propose
  <2>2. proposals[n] \cup {p} \in SUBSET Proposal
    BY <2>1 DEF BInv, TypeOK
  <2>3. p.dep = d /\ d \in confirmed
    BY <1>3 DEF Propose
  <2>4. Persisted(n, p, proposals[n] \cup {p})
        /\ UNCHANGED <<confirmed, scan, pool, processed, minted, tracker, archive, now>>
    BY <1>3 DEF Propose
  <2> HIDE DEF p
  <2> QED
    BY <2>1, <2>2, <2>3, <2>4, PersistedKeeps
<1>4. ASSUME NEW a \in Authorities, NEW p \in proposals[Home[a]], Sign(a, p) PROVE BInv'
  <2> DEFINE n == Home[a]
             q == [p EXCEPT !.sigs = @ \cup {a}]
             S == Replaced(proposals[n], q)
  <2>1. n \in Nodes /\ p \in Proposal
    BY <1>4, HomeAssumption DEF BInv, TypeOK
  <2>2. q \in Proposal /\ q.dep = p.dep
    BY <2>1 DEF Proposal
  <2>3. S \in SUBSET Proposal /\ q \in S /\ \A r \in S : r = q \/ r \in proposals[n]
    BY <2>1, <2>2 DEF BInv, TypeOK, Replaced, Without
  <2>4. nonce' \in [Nodes -> Nat]
    BY <1>4 DEF Sign, BInv, TypeOK
  <2> HIDE DEF q, S
  <2>5. Persisted(n, q, S) /\ q.dep \in confirmed
        /\ UNCHANGED <<confirmed, scan, pool, processed, minted, tracker, archive, now>>
    BY <1>4, <2>2 DEF Sign, q, S
  <2> QED
    BY <2>1, <2>2, <2>3, <2>4, <2>5, PersistedKeeps
<1>5. ASSUME NEW n \in Nodes, ScanLoad(n) PROVE BInv'
  <2>1. Listed(n) \in SUBSET record[n]
    BY DEF Listed
  <2>2. TypeOK'
    BY <1>5, <2>1 DEF ScanLoad, BInv, TypeOK
  <2>3. Founded'
    BY <1>5, <2>1 DEF ScanLoad, BInv, TypeOK, Founded
  <2> QED
    BY <1>5, <2>2, <2>3 DEF ScanLoad, BInv, Credited, HeldIsListed, Listed
<1>6. ASSUME NEW n \in Nodes, ScanPrune(n) PROVE BInv'
  <2>1. \A m \in Nodes : proposals'[m] \in SUBSET proposals[m]
    BY <1>6 DEF ScanPrune, BInv, TypeOK
  <2>2. \A m \in Nodes : scan'[m].list \in SUBSET scan[m].list
    BY <1>6 DEF ScanPrune, BInv, TypeOK, Idle
  <2>3. TypeOK'
    BY <1>6 DEF ScanPrune, BInv, TypeOK, Idle
  <2>4. Founded'
    BY <1>6, <2>1, <2>2 DEF ScanPrune, BInv, Founded
  <2> QED
    BY <1>6, <2>1, <2>3, <2>4 DEF ScanPrune, BInv, Credited, HeldIsListed, Listed
<1>7. ASSUME NEW n \in Nodes, NEW p \in scan[n].list, ScanNext(n, p) PROVE BInv'
  <2>1. p \in Proposal /\ p.dep \in confirmed
    BY DEF BInv, TypeOK, Founded
  <2>5. Seen(n, p) \in [step: {"idle", "loaded", "pruned"}, list: SUBSET Proposal]
        /\ Seen(n, p).list \in SUBSET scan[n].list
    <3>1. scan[n] \in [step: {"idle", "loaded", "pruned"}, list: SUBSET Proposal]
      BY DEF BInv, TypeOK
    <3> QED
      BY <3>1 DEF Seen, Idle
  <2>6. scan' = [scan EXCEPT ![n] = Seen(n, p)] /\ pool' \in SUBSET (pool \cup {p})
        /\ UNCHANGED <<now, confirmed, proposals, record, index, nonce, chain>>
    BY <1>7 DEF ScanNext
  <2>2. \A m \in Nodes : scan'[m].list \in SUBSET scan[m].list
    BY <2>5, <2>6 DEF BInv, TypeOK
  <2>3. TypeOK'
    BY <2>1, <2>5, <2>6 DEF BInv, TypeOK
  <2>4. Founded'
    BY <2>1, <2>2, <2>6 DEF BInv, Founded
  <2> QED
    BY <2>3, <2>4, <2>6 DEF BInv, Credited, HeldIsListed, Listed
<1>8. ASSUME NEW n \in Nodes, NEW p \in pool, Mint(n, p) PROVE BInv'
  <2>1. p \in Proposal /\ p.dep \in confirmed /\ p.dep \in Deposits
    BY DEF BInv, TypeOK, Founded, Proposal
  <2>2. /\ record' \in [Nodes -> SUBSET Proposal]
        /\ index' \in [Nodes -> SUBSET (Deposits \X Nat)]
        /\ pool' \subseteq pool
        /\ \A m \in Nodes : \A q \in record'[m] : q.dep \in confirmed
        /\ HeldIsListed'
    BY <1>8, BlockKeeps DEF Mint
  <2>3. archive' \in SUBSET Proposal /\ \A q \in archive' : q = p \/ q \in archive
    BY <1>8, <2>1, ReplacedType DEF Mint, BInv, TypeOK
  <2>4. tracker' \subseteq [dep: Deposits, time: Nat]
    BY <1>8, <2>1 DEF Mint, BInv, TypeOK, Recent
  <2>5. TypeOK'
    BY <1>8, <2>1, <2>2, <2>3, <2>4 DEF Mint, BInv, TypeOK
  <2>6. Founded'
    BY <1>8, <2>1, <2>2, <2>3 DEF Mint, BInv, Founded
  <2>7. Credited'
    BY <1>8, <2>1 DEF Mint, MintValid, BInv, TypeOK, Credited
  <2> QED
    BY <2>2, <2>5, <2>6, <2>7 DEF BInv
<1>9. ASSUME NEW n \in Nodes, NEW p \in pool, MintFails(n, p) PROVE BInv'
  <2>1. /\ record' \in [Nodes -> SUBSET Proposal]
        /\ pool' \subseteq pool
        /\ \A m \in Nodes : \A q \in record'[m] : q.dep \in confirmed
        /\ HeldIsListed'
    BY <1>9, BlockKeeps DEF MintFails
  <2> QED
    BY <1>9, <2>1 DEF MintFails, BInv, TypeOK, Founded, Credited
<1>10. ASSUME NEW n \in Nodes, Restart(n) PROVE BInv'
  <2>1. Listed(n) \in SUBSET record[n]
    BY DEF Listed
  <2>2. TypeOK'
    BY <1>10, <2>1 DEF Restart, BInv, TypeOK, Idle
  <2>3. Founded'
    BY <1>10, <2>1 DEF Restart, BInv, TypeOK, Founded, Idle
  <2>4. HeldIsListed'
    <3> SUFFICES ASSUME NEW m \in Nodes, NEW q \in proposals'[m], q.dep \notin processed'
                 PROVE  Id(q) \in IdsOf(Listed(m)')
      BY DEF HeldIsListed
    <3>1. Listed(m)' = Listed(m)
      BY <1>10 DEF Restart, Listed
    <3>2. CASE m = n
      BY <1>10, <3>1, <3>2 DEF Restart, BInv, TypeOK, IdsOf
    <3>3. CASE m # n
      BY <1>10, <3>1, <3>3 DEF Restart, BInv, TypeOK, HeldIsListed
    <3> QED
      BY <3>2, <3>3
  <2> QED
    BY <1>10, <2>2, <2>3, <2>4 DEF Restart, BInv, Credited
<1>11. ASSUME NEW p \in pool, Drop(p) PROVE BInv'
  BY <1>11 DEF Drop, BInv, TypeOK, Founded, Credited, HeldIsListed, Listed
<1>12. CASE UNCHANGED vars
  BY <1>12 DEF vars, BInv, TypeOK, Founded, Credited, HeldIsListed, Listed
<1> QED
  BY <1>1, <1>2, <1>3, <1>4, <1>5, <1>6, <1>7, <1>8, <1>9, <1>10, <1>11, <1>12 DEF Next

-----------------------------------------------------------------------------
\* The invariant holds in every reachable state.
LEMMA BridgeInvariant == Spec => []BInv
BY BridgeInit, BridgeStep, PTL DEF Spec

\* Every variable of the bridge keeps its type: proposals carry signatures of
\* authorities only, and every index holds identities of proposals.
THEOREM BridgeTypeCorrect == Spec => []TypeOK
<1>1. BInv => TypeOK
  BY DEF BInv
<1> QED
  BY <1>1, BridgeInvariant, PTL

\* A proposal that a manager still holds for a deposit not minted is in the list
\* its executor reads (persist_proposal, prune_ids_not_in, load_from_state and the
\* archiving of other nodes' mints together).
THEOREM BridgeHeldIsListed == Spec => []HeldIsListed
<1>1. BInv => HeldIsListed
  BY DEF BInv
<1> QED
  BY <1>1, BridgeInvariant, PTL

\* The bridge implements the abstract specification: each deposit is credited at
\* most once and only when final, for every number of nodes, authorities and
\* deposits and whatever the limits (validate_bridge_mint_proposal and the marks
\* that one checkpoint writes with the credit).
THEOREM BridgeMintsOnce == Spec => MintsOnce
<1>1. Init => Once!Init
  BY DEF Init, Once!Init
<1>2. BInv /\ [Next]_vars => [Once!Next]_(Once!once)
  <2> SUFFICES ASSUME BInv, [Next]_vars PROVE [Once!Next]_(Once!once)
    OBVIOUS
  <2>1. ASSUME NEW d \in Deposits, Confirm(d) PROVE Once!Next
    <3>1. Once!Owe(d)
      BY <2>1 DEF Confirm, chain, Once!Owe
    <3> QED
      BY <3>1 DEF Once!Next
  <2>2. ASSUME NEW n \in Nodes, NEW p \in pool, Mint(n, p) PROVE Once!Next
    <3>1. p.dep \in Deposits /\ p.dep \in confirmed
      BY DEF BInv, TypeOK, Founded, Proposal
    <3>2. minted[p.dep] = 0
      BY <2>2, <3>1 DEF Mint, MintValid, BInv, Credited
    <3>3. Once!Pay(p.dep)
      BY <2>2, <3>1, <3>2 DEF Mint, BInv, TypeOK, Once!Pay
    <3> QED
      BY <3>1, <3>3 DEF Once!Next
  <2>3. ASSUME \/ Tick
               \/ \E a \in Authorities, d \in Deposits : Propose(a, d)
               \/ \E a \in Authorities : \E p \in proposals[Home[a]] : Sign(a, p)
               \/ \E n \in Nodes : \/ ScanLoad(n)
                                   \/ ScanPrune(n)
                                   \/ \E p \in scan[n].list : ScanNext(n, p)
                                   \/ \E p \in pool : MintFails(n, p)
                                   \/ Restart(n)
               \/ \E p \in pool : Drop(p)
               \/ UNCHANGED vars
        PROVE  UNCHANGED Once!once
    BY <2>3 DEF Tick, Propose, Sign, ScanLoad, ScanPrune, ScanNext, MintFails, Restart,
                Drop, vars, chain, Once!once
  <2> QED
    BY <2>1, <2>2, <2>3 DEF Next
<1> QED
  BY <1>1, <1>2, BridgeInvariant, PTL DEF Spec, MintsOnce, Once!Spec

-----------------------------------------------------------------------------
(* The daily limit. *)

\* What entries of the tracker are worth, as a sum of the function on them.
WorthOf(S) == [e \in S |-> Amount[e.dep]]

\* Worth is the sum of that function: the fold of the model and the choice it makes
\* of an order are SumOf's.
LEMMA WorthIsSum ==
    ASSUME NEW S
    PROVE  Worth(S) = SumOf(WorthOf(S), S)
<1> DEFINE f == WorthOf(S)
           A(it) == it = [s \in SUBSET S |-> IF s = {} THEN 0
                                             ELSE Amount[Pick(s).dep] + it[s \ {Pick(s)}]]
<1>1. \A s \in SUBSET S : s # {} => f[Pick(s)] = Amount[Pick(s).dep]
  BY DEF Pick, WorthOf
<1> HIDE DEF f
<1>2. \A it : A(it) <=> IsIter(it, f, S)
  BY <1>1 DEF IsIter
<1>3. (CHOOSE it : A(it)) = (CHOOSE it : IsIter(it, f, S))
  <2> HIDE DEF A
  <2> QED  BY <1>2
<1>4. Worth(S) = (CHOOSE it : A(it))[S]
  BY DEF Worth, MapThenSumSet, MapThenFoldSet, Pick
<1>5. QED
  BY <1>3, <1>4, SumIsIter DEF f

\* The entries that the tracker may hold.
Entries == [dep : Deposits, time : Nat]

\* Fewer entries are worth no more, and one entry more at most its amount more.
LEMMA WorthGrows ==
    ASSUME NEW S \in SUBSET Entries, IsFiniteSet(S), NEW W \in SUBSET S
    PROVE  Worth(W) \in Nat /\ Worth(S) \in Nat /\ Worth(W) <= Worth(S)
<1> DEFINE f == WorthOf(S)
           h == WorthOf(W)
<1>1. \A e \in S : f[e] \in Nat
  BY AmountAssumption DEF WorthOf, Entries
<1>2. \A e \in W : h[e] = f[e]
  BY DEF WorthOf
<1>3. Worth(W) = SumOf(h, W) /\ Worth(S) = SumOf(f, S)
  BY WorthIsSum
<1> HIDE DEF f, h
<1>4. SumOf(h, W) = SumOf(f, W)
  BY <1>2, FS_Subset, SumAgree
<1>5. QED
  BY <1>1, <1>3, <1>4, SumSubset

\* One entry more is worth at most its deposit's amount more.
LEMMA WorthAdds ==
    ASSUME NEW S \in SUBSET Entries, IsFiniteSet(S), NEW e \in Entries
    PROVE  Worth(S \cup {e}) <= Worth(S) + Amount[e.dep]
<1> DEFINE V == S \cup {e}
           f == WorthOf(V)
           h == WorthOf(S)
<1>1. \A x \in V : f[x] \in Nat
  BY AmountAssumption DEF WorthOf, Entries
<1>2. (\A x \in S : h[x] = f[x]) /\ f[e] = Amount[e.dep] /\ Amount[e.dep] \in Nat
  BY AmountAssumption DEF WorthOf, Entries
<1>3. Worth(S) = SumOf(h, S) /\ Worth(V) = SumOf(f, V)
  BY WorthIsSum
<1> HIDE DEF f, h
<1>4. SumOf(h, S) = SumOf(f, S)
  BY <1>2, SumAgree
<1>5. CASE e \in S
  <2>1. V = S
    BY <1>5
  <2>2. Worth(S) \in Nat
    BY WorthGrows
  <2> HIDE DEF V
  <2>3. Worth(V) = Worth(S)
    BY <2>1
  <2>4. Worth(V) <= Worth(S) + Amount[e.dep]
    BY <1>2, <2>2, <2>3
  <2>5. QED
    BY <2>4 DEF V
<1>6. CASE e \notin S
  <2>1. \A x \in V : f[x] \in Int
    BY <1>1
  <2>2. SumOf(f, V) = SumOf(f, S) + f[e] /\ SumOf(f, S) \in Int
    BY <1>6, <2>1, SumInsert
  <2>3. QED
    BY <1>2, <1>3, <1>4, <2>2
<1>7. QED
  BY <1>5, <1>6

\* The mints that count when e is credited.
Within(T, e) == {f \in T : f.time <= e.time /\ f.time + Window > e.time}

\* The inductive form of DailyLimitHolds: no entry of the tracker is of a later time
\* than now, so that a new entry closes a window and never falls inside an older one.
DailyInv ==
    /\ TypeOK
    /\ IsFiniteSet(tracker)
    /\ \A e \in tracker : e.time <= now
    /\ \A e \in tracker : Worth(Within(tracker, e)) <= DailyLimit

\* A mint: the entries that its trailing window counts are those that the pruned
\* tracker still holds, and the limit was checked against their sum.
LEMMA MintKeepsDaily ==
    ASSUME DailyInv, NEW n \in Nodes, NEW p \in pool, Mint(n, p)
    PROVE  /\ IsFiniteSet(tracker')
           /\ \A e \in tracker' : e.time <= now
           /\ \A e \in tracker' : Worth(Within(tracker', e)) <= DailyLimit
<1> DEFINE new == [dep |-> p.dep, time |-> now]
           R == Recent(now)
           T == R \cup {new}
<1>1. tracker' = T /\ Worth(R) + Amount[p.dep] <= DailyLimit
  BY DEF Mint, WithinDaily
<1>2. new \in Entries /\ new.time = now /\ new.dep = p.dep /\ now \in Nat
  BY DEF DailyInv, TypeOK, Proposal, Entries
<1>3. R \in SUBSET Entries /\ R \subseteq tracker /\ tracker \in SUBSET Entries
  BY DEF DailyInv, TypeOK, Recent, Entries
<1>4. IsFiniteSet(R) /\ IsFiniteSet(T)
  <2>1. IsFiniteSet(R)
    BY <1>3, FS_Subset DEF DailyInv
  <2> HIDE DEF R, new
  <2>2. QED
    BY <2>1, FS_AddElement
<1>5. Worth(T) <= Worth(R) + Amount[p.dep] /\ T \in SUBSET Entries
  <2> HIDE DEF R, new
  <2>1. T \in SUBSET Entries
    BY <1>2, <1>3
  <2>2. QED
    BY <1>2, <1>3, <1>4, <2>1, WorthAdds
<1>6. Worth(R) \in Nat /\ Amount[p.dep] \in Nat /\ DailyLimit \in Nat
  <2>1. Amount[p.dep] \in Nat
    BY AmountAssumption DEF DailyInv, TypeOK, Proposal
  <2> HIDE DEF R
  <2>2. QED
    BY <1>3, <1>4, <2>1, WorthGrows, LimitAssumption
<1>7. \A e \in T : e.time <= now
  BY <1>2 DEF DailyInv, Recent
<1>8. ASSUME NEW e \in T
      PROVE  Worth(Within(T, e)) <= DailyLimit
  <2> DEFINE W == Within(T, e)
  <2>1. W \subseteq T
    BY DEF Within
  <2>2. CASE e.time = now
    <3> HIDE DEF W, T, R
    <3>1. Worth(W) \in Nat /\ Worth(T) \in Nat /\ Worth(W) <= Worth(T)
      BY <1>4, <1>5, <2>1, WorthGrows
    <3>2. QED
      BY <1>1, <1>5, <1>6, <3>1 DEF W
  <2>3. CASE e.time # now
    <3> DEFINE O == Within(tracker, e)
    <3>1. e \in tracker /\ e.time \in Nat /\ e.time < now
      BY <1>2, <1>3, <1>7, <2>3 DEF Entries
    <3>2. W \subseteq O /\ O \subseteq tracker
      BY <1>2, <1>3, <3>1 DEF Within
    <3>3. Worth(O) <= DailyLimit
      BY <3>1 DEF DailyInv
    <3> HIDE DEF W, O
    <3>4. IsFiniteSet(O) /\ O \in SUBSET Entries
      BY <1>3, <3>2, FS_Subset DEF DailyInv
    <3>5. Worth(W) \in Nat /\ Worth(O) \in Nat /\ Worth(W) <= Worth(O)
      BY <3>2, <3>4, WorthGrows
    <3>6. QED
      BY <1>6, <3>3, <3>5 DEF W
  <2>4. QED
    BY <2>2, <2>3
<1>9. QED
  <2> HIDE DEF T
  <2>1. QED
    BY <1>1, <1>4, <1>7, <1>8

\* No entry, nothing minted.
LEMMA DailyInit == Init => DailyInv
BY BridgeInit, FS_EmptySet DEF Init, BInv, DailyInv

\* Only a mint changes the tracker, and time only moves on.
LEMMA DailyStep == BInv /\ BInv' /\ DailyInv /\ [Next]_vars => DailyInv'
<1> SUFFICES ASSUME BInv, BInv', DailyInv, [Next]_vars PROVE DailyInv'
  OBVIOUS
<1> USE DEF local, chain
<1>1. TypeOK'
  BY DEF BInv
<1>2. CASE \E n \in Nodes : \E p \in pool : Mint(n, p)
  <2>1. PICK n \in Nodes, p \in pool : Mint(n, p)
    BY <1>2
  <2>2. now' = now
    BY <2>1 DEF Mint
  <2>3. QED
    BY <1>1, <2>1, <2>2, MintKeepsDaily DEF DailyInv, Within
<1>3. CASE tracker' = tracker /\ now' \in {now, now + 1}
  <2>1. \A e \in tracker : e.time \in Nat /\ now \in Nat
    BY DEF DailyInv, TypeOK
  <2>2. \A e \in tracker' : e.time <= now'
    BY <1>3, <2>1 DEF DailyInv
  <2>3. \A e \in tracker' : Worth(Within(tracker', e)) <= DailyLimit
    BY <1>3 DEF DailyInv
  <2>4. IsFiniteSet(tracker')
    BY <1>3 DEF DailyInv
  <2>5. QED
    BY <1>1, <2>2, <2>3, <2>4 DEF DailyInv, Within
<1>4. CASE Tick
  BY <1>3, <1>4 DEF Tick
<1>5. CASE \E d \in Deposits : Confirm(d)
  BY <1>3, <1>5 DEF Confirm
<1>6. CASE \E a \in Authorities, d \in Deposits : Propose(a, d)
  BY <1>3, <1>6 DEF Propose
<1>7. CASE \E a \in Authorities : \E p \in proposals[Home[a]] : Sign(a, p)
  BY <1>3, <1>7 DEF Sign
<1>8. CASE \E n \in Nodes : ScanLoad(n) \/ ScanPrune(n) \/ Restart(n)
  BY <1>3, <1>8 DEF ScanLoad, ScanPrune, Restart
<1>9. CASE \E n \in Nodes : \E p \in scan[n].list : ScanNext(n, p)
  BY <1>3, <1>9 DEF ScanNext
<1>10. CASE \E n \in Nodes : \E p \in pool : MintFails(n, p)
  BY <1>3, <1>10 DEF MintFails
<1>11. CASE \E p \in pool : Drop(p)
  BY <1>3, <1>11 DEF Drop
<1>12. CASE UNCHANGED vars
  BY <1>3, <1>12 DEF vars
<1>13. QED
  BY <1>2, <1>4, <1>5, <1>6, <1>7, <1>8, <1>9, <1>10, <1>11, <1>12 DEF Next

\* What any trailing day mints stays within the daily limit, for any window, limit,
\* amounts and order of mints (check_and_record_daily_mint sums the
\* tracker that it prunes before it appends to it).
THEOREM BridgeDailyLimitHolds == Spec => []DailyLimitHolds
<1>1. DailyInv => DailyLimitHolds
  BY DEF DailyInv, DailyLimitHolds, Within
<1> QED
  BY <1>1, BridgeInvariant, DailyInit, DailyStep, PTL DEF Spec


-----------------------------------------------------------------------------
(* The inbound loop of a relayer. *)

PumpType == [at : {"rest", "scan", "events", "mark", "sign", "finish"},
             latest : Nat, to : Nat, todo : SUBSET Locks, cur : SUBSET Locks,
             ok : BOOLEAN]

TypeIn ==
    /\ head \in Nat /\ block \in [Locks -> Nat]
    /\ refused \subseteq Locks /\ proposed \subseteq Locks /\ credited \subseteq Locks
    /\ signed \subseteq Locks /\ handled \subseteq Locks
    /\ stored \in Nat /\ last \in Nat
    /\ pump \in PumpType

\* What is handled needs no further proposal.
Requested == proposed \cup credited

\* Every deposit from the start to block c is proposed, or in S.
Covered(c, S) == \A d \in Locks : block[d] \in Start .. c => d \in Requested \cup S

\* The blocks up to a cursor are confirmed and all their deposits are proposed.
SafeCursor(c) == (c = 0 \/ c + Depth <= head) /\ Covered(c, {})

Working == pump.at \in {"events", "mark", "sign"}

\* The chunk at work is confirmed, and while nothing of it has failed, what is left of
\* it is to do.
ChunkOk ==
    /\ pump.latest <= head
    /\ Working => /\ pump.to + Depth <= pump.latest
                  /\ \A d \in pump.todo : Final(d)
                  /\ pump.ok => Covered(pump.to, pump.todo)
    /\ pump.at \in {"mark", "sign"} => \A d \in pump.cur : d \in proposed /\ Final(d)

InInv ==
    /\ TypeIn
    /\ handled \subseteq Requested
    /\ SignedIsFinal
    /\ SafeCursor(stored) /\ SafeCursor(last)
    /\ ChunkOk

-----------------------------------------------------------------------------
\* The largest number of a range, and the smaller of two.
LEMMA RangeMax ==
    ASSUME NEW a \in Nat, NEW b \in Nat, a <= b
    PROVE  Max(a .. b) = b
<1>1. b \in a .. b /\ \A y \in a .. b : b >= y
  OBVIOUS
<1>2. \A x \in a .. b : (\A y \in a .. b : x >= y) => x = b
  OBVIOUS
<1> QED
  BY <1>1, <1>2 DEF Max

\* The least of two numbers.
LEMMA PairMin ==
    ASSUME NEW a \in Int, NEW b \in Int
    PROVE  Min({a, b}) = IF a <= b THEN a ELSE b
<1>1. \A x \in {a, b} : (\A y \in {a, b} : x <= y) => x = IF a <= b THEN a ELSE b
  OBVIOUS
<1>2. \E x \in {a, b} : \A y \in {a, b} : x <= y
  OBVIOUS
<1> QED
  BY <1>1, <1>2 DEF Min

\* A chunk starts no later than the block after the cursor, and ends confirmed.
LEMMA ChunkShape ==
    ASSUME TypeIn, NEW latest \in Nat, Chunk(latest) # {}
    PROVE  /\ Max(Chunk(latest)) \in Nat
           /\ Max(Chunk(latest)) + Depth <= latest
           /\ First \in Nat /\ First <= (IF last = 0 THEN Start ELSE last + 1)
           /\ Chunk(latest) = First .. Max(Chunk(latest))
<1> DEFINE end == IF latest - Depth <= First + MaxRange - 1 THEN latest - Depth
                  ELSE First + MaxRange - 1
<1>1. First \in Nat /\ First <= (IF last = 0 THEN Start ELSE last + 1)
  BY RangeAssumption, StartAssumption DEF TypeIn, First, Monus
<1>2. latest >= Depth /\ Chunk(latest) = First .. Min({latest - Depth, First + MaxRange - 1})
  BY DepthAssumption DEF Chunk
<1>3. Min({latest - Depth, First + MaxRange - 1}) = end
  <2>1. latest - Depth \in Int /\ First + MaxRange - 1 \in Int
    BY <1>1, DepthAssumption, RangeAssumption
  <2> QED
    BY <2>1, PairMin
<1>4. end \in Int /\ end + Depth <= latest
  BY <1>1, <1>2, DepthAssumption, RangeAssumption
<1> HIDE DEF end
<1>5. end \in Nat /\ First <= end
  BY <1>1, <1>2, <1>3, <1>4
<1>6. Max(First .. end) = end
  BY <1>1, <1>5, RangeMax
<1> QED
  BY <1>1, <1>2, <1>3, <1>4, <1>5, <1>6

\* A deposit at or below a confirmed block is final, and a final one stays so.
LEMMA DeepIsFinal ==
    ASSUME TypeIn, NEW d \in Locks, NEW c \in Nat, c + Depth <= head,
           block[d] # 0, block[d] <= c
    PROVE  Final(d)
BY DepthAssumption DEF TypeIn, Final, Confirmed, Monus

-----------------------------------------------------------------------------
\* What changes outside the loop leaves a covered block covered: new and moved deposits
\* are above it.
LEMMA WorldCovers ==
    ASSUME TypeIn, World, NEW c \in Nat, c = 0 \/ c + Depth <= head,
           NEW S \in SUBSET Locks, Covered(c, S)
    PROVE  Covered(c, S)' /\ (c = 0 \/ c + Depth <= head')
<1> USE DepthAssumption, StartAssumption
<1>1. ASSUME NEW T \in SUBSET Locks, Mine(T)
      PROVE  Covered(c, S)' /\ (c = 0 \/ c + Depth <= head')
  BY <1>1 DEF Mine, Covered, Requested, TypeIn
<1>2. ASSUME NEW d \in Locks, Reorg(d)
      PROVE  Covered(c, S)' /\ (c = 0 \/ c + Depth <= head')
  <2>1. PICK b \in {0} \cup (Monus(head + 1, Depth) .. head) :
            block' = [block EXCEPT ![d] = b]
    BY <1>2 DEF Reorg
  <2>2. b \notin Start .. c
    BY <2>1 DEF TypeIn, Monus
  <2> QED
    BY <1>2, <2>1, <2>2 DEF Reorg, Covered, Requested, TypeIn
<1>3. ASSUME NEW d \in Locks, OtherProposes(d) \/ Minted(d)
      PROVE  Covered(c, S)' /\ (c = 0 \/ c + Depth <= head')
  BY <1>3 DEF OtherProposes, Minted, ethereum, Covered, Requested, TypeIn
<1> QED
  BY <1>1, <1>2, <1>3 DEF World

\* The chain's growth takes no deposit back that was final.
LEMMA WorldFinal ==
    ASSUME TypeIn, World
    PROVE  /\ TypeIn' /\ head' >= head
           /\ \A d \in Locks : Final(d) => Final(d)'
           /\ Requested \subseteq Requested' /\ proposed \subseteq proposed'
           /\ UNCHANGED <<signed, disk, last, pump>>
<1> USE DepthAssumption
<1>1. ASSUME NEW T \in SUBSET Locks, Mine(T)
      PROVE  /\ TypeIn' /\ head' >= head
             /\ \A d \in Locks : Final(d) => Final(d)'
             /\ Requested \subseteq Requested' /\ proposed \subseteq proposed'
             /\ UNCHANGED <<signed, disk, last, pump>>
  BY <1>1 DEF Mine, TypeIn, Final, Confirmed, Monus, Requested, disk
<1>2. ASSUME NEW d \in Locks, Reorg(d)
      PROVE  /\ TypeIn' /\ head' >= head
             /\ \A e \in Locks : Final(e) => Final(e)'
             /\ Requested \subseteq Requested' /\ proposed \subseteq proposed'
             /\ UNCHANGED <<signed, disk, last, pump>>
  <2>1. PICK b \in {0} \cup (Monus(head + 1, Depth) .. head) :
            block' = [block EXCEPT ![d] = b]
    BY <1>2 DEF Reorg
  <2>2. b \in Nat
    BY <2>1 DEF TypeIn, Monus
  <2> QED
    BY <1>2, <2>1, <2>2 DEF Reorg, TypeIn, Final, Confirmed, Requested, disk
<1>3. ASSUME NEW d \in Locks, OtherProposes(d) \/ Minted(d)
      PROVE  /\ TypeIn' /\ head' >= head
             /\ \A e \in Locks : Final(e) => Final(e)'
             /\ Requested \subseteq Requested' /\ proposed \subseteq proposed'
             /\ UNCHANGED <<signed, disk, last, pump>>
  BY <1>3 DEF OtherProposes, Minted, ethereum, TypeIn, Final, Confirmed, Requested, disk
<1> QED
  BY <1>1, <1>2, <1>3 DEF World

\* A step of the chain and the other relayers keeps the invariant.
LEMMA WorldStep == InInv /\ World => InInv'
<1> SUFFICES ASSUME InInv, World PROVE InInv'
  OBVIOUS
<1>1. TypeIn
  BY DEF InInv
<1>2. /\ TypeIn' /\ head' >= head /\ \A d \in Locks : Final(d) => Final(d)'
      /\ Requested \subseteq Requested' /\ proposed \subseteq proposed'
      /\ signed' = signed /\ handled' = handled /\ stored' = stored
      /\ last' = last /\ pump' = pump
  BY <1>1, WorldFinal DEF disk
<1>3. handled' \subseteq Requested' /\ SignedIsFinal'
  BY <1>2 DEF InInv, SignedIsFinal, TypeIn
<1>4. SafeCursor(stored)' /\ SafeCursor(last)'
  <2>1. ASSUME NEW c \in Nat, SafeCursor(c)
        PROVE  Covered(c, {})' /\ (c = 0 \/ c + Depth <= head')
    BY <1>1, <2>1, WorldCovers DEF SafeCursor
  <2>2. stored \in Nat /\ last \in Nat /\ SafeCursor(stored) /\ SafeCursor(last)
    BY DEF InInv, TypeIn
  <2> QED
    BY <1>2, <2>1, <2>2 DEF SafeCursor, Covered
<1>5. ChunkOk'
  <2>1. /\ pump.latest' <= head'
        /\ pump.at \in {"mark", "sign"} => \A d \in pump.cur : d \in proposed' /\ Final(d)'
    BY <1>1, <1>2 DEF InInv, ChunkOk, TypeIn, PumpType
  <2>2. ASSUME Working
        PROVE  \A d \in pump.todo : Final(d)'
    BY <1>2, <2>2 DEF InInv, ChunkOk, TypeIn, PumpType
  <2>3. ASSUME Working, pump.ok
        PROVE  Covered(pump.to, pump.todo)'
    <3>1. pump.to \in Nat /\ pump.to + Depth <= head /\ pump.todo \in SUBSET Locks
      BY <2>3, DepthAssumption DEF InInv, ChunkOk, TypeIn, PumpType
    <3>2. Covered(pump.to, pump.todo)
      BY <2>3 DEF InInv, ChunkOk
    <3> DEFINE c == pump.to
               S == pump.todo
    <3>3. c' = c /\ S' = S
      BY <1>2
    <3> HIDE DEF c, S
    <3>4. \A d \in Locks : block'[d] \in Start .. c => d \in Requested' \cup S
      <4>1. Covered(c, S)
        BY <3>2 DEF c, S
      <4>2. c \in Nat /\ c + Depth <= head /\ S \in SUBSET Locks
        BY <3>1 DEF c, S
      <4> QED
        BY <1>1, <4>1, <4>2, WorldCovers DEF Covered, World, Mine, Reorg, OtherProposes, Minted
    <3> QED
      BY <3>3, <3>4 DEF Covered, c, S
  <2> QED
    BY <1>1, <1>2, <2>1, <2>2, <2>3 DEF InInv, ChunkOk, Working
<1> QED
  BY <1>2, <1>3, <1>4, <1>5 DEF InInv

-----------------------------------------------------------------------------
\* A step of the loop leaves Ethereum alone, so the cursors on it need only keep what is
\* requested.
LEMMA CursorKept ==
    ASSUME InInv, TypeIn', UNCHANGED ethereum, Requested \subseteq Requested',
           NEW c \in Nat, SafeCursor(c)
    PROVE  (c = 0 \/ c + Depth <= head') /\ \A d \in Locks :
               block'[d] \in Start .. c => d \in Requested'
BY DEF SafeCursor, Covered, ethereum

\* What a step needs to show that keeps both cursors, the marks and the head.
LEMMA LoopStep ==
    ASSUME InInv, TypeIn', UNCHANGED <<ethereum, stored, last>>,
           Requested \subseteq Requested', handled' \subseteq Requested',
           \A d \in signed' : Final(d), ChunkOk'
    PROVE  InInv'
<1>1. SafeCursor(stored)' /\ SafeCursor(last)'
  <2>1. stored \in Nat /\ last \in Nat /\ SafeCursor(stored) /\ SafeCursor(last)
    BY DEF InInv, TypeIn
  <2> QED
    BY <2>1, CursorKept DEF SafeCursor, Covered
<1>2. SignedIsFinal'
  BY DEF SignedIsFinal, Final, Confirmed, ethereum
<1> QED
  BY <1>1, <1>2 DEF InInv

\* The loop leaves a deposit that is requested, or the chunk has failed.
LEMMA PastKeeps ==
    ASSUME InInv, Working, NEW d \in Locks, NEW ok \in BOOLEAN, pump' = Past(d, ok),
           UNCHANGED ethereum, Requested \subseteq Requested',
           ok => d \in Requested'
    PROVE  pump' \in PumpType /\ ChunkOk'
<1>1. pump \in PumpType /\ ChunkOk
  BY DEF InInv, TypeIn
<1>2. /\ pump'.at = "events" /\ pump'.todo = pump.todo \ {d} /\ pump'.cur = {}
      /\ pump'.latest = pump.latest /\ pump'.to = pump.to
      /\ pump'.ok => (pump.ok /\ ok)
      /\ pump' \in PumpType
  BY <1>1 DEF Past, PumpType
<1>3. /\ pump.latest <= head' /\ pump.to + Depth <= pump.latest
      /\ \A e \in pump.todo : Final(e)'
  BY <1>1 DEF ChunkOk, ethereum, Final, Confirmed
<1>4. ASSUME pump'.ok
      PROVE  \A e \in Locks :
                 block'[e] \in Start .. pump.to => e \in Requested' \cup (pump.todo \ {d})
  BY <1>1, <1>2, <1>4 DEF ChunkOk, Covered, ethereum
<1> QED
  BY <1>2, <1>3, <1>4 DEF ChunkOk, Covered

\* One deposit of a chunk is looked at.
LEMMA EventStep ==
    ASSUME InInv, NEW d \in Locks, InEvent(d)
    PROVE  InInv'
<1> USE DEF InEvent
<1>1. Working /\ TypeIn /\ d \in pump.todo
  BY DEF Working, InInv
<1>2. CASE InKnown(d)
  <2>1. Requested' = Requested /\ d \in Requested'
    BY <1>2 DEF InKnown, Requested, InInv
  <2>2. pump' \in PumpType /\ ChunkOk'
    BY <1>1, <1>2, <2>1, PastKeeps DEF InKnown
  <2> QED
    BY <1>1, <1>2, <2>1, <2>2, LoopStep DEF InKnown, TypeIn, ethereum, disk, InInv, SignedIsFinal
<1>3. CASE InPropose(d)
  <2>1. Requested \subseteq Requested' /\ d \in proposed' /\ proposed' \subseteq Locks
    BY <1>1, <1>3 DEF InPropose, Requested, TypeIn
  <2>2. /\ pump' \in PumpType /\ pump'.at = "mark" /\ pump'.cur = {d} /\ pump'.ok = pump.ok
        /\ pump'.todo = pump.todo /\ pump'.to = pump.to /\ pump'.latest = pump.latest
    BY <1>1, <1>3 DEF InPropose, TypeIn, PumpType
  <2>3. ChunkOk'
    BY <1>1, <1>3, <2>1, <2>2
       DEF InPropose, InInv, ChunkOk, Working, Covered, ethereum, Final, Confirmed
  <2> QED
    BY <1>1, <1>3, <2>1, <2>2, <2>3, LoopStep
       DEF InPropose, TypeIn, ethereum, disk, InInv, SignedIsFinal
<1>4. CASE InExecuted(d)
  <2>1. Requested' = Requested /\ d \in Requested' /\ handled' \subseteq Requested'
        /\ handled' \subseteq Locks
    BY <1>1, <1>4 DEF InExecuted, Requested, InInv, TypeIn
  <2>2. pump' \in PumpType /\ ChunkOk'
    BY <1>1, <1>4, <2>1, PastKeeps DEF InExecuted
  <2> QED
    BY <1>1, <1>4, <2>1, <2>2, LoopStep DEF InExecuted, TypeIn, ethereum, InInv, SignedIsFinal
<1>5. CASE InProposeFails(d)
  <2>1. Requested \subseteq Requested' /\ proposed' \subseteq Locks
    BY <1>1, <1>5 DEF InProposeFails, Requested, TypeIn
  <2>2. pump' \in PumpType /\ ChunkOk'
    BY <1>1, <1>5, <2>1, PastKeeps DEF InProposeFails
  <2> QED
    BY <1>1, <1>5, <2>1, <2>2, LoopStep
       DEF InProposeFails, TypeIn, ethereum, disk, InInv, SignedIsFinal
<1> QED
  BY <1>2, <1>3, <1>4, <1>5

\* The mark and the signature of the deposit at hand.
LEMMA CallStep ==
    ASSUME InInv, InMark \/ \E d \in Locks : InSign(d) \/ InSignFails(d)
    PROVE  InInv'
<1>1. TypeIn /\ ChunkOk
  BY DEF InInv
<1>2. CASE InMark
  <2>1. pump.cur \subseteq proposed /\ pump.cur \subseteq Locks
    BY <1>1, <1>2 DEF InMark, ChunkOk, TypeIn, PumpType
  <2>2. Requested' = Requested /\ handled' \subseteq Requested' /\ handled' \subseteq Locks
    BY <1>1, <1>2, <2>1 DEF InMark, Requested, InInv, TypeIn
  <2>3. /\ pump' \in PumpType /\ pump'.at = "sign" /\ pump'.cur = pump.cur
        /\ pump'.ok = pump.ok
        /\ pump'.todo = pump.todo /\ pump'.to = pump.to /\ pump'.latest = pump.latest
    BY <1>1, <1>2 DEF InMark, TypeIn, PumpType
  <2>4. ChunkOk'
    BY <1>1, <1>2, <2>1, <2>2, <2>3
       DEF InMark, ChunkOk, Working, Covered, ethereum, Final, Confirmed
  <2> QED
    BY <1>1, <1>2, <2>2, <2>3, <2>4, LoopStep
       DEF InMark, TypeIn, ethereum, InInv, SignedIsFinal
<1>3. ASSUME NEW d \in Locks, InSign(d) \/ InSignFails(d)
      PROVE  InInv'
  <2>1. Working /\ d \in proposed /\ Final(d)
    BY <1>1, <1>3 DEF InSign, InSignFails, Working, ChunkOk
  <2>2. Requested' = Requested /\ d \in Requested'
    BY <1>3, <2>1 DEF InSign, InSignFails, Requested
  <2>3. pump' \in PumpType /\ ChunkOk'
    BY <1>3, <2>1, <2>2, PastKeeps DEF InSign, InSignFails
  <2> QED
    BY <1>1, <1>3, <2>1, <2>2, <2>3, LoopStep
       DEF InSign, InSignFails, TypeIn, ethereum, disk, InInv, SignedIsFinal
<1> QED
  BY <1>2, <1>3

-----------------------------------------------------------------------------
\* The scan: where the loop is not at a chunk, ChunkOk asks for no more than the head.
LEMMA ScanStep ==
    ASSUME InInv, InPoll \/ InFetchFails \/ InUpToDate
    PROVE  InInv'
<1>1. TypeIn /\ ChunkOk
  BY DEF InInv
<1>2. /\ pump' \in PumpType /\ pump'.at \in {"rest", "scan", "finish"}
      /\ pump'.latest <= head
  <2>1. pump \in PumpType /\ head \in Nat /\ pump.latest <= head
    BY <1>1 DEF TypeIn, ChunkOk
  <2>2. CASE InPoll
    <3>1. pump' = [at |-> "scan", latest |-> head, to |-> 0, todo |-> {}, cur |-> {},
                   ok |-> TRUE]
      BY <2>2 DEF InPoll, Resting
    <3> QED
      BY <2>1, <3>1 DEF PumpType
  <2>3. CASE InFetchFails
    BY <2>1, <2>3 DEF InFetchFails, Resting, PumpType
  <2>4. CASE InUpToDate
    BY <2>1, <2>4 DEF InUpToDate, PumpType
  <2> QED
    BY <2>2, <2>3, <2>4
<1>3. /\ UNCHANGED <<ethereum, handled, stored, last, signed>> /\ Requested' = Requested
      /\ TypeIn'
  BY <1>1, <1>2 DEF InPoll, InFetchFails, InUpToDate, ethereum, disk, Requested, TypeIn
<1>4. ChunkOk'
  BY <1>2, <1>3 DEF ChunkOk, Working, ethereum
<1> QED
  BY <1>3, <1>4, LoopStep DEF InInv, SignedIsFinal

\* All deposits of the chunk are to do; those before it are below the cursor.
LEMMA FetchStep ==
    ASSUME InInv, InFetch
    PROVE  InInv'
<1> DEFINE to == Max(Chunk(pump.latest))
           todo == {d \in Locks : /\ block[d] \in Chunk(pump.latest) \ {0}
                                  /\ Confirmed(block[d], pump.latest)}
<1>1. TypeIn /\ ChunkOk /\ pump.latest \in Nat /\ pump.latest <= head
  BY DEF InInv, ChunkOk, TypeIn, PumpType
<1>2. /\ to \in Nat /\ to + Depth <= pump.latest /\ First \in Nat
      /\ First <= (IF last = 0 THEN Start ELSE last + 1)
      /\ Chunk(pump.latest) = First .. to
  BY <1>1, ChunkShape DEF InFetch
<1>3. \A d \in todo : Final(d)
  BY <1>1, DepthAssumption DEF TypeIn, Final, Confirmed, Monus
<1>4. \A d \in Locks : block[d] \in First .. to /\ block[d] # 0 => d \in todo
  BY <1>1, <1>2, DepthAssumption DEF TypeIn, Confirmed, Monus
<1>5. pump' = [pump EXCEPT !.at = "events", !.to = to, !.todo = todo]
  BY DEF InFetch
<1>6. todo \subseteq Locks
  OBVIOUS
<1> HIDE DEF to, todo
<1>7. Covered(to, todo)
  <2>1. SafeCursor(last) /\ last \in Nat
    BY <1>1 DEF InInv, TypeIn
  <2>2. ASSUME NEW d \in Locks, block[d] \in Start .. to
        PROVE  d \in Requested \cup todo
    <3>1. block[d] \in Nat /\ block[d] # 0 /\ block[d] >= Start /\ block[d] <= to
      BY <1>1, <1>2, <2>2, StartAssumption DEF TypeIn
    <3>2. CASE block[d] >= First
      BY <1>2, <1>4, <3>1, <3>2
    <3>3. CASE block[d] < First
      <4>1. last # 0 /\ block[d] <= last
        BY <1>2, <2>1, <3>1, <3>3, StartAssumption
      <4> QED
        BY <2>1, <3>1, <4>1, StartAssumption DEF SafeCursor, Covered
    <3> QED
      BY <1>2, <3>1, <3>2, <3>3
  <2> QED
    BY <2>2 DEF Covered
<1>8. /\ pump' \in PumpType /\ pump'.at = "events" /\ pump'.to = to /\ pump'.todo = todo
      /\ pump'.latest = pump.latest /\ pump'.cur = pump.cur /\ pump'.ok = pump.ok
  BY <1>1, <1>2, <1>5, <1>6 DEF TypeIn, PumpType
<1>9. UNCHANGED <<ethereum, proposed, credited, handled, stored, last, signed>>
      /\ Requested' = Requested /\ TypeIn'
  BY <1>1, <1>8 DEF InFetch, ethereum, disk, Requested, TypeIn
<1>10. ChunkOk'
  BY <1>1, <1>2, <1>3, <1>7, <1>8, <1>9
     DEF ChunkOk, Working, Covered, ethereum, Final, Confirmed
<1> QED
  BY <1>9, <1>10, LoopStep DEF InInv, SignedIsFinal

\* The end of a chunk: what is left of it is nothing, so its end is a cursor.
LEMMA ChunkDoneStep ==
    ASSUME InInv, InChunkDone
    PROVE  InInv'
<1>1. TypeIn /\ ChunkOk /\ pump.at = "events" /\ pump.todo = {}
  BY DEF InInv, InChunkDone
<1>2. pump.latest <= head /\ pump.to + Depth <= pump.latest
      /\ (pump.ok => Covered(pump.to, {})) /\ pump.to \in Nat /\ pump.latest \in Nat
  BY <1>1 DEF ChunkOk, Working, TypeIn, PumpType
<1>3. SafeCursor(last') /\ last' \in Nat
  BY <1>1, <1>2, DepthAssumption DEF InChunkDone, InInv, SafeCursor, TypeIn
<1>4. pump' \in PumpType /\ pump'.at \in {"scan", "finish"} /\ pump'.latest = pump.latest
  BY <1>1 DEF InChunkDone, TypeIn, PumpType
<1>5. UNCHANGED <<ethereum, proposed, credited, handled, stored, signed>>
      /\ Requested' = Requested /\ TypeIn'
  BY <1>1, <1>3, <1>4 DEF InChunkDone, ethereum, disk, Requested, TypeIn
<1>6. ChunkOk'
  BY <1>2, <1>4, <1>5 DEF ChunkOk, Working, ethereum
<1>7. SafeCursor(stored)' /\ SafeCursor(last)'
  BY <1>3, <1>5 DEF InInv, SafeCursor, Covered, ethereum
<1> QED
  BY <1>5, <1>6, <1>7 DEF InInv, SignedIsFinal, Final, Confirmed, ethereum

\* The end of a turn stores a cursor that is safe, and signs what is final.
LEMMA FinishStep ==
    ASSUME InInv, NEW S \in SUBSET Locks, InFinish(S)
    PROVE  InInv'
<1>1. TypeIn /\ stored' \in Nat /\ SafeCursor(stored')
  BY DEF InInv, InFinish, TypeIn
<1>2. UNCHANGED <<ethereum, proposed, credited, handled, last>> /\ Requested' = Requested
  BY DEF InFinish, ethereum, Requested
<1>3. signed' \subseteq Locks /\ \A d \in signed' : Final(d)
  BY <1>1 DEF InFinish, Unsigned, Verified, InInv, SignedIsFinal, TypeIn
<1>4. pump' \in PumpType /\ pump'.at = "rest" /\ pump'.latest = 0
  BY DEF InFinish, Resting, PumpType
<1>5. TypeIn' /\ ChunkOk'
  BY <1>1, <1>2, <1>3, <1>4 DEF TypeIn, ChunkOk, Working, ethereum
<1>6. SafeCursor(stored)' /\ SafeCursor(last)'
  BY <1>1, <1>2 DEF InInv, SafeCursor, Covered, ethereum
<1> QED
  BY <1>2, <1>3, <1>5, <1>6 DEF InInv, SignedIsFinal, Final, Confirmed, ethereum

\* A restart comes back to the stored cursor, or to none.
LEMMA RestartStep ==
    ASSUME InInv, InRestart
    PROVE  InInv'
<1>1. TypeIn /\ last' \in Nat /\ SafeCursor(last')
  <2>1. SafeCursor(0)
    BY StartAssumption DEF SafeCursor, Covered
  <2> QED
    BY <2>1 DEF InInv, InRestart, TypeIn
<1>2. UNCHANGED <<ethereum, proposed, credited, handled, stored, signed>>
      /\ Requested' = Requested
  BY DEF InRestart, ethereum, disk, Requested
<1>3. pump' \in PumpType /\ pump'.at = "rest" /\ pump'.latest = 0
  BY DEF InRestart, Resting, PumpType
<1>4. TypeIn' /\ ChunkOk'
  BY <1>1, <1>2, <1>3 DEF TypeIn, ChunkOk, Working, ethereum
<1>5. SafeCursor(stored)' /\ SafeCursor(last)'
  BY <1>1, <1>2 DEF InInv, SafeCursor, Covered, ethereum
<1> QED
  BY <1>2, <1>4, <1>5 DEF InInv, SignedIsFinal, Final, Confirmed, ethereum

-----------------------------------------------------------------------------
\* The inbound invariant holds at first.
LEMMA InboundInit == InInit => InInv
BY StartAssumption
   DEF InInit, InInv, TypeIn, PumpType, Resting, Requested, SignedIsFinal, SafeCursor,
       Covered, ChunkOk, Working

\* Every inbound step keeps it.
LEMMA InboundStep == InInv /\ [InNext]_inbound => InInv'
<1> SUFFICES ASSUME InInv, [InNext]_inbound PROVE InInv'
  OBVIOUS
<1>1. CASE World
  BY <1>1, WorldStep
<1>2. CASE InPoll \/ InFetchFails \/ InUpToDate
  BY <1>2, ScanStep
<1>3. CASE InFetch
  BY <1>3, FetchStep
<1>4. ASSUME NEW d \in Locks, InEvent(d)
      PROVE  InInv'
  BY <1>4, EventStep
<1>5. CASE InMark \/ \E d \in Locks : InSign(d) \/ InSignFails(d)
  BY <1>5, CallStep
<1>6. CASE InChunkDone
  BY <1>6, ChunkDoneStep
<1>7. ASSUME NEW S \in SUBSET Locks, InFinish(S)
      PROVE  InInv'
  BY <1>7, FinishStep
<1>8. CASE InRestart
  BY <1>8, RestartStep
<1>9. CASE UNCHANGED inbound
  BY <1>9 DEF inbound, ethereum, disk, InInv, TypeIn, Requested, SignedIsFinal, Final, Confirmed,
              SafeCursor, Covered, ChunkOk, Working
<1> QED
  BY <1>1, <1>2, <1>3, <1>4, <1>5, <1>6, <1>7, <1>8, <1>9 DEF InNext, InTurn

\* The inbound invariant holds throughout.
LEMMA InboundInv == InSpec => []InInv
BY InboundInit, InboundStep, PTL DEF InSpec

\* pump_once: whatever fails, is lost, is reorganised or stops in between, the stored
\* cursor never passes a final deposit that is not proposed.
THEOREM DepositsNotSkipped == InSpec => []NothingSkipped
<1>1. InInv => NothingSkipped
  BY DEF InInv, SafeCursor, Covered, Requested, NothingSkipped
<1> QED
  BY <1>1, InboundInv, PTL

\* handle_confirmed_deposit and the signing of pending proposals: no signature for a deposit
\* that Ethereum may still take back.
THEOREM OnlyFinalSigned == InSpec => []SignedIsFinal
<1>1. InInv => SignedIsFinal
  BY DEF InInv
<1> QED
  BY <1>1, InboundInv, PTL

-----------------------------------------------------------------------------
(* The outbound loop. *)

PollType == [phase : {"wait", "scan", "retry"}, call : {"read", "mark", "sign"}, top : Nat,
             todo : SUBSET Nat, cur : SUBSET Nat, failed : SUBSET Nat]

TypeOut ==
    /\ next \in Nat /\ cursor \in Nat /\ kept = cursor
    /\ poll \in PollType

\* The burns below the cursor have a proposal.
BelowFiled == \A i \in Nat : i < cursor => i \in filed

\* So will those of the scan, unless they failed.
ScanFiled ==
    poll.phase = "scan" =>
        /\ \A i \in poll.todo \cup poll.cur \cup poll.failed : i < poll.top
        /\ \A i \in Nat :
              cursor <= i /\ i < poll.top => i \in filed \cup poll.todo \cup poll.failed

\* What is marked, or about to be, has a proposal.
MarkedFiled ==
    /\ marked \subseteq filed
    /\ poll.call \in {"mark", "sign"} => poll.cur \subseteq filed

OutInv == TypeOut /\ BelowFiled /\ ScanFiled /\ MarkedFiled

-----------------------------------------------------------------------------
\* The first of a set of numbers, and the larger of two.
LEMMA FirstOf ==
    ASSUME NEW T \in SUBSET Nat, T # {}
    PROVE  Min(T) \in T /\ \A y \in T : Min(T) <= y
<1> DEFINE less == {p \in Nat \X Nat : p[1] < p[2]}
<1>1. IsWellFoundedOn(less, Nat)
  BY NatLessThanWellFounded DEF OpToRel
<1>2. PICK x \in T : \A y \in T : ~(<<y, x>> \in less)
  <2> HIDE DEF less
  <2> QED
    BY <1>1, WFMin
<1>3. x \in T /\ \A y \in T : x <= y
  <2>1. ASSUME NEW y \in T, y < x
        PROVE  <<y, x>> \in less
    BY <2>1
  <2>2. \A y \in T : ~(y < x)
    BY <1>2, <2>1
  <2> QED
    BY <2>2
<1>4. \A z \in T : (\A y \in T : z <= y) => z = x
  BY <1>3
<1>5. Min(T) = x
  BY <1>3, <1>4 DEF Min
<1> QED
  BY <1>3, <1>5

\* The greatest of two numbers.
LEMMA PairMax ==
    ASSUME NEW a \in Nat, NEW b \in Nat
    PROVE  Max({a, b}) = IF a >= b THEN a ELSE b
<1>1. \A x \in {a, b} : (\A y \in {a, b} : x >= y) => x = IF a >= b THEN a ELSE b
  OBVIOUS
<1>2. \E x \in {a, b} : \A y \in {a, b} : x >= y
  OBVIOUS
<1> QED
  BY <1>1, <1>2 DEF Max

\* next_cursor_after_partial_failure: the cursor does not pass the first failure.
LEMMA NextCursorKeeps ==
    ASSUME NEW top \in Nat, NEW failed \in SUBSET Nat, cursor \in Nat
    PROVE  /\ NextCursor(top, failed) \in Nat
           /\ \A i \in Nat : i < NextCursor(top, failed) =>
                 \/ i < cursor
                 \/ (\A f \in failed : i < f) /\ (failed = {} => i < top)
<1>1. CASE failed = {}
  <2>1. Max({cursor, top}) = IF cursor >= top THEN cursor ELSE top
    BY PairMax
  <2> QED
    BY <1>1, <2>1 DEF NextCursor
<1>2. CASE failed # {}
  <2>1. PICK low \in Nat : low = Min(failed) /\ \A f \in failed : f \in Nat /\ low <= f
    BY <1>2, FirstOf
  <2>2. Max({cursor, low}) = IF cursor >= low THEN cursor ELSE low
    BY PairMax
  <2>3. NextCursor(top, failed) = IF cursor >= low THEN cursor ELSE low
    BY <1>2, <2>1, <2>2 DEF NextCursor
  <2>4. CASE cursor >= low
    BY <1>2, <2>3, <2>4
  <2>5. CASE ~(cursor >= low)
    <3>1. NextCursor(top, failed) = low
      BY <2>3, <2>5
    <3>2. \A i \in Nat : i < low => \A f \in failed : i < f
      BY <2>1
    <3> QED
      BY <1>2, <3>1, <3>2
  <2> QED
    BY <2>4, <2>5
<1> QED
  BY <1>1, <1>2

-----------------------------------------------------------------------------
\* The outbound invariant holds at first.
LEMMA OutboundInit == OutInit => OutInv
BY DEF OutInit, OutInv, TypeOut, PollType, Waiting, BelowFiled, ScanFiled, MarkedFiled

\* The chain, the other relayers and a restart take no proposal away.
LEMMA OutsideStep ==
    ASSUME OutInv, Chain \/ OutRestart
    PROVE  OutInv'
<1>1. CASE Chain
  BY <1>1 DEF Chain, Burn, OtherFiles, store, OutInv, TypeOut, BelowFiled, ScanFiled, MarkedFiled
<1>2. CASE OutRestart
  <2>1. poll' \in PollType /\ poll'.phase = "wait" /\ poll'.call = "read"
    BY <1>2 DEF OutRestart, Waiting, PollType
  <2> QED
    BY <1>2, <2>1 DEF OutRestart, node, store, OutInv, TypeOut, BelowFiled, ScanFiled, MarkedFiled
<1> QED
  BY <1>1, <1>2

\* A scan has all burns from the cursor on to do; the cursor then passes those that are
\* filed, up to the first failure.
LEMMA ScanSteps ==
    ASSUME OutInv, NEW S \in SUBSET Burns, OutScan \/ OutNoScan(S) \/ OutScanned(S)
    PROVE  OutInv'
<1>1. S \subseteq Nat /\ poll \in PollType /\ next \in Nat /\ cursor \in Nat /\ kept = cursor
  BY BurnsAssumption DEF Burns, OutInv, TypeOut
<1>2. CASE OutScan
  <2> DEFINE todo == {i \in RecentBurns : i >= cursor}
  <2>1. \A i \in RecentBurns : i \in Nat /\ i < next
    BY <1>1 DEF RecentBurns
  <2>2. Oldest \in Nat /\ Oldest <= cursor
    BY <1>1, <1>2, CapAssumption DEF OutScan, Oldest
  <2>3. \A i \in Nat : cursor <= i /\ i < next => i \in todo
    BY <1>1, <2>2 DEF RecentBurns
  <2>4. poll' = [phase |-> "scan", call |-> "read", top |-> next, todo |-> todo,
                 cur |-> {}, failed |-> {}]
    BY <1>2 DEF OutScan, Waiting
  <2>5. todo \in SUBSET Nat /\ \A i \in todo : i < next
    BY <2>1
  <2> HIDE DEF todo
  <2>6. poll' \in PollType
    BY <1>1, <2>4, <2>5 DEF PollType
  <2>7. UNCHANGED <<next, filed, marked, kept, cursor>>
    BY <1>2 DEF OutScan, node, store
  <2>8. ScanFiled'
    BY <2>3, <2>4, <2>5, <2>7 DEF ScanFiled
  <2> QED
    BY <2>4, <2>6, <2>7, <2>8 DEF OutInv, TypeOut, BelowFiled, MarkedFiled
<1>3. Due(S) \in PollType /\ Due(S).phase = "retry" /\ Due(S).call = "read"
  <2>1. Waiting \in PollType /\ Waiting.call = "read"
    BY DEF Waiting, PollType
  <2> QED
    BY <1>1, <2>1 DEF Due, PollType
<1>4. CASE OutNoScan(S)
  BY <1>3, <1>4
     DEF OutNoScan, node, store, OutInv, TypeOut, BelowFiled, ScanFiled, MarkedFiled
<1>5. CASE OutScanned(S)
  <2>1. poll.top \in Nat /\ poll.failed \in SUBSET Nat
    BY <1>1 DEF PollType
  <2>2. /\ cursor' \in Nat
        /\ \A i \in Nat : i < cursor' =>
              \/ i < cursor
              \/ (\A f \in poll.failed : i < f) /\ (poll.failed = {} => i < poll.top)
    BY <1>1, <1>5, <2>1, NextCursorKeeps DEF OutScanned
  <2>3. /\ \A f \in poll.failed : f < poll.top
        /\ \A i \in Nat : cursor <= i /\ i < poll.top => i \in filed \cup poll.failed
    BY <1>5 DEF OutScanned, OutInv, ScanFiled
  <2>4. ASSUME NEW i \in Nat, i < cursor'
        PROVE  i \in filed
    <3>1. CASE i < cursor
      BY <3>1 DEF OutInv, BelowFiled
    <3>2. CASE cursor <= i
      <4>1. \A f \in poll.failed : i < f
        BY <1>1, <2>2, <2>4, <3>2
      <4>2. i < poll.top
        BY <1>1, <2>1, <2>2, <2>3, <2>4, <3>2, <4>1
      <4>3. i \notin poll.failed
        BY <4>1
      <4> QED
        BY <2>3, <3>2, <4>2, <4>3
    <3> QED
      BY <1>1, <3>1, <3>2
  <2>5. UNCHANGED <<next, filed, marked>> /\ kept' = cursor' /\ poll' = Due(S)
    BY <1>5 DEF OutScanned, node
  <2> QED
    BY <1>3, <2>2, <2>4, <2>5 DEF OutInv, TypeOut, BelowFiled, ScanFiled, MarkedFiled
<1> QED
  BY <1>2, <1>4, <1>5

\* The loop leaves a burn of the scan that is filed, or that it counts as failed.
LEMMA LeaveKeeps ==
    ASSUME OutInv, NEW i \in Burns, NEW failed \in {{}, {i}}, Leave(i, failed),
           UNCHANGED <<next, cursor, kept>>, filed \subseteq filed', marked' \subseteq filed',
           poll.phase = "scan" => i < poll.top /\ i \in filed' \cup failed
    PROVE  OutInv'
<1>1. i \in Nat /\ poll \in PollType
  BY BurnsAssumption DEF Burns, OutInv, TypeOut
<1>2. /\ poll'.phase = poll.phase /\ poll'.call = "read" /\ poll'.top = poll.top
      /\ poll'.todo = poll.todo \ {i} /\ poll'.cur = {}
      /\ poll'.failed = poll.failed \cup failed /\ poll' \in PollType
  BY <1>1 DEF Leave, PollType
<1>3. ScanFiled'
  BY <1>2 DEF OutInv, ScanFiled
<1>4. TypeOut' /\ BelowFiled' /\ MarkedFiled'
  BY <1>2 DEF OutInv, TypeOut, BelowFiled, MarkedFiled
<1> QED
  BY <1>3, <1>4 DEF OutInv

\* A call that fails leaves its burn to a later poll.
LEMMA FailKeeps ==
    ASSUME OutInv, NEW i \in Burns, Fails(i), UNCHANGED <<next, cursor, kept, marked>>,
           filed \subseteq filed', poll.phase = "scan" => i < poll.top
    PROVE  OutInv'
<1>1. marked' \subseteq filed'
  BY DEF OutInv, MarkedFiled
<1>2. CASE poll.phase = "scan" /\ Leave(i, {i})
  BY <1>1, <1>2, LeaveKeeps
<1>3. CASE poll.phase = "retry" /\ Leave(i, {})
  BY <1>1, <1>3, LeaveKeeps
<1> QED
  BY <1>2, <1>3 DEF Fails

\* handle_new_burn, one call at a time.
LEMMA BurnStep ==
    ASSUME OutInv, NEW i \in Burns, OutBurn(i)
    PROVE  OutInv'
<1>1. /\ i \in poll.todo /\ poll \in PollType /\ marked \subseteq filed
      /\ poll.phase = "scan" => i < poll.top
  BY DEF OutBurn, OutInv, TypeOut, MarkedFiled, ScanFiled
<1>2. CASE OutKnown(i)
  BY <1>1, <1>2, LeaveKeeps DEF OutKnown, Succeeds, node
<1>3. CASE OutFile(i)
  <2>1. /\ poll'.phase = poll.phase /\ poll'.call = "mark" /\ poll'.top = poll.top
        /\ poll'.todo = poll.todo /\ poll'.cur = {i} /\ poll'.failed = poll.failed
    BY <1>1, <1>3 DEF OutFile, PollType
  <2>2. poll' \in PollType
    BY <1>1, <1>3 DEF OutFile, PollType
  <2>3. filed' = filed \cup {i} /\ UNCHANGED <<next, cursor, kept, marked>>
    BY <1>3 DEF OutFile, store
  <2>4. ScanFiled'
    BY <1>1, <2>1, <2>3 DEF OutInv, ScanFiled
  <2> QED
    BY <1>1, <2>1, <2>2, <2>3, <2>4 DEF OutInv, TypeOut, BelowFiled, MarkedFiled
<1>4. CASE OutFileFails(i)
  BY <1>1, <1>4, FailKeeps DEF OutFileFails
<1> QED
  BY <1>2, <1>3, <1>4 DEF OutBurn

\* A call on one burn: it is marked, signed or not.
LEMMA OutCallStep ==
    ASSUME OutInv, OutMark \/ \E i \in Burns : OutSign(i) \/ OutSignFails(i)
    PROVE  OutInv'
<1>1. poll \in PollType /\ marked \subseteq filed
  BY DEF OutInv, TypeOut, MarkedFiled
<1>2. CASE OutMark
  <2>1. poll.cur \subseteq filed
    BY <1>2 DEF OutMark, OutInv, MarkedFiled
  <2>2. /\ poll'.phase = poll.phase /\ poll'.call = "sign" /\ poll'.top = poll.top
        /\ poll'.todo = poll.todo /\ poll'.cur = poll.cur /\ poll'.failed = poll.failed
        /\ poll' \in PollType
    BY <1>1, <1>2 DEF OutMark, PollType
  <2>3. marked' = marked \cup poll.cur /\ UNCHANGED <<next, filed, cursor, kept>>
    BY <1>2 DEF OutMark, node
  <2> QED
    BY <1>1, <2>1, <2>2, <2>3 DEF OutInv, TypeOut, BelowFiled, ScanFiled, MarkedFiled
<1>3. ASSUME NEW i \in Burns, OutSign(i) \/ OutSignFails(i)
      PROVE  OutInv'
  <2>1. i \in filed /\ (poll.phase = "scan" => i < poll.top)
    BY <1>3 DEF OutSign, OutSignFails, OutInv, MarkedFiled, ScanFiled
  <2>2. CASE OutSign(i)
    BY <1>1, <2>1, <2>2, LeaveKeeps DEF OutSign, Succeeds
  <2>3. CASE OutSignFails(i)
    BY <2>1, <2>3, FailKeeps DEF OutSignFails, node
  <2> QED
    BY <1>3, <2>2, <2>3
<1> QED
  BY <1>2, <1>3

\* A poll ends.
LEMMA OutFinishStep ==
    ASSUME OutInv, NEW S \in SUBSET Burns, OutFinish(S)
    PROVE  OutInv'
<1>1. poll' \in PollType /\ poll'.phase = "wait" /\ poll'.call = "read"
  BY DEF OutFinish, Waiting, PollType
<1> QED
  BY <1>1 DEF OutFinish, store, OutInv, TypeOut, BelowFiled, ScanFiled, MarkedFiled

-----------------------------------------------------------------------------
\* Every outbound step keeps the invariant.
LEMMA OutboundStep == OutInv /\ [OutNext]_outbound => OutInv'
<1> SUFFICES ASSUME OutInv, [OutNext]_outbound PROVE OutInv'
  OBVIOUS
<1>1. CASE Chain \/ OutRestart
  BY <1>1, OutsideStep
<1>2. CASE OutScan
  BY <1>2, ScanSteps
<1>3. ASSUME NEW S \in SUBSET Burns, OutNoScan(S) \/ OutScanned(S)
      PROVE  OutInv'
  BY <1>3, ScanSteps
<1>4. ASSUME NEW S \in SUBSET Burns, OutFinish(S)
      PROVE  OutInv'
  BY <1>4, OutFinishStep
<1>5. ASSUME NEW i \in Burns, OutBurn(i)
      PROVE  OutInv'
  BY <1>5, BurnStep
<1>6. CASE OutMark \/ \E i \in Burns : OutSign(i) \/ OutSignFails(i)
  BY <1>6, OutCallStep
<1>7. CASE UNCHANGED outbound
  BY <1>7 DEF outbound, node, store, OutInv, TypeOut, BelowFiled, ScanFiled, MarkedFiled
<1> QED
  BY <1>1, <1>2, <1>3, <1>4, <1>5, <1>6, <1>7 DEF OutNext, OutTurn

\* poll_once: whatever fails, is retried, is given up or stops in between, the stored
\* cursor never passes a burn that has no proposal.
THEOREM BurnsNotSkipped == OutSpec => []NoBurnSkipped
<1>1. OutInv => NoBurnSkipped
  BY BurnsAssumption DEF OutInv, TypeOut, BelowFiled, NoBurnSkipped, Burns
<1>2. OutSpec => []OutInv
  BY OutboundInit, OutboundStep, PTL DEF OutSpec
<1> QED
  BY <1>1, <1>2, PTL

=============================================================================
