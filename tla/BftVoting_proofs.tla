-------------------------- MODULE BftVoting_proofs --------------------------
(***************************************************************************)
(* Agreement of ZagrosBFT for every validator-set size, every choice of at *)
(* most f Byzantine validators and every number of rounds.                 *)
(*                                                                         *)
(* The persisted watermark rules out double votes for any number of        *)
(* rebuilds: what survives a restart, although the lock does not.          *)
(***************************************************************************)
EXTENDS BftRestart, FiniteSetTheorems, WellFoundedInduction, TLAPS

\* The validator set is finite, and so is every set of voters.
LEMMA VotersFinite ==
    /\ IsFiniteSet(Validators) /\ Cardinality(Validators) = N
    /\ IsFiniteSet(Byzantine) /\ Cardinality(Byzantine) \in Nat
    /\ \A votes, r, h :
          /\ Voters(votes, r, h) \subseteq Validators
          /\ IsFiniteSet(Voters(votes, r, h))
          /\ Cardinality(Voters(votes, r, h)) \in Nat
<1>1. IsFiniteSet(Validators) /\ Cardinality(Validators) = N
  BY FS_Interval, SizeAssumption DEF Validators
<1>2. IsFiniteSet(Byzantine) /\ Cardinality(Byzantine) \in Nat
  BY <1>1, FS_Subset, FS_CardinalityType, FaultAssumption
<1>3. \A votes, r, h : Voters(votes, r, h) \subseteq Validators
  BY FaultAssumption DEF Voters, Honest
<1>4. \A votes, r, h : IsFiniteSet(Voters(votes, r, h))
  BY <1>1, <1>3, FS_Subset
<1>5. \A votes, r, h : Cardinality(Voters(votes, r, h)) \in Nat
  BY <1>4, FS_CardinalityType
<1> QED BY <1>1, <1>2, <1>3, <1>4, <1>5

\* INV-C2, the comment on quorum_of: 2Q - N >= f + 1 for every N.
LEMMA QuorumArithmetic ==
    /\ Quorum \in Nat /\ Tolerance \in Nat
    /\ 2 * Quorum - N >= Tolerance + 1
    /\ Quorum > Tolerance
<1> DEFINE q == (2 * N) \div 3
           f == (N - 1) \div 3
<1>1. q \in Nat /\ 3 * q <= 2 * N /\ 2 * N < 3 * q + 3
  BY SizeAssumption, Z3
<1>2. f \in Nat /\ 3 * f <= N - 1 /\ N - 1 < 3 * f + 3
  BY SizeAssumption, Z3
<1>3. 2 * (q + 1) - N >= f + 1
  BY <1>1, <1>2, SizeAssumption
<1>4. q + 1 > f
  BY <1>1, <1>2, SizeAssumption
<1> QED BY <1>1, <1>2, <1>3, <1>4 DEF Quorum, Tolerance

\* Any two quorums share an honest validator, whatever votes they count.
LEMMA QuorumIntersection ==
    ASSUME NEW U, NEW V, NEW r1, NEW h1, NEW r2, NEW h2,
           HasQuorum(U, r1, h1), HasQuorum(V, r2, h2)
    PROVE  \E n \in Honest : Vote(n, r1, h1) \in U /\ Vote(n, r2, h2) \in V
<1> DEFINE S == Voters(U, r1, h1)
           T == Voters(V, r2, h2)
<1>1. /\ IsFiniteSet(S) /\ IsFiniteSet(T)
      /\ S \subseteq Validators /\ T \subseteq Validators
      /\ Cardinality(S) \in Nat /\ Cardinality(T) \in Nat
  BY VotersFinite
<1>2. Cardinality(S) >= Quorum /\ Cardinality(T) >= Quorum
  BY DEF HasQuorum
<1>3. /\ IsFiniteSet(S \cup T)
      /\ Cardinality(S \cup T) = Cardinality(S) + Cardinality(T) - Cardinality(S \cap T)
  BY <1>1, FS_Union
<1>4. S \cup T \in SUBSET Validators
  BY <1>1
<1>5. Cardinality(S \cup T) <= N
  BY <1>4, VotersFinite, FS_Subset
<1>6. IsFiniteSet(S \cap T) /\ Cardinality(S \cap T) \in Nat
  BY <1>1, FS_Intersection, FS_CardinalityType
<1>7. Cardinality(S \cap T) > Tolerance
  BY <1>1, <1>2, <1>3, <1>5, <1>6, QuorumArithmetic, SizeAssumption
<1>8. ~ (S \cap T \subseteq Byzantine)
  <2> SUFFICES ASSUME S \cap T \in SUBSET Byzantine PROVE FALSE
    OBVIOUS
  <2>1. Cardinality(S \cap T) <= Cardinality(Byzantine)
    BY VotersFinite, FS_Subset
  <2> QED BY <2>1, <1>6, <1>7, VotersFinite, QuorumArithmetic, FaultAssumption
<1> QED BY <1>8 DEF Voters

\* A quorum holds at least one honest vote.
LEMMA HonestVote ==
    ASSUME NEW U, NEW r, NEW h, HasQuorum(U, r, h)
    PROVE  \E n \in Honest : Vote(n, r, h) \in U
BY QuorumIntersection

\* Votes are never taken back, so a quorum stays one.
LEMMA QuorumGrows ==
    ASSUME NEW U, NEW V, U \subseteq V, NEW r, NEW h, HasQuorum(U, r, h)
    PROVE  HasQuorum(V, r, h)
<1>1. Voters(U, r, h) \in SUBSET Voters(V, r, h)
  BY DEF Voters
<1>2. Cardinality(Voters(U, r, h)) <= Cardinality(Voters(V, r, h))
  BY <1>1, VotersFinite, FS_Subset
<1> QED BY <1>2, VotersFinite, QuorumArithmetic DEF HasQuorum

\* A nonempty set of rounds has a first one.
LEMMA FirstRound ==
    ASSUME NEW S, S \subseteq Rounds, S # {}
    PROVE  \E m \in S : \A k \in S : m <= k
<1> DEFINE R == OpToRel(<, Nat)
<1>1. S \subseteq Nat
  BY SizeAssumption DEF Rounds
<1>2. IsWellFoundedOn(R, Nat)
  BY NatLessThanWellFounded, Zenon
<1>3. R = {p \in Nat \X Nat : p[1] < p[2]}
  BY Zenon DEF OpToRel
<1> HIDE DEF R
<1>4. PICK m \in S : \A k \in S : <<k, m>> \notin R
  BY <1>1, <1>2, WFMin
<1>5. \A k \in S : ~ (k < m)
  BY <1>1, <1>3, <1>4
<1> QED BY <1>1, <1>5

-----------------------------------------------------------------------------
(* Type correctness.                                                       *)

\* The constants' sets hold what the protocol puts in them.
LEMMA ConstantTypes ==
    /\ 0 \in Rounds /\ Rounds \subseteq Int /\ NoRound \in Int /\ NoRound \notin Rounds
    /\ \A r \in Rounds : r >= 0
    /\ Nil \in Hashes /\ Blocks \subseteq Hashes /\ ValidBlocks \subseteq Blocks
    /\ NoLock \in Locks /\ NoMark \in Marks
    /\ \A r \in Rounds, h \in Hashes : Lock(r, h) \in Locks
    /\ \A n \in Honest, r \in Rounds, h \in Hashes : Vote(n, r, h) \in Votes
    /\ \A r \in Rounds, h \in Hashes : Mark(r, 1, h) \in Marks /\ Mark(r, 2, h) \in Marks
BY SizeAssumption, BlockAssumption
   DEF Rounds, NoRound, Hashes, NoLock, Lock, Locks, Vote, Votes, NoMark, Mark, Marks

\* Rounds are numbers, and none is the missing one.
LEMMA RoundIsInt == \A r \in Rounds : r \in Int /\ r >= 0 /\ r # NoRound
BY SizeAssumption DEF Rounds, NoRound

\* Casting a vote leaves only well-formed votes and watermarks.
LEMMA CastTypes ==
    ASSUME TypeOK, NEW n \in Honest, NEW h \in Hashes
    PROVE  /\ CastPrevote(n, h) => /\ prevotes' \subseteq Votes
                                   /\ signed' \in [Honest -> Marks]
           /\ CastPrecommit(n, h) => /\ precommits' \subseteq Votes
                                     /\ signed' \in [Honest -> Marks]
<1>1. round[n] \in Rounds
  BY DEF TypeOK
<1>2. /\ Vote(n, round[n], h) \in Votes
      /\ Mark(round[n], 1, h) \in Marks /\ Mark(round[n], 2, h) \in Marks
  BY <1>1, ConstantTypes
<1> QED BY <1>2 DEF TypeOK, CastPrevote, CastPrecommit

\* The initial state has its types.
LEMMA TypeInit == Init => TypeOK
BY ConstantTypes DEF Init, TypeOK

\* Every step keeps the types.
LEMMA TypeStep == TypeOK /\ [Next]_vars => TypeOK'
<1> SUFFICES ASSUME TypeOK, [Next]_vars PROVE TypeOK'
  OBVIOUS
<1>1. ASSUME NEW n \in Honest, NEW b \in Blocks, Propose(n, b) PROVE TypeOK'
  <2>1. b \in Hashes /\ round[n] \in Rounds /\ valid[n].round \in Rounds \cup {NoRound}
    BY ConstantTypes DEF TypeOK, Locks
  <2>2. Envelope(round[n], b, valid[n].round) \in Envelopes
    BY <2>1 DEF Envelope, Envelopes
  <2>3. PICK h \in Hashes :
           /\ prevotes' = prevotes \cup {Vote(n, round[n], h)}
           /\ signed' = [signed EXCEPT ![n] = Mark(round[n], 1, h)]
    BY <1>1, <2>1, ConstantTypes DEF Propose, PrevoteChoices
  <2>4. Vote(n, round[n], h) \in Votes /\ Mark(round[n], 1, h) \in Marks
    BY <2>1, ConstantTypes
  <2> QED BY <1>1, <2>1, <2>2, <2>3, <2>4 DEF TypeOK, Propose
<1>2. ASSUME NEW n \in Honest, NEW r \in Rounds, NEW p \in EnvelopesFor(r), OnProposal(n, p)
      PROVE  TypeOK'
  <2>1. p.block \in Hashes
    BY <1>2, ConstantTypes DEF OnProposal
  <2>2. \A h \in PrevoteChoices(n, p.block, p.valid_round) : h \in Hashes
    BY <2>1, ConstantTypes DEF PrevoteChoices
  <2>3. prevotes' \subseteq Votes /\ signed' \in [Honest -> Marks]
    BY <1>2, <2>2, CastTypes DEF OnProposal, TypeOK
  <2> QED BY <1>2, <2>1, <2>3 DEF TypeOK, OnProposal
<1>3. ASSUME NEW n \in Honest, PrevoteNil(n) PROVE TypeOK'
  BY <1>3, CastTypes, ConstantTypes DEF TypeOK, PrevoteNil
<1>4. ASSUME NEW n \in Honest, OnPrevoteQuorum(n) PROVE TypeOK'
  <2>1. body[n] \in Hashes /\ Lock(round[n], body[n]) \in Locks
    BY ConstantTypes DEF TypeOK
  <2>2. precommits' \subseteq Votes /\ signed' \in [Honest -> Marks]
    BY <1>4, <2>1, CastTypes DEF OnPrevoteQuorum, TypeOK
  <2> QED BY <1>4, <2>1, <2>2 DEF TypeOK, OnPrevoteQuorum
<1>5. ASSUME NEW n \in Honest, PrecommitNil(n) PROVE TypeOK'
  BY <1>5, CastTypes, ConstantTypes DEF TypeOK, PrecommitNil
<1>6. ASSUME NEW n \in Honest, NEW r \in Rounds, StartRound(n, r) PROVE TypeOK'
  BY <1>6, ConstantTypes DEF TypeOK, StartRound
<1>7. ASSUME NEW n \in Honest, NextRound(n) PROVE TypeOK'
  BY <1>6, <1>7 DEF NextRound, StartRound
<1>8. ASSUME NEW n \in Honest, NEW r \in Rounds, RoundSkip(n, r) PROVE TypeOK'
  BY <1>6, <1>8 DEF RoundSkip
<1>9. ASSUME NEW n \in Honest, NEW r \in Rounds, NEW b \in Blocks, Commit(n, r, b)
      PROVE  TypeOK'
  BY <1>9, ConstantTypes DEF TypeOK, Commit
<1>10. CASE UNCHANGED vars
  BY <1>10 DEF TypeOK, vars
<1> QED BY <1>1, <1>2, <1>3, <1>4, <1>5, <1>7, <1>8, <1>9, <1>10 DEF Next, NodeStep, Halted

\* Every reachable state is well typed: rounds stay within the bound, votes are
\* those of honest validators, locks and watermarks are what the engine stores.
THEOREM TypeCorrect == Spec => []TypeOK
<1>1. Init => TypeOK
  BY TypeInit
<1>2. TypeOK /\ [Next]_vars => TypeOK'
  BY TypeStep
<1> QED BY <1>1, <1>2, PTL DEF Spec

-----------------------------------------------------------------------------
(* The inductive invariant.  Only three kinds of step touch what it says:  *)
(* a prevote is cast, a precommit is cast, a round is started.             *)

\* A prevote allowed by the lock rule (or a nil one) preserves the invariant.
\* Serves propose, on_proposal and the propose timer.
LEMMA PrevoteCast ==
    ASSUME Inv, NEW n \in Honest, NEW h \in Hashes,
           step[n] = "Propose",
           step' = [step EXCEPT ![n] = "Prevote"],
           prevotes' \in {prevotes, prevotes \cup {Vote(n, round[n], h)}},
           h = Nil \/ \E vr \in Rounds \cup {NoRound} : MayPrevote(n, h, vr),
           UNCHANGED <<round, locked, valid, decided, precommits>>,
           TypeOK'
    PROVE  Inv'
<1> USE DEF Inv
<1> DEFINE new == Vote(n, round[n], h)
<1>1. prevotes \subseteq prevotes' /\ \A v \in prevotes' : v \in prevotes \/ v = new
  OBVIOUS
<1>2. new.src = n /\ new.round = round[n] /\ new.hash = h
  BY DEF Vote
<1>3. \A v \in prevotes \cup precommits : v.src \in Honest /\ v.round \in Rounds
  BY DEF TypeOK, Votes
<1>4. \A m \in Honest : round[m] \in Rounds /\ step[m] \in {"Propose", "Prevote", "Precommit"}
  BY DEF TypeOK
<1>5. \A r, g : HasQuorum(prevotes, r, g) => HasQuorum(prevotes', r, g)
  BY <1>1, QuorumGrows
<1>6. \A v \in prevotes \cup precommits : v.src = n => v.round < round[n]
  BY <1>3, <1>4 DEF SignedInPast
<1>7. step' = [m \in Honest |-> IF m = n THEN "Prevote" ELSE step[m]]
  BY DEF TypeOK
<1> HIDE DEF new
<1>8. SignedInPast'
  <2>1. \A v \in prevotes' : v.round < round[v.src] \/ (v.round = round[v.src] /\ step'[v.src] # "Propose")
    BY <1>1, <1>2, <1>3, <1>7 DEF SignedInPast
  <2>2. \A v \in precommits : v.round < round[v.src] \/ (v.round = round[v.src] /\ step'[v.src] = "Precommit")
    BY <1>3, <1>6, <1>7 DEF SignedInPast
  <2> QED BY <2>1, <2>2 DEF SignedInPast
<1>9. NoDoubleVote'
  <2>1. \A v, w \in prevotes' : v.src = w.src /\ v.round = w.round => v.hash = w.hash
    <3>1. \A v, w \in prevotes : v.src = w.src /\ v.round = w.round => v.hash = w.hash
      BY DEF NoDoubleVote
    <3>2. \A v \in prevotes : v.src = n => v.round # round[n]
      BY <1>3, <1>4, <1>6, RoundIsInt
    <3> QED BY <1>1, <1>2, <3>1, <3>2
  <2> QED BY <2>1 DEF NoDoubleVote
<1>10. PrecommitHasPol'
  BY <1>5 DEF PrecommitHasPol
<1>11. LockCoversPrecommits'
  BY <1>7 DEF LockCoversPrecommits
<1>12. PolBacked'
  BY <1>5 DEF PolBacked
<1>13. PrevoteJustified'
  <2> SUFFICES ASSUME NEW v \in precommits, NEW w \in prevotes',
                      v.src = w.src, v.round < w.round,
                      v.hash # Nil, w.hash # Nil, v.hash # w.hash
               PROVE  \E r \in Rounds : v.round < r /\ r < w.round /\ HasQuorum(prevotes', r, w.hash)
    BY DEF PrevoteJustified
  <2>1. CASE w \in prevotes
    BY <2>1, <1>5 DEF PrevoteJustified
  <2>2. CASE w = new
    <3>1. h # Nil /\ w.hash = h /\ w.round = round[n] /\ v.src = n
      BY <2>2, <1>2
    <3>2. PICK vr \in Rounds \cup {NoRound} : MayPrevote(n, h, vr)
      BY <3>1
    <3>3. /\ v.round <= locked[n].round
          /\ v.round = locked[n].round => v.hash = locked[n].hash
          /\ locked[n].round <= round[n] /\ locked[n].round # round[n]
      BY <3>1 DEF LockCoversPrecommits
    <3>4. locked[n].round \in Rounds \cup {NoRound} /\ v.round \in Rounds /\ round[n] \in Rounds
      BY <1>3, <1>4 DEF TypeOK, Locks
    <3>5. locked[n].round \in Rounds
      BY <3>3, <3>4, ConstantTypes DEF NoRound
    <3>6. CASE locked[n].hash = h
      <4>1. HasQuorum(prevotes, locked[n].round, h)
        BY <3>5, <3>6, ConstantTypes DEF PolBacked
      <4>2. v.round < locked[n].round /\ locked[n].round < round[n]
        <5>1. v.round # locked[n].round
          BY <3>1, <3>3, <3>6
        <5> QED BY <5>1, <3>3, <3>4, <3>5, RoundIsInt
      <4> QED BY <4>1, <4>2, <3>1, <3>5, <1>5
    <3>7. CASE vr > locked[n].round /\ vr < round[n] /\ HasQuorum(prevotes, vr, h)
      <4>1. vr \in Rounds /\ v.round < vr
        BY <3>3, <3>4, <3>5, <3>7, RoundIsInt DEF NoRound
      <4> QED BY <4>1, <3>1, <3>7, <1>5
    <3> QED BY <3>2, <3>5, <3>6, <3>7, ConstantTypes DEF MayPrevote
  <2> QED BY <2>1, <2>2, <1>1
<1>14. DecidedIsCertified'
  BY DEF DecidedIsCertified, Running
<1> QED BY <1>8, <1>9, <1>10, <1>11, <1>12, <1>13, <1>14

\* A precommit for nil, or for the block that is locked in the same step on a
\* quorum of this round's prevotes.  Serves try_advance and the prevote timer.
LEMMA PrecommitCast ==
    ASSUME Inv, NEW n \in Honest, NEW h \in Hashes,
           step[n] = "Prevote",
           step' = [step EXCEPT ![n] = "Precommit"],
           precommits' \in {precommits, precommits \cup {Vote(n, round[n], h)}},
           \/ h = Nil /\ UNCHANGED <<locked, valid>>
           \/ /\ h # Nil /\ HasQuorum(prevotes, round[n], h)
              /\ locked' = [locked EXCEPT ![n] = Lock(round[n], h)]
              /\ valid' = [valid EXCEPT ![n] = Lock(round[n], h)],
           UNCHANGED <<round, decided, prevotes>>,
           TypeOK'
    PROVE  Inv'
<1> USE DEF Inv
<1> DEFINE new == Vote(n, round[n], h)
<1>1. precommits \subseteq precommits' /\ \A v \in precommits' : v \in precommits \/ v = new
  OBVIOUS
<1>2. new.src = n /\ new.round = round[n] /\ new.hash = h
  BY DEF Vote
<1>3. \A v \in prevotes \cup precommits : v.src \in Honest /\ v.round \in Rounds
  BY DEF TypeOK, Votes
<1>4. \A m \in Honest : /\ round[m] \in Rounds
                        /\ step[m] \in {"Propose", "Prevote", "Precommit"}
                        /\ locked[m] \in Locks /\ valid[m] \in Locks
  BY DEF TypeOK
<1>5. \A r, g : HasQuorum(precommits, r, g) => HasQuorum(precommits', r, g)
  BY <1>1, QuorumGrows
<1>6. \A v \in precommits : v.src = n => v.round < round[n]
  BY <1>3, <1>4 DEF SignedInPast
<1>7. step' = [m \in Honest |-> IF m = n THEN "Precommit" ELSE step[m]]
  BY DEF TypeOK
<1> HIDE DEF new
<1>8. SignedInPast'
  <2>1. \A v \in prevotes : v.round < round[v.src] \/ (v.round = round[v.src] /\ step'[v.src] # "Propose")
    BY <1>3, <1>7 DEF SignedInPast
  <2>2. \A v \in precommits' : v.round < round[v.src] \/ (v.round = round[v.src] /\ step'[v.src] = "Precommit")
    BY <1>1, <1>2, <1>3, <1>7 DEF SignedInPast
  <2> QED BY <2>1, <2>2 DEF SignedInPast
<1>9. NoDoubleVote'
  <2>1. \A v, w \in precommits : v.src = w.src /\ v.round = w.round => v.hash = w.hash
    BY DEF NoDoubleVote
  <2>2. \A v \in precommits : v.src = n => v.round # round[n]
    BY <1>3, <1>4, <1>6, RoundIsInt
  <2>3. \A v, w \in precommits' : v.src = w.src /\ v.round = w.round => v.hash = w.hash
    BY <1>1, <1>2, <2>1, <2>2
  <2> QED BY <2>3 DEF NoDoubleVote
<1>10. PrecommitHasPol'
  <2>1. \A v \in precommits' : v.hash # Nil => HasQuorum(prevotes, v.round, v.hash)
    BY <1>1, <1>2 DEF PrecommitHasPol
  <2> QED BY <2>1 DEF PrecommitHasPol
<1>11. LockCoversPrecommits'
  <2> SUFFICES ASSUME NEW m \in Honest
               PROVE  /\ locked'[m].round <= round[m]
                      /\ locked'[m].round = round[m] => step'[m] = "Precommit"
                      /\ \A v \in precommits' : v.src = m /\ v.hash # Nil =>
                            /\ v.round <= locked'[m].round
                            /\ v.round = locked'[m].round => v.hash = locked'[m].hash
    BY DEF LockCoversPrecommits
  <2>1. CASE m # n \/ h = Nil
    <3>1. locked'[m] = locked[m]
      BY <2>1 DEF TypeOK
    <3>2. \A v \in precommits' : v.src = m /\ v.hash # Nil => v \in precommits
      BY <2>1, <1>1, <1>2
    <3> QED BY <3>1, <3>2, <1>7 DEF LockCoversPrecommits
  <2>2. CASE m = n /\ h # Nil
    <3>1. locked'[m] = Lock(round[n], h)
      BY <2>2 DEF TypeOK
    <3>2. locked'[m].round = round[n] /\ locked'[m].hash = h
      BY <3>1 DEF Lock
    <3>3. \A v \in precommits' : v.src = m => v = new \/ v.round < round[n]
      BY <2>2, <1>1, <1>6
    <3> QED BY <2>2, <3>2, <3>3, <1>1, <1>2, <1>3, <1>4, <1>7, RoundIsInt
  <2> QED BY <2>1, <2>2
<1>12. PolBacked'
  <2>1. CASE h = Nil
    BY <2>1 DEF PolBacked
  <2>2. CASE h # Nil
    <3>1. Lock(round[n], h).round = round[n] /\ Lock(round[n], h).hash = h /\ h \in Blocks
      BY <2>2 DEF Lock, Hashes
    <3>2. \A m \in Honest : /\ locked'[m] \in {locked[m], Lock(round[n], h)}
                            /\ valid'[m] \in {valid[m], Lock(round[n], h)}
      BY <2>2 DEF TypeOK
    <3> QED BY <2>2, <3>1, <3>2 DEF PolBacked
  <2> QED BY <2>1, <2>2
<1>13. PrevoteJustified'
  <2> SUFFICES ASSUME NEW v \in precommits', NEW w \in prevotes,
                      v.src = w.src, v.round < w.round,
                      v.hash # Nil, w.hash # Nil, v.hash # w.hash
               PROVE  \E r \in Rounds : v.round < r /\ r < w.round /\ HasQuorum(prevotes, r, w.hash)
    BY DEF PrevoteJustified
  <2>1. v # new
    BY <1>2, <1>3, <1>4, RoundIsInt DEF SignedInPast
  <2> QED BY <2>1, <1>1 DEF PrevoteJustified
<1>14. DecidedIsCertified'
  BY <1>5 DEF DecidedIsCertified, Running
<1> QED BY <1>8, <1>9, <1>10, <1>11, <1>12, <1>13, <1>14

\* A later round begins with the same votes and the same lock.
LEMMA RoundStarted ==
    ASSUME Inv, NEW n \in Honest, NEW r \in Rounds, r > round[n], StartRound(n, r), TypeOK'
    PROVE  Inv'
<1> USE DEF Inv
<1>1. \A v \in prevotes \cup precommits : v.src \in Honest /\ v.round \in Rounds
  BY DEF TypeOK, Votes
<1>2. \A m \in Honest : round[m] \in Rounds /\ locked[m] \in Locks
  BY DEF TypeOK
<1>3. /\ round' = [m \in Honest |-> IF m = n THEN r ELSE round[m]]
      /\ step' = [m \in Honest |-> IF m = n THEN "Propose" ELSE step[m]]
      /\ UNCHANGED <<locked, valid, decided, prevotes, precommits>>
  BY DEF StartRound, TypeOK
<1>4. SignedInPast'
  BY <1>1, <1>2, <1>3, RoundIsInt DEF SignedInPast
<1>5. LockCoversPrecommits'
  <2> SUFFICES ASSUME NEW m \in Honest
               PROVE  /\ locked[m].round <= round'[m]
                      /\ locked[m].round = round'[m] => step'[m] = "Precommit"
    BY <1>3 DEF LockCoversPrecommits
  <2>1. locked[m].round \in Int /\ round[m] \in Int /\ locked[m].round <= round[m]
    BY <1>2, RoundIsInt DEF LockCoversPrecommits, Locks, NoRound
  <2> QED BY <2>1, <1>3, RoundIsInt DEF LockCoversPrecommits
<1> QED BY <1>3, <1>4, <1>5
      DEF NoDoubleVote, PrecommitHasPol, PolBacked, PrevoteJustified, DecidedIsCertified, Running

\* The invariant holds at first.
LEMMA InvInit == Init => Inv
<1> SUFFICES ASSUME Init PROVE Inv
  OBVIOUS
<1>1. TypeOK
  BY TypeInit
<1>2. \A n \in Honest : locked[n].round = NoRound /\ valid[n].round = NoRound /\ round[n] = 0
  BY DEF Init, NoLock, Lock
<1>3. LockCoversPrecommits /\ PolBacked
  BY <1>2 DEF Init, LockCoversPrecommits, PolBacked, NoRound
<1> QED BY <1>1, <1>3
      DEF Init, Inv, SignedInPast, NoDoubleVote, PrecommitHasPol, PrevoteJustified,
          DecidedIsCertified, Running

\* Every step keeps the invariant.
LEMMA InvStep == Inv /\ [Next]_vars => Inv'
<1> SUFFICES ASSUME Inv, [Next]_vars PROVE Inv'
  OBVIOUS
<1>0. TypeOK /\ TypeOK'
  BY TypeStep DEF Inv
<1>1. ASSUME NEW n \in Honest, NEW b \in Blocks, Propose(n, b) PROVE Inv'
  <2>1. PICK h \in PrevoteChoices(n, b, valid[n].round) :
           prevotes' = prevotes \cup {Vote(n, round[n], h)}
    BY <1>1 DEF Propose
  <2>2. h \in Hashes /\ (h = Nil \/ MayPrevote(n, h, valid[n].round))
    BY <2>1, ConstantTypes DEF PrevoteChoices
  <2>3. valid[n].round \in Rounds \cup {NoRound}
    BY <1>0 DEF TypeOK, Locks
  <2> QED BY <1>0, <1>1, <2>1, <2>2, <2>3, PrevoteCast DEF Propose
<1>2. ASSUME NEW n \in Honest, NEW r \in Rounds, NEW p \in EnvelopesFor(r), OnProposal(n, p)
      PROVE  Inv'
  <2>1. CASE step[n] = "Propose"
    <3>1. PICK h \in PrevoteChoices(n, p.block, p.valid_round) : CastPrevote(n, h)
      BY <1>2, <2>1 DEF OnProposal
    <3>2. p.block \in Blocks
      BY <1>2, BlockAssumption DEF OnProposal
    <3>3. h \in Hashes /\ (h = Nil \/ MayPrevote(n, h, p.valid_round))
      BY <3>1, <3>2, ConstantTypes DEF PrevoteChoices
    <3>4. p.valid_round \in Rounds \cup {NoRound}
      BY <1>0 DEF EnvelopesFor, Envelopes, TypeOK
    <3>5. prevotes' \in {prevotes, prevotes \cup {Vote(n, round[n], h)}}
      BY <3>1 DEF CastPrevote
    <3> QED BY <1>0, <1>2, <2>1, <3>3, <3>4, <3>5, PrevoteCast DEF OnProposal
  <2>2. CASE step[n] # "Propose"
    BY <1>0, <1>2, <2>2
       DEF OnProposal, Inv, SignedInPast, NoDoubleVote, PrecommitHasPol, LockCoversPrecommits,
           PolBacked, PrevoteJustified, DecidedIsCertified, Running
  <2> QED BY <2>1, <2>2
<1>3. ASSUME NEW n \in Honest, PrevoteNil(n) PROVE Inv'
  <2>1. prevotes' \in {prevotes, prevotes \cup {Vote(n, round[n], Nil)}}
    BY <1>3 DEF PrevoteNil, CastPrevote
  <2> QED BY <1>0, <1>3, <2>1, ConstantTypes, PrevoteCast DEF PrevoteNil
<1>4. ASSUME NEW n \in Honest, OnPrevoteQuorum(n) PROVE Inv'
  <2>1. CASE step[n] = "Prevote"
    <3>1. precommits' \in {precommits, precommits \cup {Vote(n, round[n], body[n])}}
      BY <1>4, <2>1 DEF OnPrevoteQuorum, CastPrecommit
    <3>2. body[n] \in Hashes
      BY <1>0 DEF TypeOK
    <3> QED BY <1>0, <1>4, <2>1, <3>1, <3>2, PrecommitCast DEF OnPrevoteQuorum
  <2>2. CASE step[n] # "Prevote"
    <3>1. UNCHANGED <<round, step, locked, decided, prevotes, precommits>>
      BY <1>4, <2>2 DEF OnPrevoteQuorum
    <3>2. Lock(round[n], body[n]).round = round[n] /\ Lock(round[n], body[n]).hash = body[n]
      BY DEF Lock
    <3>3. \A m \in Honest : valid'[m] \in {valid[m], Lock(round[n], body[n])}
      BY <1>0, <1>4 DEF OnPrevoteQuorum, TypeOK
    <3>4. body[n] \in Blocks /\ HasQuorum(prevotes, round[n], body[n])
      BY <1>0, <1>4 DEF OnPrevoteQuorum, TypeOK, Hashes
    <3>5. PolBacked'
      BY <3>1, <3>2, <3>3, <3>4 DEF PolBacked, Inv
    <3> QED BY <1>0, <3>1, <3>5
          DEF Inv, SignedInPast, NoDoubleVote, PrecommitHasPol, LockCoversPrecommits,
              PrevoteJustified, DecidedIsCertified, Running
  <2> QED BY <2>1, <2>2
<1>5. ASSUME NEW n \in Honest, PrecommitNil(n) PROVE Inv'
  <2>1. precommits' \in {precommits, precommits \cup {Vote(n, round[n], Nil)}}
    BY <1>5 DEF PrecommitNil, CastPrecommit
  <2> QED BY <1>0, <1>5, <2>1, ConstantTypes, PrecommitCast DEF PrecommitNil
<1>6. ASSUME NEW n \in Honest, NextRound(n) PROVE Inv'
  <2>1. round[n] + 1 \in Rounds /\ round[n] + 1 > round[n] /\ StartRound(n, round[n] + 1)
    BY <1>0, <1>6, RoundIsInt DEF NextRound, StartRound, TypeOK
  <2> QED BY <1>0, <2>1, RoundStarted
<1>7. ASSUME NEW n \in Honest, NEW r \in Rounds, RoundSkip(n, r) PROVE Inv'
  BY <1>0, <1>7, RoundStarted DEF RoundSkip
<1>8. ASSUME NEW n \in Honest, NEW r \in Rounds, NEW b \in Blocks, Commit(n, r, b) PROVE Inv'
  <2>1. decided' = [m \in Honest |-> IF m = n THEN b ELSE decided[m]]
    BY <1>0, <1>8 DEF Commit, TypeOK
  <2>2. DecidedIsCertified'
    BY <1>8, <2>1 DEF Commit, Inv, DecidedIsCertified, Running
  <2> QED BY <1>0, <1>8, <2>2
        DEF Commit, Inv, SignedInPast, NoDoubleVote, PrecommitHasPol, LockCoversPrecommits,
            PolBacked, PrevoteJustified
<1>9. CASE UNCHANGED vars
  BY <1>0, <1>9
     DEF vars, Inv, SignedInPast, NoDoubleVote, PrecommitHasPol, LockCoversPrecommits,
         PolBacked, PrevoteJustified, DecidedIsCertified, Running
<1> QED BY <1>1, <1>2, <1>3, <1>4, <1>5, <1>6, <1>7, <1>8, <1>9 DEF Next, NodeStep, Halted

\* Consider the first round after r1 with a POL for another block: its prevotes
\* meet the precommits of r1 in an honest validator, whose prevote was
\* justified by an even earlier POL for that block.
LEMMA InvImpliesFinal == Inv => CertifiedIsFinal
<1> SUFFICES ASSUME Inv, NEW r1 \in Rounds, NEW r2 \in Rounds,
                    NEW b1 \in Blocks, NEW b2 \in Blocks,
                    HasQuorum(precommits, r1, b1), r1 < r2,
                    HasQuorum(prevotes, r2, b2), b1 # b2
             PROVE  FALSE
  BY DEF CertifiedIsFinal
<1> DEFINE S == {r \in Rounds : r1 < r /\ HasQuorum(prevotes, r, b2)}
<1>1. S \subseteq Rounds /\ S # {}
  OBVIOUS
<1>2. PICK m \in S : \A k \in S : m <= k
  BY <1>1, FirstRound
<1>3. PICK n \in Honest : Vote(n, r1, b1) \in precommits /\ Vote(n, m, b2) \in prevotes
  BY <1>2, QuorumIntersection
<1>4. b1 # Nil /\ b2 # Nil
  BY BlockAssumption
<1>5. PICK r \in Rounds : r1 < r /\ r < m /\ HasQuorum(prevotes, r, b2)
  <2> DEFINE v == Vote(n, r1, b1)
             w == Vote(n, m, b2)
  <2>1. /\ v.src = n /\ v.round = r1 /\ v.hash = b1
        /\ w.src = n /\ w.round = m /\ w.hash = b2
    BY DEF Vote
  <2>2. v \in precommits /\ w \in prevotes /\ v.round < w.round
    BY <1>2, <1>3, <2>1
  <2> HIDE DEF v, w
  <2> QED BY <1>4, <2>1, <2>2 DEF Inv, PrevoteJustified
<1>6. r \in S
  BY <1>5
<1> QED BY <1>2, <1>5, <1>6, RoundIsInt

\* Under the invariant, two nodes that decide agree.
LEMMA InvImpliesAgreement == Inv => Agreement
<1> SUFFICES ASSUME Inv, NEW m \in Honest, NEW n \in Honest, ~ Running(m), ~ Running(n)
             PROVE  decided[m] = decided[n]
  BY DEF Agreement
<1>1. decided[m] \in Blocks /\ decided[n] \in Blocks
  BY DEF Running, Inv, TypeOK, Hashes
<1>2. PICK r1 \in Rounds : HasQuorum(precommits, r1, decided[m])
  BY DEF Inv, DecidedIsCertified
<1>3. PICK r2 \in Rounds : HasQuorum(precommits, r2, decided[n])
  BY DEF Inv, DecidedIsCertified
<1>4. \A r \in Rounds, b \in Blocks : HasQuorum(precommits, r, b) => HasQuorum(prevotes, r, b)
  <2> SUFFICES ASSUME NEW r \in Rounds, NEW b \in Blocks, HasQuorum(precommits, r, b)
               PROVE  HasQuorum(prevotes, r, b)
    OBVIOUS
  <2>1. PICK k \in Honest : Vote(k, r, b) \in precommits
    BY HonestVote
  <2>2. Vote(k, r, b).round = r /\ Vote(k, r, b).hash = b /\ b # Nil
    BY BlockAssumption DEF Vote
  <2> QED BY <2>1, <2>2 DEF Inv, PrecommitHasPol
<1>5. CASE r1 = r2
  <2>1. PICK k \in Honest : /\ Vote(k, r1, decided[m]) \in precommits
                            /\ Vote(k, r1, decided[n]) \in precommits
    BY <1>2, <1>3, <1>5, QuorumIntersection
  <2>2. /\ Vote(k, r1, decided[m]).src = k /\ Vote(k, r1, decided[m]).round = r1
        /\ Vote(k, r1, decided[n]).src = k /\ Vote(k, r1, decided[n]).round = r1
        /\ Vote(k, r1, decided[m]).hash = decided[m]
        /\ Vote(k, r1, decided[n]).hash = decided[n]
    BY DEF Vote
  <2> QED BY <2>1, <2>2 DEF Inv, NoDoubleVote
<1>6. CASE r1 < r2
  BY <1>1, <1>2, <1>3, <1>4, <1>6, InvImpliesFinal DEF CertifiedIsFinal
<1>7. CASE r2 < r1
  BY <1>1, <1>2, <1>3, <1>4, <1>7, InvImpliesFinal DEF CertifiedIsFinal
<1> QED BY <1>5, <1>6, <1>7, RoundIsInt

\* The invariant holds throughout.
LEMMA Invariance == Spec => []Inv
<1>1. Init => Inv
  BY InvInit
<1>2. Inv /\ [Next]_vars => Inv'
  BY InvStep
<1> QED BY <1>1, <1>2, PTL DEF Spec

\* No two honest validators commit different blocks at a height (INV-C2), for
\* every N >= 4, every Byzantine set of at most floor((N-1)/3) validators and
\* any number of rounds, as long as no engine is rebuilt within the height.
THEOREM AgreementHolds == Spec => []Agreement
<1>1. Spec => []Inv
  BY Invariance
<1>2. Inv => Agreement
  BY InvImpliesAgreement
<1> QED BY <1>1, <1>2, PTL

\* A block certified in one round excludes a POL for any other block in every
\* later round (INV-C4), even before anybody has seen the certificate.
THEOREM CertifiedIsFinalHolds == Spec => []CertifiedIsFinal
<1>1. Spec => []Inv
  BY Invariance
<1>2. Inv => CertifiedIsFinal
  BY InvImpliesFinal
<1> QED BY <1>1, <1>2, PTL

\* try_advance locks and remembers only blocks with Q prevotes in that round.
THEOREM PolBackedHolds == Spec => []PolBacked
<1>1. Spec => []Inv
  BY Invariance
<1>2. Inv => PolBacked
  BY DEF Inv
<1> QED BY <1>1, <1>2, PTL

\* cast_vote signs one hash per (round, phase) as long as the engine lives
\* (INV-C1); the watermark extends this to rebuilt engines.
THEOREM NoDoubleVoteHolds == Spec => []NoDoubleVote
<1>1. Spec => []Inv
  BY Invariance
<1>2. Inv => NoDoubleVote
  BY DEF Inv
<1> QED BY <1>1, <1>2, PTL

\* Across the rounds of a height a validator turns from a block it precommitted to
\* another only behind a newer POL (prevote_decision's lock and unlock, INV-C4).
THEOREM PrevoteJustifiedHolds == Spec => []PrevoteJustified
<1>1. Spec => []Inv
  BY Invariance
<1>2. Inv => PrevoteJustified
  BY DEF Inv
<1> QED BY <1>1, <1>2, PTL

\* One step keeps honest votes and memory on verified blocks: a vote is for
\* the body, for nil, or re-proposes `valid`.
LEMMA VerifiedStep == HonestVerified /\ [Next]_vars => HonestVerified'
<1> SUFFICES ASSUME HonestVerified, [Next]_vars
             PROVE  HonestVerified'
  OBVIOUS
<1> USE DEF HonestVerified
<1>1. \A n, r, h : Vote(n, r, h).hash = h
  BY DEF Vote
<1>2. \A r, h : Lock(r, h).hash = h
  BY DEF Lock
<1>3. ASSUME NEW n \in Honest, NEW b \in Blocks, Propose(n, b)
      PROVE  HonestVerified'
  <2>1. b \in ValidBlocks \cup {Nil}
    BY <1>3 DEF Propose
  <2>2. PICK h \in {b, Nil} : prevotes' = prevotes \cup {Vote(n, round[n], h)}
    BY <1>3 DEF Propose, PrevoteChoices
  <2> QED BY <1>1, <1>3, <2>1, <2>2 DEF Propose
<1>4. ASSUME NEW n \in Honest, NEW h \in ValidBlocks \cup {Nil}, CastPrevote(n, h)
      PROVE  \A v \in prevotes' : v.hash \in ValidBlocks \cup {Nil}
  BY <1>1, <1>4 DEF CastPrevote
<1>5. ASSUME NEW n \in Honest, NEW h \in ValidBlocks \cup {Nil}, CastPrecommit(n, h)
      PROVE  \A v \in precommits' : v.hash \in ValidBlocks \cup {Nil}
  BY <1>1, <1>5 DEF CastPrecommit
<1>6. ASSUME NEW n \in Honest, NEW p, OnProposal(n, p)
      PROVE  HonestVerified'
  <2>1. p.block \in ValidBlocks /\ precommits' = precommits /\ valid' = valid
        /\ body' = [body EXCEPT ![n] = p.block]
    BY <1>6 DEF OnProposal
  <2>2. \A v \in prevotes' : v.hash \in ValidBlocks \cup {Nil}
    BY <1>4, <1>6, <2>1 DEF OnProposal, PrevoteChoices
  <2> QED BY <2>1, <2>2
<1>7. ASSUME NEW n \in Honest, PrevoteNil(n)
      PROVE  HonestVerified'
  BY <1>4, <1>7 DEF PrevoteNil
<1>8. ASSUME NEW n \in Honest, OnPrevoteQuorum(n)
      PROVE  HonestVerified'
  <2>1. \A v \in precommits' : v.hash \in ValidBlocks \cup {Nil}
    BY <1>5, <1>8 DEF OnPrevoteQuorum
  <2> QED BY <1>2, <1>8, <2>1 DEF OnPrevoteQuorum
<1>9. ASSUME NEW n \in Honest, PrecommitNil(n)
      PROVE  HonestVerified'
  BY <1>5, <1>9 DEF PrecommitNil
<1>10. ASSUME NEW n \in Honest, NEW r, StartRound(n, r)
       PROVE  HonestVerified'
  BY <1>10 DEF StartRound
<1>11. ASSUME NEW n \in Honest, NEW r, NEW b, Commit(n, r, b)
       PROVE  HonestVerified'
  BY <1>11 DEF Commit
<1>12. CASE UNCHANGED vars
  BY <1>12 DEF vars
<1> QED BY <1>3, <1>6, <1>7, <1>8, <1>9, <1>10, <1>11, <1>12
        DEF Next, NodeStep, NextRound, RoundSkip, Halted

\* No POL and no certificate forms for a block that does not execute to its
\* state_root, although up to f validators vote for anything: every quorum
\* holds an honest vote, and honest votes are for verified bodies.
THEOREM CertifiedIsVerifiedHolds == Spec => []CertifiedIsVerified
<1>1. Init => HonestVerified
  BY DEF Init, HonestVerified, NoLock, Lock
<1>2. HonestVerified /\ [Next]_vars => HonestVerified'
  BY VerifiedStep
<1>3. HonestVerified => CertifiedIsVerified
  <2> SUFFICES ASSUME HonestVerified, NEW r \in Rounds, NEW b \in Blocks,
                      HasQuorum(prevotes, r, b) \/ HasQuorum(precommits, r, b)
               PROVE  b \in ValidBlocks
    BY DEF CertifiedIsVerified
  <2>1. PICK n \in Honest : Vote(n, r, b) \in prevotes \cup precommits
    BY HonestVote
  <2>2. Vote(n, r, b).hash = b
    BY DEF Vote
  <2> QED BY <2>1, <2>2, BlockAssumption DEF HonestVerified
<1> QED BY <1>1, <1>2, <1>3, PTL DEF Spec

-----------------------------------------------------------------------------
(* Engines that are rebuilt. *)

RestartInv == TypeOK /\ rebuilds \in Nat /\ WatermarkCovers /\ NoDoubleVote

\* At first no vote is signed and no watermark is set.
LEMMA RestartInvInit == RestartInit => RestartInv
BY TypeInit DEF RestartInit, Init, RestartInv, WatermarkCovers, NoDoubleVote

\* What a watermark holds.
LEMMA MarkFields ==
    \A r, s, h : Mark(r, s, h).round = r /\ Mark(r, s, h).step = s /\ Mark(r, s, h).hash = h
BY DEF Mark

\* A vote is signed only above the watermark, or again as the watermark: any
\* vote of the same round and phase signed before has the same hash.
LEMMA AllowExcludes ==
    ASSUME TypeOK, NEW n \in Honest, NEW r \in Rounds, NEW s \in {1, 2}, NEW g, NEW h,
           Covered(signed[n], r, s, g), Allow(n, r, s, h)
    PROVE  g = h
<1>1. signed[n].round \in Int /\ signed[n].step \in Int
  BY RoundIsInt DEF TypeOK, Marks, NoRound
<1>2. signed[n] = Mark(r, s, g)
  BY <1>1, RoundIsInt, MarkFields DEF Covered, Allow
<1>3. signed[n] = Mark(r, s, h)
  BY <1>1, <1>2, RoundIsInt, MarkFields DEF Allow
<1> QED
  <2>1. Mark(r, s, g).hash = Mark(r, s, h).hash
    BY <1>2, <1>3
  <2> QED BY <2>1, MarkFields

\* Raising the watermark keeps everything it covered.
LEMMA CoverGrows ==
    ASSUME TypeOK, NEW n \in Honest, NEW r \in Rounds, NEW s \in {1, 2}, NEW h,
           Allow(n, r, s, h), signed' = [signed EXCEPT ![n] = Mark(r, s, h)],
           NEW m \in Honest, NEW q \in Rounds, NEW t \in {1, 2}, NEW g, Covered(signed[m], q, t, g)
    PROVE  Covered(signed'[m], q, t, g)
<1>1. signed' = [k \in Honest |-> IF k = n THEN Mark(r, s, h) ELSE signed[k]]
  BY DEF TypeOK
<1>4. signed[m].round \in Int /\ signed[m].step \in Int
  BY RoundIsInt DEF TypeOK, Marks, NoRound
<1>2. CASE m # n
  BY <1>1, <1>2 DEF Covered
<1>3. CASE m = n
  <2>1. signed'[m] = Mark(r, s, h)
    BY <1>1, <1>3
  <2>2. \/ r > q
        \/ r = q /\ s > t
        \/ Mark(r, s, h) = Mark(q, t, g)
    BY <1>3, <1>4, RoundIsInt, MarkFields DEF Covered, Allow
  <2> QED BY <2>1, <2>2, MarkFields DEF Covered
<1> QED BY <1>2, <1>3

\* One prevote signed under allow().
LEMMA PrevoteKeeps ==
    ASSUME RestartInv, NEW n \in Honest, NEW h \in Hashes,
           Allow(n, round[n], 1, h),
           prevotes' = prevotes \cup {Vote(n, round[n], h)},
           signed' = [signed EXCEPT ![n] = Mark(round[n], 1, h)],
           UNCHANGED precommits
    PROVE  WatermarkCovers' /\ NoDoubleVote'
<1> USE DEF RestartInv
<1> DEFINE new == Vote(n, round[n], h)
<1>1. new.src = n /\ new.round = round[n] /\ new.hash = h
  BY DEF Vote
<1>2. \A v \in prevotes \cup precommits : v.src \in Honest /\ v.round \in Rounds
  BY DEF TypeOK, Votes
<1>3. round[n] \in Rounds
  BY DEF TypeOK
<1>4. Covered(signed'[n], round[n], 1, h)
  BY DEF Covered, TypeOK
<1>5. \A v \in prevotes : Covered(signed'[v.src], v.round, 1, v.hash)
  BY <1>2, <1>3, CoverGrows DEF WatermarkCovers
<1>6. \A v \in precommits : Covered(signed'[v.src], v.round, 2, v.hash)
  BY <1>2, <1>3, CoverGrows DEF WatermarkCovers
<1>7. \A v \in prevotes : v.src = n /\ v.round = round[n] => v.hash = h
  BY <1>2, <1>3, AllowExcludes DEF WatermarkCovers
<1> HIDE DEF new
<1>8. \A v \in prevotes' : v \in prevotes \/ v = new
  BY DEF new
<1>9. WatermarkCovers'
  <2>1. \A v \in prevotes' : Covered(signed'[v.src], v.round, 1, v.hash)
    BY <1>1, <1>4, <1>5, <1>8
  <2> QED BY <2>1, <1>6 DEF WatermarkCovers
<1>10. NoDoubleVote'
  BY <1>1, <1>7, <1>8 DEF NoDoubleVote
<1> QED BY <1>9, <1>10

\* One precommit signed under allow().
LEMMA PrecommitKeeps ==
    ASSUME RestartInv, NEW n \in Honest, NEW h \in Hashes,
           Allow(n, round[n], 2, h),
           precommits' = precommits \cup {Vote(n, round[n], h)},
           signed' = [signed EXCEPT ![n] = Mark(round[n], 2, h)],
           UNCHANGED prevotes
    PROVE  WatermarkCovers' /\ NoDoubleVote'
<1> USE DEF RestartInv
<1> DEFINE new == Vote(n, round[n], h)
<1>1. new.src = n /\ new.round = round[n] /\ new.hash = h
  BY DEF Vote
<1>2. \A v \in prevotes \cup precommits : v.src \in Honest /\ v.round \in Rounds
  BY DEF TypeOK, Votes
<1>3. round[n] \in Rounds
  BY DEF TypeOK
<1>4. Covered(signed'[n], round[n], 2, h)
  BY DEF Covered, TypeOK
<1>5. \A v \in prevotes : Covered(signed'[v.src], v.round, 1, v.hash)
  BY <1>2, <1>3, CoverGrows DEF WatermarkCovers
<1>6. \A v \in precommits : Covered(signed'[v.src], v.round, 2, v.hash)
  BY <1>2, <1>3, CoverGrows DEF WatermarkCovers
<1>7. \A v \in precommits : v.src = n /\ v.round = round[n] => v.hash = h
  BY <1>2, <1>3, AllowExcludes DEF WatermarkCovers
<1> HIDE DEF new
<1>8. \A v \in precommits' : v \in precommits \/ v = new
  BY DEF new
<1>9. WatermarkCovers'
  <2>1. \A v \in precommits' : Covered(signed'[v.src], v.round, 2, v.hash)
    BY <1>1, <1>4, <1>6, <1>8
  <2> QED BY <2>1, <1>5 DEF WatermarkCovers
<1>10. NoDoubleVote'
  BY <1>1, <1>7, <1>8 DEF NoDoubleVote
<1> QED BY <1>9, <1>10

\* Steps that sign nothing.
LEMMA NothingSigned ==
    ASSUME RestartInv, UNCHANGED <<signed, prevotes, precommits>>
    PROVE  WatermarkCovers' /\ NoDoubleVote'
BY DEF RestartInv, WatermarkCovers, NoDoubleVote, Covered

\* Every step, a crash and a restart among them, keeps the invariant.
LEMMA RestartInvStep == RestartInv /\ [RestartNext]_restartVars => RestartInv'
<1> SUFFICES ASSUME RestartInv, [RestartNext]_restartVars PROVE RestartInv'
  OBVIOUS
<1>0. TypeOK /\ rebuilds \in Nat
  BY DEF RestartInv
<1>1. CASE Next /\ UNCHANGED rebuilds
  <2>0. TypeOK'
    BY <1>0, <1>1, TypeStep
  <2> SUFFICES WatermarkCovers' /\ NoDoubleVote'
    BY <1>0, <1>1, <2>0 DEF RestartInv
  <2>1. ASSUME NEW n \in Honest, NEW b \in Blocks, Propose(n, b)
        PROVE  WatermarkCovers' /\ NoDoubleVote'
    <3>1. PICK h \in PrevoteChoices(n, b, valid[n].round) :
             /\ prevotes' = prevotes \cup {Vote(n, round[n], h)}
             /\ signed' = [signed EXCEPT ![n] = Mark(round[n], 1, h)]
      BY <2>1 DEF Propose
    <3>2. h \in Hashes
      BY ConstantTypes DEF PrevoteChoices
    <3>3. Allow(n, round[n], 1, h)
      <4>1. signed[n].round \in Int /\ signed[n].step \in Int /\ round[n] \in Int
        BY <1>0, RoundIsInt DEF TypeOK, Marks, NoRound
      <4>2. Allow(n, round[n], 0, b)
        BY <2>1 DEF Propose
      <4>3. \/ signed[n].round < round[n]
            \/ signed[n].round = round[n] /\ signed[n].step < 1
        BY <4>1, <4>2, MarkFields DEF Allow
      <4> QED BY <4>3 DEF Allow
    <3> QED BY <2>1, <3>1, <3>2, <3>3, PrevoteKeeps DEF Propose
  <2>2. ASSUME NEW n \in Honest, NEW r \in Rounds, NEW p \in EnvelopesFor(r), OnProposal(n, p)
        PROVE  WatermarkCovers' /\ NoDoubleVote'
    <3>1. CASE step[n] = "Propose"
      <4>1. PICK h \in PrevoteChoices(n, p.block, p.valid_round) : CastPrevote(n, h)
        BY <2>2, <3>1 DEF OnProposal
      <4>2. h \in Hashes
        BY <2>2, ConstantTypes DEF PrevoteChoices, OnProposal
      <4>3. UNCHANGED precommits
        BY <2>2 DEF OnProposal
      <4> QED BY <4>1, <4>2, <4>3, PrevoteKeeps, NothingSigned DEF CastPrevote
    <3>2. CASE step[n] # "Propose"
      BY <2>2, <3>2, NothingSigned DEF OnProposal
    <3> QED BY <3>1, <3>2
  <2>3. ASSUME NEW n \in Honest, PrevoteNil(n) PROVE WatermarkCovers' /\ NoDoubleVote'
    BY <2>3, ConstantTypes, PrevoteKeeps, NothingSigned DEF PrevoteNil, CastPrevote
  <2>4. ASSUME NEW n \in Honest, OnPrevoteQuorum(n) PROVE WatermarkCovers' /\ NoDoubleVote'
    <3>1. body[n] \in Hashes
      BY <1>0 DEF TypeOK
    <3> QED BY <2>4, <3>1, PrecommitKeeps, NothingSigned DEF OnPrevoteQuorum, CastPrecommit
  <2>5. ASSUME NEW n \in Honest, PrecommitNil(n) PROVE WatermarkCovers' /\ NoDoubleVote'
    BY <2>5, ConstantTypes, PrecommitKeeps, NothingSigned DEF PrecommitNil, CastPrecommit
  <2>6. ASSUME NEW n \in Honest, NextRound(n) \/ \E r \in Rounds : RoundSkip(n, r)
        PROVE  WatermarkCovers' /\ NoDoubleVote'
    BY <2>6, NothingSigned DEF NextRound, RoundSkip, StartRound
  <2>7. ASSUME NEW n \in Honest, NEW r \in Rounds, NEW b \in Blocks, Commit(n, r, b)
        PROVE  WatermarkCovers' /\ NoDoubleVote'
    BY <2>7, NothingSigned DEF Commit
  <2>8. CASE Halted
    BY <2>8, NothingSigned DEF Halted, vars
  <2> QED BY <1>1, <2>1, <2>2, <2>3, <2>4, <2>5, <2>6, <2>7, <2>8 DEF Next, NodeStep
<1>2. ASSUME NEW n \in Honest, Rebuild(n) PROVE RestartInv'
  <2>1. TypeOK' /\ rebuilds' \in Nat
    BY <1>0, <1>2, ConstantTypes DEF Rebuild, TypeOK
  <2> QED BY <1>2, <2>1, NothingSigned DEF Rebuild, RestartInv
<1>3. CASE UNCHANGED restartVars
  <2>1. UNCHANGED vars /\ UNCHANGED rebuilds
    BY <1>3 DEF restartVars
  <2>2. TypeOK'
    BY <1>0, <2>1, TypeStep
  <2> QED BY <2>1, <2>2, NothingSigned DEF RestartInv, vars
<1> QED BY <1>1, <1>2, <1>3 DEF RestartNext

\* The invariant holds throughout, whatever restarts.
LEMMA RestartInvariance == RestartSpec => []RestartInv
<1>1. RestartInit => RestartInv
  BY RestartInvInit
<1>2. RestartInv /\ [RestartNext]_restartVars => RestartInv'
  BY RestartInvStep
<1> QED BY <1>1, <1>2, PTL DEF RestartSpec

\* However often engines are rebuilt, no validator ever signs two hashes for
\* one (round, phase): DoubleSignProtector does what its comment promises.
THEOREM NoDoubleVoteAcrossRestarts == RestartSpec => []NoDoubleVote
<1>1. RestartInv => NoDoubleVote
  BY DEF RestartInv
<1> QED BY <1>1, RestartInvariance, PTL

\* Every vote on the wire lies under the watermark its validator persisted.
THEOREM WatermarkCoversHolds == RestartSpec => []WatermarkCovers
<1>1. RestartInv => WatermarkCovers
  BY DEF RestartInv
<1> QED BY <1>1, RestartInvariance, PTL

=============================================================================
