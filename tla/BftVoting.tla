------------------------------ MODULE BftVoting ------------------------------
(***************************************************************************)
(* ZagrosBFT voting at one height, as zagros-consensus/src/engine.rs runs  *)
(* it on every validator: proposal, PREVOTE, PRECOMMIT, the lock and its   *)
(* release by a newer POL, view changes and the commit on a quorum         *)
(* certificate.                                                            *)
(*                                                                         *)
(* Delivery is abstracted: a validator acts on any subset of the votes     *)
(* ever sent, so loss, delay, duplication and reordering are the choice of *)
(* which enabled action happens and when.  A timer may fire at any moment  *)
(* of the step it belongs to.  Byzantine validators need no actions: every *)
(* vote and every proposal they can sign is available from the start.      *)
(* One handler of the engine that crosses several thresholds at once is a  *)
(* run of consecutive steps of that validator here; module BftEngine keeps *)
(* the handlers whole.                                                     *)
(***************************************************************************)
EXTENDS Integers, FiniteSets

CONSTANTS
    N,            \* size of the active validator set V_e
    Height,       \* the height being decided (enters the proposer rotation)
    Byzantine,    \* indices of the validators that may sign anything
    Blocks,       \* header hashes that can be proposed
    ValidBlocks,  \* those whose simulation gives the header's state_root
    MaxRound,     \* bound: no round above it is started
    Nil           \* NIL_HASH

Validators == 0 .. (N - 1)
Honest == Validators \ Byzantine
Rounds == 0 .. MaxRound
NoRound == -1
Hashes == Blocks \cup {Nil}

\* Mutant: Q rounded down instead of floor(2N/3) + 1.
QuorumRoundedDown == (2 * N) \div 3

\* quorum_of: Q = floor(2N/3) + 1, and the f the protocol tolerates.
Quorum == (2 * N) \div 3 + 1
Tolerance == (N - 1) \div 3

\* MIN_VALIDATORS = 4: quorum_of refuses a smaller set.
ASSUME SizeAssumption == N \in Nat /\ N >= 4 /\ Height \in Nat /\ MaxRound \in Nat
ASSUME FaultAssumption == Byzantine \subseteq Validators /\ Cardinality(Byzantine) <= Tolerance
ASSUME BlockAssumption == ValidBlocks \subseteq Blocks /\ Nil \notin Blocks

\* MAX_LOOKAHEAD_ROUNDS
Lookahead == 16

VARIABLES
    round,       \* BftEngine.round
    step,        \* BftEngine.step
    body,        \* hash of proposals[round], Nil when there is none
    locked,      \* BftEngine.locked, round = NoRound for None
    valid,       \* BftEngine.valid, round = NoRound for None
    decided,     \* the block this validator committed at Height, or Nil
    signed,      \* DoubleSignProtector.highest
    proposals,   \* envelopes broadcast by honest proposers
    prevotes,    \* PREVOTEs broadcast by honest validators
    precommits   \* PRECOMMITs broadcast by honest validators

vars == <<round, step, body, locked, valid, decided, signed,
          proposals, prevotes, precommits>>

Lock(r, h) == [round |-> r, hash |-> h]
NoLock == Lock(NoRound, Nil)
Locks == [round : Rounds \cup {NoRound}, hash : Hashes]

Vote(n, r, h) == [src |-> n, round |-> r, hash |-> h]
Votes == [src : Honest, round : Rounds, hash : Hashes]

Envelope(r, b, vr) == [round |-> r, block |-> b, valid_round |-> vr]
Envelopes == [round : Rounds, block : Blocks, valid_round : Rounds \cup {NoRound}]

\* proposer_for(h, r) = (h + r) mod N
Proposer(r) == (Height + r) % N

-----------------------------------------------------------------------------
(* Counting.  A Byzantine validator can complete any quorum.               *)

Voters(votes, r, h) == {n \in Honest : Vote(n, r, h) \in votes} \cup Byzantine

\* quorum_value and has_quorum_prevotes: Q votes of one round for one hash.
HasQuorum(votes, r, h) == Cardinality(Voters(votes, r, h)) >= Quorum

\* distinct_voters_at: whoever voted in round r, in either phase.
VotersAt(r) ==
    {n \in Honest : \E v \in prevotes \cup precommits : v.src = n /\ v.round = r}
    \cup Byzantine

-----------------------------------------------------------------------------
(* DoubleSignProtector::allow: (round, step) must exceed the watermark, or *)
(* equal it with the same hash.  Steps: 0 propose, 1 prevote, 2 precommit. *)

Mark(r, s, h) == [round |-> r, step |-> s, hash |-> h]
NoMark == Mark(NoRound, 0, Nil)
Marks == [round : Rounds \cup {NoRound}, step : 0 .. 2, hash : Hashes]

\* Mutant: an equal (round, step) passes with any hash.
AllowEqualStep(n, r, s, h) ==
    signed[n].round < r \/ (signed[n].round = r /\ signed[n].step <= s)

Allow(n, r, s, h) ==
    \/ signed[n].round < r
    \/ signed[n].round = r /\ signed[n].step < s
    \/ signed[n] = Mark(r, s, h)

\* cast_vote: a vote the watermark refuses is not signed; the step moves on.
CastPrevote(n, h) ==
    \/ /\ Allow(n, round[n], 1, h)
       /\ prevotes' = prevotes \cup {Vote(n, round[n], h)}
       /\ signed' = [signed EXCEPT ![n] = Mark(round[n], 1, h)]
    \/ /\ ~ Allow(n, round[n], 1, h)
       /\ UNCHANGED <<prevotes, signed>>

CastPrecommit(n, h) ==
    \/ /\ Allow(n, round[n], 2, h)
       /\ precommits' = precommits \cup {Vote(n, round[n], h)}
       /\ signed' = [signed EXCEPT ![n] = Mark(round[n], 2, h)]
    \/ /\ ~ Allow(n, round[n], 2, h)
       /\ UNCHANGED <<precommits, signed>>

-----------------------------------------------------------------------------
Init ==
    /\ round = [n \in Honest |-> 0]
    /\ step = [n \in Honest |-> "Propose"]
    /\ body = [n \in Honest |-> Nil]
    /\ locked = [n \in Honest |-> NoLock]
    /\ valid = [n \in Honest |-> NoLock]
    /\ decided = [n \in Honest |-> Nil]
    /\ signed = [n \in Honest |-> NoMark]
    /\ proposals = {}
    /\ prevotes = {}
    /\ precommits = {}

\* commit() ends the height for this validator: later messages are dropped.
Running(n) == decided[n] = Nil

\* Mutant: the lock is ignored.
MayPrevoteUnlocked(n, b, vr) == TRUE

\* Mutant: any POL releases the lock, also one older than it.
MayPrevoteOlderPol(n, b, vr) ==
    \/ locked[n].round = NoRound
    \/ locked[n].hash = b
    \/ vr >= 0 /\ vr < round[n] /\ HasQuorum(prevotes, vr, b)

\* INV-C4: a locked validator prevotes another block only on a POL of a round
\* after its lock.
MayPrevote(n, b, vr) ==
    \/ locked[n].round = NoRound
    \/ locked[n].hash = b
    \/ vr > locked[n].round /\ vr < round[n] /\ HasQuorum(prevotes, vr, b)

\* A validator that has not received the POL's prevotes prevotes nil.
MustPrevote(n, b) == locked[n].round = NoRound \/ locked[n].hash = b

PrevoteChoices(n, b, vr) ==
    {h \in {b, Nil} : IF h = b THEN MayPrevote(n, b, vr) ELSE ~ MustPrevote(n, b)}

\* The envelopes a validator can receive for round r: the honest proposer's,
\* or anything when the proposer of r is Byzantine.
EnvelopesFor(r) ==
    {p \in IF Proposer(r) \in Byzantine THEN Envelopes ELSE proposals : p.round = r}

\* propose(): re-propose `valid` with its POL round, else a fresh block; the
\* proposer accepts and prevotes its own envelope in the same call.
Propose(n, b) ==
    /\ Running(n) /\ n = Proposer(round[n]) /\ step[n] = "Propose" /\ body[n] = Nil
    /\ IF valid[n].round # NoRound THEN b = valid[n].hash ELSE b \in ValidBlocks
    /\ Allow(n, round[n], 0, b)
    /\ proposals' = proposals \cup {Envelope(round[n], b, valid[n].round)}
    /\ body' = [body EXCEPT ![n] = b]
    /\ step' = [step EXCEPT ![n] = "Prevote"]
    /\ \E h \in PrevoteChoices(n, b, valid[n].round) :
          /\ prevotes' = prevotes \cup {Vote(n, round[n], h)}
          /\ signed' = [signed EXCEPT ![n] = Mark(round[n], 1, h)]
    /\ UNCHANGED <<round, locked, valid, decided, precommits>>

\* on_proposal in the envelope's own round, check_proposal succeeding.  The
\* body is stored in every step; only the Propose step votes.
OnProposal(n, p) ==
    /\ Running(n) /\ body[n] = Nil /\ p \in EnvelopesFor(round[n])
    /\ p.block \in ValidBlocks /\ p.valid_round < p.round
    /\ body' = [body EXCEPT ![n] = p.block]
    /\ \/ /\ step[n] = "Propose"
          /\ step' = [step EXCEPT ![n] = "Prevote"]
          /\ \E h \in PrevoteChoices(n, p.block, p.valid_round) : CastPrevote(n, h)
       \/ /\ step[n] # "Propose"
          /\ UNCHANGED <<step, prevotes, signed>>
    /\ UNCHANGED <<round, locked, valid, decided, proposals, precommits>>

\* The propose timer fired, or check_proposal failed (a wrong state_root, a
\* timestamp ahead of this validator's clock): PREVOTE(nil).
PrevoteNil(n) ==
    /\ Running(n) /\ step[n] = "Propose"
    /\ step' = [step EXCEPT ![n] = "Prevote"]
    /\ CastPrevote(n, Nil)
    /\ UNCHANGED <<round, body, locked, valid, decided, proposals, precommits>>

\* Mutant: prevotes are counted per round, not per hash.
OnPrevoteQuorumAnyHash(n) ==
    /\ Running(n) /\ step[n] = "Prevote" /\ body[n] # Nil
    /\ Cardinality(UNION {Voters(prevotes, round[n], h) : h \in Hashes}) >= Quorum
    /\ valid' = [valid EXCEPT ![n] = Lock(round[n], body[n])]
    /\ locked' = [locked EXCEPT ![n] = Lock(round[n], body[n])]
    /\ step' = [step EXCEPT ![n] = "Precommit"]
    /\ CastPrecommit(n, body[n])
    /\ UNCHANGED <<round, body, decided, proposals, prevotes>>

\* try_advance on Q prevotes for the block whose body is here: remember it as
\* `valid`; in the Prevote step also lock it and PRECOMMIT it.
OnPrevoteQuorum(n) ==
    /\ Running(n) /\ step[n] # "Propose" /\ body[n] # Nil
    /\ HasQuorum(prevotes, round[n], body[n])
    /\ valid' = [valid EXCEPT ![n] = Lock(round[n], body[n])]
    /\ \/ /\ step[n] = "Prevote"
          /\ locked' = [locked EXCEPT ![n] = Lock(round[n], body[n])]
          /\ step' = [step EXCEPT ![n] = "Precommit"]
          /\ CastPrecommit(n, body[n])
       \/ /\ step[n] = "Precommit"
          /\ UNCHANGED <<locked, step, precommits, signed>>
    /\ UNCHANGED <<round, body, decided, proposals, prevotes>>

\* The prevote timer fired, or Q validators prevoted nil: PRECOMMIT(nil).
PrecommitNil(n) ==
    /\ Running(n) /\ step[n] = "Prevote"
    /\ step' = [step EXCEPT ![n] = "Precommit"]
    /\ CastPrecommit(n, Nil)
    /\ UNCHANGED <<round, body, locked, valid, decided, proposals, prevotes>>

\* start_round keeps the lock and `valid`.
StartRound(n, r) ==
    /\ r \in Rounds
    /\ round' = [round EXCEPT ![n] = r]
    /\ step' = [step EXCEPT ![n] = "Propose"]
    /\ body' = [body EXCEPT ![n] = Nil]
    /\ UNCHANGED <<locked, valid, decided, signed, proposals, prevotes, precommits>>

\* The precommit timer fired, or Q validators precommitted nil.
NextRound(n) ==
    /\ Running(n) /\ step[n] = "Precommit"
    /\ StartRound(n, round[n] + 1)

\* on_vote: f+1 distinct voters in a later round.
RoundSkip(n, r) ==
    /\ Running(n) /\ r > round[n] /\ r <= round[n] + Lookahead
    /\ Cardinality(VotersAt(r)) > Tolerance
    /\ StartRound(n, r)

\* commit(): Q precommits of any round for a block whose body verified.
Commit(n, r, b) ==
    /\ Running(n) /\ b \in ValidBlocks
    /\ HasQuorum(precommits, r, b)
    /\ decided' = [decided EXCEPT ![n] = b]
    /\ UNCHANGED <<round, step, body, locked, valid, signed,
                   proposals, prevotes, precommits>>

\* Every validator has committed or waits to leave the last modelled round.
Halted ==
    /\ \A n \in Honest : ~ Running(n) \/ (round[n] = MaxRound /\ step[n] = "Precommit")
    /\ UNCHANGED vars

NodeStep(n) ==
    \/ \E b \in Blocks : Propose(n, b)
    \/ \E r \in Rounds : \E p \in EnvelopesFor(r) : OnProposal(n, p)
    \/ PrevoteNil(n)
    \/ OnPrevoteQuorum(n)
    \/ PrecommitNil(n)
    \/ NextRound(n)
    \/ \E r \in Rounds : RoundSkip(n, r)
    \/ \E r \in Rounds, b \in Blocks : Commit(n, r, b)

Next == (\E n \in Honest : NodeStep(n)) \/ Halted

Spec == Init /\ [][Next]_vars

-----------------------------------------------------------------------------
TypeOK ==
    /\ round \in [Honest -> Rounds]
    /\ step \in [Honest -> {"Propose", "Prevote", "Precommit"}]
    /\ body \in [Honest -> Hashes]
    /\ locked \in [Honest -> Locks]
    /\ valid \in [Honest -> Locks]
    /\ decided \in [Honest -> Hashes]
    /\ signed \in [Honest -> Marks]
    /\ proposals \subseteq Envelopes
    /\ prevotes \subseteq Votes
    /\ precommits \subseteq Votes

\* Two honest validators never commit different blocks at one height, however
\* votes, timers and round skips interleave (README: a finalised block is
\* final, there is no reorganisation; INV-C2).
Agreement ==
    \A m, n \in Honest : Running(m) \/ Running(n) \/ decided[m] = decided[n]

\* Once a quorum certificate for b can be formed in some round, no later round
\* can gather a POL for another block: the lock kept by start_round protects
\* even certificates nobody has assembled yet (INV-C4).
CertifiedIsFinal ==
    \A r1, r2 \in Rounds, b1, b2 \in Blocks :
        /\ HasQuorum(precommits, r1, b1)
        /\ r1 < r2
        /\ HasQuorum(prevotes, r2, b2)
        => b1 = b2

\* `valid` and `locked` always stand on a quorum of prevotes of their round, so
\* an honest re-proposal carries a valid_round every peer can check.
PolBacked ==
    \A n \in Honest : \A l \in {locked[n], valid[n]} :
        l.round # NoRound => l.hash \in Blocks /\ HasQuorum(prevotes, l.round, l.hash)

\* No POL, and hence no certificate, can form for a block whose simulation
\* does not give its state_root, even when a Byzantine proposer pushes it
\* through several rounds with a valid_round: a node that holds the
\* certificate but not the body can rely on a body that executes.
CertifiedIsVerified ==
    \A r \in Rounds, b \in Blocks :
        HasQuorum(prevotes, r, b) \/ HasQuorum(precommits, r, b) => b \in ValidBlocks

-----------------------------------------------------------------------------
(* The inductive invariant behind Agreement.  Every part is about what one *)
(* honest validator has already signed and what it still remembers of it.  *)

\* Nothing is signed for a step the engine has not reached.
SignedInPast ==
    /\ \A v \in prevotes :
          v.round < round[v.src] \/ (v.round = round[v.src] /\ step[v.src] # "Propose")
    /\ \A v \in precommits :
          v.round < round[v.src] \/ (v.round = round[v.src] /\ step[v.src] = "Precommit")

\* INV-C1: one vote per (round, phase), so an honest validator never hands its
\* peers the pair of votes that DoubleVote evidence is made of.
NoDoubleVote ==
    \A votes \in {prevotes, precommits} : \A v, w \in votes :
        v.src = w.src /\ v.round = w.round => v.hash = w.hash

\* A block is precommitted only on a POL of the same round.
PrecommitHasPol ==
    \A v \in precommits : v.hash # Nil => HasQuorum(prevotes, v.round, v.hash)

\* The lock remembers the latest block precommitted, and no round beyond it.
LockCoversPrecommits ==
    \A n \in Honest :
        /\ locked[n].round <= round[n]
        /\ locked[n].round = round[n] => step[n] = "Precommit"
        /\ \A v \in precommits : v.src = n /\ v.hash # Nil =>
              /\ v.round <= locked[n].round
              /\ v.round = locked[n].round => v.hash = locked[n].hash

\* INV-C4 over the whole history: whoever precommitted one block and later
\* prevoted another did so after a POL for the second formed in between.
PrevoteJustified ==
    \A v \in precommits, w \in prevotes :
        /\ v.src = w.src
        /\ v.round < w.round
        /\ v.hash # Nil /\ w.hash # Nil /\ v.hash # w.hash
        => \E r \in Rounds : v.round < r /\ r < w.round /\ HasQuorum(prevotes, r, w.hash)

\* INV-C3: nothing is committed without a quorum of precommits.
DecidedIsCertified ==
    \A n \in Honest : ~ Running(n) => \E r \in Rounds : HasQuorum(precommits, r, decided[n])

\* What honest validators vote for and remember has been verified.
HonestVerified ==
    /\ \A v \in prevotes \cup precommits : v.hash \in ValidBlocks \cup {Nil}
    /\ \A n \in Honest :
          body[n] \in ValidBlocks \cup {Nil} /\ valid[n].hash \in ValidBlocks \cup {Nil}

Inv ==
    /\ TypeOK
    /\ SignedInPast
    /\ NoDoubleVote
    /\ PrecommitHasPol
    /\ LockCoversPrecommits
    /\ PolBacked
    /\ PrevoteJustified
    /\ DecidedIsCertified

=============================================================================
