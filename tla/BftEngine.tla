------------------------------ MODULE BftEngine ------------------------------
(***************************************************************************)
(* One BftEngine (zagros-consensus/src/engine.rs) at one height, with its  *)
(* handlers kept whole: a vote that completes a quorum makes the engine    *)
(* vote, count its own vote, advance again, and possibly change round or   *)
(* commit before the handler returns.  try_advance, cast_vote, on_vote,    *)
(* on_proposal and start_round call one another, so they are recursive     *)
(* operators on the engine's state, a record.                              *)
(*                                                                         *)
(* The peers and the host are the environment: they deliver proposals and  *)
(* votes in any order, duplicate them, or keep silent.  Absolute times are *)
(* abstracted to which timers are armed and which of them have expired     *)
(* when the host ticks.                                                    *)
(***************************************************************************)
EXTENDS Integers, FiniteSets, FiniteSetsExt, Sequences, SequencesExt

CONSTANTS
    Validators,    \* the active set
    Me,            \* this engine's validator
    MyRounds,      \* the rounds it proposes in (is_proposer)
    Blocks,        \* header hashes
    ValidBlocks,   \* those whose body simulates to the header's state_root
    HeaderRound,   \* the round stamped in each block's header
    Nil,           \* NIL_HASH
    None,          \* Rust's None
    GraceOn,       \* qc_grace_ms > 0
    MaxRound,      \* bound: no round above it is started
    MaxMessages,   \* bound: messages that make a difference
    MaxRebuilds,   \* bound: engines rebuilt at this height
    MaxBuffered,   \* MAX_BUFFERED_PER_HEIGHT
    Lookahead      \* MAX_LOOKAHEAD_ROUNDS

N == Cardinality(Validators)
Peers == Validators \ {Me}
Rounds == 0 .. MaxRound
Hashes == Blocks \cup {Nil}
Quorum == (2 * N) \div 3 + 1
Tolerance == (N - 1) \div 3

ASSUME EngineAssumption ==
    /\ IsFiniteSet(Validators) /\ N >= 4 /\ Me \in Validators /\ MyRounds \subseteq Rounds
    /\ ValidBlocks \subseteq Blocks /\ Nil \notin Blocks /\ None \notin Hashes
    /\ HeaderRound \in [Blocks -> Nat]

VARIABLES
    eng,        \* the BftEngine
    buffered,   \* BftEngine.buffered for this height
    messages,   \* how many messages were not simply dropped
    rebuilds    \* how many times the engine was rebuilt

vars == <<eng, buffered, messages, rebuilds>>

Vote(r, p, i, h) == [kind |-> "vote", round |-> r, phase |-> p, src |-> i, hash |-> h]
Envelope(r, b, vr) == [kind |-> "proposal", round |-> r, block |-> b, valid_round |-> vr]
Lock(r, h) == [round |-> r, hash |-> h]
NoLock == Lock(-1, Nil)

\* BftEngine::new: nothing of this height is known.  `mark`, the watermark in
\* the DoubleSignProtector's file, outlives the engine, and so does `wake`: the
\* driver's next_heartbeat_at is set (run, persist_and_commit).  `backward` notes
\* a failure of the debug_assert in start_round.
NewEngine ==
    [active |-> FALSE, round |-> 0, step |-> "Propose",
     locked |-> NoLock, valid |-> NoLock,
     proposals |-> [r \in Rounds |-> None], verified |-> {},
     book |-> [r \in Rounds |-> [p \in {"prevote", "precommit"} |-> [i \in Validators |-> None]]],
     pending |-> None, grace |-> None, timers |-> {},
     committed |-> None, backward |-> FALSE, wake |-> TRUE,
     mark |-> [round |-> -1, step |-> 0, hash |-> Nil]]

\* What one handler call finds in its surroundings: `fresh`, the blocks whose
\* timestamp is within max_clock_skew_ms of now; `disk`, whether the watermark
\* file can be written; `fits`, whether the grace window ends before the
\* precommit deadline; `open`, whether the block interval has passed; `first`,
\* where iterating the proposals map starts.
Normal == [fresh |-> Blocks, disk |-> TRUE, fits |-> TRUE, open |-> TRUE, first |-> 0]
Contexts == {Normal,
             [Normal EXCEPT !.fresh = {}, !.open = FALSE],
             [Normal EXCEPT !.disk = FALSE, !.fits = FALSE, !.first = MaxRound]}

-----------------------------------------------------------------------------
(* Counting.                                                               *)

\* quorum_value: at most one hash can reach Q because Q > N/2.
QuorumValue(slots) ==
    LET hit == {h \in Hashes : Cardinality({i \in Validators : slots[i] = h}) >= Quorum}
    IN  IF hit = {} THEN None ELSE CHOOSE h \in hit : TRUE

HasQuorumPrevotes(e, r, h) ==
    Cardinality({i \in Validators : e.book[r]["prevote"][i] = h}) >= Quorum

DistinctVotersAt(e, r) ==
    {i \in Validators : \E p \in {"prevote", "precommit"} : e.book[r][p][i] # None}

BodyAt(e, r) == IF e.proposals[r] = None THEN None ELSE e.proposals[r].block

\* check_proposal; a block that was simulated once is not simulated again.
CheckProposal(e, p, c) ==
    /\ HeaderRound[p.block] <= p.round
    /\ p.valid_round < p.round
    /\ p.block \in c.fresh
    /\ p.block \in e.verified \cup ValidBlocks

\* DoubleSignProtector::allow
Allow(e, s, h, c) ==
    LET m == e.mark
        higher == m.round < e.round \/ (m.round = e.round /\ m.step < s)
    IN  (higher /\ c.disk) \/ m = [round |-> e.round, step |-> s, hash |-> h]

PhaseStep(phase) == IF phase = "prevote" THEN 1 ELSE 2

-----------------------------------------------------------------------------
RECURSIVE TryAdvance(_, _), CastVote(_, _, _, _), OnVote(_, _, _),
          OnProposal(_, _, _), StartRound(_, _, _)

\* commit(): the height is over and the engine waits for the host's start().
CommitBlock(e) ==
    [NewEngine EXCEPT !.committed = e.pending, !.backward = e.backward,
                      !.mark = e.mark]

\* try_advance, prevote part: only the current round counts.
PrevotePhase(e, c) ==
    LET h == QuorumValue(e.book[e.round]["prevote"])
        e1 == IF e.step = "Propose" THEN e ELSE [e EXCEPT !.valid = Lock(e.round, h)]
        toPrecommit(x) == [x EXCEPT !.step = "Precommit", !.timers = @ \ {"prevote"}]
    IN  CASE h \in Blocks /\ BodyAt(e, e.round) = h /\ e.step = "Prevote" ->
               CastVote([toPrecommit(e1) EXCEPT !.locked = Lock(e.round, h)], "precommit", h, c)
          [] h \in Blocks /\ BodyAt(e, e.round) = h /\ e.step # "Prevote" -> e1
          [] h = Nil /\ e.step = "Prevote" -> CastVote(toPrecommit(e), "precommit", Nil, c)
          [] OTHER -> e

\* try_advance, QC part: the first round with Q precommits for a block.  With
\* fewer than N votes the certificate waits for the grace window, if it fits.
CloseQC(e, c) ==
    LET certified == {r \in Rounds : QuorumValue(e.book[r]["precommit"]) \in Blocks}
        r == Min(certified)
        h == QuorumValue(e.book[r]["precommit"])
        everyone == \A i \in Validators : e.book[r]["precommit"][i] = h
        waiting == e.grace # None /\ e.grace.round = r /\ e.grace.hash = h
        fits == c.fits \/ "precommit" \notin e.timers
    IN  CASE e.pending # None \/ certified = {} -> e
          [] OTHER ->
               IF ~ everyone /\ GraceOn /\ (IF waiting THEN ~ e.grace.due ELSE fits)
               THEN IF waiting THEN e
                    ELSE [e EXCEPT !.grace = [round |-> r, hash |-> h, due |-> FALSE]]
               ELSE [e EXCEPT !.pending = h, !.grace = None]

\* Mutant: the nil quorum changes the round in any step.
CommitOrLeaveAnyStep(e, r, c) ==
    IF /\ e.active /\ e.pending = None /\ r < MaxRound
       /\ QuorumValue(e.book[r]["precommit"]) = Nil
    THEN StartRound([e EXCEPT !.backward = @ \/ r + 1 <= e.round], r + 1, c)
    ELSE e

\* try_advance, the rest: commit a pending QC whose body is here and verifies,
\* drop a body that does not; otherwise leave round r on Q nil precommits.
CommitOrLeave(e, r, c) ==
    LET holders == {q \in Rounds : BodyAt(e, q) = e.pending}
        body == e.proposals[IF c.first \in holders THEN c.first ELSE Min(holders)]
        known == holders # {} \/ (e.valid.round # -1 /\ e.valid.hash = e.pending)
    IN  CASE e.pending # None /\ known ->
               IF e.pending \in e.verified \/ CheckProposal(e, body, c)
               THEN CommitBlock(e)
               ELSE [e EXCEPT !.proposals =
                        [q \in Rounds |-> IF q \in holders THEN None ELSE @[q]]]
          [] /\ e.pending = None /\ e.step = "Precommit" /\ r < MaxRound
             /\ QuorumValue(e.book[r]["precommit"]) = Nil ->
               StartRound([e EXCEPT !.backward = @ \/ r + 1 <= e.round], r + 1, c)
          [] OTHER -> e

TryAdvance(e, c) ==
    IF ~ e.active THEN e
    ELSE CommitOrLeave(CloseQC(PrevotePhase(e, c), c), e.round, c)

\* Mutant: a refused signature returns before the timer is armed.
CastVoteUnarmed(e, phase, h, c) ==
    LET v == Vote(e.round, phase, Me, h)
    IN  IF e.book[e.round][phase][Me] = None /\ Allow(e, PhaseStep(phase), h, c)
        THEN OnVote([e EXCEPT !.timers = @ \cup {phase},
                              !.mark = [round |-> e.round, step |-> PhaseStep(phase), hash |-> h]],
                    v, c)
        ELSE e

\* cast_vote: a vote already in the book is not cast again; one the watermark
\* refuses is not signed but its timer is armed; one's own vote is counted.
CastVote(e, phase, h, c) ==
    LET armed == [e EXCEPT !.timers = @ \cup {phase}]
        v == Vote(e.round, phase, Me, h)
    IN  CASE e.book[e.round][phase][Me] # None -> e
          [] OTHER ->
               IF Allow(e, PhaseStep(phase), h, c)
               THEN OnVote([armed EXCEPT !.mark = [round |-> e.round, step |-> PhaseStep(phase),
                                                   hash |-> h]], v, c)
               ELSE armed

\* on_vote: the first vote per (round, phase, validator) is booked, a second
\* one changes nothing (it is at most evidence); f+1 voters of a later round pull the
\* engine there.
OnVote(e, v, c) ==
    LET slot == e.book[v.round][v.phase][v.src]
        e1 == [e EXCEPT !.book[v.round][v.phase][v.src] = v.hash]
    IN  CASE v.round > e.round + Lookahead -> e
          [] v.round <= e.round + Lookahead /\ slot # None -> e
          [] OTHER ->
               IF v.round > e.round /\ Cardinality(DistinctVotersAt(e1, v.round)) > Tolerance
               THEN StartRound(e1, v.round, c)
               ELSE TryAdvance(e1, c)

\* NeedProposal: the driver answers at once, with a proposal or a heartbeat, and
\* whatever comes of it sets its own timer again (try_propose_or_heartbeat).
Ask(e) == [e EXCEPT !.wake = TRUE]

\* Mutant: votes counted before the round began are not looked at.
StartRoundNoAdvance(e, r, c) ==
    [e EXCEPT !.round = r, !.step = "Propose", !.grace = None, !.timers = {"propose"}]

\* start_round: the lock, `valid` and the books stay; a proposal that arrived
\* early is handled now.
StartRound(e, r, c) ==
    LET early == e.proposals[r]
        mine == r \in MyRounds /\ early = None
        e0 == IF mine /\ c.open THEN Ask(e) ELSE e
        e1 == [e0 EXCEPT !.round = r, !.step = "Propose", !.grace = None,
                         !.timers = {"propose"} \cup IF mine /\ ~ c.open THEN {"ready"} ELSE {},
                         !.proposals[r] = None]
    IN  TryAdvance(IF early = None THEN e1 ELSE OnProposal(e1, early, c), c)

\* INV-C4, the prevote for an acceptable proposal.
PrevoteFor(e, p) ==
    IF \/ e.locked = NoLock
       \/ e.locked.hash = p.block
       \/ /\ p.valid_round > e.locked.round /\ p.valid_round < e.round
          /\ HasQuorumPrevotes(e, p.valid_round, p.block)
    THEN p.block ELSE Nil

OnProposal(e, p, c) ==
    LET stored == BodyAt(e, p.round)
        ok == CheckProposal(e, p, c)
        keep(x) == [x EXCEPT !.verified = @ \cup {p.block}, !.proposals[p.round] = p]
        e1 == IF ok THEN keep(e) ELSE e
        e2 == IF e.step = "Propose"
              THEN CastVote([e1 EXCEPT !.step = "Prevote"], "prevote",
                            IF ok THEN PrevoteFor(e, p) ELSE Nil, c)
              ELSE e1
    IN  CASE p.round > e.round + Lookahead -> e
          [] p.round > e.round /\ stored = None -> [e EXCEPT !.proposals[p.round] = p]
          [] p.round >= e.round /\ stored # None -> e
          [] p.round < e.round /\ (e.pending # p.block \/ ~ ok) -> e
          [] p.round < e.round /\ e.pending = p.block /\ ok ->
               TryAdvance(IF stored = None THEN keep(e)
                          ELSE [e EXCEPT !.verified = @ \cup {p.block}], c)
          [] OTHER -> TryAdvance(e2, c)

\* handle(), for the height the engine is at.
Handle(e, m, c) == IF m.kind = "vote" THEN OnVote(e, m, c) ELSE OnProposal(e, m, c)

\* This engine is to propose in its round and has not.
Unproposed(e) == /\ e.active /\ e.round \in MyRounds /\ e.step = "Propose"
                 /\ BodyAt(e, e.round) = None

\* tick(): the timers in `expired` have passed, examined in this order.
Tick(e, expired, c) ==
    LET e0 == IF Unproposed(e) THEN Ask(e) ELSE e
        e1 == [e0 EXCEPT !.timers = @ \ {"ready"}]
        a == IF "ready" \in expired THEN e1 ELSE e
        a1 == [a EXCEPT !.timers = @ \ {"propose", "ready"}]
        b == IF "propose" \in expired
             THEN IF a.step = "Propose"
                  THEN CastVote([a1 EXCEPT !.step = "Prevote"], "prevote", Nil, c)
                  ELSE a1
             ELSE a
        due(x, t) == t \in expired /\ t \in x.timers /\ t \in e.timers /\ x.round = e.round
        b1 == [b EXCEPT !.timers = @ \ {"prevote"}]
        d == IF due(b, "prevote")
             THEN IF b.step = "Prevote"
                  THEN CastVote([b1 EXCEPT !.step = "Precommit"], "precommit", Nil, c)
                  ELSE b1
             ELSE b
        d1 == [d EXCEPT !.timers = @ \ {"precommit"}]
    IN  IF due(d, "precommit")
        THEN IF d.step = "Precommit" /\ d.pending = None /\ d.grace = None /\ d.round < MaxRound
             THEN StartRound(d1, d.round + 1, c)
             ELSE TryAdvance(d1, c)
        ELSE TryAdvance(d, c)

-----------------------------------------------------------------------------
Init ==
    /\ eng = NewEngine
    /\ buffered = <<>>
    /\ messages = 0
    /\ rebuilds = 0

Undecided == eng.committed = None

\* The grace window may have run out by the time a handler is called.
GraceChoices == IF eng.grace = None THEN {FALSE} ELSE BOOLEAN
AtGrace(due) == IF due THEN [eng EXCEPT !.grace.due = TRUE] ELSE eng

\* start(): round 0, then the buffered messages in arrival order.
Start(c) ==
    /\ Undecided /\ ~ eng.active
    /\ eng' = FoldLeft(LAMBDA e, m : IF e.active THEN Handle(e, m, c) ELSE e,
                       StartRound([eng EXCEPT !.active = TRUE], 0, c), buffered)
    /\ buffered' = <<>>
    /\ UNCHANGED <<messages, rebuilds>>

\* handle() from the driver; before start() the message is only buffered.
Deliver(m, due, c) ==
    /\ Undecided /\ messages < MaxMessages
    /\ \/ /\ eng.active
          /\ eng' = Handle(AtGrace(due), m, c)
          /\ UNCHANGED buffered
       \/ /\ ~ eng.active
          /\ buffered' = IF Len(buffered) < MaxBuffered THEN Append(buffered, m) ELSE buffered
          /\ UNCHANGED eng
    /\ messages' = IF UNCHANGED <<eng, buffered>> THEN messages ELSE messages + 1
    /\ UNCHANGED rebuilds

\* The grace window closes before the precommit deadline (qc_grace_deadline).
\* The last modelled round is not left.
TimerTick(expired, due, c) ==
    /\ Undecided /\ eng.active
    /\ expired # {} \/ due
    /\ "precommit" \in expired => (eng.grace # None => due) /\ eng.round < MaxRound
    /\ eng' = Tick(AtGrace(due), expired, c)
    /\ UNCHANGED <<buffered, messages, rebuilds>>

\* on_timer at next_heartbeat_at: only a leader in its Propose step tries to
\* propose (Propose, Heartbeat) and sets the timer again.
LeaderIdleTick ==
    /\ Undecided /\ eng.active /\ eng.wake
    /\ eng' = [eng EXCEPT !.wake = eng.round \in MyRounds /\ eng.step = "Propose"]
    /\ UNCHANGED <<buffered, messages, rebuilds>>

\* Mutant: `valid` is forgotten and every round gets a fresh block.
ProposeFresh(b, c) ==
    /\ Undecided /\ eng.active
    /\ eng.round \in MyRounds /\ eng.step = "Propose" /\ eng.proposals[eng.round] = None
    /\ b \in ValidBlocks /\ HeaderRound[b] = eng.round
    /\ Allow(eng, 0, b, c)
    /\ eng' = OnProposal([eng EXCEPT !.mark = [round |-> eng.round, step |-> 0, hash |-> b],
                                     !.verified = @ \cup {b}],
                         Envelope(eng.round, b, -1), [c EXCEPT !.fresh = Blocks])
    /\ UNCHANGED <<buffered, messages, rebuilds>>

\* propose(), in answer to NeedProposal: `valid` is proposed again with its
\* POL round, otherwise a fresh block of this round.
Propose(b, c) ==
    LET again == eng.valid.round # -1
        e == [eng EXCEPT !.mark = [round |-> eng.round, step |-> 0, hash |-> b],
                         !.verified = @ \cup IF again THEN {} ELSE {b}]
    IN  /\ Undecided /\ eng.active
        /\ eng.round \in MyRounds /\ eng.step = "Propose" /\ eng.proposals[eng.round] = None
        /\ IF again THEN b = eng.valid.hash
           ELSE b \in ValidBlocks /\ HeaderRound[b] = eng.round
        /\ Allow(eng, 0, b, c)
        /\ eng' = OnProposal(e, Envelope(e.round, b, e.valid.round), [c EXCEPT !.fresh = Blocks])
        /\ UNCHANGED <<buffered, messages, rebuilds>>

\* heartbeat() and on_heartbeat: the leader's sign of life re-arms the propose
\* timer of the Propose step, until the idle limit.
Heartbeat ==
    /\ Undecided /\ eng.active /\ eng.step = "Propose"
    /\ eng' = [eng EXCEPT !.timers = @ \cup {"propose"}]
    /\ UNCHANGED <<buffered, messages, rebuilds>>

\* build_engine at the same tip, after a catch-up or a restart: of the engine the
\* watermark file is all that is left.
Rebuild ==
    /\ Undecided /\ rebuilds < MaxRebuilds
    /\ rebuilds' = rebuilds + 1
    /\ \E wake \in {eng.wake, TRUE} :
          eng' = [NewEngine EXCEPT !.backward = eng.backward, !.mark = eng.mark, !.wake = wake]
    /\ buffered' = <<>>
    /\ UNCHANGED messages

\* What peers can have signed.
PeerVotes == {Vote(r, p, i, h) : r \in Rounds, p \in {"prevote", "precommit"},
                                 i \in Peers, h \in Hashes}
PeerEnvelopes == {Envelope(r, b, vr) : r \in Rounds \ MyRounds,
                                       b \in Blocks, vr \in Rounds \cup {-1}}
Deliverable == PeerVotes \cup PeerEnvelopes

Next ==
    \/ \E c \in Contexts : Start(c)
    \/ \E m \in Deliverable, due \in GraceChoices, c \in Contexts : Deliver(m, due, c)
    \/ \E t \in SUBSET eng.timers, due \in GraceChoices, c \in Contexts : TimerTick(t, due, c)
    \/ \E b \in Blocks, c \in Contexts : Propose(b, c)
    \/ Heartbeat \/ LeaderIdleTick
    \/ Rebuild

Spec == Init /\ [][Next]_vars

-----------------------------------------------------------------------------
\* As long as no certificate waits for its body, the timer of the step the
\* engine is in is armed (in Precommit, the grace window will do): no sequence
\* of messages, refused signatures and nested advances leaves the engine in a
\* step that only other nodes could end (cast_vote: an honest node short of Q
\* does not stay in a step forever).  And a leader that has not proposed yet is
\* woken: the mempool does not tell the driver of new transactions, so without
\* next_heartbeat_at they would wait for the hour the loop sleeps.
TimerArmed ==
    /\ eng.active /\ eng.pending = None =>
         CASE eng.step = "Propose" -> "propose" \in eng.timers
           [] eng.step = "Prevote" -> "prevote" \in eng.timers
           [] eng.step = "Precommit" -> "precommit" \in eng.timers \/ eng.grace # None
    /\ Unproposed(eng) => eng.wake \/ "ready" \in eng.timers

\* INV-T1: although handlers re-enter one another, a view change is never
\* ordered for a round the engine has already reached (the debug_assert).
RoundMonotone == ~ eng.backward

\* try_advance is idempotent: when a handler returns, calling it again at the
\* same moment changes nothing, so no quorum in the books goes unnoticed until
\* the next message happens to arrive.  A grace window that ran out while a
\* message was dropped is the exception: next_deadline makes the host tick.
AdvanceSettled ==
    \/ TryAdvance(eng, Normal) = eng
    \/ eng.grace # None /\ eng.grace.due

\* A proposer stands behind its own envelope: its own prevote of that round is
\* for the block it proposed, or withheld by the watermark, whatever it is
\* locked on and however late `valid` was learnt.  A locked proposer that
\* proposed anything else would prevote nil against itself.
ProposerBacksItself ==
    \A r \in MyRounds :
        BodyAt(eng, r) # None =>
            eng.book[r]["prevote"][Me] \in {None, BodyAt(eng, r)}

=============================================================================
