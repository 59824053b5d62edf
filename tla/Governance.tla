----------------------------- MODULE Governance -----------------------------
(***************************************************************************)
(* zagros-executor/src/governance.rs, the SubmitProposal, Vote and admin   *)
(* arms of the executor, on top of Validators.  Everything a vote decides  *)
(* happens at an epoch boundary, after the new set is fixed: proposals are *)
(* counted, queued behind the timelock, executed or dropped, in the order  *)
(* they were submitted.  Ruleset upgrades are left out.                    *)
(*                                                                         *)
(* The chain is past GOV_DEPOSIT_ACTIVATION_HEIGHT: the fee of a proposal  *)
(* waits in escrow.  The money is one purse per account and the treasury.  *)
(***************************************************************************)
EXTENDS Validators, Sequences, SequencesExt

CONSTANTS
    Proposals,          \* [id, proposer, action, channel, target, value]
    Ballots,            \* bound: which votes come together, [voters -> support]
    Actors,             \* bound: the accounts that change their own standing
    Absentees,          \* bound: the validators that may miss a certificate
    Purse,              \* what every account can spend at first
    ProposalFee, ApplicationFee,
    MinStakeToSubmit, MaxActive,     \* governance_min_stake_to_submit, _max_active_proposals
    VotingSecs, ExpirySecs,          \* governance_voting_period_secs, _proposal_expiry_secs
    VoteCapBps, StakerQuorumBps,
    AdminEnd,           \* admin_authority_end before any vote shortens it
    InitialParams,      \* [epochSeconds, timelock, votingEpochs]
    SubmitUntil         \* bound: no proposal is submitted after this time

\* A proposal has the hash of its transaction for an id.
ASSUME GovernanceAssumption ==
    /\ IsFiniteSet(Addrs) /\ IsFiniteSet(Proposals)
    /\ \A p, q \in Proposals : p.id = q.id => p = q
    /\ \A p \in Proposals :
          /\ p.proposer \in Addrs
          /\ p.action \in {"text", "param", "shorten", "approve", "remove"}
          /\ p.action = "shorten" => p.value \in Int
          /\ p.action \in {"approve", "remove"} => p.target \in Addrs
    /\ Actors \subseteq Addrs
    /\ Purse \in Nat /\ ProposalFee \in Nat /\ ApplicationFee \in Nat /\ AdminEnd \in Int

VARIABLES
    gov,        \* the governance records, one field each (see GovInit)
    gate        \* history: who approved an account last, and when the admins' phase ended then

govVars == <<validatorVars, gov, gate>>

Ids == {p.id : p \in Proposals}
Absent == [status |-> "absent", votes |-> <<>>, ends |-> 0, executes |-> 0, created |-> 0]
Typed(p) == p.action # "text"
Find(id) == CHOOSE p \in Proposals : p.id = id

AdminPhase == now <= gov.adminEnd

-----------------------------------------------------------------------------
(* Transactions.                                                           *)

\* SubmitProposal: what is refused at once, by action.
Sensible(p) ==
    CASE p.action = "shorten" -> p.value < gov.adminEnd
      [] p.action \in {"approve", "remove"} -> ~AdminPhase /\ acct[p.target].status # "none"
      [] OTHER -> TRUE

SubmitProposal(p) ==
    /\ Tx(p.proposer) /\ now <= SubmitUntil
    /\ gov.props[p.id] = Absent
    /\ acct[p.proposer].stake >= MinStakeToSubmit /\ gov.purse[p.proposer] >= ProposalFee
    /\ gov.count < MaxActive /\ Sensible(p)
    /\ gov' = [gov EXCEPT
           !.purse[p.proposer] = @ - ProposalFee,
           !.deposit[p.id] = ProposalFee, !.escrow = @ + ProposalFee,
           !.props[p.id] = [Absent EXCEPT !.status = "active", !.created = now,
                                          !.ends = Epoch(now) + params.votingEpochs],
           !.count = @ + 1, !.open = Append(@, p.id)]
    /\ UNCHANGED <<acct, rotation, endorsed, gate>>

\* effective_status: only what is settled for good overrides the clock.
Votable(r) ==
    /\ r.status \in {"active", "rejected"}
    /\ now < r.created + ExpirySecs /\ now < r.created + VotingSecs

\* Vote, for the voters of a ballot one after another: in a block they commute.
Vote(id, ballot) ==
    LET r == gov.props[id]
        cast == {r.votes[i].voter : i \in DOMAIN r.votes}
        vote(a) == [voter |-> a, support |-> ballot[a], weight |-> acct[a].stake]
    IN  /\ txs < MaxTxs /\ txs' = txs + 1 /\ Votable(r)
        /\ \A a \in DOMAIN ballot : a \notin cast /\ acct[a].stake > 0
        /\ gov' = [gov EXCEPT !.props[id].votes =
                      @ \o SetToSeq({vote(a) : a \in DOMAIN ballot})]
        /\ UNCHANGED <<acct, set, voted, rotation, params, now, endorsed, gate>>

\* Mutant: the admins approve in either phase.
AdminApproveAlways(a) ==
    /\ Tx(a) /\ CanApprove(acct, set, a) /\ gov.purse[a] >= ApplicationFee
    /\ acct' = Approved(acct, a, Epoch(now))
    /\ gov' = [gov EXCEPT !.purse[a] = @ - ApplicationFee, !.treasury = @ + ApplicationFee]
    /\ endorsed' = endorsed \cup {a}
    /\ gate' = [gate EXCEPT ![a] = [by |-> "admin", at |-> now, phaseEnd |-> gov.adminEnd]]
    /\ UNCHANGED rotation

\* ApproveValidator and RemoveValidator with the admins' signatures.
AdminApprove(a) ==
    /\ Tx(a) /\ AdminPhase /\ CanApprove(acct, set, a) /\ gov.purse[a] >= ApplicationFee
    /\ acct' = Approved(acct, a, Epoch(now))
    /\ gov' = [gov EXCEPT !.purse[a] = @ - ApplicationFee, !.treasury = @ + ApplicationFee]
    /\ endorsed' = endorsed \cup {a}
    /\ gate' = [gate EXCEPT ![a] = [by |-> "admin", at |-> now, phaseEnd |-> gov.adminEnd]]
    /\ UNCHANGED rotation

AdminRemove(a) ==
    /\ Tx(a) /\ AdminPhase /\ CanRemove(acct, a)
    /\ acct' = Removed(acct, a, Epoch(now)) /\ endorsed' = endorsed \ {a}
    /\ UNCHANGED <<rotation, gov, gate>>

\* Mutant: the record of the deposit survives its payment.
SettledTwice(g, id, refund) ==
    LET owner == Find(id).proposer
    IN  [g EXCEPT !.escrow = Monus(@, g.deposit[id]),
                  !.purse[owner] = IF refund THEN @ + g.deposit[id] ELSE @,
                  !.treasury = IF refund THEN @ ELSE @ + g.deposit[id]]

\* settle_deposit: back to the proposer, or to the stakers.
DepositSettled(g, id, refund) ==
    LET owner == Find(id).proposer
    IN  [g EXCEPT !.deposit[id] = 0, !.escrow = Monus(@, g.deposit[id]),
                  !.purse[owner] = IF refund THEN @ + g.deposit[id] ELSE @,
                  !.treasury = IF refund THEN @ ELSE @ + g.deposit[id]]

\* remove_typed_active: the others stay, in their order.
Without(s, id) == FoldLeft(LAMBDA kept, i : IF i = id THEN kept ELSE Append(kept, i), <<>>, s)
Closed(g, id) == [g EXCEPT !.open = Without(@, id)]

\* terminalize
Terminal(g, id, status) ==
    [Closed(g, id) EXCEPT !.props[id].status = status, !.count = Monus(@, 1)]

\* apply_veto
Veto(id) ==
    /\ Tx(Find(id).proposer) /\ AdminPhase
    /\ Find(id).channel = "consensus" /\ Typed(Find(id))
    /\ gov.props[id].status \in {"active", "queued"}
    /\ gov' = Terminal(DepositSettled(gov, id, FALSE), id, "vetoed")
    /\ UNCHANGED <<acct, rotation, endorsed, gate>>

-----------------------------------------------------------------------------
(* The epoch boundary.  b is the world: [acct, set, gov, params, endorsed, *)
(* gate].                                                                  *)

TotalStaked(b) == MapThenSumSet(LAMBDA a : b.acct[a].stake, Addrs)

\* A vote weighs no more than its voter still has at stake, nor than the cap.
Weight(b, v) ==
    Min({v.weight, b.acct[v.voter].stake, (TotalStaked(b) * VoteCapBps) \div 10000})

StakerTally(b, r) ==
    LET sum(S) == MapThenSumSet(LAMBDA i : Weight(b, r.votes[i]), S)
        yes == sum({i \in DOMAIN r.votes : r.votes[i].support})
        no == sum({i \in DOMAIN r.votes : ~r.votes[i].support})
        quorum == /\ TotalStaked(b) > 0
                  /\ (yes + no) * 10000 >= TotalStaked(b) * StakerQuorumBps
    IN  [participation |-> yes + no, quorum |-> quorum, accepted |-> quorum /\ yes > no]

ValidatorTally(b, r) ==
    LET cast == {i \in DOMAIN r.votes : r.votes[i].voter \in Members(b.set)}
    IN  [n |-> Cardinality(b.set.members), voted |-> Cardinality(cast),
         yes |-> Cardinality({i \in cast : r.votes[i].support})]

Accepted(b, p, r) ==
    LET v == ValidatorTally(b, r)
    IN  /\ 3 * v.yes >= 2 * v.n
        /\ p.channel = "economic" => StakerTally(b, r).accepted

QuorumReached(b, p, r) ==
    LET v == ValidatorTally(b, r)
    IN  IF p.channel = "consensus" THEN v.voted * 10000 >= v.n * StakerQuorumBps
        ELSE StakerTally(b, r).quorum

\* Mutant: a rejected proposal is closed without settling its deposit.
CountedUnsettled(b, p, e) ==
    LET r == b.gov.props[p.id]
    IN  [b EXCEPT !.gov =
            IF Accepted(b, p, r)
            THEN [DepositSettled(b.gov, p.id, TRUE) EXCEPT
                      !.props[p.id].status = "queued",
                      !.props[p.id].executes = e + params.timelock]
            ELSE Terminal(b.gov, p.id, "rejected")]

\* The end of the voting window.
Counted(b, p, e) ==
    LET r == b.gov.props[p.id]
        paid(refund) == DepositSettled(b.gov, p.id, refund)
    IN  [b EXCEPT !.gov =
            IF ~Typed(p) THEN Closed(paid(QuorumReached(b, p, r)), p.id)
            ELSE IF Accepted(b, p, r)
            THEN [paid(TRUE) EXCEPT !.props[p.id].status = "queued",
                                    !.props[p.id].executes = e + params.timelock]
            ELSE Terminal(paid(QuorumReached(b, p, r)), p.id, "rejected")]

\* execute: the conditions are looked at again.
Executable(b, p, e) ==
    CASE p.action = "shorten" -> p.value < b.gov.adminEnd
      [] p.action = "approve" -> CanApprove(b.acct, b.set, p.target)
      [] p.action = "remove" -> CanRemove(b.acct, p.target)
      [] OTHER -> TRUE

Effect(b, p, e) ==
    CASE p.action = "param" -> [b EXCEPT !.params = p.value]
      [] p.action = "shorten" -> [b EXCEPT !.gov.adminEnd = p.value]
      [] p.action = "approve" ->
            [b EXCEPT !.acct = Approved(@, p.target, e), !.endorsed = @ \cup {p.target},
                      !.gate[p.target] = [by |-> "vote", at |-> now,
                                          phaseEnd |-> b.gov.adminEnd]]
      [] p.action = "remove" ->
            [b EXCEPT !.acct = Removed(@, p.target, e), !.endorsed = @ \ {p.target}]

\* process_at_epoch, for one proposal.
Processed(b, id, e) ==
    LET p == Find(id)
        r == b.gov.props[id]
        done == IF Executable(b, p, e) THEN Effect(b, p, e) ELSE b
    IN  IF r.status = "active" /\ e >= r.ends THEN Counted(b, p, e)
        ELSE IF r.status = "queued" /\ e >= r.executes
        THEN [done EXCEPT !.gov = Terminal(@, id, IF Executable(b, p, e) THEN "executed"
                                                  ELSE "rejected")]
        ELSE b

\* The proposals in the order they were submitted (one result, in a set).
AllProcessed(world, e) ==
    FoldLeft(LAMBDA worlds, id : {Processed(b, id, e) : b \in worlds}, {world}, gov.open)

\* What was approved and is no longer registered has lost its approval.
StillEndorsed(ac) == {a \in endorsed : ac[a].status \in Registered}

\* The end of a block, at a boundary or not.
SealBlock(signers, shadows) ==
    /\ now < MaxTime /\ Certified(signers, shadows)
    /\ \E after \in AfterBlock(signers, shadows) :
          LET world == [acct |-> after.acct, set |-> after.set, gov |-> gov, params |-> params,
                        endorsed |-> StillEndorsed(after.acct), gate |-> gate]
          IN  /\ Valid(after.set)
              /\ \E b \in IF Epoch(now) > set.epoch THEN AllProcessed(world, Epoch(now))
                          ELSE {world} :
                    /\ acct' = b.acct /\ set' = b.set /\ gov' = b.gov
                    /\ params' = b.params /\ endorsed' = b.endorsed /\ gate' = b.gate
              /\ rotation' = after.rotation
    /\ voted' = set /\ now' = now + 1 /\ UNCHANGED txs

GovInit ==
    /\ ValidatorsInit /\ params = InitialParams
    /\ gov = [props |-> [id \in Ids |-> Absent], open |-> <<>>, count |-> 0,
              deposit |-> [id \in Ids |-> 0], escrow |-> 0,
              purse |-> [a \in Addrs |-> Purse], treasury |-> 0,
              adminEnd |-> AdminEnd]
    /\ gate = [a \in Addrs |-> [by |-> "genesis", at |-> 0, phaseEnd |-> 0]]

Lifecycle ==
    /\ \E a \in Actors :
          \/ \E k \in Keys[a] : Register(a, k) \/ RotateConsensusKey(a, k)
          \/ Unregister(a) \/ Slash(a)
          \/ \E n \in Stakes : ChangeStake(a, n)
    /\ UNCHANGED <<gov, gate>>

Decisions ==
    \/ \E a \in Actors : AdminApprove(a) \/ AdminRemove(a)
    \/ \E p \in Proposals : SubmitProposal(p)
    \/ \E id \in Ids, ballot \in Ballots : Vote(id, ballot)
    \/ \E id \in Ids : Veto(id)

Seal ==
    \E absent \in SUBSET (Absentees \cap Members(voted)),
       shadows \in SUBSET With(acct, "probation") : SealBlock(Members(voted) \ absent, shadows)

GovNext == Lifecycle \/ Decisions \/ Seal

GovSpec == GovInit /\ [][GovNext]_govVars

-----------------------------------------------------------------------------
(* Properties.                                                             *)

\* Whoever lost its place (slashed, removed, resigned) is back on the way to
\* the set only after an approval given since.
ReturnNeedsApproval == {a \in Addrs : acct[a].status \in Seated} \subseteq endorsed

\* Approvals come from the admins while their phase lasts and from votes when
\* it is over, even when the phase is shortened while proposals wait.
OneGate ==
    \A a \in Addrs :
        /\ gate[a].by = "admin" => gate[a].at <= gate[a].phaseEnd
        /\ gate[a].by = "vote" => gate[a].at > gate[a].phaseEnd

\* The escrow holds exactly the deposits not yet settled, and with the purses
\* and the treasury it adds up: no deposit is paid out twice or forgotten.
DepositsAccounted ==
    /\ gov.escrow = MapThenSumSet(LAMBDA id : gov.deposit[id], Ids)
    /\ MapThenSumSet(LAMBDA a : gov.purse[a], Addrs) + gov.treasury + gov.escrow
           = Purse * Cardinality(Addrs)

\* No deposit outlives its proposal: one still held belongs to a proposal that
\* the next boundaries go over and whose votes are not counted yet, and the
\* first boundary at or past the end of its votes settles it, whatever the
\* boundary executes before and however the length of the epochs has changed.
DepositTimely ==
    [][\A id \in Ids :
          /\ gov'.deposit[id] > 0 =>
                /\ \E i \in DOMAIN gov'.open : gov'.open[i] = id
                /\ gov'.props[id].status = "active"
          /\ set'.epoch # set.epoch /\ gov.props[id].status = "active"
                /\ set'.epoch >= gov.props[id].ends => gov'.deposit[id] = 0]_govVars

=============================================================================
