------------------------------ MODULE CatchUp ------------------------------
(***************************************************************************)
(* How a node that has fallen behind catches up: the consensus driver      *)
(* (zagros-network/src/consensus_driver.rs), the part of the network       *)
(* service that routes its requests (service.rs) and the validation of     *)
(* synced blocks (sync2.rs), against peers that advance, lag, answer       *)
(* wrongly, hang, leave and return.                                        *)
(*                                                                         *)
(* The driver and the service are two tasks.  What the service sends to    *)
(* the driver waits in `inbound`; a command of the driver takes effect at  *)
(* once, which loses nothing: what the service does before it reads the    *)
(* command only appends to `inbound`, and could have come before the       *)
(* driver's step.  Of time only the order of events is kept.               *)
(***************************************************************************)
EXTENDS Integers, Sequences, FiniteSets, FiniteSetsExt, SequencesExt

CONSTANTS
    Peers,
    Faulty,            \* peers that may answer anything
    Hung,              \* peers that are connected and never answer
    Rank,              \* the order in which connected_peers is iterated
    MaxHeight,         \* bound: the height the network reaches
    BatchSize,         \* sync_batch_size
    Checkpoint,        \* height of the trusted checkpoint, 0 for none
    Rivals,            \* heights of certified blocks of another history
    BanThreshold,
    Start,             \* the network's height when the node, at 0, falls behind
    MaxInbound,        \* bound: inputs waiting for the driver when another arrives
    MaxFaults,         \* bound: timers that overtake an input, requests and
                       \* connections that fail, heights told that cannot be served
                       \* and bodies missing from a block, together
    None               \* no catch-up, no request; an id no peer has (PeerId::random)

HEIGHT_LOOKAHEAD == 2

ASSUME CatchUpAssumption ==
    /\ Faulty \cup Hung \subseteq Peers /\ None \notin Peers
    /\ Rank \in [Peers -> Nat] /\ \A p, q \in Peers : Rank[p] = Rank[q] => p = q
    /\ MaxHeight \in Nat /\ Start \in 0..MaxHeight /\ BatchSize \in Nat \ {0} /\ BanThreshold \in Nat \ {0}
    /\ Checkpoint \in 0..MaxHeight /\ Rivals \subseteq 1..MaxHeight

VARIABLES
    node,              \* driver and service: see Node
    height,            \* peer -> its last block
    faults             \* what MaxFaults bounds

vars == <<node, height, faults>>

Unknown == -1          \* no entry of peer_tips

\* A block with its certificate.  body: "whole"; "altered", other transactions
\* under the same ids; "lacking", some of them missing so that it does not replay.
Block == [height: 1..MaxHeight, branch: {"main", "rival"}, certified: BOOLEAN,
          body: {"whole", "altered", "lacking"}]
Main(h) == [height |-> h, branch |-> "main", certified |-> TRUE, body |-> "whole"]

CatchUps == [peer: Peers \cup {None}, target: 1..MaxHeight, expected_first: 1..MaxHeight]
Requests == [peer: Peers, poll: BOOLEAN, from: 0..MaxHeight, to: 0..MaxHeight]

Inputs ==
    [type: {"AheadHint"}, height: 1..MaxHeight + 1]
        \cup [type: {"PeerStatus"}, peer: Peers, tip: 0..MaxHeight]
        \cup [type: {"SyncFailed", "PeerGone", "NotAvailable"}, peer: Peers]
        \cup [type: {"SyncBlocks"}, peer: Peers, blocks: UNION {[1..k -> Block] : k \in 0..BatchSize}]
        \cup [type: {"SyncNoPeer"}]

Node ==
    [chain: UNION {[1..k -> Block] : k \in 0..MaxHeight},   \* blocks committed
     gate: 1..MaxHeight + 1,                                \* GateView.height
     peer_tips: [Peers -> Unknown..MaxHeight],
     catch_up: CatchUps \cup {None},
     bad_peers: SUBSET (Peers \cup {None}),
     inbound: Seq(Inputs),
     connected: SUBSET Peers,
     pending_sync2: Requests \cup {None},
     queries: SUBSET Peers,                  \* GetStatus whose failure nobody waits for
     rejects: [Peers -> 0..BanThreshold - 1],
     banned: SUBSET Peers,
     halted: BOOLEAN]

Tip(n) == Len(n.chain)
Behind(n) == Tip(n) < MaxHeight

\* The node has started, its peers have just connected and been asked for their status.
Init ==
    /\ node = [chain |-> <<>>, gate |-> 1, peer_tips |-> [p \in Peers |-> Unknown],
               catch_up |-> None, bad_peers |-> {}, inbound |-> <<>>,
               connected |-> Peers, pending_sync2 |-> None, queries |-> Peers,
               rejects |-> [p \in Peers |-> 0], banned |-> {}, halted |-> FALSE]
    /\ height = [p \in Peers |-> Start]
    /\ faults = 0

-----------------------------------------------------------------------------
(* The service, on a command of the driver.                                *)

Send(n, input) == [n EXCEPT !.inbound = Append(@, input)]

\* The peer asked for if it can be asked, or else the first one that is not excluded.
Chosen(n, peer, exclude) ==
    LET others == (n.connected \ n.banned) \ exclude
    IN  IF peer \in n.connected \ n.banned THEN peer
        ELSE IF others = {} THEN None
        ELSE CHOOSE p \in others : \A q \in others : Rank[p] <= Rank[q]

\* A new request takes the place of the one waited for; of a superseded poll the
\* answer still counts, of a superseded range request nothing does.
Sync2Request(n, peer, exclude, poll, from, to) ==
    LET p == Chosen(n, peer, exclude)
        old == n.pending_sync2
    IN  IF p = None THEN Send(n, [type |-> "SyncNoPeer"])
        ELSE [n EXCEPT !.pending_sync2 = [peer |-> p, poll |-> poll, from |-> from, to |-> to],
                       !.queries = IF old # None /\ old.poll THEN @ \cup {old.peer} ELSE @]

PenalizePeer(n, p) ==
    IF p = None THEN n
    ELSE IF n.rejects[p] + 1 >= BanThreshold
    THEN [n EXCEPT !.rejects[p] = 0, !.banned = @ \cup {p}]
    ELSE [n EXCEPT !.rejects[p] = @ + 1]

-----------------------------------------------------------------------------
(* The driver's catch-up.  Its handlers give the set of nodes that may     *)
(* result; Then goes on from each of them.                                 *)

Then(S, Handler(_)) == UNION {Handler(n) : n \in S}

MarkBadPeer(n, p) ==
    PenalizePeer(
        [n EXCEPT !.bad_peers = @ \cup {p},
                  !.peer_tips = [q \in Peers |-> IF q = p THEN Unknown ELSE @[q]]], p)

\* Any of the peers with the highest tip.
ChoosePeer(n) ==
    LET ahead == {p \in Peers \ n.bad_peers : n.peer_tips[p] > Tip(n)}
    IN  {p \in ahead : \A q \in ahead : n.peer_tips[q] <= n.peer_tips[p]}

\* The engine is rebuilt from the state, at the height after the last block.
FinishCatchUp(n) == [n EXCEPT !.catch_up = None, !.gate = Tip(n) + 1]

ContinueCatchUp(n) ==
    LET from == Tip(n) + 1
        known == {p \in Peers : n.peer_tips[p] # Unknown}
        ask(p) ==
            Sync2Request(
                [n EXCEPT !.catch_up.expected_first = from,
                          !.catch_up.peer = IF p = None THEN @ ELSE p],
                p, n.bad_peers, FALSE, from, Min({n.catch_up.target, from + BatchSize - 1}))
    IN  IF Tip(n) >= n.catch_up.target THEN {FinishCatchUp(n)}
        ELSE IF ChoosePeer(n) # {} THEN {ask(p) : p \in ChoosePeer(n)}
        ELSE IF known # {} /\ known \subseteq n.bad_peers THEN {FinishCatchUp(n)}
        ELSE {ask(None)}

\* Mutant of BeginCatchUp: peers once marked stay marked.
BeginCatchUpKeepingMarks(n, target) ==
    IF target <= Tip(n) THEN {n}
    ELSE Then({[n EXCEPT
                   !.catch_up = [peer |-> None, expected_first |-> Tip(n) + 1,
                                 target |-> Max({target} \cup {n.peer_tips[p] : p \in Peers})]]},
              ContinueCatchUp)

BeginCatchUp(n, target) ==
    IF target <= Tip(n) THEN {n}
    ELSE Then({[n EXCEPT
                   !.bad_peers = {},
                   !.catch_up = [peer |-> None, expected_first |-> Tip(n) + 1,
                                 target |-> Max({target} \cup {n.peer_tips[p] : p \in Peers})]]},
              ContinueCatchUp)

-----------------------------------------------------------------------------
(* Blocks received.                                                        *)

\* The parent's hash and last_qc tie a block to the history it belongs to; a
\* rival block may fork off anywhere.
Extends(chain, b) ==
    /\ b.height = Len(chain) + 1
    /\ b.branch = "main" => \A i \in DOMAIN chain : chain[i].branch = "main"

\* Mutant of ApplySyncedBlock: committed without a simulation.
ApplyUnsimulated(chain, b) ==
    IF ~Extends(chain, b) \/ ~b.certified THEN "invalid"
    ELSE IF b.height = Checkpoint /\ b.branch = "rival" THEN "halt"
    ELSE "committed"

\* validate_block_with_missing, with the checkpoint last, then the simulation.
ApplySyncedBlock(chain, b) ==
    IF ~Extends(chain, b) \/ ~b.certified THEN "invalid"
    ELSE IF b.height = Checkpoint /\ b.branch = "rival" THEN "halt"
    ELSE IF b.body = "altered" THEN "invalid"
    ELSE IF b.body = "lacking" THEN "unreplayable"
    ELSE "committed"

\* The blocks before the first that is not committed, and what became of that one.
Applied(chain, blocks) ==
    LET outcome(i) == ApplySyncedBlock(chain \o SubSeq(blocks, 1, i - 1), blocks[i])
        k == Max({j \in 0..Len(blocks) : \A i \in 1..j : outcome(i) = "committed"})
    IN  [chain |-> chain \o SubSeq(blocks, 1, k),
         outcome |-> IF k = Len(blocks) THEN "committed" ELSE outcome(k + 1)]

ValidShape(n, blocks) ==
    Len(blocks) \in 1..BatchSize /\ blocks[1].height = n.catch_up.expected_first

OnBlocks(n, p, blocks) ==
    LET a == Applied(n.chain, blocks)
        m == [n EXCEPT !.chain = a.chain]
    IN  IF ~ValidShape(n, blocks) THEN Then({MarkBadPeer(n, p)}, ContinueCatchUp)
        ELSE CASE a.outcome = "committed" -> Then({m}, ContinueCatchUp)
               [] a.outcome = "invalid" -> Then({MarkBadPeer(m, p)}, ContinueCatchUp)
               [] a.outcome = "unreplayable" -> {FinishCatchUp(m)}
               [] a.outcome = "halt" -> {[m EXCEPT !.halted = TRUE]}

OnSyncResponse(n, in) ==
    LET m == [n EXCEPT !.catch_up.peer = in.peer]
    IN  IF n.catch_up = None THEN {n}
        ELSE IF in.type = "NotAvailable" THEN Then({MarkBadPeer(m, in.peer)}, ContinueCatchUp)
        ELSE OnBlocks(m, in.peer, in.blocks)

-----------------------------------------------------------------------------
(* The driver's inputs.                                                    *)

OnAheadHint(n, h) ==
    IF h > Tip(n) + 1 /\ n.catch_up = None THEN BeginCatchUp(n, h - 1) ELSE {n}

OnPeerStatus(n, p, tip) ==
    LET begin(k) == BeginCatchUp(k, tip)
        m == [n EXCEPT !.peer_tips[p] = tip]
    IN  IF tip > Tip(n) /\ n.catch_up = None THEN Then({m}, begin) ELSE {m}

CatchingUpFrom(n, p) == n.catch_up # None /\ n.catch_up.peer = p

OnSyncFailed(n, p) ==
    IF CatchingUpFrom(n, p) THEN Then({MarkBadPeer(n, p)}, ContinueCatchUp) ELSE {n}

\* Mutant of OnSyncNoPeer: the catch-up waits for another peer to come.
WaitForPeer(n) == {n}

OnSyncNoPeer(n) == IF n.catch_up # None THEN {FinishCatchUp(n)} ELSE {n}

OnPeerGone(n, p) ==
    LET m == [n EXCEPT !.peer_tips[p] = Unknown]
    IN  IF CatchingUpFrom(n, p) THEN Then({m}, ContinueCatchUp) ELSE {m}

OnInput ==
    /\ node.inbound # <<>> /\ ~node.halted
    /\ \E in \in {Head(node.inbound)}, n \in {[node EXCEPT !.inbound = Tail(@)]} :
           node' \in CASE in.type = "AheadHint" -> OnAheadHint(n, in.height)
                       [] in.type = "PeerStatus" -> OnPeerStatus(n, in.peer, in.tip)
                       [] in.type = "SyncFailed" -> OnSyncFailed(n, in.peer)
                       [] in.type = "SyncNoPeer" -> OnSyncNoPeer(n)
                       [] in.type = "PeerGone" -> OnPeerGone(n, in.peer)
                       [] OTHER -> OnSyncResponse(n, in)
    /\ UNCHANGED <<height, faults>>

\* Whether something that concerns the catch-up's request is still to come.
AnswerDue ==
    \/ node.pending_sync2 # None /\ node.pending_sync2.peer \notin Hung
    \/ \E i \in DOMAIN node.inbound :
           node.inbound[i].type \in {"SyncBlocks", "NotAvailable", "SyncFailed", "SyncNoPeer", "PeerGone"}

Fault(occurs) ==
    /\ occurs => faults < MaxFaults
    /\ faults' = IF occurs THEN faults + 1 ELSE faults

\* SYNC_REQUEST_TIMEOUT_MS has passed since the request.
RequestTimeout ==
    /\ node.catch_up # None /\ ~node.halted
    /\ Fault(AnswerDue)
    /\ node' \in Then({MarkBadPeer(node, node.catch_up.peer)}, ContinueCatchUp)
    /\ UNCHANGED height

\* The status poll of an idle driver, once the previous one is settled.
StatusPoll ==
    /\ node.catch_up = None /\ ~node.halted
    /\ node.pending_sync2 # None => ~node.pending_sync2.poll
    /\ Fault(node.inbound # <<>>)
    /\ node' = Sync2Request(node, None, {}, TRUE, 0, 0)
    /\ UNCHANGED height

NetworkTip == Max({height[p] : p \in Peers} \cup {0})
OnMain(n) == \A i \in DOMAIN n.chain : n.chain[i].branch = "main"

\* The engine has a certificate for its height and, for too long, no body.
PendingQcTimeout ==
    /\ node.catch_up = None /\ ~node.halted /\ OnMain(node) /\ NetworkTip > Tip(node)
    /\ Fault(node.inbound # <<>>)
    /\ node' \in BeginCatchUp(node, Tip(node) + 1)
    /\ UNCHANGED height

\* The engine takes part and commits; see BftEngine.
LiveCommit ==
    /\ node.catch_up = None /\ ~node.halted /\ OnMain(node) /\ NetworkTip > Tip(node)
    /\ node' = [node EXCEPT !.chain = Append(@, Main(Tip(node) + 1)), !.gate = Tip(node) + 2]
    /\ UNCHANGED <<height, faults>>

-----------------------------------------------------------------------------
(* What the service hears from the network.                                *)

Room == Len(node.inbound) < MaxInbound

\* A consensus message of a height the gate cannot judge yet.
AheadMessage ==
    /\ NetworkTip + 1 > node.gate + HEIGHT_LOOKAHEAD /\ Room
    /\ \A i \in DOMAIN node.inbound : node.inbound[i].type # "AheadHint"
    /\ node' = Send(node, [type |-> "AheadHint", height |-> NetworkTip + 1])
    /\ UNCHANGED <<height, faults>>

RangeRequest(p) ==
    node.pending_sync2 # None /\ node.pending_sync2.peer = p /\ ~node.pending_sync2.poll

\* Answers to `from`..`to`: a peer's blocks until the first it lacks.
HonestAnswers(p, r) ==
    LET last == Min({height[p], r.to, r.from + BatchSize - 1})
    IN  IF last < r.from THEN {[type |-> "NotAvailable", peer |-> p]}
        ELSE {[type |-> "SyncBlocks", peer |-> p,
               blocks |-> [i \in 1..(last - r.from + 1) |-> Main(r.from + i - 1)]]}

FaultyBlocks(h) ==
    {[Main(h) EXCEPT !.certified = FALSE]}
        \cup {[Main(h) EXCEPT !.body = b] : b \in {"altered", "lacking"}}
        \cup {[Main(k) EXCEPT !.branch = "rival"] : k \in Rivals \cap {h}}

FaultyAnswers(p, r) ==
    {[type |-> "NotAvailable", peer |-> p], [type |-> "SyncBlocks", peer |-> p, blocks |-> <<>>]}
        \cup {[type |-> "SyncBlocks", peer |-> p, blocks |-> <<b>>] : b \in FaultyBlocks(r.from)}

\* An answer that ends the catch-up and is held against nobody.
Lacks(a) == a.type = "SyncBlocks" /\ \E i \in DOMAIN a.blocks : a.blocks[i].body = "lacking"

RangeAnswer(p) ==
    /\ RangeRequest(p) /\ p \notin Hung /\ Room
    /\ \E a \in IF p \in Faulty THEN FaultyAnswers(p, node.pending_sync2)
                ELSE HonestAnswers(p, node.pending_sync2) :
           /\ Fault(Lacks(a))
           /\ node' = [Send(node, a) EXCEPT !.pending_sync2 = None]
    /\ UNCHANGED height

\* What a peer says of its height.  It reads its consensus record, which it
\* writes before it executes and archives the block.
Told(p) == IF p \in Faulty THEN 0..MaxHeight ELSE {height[p], Min({height[p] + 1, MaxHeight})}

\* A status is passed on whether or not it is waited for.  An answered poll can
\* no longer fail, so that nothing distinguishes it from one forgotten.
StatusAnswer(p) ==
    LET polled == node.pending_sync2 # None /\ node.pending_sync2.peer = p /\ node.pending_sync2.poll
    IN  /\ p \in node.queries \/ polled
        /\ p \notin Hung /\ Room
        /\ \E tip \in Told(p) :
               /\ Fault(tip # height[p])
               /\ LET n == Send(node, [type |-> "PeerStatus", peer |-> p, tip |-> tip])
                  IN  node' = IF p \in node.queries THEN [n EXCEPT !.queries = @ \ {p}]
                              ELSE [n EXCEPT !.pending_sync2 = None]
        /\ UNCHANGED height

\* A request fails: libp2p gives up on it, or the answer cannot be read.
OutboundFailure(p) ==
    /\ Room
    /\ Fault(p \notin Hung)
    /\ \/ /\ node.pending_sync2 # None /\ node.pending_sync2.peer = p
          /\ node' = [Send(node, [type |-> "SyncFailed", peer |-> p]) EXCEPT !.pending_sync2 = None]
       \/ /\ p \in node.queries
          /\ node' = [node EXCEPT !.queries = @ \ {p}]
    /\ UNCHANGED height

\* A connection closes: by itself, or because the peer has been banned.
ConnectionClosed(p) ==
    /\ p \in node.connected /\ Room
    /\ Fault(p \notin node.banned)
    /\ node' = [Send(node, [type |-> "PeerGone", peer |-> p]) EXCEPT
                   !.connected = @ \ {p},
                   !.queries = @ \ {p},
                   !.pending_sync2 = IF @ # None /\ @.peer = p THEN None ELSE @]
    /\ UNCHANGED height

\* A banned peer that returns is never asked, as if it had stayed away.
ConnectionEstablished(p) ==
    /\ p \notin node.connected \cup node.banned
    /\ node' = [node EXCEPT !.connected = @ \cup {p}, !.queries = @ \cup {p}]
    /\ UNCHANGED <<height, faults>>

\* Another node commits.
PeerCommit(p) ==
    /\ p \notin Faulty /\ height[p] < MaxHeight
    /\ height' = [height EXCEPT ![p] = @ + 1]
    /\ UNCHANGED <<node, faults>>

-----------------------------------------------------------------------------

Answer(p) == RangeAnswer(p) \/ StatusAnswer(p) \/ OutboundFailure(p)

Next ==
    \/ OnInput \/ RequestTimeout \/ StatusPoll \/ PendingQcTimeout \/ LiveCommit \/ AheadMessage
    \/ \E p \in Peers :
           Answer(p) \/ ConnectionClosed(p) \/ ConnectionEstablished(p) \/ PeerCommit(p)

Spec == Init /\ [][Next]_vars

\* Both tasks keep running, requests are answered or fail, peers come back and
\* go on.  Nothing is assumed of LiveCommit, PendingQcTimeout and AheadMessage.
CatchUpFair ==
    /\ WF_vars(OnInput) /\ WF_vars(RequestTimeout) /\ WF_vars(StatusPoll)
    /\ \A p \in Peers :
           WF_vars(Answer(p)) /\ WF_vars(ConnectionEstablished(p)) /\ WF_vars(PeerCommit(p))

FairSpec == Spec /\ CatchUpFair

-----------------------------------------------------------------------------

\* INV-Y1: every block committed is certified, is the one after its predecessor in
\* the same history and replays with the body received, whatever peers answer and
\* in whatever order answers, time-outs and disconnections come.
CommittedIsCertified ==
    \A i \in DOMAIN node.chain :
        /\ node.chain[i].certified /\ node.chain[i].body = "whole"
        /\ Extends(SubSeq(node.chain, 1, i - 1), node.chain[i])

\* A catch-up ends: the engine, which ignores every message meanwhile, goes on.
CatchUpEnds == node.catch_up # None ~> node.catch_up = None \/ node.halted

\* A node that is connected to a correct peer gets all blocks, although another
\* peer answers wrongly.
CatchesUp == <>[](~Behind(node) \/ node.halted)

=============================================================================
