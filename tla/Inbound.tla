------------------------------ MODULE Inbound ------------------------------
(***************************************************************************)
(* The inbound loop of a bridge relayer.  It scans Ethereum up to the       *)
(* confirmed tip in chunks, proposes a mint for each deposit it finds,      *)
(* marks the deposit handled, signs the proposal, and moves its cursor past *)
(* a chunk only when all of it succeeded; a turn ends by storing the cursor *)
(* and signing what others proposed.  The relayer may stop between any two  *)
(* calls: marks and cursor are on disk, the rest is lost.  A call may fail, *)
(* or succeed and lose its answer.                                          *)
(*                                                                          *)
(* Blocks of Ethereum are numbered from 1; cursor 0 stands for no cursor.   *)
(***************************************************************************)
EXTENDS Naturals, FiniteSets, FiniteSetsExt

CONSTANTS
    Locks,          \* the deposits: TokensLocked events
    Depth,          \* confirmation_depth
    Buffer,         \* REORG_BUFFER_BLOCKS
    MaxRange,       \* max_log_range
    Start,          \* start_block
    MaxHead         \* bound: blocks of Ethereum

VARIABLES
    refused,                \* the deposits over MAX_SINGLE_BRIDGE_MINT: the node accepts none
    head, block,            \* Ethereum: its height and each deposit's block, 0 if in none
    proposed, credited,     \* the node: deposits with a proposal, deposits credited
    signed,                 \* the deposits whose proposal this relayer signed
    handled,                \* the store's marks
    stored, last,           \* the cursor: in the store, in memory
    pump                    \* the loop's turn

ethereum == <<refused, head, block>>
disk == <<handled, stored>>
inbound == <<ethereum, proposed, credited, signed, disk, last, pump>>

ASSUME DepthAssumption == Depth \in Nat
\* With a smaller window the next chunk would never reach past the cursor.
ASSUME RangeAssumption == MaxRange \in Nat /\ Buffer \in Nat /\ MaxRange > Buffer
ASSUME StartAssumption == Start \in Nat \ {0}

Monus(a, b) == IF a > b THEN a - b ELSE 0

Resting == [at |-> "rest", latest |-> 0, to |-> 0, todo |-> {}, cur |-> {}, ok |-> TRUE]

InInit ==
    /\ refused \in SUBSET Locks
    /\ head = 0 /\ block = [d \in Locks |-> 0]
    /\ proposed = {} /\ credited = {} /\ signed = {}
    /\ handled = {} /\ stored = 0 /\ last = 0
    /\ pump = Resting

-----------------------------------------------------------------------------
(* Ethereum, the other relayers and the chain.                               *)

\* is_confirmed.
Confirmed(b, latest) == Monus(latest, b) >= Depth
Final(d) == block[d] # 0 /\ Confirmed(block[d], head)

Mine(S) ==
    /\ head < MaxHead
    /\ \A d \in S : block[d] = 0
    /\ head' = head + 1
    /\ block' = [d \in Locks |-> IF d \in S THEN head + 1 ELSE block[d]]
    /\ UNCHANGED <<refused, proposed, credited, signed, disk, last, pump>>

\* A deposit that is not confirmed yet changes its block, or is in none.
Reorg(d) ==
    /\ block[d] # 0 /\ ~Final(d)
    /\ \E b \in {0} \cup (Monus(head + 1, Depth) .. head) :
          b # block[d] /\ block' = [block EXCEPT ![d] = b]
    /\ UNCHANGED <<refused, head, proposed, credited, signed, disk, last, pump>>

\* Another relayer, with a confirmation depth of its own, proposes a deposit.
OtherProposes(d) ==
    /\ block[d] # 0 /\ d \notin refused \cup proposed
    /\ proposed' = proposed \cup {d}
    /\ UNCHANGED <<ethereum, credited, signed, disk, last, pump>>

\* The quorum has signed, each member after looking at Ethereum, and the chain mints.
Minted(d) ==
    /\ d \in proposed \ credited /\ Final(d)
    /\ credited' = credited \cup {d}
    /\ UNCHANGED <<ethereum, proposed, signed, disk, last, pump>>

-----------------------------------------------------------------------------
(* A turn.                                                                   *)

\* catch_up_range, as the blocks it names: none when none is confirmed.
First == IF last = 0 THEN Start ELSE Monus(last + 1, Buffer)
ChunkShort(latest) ==   \* as a range would whose end is off by one
    IF latest < Depth THEN {} ELSE First .. Min({latest - Depth, First + MaxRange - 2})
Chunk(latest) ==
    IF latest < Depth THEN {} ELSE First .. Min({latest - Depth, First + MaxRange - 1})

InPoll ==
    /\ pump.at = "rest"
    /\ pump' = [Resting EXCEPT !.at = "scan", !.latest = head]
    /\ UNCHANGED <<ethereum, proposed, credited, signed, disk, last>>

\* The logs of the next chunk.
InFetch ==
    /\ pump.at = "scan" /\ Chunk(pump.latest) # {}
    /\ pump' = [pump EXCEPT
                   !.at = "events", !.to = Max(Chunk(pump.latest)),
                   !.todo = {d \in Locks : /\ block[d] \in Chunk(pump.latest) \ {0}
                                           /\ Confirmed(block[d], pump.latest)}]
    /\ UNCHANGED <<ethereum, proposed, credited, signed, disk, last>>

\* The provider's error ends the turn without storing the cursor.
InFetchFails ==
    /\ pump.at = "scan" /\ Chunk(pump.latest) # {}
    /\ pump' = Resting
    /\ UNCHANGED <<ethereum, proposed, credited, signed, disk, last>>

InUpToDate ==
    /\ pump.at = "scan" /\ Chunk(pump.latest) = {}
    /\ pump' = [pump EXCEPT !.at = "finish"]
    /\ UNCHANGED <<ethereum, proposed, credited, signed, disk, last>>

\* The loop leaves d; the chunk has failed if d has.
Past(d, ok) ==
    [pump EXCEPT !.at = "events", !.todo = @ \ {d}, !.cur = {}, !.ok = @ /\ ok]

\* handle_confirmed_deposit, one call at a time: the proposal, the mark, the signature.
InKnown(d) ==
    /\ d \in handled
    /\ pump' = Past(d, TRUE)
    /\ UNCHANGED <<ethereum, proposed, credited, signed, disk, last>>

\* The node answers with the deposit's proposal, new or not.
InPropose(d) ==
    /\ d \notin handled \cup refused
    /\ proposed' = proposed \cup {d}
    /\ pump' = [pump EXCEPT !.at = "mark", !.cur = {d}]
    /\ UNCHANGED <<ethereum, credited, signed, disk, last>>

\* The node has forgotten the proposal it executed and says so: that is no failure.
InExecuted(d) ==
    /\ d \in credited \ handled
    /\ handled' = handled \cup {d}
    /\ pump' = Past(d, TRUE)
    /\ UNCHANGED <<ethereum, proposed, credited, signed, stored, last>>

\* The node refuses, is not reached, or its answer is lost.
InProposeFails(d) ==
    /\ d \notin handled
    /\ pump' = Past(d, FALSE)
    /\ proposed' \in {proposed, proposed \cup ({d} \ refused)}
    /\ UNCHANGED <<ethereum, credited, signed, disk, last>>

InEvent(d) ==
    /\ pump.at = "events" /\ d \in pump.todo
    /\ InKnown(d) \/ InPropose(d) \/ InExecuted(d) \/ InProposeFails(d)

InMark ==
    /\ pump.at = "mark"
    /\ handled' = handled \cup pump.cur
    /\ pump' = [pump EXCEPT !.at = "sign"]
    /\ UNCHANGED <<ethereum, proposed, credited, signed, stored, last>>

InSign(d) ==
    /\ pump.at = "sign" /\ pump.cur = {d}
    /\ d \notin signed \cup credited
    /\ signed' = signed \cup {d}
    /\ pump' = Past(d, TRUE)
    /\ UNCHANGED <<ethereum, proposed, credited, disk, last>>

\* The node is not reached, has minted, or holds this relayer's signature already.
InSignFails(d) ==
    /\ pump.at = "sign" /\ pump.cur = {d}
    /\ pump' = Past(d, FALSE)
    /\ UNCHANGED <<ethereum, proposed, credited, signed, disk, last>>

\* As a loop would that moves its cursor whatever failed.
InChunkPassed ==
    /\ pump.at = "events" /\ pump.todo = {}
    /\ last' = pump.to
    /\ pump' = [pump EXCEPT !.at = IF last # pump.to THEN "scan" ELSE "finish"]
    /\ UNCHANGED <<ethereum, proposed, credited, signed, disk>>

\* The cursor moves in memory; a turn ends when a chunk failed or was not new.
InChunkDone ==
    /\ pump.at = "events" /\ pump.todo = {}
    /\ last' = IF pump.ok THEN pump.to ELSE last
    /\ pump' = [pump EXCEPT !.at = IF pump.ok /\ last # pump.to THEN "scan" ELSE "finish"]
    /\ UNCHANGED <<ethereum, proposed, credited, signed, disk>>

\* The cursor is stored; then the pending proposals that Ethereum confirms are signed,
\* whoever proposed them, as far as the calls succeed.
VerifiedMined(d) == block[d] # 0   \* as a check would that forgets the depth
Verified(d) == Final(d)
Unsigned == {d \in proposed \ (credited \cup signed) : Verified(d)}
InFinish(S) ==
    /\ pump.at = "finish"
    /\ stored' = IF last = 0 THEN stored ELSE last
    /\ S \subseteq Unsigned
    /\ signed' = signed \cup S
    /\ pump' = Resting
    /\ UNCHANGED <<ethereum, proposed, credited, handled, last>>

\* A restart reads the cursor, or starts over with reset_inbound_cursor.
InRestart ==
    /\ last' \in {stored, 0}
    /\ pump' = Resting
    /\ UNCHANGED <<ethereum, proposed, credited, signed, disk>>

InTurn ==
    \/ InPoll \/ InFetch \/ InFetchFails \/ InUpToDate
    \/ \E d \in Locks : InEvent(d) \/ InSign(d) \/ InSignFails(d)
    \/ InMark \/ InChunkDone
    \/ \E S \in SUBSET Locks : InFinish(S)

World ==
    \/ \E S \in SUBSET Locks : Mine(S)
    \/ \E d \in Locks : Reorg(d) \/ OtherProposes(d) \/ Minted(d)

InNext == InTurn \/ World \/ InRestart

-----------------------------------------------------------------------------
(* The timer keeps firing and every call returns, with an answer or an error. *)

InFair == WF_inbound(InTurn)

\* Steps without a restart and with no call that fails for want of a connection.
InCalm ==
    \/ World \/ InPoll \/ InFetch \/ InUpToDate \/ InMark \/ InChunkDone
    \/ \E d \in Locks :
          \/ InEvent(d) /\ (InProposeFails(d) => d \in refused)
          \/ InSign(d) \/ (InSignFails(d) /\ d \in signed \cup credited)
    \/ InFinish(Unsigned)

InSpec == InInit /\ [][InNext]_inbound /\ InFair

-----------------------------------------------------------------------------
(* Properties.                                                               *)

\* pump_once: the cursor on disk never passes a deposit that is not proposed, whatever
\* fails, is lost, is reorganised or stops in between.
NothingSkipped ==
    \A d \in Locks :
        Final(d) /\ block[d] \in Start .. stored => d \in proposed \cup credited

\* Neither its own scan nor what others propose makes this relayer sign for a deposit
\* that Ethereum may still take back.
SignedIsFinal == \A d \in signed : Final(d)

\* Once nothing restarts and all calls get through, a final deposit is signed by this
\* relayer or already minted, unless the node refuses one of an earlier block: that one
\* holds the cursor.
HeldUp(d) == \E r \in refused : Final(r) /\ block[r] < block[d]
Served == \A d \in Locks :
    Final(d) /\ block[d] >= Start ~> d \in signed \cup credited \cup refused \/ HeldUp(d)
EveryDepositServed == <>[][InCalm]_inbound => Served
=============================================================================
