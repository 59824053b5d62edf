------------------------------ MODULE Outbound ------------------------------
(***************************************************************************)
(* The outbound loop of a bridge relayer.  It reads the chain's bounded     *)
(* index of burns from its cursor on, files a proposal for each, marks it,  *)
(* signs the proposal, and moves its cursor to the first burn that failed;  *)
(* what failed also enters a queue of retries, which a turn serves after    *)
(* the scan and from which a burn leaves when it succeeds or is given up.   *)
(* At the end of a turn the loop signs what others filed.  The relayer may  *)
(* stop between any two calls: marks, cursor and queue are on disk, the     *)
(* rest is lost.  A call may fail, or succeed and lose its answer.          *)
(*                                                                          *)
(* Burns are numbered from 0.  The node refuses a burn that its index no    *)
(* longer holds.                                                            *)
(***************************************************************************)
EXTENDS Naturals, FiniteSets, FiniteSetsExt, Functions

CONSTANTS
    Cap,            \* MAX_RECENT_BRIDGE_BURNS
    MaxAttempts,    \* MAX_RETRY_ATTEMPTS
    MaxBurns        \* bound: burns

VARIABLES
    next,                   \* the node: the number of burns recorded
    filed, countersigned,   \* the node: burns with a proposal, those this relayer signed
    marked,                 \* the store's marks
    kept, cursor,           \* the cursor: in the store, in memory
    retries,                \* the attempts of each burn in the queue
    poll                    \* the loop's turn

node == <<next, filed, countersigned>>
store == <<marked, kept, retries>>
outbound == <<node, store, cursor, poll>>

ASSUME CapAssumption == Cap \in Nat \ {0}
ASSUME BurnsAssumption == MaxBurns \in Nat

Waiting == [phase |-> "wait", call |-> "read", top |-> 0, todo |-> {}, cur |-> {},
            failed |-> {}]

OutInit ==
    /\ next = 0 /\ filed = {} /\ countersigned = {}
    /\ marked = {} /\ kept = 0 /\ cursor = 0
    /\ retries = <<>>
    /\ poll = Waiting

-----------------------------------------------------------------------------
(* The chain and the other relayers.                                         *)

\* trim_bridge_burn_records leaves the Cap newest.
Oldest == IF next > Cap THEN next - Cap ELSE 0
RecentBurns == {i \in 0 .. next : Oldest <= i /\ i < next}

Burn ==
    /\ next < MaxBurns
    /\ next' = next + 1
    /\ UNCHANGED <<filed, countersigned, store, cursor, poll>>

OtherFiles(i) ==
    /\ i \in RecentBurns \ filed
    /\ filed' = filed \cup {i}
    /\ UNCHANGED <<next, countersigned, store, cursor, poll>>

-----------------------------------------------------------------------------
(* A turn: the scan, the retries, the signatures.                            *)

Due(S) == [Waiting EXCEPT !.phase = "retry", !.todo = S]

OutScan ==
    /\ poll.phase = "wait" /\ cursor >= Oldest
    /\ poll' = [Waiting EXCEPT !.phase = "scan", !.todo = {i \in RecentBurns : i >= cursor},
                               !.top = next]
    /\ UNCHANGED <<node, store, cursor>>

\* A gap below the oldest burn, or a node that is not reached, leaves the cursor
\* where it is; the turn goes on with the retries whose time has come.
OutNoScan(S) ==
    /\ poll.phase = "wait"
    /\ S \subseteq DOMAIN retries
    /\ poll' = Due(S)
    /\ UNCHANGED <<node, store, cursor>>

\* next_cursor_after_partial_failure, and next_cursor, as if nothing had failed.
NextCursorOf(top, failed) == Max({cursor, top})
NextCursor(top, failed) ==
    IF failed = {} THEN Max({cursor, top}) ELSE Max({cursor, Min(failed)})

OutScanned(S) ==
    /\ poll.phase = "scan" /\ poll.todo = {}
    /\ S \subseteq DOMAIN retries
    /\ cursor' = NextCursor(poll.top, poll.failed)
    /\ kept' = cursor'
    /\ poll' = Due(S)
    /\ UNCHANGED <<node, marked, retries>>

\* The loop leaves i: it succeeded, and leaves the queue too, or it failed.  A scan puts
\* what failed in the queue with no attempt counted; a retry counts one more, or moves it to
\* the dead letters, which only the operator reads.
Leave(i, failed) ==
    poll' = [poll EXCEPT !.call = "read", !.cur = {}, !.todo = @ \ {i},
                         !.failed = @ \cup failed]
Removed(i) == Restrict(retries, DOMAIN retries \ {i})
Queued(i, n) == [j \in DOMAIN retries \cup {i} |-> IF j = i THEN n ELSE retries[j]]

Succeeds(i) ==
    /\ Leave(i, {})
    /\ retries' = IF poll.phase = "retry" THEN Removed(i) ELSE retries

Fails(i) ==
    \/ /\ poll.phase = "scan"
       /\ Leave(i, {i})
       /\ retries' = Queued(i, 0)
    \/ /\ poll.phase = "retry" /\ retries[i] + 1 < MaxAttempts
       /\ Leave(i, {})
       /\ retries' = Queued(i, retries[i] + 1)
    \/ /\ poll.phase = "retry" /\ retries[i] + 1 >= MaxAttempts
       /\ Leave(i, {})
       /\ retries' = Removed(i)

\* handle_new_burn, one call at a time: the proposal, the mark, the signature.
OutKnown(i) ==
    /\ i \in marked
    /\ Succeeds(i)
    /\ UNCHANGED <<node, marked, kept, cursor>>

OutFile(i) ==
    /\ i \in RecentBurns \ marked
    /\ filed' = filed \cup {i}
    /\ poll' = [poll EXCEPT !.call = "mark", !.cur = {i}]
    /\ UNCHANGED <<next, countersigned, store, cursor>>

\* The node refuses, is not reached, or its answer is lost.
OutFileFails(i) ==
    /\ i \notin marked
    /\ filed' \in {filed, filed \cup ({i} \cap RecentBurns)}
    /\ Fails(i)
    /\ UNCHANGED <<next, countersigned, marked, kept, cursor>>

OutBurn(i) ==
    /\ poll.call = "read" /\ i \in poll.todo
    /\ OutKnown(i) \/ OutFile(i) \/ OutFileFails(i)

OutMark ==
    /\ poll.call = "mark"
    /\ marked' = marked \cup poll.cur
    /\ poll' = [poll EXCEPT !.call = "sign"]
    /\ UNCHANGED <<node, kept, retries, cursor>>

OutSign(i) ==
    /\ poll.call = "sign" /\ poll.cur = {i}
    /\ i \notin countersigned
    /\ countersigned' = countersigned \cup {i}
    /\ Succeeds(i)
    /\ UNCHANGED <<next, filed, marked, kept, cursor>>

OutSignFails(i) ==
    /\ poll.call = "sign" /\ poll.cur = {i}
    /\ Fails(i)
    /\ UNCHANGED <<node, marked, kept, cursor>>

\* The pending proposals are signed, whoever filed them, as far as the calls succeed.
PendingOfOthers == filed \ (countersigned \cup marked)   \* as if its own were signed
Pending == filed \ countersigned
OutFinish(S) ==
    /\ poll.phase = "retry" /\ poll.call = "read" /\ poll.todo = {}
    /\ S \subseteq Pending
    /\ countersigned' = countersigned \cup S
    /\ poll' = Waiting
    /\ UNCHANGED <<next, filed, store, cursor>>

OutRestart ==
    /\ cursor' = kept
    /\ poll' = Waiting
    /\ UNCHANGED <<node, store>>

Burns == 0 .. MaxBurns - 1
OutTurn ==
    \/ OutScan \/ OutMark
    \/ \E S \in SUBSET Burns : OutNoScan(S) \/ OutScanned(S) \/ OutFinish(S)
    \/ \E i \in Burns : OutBurn(i) \/ OutSign(i) \/ OutSignFails(i)

Chain == Burn \/ \E i \in Burns : OtherFiles(i)

OutNext == OutTurn \/ Chain \/ OutRestart

-----------------------------------------------------------------------------
(* The timer keeps firing and every call returns, with an answer or an error. *)

OutFair == WF_outbound(OutTurn)

\* Steps without a restart and with no call that fails for want of a connection.
OutCalm ==
    \/ Chain \/ OutScan \/ OutMark
    \/ \E S \in SUBSET Burns : (OutNoScan(S) /\ cursor < Oldest) \/ OutScanned(S)
    \/ \E i \in Burns :
          \/ OutBurn(i) /\ (OutFileFails(i) => i \notin RecentBurns)
          \/ OutSign(i) \/ (OutSignFails(i) /\ i \in countersigned)
    \/ OutFinish(Pending)

OutSpec == OutInit /\ [][OutNext]_outbound /\ OutFair

-----------------------------------------------------------------------------
(* Properties.                                                               *)

\* poll_once: the cursor on disk never passes a burn that has no proposal, whatever
\* fails, is retried, is given up or stops in between.
NoBurnSkipped == \A i \in Burns : i < kept => i \in filed

\* Once nothing restarts and all calls get through, a burn is signed by this relayer,
\* unless the chain's index has run away from its cursor: that is left to the operator.
EveryBurnServed ==
    <>[][OutCalm]_outbound =>
        \A i \in Burns : i < next ~> (i \in countersigned \/ cursor < Oldest)
=============================================================================
