----------------------------- MODULE MCBftVoting -----------------------------
(* Instances of BftVoting: four validators, one of them Byzantine.         *)
EXTENDS BftVoting, TLC

CONSTANTS A, B, C

\* C does not execute to its state_root.
MCBlocks == {A, B, C}
MCValidBlocks == {A, B}
MCByzantine == {3}
Symmetry == Permutations({A, B})

\* Round 0 failed halfway: 1, 2 and the Byzantine 3 prevoted A, only 1 saw the
\* quorum and locked A, the prevote timers of 0 and 2 fired.  All three honest
\* validators have gone on to round 1.
LockedInit ==
    /\ round = [n \in Honest |-> 1]
    /\ step = [n \in Honest |-> "Propose"]
    /\ body = [n \in Honest |-> Nil]
    /\ locked = [n \in Honest |-> IF n = 1 THEN Lock(0, A) ELSE NoLock]
    /\ valid = locked
    /\ decided = [n \in Honest |-> Nil]
    /\ signed = [n \in Honest |-> Mark(0, 2, locked[n].hash)]
    /\ proposals = {}
    /\ prevotes = {Vote(0, 0, Nil), Vote(1, 0, A), Vote(2, 0, A)}
    /\ precommits = {Vote(n, 0, locked[n].hash) : n \in Honest}

\* Two rounds from the start, or the two that follow the failed one.
VARIABLE horizon    \* the last round explored
MCInit == (Init /\ horizon = 1) \/ (LockedInit /\ horizon = 2)
MCNext ==
    \/ Next /\ UNCHANGED horizon /\ \A n \in Honest : round'[n] <= horizon
    \/ /\ \A n \in Honest : ~ Running(n) \/ (round[n] = horizon /\ step[n] = "Precommit")
       /\ UNCHANGED <<vars, horizon>>
MCSpec == MCInit /\ [][MCNext]_<<vars, horizon>>

=============================================================================
