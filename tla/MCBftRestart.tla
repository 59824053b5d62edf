---------------------------- MODULE MCBftRestart ----------------------------
(* Instances of BftRestart: four validators, none or one of them Byzantine. *)
EXTENDS BftRestart, TLC

CONSTANTS A, B

MCBlocks == {A, B}
NoByzantine == {}
OneByzantine == {3}
Symmetry == Permutations({A, B})

\* Round 0 after it went well: every validator prevoted A on the proposal of
\* validator 0; 0, 1 and 2 have locked and precommitted it and 0 has committed
\* it, while the prevote timer of 3 fired before the prevotes reached it.
Lockers == 0 .. 2
CertifiedInit ==
    /\ round = [n \in Honest |-> 0]
    /\ step = [n \in Honest |-> "Precommit"]
    /\ body = [n \in Honest |-> A]
    /\ locked = [n \in Honest |-> IF n \in Lockers THEN Lock(0, A) ELSE NoLock]
    /\ valid = locked
    /\ decided = [n \in Honest |-> IF n = 0 THEN A ELSE Nil]
    /\ signed = [n \in Honest |-> Mark(0, 2, IF n \in Lockers THEN A ELSE Nil)]
    /\ proposals = {Envelope(0, A, NoRound)}
    /\ prevotes = {Vote(n, 0, A) : n \in Honest}
    /\ precommits = {Vote(n, 0, signed[n].hash) : n \in Honest}
    /\ rebuilds = 0

CertifiedSpec == CertifiedInit /\ [][RestartNext]_restartVars

=============================================================================
