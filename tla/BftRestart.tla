----------------------------- MODULE BftRestart -----------------------------
(***************************************************************************)
(* BftVoting with engines that are rebuilt in the middle of a height:      *)
(* consensus_driver.rs builds a new BftEngine from the committed tip after *)
(* a node restart and whenever finish_catch_up runs, also when the sync    *)
(* attempt applied no block.  Everything BftEngine::new does not receive   *)
(* is gone; only the DoubleSignProtector's file survives.                  *)
(***************************************************************************)
EXTENDS BftVoting

CONSTANT MaxRebuilds   \* bound: engines rebuilt at this height, in total
ASSUME RebuildAssumption == MaxRebuilds \in Nat

VARIABLE rebuilds      \* how many have been rebuilt

restartVars == <<vars, rebuilds>>

\* build_engine at an unchanged tip: round 0, no lock, no valid value, no
\* books; the watermark is loaded from disk.
Rebuild(n) ==
    /\ Running(n) /\ rebuilds < MaxRebuilds
    /\ rebuilds' = rebuilds + 1
    /\ round' = [round EXCEPT ![n] = 0]
    /\ step' = [step EXCEPT ![n] = "Propose"]
    /\ body' = [body EXCEPT ![n] = Nil]
    /\ locked' = [locked EXCEPT ![n] = NoLock]
    /\ valid' = [valid EXCEPT ![n] = NoLock]
    /\ UNCHANGED <<decided, signed, proposals, prevotes, precommits>>

RestartInit == Init /\ rebuilds = 0

RestartNext ==
    \/ Next /\ UNCHANGED rebuilds
    \/ \E n \in Honest : Rebuild(n)

RestartSpec == RestartInit /\ [][RestartNext]_restartVars

-----------------------------------------------------------------------------
\* (round, step) lies below the watermark, or it is the watermark.
Covered(mark, r, s, h) ==
    \/ mark.round > r
    \/ mark.round = r /\ mark.step > s
    \/ mark = Mark(r, s, h)

\* Every vote ever broadcast lies under its validator's persisted watermark:
\* allow() writes first and signs afterwards, across any number of rebuilds.
WatermarkCovers ==
    /\ \A v \in prevotes : Covered(signed[v.src], v.round, 1, v.hash)
    /\ \A v \in precommits : Covered(signed[v.src], v.round, 2, v.hash)

=============================================================================
