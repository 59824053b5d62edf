----------------------------- MODULE MCBftEngine -----------------------------
(* Instances of BftEngine: one engine and its three peers.  A peer         *)
(* proposes in round 0, the engine itself in round 1.                      *)
EXTENDS BftEngine

CONSTANTS A, B, me, p1, p2, p3

Four == {me, p1, p2, p3}
SecondRound == {1}
TwoBlocks == {A, B}
RoundOfHeader == [b \in Blocks |-> IF b = A THEN 0 ELSE 1]

\* How round 0 may have gone so far.  The first two leave the engine in round
\* 0 with a lock, in the second a certificate waits for the last precommit; in
\* the third, nil votes are about to end the round; in the fourth, peers are
\* already in round 1.
Locking == <<Envelope(0, A, -1), Vote(0, "prevote", p1, A), Vote(0, "prevote", p2, A)>>
Certifying == Locking \o <<Vote(0, "precommit", p1, A), Vote(0, "precommit", p2, A)>>
Failing == <<Vote(0, "precommit", p1, Nil), Vote(0, "precommit", p2, Nil),
             Envelope(0, B, -1), Vote(0, "prevote", p1, Nil)>>
Behind == <<Envelope(0, A, -1), Vote(0, "prevote", p1, A), Vote(1, "prevote", p1, A)>>
Beginnings == {<<>>, Locking, Certifying, Failing, Behind}

Played(prefix) ==
    FoldLeft(LAMBDA e, m : Handle(e, m, Normal),
             StartRound([NewEngine EXCEPT !.active = TRUE], 0, Normal), prefix)

PrefixInit ==
    /\ eng \in {NewEngine} \cup {Played(p) : p \in Beginnings}
    /\ buffered = <<>> /\ messages = 0 /\ rebuilds = 0

PrefixSpec == PrefixInit /\ [][Next]_vars
Symmetry == Permutations({p1, p2})

=============================================================================
