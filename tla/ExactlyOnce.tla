---------------------------- MODULE ExactlyOnce ----------------------------
(* What a bridge promises of the claims of one chain on the other: a claim   *)
(* is paid at most once, and only after it has become due.                   *)
EXTENDS Naturals

CONSTANT Claims

VARIABLES owed,     \* the claims that are due
          paid      \* how many times each claim has been paid

once == <<owed, paid>>

Init == owed = {} /\ paid = [c \in Claims |-> 0]

Owe(c) == owed' = owed \cup {c} /\ UNCHANGED paid

Pay(c) ==
    /\ c \in owed
    /\ paid[c] = 0
    /\ paid' = [paid EXCEPT ![c] = 1]
    /\ UNCHANGED owed

Next == \E c \in Claims : Owe(c) \/ Pay(c)

Spec == Init /\ [][Next]_once
=============================================================================
