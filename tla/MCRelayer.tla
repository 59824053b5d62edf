----------------------------- MODULE MCRelayer -----------------------------
(* An instance of the relayer's two loops.  They share no key of the store    *)
(* and never read each other, so a behaviour of both is an interleaving of    *)
(* one of each: leg says which of the two a behaviour shows, and the other    *)
(* loop is off, as the inbound one is in a relayer without Ethereum.          *)
EXTENDS Inbound, Outbound

VARIABLE leg
vars == <<leg, inbound, outbound>>

Init ==
    \/ /\ leg = "inbound" /\ InInit
       /\ next = 0 /\ filed = {} /\ countersigned = {} /\ marked = {}
       /\ kept = 0 /\ cursor = 0 /\ retries = <<>> /\ poll = [Waiting EXCEPT !.phase = "off"]
    \/ /\ leg = "outbound" /\ OutInit
       /\ refused = {} /\ head = 0 /\ block = [d \in Locks |-> 0]
       /\ proposed = {} /\ credited = {} /\ signed = {} /\ handled = {}
       /\ stored = 0 /\ last = 0 /\ pump = [Resting EXCEPT !.at = "off"]

Next ==
    \/ leg = "inbound" /\ InNext /\ UNCHANGED <<leg, outbound>>
    \/ leg = "outbound" /\ OutNext /\ UNCHANGED <<leg, inbound>>

Spec == Init /\ [][Next]_vars /\ InFair /\ OutFair
=============================================================================
