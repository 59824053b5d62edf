--------------------------- MODULE Network_proofs ---------------------------
(***************************************************************************)
(* The network service for any number of peers, addresses, connections and *)
(* messages: what its counters count, and what a node that catches up may  *)
(* commit.                                                                 *)
(*                                                                         *)
(* QuotaExact is inductive but for the types of what it counts: that a new *)
(* connection is not among the established ones, so that it is counted     *)
(* once, follows from libp2p's limit of two for each node (HasRoom).       *)
(*                                                                         *)
(* CommittedIsCertified needs to know what can wait in `inbound`: blocks   *)
(* that a peer may have altered, but blocks.  CatchInv says that, of the   *)
(* committed chain that it is linked without gaps (Sound), and of the      *)
(* rest of the node as much as the handlers compute with.  The handlers    *)
(* yield sets of nodes, so its part about the node is a predicate of a     *)
(* node (NodeOk) that each handler is shown to keep.                       *)
(***************************************************************************)
EXTENDS CatchUp, Connections, FiniteSetTheorems, SequenceTheorems, WellFoundedInduction, TLAPS

-----------------------------------------------------------------------------
(* Connections.                                                            *)

\* QuotaExact, with the types of connections and of the counter of each IP.
ConnInv ==
    /\ IsFiniteSet(conns) /\ connIp \subseteq conns
    /\ \A c \in conns : c.ip \in Ips \cup {Nobody}
    /\ \A c \in connIp : c.ip # Nobody
    /\ ipCount \in [Ips -> Nat]
    /\ \A i \in Ips : ipCount[i] = Cardinality({c \in connIp : c.ip = i})
    /\ \A c \in conns \ closing : c.ip # Nobody => c \in connIp
    /\ \A p \in connected : \E c \in Of(p) : c.ip = Nobody \/ c \in connIp

\* libp2p gives a new connection an identity of its own.
LEMMA ConnectionIsNew ==
    ASSUME IsFiniteSet(conns), NEW p, NEW ip, NEW out, HasRoom(p, out)
    PROVE  Connection(p, ip, out) \notin conns
<1> DEFINE free(n) == \A c \in Of(p) : c.n # n
           new == Connection(p, ip, out)
<1>1. \E n \in {1, 2} : free(n)
  <2> SUFFICES ASSUME ~ free(1), ~ free(2) PROVE FALSE
    OBVIOUS
  <2>1. PICK a \in Of(p), b \in Of(p) : a.n = 1 /\ b.n = 2
    OBVIOUS
  <2>2. IsFiniteSet(Of(p)) /\ {a, b} \in SUBSET Of(p)
    BY <2>1, FS_Subset DEF Of
  <2>3. IsFiniteSet({a, b}) /\ Cardinality({a, b}) = 2
    <3>1. IsFiniteSet({a}) /\ Cardinality({a}) = 1
      BY FS_Singleton
    <3>2. b \notin {a} /\ {a} \cup {b} = {a, b}
      BY <2>1
    <3>3. IsFiniteSet({a} \cup {b}) /\ Cardinality({a} \cup {b}) = 1 + 1
      BY <3>1, <3>2, FS_AddElement
    <3>4. QED
      BY <3>2, <3>3
  <2>4. 2 <= Cardinality(Of(p)) /\ Cardinality(Of(p)) \in Nat
    BY <2>2, <2>3, FS_Subset, FS_CardinalityType
  <2>5. Cardinality(Of(p)) < 2
    BY DEF HasRoom
  <2>6. QED
    BY <2>4, <2>5
<1>2. free(new.n) /\ new.peer = p
  BY <1>1 DEF Connection
<1>3. QED
  BY <1>2 DEF Of

\* ConnectionEstablished, admitted and counted or refused and to be closed.
LEMMA EstablishedKeeps ==
    ASSUME ConnInv, NEW c, c \notin conns, c.ip \in Ips \cup {Nobody}, OnEstablished(c)
    PROVE  ConnInv'
<1>1. conns' = conns \cup {c} /\ IsFiniteSet(conns')
  BY FS_AddElement DEF ConnInv, OnEstablished
<1>2. \A d \in conns' : d.ip \in Ips \cup {Nobody}
  BY <1>1 DEF ConnInv
<1>3. \A p : Of(p) \subseteq Of(p)'
  BY <1>1 DEF Of
<1>4. CASE ~ Admitted(c)
  <2>1. UNCHANGED <<connIp, ipCount, connected>> /\ closing' = closing \cup {c}
    BY <1>4 DEF OnEstablished, counters
  <2>2. \A d \in conns' \ closing' : d \in conns \ closing
    BY <1>1, <2>1
  <2>3. QED
    BY <1>1, <1>2, <1>3, <2>1, <2>2 DEF ConnInv
<1>5. CASE Admitted(c)
  <2>1. Counted(c) /\ connected' = connected \cup {c.peer} /\ closing' = closing
    BY <1>5 DEF OnEstablished, ConnInv
  <2>2. CASE c.ip = Nobody
    <3>1. UNCHANGED <<connIp, ipCount>>
      BY <2>1, <2>2 DEF Counted
    <3>2. \A p \in connected' : \E d \in Of(p)' : d.ip = Nobody \/ d \in connIp'
      <4>1. c \in Of(c.peer)'
        BY <1>1 DEF Of
      <4>2. QED
        BY <1>3, <2>1, <2>2, <3>1, <4>1 DEF ConnInv
    <3>3. QED
      BY <1>1, <1>2, <2>1, <2>2, <3>1, <3>2 DEF ConnInv
  <2>3. CASE c.ip # Nobody
    <3>1. connIp' = connIp \cup {c} /\ ipCount' = [ipCount EXCEPT ![c.ip] = @ + 1] /\ c.ip \in Ips
      BY <2>1, <2>3 DEF Counted
    <3>2. ipCount' \in [Ips -> Nat]
      BY <3>1 DEF ConnInv
    <3>3. ASSUME NEW i \in Ips
          PROVE  ipCount'[i] = Cardinality({d \in connIp' : d.ip = i})
      <4> DEFINE S == {d \in connIp : d.ip = i}
                 T == {d \in connIp' : d.ip = i}
      <4>1. IsFiniteSet(S) /\ c \notin S
        <5>1. S \subseteq conns
          BY DEF ConnInv
        <5>2. QED
          BY <5>1, FS_Subset DEF ConnInv
      <4>2. ipCount[i] = Cardinality(S) /\ ipCount[i] \in Nat
        BY DEF ConnInv
      <4>3. CASE i = c.ip
        <5>1. T = S \cup {c}
          BY <3>1, <4>3
        <5> HIDE DEF S, T
        <5>2. Cardinality(T) = Cardinality(S) + 1
          BY <4>1, <5>1, FS_AddElement
        <5>3. ipCount'[i] = ipCount[i] + 1
          BY <3>1, <4>3 DEF ConnInv
        <5>4. QED
          BY <4>2, <5>2, <5>3 DEF T
      <4>4. CASE i # c.ip
        <5>1. T = S
          BY <3>1, <4>4
        <5>2. ipCount'[i] = ipCount[i]
          BY <3>1, <4>4 DEF ConnInv
        <5> HIDE DEF S, T
        <5>3. QED
          BY <4>2, <5>1, <5>2 DEF T
      <4>5. QED
        BY <4>3, <4>4
    <3>4. \A p \in connected' : \E d \in Of(p)' : d.ip = Nobody \/ d \in connIp'
      <4>1. c \in Of(c.peer)'
        BY <1>1 DEF Of
      <4>2. QED
        BY <1>3, <2>1, <3>1, <4>1 DEF ConnInv
    <3>5. QED
      BY <1>1, <1>2, <2>1, <2>3, <3>1, <3>2, <3>3, <3>4 DEF ConnInv
  <2>4. QED
    BY <2>2, <2>3
<1>6. QED
  BY <1>4, <1>5

\* ConnectionClosed gives back what was counted, and nothing else.
LEMMA ClosedKeeps ==
    ASSUME ConnInv, NEW c \in conns, Closed(c)
    PROVE  ConnInv'
<1>1. /\ conns' = conns \ {c} /\ closing' = closing \ {c} /\ connIp' = connIp \ {c}
      /\ connected' = connected \ {c.peer}
  BY DEF Closed, Uncounted
<1>2. IsFiniteSet(conns')
  BY <1>1, FS_RemoveElement DEF ConnInv
<1>3. ipCount' = IF c \in connIp THEN [ipCount EXCEPT ![c.ip] = @ - 1] ELSE ipCount
  BY DEF Closed, Uncounted
<1>4. ASSUME NEW i \in Ips
      PROVE  ipCount'[i] = Cardinality({d \in connIp' : d.ip = i}) /\ ipCount'[i] \in Nat
  <2> DEFINE S == {d \in connIp : d.ip = i}
             T == {d \in connIp' : d.ip = i}
  <2>1. IsFiniteSet(S)
    <3>1. S \subseteq conns
      BY DEF ConnInv
    <3>2. QED
      BY <3>1, FS_Subset DEF ConnInv
  <2>2. ipCount[i] = Cardinality(S) /\ ipCount[i] \in Nat
    BY DEF ConnInv
  <2>3. CASE c \in connIp /\ i = c.ip
    <3>1. T = S \ {c} /\ c \in S
      BY <1>1, <2>3
    <3>2. ipCount'[i] = ipCount[i] - 1
      BY <1>3, <2>3 DEF ConnInv
    <3> HIDE DEF S, T
    <3>3. IsFiniteSet(T) /\ Cardinality(T) = Cardinality(S) - 1
      BY <2>1, <3>1, FS_RemoveElement
    <3>4. Cardinality(T) \in Nat
      BY <3>3, FS_CardinalityType
    <3>5. QED
      BY <2>2, <3>2, <3>3, <3>4 DEF T
  <2>4. CASE ~ (c \in connIp /\ i = c.ip)
    <3>1. T = S
      BY <1>1, <2>4
    <3>2. ipCount'[i] = ipCount[i]
      BY <1>3, <2>4 DEF ConnInv
    <3> HIDE DEF S, T
    <3>3. QED
      BY <2>2, <3>1, <3>2 DEF T
  <2>5. QED
    BY <2>3, <2>4
<1>5. ipCount' \in [Ips -> Nat]
  <2>1. ipCount' = [i \in Ips |-> ipCount'[i]]
    BY <1>3 DEF ConnInv
  <2>2. QED
    BY <1>4, <2>1
<1>6. \A p \in connected' : \E d \in Of(p)' : d.ip = Nobody \/ d \in connIp'
  <2> SUFFICES ASSUME NEW p \in connected'
               PROVE  \E d \in Of(p)' : d.ip = Nobody \/ d \in connIp'
    OBVIOUS
  <2>1. PICK d \in Of(p) : d.ip = Nobody \/ d \in connIp
    BY <1>1 DEF ConnInv
  <2>2. p # c.peer /\ d # c
    BY <1>1, <2>1 DEF Of
  <2>3. d \in Of(p)'
    BY <1>1, <2>2 DEF Of
  <2>4. QED
    BY <1>1, <2>1, <2>2, <2>3
<1>7. QED
  BY <1>1, <1>2, <1>4, <1>5, <1>6 DEF ConnInv

\* Before the first event nothing is counted.
LEMMA ConnStarts == ConnInit => ConnInv
BY FS_EmptySet DEF ConnInit, ConnInv

\* The other handlers leave the counters and what they count alone.
LEMMA ConnStep == ConnInv /\ [ConnNext]_connections => ConnInv'
<1> SUFFICES ASSUME ConnInv, [ConnNext]_connections PROVE ConnInv'
  OBVIOUS
<1>1. CASE UNCHANGED <<conns, closing, counters>>
  BY <1>1 DEF ConnInv, counters, Of
<1>2. ASSUME NEW a \in Addresses, Answered(a) PROVE ConnInv'
  <2> DEFINE p == AddrHost[a]
             c == Connection(p, AddrIp[a], TRUE)
  <2>1. CASE HasRoom(p, TRUE) /\ OnEstablished(c)
    <3>1. c.ip \in Ips \cup {Nobody}
      BY DEF Connection, Ips
    <3>2. c \notin conns
      BY <2>1, ConnectionIsNew DEF ConnInv
    <3> HIDE DEF c
    <3>3. QED
      BY <2>1, <3>1, <3>2, EstablishedKeeps
  <2>2. QED
    BY <1>1, <1>2, <2>1 DEF Answered
<1>3. ASSUME NEW p \in Remotes, Incoming(p) PROVE ConnInv'
  <2> DEFINE c == Connection(p, IpOf[p], FALSE)
  <2>1. c.ip \in Ips \cup {Nobody}
    BY DEF Connection, Ips
  <2>2. c \notin conns
    BY <1>3, ConnectionIsNew DEF ConnInv, Incoming
  <2>3. OnEstablished(c)
    BY <1>3 DEF Incoming
  <2> HIDE DEF c
  <2>4. QED
    BY <2>1, <2>2, <2>3, EstablishedKeeps
<1>4. ASSUME NEW p \in Remotes, Ban(p) PROVE ConnInv'
  <2>1. closing \subseteq closing' /\ UNCHANGED <<conns, counters>>
    BY <1>4 DEF Ban
  <2>2. QED
    BY <2>1 DEF ConnInv, counters, Of
<1>5. ASSUME NEW c \in conns, Closed(c) PROVE ConnInv'
  BY <1>5, ClosedKeeps
<1>6. ASSUME NEW a \in Addresses, DialFailed(a) PROVE ConnInv'
  BY <1>1, <1>6 DEF DialFailed
<1>7. ASSUME NEW v \in DOMAIN Sentries, Announce(v) PROVE ConnInv'
  BY <1>1, <1>7 DEF Announce
<1>8. ASSUME NEW S, Expire(S) PROVE ConnInv'
  BY <1>1, <1>8 DEF Expire
<1>9. ASSUME NEW S, RedialTick(S) PROVE ConnInv'
  <2>1. UNCHANGED <<conns, closing, counters>>
    BY <1>9, Zenon DEF RedialTick
  <2>2. QED
    BY <1>1, <2>1
<1>10. CASE UNCHANGED connections
  BY <1>1, <1>10 DEF connections
<1>11. QED
  BY <1>2, <1>3, <1>4, <1>5, <1>6, <1>7, <1>8, <1>9, <1>10 DEF ConnNext, Validators

\* ip_counts is the number of admitted connections of each IP, whatever is refused,
\* banned, lost or closed and in whatever order libp2p reports it.
THEOREM QuotaExactHolds == ConnSpec => []QuotaExact
<1>1. ConnInv => QuotaExact
  BY DEF ConnInv, QuotaExact
<1> QED
  BY <1>1, ConnStarts, ConnStep, PTL DEF ConnSpec

-----------------------------------------------------------------------------
(* Catching up.                                                            *)

\* A block as it may arrive, and what may wait for the driver.
Received == [height : Int, branch : {"main", "rival"}, certified : BOOLEAN,
             body : {"whole", "altered", "lacking"}]

Messages ==
    [type : {"AheadHint"}, height : Int]
        \cup [type : {"PeerStatus"}, peer : Peers, tip : 0..MaxHeight]
        \cup [type : {"SyncFailed", "PeerGone", "NotAvailable"}, peer : Peers]
        \cup [type : {"SyncBlocks"}, peer : Peers, blocks : Seq(Received)]
        \cup [type : {"SyncNoPeer"}]

\* The fields of the driver's and the service's state.
NodeFields == {"chain", "gate", "peer_tips", "catch_up", "bad_peers", "inbound", "connected",
               "pending_sync2", "queries", "rejects", "banned", "halted"}

\* A chain of certified, replayable blocks numbered from 1, without a rival below
\* a block of the main history.
Sound(c) ==
    /\ c \in Seq(Received)
    /\ \A i \in 1..Len(c) :
          /\ c[i].certified /\ c[i].body = "whole" /\ c[i].height = i
          /\ c[i].branch = "main" => \A j \in 1..(i - 1) : c[j].branch = "main"

\* What a catch-up computes with.
Under(cu) == DOMAIN cu = {"peer", "target", "expected_first"} /\ cu.target \in Int

\* What every handler keeps of the node.
NodeOk(n) ==
    /\ DOMAIN n = NodeFields
    /\ Sound(n.chain)
    /\ n.peer_tips \in [Peers -> Unknown..MaxHeight]
    /\ n.inbound \in Seq(Messages)
    /\ n.catch_up # None => Under(n.catch_up)
    /\ n.pending_sync2 # None => n.pending_sync2.from \in Int /\ n.pending_sync2.to \in Int

\* The inductive invariant of the catch-up.
CatchInv == NodeOk(node) /\ height \in [Peers -> 0..MaxHeight]

\* A set of integers that is bounded has a largest.
LEMMA MaxOfBounded ==
    ASSUME NEW S \in SUBSET Int, S # {}, NEW b \in Int, \A x \in S : x <= b
    PROVE  Max(S) \in S /\ \A y \in S : Max(S) >= y
<1> DEFINE R == OpToRel(<, Nat)
           D == {b - x : x \in S}
<1>1. IsWellFoundedOn(R, Nat)
  BY NatLessThanWellFounded, Zenon
<1>2. R = {p \in Nat \X Nat : p[1] < p[2]}
  BY Zenon DEF OpToRel
<1>3. D \subseteq Nat /\ D # {}
  <2>1. \A x \in S : b - x \in Nat
    OBVIOUS
  <2>2. QED
    BY <2>1
<1> HIDE DEF R
<1>4. PICK m \in D : \A k \in D : <<k, m>> \notin R
  <2> HIDE DEF D
  <2> QED  BY <1>1, <1>3, WFMin
<1>5. \A k \in D : m <= k
  <2> HIDE DEF D
  <2>1. \A k \in D : k \in Nat /\ m \in Nat /\ ~ (k < m)
    BY <1>2, <1>3, <1>4
  <2> QED  BY <2>1
<1>6. PICK x \in S : m = b - x
  OBVIOUS
<1>7. \A y \in S : x >= y
  <2> SUFFICES ASSUME NEW y \in S PROVE x >= y
    OBVIOUS
  <2>1. m <= b - y
    BY <1>5
  <2>2. QED
    BY <1>6, <2>1
<1>8. QED
  BY <1>7 DEF Max

\* The smallest of two and of three.
LEMMA MinOfTwo ==
    ASSUME NEW a \in Int, NEW b \in Int
    PROVE  Min({a, b}) \in {a, b} /\ Min({a, b}) <= a /\ Min({a, b}) <= b
BY DEF Min

\* And the least of three numbers.
LEMMA MinOfThree ==
    ASSUME NEW a \in Int, NEW b \in Int, NEW c \in Int
    PROVE  Min({a, b, c}) \in Int
<1>1. \E m \in {a, b, c} : \A y \in {a, b, c} : m <= y
  OBVIOUS
<1>2. Min({a, b, c}) \in {a, b, c}
  BY <1>1 DEF Min
<1>3. QED
  BY <1>2

\* Of a batch, only the blocks that were checked against the chain they extend are
\* committed (apply_synced_block), up to the first that was not.
LEMMA AppliedSound ==
    ASSUME NEW c, Sound(c), NEW blocks \in Seq(Received)
    PROVE  Sound(Applied(c, blocks).chain)
<1> DEFINE outcome(i) == ApplySyncedBlock(c \o SubSeq(blocks, 1, i - 1), blocks[i])
           S == {j \in 0..Len(blocks) : \A i \in 1..j : outcome(i) = "committed"}
           k == Max(S)
           d == c \o SubSeq(blocks, 1, k)
<1>1. Applied(c, blocks).chain = d
  BY DEF Applied
<1>2. k \in 0..Len(blocks) /\ \A i \in 1..k : outcome(i) = "committed"
  <2>1. Len(blocks) \in Nat
    OBVIOUS
  <2>2. S \in SUBSET Int /\ 0 \in S /\ \A x \in S : x <= Len(blocks)
    BY <2>1
  <2>3. k \in S
    <3> DEFINE l == Len(blocks)
    <3>1. S \in SUBSET Int /\ S # {} /\ l \in Int /\ \A x \in S : x <= l
      BY <2>1, <2>2
    <3> HIDE DEF S, l
    <3> QED  BY <3>1, MaxOfBounded
  <2>4. QED
    BY <2>3
<1> HIDE DEF k, S
<1>3. c \in Seq(Received) /\ Len(c) \in Nat
  BY DEF Sound
<1>4. d \in Seq(Received) /\ Len(d) = Len(c) + k
  BY <1>2, <1>3
<1>5. /\ \A i \in 1..Len(c) : d[i] = c[i]
      /\ \A i \in 1..k : d[Len(c) + i] = blocks[i]
  BY <1>2, <1>3
<1>6. ASSUME NEW i \in 1..k
      PROVE  /\ blocks[i].certified /\ blocks[i].body = "whole"
             /\ blocks[i].height = Len(c) + i
             /\ blocks[i].branch = "main" => \A j \in 1..(Len(c) + i - 1) : d[j].branch = "main"
  <2> DEFINE e == c \o SubSeq(blocks, 1, i - 1)
  <2>1. outcome(i) = "committed"
    BY <1>2
  <2>2. Extends(e, blocks[i]) /\ blocks[i].certified /\ blocks[i].body \notin {"altered", "lacking"}
    BY <2>1 DEF ApplySyncedBlock
  <2>3. blocks[i] \in Received
    BY <1>2
  <2>4. e \in Seq(Received) /\ Len(e) = Len(c) + i - 1
    BY <1>2, <1>3
  <2>5. \A j \in 1..(Len(c) + i - 1) : e[j] = d[j]
    BY <1>2, <1>3
  <2> HIDE DEF e, d
  <2>6. /\ blocks[i].height = Len(e) + 1
        /\ blocks[i].branch = "main" => \A j \in 1..(Len(c) + i - 1) : e[j].branch = "main"
    BY <2>2, <2>4 DEF Extends
  <2>7. blocks[i].certified /\ blocks[i].body = "whole" /\ blocks[i].height = Len(c) + i
    BY <1>3, <2>2, <2>3, <2>4, <2>6 DEF Received
  <2>8. QED
    BY <2>5, <2>6, <2>7
<1> HIDE DEF d
<1>7. \A i \in 1..Len(d) : i \in 1..Len(c) \/ \E j \in 1..k : i = Len(c) + j
  <2> SUFFICES ASSUME NEW i \in 1..Len(d), i \notin 1..Len(c)
               PROVE  \E j \in 1..k : i = Len(c) + j
    OBVIOUS
  <2>1. i - Len(c) \in 1..k /\ i = Len(c) + (i - Len(c))
    BY <1>2, <1>3, <1>4
  <2> QED  BY <2>1
<1>8. ASSUME NEW i \in 1..Len(d)
      PROVE  /\ d[i].certified /\ d[i].body = "whole" /\ d[i].height = i
             /\ d[i].branch = "main" => \A j \in 1..(i - 1) : d[j].branch = "main"
  <2>1. CASE i \in 1..Len(c)
    <3>1. d[i] = c[i] /\ \A j \in 1..(i - 1) : d[j] = c[j]
      BY <1>3, <1>5, <2>1
    <3>2. QED
      BY <2>1, <3>1 DEF Sound
  <2>2. CASE \E j \in 1..k : i = Len(c) + j
    <3>1. PICK j \in 1..k : i = Len(c) + j
      BY <2>2
    <3>2. d[i] = blocks[j]
      BY <1>5, <3>1
    <3>3. QED
      BY <1>6, <3>1, <3>2
  <2>3. QED
    BY <1>7, <2>1, <2>2
<1>9. QED
  BY <1>1, <1>4, <1>8 DEF Sound

\* A block committed by the engine extends a chain of the main history.
LEMMA AppendSound ==
    ASSUME NEW c, Sound(c), NEW h, h = Len(c) + 1, \A i \in DOMAIN c : c[i].branch = "main"
    PROVE  Sound(Append(c, Main(h)))
<1>1. c \in Seq(Received) /\ Len(c) \in Nat
  BY DEF Sound
<1>2. Main(h) \in Received
  BY <1>1 DEF Main, Received
<1>3. Append(c, Main(h)) \in Seq(Received)
  BY <1>1, <1>2
<1>4. QED
  BY <1>1, <1>3 DEF Sound, Main

\* The commands and handlers of the driver, one lemma each.
LEMMA Sending ==
    ASSUME NEW n, NodeOk(n), NEW in \in Messages
    PROVE  /\ NodeOk(Send(n, in))
           /\ Send(n, in).pending_sync2 = n.pending_sync2 /\ Send(n, in).chain = n.chain
<1> DEFINE m == Send(n, in)
<1>1. /\ DOMAIN m = NodeFields /\ m.chain = n.chain /\ m.peer_tips = n.peer_tips
      /\ m.catch_up = n.catch_up /\ m.pending_sync2 = n.pending_sync2
      /\ m.inbound = Append(n.inbound, in)
  BY DEF Send, NodeOk, NodeFields
<1>2. m.inbound \in Seq(Messages)
  BY <1>1 DEF NodeOk
<1> HIDE DEF m
<1>3. NodeOk(m)
  BY <1>1, <1>2 DEF NodeOk
<1>4. QED
  BY <1>1, <1>3 DEF m

\* Dropping a peer for what it sent or failed to send keeps the node's invariant.
LEMMA Penalizing ==
    ASSUME NEW n, NodeOk(n), NEW p
    PROVE  LET m == MarkBadPeer(n, p)
           IN  NodeOk(m) /\ m.catch_up = n.catch_up /\ m.chain = n.chain
<1> DEFINE q == [n EXCEPT !.bad_peers = @ \cup {p},
                          !.peer_tips = [r \in Peers |-> IF r = p THEN Unknown ELSE @[r]]]
           m == PenalizePeer(q, p)
<1>1. /\ DOMAIN q = NodeFields /\ q.chain = n.chain /\ q.catch_up = n.catch_up
      /\ q.pending_sync2 = n.pending_sync2 /\ q.inbound = n.inbound
      /\ q.peer_tips = [r \in Peers |-> IF r = p THEN Unknown ELSE n.peer_tips[r]]
  BY DEF NodeOk, NodeFields
<1>2. q.peer_tips \in [Peers -> Unknown..MaxHeight]
  BY <1>1, CatchUpAssumption DEF NodeOk, Unknown
<1> HIDE DEF q
<1>3. /\ DOMAIN m = NodeFields /\ m.chain = q.chain /\ m.catch_up = q.catch_up
      /\ m.pending_sync2 = q.pending_sync2 /\ m.inbound = q.inbound
      /\ m.peer_tips = q.peer_tips
  BY <1>1 DEF PenalizePeer, NodeFields
<1> HIDE DEF m
<1>4. NodeOk(m) /\ m.catch_up = n.catch_up /\ m.chain = n.chain
  BY <1>1, <1>2, <1>3 DEF NodeOk
<1>5. MarkBadPeer(n, p) = m
  BY DEF MarkBadPeer, m, q
<1>6. QED
  BY <1>4, <1>5

\* Asking the peer of the catch-up for its next chunk, or for the only one.
LEMMA Requesting ==
    ASSUME NEW n, NodeOk(n), NEW peer, NEW exclude, NEW poll, NEW from \in Int, NEW to \in Int
    PROVE  NodeOk(Sync2Request(n, peer, exclude, poll, from, to))
<1> DEFINE p == Chosen(n, peer, exclude)
           r == [peer |-> p, poll |-> poll, from |-> from, to |-> to]
           old == n.pending_sync2
           m == [n EXCEPT !.pending_sync2 = r,
                          !.queries = IF old # None /\ old.poll THEN @ \cup {old.peer} ELSE @]
<1>1. CASE p = None
  <2>1. [type |-> "SyncNoPeer"] \in Messages
    BY DEF Messages
  <2>2. NodeOk(Send(n, [type |-> "SyncNoPeer"]))
    BY <2>1, Sending
  <2>3. QED
    BY <1>1, <2>2 DEF Sync2Request
<1>2. CASE p # None
  <2>1. r.from = from /\ r.to = to
    OBVIOUS
  <2>2. Sync2Request(n, peer, exclude, poll, from, to) = m
    BY <1>2 DEF Sync2Request
  <2> HIDE DEF r, p
  <2>3. /\ DOMAIN m = NodeFields /\ m.chain = n.chain /\ m.catch_up = n.catch_up
        /\ m.pending_sync2 = r /\ m.inbound = n.inbound /\ m.peer_tips = n.peer_tips
    BY DEF NodeOk, NodeFields
  <2> HIDE DEF m
  <2>4. NodeOk(m)
    BY <2>1, <2>3 DEF NodeOk
  <2>5. QED
    BY <2>2, <2>4
<1>3. QED
  BY <1>1, <1>2

\* The end of a catch-up.
LEMMA Finishing ==
    ASSUME NEW n, NodeOk(n)
    PROVE  NodeOk(FinishCatchUp(n))
<1> DEFINE m == FinishCatchUp(n)
<1>1. /\ DOMAIN m = NodeFields /\ m.chain = n.chain /\ m.catch_up = None
      /\ m.pending_sync2 = n.pending_sync2 /\ m.inbound = n.inbound /\ m.peer_tips = n.peer_tips
  BY DEF NodeOk, NodeFields, FinishCatchUp
<1> HIDE DEF m
<1>2. QED
  BY <1>1 DEF NodeOk, m

\* What follows a chunk: the next request, the end, or the peer given up.
LEMMA Continuing ==
    ASSUME NEW n, NodeOk(n), Under(n.catch_up)
    PROVE  \A m \in ContinueCatchUp(n) : NodeOk(m)
<1> DEFINE from == Tip(n) + 1
           to == Min({n.catch_up.target, from + BatchSize - 1})
           with(p) == [n EXCEPT !.catch_up.expected_first = from,
                                !.catch_up.peer = IF p = None THEN @ ELSE p]
           ask(p) == Sync2Request(with(p), p, n.bad_peers, FALSE, from, to)
<1>1. from \in Int /\ to \in Int
  <2>1. from \in Int
    BY DEF NodeOk, Sound, Tip
  <2>2. n.catch_up.target \in Int /\ from + BatchSize - 1 \in Int
    BY <2>1, CatchUpAssumption DEF Under
  <2> HIDE DEF from
  <2>3. to \in Int
    BY <2>2, MinOfTwo
  <2>4. QED
    BY <2>1, <2>3 DEF from
<1> HIDE DEF from, to
<1>2. ASSUME NEW p PROVE NodeOk(ask(p))
  <2> DEFINE m == with(p)
  <2>1. /\ DOMAIN m = NodeFields /\ m.chain = n.chain /\ m.peer_tips = n.peer_tips
        /\ m.pending_sync2 = n.pending_sync2 /\ m.inbound = n.inbound
        /\ m.catch_up = [n.catch_up EXCEPT !.expected_first = from,
                                           !.peer = IF p = None THEN @ ELSE p]
    BY DEF NodeOk, NodeFields, Under
  <2>2. Under(m.catch_up)
    BY <2>1 DEF Under
  <2> HIDE DEF m
  <2>3. NodeOk(m)
    BY <2>1, <2>2 DEF NodeOk
  <2>4. NodeOk(Sync2Request(m, p, n.bad_peers, FALSE, from, to))
    BY <1>1, <2>3, Requesting
  <2>5. QED
    BY <2>4 DEF m
<1>3. ASSUME NEW m \in ContinueCatchUp(n)
      PROVE  m = FinishCatchUp(n) \/ \E p : m = ask(p)
  BY <1>3 DEF ContinueCatchUp, from, to
<1> HIDE DEF ask
<1>4. QED
  BY <1>2, <1>3, Finishing

\* The start of a catch-up with some peer ahead.
LEMMA Beginning ==
    ASSUME NEW n, NodeOk(n), NEW target \in Int
    PROVE  \A m \in BeginCatchUp(n, target) : NodeOk(m)
<1> DEFINE S == {target} \cup {n.peer_tips[p] : p \in Peers}
           cu == [peer |-> None, expected_first |-> Tip(n) + 1, target |-> Max(S)]
           k == [n EXCEPT !.bad_peers = {}, !.catch_up = cu]
<1>1. Max(S) \in Int
  <2> DEFINE b == IF target > MaxHeight THEN target ELSE MaxHeight
  <2>1. \A p \in Peers : n.peer_tips[p] \in Int /\ n.peer_tips[p] <= MaxHeight /\ MaxHeight \in Int
    BY CatchUpAssumption DEF NodeOk, Unknown
  <2>2. S \in SUBSET Int /\ S # {} /\ b \in Int /\ \A x \in S : x <= b
    BY <2>1, CatchUpAssumption
  <2> HIDE DEF S, b
  <2>3. QED
    BY <2>2, MaxOfBounded
<1>2. Under(cu)
  <2> HIDE DEF S
  <2> QED  BY <1>1 DEF Under
<1> HIDE DEF cu
<1>3. /\ DOMAIN k = NodeFields /\ k.chain = n.chain /\ k.peer_tips = n.peer_tips
      /\ k.catch_up = cu /\ k.pending_sync2 = n.pending_sync2 /\ k.inbound = n.inbound
  BY DEF NodeOk, NodeFields
<1> HIDE DEF k
<1>4. NodeOk(k)
  BY <1>2, <1>3 DEF NodeOk
<1>5. \A m \in ContinueCatchUp(k) : NodeOk(m)
  BY <1>2, <1>3, <1>4, Continuing
<1>6. BeginCatchUp(n, target) = IF target <= Tip(n) THEN {n} ELSE UNION {ContinueCatchUp(x) : x \in {k}}
  BY DEF BeginCatchUp, Then, k, cu
<1>7. QED
  BY <1>5, <1>6

\* A handler that continues a catch-up after a peer is marked.
LEMMA MarkedContinues ==
    ASSUME NEW n, NodeOk(n), Under(n.catch_up), NEW p
    PROVE  \A m \in Then({MarkBadPeer(n, p)}, ContinueCatchUp) : NodeOk(m)
<1> DEFINE k == MarkBadPeer(n, p)
<1>1. NodeOk(k) /\ Under(k.catch_up)
  BY Penalizing
<1>2. Then({MarkBadPeer(n, p)}, ContinueCatchUp) = ContinueCatchUp(k)
  BY DEF Then
<1> HIDE DEF k
<1>3. QED
  BY <1>1, <1>2, Continuing

\* A batch received: committed as far as it is good; its sender marked, if it is not.
LEMMA BlocksHandled ==
    ASSUME NEW n, NodeOk(n), Under(n.catch_up), NEW p, NEW blocks \in Seq(Received)
    PROVE  \A m \in OnBlocks(n, p, blocks) : NodeOk(m)
<1> DEFINE a == Applied(n.chain, blocks)
           k == [n EXCEPT !.chain = a.chain]
<1>1. Sound(a.chain)
  BY AppliedSound DEF NodeOk
<1> HIDE DEF a
<1>2. /\ DOMAIN k = NodeFields /\ k.chain = a.chain /\ k.peer_tips = n.peer_tips
      /\ k.catch_up = n.catch_up /\ k.pending_sync2 = n.pending_sync2 /\ k.inbound = n.inbound
  BY DEF NodeOk, NodeFields
<1>3. NodeOk(k) /\ Under(k.catch_up)
  <2> HIDE DEF k
  <2> QED  BY <1>1, <1>2 DEF NodeOk
<1>4. NodeOk([k EXCEPT !.halted = TRUE])
  <2> DEFINE h == [k EXCEPT !.halted = TRUE]
  <2> HIDE DEF k
  <2>1. /\ DOMAIN h = NodeFields /\ h.chain = k.chain /\ h.peer_tips = k.peer_tips
        /\ h.catch_up = k.catch_up /\ h.pending_sync2 = k.pending_sync2
        /\ h.inbound = k.inbound
    BY <1>2 DEF NodeFields
  <2> HIDE DEF h
  <2>2. NodeOk(h)
    BY <1>3, <2>1 DEF NodeOk
  <2>3. QED
    BY <2>2 DEF h
<1>5. \A m \in Then({k}, ContinueCatchUp) : NodeOk(m)
  <2>1. Then({k}, ContinueCatchUp) = ContinueCatchUp(k)
    BY DEF Then
  <2> HIDE DEF k
  <2>2. QED
    BY <1>3, <2>1, Continuing
<1>6. /\ \A m \in Then({MarkBadPeer(n, p)}, ContinueCatchUp) : NodeOk(m)
      /\ \A m \in Then({MarkBadPeer(k, p)}, ContinueCatchUp) : NodeOk(m)
  <2> HIDE DEF k
  <2> QED  BY <1>3, MarkedContinues
<1>7. NodeOk(FinishCatchUp(k))
  <2> HIDE DEF k
  <2> QED  BY <1>3, Finishing
<1>8. a.outcome \in {"committed", "invalid", "unreplayable", "halt"}
  BY DEF a, Applied, ApplySyncedBlock
<1>9. OnBlocks(n, p, blocks) =
        IF ~ValidShape(n, blocks) THEN Then({MarkBadPeer(n, p)}, ContinueCatchUp)
        ELSE CASE a.outcome = "committed" -> Then({k}, ContinueCatchUp)
               [] a.outcome = "invalid" -> Then({MarkBadPeer(k, p)}, ContinueCatchUp)
               [] a.outcome = "unreplayable" -> {FinishCatchUp(k)}
               [] a.outcome = "halt" -> {[k EXCEPT !.halted = TRUE]}
  BY DEF OnBlocks, a
<1> HIDE DEF k
<1>10. QED
  BY <1>4, <1>5, <1>6, <1>7, <1>8, <1>9

\* What the driver makes of one input.
LEMMA InputHandled ==
    ASSUME NEW n, NodeOk(n), NEW in \in Messages,
           NEW m \in CASE in.type = "AheadHint" -> OnAheadHint(n, in.height)
                       [] in.type = "PeerStatus" -> OnPeerStatus(n, in.peer, in.tip)
                       [] in.type = "SyncFailed" -> OnSyncFailed(n, in.peer)
                       [] in.type = "SyncNoPeer" -> OnSyncNoPeer(n)
                       [] in.type = "PeerGone" -> OnPeerGone(n, in.peer)
                       [] OTHER -> OnSyncResponse(n, in)
    PROVE  NodeOk(m)
<1>1. CASE in.type = "AheadHint"
  <2>1. in.height - 1 \in Int
    BY <1>1 DEF Messages
  <2>2. m \in OnAheadHint(n, in.height)
    BY <1>1
  <2>3. QED
    BY <2>1, <2>2, Beginning DEF OnAheadHint
<1>2. CASE in.type = "PeerStatus"
  <2> DEFINE k == [n EXCEPT !.peer_tips[in.peer] = in.tip]
  <2>1. in.tip \in 0..MaxHeight /\ in.tip \in Int
    BY <1>2, CatchUpAssumption DEF Messages
  <2>2. /\ DOMAIN k = NodeFields /\ k.chain = n.chain /\ k.catch_up = n.catch_up
        /\ k.pending_sync2 = n.pending_sync2 /\ k.inbound = n.inbound
        /\ k.peer_tips = [n.peer_tips EXCEPT ![in.peer] = in.tip]
    BY DEF NodeOk, NodeFields
  <2>3. k.peer_tips \in [Peers -> Unknown..MaxHeight]
    <3>1. in.tip \in Unknown..MaxHeight
      BY <2>1, CatchUpAssumption DEF Unknown
    <3> HIDE DEF k
    <3>2. QED
      BY <2>2, <3>1 DEF NodeOk
  <2>4. NodeOk(k)
    <3> HIDE DEF k
    <3> QED  BY <2>2, <2>3 DEF NodeOk
  <2>5. m \in OnPeerStatus(n, in.peer, in.tip)
    BY <1>2
  <2>6. m = k \/ m \in BeginCatchUp(k, in.tip)
    BY <2>5 DEF OnPeerStatus, Then
  <2> HIDE DEF k
  <2>7. QED
    BY <2>1, <2>4, <2>6, Beginning
<1>3. CASE in.type = "SyncFailed"
  <2>1. m \in OnSyncFailed(n, in.peer)
    BY <1>3
  <2>2. m = n \/ (CatchingUpFrom(n, in.peer) /\ m \in Then({MarkBadPeer(n, in.peer)}, ContinueCatchUp))
    BY <2>1 DEF OnSyncFailed
  <2>3. QED
    BY <2>2, MarkedContinues DEF CatchingUpFrom, NodeOk
<1>4. CASE in.type = "SyncNoPeer"
  <2>1. m \in OnSyncNoPeer(n)
    BY <1>4
  <2>2. QED
    BY <2>1, Finishing DEF OnSyncNoPeer
<1>5. CASE in.type = "PeerGone"
  <2> DEFINE k == [n EXCEPT !.peer_tips[in.peer] = Unknown]
  <2>1. /\ DOMAIN k = NodeFields /\ k.chain = n.chain /\ k.catch_up = n.catch_up
        /\ k.pending_sync2 = n.pending_sync2 /\ k.inbound = n.inbound
        /\ k.peer_tips = [n.peer_tips EXCEPT ![in.peer] = Unknown]
    BY DEF NodeOk, NodeFields
  <2>2. k.peer_tips \in [Peers -> Unknown..MaxHeight]
    <3>1. Unknown \in Unknown..MaxHeight
      BY CatchUpAssumption DEF Unknown
    <3> HIDE DEF k
    <3>2. QED
      BY <2>1, <3>1 DEF NodeOk
  <2>3. NodeOk(k)
    <3> HIDE DEF k
    <3> QED  BY <2>1, <2>2 DEF NodeOk
  <2>4. m \in OnPeerGone(n, in.peer)
    BY <1>5
  <2>5. m = k \/ (n.catch_up # None /\ m \in ContinueCatchUp(k))
    BY <2>4 DEF OnPeerGone, Then, CatchingUpFrom
  <2>6. n.catch_up # None => Under(k.catch_up)
    BY <2>1 DEF NodeOk
  <2> HIDE DEF k
  <2>7. QED
    BY <2>3, <2>5, <2>6, Continuing
<1>6. CASE in.type \notin {"AheadHint", "PeerStatus", "SyncFailed", "SyncNoPeer", "PeerGone"}
  <2>1. m \in OnSyncResponse(n, in)
    BY <1>6
  <2>2. in.type = "NotAvailable" \/ (in.type = "SyncBlocks" /\ in.blocks \in Seq(Received))
    BY <1>6 DEF Messages
  <2> DEFINE k == [n EXCEPT !.catch_up.peer = in.peer]
  <2>3. \/ m = n
        \/ /\ n.catch_up # None
           /\ m \in IF in.type = "NotAvailable"
                    THEN Then({MarkBadPeer(k, in.peer)}, ContinueCatchUp)
                    ELSE OnBlocks(k, in.peer, in.blocks)
    BY <2>1 DEF OnSyncResponse
  <2>4. CASE n.catch_up = None
    BY <2>3, <2>4
  <2>5. CASE n.catch_up # None
    <3>1. /\ DOMAIN k = NodeFields /\ k.chain = n.chain /\ k.peer_tips = n.peer_tips
          /\ k.pending_sync2 = n.pending_sync2 /\ k.inbound = n.inbound
          /\ k.catch_up = [n.catch_up EXCEPT !.peer = in.peer]
      BY DEF NodeOk, NodeFields
    <3>2. Under(n.catch_up)
      BY <2>5 DEF NodeOk
    <3>3. Under(k.catch_up)
      BY <3>1, <3>2 DEF Under
    <3>4. NodeOk(k)
      <4> HIDE DEF k
      <4> QED  BY <3>1, <3>3 DEF NodeOk
    <3> HIDE DEF k
    <3>5. QED
      BY <2>2, <2>3, <3>3, <3>4, MarkedContinues, BlocksHandled
  <2>6. QED
    BY <2>4, <2>5
<1>7. QED
  BY <1>1, <1>2, <1>3, <1>4, <1>5, <1>6

\* The node starts with nothing committed.
LEMMA CatchUpStarts == Init => CatchInv
<1> SUFFICES ASSUME Init PROVE CatchInv
  OBVIOUS
<1>1. node.chain = <<>> /\ node.inbound = <<>> /\ node.catch_up = None /\ node.pending_sync2 = None
  BY DEF Init
<1>2. DOMAIN node = NodeFields /\ node.peer_tips = [p \in Peers |-> Unknown]
  BY DEF Init, NodeFields
<1>3. Sound(<<>>) /\ <<>> \in Seq(Messages)
  BY DEF Sound
<1>4. node.peer_tips \in [Peers -> Unknown..MaxHeight]
  BY <1>2, CatchUpAssumption DEF Unknown
<1>5. height \in [Peers -> 0..MaxHeight]
  BY CatchUpAssumption DEF Init
<1>6. QED
  BY <1>1, <1>2, <1>3, <1>4, <1>5 DEF CatchInv, NodeOk

\* The fields a service step may write without the invariant looking at them.
LEMMA Unseen ==
    ASSUME NEW n, NodeOk(n), NEW m,
           DOMAIN m = NodeFields, m.chain = n.chain, m.peer_tips = n.peer_tips,
           m.inbound = n.inbound, m.catch_up = n.catch_up,
           m.pending_sync2 \in {n.pending_sync2, None}
    PROVE  NodeOk(m)
BY DEF NodeOk

\* What peers send, right or wrong, is a block.
LEMMA BlockTypes ==
    /\ \A h \in Int : Main(h) \in Received
    /\ \A h \in Int : \A b \in FaultyBlocks(h) : b \in Received
<1>1. \A h \in Int : Main(h) \in Received
  BY DEF Main, Received
<1>2. ASSUME NEW h \in Int, NEW b \in FaultyBlocks(h) PROVE b \in Received
  <2>1. CASE b = [Main(h) EXCEPT !.certified = FALSE]
    BY <2>1 DEF Main, Received
  <2>2. CASE \E x \in {"altered", "lacking"} : b = [Main(h) EXCEPT !.body = x]
    BY <2>2 DEF Main, Received
  <2>3. CASE b = [Main(h) EXCEPT !.branch = "rival"]
    BY <2>3 DEF Main, Received
  <2>4. QED
    BY <2>1, <2>2, <2>3 DEF FaultyBlocks
<1>3. QED
  BY <1>1, <1>2

\* What peers answer is a message the driver expects.
LEMMA AnswerTypes ==
    ASSUME CatchInv, NEW p \in Peers, RangeRequest(p),
           NEW a \in IF p \in Faulty THEN FaultyAnswers(p, node.pending_sync2)
                     ELSE HonestAnswers(p, node.pending_sync2)
    PROVE  a \in Messages
<1> DEFINE r == node.pending_sync2
<1>1. r.from \in Int /\ r.to \in Int
  BY DEF RangeRequest, CatchInv, NodeOk
<1>2. [type |-> "NotAvailable", peer |-> p] \in Messages
  BY DEF Messages
<1>3. \A s \in Seq(Received) : [type |-> "SyncBlocks", peer |-> p, blocks |-> s] \in Messages
  BY DEF Messages
<1>4. CASE p \in Faulty
  <2>1. <<>> \in Seq(Received) /\ \A b \in FaultyBlocks(r.from) : <<b>> \in Seq(Received)
    BY <1>1, BlockTypes
  <2>2. QED
    BY <1>2, <1>3, <1>4, <2>1 DEF FaultyAnswers
<1>5. CASE p \notin Faulty
  <2> DEFINE last == Min({height[p], r.to, r.from + BatchSize - 1})
             s == [i \in 1..(last - r.from + 1) |-> Main(r.from + i - 1)]
  <2>1. a = [type |-> "NotAvailable", peer |-> p]
        \/ (~ (last < r.from) /\ a = [type |-> "SyncBlocks", peer |-> p, blocks |-> s])
    BY <1>5 DEF HonestAnswers
  <2>2. last \in Int
    <3>1. height[p] \in Int /\ r.from + BatchSize - 1 \in Int
      BY <1>1, CatchUpAssumption DEF CatchInv
    <3> HIDE DEF r
    <3>2. QED
      BY <1>1, <3>1, MinOfThree
  <2> HIDE DEF last
  <2>3. ASSUME ~ (last < r.from) PROVE s \in Seq(Received)
    <3> DEFINE l == last - r.from + 1
    <3>1. l \in Nat
      BY <1>1, <2>2, <2>3
    <3>2. \A i \in 1..l : Main(r.from + i - 1) \in Received
      BY <1>1, <3>1, BlockTypes
    <3> HIDE DEF l
    <3>3. [i \in 1..l |-> Main(r.from + i - 1)] \in Seq(Received)
      BY <3>1, <3>2
    <3>4. QED
      BY <3>3 DEF l
  <2> HIDE DEF s
  <2>4. QED
    BY <1>2, <1>3, <2>1, <2>3
<1>6. QED
  BY <1>4, <1>5

\* Every step of the driver, the service and the network keeps the invariant.
LEMMA CatchUpStep == CatchInv /\ [Next]_vars => CatchInv'
<1> SUFFICES ASSUME CatchInv, [Next]_vars PROVE CatchInv'
  OBVIOUS
<1>0. NodeOk(node) /\ height \in [Peers -> 0..MaxHeight]
  BY DEF CatchInv
<1>1. ASSUME NodeOk(node'), UNCHANGED height PROVE CatchInv'
  BY <1>0, <1>1 DEF CatchInv
<1>2. CASE OnInput
  <2> DEFINE n == [node EXCEPT !.inbound = Tail(@)]
             in == Head(node.inbound)
  <2>1. node.inbound # <<>> /\ node.inbound \in Seq(Messages)
    BY <1>0, <1>2 DEF OnInput, NodeOk
  <2>2. in \in Messages /\ Tail(node.inbound) \in Seq(Messages)
    BY <2>1
  <2>3. /\ DOMAIN n = NodeFields /\ n.chain = node.chain /\ n.peer_tips = node.peer_tips
        /\ n.inbound = Tail(node.inbound) /\ n.catch_up = node.catch_up
        /\ n.pending_sync2 = node.pending_sync2
    BY <1>0 DEF NodeOk, NodeFields
  <2>4. NodeOk(n)
    <3> HIDE DEF n
    <3> QED  BY <1>0, <2>2, <2>3 DEF NodeOk
  <2>5. node' \in CASE in.type = "AheadHint" -> OnAheadHint(n, in.height)
                       [] in.type = "PeerStatus" -> OnPeerStatus(n, in.peer, in.tip)
                       [] in.type = "SyncFailed" -> OnSyncFailed(n, in.peer)
                       [] in.type = "SyncNoPeer" -> OnSyncNoPeer(n)
                       [] in.type = "PeerGone" -> OnPeerGone(n, in.peer)
                       [] OTHER -> OnSyncResponse(n, in)
    BY <1>2, Zenon DEF OnInput
  <2> HIDE DEF n, in
  <2>6. NodeOk(node')
    BY <2>2, <2>4, <2>5, InputHandled
  <2>7. QED
    BY <1>1, <1>2, <2>6 DEF OnInput
<1>3. CASE RequestTimeout
  <2>1. Under(node.catch_up)
    BY <1>0, <1>3 DEF RequestTimeout, NodeOk
  <2>2. NodeOk(node')
    BY <1>0, <1>3, <2>1, MarkedContinues DEF RequestTimeout
  <2>3. QED
    BY <1>1, <1>3, <2>2 DEF RequestTimeout
<1>4. CASE StatusPoll
  <2>1. NodeOk(node')
    <3>1. 0 \in Int
      OBVIOUS
    <3>2. NodeOk(Sync2Request(node, None, {}, TRUE, 0, 0))
      BY <1>0, <3>1, Requesting, Zenon
    <3>3. node' = Sync2Request(node, None, {}, TRUE, 0, 0)
      BY <1>4 DEF StatusPoll
    <3>4. QED
      BY <3>2, <3>3, Zenon
  <2>2. QED
    BY <1>1, <1>4, <2>1 DEF StatusPoll
<1>5. CASE PendingQcTimeout
  <2>1. Tip(node) + 1 \in Int
    BY <1>0 DEF NodeOk, Sound, Tip
  <2>2. NodeOk(node')
    BY <1>0, <1>5, <2>1, Beginning DEF PendingQcTimeout
  <2>3. QED
    BY <1>1, <1>5, <2>2 DEF PendingQcTimeout
<1>6. CASE LiveCommit
  <2> DEFINE c == Append(node.chain, Main(Tip(node) + 1))
  <2>1. node' = [node EXCEPT !.chain = c, !.gate = Tip(node) + 2] /\ UNCHANGED height
    BY <1>6 DEF LiveCommit
  <2>2. Sound(c)
    BY <1>0, <1>6, AppendSound DEF LiveCommit, OnMain, Tip, NodeOk
  <2> HIDE DEF c
  <2>3. /\ DOMAIN node' = NodeFields /\ node'.chain = c /\ node'.peer_tips = node.peer_tips
        /\ node'.inbound = node.inbound /\ node'.catch_up = node.catch_up
        /\ node'.pending_sync2 = node.pending_sync2
    BY <1>0, <2>1 DEF NodeOk, NodeFields
  <2>4. NodeOk(node')
    BY <1>0, <2>2, <2>3 DEF NodeOk
  <2>5. QED
    BY <1>1, <2>1, <2>4
<1>7. CASE AheadMessage
  <2> DEFINE in == [type |-> "AheadHint", height |-> NetworkTip + 1]
  <2>1. NetworkTip \in Int
    <3> DEFINE S == {height[p] : p \in Peers} \cup {0}
    <3>1. S \in SUBSET Int /\ S # {} /\ MaxHeight \in Int /\ \A x \in S : x <= MaxHeight
      BY <1>0, CatchUpAssumption
    <3>2. NetworkTip = Max(S)
      BY DEF NetworkTip
    <3> HIDE DEF S
    <3>3. QED
      BY <3>1, <3>2, MaxOfBounded
  <2>2. in \in Messages
    BY <2>1 DEF Messages
  <2>3. node' = Send(node, in) /\ UNCHANGED height
    BY <1>7 DEF AheadMessage
  <2> HIDE DEF in
  <2>4. QED
    BY <1>0, <1>1, <2>2, <2>3, Sending
<1>8. ASSUME NEW p \in Peers, RangeAnswer(p) PROVE CatchInv'
  <2>1. PICK a \in Messages : node' = [Send(node, a) EXCEPT !.pending_sync2 = None]
    BY <1>8, AnswerTypes DEF RangeAnswer
  <2> DEFINE m == Send(node, a)
  <2>2. NodeOk(m)
    BY <1>0, Sending
  <2> HIDE DEF m
  <2>3. /\ DOMAIN node' = NodeFields /\ node'.chain = m.chain /\ node'.peer_tips = m.peer_tips
        /\ node'.inbound = m.inbound /\ node'.catch_up = m.catch_up
        /\ node'.pending_sync2 = None
    BY <2>1, <2>2 DEF m, NodeOk, NodeFields
  <2>4. NodeOk(node')
    BY <2>2, <2>3, Unseen
  <2>5. QED
    BY <1>1, <1>8, <2>4 DEF RangeAnswer
<1>9. ASSUME NEW p \in Peers, StatusAnswer(p) PROVE CatchInv'
  <2>1. PICK tip \in Told(p) :
           LET n == Send(node, [type |-> "PeerStatus", peer |-> p, tip |-> tip])
           IN  node' = IF p \in node.queries THEN [n EXCEPT !.queries = @ \ {p}]
                       ELSE [n EXCEPT !.pending_sync2 = None]
    BY <1>9 DEF StatusAnswer
  <2> DEFINE in == [type |-> "PeerStatus", peer |-> p, tip |-> tip]
             m == Send(node, in)
  <2>2. tip \in 0..MaxHeight
    <3>1. height[p] \in Int /\ height[p] + 1 \in Int /\ MaxHeight \in Int /\ height[p] \in 0..MaxHeight
      BY <1>0, CatchUpAssumption
    <3>2. Min({height[p] + 1, MaxHeight}) \in {height[p] + 1, MaxHeight}
          /\ Min({height[p] + 1, MaxHeight}) <= MaxHeight
      BY <3>1, MinOfTwo
    <3>3. tip \in 0..MaxHeight \/ tip = height[p] \/ tip = Min({height[p] + 1, MaxHeight})
      BY DEF Told
    <3>4. QED
      BY <3>1, <3>2, <3>3
  <2>3. in \in Messages
    BY <2>2 DEF Messages
  <2> HIDE DEF in
  <2>4. NodeOk(m)
    BY <1>0, <2>3, Sending
  <2>5. node' = [m EXCEPT !.queries = @ \ {p}] \/ node' = [m EXCEPT !.pending_sync2 = None]
    BY <2>1 DEF in
  <2> HIDE DEF m
  <2>6. /\ DOMAIN node' = NodeFields /\ node'.chain = m.chain /\ node'.peer_tips = m.peer_tips
        /\ node'.inbound = m.inbound /\ node'.catch_up = m.catch_up
        /\ node'.pending_sync2 \in {m.pending_sync2, None}
    BY <2>4, <2>5 DEF NodeOk, NodeFields
  <2>7. NodeOk(node')
    BY <2>4, <2>6, Unseen
  <2>8. QED
    BY <1>1, <1>9, <2>7 DEF StatusAnswer
<1>10. ASSUME NEW p \in Peers, OutboundFailure(p) PROVE CatchInv'
  <2> DEFINE in == [type |-> "SyncFailed", peer |-> p]
             m == Send(node, in)
  <2>1. in \in Messages
    BY DEF Messages
  <2>2. \/ node' = [m EXCEPT !.pending_sync2 = None]
        \/ node' = [node EXCEPT !.queries = @ \ {p}]
    BY <1>10 DEF OutboundFailure
  <2> HIDE DEF in
  <2>3. NodeOk(m)
    BY <1>0, <2>1, Sending
  <2> HIDE DEF m
  <2>4. CASE node' = [m EXCEPT !.pending_sync2 = None]
    <3>1. /\ DOMAIN node' = NodeFields /\ node'.chain = m.chain /\ node'.peer_tips = m.peer_tips
          /\ node'.inbound = m.inbound /\ node'.catch_up = m.catch_up
          /\ node'.pending_sync2 = None
      BY <2>3, <2>4 DEF NodeOk, NodeFields
    <3>2. NodeOk(node')
      BY <2>3, <3>1, Unseen
    <3>3. QED
      BY <1>1, <1>10, <3>2 DEF OutboundFailure
  <2>5. CASE node' = [node EXCEPT !.queries = @ \ {p}]
    <3>1. /\ DOMAIN node' = NodeFields /\ node'.chain = node.chain
          /\ node'.peer_tips = node.peer_tips /\ node'.inbound = node.inbound
          /\ node'.catch_up = node.catch_up /\ node'.pending_sync2 = node.pending_sync2
      BY <1>0, <2>5 DEF NodeOk, NodeFields
    <3>2. NodeOk(node')
      BY <1>0, <3>1, Unseen
    <3>3. QED
      BY <1>1, <1>10, <3>2 DEF OutboundFailure
  <2>6. QED
    BY <2>2, <2>4, <2>5
<1>11. ASSUME NEW p \in Peers, ConnectionClosed(p) PROVE CatchInv'
  <2> DEFINE in == [type |-> "PeerGone", peer |-> p]
             m == Send(node, in)
  <2>1. in \in Messages
    BY DEF Messages
  <2>2. node' = [m EXCEPT !.connected = @ \ {p}, !.queries = @ \ {p},
                          !.pending_sync2 = IF @ # None /\ @.peer = p THEN None ELSE @]
    BY <1>11 DEF ConnectionClosed
  <2> HIDE DEF in
  <2>3. NodeOk(m)
    BY <1>0, <2>1, Sending
  <2> HIDE DEF m
  <2>4. /\ DOMAIN node' = NodeFields /\ node'.chain = m.chain /\ node'.peer_tips = m.peer_tips
        /\ node'.inbound = m.inbound /\ node'.catch_up = m.catch_up
        /\ node'.pending_sync2 \in {m.pending_sync2, None}
    BY <2>2, <2>3 DEF NodeOk, NodeFields
  <2>5. NodeOk(node')
    BY <2>3, <2>4, Unseen
  <2>6. QED
    BY <1>1, <1>11, <2>5 DEF ConnectionClosed
<1>12. ASSUME NEW p \in Peers, ConnectionEstablished(p) PROVE CatchInv'
  <2>1. node' = [node EXCEPT !.connected = @ \cup {p}, !.queries = @ \cup {p}]
    BY <1>12 DEF ConnectionEstablished
  <2>2. /\ DOMAIN node' = NodeFields /\ node'.chain = node.chain
        /\ node'.peer_tips = node.peer_tips /\ node'.inbound = node.inbound
        /\ node'.catch_up = node.catch_up /\ node'.pending_sync2 = node.pending_sync2
    BY <1>0, <2>1 DEF NodeOk, NodeFields
  <2>3. NodeOk(node')
    BY <1>0, <2>2, Unseen
  <2>4. QED
    BY <1>1, <1>12, <2>3 DEF ConnectionEstablished
<1>13. ASSUME NEW p \in Peers, PeerCommit(p) PROVE CatchInv'
  BY <1>0, <1>13, CatchUpAssumption DEF PeerCommit, CatchInv
<1>14. CASE UNCHANGED vars
  BY <1>0, <1>14 DEF CatchInv, vars
<1>15. QED
  BY <1>2, <1>3, <1>4, <1>5, <1>6, <1>7, <1>8, <1>9, <1>10, <1>11, <1>12, <1>13, <1>14
     DEF Next, Answer

\* The chain without gaps is the one the property describes, block by block.
LEMMA SoundIsCertified == ASSUME NodeOk(node) PROVE CommittedIsCertified
<1> DEFINE c == node.chain
<1>1. c \in Seq(Received) /\ Len(c) \in Nat /\ Sound(c)
  BY DEF NodeOk, Sound
<1> HIDE DEF c
<1>2. ASSUME NEW i \in DOMAIN c
      PROVE  c[i].certified /\ c[i].body = "whole" /\ Extends(SubSeq(c, 1, i - 1), c[i])
  <2> DEFINE s == SubSeq(c, 1, i - 1)
  <2>1. i \in 1..Len(c)
    BY <1>1
  <2>2. s \in Seq(Received) /\ Len(s) = i - 1 /\ \A j \in 1..(i - 1) : s[j] = c[j]
    BY <1>1, <2>1
  <2> HIDE DEF s
  <2>3. Extends(s, c[i])
    <3>1. i \in Int /\ DOMAIN s = 1..(i - 1) /\ Len(s) + 1 = i
      BY <1>1, <2>1, <2>2
    <3>2. /\ c[i].height = i
          /\ c[i].branch = "main" => \A j \in 1..(i - 1) : c[j].branch = "main"
      BY <1>1, <2>1 DEF Sound
    <3>3. c[i].branch = "main" => \A j \in DOMAIN s : s[j].branch = "main"
      BY <2>2, <3>1, <3>2
    <3>4. QED
      BY <3>1, <3>2, <3>3 DEF Extends
  <2>4. QED
    BY <1>1, <2>1, <2>3 DEF Sound, s
<1>3. QED
  BY <1>2 DEF CommittedIsCertified, c

\* INV-Y1 for every number of peers, every batch size and every mixture of wrong, late
\* and missing answers: no block is committed that is not certified, does not extend its
\* predecessor or does not replay.
THEOREM CommittedIsCertifiedHolds == Spec => []CommittedIsCertified
<1>1. CatchInv => CommittedIsCertified
  BY SoundIsCertified DEF CatchInv
<1> QED
  BY <1>1, CatchUpStarts, CatchUpStep, PTL DEF Spec

=============================================================================
