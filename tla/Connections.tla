---------------------------- MODULE Connections ----------------------------
(***************************************************************************)
(* The connections of a node: the admission of peers and the counters of    *)
(* its network service (zagros-network/src/service.rs), the book of known   *)
(* addresses that are dialed again and again (peer_book.rs), the limits     *)
(* libp2p is given (behaviour.rs) and the sentries that validators          *)
(* announce.  Dials, connections and their loss are libp2p's: it reports    *)
(* each by one event, and the service handles one event or tick at a time.  *)
(* Time is left out: any of the addresses that may be dialed again can have *)
(* passed its backoff, which is at most a minute, when the timer ticks.     *)
(***************************************************************************)
EXTENDS Integers, Sequences, FiniteSets, FiniteSetsExt, SequencesExt

CONSTANTS
    Remotes,           \* other nodes
    Nobody,            \* no PeerId, no IP
    Addresses,
    AddrId,            \* address -> the PeerId in its /p2p part, or Nobody
    AddrHost,          \* address -> the node that listens there
    AddrIp,            \* address -> its IP, Nobody for a host name
    IpOf,              \* node -> the IP its incoming connections come from
    Bootstrap,         \* dial_targets: a sequence of addresses
    Private,           \* private_peers; not empty: the node is a validator in closed mode
    Sentries,          \* validator -> the sequence of addresses it announces
    MaxPeers,
    Reserved,          \* reserved_slots, 0 in closed mode
    MaxPerIp,
    MaxLearned,        \* MAX_LEARNED_ADDRS
    MaxDials,          \* bound: dials of one address under way when another is begun
    MaxEvents          \* bound: connections that come or are lost, announcements that
                       \* arrive or run out and peers that are banned, together

Ips == {IpOf[p] : p \in Remotes} \cup ({AddrIp[a] : a \in Addresses} \ {Nobody})
Validators == DOMAIN Sentries

ASSUME ConnectionsAssumption ==
    /\ Nobody \notin Remotes
    /\ AddrHost \in [Addresses -> Remotes]
    /\ \A a \in Addresses : AddrId[a] \in {Nobody, AddrHost[a]}
    /\ \A v \in Validators : \A a \in ToSet(Sentries[v]) : a \in Addresses /\ AddrId[a] # Nobody
    /\ Private # {} => Reserved = 0
    /\ Len(Bootstrap) <= MaxLearned

VARIABLES
    book,              \* entries: addr, peer (its identity, when known), connected, inFlight
    byPeer,            \* by_peer: node -> an index of book, or 0
    dials,             \* address -> dials under way
    conns,             \* connections libp2p has established
    closing,           \* those the service has asked to close
    connIp,            \* those with an IP that counts (conn_ip)
    ipCount,           \* ip_counts
    connected,         \* connected_peers
    announcements,     \* validators with an announcement in force
    announced,         \* announced_peers
    banned,            \* peer_ledger
    refused,           \* history: nodes of whose addresses libp2p refused to begin a dial
    events             \* what MaxEvents bounds

counters == <<connIp, ipCount, connected>>
news == <<announcements, announced>>
connections == <<book, byPeer, dials, conns, closing, counters, news, banned, refused, events>>

Entry(a) == [addr |-> a, peer |-> AddrId[a], connected |-> FALSE, inFlight |-> TRUE]

-----------------------------------------------------------------------------
(* The address book.                                                       *)

\* insert, for addresses that are new; of two addresses of a node the later one stands
\* for it.
Inserted(b, a) ==
    IF \E i \in DOMAIN b : b[i].addr = a THEN b ELSE Append(b, Entry(a))

Named(b, p) == {i \in DOMAIN b : AddrId[b[i].addr] = p}

\* `connected`: the node's entry is settled, or else the first one in flight that has no
\* identity yet is taken for it.
Learns(p) == {i \in DOMAIN book : book[i].peer = Nobody /\ book[i].inFlight}
Settled(e, p) == [e EXCEPT !.peer = p, !.connected = TRUE, !.inFlight = FALSE]

BookConnected(p) ==
    LET i == IF byPeer[p] # 0 THEN byPeer[p]
             ELSE IF Learns(p) # {} THEN Min(Learns(p)) ELSE 0
    IN  IF i = 0 THEN UNCHANGED <<book, byPeer>>
        ELSE /\ book' = [book EXCEPT ![i] = Settled(@, IF byPeer[p] # 0 THEN @.peer ELSE p)]
             /\ byPeer' = [byPeer EXCEPT ![p] = i]

\* Mutant of BookDisconnected: an entry in flight stays so.
BookDropped(p) ==
    /\ book' = IF byPeer[p] = 0 THEN book ELSE [book EXCEPT ![byPeer[p]].connected = FALSE]
    /\ UNCHANGED byPeer

\* `disconnected`: to be dialed again after the base delay.
BookDisconnected(p) ==
    /\ book' = IF byPeer[p] = 0 THEN book
               ELSE [book EXCEPT ![byPeer[p]].connected = FALSE,
                                 ![byPeer[p]].inFlight = FALSE]
    /\ UNCHANGED byPeer

\* `dial_failed`: the entry of the node, or all that are in flight.
Failed(p) ==
    IF p # Nobody /\ byPeer[p] # 0 THEN {byPeer[p]}
    ELSE {i \in DOMAIN book : book[i].inFlight /\ ~book[i].connected}

BookDialFailed(p) ==
    /\ book' = [i \in DOMAIN book |->
                   [book[i] EXCEPT !.inFlight = @ /\ i \notin Failed(p)]]
    /\ UNCHANGED byPeer

\* `due`, once next_attempt_ms has come.
Due == {i \in DOMAIN book :
           ~book[i].connected /\ ~book[i].inFlight /\ book[i].peer \notin banned}

-----------------------------------------------------------------------------
(* libp2p.                                                                 *)

\* with_max_pending_outgoing, and the allow list of closed mode, may refuse to begin a dial:
\* an error is returned and no event follows.
Allowed(p) == Private = {} \/ p \in Private
MayDial(a) == AddrId[a] = Nobody \/ Allowed(AddrId[a])
UnderWay == MapThenSumSet(LAMBDA a : dials[a], Addresses)
Begun(s) ==
    LET may == SelectSeq(s, MayDial)
    IN  ToSet(SubSeq(may, 1, Min({Len(may), MaxPeers - UnderWay})))

Dial(s) ==
    /\ dials' = [a \in Addresses |-> IF a \in Begun(s) THEN dials[a] + 1 ELSE dials[a]]
    /\ refused' = refused \cup {AddrId[a] : a \in ToSet(s) \ Begun(s)}

\* with_max_established, ..._per_peer and ..._incoming, and the allow list.
Of(p) == {c \in conns : c.peer = p}
HasRoom(p, out) ==
    /\ Allowed(p)
    /\ Cardinality(conns) < MaxPeers + Reserved
    /\ Cardinality(Of(p)) < 2
    /\ ~out => Cardinality({c \in conns : ~c.out}) < ((MaxPeers + Reserved) * 2) \div 3

Connection(p, ip, out) ==
    [peer |-> p, ip |-> ip, out |-> out,
     n |-> CHOOSE n \in {1, 2} : \A c \in Of(p) : c.n # n]

Event(occurs) ==
    /\ occurs => events < MaxEvents
    /\ events' = IF occurs THEN events + 1 ELSE events

-----------------------------------------------------------------------------
(* The service's handlers.                                                 *)

Privileged(p) == p \in Private \cup announced

\* Those without privileges fill the open slots and the quota of their IP.
Admitted(c) ==
    \/ Privileged(c.peer)
    \/ /\ c.ip # Nobody => ipCount[c.ip] + 1 <= MaxPerIp
       /\ Cardinality({p \in connected \cup {c.peer} : ~Privileged(p)}) <= MaxPeers

Counted(c) ==
    IF c.ip = Nobody THEN UNCHANGED <<connIp, ipCount>>
    ELSE connIp' = connIp \cup {c} /\ ipCount' = [ipCount EXCEPT ![c.ip] = @ + 1]

OnEstablished(c) ==
    /\ conns' = conns \cup {c}
    /\ \/ /\ Admitted(c)
          /\ Counted(c)
          /\ BookConnected(c.peer)
          /\ connected' = connected \cup {c.peer}
          /\ UNCHANGED closing
       \/ /\ ~Admitted(c)
          /\ closing' = closing \cup {c}
          /\ UNCHANGED <<book, byPeer, counters>>

\* Mutant of Uncounted: the closed connection's IP, counted or not.
UncountedAny(c) ==
    /\ connIp' = connIp \ {c}
    /\ ipCount' = IF c.ip = Nobody \/ ipCount[c.ip] = 0 THEN ipCount
                  ELSE [ipCount EXCEPT ![c.ip] = @ - 1]

Uncounted(c) ==
    /\ connIp' = connIp \ {c}
    /\ ipCount' = IF c \in connIp THEN [ipCount EXCEPT ![c.ip] = @ - 1] ELSE ipCount

\* ConnectionClosed, of a connection that is lost or was to be closed.
Closed(c) ==
    /\ conns' = conns \ {c} /\ closing' = closing \ {c}
    /\ Uncounted(c)
    /\ BookDisconnected(c.peer)
    /\ connected' = connected \ {c.peer}
    /\ Event(c \notin closing)
    /\ UNCHANGED <<dials, news, banned, refused>>

\* The host answers; libp2p may still deny the connection.
Answered(a) ==
    LET p == AddrHost[a]
    IN  /\ dials[a] > 0 /\ dials' = [dials EXCEPT ![a] = @ - 1]
        /\ \/ HasRoom(p, TRUE) /\ OnEstablished(Connection(p, AddrIp[a], TRUE))
           \/ ~HasRoom(p, TRUE) /\ BookDialFailed(p) /\ UNCHANGED <<conns, closing, counters>>
        /\ UNCHANGED <<news, banned, refused, events>>

\* OutgoingConnectionError, with the identity the address names, if any.
DialFailed(a) ==
    /\ dials[a] > 0 /\ dials' = [dials EXCEPT ![a] = @ - 1]
    /\ BookDialFailed(AddrId[a])
    /\ UNCHANGED <<conns, closing, counters, news, banned, refused, events>>

Incoming(p) ==
    /\ HasRoom(p, FALSE) /\ Event(TRUE)
    /\ OnEstablished(Connection(p, IpOf[p], FALSE))
    /\ UNCHANGED <<dials, news, banned, refused>>

\* redial_tick: what is due is marked in flight and dialed, unless its node is connected.
RedialTick(S) ==
    LET order == SetToSortSeq(S, <)
        wanted == SelectSeq([k \in DOMAIN order |-> book[order[k]].addr],
                            LAMBDA a : AddrId[a] \notin connected)
    IN  /\ S # {} /\ \A a \in ToSet(wanted) : dials[a] < MaxDials
        /\ book' = [i \in DOMAIN book |-> [book[i] EXCEPT !.inFlight = @ \/ i \in S]]
        /\ Dial(wanted)
        /\ UNCHANGED <<byPeer, conns, closing, counters, news, banned, events>>

\* A valid announcement newer than the last of the validator arrives by gossip.  In open
\* mode its addresses are learned, while there is room, and dialed.
AddKnown(b, a) == IF Len(b) >= MaxLearned THEN b ELSE Inserted(b, a)

Announce(v) ==
    LET s == IF Private = {} THEN Sentries[v] ELSE <<>>
    IN  /\ Event(TRUE) /\ conns # {} /\ \A a \in ToSet(s) : dials[a] < MaxDials
        /\ announcements' = announcements \cup {v}
        /\ announced' = announced \cup {AddrId[a] : a \in ToSet(Sentries[v])}
        /\ book' = FoldLeft(AddKnown, book, s)
        /\ byPeer' = [p \in Remotes |->
                         IF Named(book', p) \ DOMAIN book = {} THEN byPeer[p]
                         ELSE Max(Named(book', p))]
        /\ Dial(s)
        /\ UNCHANGED <<conns, closing, counters, banned>>

\* announce_tick: announcements older than their TTL are dropped.
Expire(S) ==
    /\ Event(TRUE) /\ S # {} /\ S \subseteq announcements
    /\ announcements' = announcements \ S
    /\ announced' = {AddrId[a] : a \in UNION {ToSet(Sentries[v]) : v \in announcements \ S}}
    /\ UNCHANGED <<book, byPeer, dials, conns, closing, counters, banned, refused>>

\* Its rejects reach the threshold: disconnect_peer_id closes all its connections.
Ban(p) ==
    /\ Event(TRUE) /\ Of(p) # {} /\ p \notin banned
    /\ banned' = banned \cup {p} /\ closing' = closing \cup Of(p)
    /\ UNCHANGED <<book, byPeer, dials, conns, counters, news, refused>>

-----------------------------------------------------------------------------

\* build_swarm has dialed the addresses of the configuration.
ConnInit ==
    /\ book = FoldLeft(Inserted, <<>>, Bootstrap)
    /\ byPeer = [p \in Remotes |-> Max(Named(book, p) \cup {0})]
    /\ LET may == SelectSeq(Bootstrap, MayDial)
           begun == ToSet(SubSeq(may, 1, Min({Len(may), MaxPeers})))
       IN  /\ dials = [a \in Addresses |-> IF a \in begun THEN 1 ELSE 0]
           /\ refused = {AddrId[a] : a \in ToSet(Bootstrap) \ begun}
    /\ conns = {} /\ closing = {} /\ connIp = {} /\ connected = {}
    /\ ipCount = [i \in Ips |-> 0]
    /\ announcements = {} /\ announced = {} /\ banned = {}
    /\ events = 0

ConnNext ==
    \/ \E a \in Addresses : Answered(a) \/ DialFailed(a)
    \/ \E p \in Remotes : Incoming(p) \/ Ban(p)
    \/ \E c \in conns : Closed(c)
    \/ \E v \in Validators : Announce(v)
    \/ \E S \in SUBSET announcements : Expire(S)
    \/ \E S \in SUBSET Due : RedialTick(S)

CloseAsked(p) == \E c \in closing \cap Of(p) : Closed(c)

Redialed(i) == \E S \in SUBSET Due : i \in S /\ RedialTick(S)

\* The loop keeps running, backoffs pass, and libp2p reports the end of every dial and of
\* every connection that was to be closed.
ConnFair ==
    /\ \A i \in 1..MaxLearned : WF_connections(Redialed(i))
    /\ \A a \in Addresses : WF_connections(Answered(a) \/ DialFailed(a))
    /\ \A p \in Remotes : WF_connections(CloseAsked(p))

ConnSpec == ConnInit /\ [][ConnNext]_connections /\ ConnFair

-----------------------------------------------------------------------------
(* Properties.                                                             *)

\* ip_counts counts the admitted connections that are open, whatever was refused, banned,
\* lost or closed in between, and every connected peer has an admitted one.
QuotaExact ==
    /\ connIp \subseteq conns
    /\ \A i \in Ips : ipCount[i] = Cardinality({c \in connIp : c.ip = i})
    /\ \A c \in conns \ closing : c.ip # Nobody => c \in connIp
    /\ \A p \in connected : \E c \in Of(p) : c.ip = Nobody \/ c \in connIp

\* Of the peers a node dials, those under the identity of its latest address.
Dialable(p) == byPeer[p] # 0 /\ AddrId[book[byPeer[p]].addr] = p

\* A known node that is not connected is dialed again and again, until it is or is banned;
\* unless libp2p has refused to begin a dial of it.
KnownPeerRedialed ==
    \A p \in Remotes :
        []<>(Dialable(p) =>
                \/ p \in connected \cup banned \cup refused
                \/ dials[book[byPeer[p]].addr] > 0)

\* What the comments promise of every address in the book: whatever becomes of a dial, it
\* is dialed again, unless its node is connected or banned (peer_book.rs, `due`; service.rs,
\* `peer_book`).
EveryAddressRedialed ==
    \A i \in 1..MaxLearned :
        []<>(i \in DOMAIN book =>
                \/ book[i].peer \in connected \cup banned
                \/ dials[book[i].addr] > 0)
=============================================================================
