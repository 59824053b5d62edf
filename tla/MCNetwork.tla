----------------------------- MODULE MCNetwork -----------------------------
(* Instances of CatchUp, with two peers of which `other` may be faulty, and  *)
(* of Connections.  A catch-up sees connections only as peers that come and  *)
(* go, so the two run apart: leg says which of them a behaviour shows, and   *)
(* the other is off.                                                         *)
EXTENDS CatchUp, Connections

CONSTANTS good, other, near, named, sentry, val, home, site

\* Catch-up.
TwoPeers == {good, other}
NoPeer == {}
OnlyOther == {other}
GoodFirst == (good :> 1) @@ (other :> 2)
FirstHeight == {1}

\* Open mode: a peer under a host name, one whose address does not name its identity, and a
\* sentry, at the same IP, that a validator announces.
OpenAddrs == {1, 2, 3}
OpenIds == <<named, Nobody, sentry>>
OpenHosts == <<named, near, sentry>>
OpenIps == <<Nobody, site, site>>
Sites == (named :> home) @@ (near :> site) @@ (sentry :> home)
Configured == <<1, 2>>
Announcers == val :> <<3>>

\* Closed mode: the configuration has two addresses of the one sentry.
ClosedAddrs == {1, 2}
ClosedIds == <<sentry, sentry>>
ClosedIps == <<Nobody, site>>
ClosedSites == sentry :> site
NoAnnouncers == [v \in {} |-> <<>>]

-----------------------------------------------------------------------------
VARIABLE leg
network == <<leg, vars, connections>>

CatchUpOff ==
    /\ node = [chain |-> <<>>, gate |-> 1, peer_tips |-> [p \in Peers |-> Unknown],
               catch_up |-> None, bad_peers |-> {}, inbound |-> <<>>, connected |-> {},
               pending_sync2 |-> None, queries |-> {}, rejects |-> [p \in Peers |-> 0],
               banned |-> Peers, halted |-> TRUE]
    /\ height = [p \in Peers |-> MaxHeight] /\ faults = 0

ConnectionsOff ==
    /\ book = <<>> /\ byPeer = [p \in Remotes |-> 0] /\ dials = [a \in Addresses |-> 0]
    /\ conns = {} /\ closing = {} /\ connIp = {} /\ connected = {}
    /\ ipCount = [i \in Ips |-> 0]
    /\ announcements = {} /\ announced = {} /\ banned = {} /\ refused = {} /\ events = 0

NetworkNext ==
    /\ \/ leg = "catch-up" /\ Next /\ UNCHANGED connections
       \/ leg = "connections" /\ ConnNext /\ UNCHANGED vars
    /\ UNCHANGED leg

RedialInit == leg = "connections" /\ ConnInit /\ CatchUpOff
RedialSpec == RedialInit /\ [][NetworkNext]_network /\ ConnFair

NetworkInit == RedialInit \/ (leg = "catch-up" /\ Init /\ ConnectionsOff)
NetworkSpec == NetworkInit /\ [][NetworkNext]_network /\ CatchUpFair /\ ConnFair
=============================================================================
