------------------------------ MODULE PeerLink ------------------------------
(***************************************************************************)
(* How two agents reach each other: a socket each may open to the other's  *)
(* peer server on the local network, a peer-to-peer channel, and the       *)
(* relay, in this order of preference.  Messages of one transport keep     *)
(* their order, messages of different transports do not.  A broken         *)
(* transport loses what is on it.                                          *)
(*   agent/src/relayClient.ts, peerServer.ts, lanDiscovery.ts,             *)
(*   p2pManager.ts, relay/src/index.ts                                     *)
(***************************************************************************)
EXTENDS Naturals, Sequences

Devices    == {"A", "B"}
Other(d)   == IF d = "A" THEN "B" ELSE "A"
Transports == {"lanA", "lanB", "p2p", "relay"}

\* The socket d opened to the other's peer server.
OpenedBy(d) == IF d = "A" THEN "lanA" ELSE "lanB"

\* hears: who receives the other's announcements; punch: peer to peer gets through.
Nets   == [hears : SUBSET Devices, punch : BOOLEAN]
Starts == [net : Nets, lan : SUBSET Devices, known : SUBSET Devices, p2p : {"none", "open"}]

VARIABLES
    net,         \* what this network lets through, once and for all
    relaySock,   \* each client's connection to the relay
    devices,     \* the relay's map: who it can send to
    lateClose,   \* devices one of whose dead connections the relay has yet to close
    known,       \* who has the other in its LAN discovery table
    lan,         \* the devices whose socket to the other's peer server is open
    p2p,         \* the peer-to-peer channel
    wire         \* device -> transport -> messages on their way to the device

linkVars == <<net, relaySock, devices, lateClose, known, lan, p2p, wire>>

LinkTypeOK(Message) ==
    /\ net \in Nets
    /\ relaySock \in [Devices -> {"down", "ready", "rejected"}]
    /\ devices \subseteq Devices /\ lateClose \subseteq Devices
    /\ known \subseteq Devices /\ lan \subseteq Devices
    /\ p2p \in {"none", "possible", "open"}
    /\ wire \in [Devices -> [Transports -> Seq(Message)]]

LinkInit(start) ==
    /\ net = start.net
    /\ relaySock = [d \in Devices |-> "ready"]
    /\ devices = Devices
    /\ lateClose = {}
    /\ known = start.known /\ lan = start.lan
    /\ p2p = start.p2p
    /\ wire = [d \in Devices |-> [t \in Transports |-> <<>>]]

(************************** sending and receiving **************************)

\* A connection the other opened to us, one we opened, peer to peer, the relay.
Route(d) ==
    IF Other(d) \in lan THEN OpenedBy(Other(d))
    ELSE IF d \in lan THEN OpenedBy(d)
    ELSE IF p2p = "open" THEN "p2p"
    ELSE "relay"

CanReach(d) == relaySock[d] = "ready" \/ lan # {} \/ p2p = "open"

\* What is handed to a closed transport, or to a relay that does not have the
\* other in its map, is lost without a word to the sender.
Delivers(d, t) ==
    CASE t = "lanA"  -> "A" \in lan
      [] t = "lanB"  -> "B" \in lan
      [] t = "p2p"   -> p2p = "open"
      [] t = "relay" -> /\ relaySock[d] = "ready"
                        /\ Other(d) \in devices
                        /\ relaySock[Other(d)] = "ready"

SentOn(w, d, t, m) ==
    IF Delivers(d, t) THEN [w EXCEPT ![Other(d)][t] = Append(@, m)] ELSE w

Sent(w, d, m) == SentOn(w, d, Route(d), m)

\* The request that came on t is answered on the same socket if the peer server
\* took it, and on whatever is preferred by now if the relay client did.
Answered(w, d, t, m) ==
    SentOn(w, d, IF t = OpenedBy(Other(d)) THEN t ELSE Route(d), m)

\* The peer server knows requests and events only: it drops every response.
TakesResponse(d, t) == t # OpenedBy(Other(d))

Arrives(d, t, m) == wire[d][t] # <<>> /\ m = Head(wire[d][t])

Taken(d, t) == [wire EXCEPT ![d][t] = Tail(@)]

Lost(ts) == [d \in Devices |-> [t \in Transports |-> IF t \in ts THEN <<>> ELSE wire[d][t]]]

(******************************* the relay *********************************)

\* Registration tells both devices that the other is online: each sets up a
\* peer-to-peer connection if it has none.
RelayConnects(d) ==
    /\ relaySock[d] = "down"
    /\ relaySock' = [relaySock EXCEPT ![d] = "ready"]
    /\ devices' = devices \cup {d}
    /\ p2p' = IF net.punch /\ p2p = "none" /\ Other(d) \in devices THEN "possible" ELSE p2p
    /\ UNCHANGED <<net, lateClose, known, lan, wire>>

RelayBreaks(d) ==
    /\ relaySock[d] = "ready"
    /\ relaySock' = [relaySock EXCEPT ![d] = "down"]
    /\ lateClose' = lateClose \cup {d}
    /\ wire' = Lost({"relay"})
    /\ UNCHANGED <<net, devices, known, lan, p2p>>

\* Rate limit, oversized or invalid message: the client takes the error for
\* final, closes its peer connections and never connects again.
RelayRejects(d) ==
    /\ relaySock[d] = "ready"
    /\ relaySock' = [relaySock EXCEPT ![d] = "rejected"]
    /\ lateClose' = lateClose \cup {d}
    /\ p2p' = "none"
    /\ wire' = Lost({"relay", "p2p"})
    /\ UNCHANGED <<net, devices, known, lan>>

\* The close handler deletes the device's entry, also one made since.
RelayCloses(d) ==
    /\ d \in lateClose
    /\ lateClose' = lateClose \ {d}
    /\ devices' = devices \ {d}
    /\ p2p' = "none"
    /\ wire' = Lost({"p2p"})
    /\ UNCHANGED <<net, relaySock, known, lan>>

(************************ local network, peer to peer **********************)

\* Only a device new to the discovery table is connected to.
LanMeets(d) ==
    /\ d \in net.hears \ known
    /\ known' = known \cup {d}
    /\ lan' = lan \cup {d}
    /\ UNCHANGED <<net, relaySock, devices, lateClose, p2p, wire>>

LanBreaks(gone) ==
    /\ lan' = lan \ gone
    /\ wire' = Lost({OpenedBy(d) : d \in gone})
    /\ UNCHANGED <<net, relaySock, devices, lateClose, known, p2p>>

\* No announcement for longer than PEER_TTL_MS.
LanForgets(d) ==
    /\ d \in known
    /\ known' = known \ {d}
    /\ UNCHANGED <<net, relaySock, devices, lateClose, lan, p2p, wire>>

P2pOpens ==
    /\ p2p = "possible"
    /\ \A d \in Devices : relaySock[d] = "ready" /\ d \in devices
    /\ p2p' = "open"
    /\ UNCHANGED <<net, relaySock, devices, lateClose, known, lan, wire>>

P2pCloses ==
    /\ p2p \in {"possible", "open"}
    /\ p2p' = "none"
    /\ wire' = Lost({"p2p"})
    /\ UNCHANGED <<net, relaySock, devices, lateClose, known, lan>>

\* Everything a process had open goes with it.
LinkDies(d) ==
    /\ relaySock' = [relaySock EXCEPT ![d] = "down"]
    /\ lateClose' = IF relaySock[d] = "ready" THEN lateClose \cup {d} ELSE lateClose
    /\ known' = known \ {d}
    /\ lan' = {}
    /\ p2p' = "none"
    /\ wire' = Lost(Transports)
    /\ UNCHANGED <<net, devices>>
=============================================================================
