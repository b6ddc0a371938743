------------------------------ MODULE RoutingNet ------------------------------
(***************************************************************************)
(* One session's envelopes crossing the routers of several nodes          *)
(* (src/cmd/node/router: RouteMessage.cc, SessionNodeMap.cc,               *)
(* SessionRoutingData.cc, NodeRouter.cc, RemoteEndpoint.cc,                *)
(* PeerManager.cc).                                                         *)
(*                                                                         *)
(* Each node's router gets the session's routing data (its node map) from  *)
(* its agent with SessionRoutingData Initialize; a modify sends Update,    *)
(* which only refreshes the client addresser.  Computations connect to     *)
(* their node's router (the IPC connect filter, trackIpc).  An envelope a  *)
(* computation or the client sends is routed by the receive thread of its  *)
(* endpoint with routeMessage: client addresses go to the local client on  *)
(* the entry node and to the entry node elsewhere, local computation       *)
(* addresses to their IPC endpoints, and the rest, grouped by node in id   *)
(* order, to node endpoints, found or created from the node map.  A node   *)
(* endpoint's receive thread routes what arrives with the routing data it  *)
(* looks up for the session.                                               *)
(*                                                                         *)
(* Node ids are numbers, ordered as the UUID keys of routeMessage's        *)
(* std::map.  The client side on the entry node (findClientPeer, the       *)
(* stash) is PeerRegistry's; here an envelope handed to sendToLocalClient  *)
(* counts as delivered to the client.  Connection set-up is NodeConnect's; *)
(* here only its outcome is kept: who tracks whom, and an outbound         *)
(* endpoint left waiting when the reciprocal dial is not made.             *)
(***************************************************************************)
EXTENDS Naturals, Sequences, FiniteSets, FiniteSetsExt, Bags

CONSTANTS
  Nodes,      \* node ids, a set of positive numbers
  Entry,      \* the session's entry node, which hosts the client
  Comps,      \* computations the session may ever have
  Host,       \* Host[c]: the node computation c is placed on
  InitComps,  \* the computations of the session's first config
  Client,     \* the session's client, as a destination
  NoComp,     \* Address::computation of a client address (UUID::null)
  MaxEnvs,    \* envelopes sent over the run
  MaxBreaks   \* node connections that fail over the run

ASSUME /\ Entry \in Nodes /\ InitComps \subseteq Comps
       /\ Host \in [Comps -> Nodes] /\ Client \notin Comps /\ NoComp \notin Comps

\* Address::node of a client address (UUID::null).
NoNode == 0

Dests == Comps \cup {Client}

\* The address the addressers give a destination.
Addr(d) == IF d = Client THEN [node |-> NoNode, comp |-> NoComp]
                         ELSE [node |-> Host[d], comp |-> d]

ClientAddr == Addr(Client)

Addrs == {Addr(d) : d \in Dests}

DestOf(a) == IF a.comp = NoComp THEN Client ELSE a.comp

EnvIds == 1..MaxEnvs

\* The nodes of the session's first config, with the entry node.
InitNodes == {Host[c] : c \in InitComps} \cup {Entry}

VARIABLES
  comps,    \* computations of the session's current config
  rd,       \* rd[n]: n's SessionRoutingData: [has: in the RoutingTable,
            \*   map: node ids of its SessionNodeMap, deleted]
  ipc,      \* ipc[n]: computations tracked in n's mIpc
  peers,    \* peers[n]: nodes tracked in n's mNodes
  net,      \* bag of copies [e, at, to, from] queued to a working node link
  stuck,    \* bag of copies queued to an outbound endpoint waiting for mPeer
  got,      \* bag of [e, d]: envelope e handed to destination d
  lost,     \* set of [e, d, why]: e dropped for d with a logged error
  sent,     \* sent[e]: the destinations envelope e was addressed to
  kicked,   \* senders whose endpoint routing disconnected
  closed,   \* <<n, m>>: n's endpoint for m has lost its connection and is
            \*   flagged for destruction, but still tracked in peers[n]
  dropped,  \* set of [e, d]: e discarded for d with the queue of a closed
            \*   endpoint, with no error naming it
  breaks    \* node connections failed so far

vars == <<comps, rd, ipc, peers, net, stuck, got, lost, sent, kicked, closed, dropped, breaks>>

-----------------------------------------------------------------------------
(* Routing helpers                                                         *)

\* parseDestinationAddressLists, for node n: whether the client is
\* addressed, the local computations addressed, and the addresses for each
\* other node.  An address for n with a null computation is dropped.
ToClient(to) == \E a \in to : a.node = NoNode
IpcList(n, to) == {a.comp : a \in {x \in to : x.node = n /\ x.comp # NoComp}}

\* Mutant: the branch for other nodes does not test the node against the
\* local one, so local computations are also sent over a node link.
NodeListNoLocalTest(n, to, m) == {a \in to : a.node = m /\ a.node # NoNode}

NodeList(n, to, m) == {a \in to : a.node = m /\ a.node # NoNode /\ m # n}

\* Mutant: the envelope goes to each node with its whole address list
\* (queueEnvelope(envelope) for queueEnvelope(envelope, a.second)).
ListsFullList(n, to) ==
  [m \in Nodes |-> IF NodeList(n, to, m) # {} \/ (ToClient(to) /\ n # Entry /\ m = Entry)
                     THEN to ELSE {}]

\* Mutant: a client address is only honoured on the entry node.
ListsNoEntryForward(n, to) == [m \in Nodes |-> NodeList(n, to, m)]


\* routeMessage's nodeLists: on a node other than the entry node a client
\* address becomes a session-only address in the entry node's list.
Lists(n, to) ==
  [m \in Nodes |-> NodeList(n, to, m) \cup
                   (IF ToClient(to) /\ n # Entry /\ m = Entry THEN {ClientAddr} ELSE {})]

\* findNodePeer, else getNodeInfo from the session's node map; getNodeInfo
\* throws KeyError for a node the map does not have.
Known(n, m) == m \in peers[n] \/ m \in rd[n].map

\* The node connect filter at m when n dials it.  If findNodePeer finds no
\* endpoint for n, a greater node is accepted, and a lesser one is refused
\* and dialled back if findNodeInfo finds it in m's routing data, else the
\* connection is dropped (BadNodeConnection).  If m still tracks an
\* endpoint for n, a greater node's peer is given to it with setPeer and a
\* lesser one is refused as a reciprocal connection in progress.  Where n
\* is refused and not dialled back its endpoint waits for its peer.
Answers(n, m) == IF n \in peers[m] THEN n > m ELSE n > m \/ n \in rd[m].map

\* n's endpoint for m is an outbound one still waiting for its peer: its
\* send thread has not started, so what is queued to it stays queued.
Waiting(n, m) == \E x \in BagToSet(stuck) : x.from = n /\ x.at = m


\* The effect of routeMessage at node n for envelope e with addresses to.
\* The node lists are sent in id order; a KeyError ends the call, leaving
\* the node lists after it unsent.
RouteEffect(n, e, to) ==
  LET L       == Lists(n, to)
      groups  == {m \in Nodes : L[m] # {}}
      unknown == {m \in groups : ~Known(n, m)}
      reached == IF unknown = {} THEN groups ELSE {m \in groups : m < Min(unknown)}
      fresh   == {m \in reached : m \notin peers[n]}
      linked  == {m \in reached : \/ m \in peers[n] /\ ~Waiting(n, m)
                                  \/ m \in fresh /\ Answers(n, m)}
      dead    == {m \in reached \cap peers[n] : <<n, m>> \in closed}
      ipcL    == IpcList(n, to)
      Copies(S) == [x \in {[e |-> e, at |-> m, to |-> L[m], from |-> n] : m \in S} |-> 1]
  IN [got   |-> got (+) [x \in {[e |-> e, d |-> d] :
                           d \in (ipcL \cap ipc[n]) \cup
                                 (IF ToClient(to) /\ n = Entry THEN {Client} ELSE {})} |-> 1],
      lost  |-> lost \cup {[e |-> e, d |-> c, why |-> "computationNotFound"] : c \in ipcL \ ipc[n]}
                     \cup {[e |-> e, d |-> DestOf(a), why |-> "keyError"] :
                             a \in UNION {L[m] : m \in groups \ reached}},
      net   |-> net (+) Copies(linked \ dead),
      dropped |-> dropped \cup {[e |-> e, d |-> DestOf(a)] : a \in UNION {L[m] : m \in dead}},
      stuck |-> stuck (+) Copies(reached \ linked),
      peers |-> [k \in Nodes |-> IF k = n THEN peers[n] \cup reached
                                 ELSE IF k \in fresh /\ Answers(n, k) THEN peers[k] \cup {n}
                                 ELSE peers[k]],
      threw |-> unknown # {}]

-----------------------------------------------------------------------------

Init ==
  /\ comps = InitComps
  /\ rd = [n \in Nodes |-> [has |-> FALSE, map |-> {}, deleted |-> FALSE]]
  /\ ipc = [n \in Nodes |-> {}]
  /\ peers = [n \in Nodes |-> {}]
  /\ net = EmptyBag /\ stuck = EmptyBag /\ got = EmptyBag
  /\ lost = {}
  /\ sent = <<>>
  /\ kicked = {}
  /\ closed = {} /\ dropped = {} /\ breaks = 0

\* The session's nodes, as the routing data of the current config names them.
SessionNodes == {Host[c] : c \in comps} \cup {Entry}

\* serviceToRouterProc gets SessionRoutingData Initialize: putSessionRoutingData
\* keeps data already stored, else builds the SessionNodeMap from the
\* config the agent created the session with.
Initialize(n) ==
  /\ n \in SessionNodes /\ ~rd[n].has /\ ~rd[n].deleted
  /\ rd' = [rd EXCEPT ![n] = [has |-> TRUE, deleted |-> FALSE,
                              map |-> IF n \in InitNodes THEN InitNodes ELSE SessionNodes]]
  /\ UNCHANGED <<comps, ipc, peers, net, stuck, got, lost, sent, kicked, closed, dropped, breaks>>

\* The session is deleted at n: SessionRoutingData Delete, and
\* deleteSessionRoutingData drops the table's entry.  Endpoints that hold
\* the record (the IPC and client endpoints' mRoutingData) keep routing
\* with it; a node endpoint's lookup now finds nothing.
Delete(n) ==
  /\ rd[n].has
  /\ rd' = [rd EXCEPT ![n].has = FALSE, ![n].deleted = TRUE]
  /\ UNCHANGED <<comps, ipc, peers, net, stuck, got, lost, sent, kicked, closed, dropped, breaks>>

\* A modify adds computation c.  Each node already in the session gets
\* SessionRoutingData Update, which only calls updateClientAddresser: its
\* node map keeps the first config's nodes.  A new node creates the session
\* and is initialized with the new config.
Modify(c) ==
  /\ c \in Comps \ comps
  /\ comps' = comps \cup {c}
  /\ UNCHANGED <<rd, ipc, peers, net, stuck, got, lost, sent, kicked, closed, dropped, breaks>>

\* The IPC connect filter: the RemoteEndpoint takes the session's routing
\* data (it throws if there is none, so the connection is refused) and
\* trackIpc records it.
Register(c) ==
  /\ c \in comps /\ c \notin ipc[Host[c]] \cup kicked
  /\ rd[Host[c]].has
  /\ ipc' = [ipc EXCEPT ![Host[c]] = @ \cup {c}]
  /\ UNCHANGED <<comps, rd, peers, net, stuck, got, lost, sent, kicked, closed, dropped, breaks>>

\* A computation (on its IPC endpoint) or the client (on its endpoint at
\* the entry node) sends an envelope addressed to D, and the endpoint's
\* receive thread routes it with the routing data it holds.  A KeyError
\* thrown by routeMessage is caught by receiveThread, which disconnects
\* the sender's endpoint.
Send(o, D) ==
  /\ Len(sent) < MaxEnvs
  /\ o \notin kicked
  /\ \/ o \in comps /\ o \in ipc[Host[o]]
     \/ o = Client /\ rd[Entry].has
  /\ D # {} /\ D \subseteq (comps \cup {Client}) \ {o}
  /\ LET n == IF o = Client THEN Entry ELSE Host[o]
         r == RouteEffect(n, Len(sent) + 1, {Addr(d) : d \in D})
     IN /\ got' = r.got /\ lost' = r.lost /\ net' = r.net
        /\ stuck' = r.stuck /\ peers' = r.peers
        /\ kicked' = IF r.threw THEN kicked \cup {o} ELSE kicked
        /\ dropped' = r.dropped
  /\ sent' = Append(sent, D)
  /\ UNCHANGED <<comps, rd, ipc, closed, breaks>>

\* A node endpoint's receive thread at n takes a copy and routes it with
\* the session's routing data, dropping it with a warning when n has none.
\* A KeyError disconnects the node endpoint it came in on: disconnect flags
\* it for destruction and the receive thread exits.
Receive(n, x) ==
  /\ x \in BagToSet(net) /\ x.at = n /\ <<n, x.from>> \notin closed
  /\ IF ~rd[n].has
       THEN /\ lost' = lost \cup {[e |-> x.e, d |-> DestOf(a), why |-> "unknownSession"] : a \in x.to}
            /\ net' = net (-) SetToBag({x})
            /\ UNCHANGED <<got, stuck, peers, closed, dropped>>
       ELSE LET r == RouteEffect(n, x.e, x.to) IN
            /\ got' = r.got /\ lost' = r.lost /\ stuck' = r.stuck
            /\ net' = r.net (-) SetToBag({x})
            /\ peers' = r.peers /\ dropped' = r.dropped
            /\ closed' = IF r.threw THEN closed \cup {<<n, x.from>>} ELSE closed
  /\ UNCHANGED <<comps, rd, ipc, sent, kicked, breaks>>

\* A greater node m dials n, whose endpoint for m is waiting: the node
\* connect filter at n passes the new peer to it (setPeer), and the
\* envelopes queued to it go out.
Unstick(n, m) ==
  /\ m \in peers[n] /\ n \in peers[m] /\ n < m
  /\ <<n, m>> \notin closed /\ <<m, n>> \notin closed
  /\ \E x \in BagToSet(stuck) : x.from = n /\ x.at = m
  /\ LET W == {x \in BagToSet(stuck) : x.from = n /\ x.at = m} IN
       /\ net' = net (+) [x \in W |-> CopiesIn(x, stuck)]
       /\ stuck' = [x \in BagToSet(stuck) \ W |-> stuck[x]]
  /\ UNCHANGED <<comps, rd, ipc, peers, got, lost, sent, kicked, closed, dropped, breaks>>

\* The connection between n and m fails (reset, closed, or a send or
\* receive error): the send and receive threads of both endpoints catch
\* it, call disconnect, which flags the endpoint for destruction, and
\* exit.  What was queued to either endpoint, or was in flight, is never
\* read; the send thread's warning names the peer, not the envelopes.
Close(n, m) ==
  /\ breaks < MaxBreaks
  /\ m \in peers[n] /\ n \in peers[m]
  /\ {<<n, m>>, <<m, n>>} \cap closed = {}
  /\ \A x \in BagToSet(stuck) : {x.from, x.at} # {n, m}
  /\ LET W == {x \in BagToSet(net) : {x.from, x.at} = {n, m}} IN
       /\ net' = [x \in BagToSet(net) \ W |-> net[x]]
       /\ dropped' = dropped \cup UNION {{[e |-> x.e, d |-> DestOf(a)] : a \in x.to} : x \in W}
  /\ closed' = closed \cup {<<n, m>>, <<m, n>>}
  /\ breaks' = breaks + 1
  /\ UNCHANGED <<comps, rd, ipc, peers, stuck, got, lost, sent, kicked>>

\* A connection whose far endpoint is live: m tracks n on an endpoint that
\* is not flagged and not waiting for its peer.
Connected(m, n) == n \in peers[m] /\ <<m, n>> \notin closed /\ ~Waiting(m, n)

\* Mutant: the destroyed endpoint's connection is not closed, so what was
\* on it stays to be read.
DestroyKeepsQueue(n, m) ==
  /\ <<n, m>> \in closed
  /\ peers' = [peers EXCEPT ![n] = @ \ {m}]
  /\ closed' = (closed \ {<<n, m>>}) \cup (IF Connected(m, n) THEN {<<m, n>>} ELSE {})
  /\ UNCHANGED <<comps, rd, ipc, net, stuck, got, lost, sent, kicked, dropped, breaks>>

\* The accept loop of n's router calls destroyEndpoints between polls: the
\* flagged endpoint for m is untracked from mNodes and, once no routing
\* holds it, destroyed with its queue, and deleting its peer closes the
\* connection.  A live endpoint at m on that connection then fails in its
\* send or receive thread and is flagged in turn.  What was still queued
\* or in flight either way is lost.
Destroy(n, m) ==
  /\ <<n, m>> \in closed
  /\ LET W == {x \in BagToSet(net) : {x.from, x.at} = {n, m}} IN
       /\ net' = [x \in BagToSet(net) \ W |-> net[x]]
       /\ dropped' = dropped \cup UNION {{[e |-> x.e, d |-> DestOf(a)] : a \in x.to} : x \in W}
  /\ peers' = [peers EXCEPT ![n] = @ \ {m}]
  /\ closed' = (closed \ {<<n, m>>}) \cup (IF Connected(m, n) THEN {<<m, n>>} ELSE {})
  /\ UNCHANGED <<comps, rd, ipc, stuck, got, lost, sent, kicked, breaks>>

\* No envelope is on a working link: the receive threads poll idly, which
\* is where the routers stay once nothing more is sent.
Done ==
  /\ net = EmptyBag
  /\ UNCHANGED vars

Next ==
  \/ \E n \in Nodes : Initialize(n) \/ Delete(n)
  \/ \E c \in Comps : Modify(c) \/ Register(c)
  \/ \E o \in Dests, D \in SUBSET Dests : Send(o, D)
  \/ \E n \in Nodes : \E x \in BagToSet(net) : Receive(n, x)
  \/ \E n, m \in Nodes : Unstick(n, m) \/ Close(n, m) \/ Destroy(n, m)
  \/ Done

Spec == Init /\ [][Next]_vars

-----------------------------------------------------------------------------
(* Properties                                                              *)

\* The destinations envelope e has been handed to, and those it was
\* dropped for with a logged error.
GotBy(e) == {x.d : x \in {y \in BagToSet(got) : y.e = e}}
LostBy(e) == {x.d : x \in {y \in lost : y.e = e}}
DroppedBy(e) == {x.d : x \in {y \in dropped : y.e = e}}

\* No copy of e is still on a link or waiting on an outbound endpoint.
Settled(e) == \A x \in BagToSet(net) \cup BagToSet(stuck) : x.e # e

TypeOK ==
  /\ comps \subseteq Comps /\ InitComps \subseteq comps
  /\ \A n \in Nodes : rd[n].has \in BOOLEAN /\ rd[n].deleted \in BOOLEAN /\ rd[n].map \subseteq Nodes
                    /\ ipc[n] \subseteq Comps /\ peers[n] \subseteq Nodes \ {n}
  /\ \A x \in BagToSet(net) \cup BagToSet(stuck) :
       x.e \in EnvIds /\ x.at \in Nodes /\ x.from \in Nodes /\ x.to \subseteq Addrs
  /\ \A x \in BagToSet(got) : x.e \in EnvIds /\ x.d \in Dests
  /\ \A x \in lost : x.e \in EnvIds /\ x.d \in Dests
  /\ Len(sent) <= MaxEnvs /\ \A e \in 1..Len(sent) : sent[e] \subseteq Dests
  /\ kicked \subseteq Dests
  /\ closed \subseteq Nodes \X Nodes /\ breaks \in 0..MaxBreaks
  /\ \A x \in dropped : x.e \in EnvIds /\ x.d \in Dests

\* The routers implement Delivery: with the logged errors as failures, no
\* destination is handed an envelope twice or one it was not addressed to,
\* none is both handed it and failed, and nothing handed or logged is
\* taken back, though routeMessage runs again on every node an envelope
\* crosses and the entry node merges the client's copy with its own
\* computations' addresses.
Abstract == INSTANCE Delivery WITH
  delivered <- got,
  failed    <- {[e |-> x.e, d |-> x.d] : x \in lost} \cup dropped

DeliveryRefined == Abstract!Spec

\* Spec, addressing and routing: once an envelope has settled, every
\* destination it was addressed to has been handed it, has an error
\* logged for it (computationNotFound, a KeyError, an unknown session), or
\* lost it with the queue of a node connection that failed; and no other
\* destination has been handed it.
DeliveredAsAddressed ==
  \A e \in 1..Len(sent) :
    /\ GotBy(e) \subseteq sent[e]
    /\ Settled(e) => GotBy(e) \cup LostBy(e) \cup DroppedBy(e) = sent[e]

\* Every envelope on a node connection is on one that both routers still
\* track: destroyEndpoints takes a flagged endpoint's queue and connection
\* down with it, so nothing queued on a connection that failed is read
\* once the endpoint is gone, and the reconnect that follows starts empty.
QueuedOnTracked ==
  \A x \in BagToSet(net) : x.from \in peers[x.at] /\ x.at \in peers[x.from]

\* Spec, routing data: the node map "may gain nodes during session life".
\* No envelope is dropped because the router that routes it has no node
\* map entry for a node of the session.
AddedNodesRouted == \A x \in lost : x.why # "keyError"

=============================================================================
