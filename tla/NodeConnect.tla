------------------------------ MODULE NodeConnect ------------------------------
(***************************************************************************)
(* The node-to-node connection of two routers and its tie-break           *)
(* (src/cmd/node/router: RouteMessage.cc routeMessage, NodeRouter.cc node  *)
(* connect filter, RemoteEndpoint.cc sendThreadWithConnect, setPeer and    *)
(* the destructor, ThreadedNodeRouter.cc destroyEndpoints).                *)
(*                                                                         *)
(* Each router keeps at most one endpoint for the other node (mNodes).    *)
(* routeMessage creates an outbound endpoint whose send thread dials the   *)
(* other node and sends a registration.  The node with the greater id     *)
(* uses its own connection at once; the lesser one waits, with no         *)
(* timeout, for the greater node to connect back and hand it a peer       *)
(* through setPeer.  The receiving router's connect filter, holding       *)
(* mNodeConnectionMutex, drops a registration from a lesser node (after   *)
(* creating a reciprocal endpoint if it has none), and from a greater node *)
(* accepts it as a new endpoint or passes it to the existing one.         *)
(* Endpoints are flagged on errors and destroyed by the main thread; the   *)
(* destruction closes the socket, which the other side sees as an error.  *)
(*                                                                         *)
(* Node ids are numbers, compared as UUID::operator< compares them.       *)
(***************************************************************************)
EXTENDS Naturals, FiniteSets

CONSTANTS
  Nodes,      \* the two node ids
  MaxConns    \* bound on the TCP connections made between them

ASSUME Nodes \subseteq Nat /\ Cardinality(Nodes) = 2

Other(n) == CHOOSE m \in Nodes : m # n

Conns == 1..MaxConns

NoConn == 0

\* An endpoint of a router for the other node: outbound (created by
\* routeMessage or as the reciprocal) or accepted; the connection in mPeer;
\* its send thread's place; mFlaggedForDestruction; the connection it dialled.
NoEp == [kind |-> "none", peer |-> NoConn, pc |-> "none", flagged |-> FALSE, dialled |-> NoConn]

VARIABLES
  ep,      \* ep[n]: n's endpoint in mNodes for the other node, or NoEp
  info,    \* info[n]: n has routing data with the other node's NodeInfo
  conn,    \* conn[c]: [from, to, st] of TCP connection c
  nconn    \* connections made so far

vars == <<ep, info, conn, nconn>>

-----------------------------------------------------------------------------

\* A new outbound endpoint: its send thread has yet to dial.
OutEp == [kind |-> "out", peer |-> NoConn, pc |-> "connect", flagged |-> FALSE, dialled |-> NoConn]

Init ==
  /\ ep = [n \in Nodes |-> NoEp]
  /\ info = [n \in Nodes |-> FALSE]
  /\ conn = [c \in Conns |-> [from |-> NoConn, to |-> NoConn, st |-> "none"]]
  /\ nconn = 0

\* Initialize routing data arrives at n's router with the session's node map.
RoutingData(n) ==
  /\ ~info[n]
  /\ info' = [info EXCEPT ![n] = TRUE]
  /\ UNCHANGED <<ep, conn, nconn>>

\* routeMessage has an envelope for the other node and findNodePeer finds
\* nothing, also under mNodeConnectionMutex: createNodeRemoteEndpoint and
\* trackNode.
Dial(n) ==
  /\ info[n] /\ ep[n] = NoEp
  /\ ep' = [ep EXCEPT ![n] = OutEp]
  /\ UNCHANGED <<info, conn, nconn>>

\* sendThreadWithConnect: connect and send the registration.  A greater
\* node uses the connection (setPeerInternal); a lesser one waits for mPeer.
Connect(n) ==
  /\ ep[n].pc = "connect" /\ nconn < MaxConns
  /\ LET c == nconn + 1 IN
       /\ conn' = [conn EXCEPT ![c] = [from |-> n, to |-> Other(n), st |-> "sent"]]
       /\ nconn' = c
       /\ ep' = [ep EXCEPT ![n] =
                   IF Other(n) < n
                     THEN [@ EXCEPT !.peer = c, !.pc = "run", !.dialled = c]
                   ELSE IF @.peer # NoConn
                     THEN [@ EXCEPT !.pc = "run", !.dialled = c]
                   ELSE [@ EXCEPT !.pc = "wait", !.dialled = c]]
  /\ UNCHANGED info

\* connect throws: flagForDestruction.  A greater node still sets the failed
\* peer; a lesser one waits until the destructor wakes it.  The attempt
\* counts against MaxConns.
ConnectFails(n) ==
  /\ ep[n].pc = "connect" /\ nconn < MaxConns
  /\ LET c == nconn + 1 IN
       /\ conn' = [conn EXCEPT ![c] = [from |-> n, to |-> Other(n), st |-> "closed"]]
       /\ nconn' = c
  /\ ep' = [ep EXCEPT ![n].flagged = TRUE, ![n].pc = "failed"]
  /\ UNCHANGED info

\* Mutant: setPeer stores the peer without notifying mPeerSetCondition.
AcceptSetPeerNoNotify(c) ==
  /\ conn[c].st = "sent"
  /\ LET n == conn[c].from
         m == conn[c].to
     IN
     \/ /\ ep[m] = NoEp /\ n < m /\ info[m]
        /\ ep' = [ep EXCEPT ![m] = OutEp]
        /\ conn' = [conn EXCEPT ![c].st = "dropped"]
     \/ /\ ep[m] = NoEp /\ n < m /\ ~info[m]
        /\ conn' = [conn EXCEPT ![c].st = "ignored"]
        /\ UNCHANGED ep
     \/ /\ ep[m] = NoEp /\ m < n
        /\ ep' = [ep EXCEPT ![m] = [kind |-> "in", peer |-> c, pc |-> "run",
                                    flagged |-> FALSE, dialled |-> NoConn]]
        /\ conn' = [conn EXCEPT ![c].st = "used"]
     \/ /\ ep[m] # NoEp /\ n < m
        /\ conn' = [conn EXCEPT ![c].st = "dropped"]
        /\ UNCHANGED ep
     \/ /\ ep[m] # NoEp /\ m < n
        /\ ep' = [ep EXCEPT ![m].peer = c]
        /\ conn' = [conn EXCEPT ![c].st = "used"]
  /\ UNCHANGED <<info, nconn>>

\* Mutant: a registration that finds an existing endpoint is always passed
\* to it with setPeer, whichever node has the greater id.
AcceptSetPeerAlways(c) ==
  /\ conn[c].st = "sent"
  /\ LET n == conn[c].from
         m == conn[c].to
     IN
     \/ /\ ep[m] = NoEp /\ n < m /\ info[m]
        /\ ep' = [ep EXCEPT ![m] = OutEp]
        /\ conn' = [conn EXCEPT ![c].st = "dropped"]
     \/ /\ ep[m] = NoEp /\ n < m /\ ~info[m]
        /\ conn' = [conn EXCEPT ![c].st = "ignored"]
        /\ UNCHANGED ep
     \/ /\ ep[m] = NoEp /\ m < n
        /\ ep' = [ep EXCEPT ![m] = [kind |-> "in", peer |-> c, pc |-> "run",
                                    flagged |-> FALSE, dialled |-> NoConn]]
        /\ conn' = [conn EXCEPT ![c].st = "used"]
     \/ /\ ep[m] # NoEp
        /\ ep' = [ep EXCEPT ![m].peer = c,
                            ![m].pc = IF @ = "wait" THEN "run" ELSE @]
        /\ conn' = [conn EXCEPT ![c].st = "used"]
  /\ UNCHANGED <<info, nconn>>

\* The node connect filter of m's main thread on registration c from n.
Accept(c) ==
  /\ conn[c].st = "sent"
  /\ LET n == conn[c].from
         m == conn[c].to
     IN
     \/ /\ ep[m] = NoEp /\ n < m /\ info[m]
        /\ ep' = [ep EXCEPT ![m] = OutEp]
        /\ conn' = [conn EXCEPT ![c].st = "dropped"]
     \/ /\ ep[m] = NoEp /\ n < m /\ ~info[m]
        /\ conn' = [conn EXCEPT ![c].st = "ignored"]
        /\ UNCHANGED ep
     \/ /\ ep[m] = NoEp /\ m < n
        /\ ep' = [ep EXCEPT ![m] = [kind |-> "in", peer |-> c, pc |-> "run",
                                    flagged |-> FALSE, dialled |-> NoConn]]
        /\ conn' = [conn EXCEPT ![c].st = "used"]
     \/ /\ ep[m] # NoEp /\ n < m
        /\ conn' = [conn EXCEPT ![c].st = "dropped"]
        /\ UNCHANGED ep
     \/ /\ ep[m] # NoEp /\ m < n
        /\ ep' = [ep EXCEPT ![m].peer = c,
                            ![m].pc = IF @ = "wait" THEN "run" ELSE @]
        /\ conn' = [conn EXCEPT ![c].st = "used"]
  /\ UNCHANGED <<info, nconn>>

\* A send or receive error on a running endpoint: flagForDestruction.
NetError(n) ==
  /\ ep[n].pc = "run" /\ ~ep[n].flagged
  /\ ep' = [ep EXCEPT ![n].flagged = TRUE]
  /\ UNCHANGED <<info, conn, nconn>>

\* The receive thread sees the socket closed by the other side.
PeerClosed(n) ==
  /\ ep[n].pc = "run" /\ ~ep[n].flagged
  /\ ep[n].peer # NoConn /\ conn[ep[n].peer].st = "closed"
  /\ ep' = [ep EXCEPT ![n].flagged = TRUE]
  /\ UNCHANGED <<info, conn, nconn>>

\* destroyEndpoints: untrack the endpoint; the destructor shuts its socket.
Destroy(n) ==
  /\ ep[n].flagged
  /\ ep' = [ep EXCEPT ![n] = NoEp]
  /\ conn' = IF ep[n].peer # NoConn
               THEN [conn EXCEPT ![ep[n].peer].st = "closed"] ELSE conn
  /\ UNCHANGED <<info, nconn>>

\* MaxConns connections have been made: no further dial can proceed.
BoundReached ==
  /\ nconn = MaxConns
  /\ UNCHANGED vars

Next ==
  \/ BoundReached
  \/ \E n \in Nodes :
       \/ RoutingData(n) \/ Dial(n) \/ Connect(n) \/ ConnectFails(n)
       \/ NetError(n) \/ PeerClosed(n) \/ Destroy(n)
  \/ \E c \in Conns : Accept(c)

\* Send threads run, the main threads' poll loops accept registrations
\* and sweep flagged endpoints, receive threads notice a closed socket.
\* Routing data, routed envelopes and network errors come from outside.
Fairness ==
  /\ \A n \in Nodes : WF_vars(Connect(n)) /\ WF_vars(PeerClosed(n)) /\ WF_vars(Destroy(n))
  /\ \A c \in Conns : WF_vars(Accept(c))

Spec == Init /\ [][Next]_vars /\ Fairness

-----------------------------------------------------------------------------
(* Properties                                                              *)

Greater == CHOOSE n \in Nodes : \A m \in Nodes : m <= n

TypeOK ==
  /\ nconn \in 0..MaxConns
  /\ \A n \in Nodes :
       /\ ep[n].kind \in {"none", "out", "in"}
       /\ ep[n].pc \in {"none", "connect", "wait", "run", "failed"}
       /\ ep[n].peer \in Conns \cup {NoConn} /\ ep[n].dialled \in Conns \cup {NoConn}
       /\ ep[n].kind = "in" => ep[n].pc = "run"
       /\ ep[n].pc = "wait" => ep[n].peer = NoConn
  /\ \A c \in Conns : conn[c].st \in {"none", "sent", "used", "dropped", "ignored", "closed"}
                    /\ (conn[c].st = "none" <=> c > nconn)

\* Both routers run an endpoint for the other on a connection that is not
\* closed, neither is flagged, and no registration is in flight.
Settled ==
  /\ \A c \in Conns : conn[c].st # "sent"
  /\ \A n \in Nodes : /\ ep[n].pc = "run" /\ ~ep[n].flagged
                      /\ ep[n].peer # NoConn /\ conn[ep[n].peer].st # "closed"

\* P3: once the connection has settled the two routers' records for each
\* other use one and the same connection, and the node with the greater
\* id initiated it, whatever the order of the two sides' dials, accepts,
\* errors and destructions.
NodeSettled ==
  Settled => /\ ep[Greater].peer = ep[Other(Greater)].peer
             /\ conn[ep[Greater].peer].from = Greater

\* An outbound endpoint of the lesser node that waits for its peer is
\* eventually given one (or destroyed), so the envelopes routeMessage
\* queues to it are sent; runs that use up MaxConns are not counted.
WaitEnds ==
  \A n \in Nodes : ep[n].pc = "wait" ~> (ep[n].pc # "wait" \/ nconn = MaxConns)

\* setPeer is only ever handed a connection for an endpoint whose mPeer is
\* null; otherwise it deletes the socket the receive thread is polling.
SetPeerOnNull ==
  [][\A n \in Nodes :
       ep[n] # NoEp /\ ep'[n] # NoEp /\ ep'[n].peer # ep[n].peer => ep[n].peer = NoConn]_vars

=============================================================================
