----------------------------- MODULE PeerRegistry -----------------------------
(***************************************************************************)
(* The client side of the router's peer registry (src/cmd/node/router:    *)
(* PeerManager.cc, RouteMessage.cc, NodeRouter.cc, RemoteEndpoint.cc and   *)
(* ThreadedNodeRouter.cc), for one session on its entry node.              *)
(*                                                                         *)
(* Computations' receive threads route envelopes to the session's client   *)
(* with sendToLocalClient: findClientPeer, then queue to the endpoint      *)
(* found, or stashEnvelope, which looks again under the registry mutex and *)
(* queues or appends to mPendingEnvelopes.  The router's main thread runs  *)
(* the client connect filter (trackClient queues the stash to the new      *)
(* endpoint) and destroyEndpoints (untracks flagged endpoints).  A client  *)
(* endpoint's receive thread flags it when the connection drops; the      *)
(* service thread's kickClient flags the client, or clears the stash when  *)
(* there is none.                                                          *)
(*                                                                         *)
(* An endpoint holds a shared pointer's worth of life: a thread that found *)
(* it queues to it even after it is untracked, so a push never fails here; *)
(* what the endpoint's send thread does with its queue is not modelled.    *)
(***************************************************************************)
EXTENDS Naturals, Sequences, FiniteSets

CONSTANTS
  Sources,   \* computations whose receive threads route to the client
  MaxMsgs,   \* envelopes each source routes to the client
  MaxConns,  \* client connections accepted over the run
  MaxKicks   \* kickClient requests from the agent

\* Client endpoints, numbered in the order the connect filter creates them.
Eps == 1..MaxConns

None == 0

\* An envelope: its source and its number in that source's sequence.
Msgs == [src : Sources, n : 1..MaxMsgs]

VARIABLES
  clients,   \* mClients[sid]: the tracked endpoint, or None
  pending,   \* mPendingEnvelopes[sid]
  epState,   \* "unborn", "live", "flagged" (in mEndpointsToDelete) or "untracked"
  queued,    \* queued[e]: every envelope pushed to e's message queue, in order
  src,       \* src[s]: [pc, n: envelopes routed so far, ep: endpoint found]
  kick,      \* the service thread in kickClient: [pc, count]
  conns,     \* endpoints created so far
  mainLoop   \* the router's main thread (NodeRouter::threadProc): "loop" or "exited"

vars == <<clients, pending, epState, queued, src, kick, conns, mainLoop>>

-----------------------------------------------------------------------------
(* PeerManager                                                             *)

\* Mutant: the stash is queued to the new endpoint last envelope first.
TrackClientReversed(e, q) ==
  [q EXCEPT ![e] = @ \o [i \in 1..Len(pending) |-> pending[Len(pending) + 1 - i]]]

\* trackClient: mClients[aId] = peer, then every stashed envelope is queued
\* to it, all under mMutex.  The stash is left in place.
TrackClient(e, q) == [q EXCEPT ![e] = @ \o pending]

\* Mutant: stashEnvelope appends without looking for the client again.
StashNoRecheck(m) ==
  [q |-> queued, p |-> Append(pending, m)]

\* stashEnvelope, under mMutex: queue to the client if it is now tracked,
\* else append to mPendingEnvelopes[aSessionId].
Stash(m) ==
  IF clients # None
    THEN [q |-> [queued EXCEPT ![clients] = Append(@, m)], p |-> pending]
    ELSE [q |-> queued, p |-> Append(pending, m)]

\* findClientPeer: mClients' entry for the session, under mMutex.
FindClientPeer == clients

\* destroyPeer / eraseIfFound(mClients): the entry whose endpoint is e goes.
Untrack(e) == IF clients = e THEN None ELSE clients

-----------------------------------------------------------------------------

Init ==
  /\ clients = None
  /\ pending = <<>>
  /\ epState = [e \in Eps |-> "unborn"]
  /\ queued = [e \in Eps |-> <<>>]
  /\ src = [s \in Sources |-> [pc |-> "idle", n |-> 0, ep |-> None]]
  /\ kick = [pc |-> "idle", count |-> 0]
  /\ conns = 0
  /\ mainLoop = "loop"

\* routeMessage to a client address on the entry node: sendToLocalClient's
\* findClientPeer, which keeps the endpoint it finds.
Route(s) ==
  /\ src[s].pc = "idle" /\ src[s].n < MaxMsgs
  /\ src' = [src EXCEPT ![s] = [pc |-> IF FindClientPeer # None THEN "found" ELSE "stash",
                                n |-> @.n + 1, ep |-> FindClientPeer]]
  /\ UNCHANGED <<clients, pending, epState, queued, kick, conns, mainLoop>>

\* client->queueEnvelope(envelope) on the endpoint found.
QueueFound(s) ==
  /\ src[s].pc = "found"
  /\ queued' = [queued EXCEPT ![src[s].ep] = Append(@, [src |-> s, n |-> src[s].n])]
  /\ src' = [src EXCEPT ![s] = [pc |-> "idle", n |-> @.n, ep |-> None]]
  /\ UNCHANGED <<clients, pending, epState, kick, conns, mainLoop>>

\* No client was found: stashEnvelope.
StashCall(s) ==
  /\ src[s].pc = "stash"
  /\ LET r == Stash([src |-> s, n |-> src[s].n]) IN
       /\ queued' = r.q
       /\ pending' = r.p
  /\ src' = [src EXCEPT ![s].pc = "idle"]
  /\ UNCHANGED <<clients, epState, kick, conns, mainLoop>>

\* Mutant: the filter does not look for an existing client first.
ClientConnectNoRefuse ==
  /\ mainLoop = "loop" /\ conns < MaxConns
  /\ LET e == conns + 1 IN
       /\ clients' = e
       /\ epState' = [epState EXCEPT ![e] = "live"]
       /\ queued' = TrackClient(e, queued)
       /\ conns' = e
  /\ UNCHANGED <<pending, src, kick, mainLoop>>

\* The client connect filter on the main thread: refused while the session
\* has a client; else a ClientRemoteEndpoint (with or without routing data)
\* is created and trackClient called.
ClientConnect ==
  /\ mainLoop = "loop" /\ clients = None /\ conns < MaxConns
  /\ LET e == conns + 1 IN
       /\ clients' = e
       /\ epState' = [epState EXCEPT ![e] = "live"]
       /\ queued' = TrackClient(e, queued)
       /\ conns' = e
  /\ UNCHANGED <<pending, src, kick, mainLoop>>

\* The client's connection drops (or it sends "disconnect"): the receive
\* thread's disconnect() notifies the agent and calls flagForDestruction.
Disconnect(e) ==
  /\ epState[e] = "live"
  /\ epState' = [epState EXCEPT ![e] = "flagged"]
  /\ UNCHANGED <<clients, pending, queued, src, kick, conns, mainLoop>>

\* destroyEndpoints after the main thread's poll: pop a flagged endpoint and
\* untrack it.
DestroyEndpoint(e) ==
  /\ mainLoop = "loop" /\ epState[e] = "flagged"
  /\ clients' = Untrack(e)
  /\ epState' = [epState EXCEPT ![e] = "untracked"]
  /\ UNCHANGED <<pending, queued, src, kick, conns, mainLoop>>

\* server.poll or destroyEndpoints throws something other than a closed or
\* reset connection (a failed ::poll, EINTR from the router's own signal
\* handlers included): the catch breaks out of while (mRun), and neither
\* the connect filters nor destroyEndpoints run again.
PollFails ==
  /\ mainLoop = "loop" /\ mainLoop' = "exited"
  /\ UNCHANGED <<clients, pending, epState, queued, src, kick, conns>>

\* serviceToRouterProc receives a ClientConnectionStatus other than
\* "connected" and calls kickClient: findClientPeer; a client found gets the
\* session status, is drained and flagged for destruction.
KickFind ==
  /\ kick.pc = "idle" /\ kick.count < MaxKicks
  /\ IF FindClientPeer # None
       THEN /\ epState' = [epState EXCEPT ![FindClientPeer] =
                             IF @ = "live" THEN "flagged" ELSE @]
            /\ kick' = [pc |-> "idle", count |-> kick.count + 1]
       ELSE /\ kick' = [pc |-> "clear", count |-> kick.count + 1]
            /\ UNCHANGED epState
  /\ UNCHANGED <<clients, pending, queued, src, conns, mainLoop>>

\* No client was found: clearStashedEnvelopes, under mMutex again.
KickClear ==
  /\ kick.pc = "clear"
  /\ pending' = <<>>
  /\ kick' = [kick EXCEPT !.pc = "idle"]
  /\ UNCHANGED <<clients, epState, queued, src, conns, mainLoop>>

\* Every source has routed all its envelopes and kickClient is idle.
Done ==
  /\ \A s \in Sources : src[s].pc = "idle" /\ src[s].n = MaxMsgs
  /\ kick.pc = "idle"
  /\ UNCHANGED vars

Next ==
  \/ \E s \in Sources : Route(s) \/ QueueFound(s) \/ StashCall(s)
  \/ ClientConnect \/ KickFind \/ KickClear \/ PollFails \/ Done
  \/ \E e \in Eps : Disconnect(e) \/ DestroyEndpoint(e)

\* Routing threads, once they have started, run sendToLocalClient to the
\* end; the main thread's poll loop, while it runs, sweeps the flagged
\* endpoints at least once a second; the service thread finishes
\* kickClient.  Connections, disconnections, kicks, new envelopes and the
\* exception that ends the poll loop come from outside.
Fairness ==
  /\ \A s \in Sources : WF_vars(QueueFound(s)) /\ WF_vars(StashCall(s))
  /\ \A e \in Eps : WF_vars(DestroyEndpoint(e))
  /\ WF_vars(KickClear)

Spec == Init /\ [][Next]_vars /\ Fairness

-----------------------------------------------------------------------------
(* Properties                                                              *)

\* Every envelope queued to endpoint e, with where each was queued.
Delivered(e) == {queued[e][i] : i \in 1..Len(queued[e])}

TypeOK ==
  /\ clients \in Eps \cup {None} /\ conns \in 0..MaxConns /\ mainLoop \in {"loop", "exited"}
  /\ \A e \in Eps : epState[e] \in {"unborn", "live", "flagged", "untracked"}
  /\ \A i \in 1..Len(pending) : pending[i] \in Msgs
  /\ \A e \in Eps : \A i \in 1..Len(queued[e]) : queued[e][i] \in Msgs
  /\ \A s \in Sources : src[s].pc \in {"idle", "found", "stash"} /\ src[s].n \in 0..MaxMsgs
  /\ clients # None => epState[clients] \in {"live", "flagged"}
  /\ \A e \in Eps : epState[e] = "live" => clients = e

\* No envelope is stranded in the stash while the session has a client:
\* whatever the order of a routing thread's findClientPeer, the connect
\* filter's trackClient and the thread's stashEnvelope, every stashed
\* envelope has been queued to the tracked client endpoint.
NothingStranded ==
  clients # None =>
    \A i \in 1..Len(pending) : pending[i] \in Delivered(clients)

\* P2 ordering: the envelopes of one source reach each client endpoint's
\* queue in the order the source routed them, stashed ones included.
SourceOrderKept ==
  \A e \in Eps : \A i, j \in 1..Len(queued[e]) :
    i < j /\ queued[e][i].src = queued[e][j].src => queued[e][i].n < queued[e][j].n

\* An endpoint flagged for destruction, by a dropped connection or by
\* kickClient, is untracked by the main thread's sweep, so the session can
\* take a new client.  The main thread's catch-and-break (PollFails) ends
\* the sweeps for good.
FlaggedUntracked ==
  \A e \in Eps : epState[e] = "flagged" ~> clients # e

\* P2 duplication: no envelope is queued twice to the session's client,
\* across the endpoints of its successive connections.
NoDuplicateDelivery ==
  \A e1, e2 \in Eps : \A i \in 1..Len(queued[e1]), j \in 1..Len(queued[e2]) :
    queued[e1][i] = queued[e2][j] => e1 = e2 /\ i = j

=============================================================================
