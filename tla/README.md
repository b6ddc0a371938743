# TLA+ models of the Arras node

This directory holds TLA+ models of two programs:
* the Arras node agent (`src/cmd/node`, `src/lib/session`);
* the node router that the agent launches (`src/cmd/node/router`).

The models are checked with TLC. `PROJECT.json` lists:
* every component of the system and how far it is modelled;
* every run, with the mutants that show each checked property can fail;
* the map from each definition to the source lines it models;
* the findings and the hazards.

Every module is translated from the code. A definition keeps the name of
the function or member it models where TLA+ allows. The comment above each
definition names the code it stands for.

## The system

The node is made of two processes that talk over an IPC socket.

**The agent** (`arras4_node`) has these parts.
* `main.cc` (`mainloop`) and `ArrasNode` start the agent.
  * `initialize` builds the session manager and `NodeService`, then runs
    `findServices` (Consul, then the Coordinator URL, retried
    `GET_COORD_RETRIES` times).
  * It then runs `buildNodeInfo` and `registerNode`: the Consul service, its
    health check, `POST /nodes` to the Coordinator, and the node info in
    Consul.
  * It installs the event handler, starts the PreemptionMonitor and calls
    `run`.
* `run` holds `mRunMutex` and waits until `stopRunning` clears `mRun`. Four
  things call `stopRunning`:
  * the TERM/INT handler;
  * `PUT /status shutdown`;
  * a `shutdownWithError` event;
  * the PreemptionMonitor.
* Then, still holding the mutex, `run` calls `shutdownAll`, `drainEvents`
  and `deregisterNode`.
* `NodeService` serves HTTP from a pool of worker threads.
  * `UrlRouter` dispatches each request.
  * `BanList` refuses addresses that make too many 404s.
  * A single send-events thread forwards events (computation ready or
    terminated, session expired, client disconnected, `shutdownWithError`)
    to the Coordinator.
* `PUT /node/tags` and `DELETE /node/tag(s)` change the node's tags.
  * The change is made on a background `std::thread` held in
    `mNodeInfoUpdateThread`.
  * The `mNodeInfoIsUpdating` flag guards it.

**The session manager** (`ArrasSessions`, `Session`, `Computation`,
`ArrasController`) has these parts.
* `ArrasSessions` maps session ids to `Session` objects.
* A session owns child processes, its computations.
* Each session runs at most one operation thread: `updateProc` (create and
  modify) or `deleteProc` (delete).
  * The Free/Busy/Defunct state and the `mShuttingDown` flag guard it.
* On the entry node, an expiration thread deletes a session whose client
  never connects.
* `ArrasController` talks to the router:
  * it sends `SessionRoutingData` Initialize/Update/Delete, control messages
    and client kicks;
  * it receives the Acknowledge, computation status and client connection
    status.

**The router** (`arras4_router`) has these parts.
* `NodeRouter::serviceToRouterProc` handles the agent's messages.
* The main thread's `threadProc` accepts connections and runs the connect
  filters:
  * for clients;
  * for computations (IPC), which reports a computation's status to the
    agent before its endpoint looks up the session's routing data;
  * for other nodes.
* `PeerManager` tracks the endpoints. It also stashes envelopes for a
  client that has not connected yet.
* `routeMessage` sends each envelope to a local client, a local computation
  or a remote node. To reach a remote node it opens a node-to-node
  connection. The node with the greater id keeps its own connection.
* `destroyEndpoints` untracks the endpoints flagged on errors.

The interactions that matter:
* a create blocks until the router acknowledges its Initialize;
* a delete tells the router to kick the client and forget the session;
* `shutdownAll` holds `mSessionsMutex` while HTTP workers keep calling in;
* the send-events thread may call `stopRunning` while `run` holds its
  mutex and waits for that thread to drain the queue.

## Modules

| Module | Models | Main sources |
|---|---|---|
| `SessionManager` | sessions, their operation threads, shutdownAll, expiration, computations, the controller–router link, the IPC registration of computations | `lib/session/*.cc`, `router/NodeRouter.cc`, `router/RoutingTable.cc`, `NodeService.cc` (session handlers) |
| `NodeLifecycle` | mainloop, initialize, run/stopRunning and its callers, the event queue and its shutdown | `main.cc`, `ArrasNode.cc`, `NodeService.cc`, `PreemptionMonitor.cc`, `ArrasController.cc` |
| `NodeRegistration` | findServices, buildNodeInfo, registerNode, deregisterNode, PUT /status unregistered, the tag handlers and update threads, the destruction order of `ArrasNode` | `ArrasNode.cc`, `NodeService.cc`, `ConsulClient.cc`, `ServiceClient.cc` |
| `BanList` | isBanned, track and cleanup under concurrent HTTP workers | `BanList.cc`, `UrlRouter.cc` |
| `UrlRouter` | split, Node::add, Node::handle (RECURSIVE operators) against reference definitions | `UrlRouter.cc`, `NodeService.cc` |
| `PeerRegistry` | the client table and stash, sendToLocalClient, the client connect filter, kickClient, disconnect and destroyEndpoints | `router/PeerManager.cc`, `RouteMessage.cc`, `NodeRouter.cc`, `RemoteEndpoint.cc`, `ThreadedNodeRouter.cc` |
| `NodeConnect` | two routers connecting to each other and the tie-break | `router/RouteMessage.cc`, `NodeRouter.cc`, `RemoteEndpoint.cc` |
| `RoutingNet` | routeMessage on every node of a session: address parsing, forwarding to the entry node, IPC delivery, node lists in id order with the node map lookup, routing data Initialize/Update/Delete | `router/RouteMessage.cc`, `SessionNodeMap.cc`, `NodeRouter.cc`, `RemoteEndpoint.cc`, `RoutingTable.cc` |
| `Delivery` | the abstract delivery promise of the routers, which `RoutingNet` implements | spec 4.E |
| `RouterProcess` | the router process's main, its accept and service-to-router threads, the signal handler, and the agent's connect-and-retry loop | `noderouter/main.cc`, `router/NodeRouterManage.cc`, `router/NodeRouter.cc`, `router/ThreadedNodeRouter.cc`, `lib/session/ArrasController.cc`, `lib/session/ArrasSessions.cc` |
| `TagStore` | the abstract tag store of spec 4.H, which `NodeRegistration` implements | spec 4.H |
| `MC_*` | model values and small sets for TLC | |

### SessionManager

The state:
* `sessions` maps each id to a Session object or `NoObj`.
  * Objects (`Objs`) are kept apart from ids. A failed create erases its id,
    and a later create builds a new object for that id while the old object
    may still exist.
* `obj[o]` holds one object's fields:
  * `st` (Unborn/Free/Busy/Defunct);
  * `down` (`mShuttingDown`);
  * `op` (where its operation thread is);
  * `want` (the configuration being applied);
  * `comps` (the keys of `mComputations`);
  * the expiration flag and thread;
  * whether the object is destroyed.
* `proc[o][c]` is the child process, `term[o][c]` is
  `mTerminationExpected`, and `sentGo[o]` is the set of computations whose
  `mSentGo` is set.
* `hs` holds the HTTP worker threads, each with the program counter of its
  handler.
* `sd` is the thread in `run` that calls `shutdownAll`.
* The IPC link is two FIFOs. `toRouter` carries Initialize, Update, Delete,
  Control and Kick. `toCtl` carries Acknowledge and computation Status.
* `rd` is the set of ids that have routing data in the router's
  `RoutingTable`, and `ack` is `mRouterHasRoutingData`.
* `reg[o][c]` is the router's answer to computation c's IPC registration.
* `events` is the history of events handed to the event handler.

The actions:
* Each HTTP handler is split at the points where other threads can observe
  a difference:
  * `CreateSession` (the `mClosed` check);
  * `CreateInsert` (the insert, or 409);
  * `CreateInit`, `CreateAcked` and `CreateTimeout` (the Initialize and the
    10 s wait);
  * `CreateUpdate` and `CreateErase`;
  * `ModifySession`, `DeleteSession` and `SignalSession` (`checkIsFree`,
    then `signalAll` or `signalEngineReady`).
* `updateProc` is `UpdDelta`, `UpdWait`, `UpdSpawn` (one computation
  started, or a failure that ends the update) and `UpdFinish`. After it,
  `EndUpdate` raises `sessionOperationFailed` on failure.
* `deleteProc` is `DelStop` and `DelFinish`. `DelFinish` sends Kick, then
  Delete.
* `shutdownAll` is `SdStart`, `SdLock`, `SdPick`, `SdWait`, `SdDelStop`,
  `SdDelFinish` and `SdEnd`.
  * `LockHeld` disables every handler step that takes `mSessionsMutex`.
* The environment:
  * `ExpirationFires`;
  * `RouterReceive` (serviceToRouterProc) and `ControllerAck`
    (handleMessage);
  * `ClientConnects` (stop the expiration, or kick the client of a Defunct
    session) and `ClientDisconnects`;
  * `ComputationRegisters` (the IPC connect filter's status notice, then
    the endpoint's routing data lookup);
  * `ProcessExits` and `SetClosed`.
* Data is abstracted as follows.
  * A session definition is the set of computations it gives this node.
  * Messages are records of the fields their receivers read.
  * Every timed wait is a choice between success and timeout: the 10 s ack,
    the 30 s shutdown, the delete and update waits, and expiration.

### NodeLifecycle

* `pc` is where the main thread is in `mainloop`, `initialize` and `run`.
* `mRun`, `lock` (`mRunMutex`) and `notified` model the condition variable.
  `RunSpurious` is a spurious wakeup.
* `st[t]` is the state of each caller of `stopRunning`. `sigMain` says that
  the signal is handled on the main thread.
* `q`, `snd`, `runThreads` and `qDown` model `mEventQueue`, the
  send-events thread, `mRunThreads` and the queue's shutdown.
* `Raise` models `ArrasController::handleEvent`:
  * an event is dropped before `setEventHandler`;
  * otherwise `NodeService::handleEvent` pushes it.
* `SendPop`, `SendDone`, `SendSwe` and `SendExit` model `sendEventsProc`.
  `SendSwe` calls `stopRunning`.
* `Drain` waits until the queue is empty or times out.
* `mon`, `monRun` and `monWoken` model the PreemptionMonitor thread, its
  `mRun` flag and a pending `notify_all`. `StartMonitor` is
  `PreemptionMonitor::start`. It starts the thread for an AWS or Azure
  monitor type and makes no monitor for any other type. `Teardown` is its
  destructor at the end of `mainloop`: `Teardown` is its destructor at the end of `mainloop`:
  * the destructor clears `mRun` and notifies without taking the mutex;
  * `MonitorJoin` then joins the thread.
* The thread's loop (`threadProc`) is split into steps:
  * `MonCheck` reads `mRun`;
  * `MonWait` enters the 15 s `wait_for`;
  * `MonWake` leaves it, by a notify or by the timeout;
  * `MonQuery` is the metadata query, which may find a preemption notice
    and call `stopRunning`;
  * `MonStopped` returns from that call.

  A notify sent between `MonCheck` and `MonWait` is lost. The join then
  waits until the timeout ends the wait.

### NodeRegistration

* `pc` walks through:
  * `findServices` (`FindConsul`, then `FindCoordinator`, counted by
    `tries`);
  * `buildNodeInfo` and each registration call (`RegisterService`,
    `RegisterCheck`, `RegisterCoordinator`, `UpdateNodeInfo`);
  * `run`;
  * the three deregistration calls;
  * the destruction of `ArrasNode`'s members.
* Every remote call can fail, and a failure throws out of its caller.
  `DeregisterOutcomes` are NodeService::deregisterNode's three results.
* `consulSvc`, `consulChk` and `coord` record what is registered, and
  `isReg` is `mIsRegistered`.
* The tag handlers (`TagHandler`, `TagRequest`) take `mNodeInfoMutex`.
  Then, outside the mutex, the worker joins and move-assigns
  `mNodeInfoUpdateThread` (`TagJoin`, `TagSpawn`, `TagAssign`).
* `thr[t]` is each update thread. It reads the tags, merges and validates,
  writes, and clears the flag. `terminated` is `std::terminate`.
* A tag is abstracted to its presence in a set.

### BanList, UrlRouter

* **BanList**: each HTTP worker runs `isBanned`, then the handler, then
  `track` on a 404. Each step is a separate critical section. A clock tick
  is an action, bounded by `MaxTime`. `GET status` runs `cleanup`.
* **UrlRouter**:
  * `split`, `add` and `handle` are RECURSIVE operators over the path
    elements;
  * the state is the tree built by adding NodeService's PUT routes one at a
    time, then one request looked up in it;
  * `SplitCorrect` and `HandleSound` compare the code's operators with
    reference definitions over every string and path within the bounds.

### PeerRegistry, NodeConnect

* **PeerRegistry**: one session on its entry node.
  * Routing threads (`Sources`) each run `Route`, then `QueueFound` or
    `StashCall`.
  * The main thread runs `ClientConnect` and `DestroyEndpoint` while its
    poll loop runs (`mainLoop`). `PollFails` is the catch that breaks the
    loop on any exception other than a closed or reset connection.
  * The client endpoint's receive thread runs `Disconnect`.
  * The service thread runs `KickFind` and `KickClear`.
* **NodeConnect**: two routers and the TCP connections between them.
  * `Dial` is routeMessage's createNodeRemoteEndpoint.
  * `Connect` is the send thread's connect and registration. The lesser
    node then waits for `setPeer`.
  * `Accept` is the receiver's node connect filter, under
    `mNodeConnectionMutex`.
  * `PeerClosed`, `NetError` and `Destroy` model errors and destruction.

### RoutingNet

One session whose computations sit on three nodes, with the client on the
entry node.
* `rd[n]` is node n's `SessionRoutingData`:
  * whether the `RoutingTable` holds it;
  * the node ids of its `SessionNodeMap`;
  * whether Delete removed it.
* `ipc[n]` and `peers[n]` are n's `mIpc` and `mNodes`.
* `net` is the bag of envelope copies on working node links. `stuck` is the
  copies queued to an outbound endpoint that waits for its peer.
* `got` is the bag of envelopes handed to each destination. `lost` is the
  drops that log an error.
* `RouteEffect` is the whole of `routeMessage` at one node:
  * `ToClient`, `IpcList` and `NodeList` are `parseDestinationAddressLists`;
  * `Lists` adds the session-only address for the entry node;
  * `Known` is `findNodePeer`, then `getNodeInfo`, which throws KeyError;
  * node lists go out in id order, and a KeyError ends the call;
  * `Answers` is whether the dialled node's connect filter keeps or returns
    the connection.
* `Send` is a client or computation endpoint routing with the routing data
  it holds; a KeyError disconnects that endpoint.
* `Receive` is a node endpoint, which looks the routing data up and drops
  the envelope with a warning when there is none.
* `Initialize` builds the node map from the config the node was created
  with. `Modify` is a modify adding a computation: `Update` only refreshes
  the client addresser, so the old nodes' maps do not change. `Delete` is
  `deleteSessionRoutingData`. `Register` is the IPC connect filter.
* `Unstick` is a greater node's connection handed to the waiting endpoint
  by `setPeer`.
  * `Waiting(n, m)` is n's outbound endpoint for m still waiting for its
    peer. Its send thread has not started, so a second envelope routed to
    it also stays in `stuck`.
  * `Answers` also covers the connect filter finding an endpoint still
    tracked for the dialling node: a greater node's connection is given to
    it by `setPeer`, a lesser one is refused as a reciprocal connection in
    progress.
* Node connections fail (`closed`, `dropped`, `breaks`):
  * `Close(n, m)` is a send or receive error on a working link. Both
    threads call `disconnect`, both endpoints are flagged, and the copies
    on the link go to `dropped`.
  * A KeyError in `Receive` also only flags the receiving endpoint. The
    endpoint stays in `peers`, and `routeMessage` keeps queueing to it.
    Those copies go to `dropped` too.
  * `Destroy(n, m)` is `destroyEndpoints` taking a flagged endpoint down.
    The destructor closes the connection, so the far endpoint, if it was
    still working, is flagged in turn.
* Connection set-up is kept only as its outcome; `NodeConnect` models it.
  The client side of the entry node, with the stash, is `PeerRegistry`'s.

### Delivery and its refinement

`Delivery` states what the routers promise one session's senders. Each
envelope is addressed to a set of destinations. Each destination is
resolved at most once: it is handed the envelope, or the envelope fails
for it. A step may resolve destinations of several envelopes, since a
closing connection takes everything queued on it. `RoutingNet` defines
`Abstract == INSTANCE Delivery WITH ...`:
* `sent` maps to the envelopes sent;
* `delivered` maps to `got`;
* `failed` maps to the logged drops (`lost`) and the copies that went down
  with a failed connection (`dropped`).

`rn_pass` checks `DeliveryRefined == Abstract!Spec`. Its mutant is a
routeMessage that queues the whole address list to each node.

### RouterProcess

* `main` is where the router's `main` is:
  * `Listen` is the two listens;
  * `Create` is `createNodeRouter`, which starts both threads;
  * `SetInetPort` assigns `router` and sets `mInetPort`;
  * `WaitDisconnected` is `waitForServiceDisconnected`;
  * `Stop`, `JoinAccept` and `JoinService` are `destroyNodeRouter`: stop,
    the joins and the delete.
* `acc` is the accept thread:
  * `Accept` is one poll that reads the agent's CONTROL registration. It is
    refused when a service endpoint exists. Otherwise it becomes the
    service endpoint, with a RouterInfo queued only if `mInetPort` is set.
  * `AcceptFails` is the loop's `break` on an exception.
  * `AcceptExit` is the loop seeing `mRun` = 0.
* `s2r` is `serviceToRouterProc`. `Notify` turns `mRequestShutdown` into
  the "routershutdown" message, which `ArrasController::handleMessage`
  ignores.
* `ServiceClosed` and `ServiceError` are `disconnect` on the service
  endpoint, which calls `serviceDisconnected`. It is caused either by the
  agent's exit or by a network error.
* `Signal` is the signal handler.
* The agent side:
  * `Connect` is `connectToRouter`'s connect and registration;
  * `PortReceived` is the RouterInfo read by the dispatcher;
  * `PortTimeout` is the end of the 100 × 100 ms wait;
  * `Retry` is the `ArrasSessions` loop of at most `MaxAttempts` calls;
  * `Close` is the node's exit.
* A second connect on the agent's `mRouterPeer` is taken as a new
  connection. The socket library is not under `src/`.

### TagStore and its refinement

`TagStore` states what spec 4.H promises: tag requests are accepted one at
a time, only when their result is valid, and each is applied in one step.
`NodeRegistration` defines `Store == INSTANCE TagStore WITH ...`:
* `tags` maps to the node's tags once `buildNodeInfo` ran;
* `busy` maps to `mNodeInfoIsUpdating`;
* `pending` maps to the request a handler or an update thread is carrying.

`rg_pass` checks `TagStoreRefined == Store!Spec`. Its mutant is an update
thread that clears the flag before it writes. That lets a second request be
accepted while the first is still unapplied.

## Runs

| Run | Module / cfg | Expect | Properties |
|---|---|---|---|
| `sm_check` | MC_SessionManager.cfg | pass | TypeOK, SingleOperation, DefunctStopsChildren, ShutdownStopsSessions, OperationEnds, NoControlAfterDelete |
| `sm_shutdown_race` | MC_SessionManager_shutdown_race.cfg | violation | ShutdownStopsAll |
| `lc_run` | NodeLifecycle.cfg | pass | TypeOK, RunExitsOnlyWhenStopped, StopEndsRun, ShutdownCompletes |
| `rg_pass` | MC_NodeRegistration.cfg | pass | TypeOK, TagsApplied, UpdateFinishes, TagStoreRefined |
| `rg_terminate` | MC_NodeRegistration_terminate.cfg | violation | NoTerminate |
| `bl_pass` | BanList.cfg | pass | TypeOK, BanAfterThreshold, BanClears |
| `ur_pass` | MC_UrlRouter.cfg | pass | TypeOK, HandleSound, HandleFindsIdRoutes, SplitCorrect |
| `pr_pass` | MC_PeerRegistry.cfg | pass | TypeOK, NothingStranded, SourceOrderKept |
| `nc_pass` | MC_NodeConnect.cfg | pass | TypeOK, NodeSettled |
| `rn_pass` | MC_RoutingNet.cfg | pass | TypeOK, DeliveryRefined, DeliveredAsAddressed, QueuedOnTracked |
| `rn_added` | MC_RoutingNet_added.cfg | violation | AddedNodesRouted |
| `rp_pass` | MC_RouterProcess.cfg | pass | TypeOK, ExitAfterAgentCloses |

What the passing runs show:
* **sm_check** (about 957,000 distinct states). This run interleaves two
  HTTP workers, the operation threads, `shutdownAll`, the router link and
  child exits. It shows:
  * operations on one session never overlap, even with a `syncShutdown`
    (`SingleOperation`);
  * a Defunct session has told every child to stop
    (`DefunctStopsChildren`);
  * every session `shutdownAll` found, and did not time out on, has stopped
    its children (`ShutdownStopsSessions`);
  * every Busy period ends (`OperationEnds`);
  * a run signal that passed `checkIsFree` before a delete never sends a
    control message after the session became Defunct
    (`NoControlAfterDelete`).
* **lc_run** (299,247 states):
  * `run` leaves its loop only after a stop;
  * a stop that arrives while `run` waits ends the process;
  * shutdown completes, even when the send-events thread waits in
    `stopRunning` while `run` drains. Only the drain timeout breaks that
    wait;
  * shutdown completes even when the monitor's wakeup is lost. Its mutant,
    a wait with no timeout, hangs in the join.

  The agent process really ends, so the NodeLifecycle cfgs say
  `CHECK_DEADLOCK FALSE`. Their liveness properties catch a hang instead.
* **rg_pass** (99,695 states):
  * every accepted tag update is applied exactly once, in the order
    accepted;
  * the busy flag is always cleared, unless the process terminated;
  * the handlers and update threads implement `TagStore`.
* **bl_pass** (3,924 states):
  * an address that reaches the threshold within the window is refused;
  * no address is refused more than two windows after its latest 404.
* **ur_pass** (4,688 states):
  * the router built by NodeService sends each request only to a route
    that matches it;
  * every path with a UUID at each `*` is handled;
  * `split` agrees with its reference.
* **pr_pass** (36,742 states):
  * no stashed envelope is stranded while a client is tracked;
  * each source's envelopes reach each endpoint in order.

  Both hold whether or not the main thread's poll loop has broken.
* **nc_pass** (4,760 states): once the link has settled, both routers use
  one connection, initiated by the greater node id.
* **rn_pass** (301,018 states). Routing data arrives late or is deleted,
  a modify adds a computation on a new node, and one node connection fails.
  Even so:
  * the routers implement `Delivery`. No destination is handed an envelope
    twice, or one it was not addressed to, or both handed it and failed
    for it. This holds across hops and the entry node's merge of client
    and computation addresses;
  * once an envelope settles, every destination has it, has a logged
    error, or lost it with a failed connection's queue;
  * nothing is left queued on a connection after `destroyEndpoints` took
    one of its endpoints down (`QueuedOnTracked`).
* **rp_pass** (2,045 states). This run includes a signal, a failing
  accept loop and a failing service connection. Once the agent's process
  is gone while its connection is the service endpoint, the router leaves
  `main`: it passes `waitForServiceDisconnected`, `stop` and both joins.

Each property of a passing run has a mutant in `PROJECT.json` that TLC
finds violating it. A mutant is a plausible bug in the mapped definition,
for example:
* a state check that ignores `mShuttingDown`;
* a `syncShutdown` that does not wait;
* a `stopRunning` that does not notify;
* a drain with no timeout;
* an update thread that validates the request instead of the merge;
* a stash that does not look again for the client;
* a node filter that always calls `setPeer`;
* a routeMessage that queues the whole address list to each node;
* an update thread that clears the busy flag before it writes.

## Findings

1. **sm_shutdown_race** (code bug, `ArrasSessions.cc:139`). `createSession`
   reads `mClosed` without the mutex. A create can pass the check, insert
   after `shutdownAll` walked the map, and leave children running after
   shutdown (spec P5).
2. **rg_terminate** (code bug, `ArrasNode.cc:706`). The busy flag is set
   under the mutex, but the thread member is joined and assigned outside
   it. Two requests, or a request during teardown, assign onto a joinable
   `std::thread`, which calls `std::terminate`.
3. **rn_added** (spec/code divergence, `NodeRouter.cc:219`). The spec says
   a session's node map may gain nodes. But Update only refreshes the client
   addresser, and `SessionNodeMap::update` is never called. After a modify
   places a computation on a new node, routing to it throws KeyError in
   `getNodeInfo`. The receive thread then disconnects the sender, which may
   be the client. The node lists after the new node's are never sent.

Other configurations show violations that are recorded as hazards, not
runs. Each hazard's note in `PROJECT.json` explains why:
* `MC_SessionManager_readd.cfg` (`UpdateStartsConfig`): a computation
  removed by one modify and added back by the next is never restarted,
  because defunct computations stay in `mComputations`.
* `NodeLifecycle_lost_stop.cfg` (`StopNotLost`): `run` sets
  `mRun = true` unconditionally, so a stop during `initialize` is lost and
  the node runs for ever.
* `MC_RouterProcess_port.cfg` (`PortOnAccept`): `createNodeRouter` starts
  the accept thread before `setInetPort`. The agent's CONTROL connection
  can be accepted with `mInetPort` still 0, so no RouterInfo is sent. Every
  retry is then refused as a duplicate, and the node fails to start.
* `NodeLifecycle_signal_deadlock.cfg` (`ShutdownCompletes`): the signal
  handler locks `mRunMutex`, which `run` holds, and the process hangs.
* `MC_SessionManager_stale_ack.cfg` (`RoutingBeforeChildren`):
  `mRouterHasRoutingData` is never cleared, so a re-created id does not wait
  for its Initialize.
* `MC_SessionManager_routing_leak.cfg` (`NoStaleRoutingData`): a failed
  create never sends Delete.
* `MC_SessionManager_reuse.cfg` (`DeletedIdReusable`): a deleted id cannot
  be created again.
* `MC_SessionManager_expiry.cfg` (`NoExpiryOfDeletedSession`): a deleted
  session still expires.
* `MC_SessionManager_ready.cfg` (`ReadyMeansAccepted`): a computation that
  registers after its session's Delete reached the router is reported ready,
  then refused.
* `NodeLifecycle_events.cfg` (`EventsDelivered`): events left in the queue
  at teardown are lost without a log line.
* `MC_NodeRegistration_early.cfg` (`TagsApplied` with early requests): a
  tag change accepted during `initialize` is undone by `buildNodeInfo`.
* `MC_NodeRegistration_dangling.cfg` (`NoDanglingRegistration`): a failed
  registration leaves the Consul service registered.
* `BanList_window.cfg` (`BanWithinWindow`): the count is of a chain of
  404s, not of the 404s within one window.
* `MC_UrlRouter_backtrack.cfg` (`HandleFindsRoutes`): `handle` never
  backtracks, so a constant route shadows a `*` route.
* `MC_PeerRegistry_dup.cfg` (`NoDuplicateDelivery`): the stash is delivered
  again to a reconnecting client.
* `MC_PeerRegistry_pollfail.cfg` (`FlaggedUntracked`): an exception breaks
  the router's main poll loop (`NodeRouter.cc:503`), for example the
  `InternalError` a failed `::poll` throws (`ListenServer.cc:88`). After
  that, a flagged client endpoint stays in `mClients`, and the session
  refuses every new client.
* `MC_NodeConnect_stall.cfg` (`WaitEnds`): the lesser node can wait for
  `setPeer` for ever.
* `MC_NodeConnect_setpeer.cfg` (`SetPeerOnNull`): `setPeer` replaces a live
  peer.

## Bounds

* **SessionManager** uses:
  * one session id and two objects, so an id can be erased and created
    again;
  * two computations, with the configurations `{c1,c2}` and `{c2}`, so a
    modify can shrink and grow;
  * two HTTP workers.

  `MaxRequests` is 2 in `sm_check` and 3 in the violation cfgs. Two requests
  on two workers already give create racing delete, signal and shutdown.
  Every finding needs at most three requests and two objects.
* **NodeLifecycle** uses two events plus `shutdownWithError`, and each
  `stopRunning` caller at most once. The signal may be handled on the main
  thread only in the deadlock cfg.
* **NodeRegistration** uses two HTTP workers, three tag requests (one more
  than the workers, so a worker reuses the thread member) and
  `GET_COORD_RETRIES` = 2.
* **BanList** uses one address, two workers, a ban count of 2, a one-tick
  window, three ticks and five requests. That is enough to cross the
  threshold, expire and be banned again.
* **UrlRouter** checks paths of up to four elements, and `split` on every
  string of up to four characters over `/`, `a` and `b`.
* **PeerRegistry** uses two sources of two envelopes each, two connections
  and one kick.
* **NodeConnect** uses two nodes and four TCP connections, enough for a
  simultaneous dial, a failure and a reconnection.
* **RoutingNet** uses:
  * nodes 1, 2 and 3, with the entry node 2;
  * a on 2 and b on 3 in the first config, and c added on node 1, so the
    new node sorts before the others in the node lists;
  * two envelopes, which is enough for a forward followed by a second
    envelope on the link it created;
  * `MaxBreaks` = 1 failed connection, which is enough for copies to go
    down with a queue and for a redial to meet the far node's endpoint
    before it is destroyed.
* **RouterProcess** uses `MaxAttempts` = 3 and one signal. Three attempts
  give a refused retry after a timed-out first connection, and the last
  attempt's SessionError. The signal can arrive before `router` is set,
  while the service endpoint is live, or after it is gone.

## Fairness

Weak fairness is assumed only for threads the code runs to completion once
they can move:
* HTTP workers inside a handler;
* session operation threads;
* the shutdown thread once started;
* the router's service thread and the controller's dispatcher;
* the main thread of `run` and the send-events thread;
* a caller already inside `stopRunning`;
* the PreemptionMonitor thread, whose every wait is a 15 s `wait_for`;
* the tag handler and update threads;
* routing threads that found or stash an envelope;
* the router main loop's sweep of flagged endpoints, while the loop runs.
  The exception that ends the loop (`PollFails`) is not forced;
* the kick's clear;
* the connect, accept, close and destroy steps of NodeConnect;
* in `RouterProcess`:
  * the router's main thread;
  * the accept and service-to-router threads. They wake at least once a
    second (the 1 s poll and 0.5 s pop timeouts) and read `mRun`;
  * the service endpoint's receive thread seeing the close;
  * the agent's connect loop.

  The accept loop's failure, network errors, signals and the node's
  decision to exit are not forced.

`RoutingNet` checks only invariants and assumes no fairness.

Every wait these threads make has a deadline in the code (or the model
includes its failure), so weak fairness is enough. No fairness is assumed
for anything outside the node's control:
* requests;
* client connections;
* child process exits;
* signals;
* network errors;
* the Coordinator and Consul.

## Not modelled

* `HardwareFeatures`, `calcResources`, `fetchInetInterfaces` and the
  health checks read the system and have no protocol.
* Configuration parsing (`SessionConfig`, `ComputationConfig`) and message
  serialization are data transformations. A session definition is a set of
  computations, and a message is a record.
  * `ComputationConfig::applyPackaging` picks one wrapper from a string
    field, and its rez branches run an external resolver. No state of the
    node depends on which wrapper was picked.
  * `ArrasNode::calcResources` and `memoryFromString` compute in 64-bit
    unsigned arithmetic: `std::stol` and shifts by 10, 20 and 30 bits.
    This is beyond TLC's 32-bit integers. A node memory at or above the
    physical memory throws, as the spec's fatal init error says. A
    computation memory above what remains only logs a warning. That case
    is noted here but not checked.
* The client and computation addressers are not under `src/`.
  `RoutingNet` takes the addresses they produce as given.
* `RoutingNet` holds one session. `findNodeInfo` looks through every
  session's node map; with one session that is the session's own map.
* The router's option parsing, `ListenServer`'s accept batching, the
  byte-level send and receive, and heartbeats and performance statistics
  are not modelled.
* `PeerManager`'s listener table (`trackListener`, `getListeners`) is never
  filled by any caller under `src/`, so no model has it.
* SIGINT and SIGTERM do not stop the router by themselves. The
  "routershutdown" message they cause is ignored by the agent, so a router
  whose agent never got a service endpoint runs until it is killed. This
  agrees with the spec: only the loss of the control link triggers router
  shutdown. `ExitAfterAgentCloses` therefore starts from a live service
  endpoint.
* After `destroyNodeRouter`, `router` is not reset, so a signal during
  process exit would call `requestShutdown` on a deleted object. This is a
  memory-lifetime hazard, and `Signal` stops at `main` = "done".
* The lifetime of objects in memory is out of reach of the models. This
  covers the use after free in `main.cc:224` and `setPeer` deleting a socket
  in use.

## Plan for later sittings

* An abstract session-lifecycle specification, with `SessionManager` shown
  to implement it by a refinement mapping, like `TagStore`.
* The window between the IPC
  filter's "ready" notice and `trackIpc`, in `RoutingNet`.
