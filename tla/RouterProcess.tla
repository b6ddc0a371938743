---------------------------- MODULE RouterProcess ----------------------------
(***************************************************************************)
(* The router process and the agent's link to it.  main (noderouter/      *)
(* main.cc) listens on the IPC and inet sockets, creates and starts the    *)
(* NodeRouter (its accept thread and its service-to-router thread), tells  *)
(* it the inet port, waits until the service connection is gone and then   *)
(* stops and deletes it.  The accept thread's CONTROL filter makes the     *)
(* agent's connection the service endpoint and queues a RouterInfo with    *)
(* the port; the agent (ArrasSessions, ArrasController::connectToRouter)   *)
(* connects, waits for the port and retries, up to MaxAttempts times.  A   *)
(* SIGINT or SIGTERM sets mRequestShutdown, which the service-to-router    *)
(* thread turns into a "routershutdown" message to the agent.              *)
(***************************************************************************)
EXTENDS Naturals

CONSTANTS
  MaxAttempts,  \* connectToRouter calls in the ArrasSessions constructor (10)
  MaxSignals    \* signals delivered to the router process

VARIABLES
  main,      \* where main is: "listen", "create", "assign", "wait", "stop",
             \* "joinAccept", "joinService", "done" (router deleted)
  inetPort,  \* NodeRouter::mInetPort # 0
  mRun,      \* NodeRouter::mRun
  mRequestShutdown,
  mServiceDisconnected,
  svcEp,     \* the service endpoint: "none", "live", "closed" (disconnected)
  acc,       \* accept thread (threadProc): "idle" (not started), "loop", "exited"
  s2r,       \* serviceToRouterProc thread: "idle", "loop", "exited"
  agent,     \* "connect", "waitPort", "up", "failed", "closed" (process gone)
  conn,      \* the agent's newest connection: "none", "pending", "accepted", "refused"
  info,      \* a RouterInfo has been queued to the agent
  attempts,  \* connectToRouter calls made
  sigs

vars == <<main, inetPort, mRun, mRequestShutdown, mServiceDisconnected, svcEp,
          acc, s2r, agent, conn, info, attempts, sigs>>
threads == <<acc, s2r>>
flags == <<mRequestShutdown, mServiceDisconnected, svcEp>>
client == <<agent, conn, info, attempts>>
router == <<main, inetPort, mRun, flags, threads, sigs>>

\* The IPC socket is bound and listening from line 129 until the process exits.
Listening == main \notin {"listen", "done"}

\* The static router pointer the signal handler tests (main.cc:143).
RouterSet == main \notin {"listen", "create", "assign"}

Init ==
  /\ main = "listen" /\ inetPort = FALSE /\ mRun = 1
  /\ mRequestShutdown = FALSE /\ mServiceDisconnected = FALSE
  /\ svcEp = "none" /\ acc = "idle" /\ s2r = "idle"
  /\ agent = "connect" /\ conn = "none" /\ info = FALSE /\ attempts = 0 /\ sigs = 0

(* ---- main ---- *)

\* main moves from one line to the next and nothing else changes.
Goes(from, to) == /\ main = from /\ main' = to
                  /\ UNCHANGED <<inetPort, mRun, flags, threads, client, sigs>>

Listen == Goes("listen", "create")

\* createNodeRouter: construct and start() both threads; router is assigned
\* only when it returns, and setInetPort comes after that.
Create == /\ main = "create" /\ main' = "assign" /\ acc' = "loop" /\ s2r' = "loop"
          /\ UNCHANGED <<inetPort, mRun, flags, client, sigs>>

SetInetPort == /\ main = "assign" /\ main' = "wait" /\ inetPort' = TRUE
               /\ UNCHANGED <<mRun, flags, threads, client, sigs>>

\* waitForServiceDisconnected, in main and again in destroyNodeRouter.
WaitDisconnected == mServiceDisconnected /\ Goes("wait", "stop")

StopKeepsRun == Goes("stop", "joinAccept")

\* destroyNodeRouter calls stop(): mRun = 0, then the two joins.
Stop == /\ main = "stop" /\ main' = "joinAccept" /\ mRun' = 0
        /\ UNCHANGED <<inetPort, flags, threads, client, sigs>>

JoinAccept == acc = "exited" /\ Goes("joinAccept", "joinService")

\* The second join, then delete nodeRouter and return from main.
JoinService == s2r = "exited" /\ Goes("joinService", "done")

(* ---- the accept thread (NodeRouter::threadProc) ---- *)

\* One poll that reads the agent's registration: the CONTROL filter refuses
\* it by throwing when a service endpoint exists, and otherwise makes it the
\* service endpoint and queues a RouterInfo only if mInetPort is already set.
Accept ==
  /\ acc = "loop" /\ mRun = 1 /\ conn = "pending"
  /\ IF svcEp # "none"
       THEN conn' = "refused" /\ UNCHANGED <<svcEp, info>>
       ELSE conn' = "accepted" /\ svcEp' = "live" /\ info' = (info \/ inetPort)
  /\ UNCHANGED <<main, inetPort, mRun, mRequestShutdown, mServiceDisconnected,
                 threads, agent, attempts, sigs>>

\* poll or destroyEndpoints throws something other than a closed or reset
\* connection: the loop breaks and the thread ends.
AcceptFails == /\ acc = "loop" /\ acc' = "exited"
               /\ UNCHANGED <<main, inetPort, mRun, flags, s2r, client, sigs>>

AcceptExit == acc = "loop" /\ mRun = 0 /\ AcceptFails

(* ---- serviceToRouterProc ---- *)

\* After each pop a pending shutdown request becomes notifyRouterShutdown:
\* a "routershutdown" ControlMessage queued to the service endpoint, or an
\* error logged when there is none.  ArrasController::handleMessage has no
\* branch for a ControlMessage, so the agent's state does not change.
Notify == /\ s2r = "loop" /\ mRequestShutdown /\ mRequestShutdown' = FALSE
          /\ UNCHANGED <<main, inetPort, mRun, mServiceDisconnected, svcEp, threads, client, sigs>>

S2RExit == /\ s2r = "loop" /\ mRun = 0 /\ s2r' = "exited"
           /\ UNCHANGED <<main, inetPort, mRun, flags, acc, client, sigs>>

(* ---- the service endpoint and the signal handler ---- *)

\* RemoteEndpoint::disconnect of the PEER_SERVICE endpoint calls
\* serviceDisconnected (flag set, main woken) and flagForDestruction.
Disconnect == /\ svcEp = "live" /\ svcEp' = "closed" /\ mServiceDisconnected' = TRUE
              /\ UNCHANGED <<main, inetPort, mRun, mRequestShutdown, threads, client, sigs>>

\* The agent's process has gone, so its end of the connection is closed.
ServiceClosed == agent = "closed" /\ Disconnect

\* A receive or send error on the service connection.
ServiceError == Disconnect

\* handle(): requestRouterShutdown only if router is not null.  A signal
\* after main has deleted the router is left out (see README).
Signal == /\ sigs < MaxSignals /\ main # "done" /\ sigs' = sigs + 1
          /\ mRequestShutdown' = (mRequestShutdown \/ RouterSet)
          /\ UNCHANGED <<main, inetPort, mRun, mServiceDisconnected, svcEp, threads, client>>

(* ---- the agent: ArrasSessions constructor and connectToRouter ---- *)

RetryOnceMore(n) == IF n <= MaxAttempts THEN "connect" ELSE "failed"

\* After n failed connectToRouter calls: another, or SessionError.
Retry(n) == IF n < MaxAttempts THEN "connect" ELSE "failed"

\* connect fails until the socket is listening; otherwise the registration
\* is sent and connectToRouter waits for the port.
Connect ==
  /\ agent = "connect" /\ attempts' = attempts + 1
  /\ IF Listening
       THEN agent' = "waitPort" /\ conn' = "pending"
       ELSE agent' = Retry(attempts + 1) /\ UNCHANGED conn
  /\ UNCHANGED <<info>> /\ UNCHANGED router

\* mRouterInetPort is set by whichever connection's RouterInfo arrives.
PortReceived == /\ agent = "waitPort" /\ info /\ agent' = "up"
                /\ UNCHANGED <<conn, info, attempts>> /\ UNCHANGED router

\* 100 waits of 100 ms pass first (the RouterInfo may still be on its way).
PortTimeout == /\ agent = "waitPort" /\ agent' = Retry(attempts)
               /\ UNCHANGED <<conn, info, attempts>> /\ UNCHANGED router

\* The node exits, after running or after SessionError.
Close == /\ agent \in {"up", "failed"} /\ agent' = "closed"
         /\ UNCHANGED <<conn, info, attempts>> /\ UNCHANGED router

(* ---- the specification ---- *)

\* Both processes have ended.
Finished == main = "done" /\ agent = "closed" /\ UNCHANGED vars

Next ==
  \/ Listen \/ Create \/ SetInetPort \/ WaitDisconnected \/ Stop
  \/ JoinAccept \/ JoinService
  \/ Accept \/ AcceptFails \/ AcceptExit \/ Notify \/ S2RExit
  \/ ServiceClosed \/ ServiceError \/ Signal
  \/ Connect \/ PortReceived \/ PortTimeout \/ Close
  \/ Finished

\* Every thread of both processes is scheduled: main and the two router
\* threads wake at least once a second (the poll and pop timeouts), the
\* service endpoint's receive thread sees the close, and the agent's
\* constructor runs its loop.  Faults, signals and the agent's decision to
\* exit are not forced.
Fairness ==
  /\ WF_vars(Listen) /\ WF_vars(Create) /\ WF_vars(SetInetPort)
  /\ WF_vars(WaitDisconnected) /\ WF_vars(Stop) /\ WF_vars(JoinAccept) /\ WF_vars(JoinService)
  /\ WF_vars(Accept) /\ WF_vars(AcceptExit) /\ WF_vars(Notify) /\ WF_vars(S2RExit)
  /\ WF_vars(ServiceClosed)
  /\ WF_vars(Connect) /\ WF_vars(PortReceived) /\ WF_vars(PortTimeout)

Spec == Init /\ [][Next]_vars /\ Fairness

(* ---- properties ---- *)

\* Every variable keeps to its range: in particular the ArrasSessions loop
\* calls connectToRouter at most MaxAttempts times.
TypeOK ==
  /\ main \in {"listen", "create", "assign", "wait", "stop", "joinAccept", "joinService", "done"}
  /\ inetPort \in BOOLEAN /\ mRun \in {0, 1}
  /\ mRequestShutdown \in BOOLEAN /\ mServiceDisconnected \in BOOLEAN
  /\ svcEp \in {"none", "live", "closed"}
  /\ acc \in {"idle", "loop", "exited"} /\ s2r \in {"idle", "loop", "exited"}
  /\ agent \in {"connect", "waitPort", "up", "failed", "closed"}
  /\ conn \in {"none", "pending", "accepted", "refused"}
  /\ info \in BOOLEAN /\ attempts \in 0..MaxAttempts /\ sigs \in 0..MaxSignals

\* The spec's orderly exit: once the agent's process is gone while its
\* control connection is the service endpoint, the router's main returns,
\* after waitForServiceDisconnected, stop() and both joins, whatever the
\* accept thread and the signals did meanwhile.
ExitAfterAgentCloses == (svcEp = "live" /\ agent = "closed") ~> (main = "done")

\* The connection the router took as its service endpoint carries the
\* RouterInfo that connectToRouter waits for (NodeRouter.cc:463, "node
\* service needs to be told the port").
PortOnAccept == svcEp # "none" => info

=============================================================================
