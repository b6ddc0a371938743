---------------------------- MODULE NodeLifecycle -----------------------------
(***************************************************************************)
(* The life of the agent process (src/cmd/node/main.cc, ArrasNode.cc).     *)
(*                                                                         *)
(* mainloop constructs the global ArrasNode, runs initialize (sessions,    *)
(* NodeService, registration, then the event handler), starts the          *)
(* PreemptionMonitor and calls run.  run takes mRunMutex, sets mRun and    *)
(* waits on mRunCondition while mRun holds; it keeps the mutex while it    *)
(* shuts the sessions down, drains the events and deregisters.  Four       *)
(* sources call stopRunning, which takes the same mutex, clears mRun and   *)
(* notifies: the TERM/INT signal handler, PUT /status shutdown on an HTTP  *)
(* worker, a shutdownWithError event on the send-events thread and the     *)
(* PreemptionMonitor thread.  A signal is handled on a thread the kernel   *)
(* picks; handled on the main thread it suspends that thread until the     *)
(* handler returns.                                                        *)
(*                                                                         *)
(* Events (computation ready or terminated, session ended, and             *)
(* shutdownWithError when the router connection is lost) reach             *)
(* NodeService::handleEvent through ArrasController once setEventHandler   *)
(* has been called, and are pushed on mEventQueue.  The send-events thread *)
(* pops them one at a time and makes the Coordinator request; for          *)
(* shutdownWithError it calls stopRunning.  run drains the queue for at    *)
(* most DRAIN_EVENTS_TIMEOUT before deregistering, and ~NodeService clears *)
(* mRunThreads, shuts the queue down and joins the send-events thread.     *)
(***************************************************************************)
EXTENDS FiniteSets, Sequences

CONSTANTS
  SignalTargets, \* threads a TERM/INT may be handled on: "main", "other"
  Events         \* session and computation events, each raised once

ASSUME SignalTargets \subseteq {"main", "other"} /\ SignalTargets # {}

\* The shutdownWithError event of ArrasController::onDispatcherExit.
Swe == "shutdownWithError"

EventIds == Events \cup {Swe}

\* The callers of ArrasNode::stopRunning; each calls it at most once here.
Stoppers == {"http", "event", "monitor", "signal"}

VARIABLES
  pc,        \* where the main thread is in mainloop / run
  mRun,      \* ArrasNode::mRun
  lock,      \* holder of ArrasNode::mRunMutex, or "none"
  notified,  \* mRunCondition notified since run last started waiting
  st,        \* st[t]: "idle", "call" (in stopRunning), "done"
  sigMain,   \* the signal handler runs on the main thread
  q,         \* NodeService::mEventQueue
  snd,       \* the send-events thread: [pc, ev]
  runThreads,\* NodeService::mRunThreads
  qDown,     \* mEventQueue has been shut down
  raised,    \* events raised so far (history)
  posted,    \* events pushed on mEventQueue (history)
  sentEv,    \* events whose Coordinator request was made (history)
  mon,       \* the PreemptionMonitor thread: "none" (not started), "check"
             \* (while (mRun)), "lock", "wait" (wait_for), "query", "stop"
             \* (in stopRunning), "exit"
  monRun,    \* PreemptionMonitor::mRun
  monWoken   \* mStopCondition notified while the thread waits

vars == <<pc, mRun, lock, notified, st, sigMain,
          q, snd, runThreads, qDown, raised, posted, sentEv, mon, monRun, monWoken>>

evVars == <<q, snd, runThreads, qDown, raised, posted, sentEv, mon, monRun, monWoken>>
monVars == <<mon, monRun, monWoken>>

MainPcs == {"init", "init_svc", "monitor", "run_lock", "run_check",
            "run_wait", "shutdown", "drain", "dereg", "teardown",
            "mon_join", "svc_down", "svc_join", "sess_down", "exit"}

\* run holds mRunMutex in these.
LockedPcs == {"run_check", "shutdown", "drain", "dereg"}

\* The main thread is suspended while the signal handler runs on it.
MainRuns == ~(st["signal"] = "call" /\ sigMain)

\* When each caller exists and can reach stopRunning: the handler while
\* the node pointer is set; HTTP workers from NodeService's construction
\* until ~NodeService has joined them.  The send-events thread calls it for
\* shutdownWithError and the monitor thread after a query.
CallerAlive(t) ==
  CASE t = "signal"  -> pc # "exit"
    [] t = "http"    -> pc \in MainPcs \ {"init", "sess_down", "exit"}

\* setEventHandler has been called: ArrasController forwards events.
HandlerSet == pc \notin {"init", "init_svc"}

Init ==
  /\ pc = "init"
  /\ mRun = FALSE
  /\ lock = "none"
  /\ notified = FALSE
  /\ st = [t \in Stoppers |-> "idle"]
  /\ sigMain = FALSE
  /\ q = <<>>
  /\ snd = [pc |-> "pop", ev |-> Swe]
  /\ runThreads = TRUE
  /\ qDown = FALSE
  /\ raised = {} /\ posted = {} /\ sentEv = {}
  /\ mon = "none" /\ monRun = FALSE /\ monWoken = FALSE

-----------------------------------------------------------------------------
(* The main thread                                                         *)

\* initialize: node id, resources, ArrasSessions (router launched) and
\* NodeService, whose HTTP threads and send-events thread start.
InitService ==
  /\ pc = "init" /\ MainRuns
  /\ pc' = "init_svc"
  /\ UNCHANGED <<mRun, lock, notified, st, sigMain>> /\ UNCHANGED evVars

\* buildNodeInfo, registerNode, then setEventHandler.
InitDone ==
  /\ pc = "init_svc" /\ MainRuns
  /\ pc' = "monitor"
  /\ UNCHANGED <<mRun, lock, notified, st, sigMain>> /\ UNCHANGED evVars

\* initialize throws: mainloop logs it and returns -1.
InitFails ==
  /\ pc \in {"init", "init_svc"} /\ MainRuns
  /\ pc' = "exit"
  /\ UNCHANGED <<mRun, lock, notified, st, sigMain>> /\ UNCHANGED evVars

\* PreemptionMonitor::start: for an AWS or Azure preemptionMonitorType,
\* run() sets mRun and starts the thread; for any other type no monitor is
\* made.  Then node->run().
StartMonitor ==
  /\ pc = "monitor" /\ MainRuns
  /\ pc' = "run_lock"
  /\ \/ mon' = "check" /\ monRun' = TRUE
     \/ UNCHANGED <<mon, monRun>>
  /\ UNCHANGED <<mRun, lock, notified, st, sigMain, monWoken>>
  /\ UNCHANGED <<q, snd, runThreads, qDown, raised, posted, sentEv>>

\* run: unique_lock on mRunMutex, mRun = true.
RunLock ==
  /\ pc = "run_lock" /\ MainRuns /\ lock = "none"
  /\ lock' = "main"
  /\ mRun' = TRUE
  /\ pc' = "run_check"
  /\ UNCHANGED <<notified, st, sigMain>> /\ UNCHANGED evVars

\* while (mRun): wait (releasing the mutex), or leave the loop holding it.
RunCheck ==
  /\ pc = "run_check" /\ MainRuns
  /\ IF mRun
       THEN /\ pc' = "run_wait" /\ lock' = "none" /\ notified' = FALSE
       ELSE /\ pc' = "shutdown" /\ UNCHANGED <<lock, notified>>
  /\ UNCHANGED <<mRun, st, sigMain>> /\ UNCHANGED evVars

\* The wait returns after a notify_all and retakes the mutex.
RunWake ==
  /\ pc = "run_wait" /\ MainRuns /\ notified /\ lock = "none"
  /\ lock' = "main"
  /\ pc' = "run_check"
  /\ notified' = FALSE
  /\ UNCHANGED <<mRun, st, sigMain>> /\ UNCHANGED evVars

\* Mutant: "if (mRun) wait" in place of the while loop: the wait returns
\* and run goes on to shut down without testing mRun again.
RunSpuriousLeavesLoop ==
  /\ pc = "run_wait" /\ MainRuns /\ lock = "none"
  /\ lock' = "main"
  /\ pc' = "shutdown"
  /\ UNCHANGED <<mRun, notified, st, sigMain>> /\ UNCHANGED evVars

\* A spurious wakeup of mRunCondition.wait.
RunSpurious ==
  /\ pc = "run_wait" /\ MainRuns /\ lock = "none"
  /\ lock' = "main"
  /\ pc' = "run_check"
  /\ UNCHANGED <<mRun, notified, st, sigMain>> /\ UNCHANGED evVars

\* mSessions->shutdownAll, with mRunMutex held.
Shutdown ==
  /\ pc = "shutdown" /\ MainRuns
  /\ pc' = "drain"
  /\ UNCHANGED <<mRun, lock, notified, st, sigMain>> /\ UNCHANGED evVars

\* Mutant: drainEvents waits until the queue is empty, with no timeout;
\* each wakeup of the wait finds the queue still full and waits again.
DrainNoTimeout ==
  /\ pc = "drain" /\ MainRuns
  /\ pc' = IF q = <<>> THEN "dereg" ELSE "drain"
  /\ UNCHANGED <<mRun, lock, notified, st, sigMain>> /\ UNCHANGED evVars

\* drainEvents(DRAIN_EVENTS_TIMEOUT): waitUntilEmpty returns when the queue
\* is empty or when the second is up, which can come first whatever the
\* send-events thread is doing.
Drain ==
  /\ pc = "drain" /\ MainRuns
  /\ pc' = "dereg"
  /\ UNCHANGED <<mRun, lock, notified, st, sigMain>> /\ UNCHANGED evVars

\* Mutant: the mutex is still held after run returns.
DeregisterKeepsLock ==
  /\ pc = "dereg" /\ MainRuns
  /\ pc' = "teardown"
  /\ UNCHANGED <<mRun, lock, notified, st, sigMain>> /\ UNCHANGED evVars

\* deregisterNode; run returns and releases mRunMutex.
Deregister ==
  /\ pc = "dereg" /\ MainRuns
  /\ pc' = "teardown"
  /\ lock' = "none"
  /\ UNCHANGED <<mRun, notified, st, sigMain>> /\ UNCHANGED evVars

\* monitor.reset: ~PreemptionMonitor sets mRun = false and calls
\* notify_all without taking mStopMutex, so only a thread already inside
\* wait_for is woken.
Teardown ==
  /\ pc = "teardown" /\ MainRuns
  /\ pc' = "mon_join"
  /\ monRun' = FALSE
  /\ monWoken' = (monWoken \/ mon = "wait")
  /\ UNCHANGED <<mRun, lock, notified, st, sigMain, mon>>
  /\ UNCHANGED <<q, snd, runThreads, qDown, raised, posted, sentEv>>

\* The destructor joins the thread; node.reset then starts destroying the
\* node, NodeService first.
MonitorJoin ==
  /\ pc = "mon_join" /\ MainRuns /\ mon \in {"none", "exit"}
  /\ pc' = "svc_down"
  /\ UNCHANGED <<mRun, lock, notified, st, sigMain>> /\ UNCHANGED evVars

\* ~NodeService: mRunThreads = false, mEventQueue.shutdown().
ServiceDown ==
  /\ pc = "svc_down" /\ MainRuns
  /\ runThreads' = FALSE /\ qDown' = TRUE
  /\ pc' = "svc_join"
  /\ UNCHANGED <<mRun, lock, notified, st, sigMain, q, snd, raised, posted, sentEv, monVars>>

\* ~NodeService joins the send-events thread; then ~ArrasSessions.
ServiceJoin ==
  /\ pc = "svc_join" /\ MainRuns /\ snd.pc = "exit"
  /\ pc' = "sess_down"
  /\ UNCHANGED <<mRun, lock, notified, st, sigMain>> /\ UNCHANGED evVars

\* ArrasSessions and its controller are destroyed; mainloop returns.
SessionsDown ==
  /\ pc = "sess_down" /\ MainRuns
  /\ pc' = "exit"
  /\ UNCHANGED <<mRun, lock, notified, st, sigMain>> /\ UNCHANGED evVars

-----------------------------------------------------------------------------
(* The callers of stopRunning                                              *)

\* A caller enters stopRunning; a signal picks the thread that handles it.
StopCall(t) ==
  /\ st[t] = "idle" /\ CallerAlive(t)
  /\ st' = [st EXCEPT ![t] = "call"]
  /\ \E m \in SignalTargets :
       sigMain' = IF t = "signal" THEN m = "main" ELSE sigMain
  /\ UNCHANGED <<pc, mRun, lock, notified>> /\ UNCHANGED evVars

\* Mutant: stopRunning clears mRun but does not notify.
StopRunningNoNotify(t) ==
  /\ st[t] = "call" /\ lock = "none"
  /\ mRun' = FALSE
  /\ st' = [st EXCEPT ![t] = "done"]
  /\ UNCHANGED <<pc, lock, sigMain, notified>> /\ UNCHANGED evVars

\* stopRunning: take mRunMutex, mRun = false, notify_all, release.
StopRunning(t) ==
  /\ st[t] = "call" /\ lock = "none"
  /\ mRun' = FALSE
  /\ notified' = (notified \/ pc = "run_wait")
  /\ st' = [st EXCEPT ![t] = "done"]
  /\ UNCHANGED <<pc, lock, sigMain>> /\ UNCHANGED evVars

-----------------------------------------------------------------------------
(* Events and the send-events thread                                       *)

\* NodeService::handleEvent: mEventQueue.push of the event.
HandleEvent(e) == Append(q, e)

\* ArrasController::handleEvent: dropped before setEventHandler; else
\* NodeService::handleEvent pushes it, and a push on the shut-down queue
\* throws back into the raising thread.  shutdownWithError is not raised
\* once the controller is exiting.
Raise(e) ==
  /\ e \notin raised
  /\ pc \notin {"init", "exit"}
  /\ e = Swe => pc # "sess_down"
  /\ raised' = raised \cup {e}
  /\ IF HandlerSet /\ ~qDown
       THEN q' = HandleEvent(e) /\ posted' = posted \cup {e}
       ELSE UNCHANGED <<q, posted>>
  /\ UNCHANGED <<pc, mRun, lock, notified, st, sigMain,
                 snd, runThreads, qDown, sentEv, monVars>>

\* mEventQueue.pop returns the oldest event.
SendPop ==
  /\ snd.pc = "pop" /\ q # <<>>
  /\ snd' = [pc |-> "send", ev |-> Head(q)]
  /\ q' = Tail(q)
  /\ UNCHANGED <<pc, mRun, lock, notified, st, sigMain,
                 runThreads, qDown, raised, posted, sentEv, monVars>>

\* sendEvent for a session or computation event: the Coordinator request
\* is made (a bad response is only logged); the loop tests mRunThreads.
SendDone ==
  /\ snd.pc = "send" /\ snd.ev # Swe
  /\ sentEv' = sentEv \cup {snd.ev}
  /\ snd' = [snd EXCEPT !.pc = IF runThreads THEN "pop" ELSE "exit"]
  /\ UNCHANGED <<pc, mRun, lock, notified, st, sigMain,
                 q, runThreads, qDown, raised, posted, monVars>>

\* notifyShutdownWithError: log, then mNode.stopRunning().
SendSwe ==
  /\ snd.pc = "send" /\ snd.ev = Swe /\ st["event"] = "idle"
  /\ st' = [st EXCEPT !["event"] = "call"]
  /\ snd' = [snd EXCEPT !.pc = "stop"]
  /\ UNCHANGED <<pc, mRun, lock, notified, sigMain,
                 q, runThreads, qDown, raised, posted, sentEv, monVars>>

\* stopRunning has returned to the send-events thread.
SendStopped ==
  /\ snd.pc = "stop" /\ st["event"] = "done"
  /\ sentEv' = sentEv \cup {Swe}
  /\ snd' = [snd EXCEPT !.pc = IF runThreads THEN "pop" ELSE "exit"]
  /\ UNCHANGED <<pc, mRun, lock, notified, st, sigMain,
                 q, runThreads, qDown, raised, posted, monVars>>

\* pop on the shut-down queue throws ShutdownException; the loop sees
\* mRunThreads false and the thread ends.
SendExit ==
  /\ snd.pc = "pop" /\ qDown
  /\ snd' = [snd EXCEPT !.pc = "exit"]
  /\ UNCHANGED <<pc, mRun, lock, notified, st, sigMain,
                 q, runThreads, qDown, raised, posted, sentEv, monVars>>

-----------------------------------------------------------------------------
(* The PreemptionMonitor thread (AWSSpotMonitor / AzurePreemptionMonitor)  *)

mainVars == <<pc, mRun, lock, notified, sigMain>>
sendVars == <<q, snd, runThreads, qDown, raised, posted, sentEv>>

\* while (mRun): go on to lock mStopMutex, or leave the loop.
MonCheck ==
  /\ mon = "check"
  /\ mon' = IF monRun THEN "lock" ELSE "exit"
  /\ UNCHANGED <<monRun, monWoken, st>> /\ UNCHANGED mainVars /\ UNCHANGED sendVars

\* wait_for(lock, 15 s) releases the mutex and waits.
MonWait ==
  /\ mon = "lock" /\ mon' = "wait" /\ monWoken' = FALSE
  /\ UNCHANGED <<monRun, st>> /\ UNCHANGED mainVars /\ UNCHANGED sendVars

\* Mutant: a wait with no timeout, which only a notify ends.
MonWakeNoTimeout ==
  /\ mon = "wait" /\ monWoken
  /\ mon' = IF monRun THEN "query" ELSE "exit"
  /\ UNCHANGED <<monRun, monWoken, st>> /\ UNCHANGED mainVars /\ UNCHANGED sendVars

\* The wait ends on a notify or after 15 seconds, whichever comes first;
\* then "if (!mRun) break".
MonWake ==
  /\ mon = "wait"
  /\ mon' = IF monRun THEN "query" ELSE "exit"
  /\ UNCHANGED <<monRun, monWoken, st>> /\ UNCHANGED mainVars /\ UNCHANGED sendVars

\* doGet of the instance metadata: no notice, invalid data or an exception
\* (all logged or ignored) go round the loop again; a stop, terminate,
\* Reboot, Redeploy or Preempt notice calls mNode->stopRunning().
MonQuery ==
  /\ mon = "query"
  /\ \/ mon' = "check" /\ UNCHANGED st
     \/ /\ st["monitor"] = "idle"
        /\ mon' = "stop" /\ st' = [st EXCEPT !["monitor"] = "call"]
  /\ UNCHANGED <<monRun, monWoken>> /\ UNCHANGED mainVars /\ UNCHANGED sendVars

\* stopRunning has returned to the monitor thread.
MonStopped ==
  /\ mon = "stop" /\ st["monitor"] = "done" /\ mon' = "check"
  /\ UNCHANGED <<monRun, monWoken, st>> /\ UNCHANGED mainVars /\ UNCHANGED sendVars

MonStep == MonCheck \/ MonWait \/ MonWake \/ MonQuery \/ MonStopped

-----------------------------------------------------------------------------

MainStep ==
  \/ InitService \/ InitDone \/ StartMonitor \/ RunLock \/ RunCheck
  \/ RunWake \/ Shutdown \/ Drain \/ Deregister \/ Teardown \/ MonitorJoin
  \/ ServiceDown \/ ServiceJoin \/ SessionsDown

SenderStep == SendPop \/ SendDone \/ SendSwe \/ SendStopped \/ SendExit

Next ==
  \/ MainStep \/ SenderStep \/ MonStep \/ InitFails \/ RunSpurious
  \/ \E t \in Stoppers \ {"event", "monitor"} : StopCall(t)
  \/ \E t \in Stoppers : StopRunning(t)
  \/ \E e \in EventIds : Raise(e)

\* The main thread, the send-events thread, the monitor thread (whose
\* wait ends after 15 s at the latest) and a thread inside stopRunning run
\* when they can; initialize may fail but is not
\* scheduled to, and nothing forces an event or a caller to happen.
Fairness ==
  /\ WF_vars(MainStep)
  /\ WF_vars(SenderStep)
  /\ WF_vars(MonStep)
  /\ \A t \in Stoppers : WF_vars(StopRunning(t))

Spec == Init /\ [][Next]_vars /\ Fairness

-----------------------------------------------------------------------------
(* Properties                                                              *)

\* The variables have their types, and only the main thread inside run
\* (checking mRun, or shutting down) ever holds mRunMutex itself.
TypeOK ==
  /\ pc \in MainPcs /\ mRun \in BOOLEAN /\ notified \in BOOLEAN
  /\ st \in [Stoppers -> {"idle", "call", "done"}] /\ sigMain \in BOOLEAN
  /\ lock \in {"none", "main"}
  /\ lock = "main" => pc \in LockedPcs
  /\ q \in Seq(EventIds) /\ snd.pc \in {"pop", "send", "stop", "exit"}
  /\ snd.ev \in EventIds /\ runThreads \in BOOLEAN /\ qDown \in BOOLEAN
  /\ mon \in {"none", "check", "lock", "wait", "query", "stop", "exit"}
  /\ monRun \in BOOLEAN /\ monWoken \in BOOLEAN

\* run leaves its wait loop only after some caller of stopRunning has
\* cleared mRun: a spurious wakeup of mRunCondition never shuts the node.
RunExitsOnlyWhenStopped ==
  pc \in {"shutdown", "drain", "dereg", "teardown", "mon_join", "svc_down", "svc_join", "sess_down"}
    => \E t \in Stoppers : st[t] = "done"

\* A stopRunning that clears mRun while run is waiting is seen: the node
\* shuts down and mainloop returns.
StopEndsRun ==
  (pc = "run_wait" /\ ~mRun) ~> pc = "exit"

\* A request to stop is never lost: once any caller's stopRunning has
\* returned, run is never waiting with mRun set.
StopNotLost ==
  \A t \in Stoppers : st[t] = "done" => ~(pc = "run_wait" /\ mRun)

\* Once run has left its loop, shutdown completes and mainloop returns,
\* whatever further stop requests and events arrive: in particular a
\* shutdownWithError whose stopRunning waits for the mutex run holds
\* while it drains the queue.
ShutdownCompletes ==
  pc = "shutdown" ~> pc = "exit"

\* P6: every event pushed on the queue has had its Coordinator request
\* made by the time the node has exited (NodeService logs nothing for an
\* event it does not send).
EventsDelivered ==
  pc = "exit" => posted \subseteq sentEv

=============================================================================
