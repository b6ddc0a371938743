---------------------------- MODULE SessionManager ----------------------------
(***************************************************************************)
(* The session manager of the node agent (src/lib/session).               *)
(*                                                                         *)
(* ArrasSessions keeps a map from session id to Session object.  HTTP      *)
(* worker threads create, modify and delete sessions; each Session runs    *)
(* at most one operation thread (updateProc or deleteProc), guarded by the *)
(* Free/Busy/Defunct state and the mShuttingDown flag.  Computations are   *)
(* child processes.  On the entry node a create arms an expiration thread  *)
(* that a client connection cancels.  ArrasController and the node         *)
(* router's serviceToRouterProc exchange SessionRoutingData messages over  *)
(* a FIFO IPC link: create blocks on the Acknowledge of Initialize, and    *)
(* deleteProc sends Delete.  ArrasNode::run calls shutdownAll, which holds *)
(* mSessionsMutex while it shuts every session down in turn.               *)
(*                                                                         *)
(* A Session object is a member of Objs rather than its id, because an id  *)
(* erased from the map after a failed create can be created again as a new *)
(* object while the old one still exists.                                  *)
(***************************************************************************)
EXTENDS Naturals, Sequences, FiniteSets

CONSTANTS
  SessionIds,   \* session UUIDs the coordinator uses
  Objs,         \* Session objects that can be constructed (bounds creates)
  Comps,        \* computation UUIDs
  Configs,      \* computation sets a session definition gives this node
  Handlers,     \* HTTP worker threads of NodeService
  MaxRequests,  \* bound on the HTTP session requests of a behaviour
  NoObj         \* a null Session::Ptr

ASSUME Configs \subseteq SUBSET Comps /\ NoObj \notin Objs

VARIABLES
  closed,     \* ArrasSessions::mClosed
  sessions,   \* ArrasSessions::mSessions, id -> object or NoObj
  obj,        \* the fields of each Session object
  proc,       \* proc[o][c]: child process of computation c of object o
  term,       \* term[o][c]: Computation::mTerminationExpected
  hs,         \* the HTTP worker threads and where they are in a handler
  sd,         \* the thread in ArrasNode::run that calls shutdownAll
  ack,        \* ArrasController::mRouterHasRoutingData
  rd,         \* ids with SessionRoutingData in the router's RoutingTable
  toRouter,   \* ArrasController -> NodeRouter messages, FIFO
  toCtl,      \* NodeRouter -> ArrasController Acknowledge and status messages, FIFO
  created,    \* ids whose create returned success to the coordinator
  connected,  \* ids whose client has connected to the router
  events,     \* events handed to the event handler (history)
  reqs,       \* HTTP session requests received so far
  sentGo,     \* sentGo[o]: the computations of o whose mSentGo is set
  reg         \* reg[o][c]: the router's answer to c's IPC registration

vars == <<closed, sessions, obj, proc, term, hs, sd, ack, rd, toRouter,
          toCtl, created, connected, events, reqs, sentGo, reg>>

-----------------------------------------------------------------------------
(* Session objects                                                         *)

ProcStates == {"none", "running", "exited"}

\* The "status" of a PUT /sessions/<id>/status body: "run" with or without
\* client routing rules, or "engineReady".
SignalKinds == {"run", "run_routing", "engine_ready"}

OpPhases   == {"idle", "upd_delta", "upd_wait", "upd_spawn", "del_stop", "del_fin"}

\* Session::Session (Session.cc:24-39): Free, no computations, no expiry.
NewSession(s) ==
  [sid |-> s, st |-> "Free", down |-> FALSE, op |-> "idle", want |-> {},
   todo |-> {}, comps |-> {}, expSet |-> FALSE, expThr |-> FALSE, gone |-> FALSE]

\* An object that has not been constructed yet.
Unborn == [NewSession(CHOOSE s \in SessionIds : TRUE) EXCEPT !.st = "Unborn"]

\* Mutant: the mShuttingDown check is left out.
CanOperateIgnoringShutdown(o) == obj[o].st = "Free"

\* The state check of asyncUpdateConfig and asyncDelete under mStateMutex:
\* an operation may start only if not shutting down and Free.
CanOperate(o) == ~obj[o].down /\ obj[o].st = "Free"

\* asyncUpdateConfig: Busy, and updateProc starts on the operation thread.
StartUpdate(o, w) ==
  obj' = [obj EXCEPT ![o].st = "Busy", ![o].op = "upd_delta", ![o].want = w]

\* asyncDelete: Busy, and deleteProc starts on the operation thread.
StartDelete(o) == obj' = [obj EXCEPT ![o].st = "Busy", ![o].op = "del_stop"]

\* stopExpiration: clear mExpirationSet, wake and join expirationProc.
StopExpiration(o) == [obj[o] EXCEPT !.expSet = FALSE, !.expThr = FALSE]

\* setExpirationTime: stopExpiration, set mExpirationSet, start the thread.
SetExpirationTime(o) == [StopExpiration(o) EXCEPT !.expSet = TRUE, !.expThr = TRUE]

\* The first loop of deleteProc: Computation::shutdown on every computation
\* in mComputations sets mTerminationExpected and terminates the process.
ShutdownComps(o) ==
  term' = [term EXCEPT ![o] = [c \in Comps |-> @[c] \/ c \in obj[o].comps]]

\* kickClient: a ClientConnectionStatus for the router, which disconnects
\* the session's client (or clears its stash).
KickMsg(s) == [act |-> "Kick", sid |-> s]

\* The end of deleteProc: shutdownSession sends the kick and Delete to the
\* router, then the state becomes Defunct.
DeleteMsg(o) == [act |-> "Delete", sid |-> obj[o].sid]

\* updateSession: SessionRoutingData Update, for the client addresser.
UpdateMsg(s) == [act |-> "Update", sid |-> s]

\* sendControl: a ControlMessage addressed to computations of a session;
\* go and update are the computations told "go" and "update".
ControlMsg(o, go, update) ==
  [act |-> "Control", sid |-> obj[o].sid, o |-> o, go |-> go, update |-> update]

\* sessionOperationFailed: the event a failed create, modify or delete raises.
SessionOperationFailed(o) == [kind |-> "opFailed", o |-> o]

\* sessionExpired: the event an expired entry-node session raises.
SessionExpired(o) == [kind |-> "expired", o |-> o]

\* ArrasSessions::getSession: the map's entry under mSessionsMutex.
GetSession(s) == sessions[s]

\* Session::isActive: the state is not Defunct.
IsActive(o) == obj[o].st # "Defunct"

\* Session::checkIsFree, which Session::signal calls first: a Busy or
\* Defunct session throws SessionError (409).
CheckIsFree(o) == obj[o].st \notin {"Busy", "Defunct"}

\* shutdownAll holds mSessionsMutex from taking it until it returns.
LockHeld == sd.phase \in {"pick", "wait", "del_stop", "del_fin"}

IdleHandler == [pc |-> "idle", sid |-> CHOOSE s \in SessionIds : TRUE,
                o |-> NoObj, want |-> {}, entry |-> FALSE]

Init ==
  /\ closed = FALSE
  /\ sessions = [s \in SessionIds |-> NoObj]
  /\ obj = [o \in Objs |-> Unborn]
  /\ proc = [o \in Objs |-> [c \in Comps |-> "none"]]
  /\ term = [o \in Objs |-> [c \in Comps |-> FALSE]]
  /\ hs = [h \in Handlers |-> IdleHandler]
  /\ sd = [phase |-> "idle", todo |-> {}, cur |-> NoObj, seen |-> {}, timedOut |-> {}]
  /\ ack = [s \in SessionIds |-> FALSE]
  /\ rd = {}
  /\ toRouter = <<>>
  /\ toCtl = <<>>
  /\ created = {}
  /\ connected = {}
  /\ events = {}
  /\ reqs = 0
  /\ sentGo = [o \in Objs |-> {}]
  /\ reg = [o \in Objs |-> [c \in Comps |-> "none"]]

-----------------------------------------------------------------------------
(* HTTP handlers (ArrasSessions, called from NodeService worker threads)   *)

\* A create may start only while an unconstructed object is left for it.
ObjectsLeft ==
  Cardinality({o \in Objs : obj[o].st = "Unborn"})
    > Cardinality({h \in Handlers : hs[h].pc = "c_insert"})

\* createSession, the mClosed check: refused with 409 if the node is closed.
CreateSession(h, s, w, e) ==
  /\ hs[h].pc = "idle" /\ reqs < MaxRequests /\ ObjectsLeft
  /\ reqs' = reqs + 1
  /\ hs' = IF closed THEN hs
           ELSE [hs EXCEPT ![h] = [pc |-> "c_insert", sid |-> s, o |-> NoObj,
                                   want |-> w, entry |-> e]]
  /\ UNCHANGED <<reg, sentGo, closed, sessions, obj, proc, term, sd, ack, rd, toRouter,
                 toCtl, created, connected, events>>

\* createSession under mSessionsMutex: "already exists" (409) if the id has
\* any session, a Defunct one included; otherwise a new Free session.
CreateInsert(h) ==
  LET s == hs[h].sid
      o == CHOOSE x \in Objs : obj[x].st = "Unborn"
  IN /\ hs[h].pc = "c_insert" /\ ~LockHeld
     /\ \/ /\ sessions[s] # NoObj
           /\ hs' = [hs EXCEPT ![h] = IdleHandler]
           /\ UNCHANGED <<sessions, obj>>
        \/ /\ sessions[s] = NoObj
           /\ sessions' = [sessions EXCEPT ![s] = o]
           /\ obj' = [obj EXCEPT ![o] = NewSession(s)]
           /\ hs' = [hs EXCEPT ![h].pc = "c_init", ![h].o = o]
     /\ UNCHANGED <<reg, sentGo, closed, proc, term, sd, ack, rd, toRouter, toCtl,
                    created, connected, events, reqs>>

\* initializeSession sends Initialize to the router ...
CreateInit(h) ==
  /\ hs[h].pc = "c_init"
  /\ toRouter' = Append(toRouter, [act |-> "Initialize", sid |-> hs[h].sid])
  /\ hs' = [hs EXCEPT ![h].pc = "c_wait"]
  /\ UNCHANGED <<reg, sentGo, closed, sessions, obj, proc, term, sd, ack, rd, toCtl,
                 created, connected, events, reqs>>

\* ... and waits until mRouterHasRoutingData[id]; on the entry node the
\* session is then set to expire if no client connects in time.
CreateAcked(h) ==
  LET o == hs[h].o
  IN /\ hs[h].pc = "c_wait" /\ ack[hs[h].sid]
     /\ obj' = IF hs[h].entry THEN [obj EXCEPT ![o] = SetExpirationTime(o)]
               ELSE obj
     /\ hs' = [hs EXCEPT ![h].pc = "c_update"]
     /\ UNCHANGED <<reg, sentGo, closed, sessions, proc, term, sd, ack, rd, toRouter,
                    toCtl, created, connected, events, reqs>>

\* The 10 s wait for the Acknowledge times out: the session is erased (500).
CreateTimeout(h) ==
  /\ hs[h].pc = "c_wait" /\ ~ack[hs[h].sid]
  /\ hs' = [hs EXCEPT ![h].pc = "c_erase"]
  /\ UNCHANGED <<reg, sentGo, closed, sessions, obj, proc, term, sd, ack, rd, toRouter,
                 toCtl, created, connected, events, reqs>>

\* createSession calls asyncUpdateConfig; if it throws (the session is
\* shutting down, Busy or Defunct) the session is erased and the error
\* rethrown, otherwise the create succeeds.
CreateUpdate(h) ==
  LET o == hs[h].o
  IN /\ hs[h].pc = "c_update"
     /\ \/ /\ CanOperate(o)
           /\ StartUpdate(o, hs[h].want)
           /\ created' = created \cup {hs[h].sid}
           /\ hs' = [hs EXCEPT ![h] = IdleHandler]
        \/ /\ ~CanOperate(o)
           /\ hs' = [hs EXCEPT ![h].pc = "c_erase"]
           /\ UNCHANGED <<obj, created>>
     /\ UNCHANGED <<reg, sentGo, closed, sessions, proc, term, sd, ack, rd, toRouter,
                    toCtl, connected, events, reqs>>

\* mSessions.erase(id) under mSessionsMutex.
CreateErase(h) ==
  /\ hs[h].pc = "c_erase" /\ ~LockHeld
  /\ sessions' = [sessions EXCEPT ![hs[h].sid] = NoObj]
  /\ hs' = [hs EXCEPT ![h].pc = "c_destroy"]
  /\ UNCHANGED <<reg, sentGo, closed, obj, proc, term, sd, ack, rd, toRouter, toCtl,
                 created, connected, events, reqs>>

\* The last Session::Ptr goes: ~Session sets mShuttingDown, joins the
\* operation thread and stops the expiration.  Its computations go with it,
\* whatever their processes are doing.
CreateDestroy(h) ==
  LET o == hs[h].o
  IN /\ hs[h].pc = "c_destroy"
     /\ obj[o].op = "idle"
     /\ \A g \in Handlers \ {h} : hs[g].o # o
     /\ obj' = [obj EXCEPT ![o] = [StopExpiration(o) EXCEPT !.down = TRUE,
                                                            !.gone = TRUE]]
     /\ hs' = [hs EXCEPT ![h] = IdleHandler]
     /\ UNCHANGED <<reg, sentGo, closed, sessions, proc, term, sd, ack, rd, toRouter,
                    toCtl, created, connected, events, reqs>>

\* modifySession: 409 if closed, getSession (404 if missing), then
\* asyncUpdateConfig on the object it got.  The coordinator modifies only
\* sessions whose create has returned success.
ModifySession(h, s, w) ==
  /\ hs[h].pc = "idle" /\ reqs < MaxRequests /\ ~LockHeld /\ s \in created
  /\ reqs' = reqs + 1
  /\ hs' = IF closed \/ sessions[s] = NoObj THEN hs
           ELSE [hs EXCEPT ![h] = [pc |-> "m_update", sid |-> s,
                                   o |-> sessions[s], want |-> w, entry |-> FALSE]]
  /\ UNCHANGED <<reg, sentGo, closed, sessions, obj, proc, term, sd, ack, rd, toRouter,
                 toCtl, created, connected, events>>

ModifyUpdate(h) ==
  LET o == hs[h].o
  IN /\ hs[h].pc = "m_update"
     /\ IF CanOperate(o) THEN StartUpdate(o, hs[h].want) ELSE UNCHANGED obj
     /\ hs' = [hs EXCEPT ![h] = IdleHandler]
     /\ UNCHANGED <<reg, sentGo, closed, sessions, proc, term, sd, ack, rd, toRouter,
                    toCtl, created, connected, events, reqs>>

\* deleteSession: under mSessionsMutex, 404 if missing, else asyncDelete.
\* The session stays in the map, Defunct, indefinitely.
DeleteSession(h, s) ==
  /\ hs[h].pc = "idle" /\ reqs < MaxRequests /\ ~LockHeld
  /\ reqs' = reqs + 1
  /\ IF sessions[s] # NoObj /\ CanOperate(sessions[s])
       THEN StartDelete(sessions[s]) ELSE UNCHANGED obj
  /\ UNCHANGED <<reg, sentGo, closed, sessions, proc, term, hs, sd, ack, rd, toRouter,
                 toCtl, created, connected, events>>

\* PUT /sessions/<id>/status: signalSession gets the session under
\* mSessionsMutex (404 if missing), then Session::signal's checkIsFree
\* refuses a Busy or Defunct session (409).  mShuttingDown is not checked.
SignalSession(h, s, k) ==
  LET o == GetSession(s)
  IN /\ hs[h].pc = "idle" /\ reqs < MaxRequests /\ ~LockHeld /\ s \in created
     /\ reqs' = reqs + 1
     /\ hs' = IF o = NoObj \/ ~CheckIsFree(o) THEN hs
              ELSE [hs EXCEPT ![h] = [pc |-> k, sid |-> s, o |-> o,
                                      want |-> {}, entry |-> FALSE]]
     /\ UNCHANGED <<reg, sentGo, closed, sessions, obj, proc, term, sd, ack, rd,
                    toRouter, toCtl, created, connected, events>>

\* Mutant: Computation::signal sends without looking at the process state.
SignalTargetsIgnoringState(o) == obj[o].comps

\* Computation::signal acts on "run" only for a process in state Spawned:
\* running, and not yet told to stop (shutdown sets mTerminationExpected and
\* terminate moves the process to Terminating).
SignalTargets(o) == {c \in obj[o].comps : proc[o][c] = "running" /\ ~term[o][c]}

\* "run": signalAll, under mComputationsMutex (which deleteProc holds from
\* its shutdown loop to shutdownSession), signals every computation in
\* mComputations: "go" the first time (setting mSentGo), "update" after.
\* The control envelopes of one signalAll are one entry of the link.  With
\* routing rules, updateSession then sends Update to the router.
SignalAll(h) ==
  LET o == hs[h].o
      t == SignalTargets(o)
      ctl == ControlMsg(o, t \ sentGo[o], t \cap sentGo[o])
  IN /\ hs[h].pc \in {"run", "run_routing"}
     /\ obj[o].op # "del_fin" /\ ~(sd.phase = "del_fin" /\ sd.cur = o)
     /\ sentGo' = [sentGo EXCEPT ![o] = @ \cup t]
     /\ toRouter' = toRouter \o (IF t = {} THEN <<>> ELSE <<ctl>>)
                             \o (IF hs[h].pc = "run_routing"
                                   THEN <<UpdateMsg(obj[o].sid)>>
                                   ELSE <<>>)
     /\ hs' = [hs EXCEPT ![h] = IdleHandler]
     /\ UNCHANGED <<reg, closed, sessions, obj, proc, term, sd, ack, rd, toCtl,
                    created, connected, events, reqs>>

\* "engineReady": signalEngineReady sends EngineReady, addressed to the
\* client, to the router.
SignalEngineReady(h) ==
  /\ hs[h].pc = "engine_ready"
  /\ toRouter' = Append(toRouter, [act |-> "EngineReady", sid |-> hs[h].sid])
  /\ hs' = [hs EXCEPT ![h] = IdleHandler]
  /\ UNCHANGED <<reg, sentGo, closed, sessions, obj, proc, term, sd, ack, rd, toCtl,
                 created, connected, events, reqs>>

\* PUT /status {"status":"close"}: ArrasNode::setStatus -> setClosed(true).
SetClosed ==
  /\ ~closed
  /\ closed' = TRUE
  /\ UNCHANGED <<reg, sentGo, sessions, obj, proc, term, hs, sd, ack, rd, toRouter,
                 toCtl, created, connected, events, reqs>>

-----------------------------------------------------------------------------
(* The operation thread of a session: updateProc and deleteProc            *)

\* Mutant: updateProc forgets to reset Busy to Free.
EndUpdateKeepsBusy(o, failed) ==
  /\ obj' = [obj EXCEPT ![o].op = "idle", ![o].todo = {}]
  /\ events' = IF failed THEN events \cup {SessionOperationFailed(o)}
               ELSE events

\* updateProc ends: the catch reports sessionOperationFailed if the update
\* threw; then Busy -> Free under mStateMutex and notify_all.
EndUpdate(o, failed) ==
  /\ obj' = [obj EXCEPT ![o].st = IF @ = "Busy" THEN "Free" ELSE @,
                        ![o].op = "idle", ![o].todo = {}]
  /\ events' = IF failed THEN events \cup {SessionOperationFailed(o)}
               ELSE events

\* getConfigDelta: the computations in mComputations that the new config
\* lacks (defunct), and those of the config not in mComputations (new).
ConfigDelta(o) ==
  [defunct |-> obj[o].comps \ obj[o].want, new |-> obj[o].want \ obj[o].comps]

\* applyNewConfig: every defunct computation is shut down.  Nothing removes
\* it from mComputations.
UpdDelta(o) ==
  LET d == ConfigDelta(o)
  IN /\ obj[o].op = "upd_delta"
     /\ term' = [term EXCEPT ![o] = [c \in Comps |-> @[c] \/ c \in d.defunct]]
     /\ obj' = [obj EXCEPT ![o].todo = d.new, ![o].op = "upd_wait"]
     /\ UNCHANGED <<reg, sentGo, closed, sessions, proc, hs, sd, ack, rd, toRouter, toCtl,
                    created, connected, events, reqs>>

\* waitUntilShutdown on each defunct computation: all exit in time, or the
\* 30 s deadline passes and applyNewConfig throws.
UpdWait(o) ==
  LET defunct == ConfigDelta(o).defunct
  IN /\ obj[o].op = "upd_wait"
     /\ \/ /\ \A c \in defunct : proc[o][c] # "running"
           /\ obj' = [obj EXCEPT ![o].op = "upd_spawn"]
           /\ UNCHANGED events
        \/ /\ \E c \in defunct : proc[o][c] = "running"
           /\ EndUpdate(o, TRUE)
     /\ UNCHANGED <<reg, sentGo, closed, sessions, proc, term, hs, sd, ack, rd, toRouter,
                    toCtl, created, connected, reqs>>

\* The Computation constructor adds a process object for it, and start
\* spawns the process and clears mTerminationExpected.
StartComputation(o, c) ==
  /\ proc' = [proc EXCEPT ![o][c] = "running"]
  /\ term' = [term EXCEPT ![o][c] = FALSE]

\* startNewComputation for one new computation: it is spawned and inserted
\* in mComputations, or (missing definition or context, packaging, config
\* file, spawn) it throws and the remaining ones are not started.
UpdSpawn(o) ==
  /\ obj[o].op = "upd_spawn"
  /\ \E c \in obj[o].todo :
       \/ /\ StartComputation(o, c)
          /\ obj' = [obj EXCEPT ![o].comps = @ \cup {c}, ![o].todo = @ \ {c}]
          /\ UNCHANGED events
       \/ /\ EndUpdate(o, TRUE)
          /\ UNCHANGED <<proc, term>>
  /\ UNCHANGED <<reg, sentGo, closed, sessions, hs, sd, ack, rd, toRouter, toCtl,
                 created, connected, reqs>>

\* Every new computation started: updateProc ends without error.
UpdFinish(o) ==
  /\ obj[o].op = "upd_spawn" /\ obj[o].todo = {}
  /\ EndUpdate(o, FALSE)
  /\ UNCHANGED <<reg, sentGo, closed, sessions, proc, term, hs, sd, ack, rd, toRouter,
                 toCtl, created, connected, reqs>>

\* deleteProc on the operation thread: shut down every computation ...
DelStop(o) ==
  /\ obj[o].op = "del_stop"
  /\ ShutdownComps(o)
  /\ obj' = [obj EXCEPT ![o].op = "del_fin"]
  /\ UNCHANGED <<reg, sentGo, closed, sessions, proc, hs, sd, ack, rd, toRouter, toCtl,
                 created, connected, events, reqs>>

\* ... wait for each until the deadline (a timeout is only logged), send
\* the kick and Delete to the router, and become Defunct.
DelFinish(o) ==
  /\ obj[o].op = "del_fin"
  /\ toRouter' = toRouter \o <<KickMsg(obj[o].sid), DeleteMsg(o)>>
  /\ obj' = [obj EXCEPT ![o].st = "Defunct", ![o].op = "idle"]
  /\ UNCHANGED <<reg, sentGo, closed, sessions, proc, term, hs, sd, ack, rd, toCtl,
                 created, connected, events, reqs>>

OperationStep(o) ==
  UpdDelta(o) \/ UpdWait(o) \/ UpdSpawn(o) \/ UpdFinish(o) \/ DelStop(o) \/ DelFinish(o)

-----------------------------------------------------------------------------
(* shutdownAll, run by ArrasNode::run once the node is told to stop        *)

\* mClosed = true, before mSessionsMutex is taken.
SdStart ==
  /\ sd.phase = "idle"
  /\ closed' = TRUE
  /\ sd' = [sd EXCEPT !.phase = "lock"]
  /\ UNCHANGED <<reg, sentGo, sessions, obj, proc, term, hs, ack, rd, toRouter, toCtl,
                 created, connected, events, reqs>>

\* Mutant: the loop visits map entries without skipping null pointers.
SdLockAllIds ==
  /\ sd.phase = "lock"
  /\ sd' = [sd EXCEPT !.phase = "pick", !.todo = {sessions[s] : s \in SessionIds},
                      !.seen = {sessions[s] : s \in SessionIds}]
  /\ UNCHANGED <<reg, sentGo, closed, sessions, obj, proc, term, hs, ack, rd, toRouter,
                 toCtl, created, connected, events, reqs>>

\* Take mSessionsMutex; the loop visits every session in the map.
SdLock ==
  LET inMap == {sessions[s] : s \in {x \in SessionIds : sessions[x] # NoObj}}
  IN /\ sd.phase = "lock"
     /\ sd' = [sd EXCEPT !.phase = "pick", !.todo = inMap, !.seen = inMap]
     /\ UNCHANGED <<reg, sentGo, closed, sessions, obj, proc, term, hs, ack, rd, toRouter,
                    toCtl, created, connected, events, reqs>>

\* Mutant: syncShutdown does not set mShuttingDown.
SdPickNoFlag ==
  /\ sd.phase = "pick"
  /\ \E o \in sd.todo : sd' = [sd EXCEPT !.phase = "wait", !.cur = o]
  /\ UNCHANGED <<reg, sentGo, closed, sessions, obj, proc, term, hs, ack, rd, toRouter, toCtl,
                 created, connected, events, reqs>>

\* syncShutdown of the next session: mShuttingDown = true.
SdPick ==
  /\ sd.phase = "pick"
  /\ \E o \in sd.todo :
       /\ obj' = [obj EXCEPT ![o].down = TRUE]
       /\ sd' = [sd EXCEPT !.phase = "wait", !.cur = o]
  /\ UNCHANGED <<reg, sentGo, closed, sessions, proc, term, hs, ack, rd, toRouter, toCtl,
                 created, connected, events, reqs>>

\* Mutant: syncShutdown does not wait for a running operation.
SdWaitNoWait ==
  /\ sd.phase = "wait"
  /\ sd' = [sd EXCEPT !.phase = "del_stop"]
  /\ UNCHANGED <<reg, sentGo, closed, sessions, obj, proc, term, hs, ack, rd, toRouter,
                 toCtl, created, connected, events, reqs>>

\* Wait while Busy: the operation completes and its thread is joined, or
\* the deadline passes, SessionError is thrown and shutdownAll logs it and
\* goes on without running deleteProc for this session.
SdWait ==
  LET o == sd.cur
  IN /\ sd.phase = "wait"
     /\ \/ /\ obj[o].st # "Busy" /\ obj[o].op = "idle"
           /\ sd' = [sd EXCEPT !.phase = "del_stop"]
        \/ /\ obj[o].st = "Busy"
           /\ sd' = [sd EXCEPT !.phase = "pick", !.todo = @ \ {o},
                               !.timedOut = @ \cup {o}]
     /\ UNCHANGED <<reg, sentGo, closed, sessions, obj, proc, term, hs, ack, rd, toRouter,
                    toCtl, created, connected, events, reqs>>

\* deleteProc called directly by syncShutdown, Defunct sessions included.
SdDelStop ==
  /\ sd.phase = "del_stop"
  /\ ShutdownComps(sd.cur)
  /\ sd' = [sd EXCEPT !.phase = "del_fin"]
  /\ UNCHANGED <<reg, sentGo, closed, sessions, obj, proc, hs, ack, rd, toRouter, toCtl,
                 created, connected, events, reqs>>

SdDelFinish ==
  LET o == sd.cur
  IN /\ sd.phase = "del_fin"
     /\ toRouter' = toRouter \o <<KickMsg(obj[o].sid), DeleteMsg(o)>>
     /\ obj' = [obj EXCEPT ![o].st = "Defunct"]
     /\ sd' = [sd EXCEPT !.phase = "pick", !.todo = @ \ {o}]
     /\ UNCHANGED <<reg, sentGo, closed, sessions, proc, term, hs, ack, rd, toCtl,
                    created, connected, events, reqs>>

\* The loop is over: mSessionsMutex is released and shutdownAll returns.
SdEnd ==
  /\ sd.phase = "pick" /\ sd.todo = {}
  /\ sd' = [sd EXCEPT !.phase = "done", !.cur = NoObj]
  /\ UNCHANGED <<reg, sentGo, closed, sessions, obj, proc, term, hs, ack, rd, toRouter,
                 toCtl, created, connected, events, reqs>>

ShutdownStep ==
  SdStart \/ SdLock \/ SdPick \/ SdWait \/ SdDelStop \/ SdDelFinish \/ SdEnd

-----------------------------------------------------------------------------
(* Expiration thread, router link, client and child processes              *)

\* expirationProc: the deadline passes with mExpirationSet still true, and
\* sessionExpired hands a "sessionExpired" event to the event handler.
ExpirationFires(o) ==
  /\ obj[o].expThr /\ obj[o].expSet
  /\ obj' = [obj EXCEPT ![o].expThr = FALSE]
  /\ events' = events \cup {SessionExpired(o)}
  /\ UNCHANGED <<reg, sentGo, closed, sessions, proc, term, hs, sd, ack, rd, toRouter,
                 toCtl, created, connected, reqs>>

\* RoutingTable::sessionRoutingData: the session's entry, if it exists and
\* has not expired.
SessionRoutingData(s) == s \in rd

\* putSessionRoutingData: keeps routing data already stored for the id.
PutRoutingData(s) == rd \cup {s}

\* RoutingTable::deleteSessionRoutingData drops both references.
DeleteRoutingData(s) == rd \ {s}

\* serviceToRouterProc pops the next message: Initialize stores routing data
\* unless some is already stored (putSessionRoutingData) and replies
\* Acknowledge; Delete removes it (deleteSessionRoutingData).  Control,
\* Update, EngineReady and Kick are passed on to the computations, the session's
\* client addresser and the client; what they do there is not modelled.
RouterReceive ==
  LET m == Head(toRouter)
  IN /\ toRouter # <<>>
     /\ toRouter' = Tail(toRouter)
     /\ \/ /\ m.act = "Initialize"
           /\ rd' = PutRoutingData(m.sid)
           /\ toCtl' = Append(toCtl, [kind |-> "Ack", sid |-> m.sid])
        \/ /\ m.act = "Delete"
           /\ rd' = DeleteRoutingData(m.sid)
           /\ UNCHANGED toCtl
        \/ /\ m.act \in {"Control", "Update", "EngineReady", "Kick"}
           /\ UNCHANGED <<rd, toCtl>>
     /\ UNCHANGED <<reg, sentGo, closed, sessions, obj, proc, term, hs, sd, ack, created,
                    connected, events, reqs>>

\* ArrasController::handleMessage pops the next message from the router.
\* Acknowledge: the flag is set (and never cleared) and the waiting create
\* is woken.  ComputationStatus: a "computationReady" event is handed to
\* the event handler (the status itself is not serialized).
ControllerAck ==
  LET m == Head(toCtl)
  IN /\ toCtl # <<>>
     /\ toCtl' = Tail(toCtl)
     /\ \/ /\ m.kind = "Ack"
           /\ ack' = [ack EXCEPT ![m.sid] = TRUE]
           /\ UNCHANGED events
        \/ /\ m.kind = "Status"
           /\ events' = events \cup {[kind |-> "compReady", sid |-> m.sid, c |-> m.c]}
           /\ UNCHANGED ack
     /\ UNCHANGED <<reg, sentGo, closed, sessions, obj, proc, term, hs, sd, rd, toRouter,
                    created, connected, reqs>>

\* ThreadedNodeRouter::notifyComputationStatus: a ComputationStatus message
\* to the controller over the service connection.
NotifyComputationStatus(o, c) ==
  Append(toCtl, [kind |-> "Status", sid |-> obj[o].sid, c |-> c])

\* The RemoteEndpoint constructor for an IPC peer of a session looks the
\* session's routing data up and throws "Missing routing data" if there
\* is none.
IpcEndpointBuilt(o) == SessionRoutingData(obj[o].sid)

\* ListenServer::poll runs the connect filters on the new peer; an
\* exception from a filter is logged, ends the chain, and the peer, owned
\* by no endpoint, is shut down.
IpcAnswer(o) == IF IpcEndpointBuilt(o) THEN "accepted" ELSE "refused"

\* A spawned computation process connects to the router's IPC socket and
\* sends its registration (once: a refused executor does not retry).  The
\* IPC connect filter calls notifyComputationStatus(sid, c, "ready") first,
\* then constructs the endpoint, and trackIpc keeps it.
ComputationRegisters(o, c) ==
  /\ proc[o][c] = "running" /\ reg[o][c] = "none"
  /\ toCtl' = NotifyComputationStatus(o, c)
  /\ reg' = [reg EXCEPT ![o][c] = IpcAnswer(o)]
  /\ UNCHANGED <<sentGo, closed, sessions, obj, proc, term, hs, sd, ack, rd, toRouter,
                 created, connected, events, reqs>>

\* A client given a created session connects; the router reports
\* "connected" and handleMessage stops the expiration of an active session;
\* a Defunct or unknown one has its client kicked.
ClientConnects(s) ==
  LET o == GetSession(s)
  IN /\ s \in created /\ s \notin connected /\ ~LockHeld
     /\ connected' = connected \cup {s}
     /\ IF o # NoObj /\ IsActive(o)
          THEN /\ obj' = [obj EXCEPT ![o] = StopExpiration(o)]
               /\ UNCHANGED toRouter
          ELSE /\ toRouter' = Append(toRouter, KickMsg(s))
               /\ UNCHANGED obj
     /\ UNCHANGED <<reg, sentGo, closed, sessions, proc, term, hs, sd, ack, rd,
                    toCtl, created, events, reqs>>

\* The connected client sends "disconnect" or its connection drops: the
\* router's notifyClientDisconnected reaches handleMessage, which raises
\* a sessionClientDisconnected event.
ClientDisconnects(s) ==
  /\ s \in connected
  /\ [kind |-> "clientDisconnected", sid |-> s] \notin events
  /\ events' = events \cup {[kind |-> "clientDisconnected", sid |-> s]}
  /\ UNCHANGED <<reg, sentGo, closed, sessions, obj, proc, term, hs, sd, ack, rd,
                 toRouter, toCtl, created, connected, reqs>>

\* A child process exits, because it was terminated or on its own, and
\* Computation::onTerminate hands a computationTerminated event to the
\* event handler.
ProcessExits(o, c) ==
  /\ proc[o][c] = "running"
  /\ proc' = [proc EXCEPT ![o][c] = "exited"]
  /\ events' = events \cup {[kind |-> "compTerminated", o |-> o]}
  /\ UNCHANGED <<reg, sentGo, closed, sessions, obj, term, hs, sd, ack, rd, toRouter,
                 toCtl, created, connected, reqs>>

\* main returns once shutdownAll is done and no request is being handled.
NodeExited ==
  /\ sd.phase = "done" /\ \A h \in Handlers : hs[h].pc = "idle"
  /\ UNCHANGED vars

-----------------------------------------------------------------------------

HandlerStep(h) ==
  \/ CreateInsert(h) \/ CreateInit(h) \/ CreateAcked(h) \/ CreateTimeout(h)
  \/ CreateUpdate(h) \/ CreateErase(h) \/ CreateDestroy(h) \/ ModifyUpdate(h)
  \/ SignalAll(h) \/ SignalEngineReady(h)

Request(h) ==
  \/ \E s \in SessionIds, w \in Configs, e \in BOOLEAN : CreateSession(h, s, w, e)
  \/ \E s \in SessionIds, w \in Configs : ModifySession(h, s, w)
  \/ \E s \in SessionIds : DeleteSession(h, s)
  \/ \E s \in SessionIds, k \in SignalKinds : SignalSession(h, s, k)

Next ==
  \/ \E h \in Handlers : Request(h) \/ HandlerStep(h)
  \/ \E o \in Objs : OperationStep(o) \/ ExpirationFires(o)
  \/ ShutdownStep \/ SetClosed
  \/ RouterReceive \/ ControllerAck
  \/ \E s \in SessionIds : ClientConnects(s) \/ ClientDisconnects(s)
  \/ \E o \in Objs, c \in Comps : ProcessExits(o, c) \/ ComputationRegisters(o, c)
  \/ NodeExited

\* Threads of the agent and the router that run once they can: the HTTP
\* workers inside a handler, operation threads, the shutdown thread, the
\* router's service thread and the controller's dispatcher.  Requests,
\* the client and the child processes are not scheduled by the agent.
Fairness ==
  /\ \A h \in Handlers : WF_vars(HandlerStep(h))
  /\ \A o \in Objs : WF_vars(OperationStep(o))
  /\ WF_vars(ShutdownStep /\ sd.phase # "idle")
  /\ WF_vars(RouterReceive) /\ WF_vars(ControllerAck)

Spec == Init /\ [][Next]_vars /\ Fairness

-----------------------------------------------------------------------------
(* Properties                                                              *)

TypeOK ==
  /\ closed \in BOOLEAN
  /\ sessions \in [SessionIds -> Objs \cup {NoObj}]
  /\ \A o \in Objs :
       /\ obj[o].sid \in SessionIds
       /\ obj[o].st \in {"Unborn", "Free", "Busy", "Defunct"}
       /\ obj[o].op \in OpPhases
       /\ obj[o].want \in Configs \cup {{}}
       /\ obj[o].todo \cup obj[o].comps \subseteq Comps
       /\ {obj[o].down, obj[o].expSet, obj[o].expThr, obj[o].gone} \subseteq BOOLEAN
  /\ proc \in [Objs -> [Comps -> ProcStates]]
  /\ term \in [Objs -> [Comps -> BOOLEAN]]
  /\ ack \in [SessionIds -> BOOLEAN]
  /\ rd \subseteq SessionIds /\ created \subseteq SessionIds
  /\ connected \subseteq SessionIds
  /\ reqs \in 0..MaxRequests
  /\ \A o \in Objs : sentGo[o] \subseteq obj[o].comps
  /\ reg \in [Objs -> [Comps -> {"none", "accepted", "refused"}]]
  /\ sd.todo \cup sd.seen \cup sd.timedOut \subseteq Objs
  /\ sd.cur \in Objs \cup {NoObj}

\* P4 and the operation discipline of Session: a session is Busy exactly
\* while its operation thread runs, and the deleteProc that syncShutdown
\* runs itself never overlaps an operation thread of the same session.
SingleOperation ==
  \A o \in Objs :
    /\ (obj[o].st = "Busy") <=> (obj[o].op # "idle")
    /\ sd.cur = o /\ sd.phase \in {"del_stop", "del_fin"} => obj[o].op = "idle"

\* A Defunct session has no child process that it has not told to stop:
\* deleteProc terminates every computation in mComputations, and no update
\* can add one after it (asyncUpdateConfig refuses Busy and Defunct, and
\* syncShutdown waits for the running operation).
DefunctStopsChildren ==
  \A o \in Objs, c \in Comps :
    obj[o].st = "Defunct" /\ proc[o][c] = "running" => term[o][c]

\* P5 for the sessions shutdownAll finds in the map: when it returns, each
\* one whose syncShutdown did not time out has told all its children to stop.
ShutdownStopsSessions ==
  sd.phase = "done" =>
    \A o \in sd.seen \ sd.timedOut, c \in Comps :
      proc[o][c] = "running" => term[o][c]

\* P5 as the spec states it: when shutdownAll returns, every child of every
\* session of the agent has been told to stop, except those of a session
\* whose syncShutdown timed out.
ShutdownStopsAll ==
  sd.phase = "done" =>
    \A o \in Objs \ sd.timedOut, c \in Comps :
      proc[o][c] = "running" => term[o][c]

\* Session.h: a session expires "unless [it is] deleted or stopExpiration()
\* is called": no sessionExpired event is raised for a Defunct session.
NoExpiryOfDeletedSession ==
  [][\A o \in Objs :
       SessionExpired(o) \in events' \ events => obj[o].st # "Defunct"]_vars

\* Every Busy period ends: updateProc and deleteProc finish, whatever the
\* child processes do (their waits have deadlines).
OperationEnds ==
  \A o \in Objs : obj[o].st = "Busy" ~> obj[o].st # "Busy"

\* Spec 4.G, modify: the computations of the new config that are not
\* running are spawned.  When updateProc has started every new computation,
\* no computation of the config is one this session has told to stop.
UpdateStartsConfig ==
  \A o \in Objs :
    obj[o].op = "upd_spawn" /\ obj[o].todo = {} =>
      \A c \in obj[o].want : ~term[o][c]

\* Spec section 5: Initialize is observed by the router before anything
\* that depends on it, "enforced by the create operation blocking on the
\* Acknowledge": a live session's running child always has routing data.
RoutingBeforeChildren ==
  \A o \in Objs, c \in Comps :
    proc[o][c] = "running" /\ ~obj[o].gone /\ obj[o].st # "Defunct"
      => obj[o].sid \in rd

\* Routing data is released with the session: once no handler is working,
\* and the router has read every message, it holds no routing data for an
\* id that has no session in the map.
NoStaleRoutingData ==
  (\A h \in Handlers : hs[h].pc = "idle") /\ toRouter = <<>> =>
    \A s \in SessionIds : sessions[s] = NoObj => s \notin rd

\* R1: create, delete, create of the same id succeeds once Defunct is
\* visible: CreateInsert never refuses an id whose session is Defunct.
DeletedIdReusable ==
  [][\A h \in Handlers :
       hs[h].pc = "c_insert" /\ hs'[h].pc = "idle" =>
         obj[sessions[hs[h].sid]].st # "Defunct"]_vars

\* Spec "Signals": a run reaches the computations as go or update control
\* messages.  None is sent for a session that is already Defunct, its
\* Delete sent, even when the run passed checkIsFree before an asyncDelete
\* or shutdownAll got to the session and signalAll runs after deleteProc.
NoControlAfterDelete ==
  [][\A i \in (Len(toRouter) + 1)..Len(toRouter') :
       toRouter'[i].act = "Control" => obj[toRouter'[i].o].st # "Defunct"]_vars

\* The computationReady event the controller raises for a registration
\* tells the coordinator the computation is connected: it is raised only
\* for a computation whose IPC connection the router accepted.  The IPC
\* filter notifies "ready" before the RemoteEndpoint constructor looks the
\* routing data up, so a registration that arrives after Delete (a child
\* that outlived deleteProc's wait) is reported ready and then refused.
ReadyMeansAccepted ==
  \A e \in events : e.kind = "compReady" =>
    \E o \in Objs : obj[o].sid = e.sid /\ reg[o][e.c] = "accepted"

=============================================================================
