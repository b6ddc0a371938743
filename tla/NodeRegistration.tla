-------------------------- MODULE NodeRegistration --------------------------
(***************************************************************************)
(* The node's registration and its tags (src/cmd/node/ArrasNode.cc,       *)
(* NodeService.cc, ConsulClient.cc).                                       *)
(*                                                                         *)
(* initialize constructs NodeService, whose HTTP workers serve requests    *)
(* from then on, then buildNodeInfo and registerNode: the Consul service, *)
(* its health check, the Coordinator's POST /nodes and the node info in    *)
(* Consul's key store; any failure throws out of initialize.  After run,   *)
(* deregisterNode undoes the registrations unless mIsRegistered is false;  *)
(* PUT /status "unregistered" clears it.  ~ArrasNode joins                 *)
(* mNodeInfoUpdateThread, then its members go: mNodeService (its HTTP      *)
(* workers finish) before the std::thread member itself.                  *)
(*                                                                         *)
(* PUT /node/tags and DELETE /node/tag(s) call updateTags / deleteTags: under *)
(* mNodeInfoMutex a request is refused while mNodeInfoIsUpdating, or if    *)
(* the merged tags do not validate; otherwise the flag is set.  Outside    *)
(* the mutex the worker joins the previous update thread if joinable and   *)
(* move-assigns a new one to mNodeInfoUpdateThread; the thread merges the  *)
(* request into mNodeInfo["tags"], validates and stores it, then clears    *)
(* the flag.  A tag is abstracted to its presence.                         *)
(***************************************************************************)
EXTENDS Naturals, Sequences, SequencesExt

CONSTANTS
  Handlers,        \* HTTP worker threads of NodeService
  Requests,        \* tag requests: [kind: "update" | "delete", tags]
  InitialTags,     \* the tags buildNodeInfo takes from the options
  MaxTagRequests,  \* bound on the tag requests of a behaviour
  EarlyRequests,   \* whether tag requests arrive before registration ends
  GetCoordRetries  \* GET_COORD_RETRIES: attempts to fetch the Coordinator URL

\* Tag threads, numbered in the order they are constructed.
Threads == 1..MaxTagRequests

\* An empty std::thread: mNodeInfoUpdateThread holds no thread.
NoThread == 0

VARIABLES
  pc,          \* where the main thread is in initialize, run and ~ArrasNode
  tags,        \* mNodeInfo["tags"]
  updating,    \* mNodeInfoIsUpdating
  member,      \* mNodeInfoUpdateThread: the joinable thread it holds
  thr,         \* thr[t]: [pc, req, cur] of tag thread t
  hs,          \* hs[h]: [pc, req, t] of HTTP worker h in a tags handler
  isReg,       \* mIsRegistered
  coord,       \* the Coordinator holds the node registered
  consulSvc,   \* Consul holds the node's service
  consulChk,   \* Consul holds the node's health check
  deregFail,   \* a deregistration request failed
  ran,         \* initialize succeeded and run was entered (history)
  terminated,  \* std::terminate was called: the process aborted
  accepted,    \* the tag requests answered 200, in order (history)
  reqs,        \* tag requests received so far
  tries        \* the attempts findServices has made to fetch the Coordinator URL

vars == <<pc, tags, updating, member, thr, hs, isReg, coord, consulSvc,
          consulChk, deregFail, ran, terminated, accepted, reqs, tries>>

regVars == <<isReg, coord, consulSvc, consulChk, deregFail, ran, tries>>
tagVars == <<tags, updating, member, thr, hs, accepted, reqs>>

MainPcs == {"find_consul", "find_coord", "init_failed", "build", "consul_svc", "consul_chk", "coord", "consul_info",
            "run", "dereg_coord", "dereg_chk", "dereg_svc", "destroy",
            "members", "thread_member", "exit"}

IdleWorker == [pc |-> "idle", req |-> CHOOSE r \in Requests : TRUE, t |-> NoThread]

-----------------------------------------------------------------------------
(* Tags                                                                    *)

\* updateTags copies each member of the request into the tags;
\* deleteTags removes each name of the request that is a member.
Merge(cur, r) == IF r.kind = "update" THEN cur \cup r.tags ELSE cur \ r.tags

\* validateTags: exclusive_team requires exclusive_production, and a true
\* over_subscribe requires exclusive_user.
ValidTags(t) ==
  /\ "exclusive_team" \in t => "exclusive_production" \in t
  /\ "over_subscribe" \in t => "exclusive_user" \in t

\* NodeService serves requests from its construction until ~NodeService
\* stops its HTTP server; the Coordinator sends them once it has learnt of
\* the node from its registration.
Serving ==
  /\ pc \notin {"find_consul", "find_coord", "init_failed", "members", "thread_member", "exit"}
  /\ EarlyRequests \/ ran

\* The values of mNodeInfoUpdateThread for which joinable() and join()
\* return: an empty thread, or one that has finished.
JoinReturns == {NoThread} \cup {t \in Threads : thr[t].pc = "done"}

Init ==
  /\ pc = "find_consul"
  /\ tags = {}
  /\ updating = FALSE
  /\ member = NoThread
  /\ thr = [t \in Threads |-> [pc |-> "unborn", req |-> CHOOSE r \in Requests : TRUE,
                               cur |-> {}]]
  /\ hs = [h \in Handlers |-> IdleWorker]
  /\ isReg = FALSE /\ coord = FALSE /\ consulSvc = FALSE /\ consulChk = FALSE
  /\ deregFail = FALSE /\ ran = FALSE
  /\ terminated = FALSE
  /\ accepted = <<>>
  /\ reqs = 0
  /\ tries = 0

\* Mutant: the handler does not test mNodeInfoIsUpdating.
TagRequestNoBusyCheck(h, r) ==
  /\ hs[h].pc = "idle" /\ reqs < MaxTagRequests /\ Serving
  /\ reqs' = reqs + 1
  /\ IF ValidTags(Merge(tags, r))
       THEN /\ updating' = TRUE
            /\ accepted' = Append(accepted, r)
            /\ hs' = [hs EXCEPT ![h] = [pc |-> "join", req |-> r, t |-> NoThread]]
       ELSE UNCHANGED <<updating, accepted, hs>>
  /\ UNCHANGED <<pc, tags, member, thr, terminated>> /\ UNCHANGED regVars

\* Mutant: an update that changes nothing is answered 200 at once, with
\* the flag left set.
TagRequestSkipNoop(h, r) ==
  /\ hs[h].pc = "idle" /\ reqs < MaxTagRequests /\ Serving
  /\ reqs' = reqs + 1
  /\ IF ~updating /\ ValidTags(Merge(tags, r))
       THEN /\ updating' = TRUE
            /\ accepted' = Append(accepted, r)
            /\ hs' = IF Merge(tags, r) = tags THEN hs
                     ELSE [hs EXCEPT ![h] = [pc |-> "join", req |-> r, t |-> NoThread]]
       ELSE UNCHANGED <<updating, accepted, hs>>
  /\ UNCHANGED <<pc, tags, member, thr, terminated>> /\ UNCHANGED regVars

\* updateTags / deleteTags under mNodeInfoMutex: 409 while an update runs,
\* 400 if the merged tags do not validate, else the flag is set.
TagRequest(h, r) ==
  /\ hs[h].pc = "idle" /\ reqs < MaxTagRequests /\ Serving
  /\ reqs' = reqs + 1
  /\ IF ~updating /\ ValidTags(Merge(tags, r))
       THEN /\ updating' = TRUE
            /\ accepted' = Append(accepted, r)
            /\ hs' = [hs EXCEPT ![h] = [pc |-> "join", req |-> r, t |-> NoThread]]
       ELSE UNCHANGED <<updating, accepted, hs>>
  /\ UNCHANGED <<pc, tags, member, thr, terminated>> /\ UNCHANGED regVars

\* The NodeService handlers: PUT /node/tags passes its payload to
\* updateTags, DELETE /node/tags its payload and DELETE /node/tag/{name} a
\* one-name array to deleteTags; the answer's code is not modelled.
TagHandler(h) == \E r \in Requests : TagRequest(h, r)

\* if (mNodeInfoUpdateThread.joinable()) mNodeInfoUpdateThread.join():
\* the join returns once that thread has finished.
TagJoin(h) ==
  /\ hs[h].pc = "join"
  /\ member \in JoinReturns
  /\ member' = NoThread
  /\ hs' = [hs EXCEPT ![h].pc = "spawn"]
  /\ UNCHANGED <<pc, tags, updating, thr, terminated, accepted, reqs>>
  /\ UNCHANGED regVars

\* std::thread(&ArrasNode::updateTagsProc / deleteTagsProc, this, tags):
\* the thread starts before it is assigned to the member.
TagSpawn(h) ==
  LET t == CHOOSE x \in Threads : thr[x].pc = "unborn"
                                  /\ \A y \in Threads : thr[y].pc = "unborn" => x <= y
  IN /\ hs[h].pc = "spawn"
     /\ thr' = [thr EXCEPT ![t] = [pc |-> "read", req |-> hs[h].req, cur |-> {}]]
     /\ hs' = [hs EXCEPT ![h].pc = "assign", ![h].t = t]
     /\ UNCHANGED <<pc, tags, updating, member, terminated, accepted, reqs>>
     /\ UNCHANGED regVars

\* mNodeInfoUpdateThread = std::thread(...): move-assigning to a std::thread
\* that is still joinable calls std::terminate.
TagAssign(h) ==
  /\ hs[h].pc = "assign"
  /\ IF member = NoThread
       THEN /\ member' = hs[h].t
            /\ UNCHANGED terminated
       ELSE /\ terminated' = TRUE
            /\ UNCHANGED member
  /\ hs' = [hs EXCEPT ![h] = IdleWorker]
  /\ UNCHANGED <<pc, tags, updating, thr, accepted, reqs>> /\ UNCHANGED regVars

\* Mutant: the thread clears mNodeInfoIsUpdating before it merges and
\* writes, not after.
ThreadReadClearsFlag(t) ==
  /\ thr[t].pc = "read"
  /\ thr' = [thr EXCEPT ![t].pc = "write", ![t].cur = Merge(tags, thr[t].req)]
  /\ updating' = FALSE
  /\ UNCHANGED <<pc, tags, member, hs, terminated, accepted, reqs>>
  /\ UNCHANGED regVars

\* updateTagsProc / deleteTagsProc: current = mNodeInfo["tags"] merged with
\* the request.
ThreadRead(t) ==
  /\ thr[t].pc = "read"
  /\ thr' = [thr EXCEPT ![t].pc = "write", ![t].cur = Merge(tags, thr[t].req)]
  /\ UNCHANGED <<pc, tags, updating, member, hs, terminated, accepted, reqs>>
  /\ UNCHANGED regVars

\* Mutant: the thread validates the request's tags instead of the merged set.
ThreadWriteValidatesRequest(t) ==
  /\ thr[t].pc = "write"
  /\ tags' = IF ValidTags(thr[t].req.tags) THEN thr[t].cur ELSE tags
  /\ thr' = [thr EXCEPT ![t].pc = "clear"]
  /\ UNCHANGED <<pc, updating, member, hs, terminated, accepted, reqs>>
  /\ UNCHANGED regVars

\* validateTags(current): stored in mNodeInfo["tags"] and written to Consul
\* (a Consul failure is only logged); an invalid set is only logged.
ThreadWrite(t) ==
  /\ thr[t].pc = "write"
  /\ tags' = IF ValidTags(thr[t].cur) THEN thr[t].cur ELSE tags
  /\ thr' = [thr EXCEPT ![t].pc = "clear"]
  /\ UNCHANGED <<pc, updating, member, hs, terminated, accepted, reqs>>
  /\ UNCHANGED regVars

\* mNodeInfoIsUpdating = false under mNodeInfoMutex; the thread ends.
ThreadClear(t) ==
  /\ thr[t].pc = "clear"
  /\ updating' = FALSE
  /\ thr' = [thr EXCEPT ![t].pc = "done"]
  /\ UNCHANGED <<pc, tags, member, hs, terminated, accepted, reqs>>
  /\ UNCHANGED regVars

-----------------------------------------------------------------------------
(* Registration and the main thread                                        *)

\* ServiceClient::doGet: a 2xx answer with a JSON body, or a ServiceError
\* for any other status code or a body that does not parse.
GetOutcomes == BOOLEAN

\* findServices, Consul: its URL comes from the options or from the
\* configuration service; a failed or empty lookup throws out of
\* initialize.  mainloop returns -1 and ~ArrasNode, before NodeService or
\* any tag thread exists, has nothing to stop: the process exits.
FindConsul ==
  /\ pc = "find_consul"
  /\ \E ok \in GetOutcomes : pc' = IF ok THEN "find_coord" ELSE "init_failed"
  /\ UNCHANGED regVars /\ UNCHANGED tagVars /\ UNCHANGED terminated

\* findServices, Coordinator: getCoordinatorUrl is tried up to
\* GET_COORD_RETRIES times, a second apart; a ServiceError is logged and
\* retried, and the loop ends at the first URL.  Out of attempts, it throws.
FindCoordinator ==
  /\ pc = "find_coord"
  /\ \E ok \in GetOutcomes :
       /\ tries' = tries + 1
       /\ pc' = IF ok THEN "build"
                ELSE IF tries + 1 = GetCoordRetries THEN "init_failed" ELSE "find_coord"
  /\ UNCHANGED <<isReg, coord, consulSvc, consulChk, deregFail, ran>>
  /\ UNCHANGED tagVars /\ UNCHANGED terminated

\* buildNodeInfo: mNodeInfo["tags"] is reset to the tags of the options.
BuildNodeInfo ==
  /\ pc = "build"
  /\ tags' = InitialTags
  /\ pc' = "consul_svc"
  /\ UNCHANGED <<updating, member, thr, hs, terminated, accepted, reqs>>
  /\ UNCHANGED regVars

\* A step of registerNode: the request succeeds and registration goes on
\* to next, or it fails and initialize throws (ServiceException from
\* Consul, NodeError for a refused registration); mainloop returns -1 and
\* the node is destroyed at exit.
RegStep(from, next) ==
  /\ pc = from
  /\ \E ok \in BOOLEAN : pc' = IF ok THEN next ELSE "destroy"

\* consulClient.registerService.
RegisterService ==
  /\ RegStep("consul_svc", "consul_chk")
  /\ consulSvc' = (pc' = "consul_chk")
  /\ UNCHANGED <<isReg, tries, coord, consulChk, deregFail, ran>> /\ UNCHANGED tagVars
  /\ UNCHANGED terminated

\* consulClient.registerCheck for the /node/1/health URL.
RegisterCheck ==
  /\ RegStep("consul_chk", "coord")
  /\ consulChk' = (pc' = "coord")
  /\ UNCHANGED <<isReg, tries, coord, consulSvc, deregFail, ran>> /\ UNCHANGED tagVars
  /\ UNCHANGED terminated

\* NodeService::registerNode: POST /nodes to the Coordinator.
RegisterCoordinator ==
  /\ RegStep("coord", "consul_info")
  /\ coord' = (pc' = "consul_info")
  /\ UNCHANGED <<isReg, tries, consulSvc, consulChk, deregFail, ran>> /\ UNCHANGED tagVars
  /\ UNCHANGED terminated

\* consulClient.updateNodeInfo, then mIsRegistered = true; initialize
\* ends and run waits for a stop.
UpdateNodeInfo ==
  /\ RegStep("consul_info", "run")
  /\ isReg' = (pc' = "run")
  /\ ran' = (pc' = "run")
  /\ UNCHANGED <<coord, tries, consulSvc, consulChk, deregFail>> /\ UNCHANGED tagVars
  /\ UNCHANGED terminated

\* stopRunning from any of its callers; run shuts the sessions down,
\* drains the events and calls deregisterNode.
Stop ==
  /\ pc = "run"
  /\ pc' = "dereg_coord"
  /\ UNCHANGED <<terminated>> /\ UNCHANGED regVars /\ UNCHANGED tagVars

\* PUT /status {"status": "unregistered"} after the Coordinator dropped the
\* node: setStatus sets mIsRegistered = false.
Unregistered ==
  /\ coord /\ Serving /\ \E h \in Handlers : hs[h].pc = "idle"
  /\ coord' = FALSE
  /\ isReg' = FALSE
  /\ UNCHANGED <<pc, tries, consulSvc, consulChk, deregFail, ran, terminated>>
  /\ UNCHANGED tagVars

\* NodeService::deregisterNode: DELETE /nodes/{id} succeeds, is answered
\* with an unacceptable status (logged, false returned), or the request
\* throws.
DeregisterOutcomes == {"ok", "refused", "threw"}

\* deregisterNode: nothing if mIsRegistered is false.  Else DELETE
\* /nodes/{id}, whose unacceptable status is only logged; an exception
\* from any request skips the rest of the try block, and mIsRegistered is
\* cleared.
DeregisterCoordinator ==
  /\ pc = "dereg_coord"
  /\ \/ /\ ~isReg
        /\ pc' = "destroy"
        /\ UNCHANGED <<coord, deregFail>>
     \/ /\ isReg
        /\ \E r \in DeregisterOutcomes :
             /\ coord' = (coord /\ r # "ok")
             /\ deregFail' = (deregFail \/ r # "ok")
             /\ pc' = IF r = "threw" THEN "destroy" ELSE "dereg_chk"
  /\ isReg' = (isReg /\ pc' # "destroy")
  /\ UNCHANGED <<consulSvc, tries, consulChk, ran, terminated>> /\ UNCHANGED tagVars

\* consulClient.deregisterCheck: a failure throws.
DeregisterCheck ==
  /\ pc = "dereg_chk"
  /\ \/ consulChk' = FALSE /\ pc' = "dereg_svc" /\ UNCHANGED <<isReg, deregFail>>
     \/ deregFail' = TRUE /\ pc' = "destroy" /\ isReg' = FALSE /\ UNCHANGED consulChk
  /\ UNCHANGED <<coord, tries, consulSvc, ran, terminated>> /\ UNCHANGED tagVars

\* consulClient.deregisterService; then mIsRegistered = false.
DeregisterService ==
  /\ pc = "dereg_svc"
  /\ \/ consulSvc' = FALSE /\ UNCHANGED deregFail
     \/ deregFail' = TRUE /\ UNCHANGED consulSvc
  /\ isReg' = FALSE
  /\ pc' = "destroy"
  /\ UNCHANGED <<coord, tries, consulChk, ran, terminated>> /\ UNCHANGED tagVars

\* ~ArrasNode: join mNodeInfoUpdateThread if it is joinable.
Destroy ==
  /\ pc = "destroy"
  /\ member \in JoinReturns
  /\ member' = NoThread
  /\ pc' = "members"
  /\ UNCHANGED <<tags, updating, thr, hs, terminated, accepted, reqs>>
  /\ UNCHANGED regVars

\* The members go in reverse order: ~NodeService stops the HTTP server,
\* whose workers finish the request they are handling.
DestroyService ==
  /\ pc = "members" /\ \A h \in Handlers : hs[h].pc = "idle"
  /\ pc' = "thread_member"
  /\ UNCHANGED <<terminated>> /\ UNCHANGED regVars /\ UNCHANGED tagVars

\* ~std::thread of mNodeInfoUpdateThread: std::terminate if joinable.
DestroyThreadMember ==
  /\ pc = "thread_member"
  /\ IF member = NoThread
       THEN pc' = "exit" /\ UNCHANGED terminated
       ELSE terminated' = TRUE /\ UNCHANGED pc
  /\ UNCHANGED regVars /\ UNCHANGED tagVars

\* The process has exited or aborted.
Halted ==
  /\ pc \in {"exit", "init_failed"} \/ terminated
  /\ UNCHANGED vars

-----------------------------------------------------------------------------

MainStep ==
  \/ FindConsul \/ FindCoordinator
  \/ BuildNodeInfo \/ RegisterService \/ RegisterCheck \/ RegisterCoordinator
  \/ UpdateNodeInfo \/ DeregisterCoordinator \/ DeregisterCheck
  \/ DeregisterService \/ Destroy \/ DestroyService \/ DestroyThreadMember

HandlerStep(h) == TagJoin(h) \/ TagSpawn(h) \/ TagAssign(h)

ThreadStep(t) == ThreadRead(t) \/ ThreadWrite(t) \/ ThreadClear(t)

Next ==
  \/ /\ ~terminated
     /\ \/ MainStep \/ Stop \/ Unregistered
        \/ \E h \in Handlers : HandlerStep(h) \/ TagHandler(h)
        \/ \E t \in Threads : ThreadStep(t)
  \/ Halted

\* The main thread, a worker inside a tags handler and a tag thread run
\* when they can.  Stops, requests and the Coordinator are outside.
Fairness ==
  /\ WF_vars(~terminated /\ MainStep)
  /\ \A h \in Handlers : WF_vars(~terminated /\ HandlerStep(h))
  /\ \A t \in Threads : WF_vars(~terminated /\ ThreadStep(t))

Spec == Init /\ [][Next]_vars /\ Fairness

-----------------------------------------------------------------------------
(* Properties                                                              *)

\* The variables have their types; the member only ever holds a constructed
\* thread, and a worker that was granted the update keeps the flag set
\* until it has started its thread.
TypeOK ==
  /\ pc \in MainPcs
  /\ tags \subseteq UNION {r.tags : r \in Requests} \cup InitialTags
  /\ updating \in BOOLEAN /\ terminated \in BOOLEAN
  /\ member \in Threads \cup {NoThread}
  /\ \A t \in Threads : thr[t].pc \in {"unborn", "read", "write", "clear", "done"}
  /\ \A h \in Handlers : hs[h].pc \in {"idle", "join", "spawn", "assign"}
  /\ {isReg, coord, consulSvc, consulChk, deregFail, ran} \subseteq BOOLEAN
  /\ Len(accepted) <= reqs /\ reqs \in 0..MaxTagRequests
  /\ tries \in 0..GetCoordRetries
  /\ member # NoThread => thr[member].pc # "unborn"
  /\ \A h \in Handlers : hs[h].pc \in {"join", "spawn"} => updating

\* Every tag request answered 200 takes effect once, in the order the
\* requests were accepted: whenever no update is running, the node's tags
\* are the options' tags with the accepted requests applied in turn, even
\* though each request is applied by a thread of its own after the HTTP
\* worker has answered.
TagsApplied ==
  ~updating /\ pc \notin {"find_consul", "find_coord", "init_failed", "build"} => tags = FoldLeft(Merge, InitialTags, accepted)

\* A tags update that was accepted finishes and clears
\* mNodeInfoIsUpdating, so later tag requests are not refused with 409
\* for ever.
UpdateFinishes ==
  updating ~> (~updating \/ terminated)

\* The node never aborts in std::terminate: mNodeInfoUpdateThread is never
\* move-assigned, nor destroyed, while it holds a joinable thread.
NoTerminate == ~terminated

\* Spec 4.I and scenario 6: when the node exits, it is registered with
\* neither the Coordinator nor Consul unless a deregistration request
\* failed.
NoDanglingRegistration ==
  pc = "exit" => (coord \/ consulSvc \/ consulChk => deregFail)


-----------------------------------------------------------------------------
(* Refinement of TagStore                                                  *)

\* The request of the update under way: held by the HTTP worker from the
\* busy check until it starts the thread, then by the thread until it has
\* written the tags.
UpdateRequests ==
  {hs[h].req : h \in {x \in Handlers : hs[x].pc \in {"join", "spawn"}}}
  \cup {thr[t].req : t \in {x \in Threads : thr[x].pc \in {"read", "write"}}}

NoTagRequest == [kind |-> "none", tags |-> {}]

\* mNodeInfo["tags"] is the store's once buildNodeInfo has set it; the
\* busy flag is mNodeInfoIsUpdating.
Store == INSTANCE TagStore WITH
  Merge <- Merge, Valid <- ValidTags, NoRequest <- NoTagRequest,
  tags <- IF pc \in {"find_consul", "find_coord", "init_failed", "build"}
          THEN InitialTags ELSE tags,
  busy <- updating,
  pending <- IF UpdateRequests = {} THEN NoTagRequest
             ELSE CHOOSE r \in UpdateRequests : TRUE

\* Tag updates are serialized (spec 4.H): updateTags / deleteTags and the
\* update thread they start implement TagStore, in which a request is
\* accepted only while no update runs and is then applied in one step.
\* The thread's read of mNodeInfo["tags"], merge and write happen in three
\* steps without the mutex, the flag being cleared by the thread, so this
\* says that nothing changes the tags between the thread's read and its
\* write and that no request is accepted before the flag is cleared.
TagStoreRefined == Store!Spec

=============================================================================
