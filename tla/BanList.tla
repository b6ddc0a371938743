------------------------------- MODULE BanList --------------------------------
(***************************************************************************)
(* The ban list of NodeService's GET router (src/cmd/node/BanList.cc and   *)
(* UrlRouter::handle).                                                     *)
(*                                                                         *)
(* Every GET first calls isBanned for its client address under the ban     *)
(* list's mutex: a banned address is answered 429.  Otherwise the request  *)
(* is routed; a path with no route goes to GET_unhandled, which answers    *)
(* 404, and handle then calls track, a second critical section.  GET       *)
(* node/1/status calls getSummary, whose cleanup erases expired entries.   *)
(* An entry holds a count and the time of the latest track (or of the      *)
(* request that started the ban); it expires SecToUnBan after that time.   *)
(* HTTP worker threads run requests concurrently.                          *)
(***************************************************************************)
EXTENDS Integers, Sequences, FiniteSets

CONSTANTS
  Addrs,        \* client addresses
  Workers,      \* HTTP server worker threads
  CountToBan,   \* BanList::mCountToBan
  SecToUnBan,   \* BanList::mSecToUnBan, in clock ticks
  MaxTime,      \* bound on the clock
  MaxRequests   \* bound on the number of GET requests

ASSUME CountToBan \in Nat \ {0} /\ SecToUnBan \in Nat

\* An address with no entry in mBanListMap.
Absent == [count |-> 0, timeStamp |-> 0]

\* What a GET path is, as far as the ban list is concerned: routed to a
\* handler, routed to GET_status, or unrouted.
Kinds == {"mapped", "status", "unmapped"}

VARIABLES
  now,      \* std::chrono::system_clock::now()
  banMap,   \* mBanListMap: address -> entry, Absent if none
  wk,       \* wk[w]: [pc, addr] of HTTP worker w
  sent,     \* number of requests so far
  tracks,   \* tracks[a]: times of the track calls for a (history)
  verdict   \* the latest isBanned: [addr, t, banned, recent, lastTrack]

vars == <<now, banMap, wk, sent, tracks, verdict>>

-----------------------------------------------------------------------------

\* hasExpired: system_clock::now() - timeStamp > mSecToUnBan.
HasExpiredEarly(e) == now - e.timeStamp >= SecToUnBan

HasExpired(e) == now - e.timeStamp > SecToUnBan

\* Number of tracks of a within the last SecToUnBan ticks, and the latest.
Recent(a) == Cardinality({i \in 1..Len(tracks[a]) : now - tracks[a][i] <= SecToUnBan})
LastTrack(a) == IF tracks[a] = <<>> THEN -1 ELSE tracks[a][Len(tracks[a])]

\* Mutant: every banned request refreshes the timestamp, not only the one
\* that starts the ban.
IsBannedRefreshAlways(a) ==
  LET e == banMap[a] IN
  IF e = Absent THEN [m |-> banMap, banned |-> FALSE]
  ELSE IF HasExpired(e) THEN [m |-> [banMap EXCEPT ![a] = Absent], banned |-> FALSE]
  ELSE LET c == IF e.count = CountToBan THEN e.count + 1 ELSE e.count
           e2 == IF c >= CountToBan THEN [count |-> c, timeStamp |-> now] ELSE e
       IN [m |-> [banMap EXCEPT ![a] = e2], banned |-> c >= CountToBan]

\* BanList::isBanned: the new map and the answer.  An expired entry is
\* erased; the request that finds count = mCountToBan bumps the count and
\* restarts the timestamp.
IsBanned(a) ==
  LET e == banMap[a] IN
  IF e = Absent THEN [m |-> banMap, banned |-> FALSE]
  ELSE IF HasExpired(e) THEN [m |-> [banMap EXCEPT ![a] = Absent], banned |-> FALSE]
  ELSE LET e2 == IF e.count = CountToBan
                   THEN [count |-> e.count + 1, timeStamp |-> now] ELSE e
       IN [m |-> [banMap EXCEPT ![a] = e2], banned |-> e2.count >= CountToBan]

\* Mutant: emplace(sourceAddr, 0): a new entry starts at count 0.
TrackFromZero(m, a) ==
  [m EXCEPT ![a] = IF @ = Absent THEN [count |-> 0, timeStamp |-> now]
                   ELSE [count |-> @.count + 1, timeStamp |-> now]]

\* BanList::track: insert with count 1, or count++ and timeStamp = now.
Track(m, a) ==
  [m EXCEPT ![a] = IF @ = Absent THEN [count |-> 1, timeStamp |-> now]
                   ELSE [count |-> @.count + 1, timeStamp |-> now]]

\* BanList::cleanup: erase every expired entry.
Cleanup(m) == [a \in Addrs |-> IF m[a] # Absent /\ HasExpired(m[a]) THEN Absent ELSE m[a]]

-----------------------------------------------------------------------------

Init ==
  /\ now = 0
  /\ banMap = [a \in Addrs |-> Absent]
  /\ wk = [w \in Workers |-> [pc |-> "idle", addr |-> CHOOSE a \in Addrs : TRUE]]
  /\ sent = 0
  /\ tracks = [a \in Addrs |-> <<>>]
  /\ verdict = [addr |-> CHOOSE a \in Addrs : TRUE, t |-> 0, banned |-> FALSE,
                recent |-> 0, lastTrack |-> -1]

\* The wall clock advances.
Tick ==
  /\ now < MaxTime
  /\ now' = now + 1
  /\ UNCHANGED <<banMap, wk, sent, tracks, verdict>>

\* UrlRouter::handle up to the route lookup: isBanned, then 429, or the
\* route's handler, or GET_unhandled's 404 followed by a call of track.
Request(w, a, k) ==
  /\ wk[w].pc = "idle" /\ sent < MaxRequests
  /\ LET r == IsBanned(a) IN
     /\ banMap' = r.m
     /\ verdict' = [addr |-> a, t |-> now, banned |-> r.banned,
                    recent |-> Recent(a), lastTrack |-> LastTrack(a)]
     /\ wk' = [wk EXCEPT ![w] =
                 [pc |-> IF r.banned \/ k = "mapped" THEN "idle"
                         ELSE IF k = "status" THEN "summary" ELSE "track",
                  addr |-> a]]
  /\ sent' = sent + 1
  /\ UNCHANGED <<now, tracks>>

\* After a 404 from the unmapped handler: mBanList->track(clientAddress).
TrackCall(w) ==
  /\ wk[w].pc = "track"
  /\ banMap' = Track(banMap, wk[w].addr)
  /\ tracks' = [tracks EXCEPT ![wk[w].addr] = Append(@, now)]
  /\ wk' = [wk EXCEPT ![w].pc = "idle"]
  /\ UNCHANGED <<now, sent, verdict>>

\* GET_status: checkHealth, then getSummary, which runs cleanup; when the
\* health check throws, getSummary is not reached.
Summary(w) ==
  /\ wk[w].pc = "summary"
  /\ \/ banMap' = Cleanup(banMap)
     \/ UNCHANGED banMap
  /\ wk' = [wk EXCEPT ![w].pc = "idle"]
  /\ UNCHANGED <<now, sent, tracks, verdict>>

\* The bounds are reached and every worker is idle.
Done ==
  /\ now = MaxTime /\ sent = MaxRequests
  /\ \A w \in Workers : wk[w].pc = "idle"
  /\ UNCHANGED vars

Next ==
  \/ Tick \/ Done
  \/ \E w \in Workers :
       \/ TrackCall(w) \/ Summary(w)
       \/ \E a \in Addrs, k \in Kinds : Request(w, a, k)

Spec == Init /\ [][Next]_vars

-----------------------------------------------------------------------------
(* Properties                                                              *)

\* Every entry in the map has been tracked at least once, at a time that
\* has passed.
TypeOK ==
  /\ now \in 0..MaxTime /\ sent \in 0..MaxRequests
  /\ \A a \in Addrs : banMap[a] = Absent \/
        (banMap[a].count \in 1..MaxRequests + 1 /\ banMap[a].timeStamp \in 0..now)
  /\ \A w \in Workers : wk[w].pc \in {"idle", "track", "summary"} /\ wk[w].addr \in Addrs

\* P7: an address with CountToBan 404s tracked within the last SecToUnBan
\* is refused by isBanned, whatever the interleaving of the workers'
\* isBanned and track calls and of cleanup.
BanAfterThreshold ==
  verdict.recent >= CountToBan => verdict.banned

\* A ban ends: isBanned refuses an address only within two windows of its
\* latest 404 (one window to the request that starts the ban, one more
\* from there), however often the address keeps asking.
BanClears ==
  verdict.banned => verdict.t - verdict.lastTrack <= 2 * SecToUnBan

\* As the spec describes it: an address is refused only when it has at
\* least CountToBan 404s within the sliding window.
BanWithinWindow ==
  verdict.banned => verdict.recent >= CountToBan

=============================================================================
