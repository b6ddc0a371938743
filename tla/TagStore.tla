------------------------------ MODULE TagStore --------------------------------
(***************************************************************************)
(* What the node promises about its tags (spec section 4.H: "the node's   *)
(* nodeInfo is guarded by a mutex and an updating flag; tag updates are    *)
(* serialized"; PUT /node/tags answers 409 while an update runs and 400    *)
(* for an invalid combination).                                            *)
(*                                                                         *)
(* A request is accepted only when no update is running and its result    *)
(* is valid; the accepted request is then applied to the tags in one       *)
(* step, and only after that is the store free for the next request.      *)
(* How a request changes the tags and which sets are valid are parameters, *)
(* so that the node's own merge and validation can be put in.             *)
(***************************************************************************)

CONSTANTS
  Requests,    \* the tag requests that can be made
  InitialTags, \* the tags the store starts with
  Merge(_, _), \* the tags after a request is applied to the current ones
  Valid(_),    \* the tag sets the store may hold
  NoRequest    \* no request accepted and not yet applied

ASSUME NoRequest \notin Requests

VARIABLES
  tags,     \* the tags the node advertises
  busy,     \* an update is running: requests are refused
  pending   \* the accepted request not applied yet, or NoRequest

vars == <<tags, busy, pending>>

Init ==
  /\ tags = InitialTags
  /\ busy = FALSE
  /\ pending = NoRequest

\* A request is accepted: no update runs and its result is valid.
Accept(r) ==
  /\ ~busy
  /\ Valid(Merge(tags, r))
  /\ busy' = TRUE
  /\ pending' = r
  /\ UNCHANGED tags

\* The accepted request takes effect, all at once.
Apply ==
  /\ pending # NoRequest
  /\ tags' = IF Valid(Merge(tags, pending)) THEN Merge(tags, pending) ELSE tags
  /\ pending' = NoRequest
  /\ UNCHANGED busy

\* The update ends and the store takes requests again.
Release ==
  /\ busy /\ pending = NoRequest
  /\ busy' = FALSE
  /\ UNCHANGED <<tags, pending>>

Next == (\E r \in Requests : Accept(r)) \/ Apply \/ Release

Spec == Init /\ [][Next]_vars

=============================================================================
