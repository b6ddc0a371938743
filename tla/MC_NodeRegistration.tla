------------------------ MODULE MC_NodeRegistration -------------------------
(* Two HTTP workers and three tag requests: setting exclusive_user,        *)
(* setting over_subscribe (valid only with exclusive_user) and deleting    *)
(* exclusive_user (refused while over_subscribe is set).                   *)
EXTENDS NodeRegistration

CONSTANTS h1, h2

MCHandlers == {h1, h2}
MCRequests ==
  {[kind |-> "update", tags |-> {"exclusive_user"}],
   [kind |-> "update", tags |-> {"over_subscribe"}],
   [kind |-> "delete", tags |-> {"exclusive_user"}]}
=============================================================================
