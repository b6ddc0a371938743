----------------------------- MODULE MC_RoutingNet ----------------------------
(* Three nodes; the entry node 2 hosts a, node 3 hosts b, and a modify    *)
(* adds c on node 1, the least id.  Two envelopes.                       *)
EXTENDS RoutingNet

CONSTANTS a, b, c

MCNodes == {1, 2, 3}
MCComps == {a, b, c}
MCHost == (a :> 2) @@ (b :> 3) @@ (c :> 1)

=============================================================================
