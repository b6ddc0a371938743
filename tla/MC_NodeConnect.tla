---------------------------- MODULE MC_NodeConnect ----------------------------
(* Two routers whose node ids are 1 and 2. *)
EXTENDS NodeConnect

MCNodes == {1, 2}

=============================================================================
