---------------------------- MODULE MC_PeerRegistry ---------------------------
(* Two computations routing two envelopes each to a client that connects *)
(* twice, with one kick from the agent.                                  *)
EXTENDS PeerRegistry

CONSTANTS c1, c2

MCSources == {c1, c2}

=============================================================================
