---------------------------- MODULE MC_UrlRouter ------------------------------
(* The PUT router of NodeService, in the order its constructor adds the    *)
(* routes (src/cmd/node/NodeService.cc:108-117), after split.              *)
EXTENDS UrlRouter

MCRoutes ==
  << <<"sessions", "modify">>,
     <<"node", "1", "sessions", "modify">>,
     <<"sessions", "*", "status">>,
     <<"node", "1", "sessions", "*", "status">>,
     <<"registration">>,
     <<"status">>,
     <<"node", "tags">> >>

MCWords == {"node", "1", "sessions", "modify", "status", "tags", "id", "*"}

=============================================================================
