------------------------------ MODULE UrlRouter -------------------------------
(***************************************************************************)
(* The HTTP path router of NodeService (src/cmd/node/UrlRouter.cc).        *)
(*                                                                         *)
(* A UrlRouter is a tree of Nodes, one per path element.  add splits a     *)
(* path at '/' and descends, creating a constant child per element, or the *)
(* single variable child for "*", and attaches the handler to the last     *)
(* node.  handle splits the request path and descends: a constant child    *)
(* that matches the element is taken, otherwise the variable child binds   *)
(* the element; there is no backtracking.  A node is identified here by    *)
(* the sequence of elements (with "*" for a variable child) leading to it. *)
(*                                                                         *)
(* NodeService's constructor adds the routes one by one; afterwards each   *)
(* request path is looked up in the finished tree.                         *)
(***************************************************************************)
EXTENDS Naturals, Sequences, SequencesExt

CONSTANTS
  Routes,    \* the routes of one method, split, in the order they are added
  Words,     \* path elements requests are made of
  Id,        \* an element of Words standing for a session or tag UUID
  MaxDepth,  \* bound on the number of elements of a request path
  Chars,     \* characters of the strings split is checked on, "/" included
  MaxChars   \* bound on the length of those strings

ASSUME Id \in Words /\ "/" \in Chars

\* Handler id of a node without a handler.
NoHandler == 0

VARIABLES
  trie,    \* [nodes: the nodes, hdl: node -> index of its route in Routes]
  added,   \* number of routes added so far
  req,     \* elements of the last request path
  res      \* what handle returned for it

vars == <<trie, added, req, res>>

-----------------------------------------------------------------------------
(* split                                                                   *)

\* find_first_not_of('/'): the string from its first non-slash character.
RECURSIVE SkipSlashes(_)
SkipSlashes(s) ==
  IF s # <<>> /\ Head(s) = "/" THEN SkipSlashes(Tail(s)) ELSE s

\* Mutant: substr(pos, next - pos + 1) keeps the slash in the element.
ElementEndPastSlash(r) ==
  IF \E i \in 1..Len(r) : r[i] = "/"
    THEN 1 + (CHOOSE i \in 1..Len(r) : r[i] = "/" /\ \A j \in 1..i-1 : r[j] # "/")
    ELSE Len(r) + 1

\* find_first_of('/', pos): where the element that starts r ends.
ElementEnd(r) ==
  IF \E i \in 1..Len(r) : r[i] = "/"
    THEN CHOOSE i \in 1..Len(r) : r[i] = "/" /\ \A j \in 1..i-1 : r[j] # "/"
    ELSE Len(r) + 1

\* urlrouter::split: the elements between slashes, ignoring leading,
\* trailing and repeated slashes.
RECURSIVE Split(_)
Split(s) ==
  LET r == SkipSlashes(s)
      n == ElementEnd(r)
  IN IF r = <<>> THEN <<>>
     ELSE <<SubSeq(r, 1, n - 1)>> \o Split(SubSeq(r, n, Len(r)))

-----------------------------------------------------------------------------
(* Node::add and Node::handle                                              *)

\* Mutant: mConstants[element] = p replaces an existing child (and the
\* routes below it) instead of emplace keeping it.
WithChildReplacing(t, n) ==
  LET kept == {m \in t.nodes : ~IsStrictPrefix(n, m)}
  IN [nodes |-> kept \cup {n},
      hdl |-> [m \in kept \cup {n} |-> IF m = n THEN NoHandler ELSE t.hdl[m]]]

\* emplace(element, new Node) / make_shared for mVariable: the child is
\* created only if it does not exist yet.
WithChild(t, n) ==
  IF n \in t.nodes THEN t
  ELSE [nodes |-> t.nodes \cup {n}, hdl |-> t.hdl @@ (n :> NoHandler)]

\* Mutant: add descends to the last element without creating the nodes
\* on the way, only the one that gets the handler.
RECURSIVE AddAtLeafOnly(_, _, _, _, _)
AddAtLeafOnly(t, els, i, node, h) ==
  IF i > Len(els)
    THEN [nodes |-> t.nodes \cup {node},
          hdl |-> [m \in t.nodes \cup {node} |-> IF m = node THEN h ELSE t.hdl[m]]]
    ELSE AddAtLeafOnly(t, els, i + 1, Append(node, els[i]), h)

\* Node::add: descend from node along els[i..], creating children, and set
\* mHandler of the last node.
RECURSIVE AddAt(_, _, _, _, _)
AddAt(t, els, i, node, h) ==
  IF i > Len(els)
    THEN [t EXCEPT !.hdl[node] = h]
    ELSE LET child == Append(node, els[i])
         IN AddAt(WithChild(t, child), els, i + 1, child, h)

NotFound == [ok |-> FALSE, h |-> NoHandler, vars |-> <<>>]

\* Mutant: the end of the path counts as handled without a handler.
FoundIgnoringHandler(t, node, variables) ==
  [ok |-> TRUE, h |-> t.hdl[node], vars |-> variables]

\* The end of the path: call mHandler if the node has one.
Found(t, node, variables) ==
  IF t.hdl[node] # NoHandler THEN [ok |-> TRUE, h |-> t.hdl[node], vars |-> variables]
  ELSE NotFound

\* Node::handle: the constant child first; else the variable child, whose
\* element is appended to params.variables; else not handled.
RECURSIVE HandleAt(_, _, _, _, _)
HandleAt(t, els, i, node, variables) ==
  IF i > Len(els) THEN Found(t, node, variables)
  ELSE LET e == els[i]
       IN IF e # "*" /\ Append(node, e) \in t.nodes
            THEN HandleAt(t, els, i + 1, Append(node, e), variables)
          ELSE IF Append(node, "*") \in t.nodes
            THEN HandleAt(t, els, i + 1, Append(node, "*"), Append(variables, e))
          ELSE NotFound

-----------------------------------------------------------------------------

Init ==
  /\ trie = [nodes |-> {<<>>}, hdl |-> (<<>> :> NoHandler)]
  /\ added = 0
  /\ req = <<>>
  /\ res = NotFound

\* UrlRouter::add of the next route in NodeService's constructor.
AddRoute ==
  /\ added < Len(Routes)
  /\ trie' = AddAt(trie, Routes[added + 1], 1, <<>>, added + 1)
  /\ added' = added + 1
  /\ UNCHANGED <<req, res>>

\* UrlRouter::handle of a request path once the router is built.
Request ==
  /\ added = Len(Routes)
  /\ \E p \in BoundedSeq(Words, MaxDepth) :
       /\ req' = p
       /\ res' = HandleAt(trie, p, 1, <<>>, <<>>)
  /\ UNCHANGED <<trie, added>>

Next == AddRoute \/ Request

Spec == Init /\ [][Next]_vars

-----------------------------------------------------------------------------
(* Reference definitions and properties                                    *)

\* A route matches a path when every element is equal or the route's "*".
Matches(r, p) ==
  Len(r) = Len(p) /\ \A i \in 1..Len(r) : r[i] = "*" \/ r[i] = p[i]

\* The elements of p at the "*" positions of r, in order.
Bound(r, p) ==
  LET idx == SetToSortSeq({i \in 1..Len(r) : r[i] = "*"}, <)
  IN [k \in 1..Len(idx) |-> p[idx[k]]]

\* p matches r with a UUID at every "*".
IdMatch(r, p) == Matches(r, p) /\ \A i \in 1..Len(r) : r[i] = "*" => p[i] = Id

\* The maximal runs of non-slash characters of s, in order.
RefSplit(s) ==
  LET starts == SetToSortSeq({i \in 1..Len(s) : s[i] # "/" /\ (i = 1 \/ s[i-1] = "/")}, <)
      stop(i) == CHOOSE j \in i..Len(s) :
                   /\ \A k \in i..j : s[k] # "/"
                   /\ (j = Len(s) \/ s[j+1] = "/")
  IN [k \in 1..Len(starts) |-> SubSeq(s, starts[k], stop(starts[k]))]

\* The tree is well formed: every prefix of a node is a node, and every
\* node's handler is one of the routes or none.
TypeOK ==
  /\ added \in 0..Len(Routes)
  /\ \A n \in trie.nodes : \A k \in 0..Len(n) : SubSeq(n, 1, k) \in trie.nodes
  /\ trie.hdl \in [trie.nodes -> 0..Len(Routes)]
  /\ Len(req) <= MaxDepth /\ \A i \in 1..Len(req) : req[i] \in Words

\* A request is only ever dispatched to a route that matches its path, with
\* the route's variables bound to the path's elements at the "*" positions.
HandleSound ==
  res.ok => /\ res.h \in 1..Len(Routes)
            /\ Matches(Routes[res.h], req)
            /\ res.vars = Bound(Routes[res.h], req)

\* A request whose path matches a route, with UUIDs where the route has
\* "*", is handled (none falls through to the unmapped handler).
HandleFindsIdRoutes ==
  added = Len(Routes) /\ (\E k \in 1..Len(Routes) : IdMatch(Routes[k], req))
    => res.ok

\* As the spec describes the router: "*" matches any single element, so a
\* path that matches some route is handled.
HandleFindsRoutes ==
  added = Len(Routes) /\ (\E k \in 1..Len(Routes) : Matches(Routes[k], req))
    => res.ok

\* Once the router serves requests, the split that handle applies to each
\* request URL agrees with the reference on every string up to MaxChars:
\* leading, trailing and repeated slashes are dropped and the element at
\* the end of the string is kept.
SplitCorrect ==
  added = Len(Routes) =>
    \A s \in BoundedSeq(Chars, MaxChars) : Split(s) = RefSplit(s)

=============================================================================
