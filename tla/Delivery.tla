------------------------------- MODULE Delivery -------------------------------
(***************************************************************************)
(* What the routers promise one session's senders, whatever path an        *)
(* envelope takes: each envelope is addressed to a set of destinations,    *)
(* and each of them is resolved at most once, by handing it the envelope   *)
(* or by failing it.  Nothing is handed to a destination it was not        *)
(* addressed to, and nothing once resolved is resolved again.  A step may  *)
(* resolve destinations of several envelopes (a closing connection takes   *)
(* everything queued on it), and sending may resolve some of the new       *)
(* envelope's destinations at once (local delivery on the sender's node).  *)
(***************************************************************************)
EXTENDS Naturals, Sequences, Bags

CONSTANTS Dests, MaxEnvs

VARIABLES
  sent,       \* sent[e]: the destinations envelope e was addressed to
  delivered,  \* bag of [e, d]: e handed to d
  failed      \* set of [e, d]: e will never reach d

vars == <<sent, delivered, failed>>

Pairs(e, D) == {[e |-> e, d |-> d] : d \in D}

\* The destinations of sent envelopes not yet resolved.
Outstanding == UNION {Pairs(e, sent[e]) : e \in 1..Len(sent)} \
                 (BagToSet(delivered) \cup failed)

Init == sent = <<>> /\ delivered = EmptyBag /\ failed = {}

\* The pairs a step resolves: each of P at most once, by delivery or by
\* failure, and nothing resolved before is taken back.
Fresh(B) == BagToSet(B (-) delivered)

Resolves(P) ==
  /\ delivered \sqsubseteq delivered' /\ failed \subseteq failed'
  /\ delivered' (-) delivered = [x \in Fresh(delivered') |-> 1]
  /\ Fresh(delivered') \cup (failed' \ failed) \subseteq P
  /\ Fresh(delivered') \cap (failed' \ failed) = {}

SendEnv(D) ==
  /\ Len(sent) < MaxEnvs
  /\ sent' = Append(sent, D)
  /\ Resolves(Pairs(Len(sent) + 1, D))

Serve ==
  /\ sent' = sent
  /\ Resolves(Outstanding)

Next == (\E D \in SUBSET Dests : SendEnv(D)) \/ Serve

Spec == Init /\ [][Next]_vars

=============================================================================
