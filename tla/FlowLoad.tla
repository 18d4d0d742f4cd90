------------------------------ MODULE FlowLoad ------------------------------
(***************************************************************************)
(* The load-time rules of crates/flowspec-domain: flow/validate.rs and the *)
(* graph functions of flow/dag.rs they use, for the flow given by the      *)
(* constants of FlowEngine.  Rules about text (field shapes, template      *)
(* syntax, output references, names) are left out; which steps a template  *)
(* may refer to is GuaranteedPredecessors.                                 *)
(***************************************************************************)
EXTENDS FlowEngine, Sequences

Fields == {"on_success", "on_failure", "on_approve", "on_reject"}

Targets(f) == CASE f = "on_success" -> OnSuccess [] f = "on_failure" -> OnFailure
                [] f = "on_approve" -> OnApprove [] f = "on_reject" -> OnReject

-----------------------------------------------------------------------------
(* dag.rs *)

\* steps_with_incoming_edges: one entry per source and field, so that a source
\* that routes to t in two ways counts twice.  (So would one whose list names t
\* twice in one field; lists without repetition are assumed, see FlowEngine.)
IncomingEdges(t) == {e \in Steps \X Fields : t \in Targets(e[2])[e[1]] \ SelfLoop(e[1])}
Sources(t)       == {e[1] : e \in IncomingEdges(t)}

\* find_cycle: a depth-first search.  White steps are unseen, the grey ones are
\* on the stack, the black ones are done.
White == [s \in Steps |-> "white"]

\* Where the search looks: below the top of the stack, or for a new root.
Unfinished(color, stack) ==
  {t \in IF stack = <<>> THEN Steps ELSE ForwardTargets(stack[Len(stack)]) : color[t] # "black"}

\* It takes the steps in the order of their ids, here numbers.
IsNext(t, color, stack) ==
  t \in Unfinished(color, stack) /\ \A u \in Unfinished(color, stack) : t <= u

\* The path find_cycle returns.
CyclePath(stack, t) ==
  LET start == CHOOSE i \in DOMAIN stack : stack[i] = t
  IN  SubSeq(stack, start, Len(stack)) \o <<t>>

-----------------------------------------------------------------------------
(* validate.rs *)

ExactlyOneEntryStep == Steps # {} => Cardinality(EntrySteps) = 1

\* Mutant: a second source needs no join.
MultiTargetNeedsLate == \A t \in Steps : Cardinality(IncomingEdges(t)) > 2 => Needs[t] # {}

MultiTargetNeeds == \A t \in Steps : Cardinality(IncomingEdges(t)) > 1 => Needs[t] # {}

NeedsMatchesSources == \A t \in Steps : Needs[t] \subseteq Sources(t)

\* Of the two directions of the rule the one that a route to "done" cannot be
\* mistaken for.
HumanLoopRoutingPairs == \A s \in Steps \ HumanLoop : OnApprove[s] = {} /\ OnReject[s] = {}

\* What leads to t for certain: its only edge, or else its needs.
Predecessors(t) == IF Cardinality(IncomingEdges(t)) = 1 THEN Sources(t) ELSE Needs[t]

\* guaranteed_predecessors: everything found going backwards from s, the least
\* set that has the predecessors of s and of all its elements.
GuaranteedPredecessors(s) ==
  LET closed == {D \in SUBSET Steps : \A t \in D \cup {s} : Predecessors(t) \subseteq D}
  IN  {t \in Steps : \A D \in closed : t \in D}

\* validate, for a flow without a cycle.
RulesHold ==
  /\ ExactlyOneEntryStep
  /\ MultiTargetNeeds
  /\ NeedsMatchesSources
  /\ HumanLoopRoutingPairs

=============================================================================
