------------------------------ MODULE AnyFlow ------------------------------
(***************************************************************************)
(* Loading and running, for every flow of a set: the cycle search and the  *)
(* load rules decide whether a flow is accepted, and an accepted flow is   *)
(* executed by the decision engine, each outcome of a step being decided   *)
(* and applied in one step (the interleavings of a real run are the        *)
(* Scheduler's).  What load-time validation is for can be seen here only:  *)
(* no accepted flow may lead the engine astray.                            *)
(***************************************************************************)
EXTENDS Naturals, Sequences, FiniteSets

CONSTANTS
  Flows,      \* the flows that may be loaded
  NoStep,
  MaxAttempt  \* bound: nothing fails or is rejected from this attempt on

\* Routes and needs name steps of the flow (validate.rs:89 and :100).  The ids of
\* the steps are numbers, in their order.
ASSUME AnyFlowAssumption ==
  /\ MaxAttempt \in Nat
  /\ \A f \in Flows :
       /\ IsFiniteSet(f.steps) /\ f.steps \subseteq Nat /\ NoStep \notin f.steps
       /\ {f.success, f.failure, f.approve, f.reject, f.needs} \subseteq [f.steps -> SUBSET f.steps]
       /\ f.human \subseteq f.steps

VARIABLES
  flow,   \* the flow that was read
  color,  \* find_cycle: the color of every step
  stack,  \* find_cycle: the path it is on
  cycle,  \* find_cycle: the path it returned
  stage,  \* searching, rejected, accepted or started
  rows,   \* the latest row of every step
  phase   \* runs.phase

search == <<color, stack, cycle>>
vars   == <<flow, color, stack, cycle, stage, rows, phase>>

E == INSTANCE FlowLoad WITH
       Steps <- flow.steps, OnSuccess <- flow.success, OnFailure <- flow.failure,
       OnApprove <- flow.approve, OnReject <- flow.reject, Needs <- flow.needs,
       HumanLoop <- flow.human, Retries <- [s \in flow.steps |-> 0], Subflows <- {},
       BadInput <- {}, AfterHooks <- {}, BeforeRunHooks <- FALSE, AfterRunHooks <- {}

-----------------------------------------------------------------------------
(* Loading. *)

\* Mutant: a step is done before all it leads to has been looked at.
BacktrackEarly ==
  /\ stage = "searching" /\ stack # <<>>
  /\ color' = [color EXCEPT ![stack[Len(stack)]] = "black"]
  /\ stack' = SubSeq(stack, 1, Len(stack) - 1)
  /\ UNCHANGED <<flow, cycle, stage, rows, phase>>

\* Mutant: the steps on the path are not marked.
VisitUnmarked(t) ==
  /\ stage = "searching"
  /\ E!IsNext(t, color, stack) /\ color[t] = "white"
  /\ stack' = Append(stack, t)
  /\ UNCHANGED <<flow, color, cycle, stage, rows, phase>>

Visit(t) ==
  /\ stage = "searching"
  /\ E!IsNext(t, color, stack) /\ color[t] = "white"
  /\ color' = [color EXCEPT ![t] = "grey"]
  /\ stack' = Append(stack, t)
  /\ UNCHANGED <<flow, cycle, stage, rows, phase>>

CloseCycle(t) ==
  /\ stage = "searching"
  /\ E!IsNext(t, color, stack) /\ color[t] = "grey"
  /\ cycle' = E!CyclePath(stack, t)
  /\ stage' = "rejected"
  /\ UNCHANGED <<flow, color, stack, rows, phase>>

Backtrack ==
  /\ stage = "searching" /\ stack # <<>>
  /\ E!Unfinished(color, stack) = {}
  /\ color' = [color EXCEPT ![stack[Len(stack)]] = "black"]
  /\ stack' = SubSeq(stack, 1, Len(stack) - 1)
  /\ UNCHANGED <<flow, cycle, stage, rows, phase>>

\* The graph has no cycle: the other rules decide.
Judge ==
  /\ stage = "searching" /\ stack = <<>>
  /\ E!Unfinished(color, stack) = {}
  /\ stage' = IF E!RulesHold THEN "accepted" ELSE "rejected"
  /\ UNCHANGED <<flow, search, rows, phase>>

-----------------------------------------------------------------------------
(* Running. *)

\* The rows the commands of a decision leave behind.
Applied(c) ==
  [s \in flow.steps |->
     LET marked == IF s = c.step THEN [rows[s] EXCEPT !.status = c.status]
                   ELSE IF s \in c.cancel THEN [rows[s] EXCEPT !.status = "cancelled"]
                   ELSE rows[s]
         starts == {a.attempt : a \in {a \in c.activate : a.step = s}}
     IN  IF starts = {} THEN marked
         ELSE [marked EXCEPT !.status = "running", !.attempt = CHOOSE n \in starts : TRUE]]

Execute(c) ==
  /\ rows' = Applied(c)
  /\ phase' = IF c.terminal = "none" THEN phase ELSE c.terminal
  /\ UNCHANGED <<flow, search>>

Start ==
  /\ stage = "accepted"
  /\ stage' = "started"
  /\ Execute(E!OnRunStarted(rows))

StepCompletes(s) ==
  /\ stage = "started" /\ phase = "running"
  /\ rows[s].status = "running"
  /\ Execute(E!OnStepCompleted(rows, s))
  /\ UNCHANGED stage

StepFails(s) ==
  /\ stage = "started" /\ phase = "running"
  /\ rows[s].status = "running" /\ rows[s].attempt < MaxAttempt
  /\ Execute(E!OnStepFailed(rows, s))
  /\ UNCHANGED stage

StepApproved(s) ==
  /\ stage = "started" /\ phase = "running"
  /\ rows[s].status = "waiting_approval"
  /\ Execute(E!OnStepApproved(rows, s))
  /\ UNCHANGED stage

StepRejected(s) ==
  /\ stage = "started" /\ phase = "running"
  /\ rows[s].status = "waiting_approval" /\ rows[s].attempt < MaxAttempt
  /\ Execute(E!OnStepRejected(rows, s))
  /\ UNCHANGED stage

Init ==
  /\ flow \in Flows
  /\ color = E!White /\ stack = <<>> /\ cycle = <<>>
  /\ stage = "searching"
  /\ rows = [s \in flow.steps |-> E!NoRow]
  /\ phase = "running"

Next ==
  \/ \E t \in flow.steps : Visit(t) \/ CloseCycle(t)
  \/ Backtrack
  \/ Judge
  \/ Start
  \/ \E s \in flow.steps : StepCompletes(s) \/ StepFails(s) \/ StepApproved(s) \/ StepRejected(s)

Spec == Init /\ [][Next]_vars

-----------------------------------------------------------------------------
(* Properties. *)

\* The type of every variable; the path the search is on is the grey steps.
TypeOK ==
  /\ color \in [flow.steps -> {"white", "grey", "black"}]
  /\ Len(stack) = Cardinality({s \in flow.steps : color[s] = "grey"})
  /\ \A i \in DOMAIN stack : color[stack[i]] = "grey"
  /\ \A i \in DOMAIN cycle : cycle[i] \in flow.steps
  /\ stage \in {"searching", "rejected", "accepted", "started"}
  /\ rows \in [flow.steps -> E!Row]
  /\ phase \in E!RunPhase

\* A set of steps each of which leads to another of them: a cycle.
Cyclic(targets(_)) ==
  \E C \in (SUBSET flow.steps) \ {{}} : \A s \in C : targets(s) \cap C # {}

\* find_cycle is exact: it returns a path along edges that ends where it began
\* if there is a cycle at all.
SearchIsExact ==
  /\ stage # "searching" => (cycle # <<>> <=> Cyclic(E!ForwardTargets))
  /\ cycle # <<>> =>
       /\ cycle[1] = cycle[Len(cycle)] /\ Len(cycle) > 1
       /\ \A i \in 1 .. Len(cycle) - 1 : cycle[i + 1] \in E!ForwardTargets(cycle[i])

Loops == Cyclic(E!RoutingTargets)

\* flowspec-spec.md:375 "Implicit joins are not allowed": in an accepted flow
\* without retry loops a step is started once, however many routes lead to it;
\* only a step that is rejected and routes that to itself runs again.
RunsOnce ==
  stage = "started" /\ ~Loops =>
    \A s \in flow.steps : rows[s].attempt <= 1 \/ E!IsSelfRejectLoop(s)

\* flowspec-spec.md:367: a step with needs "does not start until all [...]
\* predecessors have completed successfully".
JoinWaits ==
  [][\A s \in flow.steps : rows'[s].attempt > rows[s].attempt =>
       \A n \in flow.needs[s] : rows'[n].status = "completed"]_vars

\* An accepted flow that has started has something to wait for until it ends.
NeverStalls == stage = "started" /\ phase = "running" => E!ActiveSteps(rows) # {}

\* validate.rs:259 "Steps guaranteed to have completed before `step_id`
\* activates": they have all finished when it does, in a flow without loops.
GuaranteeHolds ==
  stage = "started" /\ ~Loops =>
    \A s \in flow.steps : rows[s].attempt > 0 =>
      \A t \in E!GuaranteedPredecessors(s) : rows[t].status \in E!Terminal

=============================================================================
