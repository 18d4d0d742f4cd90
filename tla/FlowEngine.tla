----------------------------- MODULE FlowEngine -----------------------------
(***************************************************************************)
(* The pure decision engine of crates/flowspec-domain: run/engine.rs,      *)
(* run/derive.rs and the part of flow/dag.rs the engine calls.  Given one  *)
(* flow, the latest row of every step and an event, decide returns the     *)
(* commands the scheduler has to execute: one operator On... per event.    *)
(*                                                                         *)
(* A command list always has the shape                                     *)
(*     [RunHooks] [MarkStepStatus] [CancelSteps] activations               *)
(* or  [RunHooks] [MarkStepStatus] [CancelSteps] [RunHooks] MarkRunTerminal*)
(* and is kept as a record with one field per command.  The order in which *)
(* a flow lists the targets of a route is abstracted to a set: no route    *)
(* names a step twice.                                                     *)
(***************************************************************************)
EXTENDS Naturals, FiniteSets

CONSTANTS
  Steps,          \* ids of the steps of the flow
  NoStep,         \* stands for "no step" in events and commands
  OnSuccess,      \* [Steps -> SUBSET Steps]: the routes, "done" left out
  OnFailure,
  OnApprove,
  OnReject,
  Needs,          \* [Steps -> SUBSET Steps]: the needs: gates
  Retries,        \* [Steps -> Nat]
  HumanLoop,      \* steps with human_loop: true
  Subflows,       \* steps of type subflow
  BadInput,       \* steps whose input template cannot be resolved
  AfterHooks,     \* steps with a non-empty after: list
  BeforeRunHooks, \* whether the flow has before_run hooks
  AfterRunHooks   \* the terminal phases some after_run hook is due for

Terminal       == {"completed", "failed", "failed_rejected", "cancelled"}
Active         == {"running", "waiting_approval"}
Status         == Terminal \cup Active
TerminalPhases == {"completed", "failed", "cancelled"}
RunPhase       == {"running"} \cup TerminalPhases

ASSUME FlowAssumption ==
  /\ NoStep \notin Steps
  /\ IsFiniteSet(Steps)
  /\ OnSuccess \in [Steps -> SUBSET Steps]
  /\ OnFailure \in [Steps -> SUBSET Steps]
  /\ OnApprove \in [Steps -> SUBSET Steps]
  /\ OnReject \in [Steps -> SUBSET Steps]
  /\ Needs \in [Steps -> SUBSET Steps]
  /\ Retries \in [Steps -> Nat]
  /\ HumanLoop \subseteq Steps
  /\ Subflows \subseteq Steps
  /\ BadInput \subseteq Steps \ Subflows
  /\ AfterHooks \subseteq Steps
  /\ BeforeRunHooks \in BOOLEAN
  /\ AfterRunHooks \subseteq TerminalPhases

\* The latest step_runs row of a step; a step without a row has attempt 0.
Row   == [status : Status \cup {"none"}, attempt : Nat, job : BOOLEAN]
NoRow == [status |-> "none", attempt |-> 0, job |-> FALSE]

-----------------------------------------------------------------------------
(* dag.rs *)

IsSelfRejectLoop(s) == OnReject[s] = {s}

\* The edge of a self-reject loop; a step that has one never counts as its own target.
SelfLoop(s) == IF IsSelfRejectLoop(s) THEN {s} ELSE {}

ForwardTargets(s) == (OnSuccess[s] \cup OnApprove[s] \cup OnReject[s]) \ SelfLoop(s)

RoutingTargets(s) == ForwardTargets(s) \cup (OnFailure[s] \ SelfLoop(s))

\* Steps nothing routes to; if there are none, those only a failure routes to.
EntrySteps ==
  LET strict == {s \in Steps : \A t \in Steps : s \notin RoutingTargets(t)}
  IN  IF strict # {} THEN strict
      ELSE {s \in Steps : \A t \in Steps : s \notin ForwardTargets(t)}

-----------------------------------------------------------------------------
(* derive.rs: the run phase and the active steps of a set of rows.  The    *)
(* engine only sees running runs, whose cancelled flag is never set: the   *)
(* branch of derive::phase that needs it is left out.                      *)

ActiveSteps(r) == {s \in Steps : r[s].status \in Active}

\* Mutant: a completed step decides before a failed one.
DerivedCompletedFirst(r) ==
  IF ActiveSteps(r) # {} THEN "running"
  ELSE IF \E s \in Steps : r[s].status = "completed" THEN "completed"
  ELSE IF \E s \in Steps : r[s].status \in {"failed", "failed_rejected"} THEN "failed"
  ELSE "cancelled"

DerivedPhase(r) ==
  IF ActiveSteps(r) # {} THEN "running"
  ELSE IF \E s \in Steps : r[s].status \in {"failed", "failed_rejected"} THEN "failed"
  ELSE IF \E s \in Steps : r[s].status = "cancelled" THEN "cancelled"
  ELSE "completed"

-----------------------------------------------------------------------------
(* engine.rs *)

Activation == [step : Steps, attempt : Nat]

Commands ==
  [ gate     : {"none", "before_run", "after_step"}, \* leading RunHooks
    step     : Steps \cup {NoStep},                  \* MarkStepStatus
    status   : Status \cup {"none"},
    cancel   : SUBSET Steps,                         \* CancelSteps
    activate : SUBSET Activation,                    \* ActivateSteps
    children : SUBSET Steps,                         \* StartChildRun
    audit    : BOOLEAN,                              \* RunHooks(AfterRun)
    terminal : TerminalPhases \cup {"none"},         \* MarkRunTerminal
    error    : BOOLEAN ]                             \* decide returned Err

NoCommands ==
  [ gate |-> "none", step |-> NoStep, status |-> "none", cancel |-> {},
    activate |-> {}, children |-> {}, audit |-> FALSE, terminal |-> "none",
    error |-> FALSE ]

\* The commands that mark a step, cancel steps and run hooks first.
Mark(s, st)        == [NoCommands EXCEPT !.step = s, !.status = st]
Cancel(c, steps)   == [c EXCEPT !.cancel = steps]
RunHooks(c, gate)  == [c EXCEPT !.gate = gate]

SetStatus(r, s, st) == [r EXCEPT ![s].status = st]

\* Mutant: any completed predecessor opens the gate.
AnyNeedSatisfied(r, s) == Needs[s] # {} => \E n \in Needs[s] : r[n].status = "completed"

NeedsSatisfied(r, s) == \A n \in Needs[s] : r[n].status = "completed"

Ready(r, targets) == {t \in targets : NeedsSatisfied(r, t)}

\* Mutant: the attempt counter is not advanced.
LaunchSameAttempt(c, r, ready) ==
  [c EXCEPT !.activate = {[step |-> s, attempt |-> r[s].attempt] : s \in ready \ Subflows},
            !.children = ready \cap Subflows,
            !.error    = ready \cap BadInput # {}]

\* The activation commands of a set of steps; one unresolvable input makes
\* the whole decision an error.
Launch(c, r, ready) ==
  [c EXCEPT !.activate = {[step |-> s, attempt |-> r[s].attempt + 1] : s \in ready \ Subflows},
            !.children = ready \cap Subflows,
            !.error    = ready \cap BadInput # {}]

\* Mutant: a run is ended with steps still active.
TerminalUnchecked(c, r) == [c EXCEPT !.terminal = DerivedPhase(r)]

TerminalIfDone(c, r) ==
  IF ActiveSteps(r) # {} THEN c
  ELSE [c EXCEPT !.terminal = DerivedPhase(r),
                 !.audit    = DerivedPhase(r) \in AfterRunHooks]

\* Mutant: targets that have to wait keep the run going.
RouteWaits(c, r, targets) ==
  IF targets = {} THEN TerminalIfDone(c, r) ELSE Launch(c, r, Ready(r, targets))

Route(c, r, targets) ==
  IF Ready(r, targets) = {} THEN TerminalIfDone(c, r)
  ELSE Launch(c, r, Ready(r, targets))

OnRunStarted(r) ==
  Launch(RunHooks(NoCommands, IF BeforeRunHooks THEN "before_run" ELSE "none"),
         r, Ready(r, EntrySteps))

\* Mutants: the routes are taken, or the end is decided, on the rows as they
\* were before the step completed.
CompletedStaleRoute(r, s) == Route(Mark(s, "completed"), r, OnSuccess[s])
CompletedStaleEnd(r, s) ==
  LET next == SetStatus(r, s, "completed")
  IN  IF Ready(next, OnSuccess[s]) = {} THEN TerminalIfDone(Mark(s, "completed"), r)
      ELSE Launch(Mark(s, "completed"), next, Ready(next, OnSuccess[s]))

OnStepCompleted(r, s) ==
  LET gate == IF s \in AfterHooks THEN "after_step" ELSE "none"
  IN  IF s \in HumanLoop
      THEN RunHooks(Mark(s, "waiting_approval"), gate)
      ELSE Route(RunHooks(Mark(s, "completed"), gate),
                 SetStatus(r, s, "completed"), OnSuccess[s])

\* The rows once s has failed and fail-fast has cancelled every other step.
FailFast(r, s) ==
  [t \in Steps |-> IF t = s THEN [r[t] EXCEPT !.status = "failed"]
                   ELSE IF r[t].status \in Active THEN [r[t] EXCEPT !.status = "cancelled"]
                   ELSE r[t]]

\* Mutants: one retry too many; the siblings are not cancelled.
FailedExtraRetry(r, s) ==
  IF r[s].attempt <= Retries[s] + 1 THEN Launch(NoCommands, r, {s})
  ELSE Route(Cancel(Mark(s, "failed"), ActiveSteps(r) \ {s}), FailFast(r, s), OnFailure[s])
FailedSiblingsKept(r, s) ==
  IF r[s].attempt <= Retries[s] THEN Launch(NoCommands, r, {s})
  ELSE Route(Mark(s, "failed"), FailFast(r, s), OnFailure[s])

OnStepFailed(r, s) ==
  IF r[s].attempt <= Retries[s] THEN Launch(NoCommands, r, {s})
  ELSE Route(Cancel(Mark(s, "failed"), ActiveSteps(r) \ {s}),
             FailFast(r, s), OnFailure[s])

\* Mutant: an approved step takes the route of a completed one.
ApprovedOnSuccess(r, s) ==
  Route(Mark(s, "completed"), SetStatus(r, s, "completed"), OnSuccess[s])

OnStepApproved(r, s) ==
  Route(Mark(s, "completed"), SetStatus(r, s, "completed"), OnApprove[s])

OnStepRejected(r, s) ==
  LET rejected == SetStatus(r, s, "failed_rejected")
  IN  IF IsSelfRejectLoop(s) THEN Launch(Mark(s, "failed_rejected"), rejected, {s})
      ELSE Route(Mark(s, "failed_rejected"), rejected, OnReject[s])

\* Deadline and cancellation: every active step cancelled, no after_run hook.
Stop(r, ph) == [Cancel(NoCommands, ActiveSteps(r)) EXCEPT !.terminal = ph]
=============================================================================
