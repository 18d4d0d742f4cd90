--------------------------- MODULE SchedulerProofs ---------------------------
(***************************************************************************)
(* Theorems about Scheduler for every flow and every bound.                *)
(***************************************************************************)
EXTENDS Scheduler, TLAPS

USE FlowAssumption, SchedulerAssumption

(* The engine returns commands, whatever the rows and the event. *)

LEMMA RowsTyped ==
  ASSUME NEW r \in [Steps -> Row], NEW s \in Steps, NEW st \in Status
  PROVE  SetStatus(r, s, st) \in [Steps -> Row]
BY DEF SetStatus, Row

LEMMA DerivedTyped ==
  ASSUME NEW r \in [Steps -> Row], ActiveSteps(r) = {}
  PROVE  DerivedPhase(r) \in TerminalPhases
BY DEF DerivedPhase, TerminalPhases

LEMMA LaunchTyped ==
  ASSUME NEW c \in Commands, NEW r \in [Steps -> Row], NEW ready \in SUBSET Steps
  PROVE  Launch(c, r, ready) \in Commands
<1>1. {[step |-> s, attempt |-> r[s].attempt + 1] : s \in ready \ Subflows} \subseteq Activation
  BY DEF Activation, Row
<1> DEFINE acts == {[step |-> s, attempt |-> r[s].attempt + 1] : s \in ready \ Subflows}
           kids == ready \cap Subflows
           err  == ready \cap BadInput # {}
<1>2. acts \in SUBSET Activation /\ kids \in SUBSET Steps /\ err \in BOOLEAN
  BY <1>1
<1> HIDE DEF acts, kids, err
<1>3. [c EXCEPT !.activate = acts, !.children = kids, !.error = err] \in Commands
  BY <1>2 DEF Commands
<1> QED  BY <1>3 DEF Launch, acts, kids, err

LEMMA TerminalTyped ==
  ASSUME NEW c \in Commands, NEW r \in [Steps -> Row]
  PROVE  TerminalIfDone(c, r) \in Commands
<1>1. CASE ActiveSteps(r) # {}  BY <1>1 DEF TerminalIfDone
<1>2. CASE ActiveSteps(r) = {}
  <2>1. DerivedPhase(r) \in TerminalPhases  BY <1>2, DerivedTyped
  <2>2. (DerivedPhase(r) \in AfterRunHooks) \in BOOLEAN  OBVIOUS
  <2> QED  BY <1>2, <2>1, <2>2 DEF TerminalIfDone, Commands
<1> QED  BY <1>1, <1>2

LEMMA RouteTyped ==
  ASSUME NEW c \in Commands, NEW r \in [Steps -> Row], NEW targets \in SUBSET Steps
  PROVE  Route(c, r, targets) \in Commands
BY LaunchTyped, TerminalTyped DEF Route, Ready

LEMMA NoCommandsTyped == NoCommands \in Commands
BY DEF NoCommands, Commands

LEMMA StatusFacts ==
  /\ {"completed", "failed", "failed_rejected", "cancelled", "waiting_approval", "running"} \subseteq Status
  /\ {"completed", "failed", "cancelled"} \subseteq TerminalPhases
BY DEF Status, Terminal, Active, TerminalPhases

LEMMA RunHooksFields ==
  ASSUME NEW c \in Commands, NEW gate \in {"none", "before_run", "after_step"}
  PROVE  /\ RunHooks(c, gate) \in Commands
         /\ RunHooks(c, gate).gate = gate
         /\ RunHooks(c, gate).step = c.step
BY DEF Commands, RunHooks

LEMMA CancelFields ==
  ASSUME NEW c \in Commands, NEW steps \in SUBSET Steps
  PROVE  /\ Cancel(c, steps) \in Commands
         /\ Cancel(c, steps).gate = c.gate
         /\ Cancel(c, steps).step = c.step
         /\ Cancel(c, steps).status = c.status
         /\ Cancel(c, steps).cancel = steps
BY DEF Commands, Cancel

LEMMA MarkFields ==
  ASSUME NEW s \in Steps, NEW st \in Status
  PROVE  /\ Mark(s, st) \in Commands
         /\ Mark(s, st).step = s /\ Mark(s, st).status = st
         /\ Mark(s, st).gate = "none" /\ Mark(s, st).cancel = {}
<1>1. Mark(s, st) \in Commands  BY NoCommandsTyped DEF Mark, Commands
<1> QED  BY <1>1 DEF Mark, NoCommands

LEMMA RunStartedTyped ==
  ASSUME NEW r \in [Steps -> Row]
  PROVE  OnRunStarted(r) \in Commands
<1> DEFINE gate == IF BeforeRunHooks THEN "before_run" ELSE "none"
<1>1. RunHooks(NoCommands, gate) \in Commands  BY NoCommandsTyped, RunHooksFields
<1>2. Ready(r, EntrySteps) \in SUBSET Steps  BY DEF Ready, EntrySteps
<1> QED  BY <1>1, <1>2, LaunchTyped DEF OnRunStarted

LEMMA StepCompletedTyped ==
  ASSUME NEW r \in [Steps -> Row], NEW s \in Steps
  PROVE  OnStepCompleted(r, s) \in Commands
<1> DEFINE gate == IF s \in AfterHooks THEN "after_step" ELSE "none"
<1>1. ASSUME NEW st \in Status PROVE RunHooks(Mark(s, st), gate) \in Commands
  BY MarkFields, RunHooksFields
<1>2. SetStatus(r, s, "completed") \in [Steps -> Row]  BY StatusFacts, RowsTyped
<1>3. OnSuccess[s] \in SUBSET Steps  OBVIOUS
<1> QED  BY <1>1, <1>2, <1>3, StatusFacts, RouteTyped DEF OnStepCompleted

LEMMA FailFastTyped ==
  ASSUME NEW r \in [Steps -> Row], NEW s \in Steps
  PROVE  FailFast(r, s) \in [Steps -> Row]
BY DEF FailFast, Row, Status, Terminal

LEMMA StepFailedTyped ==
  ASSUME NEW r \in [Steps -> Row], NEW s \in Steps
  PROVE  OnStepFailed(r, s) \in Commands
<1>1. ActiveSteps(r) \ {s} \in SUBSET Steps  BY DEF ActiveSteps
<1>2. Cancel(Mark(s, "failed"), ActiveSteps(r) \ {s}) \in Commands
  BY <1>1, StatusFacts, MarkFields, CancelFields
<1>3. OnFailure[s] \in SUBSET Steps /\ {s} \in SUBSET Steps  OBVIOUS
<1> QED  BY <1>2, <1>3, NoCommandsTyped, FailFastTyped, LaunchTyped, RouteTyped DEF OnStepFailed

LEMMA StepApprovedTyped ==
  ASSUME NEW r \in [Steps -> Row], NEW s \in Steps
  PROVE  OnStepApproved(r, s) \in Commands
<1>1. OnApprove[s] \in SUBSET Steps  OBVIOUS
<1> QED  BY <1>1, StatusFacts, MarkFields, RowsTyped, RouteTyped DEF OnStepApproved

LEMMA StepRejectedTyped ==
  ASSUME NEW r \in [Steps -> Row], NEW s \in Steps
  PROVE  OnStepRejected(r, s) \in Commands
<1>1. OnReject[s] \in SUBSET Steps /\ {s} \in SUBSET Steps  OBVIOUS
<1>2. Mark(s, "failed_rejected") \in Commands /\ SetStatus(r, s, "failed_rejected") \in [Steps -> Row]
  BY StatusFacts, MarkFields, RowsTyped
<1> QED  BY <1>1, <1>2, LaunchTyped, RouteTyped DEF OnStepRejected

LEMMA StopTyped ==
  ASSUME NEW r \in [Steps -> Row], NEW ph \in TerminalPhases
  PROVE  Stop(r, ph) \in Commands /\ Stop(r, ph).gate = "none"
<1>1. ActiveSteps(r) \in SUBSET Steps  BY DEF ActiveSteps
<1>2. /\ Cancel(NoCommands, ActiveSteps(r)) \in Commands
      /\ Cancel(NoCommands, ActiveSteps(r)).gate = "none"
  BY <1>1, NoCommandsTyped, CancelFields DEF NoCommands
<1> HIDE DEF NoCommands
<1> QED  BY <1>2 DEF Stop, Commands

-----------------------------------------------------------------------------
(* What routing adds to a command list leaves its head alone. *)

Framed(c, d) == /\ d.gate = c.gate /\ d.step = c.step
                /\ d.status = c.status /\ d.cancel = c.cancel

LEMMA LaunchFrames ==
  ASSUME NEW c \in Commands, NEW r, NEW ready
  PROVE  Framed(c, Launch(c, r, ready))
BY DEF Framed, Launch, Commands

LEMMA TerminalFrames ==
  ASSUME NEW c \in Commands, NEW r
  PROVE  Framed(c, TerminalIfDone(c, r))
BY DEF Framed, TerminalIfDone, Commands

LEMMA RouteFrames ==
  ASSUME NEW c \in Commands, NEW r, NEW targets
  PROVE  Framed(c, Route(c, r, targets))
BY LaunchFrames, TerminalFrames DEF Route

(* Only the completion of a step is gated by after: hooks, and it names the step. *)
GateNamesStep(c) == c.gate = "after_step" => c.step \in Steps

LEMMA GatesNameSteps ==
  ASSUME NEW r \in [Steps -> Row]
  PROVE  /\ GateNamesStep(OnRunStarted(r))
         /\ \A s \in Steps : /\ GateNamesStep(OnStepCompleted(r, s))
                             /\ GateNamesStep(OnStepFailed(r, s))
                             /\ GateNamesStep(OnStepApproved(r, s))
                             /\ GateNamesStep(OnStepRejected(r, s))
         /\ \A ph \in TerminalPhases : GateNamesStep(Stop(r, ph))
<1>1. GateNamesStep(OnRunStarted(r))
  <2> DEFINE gate == IF BeforeRunHooks THEN "before_run" ELSE "none"
  <2>1. RunHooks(NoCommands, gate) \in Commands /\ RunHooks(NoCommands, gate).gate # "after_step"
    BY NoCommandsTyped, RunHooksFields
  <2> QED  BY <2>1, LaunchFrames DEF OnRunStarted, Framed, GateNamesStep
<1>2. ASSUME NEW s \in Steps PROVE GateNamesStep(OnStepCompleted(r, s))
  <2> DEFINE gate == IF s \in AfterHooks THEN "after_step" ELSE "none"
  <2>1. ASSUME NEW st \in Status
        PROVE  RunHooks(Mark(s, st), gate) \in Commands /\ RunHooks(Mark(s, st), gate).step = s
    BY MarkFields, RunHooksFields
  <2> QED  BY <2>1, StatusFacts, RouteFrames DEF OnStepCompleted, Framed, GateNamesStep
<1>3. ASSUME NEW s \in Steps PROVE GateNamesStep(OnStepFailed(r, s))
  <2> DEFINE c == Cancel(Mark(s, "failed"), ActiveSteps(r) \ {s})
  <2>1. ActiveSteps(r) \ {s} \in SUBSET Steps  BY DEF ActiveSteps
  <2>2. c \in Commands /\ c.gate = "none"  BY <2>1, StatusFacts, MarkFields, CancelFields
  <2>3. NoCommands.gate = "none"  BY DEF NoCommands
  <2> QED  BY <2>2, <2>3, NoCommandsTyped, LaunchFrames, RouteFrames
           DEF OnStepFailed, Framed, GateNamesStep
<1>4. ASSUME NEW s \in Steps
      PROVE  GateNamesStep(OnStepApproved(r, s)) /\ GateNamesStep(OnStepRejected(r, s))
  <2>1. /\ Mark(s, "completed") \in Commands /\ Mark(s, "completed").gate = "none"
        /\ Mark(s, "failed_rejected") \in Commands /\ Mark(s, "failed_rejected").gate = "none"
    BY StatusFacts, MarkFields
  <2>2. OnStepApproved(r, s).gate = "none"  BY <2>1, RouteFrames DEF OnStepApproved, Framed
  <2>3. OnStepRejected(r, s).gate = "none"
    BY <2>1, RouteFrames, LaunchFrames DEF OnStepRejected, Framed
  <2> QED  BY <2>2, <2>3 DEF GateNamesStep
<1>5. ASSUME NEW ph \in TerminalPhases PROVE GateNamesStep(Stop(r, ph))
  BY StopTyped DEF GateNamesStep
<1> QED  BY <1>1, <1>2, <1>3, <1>4, <1>5

-----------------------------------------------------------------------------
(* Type correctness *)

LEMMA PersistTyped ==
  ASSUME NEW r \in [Steps -> Row], NEW c \in Commands, NEW kids
  PROVE  Persist(r, c, kids) \in [Steps -> Row]
<1> SUFFICES ASSUME NEW s \in Steps
    PROVE (IF s \in kids THEN Insert(r[s], 1)
           ELSE IF s = c.step /\ c.status # "none" THEN [r[s] EXCEPT !.status = c.status]
           ELSE IF s \in c.cancel THEN [r[s] EXCEPT !.status = "cancelled"]
           ELSE r[s]) \in Row
  BY DEF Persist
<1>1. r[s] \in Row /\ c.status \in Status \cup {"none"}  BY DEF Commands
<1>2. Insert(r[s], 1) \in Row  BY <1>1 DEF Insert, Row, Status, Active
<1>3. [r[s] EXCEPT !.status = c.status] \in Row  BY <1>1 DEF Row
<1>4. [r[s] EXCEPT !.status = "cancelled"] \in Row  BY <1>1 DEF Row, Status, Terminal
<1> QED  BY <1>1, <1>2, <1>3, <1>4

LEMMA HeldTyped ==
  ASSUME TypeOK, NEW c \in Commands
  PROVE  Held(c) \in Turn
BY DEF Held, Turn, Commands

LEMMA SubmitTyped ==
  ASSUME TypeOK, NEW c \in Commands, GateNamesStep(c), NEW hs \in SUBSET Hook, Submit(c, hs)
  PROVE  turn' \in Turn /\ hooks' \subseteq Hook
<1>1. Held(c) \in Turn /\ turn \in Turn  BY HeldTyped DEF TypeOK
<1>2. ASSUME c.gate # "none"
      PROVE  [kind |-> c.gate, rest |-> [c EXCEPT !.gate = "none"]] \in Hook
  <2>1. [c EXCEPT !.gate = "none"] \in Commands /\ [c EXCEPT !.gate = "none"].step = c.step
    BY DEF Commands
  <2>2. c.gate \in {"before_run", "after_step"}  BY <1>2 DEF Commands
  <2> QED  BY <2>1, <2>2 DEF Hook, GateNamesStep
<1> QED  BY <1>1, <1>2 DEF Submit, Drive

LEMMA InitTyped == Init => TypeOK
<1> SUFFICES ASSUME Init PROVE TypeOK  OBVIOUS
<1>1. NoRow \in Row  BY DEF NoRow, Row
<1>2. Idle \in Turn  BY NoCommandsTyped DEF Idle, Turn
<1>3. <<>> \in Seq(TerminalPhases)  OBVIOUS
<1> QED  BY <1>1, <1>2, <1>3 DEF Init, TypeOK, RunPhase, Call

LEMMA NextTyped == TypeOK /\ [Next]_vars => TypeOK'
<1> SUFFICES ASSUME TypeOK, [Next]_vars PROVE TypeOK'  OBVIOUS
<1> USE DEF store
<1>0. /\ rows \in [Steps -> Row] /\ turn \in Turn /\ turn.cmds \in Commands /\ hooks \in SUBSET Hook
      /\ NoCommands \in Commands /\ Idle \in Turn
  BY NoCommandsTyped DEF TypeOK, Turn, Idle
<1>1. ASSUME NEW s \in Steps, CancelJob(s) \/ AbortTask(s) PROVE TypeOK'
  <2>1. turn' \in Turn
    <3>1. CASE CancelJob(s)  BY <1>0, <3>1 DEF CancelJob, Turn
    <3>2. CASE AbortTask(s)  BY <1>0, <3>2 DEF AbortTask, Turn
    <3> QED  BY <1>1, <3>1, <3>2
  <2> QED  BY <1>1, <2>1 DEF CancelJob, AbortTask, TypeOK
<1>2. ASSUME NEW a \in turn.cmds.activate, NEW kids \in SUBSET turn.cmds.children, ActivateStep(a, kids)
      PROVE  TypeOK'
  <2>1. a \in Activation  BY <1>0 DEF Commands
  <2>2. Persist(rows, turn.cmds, kids) \in [Steps -> Row]  BY <1>0, PersistTyped
  <2>3. Insert(Persist(rows, turn.cmds, kids)[a.step], a.attempt) \in Row
    BY <2>1, <2>2 DEF Insert, Row, Activation, Status, Active
  <2>4. rows' \in [Steps -> Row]  BY <1>2, <2>2, <2>3 DEF ActivateStep
  <2>5. [step |-> a.step, attempt |-> a.attempt, reattached |-> FALSE, pc |-> "starting"] \in Task
    BY <2>1 DEF Task, Activation
  <2>6. turn' \in Turn
    <3> DEFINE c == turn.cmds
               d == [c EXCEPT !.activate = @ \ {a}, !.children = @ \ kids,
                              !.status = "none", !.cancel = {}]
    <3>1. turn' = [turn EXCEPT !.cmds = d]  BY <1>0, <1>2 DEF ActivateStep, Turn, Commands
    <3>2. c \in Commands  BY <1>0
    <3> HIDE DEF c
    <3>3. d \in Commands  BY <3>2 DEF Commands
    <3> HIDE DEF d
    <3> QED  BY <1>0, <3>1, <3>3 DEF Turn
  <2> QED  BY <1>2, <2>4, <2>5, <2>6 DEF ActivateStep, TypeOK
<1>3. ASSUME NEW a \in turn.cmds.activate, ActivationFails(a) PROVE TypeOK'
  BY <1>0, <1>3 DEF ActivationFails, TypeOK, Return, Call
<1>4. CASE FinishTurn
  <2>1. rows' \in [Steps -> Row]  BY <1>0, <1>4, PersistTyped DEF FinishTurn
  <2>2. turn.cmds.terminal \in TerminalPhases \cup {"none"}  BY <1>0 DEF Commands
  <2>3. phase' \in RunPhase /\ ended' \in Seq(TerminalPhases)
    <3>1. phase \in RunPhase /\ ended \in Seq(TerminalPhases)  BY DEF TypeOK
    <3>2. CASE turn.cmds.terminal = "none" \/ turn.cmds.audit  BY <1>4, <3>1, <3>2 DEF FinishTurn
    <3>3. CASE ~(turn.cmds.terminal = "none" \/ turn.cmds.audit)
      <4>1. phase' = turn.cmds.terminal /\ ended' = Append(ended, turn.cmds.terminal)
        BY <1>4, <3>3 DEF FinishTurn
      <4> QED  BY <2>2, <3>1, <3>3, <4>1 DEF RunPhase
    <3> QED  BY <3>2, <3>3
  <2>4. hooks' \subseteq Hook
    <3>1. [NoCommands EXCEPT !.terminal = turn.cmds.terminal] \in Commands
      BY <1>0, <2>2 DEF Commands
    <3>2. [kind |-> "after_run", rest |-> [NoCommands EXCEPT !.terminal = turn.cmds.terminal]] \in Hook
      BY <3>1 DEF Hook
    <3> QED  BY <1>0, <1>4, <3>2 DEF FinishTurn
  <2>5. followOns' \subseteq Steps  BY <1>0, <1>4 DEF FinishTurn, TypeOK, Turn
  <2>6. clients' \in [Clients -> Call]  BY <1>4 DEF FinishTurn, TypeOK, Return, Call
  <2> QED  BY <1>0, <1>4, <2>1, <2>3, <2>4, <2>5, <2>6 DEF FinishTurn, TypeOK
<1>5. CASE RunStarted
  <2>1. turn' \in Turn /\ hooks' \subseteq Hook
    BY <1>0, <1>5, RunStartedTyped, GatesNameSteps, SubmitTyped DEF RunStarted
  <2> QED  BY <1>5, <2>1 DEF RunStarted, TypeOK
<1>6. ASSUME NEW t \in tasks, TaskSubmits(t) PROVE TypeOK'
  <2>1. t.step \in Steps  BY DEF TypeOK, Task
  <2>2. turn' \in Turn /\ hooks' \subseteq Hook
    BY <1>0, <1>6, <2>1, StepCompletedTyped, StepFailedTyped, GatesNameSteps, SubmitTyped DEF TaskSubmits
  <2> QED  BY <1>6, <2>2 DEF TaskSubmits, TypeOK
<1>7. ASSUME NEW s \in Steps, FollowOnSubmits(s) PROVE TypeOK'
  <2>1. turn' \in Turn /\ hooks' \subseteq Hook
    BY <1>0, <1>7, StepFailedTyped, GatesNameSteps, SubmitTyped DEF FollowOnSubmits
  <2> QED  BY <1>7, <2>1 DEF FollowOnSubmits, TypeOK
<1>8. CASE CancelRequested \/ DeadlineExceeded
  <2>1. turn' \in Turn /\ hooks' \subseteq Hook
    BY <1>0, <1>8, StopTyped, StatusFacts, GatesNameSteps, SubmitTyped
       DEF CancelRequested, DeadlineExceeded
  <2> QED  BY <1>8, <2>1 DEF CancelRequested, DeadlineExceeded, TypeOK
<1>9. ASSUME NEW c \in Clients, NEW s \in Steps, NEW type \in {"step_approved", "step_rejected"},
             ResolveApproval(c, s, type)
      PROVE  TypeOK'
  <2>1. [step |-> s, type |-> type] \in Call  BY DEF Call
  <2> QED  BY <1>9, <2>1 DEF ResolveApproval, TypeOK
<1>10. ASSUME NEW c \in Clients, SubmitApproval(c) PROVE TypeOK'
  <2>1. clients[c].step \in Steps  BY <1>10 DEF SubmitApproval, TypeOK, Call
  <2>2. turn' \in Turn /\ hooks' \subseteq Hook
    BY <1>0, <1>10, <2>1, StepApprovedTyped, StepRejectedTyped, GatesNameSteps, SubmitTyped DEF SubmitApproval
  <2>3. clients' \in [Clients -> Call]  BY <1>10 DEF SubmitApproval, TypeOK, Call
  <2> QED  BY <1>10, <2>2, <2>3 DEF SubmitApproval, TypeOK
<1>11. ASSUME NEW h \in hooks, HookBatchDone(h) PROVE TypeOK'
  <2>1. Held(h.rest) \in Turn  BY <1>0, HeldTyped DEF Hook
  <2> QED  BY <1>0, <1>11, <2>1 DEF HookBatchDone, TypeOK
<1>12. ASSUME NEW h \in hooks, BeforeRunFails(h) PROVE TypeOK'
  BY <1>12, StatusFacts DEF BeforeRunFails, TypeOK, RunPhase
<1>13. ASSUME NEW h \in hooks, AfterStepFails(h) PROVE TypeOK'
  <2>1. h.rest.step \in Steps  BY <1>0, <1>13 DEF AfterStepFails, Hook
  <2>2. turn' \in Turn /\ hooks' \subseteq Hook
    BY <1>0, <1>13, <2>1, StepFailedTyped, GatesNameSteps, SubmitTyped DEF AfterStepFails
  <2> QED  BY <1>13, <2>2 DEF AfterStepFails, TypeOK
<1>14. ASSUME NEW t \in tasks, TaskStep(t) PROVE TypeOK'
  <2>1. t \in Task /\ KeyOf(t) \in Key  BY DEF TypeOK, Task, Key, KeyOf
  <2>2. \A pc \in {"persisting", "waiting", "completed", "failed"} : [t EXCEPT !.pc = pc] \in Task
    BY <2>1 DEF Task
  <2>3. CASE StartJob(t) \/ StartFails(t)
    BY <2>1, <2>2, <2>3 DEF StartJob, StartFails, Move, TypeOK
  <2>4. CASE PersistJobId(t)
    <3>1. rows' \in [Steps -> Row]
      <4>1. t.step \in Steps /\ rows[t.step] \in Row  BY <1>0, <2>1 DEF Task
      <4>2. \A b \in BOOLEAN : [rows[t.step] EXCEPT !.job = b] \in Row  BY <4>1 DEF Row
      <4>3. (rows[t.step].job \/ rows[t.step].attempt = t.attempt) \in BOOLEAN  BY <4>1 DEF Row
      <4> QED  BY <1>0, <2>4, <4>1, <4>2, <4>3 DEF PersistJobId
    <3> QED  BY <2>2, <2>4, <3>1 DEF PersistJobId, Move, TypeOK
  <2>5. CASE JobCompletes(t)  BY <2>2, <2>5 DEF JobCompletes, Move, TypeOK
  <2>6. CASE JobFails(t)  BY <2>2, <2>6 DEF JobFails, Move, TypeOK
  <2>7. CASE WaitGivesUp(t)  BY <2>2, <2>7 DEF WaitGivesUp, Move, TypeOK
  <2> QED  BY <1>14, <2>3, <2>4, <2>5, <2>6, <2>7 DEF TaskStep
<1>15. CASE Crash
  <2>1. clients' \in [Clients -> Call] /\ turn' \in Turn  BY <1>0, <1>15 DEF Crash, Call
  <2>2. crashes' \in Nat /\ mode' = "down"  BY <1>15 DEF Crash, TypeOK
  <2> QED  BY <1>15, <2>1, <2>2 DEF Crash, TypeOK
<1>16. CASE Boot
  <2>1. RecoveryPlan \subseteq Plan
    <3>1. \A s \in Steps : rows[s].attempt \in Nat  BY <1>0 DEF Row
    <3> QED  BY <3>1 DEF RecoveryPlan, Plan
  <2> QED  BY <1>16, <2>1 DEF Boot, TypeOK
<1>17. CASE Serve
  BY <1>17 DEF Serve, TypeOK
<1>18. ASSUME NEW p \in plan, Reattach(p) PROVE TypeOK'
  <2>1. [step |-> p.step, attempt |-> p.attempt, reattached |-> TRUE, pc |-> "waiting"] \in Task
    BY <1>18 DEF Reattach, TypeOK, Plan, Restart, Task
  <2> QED  BY <1>18, <2>1 DEF Reattach, TypeOK
<1>19. ASSUME NEW p \in plan, RecoverBySubmit(p) PROVE TypeOK'
  <2>1. p.kind = "fail" => p.step \in Steps  BY DEF TypeOK, Plan, Restart
  <2>2. turn' \in Turn /\ hooks' \subseteq Hook
    BY <1>0, <1>19, <2>1, RunStartedTyped, StepFailedTyped, GatesNameSteps, SubmitTyped DEF RecoverBySubmit
  <2> QED  BY <1>19, <2>2 DEF RecoverBySubmit, TypeOK
<1>20. CASE UNCHANGED vars
  BY <1>20 DEF vars, TypeOK
<1> QED
  BY <1>1, <1>2, <1>3, <1>4, <1>5, <1>6, <1>7, <1>8, <1>9, <1>10, <1>11, <1>12, <1>13, <1>14,
     <1>15, <1>16, <1>17, <1>18, <1>19, <1>20
  DEF Next, LockStep, HookStep, Recover, Ended

\* Whatever the flow and the bounds, every variable keeps the data the code
\* keeps in it; in particular no turn ever ends a run in the phase "running".
THEOREM TypeCorrect == Spec => []TypeOK
<1>1. Init => TypeOK  BY InitTyped
<1>2. TypeOK /\ [Next]_vars => TypeOK'  BY NextTyped
<1> QED  BY <1>1, <1>2, PTL DEF Spec

-----------------------------------------------------------------------------
(* Flows without hooks: what is decided fits the rows it was decided on. *)

Hookless == AfterHooks = {} /\ AfterRunHooks = {} /\ ~BeforeRunHooks

\* Commands that bring in no hook batch.
Plain(c) == c.gate = "none" /\ c.audit = FALSE

\* Commands nothing has been routed for yet.
Bare(c) == c.activate = {} /\ c.children = {} /\ c.terminal = "none" /\ Plain(c)

LEMMA PersistFramed ==
  ASSUME NEW r, NEW c, NEW d, Framed(c, d), NEW kids
  PROVE  Persist(r, d, kids) = Persist(r, c, kids)
BY DEF Persist, Framed

LEMMA LaunchFits ==
  ASSUME NEW r \in [Steps -> Row], NEW c \in Commands, Bare(c),
         NEW ready \in SUBSET Steps, ready # {},
         NEW next \in [Steps -> Row], \A s \in Steps : next[s].attempt = r[s].attempt
  PROVE  Fits(r, Launch(c, next, ready)) /\ Plain(Launch(c, next, ready))
<1> DEFINE d == Launch(c, next, ready)
<1>1. /\ d.activate = {[step |-> s, attempt |-> next[s].attempt + 1] : s \in ready \ Subflows}
      /\ d.children = ready \cap Subflows
      /\ d.terminal = "none" /\ d.gate = "none" /\ d.audit = FALSE
  BY DEF Launch, Commands, Bare, Plain
<1> HIDE DEF d
<1>2. d.activate # {} \/ d.children # {}
  <2>1. PICK s \in Steps : s \in ready  OBVIOUS
  <2>2. CASE s \in Subflows  BY <1>1, <2>1, <2>2
  <2>3. CASE s \notin Subflows
    <3>1. [step |-> s, attempt |-> next[s].attempt + 1] \in d.activate  BY <1>1, <2>1, <2>3
    <3> QED  BY <3>1
  <2> QED  BY <2>2, <2>3
<1>3. \A a \in d.activate : a.step \notin Subflows /\ a.attempt > r[a.step].attempt
  <2>1. \A s \in Steps : next[s].attempt \in Nat  BY DEF Row
  <2> QED  BY <1>1, <2>1
<1>4. \A a, b \in d.activate : a.step = b.step => a = b  BY <1>1
<1> QED  BY <1>1, <1>2, <1>3, <1>4 DEF Fits, Plain, d

LEMMA RouteFits ==
  ASSUME Hookless, NEW r \in [Steps -> Row], NEW c \in Commands, Bare(c), NEW targets \in SUBSET Steps,
         NEW next \in [Steps -> Row], next = Persist(r, c, {}),
         \A s \in Steps : next[s].attempt = r[s].attempt
  PROVE  Fits(r, Route(c, next, targets)) /\ Plain(Route(c, next, targets))
<1>1. CASE Ready(next, targets) # {}
  <2>1. Ready(next, targets) \in SUBSET Steps  BY DEF Ready
  <2> QED  BY <1>1, <2>1, LaunchFits DEF Route
<1>2. CASE Ready(next, targets) = {}
  <2> DEFINE d == TerminalIfDone(c, next)
  <2>1. Route(c, next, targets) = d  BY <1>2 DEF Route
  <2>2. Persist(r, d, {}) = next  BY TerminalFrames, PersistFramed
  <2>3. CASE ActiveSteps(next) # {}
    <3>1. d = c  BY <2>3 DEF TerminalIfDone
    <3> QED  BY <2>1, <2>2, <2>3, <3>1 DEF Fits, Bare
  <2>4. CASE ActiveSteps(next) = {}
    <3>1. DerivedPhase(next) \in TerminalPhases  BY <2>4, DerivedTyped
    <3>2. /\ d.activate = {} /\ d.children = {} /\ d.gate = "none"
          /\ d.terminal = DerivedPhase(next) /\ d.audit = FALSE
      BY <2>4, <3>1 DEF TerminalIfDone, Commands, Bare, Plain, Hookless
    <3>3. d.terminal # "none"  BY <3>1, <3>2 DEF TerminalPhases
    <3> HIDE DEF d
    <3> QED  BY <2>1, <2>2, <2>4, <3>2, <3>3 DEF Fits, Plain
  <2> QED  BY <2>3, <2>4
<1> QED  BY <1>1, <1>2

LEMMA MarkBare ==
  ASSUME NEW s \in Steps, NEW st \in Status
  PROVE  /\ Mark(s, st) \in Commands /\ Bare(Mark(s, st))
         /\ Mark(s, st).step = s /\ Mark(s, st).status = st /\ Mark(s, st).cancel = {}
         /\ RunHooks(Mark(s, st), "none") = Mark(s, st)
<1>1. /\ Mark(s, st).activate = {} /\ Mark(s, st).children = {} /\ Mark(s, st).terminal = "none"
      /\ Mark(s, st).audit = FALSE
  BY DEF Mark, NoCommands
<1>2. Mark(s, st) \in Commands /\ Mark(s, st).gate = "none"  BY MarkFields
<1>3. RunHooks(Mark(s, st), "none") = Mark(s, st)  BY <1>2 DEF RunHooks, Commands
<1> QED  BY <1>1, <1>2, <1>3, MarkFields DEF Bare, Plain

\* Marking a step is all its commands do to the rows.
LEMMA MarkPersists ==
  ASSUME NEW r \in [Steps -> Row], NEW s \in Steps, NEW st \in Status
  PROVE  /\ SetStatus(r, s, st) \in [Steps -> Row]
         /\ SetStatus(r, s, st) = Persist(r, Mark(s, st), {})
         /\ \A t \in Steps : SetStatus(r, s, st)[t].attempt = r[t].attempt
         /\ SetStatus(r, s, st)[s].status = st
<1>1. st # "none"  BY DEF Status, Terminal, Active
<1>2. SetStatus(r, s, st) \in [Steps -> Row]  BY RowsTyped
<1>3. SetStatus(r, s, st) = Persist(r, Mark(s, st), {})
  <2>1. Persist(r, Mark(s, st), {}) = [t \in Steps |-> IF t = s THEN [r[t] EXCEPT !.status = st] ELSE r[t]]
    BY <1>1, MarkFields DEF Persist
  <2>2. SetStatus(r, s, st) = [t \in Steps |-> IF t = s THEN [r[t] EXCEPT !.status = st] ELSE r[t]]
    BY DEF SetStatus
  <2> QED  BY <2>1, <2>2
<1>4. \A t \in Steps : r[t] \in Row /\ SetStatus(r, s, st)[t] = IF t = s THEN [r[t] EXCEPT !.status = st] ELSE r[t]
  BY DEF SetStatus
<1>5. ASSUME NEW t \in Steps
      PROVE  [r[t] EXCEPT !.status = st].attempt = r[t].attempt /\ [r[t] EXCEPT !.status = st].status = st
  BY <1>4 DEF Row
<1>6. /\ \A t \in Steps : SetStatus(r, s, st)[t].attempt = r[t].attempt
      /\ SetStatus(r, s, st)[s].status = st
  BY <1>4, <1>5
<1> QED  BY <1>2, <1>3, <1>6

LEMMA FailFastPersists ==
  ASSUME NEW r \in [Steps -> Row], NEW s \in Steps,
         NEW c, c = Cancel(Mark(s, "failed"), ActiveSteps(r) \ {s})
  PROVE  /\ c \in Commands /\ Bare(c)
         /\ FailFast(r, s) = Persist(r, c, {})
         /\ \A t \in Steps : FailFast(r, s)[t].attempt = r[t].attempt
<1>1. ActiveSteps(r) \ {s} \in SUBSET Steps  BY DEF ActiveSteps
<1>2. Mark(s, "failed") \in Commands /\ Bare(Mark(s, "failed"))  BY StatusFacts, MarkBare
<1>3. /\ c \in Commands /\ c.step = s /\ c.status = "failed" /\ c.cancel = ActiveSteps(r) \ {s}
  <2>1. PICK m : m = Mark(s, "failed") /\ m \in Commands /\ m.step = s /\ m.status = "failed"
    BY StatusFacts, MarkBare
  <2>2. c = Cancel(m, ActiveSteps(r) \ {s})  BY <2>1
  <2> QED  BY <1>1, <2>1, <2>2, CancelFields
<1>4. Bare(c)
  <2>1. PICK m : m = Mark(s, "failed") /\ m \in Commands /\ Bare(m)  BY <1>2
  <2>2. c = [m EXCEPT !.cancel = ActiveSteps(r) \ {s}]  BY <2>1 DEF Cancel
  <2> QED  BY <2>1, <2>2 DEF Bare, Plain, Commands
<1>5. FailFast(r, s) = Persist(r, c, {})
  <2>1. Persist(r, c, {}) = [t \in Steps |-> IF t = s THEN [r[t] EXCEPT !.status = "failed"]
                                             ELSE IF t \in ActiveSteps(r) \ {s}
                                             THEN [r[t] EXCEPT !.status = "cancelled"] ELSE r[t]]
    <3>1. c.step = s /\ c.status = "failed" /\ c.cancel = ActiveSteps(r) \ {s} /\ "failed" # "none"
      BY <1>3
    <3> QED  BY <3>1 DEF Persist
  <2>2. \A t \in Steps : t \in ActiveSteps(r) <=> r[t].status \in Active  BY DEF ActiveSteps
  <2> QED  BY <2>1, <2>2 DEF FailFast
<1>6. ASSUME NEW t \in Steps PROVE FailFast(r, s)[t].attempt = r[t].attempt
  <2>1. \A st \in Status : [r[t] EXCEPT !.status = st].attempt = r[t].attempt  BY DEF Row
  <2> QED  BY <2>1, StatusFacts DEF FailFast
<1> QED  BY <1>3, <1>4, <1>5, <1>6

LEMMA NoCommandsBare ==
  ASSUME Hookless
  PROVE  NoCommands \in Commands /\ Bare(NoCommands)
BY NoCommandsTyped DEF NoCommands, Bare, Plain

LEMMA RunStartedFits ==
  ASSUME Hookless, NEW r \in [Steps -> Row], Started(r) => ActiveSteps(r) # {}
  PROVE  Fits(r, OnRunStarted(r)) /\ Plain(OnRunStarted(r))
<1>1. RunHooks(NoCommands, "none") = NoCommands
  <2>1. NoCommands.gate = "none"  BY DEF NoCommands
  <2> QED  BY <2>1, NoCommandsTyped DEF RunHooks, Commands
<1>2. OnRunStarted(r) = Launch(NoCommands, r, Ready(r, EntrySteps))
  BY <1>1 DEF OnRunStarted, Hookless
<1>3. Ready(r, EntrySteps) \in SUBSET Steps  BY DEF Ready, EntrySteps
<1>4. CASE Ready(r, EntrySteps) # {}
  BY <1>2, <1>3, <1>4, NoCommandsBare, LaunchFits
<1>5. CASE Ready(r, EntrySteps) = {}
  <2> DEFINE d == Launch(NoCommands, r, {})
  <2>1. d.activate = {} /\ d.children = {} /\ d.terminal = "none" /\ Plain(d)
    BY DEF Launch, NoCommands, Plain
  <2>2. d.step = NoStep /\ d.status = "none" /\ d.cancel = {}  BY DEF Launch, NoCommands
  <2> HIDE DEF d
  <2>3. Persist(r, d, {}) = r  BY <2>2 DEF Persist
  <2>4. Fits(r, d)  BY <2>1, <2>3 DEF Fits
  <2> QED  BY <1>2, <1>5, <2>1, <2>4 DEF d
<1> QED  BY <1>4, <1>5

LEMMA MarkRouteFits ==
  ASSUME Hookless, NEW r \in [Steps -> Row], NEW s \in Steps, NEW st \in Status,
         NEW targets \in SUBSET Steps
  PROVE  /\ Fits(r, Route(Mark(s, st), SetStatus(r, s, st), targets))
         /\ Plain(Route(Mark(s, st), SetStatus(r, s, st), targets))
<1> DEFINE c == Mark(s, st)
           next == SetStatus(r, s, st)
<1>1. c \in Commands /\ Bare(c)  BY MarkBare
<1>2. /\ next \in [Steps -> Row] /\ next = Persist(r, c, {})
      /\ \A t \in Steps : next[t].attempt = r[t].attempt
  BY MarkPersists
<1> HIDE DEF c, next
<1> QED  BY <1>1, <1>2, RouteFits DEF c, next

LEMMA StepCompletedFits ==
  ASSUME Hookless, NEW r \in [Steps -> Row], NEW s \in Steps
  PROVE  Fits(r, OnStepCompleted(r, s)) /\ Plain(OnStepCompleted(r, s))
<1>1. s \notin AfterHooks  BY DEF Hookless
<1>2. CASE s \in HumanLoop
  <2> DEFINE d == Mark(s, "waiting_approval")
  <2>1. OnStepCompleted(r, s) = d  BY <1>1, <1>2, MarkBare, StatusFacts DEF OnStepCompleted
  <2>2. Bare(d)  BY MarkBare, StatusFacts
  <2>3. Persist(r, d, {})[s].status = "waiting_approval"  BY MarkPersists, StatusFacts
  <2>4. ActiveSteps(Persist(r, d, {})) # {}  BY <2>3 DEF ActiveSteps, Active
  <2> QED  BY <2>1, <2>2, <2>4 DEF Fits, Bare
<1>3. CASE s \notin HumanLoop
  <2>1. OnStepCompleted(r, s) = Route(Mark(s, "completed"), SetStatus(r, s, "completed"), OnSuccess[s])
    BY <1>1, <1>3, MarkBare, StatusFacts DEF OnStepCompleted
  <2>2. OnSuccess[s] \in SUBSET Steps  OBVIOUS
  <2> QED  BY <2>1, <2>2, MarkRouteFits, StatusFacts
<1> QED  BY <1>2, <1>3

LEMMA StepFailedFits ==
  ASSUME Hookless, NEW r \in [Steps -> Row], NEW s \in Steps
  PROVE  Fits(r, OnStepFailed(r, s)) /\ Plain(OnStepFailed(r, s))
<1>1. CASE r[s].attempt <= Retries[s]
  <2>1. {s} \in SUBSET Steps /\ {s} # {}  OBVIOUS
  <2> QED  BY <1>1, <2>1, NoCommandsBare, LaunchFits DEF OnStepFailed
<1>2. CASE ~(r[s].attempt <= Retries[s])
  <2> DEFINE c == Cancel(Mark(s, "failed"), ActiveSteps(r) \ {s})
             next == FailFast(r, s)
  <2>1. OnFailure[s] \in SUBSET Steps  OBVIOUS
  <2>2. /\ c \in Commands /\ Bare(c) /\ next \in [Steps -> Row] /\ next = Persist(r, c, {})
        /\ \A t \in Steps : next[t].attempt = r[t].attempt
    BY FailFastTyped, FailFastPersists
  <2>3. OnStepFailed(r, s) = Route(c, next, OnFailure[s])  BY <1>2 DEF OnStepFailed
  <2> HIDE DEF c, next
  <2>4. Fits(r, Route(c, next, OnFailure[s])) /\ Plain(Route(c, next, OnFailure[s]))
    BY <2>1, <2>2, RouteFits
  <2> QED  BY <2>3, <2>4
<1> QED  BY <1>1, <1>2

LEMMA StepApprovedFits ==
  ASSUME Hookless, NEW r \in [Steps -> Row], NEW s \in Steps
  PROVE  Fits(r, OnStepApproved(r, s)) /\ Plain(OnStepApproved(r, s))
<1>1. OnApprove[s] \in SUBSET Steps  OBVIOUS
<1> QED  BY <1>1, MarkRouteFits, StatusFacts DEF OnStepApproved

LEMMA StepRejectedFits ==
  ASSUME Hookless, NEW r \in [Steps -> Row], NEW s \in Steps
  PROVE  Fits(r, OnStepRejected(r, s)) /\ Plain(OnStepRejected(r, s))
<1> DEFINE c == Mark(s, "failed_rejected")
           next == SetStatus(r, s, "failed_rejected")
<1>1. OnReject[s] \in SUBSET Steps /\ {s} \in SUBSET Steps /\ {s} # {}  OBVIOUS
<1>2. Fits(r, Route(c, next, OnReject[s])) /\ Plain(Route(c, next, OnReject[s]))
  BY <1>1, MarkRouteFits, StatusFacts
<1>a. "failed_rejected" \in Status  BY StatusFacts
<1>b. c \in Commands /\ Bare(c)  BY <1>a, MarkBare
<1>3. /\ c \in Commands /\ Bare(c) /\ next \in [Steps -> Row]
      /\ \A t \in Steps : next[t].attempt = r[t].attempt
  BY <1>a, <1>b, MarkPersists
<1>4. OnStepRejected(r, s) = IF IsSelfRejectLoop(s) THEN Launch(c, next, {s})
                             ELSE Route(c, next, OnReject[s])
  BY DEF OnStepRejected
<1> HIDE DEF c, next
<1>5. Fits(r, Launch(c, next, {s})) /\ Plain(Launch(c, next, {s}))
  BY <1>1, <1>3, LaunchFits
<1> QED  BY <1>2, <1>4, <1>5

LEMMA StopFits ==
  ASSUME NEW r \in [Steps -> Row], NEW ph \in TerminalPhases
  PROVE  Fits(r, Stop(r, ph)) /\ Plain(Stop(r, ph))
<1> DEFINE d == Stop(r, ph)
<1>1. /\ d.activate = {} /\ d.children = {} /\ d.terminal = ph /\ Plain(d)
      /\ d.status = "none" /\ d.cancel = ActiveSteps(r)
  BY DEF Stop, Cancel, NoCommands, Plain
<1> HIDE DEF d
<1>2. ActiveSteps(Persist(r, d, {})) = {}
  <2>1. Persist(r, d, {}) = [s \in Steps |-> IF s \in ActiveSteps(r) THEN [r[s] EXCEPT !.status = "cancelled"] ELSE r[s]]
    BY <1>1 DEF Persist
  <2>2. ASSUME NEW s \in Steps PROVE [r[s] EXCEPT !.status = "cancelled"].status \notin Active
    BY DEF Row, Active
  <2> QED  BY <2>1, <2>2 DEF ActiveSteps
<1>3. d.terminal # "none"  BY <1>1 DEF TerminalPhases
<1> QED  BY <1>1, <1>2, <1>3 DEF Fits, d

-----------------------------------------------------------------------------
(* Flows without hooks keep the contract of a run. *)

\* The strengthening that is inductive: types, coherence, and no hook batch.
IInv == /\ TypeOK
        /\ Coherent
        /\ hooks = {}
        /\ turn.held => Plain(turn.cmds)

\* A submitted event starts a turn that fits, or changes nothing.
LEMMA SubmitKeeps ==
  ASSUME IInv, NEW c \in Commands, Submit(c, hooks), Fits(rows, c), Plain(c),
         UNCHANGED store
  PROVE  Coherent' /\ hooks' = {} /\ (turn'.held => Plain(turn'.cmds))
<1>1. c.gate = "none"  BY DEF Plain
<1>2. hooks' = {}  BY <1>1 DEF Submit, Drive, IInv
<1>3. \/ turn' = turn
      \/ turn' = Held(c) /\ phase = "running"
  BY <1>1 DEF Submit, Drive
<1>4. Held(c).held /\ Held(c).cmds = c  BY DEF Held
<1>5. TurnFits' /\ (turn'.held => Plain(turn'.cmds))
  BY <1>3, <1>4 DEF IInv, Coherent, TurnFits, store
<1> QED  BY <1>2, <1>5 DEF IInv, Coherent, SubflowOnce, RunningHasActive, TerminalHasNoActive, EndReported, store

\* Nothing but a task's or a job's state changes.
LEMMA QuietKeeps ==
  ASSUME IInv, UNCHANGED <<store, turn, hooks>>
  PROVE  Coherent' /\ hooks' = {} /\ (turn'.held => Plain(turn'.cmds))
BY DEF IInv, Coherent, TurnFits, SubflowOnce, RunningHasActive, TerminalHasNoActive, EndReported, store

\* A turn is given up.
LEMMA IdleKeeps ==
  ASSUME IInv, UNCHANGED store, turn' = Idle, hooks' = {}
  PROVE  Coherent' /\ hooks' = {} /\ (turn'.held => Plain(turn'.cmds))
BY DEF IInv, Coherent, TurnFits, SubflowOnce, RunningHasActive, TerminalHasNoActive, EndReported, store, Idle

LEMMA InsertFields ==
  ASSUME NEW row \in Row, NEW n \in Nat
  PROVE  /\ Insert(row, n).attempt >= row.attempt
         /\ n >= row.attempt => Insert(row, n).status = "running" /\ Insert(row, n).attempt = n
         /\ row.status # "none" => Insert(row, n).status # "none"
BY DEF Insert, Row

\* What one transaction does to one row.
LEMMA PersistRow ==
  ASSUME NEW r \in [Steps -> Row], NEW c \in Commands, NEW kids, NEW s \in Steps
  PROVE  LET new == Persist(r, c, kids)[s]
         IN  /\ s \in kids => new = Insert(r[s], 1)
             /\ s \notin kids => new.attempt = r[s].attempt
             /\ new.attempt >= r[s].attempt
             /\ r[s].status # "none" => new.status # "none"
<1>1. r[s] \in Row /\ c.status \in Status \cup {"none"}  BY DEF Commands
<1>2. \A st \in Status : [r[s] EXCEPT !.status = st].attempt = r[s].attempt
                         /\ [r[s] EXCEPT !.status = st].status = st
  BY <1>1 DEF Row
<1>3. "none" \notin Status  BY DEF Status, Terminal, Active
<1>4. Persist(r, c, kids)[s] =
        IF s \in kids THEN Insert(r[s], 1)
        ELSE IF s = c.step /\ c.status # "none" THEN [r[s] EXCEPT !.status = c.status]
        ELSE IF s \in c.cancel THEN [r[s] EXCEPT !.status = "cancelled"]
        ELSE r[s]
  BY DEF Persist
<1>5. r[s].attempt \in Nat  BY <1>1 DEF Row
<1>6. CASE s \in kids
  <2>1. Persist(r, c, kids)[s] = Insert(r[s], 1)  BY <1>4, <1>6
  <2>2. /\ Insert(r[s], 1).attempt >= r[s].attempt
        /\ r[s].status # "none" => Insert(r[s], 1).status # "none"
    BY <1>1, InsertFields
  <2> QED  BY <1>6, <2>1, <2>2
<1>7. CASE s \notin kids /\ s = c.step /\ c.status # "none"
  BY <1>1, <1>2, <1>3, <1>4, <1>5, <1>7
<1>8. CASE s \notin kids /\ ~(s = c.step /\ c.status # "none") /\ s \in c.cancel
  BY <1>2, <1>3, <1>4, <1>5, <1>8, StatusFacts
<1>9. CASE s \notin kids /\ ~(s = c.step /\ c.status # "none") /\ s \notin c.cancel
  BY <1>4, <1>5, <1>9
<1> QED  BY <1>6, <1>7, <1>8, <1>9

\* A flush of the turn with the activation of one step.
LEMMA ActivateKeeps ==
  ASSUME IInv, NEW a \in turn.cmds.activate, NEW kids \in SUBSET turn.cmds.children,
         ActivateStep(a, kids)
  PROVE  Coherent' /\ hooks' = {} /\ (turn'.held => Plain(turn'.cmds))
<1> DEFINE c == turn.cmds
           flushed == Persist(rows, c, kids)
<1>0. /\ rows \in [Steps -> Row] /\ turn \in Turn /\ c \in Commands
      /\ a \in Activation /\ a.step \in Steps /\ a.attempt \in Nat
  BY DEF IInv, TypeOK, Turn, Commands, Activation
<1>1. /\ turn.held /\ phase = "running" /\ Fits(rows, c) /\ Plain(c) /\ c.terminal = "none"
      /\ kids \subseteq Subflows /\ a.step \notin Subflows /\ a.attempt > rows[a.step].attempt
  BY <1>0 DEF IInv, Coherent, TurnFits, Fits, ActivateStep
<1>2. flushed \in [Steps -> Row]  BY <1>0, PersistTyped
<1>3. rows' = [flushed EXCEPT ![a.step] = Insert(flushed[a.step], a.attempt)]
  BY DEF ActivateStep
<1>4. /\ turn'.held /\ turn'.cmds.activate = c.activate \ {a} /\ turn'.cmds.children = c.children \ kids
      /\ turn'.cmds.status = "none" /\ turn'.cmds.cancel = {} /\ turn'.cmds.terminal = "none"
      /\ Plain(turn'.cmds)
  BY <1>0, <1>1 DEF ActivateStep, Turn, Commands, Plain
<1>5. rows'[a.step].status = "running"
  <2>1. flushed[a.step].attempt = rows[a.step].attempt  BY <1>0, <1>1, PersistRow
  <2>2. a.attempt >= flushed[a.step].attempt /\ flushed[a.step] \in Row
    BY <1>0, <1>1, <1>2, <2>1 DEF Row
  <2>3. Insert(flushed[a.step], a.attempt).status = "running"  BY <1>0, <2>2, InsertFields
  <2> QED  BY <1>0, <1>2, <1>3, <2>3
<1> HIDE DEF flushed
<1>6. \A s \in Steps : s # a.step => rows'[s] = flushed[s]  BY <1>0, <1>2, <1>3
<1>7. ActiveSteps(rows') # {}  BY <1>0, <1>5 DEF ActiveSteps, Active
<1>8. Persist(rows', turn'.cmds, {}) = rows'
  <2>1. DOMAIN rows' = Steps /\ rows' = [s \in Steps |-> rows'[s]]  BY <1>2, <1>3
  <2> QED  BY <1>4, <2>1 DEF Persist
<1>9. ASSUME NEW b \in turn'.cmds.activate
      PROVE  b.step \notin Subflows /\ b.attempt > rows'[b.step].attempt
  <2>1. b \in c.activate /\ b # a  BY <1>4
  <2>2. b \in Activation /\ b.step # a.step /\ b.step \notin Subflows /\ b.attempt > rows[b.step].attempt
    BY <1>0, <1>1, <2>1 DEF Fits, Commands
  <2>3. b.step \in Steps /\ b.step \notin kids  BY <1>1, <2>2 DEF Activation
  <2>4. flushed[b.step].attempt = rows[b.step].attempt  BY <1>0, <2>3, PersistRow DEF flushed
  <2> QED  BY <1>6, <2>2, <2>3, <2>4
<1>10. Fits(rows', turn'.cmds)
  <2>1. turn'.cmds.children \subseteq Subflows  BY <1>1, <1>4 DEF Fits
  <2>2. \A b, d \in turn'.cmds.activate : b.step = d.step => b = d  BY <1>1, <1>4 DEF Fits
  <2> QED  BY <1>4, <1>7, <1>8, <1>9, <2>1, <2>2 DEF Fits
<1>11. SubflowOnce'
  <2> SUFFICES ASSUME NEW s \in Subflows PROVE rows'[s].attempt <= 1  BY DEF SubflowOnce
  <2>1. s \in Steps /\ s # a.step /\ rows[s] \in Row /\ rows[s].attempt <= 1 /\ rows[s].attempt \in Nat
    BY <1>0, <1>1 DEF IInv, Coherent, SubflowOnce, Row
  <2>2. CASE s \in kids
    <3>1. flushed[s] = Insert(rows[s], 1)  BY <1>0, <2>1, <2>2, PersistRow DEF flushed
    <3>2. Insert(rows[s], 1).attempt = 1  BY <2>1, InsertFields
    <3> QED  BY <1>6, <2>1, <3>1, <3>2
  <2>3. CASE s \notin kids
    <3>1. flushed[s].attempt = rows[s].attempt  BY <1>0, <2>1, <2>3, PersistRow DEF flushed
    <3> QED  BY <1>6, <2>1, <3>1
  <2> QED  BY <2>2, <2>3
<1>12. phase' = phase /\ ended' = ended /\ hooks' = hooks  BY DEF ActivateStep
<1>13. TurnFits'  BY <1>1, <1>10, <1>12 DEF TurnFits
<1>14. RunningHasActive' /\ TerminalHasNoActive' /\ EndReported'
  BY <1>1, <1>7, <1>12 DEF IInv, Coherent, RunningHasActive, TerminalHasNoActive, EndReported
<1> QED  BY <1>4, <1>11, <1>12, <1>13, <1>14 DEF Coherent, IInv

\* The last transaction of a turn.
LEMMA FinishKeeps ==
  ASSUME IInv, FinishTurn
  PROVE  Coherent' /\ hooks' = {} /\ (turn'.held => Plain(turn'.cmds))
<1> DEFINE c == turn.cmds
<1>0. rows \in [Steps -> Row] /\ c \in Commands  BY DEF IInv, TypeOK, Turn
<1>1. /\ turn.held /\ phase = "running" /\ Fits(rows, c) /\ c.activate = {} /\ c.audit = FALSE
      /\ c.children \subseteq Subflows /\ c.children \subseteq Steps
  BY <1>0 DEF IInv, Coherent, TurnFits, Fits, Plain, FinishTurn, Commands
<1>2. rows' = Persist(rows, c, c.children) /\ turn' = Idle  BY DEF FinishTurn
<1>3. hooks' = {}  BY <1>1 DEF FinishTurn, IInv
<1>4. TurnFits' /\ (turn'.held => Plain(turn'.cmds))  BY <1>2 DEF TurnFits, Idle
<1>5. SubflowOnce'
  <2> SUFFICES ASSUME NEW s \in Subflows PROVE rows'[s].attempt <= 1  BY DEF SubflowOnce
  <2>1. s \in Steps /\ rows[s] \in Row /\ rows[s].attempt <= 1 /\ rows[s].attempt \in Nat
    BY <1>0 DEF IInv, Coherent, SubflowOnce, Row
  <2>2. CASE s \in c.children
    <3>1. rows'[s] = Insert(rows[s], 1)  BY <1>0, <1>2, <2>1, <2>2, PersistRow
    <3> QED  BY <2>1, <3>1, InsertFields
  <2>3. CASE s \notin c.children
    <3>1. rows'[s].attempt = rows[s].attempt  BY <1>0, <1>2, <2>1, <2>3, PersistRow
    <3> QED  BY <2>1, <3>1
  <2> QED  BY <2>2, <2>3
<1>6. CASE c.terminal = "none"
  <2>1. phase' = "running" /\ ended' = ended  BY <1>1, <1>6 DEF FinishTurn
  <2>2. Started(rows') => ActiveSteps(rows') # {}
    <3>1. CASE c.children = {}  BY <1>1, <1>2, <1>6, <3>1 DEF Fits
    <3>2. CASE c.children # {}
      <4>1. PICK k \in c.children : TRUE  BY <3>2
      <4>2. k \in Steps /\ k \in Subflows /\ rows[k] \in Row /\ rows[k].attempt <= 1
        BY <1>0, <1>1 DEF IInv, Coherent, SubflowOnce
      <4>3. rows'[k] = Insert(rows[k], 1)  BY <1>0, <1>2, <4>2, PersistRow
      <4>4. Insert(rows[k], 1).status = "running"  BY <4>2, InsertFields DEF Row
      <4> QED  BY <4>2, <4>3, <4>4 DEF ActiveSteps, Active
    <3> QED  BY <3>1, <3>2
  <2>3. RunningHasActive' /\ TerminalHasNoActive' /\ EndReported'
    BY <1>1, <2>1, <2>2 DEF IInv, Coherent, RunningHasActive, TerminalHasNoActive, EndReported
  <2> QED  BY <1>3, <1>4, <1>5, <2>3 DEF Coherent
<1>7. CASE c.terminal # "none"
  <2>1. phase' = c.terminal /\ ended' = Append(ended, c.terminal) /\ c.terminal \in TerminalPhases
    BY <1>0, <1>1, <1>7 DEF FinishTurn, Commands
  <2>2. ActiveSteps(rows') = {}  BY <1>1, <1>2, <1>7 DEF Fits
  <2>3. ended = <<>>  BY <1>1 DEF IInv, Coherent, EndReported
  <2>4. phase' # "running"  BY <2>1 DEF TerminalPhases
  <2>5. ended' = <<phase'>>  BY <2>1, <2>3
  <2>6. RunningHasActive' /\ TerminalHasNoActive' /\ EndReported'
    BY <2>2, <2>4, <2>5 DEF RunningHasActive, TerminalHasNoActive, EndReported
  <2> QED  BY <1>3, <1>4, <1>5, <2>6 DEF Coherent
<1> QED  BY <1>6, <1>7

\* Statuses and attempts are all Coherent looks at.
LEMMA JobIdKeeps ==
  ASSUME IInv, NEW t \in tasks, PersistJobId(t)
  PROVE  Coherent' /\ hooks' = {} /\ (turn'.held => Plain(turn'.cmds))
<1> DEFINE c == turn.cmds
<1>0. rows \in [Steps -> Row] /\ t.step \in Steps /\ c \in Commands
  BY DEF IInv, TypeOK, Task, Turn
<1>1. rows' = [rows EXCEPT ![t.step].job = rows[t.step].job \/ rows[t.step].attempt = t.attempt]
      /\ turn' = turn /\ phase' = phase /\ ended' = ended /\ hooks' = hooks
  BY DEF PersistJobId
<1>2. \A s \in Steps : rows'[s].status = rows[s].status /\ rows'[s].attempt = rows[s].attempt
  BY <1>0, <1>1 DEF Row
<1>3. rows' \in [Steps -> Row]
  <2>1. rows[t.step] \in Row  BY <1>0
  <2>2. \A b \in BOOLEAN : [rows[t.step] EXCEPT !.job = b] \in Row  BY <2>1 DEF Row
  <2>3. (rows[t.step].job \/ rows[t.step].attempt = t.attempt) \in BOOLEAN  BY <2>1 DEF Row
  <2> QED  BY <1>0, <1>1, <2>2, <2>3
<1>4. ActiveSteps(rows') = ActiveSteps(rows) /\ (Started(rows') <=> Started(rows))
  BY <1>2 DEF ActiveSteps, Started
<1>5. \A s \in Steps : Persist(rows', c, {})[s].status = Persist(rows, c, {})[s].status
  <2> SUFFICES ASSUME NEW s \in Steps
               PROVE  Persist(rows', c, {})[s].status = Persist(rows, c, {})[s].status
    OBVIOUS
  <2>1. rows[s] \in Row /\ rows'[s] \in Row /\ c.status \in Status \cup {"none"}
    BY <1>0, <1>3 DEF Commands
  <2>2. ASSUME NEW st \in Status
        PROVE  [rows'[s] EXCEPT !.status = st].status = st /\ [rows[s] EXCEPT !.status = st].status = st
    BY <2>1 DEF Row
  <2>3. CASE s = c.step /\ c.status # "none"  BY <2>1, <2>2, <2>3 DEF Persist
  <2>4. CASE ~(s = c.step /\ c.status # "none") /\ s \in c.cancel
    BY <2>2, <2>4, StatusFacts DEF Persist
  <2>5. CASE ~(s = c.step /\ c.status # "none") /\ s \notin c.cancel
    BY <1>2, <2>5 DEF Persist
  <2> QED  BY <2>3, <2>4, <2>5
<1>6. /\ ActiveSteps(Persist(rows', c, {})) = ActiveSteps(Persist(rows, c, {}))
      /\ Started(Persist(rows', c, {})) <=> Started(Persist(rows, c, {}))
  BY <1>5 DEF ActiveSteps, Started
<1>7. ASSUME Fits(rows, c) PROVE Fits(rows', c)
  <2>1. \A a \in c.activate : a.step \in Steps  BY <1>0 DEF Commands, Activation
  <2> QED  BY <1>2, <1>6, <1>7, <2>1 DEF Fits
<1>8. TurnFits'  BY <1>1, <1>7 DEF IInv, Coherent, TurnFits
<1>9. SubflowOnce'  BY <1>2 DEF IInv, Coherent, SubflowOnce
<1>10. RunningHasActive' /\ TerminalHasNoActive' /\ EndReported'
  BY <1>1, <1>4 DEF IInv, Coherent, RunningHasActive, TerminalHasNoActive, EndReported
<1> QED  BY <1>1, <1>8, <1>9, <1>10 DEF Coherent, IInv

LEMMA InitCoherent == Init => IInv
<1> SUFFICES ASSUME Init PROVE IInv  OBVIOUS
<1>1. TypeOK  BY InitTyped
<1>2. \A s \in Steps : rows[s].status = "none" /\ rows[s].attempt = 0  BY DEF Init, NoRow
<1>3. TurnFits /\ (turn.held => Plain(turn.cmds))  BY DEF Init, Idle, TurnFits
<1>4. SubflowOnce  BY <1>2 DEF SubflowOnce
<1>5. RunningHasActive /\ TerminalHasNoActive /\ EndReported
  BY <1>2 DEF Init, RunningHasActive, TerminalHasNoActive, EndReported, Started
<1> QED  BY <1>1, <1>3, <1>4, <1>5 DEF IInv, Coherent, Init

LEMMA NextCoherent == ASSUME Hookless PROVE IInv /\ [Next]_vars => IInv'
<1> SUFFICES ASSUME IInv, [Next]_vars PROVE IInv'  OBVIOUS
<1> DEFINE Kept == Coherent' /\ hooks' = {} /\ (turn'.held => Plain(turn'.cmds))
<1>0. TypeOK' /\ TypeOK /\ rows \in [Steps -> Row] /\ hooks = {}
  BY NextTyped DEF IInv, TypeOK
<1> SUFFICES Kept  BY <1>0 DEF IInv
<1>1. ASSUME NEW s \in Steps, CancelJob(s) \/ AbortTask(s) PROVE Kept
  <2>1. turn'.held = turn.held /\ turn'.cmds = turn.cmds
    BY <1>0, <1>1 DEF CancelJob, AbortTask, TypeOK, Turn
  <2> QED  BY <1>1, <2>1
       DEF CancelJob, AbortTask, IInv, Coherent, TurnFits, SubflowOnce, RunningHasActive,
           TerminalHasNoActive, EndReported, store
<1>2. ASSUME NEW a \in turn.cmds.activate, NEW kids \in SUBSET turn.cmds.children, ActivateStep(a, kids)
      PROVE  Kept
  BY <1>2, ActivateKeeps
<1>3. ASSUME NEW a \in turn.cmds.activate, ActivationFails(a) PROVE Kept
  BY <1>0, <1>3, IdleKeeps DEF ActivationFails
<1>4. CASE FinishTurn
  BY <1>4, FinishKeeps
<1>5. CASE RunStarted
  <2>1. CASE phase = "running"
    <3>1. Started(rows) => ActiveSteps(rows) # {}  BY <2>1 DEF IInv, Coherent, RunningHasActive
    <3> QED  BY <1>0, <1>5, <3>1, RunStartedTyped, RunStartedFits, SubmitKeeps DEF RunStarted
  <2>2. CASE phase # "running"
    BY <1>5, <2>2, QuietKeeps DEF RunStarted, Submit, store
  <2> QED  BY <2>1, <2>2
<1>6. ASSUME NEW t \in tasks, TaskSubmits(t) PROVE Kept
  <2>1. t.step \in Steps  BY <1>0 DEF TypeOK, Task
  <2> QED  BY <1>0, <1>6, <2>1, StepCompletedTyped, StepFailedTyped, StepCompletedFits, StepFailedFits,
              SubmitKeeps DEF TaskSubmits
<1>7. ASSUME NEW s \in Steps, FollowOnSubmits(s) PROVE Kept
  BY <1>0, <1>7, StepFailedTyped, StepFailedFits, SubmitKeeps DEF FollowOnSubmits
<1>8. CASE CancelRequested \/ DeadlineExceeded
  BY <1>0, <1>8, StopTyped, StopFits, StatusFacts, SubmitKeeps DEF CancelRequested, DeadlineExceeded
<1>9. ASSUME NEW c \in Clients, NEW s \in Steps, NEW type \in {"step_approved", "step_rejected"},
             ResolveApproval(c, s, type)
      PROVE  Kept
  BY <1>9, QuietKeeps DEF ResolveApproval
<1>10. ASSUME NEW c \in Clients, SubmitApproval(c) PROVE Kept
  <2>1. clients[c].step \in Steps  BY <1>0, <1>10 DEF SubmitApproval, TypeOK, Call
  <2> QED  BY <1>0, <1>10, <2>1, StepApprovedTyped, StepRejectedTyped, StepApprovedFits, StepRejectedFits,
              SubmitKeeps DEF SubmitApproval
<1>11. ASSUME NEW h \in hooks PROVE FALSE  BY <1>0, <1>11
<1>12. ASSUME NEW t \in tasks, TaskStep(t) PROVE Kept
  <2>1. CASE PersistJobId(t)  BY <2>1, JobIdKeeps
  <2>2. CASE StartJob(t) \/ StartFails(t) \/ JobCompletes(t) \/ JobFails(t) \/ WaitGivesUp(t)
    BY <2>2, QuietKeeps DEF StartJob, StartFails, JobCompletes, JobFails, WaitGivesUp
  <2> QED  BY <1>12, <2>1, <2>2 DEF TaskStep
<1>13. CASE Crash
  BY <1>13, IdleKeeps DEF Crash
<1>14. CASE Boot \/ Serve
  BY <1>14, QuietKeeps DEF Boot, Serve
<1>15. ASSUME NEW p \in plan, Reattach(p) PROVE Kept
  BY <1>15, QuietKeeps DEF Reattach
<1>16. ASSUME NEW p \in plan, RecoverBySubmit(p) PROVE Kept
  <2>1. p.kind = "fail" => p.step \in Steps  BY <1>0 DEF TypeOK, Plan, Restart
  <2>2. CASE phase = "running"
    <3>1. Started(rows) => ActiveSteps(rows) # {}  BY <2>2 DEF IInv, Coherent, RunningHasActive
    <3> QED  BY <1>0, <1>16, <2>1, <3>1, RunStartedTyped, StepFailedTyped, RunStartedFits, StepFailedFits,
                SubmitKeeps DEF RecoverBySubmit
  <2>3. CASE phase # "running"
    BY <1>16, <2>3, QuietKeeps DEF RecoverBySubmit, Submit, store
  <2> QED  BY <2>2, <2>3
<1>17. CASE UNCHANGED vars
  BY <1>17, QuietKeeps DEF vars, store
<1> QED
  BY <1>1, <1>2, <1>3, <1>4, <1>5, <1>6, <1>7, <1>8, <1>9, <1>10, <1>11, <1>12, <1>13, <1>14,
     <1>15, <1>16, <1>17
  DEF Next, LockStep, Recover, Ended

\* In a flow without hooks, whatever its steps, routes, retries and clients and
\* however often the runtime crashes: a turn of the lock holder always adds up
\* with the rows it is applied to, a running run that has been started has an
\* active step, a run that ended has none, and its end is reported once.
THEOREM CoherentAlways == ASSUME Hookless PROVE Spec => []Coherent
<1>1. Init => IInv  BY InitCoherent
<1>2. IInv /\ [Next]_vars => IInv'  BY NextCoherent
<1>3. IInv => Coherent  BY DEF IInv
<1> QED  BY <1>1, <1>2, <1>3, PTL DEF Spec

-----------------------------------------------------------------------------
(* What one step does, seen from outside: nothing, or progress of a running run. *)

Same == /\ phase' = phase /\ ended' = ended
        /\ \A s \in Steps : rows'[s].status = rows[s].status /\ rows'[s].attempt = rows[s].attempt

Grows == /\ phase = "running"
         /\ \A s \in Steps : /\ rows[s].status # "none" => rows'[s].status # "none"
                             /\ rows[s].attempt <= rows'[s].attempt
         /\ \/ phase' = phase /\ ended' = ended
            \/ phase' \in TerminalPhases /\ ended' = Append(ended, phase')

LEMMA StepSeen ==
  ASSUME IInv, [Next]_vars
  PROVE  Same \/ Grows
<1>0. /\ TypeOK /\ rows \in [Steps -> Row] /\ hooks = {} /\ turn.cmds \in Commands
      /\ \A s \in Steps : rows[s].attempt \in Nat
      /\ turn.held => phase = "running"
  BY DEF IInv, TypeOK, Turn, Row, Coherent, TurnFits
<1>1. ASSUME UNCHANGED store PROVE Same  BY <1>1 DEF Same, store
<1>2. ASSUME NEW a \in turn.cmds.activate, NEW kids \in SUBSET turn.cmds.children, ActivateStep(a, kids)
      PROVE  Grows
  <2> DEFINE flushed == Persist(rows, turn.cmds, kids)
  <2>1. a.step \in Steps /\ a.attempt \in Nat  BY <1>0 DEF Commands, Activation
  <2>2. flushed \in [Steps -> Row]  BY <1>0, PersistTyped
  <2>3. rows' = [flushed EXCEPT ![a.step] = Insert(flushed[a.step], a.attempt)]
        /\ turn.held /\ phase' = phase /\ ended' = ended
    BY <1>2 DEF ActivateStep
  <2>4. \A s \in Steps : flushed[s].attempt >= rows[s].attempt
                         /\ (rows[s].status # "none" => flushed[s].status # "none")
    BY <1>0, PersistRow
  <2> HIDE DEF flushed
  <2>5. ASSUME NEW s \in Steps
        PROVE  /\ rows[s].status # "none" => rows'[s].status # "none"
               /\ rows[s].attempt <= rows'[s].attempt
    <3>1. CASE s # a.step  BY <1>0, <2>1, <2>2, <2>3, <2>4, <3>1
    <3>2. CASE s = a.step
      <4>1. rows'[s] = Insert(flushed[s], a.attempt)  BY <2>1, <2>2, <2>3, <3>2
      <4>2. flushed[s] \in Row /\ flushed[s].attempt \in Nat  BY <2>2 DEF Row
      <4>3. /\ Insert(flushed[s], a.attempt).attempt >= flushed[s].attempt
            /\ flushed[s].status # "none" => Insert(flushed[s], a.attempt).status # "none"
            /\ Insert(flushed[s], a.attempt).attempt \in Nat
        BY <2>1, <4>2, InsertFields DEF Insert
      <4> QED  BY <1>0, <2>4, <4>1, <4>2, <4>3
    <3> QED  BY <3>1, <3>2
  <2> QED  BY <1>0, <2>3, <2>5 DEF Grows
<1>3. ASSUME FinishTurn PROVE Grows
  <2> DEFINE c == turn.cmds
  <2>1. turn.held /\ phase = "running" /\ rows' = Persist(rows, c, c.children)  BY <1>0, <1>3 DEF FinishTurn
  <2>2. \A s \in Steps : rows'[s].attempt >= rows[s].attempt
                         /\ (rows[s].status # "none" => rows'[s].status # "none")
    BY <1>0, <2>1, PersistRow
  <2>3. rows' \in [Steps -> Row]  BY <1>0, <2>1, PersistTyped
  <2>4. \A s \in Steps : rows'[s].attempt \in Nat  BY <2>3 DEF Row
  <2>5. \/ phase' = phase /\ ended' = ended
        \/ phase' = c.terminal /\ c.terminal # "none" /\ ended' = Append(ended, c.terminal)
    BY <1>3 DEF FinishTurn
  <2>6. c.terminal \in TerminalPhases \cup {"none"}  BY <1>0 DEF Commands
  <2> QED  BY <1>0, <2>1, <2>2, <2>4, <2>5, <2>6 DEF Grows
<1>4. ASSUME NEW t \in tasks, PersistJobId(t) PROVE Same
  <2>1. rows' = [rows EXCEPT ![t.step].job = rows[t.step].job \/ rows[t.step].attempt = t.attempt]
        /\ phase' = phase /\ ended' = ended
    BY <1>4 DEF PersistJobId
  <2>2. t.step \in Steps  BY <1>0 DEF TypeOK, Task
  <2> QED  BY <1>0, <2>1, <2>2 DEF Same, Row
<1>5. ASSUME NEW t \in tasks, TaskStep(t) PROVE Same
  <2>1. CASE StartJob(t) \/ StartFails(t) \/ JobCompletes(t) \/ JobFails(t) \/ WaitGivesUp(t)
    BY <1>1, <2>1 DEF StartJob, StartFails, JobCompletes, JobFails, WaitGivesUp
  <2> QED  BY <1>4, <1>5, <2>1 DEF TaskStep
<1>6. ASSUME LockStep PROVE Same \/ Grows
  <2>1. ASSUME NEW s \in Steps, CancelJob(s) \/ AbortTask(s) PROVE Same  BY <1>1, <2>1 DEF CancelJob, AbortTask
  <2>2. ASSUME NEW a \in turn.cmds.activate, ActivationFails(a) PROVE Same
    BY <1>1, <2>2 DEF ActivationFails
  <2> QED  BY <1>2, <1>3, <1>6, <2>1, <2>2 DEF LockStep
<1>7. ASSUME RunStarted \/ CancelRequested \/ DeadlineExceeded \/ Crash PROVE Same
  BY <1>1, <1>7 DEF RunStarted, CancelRequested, DeadlineExceeded, Crash
<1>8. ASSUME NEW t \in tasks, TaskSubmits(t) PROVE Same  BY <1>1, <1>8 DEF TaskSubmits
<1>9. ASSUME NEW s \in Steps, FollowOnSubmits(s) PROVE Same  BY <1>1, <1>9 DEF FollowOnSubmits
<1>10. ASSUME NEW c \in Clients, NEW s \in Steps, NEW type \in {"step_approved", "step_rejected"},
              ResolveApproval(c, s, type) \/ SubmitApproval(c)
       PROVE  Same
  BY <1>1, <1>10 DEF ResolveApproval, SubmitApproval
<1>11. ASSUME Recover PROVE Same
  BY <1>1, <1>11 DEF Recover, Boot, Serve, Reattach, RecoverBySubmit
<1>12. ASSUME UNCHANGED vars PROVE Same  BY <1>1, <1>12 DEF vars, store
<1>13. ASSUME NEW c \in Clients, SubmitApproval(c) PROVE Same  BY <1>1, <1>13 DEF SubmitApproval
<1>14. CASE UNCHANGED vars  BY <1>12, <1>14
<1>15. CASE Next
  <2>1. ~ \E h \in hooks : HookStep(h)  BY <1>0
  <2> QED
    BY <1>5, <1>6, <1>7, <1>8, <1>9, <1>10, <1>11, <1>12, <1>13, <1>15, <2>1 DEF Next, Ended
<1> QED  BY <1>14, <1>15

\* Once a run without hooks has ended, nothing of it changes.
THEOREM EndsForGood == ASSUME Hookless PROVE Spec => EndIsFinal
<1>1. Init => IInv  BY InitCoherent
<1>2. IInv /\ [Next]_vars => IInv'  BY NextCoherent
<1> DEFINE Frozen == phase # "running" => /\ phase' = phase
                                          /\ ended' = ended
                                          /\ \A s \in Steps : rows'[s].status = rows[s].status
<1>3. IInv /\ [Next]_vars => [Frozen]_vars  BY StepSeen DEF Same, Grows
<1>4. [][Frozen]_vars => EndIsFinal  BY DEF EndIsFinal
<1> HIDE DEF Frozen
<1> QED  BY <1>1, <1>2, <1>3, <1>4, PTL DEF Spec

LEMMA ContractInit == Init => Contract!Init
<1> SUFFICES ASSUME Init PROVE Contract!Init  OBVIOUS
<1>1. \A s \in Steps : rows[s].status = "none" /\ rows[s].attempt = 0  BY DEF Init, NoRow
<1> QED  BY <1>1 DEF Init, Contract!Init

LEMMA ContractNext ==
  ASSUME IInv, IInv', [Next]_vars
  PROVE  [Contract!Next]_(Contract!vars)
<1> DEFINE status  == [s \in Steps |-> rows[s].status]
           attempt == [s \in Steps |-> rows[s].attempt]
<1>0. rows \in [Steps -> Row] /\ rows' \in [Steps -> Row]  BY DEF IInv, TypeOK
<1>1. CASE Same
  <2>1. status' = status /\ attempt' = attempt  BY <1>1 DEF Same
  <2> QED  BY <1>1, <2>1 DEF Same, Contract!vars
<1>2. CASE Grows
  <2>1. Contract!StepsMove
    <3>1. status' \in [Steps -> Active \cup Terminal \cup {"none"}] /\ attempt' \in [Steps -> Nat]
      BY <1>0 DEF Row, Status
    <3> QED  BY <1>2, <3>1 DEF Grows, Contract!StepsMove, Contract!StartedIn
  <2>2. CASE phase' = phase /\ ended' = ended
    <3>1. Started(rows') => ActiveSteps(rows') # {}
      BY <1>2, <2>2 DEF Grows, IInv, Coherent, RunningHasActive
    <3>2. Contract!StartedIn(status') # {} => Contract!ActiveIn(status') # {}
      BY <3>1 DEF Started, ActiveSteps, Contract!StartedIn, Contract!ActiveIn
    <3> QED  BY <2>1, <2>2, <3>2 DEF Contract!Work, Contract!Next
  <2>3. CASE phase' \in TerminalPhases /\ ended' = Append(ended, phase')
    <3>1. phase' # "running"  BY <2>3 DEF TerminalPhases
    <3>2. ActiveSteps(rows') = {}  BY <3>1 DEF IInv, Coherent, TerminalHasNoActive
    <3>3. Contract!ActiveIn(status') = {}  BY <3>2 DEF ActiveSteps, Contract!ActiveIn
    <3>4. PICK ph \in TerminalPhases : ph = phase'  BY <2>3
    <3>5. Contract!End(ph)  BY <2>1, <2>3, <3>3, <3>4 DEF Contract!End
    <3>6. Contract!Next  BY <3>5 DEF Contract!Next
    <3> QED  BY <3>6
  <2> QED  BY <1>2, <2>2, <2>3 DEF Grows
<1> QED  BY <1>1, <1>2, StepSeen

\* In a flow without hooks the scheduler, with its tasks, crashes, recoveries
\* and racing approvals, implements the contract of a run.
THEOREM KeepsItsContract == ASSUME Hookless PROVE Spec => KeepsContract
<1>1. Init => IInv  BY InitCoherent
<1>2. IInv /\ [Next]_vars => IInv'  BY NextCoherent
<1>3. Init => Contract!Init  BY ContractInit
<1>4. IInv /\ IInv' /\ [Next]_vars => [Contract!Next]_(Contract!vars)  BY ContractNext
<1> QED  BY <1>1, <1>2, <1>3, <1>4, PTL DEF Spec, KeepsContract, Contract!Spec

\* A task is spawned by the holder of the lock, for a new attempt.
LEMMA Spawns ==
  ASSUME IInv, Next
  PROVE  \A t \in tasks' \ tasks :
           t.pc = "starting" => turn.held /\ t.attempt > rows[t.step].attempt
<1> DEFINE Fresh == \A t \in tasks' \ tasks :
                      t.pc = "starting" => turn.held /\ t.attempt > rows[t.step].attempt
<1>1. ASSUME tasks' \subseteq tasks PROVE Fresh  BY <1>1
<1>2. ASSUME NEW a \in turn.cmds.activate, NEW kids \in SUBSET turn.cmds.children, ActivateStep(a, kids)
      PROVE  Fresh
  <2>1. turn.held /\ a.attempt > rows[a.step].attempt
    BY <1>2 DEF ActivateStep, IInv, Coherent, TurnFits, Fits
  <2> QED  BY <1>2, <2>1 DEF ActivateStep
<1>3. ASSUME NEW t \in tasks, NEW pc \in {"persisting", "waiting", "completed", "failed"}, Move(t, pc)
      PROVE  Fresh
  <2>1. t \in Task  BY DEF IInv, TypeOK
  <2>2. [t EXCEPT !.pc = pc].pc = pc  BY <2>1 DEF Task
  <2> QED  BY <1>3, <2>2 DEF Move
<1>4. ASSUME NEW t \in tasks, TaskStep(t) \/ TaskSubmits(t) PROVE Fresh
  BY <1>1, <1>3, <1>4
  DEF TaskStep, TaskSubmits, StartJob, StartFails, PersistJobId, JobCompletes, JobFails, WaitGivesUp
<1>5. ASSUME NEW p \in plan, Reattach(p) PROVE Fresh  BY <1>5 DEF Reattach
<1>6. ASSUME NEW p \in plan, RecoverBySubmit(p) PROVE Fresh  BY <1>1, <1>6 DEF RecoverBySubmit
<1>7. ASSUME LockStep PROVE Fresh
  <2>1. ASSUME NEW s \in Steps, CancelJob(s) \/ AbortTask(s) PROVE Fresh  BY <1>1, <2>1 DEF CancelJob, AbortTask
  <2>2. ASSUME NEW a \in turn.cmds.activate, ActivationFails(a) PROVE Fresh
    BY <1>1, <2>2 DEF ActivationFails
  <2>3. ASSUME FinishTurn PROVE Fresh  BY <1>1, <2>3 DEF FinishTurn
  <2> QED  BY <1>2, <1>7, <2>1, <2>2, <2>3 DEF LockStep
<1>8. ASSUME RunStarted \/ CancelRequested \/ DeadlineExceeded \/ Crash \/ Boot \/ Serve \/ Ended PROVE Fresh
  BY <1>1, <1>8 DEF RunStarted, CancelRequested, DeadlineExceeded, Crash, Boot, Serve, Ended, vars
<1>9. ASSUME NEW s \in Steps, FollowOnSubmits(s) PROVE Fresh  BY <1>1, <1>9 DEF FollowOnSubmits
<1>10. ASSUME NEW c \in Clients, SubmitApproval(c) PROVE Fresh  BY <1>1, <1>10 DEF SubmitApproval
<1>11. ASSUME NEW c \in Clients, NEW s \in Steps, NEW type \in {"step_approved", "step_rejected"},
              ResolveApproval(c, s, type)
       PROVE  Fresh
  BY <1>1, <1>11 DEF ResolveApproval
<1>12. ~ \E h \in hooks : HookStep(h)  BY DEF IInv
<1> QED
  BY <1>4, <1>5, <1>6, <1>7, <1>8, <1>9, <1>10, <1>11, <1>12 DEF Next, Recover

\* In a flow without hooks, whatever is spawned runs an attempt no earlier task
\* of the step has run.
THEOREM AttemptsAreFresh == ASSUME Hookless PROVE Spec => FreshAttempts
<1>1. Init => IInv  BY InitCoherent
<1>2. IInv /\ [Next]_vars => IInv'  BY NextCoherent
<1> DEFINE Fresh == \A t \in tasks' \ tasks : t.pc = "starting" => t.attempt > rows[t.step].attempt
<1>3. IInv /\ [Next]_vars => [Fresh]_vars  BY Spawns
<1>4. [][Fresh]_vars => FreshAttempts  BY DEF FreshAttempts
<1> HIDE DEF Fresh
<1> QED  BY <1>1, <1>2, <1>3, <1>4, PTL DEF Spec

\* In a flow without hooks, whichever of the ends that race for a run comes
\* first, no later event changes a step or spawns a task.
THEOREM EndStopsEverything == ASSUME Hookless PROVE Spec => EndStops
<1>1. Init => IInv  BY InitCoherent
<1>2. IInv /\ [Next]_vars => IInv'  BY NextCoherent
<1> DEFINE Stopped == phase # "running" => /\ \A s \in Steps : rows'[s].status = rows[s].status
                                           /\ \A t \in tasks' \ tasks : t.pc # "starting"
<1>3. IInv /\ [Next]_vars => [Stopped]_vars
  <2> SUFFICES ASSUME IInv, Next, phase # "running" PROVE Stopped  OBVIOUS
  <2>1. ~ turn.held  BY DEF IInv, Coherent, TurnFits
  <2> QED  BY <2>1, Spawns, StepSeen DEF Same, Grows
<1>4. [][Stopped]_vars => EndStops  BY DEF EndStops
<1> HIDE DEF Stopped
<1> QED  BY <1>1, <1>2, <1>3, <1>4, PTL DEF Spec
=============================================================================
