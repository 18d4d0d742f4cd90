------------------------------ MODULE Scheduler ------------------------------
(***************************************************************************)
(* One run under crates/flowspec-app/src/scheduler.rs: the per-run lock,   *)
(* the execution of the engine's commands, the step, hook, approval and    *)
(* deadline tasks that submit events, and the boot recovery of             *)
(* recovery.rs.  The state store is the latest row of every step plus the  *)
(* phase; devkitd is the set of jobs it is running.                        *)
(***************************************************************************)
EXTENDS FlowEngine, Sequences

CONSTANTS
  Clients,      \* concurrent callers of approve_step / reject_step
  BadWith,      \* steps whose resolved with: block cannot be built
  HasTimeout,   \* whether the flow has a timeout:
  Unreachable,  \* whether devkitd can be unreachable
  MaxAttempt,   \* bound: a job or human only fails attempts below it
  MaxCrashes    \* bound on the crashes and shutdowns of the runtime

ASSUME SchedulerAssumption ==
  /\ BadWith \subseteq Steps
  /\ HasTimeout \in BOOLEAN
  /\ Unreachable \in BOOLEAN
  /\ MaxAttempt \in Nat
  /\ MaxCrashes \in Nat

VARIABLES
  rows,       \* step_runs: the latest row of every step
  phase,      \* runs.phase
  ended,      \* outbox: the run_completed/run_failed/run_cancelled events
  turn,       \* what the holder of the run lock has left to do
  tasks,      \* spawn_step_task and spawn_reattach_task
  jobs,       \* the devkitd jobs that are alive
  hooks,      \* hook batches in flight with their continuation
  clients,    \* approvals: step found waiting, or event submitted
  followOns,  \* subflow steps whose StepFailed follow-on is to be submitted
  starting,   \* start_flow has not submitted RunStarted yet
  plan,       \* what is left of the recovery plan
  mode,       \* up, down, or booting (recover() before serving)
  crashes

store == <<rows, phase, ended>>
vars  == <<rows, phase, ended, turn, tasks, jobs, hooks, clients, followOns,
           starting, plan, mode, crashes>>

Key  == [step : Steps, attempt : Nat]
Task == [step : Steps, attempt : Nat, reattached : BOOLEAN,
         pc : {"starting", "persisting", "waiting", "completed", "failed"}]
Hook == {h \in [kind : {"before_run", "after_step", "after_run"}, rest : Commands] :
           h.kind = "after_step" => h.rest.step \in Steps}
\* kill: the jobs still to be cancelled; abort: the one whose cancel is answered.
Turn == [held : BOOLEAN, cmds : Commands, kill : SUBSET Steps, abort : SUBSET Steps,
         followOns : SUBSET Steps]

\* The state of one approval call: none, waiting for its turn to end, or the
\* event it is about to submit.
NoCall == [step |-> NoStep, type |-> "none"]
InTurn == [step |-> NoStep, type |-> "submitted"]
Call   == {NoCall, InTurn} \cup [step : Steps, type : {"step_approved", "step_rejected"}]

Restart == [kind |-> "restart", step |-> NoStep, attempt |-> 0]
Plan    == {Restart} \cup [kind : {"reattach", "fail"}, step : Steps, attempt : Nat]

Idle   == [held |-> FALSE, cmds |-> NoCommands, kill |-> {}, abort |-> {}, followOns |-> {}]

Init ==
  /\ rows = [s \in Steps |-> NoRow]
  /\ phase = "running"
  /\ ended = <<>>
  /\ turn = Idle
  /\ tasks = {}
  /\ jobs = {}
  /\ hooks = {}
  /\ clients = [c \in Clients |-> NoCall]
  /\ followOns = {}
  /\ starting = TRUE
  /\ plan = {}
  /\ mode = "up"
  /\ crashes = 0

-----------------------------------------------------------------------------
(* Writing rows *)

KeyOf(t) == [step |-> t.step, attempt |-> t.attempt]

\* INSERT OR REPLACE of (step, attempt); an older attempt stays hidden.
Insert(row, attempt) ==
  IF attempt >= row.attempt THEN [status |-> "running", attempt |-> attempt, job |-> FALSE]
  ELSE row

\* One transaction: subflow rows, the marked step and the cancelled steps.
Persist(r, c, kids) ==
  [s \in Steps |->
     IF s \in kids THEN Insert(r[s], 1)
     ELSE IF s = c.step /\ c.status # "none" THEN [r[s] EXCEPT !.status = c.status]
     ELSE IF s \in c.cancel THEN [r[s] EXCEPT !.status = "cancelled"]
     ELSE r[s]]

-----------------------------------------------------------------------------
(* Entering the run lock *)

Free == mode # "down" /\ ~turn.held

\* Everything CancelSteps looks up is read when the lock is taken: a job
\* whose id is not persisted by then is neither cancelled nor aborted.
Held(c) ==
  [held |-> TRUE, cmds |-> c, kill |-> {s \in c.cancel : rows[s].job}, abort |-> {},
   followOns |-> c.children]

\* drive_commands: commands behind leading hooks wait for the batch.
Drive(c, hs) ==
  IF c.error THEN UNCHANGED turn /\ hooks' = hs
  ELSE IF c.gate # "none"
       THEN /\ hooks' = hs \cup {[kind |-> c.gate, rest |-> [c EXCEPT !.gate = "none"]]}
            /\ UNCHANGED turn
       ELSE turn' = Held(c) /\ hooks' = hs

\* Mutant: events of a run that has ended are processed.
SubmitLate(c, hs) == Free /\ Drive(c, hs)

\* submit: the engine has decided c on the rows of now; an event for a run
\* that has ended is dropped.
Submit(c, hs) ==
  /\ Free
  /\ IF phase = "running" THEN Drive(c, hs) ELSE UNCHANGED turn /\ hooks' = hs

RunStarted ==
  /\ starting
  /\ Submit(OnRunStarted(rows), hooks)
  /\ starting' = FALSE
  /\ UNCHANGED <<store, tasks, jobs, clients, followOns, plan, mode, crashes>>

TaskSubmits(t) ==
  /\ t.pc \in {"completed", "failed"}
  /\ Submit(IF t.pc = "completed" THEN OnStepCompleted(rows, t.step)
            ELSE OnStepFailed(rows, t.step), hooks)
  /\ tasks' = tasks \ {t}
  /\ UNCHANGED <<store, jobs, clients, followOns, starting, plan, mode, crashes>>

FollowOnSubmits(s) ==
  /\ s \in followOns
  /\ Submit(OnStepFailed(rows, s), hooks)
  /\ followOns' = followOns \ {s}
  /\ UNCHANGED <<store, tasks, jobs, clients, starting, plan, mode, crashes>>

CancelRequested ==
  /\ mode = "up"
  /\ phase = "running"
  /\ Submit(Stop(rows, "cancelled"), hooks)
  /\ UNCHANGED <<store, tasks, jobs, clients, followOns, starting, plan, mode, crashes>>

DeadlineExceeded ==
  /\ mode = "up"
  /\ HasTimeout
  /\ phase = "running"
  /\ Submit(Stop(rows, "failed"), hooks)
  /\ UNCHANGED <<store, tasks, jobs, clients, followOns, starting, plan, mode, crashes>>

-----------------------------------------------------------------------------
(* Approvals: the waiting step is looked up outside the lock, the event is *)
(* submitted later.                                                        *)

\* Mutant: any active step can be approved or rejected.
ResolveAnyActive(c, s, type) ==
  /\ mode = "up"
  /\ clients[c] = NoCall
  /\ rows[s].status \in Active
  /\ type = "step_rejected" => rows[s].attempt < MaxAttempt
  /\ clients' = [clients EXCEPT ![c] = [step |-> s, type |-> type]]
  /\ UNCHANGED <<store, turn, tasks, jobs, hooks, followOns, starting, plan, mode, crashes>>

ResolveApproval(c, s, type) ==
  /\ mode = "up"
  /\ clients[c] = NoCall
  /\ rows[s].status = "waiting_approval"
  /\ type = "step_rejected" => rows[s].attempt < MaxAttempt
  /\ clients' = [clients EXCEPT ![c] = [step |-> s, type |-> type]]
  /\ UNCHANGED <<store, turn, tasks, jobs, hooks, followOns, starting, plan, mode, crashes>>

SubmitApproval(c) ==
  /\ clients[c] \notin {NoCall, InTurn}
  /\ Submit(IF clients[c].type = "step_approved" THEN OnStepApproved(rows, clients[c].step)
            ELSE OnStepRejected(rows, clients[c].step), hooks)
  /\ clients' = [clients EXCEPT ![c] = IF turn'.held THEN InTurn ELSE NoCall]
  /\ UNCHANGED <<store, tasks, jobs, followOns, starting, plan, mode, crashes>>

\* submit returns to the caller once the turn is over.
Return == [c \in Clients |-> IF clients[c] = InTurn THEN NoCall ELSE clients[c]]

-----------------------------------------------------------------------------
(* Hook batches *)

\* Mutant: the continuation gets lost.
HookBatchDoneLost(h) ==
  /\ Free
  /\ hooks' = hooks \ {h}
  /\ UNCHANGED <<store, turn, tasks, jobs, clients, followOns, starting, plan, mode, crashes>>

\* Mutant: the continuation runs although the run has ended.
HookBatchDoneLate(h) ==
  /\ Free
  /\ hooks' = hooks \ {h}
  /\ turn' = Held(h.rest)
  /\ UNCHANGED <<store, tasks, jobs, clients, followOns, starting, plan, mode, crashes>>

\* The batch is through: its continuation runs under the lock, on the rows
\* of now but with the commands decided before the hooks ran.
HookBatchDone(h) ==
  /\ Free
  /\ hooks' = hooks \ {h}
  /\ IF phase # "running" THEN UNCHANGED turn ELSE turn' = Held(h.rest)
  /\ UNCHANGED <<store, tasks, jobs, clients, followOns, starting, plan, mode, crashes>>

\* A gating before_run hook failed: the run is failed whatever its phase.
BeforeRunFails(h) ==
  /\ Free
  /\ h.kind = "before_run"
  /\ hooks' = hooks \ {h}
  /\ phase' = "failed"
  /\ ended' = Append(ended, "failed")
  /\ UNCHANGED <<rows, turn, tasks, jobs, clients, followOns, starting, plan, mode, crashes>>

AfterStepFails(h) ==
  /\ h.kind = "after_step"
  /\ rows[h.rest.step].attempt < MaxAttempt
  /\ Submit(OnStepFailed(rows, h.rest.step), hooks \ {h})
  /\ UNCHANGED <<store, tasks, jobs, clients, followOns, starting, plan, mode, crashes>>

-----------------------------------------------------------------------------
(* Under the lock *)

LatestOf(s) == [step |-> s, attempt |-> rows[s].attempt]

\* devkitd.cancel is awaited, its failure only logged ...
CancelJob(s) ==
  /\ s \in turn.kill
  /\ turn.abort = {}
  /\ \/ jobs' = jobs \ {LatestOf(s)}
     \/ Unreachable /\ UNCHANGED jobs
  /\ turn' = [turn EXCEPT !.kill = @ \ {s}, !.abort = {s}]
  /\ UNCHANGED <<store, tasks, hooks, clients, followOns, starting, plan, mode, crashes>>

\* ... and then abort_inflight.  A step task has left the in-flight map when it
\* submits; a re-attached one is still there and is aborted.
AbortTask(s) ==
  /\ s \in turn.abort
  /\ tasks' = {t \in tasks : ~ /\ KeyOf(t) = LatestOf(s)
                               /\ t.reattached \/ t.pc \notin {"completed", "failed"}}
  /\ turn' = [turn EXCEPT !.abort = {}]
  /\ UNCHANGED <<store, jobs, hooks, clients, followOns, starting, plan, mode, crashes>>

\* activate_steps: everything decided so far is flushed with the new row,
\* then the task is spawned.  The next activation is another transaction.
ActivateStep(a, kids) ==
  /\ turn.held
  /\ turn.kill = {} /\ turn.abort = {}
  /\ a \in turn.cmds.activate
  /\ a.step \notin BadWith
  /\ kids \subseteq turn.cmds.children
  /\ rows' = [Persist(rows, turn.cmds, kids) EXCEPT ![a.step] = Insert(@, a.attempt)]
  /\ tasks' = tasks \cup {[step |-> a.step, attempt |-> a.attempt,
                           reattached |-> FALSE, pc |-> "starting"]}
  /\ turn' = [turn EXCEPT !.cmds.activate = @ \ {a}, !.cmds.children = @ \ kids,
                          !.cmds.status = "none", !.cmds.cancel = {}]
  /\ UNCHANGED <<phase, ended, jobs, hooks, clients, followOns, starting, plan, mode, crashes>>

\* build_step_request failed: the rest of the turn is given up.
ActivationFails(a) ==
  /\ turn.held
  /\ turn.kill = {} /\ turn.abort = {}
  /\ a \in turn.cmds.activate
  /\ a.step \in BadWith
  /\ turn' = Idle
  /\ clients' = Return
  /\ UNCHANGED <<store, tasks, jobs, hooks, followOns, starting, plan, mode, crashes>>

\* Mutants: the run ends without its event; the follow-on events get lost.
FinishUnreported ==
  /\ turn.held
  /\ turn.kill = {} /\ turn.abort = {}
  /\ turn.cmds.activate = {}
  /\ rows' = Persist(rows, turn.cmds, turn.cmds.children)
  /\ phase' = IF turn.cmds.terminal = "none" THEN phase ELSE turn.cmds.terminal
  /\ followOns' = followOns \cup turn.followOns
  /\ turn' = Idle
  /\ clients' = Return
  /\ UNCHANGED <<ended, hooks, tasks, jobs, starting, plan, mode, crashes>>
FinishNoFollowOns ==
  /\ turn.held
  /\ turn.kill = {} /\ turn.abort = {}
  /\ turn.cmds.activate = {}
  /\ rows' = Persist(rows, turn.cmds, turn.cmds.children)
  /\ IF turn.cmds.terminal = "none" THEN UNCHANGED <<phase, ended>>
     ELSE phase' = turn.cmds.terminal /\ ended' = Append(ended, turn.cmds.terminal)
  /\ turn' = Idle
  /\ clients' = Return
  /\ UNCHANGED <<hooks, followOns, tasks, jobs, starting, plan, mode, crashes>>

\* The last transaction of the turn; after_run hooks put MarkRunTerminal off.
FinishTurn ==
  LET c == turn.cmds
  IN  /\ turn.held
      /\ turn.kill = {} /\ turn.abort = {}
      /\ c.activate = {}
      /\ rows' = Persist(rows, c, c.children)
      /\ IF c.terminal = "none" \/ c.audit
         THEN UNCHANGED <<phase, ended>>
         ELSE phase' = c.terminal /\ ended' = Append(ended, c.terminal)
      /\ hooks' = IF c.audit
                  THEN hooks \cup {[kind |-> "after_run",
                                    rest |-> [NoCommands EXCEPT !.terminal = c.terminal]]}
                  ELSE hooks
      /\ followOns' = followOns \cup turn.followOns
      /\ turn' = Idle
      /\ clients' = Return
      /\ UNCHANGED <<tasks, jobs, starting, plan, mode, crashes>>

-----------------------------------------------------------------------------
(* Step tasks and devkitd jobs *)

Move(t, pc) == tasks' = (tasks \ {t}) \cup {[t EXCEPT !.pc = pc]}

StartJob(t) ==
  /\ t.pc = "starting"
  /\ jobs' = jobs \cup {KeyOf(t)}
  /\ Move(t, "persisting")
  /\ UNCHANGED <<store, turn, hooks, clients, followOns, starting, plan, mode, crashes>>

\* devkitd refuses the job, or the answer with its id is lost: then it runs on
\* with nobody to wait for it.
StartFails(t) ==
  /\ t.pc = "starting"
  /\ t.attempt < MaxAttempt
  /\ \/ UNCHANGED jobs
     \/ Unreachable /\ jobs' = jobs \cup {KeyOf(t)}
  /\ Move(t, "failed")
  /\ UNCHANGED <<store, turn, hooks, clients, followOns, starting, plan, mode, crashes>>

PersistJobId(t) ==
  /\ t.pc = "persisting"
  /\ rows' = [rows EXCEPT ![t.step].job = @ \/ rows[t.step].attempt = t.attempt]
  /\ Move(t, "waiting")
  /\ UNCHANGED <<phase, ended, turn, jobs, hooks, clients, followOns, starting, plan, mode, crashes>>

JobCompletes(t) ==
  /\ t.pc = "waiting"
  /\ KeyOf(t) \in jobs
  /\ jobs' = jobs \ {KeyOf(t)}
  /\ Move(t, "completed")
  /\ UNCHANGED <<store, turn, hooks, clients, followOns, starting, plan, mode, crashes>>

\* Mutant: a timed-out job is not cancelled.
JobOutlivesFailure(t) ==
  /\ t.pc = "waiting"
  /\ KeyOf(t) \in jobs => t.attempt < MaxAttempt
  /\ Move(t, "failed")
  /\ UNCHANGED <<store, turn, jobs, hooks, clients, followOns, starting, plan, mode, crashes>>

\* A tool error, a timeout, or a poll that finds the job cancelled or unknown.
JobFails(t) ==
  /\ t.pc = "waiting"
  /\ KeyOf(t) \in jobs => t.attempt < MaxAttempt
  /\ jobs' = jobs \ {KeyOf(t)}
  /\ Move(t, "failed")
  /\ UNCHANGED <<store, turn, hooks, clients, followOns, starting, plan, mode, crashes>>

\* The polls exhaust their retries: the step fails, the job lives on.
WaitGivesUp(t) ==
  /\ Unreachable
  /\ t.pc = "waiting"
  /\ t.attempt < MaxAttempt
  /\ Move(t, "failed")
  /\ UNCHANGED <<store, turn, jobs, hooks, clients, followOns, starting, plan, mode, crashes>>

-----------------------------------------------------------------------------
(* Crash, shutdown and recovery *)

Crash ==
  /\ mode # "down"
  /\ crashes < MaxCrashes
  /\ mode' = "down"
  /\ crashes' = crashes + 1
  /\ turn' = Idle
  /\ tasks' = {}
  /\ hooks' = {}
  /\ clients' = [c \in Clients |-> NoCall]
  /\ followOns' = {}
  /\ starting' = FALSE
  /\ plan' = {}
  /\ UNCHANGED <<store, jobs>>

\* Mutants: steps without a job id are not recovered; a run without rows is not.
PlanReattachOnly ==
  {[kind |-> "reattach", step |-> s, attempt |-> rows[s].attempt] :
     s \in {s \in Steps : phase = "running" /\ rows[s].status = "running" /\ rows[s].job}}
PlanNoRestart ==
  {[kind |-> IF rows[s].job THEN "reattach" ELSE "fail", step |-> s, attempt |-> rows[s].attempt] :
     s \in {s \in Steps : phase = "running" /\ rows[s].status = "running"}}

\* The plan of one running run, from the rows as they are at boot.
RecoveryPlan ==
  LET running == {s \in Steps : rows[s].status = "running"}
      item(k, s) == [kind |-> k, step |-> s, attempt |-> rows[s].attempt]
  IN  IF phase # "running" THEN {}
      ELSE IF \A s \in Steps : rows[s] = NoRow
           THEN {Restart}
           ELSE {item("reattach", s) : s \in {s \in running : rows[s].job}}
                \cup {item("fail", s) : s \in {s \in running : ~rows[s].job}}

Boot ==
  /\ mode = "down"
  /\ mode' = "booting"
  /\ plan' = RecoveryPlan
  /\ UNCHANGED <<store, turn, tasks, jobs, hooks, clients, followOns, starting, crashes>>

Reattach(p) ==
  /\ mode = "booting" /\ ~turn.held
  /\ p \in plan /\ p.kind = "reattach"
  /\ tasks' = tasks \cup {[step |-> p.step, attempt |-> p.attempt,
                           reattached |-> TRUE, pc |-> "waiting"]}
  /\ plan' = plan \ {p}
  /\ UNCHANGED <<store, turn, jobs, hooks, clients, followOns, starting, mode, crashes>>

\* The interrupted step is failed by an ordinary event, whatever the earlier
\* actions of the plan have made of it.
RecoverBySubmit(p) ==
  /\ mode = "booting"
  /\ p \in plan /\ p.kind \in {"fail", "restart"}
  /\ Submit(IF p.kind = "fail" THEN OnStepFailed(rows, p.step) ELSE OnRunStarted(rows), hooks)
  /\ plan' = plan \ {p}
  /\ UNCHANGED <<store, tasks, jobs, clients, followOns, starting, mode, crashes>>

Serve ==
  /\ mode = "booting" /\ ~turn.held
  /\ plan = {}
  /\ mode' = "up"
  /\ UNCHANGED <<store, turn, tasks, jobs, hooks, clients, followOns, starting, plan, crashes>>

-----------------------------------------------------------------------------

\* A run that has ended and that nothing works on any more.
Ended ==
  /\ phase # "running"
  /\ mode = "up"
  /\ UNCHANGED vars

LockStep ==
  \/ \E s \in Steps : CancelJob(s) \/ AbortTask(s)
  \/ \E a \in turn.cmds.activate :
       ActivationFails(a) \/ \E kids \in SUBSET turn.cmds.children : ActivateStep(a, kids)
  \/ FinishTurn

TaskStep(t) ==
  \/ StartJob(t) \/ StartFails(t) \/ PersistJobId(t)
  \/ JobCompletes(t) \/ JobFails(t) \/ WaitGivesUp(t)

HookStep(h) == HookBatchDone(h) \/ BeforeRunFails(h) \/ AfterStepFails(h)

Recover == Boot \/ Serve \/ \E p \in plan : Reattach(p) \/ RecoverBySubmit(p)

Next ==
  \/ LockStep
  \/ RunStarted
  \/ \E t \in tasks : TaskStep(t) \/ TaskSubmits(t)
  \/ \E s \in Steps : FollowOnSubmits(s)
  \/ \E h \in hooks : HookStep(h)
  \/ \E c \in Clients, s \in Steps, type \in {"step_approved", "step_rejected"} :
       ResolveApproval(c, s, type)
  \/ \E c \in Clients : SubmitApproval(c)
  \/ CancelRequested
  \/ DeadlineExceeded
  \/ Crash
  \/ Recover
  \/ Ended

Spec == Init /\ [][Next]_vars

(* Fairness: tokio runs every spawned task, the run lock is a FIFO mutex,  *)
(* devkitd ends every job (it enforces a timeout), a stopped runtime is    *)
(* started again.  Humans, cancellations and deadlines owe nothing.        *)
Fairness ==
  /\ WF_vars(LockStep)
  /\ WF_vars(Boot) /\ WF_vars(Serve)
  /\ SF_vars(RunStarted)
  /\ SF_vars(\E p \in plan : Reattach(p) \/ RecoverBySubmit(p))
  /\ \A s \in Steps :
       /\ WF_vars(\E t \in tasks : t.step = s /\ (StartJob(t) \/ PersistJobId(t) \/ JobCompletes(t)))
       /\ WF_vars(\E t \in tasks : t.step = s /\ KeyOf(t) \notin jobs /\ JobFails(t))
       /\ SF_vars(\E t \in tasks : t.step = s /\ TaskSubmits(t))
       /\ SF_vars(FollowOnSubmits(s))
  /\ SF_vars(\E h \in hooks : HookBatchDone(h))

FairSpec == Spec /\ Fairness

-----------------------------------------------------------------------------
(* Type invariant *)

\* Every variable holds the data the code keeps in it.
TypeOK ==
  /\ rows \in [Steps -> Row]
  /\ phase \in RunPhase
  /\ ended \in Seq(TerminalPhases)
  /\ turn \in Turn
  /\ tasks \subseteq Task
  /\ jobs \subseteq Key
  /\ hooks \subseteq Hook
  /\ clients \in [Clients -> Call]
  /\ followOns \subseteq Steps
  /\ starting \in BOOLEAN
  /\ plan \subseteq Plan
  /\ mode \in {"up", "down", "booting"}
  /\ crashes \in Nat

-----------------------------------------------------------------------------
(* Properties *)

Started(r) == \E s \in Steps : r[s].status # "none"

\* A running run that got past its start always has an active step: the
\* engine never leaves a run with nothing left to wait for.
RunningHasActive == phase = "running" /\ Started(rows) => ActiveSteps(rows) # {}

\* A run that ended has no active step left behind.
TerminalHasNoActive == phase # "running" => ActiveSteps(rows) = {}

\* A run ends once: its phase and the statuses of its steps never change
\* again, and exactly one terminal event, agreeing with the phase, is queued.
EndIsFinal ==
  [][phase # "running" => /\ phase' = phase
                          /\ ended' = ended
                          /\ \A s \in Steps : rows'[s].status = rows[s].status]_vars
EndReported == ended = IF phase = "running" THEN <<>> ELSE <<phase>>

\* Whichever of the ends that race for a run comes first: from then on no step
\* changes its status and no task is spawned, whatever hooks and events follow.
EndStops ==
  [][phase # "running" => /\ \A s \in Steps : rows'[s].status = rows[s].status
                          /\ \A t \in tasks' \ tasks : t.pc # "starting"]_vars

\* A run reported as completed has no step that failed, was rejected or was
\* cut off: what decides the phase agrees with what is in the rows.
CompletedIsReal ==
  phase = "completed" => \A s \in Steps : rows[s].status \in {"none", "completed"}

\* Whatever is spawned runs an attempt no earlier task of the step has run.
FreshAttempts ==
  [][\A t \in tasks' \ tasks : t.pc = "starting" => t.attempt > rows[t.step].attempt]_vars

\* A step starts for the first time only when all its needs: have completed.
NeedsGate ==
  [][\A s \in Steps : rows[s].status = "none" /\ rows'[s].status # "none"
                         => \A n \in Needs[s] : rows'[n].status = "completed"]_vars

\* What still is going to produce an event for the running step s.
HasSource(s) ==
  \/ \E t \in tasks : KeyOf(t) = [step |-> s, attempt |-> rows[s].attempt]
  \/ s \in followOns \cup turn.followOns
  \/ s \in turn.cmds.cancel
  \/ \E h \in hooks : h.rest.step = s
  \/ \E p \in plan : p.step = s
  \/ turn.cmds.step = s
  \/ \E a \in turn.cmds.activate : a.step = s

\* While the runtime is up, a running step always has a task, a queued event
\* or a recovery action that will report on it: no step waits for nobody.
RunningHasSource ==
  mode # "down" /\ phase = "running"
    => \A s \in Steps : rows[s].status = "running" => HasSource(s)

\* While the runtime serves, between two turns: a step that completed, failed or
\* was rejected has started every target of the matching route whose needs: are
\* met, also after a crash and the recovery that follows it.
RouteOf(s) ==
  CASE rows[s].status = "completed" /\ s \in HumanLoop    -> OnApprove[s]
    [] rows[s].status = "completed" /\ s \notin HumanLoop -> OnSuccess[s]
    [] rows[s].status = "failed"                          -> OnFailure[s]
    [] rows[s].status = "failed_rejected"                 -> OnReject[s]
    [] OTHER                                              -> {}
RoutesTaken ==
  mode = "up" /\ ~turn.held
    => \A s \in Steps : \A t \in Ready(rows, RouteOf(s)) : rows[t].status # "none"

\* devkitd never runs two jobs of one step at a time.
OneJobPerStep == \A j, k \in jobs : j.step = k.step => j = k

\* "Cancellation is end-to-end, not bookkeeping": once whatever was about to
\* start a job or to store its id has done so, no job of an ended run is left.
NoJobLeft ==
  mode = "up" /\ phase # "running" /\ (\A t \in tasks : t.pc = "waiting") => jobs = {}

\* A step that no human can send back is never attempted more often than its
\* retries allow.
RetryBudget == \A s \in Steps \ HumanLoop : rows[s].attempt <= Retries[s] + 1

\* A step that has reached a final status leaves it only as a new attempt.
LegalTransitions ==
  [][\A s \in Steps : rows[s].status \in Terminal /\ rows'[s].attempt = rows[s].attempt
                        => rows'[s].status = rows[s].status]_vars

\* A run that keeps running has something that will move it on.
NeverStuck ==
  mode = "up" /\ phase = "running" /\ ~turn.held
    => starting \/ tasks # {} \/ hooks # {} \/ followOns # {}
       \/ \E s \in Steps : rows[s].status = "waiting_approval"

\* Every run ends, unless a with: block that cannot be built made a turn be
\* dropped after its tasks were stopped: then a step is left running with nobody
\* to report on it.
Abandoned ==
  /\ BadWith # {} /\ mode = "up" /\ ~turn.held
  /\ \E t \in Steps \ Subflows : rows[t].status = "running" /\ \A k \in tasks : k.step # t

EventuallyEnds == <>(phase # "running" \/ Abandoned)

-----------------------------------------------------------------------------
(* The contract of a run, and why a flow without hooks keeps it *)

Contract == INSTANCE RunContract
  WITH Steps <- Steps, Active <- Active, Final <- Terminal, Ends <- TerminalPhases,
       status <- [s \in Steps |-> rows[s].status],
       attempt <- [s \in Steps |-> rows[s].attempt],
       phase <- phase, reported <- ended

\* Seen from outside, the scheduler implements the contract of a run.
KeepsContract == Contract!Spec

\* The commands c fit the rows r they are to be applied to: they end the run
\* exactly when they leave no step active, and start only new attempts.
Fits(r, c) ==
  LET settled == Persist(r, c, {})
  IN  /\ IF c.terminal = "none"
         THEN c.activate # {} \/ c.children # {} \/ (Started(settled) => ActiveSteps(settled) # {})
         ELSE c.activate = {} /\ c.children = {} /\ ActiveSteps(settled) = {}
      /\ c.children \subseteq Subflows
      /\ \A a \in c.activate : a.step \notin Subflows /\ a.attempt > r[a.step].attempt
      /\ \A a, b \in c.activate : a.step = b.step => a = b

TurnFits == turn.held => phase = "running" /\ Fits(rows, turn.cmds)

\* A subflow step never gets past its first attempt.
SubflowOnce == \A s \in Subflows : rows[s].attempt <= 1

\* The invariant the contract rests on: between two steps of the lock holder
\* the rows and what it has left to do always add up.
Coherent == TurnFits /\ SubflowOnce /\ RunningHasActive /\ TerminalHasNoActive /\ EndReported
=============================================================================
