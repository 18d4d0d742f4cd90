------------------------------ MODULE RunProofs ------------------------------
(***************************************************************************)
(* Three more theorems about Scheduler for every flow without hooks: what  *)
(* a completed run means, that no step waits for nobody, and that no run   *)
(* does.  Each rests on IInv and on an invariant of its own.               *)
(***************************************************************************)
EXTENDS SchedulerProofs

USE FlowAssumption, SchedulerAssumption

(* A run reported as completed *)

Clean(r) == \A s \in Steps : r[s].status \in {"none", "completed"}

\* Commands that end a run as completed leave only completed steps behind.
EndFits(r, c) == c.terminal = "completed" => Clean(Persist(r, c, {}))

EndHolds == (turn.held => EndFits(rows, turn.cmds)) /\ CompletedIsReal

LEMMA CompletedClean ==
  ASSUME NEW r \in [Steps -> Row], DerivedPhase(r) = "completed"
  PROVE  Clean(r)
BY DEF DerivedPhase, Clean, ActiveSteps, Row, Status, Terminal, Active

LEMMA LaunchGoesOn ==
  ASSUME NEW c \in Commands, Bare(c), NEW r, NEW ready
  PROVE  Launch(c, r, ready).terminal = "none"
BY DEF Launch, Commands, Bare

LEMMA RouteEnds ==
  ASSUME NEW r \in [Steps -> Row], NEW c \in Commands, Bare(c), NEW targets,
         NEW next \in [Steps -> Row], next = Persist(r, c, {})
  PROVE  EndFits(r, Route(c, next, targets))
<1>1. CASE Ready(next, targets) # {}  BY <1>1, LaunchGoesOn DEF Route, EndFits
<1>2. CASE Ready(next, targets) = {}
  <2> DEFINE d == TerminalIfDone(c, next)
  <2>1. Route(c, next, targets) = d  BY <1>2 DEF Route
  <2>2. Persist(r, d, {}) = next  BY TerminalFrames, PersistFramed
  <2>3. d.terminal \in {"none", DerivedPhase(next)}  BY DEF TerminalIfDone, Commands, Bare
  <2> HIDE DEF d
  <2> QED  BY <2>1, <2>2, <2>3, CompletedClean DEF EndFits
<1> QED  BY <1>1, <1>2

LEMMA MarkRouteEnds ==
  ASSUME NEW r \in [Steps -> Row], NEW s \in Steps, NEW st \in Status, NEW targets
  PROVE  EndFits(r, Route(Mark(s, st), SetStatus(r, s, st), targets))
<1> DEFINE c == Mark(s, st)
           next == SetStatus(r, s, st)
<1>1. c \in Commands /\ Bare(c)  BY MarkBare
<1>2. next \in [Steps -> Row] /\ next = Persist(r, c, {})  BY MarkPersists
<1> HIDE DEF c, next
<1> QED  BY <1>1, <1>2, RouteEnds DEF c, next

\* No decision of the engine ends a run as completed over a step that is not.
LEMMA DecisionsEnd ==
  ASSUME Hookless, NEW r \in [Steps -> Row], NEW s \in Steps
  PROVE  /\ EndFits(r, OnStepCompleted(r, s)) /\ EndFits(r, OnStepFailed(r, s))
         /\ EndFits(r, OnStepApproved(r, s)) /\ EndFits(r, OnStepRejected(r, s))
<1>1. EndFits(r, OnStepCompleted(r, s))
  <2>1. s \notin AfterHooks  BY DEF Hookless
  <2>2. CASE s \in HumanLoop
    <3>1. OnStepCompleted(r, s) = Mark(s, "waiting_approval")
      BY <2>1, <2>2, MarkBare, StatusFacts DEF OnStepCompleted
    <3> QED  BY <3>1, MarkBare, StatusFacts DEF Bare, EndFits
  <2>3. CASE s \notin HumanLoop
    <3>1. OnStepCompleted(r, s) = Route(Mark(s, "completed"), SetStatus(r, s, "completed"), OnSuccess[s])
      BY <2>1, <2>3, MarkBare, StatusFacts DEF OnStepCompleted
    <3> QED  BY <3>1, MarkRouteEnds, StatusFacts
  <2> QED  BY <2>2, <2>3
<1>2. EndFits(r, OnStepFailed(r, s))
  <2>1. CASE r[s].attempt <= Retries[s]
    <3>1. NoCommands \in Commands /\ Bare(NoCommands)  BY NoCommandsBare
    <3> QED  BY <2>1, <3>1, LaunchGoesOn DEF OnStepFailed, EndFits
  <2>2. CASE ~(r[s].attempt <= Retries[s])
    <3> DEFINE c == Cancel(Mark(s, "failed"), ActiveSteps(r) \ {s})
               next == FailFast(r, s)
    <3>1. c \in Commands /\ Bare(c) /\ next \in [Steps -> Row] /\ next = Persist(r, c, {})
      BY FailFastTyped, FailFastPersists
    <3>2. OnStepFailed(r, s) = Route(c, next, OnFailure[s])  BY <2>2 DEF OnStepFailed
    <3> HIDE DEF c, next
    <3> QED  BY <3>1, <3>2, RouteEnds
  <2> QED  BY <2>1, <2>2
<1>3. EndFits(r, OnStepApproved(r, s))  BY MarkRouteEnds, StatusFacts DEF OnStepApproved
<1>4. EndFits(r, OnStepRejected(r, s))
  <2>1. Mark(s, "failed_rejected") \in Commands /\ Bare(Mark(s, "failed_rejected"))
    BY MarkBare, StatusFacts
  <2>2. CASE IsSelfRejectLoop(s)
    BY <2>1, <2>2, LaunchGoesOn DEF OnStepRejected, EndFits
  <2>3. CASE ~IsSelfRejectLoop(s)
    BY <2>3, MarkRouteEnds, StatusFacts DEF OnStepRejected
  <2> QED  BY <2>2, <2>3
<1> QED  BY <1>1, <1>2, <1>3, <1>4

LEMMA StartEnds ==
  ASSUME Hookless, NEW r \in [Steps -> Row]
  PROVE  EndFits(r, OnRunStarted(r)) /\ Plain(OnRunStarted(r))
<1> DEFINE c == RunHooks(NoCommands, "none")
<1>1. c \in Commands /\ c.terminal = "none" /\ Plain(c)
  BY NoCommandsTyped DEF RunHooks, NoCommands, Commands, Plain
<1>2. OnRunStarted(r) = Launch(c, r, Ready(r, EntrySteps))  BY DEF OnRunStarted, Hookless
<1> HIDE DEF c
<1> QED  BY <1>1, <1>2 DEF Launch, Commands, Plain, EndFits

\* A stored job id changes nothing a decision has been based on.
LEMMA JobIdStatuses ==
  ASSUME TypeOK, NEW t \in tasks, PersistJobId(t), NEW c \in Commands, NEW s \in Steps
  PROVE  /\ rows'[s].status = rows[s].status /\ rows'[s].attempt = rows[s].attempt
         /\ Persist(rows', c, {})[s].status = Persist(rows, c, {})[s].status
<1>0. rows \in [Steps -> Row] /\ t.step \in Steps  BY DEF TypeOK, Task
<1>1. rows' = [rows EXCEPT ![t.step].job = rows[t.step].job \/ rows[t.step].attempt = t.attempt]
  BY DEF PersistJobId
<1>2. rows[s] \in Row /\ c.status \in Status \cup {"none"}  BY <1>0 DEF Commands
<1>3. \A b : /\ [rows[s] EXCEPT !.job = b].status = rows[s].status
            /\ [rows[s] EXCEPT !.job = b].attempt = rows[s].attempt
            /\ \A x : /\ [[rows[s] EXCEPT !.job = b] EXCEPT !.status = x].status = x
                      /\ [rows[s] EXCEPT !.status = x].status = x
  BY <1>2 DEF Row
<1>4. rows'[s] = rows[s] \/ \E b : rows'[s] = [rows[s] EXCEPT !.job = b]  BY <1>0, <1>1
<1>5. rows'[s].status = rows[s].status /\ rows'[s].attempt = rows[s].attempt  BY <1>3, <1>4
<1>6. /\ \A st : [rows'[s] EXCEPT !.status = st].status = st
      /\ \A st : [rows[s] EXCEPT !.status = st].status = st
  BY <1>3, <1>4
<1>7. Persist(rows', c, {})[s].status = Persist(rows, c, {})[s].status
  BY <1>5, <1>6 DEF Persist
<1> QED  BY <1>5, <1>7

LEMMA StopEnds ==
  ASSUME NEW r, NEW ph \in {"failed", "cancelled"}
  PROVE  EndFits(r, Stop(r, ph))
BY DEF Stop, Cancel, NoCommands, EndFits

LEMMA SubmitEnds ==
  ASSUME IInv, EndHolds, NEW c \in Commands, Plain(c), EndFits(rows, c), Submit(c, hooks), UNCHANGED store
  PROVE  EndHolds'
<1>1. turn' = turn \/ turn' = Held(c)  BY DEF Submit, Drive, Plain
<1>2. Held(c).cmds = c  BY DEF Held
<1>3. rows' = rows /\ phase' = phase  BY DEF store
<1> QED  BY <1>1, <1>2, <1>3 DEF EndHolds, CompletedIsReal

LEMMA QuietEnds ==
  ASSUME EndHolds, UNCHANGED store, turn' = turn \/ turn' = Idle
  PROVE  EndHolds'
BY DEF EndHolds, CompletedIsReal, store, Idle

LEMMA NextEnds == ASSUME Hookless PROVE IInv /\ EndHolds /\ [Next]_vars => EndHolds'
<1> SUFFICES ASSUME IInv, EndHolds, [Next]_vars PROVE EndHolds'  OBVIOUS
<1>0. /\ TypeOK /\ rows \in [Steps -> Row] /\ hooks = {} /\ turn \in Turn /\ turn.cmds \in Commands
      /\ turn.held => phase = "running" /\ Fits(rows, turn.cmds) /\ Plain(turn.cmds)
  BY DEF IInv, TypeOK, Turn, Coherent, TurnFits
<1>1. ASSUME NEW s \in Steps, CancelJob(s) \/ AbortTask(s) PROVE EndHolds'
  <2>1. turn'.held = turn.held /\ turn'.cmds = turn.cmds  BY <1>0, <1>1 DEF CancelJob, AbortTask, Turn
  <2> QED  BY <1>1, <2>1 DEF CancelJob, AbortTask, EndHolds, CompletedIsReal, store
<1>2. ASSUME NEW a \in turn.cmds.activate, NEW kids \in SUBSET turn.cmds.children, ActivateStep(a, kids)
      PROVE  EndHolds'
  <2>1. turn.cmds.terminal = "none" /\ phase' = "running"  BY <1>0, <1>2 DEF ActivateStep, Fits
  <2>2. turn'.cmds.terminal = "none"  BY <1>0, <1>2, <2>1 DEF ActivateStep, Turn, Commands
  <2> QED  BY <2>1, <2>2 DEF EndHolds, EndFits, CompletedIsReal
<1>3. ASSUME NEW a \in turn.cmds.activate, ActivationFails(a) PROVE EndHolds'
  BY <1>3, QuietEnds DEF ActivationFails
<1>4. CASE FinishTurn
  <2>1. turn' = Idle /\ rows' = Persist(rows, turn.cmds, turn.cmds.children) /\ turn.held
    BY <1>4 DEF FinishTurn
  <2>2. CASE turn.cmds.terminal = "none"
    <3>1. phase' = "running"  BY <1>0, <1>4, <2>2 DEF FinishTurn
    <3> QED  BY <2>1, <3>1 DEF EndHolds, CompletedIsReal, Idle
  <2>3. CASE turn.cmds.terminal # "none"
    <3>1. phase' = turn.cmds.terminal /\ rows' = Persist(rows, turn.cmds, {})
      BY <1>0, <1>4, <2>1, <2>3 DEF FinishTurn, Fits, Plain
    <3> QED  BY <2>1, <3>1 DEF EndHolds, EndFits, CompletedIsReal, Clean, Idle
  <2> QED  BY <2>2, <2>3
<1>5. CASE RunStarted
  BY <1>0, <1>5, StartEnds, RunStartedTyped, SubmitEnds DEF RunStarted
<1>6. ASSUME NEW t \in tasks, TaskSubmits(t) PROVE EndHolds'
  <2>1. t.step \in Steps  BY <1>0 DEF TypeOK, Task
  <2> QED  BY <1>0, <1>6, <2>1, StepCompletedTyped, StepFailedTyped, StepCompletedFits, StepFailedFits,
              DecisionsEnd, SubmitEnds DEF TaskSubmits
<1>7. ASSUME NEW s \in Steps, FollowOnSubmits(s) PROVE EndHolds'
  BY <1>0, <1>7, StepFailedTyped, StepFailedFits, DecisionsEnd, SubmitEnds DEF FollowOnSubmits
<1>8. CASE CancelRequested \/ DeadlineExceeded
  BY <1>0, <1>8, StopTyped, StopFits, StatusFacts, StopEnds, SubmitEnds DEF CancelRequested, DeadlineExceeded
<1>9. ASSUME NEW c \in Clients, NEW s \in Steps, NEW type \in {"step_approved", "step_rejected"},
             ResolveApproval(c, s, type)
      PROVE  EndHolds'
  BY <1>9, QuietEnds DEF ResolveApproval
<1>10. ASSUME NEW c \in Clients, SubmitApproval(c) PROVE EndHolds'
  <2>1. clients[c].step \in Steps  BY <1>0, <1>10 DEF SubmitApproval, TypeOK, Call
  <2> QED  BY <1>0, <1>10, <2>1, StepApprovedTyped, StepRejectedTyped, StepApprovedFits, StepRejectedFits,
              DecisionsEnd, SubmitEnds DEF SubmitApproval
<1>11. ~ \E h \in hooks : HookStep(h)  BY <1>0
<1>12. ASSUME NEW t \in tasks, TaskStep(t) PROVE EndHolds'
  <2>1. CASE PersistJobId(t)
    <3>1. \A s \in Steps : rows'[s].status = rows[s].status  BY <1>0, <2>1, JobIdStatuses
    <3>2. phase' = phase /\ turn' = turn  BY <2>1 DEF PersistJobId
    <3>3. ASSUME turn.held, turn.cmds.terminal = "completed" PROVE Clean(Persist(rows', turn.cmds, {}))
      <4>1. Clean(Persist(rows, turn.cmds, {}))  BY <3>3 DEF EndHolds, EndFits
      <4> QED  BY <1>0, <2>1, <4>1, JobIdStatuses DEF Clean
    <3> QED  BY <3>1, <3>2, <3>3 DEF EndHolds, EndFits, CompletedIsReal
  <2>2. CASE StartJob(t) \/ StartFails(t) \/ JobCompletes(t) \/ JobFails(t) \/ WaitGivesUp(t)
    BY <2>2, QuietEnds DEF StartJob, StartFails, JobCompletes, JobFails, WaitGivesUp
  <2> QED  BY <1>12, <2>1, <2>2 DEF TaskStep
<1>13. CASE Crash  BY <1>13, QuietEnds DEF Crash
<1>14. CASE Boot \/ Serve  BY <1>14, QuietEnds DEF Boot, Serve
<1>15. ASSUME NEW p \in plan, Reattach(p) PROVE EndHolds'  BY <1>15, QuietEnds DEF Reattach
<1>16. ASSUME NEW p \in plan, RecoverBySubmit(p) PROVE EndHolds'
  <2>1. p.kind = "fail" => p.step \in Steps  BY <1>0 DEF TypeOK, Plan, Restart
  <2> QED  BY <1>0, <1>16, <2>1, StartEnds, RunStartedTyped, StepFailedTyped, StepFailedFits, DecisionsEnd,
              SubmitEnds DEF RecoverBySubmit
<1>17. CASE UNCHANGED vars  BY <1>17, QuietEnds DEF vars, store
<1> QED
  BY <1>1, <1>2, <1>3, <1>4, <1>5, <1>6, <1>7, <1>8, <1>9, <1>10, <1>11, <1>12, <1>13, <1>14,
     <1>15, <1>16, <1>17
  DEF Next, LockStep, Recover, Ended

\* In a flow without hooks, whatever its routes, failures, rejections, crashes and
\* cancellations: a run reported as completed has no step that failed, was
\* rejected, was cut off or still runs.
THEOREM CompletedRunsAreReal == ASSUME Hookless PROVE Spec => []CompletedIsReal
<1>1. Init => IInv /\ EndHolds
  <2>1. Init => EndHolds  BY DEF Init, EndHolds, Idle, CompletedIsReal
  <2> QED  BY <2>1, InitCoherent
<1>2. IInv /\ EndHolds /\ [Next]_vars => (IInv /\ EndHolds)'  BY NextCoherent, NextEnds
<1>3. IInv /\ EndHolds => CompletedIsReal  BY DEF EndHolds
<1> QED  BY <1>1, <1>2, <1>3, PTL DEF Spec

-----------------------------------------------------------------------------
(* No step waits for nobody: flows without hooks whose templates resolve.  *)

Resolvable == BadInput = {} /\ BadWith = {}

\* Commands that say what becomes of the step s.
Covers(c, s) ==
  \/ s \in c.children \cup c.cancel
  \/ c.step = s /\ c.status # "none"
  \/ \E a \in c.activate : a.step = s

\* What outside the turn is going to submit an event for the running step s.
Pending(s) ==
  \/ \E t \in tasks : t.step = s /\ t.attempt = rows[s].attempt
  \/ s \in followOns
  \/ \E p \in plan : p.step = s /\ (p.kind = "reattach" => p.attempt = rows[s].attempt)

\* HasSource made inductive: a mark that has been flushed and a re-attach of an
\* earlier attempt do not count.
Source(s) == Pending(s) \/ s \in turn.followOns \/ Covers(turn.cmds, s)

\* Nobody holds the lock with nothing to do; the holder aborts only tasks of steps
\* it cancels, marks no step running, and follows up on every subflow it starts.
TurnSound ==
  /\ ~turn.held => turn = Idle
  /\ turn.kill \cup turn.abort \subseteq turn.cmds.cancel
  /\ turn.cmds.children \subseteq turn.followOns
  /\ turn.cmds.status # "running"

SourceInv ==
  /\ TurnSound
  /\ mode # "down" /\ phase = "running"
       => \A s \in Steps : rows[s].status = "running" => Source(s)

\* Commands that start a turn, and mark no step running.
Sound(c) == c.gate = "none" /\ c.error = FALSE /\ c.status # "running"

LEMMA LaunchSound ==
  ASSUME Resolvable, NEW c \in Commands, Sound(c), NEW r, NEW ready
  PROVE  /\ Sound(Launch(c, r, ready))
         /\ \A s \in ready : Covers(Launch(c, r, ready), s)
<1> DEFINE d == Launch(c, r, ready)
<1>1. /\ d.activate = {[step |-> s, attempt |-> r[s].attempt + 1] : s \in ready \ Subflows}
      /\ d.children = ready \cap Subflows
      /\ d.gate = c.gate /\ d.status = c.status /\ d.error = (ready \cap BadInput # {})
  BY DEF Launch, Commands
<1>2. d.error = FALSE  BY <1>1 DEF Resolvable
<1> HIDE DEF d
<1>3. ASSUME NEW s \in ready PROVE Covers(d, s)
  <2>1. CASE s \in Subflows  BY <1>1, <2>1 DEF Covers
  <2>2. CASE s \notin Subflows
    <3>1. [step |-> s, attempt |-> r[s].attempt + 1] \in d.activate  BY <1>1, <2>2
    <3> QED  BY <3>1 DEF Covers
  <2> QED  BY <2>1, <2>2
<1> QED  BY <1>1, <1>2, <1>3 DEF Sound, d

LEMMA RouteSound ==
  ASSUME Resolvable, NEW c \in Commands, Sound(c), NEW r, NEW targets
  PROVE  Sound(Route(c, r, targets))
<1>1. Sound(TerminalIfDone(c, r))  BY DEF TerminalIfDone, Commands, Sound
<1> QED  BY <1>1, LaunchSound DEF Route

LEMMA MarkSound ==
  ASSUME NEW s \in Steps, NEW st \in Status \ {"running"}
  PROVE  Mark(s, st) \in Commands /\ Sound(Mark(s, st)) /\ Mark(s, st).step = s /\ Mark(s, st).status = st
<1>1. Mark(s, st).error = FALSE  BY DEF Mark, NoCommands
<1> QED  BY <1>1, MarkFields DEF Sound

\* The step an event is about is covered by the decision taken on it.
LEMMA MarkedCovered ==
  ASSUME NEW c \in Commands, NEW s \in Steps, c.step = s, c.status # "none", NEW d, Framed(c, d)
  PROVE  Covers(d, s)
BY DEF Framed, Covers

LEMMA DecisionsCover ==
  ASSUME Hookless, Resolvable, NEW r \in [Steps -> Row], NEW s \in Steps
  PROVE  /\ Sound(OnStepCompleted(r, s)) /\ Covers(OnStepCompleted(r, s), s)
         /\ Sound(OnStepFailed(r, s)) /\ Covers(OnStepFailed(r, s), s)
         /\ Sound(OnStepApproved(r, s)) /\ Sound(OnStepRejected(r, s))
<1>0. /\ {"completed", "waiting_approval", "failed", "failed_rejected"} \subseteq Status \ {"running"}
      /\ "none" \notin Status
  BY DEF Status, Terminal, Active
<1>1. Sound(OnStepCompleted(r, s)) /\ Covers(OnStepCompleted(r, s), s)
  <2>1. s \notin AfterHooks  BY DEF Hookless
  <2>2. CASE s \in HumanLoop
    <3>1. OnStepCompleted(r, s) = Mark(s, "waiting_approval")
      BY <1>0, <2>1, <2>2, MarkBare DEF OnStepCompleted
    <3> QED  BY <1>0, <3>1, MarkSound DEF Covers
  <2>3. CASE s \notin HumanLoop
    <3>1. OnStepCompleted(r, s) = Route(Mark(s, "completed"), SetStatus(r, s, "completed"), OnSuccess[s])
      BY <1>0, <2>1, <2>3, MarkBare DEF OnStepCompleted
    <3>2. /\ Mark(s, "completed") \in Commands /\ Sound(Mark(s, "completed"))
          /\ Mark(s, "completed").step = s /\ Mark(s, "completed").status # "none"
      BY <1>0, MarkSound
    <3> QED  BY <3>1, <3>2, RouteSound, RouteFrames, MarkedCovered
  <2> QED  BY <2>2, <2>3
<1>2. Sound(OnStepFailed(r, s)) /\ Covers(OnStepFailed(r, s), s)
  <2>1. CASE r[s].attempt <= Retries[s]
    <3>1. NoCommands \in Commands /\ Sound(NoCommands)  BY NoCommandsTyped DEF NoCommands, Sound
    <3>2. OnStepFailed(r, s) = Launch(NoCommands, r, {s})  BY <2>1 DEF OnStepFailed
    <3> QED  BY <3>1, <3>2, LaunchSound
  <2>2. CASE ~(r[s].attempt <= Retries[s])
    <3> DEFINE m == Mark(s, "failed")
               c == Cancel(m, ActiveSteps(r) \ {s})
    <3>1. ActiveSteps(r) \ {s} \in SUBSET Steps  BY DEF ActiveSteps
    <3>2. m \in Commands /\ Sound(m) /\ m.step = s /\ m.status # "none"  BY <1>0, MarkSound
    <3>3. c \in Commands /\ c.gate = m.gate /\ c.step = m.step /\ c.status = m.status /\ c.error = m.error
      BY <3>1, <3>2, CancelFields DEF Cancel, Commands
    <3>4. OnStepFailed(r, s) = Route(c, FailFast(r, s), OnFailure[s])  BY <2>2 DEF OnStepFailed
    <3>5. Sound(c) /\ c.step = s /\ c.status # "none"  BY <3>2, <3>3 DEF Sound
    <3> HIDE DEF c
    <3> QED  BY <3>3, <3>4, <3>5, RouteSound, RouteFrames, MarkedCovered
  <2> QED  BY <2>1, <2>2
<1>3. Sound(OnStepApproved(r, s))  BY <1>0, MarkSound, RouteSound DEF OnStepApproved
<1>4. Sound(OnStepRejected(r, s))
  <2>1. Mark(s, "failed_rejected") \in Commands /\ Sound(Mark(s, "failed_rejected"))  BY <1>0, MarkSound
  <2> QED  BY <2>1, RouteSound, LaunchSound DEF OnStepRejected
<1> QED  BY <1>1, <1>2, <1>3, <1>4

LEMMA OthersSound ==
  ASSUME Hookless, Resolvable, NEW r \in [Steps -> Row], NEW ph \in TerminalPhases
  PROVE  Sound(OnRunStarted(r)) /\ Sound(Stop(r, ph))
<1>1. Sound(Stop(r, ph))  BY DEF Stop, Cancel, NoCommands, Sound
<1> DEFINE c == RunHooks(NoCommands, "none")
<1>2. c \in Commands /\ Sound(c)  BY NoCommandsTyped DEF RunHooks, NoCommands, Commands, Sound
<1>3. OnRunStarted(r) = Launch(c, r, Ready(r, EntrySteps))  BY DEF OnRunStarted, Hookless
<1> HIDE DEF c
<1> QED  BY <1>1, <1>2, <1>3, LaunchSound

\* An event may take its own source away: the decision covers its step.
LEMMA SubmitSources ==
  ASSUME SourceInv, NEW c \in Commands, Sound(c), Submit(c, hooks), UNCHANGED <<store, mode>>,
         \A s \in Steps : Pending(s) => Covers(c, s) \/ Pending(s)'
  PROVE  SourceInv'
<1>1. Held(c).held /\ Held(c).cmds = c /\ Held(c).followOns = c.children /\ Held(c).kill \cup Held(c).abort \subseteq c.cancel
  BY DEF Held
<1>2. rows' = rows /\ phase' = phase /\ mode' = mode  BY DEF store
<1>3. ~turn.held /\ turn = Idle  BY DEF Submit, Free, SourceInv, TurnSound
<1>4. CASE phase # "running"
  BY <1>2, <1>4 DEF Submit, SourceInv, TurnSound
<1>5. CASE phase = "running"
  <2>1. turn' = Held(c)  BY <1>5 DEF Submit, Drive, Sound
  <2>2. TurnSound'  BY <1>1, <2>1 DEF TurnSound, Sound
  <2>3. ASSUME NEW s \in Steps, Source(s) PROVE Source(s)'
    <3>1. Pending(s)  BY <1>3, <2>3 DEF Source, Covers, Idle, NoCommands
    <3>2. Covers(c, s) => Covers(turn'.cmds, s)  BY <1>1, <2>1
    <3>3. Covers(turn'.cmds, s) => Covers(turn.cmds, s)'  BY DEF Covers
    <3> QED  BY <3>1, <3>2, <3>3 DEF Source
  <2> QED  BY <1>2, <2>2, <2>3 DEF SourceInv
<1> QED  BY <1>4, <1>5

\* Nothing that counts as a source goes away.
LEMMA QuietSources ==
  ASSUME SourceInv, UNCHANGED <<phase, turn, mode>>,
         \A s \in Steps : rows'[s].status = rows[s].status /\ (Pending(s) => Pending(s)')
  PROVE  SourceInv'
BY DEF SourceInv, TurnSound, Source, Covers

\* What one transaction leaves running: what it starts, and what it does not touch.
LEMMA PersistRunning ==
  ASSUME NEW r \in [Steps -> Row], NEW c \in Commands, c.status # "running", NEW kids,
         NEW s \in Steps, s \notin kids, Persist(r, c, kids)[s].status = "running"
  PROVE  /\ Persist(r, c, kids)[s] = r[s]
         /\ s \notin c.cancel /\ ~(c.step = s /\ c.status # "none")
<1>1. Persist(r, c, kids)[s] = IF s = c.step /\ c.status # "none" THEN [r[s] EXCEPT !.status = c.status]
                               ELSE IF s \in c.cancel THEN [r[s] EXCEPT !.status = "cancelled"] ELSE r[s]
  BY DEF Persist
<1>2. \A st : [r[s] EXCEPT !.status = st].status = st  BY DEF Row
<1> QED  BY <1>1, <1>2

LEMMA ActivateSources ==
  ASSUME IInv, SourceInv, NEW a \in turn.cmds.activate, NEW kids \in SUBSET turn.cmds.children,
         ActivateStep(a, kids)
  PROVE  SourceInv'
<1> DEFINE c == turn.cmds
           flushed == Persist(rows, c, kids)
<1>0. /\ rows \in [Steps -> Row] /\ turn \in Turn /\ c \in Commands
      /\ a.step \in Steps /\ a.attempt \in Nat
  BY DEF IInv, TypeOK, Turn, Commands, Activation
<1>1. /\ turn.held /\ phase = "running" /\ Fits(rows, c) /\ c.status # "running"
      /\ kids \subseteq Subflows /\ a.step \notin Subflows /\ a.attempt > rows[a.step].attempt
      /\ kids \subseteq turn.followOns /\ c.children \subseteq turn.followOns
  BY <1>0 DEF IInv, Coherent, TurnFits, Fits, ActivateStep, SourceInv, TurnSound
<1>2. flushed \in [Steps -> Row]  BY <1>0, PersistTyped
<1>3. /\ rows' = [flushed EXCEPT ![a.step] = Insert(flushed[a.step], a.attempt)]
      /\ tasks' = tasks \cup {[step |-> a.step, attempt |-> a.attempt, reattached |-> FALSE, pc |-> "starting"]}
      /\ UNCHANGED <<phase, mode, followOns, plan>>
      /\ turn.kill = {} /\ turn.abort = {}
  BY DEF ActivateStep
<1>4. /\ turn'.held /\ turn'.kill = {} /\ turn'.abort = {} /\ turn'.followOns = turn.followOns
      /\ turn'.cmds.activate = c.activate \ {a} /\ turn'.cmds.children = c.children \ kids
      /\ turn'.cmds.status = "none" /\ turn'.cmds.cancel = {}
  BY <1>0, <1>1 DEF ActivateStep, Turn, Commands
<1>5. TurnSound'  BY <1>1, <1>4 DEF TurnSound
<1>6. rows'[a.step].attempt = a.attempt
  <2>1. flushed[a.step].attempt = rows[a.step].attempt  BY <1>0, <1>1, PersistRow
  <2>2. a.attempt >= flushed[a.step].attempt /\ flushed[a.step] \in Row
    BY <1>0, <1>1, <1>2, <2>1 DEF Row
  <2>3. Insert(flushed[a.step], a.attempt).attempt = a.attempt  BY <1>0, <2>2, InsertFields
  <2> QED  BY <1>0, <1>2, <1>3, <2>3
<1> HIDE DEF flushed
<1>7. ASSUME NEW s \in Steps, rows'[s].status = "running", mode # "down" PROVE Source(s)'
  <2>1. CASE s = a.step
    <3> DEFINE new == [step |-> a.step, attempt |-> a.attempt, reattached |-> FALSE, pc |-> "starting"]
    <3>0. new \in tasks' /\ new.step = a.step /\ new.attempt = a.attempt  BY <1>3
    <3> HIDE DEF new
    <3>1. \E t \in tasks' : t.step = s /\ t.attempt = rows'[s].attempt  BY <1>6, <2>1, <3>0
    <3> QED  BY <3>1 DEF Source, Pending
  <2>2. CASE s \in kids  BY <1>1, <1>4, <2>2 DEF Source
  <2>3. CASE s # a.step /\ s \notin kids
    <3>1. rows'[s] = flushed[s]  BY <1>0, <1>2, <1>3, <2>3
    <3>2. rows'[s] = rows[s] /\ s \notin c.cancel /\ ~(c.step = s /\ c.status # "none")
      BY <1>0, <1>1, <1>7, <2>3, <3>1, PersistRunning DEF flushed
    <3>3. Source(s)  BY <1>1, <1>7, <3>2 DEF SourceInv
    <3>4. CASE Pending(s)  BY <1>3, <3>2, <3>4 DEF Source, Pending
    <3>5. CASE s \in turn.followOns  BY <1>4, <3>5 DEF Source
    <3>6. CASE Covers(c, s)
      <4>1. CASE s \in c.children  BY <1>1, <1>4, <4>1 DEF Source
      <4>2. CASE \E b \in c.activate : b.step = s
        <5>1. \E b \in turn'.cmds.activate : b.step = s  BY <1>4, <2>3, <4>2
        <5> QED  BY <5>1 DEF Source, Covers
      <4> QED  BY <3>2, <3>6, <4>1, <4>2 DEF Covers
    <3> QED  BY <3>3, <3>4, <3>5, <3>6 DEF Source
  <2> QED  BY <2>1, <2>2, <2>3
<1> QED  BY <1>3, <1>5, <1>7 DEF SourceInv

LEMMA FinishSources ==
  ASSUME IInv, SourceInv, FinishTurn
  PROVE  SourceInv'
<1> DEFINE c == turn.cmds
<1>0. /\ rows \in [Steps -> Row] /\ c \in Commands /\ c.status # "running" /\ c.activate = {}
      /\ phase = "running" /\ c.children \subseteq turn.followOns
  BY DEF IInv, TypeOK, Turn, SourceInv, TurnSound, FinishTurn, Coherent, TurnFits
<1>1. /\ rows' = Persist(rows, c, c.children) /\ turn' = Idle /\ followOns' = followOns \cup turn.followOns
      /\ UNCHANGED <<tasks, plan, mode>>
  BY DEF FinishTurn
<1>2. TurnSound'  BY <1>1 DEF TurnSound, Idle, NoCommands
<1>3. ASSUME NEW s \in Steps, rows'[s].status = "running", mode # "down" PROVE Source(s)'
  <2>1. CASE s \in turn.followOns  BY <1>1, <2>1 DEF Source, Pending
  <2>2. CASE s \notin turn.followOns
    <3>1. rows'[s] = rows[s] /\ s \notin c.cancel /\ ~(c.step = s /\ c.status # "none")
      BY <1>0, <1>1, <1>3, <2>2, PersistRunning
    <3>2. Source(s)  BY <1>0, <1>3, <3>1 DEF SourceInv
    <3>3. Pending(s)  BY <1>0, <2>2, <3>1, <3>2 DEF Source, Covers
    <3> QED  BY <1>1, <3>1, <3>3 DEF Source, Pending
  <2> QED  BY <2>1, <2>2
<1> QED  BY <1>1, <1>2, <1>3 DEF SourceInv

LEMMA NextSources ==
  ASSUME Hookless, Resolvable
  PROVE  IInv /\ SourceInv /\ [Next]_vars => SourceInv'
<1> SUFFICES ASSUME IInv, SourceInv, [Next]_vars PROVE SourceInv'  OBVIOUS
<1>0. /\ TypeOK /\ rows \in [Steps -> Row] /\ hooks = {} /\ turn \in Turn
      /\ \A t \in tasks : t.step \in Steps
      /\ \A p \in plan : p.kind = "fail" => p.step \in Steps
      /\ \A p \in plan : p.kind = "restart" => p.step = NoStep
  BY DEF IInv, TypeOK, Task, Plan, Restart
<1>1. ASSUME NEW s \in Steps, CancelJob(s) \/ AbortTask(s) PROVE SourceInv'
  <2>1. /\ turn'.held = turn.held /\ turn'.cmds = turn.cmds /\ turn'.followOns = turn.followOns
        /\ turn'.kill \cup turn'.abort \subseteq turn.kill \cup turn.abort
        /\ s \in turn.kill \cup turn.abort
    <3>1. CASE CancelJob(s)  BY <1>0, <3>1 DEF CancelJob, Turn
    <3>2. CASE AbortTask(s)  BY <1>0, <3>2 DEF AbortTask, Turn
    <3> QED  BY <1>1, <3>1, <3>2
  <2>2. turn.held  BY <2>1 DEF SourceInv, TurnSound, Idle
  <2>3. TurnSound'  BY <2>1, <2>2 DEF SourceInv, TurnSound
  <2>4. s \in turn.cmds.cancel  BY <2>1 DEF SourceInv, TurnSound
  <2>5. ASSUME NEW u \in Steps, Source(u) PROVE Source(u)'
    <3>1. CASE u = s
      <4>1. u \in turn'.cmds.cancel  BY <2>1, <2>4, <3>1
      <4> QED  BY <4>1 DEF Source, Covers
    <3>2. CASE u # s
      <4>1. UNCHANGED <<rows, followOns, plan>> /\ \A t \in tasks : t.step = u => t \in tasks'
        BY <1>1, <3>2 DEF CancelJob, AbortTask, LatestOf, KeyOf, store
      <4>2. Pending(u) => Pending(u)'  BY <4>1 DEF Pending
      <4>3. Covers(turn.cmds, u) => Covers(turn.cmds, u)'  BY <2>1 DEF Covers
      <4> QED  BY <2>1, <2>5, <4>2, <4>3 DEF Source
    <3> QED  BY <3>1, <3>2
  <2>6. UNCHANGED <<rows, phase, mode>>  BY <1>1 DEF CancelJob, AbortTask, store
  <2> QED  BY <2>3, <2>5, <2>6 DEF SourceInv
<1>2. ASSUME NEW a \in turn.cmds.activate, NEW kids \in SUBSET turn.cmds.children, ActivateStep(a, kids)
      PROVE  SourceInv'
  BY <1>2, ActivateSources
<1>3. ASSUME NEW a \in turn.cmds.activate PROVE ~ActivationFails(a)
  BY DEF ActivationFails, Resolvable
<1>4. CASE FinishTurn  BY <1>4, FinishSources
<1>5. CASE RunStarted
  <2>1. \A s \in Steps : Pending(s) => Pending(s)'  BY <1>5 DEF RunStarted, Pending, store
  <2> QED  BY <1>0, <1>5, <2>1, RunStartedTyped, OthersSound, StatusFacts, SubmitSources DEF RunStarted
<1>6. ASSUME NEW t \in tasks, TaskSubmits(t) PROVE SourceInv'
  <2>1. \A s \in Steps : s # t.step => (Pending(s) => Pending(s)')
    BY <1>6 DEF TaskSubmits, Pending, store
  <2> QED  BY <1>0, <1>6, <2>1, StepCompletedTyped, StepFailedTyped, DecisionsCover, SubmitSources DEF TaskSubmits
<1>7. ASSUME NEW s \in Steps, FollowOnSubmits(s) PROVE SourceInv'
  <2>1. \A u \in Steps : u # s => (Pending(u) => Pending(u)')
    BY <1>7 DEF FollowOnSubmits, Pending, store
  <2> QED  BY <1>0, <1>7, <2>1, StepFailedTyped, DecisionsCover, SubmitSources DEF FollowOnSubmits
<1>8. CASE CancelRequested \/ DeadlineExceeded
  <2>1. \A s \in Steps : Pending(s) => Pending(s)'
    BY <1>8 DEF CancelRequested, DeadlineExceeded, Pending, store
  <2> QED  BY <1>0, <1>8, <2>1, StopTyped, OthersSound, StatusFacts, SubmitSources
           DEF CancelRequested, DeadlineExceeded
<1>9. ASSUME NEW c \in Clients, NEW s \in Steps, NEW type \in {"step_approved", "step_rejected"},
             ResolveApproval(c, s, type)
      PROVE  SourceInv'
  BY <1>9, QuietSources DEF ResolveApproval, Pending, store
<1>10. ASSUME NEW c \in Clients, SubmitApproval(c) PROVE SourceInv'
  <2>1. clients[c].step \in Steps  BY <1>0, <1>10 DEF SubmitApproval, TypeOK, Call
  <2>2. \A s \in Steps : Pending(s) => Pending(s)'  BY <1>10 DEF SubmitApproval, Pending, store
  <2> QED  BY <1>0, <1>10, <2>1, <2>2, StepApprovedTyped, StepRejectedTyped, DecisionsCover, SubmitSources
           DEF SubmitApproval
<1>11. ~ \E h \in hooks : HookStep(h)  BY <1>0
<1>12. ASSUME NEW t \in tasks, TaskStep(t) PROVE SourceInv'
  <2>1. \A s \in Steps : rows'[s].status = rows[s].status /\ rows'[s].attempt = rows[s].attempt
    <3>1. CASE PersistJobId(t)  BY <1>0, <3>1, NoCommandsTyped, JobIdStatuses
    <3>2. CASE StartJob(t) \/ StartFails(t) \/ JobCompletes(t) \/ JobFails(t) \/ WaitGivesUp(t)
      BY <3>2 DEF StartJob, StartFails, JobCompletes, JobFails, WaitGivesUp, store
    <3> QED  BY <1>12, <3>1, <3>2 DEF TaskStep
  <2>2. UNCHANGED <<phase, turn, mode, followOns, plan>>
    BY <1>12 DEF TaskStep, StartJob, StartFails, PersistJobId, JobCompletes, JobFails, WaitGivesUp, store
  <2>3. \E pc \in {"persisting", "waiting", "completed", "failed"} : Move(t, pc)
    BY <1>12 DEF TaskStep, StartJob, StartFails, PersistJobId, JobCompletes, JobFails, WaitGivesUp
  <2>4. ASSUME NEW s \in Steps, Pending(s) PROVE Pending(s)'
    <3>1. CASE \E k \in tasks : k.step = s /\ k.attempt = rows[s].attempt
      <4>1. PICK k \in tasks : k.step = s /\ k.attempt = rows[s].attempt  BY <3>1
      <4>2. \E m \in tasks' : m.step = k.step /\ m.attempt = k.attempt
        <5>1. t \in Task  BY <1>0 DEF TypeOK
        <5>2. \A pc : [t EXCEPT !.pc = pc].step = t.step /\ [t EXCEPT !.pc = pc].attempt = t.attempt
          BY <5>1 DEF Task
        <5> QED  BY <2>3, <5>2 DEF Move
      <4> QED  BY <2>1, <4>1, <4>2 DEF Pending
    <3>2. CASE ~ \E k \in tasks : k.step = s /\ k.attempt = rows[s].attempt
      BY <2>1, <2>2, <2>4, <3>2 DEF Pending
    <3> QED  BY <3>1, <3>2
  <2> QED  BY <2>1, <2>2, <2>4, QuietSources
<1>13. CASE Crash
  BY <1>13 DEF Crash, SourceInv, TurnSound, Idle, NoCommands
<1>14. CASE Boot
  <2>1. UNCHANGED <<rows, phase, turn>> /\ plan' = RecoveryPlan  BY <1>14 DEF Boot, store
  <2>2. ASSUME NEW s \in Steps, phase = "running", rows[s].status = "running" PROVE Pending(s)'
    <3>1. rows[s] # NoRow  BY <2>2 DEF NoRow
    <3>2. \E p \in RecoveryPlan : p.step = s /\ p.attempt = rows[s].attempt
      <4>1. CASE rows[s].job
        <5>1. [kind |-> "reattach", step |-> s, attempt |-> rows[s].attempt] \in RecoveryPlan
          BY <2>2, <3>1, <4>1 DEF RecoveryPlan
        <5> QED  BY <5>1
      <4>2. CASE ~rows[s].job
        <5>1. [kind |-> "fail", step |-> s, attempt |-> rows[s].attempt] \in RecoveryPlan
          BY <2>2, <3>1, <4>2 DEF RecoveryPlan
        <5> QED  BY <5>1
      <4> QED  BY <4>1, <4>2
    <3> QED  BY <2>1, <3>2 DEF Pending
  <2> QED  BY <2>1, <2>2 DEF SourceInv, TurnSound, Source
<1>15. CASE Serve
  BY <1>15 DEF Serve, SourceInv, TurnSound, Source, Pending, Covers, store
<1>16. ASSUME NEW p \in plan, Reattach(p) PROVE SourceInv'
  <2>1. UNCHANGED <<rows, phase, turn, mode, followOns>> /\ p.kind = "reattach"
        /\ tasks' = tasks \cup {[step |-> p.step, attempt |-> p.attempt, reattached |-> TRUE, pc |-> "waiting"]}
        /\ plan' = plan \ {p}
    BY <1>16 DEF Reattach, store
  <2> DEFINE new == [step |-> p.step, attempt |-> p.attempt, reattached |-> TRUE, pc |-> "waiting"]
  <2>2. new \in tasks' /\ new.step = p.step /\ new.attempt = p.attempt /\ tasks \subseteq tasks'  BY <2>1
  <2> HIDE DEF new
  <2>3. \A q \in plan : q = p \/ q \in plan'  BY <2>1
  <2>4. ASSUME NEW s \in Steps, Pending(s) PROVE Pending(s)'
    <3>1. CASE \E t \in tasks : t.step = s /\ t.attempt = rows[s].attempt  BY <2>1, <2>2, <3>1 DEF Pending
    <3>2. CASE s \in followOns  BY <2>1, <3>2 DEF Pending
    <3>3. CASE \E q \in plan : q.step = s /\ (q.kind = "reattach" => q.attempt = rows[s].attempt)
      <4>1. PICK q \in plan : q.step = s /\ (q.kind = "reattach" => q.attempt = rows[s].attempt)  BY <3>3
      <4>2. CASE q = p  BY <2>1, <2>2, <4>1, <4>2 DEF Pending
      <4>3. CASE q \in plan'  BY <2>1, <4>1, <4>3 DEF Pending
      <4> QED  BY <2>3, <4>2, <4>3
    <3> QED  BY <2>4, <3>1, <3>2, <3>3 DEF Pending
  <2> QED  BY <2>1, <2>4, QuietSources
<1>17. ASSUME NEW p \in plan, RecoverBySubmit(p) PROVE SourceInv'
  <2>1. \A s \in Steps : s # p.step => (Pending(s) => Pending(s)')
    BY <1>17 DEF RecoverBySubmit, Pending, store
  <2>2. CASE p.kind = "fail"
    BY <1>0, <1>17, <2>1, <2>2, StepFailedTyped, DecisionsCover, SubmitSources DEF RecoverBySubmit
  <2>3. CASE p.kind # "fail"
    <3>1. p.step \notin Steps  BY <1>0, <1>17, <2>3 DEF RecoverBySubmit
    <3> QED  BY <1>0, <1>17, <2>1, <2>3, <3>1, RunStartedTyped, OthersSound, StatusFacts, SubmitSources
             DEF RecoverBySubmit
  <2> QED  BY <2>2, <2>3
<1>18. CASE UNCHANGED vars
  BY <1>18, QuietSources DEF vars, Pending, store
<1> QED
  BY <1>1, <1>2, <1>3, <1>4, <1>5, <1>6, <1>7, <1>8, <1>9, <1>10, <1>11, <1>12, <1>13, <1>14,
     <1>15, <1>16, <1>17, <1>18
  DEF Next, LockStep, Recover, Ended

\* In a flow without hooks whose templates resolve, however often the runtime
\* crashes and in whatever order results, retries, fail-fast, subflow stubs and the
\* recovery plan take effect: a running step always has a task, a queued event, a
\* recovery action or the turn in progress that will report on it.
THEOREM NobodyIsForgotten == ASSUME Hookless, Resolvable PROVE Spec => []RunningHasSource
<1>1. Init => IInv /\ SourceInv
  <2>1. Init => SourceInv
    BY DEF Init, SourceInv, TurnSound, Idle, NoCommands, NoRow
  <2> QED  BY <2>1, InitCoherent
<1>2. IInv /\ SourceInv /\ [Next]_vars => (IInv /\ SourceInv)'  BY NextCoherent, NextSources
<1>3. IInv /\ SourceInv => RunningHasSource
  <2> SUFFICES ASSUME IInv, SourceInv, NEW s \in Steps, Source(s) PROVE HasSource(s)
    BY DEF SourceInv, RunningHasSource
  <2>1. CASE \E t \in tasks : t.step = s /\ t.attempt = rows[s].attempt
    BY <2>1 DEF HasSource, KeyOf
  <2>2. CASE ~ \E t \in tasks : t.step = s /\ t.attempt = rows[s].attempt
    BY <2>2 DEF SourceInv, TurnSound, Source, Pending, Covers, HasSource
  <2> QED  BY <2>1, <2>2
<1> QED  BY <1>1, <1>2, <1>3, PTL DEF Spec

-----------------------------------------------------------------------------
(* Whatever is on its way is about a step that has been started. *)

Known(s) == rows[s].status # "none"

\* Commands that mark a step which has a row, and cancel only what is active.
Rightful(r, c) ==
  /\ c.status \in {"none", "waiting_approval", "completed", "failed", "failed_rejected"}
  /\ c.status # "none" => c.step \in Steps /\ r[c.step].status # "none"
  /\ c.cancel \subseteq ActiveSteps(r)

SourcesKnown ==
  /\ \A t \in tasks : Known(t.step)
  /\ \A s \in followOns : Known(s)
  /\ \A p \in plan : p.step \in Steps => Known(p.step)
  /\ \A c \in Clients : clients[c].step \in Steps => Known(clients[c].step)

TurnKnown ==
  turn.held => /\ Rightful(rows, turn.cmds)
               /\ \A s \in turn.followOns : s \in turn.cmds.children \/ Known(s)

\* A step that has not been started has no row.
Untouched == \A s \in Steps : rows[s].status = "none" => rows[s] = NoRow

KnownInv == SourcesKnown /\ TurnKnown /\ Untouched

LEMMA FramedRightful ==
  ASSUME NEW r, NEW c, NEW d, Framed(c, d), Rightful(r, c)
  PROVE  Rightful(r, d)
BY DEF Framed, Rightful

LEMMA MarkRightful ==
  ASSUME NEW r, NEW s \in Steps, r[s].status # "none",
         NEW st \in {"waiting_approval", "completed", "failed", "failed_rejected"}
  PROVE  Mark(s, st) \in Commands /\ Rightful(r, Mark(s, st))
<1>1. st \in Status  BY StatusFacts
<1> QED  BY <1>1, MarkFields DEF Rightful

LEMMA DecisionsRightful ==
  ASSUME Hookless, NEW r \in [Steps -> Row], NEW s \in Steps, r[s].status # "none"
  PROVE  /\ Rightful(r, OnStepCompleted(r, s)) /\ Rightful(r, OnStepFailed(r, s))
         /\ Rightful(r, OnStepApproved(r, s)) /\ Rightful(r, OnStepRejected(r, s))
<1>1. Rightful(r, OnStepCompleted(r, s))
  <2>1. s \notin AfterHooks  BY DEF Hookless
  <2>2. CASE s \in HumanLoop
    <3>1. OnStepCompleted(r, s) = Mark(s, "waiting_approval")
      BY <2>1, <2>2, MarkBare, StatusFacts DEF OnStepCompleted
    <3> QED  BY <3>1, MarkRightful
  <2>3. CASE s \notin HumanLoop
    <3>1. OnStepCompleted(r, s) = Route(Mark(s, "completed"), SetStatus(r, s, "completed"), OnSuccess[s])
      BY <2>1, <2>3, MarkBare, StatusFacts DEF OnStepCompleted
    <3> QED  BY <3>1, MarkRightful, RouteFrames, FramedRightful
  <2> QED  BY <2>2, <2>3
<1>2. Rightful(r, OnStepFailed(r, s))
  <2>1. CASE r[s].attempt <= Retries[s]
    <3>1. NoCommands \in Commands /\ Rightful(r, NoCommands)
      BY NoCommandsTyped DEF NoCommands, Rightful
    <3> QED  BY <2>1, <3>1, LaunchFrames, FramedRightful DEF OnStepFailed
  <2>2. CASE ~(r[s].attempt <= Retries[s])
    <3> DEFINE m == Mark(s, "failed")
               c == Cancel(m, ActiveSteps(r) \ {s})
    <3>1. ActiveSteps(r) \ {s} \in SUBSET Steps  BY DEF ActiveSteps
    <3>2. m \in Commands /\ Rightful(r, m)  BY MarkRightful
    <3> HIDE DEF m
    <3>3. c \in Commands /\ c.step = m.step /\ c.status = m.status /\ c.cancel = ActiveSteps(r) \ {s}
      BY <3>1, <3>2, CancelFields
    <3>4. OnStepFailed(r, s) = Route(c, FailFast(r, s), OnFailure[s])  BY <2>2 DEF OnStepFailed, m
    <3> HIDE DEF c
    <3>5. Rightful(r, c)  BY <3>2, <3>3 DEF Rightful
    <3> QED  BY <3>3, <3>4, <3>5, RouteFrames, FramedRightful
  <2> QED  BY <2>1, <2>2
<1>3. Rightful(r, OnStepApproved(r, s))
  BY MarkRightful, RouteFrames, FramedRightful DEF OnStepApproved
<1>4. Rightful(r, OnStepRejected(r, s))
  <2>1. /\ Mark(s, "failed_rejected") \in Commands
        /\ Rightful(r, Mark(s, "failed_rejected"))
    BY MarkRightful
  <2> QED  BY <2>1, RouteFrames, LaunchFrames, FramedRightful DEF OnStepRejected
<1> QED  BY <1>1, <1>2, <1>3, <1>4

LEMMA OthersRightful ==
  ASSUME Hookless, NEW r, NEW ph
  PROVE  Rightful(r, OnRunStarted(r)) /\ Rightful(r, Stop(r, ph))
<1>1. Rightful(r, Stop(r, ph))  BY DEF Stop, Cancel, NoCommands, Rightful
<1> DEFINE c == RunHooks(NoCommands, "none")
<1>2. c \in Commands /\ Rightful(r, c)  BY NoCommandsTyped DEF RunHooks, NoCommands, Commands, Rightful
<1>3. OnRunStarted(r) = Launch(c, r, Ready(r, EntrySteps))  BY DEF OnRunStarted, Hookless
<1> HIDE DEF c
<1> QED  BY <1>1, <1>2, <1>3, LaunchFrames, FramedRightful

\* A submitted event starts a turn about known steps, or none.
LEMMA SubmitKnown ==
  ASSUME TurnKnown, NEW c, c.gate = "none", Rightful(rows, c), Submit(c, hooks), UNCHANGED rows
  PROVE  TurnKnown'
<1>1. turn' = turn \/ turn' = Held(c)  BY DEF Submit, Drive
<1>2. Held(c).cmds = c /\ Held(c).followOns = c.children  BY DEF Held
<1>3. CASE turn' = turn  BY <1>3 DEF TurnKnown, Known
<1>4. CASE turn' = Held(c)  BY <1>2, <1>4 DEF TurnKnown
<1> QED  BY <1>1, <1>3, <1>4

\* Statuses stay; nothing new is on its way.
LEMMA QuietSourcesKnown ==
  ASSUME SourcesKnown, \A s \in Steps : Known(s) => Known(s)',
         \A t \in tasks : t.step \in Steps, followOns \subseteq Steps,
         \A t \in tasks' : \E u \in tasks : t.step = u.step,
         \A s \in followOns' : s \in followOns, plan' \subseteq plan,
         \A c \in Clients : clients'[c] = clients[c] \/ clients'[c].step \notin Steps
  PROVE  SourcesKnown'
BY DEF SourcesKnown, Known

\* What one transaction of a turn starts, and what it leaves without a row.
LEMMA ActivateStarts ==
  ASSUME IInv, NEW a \in turn.cmds.activate, NEW kids \in SUBSET turn.cmds.children,
         ActivateStep(a, kids)
  PROVE  /\ a.step \in Steps /\ turn.held
         /\ \A s \in kids : s \in Steps /\ rows'[s].status = "running"
         /\ rows'[a.step].status = "running"
         /\ \A s \in Steps : s # a.step /\ s \notin kids => rows'[s] = Persist(rows, turn.cmds, {})[s]
<1> DEFINE c == turn.cmds
           flushed == Persist(rows, c, kids)
<1>0. /\ rows \in [Steps -> Row] /\ c \in Commands /\ kids \subseteq Steps
      /\ a.step \in Steps /\ a.attempt \in Nat
  BY DEF IInv, TypeOK, Turn, Commands, Activation
<1>1. /\ turn.held /\ kids \subseteq Subflows /\ a.step \notin Subflows /\ a.attempt > rows[a.step].attempt
  BY <1>0 DEF IInv, Coherent, TurnFits, Fits, ActivateStep
<1>2. flushed \in [Steps -> Row]  BY <1>0, PersistTyped
<1>3. rows' = [flushed EXCEPT ![a.step] = Insert(flushed[a.step], a.attempt)]  BY DEF ActivateStep
<1>4. rows'[a.step].status = "running"
  <2>1. flushed[a.step].attempt = rows[a.step].attempt  BY <1>0, <1>1, PersistRow
  <2>2. a.attempt >= flushed[a.step].attempt /\ flushed[a.step] \in Row
    BY <1>0, <1>1, <1>2, <2>1 DEF Row
  <2>3. Insert(flushed[a.step], a.attempt).status = "running"  BY <1>0, <2>2, InsertFields
  <2> QED  BY <1>0, <1>2, <1>3, <2>3
<1>5. ASSUME NEW s \in kids PROVE rows'[s].status = "running"
  <2>1. s \in Steps /\ s # a.step /\ rows[s] \in Row /\ rows[s].attempt \in Nat /\ rows[s].attempt <= 1
    BY <1>0, <1>1 DEF IInv, Coherent, SubflowOnce, Row
  <2>2. flushed[s] = Insert(rows[s], 1)  BY <1>0, <2>1, PersistRow
  <2>3. Insert(rows[s], 1).status = "running"  BY <2>1, InsertFields
  <2> QED  BY <1>2, <1>3, <2>1, <2>2, <2>3
<1>6. ASSUME NEW s \in Steps, s # a.step, s \notin kids PROVE rows'[s] = Persist(rows, c, {})[s]
  <2>1. rows'[s] = flushed[s]  BY <1>2, <1>3, <1>6
  <2>2. flushed[s] = Persist(rows, c, {})[s]  BY <1>6 DEF Persist
  <2> QED  BY <2>1, <2>2
<1> QED  BY <1>0, <1>1, <1>4, <1>5, <1>6

LEMMA FinishStarts ==
  ASSUME IInv, FinishTurn
  PROVE  /\ \A s \in turn.cmds.children : s \in Steps /\ rows'[s].status = "running"
         /\ \A s \in Steps : s \notin turn.cmds.children => rows'[s] = Persist(rows, turn.cmds, {})[s]
<1> DEFINE c == turn.cmds
<1>0. /\ rows \in [Steps -> Row] /\ c \in Commands /\ c.children \subseteq Steps
      /\ c.children \subseteq Subflows /\ rows' = Persist(rows, c, c.children)
  BY DEF IInv, TypeOK, Turn, Commands, Coherent, TurnFits, Fits, FinishTurn
<1>1. ASSUME NEW s \in c.children PROVE rows'[s].status = "running"
  <2>1. s \in Steps /\ rows[s] \in Row /\ rows[s].attempt \in Nat /\ rows[s].attempt <= 1
    BY <1>0 DEF IInv, Coherent, SubflowOnce, Row
  <2>2. rows'[s] = Insert(rows[s], 1)  BY <1>0, <2>1, PersistRow
  <2> QED  BY <2>1, <2>2, InsertFields
<1>2. ASSUME NEW s \in Steps, s \notin c.children PROVE rows'[s] = Persist(rows, c, {})[s]
  BY <1>0, <1>2 DEF Persist
<1> QED  BY <1>0, <1>1, <1>2

\* Commands that fit known steps leave the others alone.
LEMMA PersistUntouched ==
  ASSUME NEW r, NEW c, Rightful(r, c), NEW s \in Steps, r[s].status = "none"
  PROVE  Persist(r, c, {})[s] = r[s]
<1>1. ~(s = c.step /\ c.status # "none")  BY DEF Rightful
<1>2. s \notin c.cancel  BY DEF Rightful, ActiveSteps, Active
<1> QED  BY <1>1, <1>2 DEF Persist

LEMMA NextUntouched ==
  ASSUME IInv, KnownInv, [Next]_vars
  PROVE  Untouched'
<1>0. /\ TypeOK /\ rows \in [Steps -> Row] /\ hooks = {} /\ turn.cmds \in Commands
  BY DEF IInv, TypeOK, Turn
<1>g. \A s \in Steps : rows[s].status # "none" => rows'[s].status # "none"
  BY StepSeen DEF Same, Grows
<1>1. ASSUME rows' = rows PROVE Untouched'  BY <1>1 DEF KnownInv, Untouched
<1>2. ASSUME \A s \in Steps : rows'[s].status = "none" => rows'[s] = Persist(rows, turn.cmds, {})[s],
             turn.held
      PROVE  Untouched'
  <2> SUFFICES ASSUME NEW s \in Steps, rows'[s].status = "none" PROVE rows'[s] = NoRow  BY DEF Untouched
  <2>1. rows[s].status = "none"  BY <1>g
  <2>2. rows'[s] = rows[s]  BY <1>2, <2>1, PersistUntouched DEF KnownInv, TurnKnown
  <2> QED  BY <2>1, <2>2 DEF KnownInv, Untouched
<1>3. ASSUME NEW a \in turn.cmds.activate, NEW kids \in SUBSET turn.cmds.children, ActivateStep(a, kids)
      PROVE  Untouched'
  BY <1>2, <1>3, ActivateStarts
<1>4. ASSUME FinishTurn PROVE Untouched'
  <2>1. turn.held  BY <1>4 DEF FinishTurn
  <2> QED  BY <1>2, <1>4, <2>1, FinishStarts
<1>5. ASSUME NEW t \in tasks, TaskStep(t) PROVE Untouched'
  <2>1. CASE PersistJobId(t)
    <3>1. rows' = [rows EXCEPT ![t.step].job = rows[t.step].job \/ rows[t.step].attempt = t.attempt]
      BY <2>1 DEF PersistJobId
    <3>2. t.step \in Steps /\ rows[t.step].status # "none"
      BY <1>0 DEF TypeOK, Task, KnownInv, SourcesKnown, Known
    <3>3. \A s \in Steps : s # t.step => rows'[s] = rows[s]  BY <1>0, <3>1, <3>2
    <3> QED  BY <1>g, <3>2, <3>3 DEF KnownInv, Untouched
  <2>2. CASE StartJob(t) \/ StartFails(t) \/ JobCompletes(t) \/ JobFails(t) \/ WaitGivesUp(t)
    BY <1>1, <2>2 DEF StartJob, StartFails, JobCompletes, JobFails, WaitGivesUp, store
  <2> QED  BY <1>5, <2>1, <2>2 DEF TaskStep
<1>6. ASSUME LockStep PROVE Untouched'
  <2>1. ASSUME NEW s \in Steps, CancelJob(s) \/ AbortTask(s) PROVE Untouched'  BY <1>1, <2>1 DEF CancelJob, AbortTask, store
  <2>2. ASSUME NEW a \in turn.cmds.activate, ActivationFails(a) PROVE Untouched'
    BY <1>1, <2>2 DEF ActivationFails, store
  <2> QED  BY <1>3, <1>4, <1>6, <2>1, <2>2 DEF LockStep
<1>7. ASSUME RunStarted \/ CancelRequested \/ DeadlineExceeded \/ Crash PROVE Untouched'
  BY <1>1, <1>7 DEF RunStarted, CancelRequested, DeadlineExceeded, Crash, store
<1>8. ASSUME NEW t \in tasks, TaskSubmits(t) PROVE Untouched'  BY <1>1, <1>8 DEF TaskSubmits, store
<1>9. ASSUME NEW s \in Steps, FollowOnSubmits(s) PROVE Untouched'
  BY <1>1, <1>9 DEF FollowOnSubmits, store
<1>10. ASSUME NEW c \in Clients, NEW s \in Steps, NEW type \in {"step_approved", "step_rejected"},
              ResolveApproval(c, s, type)
       PROVE  Untouched'
  BY <1>1, <1>10 DEF ResolveApproval, store
<1>11. ASSUME NEW c \in Clients, SubmitApproval(c) PROVE Untouched'
  BY <1>1, <1>11 DEF SubmitApproval, store
<1>12. ASSUME Recover PROVE Untouched'
  BY <1>1, <1>12 DEF Recover, Boot, Serve, Reattach, RecoverBySubmit, store
<1>13. ASSUME UNCHANGED vars PROVE Untouched'  BY <1>1, <1>13 DEF vars
<1>14. ~ \E h \in hooks : HookStep(h)  BY <1>0
<1> QED
  BY <1>5, <1>6, <1>7, <1>8, <1>9, <1>10, <1>11, <1>12, <1>13, <1>14 DEF Next, Ended

LEMMA NextSourcesKnown ==
  ASSUME IInv, KnownInv, [Next]_vars
  PROVE  SourcesKnown'
<1>0. /\ TypeOK /\ rows \in [Steps -> Row] /\ hooks = {} /\ SourcesKnown
      /\ \A t \in tasks : t \in Task /\ t.step \in Steps
      /\ followOns \subseteq Steps /\ turn.followOns \subseteq Steps
      /\ \A p \in plan : p.kind = "reattach" => p.step \in Steps
  BY DEF IInv, TypeOK, Task, Turn, KnownInv, Plan, Restart
<1>c. clients \in [Clients -> Call]  BY DEF IInv, TypeOK
<1>g. \A s \in Steps : Known(s) => Known(s)'  BY StepSeen DEF Same, Grows, Known
<1>n. NoCall.step \notin Steps /\ InTurn.step \notin Steps  BY DEF NoCall, InTurn
<1>r. \A c \in Clients : Return[c] = clients[c] \/ Return[c].step \notin Steps
  BY <1>n DEF Return
<1>1. ASSUME tasks' \subseteq tasks, followOns' \subseteq followOns, plan' \subseteq plan,
             \A c \in Clients : clients'[c] = clients[c] \/ clients'[c].step \notin Steps
      PROVE  SourcesKnown'
  BY <1>0, <1>g, <1>1, QuietSourcesKnown
<1>2. ASSUME NEW a \in turn.cmds.activate, NEW kids \in SUBSET turn.cmds.children, ActivateStep(a, kids)
      PROVE  SourcesKnown'
  <2>1. a.step \in Steps /\ Known(a.step)'  BY <1>2, ActivateStarts DEF Known
  <2>2. /\ UNCHANGED <<followOns, plan, clients>>
        /\ tasks' = tasks \cup {[step |-> a.step, attempt |-> a.attempt, reattached |-> FALSE, pc |-> "starting"]}
    BY <1>2 DEF ActivateStep
  <2>3. \A t \in tasks' : t \in tasks \/ t.step = a.step  BY <2>2
  <2>4. \A t \in tasks' : Known(t.step)'  BY <1>0, <1>g, <2>1, <2>3 DEF SourcesKnown
  <2> QED  BY <1>0, <1>g, <2>2, <2>4 DEF SourcesKnown
<1>3. ASSUME NEW a \in turn.cmds.activate, ActivationFails(a) PROVE SourcesKnown'
  BY <1>1, <1>3, <1>r DEF ActivationFails
<1>4. ASSUME FinishTurn PROVE SourcesKnown'
  <2>1. UNCHANGED <<tasks, plan>> /\ followOns' = followOns \cup turn.followOns /\ clients' = Return
        /\ turn.held
    BY <1>4 DEF FinishTurn
  <2>2. \A s \in turn.followOns : s \in turn.cmds.children \/ Known(s)
    BY <2>1 DEF KnownInv, TurnKnown
  <2>3. \A s \in turn.cmds.children : Known(s)'  BY <1>4, FinishStarts DEF Known
  <2>4. \A s \in followOns' : Known(s)'  BY <1>0, <1>g, <2>1, <2>2, <2>3 DEF SourcesKnown
  <2>5. ASSUME NEW c \in Clients, clients'[c].step \in Steps PROVE Known(clients[c].step)'
    <3>1. clients'[c] = clients[c]  BY <1>r, <2>1, <2>5
    <3>2. Known(clients[c].step)  BY <1>0, <2>5, <3>1 DEF SourcesKnown
    <3> QED  BY <1>g, <2>5, <3>1, <3>2 DEF Known
  <2>6. \A c \in Clients : clients'[c].step \in Steps => Known(clients[c].step)'  BY <2>5
  <2> QED  BY <1>0, <1>g, <2>1, <2>4, <2>6 DEF SourcesKnown
<1>5. ASSUME NEW t \in tasks, TaskStep(t) PROVE SourcesKnown'
  <2>1. UNCHANGED <<followOns, plan, clients>>
        /\ \E pc \in {"persisting", "waiting", "completed", "failed"} : Move(t, pc)
    BY <1>5 DEF TaskStep, StartJob, StartFails, PersistJobId, JobCompletes, JobFails, WaitGivesUp
  <2>2. \A pc : [t EXCEPT !.pc = pc].step = t.step  BY <1>0 DEF Task
  <2>3. \A u \in tasks' : \E v \in tasks : u.step = v.step  BY <2>1, <2>2 DEF Move
  <2> QED  BY <1>0, <1>g, <2>1, <2>3, QuietSourcesKnown
<1>6. ASSUME NEW s \in Steps, CancelJob(s) \/ AbortTask(s) PROVE SourcesKnown'  BY <1>1, <1>6 DEF CancelJob, AbortTask
<1>7. ASSUME RunStarted \/ CancelRequested \/ DeadlineExceeded PROVE SourcesKnown'
  BY <1>1, <1>7 DEF RunStarted, CancelRequested, DeadlineExceeded
<1>8. ASSUME NEW t \in tasks, TaskSubmits(t) PROVE SourcesKnown'  BY <1>1, <1>8 DEF TaskSubmits
<1>9. ASSUME NEW s \in Steps, FollowOnSubmits(s) PROVE SourcesKnown'  BY <1>1, <1>9 DEF FollowOnSubmits
<1>10. ASSUME NEW c \in Clients, NEW s \in Steps, NEW type \in {"step_approved", "step_rejected"},
              ResolveApproval(c, s, type)
       PROVE  SourcesKnown'
  <2>1. /\ UNCHANGED <<tasks, followOns, plan>> /\ rows[s].status = "waiting_approval"
        /\ clients' = [clients EXCEPT ![c] = [step |-> s, type |-> type]]
    BY <1>10 DEF ResolveApproval
  <2>2. rows'[s].status # "none"  BY <1>g, <2>1 DEF Known
  <2>3. clients'[c].step = s  BY <1>c, <2>1
  <2>4. \A d \in Clients : d # c => clients'[d] = clients[d]  BY <1>c, <2>1
  <2>5. ASSUME NEW d \in Clients, clients'[d].step \in Steps PROVE Known(clients[d].step)'
    <3>1. CASE d = c  BY <2>2, <2>3, <3>1 DEF Known
    <3>2. CASE d # c
      <4>1. Known(clients[d].step)  BY <1>0, <2>4, <2>5, <3>2 DEF SourcesKnown
      <4> QED  BY <1>g, <2>4, <2>5, <3>2, <4>1 DEF Known
    <3> QED  BY <3>1, <3>2
  <2> QED  BY <1>0, <1>g, <2>1, <2>5 DEF SourcesKnown
<1>11. ASSUME NEW c \in Clients, SubmitApproval(c) PROVE SourcesKnown'
  <2>1. \A d \in Clients : clients'[d] = clients[d] \/ clients'[d].step \notin Steps
    BY <1>c, <1>n, <1>11 DEF SubmitApproval
  <2> QED  BY <1>1, <1>11, <2>1 DEF SubmitApproval
<1>12. ASSUME Crash PROVE SourcesKnown'
  <2>1. \A d \in Clients : clients'[d].step \notin Steps  BY <1>n, <1>12 DEF Crash
  <2> QED  BY <1>1, <1>12, <2>1 DEF Crash
<1>13. ASSUME Boot PROVE SourcesKnown'
  <2>1. UNCHANGED <<tasks, followOns, clients>> /\ plan' = RecoveryPlan  BY <1>13 DEF Boot
  <2>2. \A p \in RecoveryPlan : p.step \in Steps => Known(p.step)
    BY DEF RecoveryPlan, Known, Restart
  <2> QED  BY <1>0, <1>g, <2>1, <2>2 DEF SourcesKnown
<1>14. ASSUME Serve PROVE SourcesKnown'  BY <1>1, <1>14 DEF Serve
<1>15. ASSUME NEW p \in plan, Reattach(p) PROVE SourcesKnown'
  <2>1. /\ UNCHANGED <<followOns, clients>> /\ plan' \subseteq plan /\ p.step \in Steps
        /\ tasks' = tasks \cup {[step |-> p.step, attempt |-> p.attempt, reattached |-> TRUE, pc |-> "waiting"]}
    BY <1>0, <1>15 DEF Reattach
  <2>2. \A t \in tasks' : t \in tasks \/ t.step = p.step  BY <2>1
  <2>3. Known(p.step)'  BY <1>0, <1>g, <2>1 DEF SourcesKnown
  <2>4. \A t \in tasks' : Known(t.step)'  BY <1>0, <1>g, <2>2, <2>3 DEF SourcesKnown
  <2> QED  BY <1>0, <1>g, <2>1, <2>4 DEF SourcesKnown
<1>16. ASSUME NEW p \in plan, RecoverBySubmit(p) PROVE SourcesKnown'  BY <1>1, <1>16 DEF RecoverBySubmit
<1>17. ASSUME UNCHANGED vars PROVE SourcesKnown'  BY <1>1, <1>17 DEF vars
<1>18. ~ \E h \in hooks : HookStep(h)  BY <1>0
<1> QED
  BY <1>2, <1>3, <1>4, <1>5, <1>6, <1>7, <1>8, <1>9, <1>10, <1>11, <1>12, <1>13, <1>14, <1>15,
     <1>16, <1>17, <1>18
  DEF Next, LockStep, Recover, Ended

LEMMA NextTurnKnown ==
  ASSUME Hookless, IInv, KnownInv, [Next]_vars
  PROVE  TurnKnown'
<1>0. /\ TypeOK /\ rows \in [Steps -> Row] /\ hooks = {} /\ TurnKnown /\ turn \in Turn
      /\ \A t \in tasks : t.step \in Steps
      /\ \A p \in plan : p.kind = "fail" => p.step \in Steps
  BY DEF IInv, TypeOK, Task, Turn, KnownInv, Plan, Restart
<1>g. \A s \in Steps : rows[s].status # "none" => rows'[s].status # "none"
  BY StepSeen DEF Same, Grows
<1>1. ASSUME UNCHANGED <<rows, turn>> PROVE TurnKnown'  BY <1>0, <1>1 DEF TurnKnown, Known
<1>2. ASSUME turn' = Idle PROVE TurnKnown'  BY <1>2 DEF TurnKnown, Idle
<1>3. ASSUME NEW s \in Steps, CancelJob(s) \/ AbortTask(s) PROVE TurnKnown'
  <2>1. /\ turn'.held = turn.held /\ turn'.cmds = turn.cmds /\ turn'.followOns = turn.followOns
        /\ rows' = rows
    BY <1>0, <1>3 DEF CancelJob, AbortTask, Turn, store
  <2> QED  BY <1>0, <2>1 DEF TurnKnown, Known
<1>4. ASSUME NEW a \in turn.cmds.activate, NEW kids \in SUBSET turn.cmds.children, ActivateStep(a, kids)
      PROVE  TurnKnown'
  <2>1. /\ turn.held /\ turn'.followOns = turn.followOns /\ turn'.cmds.children = turn.cmds.children \ kids
        /\ turn'.cmds.status = "none" /\ turn'.cmds.cancel = {}
    BY <1>0, <1>4 DEF ActivateStep, Turn, Commands
  <2>2. \A s \in kids : rows'[s].status # "none"  BY <1>4, ActivateStarts
  <2>3. ASSUME NEW s \in turn.followOns PROVE s \in turn'.cmds.children \/ rows'[s].status # "none"
    <3>1. s \in Steps  BY <1>0 DEF Turn
    <3>2. s \in turn.cmds.children \/ rows[s].status # "none"  BY <1>0, <2>1 DEF TurnKnown, Known
    <3> QED  BY <1>g, <2>1, <2>2, <3>1, <3>2
  <2>4. Rightful(rows', turn'.cmds)  BY <2>1 DEF Rightful
  <2> QED  BY <2>1, <2>3, <2>4 DEF TurnKnown, Known
<1>5. ASSUME NEW a \in turn.cmds.activate, ActivationFails(a) PROVE TurnKnown'
  BY <1>2, <1>5 DEF ActivationFails
<1>6. ASSUME FinishTurn PROVE TurnKnown'  BY <1>2, <1>6 DEF FinishTurn
<1>7. ASSUME RunStarted PROVE TurnKnown'
  BY <1>0, <1>7, StartEnds, OthersRightful, SubmitKnown DEF RunStarted, Plain, store
<1>8. ASSUME NEW t \in tasks, TaskSubmits(t) PROVE TurnKnown'
  <2>1. t.step \in Steps /\ rows[t.step].status # "none"
    BY <1>0 DEF KnownInv, SourcesKnown, Known
  <2> QED  BY <1>0, <1>8, <2>1, DecisionsRightful, StepCompletedFits, StepFailedFits, SubmitKnown
           DEF TaskSubmits, Plain, store
<1>9. ASSUME NEW s \in Steps, FollowOnSubmits(s) PROVE TurnKnown'
  <2>1. rows[s].status # "none"  BY <1>9 DEF FollowOnSubmits, KnownInv, SourcesKnown, Known
  <2> QED  BY <1>0, <1>9, <2>1, DecisionsRightful, StepFailedFits, SubmitKnown
           DEF FollowOnSubmits, Plain, store
<1>10. ASSUME CancelRequested \/ DeadlineExceeded PROVE TurnKnown'
  BY <1>0, <1>10, OthersRightful, StopTyped, StatusFacts, SubmitKnown
  DEF CancelRequested, DeadlineExceeded, store
<1>11. ASSUME NEW c \in Clients, NEW s \in Steps, NEW type \in {"step_approved", "step_rejected"},
              ResolveApproval(c, s, type)
       PROVE  TurnKnown'
  BY <1>1, <1>11 DEF ResolveApproval, store
<1>12. ASSUME NEW c \in Clients, SubmitApproval(c) PROVE TurnKnown'
  <2>1. clients[c].step \in Steps  BY <1>0, <1>12 DEF SubmitApproval, TypeOK, Call
  <2>2. rows[clients[c].step].status # "none"  BY <2>1 DEF KnownInv, SourcesKnown, Known
  <2> QED  BY <1>0, <1>12, <2>1, <2>2, DecisionsRightful, StepApprovedFits, StepRejectedFits, SubmitKnown
           DEF SubmitApproval, Plain, store
<1>13. ASSUME NEW t \in tasks, TaskStep(t) PROVE TurnKnown'
  <2>1. CASE PersistJobId(t)
    <3>1. \A s \in Steps : rows'[s].status = rows[s].status  BY <1>0, <2>1, NoCommandsTyped, JobIdStatuses
    <3>2. turn' = turn  BY <2>1 DEF PersistJobId
    <3>3. \A s \in turn.followOns : s \in Steps  BY <1>0 DEF Turn
    <3>4. ActiveSteps(rows') = ActiveSteps(rows)  BY <3>1 DEF ActiveSteps
    <3> QED  BY <1>0, <3>1, <3>2, <3>3, <3>4 DEF TurnKnown, Known, Rightful
  <2>2. CASE StartJob(t) \/ StartFails(t) \/ JobCompletes(t) \/ JobFails(t) \/ WaitGivesUp(t)
    BY <1>1, <2>2 DEF StartJob, StartFails, JobCompletes, JobFails, WaitGivesUp, store
  <2> QED  BY <1>13, <2>1, <2>2 DEF TaskStep
<1>14. ASSUME Crash PROVE TurnKnown'  BY <1>2, <1>14 DEF Crash
<1>15. ASSUME Boot \/ Serve PROVE TurnKnown'  BY <1>1, <1>15 DEF Boot, Serve, store
<1>16. ASSUME NEW p \in plan, Reattach(p) PROVE TurnKnown'  BY <1>1, <1>16 DEF Reattach, store
<1>17. ASSUME NEW p \in plan, RecoverBySubmit(p) PROVE TurnKnown'
  <2>1. CASE p.kind = "fail"
    <3>1. p.step \in Steps /\ rows[p.step].status # "none"
      BY <1>0, <2>1 DEF KnownInv, SourcesKnown, Known
    <3> QED  BY <1>0, <1>17, <2>1, <3>1, DecisionsRightful, StepFailedFits, SubmitKnown
             DEF RecoverBySubmit, Plain, store
  <2>2. CASE p.kind # "fail"
    BY <1>0, <1>17, <2>2, StartEnds, OthersRightful, SubmitKnown DEF RecoverBySubmit, Plain, store
  <2> QED  BY <2>1, <2>2
<1>18. ASSUME UNCHANGED vars PROVE TurnKnown'  BY <1>1, <1>18 DEF vars
<1>19. ~ \E h \in hooks : HookStep(h)  BY <1>0
<1> QED
  BY <1>3, <1>4, <1>5, <1>6, <1>7, <1>8, <1>9, <1>10, <1>11, <1>12, <1>13, <1>14, <1>15, <1>16,
     <1>17, <1>18, <1>19
  DEF Next, LockStep, Recover, Ended

LEMMA InitKnown == Init => KnownInv
BY DEF Init, KnownInv, SourcesKnown, TurnKnown, Untouched, Known, Idle, NoCall

LEMMA NextKnown == ASSUME Hookless PROVE IInv /\ KnownInv /\ [Next]_vars => KnownInv'
BY NextSourcesKnown, NextTurnKnown, NextUntouched DEF KnownInv

-----------------------------------------------------------------------------
(* A run that keeps running has something that will move it on. *)

\* Some entry step has no gate; a flow without one stays idle once it is started.
Startable == \E s \in EntrySteps : Needs[s] = {}

\* Commands that do not leave a run without steps as it is.
Begins(c) == c.terminal # "none" \/ c.activate # {} \/ c.children # {}

StartInv ==
  /\ mode = "up" => plan = {}
  /\ phase = "running" /\ mode # "down" /\ ~Started(rows)
       => starting \/ Restart \in plan \/ (turn.held /\ Begins(turn.cmds))

LEMMA StartBegins ==
  ASSUME Hookless, Resolvable, Startable, NEW r \in [Steps -> Row]
  PROVE  Begins(OnRunStarted(r)) /\ Sound(OnRunStarted(r))
<1> DEFINE c == RunHooks(NoCommands, "none")
           d == Launch(c, r, Ready(r, EntrySteps))
<1>1. c \in Commands /\ c.status = "none" /\ c.cancel = {} /\ Sound(c)
  BY NoCommandsTyped DEF RunHooks, NoCommands, Commands, Sound
<1>2. OnRunStarted(r) = d  BY DEF OnRunStarted, Hookless
<1> HIDE DEF c
<1>3. PICK s \in EntrySteps : Needs[s] = {}  BY DEF Startable
<1>4. s \in Ready(r, EntrySteps)  BY <1>3 DEF Ready, NeedsSatisfied
<1>5. Covers(d, s) /\ Sound(d)  BY <1>1, <1>4, LaunchSound
<1>6. d.status = "none" /\ d.cancel = {}  BY <1>1, LaunchFrames DEF Framed
<1> HIDE DEF d
<1> QED  BY <1>2, <1>5, <1>6 DEF Covers, Begins

\* An event that is submitted while no step has been started starts one or ends the run.
LEMMA SubmitBegins ==
  ASSUME StartInv, NEW c, Sound(c), Started(rows) \/ Begins(c), Submit(c, hooks),
         UNCHANGED <<store, mode>>, plan' \subseteq plan
  PROVE  StartInv'
<1>1. rows' = rows /\ phase' = phase /\ mode' = mode  BY DEF store
<1>2. plan = {} => plan' = {}  OBVIOUS
<1>3. CASE phase # "running" \/ Started(rows)  BY <1>1, <1>2, <1>3 DEF StartInv
<1>4. CASE phase = "running" /\ ~Started(rows)
  <2>1. turn' = Held(c)  BY <1>4 DEF Submit, Drive, Sound
  <2>2. turn'.held /\ turn'.cmds = c  BY <2>1 DEF Held
  <2> QED  BY <1>1, <1>2, <1>4, <2>2 DEF StartInv
<1> QED  BY <1>3, <1>4

LEMMA QuietBegins ==
  ASSUME StartInv, UNCHANGED <<phase, turn, starting, plan, mode>>, Started(rows) => Started(rows')
  PROVE  StartInv'
BY DEF StartInv

LEMMA NextBegins ==
  ASSUME Hookless, Resolvable, Startable, IInv, KnownInv, StartInv, [Next]_vars
  PROVE  StartInv'
<1>0. /\ TypeOK /\ rows \in [Steps -> Row] /\ hooks = {} /\ turn \in Turn
      /\ \A t \in tasks : t.step \in Steps
      /\ \A p \in plan : p.kind = "fail" => p.step \in Steps
  BY DEF IInv, TypeOK, Task, Turn, Plan, Restart
<1>g. Started(rows) => Started(rows')  BY StepSeen DEF Same, Grows, Started
<1>s. ASSUME NEW s \in Steps, rows[s].status # "none" PROVE Started(rows)  BY <1>s DEF Started
<1>1. ASSUME NEW s \in Steps, CancelJob(s) \/ AbortTask(s) PROVE StartInv'
  <2>1. /\ turn'.held = turn.held /\ turn'.cmds = turn.cmds
        /\ UNCHANGED <<phase, starting, plan, mode>>
    BY <1>0, <1>1 DEF CancelJob, AbortTask, Turn, store
  <2> QED  BY <1>g, <2>1 DEF StartInv
<1>2. ASSUME NEW a \in turn.cmds.activate, NEW kids \in SUBSET turn.cmds.children, ActivateStep(a, kids)
      PROVE  StartInv'
  <2>1. Started(rows')  BY <1>2, ActivateStarts DEF Started
  <2>2. UNCHANGED <<plan, mode>>  BY <1>2 DEF ActivateStep
  <2> QED  BY <2>1, <2>2 DEF StartInv
<1>3. ASSUME NEW a \in turn.cmds.activate PROVE ~ActivationFails(a)
  BY DEF ActivationFails, Resolvable
<1>4. ASSUME FinishTurn PROVE StartInv'
  <2> DEFINE c == turn.cmds
  <2>1. /\ turn.held /\ phase = "running" /\ c.activate = {} /\ UNCHANGED <<starting, plan, mode>>
        /\ c.audit = FALSE
    BY <1>4 DEF FinishTurn, IInv, Coherent, TurnFits, Plain
  <2>2. CASE c.terminal # "none"
    <3>1. phase' = c.terminal /\ c.terminal \in TerminalPhases
      BY <1>0, <1>4, <2>1, <2>2 DEF FinishTurn, Turn, Commands
    <3>2. phase' # "running"  BY <3>1 DEF TerminalPhases
    <3> QED  BY <2>1, <3>2 DEF StartInv
  <2>3. CASE c.children # {}
    <3>1. Started(rows')  BY <1>4, <2>3, FinishStarts DEF Started
    <3> QED  BY <2>1, <3>1 DEF StartInv
  <2>4. CASE c.terminal = "none" /\ c.children = {}
    <3>1. ~Begins(c)  BY <2>1, <2>4 DEF Begins
    <3> QED  BY <1>g, <2>1, <3>1 DEF StartInv
  <2> QED  BY <2>2, <2>3, <2>4
<1>5. ASSUME RunStarted PROVE StartInv'
  BY <1>0, <1>5, StartBegins, SubmitBegins DEF RunStarted
<1>6. ASSUME NEW t \in tasks, TaskSubmits(t) PROVE StartInv'
  <2>1. Started(rows)  BY <1>0, <1>s DEF KnownInv, SourcesKnown, Known
  <2> QED  BY <1>0, <1>6, <2>1, DecisionsCover, SubmitBegins DEF TaskSubmits
<1>7. ASSUME NEW s \in Steps, FollowOnSubmits(s) PROVE StartInv'
  <2>1. Started(rows)  BY <1>7, <1>s DEF FollowOnSubmits, KnownInv, SourcesKnown, Known
  <2> QED  BY <1>0, <1>7, <2>1, DecisionsCover, SubmitBegins DEF FollowOnSubmits
<1>8. ASSUME CancelRequested \/ DeadlineExceeded PROVE StartInv'
  <2>1. \A ph \in TerminalPhases : Begins(Stop(rows, ph))
    BY DEF Begins, Stop, Cancel, NoCommands, TerminalPhases
  <2> QED  BY <1>0, <1>8, <2>1, OthersSound, StatusFacts, SubmitBegins DEF CancelRequested, DeadlineExceeded
<1>9. ASSUME NEW c \in Clients, NEW s \in Steps, NEW type \in {"step_approved", "step_rejected"},
             ResolveApproval(c, s, type)
      PROVE  StartInv'
  BY <1>9, <1>g, QuietBegins DEF ResolveApproval, store
<1>10. ASSUME NEW c \in Clients, SubmitApproval(c) PROVE StartInv'
  <2>1. clients[c].step \in Steps  BY <1>0, <1>10 DEF SubmitApproval, TypeOK, Call
  <2>2. Started(rows)  BY <2>1, <1>s DEF KnownInv, SourcesKnown, Known
  <2> QED  BY <1>0, <1>10, <2>1, <2>2, DecisionsCover, SubmitBegins DEF SubmitApproval
<1>11. ASSUME NEW t \in tasks, TaskStep(t) PROVE StartInv'
  <2>1. UNCHANGED <<phase, turn, starting, plan, mode>>
    BY <1>11 DEF TaskStep, StartJob, StartFails, PersistJobId, JobCompletes, JobFails, WaitGivesUp, store
  <2> QED  BY <1>g, <2>1, QuietBegins
<1>12. ASSUME Crash PROVE StartInv'  BY <1>12 DEF Crash, StartInv
<1>13. ASSUME Boot PROVE StartInv'
  <2>1. UNCHANGED <<rows, phase>> /\ plan' = RecoveryPlan /\ mode' = "booting"  BY <1>13 DEF Boot, store
  <2>2. ASSUME phase = "running", ~Started(rows) PROVE Restart \in RecoveryPlan
    <3>1. \A s \in Steps : rows[s] = NoRow  BY <2>2 DEF Started, KnownInv, Untouched
    <3> QED  BY <2>2, <3>1 DEF RecoveryPlan
  <2> QED  BY <2>1, <2>2 DEF StartInv
<1>14. ASSUME Serve PROVE StartInv'
  BY <1>14, <1>g DEF Serve, StartInv, store
<1>15. ASSUME NEW p \in plan, Reattach(p) PROVE StartInv'
  <2>1. p # Restart /\ plan' = plan \ {p} /\ UNCHANGED <<phase, turn, starting, mode>>
    BY <1>15 DEF Reattach, Restart, store
  <2> QED  BY <1>g, <2>1 DEF StartInv
<1>16. ASSUME NEW p \in plan, RecoverBySubmit(p) PROVE StartInv'
  <2>1. CASE p.kind = "fail"
    <3>1. p.step \in Steps  BY <1>0, <2>1
    <3>2. Started(rows)  BY <1>s, <3>1 DEF KnownInv, SourcesKnown, Known
    <3> QED  BY <1>0, <1>16, <2>1, <3>1, <3>2, DecisionsCover, SubmitBegins DEF RecoverBySubmit
  <2>2. CASE p.kind # "fail"
    BY <1>0, <1>16, <2>2, StartBegins, SubmitBegins DEF RecoverBySubmit
  <2> QED  BY <2>1, <2>2
<1>17. ASSUME UNCHANGED vars PROVE StartInv'  BY <1>17, <1>g, QuietBegins DEF vars
<1>18. ~ \E h \in hooks : HookStep(h)  BY <1>0
<1> QED
  BY <1>1, <1>2, <1>3, <1>4, <1>5, <1>6, <1>7, <1>8, <1>9, <1>10, <1>11, <1>12, <1>13, <1>14,
     <1>15, <1>16, <1>17, <1>18
  DEF Next, LockStep, Recover, Ended

\* In a flow without hooks whose templates resolve and one of whose entry steps
\* needs nothing: whatever crashes, races and failures it has been through, a
\* run that keeps running while nobody holds its lock is about to be started,
\* has a task or a queued event, or waits for a human.
THEOREM SomethingMovesOn ==
  ASSUME Hookless, Resolvable, Startable PROVE Spec => []NeverStuck
<1> DEFINE All == IInv /\ SourceInv /\ KnownInv /\ StartInv
<1>1. Init => All
  <2>1. Init => SourceInv
    BY DEF Init, SourceInv, TurnSound, Idle, NoCommands, NoRow
  <2>2. Init => StartInv  BY DEF Init, StartInv
  <2> QED  BY <2>1, <2>2, InitCoherent, InitKnown
<1>2. All /\ [Next]_vars => All'  BY NextCoherent, NextSources, NextKnown, NextBegins
<1>3. All => NeverStuck
  <2> SUFFICES ASSUME All, mode = "up", phase = "running", ~turn.held, ~starting, tasks = {}, followOns = {}
               PROVE  \E s \in Steps : rows[s].status = "waiting_approval"
    BY DEF NeverStuck
  <2>1. plan = {} /\ Started(rows)  BY DEF StartInv
  <2>2. PICK s \in Steps : rows[s].status \in Active
    BY <2>1 DEF IInv, Coherent, RunningHasActive, ActiveSteps
  <2>3. rows[s].status # "running"
    <3>1. turn = Idle  BY DEF SourceInv, TurnSound
    <3>2. ~Source(s)  BY <2>1, <3>1 DEF Source, Pending, Covers, Idle, NoCommands
    <3> QED  BY <3>2 DEF SourceInv
  <2> QED  BY <2>2, <2>3 DEF Active
<1> HIDE DEF All
<1> QED  BY <1>1, <1>2, <1>3, PTL DEF Spec
=============================================================================
