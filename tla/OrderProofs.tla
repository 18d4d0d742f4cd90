------------------------------ MODULE OrderProofs ------------------------------
(***************************************************************************)
(* Theorems about Scheduler that say in what order steps run: which routes *)
(* are taken, what a step waits for, how often it is attempted, what it    *)
(* cannot leave, and which jobs run side by side.                          *)
(***************************************************************************)
EXTENDS RunProofs

USE FlowAssumption, SchedulerAssumption

(* Every route of a finished step is taken. *)

\* Each step a gate waits for leads to the gated step when it completes.
GatesRouted ==
  \A t \in Steps : \A n \in Needs[t] : t \in (IF n \in HumanLoop THEN OnApprove[n] ELSE OnSuccess[n])

\* RouteOf on the rows r.
RouteIn(r, s) ==
  CASE r[s].status = "completed" /\ s \in HumanLoop    -> OnApprove[s]
    [] r[s].status = "completed" /\ s \notin HumanLoop -> OnSuccess[s]
    [] r[s].status = "failed"                          -> OnFailure[s]
    [] r[s].status = "failed_rejected"                 -> OnReject[s]
    [] OTHER                                           -> {}

\* The step s has finished on the rows r and routes to t, which may run.
Due(r, s, t) == t \in Ready(r, RouteIn(r, s))

\* Once the commands c are applied to the rows r, every step that is due has been
\* started before or is started by c.
RoutesServed(r, c) ==
  \A s, t \in Steps : Due(Persist(r, c, {}), s, t) => r[t].status # "none" \/ Covers(c, t)

\* Commands that let a step wait for a human if it asks for one.
Asks(c) == c.status = "waiting_approval" => c.step \in HumanLoop

\* Only a step that asks for a human waits for one, is going to, or is answered.
HumanWaits ==
  /\ \A s \in Steps : rows[s].status = "waiting_approval" => s \in HumanLoop
  /\ Asks(turn.cmds)
  /\ \A c \in Clients : clients[c].step \in Steps => clients[c].step \in HumanLoop

RouteInv == RoutesServed(rows, turn.cmds) /\ HumanWaits

LEMMA RouteFacts ==
  ASSUME NEW r, NEW s \in Steps
  PROVE  /\ RouteIn(r, s) \subseteq Steps
         /\ r[s].status \notin {"completed", "failed", "failed_rejected"} => RouteIn(r, s) = {}
         /\ \A q : q[s].status = r[s].status => RouteIn(q, s) = RouteIn(r, s)
         /\ r[s].status = "failed" => RouteIn(r, s) = OnFailure[s]
         /\ r[s].status = "failed_rejected" => RouteIn(r, s) = OnReject[s]
         /\ r[s].status = "completed" => RouteIn(r, s) = (IF s \in HumanLoop THEN OnApprove[s] ELSE OnSuccess[s])
BY DEF RouteIn

\* Rows on which no step has completed, failed or been rejected that had not on r.
NothingFinished(r, q) ==
  \A s \in Steps : q[s].status = r[s].status \/ q[s].status \in {"cancelled", "running", "waiting_approval"}

LEMMA NothingDue ==
  ASSUME NEW r, NEW q, NothingFinished(r, q), NEW s \in Steps, NEW t \in Steps, Due(q, s, t)
  PROVE  Due(r, s, t)
<1>1. t \in RouteIn(q, s) /\ \A n \in Needs[t] : q[n].status = "completed"
  BY DEF Due, Ready, NeedsSatisfied
<1>2. t \in RouteIn(r, s)
  <2>1. q[s].status \in {"completed", "failed", "failed_rejected"}  BY <1>1, RouteFacts
  <2>2. q[s].status = r[s].status  BY <2>1 DEF NothingFinished
  <2> QED  BY <1>1, <2>2, RouteFacts
<1>3. \A n \in Needs[t] : r[n].status = "completed"
  <2>1. \A n \in Needs[t] : n \in Steps  OBVIOUS
  <2> QED  BY <1>1, <2>1 DEF NothingFinished
<1> QED  BY <1>2, <1>3 DEF Due, Ready, NeedsSatisfied

LEMMA PersistStatus ==
  ASSUME NEW r \in [Steps -> Row], NEW c \in Commands, NEW s \in Steps
  PROVE  Persist(r, c, {})[s].status = IF s = c.step /\ c.status # "none" THEN c.status
                                       ELSE IF s \in c.cancel THEN "cancelled" ELSE r[s].status
<1>1. Persist(r, c, {})[s] = IF s = c.step /\ c.status # "none" THEN [r[s] EXCEPT !.status = c.status]
                             ELSE IF s \in c.cancel THEN [r[s] EXCEPT !.status = "cancelled"] ELSE r[s]
  BY DEF Persist
<1>2. /\ [r[s] EXCEPT !.status = c.status].status = c.status
      /\ [r[s] EXCEPT !.status = "cancelled"].status = "cancelled"
  BY DEF Row
<1>3. CASE s = c.step /\ c.status # "none"  BY <1>1, <1>2, <1>3
<1>4. CASE ~(s = c.step /\ c.status # "none") /\ s \in c.cancel  BY <1>1, <1>2, <1>4
<1>5. CASE ~(s = c.step /\ c.status # "none") /\ s \notin c.cancel  BY <1>1, <1>5
<1> QED  BY <1>3, <1>4, <1>5

\* Commands that finish no step serve every route if no route is open.
LEMMA UnfinishedServes ==
  ASSUME NEW r \in [Steps -> Row], RoutesServed(r, NoCommands),
         NEW c \in Commands, c.status \in {"none", "waiting_approval"}
  PROVE  RoutesServed(r, c)
<1> DEFINE q == Persist(r, NoCommands, {})
<1>1. \A u \in Steps : q[u].status = r[u].status
  BY NoCommandsTyped, PersistStatus DEF NoCommands
<1>2. \A u \in Steps : \/ Persist(r, c, {})[u].status = r[u].status
                       \/ Persist(r, c, {})[u].status \in {"cancelled", "waiting_approval"}
  BY PersistStatus
<1>3. NothingFinished(q, Persist(r, c, {}))  BY <1>1, <1>2 DEF NothingFinished
<1>4. ~ \E t \in Steps : Covers(NoCommands, t)  BY DEF Covers, NoCommands
<1> QED  BY <1>3, <1>4, NothingDue DEF RoutesServed

\* Commands that finish the step s serve every route if they start what s is due to start.
LEMMA FinishServes ==
  ASSUME GatesRouted, NEW r \in [Steps -> Row], RoutesServed(r, NoCommands),
         NEW c \in Commands, NEW s \in Steps, c.step = s, c.status \in {"completed", "failed", "failed_rejected"},
         NEW d, Framed(c, d),
         \A t \in Steps : Due(Persist(r, c, {}), s, t) => Covers(d, t)
  PROVE  RoutesServed(r, d)
<1> DEFINE next == Persist(r, c, {})
           q == Persist(r, NoCommands, {})
<1>1. \A u \in Steps : q[u].status = r[u].status
  BY NoCommandsTyped, PersistStatus DEF NoCommands
<1>2. \A u \in Steps : u # s => next[u].status = r[u].status \/ next[u].status = "cancelled"
  BY PersistStatus
<1>3. Persist(r, d, {}) = next  BY PersistFramed
<1>4. ~ \E t \in Steps : Covers(NoCommands, t)  BY DEF Covers, NoCommands
<1> HIDE DEF next, q
<1>5. ASSUME NEW u \in Steps, NEW t \in Steps, Due(next, u, t), u # s PROVE Due(q, u, t) \/ Due(next, s, t)
  <2>1. t \in RouteIn(next, u) /\ \A n \in Needs[t] : n \in Steps /\ next[n].status = "completed"
    BY <1>5 DEF Due, Ready, NeedsSatisfied
  <2>2. next[u].status = q[u].status  BY <1>1, <1>2, <1>5, <2>1, RouteFacts
  <2>3. t \in RouteIn(q, u)  BY <2>1, <2>2, RouteFacts
  <2>4. CASE \A n \in Needs[t] : q[n].status = "completed"
    BY <2>3, <2>4 DEF Due, Ready, NeedsSatisfied
  <2>5. CASE \E n \in Needs[t] : q[n].status # "completed"
    <3>1. PICK n \in Needs[t] : q[n].status # "completed"  BY <2>5
    <3>2. n = s /\ next[s].status = "completed"  BY <1>1, <1>2, <2>1, <3>1
    <3>3. t \in RouteIn(next, s)  BY <3>1, <3>2, RouteFacts DEF GatesRouted
    <3> QED  BY <2>1, <3>3 DEF Due, Ready, NeedsSatisfied
  <2> QED  BY <2>4, <2>5
<1>6. ASSUME NEW u \in Steps, NEW t \in Steps, Due(next, u, t) PROVE r[t].status # "none" \/ Covers(d, t)
  <2>1. Due(next, s, t) => Covers(d, t)  BY DEF next
  <2>2. Due(q, u, t) => r[t].status # "none"  BY <1>4 DEF RoutesServed, q
  <2> QED  BY <1>5, <1>6, <2>1, <2>2
<1> QED  BY <1>3, <1>6 DEF RoutesServed

LEMMA RouteServes ==
  ASSUME GatesRouted, Resolvable, NEW r \in [Steps -> Row], RoutesServed(r, NoCommands),
         NEW c \in Commands, Sound(c), NEW s \in Steps, c.step = s, c.status \in {"completed", "failed", "failed_rejected"},
         NEW next \in [Steps -> Row], next = Persist(r, c, {}), NEW targets, targets = RouteIn(next, s)
  PROVE  RoutesServed(r, Route(c, next, targets))
<1> DEFINE d == Route(c, next, targets)
<1>1. Framed(c, d)  BY RouteFrames
<1>2. ASSUME NEW t \in Steps, Due(next, s, t) PROVE Covers(d, t)
  <2>1. t \in Ready(next, targets)  BY <1>2 DEF Due
  <2>2. d = Launch(c, next, Ready(next, targets))  BY <2>1 DEF Route
  <2> QED  BY <2>1, <2>2, LaunchSound
<1> HIDE DEF d
<1> QED  BY <1>1, <1>2, FinishServes DEF d

LEMMA MarkServes ==
  ASSUME GatesRouted, Resolvable, NEW r \in [Steps -> Row], RoutesServed(r, NoCommands),
         NEW s \in Steps, NEW st \in {"completed", "failed_rejected"},
         NEW targets, \A q : q[s].status = st => targets = RouteIn(q, s)
  PROVE  RoutesServed(r, Route(Mark(s, st), SetStatus(r, s, st), targets))
<1> DEFINE c == Mark(s, st)
           next == SetStatus(r, s, st)
<1>0. st \in Status \ {"running"}  BY StatusFacts
<1>1. c \in Commands /\ Sound(c) /\ c.step = s /\ c.status = st  BY <1>0, MarkSound
<1>2. next \in [Steps -> Row] /\ next = Persist(r, c, {})  BY <1>0, MarkPersists
<1> HIDE DEF c, next
<1>3. next[s].status = st  BY <1>0, <1>1, <1>2, PersistStatus
<1>4. targets = RouteIn(next, s)  BY <1>3
<1> QED  BY <1>1, <1>2, <1>4, RouteServes DEF c, next

\* Every decision of the engine on a step serves the routes it opens.
LEMMA DecisionsServe ==
  ASSUME Hookless, Resolvable, GatesRouted, NEW r \in [Steps -> Row], RoutesServed(r, NoCommands), NEW s \in Steps
  PROVE  /\ RoutesServed(r, OnStepCompleted(r, s)) /\ RoutesServed(r, OnStepFailed(r, s))
         /\ s \in HumanLoop => RoutesServed(r, OnStepApproved(r, s)) /\ RoutesServed(r, OnStepRejected(r, s))
<1>1. RoutesServed(r, OnStepCompleted(r, s))
  <2>1. s \notin AfterHooks  BY DEF Hookless
  <2>2. CASE s \in HumanLoop
    <3>1. OnStepCompleted(r, s) = Mark(s, "waiting_approval")
      BY <2>1, <2>2, MarkBare, StatusFacts DEF OnStepCompleted
    <3>2. Mark(s, "waiting_approval") \in Commands /\ Mark(s, "waiting_approval").status = "waiting_approval"
      BY StatusFacts, MarkFields
    <3> QED  BY <3>1, <3>2, UnfinishedServes
  <2>3. CASE s \notin HumanLoop
    <3>1. OnStepCompleted(r, s) = Route(Mark(s, "completed"), SetStatus(r, s, "completed"), OnSuccess[s])
      BY <2>1, <2>3, MarkBare, StatusFacts DEF OnStepCompleted
    <3>2. \A q : q[s].status = "completed" => OnSuccess[s] = RouteIn(q, s)  BY <2>3, RouteFacts
    <3> QED  BY <3>1, <3>2, MarkServes
  <2> QED  BY <2>2, <2>3
<1>2. RoutesServed(r, OnStepFailed(r, s))
  <2>1. CASE r[s].attempt <= Retries[s]
    <3>1. NoCommands \in Commands /\ NoCommands.status = "none"  BY NoCommandsTyped DEF NoCommands
    <3>2. {s} \in SUBSET Steps  OBVIOUS
    <3>3. Launch(NoCommands, r, {s}) \in Commands /\ Launch(NoCommands, r, {s}).status = "none"
      BY <3>1, <3>2, LaunchTyped, LaunchFrames DEF Framed
    <3> QED  BY <2>1, <3>3, UnfinishedServes DEF OnStepFailed
  <2>2. CASE ~(r[s].attempt <= Retries[s])
    <3> DEFINE m == Mark(s, "failed")
               c == Cancel(m, ActiveSteps(r) \ {s})
               next == FailFast(r, s)
    <3>1. ActiveSteps(r) \ {s} \in SUBSET Steps  BY DEF ActiveSteps
    <3>2. "failed" \in Status \ {"running"}  BY StatusFacts
    <3>3. m \in Commands /\ Sound(m) /\ m.step = s /\ m.status = "failed"  BY <3>2, MarkSound
    <3>4. c \in Commands /\ c.gate = m.gate /\ c.step = m.step /\ c.status = m.status /\ c.error = m.error
      BY <3>1, <3>3, CancelFields DEF Cancel, Commands
    <3>5. next \in [Steps -> Row] /\ next = Persist(r, c, {})  BY FailFastTyped, FailFastPersists
    <3>6. OnStepFailed(r, s) = Route(c, next, OnFailure[s])  BY <2>2 DEF OnStepFailed
    <3> HIDE DEF c, next, m
    <3>7. Sound(c) /\ c.step = s /\ c.status = "failed"  BY <3>3, <3>4 DEF Sound
    <3>8. next[s].status = "failed"  BY <3>4, <3>5, <3>7, PersistStatus
    <3>9. OnFailure[s] = RouteIn(next, s)  BY <3>8, RouteFacts
    <3> QED  BY <3>4, <3>5, <3>6, <3>7, <3>9, RouteServes
  <2> QED  BY <2>1, <2>2
<1>3. ASSUME s \in HumanLoop PROVE RoutesServed(r, OnStepApproved(r, s))
  <2>1. \A q : q[s].status = "completed" => OnApprove[s] = RouteIn(q, s)  BY <1>3, RouteFacts
  <2> QED  BY <2>1, MarkServes DEF OnStepApproved
<1>4. RoutesServed(r, OnStepRejected(r, s))
  <2>1. \A q : q[s].status = "failed_rejected" => OnReject[s] = RouteIn(q, s)  BY RouteFacts
  <2>2. CASE ~IsSelfRejectLoop(s)  BY <2>1, <2>2, MarkServes DEF OnStepRejected
  <2>3. CASE IsSelfRejectLoop(s)
    <3> DEFINE c == Mark(s, "failed_rejected")
               next == SetStatus(r, s, "failed_rejected")
               d == Launch(c, next, {s})
    <3>1. "failed_rejected" \in Status \ {"running"}  BY StatusFacts
    <3>2. c \in Commands /\ Sound(c) /\ c.step = s /\ c.status = "failed_rejected"  BY <3>1, MarkSound
    <3>3. next \in [Steps -> Row] /\ next = Persist(r, c, {})  BY <3>1, MarkPersists
    <3> HIDE DEF c
    <3>4. Framed(c, d) /\ Covers(d, s)  BY <3>2, LaunchFrames, LaunchSound
    <3>5. OnStepRejected(r, s) = d  BY <2>3 DEF OnStepRejected, c
    <3> HIDE DEF d, next
    <3>6. next[s].status = "failed_rejected"  BY <3>2, <3>3, PersistStatus
    <3>7. RouteIn(next, s) = {s}  BY <2>1, <2>3, <3>6 DEF IsSelfRejectLoop
    <3>8. \A t \in Steps : Due(next, s, t) => Covers(d, t)  BY <3>4, <3>7 DEF Due, Ready
    <3> QED  BY <3>2, <3>3, <3>4, <3>5, <3>8, FinishServes
  <2> QED  BY <2>2, <2>3
<1> QED  BY <1>1, <1>2, <1>3, <1>4

LEMMA StartServes ==
  ASSUME Hookless, Resolvable, NEW r \in [Steps -> Row], RoutesServed(r, NoCommands), NEW ph \in TerminalPhases
  PROVE  RoutesServed(r, OnRunStarted(r)) /\ RoutesServed(r, Stop(r, ph))
<1>1. Stop(r, ph) \in Commands /\ Stop(r, ph).status = "none"
  BY StopTyped DEF Stop, Cancel, NoCommands
<1> DEFINE c == RunHooks(NoCommands, "none")
<1>2. c \in Commands /\ c.status = "none"  BY NoCommandsTyped DEF RunHooks, NoCommands, Commands
<1>3. OnRunStarted(r) = Launch(c, r, Ready(r, EntrySteps))  BY DEF OnRunStarted, Hookless
<1> HIDE DEF c
<1>4. OnRunStarted(r) \in Commands /\ OnRunStarted(r).status = "none"
  BY <1>2, <1>3, RunStartedTyped, LaunchFrames DEF Framed
<1> QED  BY <1>1, <1>4, UnfinishedServes

\* A submitted event starts a turn that serves every route.
LEMMA SubmitServes ==
  ASSUME RouteInv, NEW c, Sound(c), RoutesServed(rows, NoCommands) => RoutesServed(rows, c),
         TurnSound, Submit(c, hooks), UNCHANGED rows
  PROVE  RoutesServed(rows', turn'.cmds)
<1>1. turn' = turn \/ turn' = Held(c)  BY DEF Submit, Drive
<1>2. Held(c).cmds = c  BY DEF Held
<1>3. turn.cmds = NoCommands  BY DEF Submit, Free, TurnSound, Idle
<1> QED  BY <1>1, <1>2, <1>3 DEF RouteInv

\* A transaction that starts part of what the turn still has to start.
LEMMA TransactionServes ==
  ASSUME KnownInv, turn.held, turn.cmds.children \cup turn.cmds.cancel \subseteq Steps,
         RoutesServed(rows, turn.cmds), rows' \in [Steps -> Row], turn'.cmds \in Commands,
         turn'.cmds.status = "none", turn'.cmds.cancel = {},
         \A s \in Steps : rows[s].status # "none" => rows'[s].status # "none",
         \A s \in Steps : rows'[s].status = "running" \/ rows'[s] = Persist(rows, turn.cmds, {})[s],
         \A s \in turn.cmds.children : s \in turn'.cmds.children \/ rows'[s].status # "none",
         \A a \in turn.cmds.activate : a \in turn'.cmds.activate \/ rows'[a.step].status # "none"
  PROVE  RoutesServed(rows', turn'.cmds)
<1> DEFINE old == Persist(rows, turn.cmds, {})
           new == Persist(rows', turn'.cmds, {})
<1>1. \A s \in Steps : new[s].status = rows'[s].status  BY PersistStatus
<1> HIDE DEF new
<1>2. NothingFinished(old, new)  BY <1>1 DEF NothingFinished
<1> HIDE DEF old
<1>3. ASSUME NEW s \in Steps, NEW t \in Steps, Due(new, s, t)
      PROVE  rows'[t].status # "none" \/ Covers(turn'.cmds, t)
  <2>1. Due(old, s, t)  BY <1>2, <1>3, NothingDue
  <2>2. rows[t].status # "none" \/ Covers(turn.cmds, t)  BY <2>1 DEF RoutesServed, old
  <2>3. ASSUME t \in turn.cmds.cancel \/ (turn.cmds.step = t /\ turn.cmds.status # "none")
        PROVE  rows[t].status # "none"
    BY <2>3 DEF KnownInv, TurnKnown, Rightful, ActiveSteps, Active
  <2>4. CASE t \in turn.cmds.children  BY <2>4 DEF Covers
  <2>5. CASE \E a \in turn.cmds.activate : a.step = t  BY <2>5 DEF Covers
  <2> QED  BY <2>2, <2>3, <2>4, <2>5 DEF Covers
<1> QED  BY <1>3 DEF RoutesServed, new

LEMMA ActivateServes ==
  ASSUME IInv, KnownInv, RoutesServed(rows, turn.cmds), rows' \in [Steps -> Row], turn' \in Turn,
         \A s \in Steps : rows[s].status # "none" => rows'[s].status # "none",
         NEW a \in turn.cmds.activate, NEW kids \in SUBSET turn.cmds.children, ActivateStep(a, kids)
  PROVE  RoutesServed(rows', turn'.cmds)
<1> DEFINE c == turn.cmds
<1>0. turn \in Turn /\ c \in Commands /\ turn'.cmds \in Commands
  BY DEF IInv, TypeOK, Turn
<1>a. turn'.cmds = [c EXCEPT !.activate = c.activate \ {a}, !.children = c.children \ kids,
                             !.status = "none", !.cancel = {}]
  BY <1>0 DEF ActivateStep, Turn
<1>1. /\ turn'.cmds.activate = c.activate \ {a} /\ turn'.cmds.children = c.children \ kids
      /\ turn'.cmds.status = "none" /\ turn'.cmds.cancel = {}
  BY <1>0, <1>a DEF Commands
<1>2. /\ turn.held /\ a.step \in Steps /\ rows'[a.step].status = "running"
      /\ \A s \in kids : rows'[s].status = "running"
      /\ \A s \in Steps : s # a.step /\ s \notin kids => rows'[s] = Persist(rows, c, {})[s]
  BY ActivateStarts
<1>3. \A s \in Steps : rows'[s].status = "running" \/ rows'[s] = Persist(rows, c, {})[s]  BY <1>2
<1>4. \A s \in c.children : s \in turn'.cmds.children \/ rows'[s].status # "none"  BY <1>1, <1>2
<1>5. \A b \in c.activate : b \in turn'.cmds.activate \/ rows'[b.step].status # "none"  BY <1>1, <1>2
<1>6. c.children \cup c.cancel \subseteq Steps  BY <1>0 DEF Commands
<1> QED  BY <1>0, <1>1, <1>2, <1>3, <1>4, <1>5, <1>6, TransactionServes

LEMMA FinishTurnServes ==
  ASSUME IInv, KnownInv, RoutesServed(rows, turn.cmds), rows' \in [Steps -> Row],
         \A s \in Steps : rows[s].status # "none" => rows'[s].status # "none", FinishTurn
  PROVE  RoutesServed(rows', turn'.cmds)
<1> DEFINE c == turn.cmds
<1>0. c \in Commands /\ turn.held /\ c.activate = {} /\ turn'.cmds = NoCommands
  BY DEF IInv, TypeOK, Turn, FinishTurn, Idle
<1>1. NoCommands \in Commands /\ NoCommands.status = "none" /\ NoCommands.cancel = {}
  BY NoCommandsTyped DEF NoCommands
<1>2. /\ \A s \in c.children : s \in Steps /\ rows'[s].status = "running"
      /\ \A s \in Steps : s \notin c.children => rows'[s] = Persist(rows, c, {})[s]
  BY FinishStarts
<1>3. \A s \in Steps : rows'[s].status = "running" \/ rows'[s] = Persist(rows, c, {})[s]  BY <1>2
<1>4. c.children \cup c.cancel \subseteq Steps  BY <1>0 DEF Commands
<1>5. \A s \in c.children : s \in turn'.cmds.children \/ rows'[s].status # "none"  BY <1>2
<1>6. \A b \in c.activate : b \in turn'.cmds.activate \/ rows'[b.step].status # "none"  BY <1>0
<1>7. turn'.cmds \in Commands /\ turn'.cmds.status = "none" /\ turn'.cmds.cancel = {}  BY <1>0, <1>1
<1> QED  BY <1>0, <1>3, <1>4, <1>5, <1>6, <1>7, TransactionServes

LEMMA NextServes ==
  ASSUME Hookless, Resolvable, GatesRouted, MaxCrashes = 0,
         IInv, SourceInv, KnownInv, RouteInv, [Next]_vars, IInv'
  PROVE  RoutesServed(rows', turn'.cmds)
<1>0. /\ TypeOK /\ rows \in [Steps -> Row] /\ hooks = {} /\ turn \in Turn /\ TurnSound
      /\ rows' \in [Steps -> Row] /\ turn' \in Turn
      /\ \A t \in tasks : t.step \in Steps
      /\ \A p \in plan : p.kind = "fail" => p.step \in Steps
      /\ RoutesServed(rows, turn.cmds)
  BY DEF IInv, TypeOK, Task, Plan, Restart, SourceInv, RouteInv
<1>g. \A s \in Steps : rows[s].status # "none" => rows'[s].status # "none"
  BY StepSeen DEF Same, Grows
<1>q. ASSUME rows' = rows, turn'.cmds = turn.cmds PROVE RoutesServed(rows', turn'.cmds)  BY <1>0, <1>q
<1>1. ASSUME NEW s \in Steps, CancelJob(s) \/ AbortTask(s) PROVE RoutesServed(rows', turn'.cmds)
  <2>1. rows' = rows /\ turn'.cmds = turn.cmds  BY <1>0, <1>1 DEF CancelJob, AbortTask, Turn, store
  <2> QED  BY <1>q, <2>1
<1>2. ASSUME NEW a \in turn.cmds.activate, NEW kids \in SUBSET turn.cmds.children, ActivateStep(a, kids)
      PROVE  RoutesServed(rows', turn'.cmds)
  BY <1>0, <1>2, <1>g, ActivateServes
<1>3. ASSUME NEW a \in turn.cmds.activate PROVE ~ActivationFails(a)
  BY DEF ActivationFails, Resolvable
<1>4. ASSUME FinishTurn PROVE RoutesServed(rows', turn'.cmds)
  BY <1>0, <1>4, <1>g, FinishTurnServes
<1>5. ASSUME RunStarted PROVE RoutesServed(rows', turn'.cmds)
  BY <1>0, <1>5, StatusFacts, StartServes, OthersSound, SubmitServes DEF RunStarted, store
<1>6. ASSUME NEW t \in tasks, TaskSubmits(t) PROVE RoutesServed(rows', turn'.cmds)
  BY <1>0, <1>6, DecisionsServe, DecisionsCover, SubmitServes DEF TaskSubmits, store
<1>7. ASSUME NEW s \in Steps, FollowOnSubmits(s) PROVE RoutesServed(rows', turn'.cmds)
  BY <1>0, <1>7, DecisionsServe, DecisionsCover, SubmitServes DEF FollowOnSubmits, store
<1>8. ASSUME CancelRequested \/ DeadlineExceeded PROVE RoutesServed(rows', turn'.cmds)
  BY <1>0, <1>8, StatusFacts, StartServes, OthersSound, SubmitServes
  DEF CancelRequested, DeadlineExceeded, store
<1>9. ASSUME NEW c \in Clients, NEW s \in Steps, NEW type \in {"step_approved", "step_rejected"},
             ResolveApproval(c, s, type)
      PROVE  RoutesServed(rows', turn'.cmds)
  BY <1>q, <1>9 DEF ResolveApproval, store
<1>10. ASSUME NEW c \in Clients, SubmitApproval(c) PROVE RoutesServed(rows', turn'.cmds)
  <2>1. clients[c].step \in Steps  BY <1>0, <1>10 DEF SubmitApproval, TypeOK, Call
  <2>2. clients[c].step \in HumanLoop  BY <2>1 DEF RouteInv, HumanWaits
  <2> QED  BY <1>0, <1>10, <2>1, <2>2, DecisionsServe, DecisionsCover, SubmitServes DEF SubmitApproval, store
<1>11. ASSUME NEW t \in tasks, TaskStep(t) PROVE RoutesServed(rows', turn'.cmds)
  <2>1. CASE PersistJobId(t)
    <3> DEFINE old == Persist(rows, turn.cmds, {})
               new == Persist(rows', turn.cmds, {})
    <3>0. turn.cmds \in Commands  BY <1>0 DEF Turn
    <3>1. \A s \in Steps : rows'[s].status = rows[s].status /\ new[s].status = old[s].status
      BY <1>0, <2>1, <3>0, JobIdStatuses
    <3>2. turn' = turn  BY <2>1 DEF PersistJobId
    <3> HIDE DEF old, new
    <3>3. NothingFinished(old, new)  BY <3>1 DEF NothingFinished
    <3>4. \A s, t2 \in Steps : Due(old, s, t2) => rows[t2].status # "none" \/ Covers(turn.cmds, t2)
      BY <1>0 DEF RoutesServed, old
    <3>5. \A s, t2 \in Steps : Due(new, s, t2) => rows'[t2].status # "none" \/ Covers(turn.cmds, t2)
      BY <3>1, <3>3, <3>4, NothingDue
    <3> QED  BY <3>2, <3>5 DEF RoutesServed, new
  <2>2. CASE StartJob(t) \/ StartFails(t) \/ JobCompletes(t) \/ JobFails(t) \/ WaitGivesUp(t)
    BY <1>q, <2>2 DEF StartJob, StartFails, JobCompletes, JobFails, WaitGivesUp, store
  <2> QED  BY <1>11, <2>1, <2>2 DEF TaskStep
<1>12. ~Crash  BY <1>0 DEF Crash, TypeOK
<1>13. ASSUME Boot \/ Serve PROVE RoutesServed(rows', turn'.cmds)  BY <1>q, <1>13 DEF Boot, Serve, store
<1>14. ASSUME NEW p \in plan, Reattach(p) PROVE RoutesServed(rows', turn'.cmds)
  BY <1>q, <1>14 DEF Reattach, store
<1>15. ASSUME NEW p \in plan, RecoverBySubmit(p) PROVE RoutesServed(rows', turn'.cmds)
  <2>1. CASE p.kind = "fail"
    BY <1>0, <1>15, <2>1, DecisionsServe, DecisionsCover, SubmitServes DEF RecoverBySubmit, store
  <2>2. CASE p.kind # "fail"
    BY <1>0, <1>15, <2>2, StatusFacts, StartServes, OthersSound, SubmitServes DEF RecoverBySubmit, store
  <2> QED  BY <2>1, <2>2
<1>16. ASSUME UNCHANGED vars PROVE RoutesServed(rows', turn'.cmds)  BY <1>q, <1>16 DEF vars
<1>17. ~ \E h \in hooks : HookStep(h)  BY <1>0
<1> QED
  BY <1>1, <1>2, <1>3, <1>4, <1>5, <1>6, <1>7, <1>8, <1>9, <1>10, <1>11, <1>12, <1>13, <1>14,
     <1>15, <1>16, <1>17
  DEF Next, LockStep, Recover, Ended

LEMMA DecisionsAsk ==
  ASSUME Hookless, NEW r \in [Steps -> Row], NEW s \in Steps
  PROVE  /\ Asks(OnStepCompleted(r, s)) /\ Asks(OnStepFailed(r, s))
         /\ Asks(OnStepApproved(r, s)) /\ Asks(OnStepRejected(r, s))
<1>1. ASSUME NEW c, NEW d, Framed(c, d), Asks(c) PROVE Asks(d)  BY <1>1 DEF Framed, Asks
<1>2. ASSUME NEW st \in {"completed", "failed", "failed_rejected"}
      PROVE  Mark(s, st) \in Commands /\ Asks(Mark(s, st)) /\ Mark(s, st).status # "waiting_approval"
  <2>1. st \in Status  BY <1>2, StatusFacts
  <2> QED  BY <1>2, <2>1, MarkFields DEF Asks
<1>3. Asks(OnStepCompleted(r, s))
  <2>1. s \notin AfterHooks  BY DEF Hookless
  <2>2. CASE s \in HumanLoop
    <3>1. OnStepCompleted(r, s) = Mark(s, "waiting_approval")
      BY <2>1, <2>2, MarkBare, StatusFacts DEF OnStepCompleted
    <3> QED  BY <2>2, <3>1, MarkFields, StatusFacts DEF Asks
  <2>3. CASE s \notin HumanLoop
    <3>1. OnStepCompleted(r, s) = Route(Mark(s, "completed"), SetStatus(r, s, "completed"), OnSuccess[s])
      BY <2>1, <2>3, MarkBare, StatusFacts DEF OnStepCompleted
    <3> QED  BY <1>1, <1>2, <3>1, RouteFrames
  <2> QED  BY <2>2, <2>3
<1>4. Asks(OnStepFailed(r, s))
  <2>1. CASE r[s].attempt <= Retries[s]
    <3>1. NoCommands \in Commands /\ Asks(NoCommands)  BY NoCommandsTyped DEF NoCommands, Asks
    <3> QED  BY <1>1, <2>1, <3>1, LaunchFrames DEF OnStepFailed
  <2>2. CASE ~(r[s].attempt <= Retries[s])
    <3> DEFINE m == Mark(s, "failed")
               c == Cancel(m, ActiveSteps(r) \ {s})
    <3>1. ActiveSteps(r) \ {s} \in SUBSET Steps  BY DEF ActiveSteps
    <3>2. m \in Commands /\ m.status # "waiting_approval"  BY <1>2
    <3> HIDE DEF m
    <3>3. c \in Commands /\ c.status = m.status  BY <3>1, <3>2, CancelFields
    <3>4. OnStepFailed(r, s) = Route(c, FailFast(r, s), OnFailure[s])  BY <2>2 DEF OnStepFailed, m
    <3> HIDE DEF c
    <3>5. Asks(c)  BY <3>2, <3>3 DEF Asks
    <3> QED  BY <1>1, <3>3, <3>4, <3>5, RouteFrames
  <2> QED  BY <2>1, <2>2
<1>5. Asks(OnStepApproved(r, s))  BY <1>1, <1>2, RouteFrames DEF OnStepApproved
<1>6. Asks(OnStepRejected(r, s))  BY <1>1, <1>2, RouteFrames, LaunchFrames DEF OnStepRejected
<1> QED  BY <1>3, <1>4, <1>5, <1>6

LEMMA OthersAsk ==
  ASSUME Hookless, NEW r, NEW ph
  PROVE  Asks(OnRunStarted(r)) /\ Asks(Stop(r, ph))
<1>1. Asks(Stop(r, ph))  BY DEF Stop, Cancel, NoCommands, Asks
<1> DEFINE c == RunHooks(NoCommands, "none")
<1>2. c \in Commands /\ c.status = "none"  BY NoCommandsTyped DEF RunHooks, NoCommands, Commands
<1>3. OnRunStarted(r) = Launch(c, r, Ready(r, EntrySteps))  BY DEF OnRunStarted, Hookless
<1> HIDE DEF c
<1> QED  BY <1>1, <1>2, <1>3, LaunchFrames DEF Framed, Asks

LEMMA SubmitAsks ==
  ASSUME Asks(turn.cmds), NEW c, Asks(c), c.gate = "none", Submit(c, hooks)
  PROVE  Asks(turn'.cmds)
<1>1. turn' = turn \/ turn' = Held(c)  BY DEF Submit, Drive
<1>2. Held(c).cmds = c  BY DEF Held
<1> QED  BY <1>1, <1>2

LEMMA NextAsks ==
  ASSUME Hookless, IInv, Asks(turn.cmds), [Next]_vars
  PROVE  Asks(turn'.cmds)
<1>0. /\ TypeOK /\ rows \in [Steps -> Row] /\ hooks = {} /\ turn \in Turn /\ turn.cmds \in Commands
      /\ \A t \in tasks : t.step \in Steps
      /\ \A p \in plan : p.kind = "fail" => p.step \in Steps
  BY DEF IInv, TypeOK, Task, Turn, Plan, Restart
<1>1. ASSUME turn'.cmds = turn.cmds PROVE Asks(turn'.cmds)  BY <1>1
<1>2. ASSUME turn' = Idle PROVE Asks(turn'.cmds)  BY <1>2 DEF Idle, NoCommands, Asks
<1>3. ASSUME NEW s \in Steps, CancelJob(s) \/ AbortTask(s) PROVE Asks(turn'.cmds)
  <2>1. turn'.cmds = turn.cmds  BY <1>0, <1>3 DEF CancelJob, AbortTask, Turn
  <2> QED  BY <1>1, <2>1
<1>4. ASSUME NEW a \in turn.cmds.activate, NEW kids \in SUBSET turn.cmds.children, ActivateStep(a, kids)
      PROVE  Asks(turn'.cmds)
  <2>1. turn'.cmds.status = "none"  BY <1>0, <1>4 DEF ActivateStep, Turn, Commands
  <2> QED  BY <2>1 DEF Asks
<1>5. ASSUME NEW a \in turn.cmds.activate, ActivationFails(a) PROVE Asks(turn'.cmds)
  BY <1>2, <1>5 DEF ActivationFails
<1>6. ASSUME FinishTurn PROVE Asks(turn'.cmds)  BY <1>2, <1>6 DEF FinishTurn
<1>7. ASSUME RunStarted PROVE Asks(turn'.cmds)
  BY <1>0, <1>7, StartEnds, OthersAsk, SubmitAsks DEF RunStarted, Plain
<1>8. ASSUME NEW t \in tasks, TaskSubmits(t) PROVE Asks(turn'.cmds)
  BY <1>0, <1>8, DecisionsAsk, StepCompletedFits, StepFailedFits, SubmitAsks DEF TaskSubmits, Plain
<1>9. ASSUME NEW s \in Steps, FollowOnSubmits(s) PROVE Asks(turn'.cmds)
  BY <1>0, <1>9, DecisionsAsk, StepFailedFits, SubmitAsks DEF FollowOnSubmits, Plain
<1>10. ASSUME CancelRequested \/ DeadlineExceeded PROVE Asks(turn'.cmds)
  BY <1>0, <1>10, OthersAsk, StopTyped, StatusFacts, SubmitAsks DEF CancelRequested, DeadlineExceeded
<1>11. ASSUME NEW c \in Clients, NEW s \in Steps, NEW type \in {"step_approved", "step_rejected"},
              ResolveApproval(c, s, type)
       PROVE  Asks(turn'.cmds)
  BY <1>1, <1>11 DEF ResolveApproval
<1>12. ASSUME NEW c \in Clients, SubmitApproval(c) PROVE Asks(turn'.cmds)
  <2>1. clients[c].step \in Steps  BY <1>0, <1>12 DEF SubmitApproval, TypeOK, Call
  <2> QED  BY <1>0, <1>12, <2>1, DecisionsAsk, StepApprovedFits, StepRejectedFits, SubmitAsks
           DEF SubmitApproval, Plain
<1>13. ASSUME NEW t \in tasks, TaskStep(t) PROVE Asks(turn'.cmds)
  BY <1>1, <1>13 DEF TaskStep, StartJob, StartFails, PersistJobId, JobCompletes, JobFails, WaitGivesUp
<1>14. ASSUME Crash PROVE Asks(turn'.cmds)  BY <1>2, <1>14 DEF Crash
<1>15. ASSUME Boot \/ Serve PROVE Asks(turn'.cmds)  BY <1>1, <1>15 DEF Boot, Serve
<1>16. ASSUME NEW p \in plan, Reattach(p) PROVE Asks(turn'.cmds)  BY <1>1, <1>16 DEF Reattach
<1>17. ASSUME NEW p \in plan, RecoverBySubmit(p) PROVE Asks(turn'.cmds)
  BY <1>0, <1>17, DecisionsAsk, StepFailedFits, StartEnds, OthersAsk, SubmitAsks DEF RecoverBySubmit, Plain
<1>18. ASSUME UNCHANGED vars PROVE Asks(turn'.cmds)  BY <1>1, <1>18 DEF vars
<1>19. ~ \E h \in hooks : HookStep(h)  BY <1>0
<1> QED
  BY <1>3, <1>4, <1>5, <1>6, <1>7, <1>8, <1>9, <1>10, <1>11, <1>12, <1>13, <1>14, <1>15, <1>16,
     <1>17, <1>18, <1>19
  DEF Next, LockStep, Recover, Ended

LEMMA NextHuman ==
  ASSUME Hookless, IInv, HumanWaits, [Next]_vars
  PROVE  HumanWaits'
<1>0. /\ TypeOK /\ rows \in [Steps -> Row] /\ hooks = {} /\ turn \in Turn /\ turn.cmds \in Commands
      /\ clients \in [Clients -> Call] /\ Asks(turn.cmds)
  BY DEF IInv, TypeOK, Turn, HumanWaits
<1> DEFINE Waiting == \A s \in Steps : rows'[s].status = "waiting_approval" => s \in HumanLoop
           Answered == \A c \in Clients : clients'[c].step \in Steps => clients'[c].step \in HumanLoop
<1>1. Asks(turn'.cmds)  BY <1>0, NextAsks
<1>2. ASSUME \A s \in Steps : rows'[s].status = rows[s].status PROVE Waiting  BY <1>2 DEF HumanWaits
<1>3. ASSUME rows' = rows PROVE Waiting  BY <1>2, <1>3
<1>4. ASSUME \A s \in Steps : rows'[s].status = "running" \/ rows'[s] = Persist(rows, turn.cmds, {})[s]
      PROVE  Waiting
  <2>0. ASSUME NEW c \in Commands, Asks(c), NEW s \in Steps, Persist(rows, c, {})[s].status = "waiting_approval"
        PROVE  s \in HumanLoop
    <3>1. (s = c.step /\ c.status = "waiting_approval") \/ rows[s].status = "waiting_approval"
      BY <1>0, <2>0, PersistStatus
    <3> QED  BY <2>0, <3>1 DEF HumanWaits, Asks
  <2>1. \A s \in Steps : Persist(rows, turn.cmds, {})[s].status = "waiting_approval" => s \in HumanLoop
    BY <1>0, <2>0
  <2> QED  BY <1>4, <2>1
<1>5. ASSUME clients' = clients PROVE Answered  BY <1>5 DEF HumanWaits
<1>6. NoCall.step \notin Steps /\ InTurn.step \notin Steps  BY DEF NoCall, InTurn
<1>7. ASSUME \A c \in Clients : clients'[c] \in {clients[c], NoCall, InTurn} PROVE Answered
  BY <1>6, <1>7 DEF HumanWaits
<1>8. ASSUME clients' = Return PROVE Answered  BY <1>7, <1>8 DEF Return
<1>s. UNCHANGED store => rows' = rows  BY DEF store
<1> HIDE DEF Waiting, Answered
<1>9. ASSUME LockStep PROVE Waiting /\ Answered
  <2>1. ASSUME NEW s \in Steps, CancelJob(s) \/ AbortTask(s) PROVE Waiting /\ Answered
    BY <1>3, <1>5, <1>s, <2>1 DEF CancelJob, AbortTask
  <2>2. ASSUME NEW a \in turn.cmds.activate, ActivationFails(a) PROVE Waiting /\ Answered
    BY <1>3, <1>8, <1>s, <2>2 DEF ActivationFails
  <2>3. ASSUME NEW a \in turn.cmds.activate, NEW kids \in SUBSET turn.cmds.children, ActivateStep(a, kids)
        PROVE  Waiting /\ Answered
    <3>1. \A s \in Steps : rows'[s].status = "running" \/ rows'[s] = Persist(rows, turn.cmds, {})[s]
      BY <2>3, ActivateStarts
    <3> QED  BY <1>4, <1>5, <2>3, <3>1 DEF ActivateStep
  <2>4. ASSUME FinishTurn PROVE Waiting /\ Answered
    <3>1. \A s \in Steps : rows'[s].status = "running" \/ rows'[s] = Persist(rows, turn.cmds, {})[s]
      BY <2>4, FinishStarts
    <3> QED  BY <1>4, <1>8, <2>4, <3>1 DEF FinishTurn
  <2> QED  BY <1>9, <2>1, <2>2, <2>3, <2>4 DEF LockStep
<1>10. ASSUME RunStarted \/ CancelRequested \/ DeadlineExceeded PROVE Waiting /\ Answered
  BY <1>3, <1>5, <1>s, <1>10 DEF RunStarted, CancelRequested, DeadlineExceeded
<1>11. ASSUME NEW t \in tasks, TaskSubmits(t) PROVE Waiting /\ Answered
  BY <1>3, <1>5, <1>s, <1>11 DEF TaskSubmits
<1>12. ASSUME NEW s \in Steps, FollowOnSubmits(s) PROVE Waiting /\ Answered
  BY <1>3, <1>5, <1>s, <1>12 DEF FollowOnSubmits
<1>13. ASSUME NEW c \in Clients, NEW s \in Steps, NEW type \in {"step_approved", "step_rejected"},
              ResolveApproval(c, s, type)
       PROVE  Waiting /\ Answered
  <2>1. clients' = [clients EXCEPT ![c] = [step |-> s, type |-> type]] /\ s \in HumanLoop
    BY <1>13 DEF ResolveApproval, HumanWaits
  <2>2. Answered  BY <1>0, <2>1 DEF HumanWaits, Answered
  <2> QED  BY <1>3, <1>s, <1>13, <2>2 DEF ResolveApproval
<1>14. ASSUME NEW c \in Clients, SubmitApproval(c) PROVE Waiting /\ Answered
  <2>1. \A d \in Clients : clients'[d] \in {clients[d], NoCall, InTurn}
    BY <1>0, <1>14 DEF SubmitApproval
  <2> QED  BY <1>3, <1>7, <1>s, <1>14, <2>1 DEF SubmitApproval
<1>15. ASSUME NEW t \in tasks, TaskStep(t) PROVE Waiting /\ Answered
  <2>1. CASE PersistJobId(t)
    <3>1. \A s \in Steps : rows'[s].status = rows[s].status  BY <1>0, <2>1, JobIdStatuses
    <3> QED  BY <1>2, <1>5, <2>1, <3>1 DEF PersistJobId
  <2>2. CASE StartJob(t) \/ StartFails(t) \/ JobCompletes(t) \/ JobFails(t) \/ WaitGivesUp(t)
    BY <1>3, <1>5, <1>s, <2>2 DEF StartJob, StartFails, JobCompletes, JobFails, WaitGivesUp
  <2> QED  BY <1>15, <2>1, <2>2 DEF TaskStep
<1>16. ASSUME Crash PROVE Waiting /\ Answered
  <2>1. \A c \in Clients : clients'[c] = NoCall  BY <1>16 DEF Crash
  <2> QED  BY <1>3, <1>7, <1>s, <1>16, <2>1 DEF Crash
<1>17. ASSUME Recover PROVE Waiting /\ Answered
  BY <1>3, <1>5, <1>s, <1>17 DEF Recover, Boot, Serve, Reattach, RecoverBySubmit
<1>18. ASSUME UNCHANGED vars PROVE Waiting /\ Answered  BY <1>3, <1>5, <1>18 DEF vars
<1>19. ~ \E h \in hooks : HookStep(h)  BY <1>0
<1>20. Waiting /\ Answered
  BY <1>9, <1>10, <1>11, <1>12, <1>13, <1>14, <1>15, <1>16, <1>17, <1>18, <1>19 DEF Next, Ended
<1> QED  BY <1>1, <1>20 DEF HumanWaits, Waiting, Answered

\* In a flow without hooks whose templates resolve and whose gates are reached by
\* what they wait for, as long as the runtime does not crash: between two turns
\* every step that finished has started all the targets of its route whose needs:
\* are met, whichever of several predecessors completes last.
THEOREM EveryRouteIsTaken ==
  ASSUME Hookless, Resolvable, GatesRouted, MaxCrashes = 0 PROVE Spec => []RoutesTaken
<1> DEFINE All == IInv /\ SourceInv /\ KnownInv /\ RouteInv
<1>1. Init => All
  <2>1. Init => SourceInv
    BY DEF Init, SourceInv, TurnSound, Idle, NoCommands, NoRow
  <2>2. Init => RouteInv
    <3>1. SUFFICES ASSUME Init PROVE RouteInv  OBVIOUS
    <3>2. HumanWaits  BY <3>1 DEF Init, HumanWaits, Asks, Idle, NoCommands, NoRow, NoCall
    <3>3. turn.cmds = NoCommands /\ \A s \in Steps : rows[s].status = "none"
      BY <3>1 DEF Init, Idle, NoRow
    <3>6. rows \in [Steps -> Row]  BY <3>1, InitTyped DEF TypeOK
    <3>4. \A s \in Steps : Persist(rows, NoCommands, {})[s].status = "none"
      BY <3>3, <3>6, NoCommandsTyped, PersistStatus DEF NoCommands
    <3>5. RoutesServed(rows, NoCommands)  BY <3>4, RouteFacts DEF RoutesServed, Due, Ready
    <3> QED  BY <3>2, <3>3, <3>5 DEF RouteInv
  <2> QED  BY <2>1, <2>2, InitCoherent, InitKnown
<1>2. All /\ [Next]_vars => All'
  <2>1. SUFFICES ASSUME All, [Next]_vars PROVE All'  OBVIOUS
  <2>2. IInv' /\ SourceInv' /\ KnownInv'  BY <2>1, NextCoherent, NextSources, NextKnown
  <2>3. RoutesServed(rows', turn'.cmds)  BY <2>1, <2>2, NextServes
  <2>4. HumanWaits'  BY <2>1, NextHuman DEF RouteInv
  <2> QED  BY <2>2, <2>3, <2>4 DEF RouteInv
<1>3. All => RoutesTaken
  <2>1. SUFFICES ASSUME All, ~turn.held, NEW s \in Steps, NEW t \in Ready(rows, RouteOf(s))
                 PROVE  rows[t].status # "none"
    BY DEF RoutesTaken
  <2>2. rows \in [Steps -> Row] /\ turn.cmds = NoCommands
    BY <2>1 DEF IInv, TypeOK, SourceInv, TurnSound, Idle
  <2>3. \A u \in Steps : Persist(rows, NoCommands, {})[u].status = rows[u].status
    BY <2>2, NoCommandsTyped, PersistStatus DEF NoCommands
  <2>4. RouteOf(s) = RouteIn(rows, s)  BY DEF RouteOf, RouteIn
  <2>5. t \in RouteIn(rows, s) /\ \A n \in Needs[t] : rows[n].status = "completed"
    BY <2>4 DEF Ready, NeedsSatisfied
  <2>6. t \in Steps  BY <2>5, RouteFacts
  <2>7. RouteIn(Persist(rows, NoCommands, {}), s) = RouteIn(rows, s)  BY <2>3, RouteFacts
  <2>8. \A n \in Needs[t] : n \in Steps  BY <2>6
  <2>9. Due(Persist(rows, NoCommands, {}), s, t)  BY <2>3, <2>5, <2>7, <2>8 DEF Due, Ready, NeedsSatisfied
  <2>10. rows[t].status # "none" \/ Covers(NoCommands, t)
    BY <2>1, <2>2, <2>6, <2>9 DEF RouteInv, RoutesServed
  <2> QED  BY <2>10 DEF Covers, NoCommands
<1> HIDE DEF All
<1> QED  BY <1>1, <1>2, <1>3, PTL DEF Spec

-----------------------------------------------------------------------------
(* Steps run in the order of the flow, once, and within their budget.      *)

\* No failure is handled: the first step that is out of retries ends the run.
Unhandled == \A s \in Steps : OnFailure[s] = {}

\* The steps that route to t otherwise than by failing.
Feeders(t) == {s \in Steps : t \in ForwardTargets(s)}

\* A step with several feeders needs them all; a step that loops on rejection does
\* so in no other way.
Orderly ==
  /\ \A t \in Steps : \A s, u \in Feeders(t) : s # u => s \in Needs[t]
  /\ \A s \in Steps : IsSelfRejectLoop(s) => s \notin OnSuccess[s] \cup OnApprove[s]

\* What the commands c are still going to start.
Pends(c) == {a.step : a \in c.activate} \cup c.children

\* On the rows r, whatever has been started follows feeders that are through.
Through(r) == \A t \in Steps : r[t].status # "none" => \A s \in Feeders(t) : r[s].status \in Terminal

\* A step that no human can send back is within its retries.
InBudget(r) == \A s \in Steps \ HumanLoop : r[s].attempt <= Retries[s] + 1

Bald(r) == \A s \in Steps : r[s].status = "none" => r[s] = NoRow

\* Commands that mark an active step ...
MarksActive(r, c) == c.status # "none" => c.step \in Steps /\ r[c.step].status \in Active

\* ... start the next attempt of a step, if it has one ...
StartsNext(r, c) ==
  \A a \in c.activate : /\ a.attempt = r[a.step].attempt + 1
                        /\ a.step \notin HumanLoop => a.attempt <= Retries[a.step] + 1

\* ... of which everything before it is through and its needs: are met.
StartsInOrder(r, c) ==
  \A x \in Pends(c) :
    /\ r[x].status \notin Terminal
    /\ \A s \in Feeders(x) : Persist(r, c, {})[s].status \in Terminal /\ s \notin Pends(c)
    /\ r[x].status = "none" => \A n \in Needs[x] : Persist(r, c, {})[n].status = "completed" /\ n \notin Pends(c)

\* A step that is marked and started again is the only one that is started.
LoopsAlone(c) == c.status # "none" /\ c.step \in Pends(c) => Pends(c) = {c.step}

InOrder(r, c) ==
  /\ MarksActive(r, c) /\ StartsNext(r, c) /\ StartsInOrder(r, c) /\ LoopsAlone(c)
  /\ c.terminal = "none" => c.cancel = {}

\* As long as the run goes on, c is about the step s and about steps never started.
About(r, s, c) == c.terminal = "none" => \A x \in Steps : Covers(c, x) => x = s \/ r[x].status = "none"

LEMMA PendsCovered ==
  ASSUME NEW c \in Commands
  PROVE  /\ Pends(c) \subseteq Steps
         /\ \A x : Covers(c, x) <=> x \in Pends(c) \/ x \in c.cancel \/ (c.step = x /\ c.status # "none")
BY DEF Pends, Covers, Commands, Activation

LEMMA LaunchPends ==
  ASSUME NEW c \in Commands, NEW r, NEW ready \in SUBSET Steps
  PROVE  /\ Pends(Launch(c, r, ready)) = ready
         /\ \A a \in Launch(c, r, ready).activate : a.step \in ready /\ a.attempt = r[a.step].attempt + 1
         /\ Launch(c, r, ready).terminal = c.terminal
<1> DEFINE d == Launch(c, r, ready)
<1>1. /\ d.activate = {[step |-> s, attempt |-> r[s].attempt + 1] : s \in ready \ Subflows}
      /\ d.children = ready \cap Subflows
      /\ d.terminal = c.terminal
  BY DEF Launch, Commands
<1> HIDE DEF d
<1>2. {a.step : a \in d.activate} = ready \ Subflows
  <2>1. \A a \in d.activate : a.step \in ready \ Subflows  BY <1>1
  <2>2. ASSUME NEW s \in ready \ Subflows PROVE \E a \in d.activate : a.step = s
    <3>1. [step |-> s, attempt |-> r[s].attempt + 1] \in d.activate  BY <1>1, <2>2
    <3> QED  BY <3>1
  <2> QED  BY <2>1, <2>2
<1>3. \A a \in d.activate : a.step \in ready /\ a.attempt = r[a.step].attempt + 1  BY <1>1
<1> QED  BY <1>1, <1>2, <1>3 DEF Pends, d

\* What it takes for the commands that launch the steps in ready to be in order.
LEMMA LaunchInOrder ==
  ASSUME NEW r \in [Steps -> Row], NEW c \in Commands, c.terminal = "none", c.cancel = {}, MarksActive(r, c),
         NEW next \in [Steps -> Row], next = Persist(r, c, {}), NEW ready \in SUBSET Steps,
         \A x \in ready : r[x].status \notin Terminal,
         \A x \in ready : \A s \in Feeders(x) : next[s].status \in Terminal /\ s \notin ready,
         \A x \in ready : r[x].status = "none" => \A n \in Needs[x] : next[n].status = "completed" /\ n \notin ready,
         \A x \in ready \ HumanLoop : r[x].attempt <= Retries[x],
         c.status # "none" /\ c.step \in ready => ready = {c.step}
  PROVE  /\ InOrder(r, Launch(c, next, ready))
         /\ \A x : Covers(Launch(c, next, ready), x) => x \in ready \/ (x = c.step /\ c.status # "none")
<1> DEFINE d == Launch(c, next, ready)
<1>1. /\ Pends(d) = ready /\ d.terminal = "none"
      /\ \A a \in d.activate : a.step \in ready /\ a.attempt = next[a.step].attempt + 1
  BY LaunchPends
<1>2. Framed(c, d) /\ d \in Commands  BY LaunchFrames, LaunchTyped
<1> HIDE DEF d
<1>3. d.step = c.step /\ d.status = c.status /\ d.cancel = {} /\ Persist(r, d, {}) = next
  <2>1. Persist(r, d, {}) = Persist(r, c, {})  BY <1>2, PersistFramed
  <2> QED  BY <1>2, <2>1 DEF Framed
<1>4. \A x \in Steps : next[x].attempt = r[x].attempt /\ r[x].attempt \in Nat /\ Retries[x] \in Nat
  <2>1. \A x \in Steps : Persist(r, c, {})[x].attempt = r[x].attempt  BY PersistRow
  <2>2. \A x \in Steps : r[x].attempt \in Nat  BY DEF Row
  <2> QED  BY <2>1, <2>2
<1>5. MarksActive(r, d)  BY <1>3 DEF MarksActive
<1>6. StartsNext(r, d)  BY <1>1, <1>4 DEF StartsNext
<1>7. StartsInOrder(r, d)  BY <1>1, <1>3 DEF StartsInOrder
<1>8. LoopsAlone(d)  BY <1>1, <1>3 DEF LoopsAlone
<1>9. InOrder(r, d)  BY <1>3, <1>5, <1>6, <1>7, <1>8 DEF InOrder
<1>10. \A x : Covers(d, x) => x \in ready \/ (x = c.step /\ c.status # "none")
  BY <1>1, <1>2, <1>3, PendsCovered
<1> QED  BY <1>9, <1>10 DEF d

LEMMA QuietInOrder ==
  ASSUME NEW r, NEW c, Pends(c) = {}, c.activate = {}, MarksActive(r, c), c.terminal = "none" => c.cancel = {}
  PROVE  InOrder(r, c)
BY DEF InOrder, StartsNext, StartsInOrder, LoopsAlone

LEMMA TerminalPends ==
  ASSUME NEW c \in Commands, Bare(c), NEW r
  PROVE  /\ Pends(TerminalIfDone(c, r)) = {} /\ TerminalIfDone(c, r).activate = {}
         /\ Framed(c, TerminalIfDone(c, r))
<1>1. TerminalIfDone(c, r).activate = {} /\ TerminalIfDone(c, r).children = {}
  BY DEF TerminalIfDone, Commands, Bare
<1> QED  BY <1>1, TerminalFrames DEF Pends

\* What a marked step routes to has not been started, and starts in order.
LEMMA RouteInOrder ==
  ASSUME Orderly, NEW r \in [Steps -> Row], Through(r), Bald(r), NEW s \in Steps, r[s].status \in Active,
         NEW c \in Commands, Bare(c), c.cancel = {}, c.step = s, c.status \in {"completed", "failed_rejected"},
         NEW next \in [Steps -> Row], next = Persist(r, c, {}), NEW targets \in SUBSET ForwardTargets(s)
  PROVE  InOrder(r, Route(c, next, targets)) /\ About(r, s, Route(c, next, targets))
<1> DEFINE ready == Ready(next, targets)
           d == Route(c, next, targets)
<1>1. "none" \notin Active /\ "none" \notin Terminal /\ "completed" \in Terminal /\ "failed_rejected" \in Terminal
      /\ \A st \in Active : st \notin Terminal
  BY DEF Active, Terminal
<1>2. MarksActive(r, c)  BY DEF MarksActive
<1>3. ForwardTargets(s) \subseteq Steps  BY DEF ForwardTargets
<1>4. CASE ready = {}
  <2>1. d = TerminalIfDone(c, next)  BY <1>4 DEF Route
  <2>2. Pends(d) = {} /\ d.activate = {} /\ Framed(c, d)  BY <2>1, TerminalPends
  <2>3. d \in Commands  BY <1>3, RouteTyped
  <2> HIDE DEF d
  <2>4. InOrder(r, d)  BY <1>2, <2>2, QuietInOrder DEF Framed, MarksActive
  <2>5. About(r, s, d)  BY <2>2, <2>3, PendsCovered DEF About, Framed
  <2> QED  BY <2>4, <2>5 DEF d
<1>5. CASE ready # {}
  <2>1. d = Launch(c, next, ready)  BY <1>5 DEF Route
  <2>2. ready \in SUBSET Steps /\ ready \subseteq targets
        /\ \A x \in ready : \A n \in Needs[x] : next[n].status = "completed"
    BY <1>3 DEF Ready, NeedsSatisfied
  <2> HIDE DEF d, ready
  <2>3. \A u \in Steps : next[u].status = IF u = s THEN c.status ELSE r[u].status
    <3>1. \A u \in Steps : Persist(r, c, {})[u].status = IF u = s THEN c.status ELSE r[u].status
      BY PersistStatus
    <3> QED  BY <3>1
  <2>4. ASSUME NEW x \in ready PROVE r[x].status = "none" /\ s \in Feeders(x)
    <3>1. s \in Feeders(x) /\ x \in Steps  BY <2>2 DEF Feeders
    <3> QED  BY <1>1, <3>1 DEF Through
  <2>5. s \notin ready  BY <1>1, <2>4
  <2>6. \A x \in ready : r[x].status \notin Terminal  BY <1>1, <2>4
  <2>7. ASSUME NEW x \in ready, NEW u \in Feeders(x) PROVE next[u].status \in Terminal /\ u \notin ready
    <3>1. u \in Steps /\ s \in Feeders(x) /\ x \in Steps  BY <2>2, <2>4 DEF Feeders
    <3>2. CASE u = s  BY <1>1, <2>3, <2>5, <3>1, <3>2
    <3>3. CASE u # s
      <4>1. u \in Needs[x]  BY <2>7, <3>1, <3>3 DEF Orderly
      <4>2. next[u].status = "completed" /\ r[u].status = "completed"  BY <2>2, <2>3, <3>1, <3>3, <4>1
      <4> QED  BY <1>1, <2>4, <4>2
    <3> QED  BY <3>2, <3>3
  <2>8. ASSUME NEW x \in ready, NEW n \in Needs[x] PROVE next[n].status = "completed" /\ n \notin ready
    <3>1. n \in Steps /\ next[n].status = "completed"  BY <2>2
    <3> QED  BY <2>3, <2>4, <2>5, <3>1
  <2>9. \A x \in ready : r[x].attempt <= Retries[x]
    <3>1. \A x \in ready : r[x].attempt = 0 /\ Retries[x] \in Nat  BY <2>2, <2>4 DEF Bald, NoRow
    <3> QED  BY <3>1
  <2>10. c.terminal = "none"  BY DEF Bare
  <2>11. /\ InOrder(r, Launch(c, next, ready))
         /\ \A x : Covers(Launch(c, next, ready), x) => x \in ready \/ (x = c.step /\ c.status # "none")
    BY <1>2, <2>2, <2>5, <2>6, <2>7, <2>8, <2>9, <2>10, LaunchInOrder
  <2>12. About(r, s, d)  BY <2>1, <2>4, <2>11 DEF About
  <2> QED  BY <2>1, <2>11, <2>12 DEF d
<1> QED  BY <1>4, <1>5

\* A step that is started again on its own.
LEMMA AgainInOrder ==
  ASSUME NEW r \in [Steps -> Row], Through(r), NEW s \in Steps, r[s].status \in Active,
         s \in HumanLoop \/ r[s].attempt <= Retries[s],
         NEW c \in Commands, Bare(c), c.cancel = {}, c.status = "none" \/ c.step = s,
         NEW next \in [Steps -> Row], next = Persist(r, c, {})
  PROVE  InOrder(r, Launch(c, next, {s})) /\ About(r, s, Launch(c, next, {s}))
<1>1. "none" \notin Active /\ \A st \in Active : st \notin Terminal
  BY DEF Active, Terminal
<1>2. MarksActive(r, c)  BY DEF MarksActive
<1>3. ASSUME NEW u \in Feeders(s) PROVE next[u].status \in Terminal /\ u # s
  <2>1. u \in Steps /\ r[u].status \in Terminal  BY <1>1 DEF Feeders, Through
  <2>2. u # s  BY <1>1, <2>1
  <2>3. Persist(r, c, {})[u].status = r[u].status  BY <2>1, <2>2, PersistStatus
  <2> QED  BY <2>1, <2>2, <2>3
<1>4. c.terminal = "none" /\ {s} \in SUBSET Steps  BY DEF Bare
<1> DEFINE d == Launch(c, next, {s})
<1>5. /\ InOrder(r, d)
      /\ \A x : Covers(d, x) => x \in {s} \/ (x = c.step /\ c.status # "none")
  BY <1>1, <1>2, <1>3, <1>4, LaunchInOrder
<1> HIDE DEF d
<1>6. ASSUME NEW x, Covers(d, x) PROVE x = s  BY <1>5, <1>6
<1>7. About(r, s, d)  BY <1>6 DEF About
<1> QED  BY <1>5, <1>7 DEF d

\* The decisions on an active step are in order and about that step.
LEMMA DecisionsInOrder ==
  ASSUME Hookless, Unhandled, Orderly, NEW r \in [Steps -> Row], Through(r), Bald(r),
         NEW s \in Steps, r[s].status \in Active
  PROVE  /\ InOrder(r, OnStepCompleted(r, s)) /\ About(r, s, OnStepCompleted(r, s))
         /\ InOrder(r, OnStepFailed(r, s)) /\ About(r, s, OnStepFailed(r, s))
         /\ InOrder(r, OnStepApproved(r, s)) /\ About(r, s, OnStepApproved(r, s))
         /\ s \in HumanLoop => InOrder(r, OnStepRejected(r, s)) /\ About(r, s, OnStepRejected(r, s))
<1>0. /\ {"completed", "failed", "failed_rejected", "waiting_approval"} \subseteq Status
      /\ OnSuccess[s] \subseteq Steps /\ OnApprove[s] \subseteq Steps /\ OnReject[s] \subseteq Steps
  BY StatusFacts
<1>1. /\ OnSuccess[s] \subseteq ForwardTargets(s) /\ OnApprove[s] \subseteq ForwardTargets(s)
      /\ ~IsSelfRejectLoop(s) => OnReject[s] \subseteq ForwardTargets(s)
  BY DEF Orderly, ForwardTargets, SelfLoop
<1>2. ASSUME NEW st \in {"completed", "failed_rejected"}, NEW targets \in SUBSET ForwardTargets(s)
      PROVE  /\ InOrder(r, Route(Mark(s, st), SetStatus(r, s, st), targets))
             /\ About(r, s, Route(Mark(s, st), SetStatus(r, s, st), targets))
  <2> DEFINE c == Mark(s, st)
             next == SetStatus(r, s, st)
  <2>1. c \in Commands /\ Bare(c) /\ c.step = s /\ c.status = st /\ c.cancel = {}  BY <1>0, MarkBare
  <2>2. next \in [Steps -> Row] /\ next = Persist(r, c, {})  BY <1>0, MarkPersists
  <2> HIDE DEF c, next
  <2> QED  BY <2>1, <2>2, RouteInOrder DEF c, next
<1>3. InOrder(r, OnStepCompleted(r, s)) /\ About(r, s, OnStepCompleted(r, s))
  <2>1. s \notin AfterHooks  BY DEF Hookless
  <2>2. CASE s \in HumanLoop
    <3> DEFINE c == Mark(s, "waiting_approval")
    <3>1. OnStepCompleted(r, s) = c  BY <1>0, <2>1, <2>2, MarkBare DEF OnStepCompleted
    <3>2. c \in Commands /\ Bare(c) /\ c.step = s /\ c.cancel = {}  BY <1>0, MarkBare
    <3> HIDE DEF c
    <3>3. Pends(c) = {} /\ c.activate = {}  BY <3>2 DEF Bare, Pends
    <3>4. InOrder(r, c)  BY <3>2, <3>3, QuietInOrder DEF MarksActive
    <3>5. About(r, s, c)  BY <3>2, <3>3, PendsCovered DEF About
    <3> QED  BY <3>1, <3>4, <3>5
  <2>3. CASE s \notin HumanLoop
    <3>1. OnStepCompleted(r, s) = Route(Mark(s, "completed"), SetStatus(r, s, "completed"), OnSuccess[s])
      BY <1>0, <2>1, <2>3, MarkBare DEF OnStepCompleted
    <3> QED  BY <1>1, <1>2, <3>1
  <2> QED  BY <2>2, <2>3
<1>4. InOrder(r, OnStepFailed(r, s)) /\ About(r, s, OnStepFailed(r, s))
  <2>1. CASE r[s].attempt <= Retries[s]
    <3>1. NoCommands \in Commands /\ Bare(NoCommands)  BY NoCommandsBare
    <3>2. NoCommands.cancel = {} /\ NoCommands.status = "none" /\ r = Persist(r, NoCommands, {})
      BY DEF NoCommands, Persist
    <3> QED  BY <2>1, <3>1, <3>2, AgainInOrder DEF OnStepFailed
  <2>2. CASE ~(r[s].attempt <= Retries[s])
    <3> DEFINE c == Cancel(Mark(s, "failed"), ActiveSteps(r) \ {s})
               next == FailFast(r, s)
               d == TerminalIfDone(c, next)
    <3>1. c \in Commands /\ Bare(c) /\ next \in [Steps -> Row]  BY FailFastTyped, FailFastPersists
    <3>2. OnStepFailed(r, s) = d
      <4>1. Ready(next, OnFailure[s]) = {}  BY DEF Unhandled, Ready
      <4> QED  BY <2>2, <4>1 DEF OnStepFailed, Route
    <3>3. ActiveSteps(next) = {}
      <4>1. ASSUME NEW t \in Steps PROVE next[t].status \notin Active
        <5> DEFINE f == [r[t] EXCEPT !.status = "failed"]
                   g == [r[t] EXCEPT !.status = "cancelled"]
        <5>1. f.status = "failed" /\ g.status = "cancelled"  BY DEF Row
        <5>2. next[t] = IF t = s THEN f ELSE IF r[t].status \in Active THEN g ELSE r[t]
          BY DEF FailFast
        <5> HIDE DEF next, f, g
        <5>3. "failed" \notin Active /\ "cancelled" \notin Active  BY DEF Active
        <5> QED  BY <5>1, <5>2, <5>3
      <4> HIDE DEF next
      <4> QED  BY <4>1 DEF ActiveSteps
    <3>4. c.step = s /\ MarksActive(r, c)
      <4>1. PICK m : m = Mark(s, "failed") /\ m \in Commands /\ m.step = s  BY <1>0, MarkBare
      <4>2. ActiveSteps(r) \ {s} \in SUBSET Steps  BY DEF ActiveSteps
      <4>3. c.step = s  BY <4>1, <4>2, CancelFields
      <4> QED  BY <4>3 DEF MarksActive
    <3> HIDE DEF c, next
    <3>5. DerivedPhase(next) \in TerminalPhases /\ d.terminal = DerivedPhase(next)
      BY <3>1, <3>3, DerivedTyped DEF TerminalIfDone, Commands
    <3>6. Pends(d) = {} /\ d.activate = {} /\ Framed(c, d)  BY <3>1, TerminalPends
    <3> HIDE DEF d
    <3>7. d.terminal # "none"  BY <3>5 DEF TerminalPhases
    <3>8. InOrder(r, d)  BY <3>4, <3>6, <3>7, QuietInOrder DEF MarksActive, Framed
    <3> QED  BY <3>2, <3>7, <3>8 DEF About
  <2> QED  BY <2>1, <2>2
<1>5. InOrder(r, OnStepApproved(r, s)) /\ About(r, s, OnStepApproved(r, s))
  BY <1>1, <1>2 DEF OnStepApproved
<1>6. ASSUME s \in HumanLoop PROVE InOrder(r, OnStepRejected(r, s)) /\ About(r, s, OnStepRejected(r, s))
  <2>1. CASE ~IsSelfRejectLoop(s)  BY <1>1, <1>2, <2>1 DEF OnStepRejected
  <2>2. CASE IsSelfRejectLoop(s)
    <3> DEFINE c == Mark(s, "failed_rejected")
               next == SetStatus(r, s, "failed_rejected")
    <3>1. c \in Commands /\ Bare(c) /\ c.step = s /\ c.cancel = {}  BY <1>0, MarkBare
    <3>2. next \in [Steps -> Row] /\ next = Persist(r, c, {})  BY <1>0, MarkPersists
    <3>3. OnStepRejected(r, s) = Launch(c, next, {s})  BY <2>2 DEF OnStepRejected
    <3> HIDE DEF c, next
    <3>4. InOrder(r, Launch(c, next, {s})) /\ About(r, s, Launch(c, next, {s}))
      BY <1>6, <3>1, <3>2, AgainInOrder
    <3> QED  BY <3>3, <3>4
  <2> QED  BY <2>1, <2>2
<1> QED  BY <1>3, <1>4, <1>5, <1>6

\* The start of a run without rows, and its end, are in order.
LEMMA StartInOrder ==
  ASSUME Hookless, NEW r \in [Steps -> Row], \A s \in Steps : r[s] = NoRow
  PROVE  InOrder(r, OnRunStarted(r)) /\ \A s : About(r, s, OnRunStarted(r))
<1> DEFINE ready == Ready(r, EntrySteps)
           d == Launch(NoCommands, r, ready)
<1>0. NoCommands \in Commands /\ Bare(NoCommands)  BY NoCommandsBare
<1>1. NoCommands.cancel = {} /\ NoCommands.status = "none" /\ r = Persist(r, NoCommands, {})
  BY DEF NoCommands, Persist
<1>2. OnRunStarted(r) = d
  <2>1. RunHooks(NoCommands, "none") = NoCommands
    <3>1. NoCommands.gate = "none"  BY DEF NoCommands
    <3> QED  BY <1>0, <3>1 DEF RunHooks, Commands
  <2> QED  BY <2>1 DEF OnRunStarted, Hookless
<1>3. ready \in SUBSET Steps /\ \A x \in ready : \A n \in Needs[x] : r[n].status = "completed"
  BY DEF Ready, EntrySteps, NeedsSatisfied
<1>4. \A s \in Steps : r[s].status = "none" /\ r[s].attempt = 0 /\ Retries[s] \in Nat  BY DEF NoRow
<1>5. ASSUME NEW x \in ready PROVE Feeders(x) = {}
  <2>1. x \in EntrySteps  BY DEF Ready
  <2>2. \A t \in Steps : x \notin ForwardTargets(t)  BY <2>1 DEF EntrySteps, RoutingTargets
  <2> QED  BY <2>2 DEF Feeders
<1>6. ASSUME NEW x \in ready, NEW n \in Needs[x] PROVE FALSE
  <2>1. n \in Steps /\ r[n].status = "completed"  BY <1>3
  <2> QED  BY <1>4, <2>1
<1> HIDE DEF ready
<1>7. /\ NoCommands.terminal = "none" /\ MarksActive(r, NoCommands) /\ "none" \notin Terminal
      /\ \A x \in ready \ HumanLoop : r[x].attempt <= Retries[x]
  BY <1>0, <1>1, <1>3, <1>4 DEF Bare, MarksActive, Terminal
<1>8. /\ InOrder(r, d)
      /\ \A x : Covers(d, x) => x \in ready \/ (x = NoCommands.step /\ NoCommands.status # "none")
  BY <1>0, <1>1, <1>3, <1>4, <1>5, <1>6, <1>7, LaunchInOrder
<1>9. \A s : About(r, s, d)  BY <1>1, <1>3, <1>4, <1>8 DEF About
<1> QED  BY <1>2, <1>8, <1>9

LEMMA StopInOrder ==
  ASSUME NEW r, NEW ph \in {"failed", "cancelled"}
  PROVE  InOrder(r, Stop(r, ph)) /\ Pends(Stop(r, ph)) = {} /\ \A s : About(r, s, Stop(r, ph))
<1>1. /\ Stop(r, ph).activate = {} /\ Stop(r, ph).children = {} /\ Stop(r, ph).status = "none"
      /\ Stop(r, ph).terminal = ph
  BY DEF Stop, Cancel, NoCommands
<1>2. Pends(Stop(r, ph)) = {}  BY <1>1 DEF Pends
<1>3. InOrder(r, Stop(r, ph))  BY <1>1, <1>2, QuietInOrder DEF MarksActive
<1> QED  BY <1>1, <1>2, <1>3 DEF About

\* A step that the commands c say nothing of keeps its row.
LEMMA Spared ==
  ASSUME NEW r \in [Steps -> Row], NEW c, NEW s \in Steps, ~Covers(c, s)
  PROVE  Persist(r, c, {})[s] = r[s]
BY DEF Persist, Covers

\* A transaction of the commands c that starts the steps K turns the rows r into q.
Transacts(r, c, K, q) ==
  /\ K \subseteq Pends(c)
  /\ \A s \in K : q[s].status = "running"
  /\ \A s \in Steps : s \notin K => q[s] = Persist(r, c, {})[s]

\* From r to q a step keeps the end it has reached, and starts with its needs: met.
StepsInOrder(r, q) ==
  /\ \A s \in Steps : r[s].status \in Terminal => q[s].status = r[s].status
  /\ \A s \in Steps : r[s].status = "none" /\ q[s].status # "none"
                         => \A n \in Needs[s] : q[n].status = "completed"

\* One transaction of commands in order: what was through stays so, and what is
\* started has its needs: met.
LEMMA TransactionInOrder ==
  ASSUME NEW r \in [Steps -> Row], NEW c \in Commands, InOrder(r, c), Through(r), c.cancel \subseteq ActiveSteps(r),
         NEW K, NEW q, Transacts(r, c, K, q)
  PROVE  Through(q) /\ StepsInOrder(r, q)
<1>0. /\ K \subseteq Pends(c) /\ \A s \in K : q[s].status = "running"
      /\ \A s \in Steps : s \notin K => q[s] = Persist(r, c, {})[s]
  BY DEF Transacts
<1>1. "none" \notin Active /\ "none" \notin Terminal /\ "cancelled" \in Terminal
      /\ \A st \in Active : st \notin Terminal
  BY DEF Active, Terminal
<1>2. \A s \in Steps : s \notin K => q[s].status = IF s = c.step /\ c.status # "none" THEN c.status
                                                   ELSE IF s \in c.cancel THEN "cancelled" ELSE r[s].status
  BY <1>0, PersistStatus
<1>3. /\ c.status # "none" => r[c.step].status \in Active
      /\ \A s \in c.cancel : r[s].status \in Active
      /\ \A x \in K : r[x].status \notin Terminal
  BY <1>0 DEF InOrder, MarksActive, StartsInOrder, ActiveSteps
<1>4. ASSUME NEW s \in Steps, r[s].status \in Terminal PROVE q[s].status = r[s].status
  <2>1. s \notin K /\ s \notin c.cancel /\ ~(s = c.step /\ c.status # "none")  BY <1>1, <1>3, <1>4
  <2> QED  BY <1>2, <2>1
<1>5. ASSUME NEW s \in Steps, s \notin K, r[s].status = "none" PROVE q[s].status = "none"
  <2>1. s \notin c.cancel /\ ~(s = c.step /\ c.status # "none")  BY <1>1, <1>3, <1>5
  <2> QED  BY <1>2, <1>5, <2>1
<1>6. ASSUME NEW x \in K
      PROVE  /\ \A s \in Feeders(x) : q[s].status \in Terminal
             /\ r[x].status = "none" => \A n \in Needs[x] : q[n].status = "completed"
  <2>1. x \in Steps /\ Feeders(x) \subseteq Steps /\ Needs[x] \subseteq Steps  BY <1>0, PendsCovered DEF Feeders
  <2>2. \A s \in Feeders(x) : s \notin K /\ Persist(r, c, {})[s].status \in Terminal
    BY <1>0 DEF InOrder, StartsInOrder
  <2>3. r[x].status = "none" => \A n \in Needs[x] : n \notin K /\ Persist(r, c, {})[n].status = "completed"
    BY <1>0 DEF InOrder, StartsInOrder
  <2> QED  BY <1>0, <2>1, <2>2, <2>3
<1>7. ASSUME NEW t \in Steps, q[t].status # "none", NEW s \in Feeders(t) PROVE q[s].status \in Terminal
  <2>1. CASE t \in K  BY <1>6, <2>1
  <2>2. CASE t \notin K
    <3>1. s \in Steps /\ r[s].status \in Terminal  BY <1>5, <1>7, <2>2 DEF Through, Feeders
    <3> QED  BY <1>4, <3>1
  <2> QED  BY <2>1, <2>2
<1>8. Through(q)  BY <1>7 DEF Through
<1>9. ASSUME NEW s \in Steps, r[s].status = "none", q[s].status # "none"
      PROVE  \A n \in Needs[s] : q[n].status = "completed"
  <2>1. s \in K  BY <1>5, <1>9
  <2> QED  BY <1>6, <1>9, <2>1
<1> QED  BY <1>4, <1>8, <1>9 DEF StepsInOrder

\* The commands d are what is left of c without the steps K.
Rests(c, K, d) ==
  /\ K # {} /\ d.status = "none" /\ d.cancel = {}
  /\ d.activate \subseteq c.activate
  /\ Pends(d) \subseteq Pends(c) \ K

\* What is left of them is in order for the rows as they are then.
LEMMA RestInOrder ==
  ASSUME NEW r \in [Steps -> Row], NEW c \in Commands, InOrder(r, c), c.terminal = "none",
         NEW q \in [Steps -> Row], NEW d \in Commands, NEW K, Transacts(r, c, K, q), Rests(c, K, d)
  PROVE  /\ InOrder(q, d)
         /\ \A x \in Pends(d) : q[x].status = r[x].status
<1>0. /\ K \subseteq Pends(c) /\ K # {}
      /\ \A s \in Steps : s \notin K => q[s] = Persist(r, c, {})[s]
      /\ d.status = "none" /\ d.cancel = {} /\ d.activate \subseteq c.activate
      /\ Pends(d) \subseteq Pends(c) \ K
  BY DEF Transacts, Rests
<1>1. c.cancel = {} /\ Pends(c) \subseteq Steps /\ Pends(d) \subseteq Steps  BY <1>0, PendsCovered DEF InOrder
<1>2. \A s \in Steps : s \notin K => /\ q[s].status = IF s = c.step /\ c.status # "none" THEN c.status ELSE r[s].status
                                     /\ q[s].attempt = r[s].attempt
  BY <1>0, <1>1, PersistStatus, PersistRow
<1>3. ASSUME NEW x \in Pends(d) PROVE q[x].status = r[x].status /\ q[x].attempt = r[x].attempt /\ x \notin K
  <2>1. x \in Pends(c) /\ x \notin K /\ x \in Steps  BY <1>0, <1>1
  <2>2. ~(x = c.step /\ c.status # "none")  BY <1>0, <2>1 DEF InOrder, LoopsAlone
  <2> QED  BY <1>2, <2>1, <2>2
<1>4. \A s \in Steps : Persist(q, d, {})[s].status = q[s].status  BY <1>0, PersistStatus
<1>5. StartsNext(q, d)
  <2>1. ASSUME NEW a \in d.activate
        PROVE  a.attempt = q[a.step].attempt + 1 /\ (a.step \notin HumanLoop => a.attempt <= Retries[a.step] + 1)
    <3>1. a \in c.activate /\ a.step \in Pends(d)  BY <1>0 DEF Pends
    <3>2. q[a.step].attempt = r[a.step].attempt  BY <1>3, <3>1
    <3> QED  BY <3>1, <3>2 DEF InOrder, StartsNext
  <2> QED  BY <2>1 DEF StartsNext
<1>6. ASSUME NEW x \in Pends(d)
      PROVE  /\ q[x].status \notin Terminal
             /\ \A s \in Feeders(x) : Persist(q, d, {})[s].status \in Terminal /\ s \notin Pends(d)
             /\ q[x].status = "none"
                  => \A n \in Needs[x] : Persist(q, d, {})[n].status = "completed" /\ n \notin Pends(d)
  <2>1. x \in Pends(c) /\ x \in Steps /\ Feeders(x) \subseteq Steps /\ Needs[x] \subseteq Steps
    BY <1>0, <1>1 DEF Feeders
  <2>2. r[x].status \notin Terminal
    BY <2>1 DEF InOrder, StartsInOrder
  <2>3. \A s \in Feeders(x) : Persist(r, c, {})[s].status \in Terminal /\ s \notin Pends(c)
    BY <2>1 DEF InOrder, StartsInOrder
  <2>4. r[x].status = "none" => \A n \in Needs[x] : Persist(r, c, {})[n].status = "completed" /\ n \notin Pends(c)
    BY <2>1 DEF InOrder, StartsInOrder
  <2>5. \A s \in Steps : s \notin Pends(c) => Persist(q, d, {})[s].status = Persist(r, c, {})[s].status
    BY <1>0, <1>4
  <2> QED  BY <1>0, <1>3, <2>1, <2>2, <2>3, <2>4, <2>5
<1>7. StartsInOrder(q, d)  BY <1>6 DEF StartsInOrder
<1>8. InOrder(q, d)  BY <1>0, <1>5, <1>7 DEF InOrder, MarksActive, LoopsAlone
<1> QED  BY <1>3, <1>8

\* The rows and what the turn in progress has left to do are in the order of the flow.
Placed == Through(rows) /\ InBudget(rows) /\ InOrder(rows, turn.cmds)

\* Whatever the turn has left once the steps K are started was left before.
Leaves(K) ==
  /\ \A s \in Steps : ~Covers(turn.cmds, s) => rows'[s] = rows[s]
  /\ \A x \in Steps : Covers(turn'.cmds, x) => /\ Covers(turn.cmds, x) /\ x \notin K
                                               /\ rows'[x].status = rows[x].status
  /\ \A x \in K : Covers(turn.cmds, x) /\ rows'[x].status = "running"

LEMMA ActivateInOrder ==
  ASSUME IInv, KnownInv, Placed, NEW a \in turn.cmds.activate, NEW kids \in SUBSET turn.cmds.children,
         ActivateStep(a, kids)
  PROVE  /\ Placed' /\ StepsInOrder(rows, rows') /\ Leaves({a.step} \cup kids)
         /\ rows'[a.step].attempt = a.attempt /\ turn.cmds.terminal = "none" /\ turn'.followOns = turn.followOns
         /\ turn'.cmds.children = turn.cmds.children \ kids
<1> DEFINE c == turn.cmds
           flushed == Persist(rows, c, kids)
           K == {a.step} \cup kids
           d == turn'.cmds
<1>0. /\ rows \in [Steps -> Row] /\ c \in Commands /\ turn \in Turn /\ TypeOK
      /\ a.step \in Steps /\ a.attempt \in Nat /\ kids \subseteq Steps
  BY DEF IInv, TypeOK, Turn, Commands, Activation
<1>1. /\ turn.held /\ Fits(rows, c) /\ c.terminal = "none"
      /\ kids \subseteq Subflows /\ a.step \notin Subflows /\ a.attempt > rows[a.step].attempt
      /\ c.children \subseteq Subflows /\ \A b \in c.activate : b.step \notin Subflows
      /\ \A b \in c.activate : b.step = a.step => b = a
  BY <1>0 DEF IInv, Coherent, TurnFits, Fits, ActivateStep
<1>2. flushed \in [Steps -> Row]  BY <1>0, PersistTyped
<1>3. rows' = [flushed EXCEPT ![a.step] = Insert(flushed[a.step], a.attempt)]  BY DEF ActivateStep
<1>4. /\ d.activate = c.activate \ {a} /\ d.children = c.children \ kids
      /\ d.status = "none" /\ d.cancel = {} /\ turn'.followOns = turn.followOns
  BY <1>0, <1>1 DEF ActivateStep, Turn, Commands
<1>5. [Next]_vars  BY DEF Next, LockStep
<1>6. TypeOK'  BY <1>0, <1>5, NextTyped
<1>7. rows' \in [Steps -> Row] /\ d \in Commands  BY <1>6 DEF TypeOK, Turn
<1>8. /\ \A s \in K : s \in Steps /\ rows'[s].status = "running"
      /\ \A s \in Steps : s \notin K => rows'[s] = Persist(rows, c, {})[s]
  BY <1>0, ActivateStarts
<1>9. rows'[a.step].attempt = a.attempt
  <2>1. flushed[a.step].attempt = rows[a.step].attempt  BY <1>0, <1>1, PersistRow
  <2>2. a.attempt >= flushed[a.step].attempt /\ flushed[a.step] \in Row
    BY <1>0, <1>1, <1>2, <2>1 DEF Row
  <2>3. Insert(flushed[a.step], a.attempt).attempt = a.attempt  BY <1>0, <2>2, InsertFields
  <2> QED  BY <1>0, <1>2, <1>3, <2>3
<1>10. \A s \in kids : rows'[s].attempt = 1
  <2>1. ASSUME NEW s \in kids PROVE rows'[s].attempt = 1
    <3>1. s \in Steps /\ s # a.step /\ rows[s] \in Row /\ rows[s].attempt \in Nat /\ rows[s].attempt <= 1
      BY <1>0, <1>1 DEF IInv, Coherent, SubflowOnce, Row
    <3>2. flushed[s] = Insert(rows[s], 1)  BY <1>0, <3>1, PersistRow
    <3>3. Insert(rows[s], 1).attempt = 1  BY <3>1, InsertFields
    <3> QED  BY <1>2, <1>3, <3>1, <3>2, <3>3
  <2> QED  BY <2>1
<1> HIDE DEF flushed, d
<1>11. K \in SUBSET Pends(c) /\ K # {}  BY DEF Pends
<1>12. Pends(d) \subseteq Pends(c) \ K  BY <1>1, <1>4 DEF Pends
<1>13. c.cancel \subseteq ActiveSteps(rows)  BY <1>1 DEF KnownInv, TurnKnown, Rightful
<1>14. InOrder(rows, c) /\ Through(rows) /\ InBudget(rows)  BY DEF Placed
<1>15. a.step \notin HumanLoop => a.attempt <= Retries[a.step] + 1  BY <1>14 DEF InOrder, StartsNext
<1>c. c \in Commands /\ c.terminal = "none"  BY <1>0, <1>1
<1>r. rows \in [Steps -> Row]  BY <1>0
<1> HIDE DEF K, c
<1>t. Transacts(rows, c, K, rows')  BY <1>8, <1>11 DEF Transacts
<1>16. Through(rows') /\ StepsInOrder(rows, rows')
  BY <1>r, <1>c, <1>13, <1>14, <1>t, TransactionInOrder
<1>17. InOrder(rows', d) /\ \A x \in Pends(d) : rows'[x].status = rows[x].status
  <2>1. Rests(c, K, d)  BY <1>4, <1>11, <1>12 DEF Rests, c
  <2>2. InOrder(rows, c) /\ rows' \in [Steps -> Row] /\ d \in Commands  BY <1>7, <1>14
  <2> QED  BY <1>r, <1>c, <1>t, <2>1, <2>2, RestInOrder
<1>18. ASSUME NEW s \in Steps \ HumanLoop PROVE rows'[s].attempt <= Retries[s] + 1
  <2>1. CASE s = a.step  BY <1>9, <1>15, <2>1
  <2>2. CASE s \in kids
    <3>1. Retries[s] \in Nat  OBVIOUS
    <3> QED  BY <1>10, <2>2, <3>1
  <2>3. CASE s \notin K
    <3>1. rows'[s].attempt = rows[s].attempt  BY <1>0, <1>c, <1>8, <2>3, PersistRow
    <3> QED  BY <1>14, <3>1 DEF InBudget
  <2> QED  BY <2>1, <2>2, <2>3 DEF K
<1>19. \A s \in Steps : ~Covers(c, s) => rows'[s] = rows[s]
  <2>1. ASSUME NEW s \in Steps, ~Covers(c, s) PROVE rows'[s] = rows[s]
    <3>1. s \notin K  BY <1>c, <1>11, <2>1, PendsCovered
    <3> QED  BY <1>0, <1>8, <2>1, <3>1, Spared
  <2> QED  BY <2>1
<1>20. \A x \in Steps : Covers(d, x) => Covers(c, x) /\ x \notin K /\ rows'[x].status = rows[x].status
  <2>1. \A x : Covers(d, x) => x \in Pends(d)  BY <1>4, <1>7, PendsCovered
  <2>2. \A x : x \in Pends(c) => Covers(c, x)  BY <1>c, PendsCovered
  <2> QED  BY <1>12, <1>17, <2>1, <2>2
<1>21. \A x \in K : Covers(c, x) /\ rows'[x].status = "running"  BY <1>c, <1>8, <1>11, PendsCovered
<1>22. Leaves(K)  BY <1>19, <1>20, <1>21 DEF Leaves, c, d
<1>23. InBudget(rows')  BY <1>18 DEF InBudget
<1>24. Placed'  BY <1>16, <1>17, <1>23 DEF Placed, d
<1> QED  BY <1>c, <1>4, <1>9, <1>16, <1>22, <1>24 DEF K, c, d

LEMMA FinishInOrder ==
  ASSUME IInv, KnownInv, Placed, FinishTurn
  PROVE  Placed' /\ StepsInOrder(rows, rows') /\ Leaves(turn.cmds.children)
<1> DEFINE c == turn.cmds
           K == c.children
<1>0. /\ rows \in [Steps -> Row] /\ c \in Commands /\ K \subseteq Steps /\ rows' = Persist(rows, c, K)
      /\ turn' = Idle /\ turn.held
  BY DEF IInv, TypeOK, Turn, Commands, FinishTurn
<1>1. /\ \A s \in K : s \in Steps /\ rows'[s].status = "running"
      /\ \A s \in Steps : s \notin K => rows'[s] = Persist(rows, c, {})[s]
  BY FinishStarts
<1>2. K \subseteq Subflows  BY <1>0 DEF IInv, Coherent, TurnFits, Fits
<1>3. \A s \in K : rows'[s].attempt = 1
  <2>1. ASSUME NEW s \in K PROVE rows'[s].attempt = 1
    <3>1. s \in Steps /\ rows[s] \in Row /\ rows[s].attempt \in Nat /\ rows[s].attempt <= 1
      BY <1>0, <1>2 DEF IInv, Coherent, SubflowOnce, Row
    <3>2. rows'[s] = Insert(rows[s], 1)  BY <1>0, <3>1, PersistRow
    <3>3. Insert(rows[s], 1).attempt = 1  BY <3>1, InsertFields
    <3> QED  BY <3>2, <3>3
  <2> QED  BY <2>1
<1>4. K \in SUBSET Pends(c)  BY DEF Pends
<1>5. c.cancel \subseteq ActiveSteps(rows)  BY <1>0 DEF KnownInv, TurnKnown, Rightful
<1>6. InOrder(rows, c) /\ Through(rows) /\ InBudget(rows)  BY DEF Placed
<1>7. /\ Pends(NoCommands) = {} /\ NoCommands.activate = {} /\ NoCommands.cancel = {}
      /\ NoCommands.status = "none" /\ NoCommands \in Commands /\ turn'.cmds = NoCommands
  BY <1>0, NoCommandsTyped DEF NoCommands, Pends, Idle
<1>c. c \in Commands  BY <1>0
<1>r. rows \in [Steps -> Row]  BY <1>0
<1> HIDE DEF K, c
<1>t. Transacts(rows, c, K, rows')  BY <1>1, <1>4 DEF Transacts
<1>8. Through(rows') /\ StepsInOrder(rows, rows')
  BY <1>r, <1>c, <1>5, <1>6, <1>t, TransactionInOrder
<1>9. InOrder(rows', NoCommands)  BY <1>7, QuietInOrder DEF MarksActive
<1>10. ASSUME NEW s \in Steps \ HumanLoop PROVE rows'[s].attempt <= Retries[s] + 1
  <2>1. CASE s \in K
    <3>1. Retries[s] \in Nat  OBVIOUS
    <3> QED  BY <1>3, <2>1, <3>1
  <2>2. CASE s \notin K
    <3>1. rows'[s].attempt = rows[s].attempt  BY <1>0, <1>c, <2>2, PersistRow
    <3> QED  BY <1>6, <3>1 DEF InBudget
  <2> QED  BY <2>1, <2>2
<1>11. InBudget(rows')  BY <1>10 DEF InBudget
<1>12. Placed'  BY <1>7, <1>8, <1>9, <1>11 DEF Placed
<1>13. \A s \in Steps : ~Covers(c, s) => rows'[s] = rows[s]
  <2>1. ASSUME NEW s \in Steps, ~Covers(c, s) PROVE rows'[s] = rows[s]
    <3>1. s \notin K  BY <1>c, <1>4, <2>1, PendsCovered
    <3> QED  BY <1>0, <1>1, <2>1, <3>1, Spared
  <2> QED  BY <2>1
<1>14. \A x : ~Covers(turn'.cmds, x)  BY <1>7 DEF Covers, NoCommands
<1>15. \A x \in K : Covers(c, x) /\ rows'[x].status = "running"  BY <1>c, <1>1, <1>4, PendsCovered
<1>16. Leaves(K)  BY <1>13, <1>14, <1>15 DEF Leaves, c
<1> QED  BY <1>8, <1>12, <1>16 DEF K, c

\* The lock is free or a turn holds it; the runtime starts, recovers and serves one
\* after the other, and nothing is under way while it is down.
Booted ==
  /\ ~turn.held => turn = Idle
  /\ starting => mode = "up"
  /\ plan # {} => mode = "booting"
  /\ Restart \in plan => plan = {Restart}
  /\ mode = "down" => tasks = {} /\ followOns = {} /\ turn = Idle /\ \A c \in Clients : clients[c] = NoCall

\* A run that is yet to be started, or to be started over, has no rows.
Unstarted == starting \/ Restart \in plan => Pends(turn.cmds) = {} /\ \A s \in Steps : rows[s] = NoRow

LEMMA SubmitBooted ==
  ASSUME NEW c, c.gate = "none", NEW hs, Submit(c, hs)
  PROVE  mode # "down" /\ ~turn.held /\ (turn' = turn \/ (turn' = Held(c) /\ turn'.held /\ phase = "running"))
BY DEF Submit, Drive, Free, Held

\* What every decision of a flow without hooks has in common.
LEMMA DecisionsPlain ==
  ASSUME Hookless, NEW r \in [Steps -> Row]
  PROVE  /\ \A s \in Steps : /\ Plain(OnStepCompleted(r, s)) /\ Plain(OnStepFailed(r, s))
                             /\ Plain(OnStepApproved(r, s)) /\ Plain(OnStepRejected(r, s))
         /\ Plain(OnRunStarted(r)) /\ Plain(Stop(r, "failed")) /\ Plain(Stop(r, "cancelled"))
<1>1. ASSUME NEW s \in Steps
      PROVE  /\ Plain(OnStepCompleted(r, s)) /\ Plain(OnStepFailed(r, s))
             /\ Plain(OnStepApproved(r, s)) /\ Plain(OnStepRejected(r, s))
  BY StepCompletedFits, StepFailedFits, StepApprovedFits, StepRejectedFits
<1>2. Plain(OnRunStarted(r))  BY StartEnds
<1>3. Plain(Stop(r, "failed")) /\ Plain(Stop(r, "cancelled"))  BY StopFits, StatusFacts
<1> QED  BY <1>1, <1>2, <1>3

LEMMA NextBooted ==
  ASSUME Hookless, IInv, Booted, [Next]_vars
  PROVE  Booted'
<1>0. /\ TypeOK /\ rows \in [Steps -> Row] /\ turn \in Turn /\ hooks = {}
      /\ \A t \in tasks : t.step \in Steps
      /\ \A c \in Clients : clients[c] \notin {NoCall, InTurn} => clients[c].step \in Steps
      /\ \A p \in plan : p.kind = "fail" => p.step \in Steps
  BY DEF IInv, TypeOK, Task, Plan, Restart, Call
<1>i. Idle.held = FALSE  BY DEF Idle
<1>1. ASSUME mode # "down", mode' = mode, plan' \subseteq plan, starting' => starting, ~turn'.held => turn' = Idle
      PROVE  Booted'
  BY <1>1 DEF Booted
<1>2. ASSUME NEW c, Plain(c), Submit(c, hooks), mode' = mode, plan' \subseteq plan, starting' => starting
      PROVE  Booted'
  <2>1. mode # "down" /\ ~turn.held /\ (turn' = turn \/ turn'.held)  BY <1>2, SubmitBooted DEF Plain
  <2>2. ~turn'.held => turn' = Idle  BY <2>1 DEF Booted
  <2> QED  BY <1>1, <1>2, <2>1, <2>2
<1>3. ASSUME LockStep PROVE Booted'
  <2>1. turn.held /\ UNCHANGED <<mode, plan, starting>> /\ (turn'.held \/ turn' = Idle)
    <3>1. ASSUME NEW s \in Steps, CancelJob(s) \/ AbortTask(s)
          PROVE  turn.held /\ UNCHANGED <<mode, plan, starting>> /\ turn'.held
      <4>1. turn'.held = turn.held /\ s \in turn.kill \cup turn.abort  BY <1>0, <3>1 DEF CancelJob, AbortTask, Turn
      <4>2. turn.held  BY <4>1 DEF Booted, Idle
      <4> QED  BY <3>1, <4>1, <4>2 DEF CancelJob, AbortTask
    <3>2. ASSUME NEW a \in turn.cmds.activate, NEW kids \in SUBSET turn.cmds.children, ActivateStep(a, kids)
          PROVE  turn.held /\ UNCHANGED <<mode, plan, starting>> /\ turn'.held
      BY <1>0, <3>2 DEF ActivateStep, Turn
    <3>3. ASSUME NEW a \in turn.cmds.activate, ActivationFails(a)
          PROVE  turn.held /\ UNCHANGED <<mode, plan, starting>> /\ turn' = Idle
      BY <3>3 DEF ActivationFails
    <3>4. ASSUME FinishTurn PROVE turn.held /\ UNCHANGED <<mode, plan, starting>> /\ turn' = Idle
      BY <3>4 DEF FinishTurn
    <3> QED  BY <1>3, <3>1, <3>2, <3>3, <3>4 DEF LockStep
  <2>2. mode # "down"  BY <1>i, <2>1 DEF Booted
  <2> QED  BY <1>1, <2>1, <2>2
<1>4. ASSUME RunStarted \/ CancelRequested \/ DeadlineExceeded PROVE Booted'
  <2>1. CASE RunStarted  BY <1>0, <1>2, <2>1, DecisionsPlain DEF RunStarted
  <2>2. CASE CancelRequested  BY <1>0, <1>2, <2>2, DecisionsPlain DEF CancelRequested
  <2>3. CASE DeadlineExceeded  BY <1>0, <1>2, <2>3, DecisionsPlain DEF DeadlineExceeded
  <2> QED  BY <1>4, <2>1, <2>2, <2>3
<1>5. ASSUME NEW t \in tasks, TaskSubmits(t) PROVE Booted'
  BY <1>0, <1>2, <1>5, DecisionsPlain DEF TaskSubmits
<1>6. ASSUME NEW s \in Steps, FollowOnSubmits(s) PROVE Booted'
  BY <1>0, <1>2, <1>6, DecisionsPlain DEF FollowOnSubmits
<1>7. ASSUME NEW c \in Clients, NEW s \in Steps, NEW type \in {"step_approved", "step_rejected"},
              ResolveApproval(c, s, type)
      PROVE  Booted'
  <2>1. mode = "up" /\ UNCHANGED <<mode, plan, starting, turn>>  BY <1>7 DEF ResolveApproval
  <2> QED  BY <1>1, <2>1 DEF Booted
<1>8. ASSUME NEW c \in Clients, SubmitApproval(c) PROVE Booted'
  <2>1. clients[c].step \in Steps  BY <1>0, <1>8 DEF SubmitApproval
  <2> QED  BY <1>0, <1>2, <1>8, <2>1, DecisionsPlain DEF SubmitApproval
<1>9. ASSUME NEW t \in tasks, TaskStep(t) PROVE Booted'
  <2>1. UNCHANGED <<mode, plan, starting, turn>>
    BY <1>9 DEF TaskStep, StartJob, StartFails, PersistJobId, JobCompletes, JobFails, WaitGivesUp
  <2>2. mode # "down"  BY DEF Booted
  <2> QED  BY <1>1, <2>1, <2>2 DEF Booted
<1>10. ASSUME Crash PROVE Booted'  BY <1>10 DEF Crash, Booted
<1>11. ASSUME Boot PROVE Booted'
  <2>1. Restart \in RecoveryPlan => RecoveryPlan = {Restart}
    <3>1. \A k, s, n : [kind |-> k, step |-> s, attempt |-> n] = Restart => k = "restart"  BY DEF Restart
    <3> QED  BY <3>1 DEF RecoveryPlan
  <2>2. mode = "down" /\ UNCHANGED <<starting, turn>> /\ plan' = RecoveryPlan /\ mode' = "booting"  BY <1>11 DEF Boot
  <2>3. ~starting /\ turn = Idle  BY <2>2 DEF Booted
  <2> QED  BY <2>1, <2>2, <2>3 DEF Booted
<1>12. ASSUME Serve PROVE Booted'
  <2>1. mode = "booting" /\ plan = {} /\ UNCHANGED <<starting, turn, plan>> /\ mode' = "up"  BY <1>12 DEF Serve
  <2> QED  BY <2>1 DEF Booted
<1>13. ASSUME NEW p \in plan, Reattach(p) PROVE Booted'
  <2>1. mode = "booting" /\ plan' \subseteq plan /\ UNCHANGED <<starting, turn, mode>>  BY <1>13 DEF Reattach
  <2> QED  BY <1>1, <2>1 DEF Booted
<1>14. ASSUME NEW p \in plan, RecoverBySubmit(p) PROVE Booted'
  BY <1>0, <1>2, <1>14, DecisionsPlain DEF RecoverBySubmit
<1>15. ASSUME UNCHANGED vars PROVE Booted'  BY <1>15 DEF vars, Booted
<1>16. ~ \E h \in hooks : HookStep(h)  BY <1>0
<1> QED
  BY <1>3, <1>4, <1>5, <1>6, <1>7, <1>8, <1>9, <1>10, <1>11, <1>12, <1>13, <1>14, <1>15, <1>16
  DEF Next, Recover, Ended

LEMMA NextUnstarted ==
  ASSUME Hookless, IInv, KnownInv, Booted, Unstarted, [Next]_vars
  PROVE  Unstarted'
<1>0. /\ TypeOK /\ rows \in [Steps -> Row] /\ turn \in Turn /\ turn.cmds \in Commands /\ hooks = {}
      /\ \A t \in tasks : t.step \in Steps
      /\ \A c \in Clients : clients[c] \notin {NoCall, InTurn} => clients[c].step \in Steps
      /\ \A p \in plan : p.kind = "fail" => p.step \in Steps
      /\ \A p \in plan : p.kind \in {"fail", "reattach"} \/ p = Restart
  BY DEF IInv, TypeOK, Task, Plan, Restart, Call, Turn
<1> DEFINE Yet == starting \/ Restart \in plan
<1>k. ASSUME NEW s \in Steps, Known(s) PROVE ~Yet  BY <1>k DEF Unstarted, Known, NoRow
<1> HIDE DEF Yet
<1>1. ASSUME ~Yet, starting' => starting, plan' \subseteq plan PROVE Unstarted'  BY <1>1 DEF Unstarted, Yet
<1>2. ASSUME rows' = rows, turn'.cmds = turn.cmds, starting' => starting, plan' \subseteq plan PROVE Unstarted'
  BY <1>2 DEF Unstarted
<1>3. ASSUME ~starting', Restart \notin plan' PROVE Unstarted'  BY <1>3 DEF Unstarted
<1>4. ASSUME NEW s \in Steps, CancelJob(s) \/ AbortTask(s) PROVE Unstarted'
  <2>1. turn'.cmds = turn.cmds  BY <1>0, <1>4 DEF CancelJob, AbortTask, Turn
  <2> QED  BY <1>2, <1>4, <2>1 DEF CancelJob, AbortTask, store
<1>5. ASSUME NEW a \in turn.cmds.activate, NEW kids \in SUBSET turn.cmds.children, ActivateStep(a, kids) PROVE Unstarted'
  <2>0. a.step \in Pends(turn.cmds)  BY DEF Pends
  <2>1. ~Yet  BY <2>0 DEF Unstarted, Yet
  <2> QED  BY <1>1, <1>5, <2>1 DEF ActivateStep
<1>6. ASSUME NEW a \in turn.cmds.activate, ActivationFails(a) PROVE Unstarted'
  <2>0. a.step \in Pends(turn.cmds)  BY DEF Pends
  <2>1. ~Yet  BY <2>0 DEF Unstarted, Yet
  <2> QED  BY <1>1, <1>6, <2>1 DEF ActivationFails
<1>7. ASSUME FinishTurn PROVE Unstarted'
  <2>1. UNCHANGED <<starting, plan>> /\ turn' = Idle /\ turn.held  BY <1>7 DEF FinishTurn
  <2>2. ASSUME Yet PROVE Pends(turn'.cmds) = {} /\ \A s \in Steps : rows'[s] = NoRow
    <3>1. Pends(turn.cmds) = {} /\ \A s \in Steps : rows[s] = NoRow  BY <2>2 DEF Unstarted, Yet
    <3>2. turn.cmds.children = {}  BY <3>1 DEF Pends
    <3>3. \A s \in Steps : rows'[s] = Persist(rows, turn.cmds, {})[s]  BY <1>7, <3>2, FinishStarts
    <3>4. Rightful(rows, turn.cmds)  BY <2>1 DEF KnownInv, TurnKnown
    <3>5. \A s \in Steps : rows[s].status = "none"  BY <3>1 DEF NoRow
    <3>6. \A s \in Steps : rows'[s] = NoRow  BY <3>1, <3>3, <3>4, <3>5, PersistUntouched
    <3>7. Pends(turn'.cmds) = {}  BY <2>1 DEF Idle, NoCommands, Pends
    <3> QED  BY <3>6, <3>7
  <2> QED  BY <2>1, <2>2 DEF Unstarted, Yet
<1>8. ASSUME RunStarted PROVE Unstarted'
  <2>1. starting /\ ~starting' /\ plan' = plan  BY <1>8 DEF RunStarted
  <2>2. plan = {}  BY <2>1 DEF Booted
  <2> QED  BY <1>3, <2>1, <2>2
<1>9. ASSUME NEW t \in tasks PROVE ~Yet
  <2>1. t.step \in Steps /\ Known(t.step)  BY <1>0 DEF KnownInv, SourcesKnown
  <2> QED  BY <1>k, <2>1
<1>10. ASSUME NEW t \in tasks, TaskSubmits(t) \/ TaskStep(t) PROVE Unstarted'
  <2>1. UNCHANGED <<starting, plan>>
    BY <1>10 DEF TaskSubmits, TaskStep, StartJob, StartFails, PersistJobId, JobCompletes, JobFails, WaitGivesUp
  <2> QED  BY <1>1, <1>9, <2>1
<1>11. ASSUME NEW s \in Steps, FollowOnSubmits(s) PROVE Unstarted'
  <2>1. Known(s)  BY <1>11 DEF FollowOnSubmits, KnownInv, SourcesKnown
  <2> QED  BY <1>1, <1>k, <1>11, <2>1 DEF FollowOnSubmits
<1>12. ASSUME CancelRequested \/ DeadlineExceeded PROVE Unstarted'
  <2>1. UNCHANGED <<rows, starting, plan>>  BY <1>12 DEF CancelRequested, DeadlineExceeded, store
  <2>2. PICK ph \in {"failed", "cancelled"} : Submit(Stop(rows, ph), hooks)
    BY <1>12 DEF CancelRequested, DeadlineExceeded
  <2>3. Pends(Stop(rows, ph)) = {}  BY StopInOrder
  <2>4. Stop(rows, ph).gate = "none"  BY <1>0, DecisionsPlain DEF Plain
  <2>5. turn' = turn \/ turn' = Held(Stop(rows, ph))  BY <2>2, <2>4, SubmitBooted
  <2>6. turn'.cmds = turn.cmds \/ turn'.cmds = Stop(rows, ph)  BY <2>5 DEF Held
  <2> QED  BY <2>1, <2>3, <2>6 DEF Unstarted
<1>13. ASSUME NEW c \in Clients, NEW s \in Steps, NEW type \in {"step_approved", "step_rejected"},
              ResolveApproval(c, s, type)
       PROVE  Unstarted'
  BY <1>2, <1>13 DEF ResolveApproval, store
<1>14. ASSUME NEW c \in Clients, SubmitApproval(c) PROVE Unstarted'
  <2>1. clients[c].step \in Steps /\ Known(clients[c].step)
    BY <1>0, <1>14 DEF SubmitApproval, KnownInv, SourcesKnown
  <2> QED  BY <1>1, <1>k, <1>14, <2>1 DEF SubmitApproval
<1>15. ASSUME Crash PROVE Unstarted'  BY <1>3, <1>15 DEF Crash
<1>16. ASSUME Boot PROVE Unstarted'
  <2>1. mode = "down" /\ UNCHANGED <<rows, starting, turn>> /\ plan' = RecoveryPlan  BY <1>16 DEF Boot, store
  <2>2. ~starting /\ turn = Idle  BY <2>1 DEF Booted
  <2>3. Restart \in RecoveryPlan => \A s \in Steps : rows[s] = NoRow
    <3>1. \A k, s, n : [kind |-> k, step |-> s, attempt |-> n] = Restart => k = "restart"  BY DEF Restart
    <3> QED  BY <3>1 DEF RecoveryPlan
  <2>4. Pends(Idle.cmds) = {}  BY DEF Idle, NoCommands, Pends
  <2> QED  BY <2>1, <2>2, <2>3, <2>4 DEF Unstarted
<1>17. ASSUME Serve PROVE Unstarted'  BY <1>2, <1>17 DEF Serve, store
<1>18. ASSUME NEW p \in plan, Reattach(p) PROVE Unstarted'  BY <1>2, <1>18 DEF Reattach, store
<1>19. ASSUME NEW p \in plan, RecoverBySubmit(p) PROVE Unstarted'
  <2>1. plan' = plan \ {p} /\ starting' = starting  BY <1>19 DEF RecoverBySubmit
  <2>2. CASE p = Restart
    <3>1. ~starting /\ plan = {Restart}  BY <1>19, <2>2 DEF RecoverBySubmit, Booted
    <3> QED  BY <1>3, <2>1, <2>2, <3>1
  <2>3. CASE p # Restart
    <3>1. p.step \in Steps  BY <1>0, <1>19, <2>3 DEF RecoverBySubmit
    <3>2. Known(p.step)  BY <3>1 DEF KnownInv, SourcesKnown
    <3> QED  BY <1>1, <1>k, <2>1, <3>1, <3>2
  <2> QED  BY <2>2, <2>3
<1>20. ASSUME UNCHANGED vars PROVE Unstarted'  BY <1>2, <1>20 DEF vars
<1>21. ~ \E h \in hooks : HookStep(h)  BY <1>0
<1> QED
  BY <1>4, <1>5, <1>6, <1>7, <1>8, <1>10, <1>11, <1>12, <1>13, <1>14, <1>15, <1>16, <1>17, <1>18,
     <1>19, <1>20, <1>21
  DEF Next, LockStep, Recover, Ended

\* No step is looked after twice: by one task, by one queued event, by one item of
\* the recovery plan, or by the follow-up of the turn that starts it.
Exclusive ==
  /\ \A t, u \in tasks : t.step = u.step => t = u
  /\ \A p, q \in plan : p.step = q.step => p = q
  /\ \A t \in tasks : t.step \notin followOns \cup turn.followOns
  /\ \A t \in tasks : \A p \in plan : t.step # p.step
  /\ \A p \in plan : p.step \notin followOns \cup turn.followOns
  /\ followOns \cap turn.followOns = {}
  /\ turn.followOns \subseteq Subflows

\* The step s is running on the rows r, and the commands c say nothing of it.
OnIt(r, c, s) == r[s].status = "running" /\ ~Covers(c, s)

\* Whatever is under way is about a step as it is on the rows r, one that the turn m
\* does not decide; a step that waits for a human is decided by all its callers.
TendedBy(r, m, ts, fs, ps, cl) ==
  /\ \A t \in ts : OnIt(r, m.cmds, t.step) /\ t.attempt = r[t.step].attempt
  /\ \A s \in fs : OnIt(r, m.cmds, s)
  /\ \A s \in m.followOns : s \in m.cmds.children \/ OnIt(r, m.cmds, s)
  /\ \A p \in ps : p.step \in Steps => OnIt(r, m.cmds, p.step) /\ p.attempt = r[p.step].attempt
  /\ \A c \in Clients : cl[c].step \in Steps
       => r[cl[c].step].status = "waiting_approval" /\ ~Covers(m.cmds, cl[c].step)
  /\ \A w \in Steps : r[w].status = "waiting_approval" /\ Covers(m.cmds, w) => \A c \in Clients : cl[c] = InTurn

Live == phase = "running" /\ turn.cmds.terminal = "none"

Tended == Live => TendedBy(rows, turn, tasks, followOns, plan, clients)

\* The turn n on the rows q spares whatever the turn m on the rows r did not decide.
Spares(r, m, q, n) ==
  \A s \in Steps : ~Covers(m.cmds, s) => /\ q[s].status = r[s].status /\ q[s].attempt = r[s].attempt
                                         /\ ~Covers(n.cmds, s)

LEMMA KeepsTended ==
  ASSUME NEW r, NEW m, NEW ts, NEW fs, NEW ps, NEW cl, TendedBy(r, m, ts, fs, ps, cl),
         NEW q, NEW n, NEW ts2, NEW fs2, NEW ps2, NEW cl2, Spares(r, m, q, n),
         \A t \in ts2 : t.step \in Steps /\ (\/ OnIt(q, n.cmds, t.step) /\ t.attempt = q[t.step].attempt
                                             \/ \E u \in ts : u.step = t.step /\ u.attempt = t.attempt),
         \A s \in fs2 : s \in Steps /\ (OnIt(q, n.cmds, s) \/ s \in fs \/ (s \in m.followOns /\ s \notin m.cmds.children)),
         \A s \in n.followOns : s \in Steps /\ (\/ s \in n.cmds.children \/ OnIt(q, n.cmds, s)
                                                \/ s \in m.followOns /\ s \notin m.cmds.children),
         ps2 \subseteq ps,
         \A c \in Clients : cl2[c].step \in Steps => cl2[c] = cl[c],
         \A w \in Steps : q[w].status = "waiting_approval" /\ Covers(n.cmds, w)
           => r[w].status = "waiting_approval" /\ Covers(m.cmds, w) /\ \A c \in Clients : cl[c] = InTurn => cl2[c] = InTurn
  PROVE  TendedBy(q, n, ts2, fs2, ps2, cl2)
<1>1. ASSUME NEW s \in Steps, OnIt(r, m.cmds, s)
      PROVE  OnIt(q, n.cmds, s) /\ q[s].attempt = r[s].attempt
  BY <1>1 DEF OnIt, Spares
<1>2. ASSUME NEW t \in ts2 PROVE OnIt(q, n.cmds, t.step) /\ t.attempt = q[t.step].attempt
  <2>1. CASE \E u \in ts : u.step = t.step /\ u.attempt = t.attempt
    <3>1. PICK u \in ts : u.step = t.step /\ u.attempt = t.attempt  BY <2>1
    <3>2. OnIt(r, m.cmds, u.step) /\ u.attempt = r[u.step].attempt  BY DEF TendedBy
    <3> QED  BY <1>1, <3>1, <3>2
  <2> QED  BY <2>1
<1>3. ASSUME NEW s \in fs2 PROVE OnIt(q, n.cmds, s)
  <2>1. (s \in fs \/ (s \in m.followOns /\ s \notin m.cmds.children)) => OnIt(r, m.cmds, s)  BY DEF TendedBy
  <2> QED  BY <1>1, <2>1
<1>4. ASSUME NEW s \in n.followOns PROVE s \in n.cmds.children \/ OnIt(q, n.cmds, s)
  <2>1. (s \in m.followOns /\ s \notin m.cmds.children) => OnIt(r, m.cmds, s)  BY DEF TendedBy
  <2> QED  BY <1>1, <2>1
<1>5. ASSUME NEW p \in ps2, p.step \in Steps PROVE OnIt(q, n.cmds, p.step) /\ p.attempt = q[p.step].attempt
  <2>1. OnIt(r, m.cmds, p.step) /\ p.attempt = r[p.step].attempt  BY <1>5 DEF TendedBy
  <2> QED  BY <1>1, <1>5, <2>1
<1>6. ASSUME NEW c \in Clients, cl2[c].step \in Steps
      PROVE  q[cl2[c].step].status = "waiting_approval" /\ ~Covers(n.cmds, cl2[c].step)
  <2>1. cl2[c] = cl[c]  BY <1>6
  <2>2. r[cl2[c].step].status = "waiting_approval" /\ ~Covers(m.cmds, cl2[c].step)  BY <1>6, <2>1 DEF TendedBy
  <2> QED  BY <1>6, <2>2 DEF Spares
<1>7. ASSUME NEW w \in Steps, q[w].status = "waiting_approval", Covers(n.cmds, w), NEW c \in Clients
      PROVE  cl2[c] = InTurn
  <2>1. r[w].status = "waiting_approval" /\ Covers(m.cmds, w)  BY <1>7
  <2>2. cl[c] = InTurn  BY <2>1 DEF TendedBy
  <2> QED  BY <1>7, <2>2
<1> QED  BY <1>2, <1>3, <1>4, <1>5, <1>6, <1>7 DEF TendedBy

\* Each task is one there was, for the same attempt.
SameTasks ==
  /\ \A t \in tasks' : t.step \in Steps /\ \E u \in tasks : u.step = t.step /\ u.attempt = t.attempt
  /\ \A t, u \in tasks' : t.step = u.step => t = u

LEMMA MovesTasks ==
  ASSUME TypeOK, Exclusive, NEW t \in tasks, NEW pc, Move(t, pc)
  PROVE  SameTasks
<1> DEFINE m == [t EXCEPT !.pc = pc]
<1>1. t \in Task /\ tasks \subseteq Task /\ \A u \in tasks : u.step \in Steps  BY DEF TypeOK, Task
<1>2. m.step = t.step /\ m.attempt = t.attempt  BY <1>1 DEF Task
<1>3. tasks' = (tasks \ {t}) \cup {m}  BY DEF Move
<1> HIDE DEF m
<1>4. \A u \in tasks' : u = m \/ (u \in tasks /\ u # t)  BY <1>3
<1>5. \A u \in tasks' : u.step \in Steps /\ \E v \in tasks : v.step = u.step /\ v.attempt = u.attempt
  BY <1>1, <1>2, <1>4
<1>6. \A u, v \in tasks' : u.step = v.step => u = v  BY <1>2, <1>4 DEF Exclusive
<1> QED  BY <1>5, <1>6 DEF SameTasks

\* Nothing is added to what is under way, and no step changes its status.
LEMMA QuietTended ==
  ASSUME Exclusive, Tended, SameTasks, followOns \subseteq Steps, turn.followOns \subseteq Steps,
         phase' = phase, turn'.cmds = turn.cmds, turn'.followOns = turn.followOns,
         \A s \in Steps : rows'[s].status = rows[s].status /\ rows'[s].attempt = rows[s].attempt,
         UNCHANGED <<followOns, plan, clients>>
  PROVE  Exclusive' /\ Tended'
<1>1. Exclusive'
  <2>1. \A t \in tasks' : \E u \in tasks : u.step = t.step  BY DEF SameTasks
  <2>2. \A t \in tasks' : t.step \notin followOns \cup turn.followOns  BY <2>1 DEF Exclusive
  <2>3. \A t \in tasks' : \A p \in plan : t.step # p.step  BY <2>1 DEF Exclusive
  <2>4. \A t, u \in tasks' : t.step = u.step => t = u  BY DEF SameTasks
  <2> QED  BY <2>2, <2>3, <2>4 DEF Exclusive
<1>2. ASSUME Live' PROVE TendedBy(rows', turn', tasks', followOns', plan', clients')
  <2>1. Live  BY <1>2 DEF Live
  <2>2. TendedBy(rows, turn, tasks, followOns, plan, clients)  BY <2>1 DEF Tended
  <2>3. Spares(rows, turn, rows', turn')  BY DEF Spares
  <2>4. \A t \in tasks' : t.step \in Steps /\ (\/ OnIt(rows', turn'.cmds, t.step) /\ t.attempt = rows'[t.step].attempt
                                               \/ \E u \in tasks : u.step = t.step /\ u.attempt = t.attempt)
    BY DEF SameTasks
  <2>5. \A s \in turn.followOns : s \in turn.cmds.children \/ s \notin turn.cmds.children  OBVIOUS
  <2> QED  BY <2>2, <2>3, <2>4, <2>5, KeepsTended
<1> QED  BY <1>1, <1>2 DEF Tended

\* A turn that is given up leaves the steps it has not started alone.
LEMMA FailureTended ==
  ASSUME IInv, Exclusive, Tended, NEW a \in turn.cmds.activate, ActivationFails(a)
  PROVE  Exclusive' /\ Tended'
<1>1. /\ UNCHANGED <<rows, phase, tasks, followOns, plan>> /\ turn' = Idle /\ clients' = Return /\ turn.held
  BY DEF ActivationFails, store
<1>2. turn'.followOns = {} /\ \A x : ~Covers(turn'.cmds, x)  BY <1>1 DEF Idle, NoCommands, Covers
<1>3. Exclusive'  BY <1>1, <1>2 DEF Exclusive
<1>4. ASSUME Live' PROVE TendedBy(rows', turn', tasks', followOns', plan', clients')
  <2>1. phase = "running" /\ turn.cmds.terminal = "none"
    BY <1>1 DEF IInv, Coherent, TurnFits, Fits
  <2>2. TendedBy(rows, turn, tasks, followOns, plan, clients)  BY <2>1 DEF Tended, Live
  <2>3. Spares(rows, turn, rows', turn')  BY <1>1, <1>2 DEF Spares
  <2>4. \A t \in tasks' : t.step \in Steps /\ \E u \in tasks : u.step = t.step /\ u.attempt = t.attempt
    BY <1>1 DEF IInv, TypeOK, Task
  <2>5. followOns' \subseteq Steps  BY <1>1 DEF IInv, TypeOK
  <2>6. InTurn.step \notin Steps /\ NoCall.step \notin Steps  BY DEF InTurn, NoCall
  <2>7. \A c \in Clients : clients'[c].step \in Steps => clients'[c] = clients[c]  BY <1>1, <2>6 DEF Return
  <2> QED  BY <1>1, <1>2, <2>2, <2>3, <2>4, <2>5, <2>7, KeepsTended
<1> QED  BY <1>3, <1>4 DEF Tended

\* A transaction starts steps nobody looks after yet.
LEMMA ActivateTended ==
  ASSUME IInv, KnownInv, Placed, Exclusive, Tended,
         NEW a \in turn.cmds.activate, NEW kids \in SUBSET turn.cmds.children, ActivateStep(a, kids)
  PROVE  Exclusive' /\ Tended'
<1> DEFINE new == [step |-> a.step, attempt |-> a.attempt, reattached |-> FALSE, pc |-> "starting"]
           K == {a.step} \cup kids
<1>0. /\ turn \in Turn /\ turn.cmds \in Commands /\ a.step \in Steps /\ turn.held
      /\ tasks \subseteq Task /\ followOns \subseteq Steps /\ turn.followOns \subseteq Steps
  BY DEF IInv, TypeOK, Turn, Commands, Activation, ActivateStep
<1>1. /\ tasks' = tasks \cup {new} /\ UNCHANGED <<phase, followOns, plan, clients>>
  BY DEF ActivateStep
<1>2. /\ Leaves(K) /\ rows'[a.step].attempt = a.attempt /\ turn.cmds.terminal = "none"
      /\ turn'.followOns = turn.followOns /\ turn'.cmds.children = turn.cmds.children \ kids
  BY ActivateInOrder
<1>3. phase = "running" /\ Fits(rows, turn.cmds)  BY <1>0 DEF IInv, Coherent, TurnFits
<1>4. a.step \notin Subflows  BY <1>3 DEF Fits
<1>5. TendedBy(rows, turn, tasks, followOns, plan, clients)  BY <1>2, <1>3 DEF Tended, Live
<1>6. Covers(turn.cmds, a.step)  BY DEF Covers
<1>7. new.step = a.step /\ new.attempt = a.attempt  OBVIOUS
<1> HIDE DEF new, K
<1>8. Exclusive'
  <2>1. \A t \in tasks : t.step # a.step  BY <1>5, <1>6 DEF TendedBy, OnIt
  <2>2. a.step \notin followOns  BY <1>5, <1>6 DEF TendedBy, OnIt
  <2>3. \A p \in plan : p.step # a.step  BY <1>0, <1>5, <1>6 DEF TendedBy, OnIt
  <2>4. a.step \notin turn.followOns  BY <1>4 DEF Exclusive
  <2>5. \A t, u \in tasks' : t.step = u.step => t = u  BY <1>1, <1>7, <2>1 DEF Exclusive
  <2>6. \A t \in tasks' : t.step \notin followOns \cup turn.followOns
    BY <1>1, <1>7, <2>2, <2>4 DEF Exclusive
  <2>7. \A t \in tasks' : \A p \in plan : t.step # p.step  BY <1>1, <1>7, <2>3 DEF Exclusive
  <2> QED  BY <1>1, <1>2, <2>5, <2>6, <2>7 DEF Exclusive
<1>9. Spares(rows, turn, rows', turn')  BY <1>2 DEF Spares, Leaves
<1>10. ASSUME NEW t \in tasks'
       PROVE  t.step \in Steps /\ (\/ OnIt(rows', turn'.cmds, t.step) /\ t.attempt = rows'[t.step].attempt
                                   \/ \E u \in tasks : u.step = t.step /\ u.attempt = t.attempt)
  <2>1. CASE t \in tasks  BY <1>0, <2>1 DEF Task
  <2>2. CASE t = new
    <3>1. a.step \in K  BY DEF K
    <3>2. OnIt(rows', turn'.cmds, a.step)  BY <1>0, <1>2, <3>1 DEF Leaves, OnIt
    <3> QED  BY <1>0, <1>2, <1>7, <2>2, <3>2
  <2> QED  BY <1>1, <2>1, <2>2
<1>11. ASSUME NEW s \in turn'.followOns
       PROVE  s \in Steps /\ (\/ s \in turn'.cmds.children \/ OnIt(rows', turn'.cmds, s)
                              \/ s \in turn.followOns /\ s \notin turn.cmds.children)
  <2>1. s \in Steps /\ s \in turn.followOns  BY <1>0, <1>2
  <2>2. CASE s \in kids
    <3>1. s \in K  BY <2>2 DEF K
    <3> QED  BY <1>2, <2>1, <3>1 DEF Leaves, OnIt
  <2> QED  BY <1>2, <2>1, <2>2
<1>12. \A w \in Steps : rows'[w].status = "waiting_approval" /\ Covers(turn'.cmds, w)
         => rows[w].status = "waiting_approval" /\ Covers(turn.cmds, w)
  BY <1>2 DEF Leaves
<1>13. TendedBy(rows', turn', tasks', followOns', plan', clients')
  BY <1>0, <1>1, <1>5, <1>9, <1>10, <1>11, <1>12, KeepsTended
<1> QED  BY <1>8, <1>13 DEF Tended

\* At the end of a turn its callers return, and the subflows it has started are
\* followed up.
LEMMA FinishTended ==
  ASSUME IInv, KnownInv, Placed, Exclusive, Tended, FinishTurn
  PROVE  Exclusive' /\ Tended'
<1> DEFINE c == turn.cmds
<1>0. /\ turn \in Turn /\ c \in Commands /\ turn.held /\ Fits(rows, c) /\ Plain(c) /\ phase = "running"
      /\ tasks \subseteq Task /\ followOns \subseteq Steps /\ turn.followOns \subseteq Steps
  BY DEF IInv, TypeOK, Turn, FinishTurn, Coherent, TurnFits
<1>1. /\ turn' = Idle /\ clients' = Return /\ followOns' = followOns \cup turn.followOns
      /\ UNCHANGED <<tasks, plan>> /\ (c.terminal # "none" => phase' = c.terminal)
  BY <1>0 DEF FinishTurn, Plain
<1>2. turn'.followOns = {} /\ \A x : ~Covers(turn'.cmds, x)  BY <1>1 DEF Idle, NoCommands, Covers
<1>3. Exclusive'  BY <1>1, <1>2 DEF Exclusive
<1>4. ASSUME Live' PROVE TendedBy(rows', turn', tasks', followOns', plan', clients')
  <2>1. c.terminal = "none"
    <3>1. c.terminal \in TerminalPhases \cup {"none"} /\ "running" \notin TerminalPhases
      BY <1>0 DEF Commands, TerminalPhases
    <3> QED  BY <1>1, <1>4, <3>1 DEF Live
  <2>2. TendedBy(rows, turn, tasks, followOns, plan, clients)  BY <1>0, <2>1 DEF Tended, Live
  <2>3. Leaves(c.children)  BY FinishInOrder
  <2>4. Spares(rows, turn, rows', turn')  BY <1>2, <2>3 DEF Spares, Leaves
  <2>5. \A t \in tasks' : t.step \in Steps /\ \E u \in tasks : u.step = t.step /\ u.attempt = t.attempt
    BY <1>0, <1>1 DEF Task
  <2>6. ASSUME NEW s \in followOns'
        PROVE  s \in Steps /\ (\/ OnIt(rows', turn'.cmds, s) \/ s \in followOns
                               \/ (s \in turn.followOns /\ s \notin turn.cmds.children))
    <3>1. s \in c.children => OnIt(rows', turn'.cmds, s)  BY <1>2, <2>3 DEF Leaves, OnIt
    <3> QED  BY <1>0, <1>1, <3>1
  <2>7. InTurn.step \notin Steps /\ NoCall.step \notin Steps  BY DEF InTurn, NoCall
  <2>8. \A d \in Clients : clients'[d].step \in Steps => clients'[d] = clients[d]  BY <1>1, <2>7 DEF Return
  <2> QED  BY <1>1, <1>2, <2>2, <2>4, <2>5, <2>6, <2>8, KeepsTended
<1> QED  BY <1>3, <1>4 DEF Tended

\* Between two turns of a running run everything under way is about an active step.
LEMMA BetweenTurns ==
  ASSUME Booted, Tended, phase = "running", ~turn.held
  PROVE  /\ \A t \in tasks : rows[t.step].status = "running"
         /\ \A s \in followOns : rows[s].status = "running"
         /\ \A p \in plan : p.step \in Steps => rows[p.step].status = "running"
         /\ \A d \in Clients : clients[d].step \in Steps => rows[clients[d].step].status = "waiting_approval"
<1>1. turn.cmds.terminal = "none"
  <2>1. turn = Idle  BY DEF Booted
  <2> QED  BY <2>1 DEF Idle, NoCommands
<1>2. TendedBy(rows, turn, tasks, followOns, plan, clients)  BY <1>1 DEF Tended, Live
<1> QED  BY <1>2 DEF TendedBy, OnIt

\* The commands c of an event of the step s can be carried out.
Fitting(s, c) ==
  /\ c \in Commands /\ Plain(c)
  /\ phase = "running" => Fits(rows, c) /\ InOrder(rows, c) /\ About(rows, s, c)

\* The event of the step s is taken: while the run goes on, nothing else under way
\* is about s, unless it is a human's answer that all callers wait for.
Takes(s) ==
  /\ tasks' \subseteq tasks /\ followOns' \subseteq followOns /\ plan' \subseteq plan
  /\ \A d \in Clients : clients'[d].step \in Steps => clients'[d] = clients[d]
  /\ phase = "running" /\ ~turn.held /\ s \in Steps =>
       /\ \A t \in tasks' : t.step # s
       /\ s \notin followOns'
       /\ \A p \in plan' : p.step # s
       /\ \A d \in Clients : clients'[d].step # s
       /\ rows[s].status = "waiting_approval" /\ turn'.held => \A d \in Clients : clients'[d] = InTurn

Submits(s, c) == Submit(c, hooks) /\ UNCHANGED store /\ Fitting(s, c) /\ Takes(s)

LEMMA EventsFit ==
  ASSUME Hookless, Unhandled, Orderly, rows \in [Steps -> Row], KnownInv, Placed, NEW s \in Steps,
         phase = "running" => rows[s].status \in Active
  PROVE  /\ Fitting(s, OnStepCompleted(rows, s)) /\ Fitting(s, OnStepFailed(rows, s))
         /\ Fitting(s, OnStepApproved(rows, s)) /\ (s \in HumanLoop => Fitting(s, OnStepRejected(rows, s)))
<1>1. Through(rows) /\ Bald(rows)  BY DEF Placed, KnownInv, Untouched, Bald
<1>2. phase = "running" =>
        /\ InOrder(rows, OnStepCompleted(rows, s)) /\ About(rows, s, OnStepCompleted(rows, s))
        /\ InOrder(rows, OnStepFailed(rows, s)) /\ About(rows, s, OnStepFailed(rows, s))
        /\ InOrder(rows, OnStepApproved(rows, s)) /\ About(rows, s, OnStepApproved(rows, s))
        /\ s \in HumanLoop => InOrder(rows, OnStepRejected(rows, s)) /\ About(rows, s, OnStepRejected(rows, s))
  BY <1>1, DecisionsInOrder
<1>3. /\ OnStepCompleted(rows, s) \in Commands /\ OnStepFailed(rows, s) \in Commands
      /\ OnStepApproved(rows, s) \in Commands /\ OnStepRejected(rows, s) \in Commands
  BY StepCompletedTyped, StepFailedTyped, StepApprovedTyped, StepRejectedTyped
<1>4. /\ Fits(rows, OnStepCompleted(rows, s)) /\ Fits(rows, OnStepFailed(rows, s))
      /\ Fits(rows, OnStepApproved(rows, s)) /\ Fits(rows, OnStepRejected(rows, s))
  BY StepCompletedFits, StepFailedFits, StepApprovedFits, StepRejectedFits
<1>5. /\ Plain(OnStepCompleted(rows, s)) /\ Plain(OnStepFailed(rows, s))
      /\ Plain(OnStepApproved(rows, s)) /\ Plain(OnStepRejected(rows, s))
  BY DecisionsPlain
<1> QED  BY <1>2, <1>3, <1>4, <1>5 DEF Fitting

\* So do the start of a run and its end, which are about no step.
LEMMA StartAndStopFit ==
  ASSUME Hookless, IInv
  PROVE  /\ (\A s \in Steps : rows[s] = NoRow) => Fitting(NoStep, OnRunStarted(rows))
         /\ Fitting(NoStep, Stop(rows, "failed")) /\ Fitting(NoStep, Stop(rows, "cancelled"))
<1>0. rows \in [Steps -> Row]  BY DEF IInv, TypeOK
<1>1. ASSUME \A s \in Steps : rows[s] = NoRow PROVE Fitting(NoStep, OnRunStarted(rows))
  <2>1. InOrder(rows, OnRunStarted(rows)) /\ About(rows, NoStep, OnRunStarted(rows))
    BY <1>0, <1>1, StartInOrder
  <2>2. Started(rows) => ActiveSteps(rows) # {}  BY <1>1 DEF Started, NoRow
  <2>3. Fits(rows, OnRunStarted(rows)) /\ Plain(OnRunStarted(rows))  BY <1>0, <2>2, RunStartedFits
  <2>4. OnRunStarted(rows) \in Commands  BY <1>0, RunStartedTyped
  <2> QED  BY <2>1, <2>3, <2>4 DEF Fitting
<1>2. ASSUME NEW ph \in {"failed", "cancelled"} PROVE Fitting(NoStep, Stop(rows, ph))
  <2>1. ph \in TerminalPhases  BY DEF TerminalPhases
  <2>2. Stop(rows, ph) \in Commands  BY <1>0, <2>1, StopTyped
  <2>3. Fits(rows, Stop(rows, ph)) /\ Plain(Stop(rows, ph))  BY <1>0, <2>1, StopFits
  <2>4. InOrder(rows, Stop(rows, ph)) /\ About(rows, NoStep, Stop(rows, ph))  BY StopInOrder
  <2> QED  BY <2>2, <2>3, <2>4 DEF Fitting
<1> QED  BY <1>1, <1>2

\* One caller answers the humans' questions at a time.
OneClient == \A c, d \in Clients : c = d

\* Every event that is submitted is taken, and its commands can be carried out.
LEMMA EventsSubmit ==
  ASSUME Hookless, Unhandled, Orderly, OneClient, IInv, KnownInv, HumanWaits, Placed, Booted, Unstarted, Exclusive, Tended,
         \/ RunStarted \/ CancelRequested \/ DeadlineExceeded
         \/ \E t \in tasks : TaskSubmits(t)
         \/ \E s \in Steps : FollowOnSubmits(s)
         \/ \E d \in Clients : SubmitApproval(d)
         \/ \E p \in plan : RecoverBySubmit(p)
  PROVE  \E s, c : Submits(s, c)
<1>0. /\ TypeOK /\ rows \in [Steps -> Row] /\ NoStep \notin Steps /\ \A t \in tasks : t.step \in Steps
      /\ \A p \in plan : p = Restart \/ p.step \in Steps
      /\ \A p \in plan : p.kind = "fail" => p.step \in Steps
      /\ \A p \in plan : p.kind = "restart" => p = Restart
      /\ \A d \in Clients : clients[d] \notin {NoCall, InTurn}
           => clients[d].step \in Steps /\ clients[d].type \in {"step_approved", "step_rejected"}
      /\ "running" \in Active /\ "waiting_approval" \in Active
  <2>1. TypeOK  BY DEF IInv
  <2>2. rows \in [Steps -> Row] /\ \A t \in tasks : t.step \in Steps  BY <2>1 DEF TypeOK, Task
  <2>3. /\ \A p \in plan : p = Restart \/ p.step \in Steps
        /\ \A p \in plan : p.kind = "fail" => p.step \in Steps
        /\ \A p \in plan : p.kind = "restart" => p = Restart
    BY <2>1 DEF TypeOK, Plan, Restart
  <2>4. \A d \in Clients : clients[d] \notin {NoCall, InTurn}
           => clients[d].step \in Steps /\ clients[d].type \in {"step_approved", "step_rejected"}
    BY <2>1 DEF TypeOK, Call
  <2> QED  BY <2>1, <2>2, <2>3, <2>4 DEF Active
<1>w. phase = "running" /\ ~turn.held =>
        /\ \A t \in tasks : rows[t.step].status = "running"
        /\ \A s \in followOns : rows[s].status = "running"
        /\ \A p \in plan : p.step \in Steps => rows[p.step].status = "running"
        /\ \A d \in Clients : clients[d].step \in Steps => rows[clients[d].step].status = "waiting_approval"
  BY BetweenTurns
<1>f. \A s \in Steps : (phase = "running" => rows[s].status \in Active) =>
        /\ Fitting(s, OnStepCompleted(rows, s)) /\ Fitting(s, OnStepFailed(rows, s))
        /\ Fitting(s, OnStepApproved(rows, s)) /\ (s \in HumanLoop => Fitting(s, OnStepRejected(rows, s)))
  BY <1>0, EventsFit
<1>h. \A c, hs : Submit(c, hs) => ~turn.held  BY DEF Submit, Free
<1>1. ASSUME RunStarted PROVE \E s, c : Submits(s, c)
  <2>1. Fitting(NoStep, OnRunStarted(rows))  BY <1>1, StartAndStopFit DEF RunStarted, Unstarted
  <2>2. Takes(NoStep)  BY <1>0, <1>1 DEF RunStarted, Takes
  <2>3. Submits(NoStep, OnRunStarted(rows))  BY <1>1, <2>1, <2>2 DEF RunStarted, Submits
  <2> QED  BY <2>3
<1>2. ASSUME CancelRequested \/ DeadlineExceeded PROVE \E s, c : Submits(s, c)
  <2>1. Takes(NoStep)  BY <1>0, <1>2 DEF CancelRequested, DeadlineExceeded, Takes
  <2>2. CASE CancelRequested
    <3>1. Submits(NoStep, Stop(rows, "cancelled"))  BY <2>1, <2>2, StartAndStopFit DEF CancelRequested, Submits
    <3> QED  BY <3>1
  <2>3. CASE DeadlineExceeded
    <3>1. Submits(NoStep, Stop(rows, "failed"))  BY <2>1, <2>3, StartAndStopFit DEF DeadlineExceeded, Submits
    <3> QED  BY <3>1
  <2> QED  BY <1>2, <2>2, <2>3
<1>3. ASSUME NEW t \in tasks, TaskSubmits(t) PROVE \E s, c : Submits(s, c)
  <2> DEFINE c == IF t.pc = "completed" THEN OnStepCompleted(rows, t.step) ELSE OnStepFailed(rows, t.step)
  <2>1. /\ Submit(c, hooks) /\ tasks' = tasks \ {t} /\ UNCHANGED store
        /\ UNCHANGED <<clients, followOns, plan>>
    BY <1>3 DEF TaskSubmits
  <2>2. Fitting(t.step, c)  BY <1>0, <1>w, <1>f, <1>h, <2>1
  <2> HIDE DEF c
  <2>3. Takes(t.step)
    <3>1. ASSUME phase = "running", ~turn.held
          PROVE  rows[t.step].status = "running" /\ \A d \in Clients : clients[d].step # t.step
      BY <1>0, <1>w, <3>1
    <3>2. \A u \in tasks' : u.step # t.step  BY <2>1 DEF Exclusive
    <3>3. t.step \notin followOns' /\ \A p \in plan' : p.step # t.step  BY <2>1 DEF Exclusive
    <3> QED  BY <2>1, <3>1, <3>2, <3>3 DEF Takes
  <2>4. Submits(t.step, c)  BY <2>1, <2>2, <2>3 DEF Submits
  <2> QED  BY <2>4
<1>4. ASSUME NEW s \in Steps, FollowOnSubmits(s) PROVE \E u, c : Submits(u, c)
  <2>1. /\ Submit(OnStepFailed(rows, s), hooks) /\ s \in followOns /\ followOns' = followOns \ {s} /\ UNCHANGED store
        /\ UNCHANGED <<clients, tasks, plan>>
    BY <1>4 DEF FollowOnSubmits
  <2>2. Fitting(s, OnStepFailed(rows, s))  BY <1>0, <1>w, <1>f, <1>h, <2>1
  <2>3. Takes(s)
    <3>1. ASSUME phase = "running", ~turn.held
          PROVE  rows[s].status = "running" /\ \A d \in Clients : clients[d].step # s
      BY <1>0, <1>w, <2>1, <3>1
    <3>2. (\A u \in tasks' : u.step # s) /\ \A p \in plan' : p.step # s  BY <2>1 DEF Exclusive
    <3> QED  BY <2>1, <3>1, <3>2 DEF Takes
  <2>4. Submits(s, OnStepFailed(rows, s))  BY <2>1, <2>2, <2>3 DEF Submits
  <2> QED  BY <2>4
<1>5. ASSUME NEW d \in Clients, SubmitApproval(d) PROVE \E s, c : Submits(s, c)
  <2> DEFINE s == clients[d].step
             c == IF clients[d].type = "step_approved" THEN OnStepApproved(rows, s) ELSE OnStepRejected(rows, s)
  <2>1. /\ Submit(c, hooks) /\ s \in Steps /\ UNCHANGED store /\ UNCHANGED <<tasks, followOns, plan>>
        /\ clients' = [clients EXCEPT ![d] = IF turn'.held THEN InTurn ELSE NoCall]
        /\ clients \in [Clients -> Call]
    BY <1>0, <1>5 DEF SubmitApproval, TypeOK
  <2>2. s \in HumanLoop  BY <2>1 DEF HumanWaits
  <2>3. Fitting(s, c)  BY <1>0, <1>w, <1>f, <1>h, <2>1, <2>2
  <2> HIDE DEF s, c
  <2>4. Takes(s)
    <3>1. clients'[d] = IF turn'.held THEN InTurn ELSE NoCall  BY <2>1
    <3>2. \A e \in Clients : clients'[e] = IF turn'.held THEN InTurn ELSE NoCall  BY <3>1 DEF OneClient
    <3>3. InTurn.step = NoStep /\ NoCall.step = NoStep  BY DEF InTurn, NoCall
    <3>4. \A e \in Clients : clients'[e].step = NoStep  BY <3>2, <3>3
    <3>5. ASSUME phase = "running", ~turn.held
          PROVE  /\ \A t \in tasks : t.step # s
                 /\ s \notin followOns
                 /\ \A p \in plan : p.step # s
      <4>1. rows[s].status = "waiting_approval"  BY <1>w, <2>1, <3>5 DEF s
      <4> QED  BY <1>w, <2>1, <3>5, <4>1
    <3> QED  BY <1>0, <2>1, <3>2, <3>4, <3>5 DEF Takes
  <2>5. Submits(s, c)  BY <2>1, <2>3, <2>4 DEF Submits
  <2> QED  BY <2>5
<1>6. ASSUME NEW p \in plan, RecoverBySubmit(p) PROVE \E s, c : Submits(s, c)
  <2>1. /\ UNCHANGED store /\ plan' = plan \ {p} /\ p.kind \in {"fail", "restart"}
        /\ UNCHANGED <<clients, tasks, followOns>>
    BY <1>6 DEF RecoverBySubmit
  <2>2. CASE p.kind = "restart"
    <3>1. p = Restart /\ p.kind # "fail"  BY <1>0, <2>2
    <3>2. Submit(OnRunStarted(rows), hooks)  BY <1>6, <3>1 DEF RecoverBySubmit
    <3>3. Fitting(NoStep, OnRunStarted(rows))  BY <3>1, StartAndStopFit DEF Unstarted
    <3>4. Takes(NoStep)  BY <1>0, <2>1 DEF Takes
    <3>5. Submits(NoStep, OnRunStarted(rows))  BY <2>1, <3>2, <3>3, <3>4 DEF Submits
    <3> QED  BY <3>5
  <2>3. CASE p.kind = "fail"
    <3> DEFINE s == p.step
    <3>1. s \in Steps /\ Submit(OnStepFailed(rows, s), hooks)  BY <1>0, <1>6, <2>3 DEF RecoverBySubmit
    <3>2. Fitting(s, OnStepFailed(rows, s))  BY <1>0, <1>w, <1>f, <1>h, <3>1
    <3>3. Takes(s)
      <4>1. ASSUME phase = "running", ~turn.held
            PROVE  rows[s].status = "running" /\ \A d \in Clients : clients[d].step # s
        BY <1>0, <1>w, <3>1, <4>1
      <4>2. (\A u \in tasks : u.step # s) /\ s \notin followOns /\ \A q \in plan' : q.step # s
        BY <2>1 DEF Exclusive
      <4> QED  BY <2>1, <4>1, <4>2 DEF Takes
    <3>4. Submits(s, OnStepFailed(rows, s))  BY <2>1, <3>1, <3>2, <3>3 DEF Submits
    <3> QED  BY <3>4
  <2> QED  BY <2>1, <2>2, <2>3
<1> QED  BY <1>1, <1>2, <1>3, <1>4, <1>5, <1>6

\* What is still under way once an event has been taken is not what it decides.
LEMMA SubmitTended ==
  ASSUME IInv, Booted, Exclusive, Tended, NEW s, NEW c, Submits(s, c)
  PROVE  Exclusive' /\ Tended'
<1>0. /\ c.gate = "none" /\ Submit(c, hooks) /\ Takes(s) /\ UNCHANGED <<rows, phase>>
      /\ tasks' \subseteq tasks /\ followOns' \subseteq followOns /\ plan' \subseteq plan
      /\ \A d \in Clients : clients'[d].step \in Steps => clients'[d] = clients[d]
      /\ tasks \subseteq Task /\ followOns \subseteq Steps
  BY DEF Submits, Fitting, Plain, Takes, store, IInv, TypeOK
<1>1. ~turn.held /\ turn = Idle  BY <1>0, SubmitBooted DEF Booted
<1>2. turn.followOns = {} /\ turn.cmds.terminal = "none" /\ \A x : ~Covers(turn.cmds, x)
  BY <1>1 DEF Idle, NoCommands, Covers
<1>3. CASE turn' = turn
  <2>1. Exclusive'  BY <1>0, <1>2, <1>3 DEF Exclusive
  <2>2. ASSUME Live' PROVE TendedBy(rows', turn', tasks', followOns', plan', clients')
    <3>1. TendedBy(rows, turn, tasks, followOns, plan, clients)  BY <1>0, <1>3, <2>2 DEF Tended, Live
    <3>2. Spares(rows, turn, rows', turn')  BY <1>0, <1>3 DEF Spares
    <3>3. \A t \in tasks' : t.step \in Steps /\ \E u \in tasks : u.step = t.step /\ u.attempt = t.attempt
      BY <1>0 DEF Task
    <3> QED  BY <1>0, <1>2, <1>3, <3>1, <3>2, <3>3, KeepsTended
  <2> QED  BY <2>1, <2>2 DEF Tended
<1>4. CASE turn' = Held(c) /\ turn'.held /\ phase = "running"
  <2>1. turn'.cmds = c /\ turn'.followOns = c.children  BY <1>4 DEF Held
  <2>2. Fits(rows, c) /\ About(rows, s, c) /\ c \in Commands  BY <1>4 DEF Submits, Fitting
  <2>3. CASE c.terminal # "none"
    <3>1. c.children = {}  BY <2>2, <2>3 DEF Fits
    <3>2. Exclusive'  BY <1>0, <2>1, <3>1 DEF Exclusive
    <3>3. ~Live'  BY <2>1, <2>3 DEF Live
    <3> QED  BY <3>2, <3>3 DEF Tended
  <2>4. CASE c.terminal = "none"
    <3>1. TendedBy(rows, turn, tasks, followOns, plan, clients)  BY <1>2, <1>4 DEF Tended, Live
    <3>2. ASSUME NEW x \in Steps, x # s, rows[x].status # "none" PROVE ~Covers(c, x)
      BY <2>2, <2>4, <3>2 DEF About
    <3>3. c.children \subseteq Subflows /\ \A x \in c.children : Covers(c, x)  BY <2>2 DEF Fits, Covers
    <3>4. /\ \A t \in tasks' : s \in Steps => t.step # s
          /\ s \in Steps => s \notin followOns'
          /\ \A p \in plan' : s \in Steps => p.step # s
          /\ \A d \in Clients : s \in Steps => clients'[d].step # s
          /\ s \in Steps /\ rows[s].status = "waiting_approval" => \A d \in Clients : clients'[d] = InTurn
      BY <1>0, <1>1, <1>4 DEF Takes
    <3>5. ASSUME NEW t \in tasks' PROVE t.step \in Steps /\ OnIt(rows, c, t.step) /\ t.attempt = rows[t.step].attempt
      <4>1. t \in tasks /\ t.step \in Steps  BY <1>0 DEF Task
      <4>2. rows[t.step].status = "running" /\ t.attempt = rows[t.step].attempt  BY <3>1, <4>1 DEF TendedBy, OnIt
      <4> QED  BY <3>2, <3>4, <4>1, <4>2 DEF OnIt
    <3>6. ASSUME NEW x \in followOns' PROVE x \in Steps /\ OnIt(rows, c, x)
      <4>1. x \in followOns /\ x \in Steps  BY <1>0
      <4>2. rows[x].status = "running"  BY <3>1, <4>1 DEF TendedBy, OnIt
      <4> QED  BY <3>2, <3>4, <4>1, <4>2 DEF OnIt
    <3>7. ASSUME NEW p \in plan', p.step \in Steps PROVE OnIt(rows, c, p.step) /\ p.attempt = rows[p.step].attempt
      <4>1. p \in plan  BY <1>0
      <4>2. rows[p.step].status = "running" /\ p.attempt = rows[p.step].attempt
        BY <3>1, <3>7, <4>1 DEF TendedBy, OnIt
      <4> QED  BY <3>2, <3>4, <3>7, <4>2 DEF OnIt
    <3>8. ASSUME NEW d \in Clients, clients'[d].step \in Steps
          PROVE  rows[clients'[d].step].status = "waiting_approval" /\ ~Covers(c, clients'[d].step)
      <4>1. clients'[d] = clients[d]  BY <1>0, <3>8
      <4>2. rows[clients'[d].step].status = "waiting_approval"  BY <3>1, <3>8, <4>1 DEF TendedBy
      <4>3. clients'[d].step # s  BY <3>4, <3>8
      <4> QED  BY <3>2, <3>8, <4>2, <4>3
    <3>9. ASSUME NEW w \in Steps, rows[w].status = "waiting_approval", Covers(c, w), NEW d \in Clients
          PROVE  clients'[d] = InTurn
      <4>1. w = s  BY <3>2, <3>9
      <4> QED  BY <3>4, <3>9, <4>1
    <3>10. TendedBy(rows', turn', tasks', followOns', plan', clients')
      BY <1>0, <2>1, <3>5, <3>6, <3>7, <3>8, <3>9 DEF TendedBy
    <3>11. Exclusive'
      <4>1. \A t \in tasks' : t.step \notin c.children  BY <3>3, <3>5 DEF OnIt
      <4>2. \A x \in followOns' : x \notin c.children  BY <3>3, <3>6 DEF OnIt
      <4>3. \A p \in plan' : p.step \notin c.children
        <5>1. c.children \subseteq Steps  BY <2>2 DEF Commands
        <5> QED  BY <3>3, <3>7, <5>1 DEF OnIt
      <4> QED  BY <1>0, <2>1, <3>3, <4>1, <4>2, <4>3 DEF Exclusive
    <3> QED  BY <3>10, <3>11 DEF Tended
  <2> QED  BY <2>3, <2>4
<1> QED  BY <1>0, <1>3, <1>4, SubmitBooted

\* A runtime that is down, or has just been started, looks after nothing but the
\* plan made from the rows.
LEMMA BootTended ==
  ASSUME Booted, Boot
  PROVE  Exclusive' /\ Tended'
<1>0. /\ tasks' = {} /\ followOns' = {} /\ turn' = Idle /\ UNCHANGED <<rows, phase>>
      /\ plan' = RecoveryPlan /\ \A c \in Clients : clients'[c] = NoCall
  BY DEF Boot, Booted, store
<1>1. turn'.followOns = {} /\ \A x : ~Covers(turn'.cmds, x)  BY <1>0 DEF Idle, NoCommands, Covers
<1>2. NoCall.step \notin Steps /\ Restart.step \notin Steps  BY DEF NoCall, Restart
<1>3. ASSUME NEW p \in plan'
      PROVE  \/ p = Restart /\ plan' = {Restart}
             \/ /\ p.step \in Steps /\ rows[p.step].status = "running" /\ p.attempt = rows[p.step].attempt
                /\ p.kind = (IF rows[p.step].job THEN "reattach" ELSE "fail")
                /\ p = [kind |-> p.kind, step |-> p.step, attempt |-> p.attempt]
  <2>1. CASE plan' = {Restart}  BY <2>1
  <2>2. CASE plan' # {Restart}
    <3>1. \/ \E s \in {t \in Steps : rows[t].status = "running"} :
               rows[s].job /\ p = [kind |-> "reattach", step |-> s, attempt |-> rows[s].attempt]
          \/ \E s \in {t \in Steps : rows[t].status = "running"} :
               ~rows[s].job /\ p = [kind |-> "fail", step |-> s, attempt |-> rows[s].attempt]
      BY <1>0, <2>2 DEF RecoveryPlan
    <3> QED  BY <3>1
  <2> QED  BY <2>1, <2>2
<1>4. ASSUME NEW p \in plan', NEW q \in plan', p.step = q.step PROVE p = q
  <2>1. CASE p = Restart \/ q = Restart  BY <1>2, <1>3, <1>4, <2>1
  <2>2. CASE p # Restart /\ q # Restart
    <3>1. p.attempt = q.attempt /\ p.kind = q.kind  BY <1>3, <1>4, <2>2
    <3>2. p = [kind |-> p.kind, step |-> p.step, attempt |-> p.attempt]
          /\ q = [kind |-> q.kind, step |-> q.step, attempt |-> q.attempt]
      BY <1>3, <2>2
    <3> QED  BY <1>4, <3>1, <3>2
  <2> QED  BY <2>1, <2>2
<1>5. Exclusive'  BY <1>0, <1>1, <1>4 DEF Exclusive
<1>6. TendedBy(rows', turn', tasks', followOns', plan', clients')
  <2>1. \A p \in plan' : p.step \in Steps => OnIt(rows', turn'.cmds, p.step) /\ p.attempt = rows'[p.step].attempt
    BY <1>0, <1>1, <1>2, <1>3 DEF OnIt
  <2> QED  BY <1>0, <1>1, <1>2, <2>1 DEF TendedBy
<1> QED  BY <1>5, <1>6 DEF Tended

LEMMA CrashTended ==
  ASSUME Crash
  PROVE  Exclusive' /\ Tended'
<1>0. /\ tasks' = {} /\ followOns' = {} /\ turn' = Idle /\ plan' = {} /\ \A c \in Clients : clients'[c] = NoCall
  BY DEF Crash
<1>1. turn'.followOns = {} /\ \A x : ~Covers(turn'.cmds, x)  BY <1>0 DEF Idle, NoCommands, Covers
<1>2. NoCall.step \notin Steps  BY DEF NoCall
<1>3. Exclusive'  BY <1>0, <1>1 DEF Exclusive
<1>4. TendedBy(rows', turn', tasks', followOns', plan', clients')  BY <1>0, <1>1, <1>2 DEF TendedBy
<1> QED  BY <1>3, <1>4 DEF Tended

\* A re-attached task takes the place of its item of the plan.
LEMMA ReattachTended ==
  ASSUME IInv, Exclusive, Tended, NEW p \in plan, Reattach(p)
  PROVE  Exclusive' /\ Tended'
<1> DEFINE new == [step |-> p.step, attempt |-> p.attempt, reattached |-> TRUE, pc |-> "waiting"]
<1>0. /\ tasks' = tasks \cup {new} /\ plan' = plan \ {p} /\ UNCHANGED <<rows, phase, turn, followOns, clients>>
      /\ p.step \in Steps /\ tasks \subseteq Task /\ followOns \subseteq Steps /\ turn.followOns \subseteq Steps
  BY DEF Reattach, store, IInv, TypeOK, Turn, Plan, Restart
<1>1. new.step = p.step /\ new.attempt = p.attempt  OBVIOUS
<1> HIDE DEF new
<1>2. Exclusive'
  <2>1. \A t, u \in tasks' : t.step = u.step => t = u  BY <1>0, <1>1 DEF Exclusive
  <2>2. \A t \in tasks' : t.step \notin followOns \cup turn.followOns  BY <1>0, <1>1 DEF Exclusive
  <2>3. \A t \in tasks' : \A q \in plan' : t.step # q.step  BY <1>0, <1>1 DEF Exclusive
  <2> QED  BY <1>0, <2>1, <2>2, <2>3 DEF Exclusive
<1>3. ASSUME Live' PROVE TendedBy(rows', turn', tasks', followOns', plan', clients')
  <2>1. TendedBy(rows, turn, tasks, followOns, plan, clients)  BY <1>0, <1>3 DEF Tended, Live
  <2>2. Spares(rows, turn, rows', turn')  BY <1>0 DEF Spares
  <2>3. OnIt(rows, turn.cmds, p.step) /\ p.attempt = rows[p.step].attempt  BY <1>0, <2>1 DEF TendedBy
  <2>4. \A t \in tasks' : t.step \in Steps /\ (\/ OnIt(rows', turn'.cmds, t.step) /\ t.attempt = rows'[t.step].attempt
                                               \/ \E u \in tasks : u.step = t.step /\ u.attempt = t.attempt)
    BY <1>0, <1>1, <2>3 DEF Task
  <2>5. \A s \in turn.followOns : s \in turn.cmds.children \/ s \notin turn.cmds.children  OBVIOUS
  <2> QED  BY <1>0, <2>1, <2>2, <2>4, <2>5, KeepsTended
<1> QED  BY <1>2, <1>3 DEF Tended

\* A step that is found waiting is not what the turn decides: its callers are in
\* that turn.
LEMMA ResolveTended ==
  ASSUME IInv, Exclusive, Tended, NEW c \in Clients, NEW s \in Steps, NEW type \in {"step_approved", "step_rejected"},
         ResolveApproval(c, s, type)
  PROVE  Exclusive' /\ Tended'
<1>0. /\ UNCHANGED <<rows, phase, turn, tasks, followOns, plan>>
      /\ clients[c] = NoCall /\ rows[s].status = "waiting_approval"
      /\ clients' = [clients EXCEPT ![c] = [step |-> s, type |-> type]] /\ clients \in [Clients -> Call]
  BY DEF ResolveApproval, store, IInv, TypeOK
<1>1. Exclusive'  BY <1>0 DEF Exclusive
<1>2. ASSUME Live' PROVE TendedBy(rows', turn', tasks', followOns', plan', clients')
  <2>1. TendedBy(rows, turn, tasks, followOns, plan, clients)  BY <1>0, <1>2 DEF Tended, Live
  <2>2. clients[c] # InTurn  BY <1>0 DEF NoCall, InTurn
  <2>3. \A w \in Steps : rows[w].status = "waiting_approval" => ~Covers(turn.cmds, w)  BY <2>1, <2>2 DEF TendedBy
  <2>4. \A d \in Clients : clients'[d] = clients[d] \/ clients'[d].step = s  BY <1>0
  <2>5. \A d \in Clients : clients'[d].step \in Steps
          => rows[clients'[d].step].status = "waiting_approval" /\ ~Covers(turn.cmds, clients'[d].step)
    BY <1>0, <2>1, <2>3, <2>4 DEF TendedBy
  <2> QED  BY <1>0, <2>1, <2>3, <2>5 DEF TendedBy
<1> QED  BY <1>1, <1>2 DEF Tended

\* What is in order stays so while no step changes its status or attempt.
LEMMA SameInOrder ==
  ASSUME Through(rows), InBudget(rows), NEW c \in Commands, InOrder(rows, c), turn'.cmds = c,
         \A s \in Steps : /\ rows'[s].status = rows[s].status /\ rows'[s].attempt = rows[s].attempt
                          /\ Persist(rows', c, {})[s].status = Persist(rows, c, {})[s].status
  PROVE  Placed' /\ StepsInOrder(rows, rows')
<1>1. Through(rows')
  <2>1. \A t : Feeders(t) \subseteq Steps  BY DEF Feeders
  <2> QED  BY <2>1 DEF Through
<1>2. InBudget(rows')  BY DEF InBudget
<1>3. MarksActive(rows', c)  BY DEF InOrder, MarksActive
<1>4. StartsNext(rows', c)
  <2>1. \A a \in c.activate : a.step \in Steps  BY DEF Commands, Activation
  <2> QED  BY <2>1 DEF InOrder, StartsNext
<1>5. StartsInOrder(rows', c)
  <2>1. Pends(c) \subseteq Steps  BY PendsCovered
  <2>2. ASSUME NEW x \in Pends(c)
        PROVE  /\ rows'[x].status \notin Terminal
               /\ \A s \in Feeders(x) : Persist(rows', c, {})[s].status \in Terminal /\ s \notin Pends(c)
               /\ rows'[x].status = "none"
                    => \A n \in Needs[x] : Persist(rows', c, {})[n].status = "completed" /\ n \notin Pends(c)
    <3>1. x \in Steps /\ Feeders(x) \subseteq Steps /\ Needs[x] \subseteq Steps  BY <2>1 DEF Feeders
    <3>2. /\ rows[x].status \notin Terminal
          /\ \A s \in Feeders(x) : Persist(rows, c, {})[s].status \in Terminal /\ s \notin Pends(c)
          /\ rows[x].status = "none"
               => \A n \in Needs[x] : Persist(rows, c, {})[n].status = "completed" /\ n \notin Pends(c)
      BY DEF InOrder, StartsInOrder
    <3> QED  BY <3>1, <3>2
  <2> QED  BY <2>2 DEF StartsInOrder
<1>6. InOrder(rows', c)  BY <1>3, <1>4, <1>5 DEF InOrder
<1>7. StepsInOrder(rows, rows')
  <2>1. \A s \in Steps : rows[s].status = "none" => rows'[s].status = "none"  OBVIOUS
  <2> QED  BY <2>1 DEF StepsInOrder
<1> QED  BY <1>1, <1>2, <1>6, <1>7 DEF Placed

\* Everything the order of a run rests on.
OrderInv == IInv /\ KnownInv /\ HumanWaits /\ Placed /\ Booted /\ Unstarted /\ Exclusive /\ Tended

\* A step keeps the rows and what is under way about them in order.
Keeps == Placed' /\ StepsInOrder(rows, rows') /\ Exclusive' /\ Tended'

LEMMA NextKeeps ==
  ASSUME Hookless, Unhandled, Orderly, OneClient, OrderInv, [Next]_vars
  PROVE  Keeps
<1>0. /\ TypeOK /\ rows \in [Steps -> Row] /\ turn \in Turn /\ turn.cmds \in Commands /\ hooks = {}
      /\ followOns \subseteq Steps /\ turn.followOns \subseteq Steps
      /\ \A t \in tasks : t.step \in Steps
      /\ Through(rows) /\ InBudget(rows) /\ InOrder(rows, turn.cmds)
      /\ IInv /\ KnownInv /\ HumanWaits /\ Placed /\ Booted /\ Unstarted /\ Exclusive /\ Tended
  BY DEF OrderInv, IInv, TypeOK, Turn, Task, Placed
<1>n. NoCommands \in Commands /\ InOrder(rows, NoCommands)
  <2>1. /\ Pends(NoCommands) = {} /\ NoCommands.activate = {} /\ NoCommands.cancel = {} /\ NoCommands.status = "none"
    BY DEF NoCommands, Pends
  <2> QED  BY <2>1, NoCommandsTyped, QuietInOrder DEF MarksActive
<1>r. ASSUME rows' = rows, NEW c \in Commands, InOrder(rows, c), turn'.cmds = c
      PROVE  Placed' /\ StepsInOrder(rows, rows')
  BY <1>0, <1>r, SameInOrder
<1>q. ASSUME rows' = rows, turn'.cmds = turn.cmds \/ turn' = Idle PROVE Placed' /\ StepsInOrder(rows, rows')
  <2>1. turn'.cmds = turn.cmds \/ turn'.cmds = NoCommands  BY <1>q DEF Idle
  <2> QED  BY <1>0, <1>n, <1>r, <1>q, <2>1
<1>t. ASSUME SameTasks, UNCHANGED <<rows, phase, followOns, plan, clients>>,
             turn'.cmds = turn.cmds, turn'.followOns = turn.followOns
      PROVE  Keeps
  <2>1. Exclusive' /\ Tended'  BY <1>0, <1>t, QuietTended
  <2> QED  BY <1>q, <1>t, <2>1 DEF Keeps
<1>s. ASSUME tasks' \subseteq tasks PROVE SameTasks  BY <1>0, <1>s DEF SameTasks, Exclusive
<1>1. ASSUME NEW s \in Steps, CancelJob(s) \/ AbortTask(s) PROVE Keeps
  <2>1. turn'.cmds = turn.cmds /\ turn'.followOns = turn.followOns  BY <1>0, <1>1 DEF CancelJob, AbortTask, Turn
  <2>2. tasks' \subseteq tasks /\ UNCHANGED <<rows, phase, followOns, plan, clients>>  BY <1>1 DEF CancelJob, AbortTask, store
  <2> QED  BY <1>s, <1>t, <2>1, <2>2
<1>2. ASSUME NEW a \in turn.cmds.activate, NEW kids \in SUBSET turn.cmds.children, ActivateStep(a, kids) PROVE Keeps
  <2>1. Placed' /\ StepsInOrder(rows, rows')  BY <1>0, <1>2, ActivateInOrder
  <2>2. Exclusive' /\ Tended'  BY <1>0, <1>2, ActivateTended
  <2> QED  BY <2>1, <2>2 DEF Keeps
<1>3. ASSUME NEW a \in turn.cmds.activate, ActivationFails(a) PROVE Keeps
  <2>1. Exclusive' /\ Tended'  BY <1>0, <1>3, FailureTended
  <2>2. rows' = rows /\ turn' = Idle  BY <1>3 DEF ActivationFails, store
  <2> QED  BY <1>q, <2>1, <2>2 DEF Keeps
<1>4. ASSUME FinishTurn PROVE Keeps
  <2>1. Placed' /\ StepsInOrder(rows, rows')  BY <1>0, <1>4, FinishInOrder
  <2>2. Exclusive' /\ Tended'  BY <1>0, <1>4, FinishTended
  <2> QED  BY <2>1, <2>2 DEF Keeps
<1>5. ASSUME NEW s, NEW c, Submits(s, c) PROVE Keeps
  <2>1. Exclusive' /\ Tended'  BY <1>0, <1>5, SubmitTended
  <2>2. rows' = rows /\ c.gate = "none" /\ Submit(c, hooks) /\ c \in Commands
        /\ (phase = "running" => InOrder(rows, c))
    BY <1>5 DEF Submits, Fitting, Plain, store
  <2>3. turn' = turn \/ (turn' = Held(c) /\ phase = "running")  BY <2>2, SubmitBooted
  <2>4. CASE turn' = turn  BY <1>q, <2>1, <2>2, <2>4 DEF Keeps
  <2>5. CASE turn' = Held(c) /\ phase = "running"
    <3>1. turn'.cmds = c  BY <2>5 DEF Held
    <3> QED  BY <1>r, <2>1, <2>2, <2>5, <3>1 DEF Keeps
  <2> QED  BY <2>3, <2>4, <2>5
<1>6. ASSUME \/ RunStarted \/ CancelRequested \/ DeadlineExceeded
             \/ \E t \in tasks : TaskSubmits(t)
             \/ \E s \in Steps : FollowOnSubmits(s)
             \/ \E d \in Clients : SubmitApproval(d)
             \/ \E p \in plan : RecoverBySubmit(p)
      PROVE  Keeps
  <2>1. \E s, c : Submits(s, c)  BY <1>0, <1>6, EventsSubmit
  <2> QED  BY <1>5, <2>1
<1>7. ASSUME NEW c \in Clients, NEW s \in Steps, NEW type \in {"step_approved", "step_rejected"},
             ResolveApproval(c, s, type)
      PROVE  Keeps
  <2>1. Exclusive' /\ Tended'  BY <1>0, <1>7, ResolveTended
  <2>2. rows' = rows /\ turn' = turn  BY <1>7 DEF ResolveApproval, store
  <2> QED  BY <1>q, <2>1, <2>2 DEF Keeps
<1>8. ASSUME NEW t \in tasks, TaskStep(t) PROVE Keeps
  <2>1. PICK pc : Move(t, pc)
    BY <1>8 DEF TaskStep, StartJob, StartFails, PersistJobId, JobCompletes, JobFails, WaitGivesUp
  <2>2. SameTasks  BY <1>0, <2>1, MovesTasks
  <2>3. UNCHANGED <<phase, followOns, plan, clients, turn>>
    BY <1>8 DEF TaskStep, StartJob, StartFails, PersistJobId, JobCompletes, JobFails, WaitGivesUp, store
  <2>4. CASE PersistJobId(t)
    <3>1. \A s \in Steps : /\ rows'[s].status = rows[s].status /\ rows'[s].attempt = rows[s].attempt
                           /\ Persist(rows', turn.cmds, {})[s].status = Persist(rows, turn.cmds, {})[s].status
      BY <1>0, <2>4, JobIdStatuses
    <3>2. Placed' /\ StepsInOrder(rows, rows')  BY <1>0, <2>3, <3>1, SameInOrder
    <3>3. Exclusive' /\ Tended'  BY <1>0, <2>2, <2>3, <3>1, QuietTended
    <3> QED  BY <3>2, <3>3 DEF Keeps
  <2>5. CASE ~PersistJobId(t)
    <3>1. rows' = rows
      BY <1>8, <2>5 DEF TaskStep, StartJob, StartFails, JobCompletes, JobFails, WaitGivesUp, store
    <3> QED  BY <1>t, <2>2, <2>3, <3>1
  <2> QED  BY <2>4, <2>5
<1>9. ASSUME Crash PROVE Keeps
  <2>1. Exclusive' /\ Tended'  BY <1>9, CrashTended
  <2>2. rows' = rows /\ turn' = Idle  BY <1>9 DEF Crash, store
  <2> QED  BY <1>q, <2>1, <2>2 DEF Keeps
<1>10. ASSUME Boot PROVE Keeps
  <2>1. Exclusive' /\ Tended'  BY <1>0, <1>10, BootTended
  <2>2. rows' = rows /\ turn' = turn  BY <1>10 DEF Boot, store
  <2> QED  BY <1>q, <2>1, <2>2 DEF Keeps
<1>11. ASSUME NEW p \in plan, Reattach(p) PROVE Keeps
  <2>1. Exclusive' /\ Tended'  BY <1>0, <1>11, ReattachTended
  <2>2. rows' = rows /\ turn' = turn  BY <1>11 DEF Reattach, store
  <2> QED  BY <1>q, <2>1, <2>2 DEF Keeps
<1>12. ASSUME Serve \/ UNCHANGED vars PROVE Keeps
  <2>1. UNCHANGED <<rows, phase, turn, tasks, followOns, plan, clients>>  BY <1>12 DEF Serve, vars, store
  <2> QED  BY <1>s, <1>t, <2>1
<1>13. ~ \E h \in hooks : HookStep(h)  BY <1>0
<1> QED
  BY <1>1, <1>2, <1>3, <1>4, <1>6, <1>7, <1>8, <1>9, <1>10, <1>11, <1>12, <1>13
  DEF Next, LockStep, Recover, Ended

LEMMA InitOrder == ASSUME Init PROVE OrderInv
<1>1. /\ rows = [s \in Steps |-> NoRow] /\ turn = Idle /\ tasks = {} /\ followOns = {} /\ plan = {} /\ mode = "up"
      /\ \A c \in Clients : clients[c] = NoCall
  BY DEF Init
<1>2. IInv /\ KnownInv  BY InitCoherent, InitKnown
<1>3. \A s \in Steps : rows[s] = NoRow /\ rows[s].status = "none" /\ rows[s].attempt = 0  BY <1>1 DEF NoRow
<1>4. /\ turn.cmds = NoCommands /\ turn.followOns = {} /\ \A x : ~Covers(turn.cmds, x)
      /\ Pends(NoCommands) = {} /\ NoCommands.activate = {} /\ NoCommands.cancel = {} /\ NoCommands.status = "none"
  BY <1>1 DEF Idle, NoCommands, Covers, Pends
<1>5. NoCall.step \notin Steps  BY DEF NoCall
<1>6. HumanWaits  BY <1>1, <1>3, <1>4, <1>5 DEF HumanWaits, Asks
<1>7. Placed
  <2>1. InOrder(rows, NoCommands)  BY <1>4, QuietInOrder DEF MarksActive
  <2>2. Through(rows)  BY <1>3 DEF Through
  <2>3. InBudget(rows)
    <3>1. \A s \in Steps : Retries[s] \in Nat  OBVIOUS
    <3> QED  BY <1>3, <3>1 DEF InBudget
  <2> QED  BY <1>4, <2>1, <2>2, <2>3 DEF Placed
<1>8. Booted  BY <1>1 DEF Booted
<1>9. Unstarted  BY <1>3, <1>4 DEF Unstarted
<1>10. Exclusive  BY <1>1, <1>4 DEF Exclusive
<1>11. Tended  BY <1>1, <1>3, <1>4, <1>5 DEF Tended, TendedBy
<1> QED  BY <1>2, <1>6, <1>7, <1>8, <1>9, <1>10, <1>11 DEF OrderInv

LEMMA NextOrder ==
  ASSUME Hookless, Unhandled, Orderly, OneClient
  PROVE  OrderInv /\ [Next]_vars => OrderInv' /\ StepsInOrder(rows, rows')
<1> SUFFICES ASSUME OrderInv, [Next]_vars PROVE OrderInv' /\ StepsInOrder(rows, rows')  OBVIOUS
<1>0. IInv /\ KnownInv /\ HumanWaits /\ Booted /\ Unstarted  BY DEF OrderInv
<1>1. IInv' /\ KnownInv'  BY <1>0, NextCoherent, NextKnown
<1>2. HumanWaits' /\ Booted' /\ Unstarted'  BY <1>0, NextHuman, NextBooted, NextUnstarted
<1>3. Keeps  BY NextKeeps
<1> QED  BY <1>1, <1>2, <1>3 DEF OrderInv, Keeps

\* In a flow without hooks and failure routes, whose joins need all their feeders,
\* and whose humans answer one at a time: a step starts for the first time only
\* when every need: of it has completed, however often the runtime crashes.
THEOREM NeedsAreMet == ASSUME Hookless, Unhandled, Orderly, OneClient PROVE Spec => NeedsGate
<1>1. Init => OrderInv  BY InitOrder
<1>2. OrderInv /\ [Next]_vars => OrderInv'  BY NextOrder
<1>3. OrderInv /\ [Next]_vars
        => [\A s \in Steps : rows[s].status = "none" /\ rows'[s].status # "none"
              => \A n \in Needs[s] : rows'[n].status = "completed"]_vars
  BY NextOrder DEF StepsInOrder
<1> HIDE DEF OrderInv
<1> QED  BY <1>1, <1>2, <1>3, PTL DEF Spec, NeedsGate

\* In such a flow a step that has completed, failed, been rejected or been
\* cancelled keeps that status until it is started again.
THEOREM EndsAreKept == ASSUME Hookless, Unhandled, Orderly, OneClient PROVE Spec => LegalTransitions
<1>1. Init => OrderInv  BY InitOrder
<1>2. OrderInv /\ [Next]_vars => OrderInv'  BY NextOrder
<1>3. OrderInv /\ [Next]_vars
        => [\A s \in Steps : rows[s].status \in Terminal /\ rows'[s].attempt = rows[s].attempt
              => rows'[s].status = rows[s].status]_vars
  BY NextOrder DEF StepsInOrder
<1> HIDE DEF OrderInv
<1> QED  BY <1>1, <1>2, <1>3, PTL DEF Spec, LegalTransitions

\* In such a flow no step that a human cannot send back is attempted more often
\* than its retries: allow.
THEOREM RetriesAreBounded == ASSUME Hookless, Unhandled, Orderly, OneClient PROVE Spec => []RetryBudget
<1>1. Init => OrderInv  BY InitOrder
<1>2. OrderInv /\ [Next]_vars => OrderInv'  BY NextOrder
<1>3. OrderInv => RetryBudget  BY DEF OrderInv, Placed, InBudget, RetryBudget
<1> HIDE DEF OrderInv
<1> QED  BY <1>1, <1>2, <1>3, PTL DEF Spec

-----------------------------------------------------------------------------
(* One job per step: a runtime that does not crash, and reaches devkitd.   *)

\* Every job that is alive is watched by a task, and the runtime just serves.
Manned ==
  /\ mode = "up" /\ plan = {}
  /\ \A j \in jobs : \E t \in tasks : KeyOf(t) = j /\ t.pc \in {"persisting", "waiting"}

\* Only a job whose id is stored is cancelled, it is gone before its task is aborted,
\* and a task that starts has not stored one: it is not what is being cancelled.
Struck ==
  /\ \A s \in turn.kill \cup turn.abort : rows[s].job
  /\ \A s \in turn.abort : LatestOf(s) \notin jobs
  /\ \A t \in tasks : t.pc = "starting" /\ rows[t.step].attempt = t.attempt => ~rows[t.step].job

\* A task that moves on leaves the watching of all other jobs alone.
LEMMA MovesManned ==
  ASSUME TypeOK, Manned, NEW t \in tasks, NEW pc, Move(t, pc), UNCHANGED <<mode, plan>>,
         \A j \in jobs' : j \in jobs \/ j = KeyOf(t),
         pc \in {"persisting", "waiting"} \/ KeyOf(t) \notin jobs' \/ t.pc = "starting",
         t.pc = "starting" => pc = "persisting" \/ jobs' = jobs
  PROVE  Manned'
<1> DEFINE m == [t EXCEPT !.pc = pc]
<1>1. m.pc = pc /\ KeyOf(m) = KeyOf(t) /\ tasks' = (tasks \ {t}) \cup {m}
  <2>1. t \in Task  BY DEF TypeOK
  <2>2. m.pc = pc /\ m.step = t.step /\ m.attempt = t.attempt  BY <2>1 DEF Task
  <2> QED  BY <2>2 DEF Move, KeyOf
<1> HIDE DEF m
<1>2. ASSUME NEW j \in jobs' PROVE \E u \in tasks' : KeyOf(u) = j /\ u.pc \in {"persisting", "waiting"}
  <2>1. CASE j = KeyOf(t) /\ pc \in {"persisting", "waiting"}  BY <1>1, <2>1
  <2>2. CASE j \in jobs /\ ~(j = KeyOf(t) /\ pc \in {"persisting", "waiting"})
    <3>1. PICK u \in tasks : KeyOf(u) = j /\ u.pc \in {"persisting", "waiting"}  BY <2>2 DEF Manned
    <3>2. CASE u # t  BY <1>1, <3>1, <3>2
    <3>3. CASE u = t  BY <1>2, <2>2, <3>1, <3>3
    <3> QED  BY <3>2, <3>3
  <2>3. CASE j \notin jobs /\ ~(j = KeyOf(t) /\ pc \in {"persisting", "waiting"})
    <3>1. j = KeyOf(t) /\ jobs' # jobs  BY <1>2, <2>3
    <3> QED  BY <1>2, <2>3, <3>1
  <2> QED  BY <2>1, <2>2, <2>3
<1> QED  BY <1>2 DEF Manned

LEMMA NextManned ==
  ASSUME Hookless, MaxCrashes = 0, ~Unreachable, IInv, Struck, Manned, [Next]_vars
  PROVE  Manned'
<1>0. TypeOK /\ hooks = {} /\ tasks \subseteq Task /\ mode = "up" /\ plan = {}  BY DEF IInv, TypeOK, Manned
<1>1. ASSUME jobs' = jobs, UNCHANGED <<mode, plan>>,
             \A t \in tasks : t.pc \in {"persisting", "waiting"} => t \in tasks'
      PROVE  Manned'
  BY <1>1 DEF Manned
<1>2. ASSUME NEW s \in Steps, CancelJob(s) \/ AbortTask(s) PROVE Manned'
  <2>1. CASE CancelJob(s)
    <3>1. jobs' \subseteq jobs /\ UNCHANGED <<tasks, mode, plan>>  BY <2>1 DEF CancelJob
    <3> QED  BY <3>1 DEF Manned
  <2>2. CASE AbortTask(s)
    <3>1. LatestOf(s) \notin jobs  BY <2>2 DEF AbortTask, Struck
    <3>2. jobs' = jobs /\ UNCHANGED <<mode, plan>>  BY <2>2 DEF AbortTask
    <3>3. \A t \in tasks : KeyOf(t) # LatestOf(s) => t \in tasks'  BY <2>2 DEF AbortTask
    <3>4. \A t \in tasks : KeyOf(t) \in jobs => t \in tasks'  BY <3>1, <3>3
    <3> QED  BY <3>2, <3>4 DEF Manned
  <2> QED  BY <1>2, <2>1, <2>2
<1>3. ASSUME NEW t \in tasks, TaskStep(t) PROVE Manned'
  <2>1. UNCHANGED <<mode, plan>>
    BY <1>3 DEF TaskStep, StartJob, StartFails, PersistJobId, JobCompletes, JobFails, WaitGivesUp
  <2>2. CASE StartJob(t)  BY <1>0, <2>1, <2>2, MovesManned DEF StartJob
  <2>3. CASE StartFails(t)  BY <1>0, <2>1, <2>3, MovesManned DEF StartFails
  <2>4. CASE PersistJobId(t)  BY <1>0, <2>1, <2>4, MovesManned DEF PersistJobId
  <2>5. CASE JobCompletes(t)  BY <1>0, <2>1, <2>5, MovesManned DEF JobCompletes
  <2>6. CASE JobFails(t)  BY <1>0, <2>1, <2>6, MovesManned DEF JobFails
  <2>7. ~WaitGivesUp(t)  BY DEF WaitGivesUp
  <2> QED  BY <1>3, <2>2, <2>3, <2>4, <2>5, <2>6, <2>7 DEF TaskStep
<1>4. ASSUME NEW t \in tasks, TaskSubmits(t) PROVE Manned'  BY <1>1, <1>4 DEF TaskSubmits
<1>5. ASSUME NEW a \in turn.cmds.activate, NEW kids \in SUBSET turn.cmds.children, ActivateStep(a, kids) PROVE Manned'
  BY <1>1, <1>5 DEF ActivateStep
<1>6. ASSUME \/ \E a \in turn.cmds.activate : ActivationFails(a)
             \/ FinishTurn \/ RunStarted \/ CancelRequested \/ DeadlineExceeded
             \/ \E s \in Steps : FollowOnSubmits(s)
             \/ \E c \in Clients : SubmitApproval(c)
             \/ \E c \in Clients, s \in Steps, type \in {"step_approved", "step_rejected"} : ResolveApproval(c, s, type)
             \/ UNCHANGED vars
      PROVE  Manned'
  <2>1. UNCHANGED <<tasks, jobs, mode, plan>>
    BY <1>6 DEF ActivationFails, FinishTurn, RunStarted, CancelRequested, DeadlineExceeded, FollowOnSubmits,
                SubmitApproval, ResolveApproval, vars
  <2> QED  BY <1>1, <2>1
<1>7. ~Crash
  <2>1. crashes \in Nat  BY <1>0 DEF TypeOK
  <2> QED  BY <2>1 DEF Crash
<1>8. ~Recover  BY <1>0 DEF Recover, Boot, Serve
<1>9. ~ \E h \in hooks : HookStep(h)  BY <1>0
<1> QED
  BY <1>2, <1>3, <1>4, <1>5, <1>6, <1>7, <1>8, <1>9 DEF Next, LockStep, Ended

\* What the lock holder writes leaves no new job id behind.
LEMMA WritesNoJobs ==
  ASSUME NEW r \in [Steps -> Row], NEW c \in Commands, NEW kids \in SUBSET Steps, NEW s \in Steps
  PROVE  Persist(r, c, kids)[s].job => r[s].job /\ Persist(r, c, kids)[s].attempt = r[s].attempt
<1>1. r[s] \in Row  OBVIOUS
<1>2. CASE s \in kids  BY <1>1, <1>2 DEF Persist, Insert, Row
<1>3. CASE s \notin kids  BY <1>1, <1>3 DEF Persist, Row
<1> QED  BY <1>2, <1>3

LEMMA NextStruck ==
  ASSUME Hookless, MaxCrashes = 0, ~Unreachable, IInv, Exclusive, Manned, Struck, [Next]_vars
  PROVE  Struck'
<1>0. /\ TypeOK /\ hooks = {} /\ tasks \in SUBSET Task /\ mode = "up" /\ plan = {}
      /\ rows \in [Steps -> Row] /\ turn \in Turn /\ turn.cmds \in Commands
  BY DEF IInv, TypeOK, Manned, Turn
<1>t. \A t \in tasks : t.step \in Steps /\ t.attempt \in Nat  BY <1>0 DEF Task
<1>k. turn.kill \subseteq Steps /\ turn.abort \subseteq Steps  BY <1>0 DEF Turn
<1>s. \A t \in tasks : t.pc = "starting" /\ rows[t.step].attempt = t.attempt => ~rows[t.step].job  BY DEF Struck
<1>i. Idle.kill = {} /\ Idle.abort = {}  BY DEF Idle
<1>h. \A c : Held(c).abort = {} /\ \A s \in Held(c).kill : rows[s].job  BY DEF Held
<1>1. ASSUME rows' = rows, jobs' \subseteq jobs, turn' = turn \/ turn' = Idle \/ (\E c : turn' = Held(c)),
             \A t \in tasks' : t.pc = "starting" => t \in tasks
      PROVE  Struck'
  <2>1. \A s \in turn'.kill \cup turn'.abort : rows'[s].job  BY <1>1, <1>i, <1>h DEF Struck
  <2>2. \A s \in turn'.abort : LatestOf(s)' \notin jobs'
    <3>1. \A s \in turn'.abort : s \in turn.abort  BY <1>1, <1>i, <1>h
    <3> QED  BY <1>1, <3>1 DEF Struck, LatestOf
  <2>3. \A t \in tasks' : t.pc = "starting" /\ rows'[t.step].attempt = t.attempt => ~rows'[t.step].job
    BY <1>1, <1>s
  <2> QED  BY <2>1, <2>2, <2>3 DEF Struck
<1>2. ASSUME NEW s \in Steps, CancelJob(s) \/ AbortTask(s) PROVE Struck'
  <2>1. CASE CancelJob(s)
    <3>1. /\ rows' = rows /\ tasks' = tasks /\ jobs' = jobs \ {LatestOf(s)} /\ s \in turn.kill
          /\ turn'.kill \subseteq turn.kill /\ turn'.abort = {s}
      BY <1>0, <2>1 DEF CancelJob, Turn, store
    <3> QED  BY <3>1 DEF Struck, LatestOf
  <2>2. CASE AbortTask(s)
    <3>1. /\ rows' = rows /\ tasks' \subseteq tasks /\ jobs' = jobs
          /\ turn'.kill = turn.kill /\ turn'.abort = {}
      BY <1>0, <2>2 DEF AbortTask, Turn, store
    <3> QED  BY <3>1 DEF Struck
  <2> QED  BY <1>2, <2>1, <2>2
<1>3. ASSUME NEW a \in turn.cmds.activate, NEW kids \in SUBSET turn.cmds.children, ActivateStep(a, kids)
      PROVE  Struck'
  <2> DEFINE flushed == Persist(rows, turn.cmds, kids)
             new == [step |-> a.step, attempt |-> a.attempt, reattached |-> FALSE, pc |-> "starting"]
  <2>1. a.step \in Steps /\ a.attempt \in Nat /\ kids \in SUBSET Steps  BY <1>0 DEF Commands, Activation
  <2>2. flushed \in [Steps -> Row]  BY <1>0, PersistTyped
  <2>3. \A s \in Steps : flushed[s].job => rows[s].job /\ flushed[s].attempt = rows[s].attempt
    BY <1>0, <2>1, WritesNoJobs
  <2>4. /\ rows' = [flushed EXCEPT ![a.step] = Insert(flushed[a.step], a.attempt)]
        /\ tasks' = tasks \cup {new} /\ turn'.kill = {} /\ turn'.abort = {}
    BY <1>0, <1>3 DEF ActivateStep, Turn
  <2>5. new.step = a.step /\ new.attempt = a.attempt  OBVIOUS
  <2> HIDE DEF flushed, new
  <2>6. /\ \A s \in Steps : s # a.step => rows'[s] = flushed[s]
        /\ rows'[a.step] = Insert(flushed[a.step], a.attempt) /\ flushed[a.step] \in Row
    BY <2>1, <2>2, <2>4
  <2>7. /\ rows'[a.step].job => rows'[a.step] = flushed[a.step]
        /\ rows'[a.step].attempt = a.attempt => ~rows'[a.step].job
    BY <2>1, <2>6 DEF Insert, Row
  <2>8. \A s \in Steps : rows'[s].job => rows[s].job /\ rows'[s].attempt = rows[s].attempt
    BY <2>3, <2>6, <2>7
  <2>9. ASSUME NEW t \in tasks', t.pc = "starting", rows'[t.step].attempt = t.attempt PROVE ~rows'[t.step].job
    <3>1. CASE t = new  BY <2>5, <2>7, <2>9, <3>1
    <3>2. CASE t \in tasks  BY <1>t, <1>s, <2>8, <2>9, <3>2
    <3> QED  BY <2>4, <3>1, <3>2
  <2> QED  BY <2>4, <2>9 DEF Struck
<1>4. ASSUME FinishTurn PROVE Struck'
  <2>1. turn.cmds.children \in SUBSET Steps  BY <1>0 DEF Commands
  <2>2. /\ rows' = Persist(rows, turn.cmds, turn.cmds.children) /\ tasks' = tasks
        /\ turn'.kill = {} /\ turn'.abort = {}
    BY <1>i, <1>4 DEF FinishTurn
  <2>3. \A s \in Steps : rows'[s].job => rows[s].job /\ rows'[s].attempt = rows[s].attempt
    BY <1>0, <2>1, <2>2, WritesNoJobs
  <2>4. \A t \in tasks' : t.pc = "starting" /\ rows'[t.step].attempt = t.attempt => ~rows'[t.step].job
    BY <1>t, <1>s, <2>2, <2>3
  <2> QED  BY <2>2, <2>4 DEF Struck
<1>5. ASSUME NEW t \in tasks, TaskStep(t) PROVE Struck'
  <2>m. ASSUME NEW pc, pc # "starting", Move(t, pc) PROVE \A u \in tasks' : u.pc = "starting" => u \in tasks /\ u # t
    <3>1. [t EXCEPT !.pc = pc].pc = pc  BY <1>0 DEF Task
    <3>2. ASSUME t.pc = "starting" PROVE [t EXCEPT !.pc = pc] # t  BY <2>m, <3>1, <3>2
    <3> QED  BY <2>m, <3>1 DEF Move
  <2>1. CASE StartJob(t) \/ StartFails(t)
    <3>1. /\ UNCHANGED <<rows, turn>> /\ jobs' \subseteq jobs \cup {KeyOf(t)} /\ t.pc = "starting"
          /\ Move(t, "persisting") \/ Move(t, "failed")
      BY <2>1 DEF StartJob, StartFails, store
    <3>2. \A u \in tasks' : u.pc = "starting" => u \in tasks  BY <2>m, <3>1
    <3>3. \A s \in turn.abort : LatestOf(s) # KeyOf(t)
      <4>1. SUFFICES ASSUME NEW s \in turn.abort, s = t.step, rows[s].attempt = t.attempt PROVE FALSE
        BY DEF LatestOf, KeyOf
      <4> QED  BY <1>s, <3>1, <4>1 DEF Struck
    <3>4. \A s \in turn'.abort : LatestOf(s)' \notin jobs'  BY <3>1, <3>3 DEF Struck, LatestOf
    <3> QED  BY <3>1, <3>2, <3>4 DEF Struck
  <2>2. CASE PersistJobId(t)
    <3>1. /\ rows' = [rows EXCEPT ![t.step].job = rows[t.step].job \/ rows[t.step].attempt = t.attempt]
          /\ UNCHANGED <<turn, jobs>> /\ Move(t, "waiting") /\ t.pc = "persisting"
      BY <2>2 DEF PersistJobId
    <3>2. \A s \in Steps : rows'[s].attempt = rows[s].attempt /\ (rows[s].job => rows'[s].job)
      BY <1>0, <1>t, <3>1 DEF Row
    <3>3. \A s \in Steps : s # t.step => rows'[s] = rows[s]  BY <1>0, <1>t, <3>1
    <3>4. \A u \in tasks' : u.pc = "starting" => u \in tasks /\ u.step # t.step
      BY <2>m, <3>1 DEF Exclusive
    <3>5. \A u \in tasks' : u.pc = "starting" /\ rows'[u.step].attempt = u.attempt => ~rows'[u.step].job
      BY <1>t, <1>s, <3>3, <3>4
    <3>6. \A s \in turn'.kill \cup turn'.abort : rows'[s].job  BY <1>k, <3>1, <3>2 DEF Struck
    <3>7. \A s \in turn'.abort : LatestOf(s)' \notin jobs'  BY <1>k, <3>1, <3>2 DEF Struck, LatestOf
    <3> QED  BY <3>5, <3>6, <3>7 DEF Struck
  <2>3. CASE JobCompletes(t) \/ JobFails(t)
    <3>1. UNCHANGED <<rows, turn>> /\ jobs' \subseteq jobs /\ (Move(t, "completed") \/ Move(t, "failed"))
      BY <2>3 DEF JobCompletes, JobFails, store
    <3> QED  BY <1>1, <2>m, <3>1
  <2>4. ~WaitGivesUp(t)  BY DEF WaitGivesUp
  <2> QED  BY <1>5, <2>1, <2>2, <2>3, <2>4 DEF TaskStep
<1>6. ASSUME NEW c, Submit(c, hooks), rows' = rows, jobs' = jobs, tasks' \subseteq tasks PROVE Struck'
  <2>1. turn' = turn \/ \E d : turn' = Held(d)  BY <1>6 DEF Submit, Drive
  <2> QED  BY <1>1, <1>6, <2>1
<1>7. ASSUME \/ RunStarted \/ CancelRequested \/ DeadlineExceeded
             \/ \E t \in tasks : TaskSubmits(t)
             \/ \E s \in Steps : FollowOnSubmits(s)
             \/ \E c \in Clients : SubmitApproval(c)
      PROVE  Struck'
  <2>1. /\ \E c : Submit(c, hooks)
        /\ rows' = rows /\ jobs' = jobs /\ tasks' \subseteq tasks
    BY <1>7 DEF RunStarted, CancelRequested, DeadlineExceeded, TaskSubmits, FollowOnSubmits, SubmitApproval, store
  <2> QED  BY <1>6, <2>1
<1>8. ASSUME \/ \E a \in turn.cmds.activate : ActivationFails(a)
             \/ \E c \in Clients, s \in Steps, type \in {"step_approved", "step_rejected"} : ResolveApproval(c, s, type)
             \/ UNCHANGED vars
      PROVE  Struck'
  <2>1. UNCHANGED <<rows, jobs, tasks>> /\ (turn' = turn \/ turn' = Idle)
    BY <1>8 DEF ActivationFails, ResolveApproval, vars, store
  <2> QED  BY <1>1, <2>1
<1>9. ~Crash
  <2>1. crashes \in Nat  BY <1>0 DEF TypeOK
  <2> QED  BY <2>1 DEF Crash
<1>10. ~Recover  BY <1>0 DEF Recover, Boot, Serve
<1>11. ~ \E h \in hooks : HookStep(h)  BY <1>0
<1> QED
  BY <1>2, <1>3, <1>4, <1>5, <1>7, <1>8, <1>9, <1>10, <1>11 DEF Next, LockStep, Ended

\* In such a flow, as long as the runtime neither crashes nor loses devkitd,
\* devkitd never runs two jobs of one step: a step is started again only when
\* the job of its last attempt has ended or been cancelled.
THEOREM NeverTwoJobs ==
  ASSUME Hookless, Unhandled, Orderly, OneClient, MaxCrashes = 0, ~Unreachable
  PROVE  Spec => []OneJobPerStep
<1>1. Init => OrderInv /\ Manned /\ Struck
  <2>1. Init => Manned /\ Struck  BY DEF Init, Manned, Struck, Idle
  <2> QED  BY <2>1, InitOrder
<1>2. OrderInv /\ Manned /\ Struck /\ [Next]_vars => OrderInv' /\ Manned' /\ Struck'
  <2>1. OrderInv => IInv /\ Exclusive  BY DEF OrderInv
  <2> QED  BY <2>1, NextOrder, NextManned, NextStruck
<1>3. OrderInv /\ Manned => OneJobPerStep
  <2>1. SUFFICES ASSUME Exclusive, Manned, NEW j \in jobs, NEW k \in jobs, j.step = k.step PROVE j = k
    BY DEF OrderInv, OneJobPerStep
  <2>2. PICK t \in tasks, u \in tasks : KeyOf(t) = j /\ KeyOf(u) = k  BY <2>1 DEF Manned
  <2>3. t.step = u.step  BY <2>1, <2>2 DEF KeyOf
  <2> QED  BY <2>1, <2>2, <2>3 DEF Exclusive
<1> HIDE DEF OrderInv, Manned, Struck
<1> QED  BY <1>1, <1>2, <1>3, PTL DEF Spec

-----------------------------------------------------------------------------
(* Gates, whatever fails and whoever answers.                              *)

\* No step starts at once a gated step and one of those the gate waits for.
Apart ==
  \A s, x \in Steps : \A n \in Needs[x] :
    \A targets \in {OnSuccess[s], OnFailure[s], OnApprove[s], OnReject[s]} : ~(x \in targets /\ n \in targets)

\* What the commands c start for the first time on the rows r has its gate open,
\* and none of what the gate waits for starts again with it.
GateOpen(r, c) ==
  \A x \in Pends(c) : r[x].status = "none"
    => \A n \in Needs[x] : Persist(r, c, {})[n].status = "completed" /\ n \notin Pends(c)

LEMMA NothingOpens == ASSUME NEW r, NEW c, Pends(c) = {} PROVE GateOpen(r, c)
BY DEF GateOpen

LEMMA RouteOpens ==
  ASSUME NEW r \in [Steps -> Row], NEW c \in Commands, Bare(c), NEW next, next = Persist(r, c, {}),
         NEW targets \in SUBSET Steps, \A x \in targets : \A n \in Needs[x] : n \notin targets
  PROVE  GateOpen(r, Route(c, next, targets))
<1> DEFINE ready == Ready(next, targets)
           d == Route(c, next, targets)
<1>1. CASE ready = {}
  <2>1. d = TerminalIfDone(c, next)  BY <1>1 DEF Route
  <2> QED  BY <2>1, TerminalPends, NothingOpens
<1>2. CASE ready # {}
  <2>1. d = Launch(c, next, ready)  BY <1>2 DEF Route
  <2>2. ready \in SUBSET Steps /\ ready \subseteq targets  BY DEF Ready
  <2>3. \A x \in ready : \A n \in Needs[x] : next[n].status = "completed"  BY DEF Ready, NeedsSatisfied
  <2> HIDE DEF ready
  <2>4. Pends(d) = ready  BY <2>1, <2>2, LaunchPends
  <2>5. Persist(r, d, {}) = next  BY RouteFrames, PersistFramed
  <2> HIDE DEF d
  <2> QED  BY <2>2, <2>3, <2>4, <2>5 DEF GateOpen, d
<1> QED  BY <1>1, <1>2

\* A step that is started again has a row.
LEMMA AgainOpens ==
  ASSUME NEW r, NEW c \in Commands, NEW next, NEW s \in Steps, r[s].status # "none"
  PROVE  GateOpen(r, Launch(c, next, {s}))
<1>1. {s} \in SUBSET Steps  OBVIOUS
<1>2. Pends(Launch(c, next, {s})) = {s}  BY <1>1, LaunchPends
<1> QED  BY <1>2 DEF GateOpen

LEMMA MarkOpens ==
  ASSUME NEW r \in [Steps -> Row], NEW s \in Steps, NEW st \in Status,
         NEW targets \in SUBSET Steps, \A x \in targets : \A n \in Needs[x] : n \notin targets
  PROVE  GateOpen(r, Route(Mark(s, st), SetStatus(r, s, st), targets))
<1>1. Mark(s, st) \in Commands /\ Bare(Mark(s, st))  BY MarkBare
<1>2. SetStatus(r, s, st) = Persist(r, Mark(s, st), {})  BY MarkPersists
<1> QED  BY <1>1, <1>2, RouteOpens

\* Whatever a step that has a row routes to, its gates are open.
LEMMA DecisionsOpen ==
  ASSUME Hookless, Apart, NEW r \in [Steps -> Row], NEW s \in Steps, r[s].status # "none"
  PROVE  /\ GateOpen(r, OnStepCompleted(r, s)) /\ GateOpen(r, OnStepFailed(r, s))
         /\ GateOpen(r, OnStepApproved(r, s)) /\ GateOpen(r, OnStepRejected(r, s))
<1>0. ASSUME NEW targets \in {OnSuccess[s], OnFailure[s], OnApprove[s], OnReject[s]}
      PROVE  targets \in SUBSET Steps /\ \A x \in targets : \A n \in Needs[x] : n \notin targets
  <2>1. targets \in SUBSET Steps  BY <1>0
  <2> QED  BY <2>1 DEF Apart
<1>1. GateOpen(r, OnStepCompleted(r, s))
  <2>1. s \notin AfterHooks  BY DEF Hookless
  <2>2. CASE s \in HumanLoop
    <3>1. OnStepCompleted(r, s) = Mark(s, "waiting_approval")
      BY <2>1, <2>2, MarkBare, StatusFacts DEF OnStepCompleted
    <3>2. Bare(Mark(s, "waiting_approval"))  BY MarkBare, StatusFacts
    <3>3. Pends(Mark(s, "waiting_approval")) = {}  BY <3>2 DEF Bare, Pends
    <3> QED  BY <3>1, <3>3, NothingOpens
  <2>3. CASE s \notin HumanLoop
    <3>1. OnStepCompleted(r, s) = Route(Mark(s, "completed"), SetStatus(r, s, "completed"), OnSuccess[s])
      BY <2>1, <2>3, MarkBare, StatusFacts DEF OnStepCompleted
    <3> QED  BY <1>0, <3>1, StatusFacts, MarkOpens
  <2> QED  BY <2>2, <2>3
<1>2. GateOpen(r, OnStepFailed(r, s))
  <2>1. CASE r[s].attempt <= Retries[s]  BY <2>1, NoCommandsTyped, AgainOpens DEF OnStepFailed
  <2>2. CASE ~(r[s].attempt <= Retries[s])
    <3> DEFINE c == Cancel(Mark(s, "failed"), ActiveSteps(r) \ {s})
    <3>1. OnStepFailed(r, s) = Route(c, FailFast(r, s), OnFailure[s])  BY <2>2 DEF OnStepFailed
    <3>2. c \in Commands /\ Bare(c) /\ FailFast(r, s) = Persist(r, c, {})  BY FailFastPersists
    <3> HIDE DEF c
    <3> QED  BY <1>0, <3>1, <3>2, RouteOpens
  <2> QED  BY <2>1, <2>2
<1>3. GateOpen(r, OnStepApproved(r, s))  BY <1>0, StatusFacts, MarkOpens DEF OnStepApproved
<1>4. GateOpen(r, OnStepRejected(r, s))
  <2>1. CASE IsSelfRejectLoop(s)
    <3>1. Mark(s, "failed_rejected") \in Commands  BY StatusFacts, MarkBare
    <3> QED  BY <2>1, <3>1, AgainOpens DEF OnStepRejected
  <2>2. CASE ~IsSelfRejectLoop(s)  BY <1>0, <2>2, StatusFacts, MarkOpens DEF OnStepRejected
  <2> QED  BY <2>1, <2>2
<1> QED  BY <1>1, <1>2, <1>3, <1>4

\* A run without rows starts with steps that wait for nothing.
LEMMA StartOpens ==
  ASSUME Hookless, NEW r \in [Steps -> Row], \A s \in Steps : r[s] = NoRow
  PROVE  GateOpen(r, OnRunStarted(r))
BY StartInOrder DEF InOrder, StartsInOrder, GateOpen

LEMMA StopOpens == ASSUME NEW r, NEW ph \in {"failed", "cancelled"} PROVE GateOpen(r, Stop(r, ph))
BY StopInOrder, NothingOpens

\* What has no row on r and has one on q starts with its gate open.
StartsOpen(r, q) ==
  \A s \in Steps : r[s].status = "none" /\ q[s].status # "none" => \A n \in Needs[s] : q[n].status = "completed"

\* A transaction opens no other gates, and leaves those open that are still to be used.
LEMMA TransactionOpens ==
  ASSUME NEW r \in [Steps -> Row], NEW c \in Commands, Rightful(r, c), GateOpen(r, c),
         NEW q \in [Steps -> Row], NEW K, Transacts(r, c, K, q),
         NEW d \in Commands, d.status = "none", d.cancel = {}, Pends(d) \subseteq Pends(c) \ K
  PROVE  StartsOpen(r, q) /\ GateOpen(q, d)
<1>0. /\ K \subseteq Pends(c) /\ Pends(c) \subseteq Steps /\ \A s \in Steps : Needs[s] \subseteq Steps
      /\ \A s \in Steps : s \notin K => q[s] = Persist(r, c, {})[s]
  BY PendsCovered DEF Transacts
<1>1. ASSUME NEW x \in Pends(c), r[x].status = "none", NEW n \in Needs[x]
      PROVE  q[n].status = "completed" /\ n \notin Pends(c)
  <2>1. Persist(r, c, {})[n].status = "completed" /\ n \notin Pends(c)  BY <1>1 DEF GateOpen
  <2>2. n \in Steps /\ n \notin K  BY <1>0, <2>1
  <2> QED  BY <1>0, <2>1, <2>2
<1>2. ASSUME NEW s \in Steps, r[s].status = "none", q[s].status # "none" PROVE s \in K
  BY <1>0, <1>2, PersistUntouched
<1>3. StartsOpen(r, q)  BY <1>0, <1>1, <1>2 DEF StartsOpen
<1>4. ASSUME NEW x \in Pends(d), q[x].status = "none" PROVE x \in Pends(c) /\ r[x].status = "none"
  <2>1. x \in Pends(c) /\ x \in Steps /\ x \notin K  BY <1>0
  <2>2. q[x] = Persist(r, c, {})[x]  BY <1>0, <2>1
  <2> QED  BY <1>4, <2>1, <2>2, PersistRow
<1>5. \A n \in Steps : Persist(q, d, {})[n].status = q[n].status  BY PersistStatus
<1>6. ASSUME NEW x \in Pends(d), q[x].status = "none", NEW n \in Needs[x]
      PROVE  Persist(q, d, {})[n].status = "completed" /\ n \notin Pends(d)
  <2>1. x \in Pends(c) /\ r[x].status = "none"  BY <1>4, <1>6
  <2>2. q[n].status = "completed" /\ n \notin Pends(c)  BY <1>1, <1>6, <2>1
  <2>3. n \in Steps  BY <1>0, <1>6, <2>1
  <2> QED  BY <1>5, <2>2, <2>3
<1> QED  BY <1>3, <1>6 DEF GateOpen

\* The turn in progress starts nothing whose gate is closed.
GateInv == IInv /\ KnownInv /\ Booted /\ Unstarted /\ GateOpen(rows, turn.cmds)

LEMMA ActivateOpens ==
  ASSUME GateInv, NEW a \in turn.cmds.activate, NEW kids \in SUBSET turn.cmds.children, ActivateStep(a, kids),
         rows' \in [Steps -> Row], turn' \in Turn
  PROVE  StartsOpen(rows, rows') /\ GateOpen(rows', turn'.cmds)
<1> DEFINE c == turn.cmds
           d == turn'.cmds
           K == {a.step} \cup kids
<1>0. /\ rows \in [Steps -> Row] /\ turn \in Turn /\ c \in Commands /\ d \in Commands
      /\ IInv /\ KnownInv /\ GateOpen(rows, c)
  BY DEF GateInv, IInv, TypeOK, Turn
<1>1. /\ a.step \in Steps /\ turn.held /\ \A s \in K : s \in Steps /\ rows'[s].status = "running"
      /\ \A s \in Steps : s \notin K => rows'[s] = Persist(rows, c, {})[s]
  BY <1>0, ActivateStarts
<1>2. Rightful(rows, c)  BY <1>0, <1>1 DEF KnownInv, TurnKnown
<1>3. d = [c EXCEPT !.activate = c.activate \ {a}, !.children = c.children \ kids,
                    !.status = "none", !.cancel = {}]
  BY <1>0 DEF ActivateStep, Turn
<1>4. /\ d.activate = c.activate \ {a} /\ d.children = c.children \ kids
      /\ d.status = "none" /\ d.cancel = {}
  BY <1>0, <1>3 DEF Commands
<1>5. Fits(rows, c)  BY <1>0, <1>1 DEF IInv, Coherent, TurnFits
<1>6. /\ c.children \subseteq Subflows /\ \A b \in c.activate : b.step \notin Subflows
      /\ \A b \in c.activate : b.step = a.step => b = a
  BY <1>5 DEF Fits
<1> HIDE DEF d
<1>7. K \subseteq Pends(c)  BY DEF Pends
<1>8. Pends(d) \subseteq Pends(c) \ K  BY <1>4, <1>6 DEF Pends
<1> HIDE DEF c, K
<1>9. Transacts(rows, c, K, rows')  BY <1>1, <1>7 DEF Transacts
<1>10. rows \in [Steps -> Row]  BY <1>0
<1>11. StartsOpen(rows, rows') /\ GateOpen(rows', d)
  BY <1>0, <1>2, <1>4, <1>8, <1>9, <1>10, TransactionOpens
<1> QED  BY <1>11 DEF d

LEMMA FinishOpens ==
  ASSUME GateInv, FinishTurn, rows' \in [Steps -> Row]
  PROVE  StartsOpen(rows, rows') /\ GateOpen(rows', turn'.cmds)
<1> DEFINE c == turn.cmds
           K == c.children
<1>0. /\ rows \in [Steps -> Row] /\ c \in Commands /\ turn.held /\ turn'.cmds = NoCommands
      /\ IInv /\ KnownInv /\ GateOpen(rows, c)
  BY DEF GateInv, IInv, TypeOK, Turn, FinishTurn, Idle
<1>1. /\ \A s \in K : s \in Steps /\ rows'[s].status = "running"
      /\ \A s \in Steps : s \notin K => rows'[s] = Persist(rows, c, {})[s]
  BY <1>0, FinishStarts
<1>2. Rightful(rows, c)  BY <1>0 DEF KnownInv, TurnKnown
<1>3. K \subseteq Pends(c)  BY DEF Pends
<1>4. NoCommands \in Commands /\ NoCommands.status = "none" /\ NoCommands.cancel = {} /\ Pends(NoCommands) = {}
  BY NoCommandsTyped DEF NoCommands, Pends
<1> HIDE DEF c, K
<1>5. Transacts(rows, c, K, rows')  BY <1>1, <1>3 DEF Transacts
<1>6. Pends(NoCommands) \subseteq Pends(c) \ K  BY <1>4
<1>7. rows \in [Steps -> Row]  BY <1>0
<1> QED  BY <1>0, <1>2, <1>4, <1>5, <1>6, <1>7, TransactionOpens

LEMMA NextOpens ==
  ASSUME Hookless, Apart, GateInv, [Next]_vars
  PROVE  StartsOpen(rows, rows') /\ GateOpen(rows', turn'.cmds)
<1> DEFINE Opens == StartsOpen(rows, rows') /\ GateOpen(rows', turn'.cmds)
<1>0. /\ IInv /\ KnownInv /\ Booted /\ Unstarted /\ TypeOK /\ rows \in [Steps -> Row] /\ turn \in Turn
      /\ turn.cmds \in Commands /\ hooks = {} /\ GateOpen(rows, turn.cmds)
      /\ \A t \in tasks : t.step \in Steps
      /\ \A c \in Clients : clients[c] \notin {NoCall, InTurn} => clients[c].step \in Steps
      /\ \A p \in plan : p.kind = "fail" => p.step \in Steps
      /\ \A p \in plan : p.kind \in {"fail", "reattach"} \/ p = Restart
  BY DEF GateInv, IInv, TypeOK, Task, Plan, Restart, Call, Turn
<1>a. IInv'  BY <1>0, NextCoherent
<1>b. rows' \in [Steps -> Row] /\ turn' \in Turn  BY <1>a DEF IInv, TypeOK
<1>i. GateOpen(rows, Idle.cmds)
  <2>1. Pends(Idle.cmds) = {}  BY DEF Idle, NoCommands, Pends
  <2> QED  BY <2>1, NothingOpens
<1>q. ASSUME rows' = rows, turn'.cmds = turn.cmds \/ turn' = Idle PROVE Opens
  <2>1. GateOpen(rows, turn'.cmds)  BY <1>0, <1>i, <1>q
  <2> QED  BY <1>q, <2>1 DEF StartsOpen
<1>s. ASSUME NEW c, Plain(c), Submit(c, hooks), GateOpen(rows, c), rows' = rows PROVE Opens
  <2>1. turn' = turn \/ turn' = Held(c)  BY <1>s, SubmitBooted DEF Plain
  <2>2. Held(c).cmds = c  BY DEF Held
  <2>3. GateOpen(rows, turn'.cmds)  BY <1>0, <1>s, <2>1, <2>2
  <2> QED  BY <1>s, <2>3 DEF StartsOpen
<1>p. /\ \A s \in Steps : /\ Plain(OnStepCompleted(rows, s)) /\ Plain(OnStepFailed(rows, s))
                          /\ Plain(OnStepApproved(rows, s)) /\ Plain(OnStepRejected(rows, s))
      /\ Plain(OnRunStarted(rows)) /\ Plain(Stop(rows, "failed")) /\ Plain(Stop(rows, "cancelled"))
  BY <1>0, DecisionsPlain
<1>d. ASSUME NEW s \in Steps, Known(s)
      PROVE  /\ GateOpen(rows, OnStepCompleted(rows, s)) /\ GateOpen(rows, OnStepFailed(rows, s))
             /\ GateOpen(rows, OnStepApproved(rows, s)) /\ GateOpen(rows, OnStepRejected(rows, s))
  BY <1>0, <1>d, DecisionsOpen DEF Known
<1>z. SourcesKnown  BY <1>0 DEF KnownInv
<1> HIDE DEF Opens
<1>1. ASSUME NEW s \in Steps, CancelJob(s) \/ AbortTask(s) PROVE Opens
  <2>1. rows' = rows /\ turn'.cmds = turn.cmds  BY <1>0, <1>1 DEF CancelJob, AbortTask, Turn, store
  <2> QED  BY <1>q, <2>1
<1>2. ASSUME NEW a \in turn.cmds.activate, NEW kids \in SUBSET turn.cmds.children, ActivateStep(a, kids) PROVE Opens
  BY <1>2, <1>b, ActivateOpens DEF Opens
<1>3. ASSUME NEW a \in turn.cmds.activate, ActivationFails(a) PROVE Opens
  BY <1>q, <1>3 DEF ActivationFails, store
<1>4. ASSUME FinishTurn PROVE Opens  BY <1>4, <1>b, FinishOpens DEF Opens
<1>5. ASSUME starting \/ Restart \in plan PROVE GateOpen(rows, OnRunStarted(rows))
  BY <1>0, <1>5, StartOpens DEF Unstarted
<1>6. ASSUME RunStarted PROVE Opens  BY <1>s, <1>p, <1>5, <1>6 DEF RunStarted, store
<1>7. ASSUME NEW t \in tasks, TaskSubmits(t) PROVE Opens
  <2>1. t.step \in Steps /\ Known(t.step)  BY <1>0, <1>z DEF SourcesKnown
  <2> QED  BY <1>s, <1>p, <1>d, <1>7, <2>1 DEF TaskSubmits, store
<1>8. ASSUME NEW s \in Steps, FollowOnSubmits(s) PROVE Opens
  <2>1. Known(s)  BY <1>z, <1>8 DEF FollowOnSubmits, SourcesKnown
  <2> QED  BY <1>s, <1>p, <1>d, <1>8, <2>1 DEF FollowOnSubmits, store
<1>9. ASSUME CancelRequested \/ DeadlineExceeded PROVE Opens
  BY <1>s, <1>p, <1>9, StopOpens DEF CancelRequested, DeadlineExceeded, store
<1>10. ASSUME NEW c \in Clients, NEW s \in Steps, NEW type \in {"step_approved", "step_rejected"},
              ResolveApproval(c, s, type)
       PROVE  Opens
  BY <1>q, <1>10 DEF ResolveApproval, store
<1>11. ASSUME NEW c \in Clients, SubmitApproval(c) PROVE Opens
  <2>1. clients[c].step \in Steps  BY <1>0, <1>11 DEF SubmitApproval
  <2>2. Known(clients[c].step)  BY <1>z, <2>1 DEF SourcesKnown
  <2> QED  BY <1>s, <1>p, <1>d, <1>11, <2>1, <2>2 DEF SubmitApproval, store
<1>12. ASSUME NEW t \in tasks, TaskStep(t) PROVE Opens
  <2>1. turn' = turn
    BY <1>12 DEF TaskStep, StartJob, StartFails, PersistJobId, JobCompletes, JobFails, WaitGivesUp
  <2>2. CASE PersistJobId(t)
    <3>1. \A s \in Steps : /\ rows'[s].status = rows[s].status
                           /\ Persist(rows', turn.cmds, {})[s].status = Persist(rows, turn.cmds, {})[s].status
      BY <1>0, <2>2, JobIdStatuses
    <3>2. Pends(turn.cmds) \subseteq Steps /\ \A x \in Steps : Needs[x] \subseteq Steps  BY <1>0, PendsCovered
    <3>3. GateOpen(rows', turn.cmds)  BY <1>0, <3>1, <3>2 DEF GateOpen
    <3>4. StartsOpen(rows, rows')  BY <3>1 DEF StartsOpen
    <3> QED  BY <2>1, <3>3, <3>4 DEF Opens
  <2>3. CASE ~PersistJobId(t)
    BY <1>q, <1>12, <2>1, <2>3 DEF TaskStep, StartJob, StartFails, JobCompletes, JobFails, WaitGivesUp, store
  <2> QED  BY <2>2, <2>3
<1>13. ASSUME Crash \/ Boot \/ Serve \/ UNCHANGED vars PROVE Opens
  BY <1>q, <1>13 DEF Crash, Boot, Serve, vars, store
<1>14. ASSUME NEW p \in plan, Reattach(p) PROVE Opens  BY <1>q, <1>14 DEF Reattach, store
<1>15. ASSUME NEW p \in plan, RecoverBySubmit(p) PROVE Opens
  <2>1. rows' = rows  BY <1>15 DEF RecoverBySubmit, store
  <2>2. CASE p.kind = "fail"
    <3>1. p.step \in Steps /\ Known(p.step)  BY <1>0, <1>z, <2>2 DEF SourcesKnown
    <3>2. Submit(OnStepFailed(rows, p.step), hooks)  BY <1>15, <2>2 DEF RecoverBySubmit
    <3> QED  BY <1>s, <1>p, <1>d, <2>1, <3>1, <3>2
  <2>3. CASE p.kind # "fail"
    <3>1. p = Restart /\ Submit(OnRunStarted(rows), hooks)  BY <1>0, <1>15, <2>3 DEF RecoverBySubmit
    <3> QED  BY <1>s, <1>p, <1>5, <2>1, <3>1
  <2> QED  BY <2>2, <2>3
<1>16. ~ \E h \in hooks : HookStep(h)  BY <1>0
<1>17. Opens
  BY <1>1, <1>2, <1>3, <1>4, <1>6, <1>7, <1>8, <1>9, <1>10, <1>11, <1>12, <1>13, <1>14, <1>15, <1>16
  DEF Next, LockStep, Recover, Ended
<1> QED  BY <1>17 DEF Opens

\* In a flow without hooks that starts no step at once with one it waits for,
\* whatever fails and is handled, whoever answers, and however often the runtime
\* crashes: a step starts for the first time only when every need: of it has
\* completed.
THEOREM GatesHold == ASSUME Hookless, Apart PROVE Spec => NeedsGate
<1>1. Init => GateInv
  <2>1. Init => GateOpen(rows, turn.cmds)
    <3>1. Pends(Idle.cmds) = {}  BY DEF Idle, NoCommands, Pends
    <3> QED  BY <3>1, NothingOpens DEF Init
  <2> QED  BY <2>1, InitOrder DEF GateInv, OrderInv
<1>2. GateInv /\ [Next]_vars => GateInv' /\ StartsOpen(rows, rows')
  <2> SUFFICES ASSUME GateInv, [Next]_vars PROVE GateInv' /\ StartsOpen(rows, rows')  OBVIOUS
  <2>0. IInv /\ KnownInv /\ Booted /\ Unstarted  BY DEF GateInv
  <2>1. IInv' /\ KnownInv' /\ Booted' /\ Unstarted'  BY <2>0, NextCoherent, NextKnown, NextBooted, NextUnstarted
  <2>2. StartsOpen(rows, rows') /\ GateOpen(rows', turn'.cmds)  BY NextOpens
  <2> QED  BY <2>1, <2>2 DEF GateInv
<1>3. GateInv /\ [Next]_vars
        => [\A s \in Steps : rows[s].status = "none" /\ rows'[s].status # "none"
              => \A n \in Needs[s] : rows'[n].status = "completed"]_vars
  BY <1>2 DEF StartsOpen
<1>4. GateInv /\ [Next]_vars => GateInv'  BY <1>2
<1> HIDE DEF GateInv
<1> QED  BY <1>1, <1>3, <1>4, PTL DEF Spec, NeedsGate
=============================================================================
