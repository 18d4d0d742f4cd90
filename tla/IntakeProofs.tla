---------------------------- MODULE IntakeProofs ----------------------------
(***************************************************************************)
(* What the platform and the MCP callers can rely on, for any number of    *)
(* callers, keys, actions, failing store calls, lost answers and restarts: *)
(* one run per key, no delete after an acknowledgement, no run behind a    *)
(* deleted trigger and no life after an acknowledged cancel.               *)
(***************************************************************************)
EXTENDS Intake, TLAPS

USE IntakeAssumption

Run  == [key : Keys, state : RunState, waits : Nat]
Call == [pc : Pc, key : Keys, run : Nat]

-----------------------------------------------------------------------------
(* The invariant of idempotency *)

\* The action in hand is not a trigger.
NoTrigger == \E i \in todo : Current(i) /\ queue[i].kind # "trigger_run"

\* A task that has found or created a run has the run of its key.  The answer to
\* an approve or a cancel names no run.
HasRun(p) == call[p].run \in RunsOf(call[p].key)
KnowsRun ==
  \A p \in Tasks :
    /\ call[p].pc \in {"event", "submit", "load"} => HasRun(p)
    /\ call[p].pc = "answer" => HasRun(p) \/ (p = Poller /\ NoTrigger)

\* The strengthening that is inductive, given what is known of the queue.
IInv ==
  /\ runs \in Seq(Run)
  /\ call \in [Tasks -> Call]
  /\ answers \subseteq Keys \X DOMAIN runs
  /\ KnowsRun
  /\ OneRunPerKey

-----------------------------------------------------------------------------
(* The queue of the platform and what the poller has of it *)

\* The awaits of start_flow before its answer.
Starting == {"find", "create", "event", "submit", "load"}

\* Every action is queued once, for good, and not before the trigger of its run.
Queue ==
  /\ queue \in Seq(Actions)
  /\ status \in [Actions -> {"none", "pending", "acked", "deleted"}]
  /\ \A i, j \in DOMAIN queue : queue[i] = queue[j] => i = j
  /\ \A i \in DOMAIN queue : status[queue[i]] # "none"
  /\ \A a \in Actions : status[a] # "none" => \E i \in DOMAIN queue : queue[i] = a
  /\ \A j \in DOMAIN queue : queue[j].kind = "trigger_run"
                             \/ \E i \in DOMAIN queue : i < j /\ queue[i] = Trigger(queue[j].run)

\* What the poller has in hand is pending, and the call it is in is about the
\* first of it.
InHand ==
  /\ todo \subseteq DOMAIN queue
  /\ \A i \in todo : status[queue[i]] = "pending"
  /\ \A i \in todo : Current(i) =>
       /\ call[Poller].pc # "idle" => call[Poller].key = queue[i].run
       /\ call[Poller].pc \in Starting => queue[i].kind = "trigger_run"

QInv == Queue /\ InHand /\ call \in [Tasks -> Call]

LEMMA ActionFields ==
  ASSUME NEW a \in Actions
  PROVE  /\ a.kind \in {"trigger_run", "approve", "cancel"} /\ a.run \in PlatformKeys /\ a.run \in Keys
         /\ a.kind = "trigger_run" => a = Trigger(a.run)
         /\ a.kind = "cancel" => a = Cancel(a.run) /\ a.run \in Operated
BY DEF Actions, Trigger, Cancel, Keys

LEMMA TriggerIsAction ==
  ASSUME NEW k \in PlatformKeys
  PROVE  Trigger(k) \in Actions /\ Trigger(k).kind = "trigger_run" /\ Trigger(k).run = k
BY DEF Actions, Trigger

LEMMA OneCurrent ==
  ASSUME QInv, NEW i, NEW j, Current(i), Current(j)
  PROVE  i = j
<1>1. i \in Nat /\ j \in Nat /\ i <= j /\ j <= i  BY DEF QInv, Queue, InHand, Current
<1> QED  BY <1>1

\* A task goes on; the poller stays with its action.
LEMMA TaskGoes ==
  ASSUME QInv, UNCHANGED <<queue, status, todo>>, NEW p \in Tasks, NEW c \in Call,
         call' = [call EXCEPT ![p] = c],
         p = Poller => /\ call[Poller].pc # "idle" /\ c.key = call[Poller].key
                       /\ c.pc \in Starting => call[Poller].pc \in Starting
  PROVE  QInv'
<1>1. Poller \in Tasks /\ call \in [Tasks -> Call]  BY DEF Tasks, QInv
<1>2. call' \in [Tasks -> Call] /\ call'[Poller] = IF p = Poller THEN c ELSE call[Poller]  BY <1>1
<1>3. Queue'  BY DEF QInv, Queue
<1>4. \A i \in todo : Current(i)' => Current(i)  BY DEF Current
<1>5. InHand'  BY <1>2, <1>4 DEF QInv, InHand
<1> QED  BY <1>2, <1>3, <1>5 DEF QInv

\* The poller takes up its current action.
LEMMA PollerTakes ==
  ASSUME QInv, UNCHANGED <<queue, status, todo>>, NEW i, Current(i), NEW pc \in Pc, NEW r \in Nat,
         Become(i, pc, r), pc \in Starting => queue[i].kind = "trigger_run"
  PROVE  QInv' /\ call'[Poller].pc = pc /\ call'[Poller].key = queue[i].run /\ call'[Poller].run = r
<1> DEFINE c == [pc |-> pc, key |-> queue[i].run, run |-> r]
<1>1. Poller \in Tasks /\ call \in [Tasks -> Call]  BY DEF Tasks, QInv
<1>2. i \in DOMAIN queue /\ queue[i] \in Actions  BY DEF QInv, Queue, InHand, Current
<1>3. c \in Call /\ c.pc = pc /\ c.key = queue[i].run /\ c.run = r  BY <1>2, ActionFields DEF Call
<1>4. call' = [call EXCEPT ![Poller] = c]  BY DEF Become
<1> HIDE DEF c
<1>5. call' \in [Tasks -> Call] /\ call'[Poller] = c  BY <1>1, <1>3, <1>4
<1>6. Queue'  BY DEF QInv, Queue
<1>7. \A j \in todo : Current(j)' => j = i  BY OneCurrent DEF Current
<1>8. InHand'  BY <1>3, <1>5, <1>7 DEF QInv, InHand
<1> QED  BY <1>3, <1>5, <1>6, <1>8 DEF QInv

\* The poller is through with its current action.
LEMMA PollerLeaves ==
  ASSUME QInv, UNCHANGED queue, NEW i, Current(i), Leave(i),
         status' \in [Actions -> {"none", "pending", "acked", "deleted"}],
         status'[queue[i]] # "none", \A a \in Actions : a # queue[i] => status'[a] = status[a]
  PROVE  QInv' /\ call'[Poller] = Idle
<1>1. Poller \in Tasks /\ call \in [Tasks -> Call]  BY DEF Tasks, QInv
<1>2. Idle \in Call /\ Idle.pc = "idle"  BY DEF Idle, Call, Pc, Keys
<1>3. call' \in [Tasks -> Call] /\ call'[Poller] = Idle  BY <1>1, <1>2 DEF Leave
<1>4. i \in DOMAIN queue /\ queue[i] \in Actions /\ \A j \in DOMAIN queue : queue[j] \in Actions
  BY DEF QInv, Queue, InHand, Current
<1>5. status[queue[i]] # "none"  BY <1>4 DEF QInv, Queue
<1>6. Queue'  BY <1>4, <1>5 DEF QInv, Queue
<1>7. todo' \subseteq todo /\ i \notin todo'  BY DEF Leave
<1>8. \A j \in todo' : status'[queue[j]] = "pending"  BY <1>4, <1>7 DEF QInv, Queue, InHand
<1>9. InHand'  BY <1>2, <1>3, <1>7, <1>8 DEF QInv, InHand, Starting
<1> QED  BY <1>3, <1>6, <1>9 DEF QInv

LEMMA PollQueue ==
  ASSUME QInv, Poll
  PROVE  QInv'
<1>1. UNCHANGED <<queue, status, call>> /\ call[Poller].pc = "idle"
      /\ todo' = {i \in DOMAIN queue : status[queue[i]] = "pending"}
  BY DEF Poll, At
<1>2. Queue'  BY <1>1 DEF QInv, Queue
<1>3. InHand'  BY <1>1 DEF InHand, Starting
<1> QED  BY <1>1, <1>2, <1>3 DEF QInv

LEMMA EnqueueQueue ==
  ASSUME QInv, NEW a \in Actions, Enqueue(a)
  PROVE  /\ QInv'
         /\ DOMAIN queue \subseteq DOMAIN queue' /\ \A i \in DOMAIN queue : queue'[i] = queue[i]
<1> DEFINE n == Len(queue) + 1
<1>1. /\ queue' = Append(queue, a) /\ status' = [status EXCEPT ![a] = "pending"]
      /\ status[a] = "none" /\ call' = call /\ todo' = todo
      /\ a.kind = "trigger_run" \/ status[Trigger(a.run)] # "none"
  BY DEF Enqueue, tasks
<1>2. queue \in Seq(Actions) /\ status \in [Actions -> {"none", "pending", "acked", "deleted"}]
  BY DEF QInv, Queue
<1>3. /\ queue' \in Seq(Actions) /\ DOMAIN queue' = DOMAIN queue \cup {n} /\ n \notin DOMAIN queue
      /\ queue'[n] = a /\ \A i \in DOMAIN queue : queue'[i] = queue[i] /\ queue[i] \in Actions /\ i < n
  BY <1>1, <1>2
<1> HIDE DEF n
<1>4. \A i \in DOMAIN queue : queue[i] # a  BY <1>1 DEF QInv, Queue
<1>5. status' \in [Actions -> {"none", "pending", "acked", "deleted"}]  BY <1>1, <1>2
<1>6. \A i, j \in DOMAIN queue' : queue'[i] = queue'[j] => i = j  BY <1>3, <1>4 DEF QInv, Queue
<1>7. \A i \in DOMAIN queue' : status'[queue'[i]] # "none"  BY <1>1, <1>2, <1>3 DEF QInv, Queue
<1>8. \A b \in Actions : status'[b] # "none" => \E i \in DOMAIN queue' : queue'[i] = b
  BY <1>1, <1>2, <1>3 DEF QInv, Queue
<1>9. \A j \in DOMAIN queue' : queue'[j].kind = "trigger_run"
                               \/ \E i \in DOMAIN queue' : i < j /\ queue'[i] = Trigger(queue'[j].run)
  <2>1. ASSUME a.kind # "trigger_run" PROVE \E i \in DOMAIN queue : queue[i] = Trigger(a.run)
    <3>1. Trigger(a.run) \in Actions  BY ActionFields, TriggerIsAction
    <3> QED  BY <1>1, <2>1, <3>1 DEF QInv, Queue
  <2>2. CASE a.kind = "trigger_run"  BY <1>3, <2>2 DEF QInv, Queue
  <2>3. CASE a.kind # "trigger_run"  BY <1>3, <2>1, <2>3 DEF QInv, Queue
  <2> QED  BY <2>2, <2>3
<1>10. Queue'  BY <1>3, <1>5, <1>6, <1>7, <1>8, <1>9 DEF Queue
<1>11. todo \subseteq DOMAIN queue /\ \A i \in todo : queue'[i] = queue[i] /\ status'[queue[i]] = "pending"
  BY <1>1, <1>2, <1>3, <1>4 DEF QInv, InHand
<1>12. \A i \in todo : Current(i)' => Current(i)  BY <1>1 DEF Current
<1>13. InHand'  BY <1>1, <1>3, <1>11, <1>12 DEF QInv, InHand
<1> QED  BY <1>1, <1>3, <1>10, <1>13 DEF QInv

LEMMA RestartCalls ==
  ASSUME call \in [Tasks -> Call], Restart
  PROVE  /\ call' \in [Tasks -> Call]
         /\ \A p \in Tasks : call'[p].pc \in {"idle", "done"}
         /\ call'[Poller].pc = "idle"
<1>1. ASSUME NEW p \in Tasks
      PROVE  call'[p] \in Call /\ call'[p].pc \in {"idle", "done"} /\ (p = Poller => call'[p].pc = "idle")
  <2>1. Idle \in Call /\ Idle.pc = "idle"  BY DEF Idle, Call, Pc, Keys
  <2>2. [call[p] EXCEPT !.pc = "done"] \in Call /\ [call[p] EXCEPT !.pc = "done"].pc = "done"
    BY DEF Call, Pc
  <2>3. call'[p] = IF p \in Callers /\ ~At(p, "idle") THEN [call[p] EXCEPT !.pc = "done"] ELSE Idle
    BY DEF Restart
  <2> QED  BY <2>1, <2>2, <2>3
<1>2. call' = [p \in Tasks |-> call'[p]] /\ Poller \in Tasks  BY DEF Restart, Tasks
<1> QED  BY <1>1, <1>2

LEMMA NextQueue == IInv /\ QInv /\ [Next]_vars => QInv'
<1> SUFFICES ASSUME IInv, QInv, [Next]_vars PROVE QInv'  OBVIOUS
<1>0. /\ call \in [Tasks -> Call] /\ Poller \in Tasks /\ \A p \in Tasks : call[p] \in Call
      /\ \A k : RunsOf(k) \subseteq Nat
  BY DEF QInv, IInv, Tasks, RunsOf
<1>1. ASSUME NEW p \in Tasks, StartCall(p) PROVE QInv'
  <2> DEFINE c == [pc |-> "find", key |-> ClientKey, run |-> 0]
  <2>1. c \in Call  BY DEF Call, Pc, Keys
  <2>2. call' = [call EXCEPT ![p] = c] /\ p # Poller /\ UNCHANGED <<queue, status, todo>>
    BY <1>1 DEF StartCall
  <2> HIDE DEF c
  <2> QED  BY <2>1, <2>2, TaskGoes
<1>2. ASSUME NEW p \in Tasks, StartFlow(p) PROVE QInv'
  <2>1. UNCHANGED <<queue, status, todo>>
    BY <1>2 DEF StartFlow, Find, Create, AppendStarted, SubmitStarted, LoadResponse, Reply
  <2>2. ASSUME NEW pc \in Pc, Go(p, pc), call[p].pc # "idle", pc \in Starting => call[p].pc \in Starting
        PROVE  QInv'
    <3> DEFINE c == [call[p] EXCEPT !.pc = pc]
    <3>1. c \in Call /\ c.pc = pc /\ c.key = call[p].key  BY <1>0 DEF Call
    <3>2. call' = [call EXCEPT ![p] = c]  BY <1>0, <2>2 DEF Go
    <3> HIDE DEF c
    <3> QED  BY <2>1, <2>2, <3>1, <3>2, TaskGoes
  <2>3. ASSUME NEW pc \in {"load", "event"}, NEW r \in Nat, GoWith(p, pc, r), call[p].pc \in Starting
        PROVE  QInv'
    <3> DEFINE c == [call[p] EXCEPT !.pc = pc, !.run = r]
    <3>1. c \in Call /\ c.key = call[p].key  BY <1>0 DEF Call, Pc
    <3>2. call' = [call EXCEPT ![p] = c] /\ call[p].pc # "idle"  BY <1>0, <2>3 DEF GoWith, Starting
    <3> HIDE DEF c
    <3> QED  BY <2>1, <2>3, <3>1, <3>2, TaskGoes
  <2>4. CASE Find(p)
    <3>1. call[p].pc \in Starting /\ call[p].pc # "idle"  BY <2>4 DEF Find, At, Starting
    <3>2. \/ \E r \in RunsOf(call[p].key) : GoWith(p, "load", r)
          \/ \E pc \in {"create", "error"} : Go(p, pc)
      BY <2>4 DEF Find
    <3> QED  BY <1>0, <2>2, <2>3, <3>1, <3>2 DEF Pc, Starting
  <2>5. CASE Create(p)
    <3>1. call[p].pc \in Starting /\ call[p].pc # "idle"  BY <2>5 DEF Create, At, Starting
    <3>2. \/ \E r \in RunsOf(call[p].key) : GoWith(p, "load", r)
          \/ GoWith(p, "event", Len(runs) + 1)
          \/ Go(p, "error")
      BY <2>5 DEF Create
    <3>3. Len(runs) + 1 \in Nat  BY DEF IInv
    <3> QED  BY <1>0, <2>2, <2>3, <3>1, <3>2, <3>3 DEF Pc, Starting
  <2>6. CASE AppendStarted(p) \/ SubmitStarted(p) \/ LoadResponse(p)
    <3>1. call[p].pc \in Starting /\ call[p].pc # "idle"
      BY <2>6 DEF AppendStarted, SubmitStarted, LoadResponse, At, Starting
    <3>2. \E pc \in {"submit", "load", "answer", "error"} : Go(p, pc)
      BY <2>6 DEF AppendStarted, SubmitStarted, LoadResponse
    <3> QED  BY <2>2, <3>1, <3>2 DEF Pc
  <2>7. CASE Reply(p)
    <3>1. Go(p, "done") /\ call[p].pc # "idle"  BY <2>7 DEF Reply, At
    <3> QED  BY <2>2, <3>1 DEF Pc, Starting
  <2> QED  BY <1>2, <2>4, <2>5, <2>6, <2>7 DEF StartFlow
<1>3. CASE Poll  BY <1>3, PollQueue
<1>4. ASSUME NEW i \in todo, HandleTrigger(i) \/ HandleApprove(i) \/ HandleCancel(i) PROVE QInv'
  <2>1. Current(i) /\ UNCHANGED <<queue, status>>
    BY <1>4 DEF HandleTrigger, HandleApprove, HandleCancel, Handles
  <2>2. ASSUME NEW pc \in Pc, NEW r \in Nat, Become(i, pc, r), UNCHANGED todo,
               pc \in Starting => queue[i].kind = "trigger_run"
        PROVE  QInv'
    BY <2>1, <2>2, PollerTakes
  <2>3. CASE HandleTrigger(i)
    <3>1. queue[i].kind = "trigger_run" /\ UNCHANGED todo  BY <2>3 DEF HandleTrigger, Handles
    <3>2. \/ \E r \in RunsOf(queue[i].run) : Become(i, "answer", r)
          \/ \E pc \in {"error", "find"} : Become(i, pc, 0)
      BY <2>3 DEF HandleTrigger
    <3> QED  BY <1>0, <2>2, <3>1, <3>2 DEF Pc
  <2>4. CASE HandleApprove(i)
    <3>1. \/ UNCHANGED todo /\ Become(i, "error", 0)
          \/ UNCHANGED todo /\ \E r \in RunsOf(queue[i].run) : Become(i, "answer", r)
          \/ Leave(i)
      BY <2>4 DEF HandleApprove
    <3>2. CASE Leave(i)
      <4>1. \A a \in Actions : status[a] \in {"none", "pending", "acked", "deleted"} /\ status' = status
        BY <2>1 DEF QInv, Queue
      <4>2. status'[queue[i]] # "none" /\ status' \in [Actions -> {"none", "pending", "acked", "deleted"}]
        BY <2>1 DEF QInv, Queue, InHand
      <4> QED  BY <2>1, <3>2, <4>1, <4>2, PollerLeaves
    <3> QED  BY <1>0, <2>2, <3>1, <3>2 DEF Pc, Starting
  <2>5. CASE HandleCancel(i)
    <3>1. Become(i, "answer", 0) /\ UNCHANGED todo  BY <2>5 DEF HandleCancel
    <3> QED  BY <2>2, <3>1 DEF Pc, Starting
  <2> QED  BY <1>4, <2>3, <2>4, <2>5
<1>5. ASSUME NEW i \in todo, Ack(i) \/ Delete(i) PROVE QInv'
  <2>1. Current(i) /\ Leave(i) /\ UNCHANGED queue  BY <1>5 DEF Ack, Delete
  <2>2. queue[i] \in Actions /\ status \in [Actions -> {"none", "pending", "acked", "deleted"}]
        /\ status[queue[i]] # "none"
    BY DEF QInv, Queue, InHand
  <2>3. status' = status \/ \E st \in {"acked", "deleted"} :
          status' = [status EXCEPT ![queue[i]] = st] \/ status' = [status EXCEPT ![queue[i]] = status[queue[i]]]
    BY <1>5 DEF Ack, Delete
  <2>4. /\ status' \in [Actions -> {"none", "pending", "acked", "deleted"}]
        /\ status'[queue[i]] # "none" /\ \A a \in Actions : a # queue[i] => status'[a] = status[a]
    BY <2>2, <2>3
  <2> QED  BY <2>1, <2>4, PollerLeaves
<1>6. ASSUME NEW a \in Actions, Enqueue(a) PROVE QInv'  BY <1>6, EnqueueQueue
<1>7. CASE Restart
  <2>1. call' \in [Tasks -> Call]  BY <1>0, <1>7, RestartCalls
  <2>2. UNCHANGED <<queue, status>> /\ todo' = {}  BY <1>7 DEF Restart
  <2> QED  BY <2>1, <2>2 DEF QInv, Queue, InHand
<1>8. CASE UNCHANGED <<queue, status, call, todo>>
  BY <1>8 DEF QInv, Queue, InHand, Current
<1>9. (\E i \in DOMAIN runs : RunWaits(i) \/ RunEnds(i)) \/ UNCHANGED vars => UNCHANGED <<queue, status, call, todo>>
  BY DEF RunWaits, RunEnds, vars, tasks
<1> QED
  BY <1>1, <1>2, <1>3, <1>4, <1>5, <1>6, <1>7, <1>8, <1>9 DEF Next, PollerStep, HandleAction

\* No step takes a run away or changes its key.
RunsKept ==
  \A i \in DOMAIN runs : i \in DOMAIN runs' /\ runs'[i].key = runs[i].key

LEMMA KeptRuns ==
  ASSUME RunsKept, NEW k, NEW i \in RunsOf(k)
  PROVE  i \in RunsOf(k)'
BY DEF RunsKept, RunsOf

\* A step that creates no run.
LEMMA NoNewRun ==
  ASSUME IInv, RunsKept, DOMAIN runs' = DOMAIN runs
  PROVE  \A i, j \in DOMAIN runs' : runs'[i].key = runs'[j].key => i = j
BY DEF IInv, OneRunPerKey, RunsKept

LEMMA StateTyped ==
  ASSUME NEW r \in Run, NEW st \in RunState
  PROVE  [r EXCEPT !.state = st] \in Run /\ [r EXCEPT !.state = st].key = r.key
BY DEF Run

LEMMA WaitTyped ==
  ASSUME NEW r \in Run, NEW n \in Nat
  PROVE  /\ [r EXCEPT !.state = "waiting", !.waits = n] \in Run
         /\ [r EXCEPT !.state = "waiting", !.waits = n].key = r.key
BY DEF Run, RunState

LEMMA MovesKeeps ==
  ASSUME runs \in Seq(Run), NEW i \in DOMAIN runs, NEW state \in RunState, Moves(i, state)
  PROVE  runs' \in Seq(Run) /\ RunsKept /\ DOMAIN runs' = DOMAIN runs
<1>1. CASE runs[i].state = "over"  BY <1>1 DEF Moves, RunsKept
<1>2. CASE runs[i].state # "over"
  <2>1. runs' = [runs EXCEPT ![i].state = state]  BY <1>2 DEF Moves
  <2>2. runs[i] \in Run /\ [runs[i] EXCEPT !.state = state] \in Run
        /\ [runs[i] EXCEPT !.state = state].key = runs[i].key
    <3>1. runs[i] \in Run  OBVIOUS
    <3> QED  BY <3>1, StateTyped
  <2>3. runs' \in Seq(Run)  BY <2>1, <2>2
  <2>4. DOMAIN runs' = DOMAIN runs  BY <2>1
  <2>5. ASSUME NEW j \in DOMAIN runs PROVE runs'[j].key = runs[j].key
    <3>1. CASE j = i  BY <2>1, <2>2, <3>1
    <3>2. CASE j # i  BY <2>1, <3>2
    <3> QED  BY <3>1, <3>2
  <2> QED  BY <2>3, <2>4, <2>5 DEF RunsKept
<1> QED  BY <1>1, <1>2

\* Tasks that stay where they are, or that go where no run is known.
LEMMA CallKeeps ==
  ASSUME IInv, RunsKept, NEW p \in Tasks, NEW c \in Call, call' = [call EXCEPT ![p] = c],
         UNCHANGED <<queue, todo>> \/ p = Poller,
         c.pc \in {"event", "submit", "load"} => c.run \in RunsOf(c.key)',
         c.pc = "answer" => c.run \in RunsOf(c.key)' \/ (p = Poller /\ NoTrigger')
  PROVE  call' \in [Tasks -> Call] /\ KnowsRun'
<1>1. call \in [Tasks -> Call] /\ call' \in [Tasks -> Call]  BY DEF IInv
<1>2. call'[p] = c /\ \A q \in Tasks : q # p => call'[q] = call[q]  BY <1>1
<1>3. ASSUME NEW q \in Tasks, q # p
      PROVE  /\ call'[q].pc \in {"event", "submit", "load"} => HasRun(q)'
             /\ call'[q].pc = "answer" => HasRun(q)' \/ (q = Poller /\ NoTrigger')
  <2>1. HasRun(q) => HasRun(q)'  BY <1>2, <1>3, KeptRuns DEF HasRun
  <2>2. q = Poller => (NoTrigger => NoTrigger')  BY <1>3 DEF NoTrigger, Current
  <2> QED  BY <1>2, <1>3, <2>1, <2>2 DEF IInv, KnowsRun
<1>4. /\ call'[p].pc \in {"event", "submit", "load"} => HasRun(p)'
      /\ call'[p].pc = "answer" => HasRun(p)' \/ (p = Poller /\ NoTrigger')
  BY <1>2 DEF HasRun
<1> QED  BY <1>1, <1>3, <1>4 DEF KnowsRun

\* What a step that creates no run has to keep.
LEMMA OldRuns ==
  ASSUME IInv, runs' \in Seq(Run), RunsKept, DOMAIN runs' = DOMAIN runs,
         call' \in [Tasks -> Call], KnowsRun', answers' = answers
  PROVE  IInv'
<1>1. \A x \in answers : runs'[x[2]].key = x[1]  BY DEF IInv, OneRunPerKey, RunsKept
<1> QED  BY <1>1, NoNewRun DEF IInv, OneRunPerKey

LEMMA SameRuns ==
  ASSUME IInv, UNCHANGED runs
  PROVE  runs' \in Seq(Run) /\ RunsKept /\ DOMAIN runs' = DOMAIN runs
BY DEF IInv, RunsKept

\* A step of one task that only changes where that task is.
LEMMA GoKeeps ==
  ASSUME IInv, NEW p \in Tasks, NEW c \in Call, call' = [call EXCEPT ![p] = c],
         UNCHANGED <<runs, answers>>, UNCHANGED <<queue, todo>> \/ p = Poller,
         c.pc \in {"event", "submit", "load"} => c.run \in RunsOf(c.key),
         c.pc = "answer" => c.run \in RunsOf(c.key) \/ (p = Poller /\ NoTrigger')
  PROVE  IInv'
<1>1. RunsOf(c.key)' = RunsOf(c.key)  BY DEF RunsOf
<1> QED  BY <1>1, SameRuns, CallKeeps, OldRuns

\* Steps during which no task moves.
LEMMA StillKeeps ==
  ASSUME IInv, UNCHANGED <<runs, call, todo, answers>>, NoTrigger => NoTrigger'
  PROVE  IInv'
BY DEF IInv, KnowsRun, HasRun, RunsOf, OneRunPerKey

LEMMA PollKeeps ==
  ASSUME IInv, Poll
  PROVE  IInv'
<1>1. runs' = runs /\ call' = call /\ answers' = answers /\ call[Poller].pc = "idle"  BY DEF Poll, At
<1> QED  BY <1>1 DEF IInv, KnowsRun, HasRun, RunsOf, OneRunPerKey

\* An answer that names the run of its key.
LEMMA AnswerKeeps ==
  ASSUME IInv, UNCHANGED runs, call' \in [Tasks -> Call], KnowsRun',
         NEW k \in Keys, NEW i \in RunsOf(k), answers' = answers \cup {<<k, i>>}
  PROVE  IInv'
<1>1. i \in DOMAIN runs /\ runs[i].key = k  BY DEF RunsOf
<1>2. answers' \subseteq Keys \X DOMAIN runs'  BY <1>1 DEF IInv
<1>3. \A x \in answers' : runs'[x[2]].key = x[1]  BY <1>1 DEF IInv, OneRunPerKey
<1> QED  BY <1>2, <1>3 DEF IInv, OneRunPerKey

LEMMA AckKeeps ==
  ASSUME IInv, QInv, NEW i, Ack(i)
  PROVE  IInv'
<1>0. Poller \in Tasks /\ call \in [Tasks -> Call]  BY DEF IInv, Tasks
<1>1. Idle \in Call /\ Idle.pc = "idle"  BY DEF Idle, Call, Pc, Keys
<1>2. /\ call' = [call EXCEPT ![Poller] = Idle] /\ runs' = runs /\ call[Poller].pc = "answer" /\ Current(i)
  BY DEF Ack, Leave, At
<1>3. call' \in [Tasks -> Call] /\ KnowsRun'  BY <1>0, <1>1, <1>2, SameRuns, CallKeeps
<1>4. CASE queue[i].kind = "trigger_run"
  <2>1. ~NoTrigger  BY <1>2, <1>4, OneCurrent DEF NoTrigger
  <2>2. HasRun(Poller)  BY <1>0, <1>2, <2>1 DEF IInv, KnowsRun
  <2>3. answers' = answers \cup {<<call[Poller].key, call[Poller].run>>}  BY <1>4 DEF Ack
  <2>4. call[Poller].key \in Keys  BY <1>0 DEF Call
  <2> QED  BY <1>2, <1>3, <2>2, <2>3, <2>4, AnswerKeeps DEF HasRun
<1>5. CASE queue[i].kind # "trigger_run"
  <2>1. answers' = answers  BY <1>5 DEF Ack
  <2> QED  BY <1>2, <1>3, <2>1, SameRuns, OldRuns
<1> QED  BY <1>4, <1>5

\* The poller goes where it knows the run, if it has to.
LEMMA BecomeKeeps ==
  ASSUME IInv, QInv, NEW i, Current(i), NEW pc \in {"find", "answer", "error"}, NEW n \in Nat, Become(i, pc, n),
         runs' \in Seq(Run), RunsKept, DOMAIN runs' = DOMAIN runs, UNCHANGED <<queue, todo, answers>>,
         pc = "answer" => n \in RunsOf(queue[i].run) \/ queue[i].kind # "trigger_run"
  PROVE  IInv'
<1> SUFFICES ASSUME NEW k, k = queue[i].run PROVE IInv'  OBVIOUS
<1> SUFFICES ASSUME NEW c, c = [pc |-> pc, key |-> k, run |-> n] PROVE IInv'  OBVIOUS
<1>1. queue[i] \in Actions /\ k \in Keys /\ Poller \in Tasks
  <2>1. queue[i] \in Actions  BY DEF QInv, Queue, InHand, Current
  <2> QED  BY <2>1, ActionFields DEF Tasks
<1>2. c \in Call /\ c.pc = pc /\ c.run = n /\ c.key = k  BY <1>1 DEF Call, Pc
<1>3. call' = [call EXCEPT ![Poller] = c]  BY DEF Become
<1>4. queue[i].kind # "trigger_run" => NoTrigger'  BY DEF NoTrigger, Current
<1>5. n \in RunsOf(k) => n \in RunsOf(k)'  BY KeptRuns
<1>6. c.pc = "answer" => c.run \in RunsOf(c.key)' \/ NoTrigger'  BY <1>2, <1>4, <1>5
<1>7. call' \in [Tasks -> Call] /\ KnowsRun'  BY <1>1, <1>2, <1>3, <1>6, CallKeeps
<1> QED  BY <1>7, OldRuns

LEMMA ApproveKeeps ==
  ASSUME IInv, QInv, NEW i, HandleApprove(i)
  PROVE  IInv'
<1> DEFINE k == queue[i].run
<1>0. /\ runs \in Seq(Run) /\ Poller \in Tasks /\ call \in [Tasks -> Call]
      /\ RunsOf(k) \subseteq DOMAIN runs /\ RunsOf(k) \subseteq Nat /\ Current(i)
      /\ queue[i].kind = "approve" /\ UNCHANGED <<queue, answers>>
  BY DEF IInv, Tasks, RunsOf, HandleApprove, Handles
<1>1. CASE Become(i, "error", 0) /\ UNCHANGED <<runs, todo>>
  BY <1>0, <1>1, SameRuns, BecomeKeeps
<1>2. ASSUME NEW r \in RunsOf(k), Moves(r, "running") \/ UNCHANGED runs, UNCHANGED todo,
             Become(i, "answer", r)
      PROVE  IInv'
  <2>1. runs' \in Seq(Run) /\ RunsKept /\ DOMAIN runs' = DOMAIN runs
    BY <1>0, <1>2, MovesKeeps, SameRuns DEF RunState
  <2> QED  BY <1>0, <1>2, <2>1, BecomeKeeps
<1>3. CASE Leave(i) /\ UNCHANGED runs
  <2>1. Idle \in Call /\ Idle.pc = "idle"  BY DEF Idle, Call, Pc, Keys
  <2>2. call' = [call EXCEPT ![Poller] = Idle]  BY <1>3 DEF Leave
  <2> QED  BY <1>0, <1>3, <2>1, <2>2, GoKeeps
<1> QED  BY <1>0, <1>1, <1>2, <1>3 DEF HandleApprove

\* A run that moves on by itself.
LEMMA RunMoves ==
  ASSUME IInv, NEW i \in DOMAIN runs, RunWaits(i) \/ RunEnds(i)
  PROVE  IInv'
<1>1. runs \in Seq(Run) /\ call' = call /\ answers' = answers /\ (NoTrigger => NoTrigger')
  BY DEF IInv, RunWaits, RunEnds, tasks, NoTrigger, Current
<1>2. runs' \in Seq(Run) /\ RunsKept /\ DOMAIN runs' = DOMAIN runs
  <2>1. CASE RunEnds(i)  BY <1>1, <2>1, MovesKeeps DEF RunEnds, RunState
  <2>2. CASE RunWaits(i)
    <3> DEFINE new == [runs[i] EXCEPT !.state = "waiting", !.waits = @ + 1]
    <3>1. runs[i] \in Run /\ new \in Run /\ new.key = runs[i].key
      <4>1. runs[i] \in Run  BY <1>1
      <4>2. runs[i].waits + 1 \in Nat  BY <4>1 DEF Run
      <4> QED  BY <4>1, <4>2, WaitTyped
    <3>2. runs' = [runs EXCEPT ![i] = new]  BY <1>1, <2>2 DEF RunWaits
    <3> HIDE DEF new
    <3>3. runs' \in Seq(Run) /\ DOMAIN runs' = DOMAIN runs  BY <1>1, <3>1, <3>2
    <3>4. \A j \in DOMAIN runs : runs'[j].key = runs[j].key  BY <3>1, <3>2
    <3> QED  BY <3>3, <3>4 DEF RunsKept
  <2> QED  BY <2>1, <2>2
<1>3. \A p \in Tasks : HasRun(p) => HasRun(p)'  BY <1>1, <1>2, KeptRuns DEF HasRun
<1>4. KnowsRun'  BY <1>1, <1>3 DEF IInv, KnowsRun
<1> QED  BY <1>1, <1>2, <1>4, OldRuns DEF IInv

LEMMA RestartKeeps ==
  ASSUME IInv, Restart
  PROVE  IInv'
<1>0. runs \in Seq(Run) /\ call \in [Tasks -> Call] /\ answers' = answers  BY DEF IInv, Restart
<1>1. /\ runs' \in Seq(Run) /\ RunsKept /\ DOMAIN runs' = DOMAIN runs
  <2>1. \A i \in DOMAIN runs : /\ runs[i] \in Run /\ [runs[i] EXCEPT !.state = "running"] \in Run
                               /\ [runs[i] EXCEPT !.state = "running"].key = runs[i].key
    <3>1. \A i \in DOMAIN runs : runs[i] \in Run  BY <1>0
    <3>2. "running" \in RunState  BY DEF RunState
    <3> QED  BY <3>1, <3>2, StateTyped
  <2>2. runs' = [i \in DOMAIN runs |-> IF runs[i].state = "created" THEN [runs[i] EXCEPT !.state = "running"]
                                       ELSE runs[i]]
    BY DEF Restart
  <2>3. DOMAIN runs' = 1 .. Len(runs) /\ Len(runs) \in Nat /\ DOMAIN runs = 1 .. Len(runs)  BY <1>0, <2>2
  <2>4. \A i \in DOMAIN runs : runs'[i] \in Run /\ runs'[i].key = runs[i].key  BY <2>1, <2>2
  <2>5. runs' \in Seq(Run)  BY <2>2, <2>3, <2>4
  <2> QED  BY <2>3, <2>4, <2>5 DEF RunsKept
<1>3. call' \in [Tasks -> Call] /\ \A p \in Tasks : call'[p].pc \in {"idle", "done"}
  BY <1>0, RestartCalls
<1>4. KnowsRun'  BY <1>3 DEF KnowsRun
<1> QED  BY <1>0, <1>1, <1>3, <1>4, OldRuns

LEMMA NextUnique == IInv /\ QInv /\ [Next]_vars => IInv'
<1> SUFFICES ASSUME IInv, QInv, [Next]_vars PROVE IInv'  OBVIOUS
<1>0. /\ runs \in Seq(Run) /\ call \in [Tasks -> Call] /\ Poller \in Tasks
      /\ \A p \in Tasks : call[p].key \in Keys
      /\ \A k : RunsOf(k) \subseteq DOMAIN runs /\ RunsOf(k) \subseteq Nat
  BY DEF IInv, Call, Tasks, RunsOf
<1>1. ASSUME NEW p \in Tasks, StartCall(p) PROVE IInv'
  <2> DEFINE c == [pc |-> "find", key |-> ClientKey, run |-> 0]
  <2>1. c \in Call  BY DEF Call, Pc, Keys
  <2> QED  BY <1>1, <2>1, GoKeeps DEF StartCall
<1>2. ASSUME NEW p \in Tasks, NEW pc \in {"create", "error", "submit", "done"},
             Go(p, pc), pc = "submit" => At(p, "event"), UNCHANGED <<runs, answers, todo, queue>>
      PROVE  IInv'
  <2> DEFINE c == [call[p] EXCEPT !.pc = pc]
  <2>1. c \in Call /\ c.pc = pc /\ c.run = call[p].run /\ c.key = call[p].key  BY <1>0 DEF Call, Pc
  <2>2. pc = "submit" => c.run \in RunsOf(c.key)  BY <1>2, <2>1 DEF IInv, KnowsRun, HasRun, At
  <2>3. call' = [call EXCEPT ![p] = c]  BY <1>0, <1>2 DEF Go
  <2> HIDE DEF c
  <2> QED  BY <1>2, <2>1, <2>2, <2>3, GoKeeps
<1>3. ASSUME NEW p \in Tasks, NEW i \in RunsOf(call[p].key), GoWith(p, "load", i),
             UNCHANGED <<runs, answers, todo, queue>>
      PROVE  IInv'
  <2> DEFINE c == [call[p] EXCEPT !.pc = "load", !.run = i]
  <2>1. c \in Call /\ c.pc = "load" /\ c.run = i /\ c.key = call[p].key  BY <1>0 DEF Call, Pc
  <2>2. call' = [call EXCEPT ![p] = c]  BY <1>0, <1>3 DEF GoWith
  <2> HIDE DEF c
  <2> QED  BY <1>3, <2>1, <2>2, GoKeeps
<1>4. ASSUME NEW p \in Tasks, Find(p) PROVE IInv'
  BY <1>2, <1>3, <1>4 DEF Find
<1>5. ASSUME NEW p \in Tasks, Create(p) PROVE IInv'
  <2> SUFFICES ASSUME NEW k, k = call[p].key PROVE IInv'  OBVIOUS
  <2> SUFFICES ASSUME NEW n, n = Len(runs) + 1 PROVE IInv'  OBVIOUS
  <2> SUFFICES ASSUME NEW new, new = [key |-> k, state |-> "created", waits |-> 0] PROVE IInv'  OBVIOUS
  <2> SUFFICES ASSUME NEW c, c = [call[p] EXCEPT !.pc = "event", !.run = n] PROVE IInv'  OBVIOUS
  <2>0. /\ k \in Keys /\ n \in Nat
        /\ new \in Run /\ new.key = k
        /\ c \in Call /\ c.pc = "event" /\ c.run = n /\ c.key = k
        /\ GoWith(p, "event", n) => call' = [call EXCEPT ![p] = c]
    <3>1. k \in Keys /\ n \in Nat  BY <1>0
    <3>2. "created" \in RunState  BY DEF RunState
    <3>3. new \in Run /\ new.key = k  BY <3>1, <3>2 DEF Run
    <3>4. c \in Call /\ c.pc = "event" /\ c.run = n /\ c.key = k  BY <1>0, <3>1 DEF Call, Pc
    <3>5. GoWith(p, "event", n) => call' = [call EXCEPT ![p] = c]  BY <1>0 DEF GoWith
    <3> QED  BY <3>1, <3>3, <3>4, <3>5
  <2>1. CASE RunsOf(k) = {} /\ runs' = Append(runs, new) /\ GoWith(p, "event", n)
             /\ UNCHANGED <<todo, answers, queue>>
    <3>0. runs' = Append(runs, new) /\ call' = [call EXCEPT ![p] = c] /\ RunsOf(k) = {}
          /\ UNCHANGED <<todo, answers, queue>>
      BY <2>0, <2>1
    <3>4. /\ runs' \in Seq(Run) /\ DOMAIN runs' = DOMAIN runs \cup {n} /\ n \notin DOMAIN runs
          /\ runs'[n] = new /\ \A i \in DOMAIN runs : runs'[i] = runs[i]
      BY <1>0, <2>0, <3>0
    <3>5. RunsKept  BY <3>4 DEF RunsKept
    <3>6. n \in RunsOf(k)'  BY <2>0, <3>4 DEF RunsOf
    <3>7. call' \in [Tasks -> Call] /\ KnowsRun'  BY <2>0, <3>0, <3>5, <3>6, CallKeeps
    <3>8. \A i \in DOMAIN runs : runs'[i].key # runs'[n].key  BY <2>0, <3>0, <3>4 DEF RunsOf
    <3>9. \A i, j \in DOMAIN runs' : runs'[i].key = runs'[j].key => i = j
      BY <3>4, <3>8 DEF IInv, OneRunPerKey
    <3>10. /\ answers' \subseteq Keys \X DOMAIN runs'
           /\ \A x \in answers' : runs'[x[2]].key = x[1]
      BY <3>0, <3>4 DEF IInv, OneRunPerKey
    <3> QED  BY <3>4, <3>7, <3>9, <3>10 DEF IInv, OneRunPerKey
  <2>2. CASE \E i \in RunsOf(k) : GoWith(p, "load", i) /\ UNCHANGED <<runs, todo, answers, queue>>
    BY <1>3, <2>2
  <2>3. CASE Go(p, "error") /\ UNCHANGED <<runs, todo, answers, queue>>  BY <1>2, <2>3
  <2> QED  BY <1>5, <2>1, <2>2, <2>3 DEF Create, At
<1>6. ASSUME NEW p \in Tasks, AppendStarted(p) PROVE IInv'
  BY <1>2, <1>6 DEF AppendStarted
<1>7. ASSUME NEW p \in Tasks, SubmitStarted(p) PROVE IInv'
  <2> SUFFICES ASSUME NEW c, c = [call[p] EXCEPT !.pc = "load"] PROVE IInv'  OBVIOUS
  <2>1. c \in Call /\ c.pc = "load" /\ c.run = call[p].run /\ c.key = call[p].key  BY <1>0 DEF Call, Pc
  <2>2. call[p].run \in RunsOf(call[p].key)  BY <1>7 DEF SubmitStarted, At, IInv, KnowsRun, HasRun
  <2>3. runs' \in Seq(Run) /\ RunsKept /\ DOMAIN runs' = DOMAIN runs
    <3>1. call[p].run \in DOMAIN runs  BY <1>0, <2>2
    <3>2. Moves(call[p].run, "running") \/ UNCHANGED runs  BY <1>7 DEF SubmitStarted
    <3>3. "running" \in RunState  BY DEF RunState
    <3> QED  BY <1>0, <3>1, <3>2, <3>3, MovesKeeps, SameRuns
  <2>4. c.run \in RunsOf(c.key)'  BY <2>1, <2>2, <2>3, KeptRuns
  <2>5. call' = [call EXCEPT ![p] = c] /\ UNCHANGED <<todo, answers, queue>>  BY <1>0, <1>7 DEF SubmitStarted, Go
  <2> QED  BY <2>1, <2>3, <2>4, <2>5, CallKeeps, OldRuns
<1>8. ASSUME NEW p \in Tasks, LoadResponse(p) PROVE IInv'
  <2>1. CASE Go(p, "answer")
    <3> DEFINE c == [call[p] EXCEPT !.pc = "answer"]
    <3>1. c \in Call /\ c.pc = "answer" /\ c.run = call[p].run /\ c.key = call[p].key  BY <1>0 DEF Call, Pc
    <3>2. c.run \in RunsOf(c.key)  BY <1>8, <3>1 DEF LoadResponse, At, IInv, KnowsRun, HasRun
    <3>3. call' = [call EXCEPT ![p] = c] /\ UNCHANGED <<runs, todo, answers, queue>>
      BY <1>0, <1>8, <2>1 DEF LoadResponse, Go
    <3> HIDE DEF c
    <3> QED  BY <3>1, <3>2, <3>3, GoKeeps
  <2>2. CASE Go(p, "error")  BY <1>2, <1>8, <2>2 DEF LoadResponse
  <2> QED  BY <1>8, <2>1, <2>2 DEF LoadResponse
<1>9. ASSUME NEW p \in Tasks, Reply(p) PROVE IInv'
  <2>1. CASE UNCHANGED answers  BY <1>2, <1>9, <2>1 DEF Reply
  <2>2. CASE At(p, "answer") /\ answers' = answers \cup {<<call[p].key, call[p].run>>}
    <3>1. HasRun(p)  BY <1>9, <2>2 DEF Reply, At, IInv, KnowsRun
    <3> DEFINE c == [call[p] EXCEPT !.pc = "done"]
    <3>2. c \in Call /\ c.pc = "done"  BY <1>0 DEF Call, Pc
    <3>3. call' = [call EXCEPT ![p] = c] /\ UNCHANGED <<runs, todo, queue>>  BY <1>0, <1>9 DEF Reply, Go
    <3> HIDE DEF c
    <3>4. call' \in [Tasks -> Call] /\ KnowsRun'  BY <3>2, <3>3, SameRuns, CallKeeps
    <3> QED  BY <1>0, <2>2, <3>1, <3>3, <3>4, AnswerKeeps DEF HasRun
  <2> QED  BY <1>9, <2>1, <2>2 DEF Reply
<1>10. CASE Poll
  BY <1>10, PollKeeps
<1>11. ASSUME NEW i \in todo, HandleTrigger(i) PROVE IInv'
  <2>1. Current(i) /\ UNCHANGED <<runs, queue, todo, answers>>  BY <1>11 DEF HandleTrigger, Handles
  <2>2. \/ \E r \in RunsOf(queue[i].run) : Become(i, "answer", r)
        \/ \E pc \in {"error", "find"} : Become(i, pc, 0)
    BY <1>11 DEF HandleTrigger
  <2> QED  BY <1>0, <2>1, <2>2, SameRuns, BecomeKeeps
<1>12. ASSUME NEW i \in todo, HandleApprove(i) PROVE IInv'
  BY <1>12, ApproveKeeps
<1>13. ASSUME NEW i \in todo, HandleCancel(i) PROVE IInv'
  <2>1. Current(i) /\ queue[i].kind = "cancel" /\ Become(i, "answer", 0) /\ UNCHANGED <<queue, todo, answers>>
    BY <1>13 DEF HandleCancel, Handles
  <2>2. runs' \in Seq(Run) /\ RunsKept /\ DOMAIN runs' = DOMAIN runs
    BY <1>0, <1>13, MovesKeeps, SameRuns DEF HandleCancel, RunState
  <2> QED  BY <2>1, <2>2, BecomeKeeps
<1>14. ASSUME NEW i \in todo, Ack(i) PROVE IInv'
  BY <1>14, AckKeeps
<1>15. ASSUME NEW i \in todo, Delete(i) PROVE IInv'
  <2>1. Idle \in Call /\ Idle.pc = "idle"  BY DEF Idle, Call, Pc, Keys
  <2>2. call' = [call EXCEPT ![Poller] = Idle] /\ UNCHANGED <<runs, answers>>  BY <1>15 DEF Delete, Leave
  <2> QED  BY <1>0, <2>1, <2>2, GoKeeps
<1>16. ASSUME NEW a \in Actions, Enqueue(a) PROVE IInv'
  <2>1. UNCHANGED <<runs, call, todo, answers>>  BY <1>16 DEF Enqueue, tasks
  <2>2. todo \subseteq DOMAIN queue /\ \A i \in DOMAIN queue : queue'[i] = queue[i]
    BY <1>16, EnqueueQueue DEF QInv, InHand
  <2>3. NoTrigger => NoTrigger'  BY <2>1, <2>2 DEF NoTrigger, Current
  <2> QED  BY <2>1, <2>3, StillKeeps
<1>17. ASSUME NEW i \in DOMAIN runs, RunWaits(i) \/ RunEnds(i) PROVE IInv'
  BY <1>17, RunMoves
<1>18. CASE Restart
  BY <1>18, RestartKeeps
<1>19. CASE UNCHANGED vars
  BY <1>19, StillKeeps DEF vars, tasks, NoTrigger, Current
<1> QED
  BY <1>1, <1>4, <1>5, <1>6, <1>7, <1>8, <1>9, <1>10, <1>11, <1>12, <1>13, <1>14, <1>15, <1>16, <1>17,
     <1>18, <1>19
  DEF Next, StartFlow, PollerStep, HandleAction

LEMMA InitUnique == Init => IInv /\ QInv
<1> SUFFICES ASSUME Init PROVE IInv /\ QInv  OBVIOUS
<1>1. Idle \in Call /\ Idle.pc = "idle"  BY DEF Idle, Call, Pc, Keys
<1>2. runs = <<>> /\ DOMAIN runs = {} /\ runs \in Seq(Run)  BY DEF Init
<1>3. queue = <<>> /\ DOMAIN queue = {} /\ queue \in Seq(Actions)  BY DEF Init
<1>4. IInv  BY <1>1, <1>2 DEF Init, IInv, KnowsRun, OneRunPerKey
<1>5. QInv  BY <1>1, <1>3 DEF Init, QInv, Queue, InHand
<1> QED  BY <1>4, <1>5

LEMMA Always == Spec => [](IInv /\ QInv)
<1>1. IInv /\ QInv /\ [Next]_vars => (IInv /\ QInv)'  BY NextUnique, NextQueue
<1> QED  BY <1>1, InitUnique, PTL DEF Spec

\* For any number of callers and keys, however calls with one key race, retry or
\* fail, triggers are redelivered and the runtime restarts: there is one run of a
\* key, and everybody is told that run.
THEOREM OneRunForEveryKey == Spec => []OneRunPerKey
<1>1. IInv => OneRunPerKey  BY DEF IInv
<1> QED  BY <1>1, Always, PTL

-----------------------------------------------------------------------------
(* What is acknowledged is not deleted *)

LEMMA StatusStep ==
  ASSUME IInv, QInv, [Next]_vars, NEW a \in Actions, status'[a] # status[a]
  PROVE  \/ Enqueue(a)
         \/ \E i \in todo : (Ack(i) \/ Delete(i)) /\ Current(i) /\ queue[i] = a /\ status[a] = "pending"
                            /\ (Ack(i) => status'[a] = "acked") /\ (Delete(i) => status'[a] = "deleted")
<1>0. status \in [Actions -> {"none", "pending", "acked", "deleted"}]  BY DEF QInv, Queue
<1>1. ASSUME NEW b \in Actions, Enqueue(b) PROVE Enqueue(a)
  <2>1. status' = [status EXCEPT ![b] = "pending"]  BY <1>1 DEF Enqueue
  <2>2. a = b  BY <1>0, <2>1
  <2> QED  BY <1>1, <2>2
<1>2. ASSUME NEW i \in todo, Ack(i) \/ Delete(i)
      PROVE  /\ Current(i) /\ queue[i] = a /\ status[a] = "pending"
             /\ (Ack(i) => status'[a] = "acked") /\ (Delete(i) => status'[a] = "deleted")
  <2>1. Current(i) /\ queue[i] \in Actions /\ status[queue[i]] = "pending"
    BY <1>2 DEF Ack, Delete, QInv, Queue, InHand
  <2>2. Ack(i) => status' = status \/ status' = [status EXCEPT ![queue[i]] = "acked"]
    BY <1>0, <2>1 DEF Ack
  <2>3. Delete(i) => status' = status \/ status' = [status EXCEPT ![queue[i]] = "deleted"]
    BY DEF Delete
  <2>4. queue[i] = a  BY <1>0, <1>2, <2>1, <2>2, <2>3
  <2>5. Ack(i) => status'[a] = "acked"  BY <1>0, <2>2, <2>4
  <2>6. Delete(i) => status'[a] = "deleted"  BY <1>0, <2>3, <2>4
  <2> QED  BY <2>1, <2>4, <2>5, <2>6
<1>3. ASSUME NEW p \in Tasks, StartCall(p) \/ StartFlow(p) PROVE status' = status
  BY <1>3 DEF StartCall, StartFlow, Find, Create, AppendStarted, SubmitStarted, LoadResponse, Reply
<1>4. ASSUME NEW i \in todo, HandleTrigger(i) \/ HandleApprove(i) \/ HandleCancel(i) PROVE status' = status
  BY <1>4 DEF HandleTrigger, HandleApprove, HandleCancel
<1>5. Poll \/ Restart \/ UNCHANGED vars \/ (\E i \in DOMAIN runs : RunWaits(i) \/ RunEnds(i)) => status' = status
  BY DEF Poll, Restart, vars, RunWaits, RunEnds
<1> QED  BY <1>1, <1>2, <1>3, <1>4, <1>5 DEF Next, PollerStep, HandleAction

\* For any queue, however often its actions are delivered and whatever answers
\* are lost: the poller never deletes an action that it has acknowledged.
THEOREM AckedIsFinal == Spec => NeverDeletesAcked
<1>1. ASSUME IInv /\ QInv, [Next]_vars, NEW a \in Actions, status[a] = "acked" PROVE status'[a] # "deleted"
  <2>1. CASE status'[a] = status[a]  BY <1>1, <2>1
  <2>2. CASE status'[a] # status[a]
    <3>1. ~Enqueue(a)  BY <1>1 DEF Enqueue
    <3> QED  BY <1>1, <2>2, <3>1, StatusStep
  <2> QED  BY <2>1, <2>2
<1>2. IInv /\ QInv /\ [Next]_vars => [\A a \in Actions : status[a] = "acked" => status'[a] # "deleted"]_vars
  BY <1>1
<1> QED  BY <1>2, Always, PTL DEF Spec, NeverDeletesAcked

-----------------------------------------------------------------------------
(* How the runs go on *)

\* A run keeps its key, and over stays over.
Onward(i) ==
  /\ runs'[i].key = runs[i].key
  /\ runs[i].state = "over" => runs'[i].state = "over"
  /\ runs[i].waits \in 0 .. MaxWaits => runs'[i].waits \in 0 .. MaxWaits

RunsGoOn == \A i \in DOMAIN runs : i \in DOMAIN runs' /\ Onward(i)

\* A new run is the first of the key of a task that creates it.
NewRun(i) ==
  /\ runs'[i].waits = 0
  /\ RunsOf(runs'[i].key) = {}
  /\ \E p \in Tasks : At(p, "create") /\ call[p].key = runs'[i].key

LEMMA Advances ==
  ASSUME NEW r \in Run, NEW st \in RunState
  PROVE  [r EXCEPT !.state = st].state = st /\ [r EXCEPT !.state = st].waits = r.waits
BY DEF Run

LEMMA MovesOn ==
  ASSUME runs \in Seq(Run), NEW i \in DOMAIN runs, NEW st \in RunState, Moves(i, st)
  PROVE  RunsGoOn /\ DOMAIN runs' = DOMAIN runs
<1>1. CASE runs[i].state = "over"  BY <1>1 DEF Moves, RunsGoOn, Onward
<1>2. CASE runs[i].state # "over"
  <2> SUFFICES ASSUME NEW new, new = [runs[i] EXCEPT !.state = st] PROVE RunsGoOn /\ DOMAIN runs' = DOMAIN runs
    OBVIOUS
  <2>1. runs' = [runs EXCEPT ![i] = new] /\ runs[i] \in Run  BY <1>2 DEF Moves
  <2>2. new.key = runs[i].key /\ new.waits = runs[i].waits  BY <2>1, Advances, StateTyped
  <2>3. \A j \in DOMAIN runs : runs'[j] = IF j = i THEN new ELSE runs[j]  BY <2>1
  <2> QED  BY <1>2, <2>1, <2>2, <2>3 DEF RunsGoOn, Onward
<1> QED  BY <1>1, <1>2

LEMMA NextRuns ==
  ASSUME IInv, [Next]_vars
  PROVE  RunsGoOn /\ \A i \in DOMAIN runs' : i \in DOMAIN runs \/ NewRun(i)
<1>0. runs \in Seq(Run) /\ \A k : RunsOf(k) \subseteq DOMAIN runs  BY DEF IInv, RunsOf
<1> DEFINE G == RunsGoOn /\ DOMAIN runs' = DOMAIN runs
<1>1. ASSUME NEW p \in Tasks, StartCall(p) \/ Find(p) \/ AppendStarted(p) \/ LoadResponse(p) \/ Reply(p)
      PROVE  runs' = runs
  BY <1>1 DEF StartCall, Find, AppendStarted, LoadResponse, Reply
<1>2. ASSUME NEW p \in Tasks, SubmitStarted(p) PROVE G
  <2>1. call[p].run \in DOMAIN runs  BY <1>0, <1>2 DEF SubmitStarted, At, IInv, KnowsRun, HasRun
  <2>2. Moves(call[p].run, "running") \/ runs' = runs  BY <1>2 DEF SubmitStarted
  <2> QED  BY <1>0, <2>1, <2>2, MovesOn DEF RunState, RunsGoOn, Onward
<1>3. ASSUME NEW p \in Tasks, Create(p), runs' # runs
      PROVE  RunsGoOn /\ \A i \in DOMAIN runs' : i \in DOMAIN runs \/ NewRun(i)
  <2> SUFFICES ASSUME NEW k, k = call[p].key PROVE RunsGoOn /\ \A i \in DOMAIN runs' : i \in DOMAIN runs \/ NewRun(i)
    OBVIOUS
  <2> SUFFICES ASSUME NEW new, new = [key |-> k, state |-> "created", waits |-> 0]
               PROVE  RunsGoOn /\ \A i \in DOMAIN runs' : i \in DOMAIN runs \/ NewRun(i)
    OBVIOUS
  <2>1. RunsOf(k) = {} /\ runs' = Append(runs, new) /\ At(p, "create")  BY <1>3 DEF Create
  <2>2. new.key = k /\ new.waits = 0  OBVIOUS
  <2>3. \A i \in DOMAIN runs : i \in DOMAIN runs' /\ runs'[i] = runs[i]  BY <1>0, <2>1
  <2>4. \A i \in DOMAIN runs' : i \in DOMAIN runs \/ runs'[i] = new  BY <1>0, <2>1
  <2> QED  BY <2>1, <2>2, <2>3, <2>4 DEF RunsGoOn, Onward, NewRun
<1>4. ASSUME NEW i \in todo, HandleTrigger(i) \/ Ack(i) \/ Delete(i) PROVE runs' = runs
  BY <1>4 DEF HandleTrigger, Ack, Delete
<1>5. ASSUME NEW i \in todo, HandleApprove(i) PROVE G
  <2>1. runs' = runs \/ \E r \in RunsOf(queue[i].run) : Moves(r, "running")  BY <1>5 DEF HandleApprove
  <2> QED  BY <1>0, <2>1, MovesOn DEF RunState, RunsGoOn, Onward
<1>6. ASSUME NEW i \in todo, HandleCancel(i) PROVE G
  <2>1. runs' = runs \/ \E r \in RunsOf(queue[i].run) : Moves(r, "over")  BY <1>6 DEF HandleCancel
  <2> QED  BY <1>0, <2>1, MovesOn DEF RunState, RunsGoOn, Onward
<1>7. ASSUME NEW i \in DOMAIN runs, RunWaits(i) PROVE G
  <2> SUFFICES ASSUME NEW new, new = [runs[i] EXCEPT !.state = "waiting", !.waits = @ + 1] PROVE G  OBVIOUS
  <2>1. runs' = [runs EXCEPT ![i] = new] /\ runs[i].state = "running" /\ runs[i].waits < MaxWaits
    BY <1>7 DEF RunWaits
  <2>2. runs[i] \in Run  BY <1>0
  <2>3. new.key = runs[i].key /\ new.waits = runs[i].waits + 1  BY <2>2 DEF Run
  <2>4. runs[i].waits \in Nat  BY <2>2 DEF Run
  <2>5. new.waits \in 0 .. MaxWaits  BY <2>1, <2>3, <2>4
  <2>6. \A j \in DOMAIN runs : runs'[j] = IF j = i THEN new ELSE runs[j]  BY <2>1
  <2> QED  BY <2>1, <2>3, <2>5, <2>6 DEF RunsGoOn, Onward
<1>8. ASSUME NEW i \in DOMAIN runs, RunEnds(i) PROVE G
  BY <1>0, <1>8, MovesOn DEF RunEnds, RunState
<1>9. CASE Restart
  <2>1. runs' = [i \in DOMAIN runs |-> IF runs[i].state = "created" THEN [runs[i] EXCEPT !.state = "running"]
                                       ELSE runs[i]]
    BY <1>9 DEF Restart
  <2>2. \A i \in DOMAIN runs : runs[i] \in Run  BY <1>0
  <2>3. \A i \in DOMAIN runs : /\ [runs[i] EXCEPT !.state = "running"].key = runs[i].key
                               /\ [runs[i] EXCEPT !.state = "running"].waits = runs[i].waits
    BY <2>2, Advances, StateTyped DEF RunState
  <2>4. DOMAIN runs' = DOMAIN runs  BY <2>1
  <2>5. \A i \in DOMAIN runs : runs[i].state = "over" => runs'[i] = runs[i]  BY <2>1
  <2>6. \A i \in DOMAIN runs : runs'[i].key = runs[i].key /\ runs'[i].waits = runs[i].waits  BY <2>1, <2>3
  <2> QED  BY <2>4, <2>5, <2>6 DEF RunsGoOn, Onward
<1>10. Poll \/ UNCHANGED vars \/ (\E a \in Actions : Enqueue(a)) => runs' = runs  BY DEF Poll, vars, Enqueue
<1>11. runs' = runs => G  BY DEF RunsGoOn, Onward
<1>12. G => \A i \in DOMAIN runs' : i \in DOMAIN runs \/ NewRun(i)  OBVIOUS
<1> HIDE DEF G
<1>13. G => RunsGoOn  BY DEF G
<1> QED
  BY <1>1, <1>2, <1>3, <1>4, <1>5, <1>6, <1>7, <1>8, <1>9, <1>10, <1>11, <1>12, <1>13
  DEF Next, StartFlow, PollerStep, HandleAction

\* What goes wrong is counted.
LEMMA NextBounds ==
  ASSUME [Next]_vars
  PROVE  UNCHANGED bounds \/ Fault \/ Lost
<1>1. ASSUME NEW p \in Tasks, StartCall(p) \/ StartFlow(p) PROVE UNCHANGED bounds \/ Fault \/ Lost
  <2>1. CASE StartCall(p) \/ Find(p) \/ Create(p)  BY <2>1 DEF StartCall, Find, Create
  <2>2. CASE AppendStarted(p) \/ SubmitStarted(p) \/ LoadResponse(p) \/ Reply(p)
    BY <2>2 DEF AppendStarted, SubmitStarted, LoadResponse, Reply
  <2> QED  BY <1>1, <2>1, <2>2 DEF StartFlow
<1>2. ASSUME NEW i \in todo, HandleTrigger(i) \/ HandleApprove(i) \/ HandleCancel(i)
      PROVE  UNCHANGED bounds \/ Fault \/ Lost
  BY <1>2 DEF HandleTrigger, HandleApprove, HandleCancel, NoRunFound
<1>3. ASSUME NEW i \in todo, Ack(i) \/ Delete(i) PROVE UNCHANGED bounds \/ Fault \/ Lost
  BY <1>3 DEF Ack, Delete
<1>4. CASE Restart  BY <1>4 DEF Restart, Lost
<1>5. Poll \/ UNCHANGED vars \/ (\E a \in Actions : Enqueue(a)) \/ (\E i \in DOMAIN runs : RunWaits(i) \/ RunEnds(i))
      => UNCHANGED bounds
  BY DEF Poll, vars, bounds, Enqueue, RunWaits, RunEnds
<1> QED  BY <1>1, <1>2, <1>3, <1>4, <1>5 DEF Next, PollerStep, HandleAction

\* The bounds on waits and mishaps.
TInv ==
  /\ \A i \in DOMAIN runs : runs[i].waits \in 0 .. MaxWaits
  /\ mishaps \in 0 .. MaxMishaps /\ faults \in 0 .. mishaps

LEMMA NextBounded == IInv /\ TInv /\ [Next]_vars => TInv'
<1> SUFFICES ASSUME IInv, TInv, [Next]_vars PROVE TInv'  OBVIOUS
<1>1. ASSUME NEW i \in DOMAIN runs' PROVE runs'[i].waits \in 0 .. MaxWaits
  <2>1. i \in DOMAIN runs => Onward(i)  BY NextRuns DEF RunsGoOn
  <2>2. i \in DOMAIN runs \/ NewRun(i)  BY NextRuns
  <2> QED  BY <2>1, <2>2 DEF TInv, Onward, NewRun
<1>2. mishaps' \in 0 .. MaxMishaps /\ faults' \in 0 .. mishaps'
  BY NextBounds DEF TInv, Fault, Lost, Mishap, bounds
<1> QED  BY <1>1, <1>2 DEF TInv

LEMMA SeqOf ==
  ASSUME NEW S, NEW T, NEW s \in Seq(S), \A i \in DOMAIN s : s[i] \in T
  PROVE  s \in Seq(T)
<1>1. s = [i \in 1 .. Len(s) |-> s[i]] /\ Len(s) \in Nat /\ DOMAIN s = 1 .. Len(s)  OBVIOUS
<1> QED  BY <1>1

LEMMA TypedRows ==
  ASSUME IInv, QInv, TInv
  PROVE  TypeOK
<1>1. ASSUME NEW i \in DOMAIN runs PROVE runs[i] \in [key : Keys, state : RunState, waits : 0 .. MaxWaits]
  <2>1. runs[i] \in Run /\ runs[i].waits \in 0 .. MaxWaits  BY <1>1 DEF IInv, TInv
  <2> QED  BY <2>1 DEF Run
<1>2. runs \in Seq([key : Keys, state : RunState, waits : 0 .. MaxWaits])
  BY <1>1, SeqOf DEF IInv
<1> QED  BY <1>2 DEF IInv, QInv, Queue, InHand, TInv, TypeOK, Call

\* The platform's rows, the store's rows and the locals of the tasks keep their
\* types, for any number of keys, callers, waits and mishaps.
THEOREM Typed == Spec => []TypeOK
<1>1. Init => TInv  BY DEF Init, TInv
<1>2. IInv /\ QInv /\ TInv => TypeOK  BY TypedRows
<1> QED  BY <1>1, <1>2, NextBounded, Always, PTL DEF Spec

-----------------------------------------------------------------------------
(* What a delete and the acknowledgement of a cancel stand for *)

\* Keys with which nothing is started.
Bad == Malformed \cup MissingInput

\* The MCP callers' key is not one of them.  Their call brings a document and
\* inputs of its own, so that it does start a run with any key it likes.
OwnKey == ClientKey \notin Bad

\* What is started is valid.
Valid ==
  /\ \A p \in Tasks : call[p].pc \in Starting => call[p].key \notin Bad
  /\ \A i \in DOMAIN runs : runs[i].key \notin Bad

\* What is refused is not.
Refused ==
  faults = 0 =>
    /\ \A i \in todo : Current(i) /\ call[Poller].pc = "error" /\ queue[i].kind = "trigger_run"
                       => queue[i].run \in Bad
    /\ \A k \in PlatformKeys : status[Trigger(k)] = "deleted" => k \in Bad

\* The trigger of a key was dealt with.
Dealt(k) == RunsOf(k) # {} \/ k \in Bad

\* It was, and nothing of its run is going on.
Settled(k) == Dealt(k) /\ \A i \in RunsOf(k) : runs[i].state = "over"

AckedRuns == \A k \in PlatformKeys : status[Trigger(k)] = "acked" => RunsOf(k) # {}

\* The poller comes to a cancel after it has dealt with the trigger, and leaves
\* it when the run is over.
InOrder ==
  faults = 0 => \A k \in Operated :
    /\ \A j \in todo : queue[j] = Cancel(k) => Dealt(k) \/ \E i \in todo : i < j /\ queue[i] = Trigger(k)
    /\ \A i \in todo : Current(i) /\ call[Poller].pc = "answer" /\ queue[i] = Cancel(k) => Settled(k)
    /\ status[Cancel(k)] = "acked" => Settled(k)

Known == IInv /\ QInv /\ TInv

LEMMA NoFault ==
  ASSUME TInv, [Next]_vars, faults' = 0
  PROVE  faults = 0 /\ ~Fault
BY NextBounds DEF TInv, Fault, Lost, bounds

LEMMA QueueKept ==
  ASSUME QInv, [Next]_vars, NEW i \in DOMAIN queue
  PROVE  i \in DOMAIN queue' /\ queue'[i] = queue[i]
<1>1. ASSUME NEW a \in Actions, Enqueue(a) PROVE i \in DOMAIN queue' /\ queue'[i] = queue[i]
  BY <1>1, EnqueueQueue
<1>2. ASSUME NEW p \in Tasks, StartCall(p) \/ StartFlow(p) PROVE queue' = queue
  BY <1>2 DEF StartCall, StartFlow, Find, Create, AppendStarted, SubmitStarted, LoadResponse, Reply
<1>3. ASSUME NEW j \in todo, HandleTrigger(j) \/ HandleApprove(j) \/ HandleCancel(j) \/ Ack(j) \/ Delete(j)
      PROVE  queue' = queue
  BY <1>3 DEF HandleTrigger, HandleApprove, HandleCancel, Ack, Delete
<1>4. Poll \/ Restart \/ UNCHANGED vars \/ (\E j \in DOMAIN runs : RunWaits(j) \/ RunEnds(j)) => queue' = queue
  BY DEF Poll, Restart, vars, RunWaits, RunEnds
<1> QED  BY <1>1, <1>2, <1>3, <1>4 DEF Next, PollerStep, HandleAction

\* What the poller has in hand gets less, until the next GET.
LEMMA TodoStep ==
  ASSUME [Next]_vars
  PROVE  \/ Poll
         \/ todo' = {}
         \/ todo' \subseteq todo /\ \A i \in todo \ todo' : Current(i) /\ (Ack(i) \/ Delete(i) \/ HandleApprove(i))
<1>1. ASSUME NEW p \in Tasks, StartCall(p) \/ StartFlow(p) PROVE todo' = todo
  BY <1>1 DEF StartCall, StartFlow, Find, Create, AppendStarted, SubmitStarted, LoadResponse, Reply
<1>2. ASSUME NEW j \in todo, HandleTrigger(j) \/ HandleCancel(j) PROVE todo' = todo
  BY <1>2 DEF HandleTrigger, HandleCancel
<1>3. ASSUME NEW j \in todo, HandleApprove(j) \/ Ack(j) \/ Delete(j)
      PROVE  Current(j) /\ (todo' = todo \/ todo' = todo \ {j})
  BY <1>3 DEF HandleApprove, Handles, Ack, Delete, Leave
<1>4. Restart => todo' = {}  BY DEF Restart
<1>5. UNCHANGED vars \/ (\E a \in Actions : Enqueue(a)) \/ (\E j \in DOMAIN runs : RunWaits(j) \/ RunEnds(j))
      => todo' = todo
  BY DEF vars, Enqueue, tasks, RunWaits, RunEnds
<1> QED  BY <1>1, <1>2, <1>3, <1>4, <1>5 DEF Next, PollerStep, HandleAction

\* Where the poller can be after a step.
LEMMA PollerCall ==
  ASSUME QInv, IInv, [Next]_vars
  PROVE  \/ UNCHANGED todo /\ call'[Poller] = call[Poller]
         \/ call'[Poller].pc = "idle"
         \/ StartFlow(Poller) /\ call[Poller].pc \in Starting /\ UNCHANGED <<queue, todo>>
         \/ \E i \in todo : /\ HandleTrigger(i) \/ HandleApprove(i) \/ HandleCancel(i)
                            /\ Current(i) /\ UNCHANGED <<queue, todo>>
<1>0. call \in [Tasks -> Call] /\ Poller \in Tasks /\ Poller \notin Callers /\ Idle.pc = "idle"
  BY DEF IInv, Tasks, Idle
<1>1. ASSUME NEW p \in Tasks, StartCall(p) \/ StartFlow(p), p # Poller
      PROVE  UNCHANGED todo /\ call'[Poller] = call[Poller]
  <2>1. UNCHANGED todo
    BY <1>1 DEF StartCall, StartFlow, Find, Create, AppendStarted, SubmitStarted, LoadResponse, Reply
  <2>2. ASSUME (\E pc : Go(p, pc)) \/ \E pc, i : GoWith(p, pc, i) PROVE call'[Poller] = call[Poller]
    BY <1>0, <1>1, <2>2 DEF Go, GoWith
  <2>3. CASE StartCall(p)  BY <1>0, <1>1, <2>1, <2>3 DEF StartCall
  <2>4. CASE Find(p) \/ Create(p)  BY <2>1, <2>2, <2>4 DEF Find, Create
  <2>5. CASE AppendStarted(p) \/ SubmitStarted(p) \/ LoadResponse(p) \/ Reply(p)
    BY <2>1, <2>2, <2>5 DEF AppendStarted, SubmitStarted, LoadResponse, Reply
  <2> QED  BY <1>1, <2>3, <2>4, <2>5 DEF StartFlow
<1>2. ASSUME StartFlow(Poller)
      PROVE  call[Poller].pc \in Starting /\ UNCHANGED <<queue, todo>>
  BY <1>0, <1>2
  DEF StartFlow, Find, Create, AppendStarted, SubmitStarted, LoadResponse, Reply, At, Starting
<1>3. ~StartCall(Poller)  BY <1>0 DEF StartCall
<1>4. ASSUME NEW i \in todo, HandleTrigger(i) \/ HandleApprove(i) \/ HandleCancel(i)
      PROVE  Current(i) /\ UNCHANGED queue /\ (UNCHANGED todo \/ Leave(i))
  BY <1>4 DEF HandleTrigger, HandleApprove, HandleCancel, Handles
<1>5. ASSUME NEW i, Leave(i) PROVE call'[Poller].pc = "idle"
  BY <1>0, <1>5 DEF Leave
<1>6. ASSUME NEW i \in todo, Ack(i) \/ Delete(i) PROVE Leave(i)  BY <1>6 DEF Ack, Delete
<1>7. Poll => call'[Poller].pc = "idle"  BY DEF Poll, At
<1>8. Restart => call'[Poller].pc = "idle"  BY <1>0, RestartCalls
<1>9. UNCHANGED vars \/ (\E a \in Actions : Enqueue(a)) \/ (\E j \in DOMAIN runs : RunWaits(j) \/ RunEnds(j))
      => UNCHANGED <<todo, call>>
  BY DEF vars, Enqueue, tasks, RunWaits, RunEnds
<1> QED
  BY <1>1, <1>2, <1>3, <1>4, <1>5, <1>6, <1>7, <1>8, <1>9 DEF Next, PollerStep, HandleAction

\* What the poller makes of an action.
LEMMA Taken ==
  ASSUME QInv, NEW i, Current(i), NEW pc, NEW r, Become(i, pc, r)
  PROVE  /\ call'[Poller].pc = pc /\ call'[Poller].key = queue[i].run
         /\ \A p \in Tasks : p # Poller => call'[p] = call[p]
BY DEF QInv, Tasks, Become

\* A call of start_flow is under way only with the key of the call before, the
\* callers' key, or that of a valid trigger.
LEMMA StartsValid ==
  ASSUME OwnKey, IInv, QInv, Valid, [Next]_vars, NEW p \in Tasks, call'[p].pc \in Starting
  PROVE  call'[p].key \notin Bad
<1>0. call \in [Tasks -> Call] /\ Poller \in Tasks /\ Idle.pc = "idle" /\ Idle.pc \notin Starting
      /\ "done" \notin Starting
  BY DEF IInv, Tasks, Idle, Starting
<1>1. call'[p] = call[p] => call'[p].key \notin Bad  BY DEF Valid
<1>2. ASSUME NEW q \in Tasks, StartCall(q) PROVE call'[p].key \notin Bad
  <2>1. call'[p] = call[p] \/ call'[p].key = ClientKey  BY <1>0, <1>2 DEF StartCall
  <2> QED  BY <1>1, <2>1 DEF OwnKey
<1>3. ASSUME NEW q \in Tasks, StartFlow(q) PROVE call'[p].key \notin Bad
  <2>1. \/ call[q].pc \in Starting /\ ((\E pc : Go(q, pc)) \/ \E pc, i : GoWith(q, pc, i))
        \/ Go(q, "done")
    BY <1>3 DEF StartFlow, Find, Create, AppendStarted, SubmitStarted, LoadResponse, Reply, At, Starting
  <2>2. ASSUME NEW pc, Go(q, pc)
        PROVE  call'[p] = call[p] \/ (p = q /\ call'[p].key = call[p].key /\ call'[p].pc = pc)
    <3>1. call[q] \in Call  BY <1>0
    <3>2. [call[q] EXCEPT !.pc = pc].key = call[q].key /\ [call[q] EXCEPT !.pc = pc].pc = pc  BY <3>1 DEF Call
    <3> QED  BY <1>0, <2>2, <3>2 DEF Go
  <2>3. ASSUME NEW pc, NEW i, GoWith(q, pc, i)
        PROVE  call'[p] = call[p] \/ (p = q /\ call'[p].key = call[p].key)
    <3>1. call[q] \in Call  BY <1>0
    <3>2. [call[q] EXCEPT !.pc = pc, !.run = i].key = call[q].key  BY <3>1 DEF Call
    <3> QED  BY <1>0, <2>3, <3>2 DEF GoWith
  <2>4. call'[p] = call[p] \/ (call[p].pc \in Starting /\ call'[p].key = call[p].key)
    BY <1>0, <2>1, <2>2, <2>3
  <2> QED  BY <1>1, <2>4 DEF Valid
<1>4. ASSUME NEW i \in todo, HandleTrigger(i) PROVE call'[p].key \notin Bad
  <2>1. Current(i)  BY <1>4 DEF HandleTrigger, Handles
  <2>2. \/ \E r : Become(i, "answer", r) \/ Become(i, "error", r)
        \/ Become(i, "find", 0) /\ queue[i].run \notin Bad
    BY <1>4 DEF HandleTrigger, Bad
  <2> QED  BY <1>1, <2>1, <2>2, Taken DEF Starting
<1>5. ASSUME NEW i \in todo, HandleApprove(i) \/ HandleCancel(i) PROVE call'[p].key \notin Bad
  <2>1. Current(i)  BY <1>5 DEF HandleApprove, HandleCancel, Handles
  <2>2. (\E r : Become(i, "answer", r) \/ Become(i, "error", r)) \/ Leave(i)
    BY <1>5 DEF HandleApprove, HandleCancel
  <2>3. Leave(i) => call'[p] = call[p] \/ call'[p] = Idle  BY <1>0 DEF Leave
  <2> QED  BY <1>0, <1>1, <2>1, <2>2, <2>3, Taken DEF Starting
<1>6. ASSUME NEW i \in todo, Ack(i) \/ Delete(i) PROVE call'[p].key \notin Bad
  <2>1. Leave(i)  BY <1>6 DEF Ack, Delete
  <2>2. call'[p] = call[p] \/ call'[p] = Idle  BY <1>0, <2>1 DEF Leave
  <2> QED  BY <1>0, <1>1, <2>2
<1>7. ~Restart  BY <1>0, RestartCalls DEF Starting
<1>8. Poll \/ UNCHANGED vars \/ (\E a \in Actions : Enqueue(a)) \/ (\E j \in DOMAIN runs : RunWaits(j) \/ RunEnds(j))
      => call' = call
  BY DEF Poll, vars, Enqueue, tasks, RunWaits, RunEnds
<1> QED
  BY <1>1, <1>2, <1>3, <1>4, <1>5, <1>6, <1>7, <1>8 DEF Next, PollerStep, HandleAction

LEMMA NextValid == OwnKey /\ IInv /\ QInv /\ Valid /\ [Next]_vars => Valid'
<1> SUFFICES ASSUME OwnKey, IInv, QInv, Valid, [Next]_vars PROVE Valid'  OBVIOUS
<1>1. ASSUME NEW i \in DOMAIN runs' PROVE runs'[i].key \notin Bad
  <2>1. CASE i \in DOMAIN runs
    <3>1. Onward(i)  BY <2>1, NextRuns DEF RunsGoOn
    <3> QED  BY <2>1, <3>1 DEF Onward, Valid
  <2>2. CASE NewRun(i)  BY <2>2 DEF NewRun, At, Valid, Starting
  <2> QED  BY <2>1, <2>2, NextRuns
<1>2. \A p \in Tasks : call'[p].pc \in Starting => call'[p].key \notin Bad  BY StartsValid
<1> QED  BY <1>1, <1>2 DEF Valid

\* The action in hand after a step in which the poller took one up or went on.
LEMMA SameCurrent ==
  ASSUME QInv, UNCHANGED todo, NEW i, NEW j \in todo, Current(i), Current(j)'
  PROVE  j = i
<1>1. Current(j)  BY DEF Current
<1> QED  BY <1>1, OneCurrent

\* Without a failing store call, start_flow does not end in an error.
LEMMA NoError ==
  ASSUME IInv, QInv, StartFlow(Poller), ~Fault
  PROVE  call'[Poller].pc # "error"
<1>0. call \in [Tasks -> Call] /\ Poller \in Tasks /\ Poller \notin Callers /\ call[Poller] \in Call
  BY DEF IInv, Tasks
<1>1. \/ \E pc \in {"create", "submit", "load", "answer"} : Go(Poller, pc)
      \/ \E pc \in {"load", "event"} : \E i : GoWith(Poller, pc, i)
  <2>1. CASE Find(Poller)  BY <2>1 DEF Find
  <2>2. CASE Create(Poller)  BY <2>2 DEF Create
  <2>3. CASE AppendStarted(Poller) \/ SubmitStarted(Poller) \/ LoadResponse(Poller)
    BY <2>3 DEF AppendStarted, SubmitStarted, LoadResponse
  <2>4. ~Reply(Poller)  BY <1>0 DEF Reply
  <2> QED  BY <2>1, <2>2, <2>3, <2>4 DEF StartFlow
<1>2. ASSUME NEW pc, Go(Poller, pc) PROVE call'[Poller].pc = pc
  <2>1. [call[Poller] EXCEPT !.pc = pc].pc = pc  BY <1>0 DEF Call
  <2> QED  BY <1>0, <1>2, <2>1 DEF Go
<1>3. ASSUME NEW pc, NEW i, GoWith(Poller, pc, i) PROVE call'[Poller].pc = pc
  <2>1. [call[Poller] EXCEPT !.pc = pc, !.run = i].pc = pc  BY <1>0 DEF Call
  <2> QED  BY <1>0, <1>3, <2>1 DEF GoWith
<1> QED  BY <1>1, <1>2, <1>3

LEMMA ErrorIsBad ==
  ASSUME Known, Refused, [Next]_vars, faults' = 0,
         NEW i \in todo', Current(i)', call'[Poller].pc = "error", queue'[i].kind = "trigger_run"
  PROVE  queue'[i].run \in Bad
<1>0. IInv /\ QInv /\ TInv /\ faults = 0 /\ ~Fault  BY NoFault DEF Known
<1>1. CASE UNCHANGED todo /\ call'[Poller] = call[Poller]
  <2>1. i \in todo /\ Current(i) /\ i \in DOMAIN queue  BY <1>0, <1>1 DEF Current, QInv, InHand
  <2>2. queue'[i] = queue[i]  BY <1>0, <2>1, QueueKept
  <2> QED  BY <1>0, <1>1, <2>1, <2>2 DEF Refused
<1>2. ~StartFlow(Poller)  BY <1>0, NoError
<1>3. ASSUME NEW j \in todo, Current(j), UNCHANGED <<queue, todo>>,
             HandleTrigger(j) \/ HandleApprove(j) \/ HandleCancel(j)
      PROVE  queue'[i].run \in Bad
  <2>1. i = j  BY <1>0, <1>3, SameCurrent
  <2>2. CASE HandleTrigger(j)
    <3>1. (\E r : Become(j, "answer", r)) \/ Become(j, "find", 0)
          \/ (Become(j, "error", 0) /\ queue[j].run \in Bad)
      BY <2>2 DEF HandleTrigger, Bad
    <3> QED  BY <1>0, <1>3, <2>1, <3>1, Taken
  <2>3. CASE HandleApprove(j) \/ HandleCancel(j)
    <3>1. queue[j].kind # "trigger_run"  BY <2>3 DEF HandleApprove, HandleCancel, Handles
    <3> QED  BY <1>3, <2>1, <3>1
  <2> QED  BY <1>3, <2>2, <2>3
<1> QED  BY <1>0, <1>1, <1>2, <1>3, PollerCall

LEMMA NextRefused == Known /\ Refused /\ [Next]_vars => Refused'
<1> SUFFICES ASSUME Known, Refused, [Next]_vars, faults' = 0
             PROVE  /\ \A i \in todo' : Current(i)' /\ call'[Poller].pc = "error" /\ queue'[i].kind = "trigger_run"
                                        => queue'[i].run \in Bad
                    /\ \A k \in PlatformKeys : status'[Trigger(k)] = "deleted" => k \in Bad
  BY DEF Refused
<1>0. IInv /\ QInv /\ TInv /\ faults = 0 /\ ~Fault  BY NoFault DEF Known
<1>1. \A i \in todo' : Current(i)' /\ call'[Poller].pc = "error" /\ queue'[i].kind = "trigger_run"
                       => queue'[i].run \in Bad
  BY ErrorIsBad
<1>2. ASSUME NEW k \in PlatformKeys, status'[Trigger(k)] = "deleted" PROVE k \in Bad
  <2> SUFFICES ASSUME NEW a, a = Trigger(k) PROVE k \in Bad  OBVIOUS
  <2>1. a \in Actions /\ a.kind = "trigger_run" /\ a.run = k  BY TriggerIsAction
  <2>2. CASE status'[a] = status[a]  BY <1>0, <1>2, <2>2 DEF Refused
  <2>3. CASE status'[a] # status[a]
    <3>1. Enqueue(a) => status'[a] = "pending"  BY <1>0, <2>1 DEF Enqueue, QInv, Queue
    <3>2. PICK i \in todo : Delete(i) /\ Current(i) /\ queue[i] = a
      BY <1>0, <1>2, <2>1, <2>3, <3>1, StatusStep
    <3>3. call[Poller].pc = "error"  BY <3>2 DEF Delete, At
    <3> QED  BY <1>0, <2>1, <3>2, <3>3 DEF Refused
  <2> QED  BY <2>2, <2>3
<1> QED  BY <1>1, <1>2

-----------------------------------------------------------------------------
(* Cancels come after triggers, and end runs *)

\* The poller acknowledges a trigger with a run in hand.
LEMMA AckHasRun ==
  ASSUME IInv, QInv, NEW i, Ack(i), queue[i].kind = "trigger_run"
  PROVE  RunsOf(queue[i].run) # {}
<1>1. Current(i) /\ i \in todo /\ call[Poller].pc = "answer" /\ Poller \in Tasks
  BY DEF Ack, At, Current, Tasks
<1>2. ~NoTrigger  BY <1>1, OneCurrent DEF NoTrigger
<1>3. HasRun(Poller)  BY <1>1, <1>2 DEF IInv, KnowsRun
<1>4. call[Poller].key = queue[i].run  BY <1>1 DEF QInv, InHand
<1> QED  BY <1>3, <1>4 DEF HasRun

LEMMA DealtKept ==
  ASSUME IInv, [Next]_vars, NEW k, Dealt(k)
  PROVE  Dealt(k)'
<1>1. \A i \in RunsOf(k) : i \in RunsOf(k)'  BY NextRuns DEF RunsGoOn, Onward, RunsOf
<1> QED  BY <1>1 DEF Dealt

LEMMA SettledKept ==
  ASSUME IInv, Valid, [Next]_vars, NEW k, Settled(k)
  PROVE  Settled(k)'
<1>1. Dealt(k)'  BY DealtKept DEF Settled
<1>2. ASSUME NEW i \in RunsOf(k)' PROVE runs'[i].state = "over"
  <2>1. i \in DOMAIN runs' /\ runs'[i].key = k  BY <1>2 DEF RunsOf
  <2>2. CASE i \in DOMAIN runs
    <3>1. Onward(i)  BY <2>2, NextRuns DEF RunsGoOn
    <3>2. i \in RunsOf(k)  BY <2>1, <2>2, <3>1 DEF Onward, RunsOf
    <3> QED  BY <3>1, <3>2 DEF Onward, Settled
  <2>3. CASE NewRun(i)
    <3>1. RunsOf(k) = {} /\ k \notin Bad  BY <2>1, <2>3 DEF NewRun, At, Valid, Starting
    <3> QED  BY <3>1 DEF Settled, Dealt
  <2> QED  BY <2>1, <2>2, <2>3, NextRuns
<1> QED  BY <1>1, <1>2 DEF Settled

LEMMA NextAcked == Known /\ AckedRuns /\ [Next]_vars => AckedRuns'
<1> SUFFICES ASSUME Known, AckedRuns, [Next]_vars, NEW k \in PlatformKeys, status'[Trigger(k)] = "acked"
             PROVE  (RunsOf(k) # {})'
  BY DEF AckedRuns
<1> SUFFICES ASSUME NEW a, a = Trigger(k) PROVE (RunsOf(k) # {})'  OBVIOUS
<1>0. IInv /\ QInv /\ TInv /\ a \in Actions /\ a.kind = "trigger_run" /\ a.run = k
  BY TriggerIsAction DEF Known
<1>1. RunsOf(k) # {}
  <2>1. CASE status'[a] = status[a]  BY <2>1 DEF AckedRuns
  <2>2. CASE status'[a] # status[a]
    <3>1. Enqueue(a) => status'[a] = "pending"  BY <1>0 DEF Enqueue, QInv, Queue
    <3>2. PICK i \in todo : Ack(i) /\ queue[i] = a  BY <1>0, <2>2, <3>1, StatusStep
    <3> QED  BY <1>0, <3>2, AckHasRun
  <2> QED  BY <2>1, <2>2
<1>2. \A i \in RunsOf(k) : i \in RunsOf(k)'  BY <1>0, NextRuns DEF RunsGoOn, Onward, RunsOf
<1> QED  BY <1>1, <1>2

\* A cancel in hand comes after its trigger.
LEMMA CancelInOrder ==
  ASSUME Known, Refused, AckedRuns, InOrder, [Next]_vars, faults' = 0,
         NEW k \in Operated, NEW j \in todo', queue'[j] = Cancel(k)
  PROVE  Dealt(k)' \/ \E i \in todo' : i < j /\ queue'[i] = Trigger(k)
<1>3. Cancel(k).kind = "cancel" /\ Cancel(k).run = k  BY DEF Cancel
<1>0. IInv /\ QInv /\ TInv /\ faults = 0 /\ ~Fault  BY NoFault DEF Known
<1>1. CASE Poll
  <2>1. queue' = queue /\ todo' = {i \in DOMAIN queue : status[queue[i]] = "pending"}  BY <1>1 DEF Poll
  <2>2. j \in DOMAIN queue /\ queue[j] \in Actions /\ queue[j].run = k /\ queue[j].kind = "cancel"
    BY <1>0, <1>3, <2>1 DEF QInv, Queue
  <2>3. PICK i \in DOMAIN queue : i < j /\ queue[i] = Trigger(k)  BY <1>0, <2>2 DEF QInv, Queue
  <2>4. k \in PlatformKeys  BY <2>2, ActionFields
  <2>5. status[Trigger(k)] \in {"pending", "acked", "deleted"}
    BY <1>0, <2>3, <2>4, TriggerIsAction DEF QInv, Queue
  <2>6. CASE status[Trigger(k)] = "pending"  BY <2>1, <2>3, <2>6
  <2>7. CASE status[Trigger(k)] = "acked"
    <3>1. Dealt(k)  BY <2>4, <2>7 DEF AckedRuns, Dealt
    <3> QED  BY <1>0, <3>1, DealtKept
  <2>8. CASE status[Trigger(k)] = "deleted"
    <3>1. Dealt(k)  BY <1>0, <2>4, <2>8 DEF Refused, Dealt
    <3> QED  BY <1>0, <3>1, DealtKept
  <2> QED  BY <2>5, <2>6, <2>7, <2>8
<1>2. CASE todo' \subseteq todo /\ \A i \in todo \ todo' : Current(i) /\ (Ack(i) \/ Delete(i) \/ HandleApprove(i))
  <2>1. j \in todo /\ todo \subseteq DOMAIN queue  BY <1>0, <1>2 DEF QInv, InHand
  <2>2. queue'[j] = queue[j]  BY <1>0, <2>1, QueueKept
  <2>3. Dealt(k) \/ \E i \in todo : i < j /\ queue[i] = Trigger(k)  BY <1>0, <2>1, <2>2 DEF InOrder
  <2>4. CASE Dealt(k)  BY <1>0, <2>4, DealtKept
  <2>5. ASSUME NEW i \in todo, i < j, queue[i] = Trigger(k), i \notin todo' PROVE Dealt(k)
    <3>1. Current(i) /\ queue[i].kind = "trigger_run" /\ queue[i].run = k  BY <1>2, <2>5 DEF Trigger
    <3>2. CASE Ack(i)  BY <1>0, <3>1, <3>2, AckHasRun DEF Dealt
    <3>3. CASE Delete(i)
      <4>1. call[Poller].pc = "error"  BY <3>3 DEF Delete, At
      <4> QED  BY <1>0, <2>5, <3>1, <4>1 DEF Refused, Dealt
    <3>4. ~HandleApprove(i)  BY <3>1 DEF HandleApprove, Handles
    <3> QED  BY <1>2, <2>5, <3>2, <3>3, <3>4
  <2>6. ASSUME NEW i \in todo, i < j, queue[i] = Trigger(k), i \in todo'
        PROVE  queue'[i] = Trigger(k)
    BY <1>0, <2>1, <2>6, QueueKept
  <2> QED  BY <1>0, <2>3, <2>4, <2>5, <2>6, DealtKept
<1> QED  BY <1>1, <1>2, TodoStep

\* The poller is through with a cancel when its run is over.
LEMMA CancelSettles ==
  ASSUME Known, Valid, InOrder, [Next]_vars, faults' = 0,
         NEW k \in Operated, NEW i \in todo', Current(i)', call'[Poller].pc = "answer", queue'[i] = Cancel(k)
  PROVE  Settled(k)'
<1>4. Cancel(k).kind = "cancel" /\ Cancel(k).run = k  BY DEF Cancel
<1>0. IInv /\ QInv /\ TInv /\ faults = 0 /\ ~Fault  BY NoFault DEF Known
<1>1. CASE UNCHANGED todo /\ call'[Poller] = call[Poller]
  <2>1. i \in todo /\ Current(i) /\ i \in DOMAIN queue  BY <1>0, <1>1 DEF Current, QInv, InHand
  <2>2. queue'[i] = queue[i]  BY <1>0, <2>1, QueueKept
  <2>3. Settled(k)  BY <1>0, <1>1, <2>1, <2>2 DEF InOrder
  <2> QED  BY <1>0, <2>3, SettledKept
<1>2. CASE call[Poller].pc \in Starting /\ UNCHANGED <<queue, todo>>
  <2>1. i \in todo /\ Current(i)  BY <1>2 DEF Current
  <2>2. queue[i].kind = "trigger_run"  BY <1>0, <1>2, <2>1 DEF QInv, InHand
  <2> QED  BY <1>2, <1>4, <2>2
<1>3. ASSUME NEW j \in todo, Current(j), UNCHANGED <<queue, todo>>,
             HandleTrigger(j) \/ HandleApprove(j) \/ HandleCancel(j)
      PROVE  Settled(k)'
  <2>1. i = j  BY <1>0, <1>3, SameCurrent
  <2>2. HandleCancel(j) /\ queue[j].kind = "cancel" /\ queue[j].run = k
    BY <1>3, <1>4, <2>1 DEF HandleTrigger, HandleApprove, Handles
  <2>3. Dealt(k)
    <3>1. todo \subseteq DOMAIN queue /\ DOMAIN queue \subseteq Nat  BY <1>0 DEF QInv, Queue, InHand
    <3>2. \A n \in todo : j <= n  BY <1>3 DEF Current
    <3>3. ~\E n \in todo : n < j  BY <3>1, <3>2
    <3> QED  BY <1>0, <1>3, <2>1, <3>3 DEF InOrder
  <2>4. Dealt(k)'  BY <1>0, <2>3, DealtKept
  <2>5. CASE NoRunFound(k) /\ UNCHANGED runs
    <3>1. RunsOf(k) = {}  BY <1>0, <2>5 DEF NoRunFound
    <3> QED  BY <2>4, <2>5, <3>1 DEF Settled, RunsOf
  <2>6. ASSUME NEW r \in RunsOf(k), Moves(r, "over") PROVE Settled(k)'
    <3>1. r \in DOMAIN runs /\ runs[r].key = k /\ runs \in Seq(Run) /\ runs[r] \in Run
      BY <1>0, <2>6 DEF RunsOf, IInv
    <3>2. DOMAIN runs' = DOMAIN runs /\ RunsGoOn  BY <3>1, <2>6, MovesOn DEF RunState
    <3>3. runs'[r].state = "over"
      <4>1. [runs[r] EXCEPT !.state = "over"].state = "over"  BY <3>1, Advances DEF RunState
      <4> QED  BY <2>6, <3>1, <4>1 DEF Moves
    <3>4. \A n \in RunsOf(k)' : n = r
      <4>1. \A n \in RunsOf(k)' : n \in DOMAIN runs /\ runs[n].key = k
        BY <3>2 DEF RunsOf, RunsGoOn, Onward
      <4> QED  BY <1>0, <3>1, <4>1 DEF IInv, OneRunPerKey
    <3> QED  BY <2>4, <3>3, <3>4 DEF Settled
  <2> QED  BY <2>2, <2>5, <2>6 DEF HandleCancel
<1> QED  BY <1>0, <1>1, <1>2, <1>3, PollerCall

LEMMA NextInOrder ==
  Known /\ Valid /\ Refused /\ AckedRuns /\ InOrder /\ [Next]_vars => InOrder'
<1> SUFFICES ASSUME Known, Valid, Refused, AckedRuns, InOrder, [Next]_vars, faults' = 0,
                    NEW k \in Operated
             PROVE  /\ \A j \in todo' : queue'[j] = Cancel(k) =>
                         Dealt(k)' \/ \E i \in todo' : i < j /\ queue'[i] = Trigger(k)
                    /\ \A i \in todo' : Current(i)' /\ call'[Poller].pc = "answer" /\ queue'[i] = Cancel(k)
                                        => Settled(k)'
                    /\ status'[Cancel(k)] = "acked" => Settled(k)'
  BY DEF InOrder
<1>0. IInv /\ QInv /\ TInv /\ faults = 0 /\ ~Fault  BY NoFault DEF Known
<1>1. ASSUME status'[Cancel(k)] = "acked" PROVE Settled(k)'
  <2> SUFFICES ASSUME NEW a, a = Cancel(k) PROVE Settled(k)'  OBVIOUS
  <2>1. a \in Actions /\ a.kind = "cancel" /\ a.run = k  BY DEF Cancel, Actions
  <2>2. CASE status'[a] = status[a]
    <3>1. Settled(k)  BY <1>0, <1>1, <2>2 DEF InOrder
    <3> QED  BY <1>0, <3>1, SettledKept
  <2>3. CASE status'[a] # status[a]
    <3>1. Enqueue(a) => status'[a] = "pending"  BY <1>0, <2>1 DEF Enqueue, QInv, Queue
    <3>2. PICK i \in todo : Ack(i) /\ Current(i) /\ queue[i] = a
      BY <1>0, <1>1, <2>1, <2>3, <3>1, StatusStep
    <3>3. call[Poller].pc = "answer"  BY <3>2 DEF Ack, At
    <3>4. Settled(k)  BY <1>0, <2>1, <3>2, <3>3 DEF InOrder
    <3> QED  BY <1>0, <3>4, SettledKept
  <2> QED  BY <2>2, <2>3
<1> QED  BY <1>1, CancelInOrder, CancelSettles

-----------------------------------------------------------------------------
(* The promises *)

LEMMA InitPromises == Init => Valid /\ Refused /\ AckedRuns /\ InOrder
<1> SUFFICES ASSUME Init PROVE Valid /\ Refused /\ AckedRuns /\ InOrder  OBVIOUS
<1>1. Idle.pc = "idle"  BY DEF Idle
<1>2. \A a \in Actions : status[a] = "none"  BY DEF Init
<1>3. \A k \in Operated : Cancel(k) \in Actions  BY DEF Cancel, Actions
<1>4. Valid  BY <1>1 DEF Init, Valid, Starting
<1>5. AckedRuns /\ Refused /\ InOrder  BY <1>2, <1>3, TriggerIsAction DEF Init, AckedRuns, Refused, InOrder
<1> QED  BY <1>4, <1>5

LEMMA AlwaysKnown == Spec => []Known
<1>1. Init => TInv  BY DEF Init, TInv
<1>2. IInv /\ QInv /\ TInv => Known  BY DEF Known
<1> QED  BY <1>1, <1>2, NextBounded, Always, PTL DEF Spec

LEMMA Promises ==
  ASSUME OwnKey
  PROVE  Spec => [](Known /\ Valid /\ Refused /\ AckedRuns /\ InOrder)
<1>1. Known /\ Valid /\ [Next]_vars => Valid'  BY NextValid DEF Known
<1> QED
  BY <1>1, InitPromises, AlwaysKnown, NextRefused, NextAcked, NextInOrder, PTL DEF Spec

\* However triggers are redelivered, answers lost and the runtime restarted: as
\* long as the store works, a trigger that the poller deletes has no run.
THEOREM DeletedHasNoRun ==
  ASSUME OwnKey
  PROVE  Spec => []DeletedNeverRan
<1>1. Valid /\ Refused => DeletedNeverRan  BY DEF Valid, Refused, DeletedNeverRan, RunsOf
<1> QED  BY <1>1, Promises, PTL

\* As long as the store works, an acknowledged cancel holds for good, for any
\* order of deliveries and any number of restarts.
THEOREM CancelIsFinal ==
  ASSUME OwnKey
  PROVE  Spec => []CancelHolds
<1>1. InOrder => CancelHolds  BY DEF InOrder, Settled, CancelHolds
<1> QED  BY <1>1, Promises, PTL

=============================================================================
