------------------------------- MODULE Intake -------------------------------
(***************************************************************************)
(* How work comes in: the action poller of platform/poller.rs and the      *)
(* start_flow use case it shares with the MCP tools, against a platform    *)
(* that redelivers what is pending.  Calls to the store can fail, requests *)
(* and answers can be lost, and the runtime can crash anywhere; a run is   *)
(* only known by its idempotency key and how far it has come.              *)
(***************************************************************************)
EXTENDS Naturals, Sequences

CONSTANTS
  PlatformKeys,  \* idempotency keys of the runs the platform triggers
  Malformed,     \* those with a flow_doc that does not validate (a payload that does
                 \* not parse names no run: it fares like a flow_doc with no run yet)
  MissingInput,  \* those that lack a required input
  Operated,      \* those whose runs users approve and cancel
  Callers,       \* concurrent start_flow calls over MCP,
  ClientKey,     \* all with this idempotency key (free text: it may be a platform's)
  Poller,        \* the poller's task
  MaxWaits,      \* bound: how often a run waits for a human
  MaxMishaps     \* bound on failing store calls, lost requests and restarts

ASSUME IntakeAssumption ==
  /\ Malformed \subseteq PlatformKeys /\ MissingInput \subseteq PlatformKeys
  /\ Operated \subseteq PlatformKeys
  /\ Poller \notin Callers
  /\ MaxWaits \in Nat /\ MaxMishaps \in Nat

VARIABLES
  queue,    \* platform: its actions in the order they were created
  status,   \* platform: pending, acked or deleted (none: not created yet)
  runs,     \* store: the runs in the order they were created
  call,     \* what each task is doing: its await, key and run
  todo,     \* the poller: what is left of the last GET, as places in the queue
  answers,  \* what callers were told: pairs <<key, run>>
  faults,   \* store calls that failed
  mishaps   \* all that went wrong so far

tasks  == <<call, todo, answers>>
bounds == <<faults, mishaps>>
vars   == <<queue, status, runs, call, todo, answers, faults, mishaps>>

Keys    == PlatformKeys \cup {ClientKey}
Tasks   == {Poller} \cup Callers
Actions == [kind : {"trigger_run"}, run : PlatformKeys] \cup [kind : {"approve", "cancel"}, run : Operated]

Trigger(k) == [kind |-> "trigger_run", run |-> k]
Cancel(k)  == [kind |-> "cancel", run |-> k]

RunState == {"created", "running", "waiting", "over"}
Pc == {"idle", "find", "create", "event", "submit", "load", "answer", "error", "done"}

Idle == [pc |-> "idle", key |-> ClientKey, run |-> 0]

\* find_by_idempotency_key
RunsOf(k) == {i \in DOMAIN runs : runs[i].key = k}

\* Something goes wrong: a store call fails, a request or its answer is lost.
Mishap  == mishaps < MaxMishaps /\ mishaps' = mishaps + 1
Fault   == Mishap /\ faults' = faults + 1
Lost    == Mishap /\ UNCHANGED faults

At(p, pc)        == call[p].pc = pc
Go(p, pc)        == call' = [call EXCEPT ![p].pc = pc]
GoWith(p, pc, i) == call' = [call EXCEPT ![p].pc = pc, ![p].run = i]

\* The run only moves forward: over stays over.
Moves(i, state) ==
  runs' = IF runs[i].state = "over" THEN runs ELSE [runs EXCEPT ![i].state = state]

-----------------------------------------------------------------------------
(* start_flow_with_definition, one action per await. *)

StartCall(p) ==
  /\ p \in Callers
  /\ At(p, "idle")
  /\ call' = [call EXCEPT ![p] = [pc |-> "find", key |-> ClientKey, run |-> 0]]
  /\ UNCHANGED <<queue, status, runs, todo, answers, bounds>>

\* A key that has a run is replayed.
Find(p) ==
  /\ At(p, "find")
  /\ \/ \E i \in RunsOf(call[p].key) : GoWith(p, "load", i) /\ UNCHANGED bounds
     \/ RunsOf(call[p].key) = {} /\ Go(p, "create") /\ UNCHANGED bounds
     \/ Fault /\ Go(p, "error")
  /\ UNCHANGED <<queue, status, runs, todo, answers>>

\* Mutant of Create: no UNIQUE constraint on the key.
CreateNoUnique(p) ==
  /\ At(p, "create")
  /\ runs' = Append(runs, [key |-> call[p].key, state |-> "created", waits |-> 0])
  /\ GoWith(p, "event", Len(runs) + 1)
  /\ UNCHANGED <<queue, status, todo, answers, bounds>>

\* create_run: the UNIQUE column decides a race, and the loser replays the
\* winner's run.
Create(p) ==
  /\ At(p, "create")
  /\ \/ /\ RunsOf(call[p].key) = {}
        /\ runs' = Append(runs, [key |-> call[p].key, state |-> "created", waits |-> 0])
        /\ GoWith(p, "event", Len(runs) + 1)
        /\ UNCHANGED bounds
     \/ /\ \E i \in RunsOf(call[p].key) : GoWith(p, "load", i)
        /\ UNCHANGED <<runs, bounds>>
     \/ Fault /\ Go(p, "error") /\ UNCHANGED runs
  /\ UNCHANGED <<queue, status, todo, answers>>

\* The run_started event has a transaction of its own.
AppendStarted(p) ==
  /\ At(p, "event")
  /\ \/ Go(p, "submit") /\ UNCHANGED bounds
     \/ Fault /\ Go(p, "error")
  /\ UNCHANGED <<queue, status, runs, todo, answers>>

\* submit swallows the errors of the run's turn.
SubmitStarted(p) ==
  /\ At(p, "submit")
  /\ \/ Moves(call[p].run, "running") /\ UNCHANGED bounds
     \/ Fault /\ UNCHANGED runs
  /\ Go(p, "load")
  /\ UNCHANGED <<queue, status, todo, answers>>

LoadResponse(p) ==
  /\ At(p, "load")
  /\ \/ Go(p, "answer") /\ UNCHANGED bounds
     \/ Fault /\ Go(p, "error")
  /\ UNCHANGED <<queue, status, runs, todo, answers>>

\* An MCP client gets its answer or its error.
Reply(p) ==
  /\ p \in Callers
  /\ \/ At(p, "answer") /\ answers' = answers \cup {<<call[p].key, call[p].run>>}
     \/ At(p, "error") /\ UNCHANGED answers
  /\ Go(p, "done")
  /\ UNCHANGED <<queue, status, runs, todo, bounds>>

-----------------------------------------------------------------------------
(* The poller. *)

\* get_actions: what is pending is delivered, again and again.
Poll ==
  /\ At(Poller, "idle") /\ todo = {}
  /\ todo' = {i \in DOMAIN queue : status[queue[i]] = "pending"}
  /\ todo' # {}
  /\ UNCHANGED <<queue, status, runs, call, answers, bounds>>

\* The actions of one GET are handled one by one, the oldest first.
Current(i)       == i \in todo /\ \A j \in todo : i <= j
Handles(i, kind) == At(Poller, "idle") /\ Current(i) /\ queue[i].kind = kind
Become(i, pc, r) == call' = [call EXCEPT ![Poller] = [pc |-> pc, key |-> queue[i].run, run |-> r]]
Leave(i)         == todo' = todo \ {i} /\ call' = [call EXCEPT ![Poller] = Idle]

\* The poller's lookup: an error of the store is taken for "no such run".
NoRunFound(k) == (RunsOf(k) = {} /\ UNCHANGED bounds) \/ Fault

\* Mutants of HandleTrigger for a redelivered trigger: acknowledged without the
\* run's id; refused as a duplicate; skipped without an ack.
HandleTriggerNoId(i) ==
  /\ Handles(i, "trigger_run")
  /\ Become(i, IF RunsOf(queue[i].run) = {} THEN "find" ELSE "answer", 0)
  /\ UNCHANGED <<queue, status, runs, todo, answers, bounds>>
HandleTriggerRefused(i) ==
  /\ Handles(i, "trigger_run")
  /\ Become(i, IF RunsOf(queue[i].run) = {} THEN "find" ELSE "error", 0)
  /\ UNCHANGED <<queue, status, runs, todo, answers, bounds>>
HandleTriggerSkipped(i) ==
  /\ Handles(i, "trigger_run")
  /\ IF RunsOf(queue[i].run) = {} THEN Become(i, "find", 0) /\ UNCHANGED todo ELSE Leave(i)
  /\ UNCHANGED <<queue, status, runs, answers, bounds>>

\* handle_trigger_run up to start_flow: a failing lookup counts as no run.
HandleTrigger(i) ==
  LET k == queue[i].run
  IN  /\ Handles(i, "trigger_run")
      /\ \/ (\E r \in RunsOf(k) : Become(i, "answer", r)) /\ UNCHANGED bounds
         \/ NoRunFound(k) /\ Become(i, IF k \in Malformed \cup MissingInput THEN "error" ELSE "find", 0)
      /\ UNCHANGED <<queue, status, runs, todo, answers>>

\* handle_approve_reject: without a run it is deleted, without a waiting step it
\* is left pending, as it is when the store fails in approve_step.
HandleApprove(i) ==
  LET k == queue[i].run
  IN  /\ Handles(i, "approve")
      /\ \/ NoRunFound(k) /\ Become(i, "error", 0) /\ UNCHANGED <<runs, todo>>
         \/ \E r \in RunsOf(k) :
              \/ /\ runs[r].state = "waiting"
                 /\ (Moves(r, "running") /\ UNCHANGED bounds) \/ (Fault /\ UNCHANGED runs)
                 /\ Become(i, "answer", r)
                 /\ UNCHANGED todo
              \/ /\ (runs[r].state # "waiting" /\ UNCHANGED bounds) \/ Fault
                 /\ Leave(i)
                 /\ UNCHANGED runs
      /\ UNCHANGED <<queue, status, answers>>

\* Mutant of HandleCancel: a run that waits for a human is not cancelled.
HandleCancelActive(i) ==
  /\ Handles(i, "cancel")
  /\ runs' = [r \in DOMAIN runs |->
       IF runs[r].key = queue[i].run /\ runs[r].state # "waiting" THEN [runs[r] EXCEPT !.state = "over"]
       ELSE runs[r]]
  /\ Become(i, "answer", 0)
  /\ UNCHANGED <<queue, status, todo, answers, bounds>>

\* handle_cancel: acknowledged whatever comes of it.
HandleCancel(i) ==
  LET k == queue[i].run
  IN  /\ Handles(i, "cancel")
      /\ \/ NoRunFound(k) /\ UNCHANGED runs
         \/ (\E r \in RunsOf(k) : Moves(r, "over")) /\ UNCHANGED bounds
      /\ Become(i, "answer", 0)
      /\ UNCHANGED <<queue, status, todo, answers>>

\* Mutant of Ack: when the answer does not arrive the action is deleted.
AckElseDelete(i) ==
  /\ At(Poller, "answer") /\ Current(i)
  /\ status' = [status EXCEPT ![queue[i]] = IF @ = "pending" THEN "acked" ELSE @]
  /\ \/ Lost /\ Go(Poller, "error") /\ UNCHANGED todo
     \/ UNCHANGED bounds /\ Leave(i)
  /\ UNCHANGED <<queue, runs, answers>>

\* ack_action: 409 for what is not pending any more counts as success, and a
\* lost answer is only logged.
Ack(i) ==
  /\ At(Poller, "answer") /\ Current(i)
  /\ \/ /\ status' = [status EXCEPT ![queue[i]] = IF @ = "pending" THEN "acked" ELSE @]
        /\ UNCHANGED bounds
     \/ Lost /\ UNCHANGED status
  /\ answers' = IF queue[i].kind = "trigger_run"
                THEN answers \cup {<<call[Poller].key, call[Poller].run>>} ELSE answers
  /\ Leave(i)
  /\ UNCHANGED <<queue, runs>>

\* delete_action: the platform deletes in any state.
Delete(i) ==
  /\ At(Poller, "error") /\ Current(i)
  /\ \/ status' = [status EXCEPT ![queue[i]] = "deleted"] /\ UNCHANGED bounds
     \/ Lost /\ UNCHANGED status
  /\ Leave(i)
  /\ UNCHANGED <<queue, runs, answers>>

-----------------------------------------------------------------------------
(* Around them: the platform's users, the runs, and the restart. *)

\* A run is approved or cancelled after it was triggered.
Enqueue(a) ==
  /\ status[a] = "none"
  /\ a.kind = "trigger_run" \/ status[Trigger(a.run)] # "none"
  /\ queue' = Append(queue, a)
  /\ status' = [status EXCEPT ![a] = "pending"]
  /\ UNCHANGED <<runs, tasks, bounds>>

RunWaits(i) ==
  /\ runs[i].state = "running" /\ runs[i].waits < MaxWaits
  /\ runs' = [runs EXCEPT ![i].state = "waiting", ![i].waits = @ + 1]
  /\ UNCHANGED <<queue, status, tasks, bounds>>

RunEnds(i) ==
  /\ runs[i].state \in {"running", "waiting"}
  /\ Moves(i, "over")
  /\ UNCHANGED <<queue, status, tasks, bounds>>

\* Mutant of Restart: the recovery looks at runs with steps only.
RestartForgets ==
  /\ Mishap
  /\ call' = [p \in Tasks |-> IF p \in Callers /\ ~At(p, "idle") THEN [call[p] EXCEPT !.pc = "done"] ELSE Idle]
  /\ todo' = {}
  /\ UNCHANGED <<queue, status, runs, answers, faults>>

\* A crash, and the recovery that runs before anything is served: a run without
\* any step is started.
Restart ==
  /\ Mishap
  /\ call' = [p \in Tasks |-> IF p \in Callers /\ ~At(p, "idle") THEN [call[p] EXCEPT !.pc = "done"] ELSE Idle]
  /\ todo' = {}
  /\ runs' = [i \in DOMAIN runs |->
       IF runs[i].state = "created" THEN [runs[i] EXCEPT !.state = "running"] ELSE runs[i]]
  /\ UNCHANGED <<queue, status, answers, faults>>

-----------------------------------------------------------------------------
Init ==
  /\ queue = <<>>
  /\ status = [a \in Actions |-> "none"]
  /\ runs = <<>>
  /\ call = [p \in Tasks |-> Idle]
  /\ todo = {}
  /\ answers = {}
  /\ faults = 0 /\ mishaps = 0

StartFlow(p) == Find(p) \/ Create(p) \/ AppendStarted(p) \/ SubmitStarted(p) \/ LoadResponse(p) \/ Reply(p)
HandleAction == \E i \in todo : HandleTrigger(i) \/ HandleApprove(i) \/ HandleCancel(i) \/ Ack(i) \/ Delete(i)
PollerStep   == Poll \/ HandleAction

Next ==
  \/ \E p \in Tasks : StartCall(p) \/ StartFlow(p)
  \/ PollerStep
  \/ \E a \in Actions : Enqueue(a)
  \/ \E i \in DOMAIN runs : RunWaits(i) \/ RunEnds(i)
  \/ Restart

Spec == Init /\ [][Next]_vars

\* The tasks are awaited by the tokio runtime and the poll loop ticks for ever.
\* Runs, humans and the platform's users owe nothing.
Fairness == WF_vars(PollerStep) /\ \A p \in Tasks : WF_vars(StartFlow(p))
FairSpec == Spec /\ Fairness

-----------------------------------------------------------------------------
(* Properties. *)

\* The types of the platform's and the store's rows and of the tasks' locals.
TypeOK ==
  /\ queue \in Seq(Actions)
  /\ status \in [Actions -> {"none", "pending", "acked", "deleted"}]
  /\ runs \in Seq([key : Keys, state : RunState, waits : 0 .. MaxWaits])
  /\ call \in [Tasks -> [pc : Pc, key : Keys, run : Nat]]
  /\ todo \subseteq DOMAIN queue
  /\ answers \subseteq Keys \X DOMAIN runs
  /\ mishaps \in 0 .. MaxMishaps /\ faults \in 0 .. mishaps

\* start_flow.rs:131: however calls with one key race, retry or fail, and
\* however often a trigger is redelivered, there is one run of the key and
\* everybody is told that run.
OneRunPerKey ==
  /\ \A i, j \in DOMAIN runs : runs[i].key = runs[j].key => i = j
  /\ \A x \in answers : runs[x[2]].key = x[1]

\* client.rs:102, poller.rs:6: "Never DELETE an action already acked", whatever
\* answers were lost on the way.
NeverDeletesAcked ==
  [][\A a \in Actions : status[a] = "acked" => status'[a] # "deleted"]_vars

\* A trigger that is deleted, which the platform shows as a failed run, has no
\* run here, as long as the store works.
DeletedNeverRan ==
  faults = 0 => \A k \in PlatformKeys : status[Trigger(k)] = "deleted" => RunsOf(k) = {}

\* Once a cancel is acknowledged nothing of the run is going on any more, nor
\* will be: a trigger that is still pending starts nothing.  As long as the
\* store works.
CancelHolds ==
  faults = 0 => \A k \in Operated :
    status[Cancel(k)] = "acked" => \A i \in RunsOf(k) : runs[i].state = "over"

\* Every trigger and every cancel leaves the platform's queue in the end.
Answered ==
  \A a \in {b \in Actions : b.kind # "approve"} : status[a] = "pending" ~> status[a] \in {"acked", "deleted"}

\* A run whose start was interrupted is started all the same, by its caller or
\* by the recovery, unless a store call failed.
RunsStart ==
  \A k \in Keys : (\E i \in RunsOf(k) : runs[i].state = "created")
                   ~> (faults > 0 \/ \A i \in RunsOf(k) : runs[i].state # "created")

=============================================================================
