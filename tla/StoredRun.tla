----------------------------- MODULE StoredRun -----------------------------
(***************************************************************************)
(* What the scheduler of one run leaves in the SQLite state store of       *)
(* crates/flowspec-server/src/state/sqlite_store.rs: step_runs with every  *)
(* attempt of every step, and run_events as somebody sees them who reads   *)
(* them all in order and keeps the last one of every step.  Each action of *)
(* Scheduler that writes is joined with its mutation batch, one            *)
(* transaction.                                                            *)
(***************************************************************************)
EXTENDS Scheduler

VARIABLES
  table,  \* step_runs, by (step_id, attempt)
  told    \* run_events: the last one about a step that tells its status

storedVars == <<vars, table, told>>

\* What a batch leaves in a row besides its status: the columns it fills.
Columns == {"output", "failure_reason", "failure_detail", "approved", "rejected"}
Record  == [status : Status, job : BOOLEAN, filled : SUBSET Columns]
Fresh   == [status |-> "running", job |-> FALSE, filled |-> {}]

StepEvent == {"none", "step_activated", "step_waiting_on_subflow",
              "step_waiting_approval", "step_completed", "step_failed"}

-----------------------------------------------------------------------------
(* Reading *)

Attempts(s) == {k \in DOMAIN table : k.step = s}

\* latest_steps: the row of the highest attempt hides the others.
LatestKey(s) == CHOOSE k \in Attempts(s) : \A l \in Attempts(s) : l.attempt <= k.attempt

Latest ==
  [s \in Steps |->
     IF Attempts(s) = {} THEN NoRow
     ELSE [status |-> table[LatestKey(s)].status, attempt |-> LatestKey(s).attempt,
           job |-> table[LatestKey(s)].job]]

-----------------------------------------------------------------------------
(* Writing: a batch is the rows it inserts, the rows it updates and the    *)
(* events it appends.                                                      *)

Nothing == [k \in {} |-> {}]
Only(k, v) == [x \in {k} |-> v]

\* The entries of new hide those of old.
Over(new, old) ==
  [k \in DOMAIN new \cup DOMAIN old |-> IF k \in DOMAIN new THEN new[k] ELSE old[k]]

\* Mutant: a row that is there already is kept.
ApplyKeepsOld(inserts, updates, events) ==
  IF DOMAIN updates \subseteq DOMAIN table
  THEN table' = Over(updates, Over(table, inserts)) /\ told' = Over(events, told)
  ELSE UNCHANGED <<table, told>>

\* One transaction: an UPDATE that finds no row rolls the whole batch back;
\* an INSERT replaces the row of the same attempt.
Apply(inserts, updates, events) ==
  IF DOMAIN updates \subseteq DOMAIN table
  THEN table' = Over(inserts, Over(updates, table)) /\ told' = Over(events, told)
  ELSE UNCHANGED <<table, told>>

At(s, n) == [step |-> s, attempt |-> n]

Fill(k, column) == Only(k, [table[k] EXCEPT !.filled = @ \cup {column}])

\* Mutant: the output of a step that waits for approval is not stored.
ColumnUnlessWaiting(c) ==
  CASE c.status = "completed" /\ c.step \notin HumanLoop -> {"output"}
    [] c.status = "completed" /\ c.step \in HumanLoop    -> {"approved"}
    [] c.status = "failed"                               -> {"failure_reason"}
    [] c.status = "failed_rejected"                      -> {"rejected"}
    [] OTHER                                             -> {}

\* add_event_data: what the event that marks the step carries.
Column(c) ==
  CASE c.status = "waiting_approval"                     -> {"output"}
    [] c.status = "completed" /\ c.step \notin HumanLoop -> {"output"}
    [] c.status = "completed" /\ c.step \in HumanLoop    -> {"approved"}
    [] c.status = "failed"                               -> {"failure_reason"}
    [] c.status = "failed_rejected"                      -> {"rejected"}

\* MarkStepStatus and CancelSteps, on the latest attempts.
Settled(c) ==
  LET marked  == IF c.status = "none" THEN {} ELSE {c.step}
      key(s)  == At(s, Latest[s].attempt)
      row(k)  == IF k \notin DOMAIN table THEN Fresh
                 ELSE IF k.step \in marked
                 THEN [table[k] EXCEPT !.status = c.status, !.filled = @ \cup Column(c)]
                 ELSE [table[k] EXCEPT !.status = "cancelled"]
  IN  [k \in {key(s) : s \in c.cancel \cup marked} |-> row(k)]

\* Mutants: a rejection has an event of its own, which nobody reads; no event
\* tells that a step waits for its approval.
AnnouncesRejection(c) ==
  CASE c.status = "waiting_approval" -> Only(c.step, "step_waiting_approval")
    [] c.status = "completed" -> Only(c.step, "step_completed")
    [] c.status = "failed" -> Only(c.step, "step_failed")
    [] c.status = "failed_rejected" -> Only(c.step, "step_failed_rejected")
    [] OTHER -> Nothing
AnnouncesUnlessWaiting(c) ==
  CASE c.status = "completed" -> Only(c.step, "step_completed")
    [] c.status \in {"failed", "failed_rejected"} -> Only(c.step, "step_failed")
    [] OTHER -> Nothing

\* The event of a marked step; a cancelled one has none.
Announces(c) ==
  CASE c.status = "waiting_approval" -> Only(c.step, "step_waiting_approval")
    [] c.status = "completed" -> Only(c.step, "step_completed")
    [] c.status \in {"failed", "failed_rejected"} -> Only(c.step, "step_failed")
    [] OTHER -> Nothing

\* The subflow stub: always attempt 1.
Stubs(kids)  == [k \in {At(s, 1) : s \in kids} |-> Fresh]
Waits(kids)  == [s \in kids |-> "step_waiting_on_subflow"]

-----------------------------------------------------------------------------
(* The actions of Scheduler that write, with what they write *)

StoreInit ==
  /\ Init
  /\ table = Nothing
  /\ told = [s \in Steps |-> "none"]

StoreActivation(a, kids) ==
  /\ ActivateStep(a, kids)
  /\ Apply(Over(Only(At(a.step, a.attempt), Fresh), Stubs(kids)), Settled(turn.cmds),
           Over(Only(a.step, "step_activated"), Over(Waits(kids), Announces(turn.cmds))))

StoreTurn ==
  /\ FinishTurn
  /\ Apply(Stubs(turn.cmds.children), Settled(turn.cmds),
           Over(Waits(turn.cmds.children), Announces(turn.cmds)))

\* Mutant: the job id goes to the latest attempt.
StoreJobIdLatest(t) ==
  /\ PersistJobId(t)
  /\ LET k == LatestKey(t.step) IN Apply(Nothing, Only(k, [table[k] EXCEPT !.job = TRUE]), Nothing)

\* SetJobId, outside the run lock, for the attempt of the task.
StoreJobId(t) ==
  /\ PersistJobId(t)
  /\ Apply(Nothing, Only(KeyOf(t), [table[KeyOf(t)] EXCEPT !.job = TRUE]), Nothing)

\* A task stores the detail of its failure before it submits it, outside the
\* run lock; a re-attached one does not.
StoreFailure(t) ==
  /\ StartFails(t) \/ JobFails(t) \/ WaitGivesUp(t)
  /\ IF t.reattached THEN UNCHANGED <<table, told>>
     ELSE Apply(Nothing, Fill(KeyOf(t), "failure_detail"), Nothing)

\* Everything else leaves step_runs and the step events alone.
StoreNothing ==
  /\ \/ RunStarted \/ CancelRequested \/ DeadlineExceeded \/ Crash \/ Recover \/ Ended
     \/ \E s \in Steps : CancelJob(s) \/ AbortTask(s) \/ FollowOnSubmits(s)
     \/ \E a \in turn.cmds.activate : ActivationFails(a)
     \/ \E t \in tasks : StartJob(t) \/ JobCompletes(t) \/ TaskSubmits(t)
     \/ \E h \in hooks : HookStep(h)
     \/ \E c \in Clients, s \in Steps, type \in {"step_approved", "step_rejected"} :
          ResolveApproval(c, s, type)
     \/ \E c \in Clients : SubmitApproval(c)
  /\ UNCHANGED <<table, told>>

StoreNext ==
  \/ \E a \in turn.cmds.activate, kids \in SUBSET turn.cmds.children : StoreActivation(a, kids)
  \/ StoreTurn
  \/ \E t \in tasks : StoreJobId(t) \/ StoreFailure(t)
  \/ StoreNothing

StoreSpec == StoreInit /\ [][StoreNext]_storedVars

-----------------------------------------------------------------------------
(* Properties *)

StoreTypeOK ==
  /\ DOMAIN table \subseteq Key
  /\ \A k \in DOMAIN table : table[k] \in Record
  /\ told \in [Steps -> StepEvent]

\* The rows the engine decides on are the latest rows of step_runs: no
\* transaction is refused for a row that is not there, none reaches an attempt
\* it was not meant for, and a stale attempt never comes to the top.
LatestIsRows == Latest = rows

\* The last event of a step, written with add_event_data in the transaction of
\* its status, tells that status as far as the platform can know: a cancelled
\* step keeps the event it had, and step_failed stands for rejected too.
EventsTellRows ==
  \A s \in Steps :
    rows[s].status \in
      CASE told[s] = "none"                  -> {"none"}
        [] told[s] \in {"step_activated", "step_waiting_on_subflow"} -> {"running", "cancelled"}
        [] told[s] = "step_waiting_approval" -> {"waiting_approval", "cancelled"}
        [] told[s] = "step_completed"        -> {"completed"}
        [] told[s] = "step_failed"           -> {"failed", "failed_rejected"}

\* A status never stands without what it is asked for: the output of a step
\* that waits or is done, what was decided on it, why it failed.
ResultsKept ==
  \A s \in Steps : Attempts(s) # {} =>
    LET row == table[LatestKey(s)]
    IN  /\ row.status \in {"waiting_approval", "completed", "failed_rejected"} => "output" \in row.filled
        /\ row.status = "completed" /\ s \in HumanLoop => "approved" \in row.filled
        /\ row.status = "failed_rejected" => "rejected" \in row.filled
        /\ row.status = "failed" => "failure_reason" \in row.filled

\* The contract of a run, with the rows as latest_steps reads them.
Seen == INSTANCE RunContract
          WITH status   <- [s \in Steps |-> Latest[s].status],
               attempt  <- [s \in Steps |-> Latest[s].attempt],
               phase    <- phase,
               reported <- ended,
               Final    <- Terminal,
               Ends     <- TerminalPhases

\* Whoever reads a run from the store between two transactions, before and after
\* a crash, sees the contract kept.
SeenKeepsContract == Seen!Spec
=============================================================================
