---------------------------- MODULE DevkitdClient ----------------------------
(***************************************************************************)
(* The devkitd client of crates/flowspec-server/src/devkitd/client.rs with *)
(* its two kinds of callers in scheduler.rs: the task of a step, which     *)
(* starts a job and waits for it, and CancelSteps, which cancels the job   *)
(* and aborts that task.  All calls share one connection behind a mutex,   *)
(* held for the whole call.  A call can fail before devkitd saw it or with *)
(* its answer lost; devkitd can forget a job at any time.                  *)
(***************************************************************************)
EXTENDS Naturals, Sequences

CONSTANTS
  Jobs,       \* the jobs: one attempt of a step each
  Stopped,    \* those CancelSteps may be executed for
  Deadlines,  \* those whose wait has a deadline
  Garbled,    \* those for which devkitd sends answers that cannot be read
  Budget      \* poll_retry_delays.len()

ASSUME ClientAssumption ==
  /\ Stopped \subseteq Jobs
  /\ Deadlines \subseteq Jobs
  /\ Garbled \subseteq Jobs
  /\ Budget \in Nat

VARIABLES
  fate,     \* devkitd: what became of the job
  known,    \* devkitd: whether job-status and job-cancel find it
  late,     \* whether the deadline of the wait has passed
  task,     \* the step's task: start, then the loop of wait
  stop,     \* CancelSteps for the step: cancel, then abort_inflight
  line,     \* the tokio mutex of conn: its holder, then those who wait
  answer,   \* devkitd's answer to the holder's request, once there is one
  silence   \* history: the polls of a job that failed since the last answer

devkitd == <<fate, known>>
mutex   == <<line, answer>>
vars    == <<fate, known, late, task, stop, line, answer, silence>>

CancelTries == 3

Outcomes == {"ok", "failed", "timedOut"}
Callers  == Jobs \X {"task", "stop"}
TaskPc   == {"idle", "start", "persist", "check", "poll", "cancel", "backoff", "over"}
StopPc   == {"idle", "cancel", "backoff", "abort", "over"}
Verdict  == {"none", "ok", "toolError", "timeout", "cancelled", "interrupted", "unreachable"}
Answer   == {"none", "accepted", "error", "garbled", "oddState", "running", "killed"} \cup Outcomes

Pc(c) == IF c[2] = "task" THEN task[c[1]].pc ELSE stop[c[1]].pc

Go(j, pc)   == task' = [task EXCEPT ![j].pc = pc]
Over(j, v)  == task' = [task EXCEPT ![j].pc = "over", ![j].verdict = v, ![j].fails = 0]
StopAt(j, pc) == stop' = [stop EXCEPT ![j].pc = pc]

-----------------------------------------------------------------------------
(* invoke: take the connection, send the request, await the answer. *)

Holder(c) == line # <<>> /\ Head(line) = c
Join(c)   == line' = Append(line, c) /\ UNCHANGED answer
Release   == line' = Tail(line) /\ answer' = "none"

\* The requests of the callers.  A garbled answer hides what devkitd did.
Reply(j, a) == answer' = a \/ (j \in Garbled /\ answer' = "garbled")

ServeStart(j) ==
  \/ /\ fate' = [fate EXCEPT ![j] = "running"]
     /\ known' = [known EXCEPT ![j] = TRUE]
     /\ Reply(j, "accepted")
  \/ answer' = "error" /\ UNCHANGED devkitd

ServeStatus(j) ==
  /\ IF known[j] THEN Reply(j, fate[j]) \/ (j \in Garbled /\ fate[j] = "running" /\ answer' = "oddState")
     ELSE answer' = "error"
  /\ UNCHANGED devkitd

ServeCancel(j) ==
  /\ answer' = IF known[j] THEN "accepted" ELSE "error"
  /\ fate' = [fate EXCEPT ![j] = IF @ = "running" THEN "killed" ELSE @]
  /\ UNCHANGED known

Serve ==
  /\ line # <<>> /\ answer = "none"
  /\ LET j == Head(line)[1]
     IN  CASE Pc(Head(line)) = "start"  -> ServeStart(j)
           [] Pc(Head(line)) = "poll"   -> ServeStatus(j)
           [] Pc(Head(line)) = "cancel" -> ServeCancel(j)
  /\ UNCHANGED <<late, task, stop, line, silence>>

\* What becomes of a job is followed as long as its task asks for it.
JobEnds(j) ==
  /\ fate[j] = "running" /\ task[j].pc # "over"
  /\ \E f \in Outcomes : fate' = [fate EXCEPT ![j] = f]
  /\ UNCHANGED <<known, late, task, stop, mutex, silence>>

\* A restart of devkitd, which ends its jobs, or the purge of an old one.
Forget(j) ==
  /\ known[j] /\ task[j].pc \in {"check", "poll"}
  /\ known' = [known EXCEPT ![j] = FALSE]
  /\ fate' = [fate EXCEPT ![j] = IF @ = "running" THEN "lost" ELSE @]
  /\ UNCHANGED <<late, task, stop, mutex, silence>>

-----------------------------------------------------------------------------
(* start *)

Activate(j) ==
  /\ task[j].pc = "idle"
  /\ Go(j, "start")
  /\ Join(<<j, "task">>)
  /\ UNCHANGED <<devkitd, late, stop, silence>>

Started(j) ==
  /\ Holder(<<j, "task">>) /\ task[j].pc = "start"
  /\ \/ answer = "accepted" /\ Go(j, "persist")
     \/ answer \in {"error", "garbled"} /\ Over(j, "toolError")
  /\ Release
  /\ UNCHANGED <<devkitd, late, stop, silence>>

StartFails(j) ==
  /\ Holder(<<j, "task">>) /\ task[j].pc = "start"
  /\ Over(j, "unreachable")
  /\ Release
  /\ UNCHANGED <<devkitd, late, stop, silence>>

\* The scheduler stores the job id before it waits; if it cannot, the step
\* fails without a wait.
PersistJobId(j) ==
  /\ task[j].pc = "persist"
  /\ \/ task' = [task EXCEPT ![j].pc = "check", ![j].stored = TRUE]
     \/ Go(j, "over")
  /\ UNCHANGED <<devkitd, late, stop, mutex, silence>>

-----------------------------------------------------------------------------
(* wait *)

\* Time passes while the task waits.
Expire(j) ==
  /\ j \in Deadlines /\ ~late[j]
  /\ task[j].pc \in {"check", "poll"}
  /\ late' = [late EXCEPT ![j] = TRUE]
  /\ UNCHANGED <<devkitd, task, stop, mutex, silence>>

\* Mutant: past the deadline the job is left to devkitd.
CheckNoCancel(j) ==
  /\ task[j].pc = "check"
  /\ \/ late[j] /\ Over(j, "timeout") /\ UNCHANGED mutex
     \/ ~late[j] /\ Go(j, "poll") /\ Join(<<j, "task">>)
  /\ UNCHANGED <<devkitd, late, stop, silence>>

\* The head of the loop, after the sleep if there was one: past the deadline the
\* job is cancelled, else polled.
Check(j) ==
  /\ task[j].pc = "check"
  /\ Go(j, IF late[j] THEN "cancel" ELSE "poll")
  /\ Join(<<j, "task">>)
  /\ UNCHANGED <<devkitd, late, stop, silence>>

VerdictOn(a) ==
  CASE a = "ok"                    -> "ok"
    [] a \in {"failed", "garbled"} -> "toolError"
    [] a = "timedOut"              -> "timeout"
    [] a = "killed"                -> "cancelled"
    [] a = "error"                 -> "interrupted"

\* Mutants: an answer does not reset the failures; an unknown job has failed.
PolledNoReset(j) ==
  /\ Holder(<<j, "task">>) /\ task[j].pc = "poll" /\ answer # "none"
  /\ IF answer \in {"running", "oddState"} THEN Go(j, "check") ELSE Over(j, VerdictOn(answer))
  /\ silence' = [silence EXCEPT ![j] = 0]
  /\ Release
  /\ UNCHANGED <<devkitd, late, stop>>
PolledUnknownFailed(j) ==
  /\ Holder(<<j, "task">>) /\ task[j].pc = "poll" /\ answer # "none"
  /\ task' = [task EXCEPT
       ![j].fails = 0,
       ![j].pc = IF answer \in {"running", "oddState"} THEN "check" ELSE "over",
       ![j].verdict = IF answer \in {"running", "oddState"} THEN @
                      ELSE IF answer = "error" THEN "toolError" ELSE VerdictOn(answer)]
  /\ silence' = [silence EXCEPT ![j] = 0]
  /\ Release
  /\ UNCHANGED <<devkitd, late, stop>>

\* A state the client does not know is polled again like a running job.
Polled(j) ==
  /\ Holder(<<j, "task">>) /\ task[j].pc = "poll" /\ answer # "none"
  /\ task' = [task EXCEPT
       ![j].fails = 0,
       ![j].pc = IF answer \in {"running", "oddState"} THEN "check" ELSE "over",
       ![j].verdict = IF answer \in {"running", "oddState"} THEN @ ELSE VerdictOn(answer)]
  /\ silence' = [silence EXCEPT ![j] = 0]
  /\ Release
  /\ UNCHANGED <<devkitd, late, stop>>

Missed(j) == [silence EXCEPT ![j] = IF @ <= Budget THEN @ + 1 ELSE @]

\* Mutants: the failures are not counted; one failure too many.
PollRetriesForever(j) ==
  /\ Holder(<<j, "task">>) /\ task[j].pc = "poll"
  /\ Go(j, "check")
  /\ silence' = Missed(j)
  /\ Release
  /\ UNCHANGED <<devkitd, late, stop>>

PollGivesUpLate(j) ==
  /\ Holder(<<j, "task">>) /\ task[j].pc = "poll"
  /\ IF task[j].fails > Budget THEN Over(j, "unreachable")
     ELSE task' = [task EXCEPT ![j].pc = "check", ![j].fails = @ + 1]
  /\ silence' = Missed(j)
  /\ Release
  /\ UNCHANGED <<devkitd, late, stop>>

\* The budget bounds the failures in a row.
PollFails(j) ==
  /\ Holder(<<j, "task">>) /\ task[j].pc = "poll"
  /\ IF task[j].fails >= Budget THEN Over(j, "unreachable")
     ELSE task' = [task EXCEPT ![j].pc = "check", ![j].fails = @ + 1]
  /\ silence' = Missed(j)
  /\ Release
  /\ UNCHANGED <<devkitd, late, stop>>

-----------------------------------------------------------------------------
(* cancel, called by wait past its deadline and by CancelSteps *)

\* CancelSteps only knows jobs whose id is stored.
CancelStep(j) ==
  /\ j \in Stopped /\ stop[j].pc = "idle"
  /\ task[j].stored
  /\ StopAt(j, "cancel")
  /\ Join(<<j, "stop">>)
  /\ UNCHANGED <<devkitd, late, task, silence>>

\* The cancel of the caller c has returned: wait reports the timeout, the
\* scheduler goes on to abort the task.
CancelReturned(c) ==
  \/ c[2] = "task" /\ Over(c[1], "timeout") /\ UNCHANGED stop
  \/ c[2] = "stop" /\ StopAt(c[1], "abort") /\ UNCHANGED task

\* Whatever the answer, isError included.
Cancelled(c) ==
  /\ Holder(c) /\ Pc(c) = "cancel" /\ answer # "none"
  /\ CancelReturned(c)
  /\ Release
  /\ UNCHANGED <<devkitd, late, silence>>

\* The last failure is only logged.
CancelFails(c) ==
  LET j     == c[1]
      tries == IF c[2] = "task" THEN task[j].tries + 1 ELSE stop[j].tries + 1
  IN  /\ Holder(c) /\ Pc(c) = "cancel"
      /\ \/ /\ c[2] = "task"
            /\ task' = [task EXCEPT ![j].tries = tries,
                                   ![j].pc = IF tries < CancelTries THEN "backoff" ELSE "over",
                                   ![j].verdict = IF tries < CancelTries THEN @ ELSE "timeout"]
            /\ UNCHANGED stop
         \/ /\ c[2] = "stop"
            /\ stop' = [stop EXCEPT ![j].tries = tries,
                                   ![j].pc = IF tries < CancelTries THEN "backoff" ELSE "abort"]
            /\ UNCHANGED task
      /\ Release
      /\ UNCHANGED <<devkitd, late, silence>>

CancelAgain(c) ==
  /\ Pc(c) = "backoff"
  /\ \/ c[2] = "task" /\ Go(c[1], "cancel") /\ UNCHANGED stop
     \/ c[2] = "stop" /\ StopAt(c[1], "cancel") /\ UNCHANGED task
  /\ Join(c)
  /\ UNCHANGED <<devkitd, late, silence>>

\* abort_inflight drops the task at its await: in the line of the mutex or,
\* as its holder, with the request under way.
Abort(j) ==
  /\ stop[j].pc = "abort"
  /\ StopAt(j, "over")
  /\ task' = [task EXCEPT ![j].pc = "over"]
  /\ \/ \E n \in DOMAIN line :
          line[n] = <<j, "task">> /\ line' = SubSeq(line, 1, n - 1) \o SubSeq(line, n + 1, Len(line))
     \/ (\A n \in DOMAIN line : line[n] # <<j, "task">>) /\ UNCHANGED line
  /\ answer' = IF Holder(<<j, "task">>) THEN "none" ELSE answer
  /\ UNCHANGED <<devkitd, late, silence>>

-----------------------------------------------------------------------------
Init ==
  /\ fate = [j \in Jobs |-> "none"]
  /\ known = [j \in Jobs |-> FALSE]
  /\ late = [j \in Jobs |-> FALSE]
  /\ task = [j \in Jobs |-> [pc |-> "idle", fails |-> 0, tries |-> 0, verdict |-> "none",
                         stored |-> FALSE]]
  /\ stop = [j \in Jobs |-> [pc |-> "idle", tries |-> 0]]
  /\ line = <<>>
  /\ answer = "none"
  /\ silence = [j \in Jobs |-> 0]

TaskStep(j) ==
  \/ Started(j) \/ StartFails(j) \/ PersistJobId(j)
  \/ Check(j) \/ Polled(j) \/ PollFails(j)
CancelCall(c) == Cancelled(c) \/ CancelFails(c) \/ CancelAgain(c)

Next ==
  \/ \E j \in Jobs : Activate(j) \/ TaskStep(j) \/ Expire(j) \/ CancelStep(j) \/ Abort(j)
  \/ \E c \in Callers : CancelCall(c)
  \/ Serve
  \/ \E j \in Jobs : JobEnds(j) \/ Forget(j)

Spec == Init /\ [][Next]_vars

(* Fairness: tokio runs every task and hands the mutex on in order, a call *)
(* is answered or fails, a deadline passes, and devkitd ends the jobs that *)
(* have no deadline here.  Nothing makes devkitd reachable again.          *)
Fairness ==
  \A j \in Jobs :
    /\ WF_vars(TaskStep(j)) /\ WF_vars(Abort(j))
    /\ \A k \in {"task", "stop"} : WF_vars(CancelCall(<<j, k>>))
    /\ IF j \in Deadlines THEN WF_vars(Expire(j)) ELSE WF_vars(JobEnds(j))

FairSpec == Spec /\ Fairness

-----------------------------------------------------------------------------
(* Properties *)

\* What the variables hold, and nobody is twice in the line of the mutex.
TypeOK ==
  /\ fate \in [Jobs -> {"none", "running", "killed", "lost"} \cup Outcomes]
  /\ known \in [Jobs -> BOOLEAN] /\ late \in [Jobs -> BOOLEAN]
  /\ task \in [Jobs -> [pc : TaskPc, fails : 0 .. Budget, tries : 0 .. CancelTries,
                        verdict : Verdict, stored : BOOLEAN]]
  /\ stop \in [Jobs -> [pc : StopPc, tries : 0 .. CancelTries]]
  /\ line \in Seq(Callers)
  /\ \A m, n \in DOMAIN line : line[m] = line[n] => m = n
  /\ answer \in Answer
  /\ silence \in [Jobs -> 0 .. Budget + 1]

\* client.rs:228 and architecture.md "cancellation is end-to-end": a job the
\* runtime is done with still runs only if devkitd could not be reached for all
\* polls of the budget in a row or for all three cancels, if its id never
\* reached the store, or if devkitd sent answers that cannot be read.
LeftAlive ==
  \A j \in Jobs \ Garbled :
    fate[j] = "running" /\ task[j].pc = "over"
      => \/ ~task[j].stored
         \/ task[j].verdict = "unreachable" /\ silence[j] = Budget + 1
         \/ CancelTries \in {task[j].tries, stop[j].tries}

\* client.rs:3 "discriminated by call-site": whatever calls fail, get lost or
\* are aborted, the caller is told what devkitd made of its job.
Port == INSTANCE JobPort WITH
  Jobs <- Jobs \ Garbled,
  fate <- [j \in Jobs \ Garbled |-> fate[j]],
  known <- [j \in Jobs \ Garbled |-> known[j]],
  late <- [j \in Jobs \ Garbled |-> late[j]],
  verdict <- [j \in Jobs \ Garbled |-> task[j].verdict]
KeepsPort == Port!Spec

\* Every wait and every cancel returns, whoever else is using the connection
\* and however long devkitd stays away: a step past its deadline does not hang.
Returns == <>[](\A c \in Callers : Pc(c) \in {"idle", "over"})

=============================================================================
