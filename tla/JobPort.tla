------------------------------- MODULE JobPort -------------------------------
(***************************************************************************)
(* What the scheduler may conclude from a call of the Devkitd port         *)
(* (trait Devkitd and DevkitdError in crates/flowspec-app/src/ports.rs):   *)
(* a job is started, ends on its own, is killed or forgotten, and the one  *)
(* verdict its caller gets is backed by what became of it.                 *)
(***************************************************************************)
CONSTANTS Jobs

VARIABLES
  fate,     \* what became of the job
  known,    \* whether devkitd still knows the job
  late,     \* whether the caller's deadline for it has passed
  verdict   \* what the caller was told, if it was

vars == <<fate, known, late, verdict>>

Fates    == {"none", "running", "ok", "failed", "timedOut", "killed", "lost"}
Outcomes == {"ok", "failed", "timedOut"}

Init ==
  /\ fate = [j \in Jobs |-> "none"]
  /\ known = [j \in Jobs |-> FALSE]
  /\ late = [j \in Jobs |-> FALSE]
  /\ verdict = [j \in Jobs |-> "none"]

Begin(j) ==
  /\ fate[j] = "none"
  /\ fate' = [fate EXCEPT ![j] = "running"]
  /\ known' = [known EXCEPT ![j] = TRUE]
  /\ UNCHANGED <<late, verdict>>

End(j) ==
  /\ fate[j] = "running"
  /\ \E f \in Outcomes \cup {"killed"} : fate' = [fate EXCEPT ![j] = f]
  /\ UNCHANGED <<known, late, verdict>>

\* devkitd restarts, or purges a job that ended long ago.
Forget(j) ==
  /\ known[j]
  /\ known' = [known EXCEPT ![j] = FALSE]
  /\ fate' = [fate EXCEPT ![j] = IF @ = "running" THEN "lost" ELSE @]
  /\ UNCHANGED <<late, verdict>>

Expire(j) == late' = [late EXCEPT ![j] = TRUE] /\ UNCHANGED <<fate, known, verdict>>

\* The fates of j that the verdict v can be given on; unreachable says nothing.
Backed(j, v) ==
  CASE v = "ok"          -> fate[j] = "ok"
    [] v = "toolError"   -> fate[j] \in {"none", "failed"}
    [] v = "timeout"     -> fate[j] = "timedOut" \/ late[j]
    [] v = "cancelled"   -> fate[j] = "killed"
    [] v = "interrupted" -> ~known[j]
    [] v = "unreachable" -> TRUE

Report(j) ==
  /\ verdict[j] = "none"
  /\ \E v \in {"ok", "toolError", "timeout", "cancelled", "interrupted", "unreachable"} :
       Backed(j, v) /\ verdict' = [verdict EXCEPT ![j] = v]
  /\ UNCHANGED <<fate, known, late>>

Next == \E j \in Jobs : Begin(j) \/ End(j) \/ Forget(j) \/ Expire(j) \/ Report(j)

Spec == Init /\ [][Next]_vars
=============================================================================
