----------------------------- MODULE RunContract -----------------------------
(***************************************************************************)
(* What a run promises to those who watch it (the run queries, the step    *)
(* table of a run, the platform fed from the outbox): docs/flowspec-spec.md*)
(* "active_steps" and "phase".  While it runs, any step may change, but    *)
(* once a step has been started there is always one that is active and no  *)
(* attempt is forgotten.  It ends in one step, which leaves no step active *)
(* and reports the end, and nothing changes afterwards.                    *)
(***************************************************************************)
EXTENDS Naturals, Sequences

CONSTANTS
  Steps,     \* the steps of the flow
  Active,    \* the statuses of a step that is being worked on or waited for
  Final,     \* the statuses of a step that is not
  Ends       \* the phases a run ends in

VARIABLES
  status,    \* [Steps -> Active \cup Final \cup {"none"}]
  attempt,   \* [Steps -> Nat]
  phase,
  reported   \* the terminal events, oldest first

vars == <<status, attempt, phase, reported>>

ActiveIn(st)  == {s \in Steps : st[s] \in Active}
StartedIn(st) == {s \in Steps : st[s] # "none"}

Init ==
  /\ status = [s \in Steps |-> "none"]
  /\ attempt = [s \in Steps |-> 0]
  /\ phase = "running"
  /\ reported = <<>>

\* Whatever happens to the steps, no start is forgotten.
StepsMove ==
  /\ phase = "running"
  /\ status' \in [Steps -> Active \cup Final \cup {"none"}]
  /\ attempt' \in [Steps -> Nat]
  /\ StartedIn(status) \subseteq StartedIn(status')
  /\ \A s \in Steps : attempt[s] <= attempt'[s]

Work ==
  /\ StepsMove
  /\ StartedIn(status') # {} => ActiveIn(status') # {}
  /\ UNCHANGED <<phase, reported>>

End(p) ==
  /\ StepsMove
  /\ ActiveIn(status') = {}
  /\ phase' = p
  /\ reported' = Append(reported, p)

Next == Work \/ \E p \in Ends : End(p)

Spec == Init /\ [][Next]_vars
=============================================================================
