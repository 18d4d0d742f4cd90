---------------------------- MODULE MCScheduler ----------------------------
(* The flows the scheduler is model-checked with. *)
EXTENDS Scheduler

none == [s \in Steps |-> {}]
zero == [s \in Steps |-> 0]

\* a fans out to b and c, which join in d (flows-fixtures/fan-out.yaml).
FanOutSuccess == [s \in Steps |-> CASE s = "a" -> {"b", "c"} [] s \in {"b", "c"} -> {"d"} [] OTHER -> {}]
FanOutNeeds   == [s \in Steps |-> IF s = "d" THEN {"b", "c"} ELSE {}]
FanOutRetries == [s \in Steps |-> IF s = "c" THEN 1 ELSE 0]
\* With a retry for the two steps of the fan-out, a run outlives a crash.
TornRetries   == [s \in Steps |-> IF s \in {"b", "c"} THEN 1 ELSE 0]

\* b and c run in parallel; a failing b hands over to d, a failing c to e.
HandlerSuccess == [s \in Steps |-> IF s = "a" THEN {"b", "c"} ELSE {}]
HandlerFailure == [s \in Steps |-> CASE s = "b" -> {"d"} [] s = "c" -> {"e"} \cap Steps [] OTHER -> {}]

\* The same, but a is reviewed: rejected, it runs again; approved, b and c follow.
JoinSuccess   == [s \in Steps |-> IF s \in {"b", "c"} THEN {"d"} ELSE {}]
ReviewApprove == [s \in Steps |-> IF s = "a" THEN {"b", "c"} ELSE {}]
ReviewReject  == [s \in Steps |-> IF s = "a" THEN {"a"} ELSE {}]

\* b follows a.
PairSuccess == [s \in Steps |-> IF s = "a" THEN {"b"} ELSE {}]

=============================================================================
