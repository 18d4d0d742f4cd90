------------------------------ MODULE MCStored ------------------------------
(* A flow with hooks, a subflow and a review, for the stored run. *)
EXTENDS StoredRun

none == [s \in Steps |-> {}]

\* a hands over to c and to the subflow s; the handler of s is reviewed and,
\* rejected, sends the run back to a.
StoredSuccess == [s \in Steps |-> IF s = "a" THEN {"c", "s"} ELSE {}]
StoredFailure == [s \in Steps |-> IF s = "s" THEN {"b"} ELSE {}]
StoredReject  == [s \in Steps |-> IF s = "b" THEN {"a"} ELSE {}]
StoredRetries == [s \in Steps |-> IF s = "a" THEN 1 ELSE 0]
=============================================================================
