----------------------------- MODULE MCAnyFlow -----------------------------
(* The flows that are loaded and run. *)
EXTENDS AnyFlow

Three == {1, 2, 3}
Four  == {1, 2, 3, 4}

None(steps) == [s \in steps |-> {}]

Flow(steps, success, failure, needs) ==
  [steps |-> steps, success |-> success, failure |-> failure, approve |-> None(steps),
   reject |-> None(steps), needs |-> needs, human |-> {}]

\* Every graph of three steps.
AllGraphs == {Flow(Three, success, None(Three), None(Three)) : success \in [Three -> SUBSET Three]}

\* Routes forwards only: to steps with a higher number.
Forward(steps) == {r \in [steps -> SUBSET steps] : \A s \in steps : \A t \in r[s] : s < t}

\* At most one failure route for a step; few of them to step 1, one in all.
Failures(steps) == [steps -> {{}} \cup {{t} : t \in steps}]
Few(failures)   == {r \in failures : Cardinality({s \in DOMAIN r : 1 \in r[s]}) <= 1}
One(failures)   == {r \in failures : Cardinality({s \in DOMAIN r : r[s] # {}}) <= 1}

\* needs: of a step with several sources, all of them.
Joined(success, failure, steps) ==
  [t \in steps |->
     LET edges == {<<s, f>> \in steps \X {"success", "failure"} :
                     t \in IF f = "success" THEN success[s] ELSE failure[s]}
     IN  IF Cardinality(edges) > 1 THEN {e[1] : e \in edges} ELSE {}]

Joins(steps, failures) ==
  {Flow(steps, success, failure, Joined(success, failure, steps)) :
     success \in Forward(steps), failure \in failures}

\* No needs: at all.
Unjoined == {Flow(Three, success, None(Three), None(Three)) : success \in Forward(Three)}

\* needs: that leave some of the sources out.
PartialJoins ==
  {Flow(Three, success, None(Three), needs) :
     success \in Forward(Three),
     needs \in {n \in [Three -> SUBSET Three] : \A s \in Three : \A t \in n[s] : t < s}}

\* A step that is reviewed: rejected, it runs again or hands over to another.
Reviewed ==
  {[Flow(Three, success, None(Three), None(Three)) EXCEPT
      !.human = {r.step}, !.approve[r.step] = r.approve, !.reject[r.step] = {r.reject}] :
     success \in Forward(Three),
     r \in {q \in [step : Three, approve : SUBSET Three, reject : Three] : q.step \notin q.approve}}

LoadedFlows ==
  AllGraphs \cup Unjoined \cup Reviewed
    \cup Joins(Three, Few(Failures(Three))) \cup Joins(Four, One(Failures(Four)))

\* Joins in retry loops, and retry loops that start with a join.
LoopedJoins  == Joins(Three, Few(Failures(Three)))
GatedEntries == Joins(Three, Failures(Three))

=============================================================================
