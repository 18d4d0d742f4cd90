---------------------------- MODULE FlowProofs -----------------------------
(***************************************************************************)
(* Loading and running, for every set of flows.  The search: find_cycle    *)
(* returns a cycle if and only if the graph of the flow has one.  The run: *)
(* which flows, once accepted, are always waiting for something until they *)
(* end, and start every step at most once and after what it may refer to.  *)
(***************************************************************************)
EXTENDS AnyFlow, Integers, SequenceTheorems, FiniteSetTheorems, FunctionTheorems, TLAPS

-----------------------------------------------------------------------------
(* The invariant of the search *)

Black == {s \in flow.steps : color[s] = "black"}

\* No cycle has been missed: the steps that are done lead to such steps only,
\* and there is none among them.
DoneInv ==
  /\ \A s \in Black : E!ForwardTargets(s) \subseteq Black
  /\ \A C \in SUBSET Black : C # {} => \E s \in C : E!ForwardTargets(s) \cap C = {}

\* The stack is a path, and the grey steps are those on it, each once.
StackInv ==
  /\ stack \in Seq(flow.steps)
  /\ \A i \in 1 .. Len(stack) : color[stack[i]] = "grey"
  /\ \A s \in flow.steps : color[s] = "grey" => \E i \in 1 .. Len(stack) : stack[i] = s
  /\ \A i, k \in 1 .. Len(stack) : stack[i] = stack[k] => i = k
  /\ \A i \in 1 .. Len(stack) - 1 : stack[i + 1] \in E!ForwardTargets(stack[i])

\* A path along edges that ends where it began.
IsCycle(p) ==
  /\ p \in Seq(flow.steps) /\ Len(p) > 1 /\ p[1] = p[Len(p)]
  /\ \A i \in 1 .. Len(p) - 1 : p[i + 1] \in E!ForwardTargets(p[i])

EndInv ==
  /\ stage \in {"searching", "rejected", "accepted", "started"}
  /\ cycle = <<>> \/ (IsCycle(cycle) /\ stage = "rejected")
  /\ stage # "searching" /\ cycle = <<>> => Black = flow.steps

SInv ==
  /\ flow \in Flows
  /\ color \in [flow.steps -> {"white", "grey", "black"}]
  /\ DoneInv /\ StackInv /\ EndInv

\* Routes lead to steps.
LEMMA TargetsAreSteps ==
  ASSUME flow \in Flows, NEW s \in flow.steps
  PROVE  E!ForwardTargets(s) \subseteq flow.steps
<1>1. /\ flow.success \in [flow.steps -> SUBSET flow.steps]
      /\ flow.approve \in [flow.steps -> SUBSET flow.steps]
      /\ flow.reject \in [flow.steps -> SUBSET flow.steps]
  BY AnyFlowAssumption
<1> QED  BY <1>1 DEF E!ForwardTargets

LEMMA SearchExact == SInv => SearchIsExact
<1> SUFFICES ASSUME SInv PROVE SearchIsExact  OBVIOUS
<1>1. ASSUME cycle # <<>> PROVE Cyclic(E!ForwardTargets)
  <2>1. IsCycle(cycle)  BY <1>1 DEF SInv, EndInv
  <2> DEFINE C == {cycle[i] : i \in 1 .. Len(cycle) - 1}
  <2>2. Len(cycle) \in Nat /\ Len(cycle) > 1 /\ cycle \in [1 .. Len(cycle) -> flow.steps]
    BY <2>1 DEF IsCycle
  <2>3. cycle[1] \in C /\ C \subseteq flow.steps  BY <2>2
  <2>4. ASSUME NEW s \in C PROVE E!ForwardTargets(s) \cap C # {}
    <3>1. PICK i \in 1 .. Len(cycle) - 1 : s = cycle[i]  OBVIOUS
    <3>2. cycle[i + 1] \in E!ForwardTargets(s)  BY <2>1, <3>1 DEF IsCycle
    <3>3. CASE i + 1 \in 1 .. Len(cycle) - 1  BY <3>2, <3>3
    <3>4. CASE i + 1 = Len(cycle)  BY <2>1, <2>3, <3>2, <3>4 DEF IsCycle
    <3>5. i + 1 \in 1 .. Len(cycle) - 1 \/ i + 1 = Len(cycle)  BY <2>2, <3>1
    <3> QED  BY <3>3, <3>4, <3>5
  <2> HIDE DEF C
  <2> QED  BY <2>3, <2>4 DEF Cyclic
<1>2. ASSUME stage # "searching", cycle = <<>> PROVE ~Cyclic(E!ForwardTargets)
  <2>1. Black = flow.steps  BY <1>2 DEF SInv, EndInv
  <2>2. \A C \in SUBSET flow.steps : C # {} => \E s \in C : E!ForwardTargets(s) \cap C = {}
    BY <2>1 DEF SInv, DoneInv
  <2> QED  BY <2>2 DEF Cyclic
<1>3. ASSUME cycle # <<>>
      PROVE  /\ cycle[1] = cycle[Len(cycle)] /\ Len(cycle) > 1
             /\ \A i \in 1 .. Len(cycle) - 1 : cycle[i + 1] \in E!ForwardTargets(cycle[i])
  BY <1>3 DEF SInv, EndInv, IsCycle
<1> QED  BY <1>1, <1>2, <1>3 DEF SearchIsExact

LEMMA SearchInit == Init => SInv
<1> SUFFICES ASSUME Init PROVE SInv  OBVIOUS
<1>1. flow \in Flows /\ color = [s \in flow.steps |-> "white"] /\ stack = <<>>
      /\ cycle = <<>> /\ stage = "searching"
  BY DEF Init, E!White
<1>2. Black = {}  BY <1>1 DEF Black
<1>3. DoneInv  BY <1>2 DEF DoneInv
<1>4. StackInv  BY <1>1 DEF StackInv
<1> QED  BY <1>1, <1>3, <1>4 DEF SInv, EndInv

-----------------------------------------------------------------------------
(* The steps of the search *)

\* The flow keeps its edges.
LEMMA SameEdges ==
  ASSUME flow' = flow
  PROVE  \A s : E!ForwardTargets(s)' = E!ForwardTargets(s)
BY DEF E!ForwardTargets, E!SelfLoop, E!IsSelfRejectLoop

\* Where the search goes on is a step it can see from where it is.
LEMMA NextIsTarget ==
  ASSUME SInv, NEW t \in flow.steps, E!IsNext(t, color, stack)
  PROVE  stack # <<>> => t \in E!ForwardTargets(stack[Len(stack)])
BY DEF E!IsNext, E!Unfinished

LEMMA VisitStep == ASSUME SInv, NEW t \in flow.steps, Visit(t) PROVE SInv'
<1>1. /\ color[t] = "white" /\ flow' = flow /\ cycle' = cycle /\ stage' = stage
      /\ stage = "searching" /\ color' = [color EXCEPT ![t] = "grey"] /\ stack' = Append(stack, t)
  BY DEF Visit
<1>2. color \in [flow.steps -> {"white", "grey", "black"}] /\ DoneInv /\ StackInv /\ EndInv
      /\ flow \in Flows
  BY DEF SInv
<1>3. /\ color' \in [flow.steps -> {"white", "grey", "black"}]
      /\ color'[t] = "grey" /\ \A s \in flow.steps \ {t} : color'[s] = color[s]
  BY <1>1, <1>2
<1>4. \A s : E!ForwardTargets(s)' = E!ForwardTargets(s)  BY <1>1, SameEdges
<1>5. Black' = Black  BY <1>1, <1>3 DEF Black
<1>6. DoneInv'
  <2>1. \A s \in Black' : E!ForwardTargets(s)' \subseteq Black'  BY <1>2, <1>4, <1>5 DEF DoneInv
  <2>2. \A C \in SUBSET Black' : C # {} => \E s \in C : E!ForwardTargets(s)' \cap C = {}
    BY <1>2, <1>4, <1>5 DEF DoneInv
  <2> QED  BY <2>1, <2>2 DEF DoneInv
<1> DEFINE n == Len(stack)
<1>7. /\ stack' \in Seq(flow.steps) /\ Len(stack') = n + 1 /\ n \in Nat
      /\ \A i \in 1 .. n : stack'[i] = stack[i] /\ stack[i] \in flow.steps /\ stack[i] # t
      /\ stack'[n + 1] = t
  <2>1. stack \in Seq(flow.steps) /\ \A i \in 1 .. n : color[stack[i]] = "grey"
    BY <1>2 DEF StackInv
  <2> QED  BY <1>1, <2>1
<1> HIDE DEF n
<1>8. ASSUME n # 0 PROVE t \in E!ForwardTargets(stack[n])
  <2>1. stack # <<>>  BY <1>8 DEF n
  <2> QED  BY <2>1, NextIsTarget DEF Visit, n
<1>9. \A i \in 1 .. n - 1 : stack[i + 1] \in E!ForwardTargets(stack[i])
  BY <1>2 DEF StackInv, n
<1>10. StackInv'
  <2>1. \A i \in 1 .. n + 1 : i = n + 1 \/ i \in 1 .. n  BY <1>7
  <2>2. \A i \in 1 .. n + 1 : color'[stack'[i]] = "grey"
    <3>1. \A i \in 1 .. n : color[stack[i]] = "grey"  BY <1>2 DEF StackInv, n
    <3>2. \A i \in 1 .. n : color'[stack'[i]] = "grey"  BY <1>3, <1>7, <3>1
    <3> QED  BY <1>3, <1>7, <2>1, <3>2
  <2>3. ASSUME NEW s \in flow.steps, color'[s] = "grey"
        PROVE  \E i \in 1 .. n + 1 : stack'[i] = s
    <3>1. CASE s = t  BY <1>7, <3>1
    <3>2. CASE s # t
      <4>1. PICK i \in 1 .. n : stack[i] = s  BY <1>2, <1>3, <2>3, <3>2 DEF StackInv, n
      <4>2. i \in 1 .. n + 1  BY <1>7
      <4> QED  BY <1>7, <4>1, <4>2
    <3> QED  BY <3>1, <3>2
  <2>4. \A i, k \in 1 .. n + 1 : stack'[i] = stack'[k] => i = k
    <3>1. \A i, k \in 1 .. n : stack[i] = stack[k] => i = k  BY <1>2 DEF StackInv, n
    <3> QED  BY <1>7, <2>1, <3>1
  <2>5. ASSUME NEW i \in 1 .. n PROVE stack'[i + 1] \in E!ForwardTargets(stack'[i])
    <3>1. CASE i = n  BY <1>7, <1>8, <3>1
    <3>2. CASE i # n
      <4>1. i \in 1 .. n - 1 /\ i + 1 \in 1 .. n  BY <1>7, <3>2
      <4> QED  BY <1>7, <1>9, <4>1
    <3> QED  BY <3>1, <3>2
  <2>6. (n + 1) - 1 = n  BY <1>7
  <2> QED  BY <1>1, <1>4, <1>7, <2>2, <2>3, <2>4, <2>5, <2>6 DEF StackInv
<1>11. EndInv'
  <2>1. cycle = <<>>  BY <1>1, <1>2 DEF EndInv
  <2> QED  BY <1>1, <2>1 DEF EndInv
<1> QED  BY <1>1, <1>2, <1>3, <1>6, <1>10, <1>11 DEF SInv

\* The end of a path, from its a-th step on, and one more step.
Closed(s, a, t) == SubSeq(s, a, Len(s)) \o <<t>>

IsAppend(q, S, p, t, m) ==
  /\ q \in Seq(S) /\ Len(q) = m + 1
  /\ \A i \in 1 .. m : q[i] = p[i]
  /\ q[m + 1] = t

LEMMA AppendFacts ==
  ASSUME NEW S, NEW p \in Seq(S), NEW t \in S, NEW m \in Nat, Len(p) = m,
         NEW q, q = Append(p, t)
  PROVE  IsAppend(q, S, p, t, m)
BY DEF IsAppend

IsClosed(q, S, s, a, t, m) ==
  /\ q \in Seq(S) /\ Len(q) = m + 1
  /\ \A i \in 1 .. m : q[i] = s[a + i - 1]
  /\ q[m + 1] = t

LEMMA ClosedPath ==
  ASSUME NEW S, NEW s \in Seq(S), NEW a \in 1 .. Len(s), NEW t \in S,
         NEW m, m = Len(s) - a + 1
  PROVE  IsClosed(Closed(s, a, t), S, s, a, t, m)
<1>1. Len(s) \in Nat /\ a \in Nat /\ m \in Nat  OBVIOUS
<1>2. ASSUME NEW p, p = SubSeq(s, a, Len(s))
      PROVE  /\ p \in Seq(S) /\ Len(p) = m
             /\ \A i \in 1 .. m : p[i] = s[a + i - 1]
  <2>1. \A i \in a .. Len(s) : s[i] \in S  BY <1>1
  <2>2. /\ SubSeq(s, a, Len(s)) \in Seq(S)
        /\ Len(SubSeq(s, a, Len(s))) = IF a <= Len(s) THEN Len(s) - a + 1 ELSE 0
        /\ \A i \in 1 .. Len(s) - a + 1 : SubSeq(s, a, Len(s))[i] = s[a + i - 1]
    BY <1>1, <2>1, SubSeqProperties
  <2> QED  BY <1>1, <1>2, <2>2
<1> DEFINE part == SubSeq(s, a, Len(s))
<1>4. /\ part \in Seq(S) /\ Len(part) = m
      /\ \A i \in 1 .. m : part[i] = s[a + i - 1]
  BY <1>2
<1>5. Closed(s, a, t) = Append(part, t)
  <2>1. Closed(s, a, t) = part \o <<t>>  BY DEF Closed
  <2>2. part \in Seq(S)  BY <1>4
  <2> HIDE DEF part
  <2>3. Append(part, t) = part \o <<t>>  BY <2>2, AppendIsConcat, Zenon
  <2> QED  BY <2>1, <2>3
<1> HIDE DEF part
<1>6. IsAppend(Closed(s, a, t), S, part, t, m)  BY <1>1, <1>4, <1>5, AppendFacts, Zenon
<1> QED  BY <1>4, <1>6 DEF IsAppend, IsClosed

LEMMA CloseStep == ASSUME SInv, NEW t \in flow.steps, CloseCycle(t) PROVE SInv'
<1>1. /\ stage = "searching" /\ color[t] = "grey" /\ UNCHANGED <<flow, color, stack>>
      /\ cycle' = E!CyclePath(stack, t) /\ stage' = "rejected"
  BY DEF CloseCycle
<1>2. StackInv  BY DEF SInv
<1> DEFINE n == Len(stack)
           start == CHOOSE i \in DOMAIN stack : stack[i] = t
<1>3. stack \in Seq(flow.steps) /\ n \in Nat /\ DOMAIN stack = 1 .. n  BY <1>2 DEF StackInv
<1>4. start \in 1 .. n /\ stack[start] = t
  <2>1. \E i \in DOMAIN stack : stack[i] = t  BY <1>1, <1>2, <1>3 DEF StackInv
  <2> QED  BY <1>3, <2>1
<1>5. cycle' = Closed(stack, start, t)  BY <1>1 DEF E!CyclePath, Closed
<1> HIDE DEF start
<1> DEFINE m == n - start + 1
<1>7. m \in Nat \ {0} /\ \A i \in 1 .. m : start + i - 1 \in 1 .. n  BY <1>3, <1>4
<1>8. /\ cycle' \in Seq(flow.steps) /\ Len(cycle') = m + 1
      /\ \A i \in 1 .. m : cycle'[i] = stack[start + i - 1]
      /\ cycle'[m + 1] = t
  <2>1. /\ t \in flow.steps /\ start \in 1 .. Len(stack) /\ m = Len(stack) - start + 1
        /\ stack \in Seq(flow.steps)
    BY <1>3, <1>4
  <2> HIDE DEF m, n
  <2>2. IsClosed(Closed(stack, start, t), flow.steps, stack, start, t, m)
    BY <2>1, ClosedPath, Zenon
  <2> QED  BY <1>5, <2>2 DEF IsClosed
<1>9. stack[n] \in flow.steps /\ t \in E!ForwardTargets(stack[n])
  <2>1. stack # <<>> /\ n \in 1 .. n  BY <1>3, <1>4
  <2> QED  BY <1>3, <2>1, NextIsTarget DEF CloseCycle
<1>10. ASSUME NEW i \in 1 .. m PROVE cycle'[i + 1] \in E!ForwardTargets(cycle'[i])
  <2>1. CASE i = m
    <3>1. start + m - 1 = n  BY <1>3, <1>4
    <3> QED  BY <1>7, <1>8, <1>9, <2>1, <3>1
  <2>2. CASE i # m
    <3> DEFINE k == start + i - 1
    <3>1. i + 1 \in 1 .. m /\ start + (i + 1) - 1 = k + 1 /\ k \in 1 .. n - 1
      BY <1>3, <1>4, <1>7, <2>2
    <3>2. cycle'[i] = stack[k] /\ cycle'[i + 1] = stack[k + 1]  BY <1>8, <3>1
    <3> HIDE DEF k
    <3> QED  BY <1>2, <3>1, <3>2 DEF StackInv
  <2> QED  BY <2>1, <2>2
<1> HIDE DEF m, n
<1>11. \A s : E!ForwardTargets(s)' = E!ForwardTargets(s)  BY <1>1, SameEdges
<1>12. IsCycle(cycle)'
  <2>1. cycle'[1] = t /\ cycle'[Len(cycle')] = t /\ Len(cycle') > 1
    <3>1. 1 \in 1 .. m /\ start + 1 - 1 = start  BY <1>4, <1>7 DEF n
    <3> QED  BY <1>4, <1>7, <1>8, <3>1
  <2>2. Len(cycle') - 1 = m  BY <1>7, <1>8
  <2> QED  BY <1>1, <1>8, <1>10, <1>11, <2>1, <2>2 DEF IsCycle
<1>13. Black' = Black  BY <1>1 DEF Black
<1>14. DoneInv' /\ StackInv'
  <2>1. DoneInv'  BY <1>11, <1>13 DEF SInv, DoneInv
  <2>2. StackInv'  BY <1>1, <1>11 DEF SInv, StackInv
  <2> QED  BY <2>1, <2>2
<1>15. cycle' # <<>>  BY <1>7, <1>8
<1> QED  BY <1>1, <1>12, <1>14, <1>15 DEF SInv, EndInv

IsFront(q, S, p, n) ==
  /\ q \in Seq(S) /\ Len(q) = n - 1
  /\ \A i \in 1 .. n - 1 : q[i] = p[i]

LEMMA FrontFacts ==
  ASSUME NEW S, NEW p \in Seq(S), NEW n \in Nat \ {0}, Len(p) = n,
         NEW q, q = SubSeq(p, 1, n - 1)
  PROVE  IsFront(q, S, p, n)
<1>1. \A i \in 1 .. n - 1 : p[i] \in S  OBVIOUS
<1>2. /\ q \in Seq(S) /\ Len(q) = IF 1 <= n - 1 THEN (n - 1) - 1 + 1 ELSE 0
      /\ \A i \in 1 .. (n - 1) - 1 + 1 : q[i] = p[1 + i - 1]
  BY <1>1, SubSeqProperties
<1> QED  BY <1>2 DEF IsFront

LEMMA BacktrackStep == ASSUME SInv, Backtrack PROVE SInv'
<1> DEFINE n == Len(stack)
           x == stack[n]
<1>1. /\ stage = "searching" /\ stack # <<>> /\ UNCHANGED <<flow, cycle, stage>>
      /\ E!Unfinished(color, stack) = {}
      /\ color' = [color EXCEPT ![x] = "black"] /\ stack' = SubSeq(stack, 1, n - 1)
  BY DEF Backtrack
<1>2. color \in [flow.steps -> {"white", "grey", "black"}] /\ DoneInv /\ StackInv /\ EndInv
      /\ flow \in Flows
  BY DEF SInv
<1>3. stack \in Seq(flow.steps) /\ n \in Nat \ {0} /\ n \in 1 .. n /\ x \in flow.steps
  BY <1>1, <1>2 DEF StackInv
<1>4. color[x] = "grey"  BY <1>2, <1>3 DEF StackInv
<1>5. E!ForwardTargets(x) \subseteq Black
  <2>1. \A t \in E!ForwardTargets(x) : color[t] = "black"  BY <1>1 DEF E!Unfinished
  <2>2. E!ForwardTargets(x) \subseteq flow.steps  BY <1>2, <1>3, TargetsAreSteps
  <2> QED  BY <2>1, <2>2 DEF Black
<1>6. /\ stack' \in Seq(flow.steps) /\ Len(stack') = n - 1
      /\ \A i \in 1 .. n - 1 : stack'[i] = stack[i]
  <2>1. n = Len(stack)  OBVIOUS
  <2> HIDE DEF n, x
  <2>2. IsFront(stack', flow.steps, stack, n)  BY <1>1, <1>3, <2>1, FrontFacts, Zenon
  <2> QED  BY <2>2 DEF IsFront
<1>7. /\ color' \in [flow.steps -> {"white", "grey", "black"}]
      /\ color'[x] = "black" /\ \A s \in flow.steps \ {x} : color'[s] = color[s]
  BY <1>1, <1>2, <1>3
<1>8. \A s : E!ForwardTargets(s)' = E!ForwardTargets(s)  BY <1>1, SameEdges
<1> HIDE DEF x, n
<1>9. Black' = Black \cup {x} /\ x \notin Black  BY <1>1, <1>3, <1>4, <1>7 DEF Black
<1>10. DoneInv'
  <2>1. \A s \in Black' : E!ForwardTargets(s) \subseteq Black  BY <1>2, <1>5, <1>9 DEF DoneInv
  <2>2. ASSUME NEW C \in SUBSET Black', C # {}
        PROVE  \E s \in C : E!ForwardTargets(s) \cap C = {}
    <3>1. CASE C \ {x} = {}
      <4>1. C = {x}  BY <2>2, <3>1
      <4> QED  BY <1>5, <1>9, <4>1
    <3>2. CASE C \ {x} # {}
      <4>1. C \ {x} \in SUBSET Black  BY <1>9
      <4>2. PICK s \in C \ {x} : E!ForwardTargets(s) \cap (C \ {x}) = {}
        BY <1>2, <3>2, <4>1 DEF DoneInv
      <4>3. E!ForwardTargets(s) \subseteq Black  BY <2>1
      <4> QED  BY <1>9, <4>2, <4>3
    <3> QED  BY <3>1, <3>2
  <2>3. \A s \in Black' : E!ForwardTargets(s)' \subseteq Black'  BY <1>8, <1>9, <2>1
  <2>4. \A C \in SUBSET Black' : C # {} => \E s \in C : E!ForwardTargets(s)' \cap C = {}
    BY <1>8, <2>2
  <2> QED  BY <2>3, <2>4 DEF DoneInv
<1>11. StackInv'
  <2>1. \A i \in 1 .. n - 1 : i \in 1 .. n /\ stack[i] \in flow.steps /\ stack[i] # x
    BY <1>2, <1>3 DEF StackInv, n, x
  <2>2. \A i \in 1 .. n - 1 : color'[stack'[i]] = "grey"
    <3>1. \A i \in 1 .. n - 1 : color[stack[i]] = "grey"  BY <1>2, <2>1 DEF StackInv, n
    <3> QED  BY <1>6, <1>7, <2>1, <3>1
  <2>3. ASSUME NEW s \in flow.steps, color'[s] = "grey"
        PROVE  \E i \in 1 .. n - 1 : stack'[i] = s
    <3>1. s # x /\ color[s] = "grey"  BY <1>7, <2>3
    <3>2. PICK i \in 1 .. n : stack[i] = s  BY <1>2, <3>1 DEF StackInv, n
    <3>3. i # n  BY <3>1, <3>2 DEF x
    <3>4. i \in 1 .. n - 1  BY <1>3, <3>2, <3>3
    <3> QED  BY <1>6, <3>2, <3>4
  <2>4. \A i, k \in 1 .. n - 1 : stack'[i] = stack'[k] => i = k
    <3>1. \A i, k \in 1 .. n : stack[i] = stack[k] => i = k  BY <1>2 DEF StackInv, n
    <3> QED  BY <1>6, <2>1, <3>1
  <2>5. ASSUME NEW i \in 1 .. (n - 1) - 1
        PROVE  stack'[i + 1] \in E!ForwardTargets(stack'[i])
    <3>1. i \in 1 .. n - 1 /\ i + 1 \in 1 .. n - 1  BY <1>3
    <3>2. stack[i + 1] \in E!ForwardTargets(stack[i])  BY <1>2, <3>1 DEF StackInv, n
    <3> QED  BY <1>6, <3>1, <3>2
  <2> QED  BY <1>1, <1>6, <1>8, <2>2, <2>3, <2>4, <2>5 DEF StackInv
<1>12. EndInv'
  <2>1. cycle = <<>>  BY <1>1, <1>2 DEF EndInv
  <2> QED  BY <1>1, <2>1 DEF EndInv
<1> QED  BY <1>1, <1>2, <1>7, <1>10, <1>11, <1>12 DEF SInv

\* Everything but the stage is kept: what the invariant says of the search stays.
LEMMA KeptStep ==
  ASSUME SInv, UNCHANGED <<flow, search>>,
         stage' = stage \/ (stage # "searching" /\ stage' \in {"accepted", "started"} /\ stage # "rejected")
  PROVE  SInv'
<1>1. /\ flow' = flow /\ color' = color /\ stack' = stack /\ cycle' = cycle  BY DEF search
<1>2. \A s : E!ForwardTargets(s)' = E!ForwardTargets(s)  BY <1>1, SameEdges
<1>3. Black' = Black  BY <1>1 DEF Black
<1>4. DoneInv'  BY <1>2, <1>3 DEF SInv, DoneInv
<1>5. StackInv'  BY <1>1, <1>2 DEF SInv, StackInv
<1>6. IsCycle(cycle)' <=> IsCycle(cycle)  BY <1>1, <1>2 DEF IsCycle
<1>7. EndInv'  BY <1>1, <1>3, <1>6 DEF SInv, EndInv
<1> QED  BY <1>1, <1>4, <1>5, <1>7 DEF SInv

LEMMA JudgeStep == ASSUME SInv, Judge PROVE SInv'
<1>1. /\ stage = "searching" /\ stack = <<>> /\ E!Unfinished(color, stack) = {}
      /\ stage' \in {"accepted", "rejected"}
      /\ flow' = flow /\ color' = color /\ stack' = stack /\ cycle' = cycle
  BY DEF Judge, search
<1>2. \A s : E!ForwardTargets(s)' = E!ForwardTargets(s)  BY <1>1, SameEdges
<1>3. Black' = Black  BY <1>1 DEF Black
<1>4. Black = flow.steps  BY <1>1 DEF Black, E!Unfinished
<1>5. DoneInv'  BY <1>2, <1>3 DEF SInv, DoneInv
<1>6. StackInv'  BY <1>1, <1>2 DEF SInv, StackInv
<1>7. EndInv'  BY <1>1, <1>3, <1>4 DEF SInv, EndInv
<1> QED  BY <1>1, <1>5, <1>6, <1>7 DEF SInv

LEMMA SearchStep == SInv /\ [Next]_vars => SInv'
<1> SUFFICES ASSUME SInv, [Next]_vars PROVE SInv'  OBVIOUS
<1>1. ASSUME NEW t \in flow.steps, Visit(t) PROVE SInv'  BY <1>1, VisitStep
<1>2. ASSUME NEW t \in flow.steps, CloseCycle(t) PROVE SInv'  BY <1>2, CloseStep
<1>3. CASE Backtrack  BY <1>3, BacktrackStep
<1>4. CASE Judge  BY <1>4, JudgeStep
<1>5. CASE Start  BY <1>5, KeptStep DEF Start, Execute
<1>6. ASSUME NEW s \in flow.steps,
             StepCompletes(s) \/ StepFails(s) \/ StepApproved(s) \/ StepRejected(s)
      PROVE  SInv'
  <2>1. UNCHANGED <<flow, search>> /\ stage' = stage
    BY <1>6 DEF StepCompletes, StepFails, StepApproved, StepRejected, Execute
  <2> QED  BY <2>1, KeptStep
<1>7. CASE UNCHANGED vars
  <2>1. UNCHANGED <<flow, search>> /\ stage' = stage  BY <1>7 DEF vars, search
  <2> QED  BY <2>1, KeptStep
<1> QED  BY <1>1, <1>2, <1>3, <1>4, <1>5, <1>6, <1>7 DEF Next

\* find_cycle decides, for every flow, whether its graph has a cycle, and what it
\* returns is one.
THEOREM Exact == Spec => []SearchIsExact
<1>1. Spec => []SInv  BY SearchInit, SearchStep, PTL DEF Spec
<1> QED  BY <1>1, SearchExact, PTL

-----------------------------------------------------------------------------
(* The steps of the run *)

\* A step is a source of what it routes to.
LEMMA SourceRoutes ==
  ASSUME flow \in Flows, NEW s \in flow.steps, NEW t \in flow.steps
  PROVE  s \in E!Sources(t) <=> t \in E!RoutingTargets(s)
<1>1. \A f \in E!Fields : E!Targets(f) =
          CASE f = "on_success" -> flow.success [] f = "on_failure" -> flow.failure
            [] f = "on_approve" -> flow.approve [] f = "on_reject" -> flow.reject
  BY DEF E!Targets
<1>2. s \in E!Sources(t) <=> \E f \in E!Fields : t \in E!Targets(f)[s] \ E!SelfLoop(s)
  <2>1. ASSUME NEW f \in E!Fields, t \in E!Targets(f)[s] \ E!SelfLoop(s) PROVE s \in E!Sources(t)
    <3>1. <<s, f>> \in E!IncomingEdges(t) /\ <<s, f>>[1] = s  BY <2>1 DEF E!IncomingEdges
    <3> QED  BY <3>1 DEF E!Sources
  <2>2. ASSUME s \in E!Sources(t) PROVE \E f \in E!Fields : t \in E!Targets(f)[s] \ E!SelfLoop(s)
    <3>1. PICK e \in E!IncomingEdges(t) : s = e[1]  BY <2>2 DEF E!Sources
    <3> QED  BY <3>1 DEF E!IncomingEdges
  <2> QED  BY <2>1, <2>2
<1>3. (\E f \in E!Fields : t \in E!Targets(f)[s] \ E!SelfLoop(s)) <=>
        t \in (flow.success[s] \cup flow.failure[s] \cup flow.approve[s] \cup flow.reject[s])
              \ E!SelfLoop(s)
  BY <1>1 DEF E!Fields
<1> QED  BY <1>2, <1>3 DEF E!RoutingTargets, E!ForwardTargets

LEMMA Marked ==
  ASSUME NEW r \in E!Row, NEW st \in E!Status, NEW q, q = [r EXCEPT !.status = st]
  PROVE  q \in E!Row /\ q.status = st /\ q.attempt = r.attempt
BY DEF E!Row

\* The steps a list of commands starts, each with the attempt after that in r.
Starts(d, T, r) ==
  /\ \A t \in flow.steps : (\E a \in d.activate : a.step = t) <=> t \in T
  /\ \A a \in d.activate : a.attempt = r[a.step].attempt + 1

Became(q, s, st, C, T) ==
  /\ q \in [flow.steps -> E!Row]
  /\ \A t \in flow.steps :
       /\ q[t].attempt = IF t \in T THEN rows[t].attempt + 1 ELSE rows[t].attempt
       /\ q[t].status = IF t \in T THEN "running" ELSE IF t = s THEN st
                        ELSE IF t \in C THEN "cancelled" ELSE rows[t].status

LEMMA AppliedFacts ==
  ASSUME rows \in [flow.steps -> E!Row], NEW d, NEW T, NEW r, Starts(d, T, r),
         \A t \in flow.steps : r[t].attempt = rows[t].attempt,
         d.step \in flow.steps => d.status \in E!Status
  PROVE  Became(Applied(d), d.step, d.status, d.cancel, T)
<1> DEFINE marked(t) == IF t = d.step THEN [rows[t] EXCEPT !.status = d.status]
                        ELSE IF t \in d.cancel THEN [rows[t] EXCEPT !.status = "cancelled"]
                        ELSE rows[t]
           starts(t) == {a.attempt : a \in {a \in d.activate : a.step = t}}
           row(t) == IF starts(t) = {} THEN marked(t)
                     ELSE [marked(t) EXCEPT !.status = "running", !.attempt = CHOOSE n \in starts(t) : TRUE]
<1>1. Applied(d) = [t \in flow.steps |-> row(t)]  BY DEF Applied
<1>2. ASSUME NEW t \in flow.steps
      PROVE  /\ marked(t) \in E!Row
             /\ marked(t).attempt = rows[t].attempt
             /\ marked(t).status = IF t = d.step THEN d.status
                        ELSE IF t \in d.cancel THEN "cancelled" ELSE rows[t].status
  <2>1. rows[t] \in E!Row /\ "cancelled" \in E!Status  BY DEF E!Status, E!Terminal
  <2>2. CASE t = d.step
    <3>1. d.status \in E!Status /\ marked(t) = [rows[t] EXCEPT !.status = d.status]  BY <2>2
    <3> HIDE DEF marked
    <3> QED  BY <2>1, <2>2, <3>1, Marked
  <2>3. CASE t # d.step /\ t \in d.cancel
    <3>1. marked(t) = [rows[t] EXCEPT !.status = "cancelled"]  BY <2>3
    <3> HIDE DEF marked
    <3> QED  BY <2>1, <2>3, <3>1, Marked
  <2>4. CASE t # d.step /\ t \notin d.cancel  BY <2>1, <2>4
  <2> QED  BY <2>2, <2>3, <2>4
<1> HIDE DEF marked
<1>3. ASSUME NEW t \in flow.steps
      PROVE  /\ row(t) \in E!Row
             /\ row(t).attempt = IF t \in T THEN rows[t].attempt + 1 ELSE rows[t].attempt
             /\ row(t).status = IF t \in T THEN "running" ELSE IF t = d.step THEN d.status
                        ELSE IF t \in d.cancel THEN "cancelled" ELSE rows[t].status
  <2>1. (\E a \in d.activate : a.step = t) <=> t \in T  BY DEF Starts
  <2>2. CASE t \in T
    <3>1. PICK n \in Nat : n = rows[t].attempt + 1  BY DEF E!Row
    <3>2. starts(t) = {n}  BY <2>1, <2>2, <3>1 DEF Starts
    <3>3. row(t) = [marked(t) EXCEPT !.status = "running", !.attempt = n]  BY <3>2
    <3>4. marked(t) \in E!Row  BY <1>2
    <3>5. PICK r0 \in E!Row : r0 = marked(t)  BY <3>4
    <3>6. PICK q : q = row(t)  OBVIOUS
    <3>7. q = [r0 EXCEPT !.status = "running", !.attempt = n]  BY <3>3, <3>5, <3>6
    <3>8. q \in E!Row /\ q.status = "running" /\ q.attempt = n  BY <3>7 DEF E!Row, E!Status, E!Active
    <3> HIDE DEF row
    <3> QED  BY <2>2, <3>1, <3>6, <3>8
  <2>3. CASE t \notin T
    <3>1. starts(t) = {}  BY <2>1, <2>3
    <3>2. row(t) = marked(t)  BY <3>1
    <3> HIDE DEF row, starts
    <3> QED  BY <1>2, <2>3, <3>2
  <2> QED  BY <2>2, <2>3
<1> HIDE DEF row
<1> QED  BY <1>1, <1>3 DEF Became

\* What a list of commands, decided on the rows r, says: s is marked st, C are
\* cancelled and T start.
Lists(d, s, st, C, T, r) ==
  d \in E!Commands /\ d.step = s /\ d.status = st /\ d.cancel = C /\ Starts(d, T, r)

\* And the run ends or has something to wait for.
Says(d, s, st, C, T, r) ==
  /\ Lists(d, s, st, C, T, r)
  /\ d.terminal = "none" => T # {} \/ E!ActiveSteps(r) # {}

Marks(c, s, st, C) ==
  /\ c \in E!Commands /\ c.step = s /\ c.status = st /\ c.cancel = C
  /\ c.activate = {} /\ c.terminal = "none"

LEMMA MarkFacts ==
  ASSUME NEW s \in flow.steps \cup {NoStep}, NEW st \in E!Status \cup {"none"}, NEW C \in SUBSET flow.steps
  PROVE  /\ Marks(E!NoCommands, NoStep, "none", {})
         /\ Marks(E!Mark(s, st), s, st, {})
         /\ Marks(E!RunHooks(E!Mark(s, st), "none"), s, st, {})
         /\ Marks(E!RunHooks(E!NoCommands, "none"), NoStep, "none", {})
         /\ Marks(E!Cancel(E!Mark(s, st), C), s, st, C)
<1>1. Marks(E!NoCommands, NoStep, "none", {})
  BY DEF Marks, E!NoCommands, E!Commands
<1>2. Marks(E!Mark(s, st), s, st, {})
  BY DEF Marks, E!NoCommands, E!Commands, E!Mark
<1>3. ASSUME NEW c, NEW u, NEW v, Marks(c, u, v, {})
      PROVE  Marks(E!RunHooks(c, "none"), u, v, {}) /\ Marks(E!Cancel(c, C), u, v, C)
  BY <1>3 DEF Marks, E!Commands, E!RunHooks, E!Cancel
<1> QED  BY <1>1, <1>2, <1>3

LEMMA LaunchFacts ==
  ASSUME NEW c, NEW s, NEW st, NEW C, Marks(c, s, st, C), NEW r \in [flow.steps -> E!Row],
         NEW T \in SUBSET flow.steps
  PROVE  Lists(E!Launch(c, r, T), s, st, C, T, r) /\ E!Launch(c, r, T).terminal = "none"
<1> DEFINE A == {[step |-> t, attempt |-> r[t].attempt + 1] : t \in T \ {}}
           d == [c EXCEPT !.activate = A, !.children = T \cap {}, !.error = T \cap {} # {}]
<1>1. E!Launch(c, r, T) = d  BY DEF E!Launch
<1>2. A \in SUBSET E!Activation
  <2>1. \A t \in T : r[t].attempt + 1 \in Nat  BY DEF E!Row
  <2> QED  BY <2>1 DEF E!Activation
<1>a. \A a \in A : a.attempt = r[a.step].attempt + 1  OBVIOUS
<1>3. ASSUME NEW t \in flow.steps PROVE (\E a \in A : a.step = t) <=> t \in T
  <2>1. ASSUME t \in T PROVE \E a \in A : a.step = t
    <3>1. [step |-> t, attempt |-> r[t].attempt + 1] \in A  BY <2>1
    <3> HIDE DEF A
    <3> QED  BY <3>1
  <2>2. ASSUME NEW a \in A PROVE a.step \in T  BY <2>2
  <2> QED  BY <2>1, <2>2
<1> HIDE DEF A
<1>4. T \cap {} \in SUBSET flow.steps /\ (T \cap {} # {}) \in BOOLEAN  OBVIOUS
<1>5. /\ d \in E!Commands /\ d.step = s /\ d.status = st /\ d.cancel = C
      /\ d.activate = A /\ d.terminal = "none"
  BY <1>2, <1>4 DEF Marks, E!Commands
<1> HIDE DEF d
<1>6. Starts(d, T, r)  BY <1>3, <1>5, <1>a DEF Starts
<1> QED  BY <1>1, <1>5, <1>6 DEF Lists

LEMMA EndFacts ==
  ASSUME NEW c, NEW s, NEW st, NEW C, Marks(c, s, st, C), NEW r \in [flow.steps -> E!Row]
  PROVE  Says(E!TerminalIfDone(c, r), s, st, C, {}, r)
<1>1. CASE E!ActiveSteps(r) # {}
  BY <1>1 DEF Marks, Says, Lists, Starts, E!TerminalIfDone
<1>2. CASE E!ActiveSteps(r) = {}
  <2> DEFINE ph == E!DerivedPhase(r)
             d == [c EXCEPT !.terminal = ph, !.audit = ph \in {}]
  <2>1. E!TerminalIfDone(c, r) = d  BY <1>2 DEF E!TerminalIfDone
  <2>2. ph \in E!TerminalPhases  BY <1>2 DEF E!DerivedPhase, E!TerminalPhases
  <2>3. (ph \in {}) \in BOOLEAN /\ ph # "none"  BY <2>2 DEF E!TerminalPhases
  <2> HIDE DEF ph
  <2>4. /\ d \in E!Commands /\ d.step = s /\ d.status = st /\ d.cancel = C
        /\ d.activate = {} /\ d.terminal = ph
    BY <2>2, <2>3 DEF Marks, E!Commands
  <2> HIDE DEF d
  <2> QED  BY <2>1, <2>3, <2>4 DEF Says, Lists, Starts
<1> QED  BY <1>1, <1>2

LEMMA RouteFacts ==
  ASSUME NEW c, NEW s, NEW st, NEW C, Marks(c, s, st, C), NEW r \in [flow.steps -> E!Row],
         NEW T \in SUBSET flow.steps
  PROVE  Says(E!Route(c, r, T), s, st, C, E!Ready(r, T), r)
<1>1. E!Ready(r, T) \in SUBSET flow.steps  BY DEF E!Ready
<1>2. CASE E!Ready(r, T) = {}  BY <1>2, EndFacts DEF E!Route
<1>3. CASE E!Ready(r, T) # {}
  <2>1. E!Route(c, r, T) = E!Launch(c, r, E!Ready(r, T))  BY <1>3 DEF E!Route
  <2>2. PICK R \in SUBSET flow.steps : R = E!Ready(r, T)  BY <1>1
  <2>3. Says(E!Launch(c, r, R), s, st, C, R, r)  BY <1>3, <2>2, LaunchFacts DEF Says
  <2> QED  BY <2>1, <2>2, <2>3
<1> QED  BY <1>2, <1>3

\* What a handler of a step does: s becomes st, C are cancelled and T start, and
\* a run that goes on has something to wait for.
Does(s, st, C, T) ==
  /\ UNCHANGED <<flow, search>>
  /\ Became(rows', s, st, C, T)
  /\ phase' \in E!RunPhase
  /\ phase' = "running" => \E t \in flow.steps : rows'[t].status \in E!Active

LEMMA ExecuteFacts ==
  ASSUME rows \in [flow.steps -> E!Row], phase = "running",
         NEW s, NEW st, NEW C, NEW T \in SUBSET flow.steps, NEW r, NEW d,
         Says(d, s, st, C, T, r), Became(r, s, st, C, {}), s \in flow.steps => st \in E!Status,
         Execute(d)
  PROVE  Does(s, st, C, T)
<1>1. Became(rows', s, st, C, T)
  <2>1. rows' = Applied(d)  BY DEF Execute
  <2>2. \A t \in flow.steps : r[t].attempt = rows[t].attempt  BY DEF Became
  <2>3. Became(Applied(d), d.step, d.status, d.cancel, T)  BY <2>2, AppliedFacts DEF Says, Lists
  <2> QED  BY <2>1, <2>3 DEF Says, Lists
<1>2. phase' \in E!RunPhase /\ (phase' = "running" => d.terminal = "none")
  <2>1. d.terminal \in E!TerminalPhases \cup {"none"}  BY DEF Says, Lists, E!Commands
  <2> QED  BY <2>1 DEF Execute, E!RunPhase, E!TerminalPhases
<1>3. ASSUME d.terminal = "none" PROVE \E t \in flow.steps : rows'[t].status \in E!Active
  <2>1. CASE T # {}
    <3>1. PICK t \in flow.steps : t \in T  BY <2>1
    <3>2. rows'[t].status = "running"  BY <1>1, <3>1 DEF Became
    <3> QED  BY <3>2 DEF E!Active
  <2>2. CASE T = {} /\ E!ActiveSteps(r) # {}
    <3>1. PICK t \in flow.steps : r[t].status \in E!Active  BY <2>2 DEF E!ActiveSteps
    <3>2. rows'[t].status = r[t].status  BY <1>1, <2>2 DEF Became
    <3> QED  BY <3>1, <3>2
  <2> QED  BY <1>3, <2>1, <2>2 DEF Says
<1> QED  BY <1>1, <1>2, <1>3 DEF Execute, Does

\* The rows a decision is made on.
LEMMA TableFacts ==
  ASSUME rows \in [flow.steps -> E!Row], NEW s \in flow.steps, NEW st \in E!Status
  PROVE  /\ Became(E!SetStatus(rows, s, st), s, st, {}, {})
         /\ Became(E!FailFast(rows, s), s, "failed", E!ActiveSteps(rows) \ {s}, {})
<1>1. /\ "failed" \in E!Status /\ "cancelled" \in E!Status  BY DEF E!Status, E!Terminal
<1>2. \A t \in flow.steps : rows[t] \in E!Row  OBVIOUS
<1>3. Became(E!SetStatus(rows, s, st), s, st, {}, {})
  <2> DEFINE q == [rows[s] EXCEPT !.status = st]
  <2>1. q \in E!Row /\ q.status = st /\ q.attempt = rows[s].attempt  BY <1>2, Marked
  <2>2. E!SetStatus(rows, s, st) = [rows EXCEPT ![s] = q]  BY DEF E!SetStatus
  <2> HIDE DEF q
  <2> QED  BY <2>1, <2>2 DEF Became
<1>4. Became(E!FailFast(rows, s), s, "failed", E!ActiveSteps(rows) \ {s}, {})
  <2> DEFINE q(t) == IF t = s THEN [rows[t] EXCEPT !.status = "failed"]
                     ELSE IF rows[t].status \in E!Active THEN [rows[t] EXCEPT !.status = "cancelled"]
                     ELSE rows[t]
  <2>1. E!FailFast(rows, s) = [t \in flow.steps |-> q(t)]  BY DEF E!FailFast
  <2>2. ASSUME NEW t \in flow.steps
        PROVE  /\ q(t) \in E!Row /\ q(t).attempt = rows[t].attempt
               /\ q(t).status = IF t = s THEN "failed"
                     ELSE IF t \in E!ActiveSteps(rows) \ {s} THEN "cancelled" ELSE rows[t].status
    <3>1. t \in E!ActiveSteps(rows) <=> rows[t].status \in E!Active  BY DEF E!ActiveSteps
    <3>2. ASSUME NEW v \in E!Status, NEW p, p = [rows[t] EXCEPT !.status = v]
          PROVE  p \in E!Row /\ p.attempt = rows[t].attempt /\ p.status = v
      BY <1>2, <3>2, Marked
    <3> QED  BY <1>1, <1>2, <3>1, <3>2
  <2> HIDE DEF q
  <2> QED  BY <2>1, <2>2 DEF Became
<1> QED  BY <1>3, <1>4

\* A step that starts has all it needs, the step just settled included.
Gated(s, st, T) ==
  \A t \in T : \A n \in flow.needs[t] :
    (IF n = s THEN st ELSE rows[n].status) = "completed"

LEMMA ReadyGated ==
  ASSUME flow \in Flows, rows \in [flow.steps -> E!Row],
         NEW s, NEW st, NEW C, NEW r, Became(r, s, st, C, {}), NEW T \in SUBSET flow.steps
  PROVE  Gated(s, st, E!Ready(r, T)) /\ E!Ready(r, T) \subseteq T
<1>1. E!Ready(r, T) \subseteq T  BY DEF E!Ready
<1>2. ASSUME NEW t \in E!Ready(r, T), NEW n \in flow.needs[t]
      PROVE  (IF n = s THEN st ELSE rows[n].status) = "completed"
  <2>1. n \in flow.steps  BY <1>1, AnyFlowAssumption
  <2>2. r[n].status = "completed"  BY DEF E!Ready, E!NeedsSatisfied
  <2> QED  BY <1>2, <2>1, <2>2 DEF Became
<1> QED  BY <1>1, <1>2 DEF Gated

\* What the outcome of a step that was active does.
Settles(s, st, C, T) ==
  /\ Does(s, st, C, T)
  /\ T \subseteq flow.steps /\ C \subseteq E!ActiveSteps(rows) \ {s}
  /\ \/ st = "waiting_approval" /\ T = {}
     \/ st \in E!Terminal /\ T = {s} /\ E!IsSelfRejectLoop(s)
     \/ /\ st \in E!Terminal /\ Gated(s, st, T)
        /\ \/ T \subseteq flow.success[s] \cup flow.approve[s] \cup flow.failure[s]
           \/ T \subseteq flow.reject[s] /\ ~E!IsSelfRejectLoop(s)

LEMMA RoutedFacts ==
  ASSUME flow \in Flows, rows \in [flow.steps -> E!Row], phase = "running",
         NEW s \in flow.steps, NEW st \in E!Terminal, NEW C \in SUBSET (E!ActiveSteps(rows) \ {s}),
         NEW r, NEW c, NEW T0 \in SUBSET flow.steps,
         Marks(c, s, st, C), Became(r, s, st, C, {}), Execute(E!Route(c, r, T0))
  PROVE  \E T \in SUBSET T0 : Does(s, st, C, T) /\ Gated(s, st, T)
<1>1. st \in E!Status /\ r \in [flow.steps -> E!Row]  BY DEF E!Status, Became
<1>2. Says(E!Route(c, r, T0), s, st, C, E!Ready(r, T0), r)  BY <1>1, RouteFacts
<1>3. Gated(s, st, E!Ready(r, T0)) /\ E!Ready(r, T0) \in SUBSET T0  BY ReadyGated
<1>4. PICK d : d = E!Route(c, r, T0)  OBVIOUS
<1>5. PICK T \in SUBSET T0 : T = E!Ready(r, T0)  BY <1>3
<1>6. T \in SUBSET flow.steps /\ Says(d, s, st, C, T, r) /\ Execute(d)  BY <1>2, <1>4, <1>5
<1>7. Does(s, st, C, T)  BY <1>1, <1>6, ExecuteFacts
<1> QED  BY <1>3, <1>5, <1>7

LEMMA StepSettles ==
  ASSUME flow \in Flows, rows \in [flow.steps -> E!Row], NEW s \in flow.steps,
         rows[s].status # "none" => rows[s].attempt > 0,
         StepCompletes(s) \/ StepFails(s) \/ StepApproved(s) \/ StepRejected(s)
  PROVE  /\ phase = "running" /\ stage = "started" /\ stage' = stage
         /\ rows[s].status \in E!Active
         /\ \E st \in E!Status, C, T \in SUBSET flow.steps : Settles(s, st, C, T)
<1>1. /\ phase = "running" /\ stage = "started" /\ stage' = stage
      /\ rows[s].status \in E!Active
  BY DEF StepCompletes, StepFails, StepApproved, StepRejected, E!Active
<1>2. /\ E!Terminal \subseteq E!Status /\ {"completed", "failed", "failed_rejected"} \subseteq E!Terminal
      /\ {"waiting_approval", "running"} \subseteq E!Status /\ {} \in SUBSET (E!ActiveSteps(rows) \ {s})
  BY DEF E!Status, E!Terminal, E!Active
<1>3. /\ flow.success[s] \in SUBSET flow.steps /\ flow.failure[s] \in SUBSET flow.steps
      /\ flow.approve[s] \in SUBSET flow.steps /\ flow.reject[s] \in SUBSET flow.steps
  BY AnyFlowAssumption
<1>4. ASSUME NEW st \in E!Terminal, NEW c, Marks(c, s, st, {}), NEW T0 \in SUBSET flow.steps,
             Execute(E!Route(c, E!SetStatus(rows, s, st), T0)),
             \/ T0 \in {flow.success[s], flow.approve[s]}
             \/ T0 = flow.reject[s] /\ ~E!IsSelfRejectLoop(s)
      PROVE  \E C, T \in SUBSET flow.steps : Settles(s, st, C, T)
  <2>1. PICK r : r = E!SetStatus(rows, s, st) /\ Became(r, s, st, {}, {})
    BY <1>2, TableFacts
  <2>2. Execute(E!Route(c, r, T0))  BY <1>4, <2>1
  <2>3. PICK T \in SUBSET T0 : Does(s, st, {}, T) /\ Gated(s, st, T)
    BY <1>1, <1>2, <1>4, <2>1, <2>2, RoutedFacts
  <2>4. Settles(s, st, {}, T) /\ T \in SUBSET flow.steps  BY <1>4, <2>3 DEF Settles
  <2> QED  BY <2>4
<1>5. ASSUME NEW st \in E!Status, Marks(E!Mark(s, st), s, st, {}), NEW r, NEW T \in SUBSET flow.steps,
             NEW d, Says(d, s, st, {}, T, r), Became(r, s, st, {}, {}), Execute(d),
             \/ st = "waiting_approval" /\ T = {}
             \/ st \in E!Terminal /\ T = {s} /\ E!IsSelfRejectLoop(s)
      PROVE  \E C \in SUBSET flow.steps : Settles(s, st, C, T)
  <2>1. Does(s, st, {}, T)  BY <1>1, <1>5, ExecuteFacts
  <2> QED  BY <1>5, <2>1 DEF Settles
<1>6. CASE StepCompletes(s)
  <2>1. CASE s \in flow.human
    <3> DEFINE d == E!RunHooks(E!Mark(s, "waiting_approval"), "none")
    <3>1. Execute(d)  BY <1>6, <2>1 DEF StepCompletes, E!OnStepCompleted
    <3>2. Marks(d, s, "waiting_approval", {}) /\ Marks(E!Mark(s, "waiting_approval"), s, "waiting_approval", {})
      BY <1>2, MarkFacts
    <3>3. PICK r : Became(r, s, "waiting_approval", {}, {})  BY <1>2, TableFacts
    <3>4. r[s].status = "waiting_approval"  BY <3>3 DEF Became
    <3> HIDE DEF d
    <3>5. Says(d, s, "waiting_approval", {}, {}, r)
      BY <3>2, <3>4 DEF Says, Lists, Marks, Starts, E!ActiveSteps, E!Active
    <3> QED  BY <1>1, <1>2, <1>5, <3>1, <3>2, <3>3, <3>5
  <2>2. CASE s \notin flow.human
    <3>1. PICK c : c = E!RunHooks(E!Mark(s, "completed"), "none")  OBVIOUS
    <3>2. Execute(E!Route(c, E!SetStatus(rows, s, "completed"), flow.success[s]))
      BY <1>6, <2>2, <3>1 DEF StepCompletes, E!OnStepCompleted
    <3>3. Marks(c, s, "completed", {})  BY <1>2, <3>1, MarkFacts
    <3> QED  BY <1>1, <1>2, <1>3, <1>4, <3>2, <3>3
  <2> QED  BY <2>1, <2>2
<1>7. CASE StepFails(s)
  <2> DEFINE C == E!ActiveSteps(rows) \ {s}
  <2>1. rows[s].attempt \in Nat /\ rows[s].attempt > 0
    BY <1>1, <1>7 DEF StepFails, E!Row
  <2>2. PICK c, r : c = E!Cancel(E!Mark(s, "failed"), C) /\ r = E!FailFast(rows, s)  OBVIOUS
  <2>3. Execute(E!Route(c, r, flow.failure[s]))
    BY <1>7, <2>1, <2>2 DEF StepFails, E!OnStepFailed
  <2>4. C \in SUBSET flow.steps  BY DEF E!ActiveSteps
  <2>5. Marks(c, s, "failed", C)  BY <1>2, <2>2, <2>4, MarkFacts
  <2>6. Became(r, s, "failed", C, {})  BY <1>2, <2>2, TableFacts
  <2>7. C \in SUBSET (E!ActiveSteps(rows) \ {s})  OBVIOUS
  <2> HIDE DEF C
  <2>8. PICK T \in SUBSET flow.failure[s] : Does(s, "failed", C, T) /\ Gated(s, "failed", T)
    BY <1>1, <1>2, <1>3, <2>3, <2>5, <2>6, <2>7, RoutedFacts
  <2>9. Settles(s, "failed", C, T) /\ T \in SUBSET flow.steps  BY <1>2, <1>3, <2>7, <2>8 DEF Settles
  <2> QED  BY <1>1, <1>2, <2>4, <2>9
<1>8. CASE StepApproved(s)
  <2>1. PICK c : c = E!Mark(s, "completed")  OBVIOUS
  <2>2. Execute(E!Route(c, E!SetStatus(rows, s, "completed"), flow.approve[s]))
    BY <1>8, <2>1 DEF StepApproved, E!OnStepApproved
  <2>3. Marks(c, s, "completed", {})  BY <1>2, <2>1, MarkFacts
  <2> QED  BY <1>1, <1>2, <1>3, <1>4, <2>2, <2>3
<1>9. CASE StepRejected(s)
  <2>1. PICK c : c = E!Mark(s, "failed_rejected")  OBVIOUS
  <2>2. Marks(c, s, "failed_rejected", {})  BY <1>2, <2>1, MarkFacts
  <2>3. CASE ~E!IsSelfRejectLoop(s)
    <3>1. Execute(E!Route(c, E!SetStatus(rows, s, "failed_rejected"), flow.reject[s]))
      BY <1>9, <2>1, <2>3 DEF StepRejected, E!OnStepRejected
    <3> QED  BY <1>1, <1>2, <1>3, <1>4, <2>2, <2>3, <3>1
  <2>4. CASE E!IsSelfRejectLoop(s)
    <3>1. PICK r, T : r = E!SetStatus(rows, s, "failed_rejected") /\ T = {s}  OBVIOUS
    <3>2. PICK d : d = E!Launch(c, r, T)  OBVIOUS
    <3>3. Execute(d)  BY <1>9, <2>1, <2>4, <3>1, <3>2 DEF StepRejected, E!OnStepRejected
    <3>4. Became(r, s, "failed_rejected", {}, {})  BY <1>2, <3>1, TableFacts
    <3>5. r \in [flow.steps -> E!Row] /\ T # {}  BY <3>1, <3>4 DEF Became
    <3>6. Says(d, s, "failed_rejected", {}, T, r)  BY <2>2, <3>1, <3>2, <3>5, LaunchFacts DEF Says
    <3>7. Marks(E!Mark(s, "failed_rejected"), s, "failed_rejected", {})  BY <2>1, <2>2
    <3>8. "failed_rejected" \in E!Status /\ "failed_rejected" \in E!Terminal  BY <1>2
    <3>9. T \in SUBSET flow.steps /\ T = {s}  BY <3>1
    <3>10. \E C \in SUBSET flow.steps : Settles(s, "failed_rejected", C, T)
      BY <1>5, <2>4, <3>3, <3>4, <3>6, <3>7, <3>8, <3>9
    <3> QED  BY <1>1, <3>8, <3>9, <3>10
  <2> QED  BY <2>3, <2>4
<1> QED  BY <1>1, <1>6, <1>7, <1>8, <1>9

-----------------------------------------------------------------------------
(* The invariant of the run *)

\* Some step is routed to by none.
Rooted == \E s \in flow.steps : \A t \in flow.steps : s \notin E!RoutingTargets(t)

\* A step with several sources needs all of them, and a step that runs again when
\* it is rejected routes to itself in no other way.
Orderly ==
  /\ \A t \in flow.steps : E!Sources(t) \subseteq flow.needs[t] \/ \A s, u \in E!Sources(t) : s = u
  /\ \A s \in flow.steps : E!IsSelfRejectLoop(s) =>
       s \notin flow.success[s] \cup flow.approve[s] \cup flow.failure[s]

\* A step that has started follows sources that are through, those it needs
\* completed, and has started once.
Ordered ==
  \A t \in flow.steps :
    /\ rows[t].attempt > 0 => /\ \A s \in E!Sources(t) : rows[s].status \in E!Terminal
                              /\ \A n \in flow.needs[t] : rows[n].status = "completed"
    /\ rows[t].attempt <= 1 \/ E!IsSelfRejectLoop(t)

RInv ==
  /\ flow \in Flows
  /\ rows \in [flow.steps -> E!Row] /\ phase \in E!RunPhase
  /\ stage \in {"accepted", "started"} => E!NeedsMatchesSources
  /\ stage # "started" => phase = "running" /\ rows = [s \in flow.steps |-> E!NoRow]
  /\ \A s \in flow.steps : rows[s].status # "none" => rows[s].attempt > 0
  /\ Rooted => NeverStalls
  /\ Rooted /\ Orderly => Ordered

\* What is said of the flow stays true.
LEMMA SameFlow ==
  ASSUME flow' = flow
  PROVE  /\ Rooted' <=> Rooted
         /\ Orderly' <=> Orderly
         /\ E!NeedsMatchesSources' <=> E!NeedsMatchesSources
         /\ \A t : E!Sources(t)' = E!Sources(t) /\ (E!IsSelfRejectLoop(t)' <=> E!IsSelfRejectLoop(t))
<1>1. \A t : E!IsSelfRejectLoop(t)' <=> E!IsSelfRejectLoop(t)  BY DEF E!IsSelfRejectLoop
<1>2. \A t : E!SelfLoop(t)' = E!SelfLoop(t)  BY <1>1 DEF E!SelfLoop
<1>3. \A t : E!RoutingTargets(t)' = E!RoutingTargets(t)
  BY <1>2 DEF E!RoutingTargets, E!ForwardTargets
<1>4. \A f : E!Targets(f)' = E!Targets(f)  BY DEF E!Targets
<1>5. \A t : E!IncomingEdges(t)' = E!IncomingEdges(t)  BY <1>2, <1>4 DEF E!IncomingEdges, E!Fields
<1>6. \A t : E!Sources(t)' = E!Sources(t)  BY <1>5 DEF E!Sources
<1> QED  BY <1>1, <1>3, <1>6 DEF Rooted, Orderly, E!NeedsMatchesSources

\* Nothing that has started, or is active, is a source of what starts now.
LEMMA OrderedStep ==
  ASSUME RInv, Orderly, Ordered, NEW s \in flow.steps, rows[s].status \in E!Active,
         NEW st \in E!Status, NEW C, NEW T, Settles(s, st, C, T)
  PROVE  Ordered'
<1>1. /\ flow \in Flows /\ flow' = flow /\ T \subseteq flow.steps
      /\ Became(rows', s, st, C, T) /\ C \subseteq E!ActiveSteps(rows) \ {s}
  BY DEF RInv, Settles, Does
<1>2. ASSUME NEW t \in flow.steps, s \in E!Sources(t) PROVE rows[t].attempt = 0
  <2>1. rows[t].attempt \in Nat  BY DEF RInv, E!Row
  <2>2. rows[s].status \notin E!Terminal  BY DEF E!Active, E!Terminal
  <2> QED  BY <1>2, <2>1, <2>2 DEF Ordered
<1>3. rows[s].attempt > 0  BY DEF RInv, E!Active
<1>4. s \notin E!Sources(s)  BY <1>2, <1>3
<1>5. \A t : E!Sources(t) \subseteq flow.steps  BY DEF E!Sources, E!IncomingEdges
<1>6. ASSUME NEW n \in flow.steps, n # s, rows[n].status \in E!Terminal, n \notin T
      PROVE  rows'[n].status = rows[n].status
  <2>1. n \notin C  BY <1>1, <1>6 DEF E!ActiveSteps, E!Active, E!Terminal
  <2> QED  BY <1>1, <1>6, <2>1 DEF Became
<1>10. \A t \in flow.steps : flow.needs[t] \subseteq flow.steps  BY <1>1, AnyFlowAssumption
<1>7. CASE T = {s} /\ E!IsSelfRejectLoop(s)
  <2>1. ASSUME NEW t \in flow.steps, rows'[t].attempt > 0, NEW n \in E!Sources(t)
        PROVE  rows'[n].status \in E!Terminal
    <3>1. rows[t].attempt > 0  BY <1>1, <1>3, <1>7, <2>1 DEF Became
    <3>2. rows[n].status \in E!Terminal /\ n # s  BY <1>2, <3>1, <2>1 DEF Ordered
    <3> QED  BY <1>5, <1>6, <1>7, <3>2
  <2>2. ASSUME NEW t \in flow.steps PROVE rows'[t].attempt <= 1 \/ E!IsSelfRejectLoop(t)
    BY <1>1, <1>7 DEF Became, Ordered
  <2>3. ASSUME NEW t \in flow.steps, rows'[t].attempt > 0, NEW n \in flow.needs[t]
        PROVE  rows'[n].status = "completed"
    <3>1. rows[t].attempt > 0  BY <1>1, <1>3, <1>7, <2>3 DEF Became
    <3>2. rows[n].status = "completed" /\ n \in flow.steps  BY <1>10, <2>3, <3>1 DEF Ordered
    <3>3. n # s /\ rows[n].status \in E!Terminal  BY <3>2 DEF E!Active, E!Terminal
    <3> QED  BY <1>6, <1>7, <3>2, <3>3
  <2> QED  BY <1>1, <2>1, <2>2, <2>3, SameFlow DEF Ordered
<1>8. CASE /\ T = {} \/ st \in E!Terminal
           /\ Gated(s, st, T)
           /\ \/ T \subseteq flow.success[s] \cup flow.approve[s] \cup flow.failure[s]
              \/ T \subseteq flow.reject[s] /\ ~E!IsSelfRejectLoop(s)
  <2>1. \A t \in T : s \in E!Sources(t)
    <3>1. \A t \in T : t \in E!RoutingTargets(s)
      BY <1>8 DEF Orderly, E!RoutingTargets, E!ForwardTargets, E!SelfLoop
    <3> QED  BY <1>1, <3>1, SourceRoutes
  <2>2. \A t \in T : rows[t].attempt = 0 /\ t # s /\ rows[t].status \notin E!Terminal
    <3>1. \A t \in T : rows[t].attempt = 0  BY <1>1, <1>2, <2>1
    <3>2. \A t \in T : rows[t].status = "none"  BY <1>1, <3>1 DEF RInv
    <3> QED  BY <1>3, <3>1, <3>2 DEF E!Terminal
  <2>3. ASSUME T # {} PROVE rows'[s].status \in E!Terminal
    BY <1>1, <1>8, <2>2, <2>3 DEF Became
  <2>4. ASSUME NEW t \in T, NEW n \in E!Sources(t) PROVE rows'[n].status \in E!Terminal
    <3>1. n = s \/ rows[n].status = "completed"
      BY <1>1, <1>8, <2>1, <2>4 DEF Orderly, Gated
    <3>2. CASE n = s  BY <2>3, <3>2
    <3>3. CASE n # s
      <4>1. rows[n].status \in E!Terminal /\ n \in flow.steps  BY <1>5, <3>1, <3>3 DEF E!Terminal
      <4> QED  BY <1>6, <2>2, <3>3, <4>1
    <3> QED  BY <3>2, <3>3
  <2>5. ASSUME NEW t \in flow.steps \ T, rows[t].attempt > 0, NEW n \in E!Sources(t)
        PROVE  rows'[n].status \in E!Terminal
    <3>1. rows[n].status \in E!Terminal /\ n \in flow.steps  BY <1>5, <2>5 DEF Ordered
    <3>2. n # s  BY <1>2, <2>5
    <3> QED  BY <1>6, <2>2, <3>1, <3>2
  <2>6. \A t \in flow.steps : rows'[t].attempt <= 1 \/ E!IsSelfRejectLoop(t)
    BY <1>1, <2>2 DEF Became, Ordered
  <2>7. \A t \in flow.steps \ T : rows'[t].attempt = rows[t].attempt  BY <1>1 DEF Became
  <2>8. ASSUME NEW t \in flow.steps, t \in T \/ rows[t].attempt > 0, NEW n \in flow.needs[t]
        PROVE  rows'[n].status = "completed"
    <3>1. n \in flow.steps  BY <1>10
    <3>2. CASE t \in T /\ n = s
      BY <1>1, <1>8, <2>2, <3>1, <3>2 DEF Gated, Became
    <3>3. CASE ~(t \in T /\ n = s)
      <4>1. rows[n].status = "completed" /\ n # s
        <5>1. CASE t \in T  BY <1>8, <3>3, <5>1 DEF Gated
        <5>2. CASE t \notin T
          <6>1. rows[n].status = "completed"  BY <2>8, <5>2 DEF Ordered
          <6> QED  BY <6>1 DEF E!Active
        <5> QED  BY <5>1, <5>2
      <4>2. rows[n].status \in E!Terminal  BY <4>1 DEF E!Terminal
      <4> QED  BY <1>6, <2>2, <3>1, <4>1, <4>2
    <3> QED  BY <3>2, <3>3
  <2> QED  BY <1>1, <2>4, <2>5, <2>6, <2>7, <2>8, SameFlow DEF Ordered
<1>9. T = {} => Gated(s, st, T) /\ T \subseteq flow.success[s] \cup flow.approve[s] \cup flow.failure[s]
  BY DEF Gated
<1> QED  BY <1>7, <1>8, <1>9 DEF Settles

LEMMA EntryFacts ==
  ASSUME RInv, Rooted, E!NeedsMatchesSources
  PROVE  /\ E!Ready(rows, E!EntrySteps) # {}
         /\ \A t \in E!EntrySteps : t \in flow.steps /\ E!Sources(t) = {} /\ flow.needs[t] = {}
<1> DEFINE strict == {s \in flow.steps : \A t \in flow.steps : s \notin E!RoutingTargets(t)}
<1>1. strict # {} /\ E!EntrySteps = strict  BY DEF Rooted, E!EntrySteps
<1>2. \A t \in strict : t \in flow.steps /\ E!Sources(t) = {}
  <2>1. \A t : E!Sources(t) \subseteq flow.steps  BY DEF E!Sources, E!IncomingEdges
  <2> QED  BY <2>1, SourceRoutes DEF RInv
<1>3. \A t \in strict : flow.needs[t] = {}  BY <1>2 DEF E!NeedsMatchesSources
<1> QED  BY <1>1, <1>2, <1>3 DEF E!Ready, E!NeedsSatisfied

LEMMA StartStep == ASSUME RInv, Start PROVE RInv'
<1>1. /\ stage = "accepted" /\ stage' = "started" /\ flow' = flow /\ flow \in Flows
      /\ phase = "running" /\ rows = [s \in flow.steps |-> E!NoRow]
      /\ rows \in [flow.steps -> E!Row]
  BY DEF Start, Execute, RInv
<1>2. \A s \in flow.steps : rows[s].status = "none" /\ rows[s].attempt = 0
  BY <1>1 DEF E!NoRow
<1>3. E!EntrySteps \subseteq flow.steps /\ E!NeedsMatchesSources  BY <1>1 DEF RInv, E!EntrySteps
<1>4. PICK T \in SUBSET flow.steps : T = E!Ready(rows, E!EntrySteps)  BY <1>3 DEF E!Ready
<1>5. PICK c : c = E!RunHooks(E!NoCommands, "none")  OBVIOUS
<1>6. PICK d : d = E!Launch(c, rows, T)  OBVIOUS
<1>7. Execute(d)  BY <1>4, <1>5, <1>6 DEF Start, E!OnRunStarted
<1>8. Lists(d, NoStep, "none", {}, T, rows) /\ d.terminal = "none"
  <2>1. Marks(c, NoStep, "none", {})
    <3>1. NoStep \in flow.steps \cup {NoStep} /\ "none" \in E!Status \cup {"none"} /\ {} \in SUBSET flow.steps
      OBVIOUS
    <3> QED  BY <1>5, <3>1, MarkFacts
  <2> QED  BY <1>1, <1>6, <2>1, LaunchFacts
<1>9. Became(rows', NoStep, "none", {}, T)
  <2>1. NoStep \notin flow.steps  BY <1>1, AnyFlowAssumption
  <2>2. rows' = Applied(d)  BY <1>7 DEF Execute
  <2>3. Starts(d, T, rows) /\ d.step = NoStep  BY <1>8 DEF Lists
  <2>4. Became(Applied(d), d.step, d.status, d.cancel, T)  BY <1>1, <2>1, <2>3, AppliedFacts
  <2> QED  BY <1>8, <2>2, <2>4 DEF Lists
<1>10. phase' = "running"  BY <1>1, <1>7, <1>8 DEF Execute
<1>11. \A t \in flow.steps : /\ rows'[t].attempt = IF t \in T THEN 1 ELSE 0
                             /\ rows'[t].status = IF t \in T THEN "running" ELSE "none"
  <2>1. NoStep \notin flow.steps  BY <1>1, AnyFlowAssumption
  <2> QED  BY <1>2, <1>9, <2>1 DEF Became
<1>12. Rooted => T # {} /\ \A t \in T : E!Sources(t) = {} /\ flow.needs[t] = {}
  BY <1>3, <1>4, EntryFacts DEF E!Ready
<1>13. Rooted => NeverStalls'
  <2> SUFFICES ASSUME Rooted PROVE E!ActiveSteps(rows)' # {}  BY DEF NeverStalls
  <2>1. PICK t \in T : rows'[t].status = "running"  BY <1>11, <1>12
  <2> QED  BY <1>1, <2>1 DEF E!ActiveSteps, E!Active
<1>14. Rooted => Ordered'  BY <1>1, <1>11, <1>12, SameFlow DEF Ordered
<1>15. rows' \in [flow.steps -> E!Row]  BY <1>9 DEF Became
<1>16. E!Row' = E!Row /\ E!RunPhase' = E!RunPhase /\ "running" \in E!RunPhase
  BY DEF E!Row, E!RunPhase, E!TerminalPhases, E!Status, E!Terminal, E!Active
<1> QED  BY <1>1, <1>3, <1>10, <1>11, <1>13, <1>14, <1>15, <1>16, SameFlow DEF RInv

LEMMA OutcomeStep ==
  ASSUME RInv, NEW s \in flow.steps,
         StepCompletes(s) \/ StepFails(s) \/ StepApproved(s) \/ StepRejected(s)
  PROVE  RInv'
<1>1. flow \in Flows /\ rows \in [flow.steps -> E!Row] /\ (rows[s].status # "none" => rows[s].attempt > 0)
  BY DEF RInv
<1>2. /\ phase = "running" /\ stage = "started" /\ stage' = stage
      /\ rows[s].status \in E!Active
  BY <1>1, StepSettles
<1>3. PICK st \in E!Status, C \in SUBSET flow.steps, T \in SUBSET flow.steps : Settles(s, st, C, T)
  BY <1>1, StepSettles
<1>4. flow' = flow /\ Became(rows', s, st, C, T)  BY <1>3 DEF Settles, Does
<1>5. E!Row' = E!Row /\ E!RunPhase' = E!RunPhase
  BY DEF E!Row, E!RunPhase, E!TerminalPhases, E!Status, E!Terminal, E!Active
<1>6. rows' \in [flow.steps -> E!Row] /\ phase' \in E!RunPhase  BY <1>3, <1>4 DEF Settles, Does, Became
<1>7. \A t \in flow.steps : rows'[t].status # "none" => rows'[t].attempt > 0
  <2> SUFFICES ASSUME NEW t \in flow.steps, rows'[t].status # "none" PROVE rows'[t].attempt > 0
    OBVIOUS
  <2>1. rows[t].attempt \in Nat  BY <1>1 DEF E!Row
  <2>2. CASE t \in T  BY <1>4, <2>1, <2>2 DEF Became
  <2>3. CASE t \notin T
    <3>1. rows[t].status # "none"
      <4>1. CASE t = s  BY <1>2, <4>1 DEF E!Active
      <4>2. CASE t # s /\ t \in C
        <5>1. rows[t].status \in E!Active  BY <1>3, <4>2 DEF Settles, E!ActiveSteps
        <5> QED  BY <5>1 DEF E!Active
      <4>3. CASE t # s /\ t \notin C  BY <1>4, <2>3, <4>3 DEF Became
      <4> QED  BY <4>1, <4>2, <4>3
    <3> QED  BY <1>4, <2>3, <3>1 DEF Became, RInv
  <2> QED  BY <2>2, <2>3
<1>8. NeverStalls'
  <2> SUFFICES ASSUME phase' = "running" PROVE E!ActiveSteps(rows)' # {}  BY DEF NeverStalls
  <2>1. \E t \in flow.steps : rows'[t].status \in E!Active  BY <1>3 DEF Settles, Does
  <2> QED  BY <1>4, <2>1 DEF E!ActiveSteps, E!Active
<1>9. Rooted /\ Orderly => Ordered'  BY <1>2, <1>3, OrderedStep DEF RInv
<1> QED  BY <1>1, <1>2, <1>4, <1>5, <1>6, <1>7, <1>8, <1>9, SameFlow DEF RInv

LEMMA RunInit == Init => RInv
<1> SUFFICES ASSUME Init PROVE RInv  OBVIOUS
<1>1. /\ flow \in Flows /\ stage = "searching" /\ phase = "running"
      /\ rows = [s \in flow.steps |-> E!NoRow]
  BY DEF Init
<1>2. E!NoRow \in E!Row /\ E!NoRow.status = "none" /\ E!NoRow.attempt = 0
  BY DEF E!NoRow, E!Row, E!Status
<1>3. \A t \in flow.steps : rows[t].status = "none" /\ rows[t].attempt = 0  BY <1>1, <1>2
<1> QED  BY <1>1, <1>2, <1>3 DEF RInv, NeverStalls, Ordered, E!RunPhase

\* Nothing is run while the flow is loaded.
LEMMA LoadStep ==
  ASSUME RInv, UNCHANGED <<flow, rows, phase>>,
         \/ stage' = stage
         \/ stage = "searching" /\ stage' = "rejected"
         \/ stage = "searching" /\ stage' = "accepted" /\ E!NeedsMatchesSources
  PROVE  RInv'
<1>1. E!Row' = E!Row /\ E!RunPhase' = E!RunPhase /\ E!NoRow' = E!NoRow /\ E!Terminal' = E!Terminal
  BY DEF E!Row, E!RunPhase, E!TerminalPhases, E!Status, E!Terminal, E!Active, E!NoRow
<1>2. Ordered' <=> Ordered  BY <1>1, SameFlow DEF Ordered
<1>3. NeverStalls => NeverStalls'  BY DEF NeverStalls, E!ActiveSteps, E!Active
<1> QED  BY <1>1, <1>2, <1>3, SameFlow DEF RInv

LEMMA RunStep == RInv /\ [Next]_vars => RInv'
<1> SUFFICES ASSUME RInv, [Next]_vars PROVE RInv'  OBVIOUS
<1>1. ASSUME NEW t \in flow.steps, Visit(t) \/ CloseCycle(t) PROVE RInv'
  BY <1>1, LoadStep DEF Visit, CloseCycle
<1>2. CASE Backtrack  BY <1>2, LoadStep DEF Backtrack
<1>3. CASE Judge  BY <1>3, LoadStep DEF Judge, E!RulesHold
<1>4. CASE Start  BY <1>4, StartStep
<1>5. ASSUME NEW s \in flow.steps,
             StepCompletes(s) \/ StepFails(s) \/ StepApproved(s) \/ StepRejected(s)
      PROVE  RInv'
  BY <1>5, OutcomeStep
<1>6. CASE UNCHANGED vars  BY <1>6, LoadStep DEF vars
<1> QED  BY <1>1, <1>2, <1>3, <1>4, <1>5, <1>6 DEF Next

-----------------------------------------------------------------------------
(* What follows *)

\* Among the sets of T, all finite, one contains no other.
LEMMA Smallest ==
  ASSUME NEW S, IsFiniteSet(S), NEW T \in SUBSET SUBSET S, T # {}
  PROVE  \E D \in T : \A D2 \in T : D2 \subseteq D => D2 = D
<1>1. IsWellFoundedOn(StrictSubsetOrdering(S), SUBSET S)
  BY FS_StrictSubsetOrderingWellFounded, FS_FiniteSubsetsOfFinite
<1>2. T \subseteq SUBSET S  OBVIOUS
<1>3. PICK D \in T : \A D2 \in T : <<D2, D>> \notin StrictSubsetOrdering(S)
  BY <1>1, <1>2, WFMin
<1>4. ASSUME NEW D2 \in T, D2 \subseteq D, D2 # D PROVE FALSE
  <2>1. <<D2, D>> \in StrictSubsetOrdering(S)  BY <1>2, <1>4 DEF StrictSubsetOrdering
  <2> QED  BY <1>3, <2>1
<1> QED  BY <1>3, <1>4

\* A flow that has steps, each routed to by another, has a loop.
LEMMA NoLoops ==
  ASSUME flow \in Flows, flow.steps # {}, ~Loops
  PROVE  Rooted
<1> SUFFICES ASSUME ~Rooted PROVE FALSE  OBVIOUS
<1> DEFINE Fed(D) == D # {} /\ \A s \in D : \E t \in D : s \in E!RoutingTargets(t)
           T == {D \in SUBSET flow.steps : Fed(D)}
<1>1. flow.steps \in T  BY DEF Rooted
<1>2. IsFiniteSet(flow.steps) /\ T \in SUBSET SUBSET flow.steps  BY AnyFlowAssumption
<1>3. PICK D \in T : \A D2 \in T : D2 \subseteq D => D2 = D
  <2> HIDE DEF T
  <2> QED  BY <1>1, <1>2, Smallest
<1>4. D \in SUBSET flow.steps /\ Fed(D)  OBVIOUS
<1>5. PICK x \in D : E!RoutingTargets(x) \cap D = {}  BY <1>4 DEF Loops, Cyclic
<1>6. D \ {x} # {}  BY <1>4, <1>5
<1>7. \A s \in D \ {x} : \E t \in D \ {x} : s \in E!RoutingTargets(t)  BY <1>4, <1>5
<1>8. D \ {x} \in T  BY <1>4, <1>6, <1>7
<1> QED  BY <1>3, <1>5, <1>8

\* An accepted flow with a step that nothing routes to has something to wait for,
\* from its start to its end.
THEOREM KeepsGoing == Spec => [](Rooted => NeverStalls)
<1>1. Spec => []RInv  BY RunInit, RunStep, PTL DEF Spec
<1>2. RInv => (Rooted => NeverStalls)  BY DEF RInv
<1> QED  BY <1>1, <1>2, PTL

\* Where joins wait for all of their sources and a review loops by rejection only,
\* every step of a flow without loops is started once.
THEOREM StartsOnce == Spec => [](Orderly => RunsOnce)
<1>1. Spec => []RInv  BY RunInit, RunStep, PTL DEF Spec
<1>2. RInv => (Orderly => RunsOnce)
  <2> SUFFICES ASSUME RInv, Orderly, ~Loops, NEW s \in flow.steps
               PROVE  rows[s].attempt <= 1 \/ E!IsSelfRejectLoop(s)
    BY DEF RunsOnce
  <2>1. Rooted  BY NoLoops DEF RInv
  <2> QED  BY <2>1 DEF RInv, Ordered
<1> QED  BY <1>1, <1>2, PTL

\* In the same flows the steps that an input may refer to are through by the time
\* the step that refers to them runs.
THEOREM GuaranteeKept == Spec => [](Orderly => GuaranteeHolds)
<1>1. Spec => []RInv  BY RunInit, RunStep, PTL DEF Spec
<1>2. RInv => (Orderly => GuaranteeHolds)
  <2> SUFFICES ASSUME RInv, Orderly, ~Loops, stage = "started",
                      NEW s \in flow.steps, rows[s].attempt > 0,
                      NEW t \in E!GuaranteedPredecessors(s)
               PROVE  rows[t].status \in E!Terminal
    BY DEF GuaranteeHolds
  <2>1. Rooted /\ Ordered /\ E!NeedsMatchesSources  BY NoLoops DEF RInv
  <2> DEFINE D == {n \in flow.steps : rows[n].status \in E!Terminal}
  <2>2. ASSUME NEW n \in D \cup {s} PROVE E!Predecessors(n) \subseteq D
    <3>1. n \in flow.steps /\ rows[n].attempt > 0  BY DEF RInv, E!Terminal
    <3>2. E!Sources(n) \subseteq D  BY <2>1, <3>1 DEF Ordered, E!Sources, E!IncomingEdges
    <3>3. E!Predecessors(n) \subseteq E!Sources(n)
      BY <2>1, <3>1 DEF E!Predecessors, E!NeedsMatchesSources
    <3> QED  BY <3>2, <3>3
  <2>3. D \in SUBSET flow.steps  OBVIOUS
  <2> HIDE DEF D
  <2>4. t \in D  BY <2>2, <2>3 DEF E!GuaranteedPredecessors
  <2> QED  BY <2>4 DEF D
<1> QED  BY <1>1, <1>2, PTL

\* What a step that has started needs has completed.
NeedsDone ==
  Orderly /\ ~Loops =>
    \A s \in flow.steps : rows[s].attempt > 0 => \A n \in flow.needs[s] : rows[n].status = "completed"

\* In the same flows a join waits until all it needs has completed.
THEOREM JoinsWait == Spec /\ [](Orderly /\ ~Loops) => JoinWaits
<1>1. Spec => []RInv  BY RunInit, RunStep, PTL DEF Spec
<1>2. RInv => NeedsDone
  <2> SUFFICES ASSUME RInv, Orderly, ~Loops, NEW t \in flow.steps PROVE Ordered
    BY DEF Ordered, NeedsDone
  <2> QED  BY NoLoops DEF RInv
<1>3. ASSUME RInv, RInv', NeedsDone', (Orderly /\ ~Loops)', [Next]_vars,
             NEW s \in flow.steps, rows'[s].attempt > rows[s].attempt, NEW n \in flow.needs[s]
      PROVE  rows'[n].status = "completed"
  <2>1. flow' = flow
    BY <1>3 DEF Next, vars, Visit, CloseCycle, Backtrack, Judge, Start, Execute,
                StepCompletes, StepFails, StepApproved, StepRejected
  <2>2. rows[s].attempt \in Nat /\ rows'[s].attempt \in Nat
    <3>1. rows'[s] \in E!Row'  BY <1>3, <2>1 DEF RInv
    <3> QED  BY <1>3, <3>1 DEF RInv, E!Row
  <2>3. rows'[s].attempt > 0  BY <1>3, <2>2
  <2> QED  BY <1>3, <2>1, <2>3 DEF NeedsDone
<1>4. RInv /\ RInv' /\ NeedsDone' /\ (Orderly /\ ~Loops)' /\ [Next]_vars =>
        [\A s \in flow.steps : rows'[s].attempt > rows[s].attempt =>
           \A n \in flow.needs[s] : rows'[n].status = "completed"]_vars
  BY <1>3
<1> QED  BY <1>1, <1>2, <1>4, PTL DEF Spec, JoinWaits

\* The stack counts the grey steps.
LEMMA StackCounts ==
  ASSUME SInv
  PROVE  Len(stack) = Cardinality({s \in flow.steps : color[s] = "grey"})
<1> DEFINE G == {s \in flow.steps : color[s] = "grey"}
           n == Len(stack)
           f == [i \in 1 .. n |-> stack[i]]
<1>1. n \in Nat /\ StackInv  BY DEF SInv, StackInv
<1>2. /\ f \in [1 .. n -> G]
      /\ \A i, k \in 1 .. n : f[i] = f[k] => i = k
      /\ \A s \in G : \E i \in 1 .. n : f[i] = s
  BY <1>1 DEF StackInv
<1> HIDE DEF f, n, G
<1>3. IsFiniteSet(1 .. n) /\ Cardinality(1 .. n) = n
  <2>1. n \in Nat  BY <1>1
  <2>2. IsFiniteSet(1 .. n) /\ Cardinality(1 .. n) = IF 1 > n THEN 0 ELSE n - 1 + 1
    BY <2>1, FS_Interval
  <2> QED  BY <2>1, <2>2
<1>4. f \in Bijection(1 .. n, G)  BY <1>2, Fun_IsBij
<1>5. Cardinality(G) = n  BY <1>3, <1>4, FS_Bijection DEF ExistsBijection
<1> QED  BY <1>5 DEF n, G

\* The types hold, and the path of the search is exactly the grey steps.
THEOREM Typed == Spec => []TypeOK
<1>1. Spec => [](SInv /\ RInv)
  BY SearchInit, SearchStep, RunInit, RunStep, PTL DEF Spec
<1>2. SInv /\ RInv => TypeOK
  <2> SUFFICES ASSUME SInv, RInv PROVE TypeOK  OBVIOUS
  <2>1. \A i \in DOMAIN stack : color[stack[i]] = "grey"
    <3>1. stack \in Seq(flow.steps) /\ \A i \in 1 .. Len(stack) : color[stack[i]] = "grey"
      BY DEF SInv, StackInv
    <3>2. DOMAIN stack = 1 .. Len(stack)  BY <3>1
    <3> QED  BY <3>1, <3>2
  <2>2. \A i \in DOMAIN cycle : cycle[i] \in flow.steps  BY DEF SInv, EndInv, IsCycle
  <2>3. Len(stack) = Cardinality({s \in flow.steps : color[s] = "grey"})  BY StackCounts
  <2> QED  BY <2>1, <2>2, <2>3 DEF TypeOK, SInv, EndInv, RInv
<1> QED  BY <1>1, <1>2, PTL

=============================================================================
