---------------------------- MODULE ClientProofs ----------------------------
(***************************************************************************)
(* The devkitd client keeps its port, for any number of jobs on the one    *)
(* connection, whatever calls fail, and leaves no job alive but in the     *)
(* ways LeftAlive lists.                                                   *)
(***************************************************************************)
EXTENDS DevkitdClient, Integers, SequenceTheorems, TLAPS

USE ClientAssumption

-----------------------------------------------------------------------------
(* The invariant *)

In(c)       == \E n \in DOMAIN line : line[n] = c
Answered(c) == line # <<>> /\ Head(line) = c /\ answer # "none"

\* Only callers in the middle of a call are in the line, and each once.
LineInv ==
  /\ line \in Seq(Callers)
  /\ \A m, n \in DOMAIN line : line[m] = line[n] => m = n
  /\ answer # "none" => line # <<>>
  /\ \A c \in Callers : In(c) => Pc(c) \in {"start", "poll", "cancel"}

\* What the answer the holder c is about to see still says of its job.
AnswerFits(c) ==
  LET j == c[1]
  IN  /\ Pc(c) = "start" =>
           \/ answer \in {"accepted", "garbled"} /\ known[j] /\ (answer = "garbled" => j \in Garbled)
           \/ answer = "error" /\ fate[j] = "none"
      /\ Pc(c) = "poll" =>
           \/ answer = "error" /\ ~known[j]
           \/ answer \in {"garbled", "oddState"} /\ j \in Garbled
           \/ answer = "running"
           \/ answer \in Outcomes \cup {"killed"} /\ fate[j] = answer
      /\ Pc(c) = "cancel" => fate[j] # "running"

\* LeftAlive of one job.
Accounted(j) ==
  j \notin Garbled /\ fate[j] = "running" /\ task[j].pc = "over"
    => \/ ~task[j].stored
       \/ task[j].verdict = "unreachable" /\ silence[j] = Budget + 1
       \/ CancelTries \in {task[j].tries, stop[j].tries}

\* How far the task and the cancellation of a job have come, against its fate.
JobFits(j) ==
  /\ known[j] => fate[j] \notin {"none", "lost"}
  /\ fate[j] = "running" => known[j]
  /\ task[j].pc = "idle" => fate[j] = "none"
  /\ task[j].pc = "start" /\ ~Answered(<<j, "task">>) => fate[j] = "none"
  /\ task[j].pc \in {"cancel", "backoff"} => late[j]
  /\ task[j].pc # "over" =>
       task[j].verdict = "none" /\ silence[j] = task[j].fails /\ task[j].tries < CancelTries
  /\ task[j].stored => task[j].pc \notin {"idle", "start", "persist"}
  /\ stop[j].pc # "idle" => task[j].stored
  /\ stop[j].pc \notin {"abort", "over"} => stop[j].tries < CancelTries
  /\ stop[j].pc \in {"abort", "over"} => fate[j] # "running" \/ stop[j].tries = CancelTries
  /\ Accounted(j)

Tasks == [pc : TaskPc, fails : 0 .. Budget, tries : 0 .. CancelTries,
          verdict : Verdict, stored : BOOLEAN]
Stops == [pc : StopPc, tries : 0 .. CancelTries]

JobTyped(j) ==
  /\ fate[j] \in {"none", "running", "killed", "lost"} \cup Outcomes
  /\ known[j] \in BOOLEAN /\ late[j] \in BOOLEAN
  /\ task[j] \in Tasks
  /\ stop[j] \in Stops
  /\ silence[j] \in 0 .. Budget + 1

Shapes ==
  /\ DOMAIN fate = Jobs /\ fate = [j \in Jobs |-> fate[j]]
  /\ DOMAIN known = Jobs /\ known = [j \in Jobs |-> known[j]]
  /\ DOMAIN late = Jobs /\ late = [j \in Jobs |-> late[j]]
  /\ DOMAIN task = Jobs /\ task = [j \in Jobs |-> task[j]]
  /\ DOMAIN stop = Jobs /\ stop = [j \in Jobs |-> stop[j]]
  /\ DOMAIN silence = Jobs /\ silence = [j \in Jobs |-> silence[j]]

JobInv(j) ==
  /\ JobTyped(j) /\ JobFits(j)
  /\ \A k \in {"task", "stop"} : Answered(<<j, k>>) => AnswerFits(<<j, k>>)

IInv == Shapes /\ answer \in Answer /\ LineInv /\ \A j \in Jobs : JobInv(j)

LEMMA InvMeans == IInv => TypeOK /\ LeftAlive
<1> SUFFICES ASSUME IInv PROVE TypeOK /\ LeftAlive  OBVIOUS
<1>1. \A j \in Jobs : JobTyped(j) /\ Accounted(j)  BY DEF IInv, JobInv, JobFits
<1>2. TypeOK  BY <1>1 DEF IInv, Shapes, LineInv, JobTyped, TypeOK, Tasks, Stops
<1>3. LeftAlive  BY <1>1 DEF Accounted, LeftAlive
<1> QED  BY <1>2, <1>3

-----------------------------------------------------------------------------
(* The line of the mutex *)

LEMMA CallerPairs ==
  /\ \A j \in Jobs, k \in {"task", "stop"} : <<j, k>> \in Callers
  /\ \A c \in Callers : c[1] \in Jobs /\ c[2] \in {"task", "stop"} /\ c = <<c[1], c[2]>>
BY DEF Callers

LineOK == line \in Seq(Callers) /\ (\A m, n \in DOMAIN line : line[m] = line[n] => m = n)
          /\ (answer # "none" => line # <<>>)

LEMMA JoinLine ==
  ASSUME LineOK, NEW c \in Callers, ~In(c), Join(c)
  PROVE  /\ LineOK' /\ answer' = answer
         /\ \A d : In(d)' => In(d) \/ d = c
         /\ \A d : Answered(d)' <=> Answered(d)
<1>1. line' = Append(line, c) /\ answer' = answer  BY DEF Join
<1>2. /\ line' \in Seq(Callers) /\ Len(line') = Len(line) + 1
      /\ \A n \in DOMAIN line : line'[n] = line[n]
      /\ line'[Len(line) + 1] = c
      /\ DOMAIN line' = 1 .. Len(line) + 1 /\ DOMAIN line = 1 .. Len(line) /\ Len(line) \in Nat
  BY <1>1 DEF LineOK
<1>3. \A m, n \in DOMAIN line' : line'[m] = line'[n] => m = n  BY <1>2 DEF LineOK, In
<1>4. \A d : In(d)' => In(d) \/ d = c  BY <1>2 DEF In
<1>5. line # <<>> => line' # <<>> /\ Head(line') = Head(line)  BY <1>1, <1>2 DEF LineOK
<1>6. LineOK'  BY <1>1, <1>2, <1>3, <1>5 DEF LineOK
<1>7. \A d : Answered(d)' <=> Answered(d)  BY <1>1, <1>5 DEF Answered, LineOK
<1> QED  BY <1>1, <1>4, <1>6, <1>7

LEMMA ReleaseLine ==
  ASSUME LineOK, NEW c, Holder(c), Release
  PROVE  /\ LineOK' /\ answer' = "none"
         /\ \A d : In(d)' => In(d) /\ d # c
         /\ \A d : ~Answered(d)'
         /\ \A d : d # c => ~Answered(d)
<1>1. line' = Tail(line) /\ answer' = "none" /\ line # <<>> /\ line[1] = c  BY DEF Release, Holder, LineOK
<1>2. /\ line' \in Seq(Callers) /\ Len(line) \in Nat \ {0}
      /\ DOMAIN line = 1 .. Len(line) /\ DOMAIN line' = 1 .. Len(line) - 1
      /\ \A n \in DOMAIN line' : line'[n] = line[n + 1]
  BY <1>1 DEF LineOK
<1>3. \A m, n \in DOMAIN line' : line'[m] = line'[n] => m = n  BY <1>2 DEF LineOK
<1>4. ASSUME NEW d, In(d)' PROVE In(d) /\ d # c
  <2>1. PICK n \in DOMAIN line' : line'[n] = d  BY <1>4 DEF In
  <2>2. n + 1 \in DOMAIN line /\ line[n + 1] = d /\ n + 1 # 1  BY <1>2, <2>1
  <2> QED  BY <1>1, <1>2, <2>2 DEF LineOK, In
<1>5. LineOK'  BY <1>1, <1>2, <1>3 DEF LineOK
<1> QED  BY <1>1, <1>4, <1>5 DEF Answered, Holder

\* What is left of a sequence without its n-th element.
Without(s, n) == SubSeq(s, 1, n - 1) \o SubSeq(s, n + 1, Len(s))

Shortened(S, s, n, t) ==
  /\ t \in Seq(S) /\ Len(t) = Len(s) - 1
  /\ \A m \in 1 .. Len(s) - 1 : m < n => t[m] = s[m]
  /\ \A m \in 1 .. Len(s) - 1 : ~(m < n) => t[m] = s[m + 1]

LEMMA WithoutOne ==
  ASSUME NEW S, NEW s \in Seq(S), NEW n \in 1 .. Len(s), NEW t, t = Without(s, n)
  PROVE  Shortened(S, s, n, t)
<1>1. ASSUME NEW a \in Seq(S), NEW b \in Seq(S), a \o b = t,
             Len(a) = n - 1, \A m \in 1 .. n - 1 : a[m] = s[m],
             Len(b) = Len(s) - n, \A m \in 1 .. Len(s) - n : b[m] = s[m + n]
      PROVE  /\ t \in Seq(S) /\ Len(t) = Len(s) - 1
             /\ \A m \in 1 .. Len(s) - 1 : m < n => t[m] = s[m]
             /\ \A m \in 1 .. Len(s) - 1 : ~(m < n) => t[m] = s[m + 1]
  <2>1. /\ t \in Seq(S) /\ Len(t) = Len(a) + Len(b)
        /\ \A i \in 1 .. Len(a) + Len(b) : t[i] = IF i <= Len(a) THEN a[i] ELSE b[i - Len(a)]
    <3>1. /\ a \o b \in Seq(S) /\ Len(a \o b) = Len(a) + Len(b)
          /\ \A i \in 1 .. Len(a) + Len(b) : (a \o b)[i] = IF i <= Len(a) THEN a[i] ELSE b[i - Len(a)]
      BY ConcatProperties, Zenon
    <3> QED  BY <1>1, <3>1, Zenon
  <2>2. Len(s) \in Nat /\ n \in Nat /\ Len(a) + Len(b) = Len(s) - 1  BY <1>1
  <2>3. ASSUME NEW m \in 1 .. Len(s) - 1, m < n PROVE t[m] = s[m]
    <3>1. m \in 1 .. n - 1 /\ m <= Len(a)  BY <1>1, <2>2, <2>3
    <3> QED  BY <1>1, <2>1, <2>2, <3>1
  <2>4. ASSUME NEW m \in 1 .. Len(s) - 1, ~(m < n) PROVE t[m] = s[m + 1]
    <3> DEFINE i == m - (n - 1)
    <3>1. i \in 1 .. Len(s) - n /\ ~(m <= n - 1) /\ i + n = m + 1  BY <2>2, <2>4
    <3>2. t[m] = b[i]  BY <1>1, <2>1, <2>2, <3>1
    <3>3. b[i] = s[i + n]  BY <1>1, <3>1
    <3> QED  BY <3>1, <3>2, <3>3
  <2> QED  BY <2>1, <2>2, <2>3, <2>4
<1>2. Len(s) \in Nat /\ n \in Nat  OBVIOUS
<1>3. /\ SubSeq(s, 1, n - 1) \in Seq(S) /\ Len(SubSeq(s, 1, n - 1)) = n - 1
      /\ \A m \in 1 .. n - 1 : SubSeq(s, 1, n - 1)[m] = s[m]
  BY <1>2
<1>4. /\ SubSeq(s, n + 1, Len(s)) \in Seq(S) /\ Len(SubSeq(s, n + 1, Len(s))) = Len(s) - n
      /\ \A m \in 1 .. Len(s) - n : SubSeq(s, n + 1, Len(s))[m] = s[m + n]
  BY <1>2
<1>5. t = SubSeq(s, 1, n - 1) \o SubSeq(s, n + 1, Len(s))  BY DEF Without
<1> QED  BY <1>1, <1>3, <1>4, <1>5 DEF Shortened

\* What Abort does to the line.
Leaves(c) ==
  /\ \/ \E n \in DOMAIN line :
          line[n] = c /\ line' = SubSeq(line, 1, n - 1) \o SubSeq(line, n + 1, Len(line))
     \/ (\A n \in DOMAIN line : line[n] # c) /\ UNCHANGED line
  /\ answer' = IF Holder(c) THEN "none" ELSE answer

LEMMA LeaveLine ==
  ASSUME LineOK, NEW c, Leaves(c)
  PROVE  /\ LineOK'
         /\ \A d : In(d)' => In(d) /\ d # c
         /\ \A d : d # c => (Answered(d)' <=> Answered(d))
         /\ ~Answered(c)'
         /\ answer' \in {"none", answer}
<1>1. CASE (\A n \in DOMAIN line : line[n] # c) /\ UNCHANGED line
  <2>1. ~Holder(c)  BY <1>1 DEF Holder, LineOK
  <2>2. answer' = answer /\ line' = line  BY <1>1, <2>1 DEF Leaves
  <2> QED  BY <1>1, <2>1, <2>2 DEF LineOK, In, Answered, Holder
<1>2. ASSUME NEW n \in DOMAIN line, line[n] = c,
             line' = SubSeq(line, 1, n - 1) \o SubSeq(line, n + 1, Len(line))
      PROVE  /\ LineOK'
             /\ \A d : In(d)' => In(d) /\ d # c
             /\ \A d : d # c => (Answered(d)' <=> Answered(d))
             /\ ~Answered(c)'
             /\ answer' \in {"none", answer}
  <2>1. /\ line \in Seq(Callers) /\ Len(line) \in Nat
        /\ DOMAIN line = 1 .. Len(line) /\ n \in 1 .. Len(line)
    BY <1>2 DEF LineOK
  <2>2. /\ line' \in Seq(Callers) /\ Len(line') = Len(line) - 1
        /\ \A m \in 1 .. Len(line) - 1 : m < n => line'[m] = line[m]
        /\ \A m \in 1 .. Len(line) - 1 : ~(m < n) => line'[m] = line[m + 1]
    <3>1. line' = Without(line, n)  BY <1>2 DEF Without
    <3>2. Shortened(Callers, line, n, line')  BY <2>1, <3>1, WithoutOne, Zenon
    <3> QED  BY <3>2 DEF Shortened
  <2>3. DOMAIN line' = 1 .. Len(line) - 1  BY <2>2
  <2> DEFINE From(m) == IF m < n THEN m ELSE m + 1
  <2>4. \A m \in DOMAIN line' : From(m) \in DOMAIN line /\ From(m) # n /\ line'[m] = line[From(m)]
    BY <2>1, <2>2, <2>3
  <2>5. \A m, q \in DOMAIN line' : From(m) = From(q) => m = q  BY <2>1, <2>3
  <2> HIDE DEF From
  <2>6. \A m, q \in DOMAIN line' : line'[m] = line'[q] => m = q
    BY <2>4, <2>5 DEF LineOK
  <2>7. ASSUME NEW d, In(d)' PROVE In(d) /\ d # c
    <3>1. PICK m \in DOMAIN line' : line'[m] = d  BY <2>7 DEF In
    <3> QED  BY <1>2, <2>4, <3>1 DEF LineOK, In
  <2>8. CASE n = 1
    <3>1. line # <<>> /\ Head(line) = c  BY <1>2, <2>1, <2>8
    <3>2. answer' = "none"  BY <3>1 DEF Holder, Leaves
    <3> QED  BY <2>2, <2>6, <2>7, <3>1, <3>2 DEF LineOK, Answered
  <2>9. CASE n # 1
    <3>1. line # <<>> /\ Head(line) # c  BY <1>2, <2>1, <2>9 DEF LineOK
    <3>2. answer' = answer /\ ~Holder(c)  BY <3>1 DEF Leaves, Holder
    <3>3. 1 \in 1 .. Len(line) - 1 /\ 1 < n
      <4> DEFINE l == Len(line)
      <4>1. l \in Nat /\ n \in 1 .. l  BY <2>1
      <4> HIDE DEF l
      <4>2. 1 < n /\ 1 \in 1 .. l - 1  BY <2>9, <4>1
      <4> QED  BY <4>2 DEF l
    <3>4. line'[1] = line[1]  BY <2>2, <3>3
    <3>5. line' # <<>> /\ Head(line') = Head(line)  BY <2>1, <2>2, <3>1, <3>3, <3>4
    <3> QED  BY <2>2, <2>6, <2>7, <3>1, <3>2, <3>5 DEF LineOK, Answered, Holder
  <2> QED  BY <2>8, <2>9
<1> QED  BY <1>1, <1>2 DEF Leaves

-----------------------------------------------------------------------------
(* Steps *)


\* What a step of the job j leaves of another job i and of its callers.
Untouched(i) ==
  /\ fate'[i] = fate[i] /\ known'[i] = known[i] /\ late'[i] = late[i]
  /\ task'[i] = task[i] /\ stop'[i] = stop[i] /\ silence'[i] = silence[i]

OthersKept(j) ==
  /\ Shapes' /\ \A i \in Jobs \ {j} : Untouched(i)
  /\ LineOK' /\ answer' \in Answer
  /\ \A d \in Callers : d[1] # j => /\ In(d)' => In(d)
                                    /\ Answered(d)' <=> Answered(d)
                                    /\ Answered(d) => answer' = answer

InCall(j) == \A k \in {"task", "stop"} : In(<<j, k>>) => Pc(<<j, k>>) \in {"start", "poll", "cancel"}

LEMMA SameAnswer ==
  ASSUME NEW c, AnswerFits(c), answer' = answer, Pc(c)' = Pc(c),
         fate'[c[1]] = fate[c[1]], known'[c[1]] = known[c[1]]
  PROVE  AnswerFits(c)'
BY DEF AnswerFits

LEMMA Frame ==
  ASSUME IInv, NEW j \in Jobs, OthersKept(j), NEW i \in Jobs \ {j}
  PROVE  JobInv(i)' /\ InCall(i)'
<1>1. JobInv(i) /\ Untouched(i) /\ LineInv  BY DEF IInv, OthersKept
<1>2. JobTyped(i)'  BY <1>1 DEF JobInv, JobTyped, Untouched
<1>3. Accounted(i)'  BY <1>1 DEF JobInv, JobFits, Accounted, Untouched
<1>4. \A k \in {"task", "stop"} :
        /\ In(<<i, k>>)' => In(<<i, k>>)
        /\ Answered(<<i, k>>)' <=> Answered(<<i, k>>)
        /\ Answered(<<i, k>>) => answer' = answer
        /\ Pc(<<i, k>>)' = Pc(<<i, k>>)
  BY <1>1, CallerPairs DEF OthersKept, Pc, Untouched
<1>5. JobFits(i)'  BY <1>1, <1>3, <1>4 DEF JobInv, JobFits, Untouched
<1>6. ASSUME NEW k \in {"task", "stop"}, Answered(<<i, k>>)' PROVE AnswerFits(<<i, k>>)'
  <2>1. AnswerFits(<<i, k>>) /\ answer' = answer  BY <1>1, <1>4, <1>6 DEF JobInv
  <2> QED  BY <1>1, <1>4, <2>1, SameAnswer DEF Untouched
<1>7. InCall(i)'  BY <1>1, <1>4, CallerPairs DEF InCall, LineInv
<1> QED  BY <1>2, <1>5, <1>6, <1>7 DEF JobInv

LEMMA Assemble ==
  ASSUME IInv, NEW j \in Jobs, OthersKept(j), InCall(j)', JobInv(j)'
  PROVE  IInv'
<1>1. \A i \in Jobs : JobInv(i)' /\ InCall(i)'  BY Frame
<1>2. ASSUME NEW d \in Callers, In(d)' PROVE Pc(d)' \in {"start", "poll", "cancel"}
  <2>1. PICK i \in Jobs, k \in {"task", "stop"} : d = <<i, k>>  BY CallerPairs
  <2>2. In(<<i, k>>)' => Pc(<<i, k>>)' \in {"start", "poll", "cancel"}  BY <1>1 DEF InCall
  <2> QED  BY <1>2, <2>1, <2>2
<1>3. LineInv'  BY <1>2 DEF OthersKept, LineOK, LineInv
<1> QED  BY <1>1, <1>3 DEF IInv, OthersKept

\* What holds before a step of the job j.
LEMMA Before ==
  ASSUME IInv, NEW j \in Jobs
  PROVE  /\ Shapes /\ LineOK /\ answer \in Answer
         /\ JobTyped(j) /\ JobFits(j) /\ Accounted(j) /\ InCall(j)
         /\ \A k \in {"task", "stop"} : /\ <<j, k>> \in Callers
                                        /\ Answered(<<j, k>>) => AnswerFits(<<j, k>>) /\ In(<<j, k>>)
<1>1. LineInv /\ JobInv(j) /\ Shapes /\ answer \in Answer  BY DEF IInv
<1>2. LineOK  BY <1>1 DEF LineInv, LineOK
<1>3. InCall(j)  BY <1>1, CallerPairs DEF LineInv, InCall
<1>4. \A d : Answered(d) => In(d)  BY <1>2 DEF Answered, In, LineOK
<1> QED  BY <1>1, <1>2, <1>3, <1>4, CallerPairs DEF JobInv, JobFits


\* A step of the job j changes the state of no other job.
OnlyOf(j) == Shapes' /\ \A i \in Jobs \ {j} : Untouched(i)

\* The kinds of steps: a caller of j joins the line, leaves it with its answer,
\* or the line stays as it is.
LEMMA Joined ==
  ASSUME IInv, NEW j \in Jobs, NEW k \in {"task", "stop"}, OnlyOf(j),
         ~In(<<j, k>>), Join(<<j, k>>),
         fate'[j] = fate[j], known'[j] = known[j],
         Pc(<<j, k>>)' \in {"start", "poll", "cancel"},
         \A q \in {"task", "stop"} \ {k} : Pc(<<j, q>>)' = Pc(<<j, q>>),
         JobTyped(j)', JobFits(j)'
  PROVE  IInv'
<1> DEFINE c == <<j, k>>
<1>1. /\ LineOK /\ answer \in Answer /\ InCall(j) /\ c \in Callers
      /\ \A q \in {"task", "stop"} : Answered(<<j, q>>) => AnswerFits(<<j, q>>) /\ In(<<j, q>>)
  BY Before
<1>2. /\ LineOK' /\ answer' = answer
      /\ \A d : In(d)' => In(d) \/ d = c
      /\ \A d : Answered(d)' <=> Answered(d)
  BY <1>1, JoinLine
<1>3. \A d : d[1] # j => d # c  OBVIOUS
<1>4. OthersKept(j)  BY <1>1, <1>2, <1>3 DEF OthersKept, OnlyOf
<1>5. ASSUME NEW q \in {"task", "stop"}, In(<<j, q>>)'
      PROVE  Pc(<<j, q>>)' \in {"start", "poll", "cancel"}
  <2>1. CASE q = k  BY <2>1
  <2>2. CASE q # k
    <3>1. In(<<j, q>>) /\ Pc(<<j, q>>)' = Pc(<<j, q>>)  BY <1>2, <1>5, <2>2
    <3> QED  BY <1>1, <3>1 DEF InCall
  <2> QED  BY <2>1, <2>2
<1>6. ASSUME NEW q \in {"task", "stop"}, Answered(<<j, q>>)' PROVE AnswerFits(<<j, q>>)'
  <2>1. Answered(<<j, q>>) /\ q # k  BY <1>1, <1>2, <1>6
  <2>2. AnswerFits(<<j, q>>) /\ Pc(<<j, q>>)' = Pc(<<j, q>>)  BY <1>1, <2>1
  <2> QED  BY <1>2, <2>2, SameAnswer
<1>7. InCall(j)' /\ JobInv(j)'  BY <1>5, <1>6 DEF InCall, JobInv
<1> QED  BY <1>4, <1>7, Assemble

LEMMA Released ==
  ASSUME IInv, NEW j \in Jobs, NEW k \in {"task", "stop"}, OnlyOf(j),
         Holder(<<j, k>>), Release,
         \A q \in {"task", "stop"} \ {k} : Pc(<<j, q>>)' = Pc(<<j, q>>),
         JobTyped(j)', JobFits(j)'
  PROVE  IInv'
<1> DEFINE c == <<j, k>>
<1>1. LineOK /\ InCall(j)  BY Before
<1>2. /\ LineOK' /\ answer' = "none"
      /\ \A d : In(d)' => In(d) /\ d # c
      /\ \A d : ~Answered(d)'
      /\ \A d : d # c => ~Answered(d)
  BY <1>1, ReleaseLine
<1>3. \A d : d[1] # j => d # c  OBVIOUS
<1>4. OthersKept(j)  BY <1>2, <1>3 DEF OthersKept, OnlyOf, Answer
<1>5. ASSUME NEW q \in {"task", "stop"}, In(<<j, q>>)'
      PROVE  Pc(<<j, q>>)' \in {"start", "poll", "cancel"}
  <2>1. In(<<j, q>>) /\ q # k  BY <1>2, <1>5
  <2>2. Pc(<<j, q>>)' = Pc(<<j, q>>)  BY <2>1
  <2> QED  BY <1>1, <2>1, <2>2 DEF InCall
<1>6. InCall(j)' /\ JobInv(j)'  BY <1>2, <1>5 DEF InCall, JobInv
<1> QED  BY <1>4, <1>6, Assemble

LEMMA Stayed ==
  ASSUME IInv, NEW j \in Jobs, OnlyOf(j), UNCHANGED mutex,
         \A k \in {"task", "stop"} : In(<<j, k>>) => Pc(<<j, k>>)' = Pc(<<j, k>>),
         \A k \in {"task", "stop"} : Answered(<<j, k>>) => AnswerFits(<<j, k>>)',
         JobTyped(j)', JobFits(j)'
  PROVE  IInv'
<1>1. LineOK /\ answer \in Answer /\ InCall(j)  BY Before
<1>2. LineOK' /\ answer' = answer /\ line' = line  BY <1>1 DEF mutex, LineOK
<1>3. \A d : (In(d)' <=> In(d)) /\ (Answered(d)' <=> Answered(d))  BY <1>2 DEF In, Answered
<1>4. OthersKept(j)  BY <1>1, <1>2, <1>3 DEF OthersKept, OnlyOf
<1>5. InCall(j)'
  <2>1. ASSUME NEW q \in {"task", "stop"}, In(<<j, q>>)'
        PROVE  Pc(<<j, q>>)' \in {"start", "poll", "cancel"}
    <3>1. In(<<j, q>>)  BY <1>3, <2>1
    <3> QED  BY <1>1, <3>1 DEF InCall
  <2> QED  BY <2>1 DEF InCall
<1>6. JobInv(j)'  BY <1>3 DEF JobInv
<1> QED  BY <1>4, <1>5, <1>6, Assemble

LEMMA HolderAnswered ==
  ASSUME NEW c, LineOK, Holder(c)
  PROVE  (answer # "none" => Answered(c)) /\ (Answered(c) => answer # "none")
BY DEF Holder, Answered

LEMMA MovedTask ==
  ASSUME NEW t \in Tasks, NEW p \in TaskPc, NEW u, u = [t EXCEPT !.pc = p]
  PROVE  u \in Tasks /\ u.pc = p /\ u.fails = t.fails /\ u.tries = t.tries
         /\ u.verdict = t.verdict /\ u.stored = t.stored
BY DEF Tasks

Ended(t, v) == [t EXCEPT !.pc = "over", !.verdict = v, !.fails = 0]

LEMMA EndedTask ==
  ASSUME NEW t \in Tasks, NEW v \in Verdict
  PROVE  /\ Ended(t, v) \in Tasks /\ Ended(t, v).pc = "over"
         /\ Ended(t, v).tries = t.tries /\ Ended(t, v).verdict = v
         /\ Ended(t, v).stored = t.stored
<1> SUFFICES ASSUME NEW u, u = Ended(t, v)
    PROVE  u \in Tasks /\ u.pc = "over" /\ u.tries = t.tries /\ u.verdict = v /\ u.stored = t.stored
  OBVIOUS
<1>1. 0 \in 0 .. Budget /\ "over" \in TaskPc  BY DEF TaskPc
<1>2. u = [pc |-> "over", fails |-> 0, tries |-> t.tries, verdict |-> v, stored |-> t.stored]
  BY DEF Ended, Tasks
<1>3. t.tries \in 0 .. CancelTries /\ t.stored \in BOOLEAN  BY DEF Tasks
<1> QED  BY <1>1, <1>2, <1>3 DEF Tasks

TaskOf(p, f, r, v, b) == [pc |-> p, fails |-> f, tries |-> r, verdict |-> v, stored |-> b]

LEMMA TaskParts ==
  ASSUME NEW p \in TaskPc, NEW f \in 0 .. Budget, NEW r \in 0 .. CancelTries, NEW v \in Verdict,
         NEW b \in BOOLEAN
  PROVE  /\ TaskOf(p, f, r, v, b) \in Tasks
         /\ TaskOf(p, f, r, v, b).pc = p /\ TaskOf(p, f, r, v, b).fails = f
         /\ TaskOf(p, f, r, v, b).tries = r /\ TaskOf(p, f, r, v, b).verdict = v
         /\ TaskOf(p, f, r, v, b).stored = b
BY DEF TaskOf, Tasks

LEMMA TaskIs ==
  ASSUME NEW t \in Tasks
  PROVE  /\ t = TaskOf(t.pc, t.fails, t.tries, t.verdict, t.stored)
         /\ t.pc \in TaskPc /\ t.fails \in 0 .. Budget /\ t.tries \in 0 .. CancelTries
         /\ t.verdict \in Verdict /\ t.stored \in BOOLEAN
BY DEF TaskOf, Tasks

LEMMA ActivateStep == ASSUME IInv, NEW j \in Jobs, Activate(j) PROVE IInv' /\ OnlyOf(j)
<1> DEFINE c == <<j, "task">>
<1>1. Shapes /\ LineOK /\ JobTyped(j) /\ JobFits(j) /\ InCall(j) /\ c \in Callers  BY Before
<1>2. task[j].pc = "idle" /\ task' = [task EXCEPT ![j].pc = "start"]  BY DEF Activate, Go
<1>3. UNCHANGED <<fate, known, late, stop, silence>>  BY DEF Activate, devkitd
<1>4. OnlyOf(j)
  <2>1. Shapes'  BY <1>1, <1>2, <1>3 DEF Shapes
  <2> QED  BY <1>1, <1>2, <1>3, <2>1 DEF Shapes, OnlyOf, Untouched
<1>5. /\ task'[j] \in Tasks /\ task'[j].pc = "start" /\ task'[j].fails = task[j].fails
      /\ task'[j].tries = task[j].tries /\ task'[j].verdict = task[j].verdict
      /\ task'[j].stored = task[j].stored
  <2>1. task[j] \in Tasks /\ "start" \in TaskPc  BY <1>1 DEF JobTyped, TaskPc
  <2>2. task'[j] = [task[j] EXCEPT !.pc = "start"]  BY <1>1, <1>2 DEF Shapes
  <2> QED  BY <2>1, <2>2, MovedTask
<1>6. Join(c) /\ ~In(c)  BY <1>1, <1>2 DEF Activate, InCall, Pc
<1>7. JobTyped(j)'  BY <1>1, <1>3, <1>5 DEF JobTyped
<1>8. JobFits(j)'  BY <1>1, <1>2, <1>3, <1>5 DEF JobFits, Accounted
<1>9. Pc(c)' = "start" /\ Pc(<<j, "stop">>)' = Pc(<<j, "stop">>)
  BY <1>1, <1>3, <1>5 DEF Pc
<1> QED  BY <1>3, <1>4, <1>6, <1>7, <1>8, <1>9, Joined

LEMMA StartedStep == ASSUME IInv, NEW j \in Jobs, Started(j) PROVE IInv' /\ OnlyOf(j)
<1> DEFINE c == <<j, "task">>
<1>1. Shapes /\ JobTyped(j)  BY Before
<1>2. JobFits(j)  BY Before
<1>3. /\ Holder(c) /\ Release /\ task[j].pc = "start"
      /\ \/ answer = "accepted" /\ task' = [task EXCEPT ![j].pc = "persist"]
         \/ /\ answer \in {"error", "garbled"}
            /\ task' = [task EXCEPT ![j].pc = "over", ![j].verdict = "toolError", ![j].fails = 0]
  BY DEF Started, Go, Over
<1>4. UNCHANGED <<fate, known, late, stop, silence>>  BY DEF Started, devkitd
<1>5. OnlyOf(j)
  <2>1. Shapes'  BY <1>1, <1>3, <1>4 DEF Shapes
  <2> QED  BY <1>1, <1>3, <1>4, <2>1 DEF Shapes, OnlyOf, Untouched
<1>6. task[j] \in Tasks /\ ~task[j].stored /\ stop[j].pc = "idle"
  BY <1>1, <1>2, <1>3 DEF JobTyped, JobFits
<1>7. JobTyped(j)' /\ JobFits(j)'
  <2>1. CASE answer = "accepted" /\ task' = [task EXCEPT ![j].pc = "persist"]
    <3>1. task'[j] = [task[j] EXCEPT !.pc = "persist"] /\ "persist" \in TaskPc
      BY <1>1, <2>1 DEF Shapes, TaskPc
    <3>2. /\ task'[j] \in Tasks /\ task'[j].pc = "persist" /\ task'[j].fails = task[j].fails
          /\ task'[j].tries = task[j].tries /\ task'[j].verdict = task[j].verdict
          /\ task'[j].stored = task[j].stored
      BY <1>6, <3>1, MovedTask
    <3>3. JobTyped(j)'  BY <1>1, <1>4, <3>2 DEF JobTyped
    <3>4. JobFits(j)'  BY <1>2, <1>3, <1>4, <1>6, <3>2 DEF JobFits, Accounted
    <3> QED  BY <3>3, <3>4
  <2>2. CASE task' = [task EXCEPT ![j].pc = "over", ![j].verdict = "toolError", ![j].fails = 0]
    <3>1. task'[j] = Ended(task[j], "toolError")  BY <1>1, <2>2 DEF Shapes, Ended
    <3>2. task'[j] \in Tasks /\ task'[j].pc = "over" /\ task'[j].stored = task[j].stored
      <4>1. "toolError" \in Verdict  BY DEF Verdict
      <4> QED  BY <1>6, <3>1, <4>1, EndedTask
    <3>3. JobTyped(j)'  BY <1>1, <1>4, <3>2 DEF JobTyped
    <3>4. JobFits(j)'  BY <1>2, <1>4, <1>6, <3>2 DEF JobFits, Accounted
    <3> QED  BY <3>3, <3>4
  <2> QED  BY <1>3, <2>1, <2>2
<1>8. Pc(<<j, "stop">>)' = Pc(<<j, "stop">>)  BY <1>4 DEF Pc
<1> QED  BY <1>3, <1>5, <1>7, <1>8, Released

LEMMA StartFailsStep == ASSUME IInv, NEW j \in Jobs, StartFails(j) PROVE IInv' /\ OnlyOf(j)
<1> DEFINE c == <<j, "task">>
<1>1. Shapes /\ JobTyped(j)  BY Before
<1>2. JobFits(j)  BY Before
<1>3. /\ Holder(c) /\ Release /\ task[j].pc = "start"
      /\ task' = [task EXCEPT ![j].pc = "over", ![j].verdict = "unreachable", ![j].fails = 0]
  BY DEF StartFails, Over
<1>4. UNCHANGED <<fate, known, late, stop, silence>>  BY DEF StartFails, devkitd
<1>5. OnlyOf(j)
  <2>1. Shapes'  BY <1>1, <1>3, <1>4 DEF Shapes
  <2> QED  BY <1>1, <1>3, <1>4, <2>1 DEF Shapes, OnlyOf, Untouched
<1>6. task[j] \in Tasks /\ ~task[j].stored /\ stop[j].pc = "idle"
  BY <1>1, <1>2, <1>3 DEF JobTyped, JobFits
<1>7. task'[j] = Ended(task[j], "unreachable")  BY <1>1, <1>3 DEF Shapes, Ended
<1>8. task'[j] \in Tasks /\ task'[j].pc = "over" /\ task'[j].stored = task[j].stored
  <2>1. "unreachable" \in Verdict  BY DEF Verdict
  <2> QED  BY <1>6, <1>7, <2>1, EndedTask
<1>9. JobTyped(j)'  BY <1>1, <1>4, <1>8 DEF JobTyped
<1>10. JobFits(j)'  BY <1>2, <1>4, <1>6, <1>8 DEF JobFits, Accounted
<1>11. Pc(<<j, "stop">>)' = Pc(<<j, "stop">>)  BY <1>4 DEF Pc
<1> QED  BY <1>3, <1>5, <1>9, <1>10, <1>11, Released

LEMMA PersistStep == ASSUME IInv, NEW j \in Jobs, PersistJobId(j) PROVE IInv' /\ OnlyOf(j)
<1>1. Shapes /\ JobTyped(j)  BY Before
<1>2. JobFits(j)  BY Before
<1>3. InCall(j) /\ \A k \in {"task", "stop"} : Answered(<<j, k>>) => In(<<j, k>>)  BY Before
<1>4. /\ task[j].pc = "persist" /\ UNCHANGED mutex
      /\ \/ task' = [task EXCEPT ![j].pc = "check", ![j].stored = TRUE]
         \/ task' = [task EXCEPT ![j].pc = "over"]
  BY DEF PersistJobId, Go
<1>5. UNCHANGED <<fate, known, late, stop, silence>>  BY DEF PersistJobId, devkitd
<1>6. OnlyOf(j)
  <2>1. Shapes'  BY <1>1, <1>4, <1>5 DEF Shapes
  <2> QED  BY <1>1, <1>4, <1>5, <2>1 DEF Shapes, OnlyOf, Untouched
<1>7. task[j] \in Tasks /\ ~task[j].stored /\ stop[j].pc = "idle"
  BY <1>1, <1>2, <1>4 DEF JobTyped, JobFits
<1>8. \A k \in {"task", "stop"} : ~In(<<j, k>>)  BY <1>3, <1>4, <1>7 DEF InCall, Pc
<1>9. JobTyped(j)' /\ JobFits(j)'
  <2> DEFINE t == task[j]
  <2>1. ASSUME NEW b \in BOOLEAN, task' = [task EXCEPT ![j].pc = "check", ![j].stored = b]
        PROVE  JobTyped(j)' /\ JobFits(j)'
    <3>1. task'[j] = TaskOf("check", t.fails, t.tries, t.verdict, b)
      BY <1>1, <1>7, <2>1 DEF Shapes, Tasks, TaskOf
    <3>2. /\ task'[j] \in Tasks /\ task'[j].pc = "check" /\ task'[j].fails = t.fails
          /\ task'[j].tries = t.tries /\ task'[j].verdict = t.verdict
      <4>1. "check" \in TaskPc  BY DEF TaskPc
      <4>2. t.fails \in 0 .. Budget /\ t.tries \in 0 .. CancelTries /\ t.verdict \in Verdict
        BY <1>7, TaskIs
      <4> QED  BY <2>1, <3>1, <4>1, <4>2, TaskParts
    <3>3. JobTyped(j)'  BY <1>1, <1>5, <3>2 DEF JobTyped
    <3>4. JobFits(j)'  BY <1>2, <1>4, <1>5, <1>7, <3>2 DEF JobFits, Accounted
    <3> QED  BY <3>3, <3>4
  <2>2. CASE task' = [task EXCEPT ![j].pc = "over"]
    <3>1. task'[j] = [t EXCEPT !.pc = "over"] /\ "over" \in TaskPc
      BY <1>1, <2>2 DEF Shapes, TaskPc
    <3>2. task'[j] \in Tasks /\ task'[j].pc = "over" /\ task'[j].stored = t.stored
      BY <1>7, <3>1, MovedTask
    <3>3. JobTyped(j)'  BY <1>1, <1>5, <3>2 DEF JobTyped
    <3>4. JobFits(j)'  BY <1>2, <1>5, <1>7, <3>2 DEF JobFits, Accounted
    <3> QED  BY <3>3, <3>4
  <2> QED  BY <1>4, <2>1, <2>2
<1> QED  BY <1>3, <1>4, <1>6, <1>8, <1>9, Stayed

LEMMA CheckStep == ASSUME IInv, NEW j \in Jobs, Check(j) PROVE IInv' /\ OnlyOf(j)
<1> DEFINE c == <<j, "task">>
           p == IF late[j] THEN "cancel" ELSE "poll"
<1>1. Shapes /\ JobTyped(j)  BY Before
<1>2. JobFits(j)  BY Before
<1>3. InCall(j)  BY Before
<1>4. task[j].pc = "check" /\ Join(c) /\ task' = [task EXCEPT ![j].pc = p]  BY DEF Check, Go
<1>5. UNCHANGED <<fate, known, late, stop, silence>>  BY DEF Check, devkitd
<1>6. OnlyOf(j)
  <2> HIDE DEF p
  <2>1. Shapes'  BY <1>1, <1>4, <1>5 DEF Shapes
  <2> QED  BY <1>1, <1>4, <1>5, <2>1 DEF Shapes, OnlyOf, Untouched
<1>7. p \in {"cancel", "poll"} /\ (p = "cancel" => late[j]) /\ p \in TaskPc  BY DEF TaskPc
<1> HIDE DEF p
<1>8. /\ task'[j] \in Tasks /\ task'[j].pc = p /\ task'[j].fails = task[j].fails
      /\ task'[j].tries = task[j].tries /\ task'[j].verdict = task[j].verdict
      /\ task'[j].stored = task[j].stored
  <2>1. task[j] \in Tasks /\ task'[j] = [task[j] EXCEPT !.pc = p]  BY <1>1, <1>4 DEF Shapes, JobTyped
  <2> QED  BY <1>7, <2>1, MovedTask
<1>9. ~In(c)  BY <1>3, <1>4 DEF InCall, Pc
<1>10. JobTyped(j)'  BY <1>1, <1>5, <1>8 DEF JobTyped
<1>11. JobFits(j)'  BY <1>2, <1>4, <1>5, <1>7, <1>8 DEF JobFits, Accounted
<1>12. Pc(c)' = p /\ Pc(<<j, "stop">>)' = Pc(<<j, "stop">>)  BY <1>5, <1>8 DEF Pc
<1> QED  BY <1>4, <1>5, <1>6, <1>7, <1>9, <1>10, <1>11, <1>12, Joined

LEMMA PolledStep == ASSUME IInv, NEW j \in Jobs, Polled(j) PROVE IInv' /\ OnlyOf(j)
<1> DEFINE c == <<j, "task">>
           t == task[j]
           again == answer \in {"running", "oddState"}
           p == IF again THEN "check" ELSE "over"
           v == IF again THEN t.verdict ELSE VerdictOn(answer)
<1>1. Shapes /\ JobTyped(j)  BY Before
<1>2. JobFits(j)  BY Before
<1>3. LineOK /\ (Answered(c) => AnswerFits(c))  BY Before
<1>4. /\ Holder(c) /\ Release /\ t.pc = "poll" /\ answer # "none"
      /\ task' = [task EXCEPT ![j].fails = 0, ![j].pc = p,
                              ![j].verdict = IF again THEN @ ELSE VerdictOn(answer)]
      /\ silence' = [silence EXCEPT ![j] = 0]
  BY DEF Polled
<1>5. UNCHANGED <<fate, known, late, stop>>  BY DEF Polled, devkitd
<1>6. AnswerFits(c) /\ Pc(c) = "poll"  BY <1>3, <1>4, HolderAnswered DEF Pc
<1>7. ~again => /\ fate[j] # "running" \/ j \in Garbled
                /\ VerdictOn(answer) \in Verdict
  <2>1. ~again => \/ answer = "error" /\ ~known[j]
                  \/ answer = "garbled" /\ j \in Garbled
                  \/ answer \in {"ok", "failed", "timedOut", "killed"} /\ fate[j] = answer
    BY <1>6 DEF AnswerFits, Outcomes
  <2> QED  BY <1>2, <2>1 DEF JobFits, VerdictOn, Verdict
<1>8. t \in Tasks /\ silence'[j] = 0 /\ 0 \in 0 .. Budget /\ 0 \in 0 .. Budget + 1
  BY <1>1, <1>4 DEF JobTyped, Shapes
<1>9. task'[j] = TaskOf(p, 0, t.tries, v, t.stored)
  <2> HIDE DEF p, again
  <2>1. task'[j] = [t EXCEPT !.fails = 0, !.pc = p, !.verdict = v]  BY <1>1, <1>4 DEF Shapes
  <2> HIDE DEF v
  <2> QED  BY <1>8, <2>1 DEF Tasks, TaskOf
<1>10. p \in TaskPc /\ v \in Verdict /\ t.tries \in 0 .. CancelTries /\ t.stored \in BOOLEAN
  BY <1>7, <1>8, TaskIs DEF TaskPc
<1>11. /\ p = IF again THEN "check" ELSE "over"
       /\ v = IF again THEN t.verdict ELSE VerdictOn(answer)
  OBVIOUS
<1> HIDE DEF again, p, v
<1>12. OnlyOf(j)
  <2>1. Shapes'  BY <1>1, <1>4, <1>5 DEF Shapes
  <2> QED  BY <1>1, <1>4, <1>5, <2>1 DEF Shapes, OnlyOf, Untouched
<1>13. /\ task'[j] \in Tasks /\ task'[j].pc = p /\ task'[j].fails = 0
       /\ task'[j].tries = t.tries /\ task'[j].verdict = v
       /\ task'[j].stored = t.stored
  BY <1>8, <1>9, <1>10, TaskParts
<1>14. JobTyped(j)'  BY <1>1, <1>5, <1>8, <1>13 DEF JobTyped
<1>15. JobFits(j)'  BY <1>2, <1>4, <1>5, <1>7, <1>8, <1>11, <1>13 DEF JobFits, Accounted
<1>16. Pc(<<j, "stop">>)' = Pc(<<j, "stop">>)  BY <1>5 DEF Pc
<1> QED  BY <1>4, <1>12, <1>14, <1>15, <1>16, Released

LEMMA PollFailsStep == ASSUME IInv, NEW j \in Jobs, PollFails(j) PROVE IInv' /\ OnlyOf(j)
<1> DEFINE c == <<j, "task">>
           t == task[j]
<1>1. Shapes /\ JobTyped(j)  BY Before
<1>2. JobFits(j)  BY Before
<1>3. /\ Holder(c) /\ Release /\ t.pc = "poll"
      /\ silence' = [silence EXCEPT ![j] = IF @ <= Budget THEN @ + 1 ELSE @]
  BY DEF PollFails, Missed
<1>4. UNCHANGED <<fate, known, late, stop>>  BY DEF PollFails, devkitd
<1>5. /\ t \in Tasks /\ t.fails \in 0 .. Budget /\ t.tries \in 0 .. CancelTries
      /\ t.verdict \in Verdict /\ t.stored \in BOOLEAN
  BY <1>1, TaskIs DEF JobTyped
<1>6. silence'[j] = t.fails + 1 /\ silence'[j] \in 0 .. Budget + 1
  <2>1. silence[j] = t.fails  BY <1>2, <1>3 DEF JobFits
  <2> QED  BY <1>1, <1>3, <1>5, <2>1 DEF Shapes
<1>7. \/ /\ t.fails = Budget
         /\ task' = [task EXCEPT ![j].pc = "over", ![j].verdict = "unreachable", ![j].fails = 0]
      \/ /\ t.fails + 1 \in 0 .. Budget
         /\ task' = [task EXCEPT ![j].pc = "check", ![j].fails = t.fails + 1]
  BY <1>1, <1>5 DEF PollFails, Over, Shapes
<1>8. OnlyOf(j)
  <2>1. Shapes'  BY <1>1, <1>3, <1>4, <1>7 DEF Shapes
  <2> QED  BY <1>1, <1>3, <1>4, <1>7, <2>1 DEF Shapes, OnlyOf, Untouched
<1>9. JobTyped(j)' /\ JobFits(j)'
  <2>1. CASE /\ t.fails = Budget
             /\ task' = [task EXCEPT ![j].pc = "over", ![j].verdict = "unreachable", ![j].fails = 0]
    <3>1. task'[j] = Ended(t, "unreachable")  BY <1>1, <2>1 DEF Shapes, Ended
    <3>2. /\ task'[j] \in Tasks /\ task'[j].pc = "over" /\ task'[j].verdict = "unreachable"
          /\ task'[j].tries = t.tries /\ task'[j].stored = t.stored
      <4>1. "unreachable" \in Verdict  BY DEF Verdict
      <4> QED  BY <1>5, <3>1, <4>1, EndedTask
    <3>3. JobTyped(j)'  BY <1>1, <1>4, <1>6, <3>2 DEF JobTyped
    <3>4. silence'[j] = Budget + 1  BY <1>6, <2>1
    <3>5. JobFits(j)'  BY <1>2, <1>3, <1>4, <3>2, <3>4 DEF JobFits, Accounted
    <3> QED  BY <3>3, <3>5
  <2>2. ASSUME NEW f \in 0 .. Budget, f = t.fails + 1,
               task' = [task EXCEPT ![j].pc = "check", ![j].fails = f]
        PROVE  JobTyped(j)' /\ JobFits(j)'
    <3>1. task'[j] = TaskOf("check", f, t.tries, t.verdict, t.stored)
      BY <1>1, <1>5, <2>2 DEF Shapes, Tasks, TaskOf
    <3>2. /\ task'[j] \in Tasks /\ task'[j].pc = "check" /\ task'[j].fails = f
          /\ task'[j].tries = t.tries /\ task'[j].verdict = t.verdict
          /\ task'[j].stored = t.stored
      <4>1. "check" \in TaskPc  BY DEF TaskPc
      <4> QED  BY <1>5, <3>1, <4>1, TaskParts
    <3>3. JobTyped(j)'  BY <1>1, <1>4, <1>6, <3>2 DEF JobTyped
    <3>4. silence'[j] = f  BY <1>6, <2>2
    <3>5. JobFits(j)'  BY <1>2, <1>3, <1>4, <3>2, <3>4 DEF JobFits, Accounted
    <3> QED  BY <3>3, <3>5
  <2> QED  BY <1>7, <2>1, <2>2
<1>10. Pc(<<j, "stop">>)' = Pc(<<j, "stop">>)  BY <1>4 DEF Pc
<1> QED  BY <1>3, <1>8, <1>9, <1>10, Released

LEMMA ExpireStep == ASSUME IInv, NEW j \in Jobs, Expire(j) PROVE IInv' /\ OnlyOf(j)
<1>1. Shapes /\ JobTyped(j)  BY Before
<1>2. JobFits(j)  BY Before
<1>3. UNCHANGED mutex /\ late' = [late EXCEPT ![j] = TRUE]  BY DEF Expire
<1>4. UNCHANGED <<fate, known, task, stop, silence>>  BY DEF Expire, devkitd
<1>5. OnlyOf(j)
  <2>1. Shapes'  BY <1>1, <1>3, <1>4 DEF Shapes
  <2> QED  BY <1>1, <1>3, <1>4, <2>1 DEF Shapes, OnlyOf, Untouched
<1>6. late'[j] = TRUE  BY <1>1, <1>3 DEF Shapes
<1>7. JobTyped(j)'  BY <1>1, <1>4, <1>6 DEF JobTyped
<1>8. \A k \in {"task", "stop"} : Answered(<<j, k>>)' <=> Answered(<<j, k>>)
  BY <1>3 DEF mutex, Answered
<1>9. JobFits(j)'  BY <1>2, <1>4, <1>6, <1>8 DEF JobFits, Accounted
<1>10. \A k \in {"task", "stop"} : Pc(<<j, k>>)' = Pc(<<j, k>>)  BY <1>4 DEF Pc
<1>11. \A k \in {"task", "stop"} : Answered(<<j, k>>) => AnswerFits(<<j, k>>)'
  <2>1. answer' = answer  BY <1>3 DEF mutex
  <2>2. \A k \in {"task", "stop"} : Answered(<<j, k>>) => AnswerFits(<<j, k>>)  BY Before
  <2> QED  BY <1>4, <1>10, <2>1, <2>2, SameAnswer
<1> QED  BY <1>3, <1>5, <1>7, <1>9, <1>10, <1>11, Stayed

LEMMA CancelStepStep == ASSUME IInv, NEW j \in Jobs, CancelStep(j) PROVE IInv' /\ OnlyOf(j)
<1> DEFINE c == <<j, "stop">>
<1>1. Shapes /\ JobTyped(j)  BY Before
<1>2. JobFits(j)  BY Before
<1>3. InCall(j)  BY Before
<1>4. /\ stop[j].pc = "idle" /\ task[j].stored /\ Join(c)
      /\ stop' = [stop EXCEPT ![j].pc = "cancel"]
  BY DEF CancelStep, StopAt
<1>5. UNCHANGED <<fate, known, late, task, silence>>  BY DEF CancelStep, devkitd
<1>6. OnlyOf(j)
  <2>1. Shapes'  BY <1>1, <1>4, <1>5 DEF Shapes
  <2> QED  BY <1>1, <1>4, <1>5, <2>1 DEF Shapes, OnlyOf, Untouched
<1>7. stop'[j] \in Stops /\ stop'[j].pc = "cancel" /\ stop'[j].tries = stop[j].tries
  <2>1. stop'[j] = [stop[j] EXCEPT !.pc = "cancel"]  BY <1>1, <1>4 DEF Shapes
  <2> QED  BY <1>1, <2>1 DEF JobTyped, Stops, StopPc
<1>8. ~In(c)  BY <1>3, <1>4 DEF InCall, Pc
<1>9. JobTyped(j)'  BY <1>1, <1>5, <1>7 DEF JobTyped
<1>10. LineOK  BY Before
<1>11. \A d : Answered(d)' <=> Answered(d)  BY <1>4, <1>8, <1>10, JoinLine, Before
<1>12. JobFits(j)'  BY <1>2, <1>4, <1>5, <1>7, <1>11 DEF JobFits, Accounted
<1>13. Pc(c)' = "cancel" /\ Pc(<<j, "task">>)' = Pc(<<j, "task">>)  BY <1>5, <1>7 DEF Pc
<1> QED  BY <1>4, <1>5, <1>6, <1>8, <1>9, <1>12, <1>13, Joined

\* The cancel of a caller is over, whichever of the two it is.
LEMMA CancelledStep == ASSUME IInv, NEW c \in Callers, Cancelled(c) PROVE IInv' /\ OnlyOf(c[1])
<1> DEFINE j == c[1]
<1>0. c[1] = j /\ j \in Jobs /\ c[2] \in {"task", "stop"} /\ c = <<j, c[2]>>  BY CallerPairs
<1> HIDE DEF j
<1>1. Shapes /\ JobTyped(j)  BY <1>0, Before
<1>2. JobFits(j)  BY <1>0, Before
<1>3. LineOK /\ (Answered(c) => AnswerFits(c))
  <2>1. Answered(<<j, c[2]>>) => AnswerFits(<<j, c[2]>>)  BY <1>0, Before
  <2> QED  BY <1>0, <2>1, Before
<1>4. Holder(c) /\ Release /\ Pc(c) = "cancel" /\ answer # "none" /\ CancelReturned(c)
  BY DEF Cancelled
<1>5. UNCHANGED <<fate, known, late, silence>>  BY DEF Cancelled, devkitd
<1>6. fate[j] # "running"  BY <1>0, <1>3, <1>4, HolderAnswered DEF AnswerFits
<1>7. CASE c[2] = "task"
  <2>1. /\ task' = [task EXCEPT ![j].pc = "over", ![j].verdict = "timeout", ![j].fails = 0]
        /\ stop' = stop /\ task[j].pc = "cancel"
    BY <1>0, <1>4, <1>7 DEF CancelReturned, Over, Pc
  <2>2. OnlyOf(j)
    <3>1. Shapes'  BY <1>0, <1>1, <1>5, <2>1 DEF Shapes
    <3> QED  BY <1>0, <1>1, <1>5, <2>1, <3>1 DEF Shapes, OnlyOf, Untouched
  <2>3. /\ task'[j] \in Tasks /\ task'[j].pc = "over" /\ task'[j].stored = task[j].stored
    <3>1. task'[j] = Ended(task[j], "timeout")  BY <1>0, <1>1, <2>1 DEF Shapes, Ended
    <3>2. "timeout" \in Verdict /\ task[j] \in Tasks  BY <1>1 DEF Verdict, JobTyped
    <3> QED  BY <3>1, <3>2, EndedTask
  <2>4. JobTyped(j)'  BY <1>0, <1>1, <1>5, <2>1, <2>3 DEF JobTyped
  <2>5. JobFits(j)'  BY <1>2, <1>5, <1>6, <2>1, <2>3 DEF JobFits, Accounted
  <2>6. Pc(<<j, "stop">>)' = Pc(<<j, "stop">>)  BY <2>1 DEF Pc
  <2>7. Holder(<<j, "task">>)  BY <1>0, <1>4, <1>7
  <2> QED  BY <1>0, <1>4, <2>2, <2>4, <2>5, <2>6, <2>7, Released
<1>8. CASE c[2] = "stop"
  <2>1. stop' = [stop EXCEPT ![j].pc = "abort"] /\ task' = task /\ stop[j].pc = "cancel"
    BY <1>0, <1>4, <1>8 DEF CancelReturned, StopAt, Pc
  <2>2. OnlyOf(j)
    <3>1. Shapes'  BY <1>0, <1>1, <1>5, <2>1 DEF Shapes
    <3> QED  BY <1>0, <1>1, <1>5, <2>1, <3>1 DEF Shapes, OnlyOf, Untouched
  <2>3. stop'[j] \in Stops /\ stop'[j].pc = "abort" /\ stop'[j].tries = stop[j].tries
    <3>1. stop'[j] = [stop[j] EXCEPT !.pc = "abort"]  BY <1>0, <1>1, <2>1 DEF Shapes
    <3> QED  BY <1>1, <3>1 DEF JobTyped, Stops, StopPc
  <2>4. JobTyped(j)'  BY <1>0, <1>1, <1>5, <2>1, <2>3 DEF JobTyped
  <2>5. task[j].pc # "start"  BY <1>2, <2>1 DEF JobFits
  <2>6. JobFits(j)'  BY <1>2, <1>5, <1>6, <2>1, <2>3, <2>5 DEF JobFits, Accounted
  <2>7. Pc(<<j, "task">>)' = Pc(<<j, "task">>)  BY <2>1 DEF Pc
  <2>8. Holder(<<j, "stop">>)  BY <1>0, <1>4, <1>8
  <2> QED  BY <1>0, <1>4, <2>2, <2>4, <2>6, <2>7, <2>8, Released
<1> QED  BY <1>0, <1>7, <1>8

LEMMA CancelFailsStep == ASSUME IInv, NEW c \in Callers, CancelFails(c) PROVE IInv' /\ OnlyOf(c[1])
<1> DEFINE j == c[1]
<1>0. c[1] = j /\ j \in Jobs /\ c[2] \in {"task", "stop"} /\ c = <<j, c[2]>>  BY CallerPairs
<1> HIDE DEF j
<1>1. Shapes /\ JobTyped(j)  BY <1>0, Before
<1>2. JobFits(j)  BY <1>0, Before
<1>3. Holder(c) /\ Release  BY DEF CancelFails
<1>4. UNCHANGED <<fate, known, late, silence>>  BY DEF CancelFails, devkitd
<1>5. CASE c[2] = "task"
  <2> DEFINE t == task[j]
             p == IF t.tries + 1 < CancelTries THEN "backoff" ELSE "over"
             v == IF t.tries + 1 < CancelTries THEN t.verdict ELSE "timeout"
  <2>1. t.pc = "cancel" /\ stop' = stop  BY <1>0, <1>5 DEF CancelFails, Pc
  <2>2. /\ t \in Tasks /\ t.fails \in 0 .. Budget /\ t.tries \in 0 .. CancelTries
        /\ t.verdict \in Verdict /\ t.stored \in BOOLEAN
    BY <1>1, TaskIs DEF JobTyped
  <2>3. t.tries + 1 \in 0 .. CancelTries  BY <1>2, <2>1, <2>2 DEF JobFits, CancelTries
  <2>4. PICK r \in 0 .. CancelTries : r = t.tries + 1  BY <2>3
  <2>5. task' = [task EXCEPT ![j].tries = r, ![j].pc = p,
                             ![j].verdict = IF r < CancelTries THEN @ ELSE "timeout"]
    BY <1>0, <1>5, <2>4 DEF CancelFails
  <2>6. p \in TaskPc /\ v \in Verdict  BY <2>2 DEF TaskPc, Verdict
  <2>7. /\ r < CancelTries => p = "backoff" /\ v = t.verdict
        /\ ~(r < CancelTries) => p = "over" /\ r = CancelTries
    BY <2>4 DEF CancelTries
  <2>8. task'[j] = TaskOf(p, t.fails, r, v, t.stored)
    <3>1. task'[j] = [t EXCEPT !.tries = r, !.pc = p, !.verdict = v]
      BY <1>0, <1>1, <2>4, <2>5 DEF Shapes
    <3> HIDE DEF p, v
    <3> QED  BY <2>2, <3>1 DEF Tasks, TaskOf
  <2> HIDE DEF p, v
  <2>9. OnlyOf(j)
    <3>1. Shapes'  BY <1>0, <1>1, <1>4, <2>1, <2>5 DEF Shapes
    <3> QED  BY <1>0, <1>1, <1>4, <2>1, <2>5, <3>1 DEF Shapes, OnlyOf, Untouched
  <2>10. /\ task'[j] \in Tasks /\ task'[j].pc = p /\ task'[j].fails = t.fails
         /\ task'[j].tries = r /\ task'[j].verdict = v
         /\ task'[j].stored = t.stored
    BY <2>2, <2>6, <2>8, TaskParts
  <2>11. JobTyped(j)'  BY <1>0, <1>1, <1>4, <2>1, <2>10 DEF JobTyped
  <2>12. JobFits(j)'  BY <1>0, <1>2, <1>4, <2>1, <2>7, <2>10 DEF JobFits, Accounted
  <2>13. Pc(<<j, "stop">>)' = Pc(<<j, "stop">>)  BY <2>1 DEF Pc
  <2>14. Holder(<<j, "task">>)  BY <1>0, <1>3, <1>5
  <2> QED  BY <1>0, <1>3, <2>9, <2>11, <2>12, <2>13, <2>14, Released
<1>6. CASE c[2] = "stop"
  <2> DEFINE s == stop[j]
             p == IF s.tries + 1 < CancelTries THEN "backoff" ELSE "abort"
  <2>1. s.pc = "cancel" /\ task' = task  BY <1>0, <1>6 DEF CancelFails, Pc
  <2>2. s \in Stops /\ s.tries \in 0 .. CancelTries  BY <1>1 DEF JobTyped, Stops
  <2>3. s.tries + 1 \in 0 .. CancelTries  BY <1>2, <2>1, <2>2 DEF JobFits, CancelTries
  <2>4. PICK r \in 0 .. CancelTries : r = s.tries + 1  BY <2>3
  <2>5. stop' = [stop EXCEPT ![j].tries = r, ![j].pc = p]  BY <1>0, <1>6, <2>4 DEF CancelFails
  <2>6. p \in StopPc  BY DEF StopPc
  <2>7. /\ r < CancelTries => p = "backoff"
        /\ ~(r < CancelTries) => p = "abort" /\ r = CancelTries
    BY <2>4 DEF CancelTries
  <2> HIDE DEF p
  <2>8. stop'[j] \in Stops /\ stop'[j].pc = p /\ stop'[j].tries = r
    <3>1. stop'[j] = [s EXCEPT !.tries = r, !.pc = p]  BY <1>0, <1>1, <2>5 DEF Shapes
    <3> QED  BY <2>2, <2>4, <2>6, <3>1 DEF Stops
  <2>9. OnlyOf(j)
    <3>1. Shapes'  BY <1>0, <1>1, <1>4, <2>1, <2>5 DEF Shapes
    <3> QED  BY <1>0, <1>1, <1>4, <2>1, <2>5, <3>1 DEF Shapes, OnlyOf, Untouched
  <2>10. JobTyped(j)'  BY <1>0, <1>1, <1>4, <2>1, <2>8 DEF JobTyped
  <2>11. task[j].pc # "start"  BY <1>2, <2>1 DEF JobFits
  <2>12. JobFits(j)'  BY <1>0, <1>2, <1>4, <2>1, <2>2, <2>7, <2>8, <2>11 DEF JobFits, Accounted, CancelTries
  <2>13. Pc(<<j, "task">>)' = Pc(<<j, "task">>)  BY <2>1 DEF Pc
  <2>14. Holder(<<j, "stop">>)  BY <1>0, <1>3, <1>6
  <2> QED  BY <1>0, <1>3, <2>9, <2>10, <2>12, <2>13, <2>14, Released
<1> QED  BY <1>0, <1>5, <1>6

LEMMA CancelAgainStep == ASSUME IInv, NEW c \in Callers, CancelAgain(c) PROVE IInv' /\ OnlyOf(c[1])
<1> DEFINE j == c[1]
<1>0. c[1] = j /\ j \in Jobs /\ c[2] \in {"task", "stop"} /\ c = <<j, c[2]>>  BY CallerPairs
<1> HIDE DEF j
<1>1. Shapes /\ JobTyped(j)  BY <1>0, Before
<1>2. JobFits(j)  BY <1>0, Before
<1>3. ~In(c)
  <2>1. InCall(j)  BY <1>0, Before
  <2>2. Pc(c) = "backoff"  BY DEF CancelAgain
  <2> QED  BY <1>0, <2>1, <2>2 DEF InCall
<1>4. Join(c)  BY DEF CancelAgain
<1>5. UNCHANGED <<fate, known, late, silence>>  BY DEF CancelAgain, devkitd
<1>6. \A d : Answered(d)' <=> Answered(d)
  <2>1. LineOK  BY <1>0, Before
  <2> QED  BY <1>3, <1>4, <2>1, JoinLine
<1>7. CASE c[2] = "task"
  <2>1. /\ task[j].pc = "backoff" /\ stop' = stop
        /\ task' = [task EXCEPT ![j].pc = "cancel"]
    BY <1>0, <1>7 DEF CancelAgain, Pc, Go
  <2>2. /\ task'[j] \in Tasks /\ task'[j].pc = "cancel" /\ task'[j].fails = task[j].fails
        /\ task'[j].tries = task[j].tries /\ task'[j].verdict = task[j].verdict
        /\ task'[j].stored = task[j].stored
    <3>1. /\ task'[j] = [task[j] EXCEPT !.pc = "cancel"] /\ task[j] \in Tasks
          /\ "cancel" \in TaskPc
      BY <1>0, <1>1, <2>1 DEF Shapes, JobTyped, TaskPc
    <3> QED  BY <3>1, MovedTask
  <2>3. OnlyOf(j)
    <3>1. Shapes'  BY <1>0, <1>1, <1>5, <2>1 DEF Shapes
    <3> QED  BY <1>0, <1>1, <1>5, <2>1, <3>1 DEF Shapes, OnlyOf, Untouched
  <2>4. JobTyped(j)'  BY <1>1, <1>5, <2>1, <2>2 DEF JobTyped
  <2>5. JobFits(j)'  BY <1>2, <1>5, <2>1, <2>2 DEF JobFits, Accounted
  <2>6. Pc(<<j, "task">>)' = "cancel" /\ Pc(<<j, "stop">>)' = Pc(<<j, "stop">>)
    BY <2>1, <2>2 DEF Pc
  <2>7. ~In(<<j, "task">>) /\ Join(<<j, "task">>)  BY <1>0, <1>3, <1>4, <1>7
  <2> QED  BY <1>0, <1>5, <2>3, <2>4, <2>5, <2>6, <2>7, Joined
<1>8. CASE c[2] = "stop"
  <2>1. /\ stop[j].pc = "backoff" /\ task' = task
        /\ stop' = [stop EXCEPT ![j].pc = "cancel"]
    BY <1>0, <1>8 DEF CancelAgain, Pc, StopAt
  <2>2. stop'[j] \in Stops /\ stop'[j].pc = "cancel" /\ stop'[j].tries = stop[j].tries
    <3>1. stop'[j] = [stop[j] EXCEPT !.pc = "cancel"]  BY <1>0, <1>1, <2>1 DEF Shapes
    <3> QED  BY <1>1, <3>1 DEF JobTyped, Stops, StopPc
  <2>3. OnlyOf(j)
    <3>1. Shapes'  BY <1>0, <1>1, <1>5, <2>1 DEF Shapes
    <3> QED  BY <1>0, <1>1, <1>5, <2>1, <3>1 DEF Shapes, OnlyOf, Untouched
  <2>4. JobTyped(j)'  BY <1>1, <1>5, <2>1, <2>2 DEF JobTyped
  <2>5. JobFits(j)'  BY <1>2, <1>5, <1>6, <2>1, <2>2 DEF JobFits, Accounted
  <2>6. Pc(<<j, "stop">>)' = "cancel" /\ Pc(<<j, "task">>)' = Pc(<<j, "task">>)
    BY <2>1, <2>2 DEF Pc
  <2>7. ~In(<<j, "stop">>) /\ Join(<<j, "stop">>)  BY <1>0, <1>3, <1>4, <1>8
  <2> QED  BY <1>0, <1>5, <2>3, <2>4, <2>5, <2>6, <2>7, Joined
<1> QED  BY <1>0, <1>7, <1>8

LEMMA AbortStep == ASSUME IInv, NEW j \in Jobs, Abort(j) PROVE IInv' /\ OnlyOf(j)
<1> DEFINE c == <<j, "task">>
<1>1. Shapes /\ JobTyped(j)  BY Before
<1>2. JobFits(j)  BY Before
<1>3. LineOK /\ answer \in Answer /\ InCall(j)  BY Before
<1>4. /\ stop[j].pc = "abort" /\ stop' = [stop EXCEPT ![j].pc = "over"]
      /\ task' = [task EXCEPT ![j].pc = "over"] /\ Leaves(c)
  BY DEF Abort, StopAt, Leaves
<1>5. UNCHANGED <<fate, known, late, silence>>  BY DEF Abort, devkitd
<1>6. OnlyOf(j)
  <2>1. Shapes'  BY <1>1, <1>4, <1>5 DEF Shapes
  <2> QED  BY <1>1, <1>4, <1>5, <2>1 DEF Shapes, OnlyOf, Untouched
<1>7. /\ LineOK'
      /\ \A d : In(d)' => In(d) /\ d # c
      /\ \A d : d # c => (Answered(d)' <=> Answered(d))
      /\ ~Answered(c)'
      /\ answer' \in {"none", answer}
  BY <1>3, <1>4, LeaveLine
<1>8. OthersKept(j)
  <2>1. \A d : d[1] # j => d # c  OBVIOUS
  <2>2. \A d : Answered(d)' => answer' # "none"  BY DEF Answered
  <2>3. answer' \in Answer  BY <1>3, <1>7 DEF Answer
  <2> QED  BY <1>6, <1>7, <2>1, <2>2, <2>3 DEF OthersKept, OnlyOf
<1>9. \A k \in {"task", "stop"} : ~In(<<j, k>>)'
  <2>1. ~In(<<j, "stop">>)  BY <1>3, <1>4 DEF InCall, Pc
  <2> QED  BY <1>7, <2>1
<1>10. InCall(j)'  BY <1>9 DEF InCall
<1>11. \A k \in {"task", "stop"} : ~Answered(<<j, k>>)'
  <2>1. ~In(<<j, "stop">>)  BY <1>3, <1>4 DEF InCall, Pc
  <2>2. ~Answered(<<j, "stop">>)  BY <2>1, Before
  <2> QED  BY <1>7, <2>2
<1>12. /\ task'[j] \in Tasks /\ task'[j].pc = "over" /\ task'[j].tries = task[j].tries
       /\ task'[j].stored = task[j].stored
  <2>1. task'[j] = [task[j] EXCEPT !.pc = "over"] /\ task[j] \in Tasks /\ "over" \in TaskPc
    BY <1>1, <1>4 DEF Shapes, JobTyped, TaskPc
  <2> QED  BY <2>1, MovedTask
<1>13. stop'[j] \in Stops /\ stop'[j].pc = "over" /\ stop'[j].tries = stop[j].tries
  <2>1. stop'[j] = [stop[j] EXCEPT !.pc = "over"]  BY <1>1, <1>4 DEF Shapes
  <2> QED  BY <1>1, <2>1 DEF JobTyped, Stops, StopPc
<1>14. JobTyped(j)'  BY <1>1, <1>5, <1>12, <1>13 DEF JobTyped
<1>15. JobFits(j)'  BY <1>2, <1>4, <1>5, <1>12, <1>13 DEF JobFits, Accounted
<1>16. JobInv(j)'  BY <1>11, <1>14, <1>15 DEF JobInv
<1> QED  BY <1>6, <1>8, <1>10, <1>16, Assemble

\* devkitd answers the holder of the line, which then has an answer that fits.
LEMMA Answers ==
  ASSUME IInv, NEW j \in Jobs, NEW k \in {"task", "stop"}, OnlyOf(j), Holder(<<j, k>>),
         answer = "none", answer' \in Answer \ {"none"},
         UNCHANGED <<late, task, stop, line, silence>>,
         fate'[j] \in {"none", "running", "killed", "lost"} \cup Outcomes, known'[j] \in BOOLEAN,
         AnswerFits(<<j, k>>)',
         known'[j] => fate'[j] \notin {"none", "lost"}, fate'[j] = "running" => known'[j],
         fate'[j] = fate[j] \/ (k = "task" /\ task[j].pc = "start") \/ fate'[j] # "running",
         fate'[j] = fate[j] \/ (k = "task" /\ task[j].pc = "start") \/ fate[j] # "none"
  PROVE  IInv'
<1> DEFINE c == <<j, k>>
<1>1. JobTyped(j) /\ JobFits(j)  BY Before
<1>2. LineOK /\ InCall(j) /\ c \in Callers  BY Before
<1>3. LineOK' /\ \A d : In(d)' <=> In(d)  BY <1>2 DEF LineOK, In, Holder
<1>4. \A d : ~Answered(d) /\ (Answered(d)' <=> d = c)  BY <1>2 DEF Answered, Holder
<1>5. \A d : d[1] # j => d # c  OBVIOUS
<1>6. OthersKept(j)  BY <1>3, <1>4, <1>5 DEF OthersKept, OnlyOf
<1>7. \A q \in {"task", "stop"} : Pc(<<j, q>>)' = Pc(<<j, q>>)  BY DEF Pc
<1>8. InCall(j)'
  <2>1. ASSUME NEW q \in {"task", "stop"}, In(<<j, q>>)'
        PROVE  Pc(<<j, q>>)' \in {"start", "poll", "cancel"}
    <3>1. In(<<j, q>>)  BY <1>3, <2>1
    <3> QED  BY <1>2, <1>7, <3>1 DEF InCall
  <2> QED  BY <2>1 DEF InCall
<1>9. JobTyped(j)'  BY <1>1 DEF JobTyped
<1>10. In(c) /\ Pc(c) \in {"start", "poll", "cancel"}
  <2>1. In(c)  BY <1>2 DEF In, LineOK, Holder
  <2> QED  BY <1>2, <2>1 DEF InCall
<1>11. JobFits(j)'
  <2>1. CASE k = "task" /\ task[j].pc = "start"
    <3>1. Answered(<<j, "task">>)'  BY <1>4, <2>1
    <3> QED  BY <1>1, <2>1, <3>1 DEF JobFits, Accounted
  <2>2. CASE ~(k = "task" /\ task[j].pc = "start")
    <3>1. fate'[j] = fate[j] \/ (fate'[j] # "running" /\ fate[j] # "none")  BY <2>2
    <3>2. ~Answered(<<j, "task">>)  BY <1>4
    <3> QED  BY <1>1, <3>1, <3>2 DEF JobFits, Accounted
  <2> QED  BY <2>1, <2>2
<1>12. \A q \in {"task", "stop"} : Answered(<<j, q>>)' => AnswerFits(<<j, q>>)'  BY <1>4
<1>13. JobInv(j)'  BY <1>9, <1>11, <1>12 DEF JobInv
<1> QED  BY <1>6, <1>8, <1>13, Assemble

LEMMA ServeStep == ASSUME IInv, Serve PROVE IInv' /\ OnlyOf(Head(line)[1])
<1>0. line # <<>> /\ answer = "none" /\ line \in Seq(Callers)  BY DEF Serve, IInv, LineInv
<1>1. PICK j \in Jobs, k \in {"task", "stop"} : Head(line) = <<j, k>>
  <2>1. Head(line) \in Callers  BY <1>0
  <2> QED  BY <2>1, CallerPairs
<1> DEFINE c == <<j, k>>
<1>2. Holder(c) /\ Head(line)[1] = j /\ Pc(Head(line)) = Pc(c)  BY <1>0, <1>1 DEF Holder
<1>3. Shapes /\ JobTyped(j)  BY Before
<1>4. JobFits(j)  BY Before
<1>5. Pc(c) \in {"start", "poll", "cancel"}
  <2>1. InCall(j) /\ LineOK  BY Before
  <2>2. 1 \in DOMAIN line /\ line[1] = Head(line)  BY <1>0
  <2>3. In(c)  BY <1>1, <2>2 DEF In
  <2> QED  BY <2>1, <2>3 DEF InCall
<1>6. UNCHANGED <<late, task, stop, line, silence>>  BY DEF Serve
<1>7. Pc(c)' = Pc(c)  BY <1>6 DEF Pc
<1>8. Pc(c) = "start" => k = "task" /\ task[j].pc = "start"
  <2>1. stop[j].pc # "start"  BY <1>3 DEF JobTyped, Stops, StopPc
  <2> QED  BY <2>1 DEF Pc
<1>9. CASE Pc(c) = "start"
  <2>1. ServeStart(j)  BY <1>2, <1>9 DEF Serve
  <2>2. CASE /\ fate' = [fate EXCEPT ![j] = "running"] /\ known' = [known EXCEPT ![j] = TRUE]
             /\ Reply(j, "accepted")
    <3>1. fate'[j] = "running" /\ known'[j] = TRUE  BY <1>3, <2>2 DEF Shapes
    <3>2. OnlyOf(j)
      <4>1. Shapes'  BY <1>3, <1>6, <2>2 DEF Shapes
      <4> QED  BY <1>3, <1>6, <2>2, <4>1 DEF Shapes, OnlyOf, Untouched
    <3>3. answer' \in {"accepted", "garbled"} /\ (answer' = "garbled" => j \in Garbled)
      BY <2>2 DEF Reply
    <3>4. AnswerFits(c)'  BY <1>7, <1>9, <3>1, <3>3 DEF AnswerFits
    <3>5. answer' \in Answer \ {"none"}  BY <3>3 DEF Answer
    <3> HIDE DEF c
    <3> QED  BY <1>0, <1>2, <1>6, <1>8, <1>9, <3>1, <3>2, <3>4, <3>5, Answers DEF c
  <2>3. CASE answer' = "error" /\ UNCHANGED devkitd
    <3>1. fate' = fate /\ known' = known  BY <2>3 DEF devkitd
    <3>2. OnlyOf(j)
      <4>1. Shapes'  BY <1>3, <1>6, <3>1 DEF Shapes
      <4> QED  BY <1>3, <1>6, <3>1, <4>1 DEF Shapes, OnlyOf, Untouched
    <3>3. fate[j] = "none"
      <4>1. ~Answered(<<j, "task">>)  BY <1>0 DEF Answered
      <4> QED  BY <1>4, <1>8, <1>9, <4>1 DEF JobFits
    <3>4. AnswerFits(c)'  BY <1>7, <1>9, <2>3, <3>1, <3>3 DEF AnswerFits
    <3>5. answer' \in Answer \ {"none"}  BY <2>3 DEF Answer
    <3>6. /\ fate'[j] \in {"none", "running", "killed", "lost"} \cup Outcomes /\ known'[j] \in BOOLEAN
          /\ fate'[j] = fate[j] /\ fate[j] # "running"
          /\ known'[j] => fate'[j] \notin {"none", "lost"}
      BY <1>3, <1>4, <3>1, <3>3 DEF JobTyped, JobFits
    <3> QED  BY <1>0, <1>2, <1>6, <3>2, <3>4, <3>5, <3>6, Answers
  <2> QED  BY <2>1, <2>2, <2>3 DEF ServeStart
<1>10. CASE Pc(c) = "poll"
  <2>1. ServeStatus(j)  BY <1>2, <1>10 DEF Serve
  <2>2. fate' = fate /\ known' = known  BY <2>1 DEF ServeStatus, devkitd
  <2>3. OnlyOf(j)
    <3>1. Shapes'  BY <1>3, <1>6, <2>2 DEF Shapes
    <3> QED  BY <1>3, <1>6, <2>2, <3>1 DEF Shapes, OnlyOf, Untouched
  <2>4. \/ answer' = "error" /\ ~known[j]
        \/ answer' \in {"garbled", "oddState"} /\ j \in Garbled
        \/ answer' = fate[j] /\ fate[j] \in {"running", "killed"} \cup Outcomes
    <3>1. known[j] => fate[j] \in {"running", "killed"} \cup Outcomes
      BY <1>3, <1>4 DEF JobTyped, JobFits
    <3>2. \/ answer' = "error" /\ ~known[j]
          \/ known[j] /\ answer' \in {"garbled", "oddState"} /\ j \in Garbled
          \/ known[j] /\ answer' = fate[j]
      BY <2>1 DEF ServeStatus, Reply
    <3> QED  BY <3>1, <3>2
  <2>5. AnswerFits(c)'  BY <1>7, <1>10, <2>2, <2>4 DEF AnswerFits
  <2>6. answer' \in Answer \ {"none"}  BY <2>4 DEF Answer, Outcomes
  <2>7. /\ fate'[j] \in {"none", "running", "killed", "lost"} \cup Outcomes /\ known'[j] \in BOOLEAN
        /\ known'[j] => fate'[j] \notin {"none", "lost"}
        /\ fate'[j] = "running" => known'[j]
    BY <1>3, <1>4, <2>2 DEF JobTyped, JobFits
  <2>8. fate'[j] = fate[j]  BY <2>2
  <2> QED  BY <1>0, <1>2, <1>6, <2>3, <2>5, <2>6, <2>7, <2>8, Answers
<1>11. CASE Pc(c) = "cancel"
  <2>1. ServeCancel(j)  BY <1>2, <1>11 DEF Serve
  <2>2. /\ fate' = [fate EXCEPT ![j] = IF @ = "running" THEN "killed" ELSE @]
        /\ known' = known /\ answer' \in {"accepted", "error"}
    BY <2>1 DEF ServeCancel
  <2>3. fate'[j] = IF fate[j] = "running" THEN "killed" ELSE fate[j]  BY <1>3, <2>2 DEF Shapes
  <2>4. OnlyOf(j)
    <3>1. Shapes'  BY <1>3, <1>6, <2>2 DEF Shapes
    <3> QED  BY <1>3, <1>6, <2>2, <3>1 DEF Shapes, OnlyOf, Untouched
  <2>5. AnswerFits(c)'  BY <1>7, <1>11, <2>3 DEF AnswerFits
  <2>6. answer' \in Answer \ {"none"}  BY <2>2 DEF Answer
  <2>7. /\ fate'[j] \in {"none", "running", "killed", "lost"} \cup Outcomes /\ known'[j] \in BOOLEAN
        /\ known'[j] => fate'[j] \notin {"none", "lost"}
        /\ fate'[j] # "running" /\ (fate'[j] = fate[j] \/ fate[j] # "none")
    BY <1>3, <1>4, <2>2, <2>3 DEF JobTyped, JobFits
  <2> QED  BY <1>0, <1>2, <1>6, <2>4, <2>5, <2>6, <2>7, Answers
<1> QED  BY <1>5, <1>9, <1>10, <1>11

LEMMA JobEndsStep == ASSUME IInv, NEW j \in Jobs, JobEnds(j) PROVE IInv' /\ OnlyOf(j)
<1>1. Shapes /\ JobTyped(j)  BY Before
<1>2. JobFits(j)  BY Before
<1>3. PICK f \in Outcomes : fate' = [fate EXCEPT ![j] = f]  BY DEF JobEnds
<1>4. fate[j] = "running" /\ UNCHANGED <<known, late, task, stop, silence>> /\ UNCHANGED mutex
  BY DEF JobEnds
<1>5. fate'[j] = f /\ f \in {"ok", "failed", "timedOut"}  BY <1>1, <1>3 DEF Shapes, Outcomes
<1>6. OnlyOf(j)
  <2>1. Shapes'  BY <1>1, <1>3, <1>4 DEF Shapes
  <2> QED  BY <1>1, <1>3, <1>4, <2>1 DEF Shapes, OnlyOf, Untouched
<1>7. \A k \in {"task", "stop"} : /\ Pc(<<j, k>>)' = Pc(<<j, k>>)
                                  /\ Answered(<<j, k>>)' <=> Answered(<<j, k>>)
  BY <1>4 DEF Pc, mutex, Answered
<1>8. JobTyped(j)'  BY <1>1, <1>4, <1>5 DEF JobTyped, Outcomes
<1>9. JobFits(j)'  BY <1>2, <1>4, <1>5, <1>7 DEF JobFits, Accounted
<1>10. ASSUME NEW k \in {"task", "stop"}, Answered(<<j, k>>) PROVE AnswerFits(<<j, k>>)'
  <2>1. AnswerFits(<<j, k>>)  BY <1>10, Before
  <2>2. answer' = answer  BY <1>4 DEF mutex
  <2> QED  BY <1>4, <1>5, <1>7, <2>1, <2>2 DEF AnswerFits, Outcomes
<1> QED  BY <1>4, <1>6, <1>7, <1>8, <1>9, <1>10, Stayed

LEMMA ForgetStep == ASSUME IInv, NEW j \in Jobs, Forget(j) PROVE IInv' /\ OnlyOf(j)
<1>1. Shapes /\ JobTyped(j)  BY Before
<1>2. JobFits(j)  BY Before
<1>3. /\ known[j] /\ task[j].pc \in {"check", "poll"}
      /\ known' = [known EXCEPT ![j] = FALSE]
      /\ fate' = [fate EXCEPT ![j] = IF @ = "running" THEN "lost" ELSE @]
  BY DEF Forget
<1>4. UNCHANGED <<late, task, stop, silence>> /\ UNCHANGED mutex  BY DEF Forget
<1>5. known'[j] = FALSE /\ fate'[j] = IF fate[j] = "running" THEN "lost" ELSE fate[j]
  BY <1>1, <1>3 DEF Shapes
<1>6. OnlyOf(j)
  <2>1. Shapes'  BY <1>1, <1>3, <1>4 DEF Shapes
  <2> QED  BY <1>1, <1>3, <1>4, <2>1 DEF Shapes, OnlyOf, Untouched
<1>7. \A k \in {"task", "stop"} : /\ Pc(<<j, k>>)' = Pc(<<j, k>>)
                                  /\ Answered(<<j, k>>)' <=> Answered(<<j, k>>)
  BY <1>4 DEF Pc, mutex, Answered
<1>8. JobTyped(j)'  BY <1>1, <1>4, <1>5 DEF JobTyped
<1>9. JobFits(j)'  BY <1>2, <1>3, <1>4, <1>5, <1>7 DEF JobFits, Accounted
<1>10. ASSUME NEW k \in {"task", "stop"}, Answered(<<j, k>>) PROVE AnswerFits(<<j, k>>)'
  <2>1. AnswerFits(<<j, k>>)  BY <1>10, Before
  <2>2. answer' = answer  BY <1>4 DEF mutex
  <2>3. Pc(<<j, k>>) # "start"  BY <1>1, <1>3 DEF Pc, JobTyped, Stops, StopPc
  <2> QED  BY <1>3, <1>4, <1>5, <1>7, <2>1, <2>2, <2>3 DEF AnswerFits, Outcomes
<1> QED  BY <1>4, <1>6, <1>7, <1>8, <1>9, <1>10, Stayed

LEMMA InitStep == Init => IInv
<1> SUFFICES ASSUME Init PROVE IInv  OBVIOUS
<1>1. Shapes /\ answer \in Answer  BY DEF Init, Shapes, Answer
<1>2. LineInv  BY DEF Init, LineInv, In
<1>3. ASSUME NEW j \in Jobs PROVE JobInv(j)
  <2> DEFINE t == task[j]
  <2>1. /\ t = [pc |-> "idle", fails |-> 0, tries |-> 0, verdict |-> "none", stored |-> FALSE]
        /\ stop[j] = [pc |-> "idle", tries |-> 0]
        /\ fate[j] = "none" /\ known[j] = FALSE /\ late[j] = FALSE /\ silence[j] = 0
    BY DEF Init
  <2>2. 0 \in 0 .. Budget /\ 0 \in 0 .. Budget + 1 /\ 0 \in 0 .. CancelTries /\ 0 < CancelTries
    BY DEF CancelTries
  <2>3. t \in Tasks /\ stop[j] \in Stops  BY <2>1, <2>2 DEF Tasks, Stops, TaskPc, StopPc, Verdict
  <2>4. JobTyped(j)  BY <2>1, <2>2, <2>3 DEF JobTyped
  <2>5. JobFits(j)  BY <2>1, <2>2 DEF JobFits, Accounted
  <2>6. \A d : ~Answered(d)  BY DEF Answered, Init
  <2> QED  BY <2>4, <2>5, <2>6 DEF JobInv
<1> QED  BY <1>1, <1>2, <1>3 DEF IInv

LEMMA StutterStep == ASSUME IInv, UNCHANGED vars PROVE IInv'
<1>1. Shapes' /\ answer' \in Answer  BY DEF IInv, Shapes, vars
<1>2. LineInv'  BY DEF IInv, LineInv, In, Pc, vars
<1>3. ASSUME NEW j \in Jobs PROVE JobInv(j)'
  <2>1. JobTyped(j)' /\ JobFits(j)'
    BY DEF IInv, JobInv, JobTyped, JobFits, Accounted, Answered, vars
  <2>2. \A k \in {"task", "stop"} : Answered(<<j, k>>)' => AnswerFits(<<j, k>>)'
    BY DEF IInv, JobInv, Answered, AnswerFits, Pc, vars
  <2> QED  BY <2>1, <2>2 DEF JobInv
<1> QED  BY <1>1, <1>2, <1>3 DEF IInv

LEMMA NextStep == ASSUME IInv, Next PROVE IInv'
<1>1. ASSUME NEW j \in Jobs, Activate(j) \/ TaskStep(j) \/ Expire(j) \/ CancelStep(j) \/ Abort(j)
      PROVE  IInv'
  BY <1>1, ActivateStep, StartedStep, StartFailsStep, PersistStep, CheckStep, PolledStep,
     PollFailsStep, ExpireStep, CancelStepStep, AbortStep DEF TaskStep
<1>2. ASSUME NEW c \in Callers, CancelCall(c) PROVE IInv'
  BY <1>2, CancelledStep, CancelFailsStep, CancelAgainStep DEF CancelCall
<1>3. ASSUME NEW j \in Jobs, JobEnds(j) \/ Forget(j) PROVE IInv'
  BY <1>3, JobEndsStep, ForgetStep
<1> QED  BY <1>1, <1>2, <1>3, ServeStep DEF Next

\* What the task knows of its job, the line and the fate of the job fit.
THEOREM Invariance == Spec => []IInv
<1>1. IInv /\ [Next]_vars => IInv'  BY NextStep, StutterStep
<1> QED  BY InitStep, <1>1, PTL DEF Spec

\* TypeOK: no count leaves its range, whatever fails, and nobody is twice in
\* the line of the mutex, an abort in the middle of a call included.
THEOREM Typed == Spec => []TypeOK
<1>1. IInv => TypeOK  BY InvMeans
<1> QED  BY Invariance, <1>1, PTL

\* LeftAlive (client.rs:228): a job the runtime is done with runs on only in
\* the ways listed there.
THEOREM JobsLeftAlive == Spec => []LeftAlive
<1>1. IInv => LeftAlive  BY InvMeans
<1> QED  BY Invariance, <1>1, PTL

-----------------------------------------------------------------------------
(* The port *)

\* Nothing the port tells of j changes; or what the caller of j is told, which
\* its fate backs; or the job begins, ends, is forgotten or runs late.
Told(j)  == task[j].verdict
SameJob(j)   == fate'[j] = fate[j] /\ known'[j] = known[j] /\ late'[j] = late[j]
Silent(j)    == SameJob(j) /\ Told(j)' = Told(j)
Begins(j)    == /\ fate[j] = "none" /\ fate'[j] = "running" /\ known'[j] = TRUE
                /\ late'[j] = late[j] /\ Told(j)' = Told(j)
Ends(j)      == /\ fate[j] = "running" /\ fate'[j] \in Outcomes \cup {"killed"}
                /\ known'[j] = known[j] /\ late'[j] = late[j] /\ Told(j)' = Told(j)
Forgotten(j) == /\ known[j] /\ known'[j] = FALSE
                /\ fate'[j] = IF fate[j] = "running" THEN "lost" ELSE fate[j]
                /\ late'[j] = late[j] /\ Told(j)' = Told(j)
Expires(j)   == /\ late'[j] = TRUE
                /\ fate'[j] = fate[j] /\ known'[j] = known[j] /\ Told(j)' = Told(j)
TrueOf(j, v) ==
  \/ v = "ok" /\ fate[j] = "ok"
  \/ v = "toolError" /\ fate[j] \in {"none", "failed"}
  \/ v = "timeout" /\ (fate[j] = "timedOut" \/ late[j])
  \/ v = "cancelled" /\ fate[j] = "killed"
  \/ v = "interrupted" /\ ~known[j]
  \/ v = "unreachable"
Reports(j)   == SameJob(j) /\ Told(j) = "none" /\ TrueOf(j, Told(j)')
PortMove(j)  == Silent(j) \/ Begins(j) \/ Ends(j) \/ Forgotten(j) \/ Expires(j) \/ Reports(j)

LEMMA PortSteps ==
  ASSUME IInv, NEW j \in Jobs, OnlyOf(j), j \notin Garbled => PortMove(j)
  PROVE  [Port!Next]_(Port!vars)
<1> DEFINE Clear == Jobs \ Garbled
           F == [i \in Clear |-> fate[i]]
           K == [i \in Clear |-> known[i]]
           L == [i \in Clear |-> late[i]]
           V == [i \in Clear |-> task[i].verdict]
<1>1. \A i \in Clear \ {j} : /\ F'[i] = F[i] /\ K'[i] = K[i] /\ L'[i] = L[i] /\ V'[i] = V[i]
  BY DEF OnlyOf, Untouched
<1>2. CASE j \notin Clear \/ Silent(j)
  <2>1. F' = F /\ K' = K /\ L' = L /\ V' = V  BY <1>1, <1>2 DEF Silent, SameJob, Told
  <2> QED  BY <2>1 DEF Port!vars
<1>3. CASE j \in Clear /\ Begins(j)
  <2>1. /\ F' = [F EXCEPT ![j] = "running"] /\ K' = [K EXCEPT ![j] = TRUE]
        /\ L' = L /\ V' = V
    BY <1>1, <1>3 DEF Begins, Told
  <2>2. Port!Begin(j)  BY <1>3, <2>1 DEF Port!Begin, Begins
  <2> QED  BY <1>3, <2>2 DEF Port!Next
<1>4. CASE j \in Clear /\ Ends(j)
  <2>1. K' = K /\ L' = L /\ V' = V  BY <1>1, <1>4 DEF Ends, Told
  <2>2. PICK f \in Outcomes \cup {"killed"} : fate'[j] = f  BY <1>4 DEF Ends
  <2>3. F' = [F EXCEPT ![j] = f]  BY <1>1, <1>4, <2>2
  <2>4. Port!End(j)  BY <1>4, <2>1, <2>2, <2>3 DEF Port!End, Ends, Port!Outcomes, Outcomes
  <2> QED  BY <1>4, <2>4 DEF Port!Next
<1>5. CASE j \in Clear /\ Forgotten(j)
  <2>1. L' = L /\ V' = V /\ K' = [K EXCEPT ![j] = FALSE]  BY <1>1, <1>5 DEF Forgotten, Told
  <2>2. F' = [F EXCEPT ![j] = IF @ = "running" THEN "lost" ELSE @]
    BY <1>1, <1>5 DEF Forgotten
  <2>3. Port!Forget(j)  BY <1>5, <2>1, <2>2 DEF Port!Forget, Forgotten
  <2> QED  BY <1>5, <2>3 DEF Port!Next
<1>6. CASE j \in Clear /\ Expires(j)
  <2>1. F' = F /\ K' = K /\ V' = V /\ L' = [L EXCEPT ![j] = TRUE]
    BY <1>1, <1>6 DEF Expires, Told
  <2>2. Port!Expire(j)  BY <2>1 DEF Port!Expire
  <2> QED  BY <1>6, <2>2 DEF Port!Next
<1>7. CASE j \in Clear /\ Reports(j)
  <2>1. PICK v : v = task'[j].verdict  OBVIOUS
  <2>2. F' = F /\ K' = K /\ L' = L /\ V' = [V EXCEPT ![j] = v]
    BY <1>1, <1>7, <2>1 DEF Reports, SameJob
  <2>3. v \in {"ok", "toolError", "timeout", "cancelled", "interrupted", "unreachable"}
    BY <1>7, <2>1 DEF Reports, TrueOf, Told
  <2>4. Port!Backed(j, v)  BY <1>7, <2>1, <2>3 DEF Port!Backed, Reports, TrueOf, Told
  <2>5. Port!Report(j)  BY <1>7, <2>2, <2>3, <2>4 DEF Port!Report, Reports, Told
  <2> QED  BY <1>7, <2>5 DEF Port!Next
<1> QED  BY <1>2, <1>3, <1>4, <1>5, <1>6, <1>7 DEF PortMove

LEMMA ActivateMove == ASSUME IInv, NEW j \in Jobs, Activate(j) PROVE [Port!Next]_(Port!vars)
<1>1. Shapes /\ task[j] \in Tasks  BY Before DEF JobTyped
<1>2. Silent(j)  BY <1>1 DEF Activate, Go, devkitd, Shapes, Silent, SameJob, Told, Tasks
<1> QED  BY <1>2, ActivateStep, PortSteps DEF PortMove

LEMMA StartedMove == ASSUME IInv, NEW j \in Jobs, Started(j) PROVE [Port!Next]_(Port!vars)
<1> DEFINE c == <<j, "task">>
<1>1. Shapes /\ LineOK /\ task[j] \in Tasks  BY Before DEF JobTyped
<1>2. JobFits(j)  BY Before
<1>3. Holder(c) /\ task[j].pc = "start" /\ UNCHANGED <<fate, known, late>>  BY DEF Started, devkitd
<1>4. Answered(c) => AnswerFits(c)  BY Before
<1>5. CASE answer = "accepted" /\ Go(j, "persist")
  <2>1. Silent(j)  BY <1>1, <1>3, <1>5 DEF Go, Shapes, Silent, SameJob, Told, Tasks
  <2> QED  BY <2>1, StartedStep, PortSteps DEF PortMove
<1>6. CASE answer \in {"error", "garbled"} /\ Over(j, "toolError")
  <2>1. AnswerFits(c) /\ Pc(c) = "start"  BY <1>1, <1>3, <1>4, <1>6, HolderAnswered DEF Pc
  <2>2. j \notin Garbled => fate[j] = "none"  BY <1>6, <2>1 DEF AnswerFits
  <2>3. task'[j].verdict = "toolError"  BY <1>1, <1>6 DEF Over, Shapes
  <2>4. j \notin Garbled => Reports(j)
    BY <1>2, <1>3, <2>2, <2>3 DEF JobFits, Reports, SameJob, Told, TrueOf
  <2> QED  BY <2>4, StartedStep, PortSteps DEF PortMove
<1> QED  BY <1>5, <1>6 DEF Started

LEMMA StartFailsMove == ASSUME IInv, NEW j \in Jobs, StartFails(j) PROVE [Port!Next]_(Port!vars)
<1>1. Shapes /\ task[j] \in Tasks  BY Before DEF JobTyped
<1>2. JobFits(j)  BY Before
<1>3. task'[j].verdict = "unreachable"  BY <1>1 DEF StartFails, Over, Shapes
<1>4. UNCHANGED <<fate, known, late>> /\ task[j].pc = "start"  BY DEF StartFails, devkitd
<1>5. Reports(j)  BY <1>2, <1>3, <1>4 DEF JobFits, Reports, SameJob, Told, TrueOf
<1> QED  BY <1>5, StartFailsStep, PortSteps DEF PortMove

LEMMA PersistMove == ASSUME IInv, NEW j \in Jobs, PersistJobId(j) PROVE [Port!Next]_(Port!vars)
<1>1. Shapes /\ task[j] \in Tasks  BY Before DEF JobTyped
<1>2. Silent(j)  BY <1>1 DEF PersistJobId, Go, devkitd, Shapes, Silent, SameJob, Told, Tasks
<1> QED  BY <1>2, PersistStep, PortSteps DEF PortMove

LEMMA CheckMove == ASSUME IInv, NEW j \in Jobs, Check(j) PROVE [Port!Next]_(Port!vars)
<1>1. Shapes /\ task[j] \in Tasks  BY Before DEF JobTyped
<1>2. Silent(j)  BY <1>1 DEF Check, Go, devkitd, Shapes, Silent, SameJob, Told, Tasks
<1> QED  BY <1>2, CheckStep, PortSteps DEF PortMove

LEMMA PolledMove == ASSUME IInv, NEW j \in Jobs, Polled(j) PROVE [Port!Next]_(Port!vars)
<1> DEFINE c == <<j, "task">>
<1>1. Shapes /\ LineOK /\ task[j] \in Tasks  BY Before DEF JobTyped
<1>2. JobFits(j)  BY Before
<1>3. Answered(c) => AnswerFits(c)  BY Before
<1>4. /\ Holder(c) /\ task[j].pc = "poll" /\ answer # "none"
      /\ UNCHANGED <<fate, known, late>>
  BY DEF Polled, devkitd
<1>5. AnswerFits(c) /\ Pc(c) = "poll"  BY <1>1, <1>3, <1>4, HolderAnswered DEF Pc
<1>6. Told(j)' = IF answer \in {"running", "oddState"} THEN Told(j) ELSE VerdictOn(answer)
  BY <1>1 DEF Polled, Shapes, Told
<1>7. CASE answer \in {"running", "oddState"}
  <2>1. Silent(j)  BY <1>4, <1>6, <1>7 DEF Silent, SameJob
  <2> QED  BY <2>1, PolledStep, PortSteps DEF PortMove
<1>8. CASE answer \notin {"running", "oddState"}
  <2>1. j \notin Garbled => \/ answer = "error" /\ ~known[j]
                            \/ answer \in {"ok", "failed", "timedOut", "killed"} /\ fate[j] = answer
    BY <1>5, <1>8 DEF AnswerFits, Outcomes
  <2>2. j \notin Garbled => TrueOf(j, VerdictOn(answer))  BY <2>1 DEF VerdictOn, TrueOf
  <2>3. j \notin Garbled => Reports(j)
    BY <1>2, <1>4, <1>6, <1>8, <2>2 DEF JobFits, Reports, SameJob, Told
  <2> QED  BY <2>3, PolledStep, PortSteps DEF PortMove
<1> QED  BY <1>7, <1>8

LEMMA PollFailsMove == ASSUME IInv, NEW j \in Jobs, PollFails(j) PROVE [Port!Next]_(Port!vars)
<1>1. Shapes /\ task[j] \in Tasks  BY Before DEF JobTyped
<1>2. JobFits(j)  BY Before
<1>3. UNCHANGED <<fate, known, late>> /\ task[j].pc = "poll"  BY DEF PollFails, devkitd
<1>4. CASE Over(j, "unreachable")
  <2>1. task'[j].verdict = "unreachable"  BY <1>1, <1>4 DEF Over, Shapes
  <2>2. Reports(j)  BY <1>2, <1>3, <2>1 DEF JobFits, Reports, SameJob, Told, TrueOf
  <2> QED  BY <2>2, PollFailsStep, PortSteps DEF PortMove
<1>5. CASE task' = [task EXCEPT ![j].pc = "check", ![j].fails = @ + 1]
  <2>1. Silent(j)  BY <1>1, <1>3, <1>5 DEF Shapes, Silent, SameJob, Told, Tasks
  <2> QED  BY <2>1, PollFailsStep, PortSteps DEF PortMove
<1> QED  BY <1>4, <1>5 DEF PollFails

LEMMA ExpireMove == ASSUME IInv, NEW j \in Jobs, Expire(j) PROVE [Port!Next]_(Port!vars)
<1>1. Shapes /\ task[j] \in Tasks  BY Before DEF JobTyped
<1>2. Expires(j)  BY <1>1 DEF Expire, devkitd, Shapes, Expires, Told
<1> QED  BY <1>2, ExpireStep, PortSteps DEF PortMove

LEMMA CancelStepMove == ASSUME IInv, NEW j \in Jobs, CancelStep(j) PROVE [Port!Next]_(Port!vars)
<1>1. Silent(j)  BY DEF CancelStep, devkitd, Silent, SameJob, Told
<1> QED  BY <1>1, CancelStepStep, PortSteps DEF PortMove

LEMMA AbortMove == ASSUME IInv, NEW j \in Jobs, Abort(j) PROVE [Port!Next]_(Port!vars)
<1>1. Shapes /\ task[j] \in Tasks  BY Before DEF JobTyped
<1>2. Silent(j)  BY <1>1 DEF Abort, devkitd, Shapes, Silent, SameJob, Told, Tasks
<1> QED  BY <1>2, AbortStep, PortSteps DEF PortMove

LEMMA CancelCallMove == ASSUME IInv, NEW c \in Callers, CancelCall(c) PROVE [Port!Next]_(Port!vars)
<1> DEFINE j == c[1]
<1>0. c[1] = j /\ j \in Jobs /\ c[2] \in {"task", "stop"}  BY CallerPairs
<1> HIDE DEF j
<1>1. Shapes /\ task[j] \in Tasks  BY <1>0, Before DEF JobTyped
<1>2. JobFits(j)  BY <1>0, Before
<1>3. OnlyOf(j)  BY <1>0, CancelledStep, CancelFailsStep, CancelAgainStep DEF CancelCall
<1>4. UNCHANGED <<fate, known, late>>
  BY DEF CancelCall, Cancelled, CancelFails, CancelAgain, devkitd
<1>5. c[2] = "task" /\ ~CancelAgain(c) => task[j].pc = "cancel"
  BY <1>0 DEF CancelCall, Cancelled, CancelFails, Pc
<1>6. \/ task'[j].verdict = task[j].verdict
      \/ c[2] = "task" /\ ~CancelAgain(c) /\ task'[j].verdict = "timeout"
  <2>1. CASE CancelAgain(c)
    <3>1. task' = [task EXCEPT ![j].pc = "cancel"] \/ task' = task  BY <1>0, <2>1 DEF CancelAgain, Go
    <3> QED  BY <1>0, <1>1, <3>1 DEF Shapes, Tasks
  <2>2. CASE ~CancelAgain(c) /\ Cancelled(c)
    <3>1. \/ c[2] = "task" /\ Over(j, "timeout")
          \/ task' = task
      BY <1>0, <2>2 DEF Cancelled, CancelReturned
    <3> QED  BY <1>0, <1>1, <2>2, <3>1 DEF Over, Shapes, Tasks
  <2>3. CASE ~CancelAgain(c) /\ CancelFails(c)
    <3>1. CASE c[2] = "stop"  BY <1>0, <2>3, <3>1 DEF CancelFails
    <3>2. CASE c[2] = "task"
      <4> DEFINE r == task[j].tries + 1
                 p == IF r < CancelTries THEN "backoff" ELSE "over"
                 v == IF r < CancelTries THEN task[j].verdict ELSE "timeout"
      <4>0. v \in {task[j].verdict, "timeout"}  OBVIOUS
      <4>1. task' = [task EXCEPT ![j].tries = r, ![j].pc = p,
                                 ![j].verdict = IF r < CancelTries THEN @ ELSE "timeout"]
        BY <1>0, <2>3, <3>2 DEF CancelFails
      <4> HIDE DEF r, p
      <4>2. task'[j].verdict = v  BY <1>0, <1>1, <4>1 DEF Shapes, Tasks
      <4> QED  BY <2>3, <3>2, <4>0, <4>2
    <3> QED  BY <1>0, <3>1, <3>2
  <2> QED  BY <2>1, <2>2, <2>3 DEF CancelCall
<1>7. CASE task'[j].verdict = task[j].verdict
  <2>1. Silent(j)  BY <1>4, <1>7 DEF Silent, SameJob, Told
  <2> QED  BY <1>0, <1>3, <2>1, PortSteps DEF PortMove
<1>8. CASE c[2] = "task" /\ ~CancelAgain(c) /\ task'[j].verdict = "timeout"
  <2>1. late[j] /\ task[j].verdict = "none"  BY <1>2, <1>5, <1>8 DEF JobFits
  <2>2. Reports(j)  BY <1>4, <1>8, <2>1 DEF Reports, SameJob, Told, TrueOf
  <2> QED  BY <1>0, <1>3, <2>2, PortSteps DEF PortMove
<1> QED  BY <1>6, <1>7, <1>8

LEMMA ServeMove == ASSUME IInv, Serve PROVE [Port!Next]_(Port!vars)
<1>0. line # <<>> /\ answer = "none" /\ line \in Seq(Callers)  BY DEF Serve, IInv, LineInv
<1>1. PICK j \in Jobs, k \in {"task", "stop"} : Head(line) = <<j, k>>
  <2>1. Head(line) \in Callers  BY <1>0
  <2> QED  BY <2>1, CallerPairs
<1> DEFINE c == <<j, k>>
<1>2. Holder(c) /\ Head(line)[1] = j /\ Pc(Head(line)) = Pc(c)  BY <1>0, <1>1 DEF Holder
<1>3. Shapes /\ JobTyped(j)  BY Before
<1>4. JobFits(j)  BY Before
<1>5. OnlyOf(j)  BY <1>2, ServeStep
<1>6. UNCHANGED <<late, task>>  BY DEF Serve
<1>7. Pc(c) \in {"start", "poll", "cancel"}
  <2>1. InCall(j) /\ LineOK  BY Before
  <2>2. 1 \in DOMAIN line /\ line[1] = Head(line)  BY <1>0
  <2>3. In(c)  BY <1>1, <2>2 DEF In
  <2> QED  BY <2>1, <2>3 DEF InCall
<1>8. CASE Pc(c) = "start"
  <2>1. ServeStart(j)  BY <1>2, <1>8 DEF Serve
  <2>2. fate[j] = "none"
    <3>1. k = "task" /\ task[j].pc = "start"
      BY <1>3, <1>8 DEF Pc, JobTyped, Stops, StopPc
    <3>2. ~Answered(<<j, "task">>)  BY <1>0 DEF Answered
    <3> QED  BY <1>4, <3>1, <3>2 DEF JobFits
  <2>3. Begins(j) \/ Silent(j)
    BY <1>3, <1>6, <2>1, <2>2 DEF ServeStart, devkitd, Shapes, Begins, Silent, SameJob, Told
  <2> QED  BY <1>5, <2>3, PortSteps DEF PortMove
<1>9. CASE Pc(c) = "poll"
  <2>1. ServeStatus(j)  BY <1>2, <1>9 DEF Serve
  <2>2. Silent(j)  BY <1>6, <2>1 DEF ServeStatus, devkitd, Silent, SameJob, Told
  <2> QED  BY <1>5, <2>2, PortSteps DEF PortMove
<1>10. CASE Pc(c) = "cancel"
  <2>1. ServeCancel(j)  BY <1>2, <1>10 DEF Serve
  <2>2. Ends(j) \/ Silent(j)
    BY <1>3, <1>6, <2>1 DEF ServeCancel, Shapes, Ends, Silent, SameJob, Told
  <2> QED  BY <1>5, <2>2, PortSteps DEF PortMove
<1> QED  BY <1>7, <1>8, <1>9, <1>10

LEMMA JobEndsMove == ASSUME IInv, NEW j \in Jobs, JobEnds(j) PROVE [Port!Next]_(Port!vars)
<1>1. Shapes /\ task[j] \in Tasks  BY Before DEF JobTyped
<1>2. Ends(j)  BY <1>1 DEF JobEnds, Shapes, Ends, Told
<1> QED  BY <1>2, JobEndsStep, PortSteps DEF PortMove

LEMMA ForgetMove == ASSUME IInv, NEW j \in Jobs, Forget(j) PROVE [Port!Next]_(Port!vars)
<1>1. Shapes /\ task[j] \in Tasks  BY Before DEF JobTyped
<1>2. Forgotten(j)  BY <1>1 DEF Forget, Shapes, Forgotten, Told
<1> QED  BY <1>2, ForgetStep, PortSteps DEF PortMove

LEMMA PortInit == Init => Port!Init
BY DEF Init, Port!Init

LEMMA PortStutter == UNCHANGED vars => UNCHANGED Port!vars
BY DEF vars, Port!vars

LEMMA PortNext == ASSUME IInv, Next PROVE [Port!Next]_(Port!vars)
<1>1. ASSUME NEW j \in Jobs, Activate(j) \/ TaskStep(j) \/ Expire(j) \/ CancelStep(j) \/ Abort(j)
      PROVE  [Port!Next]_(Port!vars)
  BY <1>1, ActivateMove, StartedMove, StartFailsMove, PersistMove, CheckMove, PolledMove,
     PollFailsMove, ExpireMove, CancelStepMove, AbortMove DEF TaskStep
<1>2. ASSUME NEW j \in Jobs, JobEnds(j) \/ Forget(j) PROVE [Port!Next]_(Port!vars)
  BY <1>2, JobEndsMove, ForgetMove
<1> QED  BY <1>1, <1>2, CancelCallMove, ServeMove DEF Next

\* KeepsPort: the client implements the port, whose verdicts are backed by what
\* became of the job: no caller is told of an end its job never had, whatever
\* calls fail, are repeated or aborted.
THEOREM ImplementsPort == Spec => KeepsPort
<1>1. IInv /\ [Next]_vars => [Port!Next]_(Port!vars)  BY PortNext, PortStutter
<1> QED  BY Invariance, PortInit, <1>1, PTL DEF Spec, KeepsPort, Port!Spec
=============================================================================
