----------------------------- MODULE StoreProofs -----------------------------
(***************************************************************************)
(* Theorems about StoredRun for every flow without hooks: what is in       *)
(* step_runs and in run_events is what the engine decides on, and the      *)
(* columns of a row are those its status is asked for.                     *)
(***************************************************************************)
EXTENDS StoredRun, OrderProofs

USE FlowAssumption, SchedulerAssumption

(* The invariant *)

\* The row of s is the last of its attempts in step_runs.
OnTop(s) ==
  LET top == At(s, rows[s].attempt)
  IN  IF rows[s].status = "none" THEN Attempts(s) = {}
      ELSE /\ top \in DOMAIN table
           /\ table[top].status = rows[s].status /\ table[top].job = rows[s].job
           /\ \A k \in Attempts(s) : k.attempt <= rows[s].attempt

\* Whatever is going to write to the row of an attempt finds it.
KeysStored ==
  /\ \A t \in tasks : At(t.step, t.attempt) \in DOMAIN table
  /\ \A p \in plan : p.step \in Steps => At(p.step, p.attempt) \in DOMAIN table

StoreInv == /\ StoreTypeOK /\ EventsTellRows /\ KeysStored
            /\ \A s \in Steps : OnTop(s)

-----------------------------------------------------------------------------
(* Reading and writing *)

LEMMA KeyFields ==
  ASSUME NEW s, NEW n
  PROVE  At(s, n).step = s /\ At(s, n).attempt = n
BY DEF At

LEMMA KeysTyped ==
  ASSUME NEW s \in Steps, NEW n \in Nat
  PROVE  At(s, n) \in Key
BY DEF At, Key

LEMMA KeysAreAt ==
  ASSUME NEW k \in Key
  PROVE  k = At(k.step, k.attempt) /\ k.step \in Steps /\ k.attempt \in Nat
BY DEF At, Key

LEMMA FreshTyped == Fresh \in Record /\ Fresh.status = "running" /\ Fresh.job = FALSE
BY StatusFacts DEF Fresh, Record, Columns

\* The entries of f hide those of g, which hide those of h.
Layered(t, f, g, h) ==
  /\ DOMAIN t = DOMAIN f \cup DOMAIN h
  /\ \A k \in DOMAIN f : t[k] = f[k]
  /\ \A k \in DOMAIN h \ DOMAIN f : t[k] = IF k \in DOMAIN g THEN g[k] ELSE h[k]

LEMMA LayerFields ==
  ASSUME NEW f, NEW g, NEW h, DOMAIN g \subseteq DOMAIN h
  PROVE  Layered(Over(f, Over(g, h)), f, g, h)
<1> DEFINE below == Over(g, h)
<1>1. /\ DOMAIN below = DOMAIN h
      /\ \A k \in DOMAIN h : below[k] = IF k \in DOMAIN g THEN g[k] ELSE h[k]
  BY DEF Over
<1> HIDE DEF below
<1>2. /\ DOMAIN Over(f, below) = DOMAIN f \cup DOMAIN below
      /\ \A k \in DOMAIN f : Over(f, below)[k] = f[k]
      /\ \A k \in DOMAIN below \ DOMAIN f : Over(f, below)[k] = below[k]
  BY DEF Over
<1>3. \A k \in DOMAIN h \ DOMAIN f :
        Over(f, below)[k] = IF k \in DOMAIN g THEN g[k] ELSE h[k]
  BY <1>1, <1>2
<1> QED  BY <1>1, <1>2, <1>3 DEF below, Layered

\* The latest attempt is the one of the row.
LEMMA TopKey ==
  ASSUME rows \in [Steps -> Row], StoreTypeOK, NEW s \in Steps, OnTop(s), rows[s].status # "none"
  PROVE  /\ LatestKey(s) = At(s, rows[s].attempt) /\ Attempts(s) # {}
         /\ LatestKey(s).attempt = rows[s].attempt
<1> DEFINE top == At(s, rows[s].attempt)
<1>1. rows[s] \in Row /\ rows[s].attempt \in Nat  BY DEF Row
<1>2. top \in DOMAIN table /\ \A k \in Attempts(s) : k.attempt <= rows[s].attempt  BY DEF OnTop
<1>3. top.step = s /\ top.attempt = rows[s].attempt  BY KeyFields
<1> HIDE DEF top
<1>4. top \in Attempts(s)  BY <1>2, <1>3 DEF Attempts
<1>5. ASSUME NEW k \in Attempts(s), \A l \in Attempts(s) : l.attempt <= k.attempt PROVE k = top
  <2>1. k \in Key /\ k.step = s  BY <1>5 DEF Attempts, StoreTypeOK
  <2>2. k.attempt \in Nat /\ k = At(s, k.attempt)  BY <2>1, KeysAreAt
  <2>3. k.attempt = rows[s].attempt  BY <1>1, <1>2, <1>3, <1>4, <1>5, <2>2
  <2> QED  BY <2>2, <2>3 DEF top
<1>6. LatestKey(s) = top  BY <1>2, <1>3, <1>4, <1>5 DEF LatestKey
<1> QED  BY <1>3, <1>4, <1>6 DEF top

\* latest_steps finds the rows the engine has.
LEMMA TopIsLatest ==
  ASSUME rows \in [Steps -> Row], Untouched, StoreTypeOK, \A s \in Steps : OnTop(s)
  PROVE  Latest = rows
<1>1. ASSUME NEW s \in Steps PROVE Latest[s] = rows[s]
  <2>1. rows[s] \in Row /\ rows[s].attempt \in Nat  BY DEF Row
  <2>2. CASE rows[s].status = "none"
    <3>1. Attempts(s) = {}  BY <2>2 DEF OnTop
    <3>2. rows[s] = NoRow  BY <2>2 DEF Untouched
    <3> QED  BY <3>1, <3>2 DEF Latest
  <2>3. CASE rows[s].status # "none"
    <3> DEFINE top == At(s, rows[s].attempt)
    <3>1. table[top].status = rows[s].status /\ table[top].job = rows[s].job  BY <2>3 DEF OnTop
    <3>2. LatestKey(s) = top /\ LatestKey(s).attempt = rows[s].attempt /\ Attempts(s) # {}  BY <2>3, TopKey
    <3> HIDE DEF top
    <3>3. Latest[s] = [status |-> rows[s].status, attempt |-> rows[s].attempt, job |-> rows[s].job]
      BY <3>1, <3>2 DEF Latest
    <3> QED  BY <2>1, <3>3 DEF Row
  <2> QED  BY <2>2, <2>3
<1>2. Latest = [s \in Steps |-> Latest[s]]  BY DEF Latest
<1> QED  BY <1>1, <1>2

\* What a decision settles is there: the latest rows of the steps it names.
SettledSteps(c) == c.cancel \cup (IF c.status = "none" THEN {} ELSE {c.step})

SettlesRow(c, s, k) ==
  /\ Settled(c)[k] \in Record
  /\ Settled(c)[k].job = table[k].job
  /\ Settled(c)[k].status = IF c.status # "none" /\ s = c.step THEN c.status ELSE "cancelled"
  /\ c.status # "none" /\ s = c.step => Settled(c)[k].filled = table[k].filled \cup Column(c)

LEMMA SettledFits ==
  ASSUME rows \in [Steps -> Row], StoreTypeOK, \A s \in Steps : OnTop(s), Latest = rows,
         NEW c \in Commands, Rightful(rows, c)
  PROVE  /\ SettledSteps(c) \subseteq Steps
         /\ \A s \in SettledSteps(c) : rows[s].status # "none"
         /\ DOMAIN Settled(c) = {At(s, rows[s].attempt) : s \in SettledSteps(c)}
         /\ DOMAIN Settled(c) \subseteq DOMAIN table
         /\ \A s \in SettledSteps(c) : SettlesRow(c, s, At(s, rows[s].attempt))
<1> DEFINE D == {At(s, rows[s].attempt) : s \in SettledSteps(c)}
<1>1. SettledSteps(c) \subseteq Steps  BY DEF SettledSteps, Rightful, ActiveSteps
<1>2. \A s \in SettledSteps(c) : rows[s].status # "none"
  BY DEF SettledSteps, Rightful, ActiveSteps, Active
<1>3. DOMAIN Settled(c) = D  BY DEF Settled, SettledSteps
<1>4. D \subseteq DOMAIN table  BY <1>1, <1>2 DEF OnTop
<1>5. ASSUME NEW s \in SettledSteps(c)
      PROVE  SettlesRow(c, s, At(s, rows[s].attempt))
  <2> DEFINE k == At(s, rows[s].attempt)
  <2>1. k \in D /\ k \in DOMAIN table /\ k.step = s  BY <1>4, KeyFields
  <2> HIDE DEF k
  <2>2. Settled(c)[k] = IF k.step \in (IF c.status = "none" THEN {} ELSE {c.step})
                        THEN [table[k] EXCEPT !.status = c.status, !.filled = table[k].filled \cup Column(c)]
                        ELSE [table[k] EXCEPT !.status = "cancelled"]
    BY <2>1 DEF Settled, SettledSteps
  <2>3. table[k] \in Record  BY <2>1 DEF StoreTypeOK
  <2>4. CASE c.status # "none" /\ s = c.step
    <3>1. c.status \in Status /\ Column(c) \subseteq Columns
      BY <2>4, StatusFacts DEF Rightful, Column, Columns
    <3>2. Settled(c)[k] = [table[k] EXCEPT !.status = c.status, !.filled = table[k].filled \cup Column(c)]
      BY <2>1, <2>2, <2>4
    <3> DEFINE f == table[k].filled \cup Column(c)
    <3>3. f \in SUBSET Columns  BY <2>3, <3>1 DEF Record
    <3> HIDE DEF f
    <3>4. [table[k] EXCEPT !.status = c.status, !.filled = f] \in Record
      BY <2>3, <3>1, <3>3 DEF Record
    <3>5. /\ [table[k] EXCEPT !.status = c.status, !.filled = f].job = table[k].job
          /\ [table[k] EXCEPT !.status = c.status, !.filled = f].status = c.status
          /\ [table[k] EXCEPT !.status = c.status, !.filled = f].filled = f
      BY <2>3 DEF Record
    <3> QED  BY <2>4, <3>2, <3>4, <3>5 DEF f, k, SettlesRow
  <2>5. CASE ~(c.status # "none" /\ s = c.step)
    <3>1. Settled(c)[k] = [table[k] EXCEPT !.status = "cancelled"]  BY <2>1, <2>2, <2>5
    <3>2. /\ [table[k] EXCEPT !.status = "cancelled"] \in Record
          /\ [table[k] EXCEPT !.status = "cancelled"].job = table[k].job
          /\ [table[k] EXCEPT !.status = "cancelled"].status = "cancelled"
      BY <2>3, StatusFacts DEF Record
    <3> QED  BY <2>5, <3>1, <3>2 DEF k, SettlesRow
  <2> QED  BY <2>4, <2>5
<1> HIDE DEF D
<1> QED  BY <1>1, <1>2, <1>3, <1>4, <1>5 DEF D

\* What a batch leaves in the row of a step it only settles.
LEMMA PersistFields ==
  ASSUME NEW r \in [Steps -> Row], NEW c \in Commands, NEW s \in Steps
  PROVE  /\ Persist(r, c, {})[s].attempt = r[s].attempt
         /\ Persist(r, c, {})[s].job = r[s].job
         /\ Persist(r, c, {})[s].status = IF c.status # "none" /\ s = c.step THEN c.status
                                         ELSE IF s \in c.cancel THEN "cancelled" ELSE r[s].status
<1>1. r[s] \in Row  OBVIOUS
<1>2. \A st : /\ [r[s] EXCEPT !.status = st].status = st
             /\ [r[s] EXCEPT !.status = st].attempt = r[s].attempt
             /\ [r[s] EXCEPT !.status = st].job = r[s].job
  BY <1>1 DEF Row
<1>3. Persist(r, c, {})[s] = IF s = c.step /\ c.status # "none" THEN [r[s] EXCEPT !.status = c.status]
                             ELSE IF s \in c.cancel THEN [r[s] EXCEPT !.status = "cancelled"] ELSE r[s]
  BY DEF Persist
<1> QED  BY <1>2, <1>3

\* A batch that inserts the attempts of N, at most one of a step and none older
\* than its row, and settles what the decision c says.
Inserts(N, ins) == DOMAIN ins = N /\ \A k \in N : ins[k] = Fresh

Newest(N) == /\ N \subseteq Key
             /\ \A k, l \in N : k.step = l.step => k = l
             /\ \A k \in N : k.attempt >= rows[k.step].attempt

RowsAfter(N, c) ==
  /\ \A k \in N : /\ rows'[k.step].status = "running" /\ rows'[k.step].attempt = k.attempt
                  /\ rows'[k.step].job = FALSE
  /\ \A s \in Steps : (\A k \in N : k.step # s) => rows'[s] = Persist(rows, c, {})[s]

LEMMA BatchOnTop ==
  ASSUME rows \in [Steps -> Row], StoreTypeOK, \A s \in Steps : OnTop(s), Latest = rows,
         NEW c \in Commands, Rightful(rows, c), NEW N, NEW ins, Inserts(N, ins), Newest(N), RowsAfter(N, c),
         table' = Over(ins, Over(Settled(c), table))
  PROVE  /\ \A s \in Steps : OnTop(s)'
         /\ DOMAIN table' \subseteq Key
         /\ \A k \in DOMAIN table' : table'[k] \in Record
         /\ N \subseteq DOMAIN table' /\ DOMAIN table \subseteq DOMAIN table'
<1> DEFINE D == DOMAIN Settled(c)
<1>1. /\ SettledSteps(c) \subseteq Steps /\ D \subseteq DOMAIN table
      /\ \A s \in SettledSteps(c) : rows[s].status # "none"
      /\ D = {At(s, rows[s].attempt) : s \in SettledSteps(c)}
  BY SettledFits
<1>2. /\ DOMAIN table' = N \cup DOMAIN table
      /\ \A k \in N : table'[k] = Fresh
      /\ \A k \in DOMAIN table \ N : table'[k] = IF k \in D THEN Settled(c)[k] ELSE table[k]
  <2> DEFINE set == Settled(c)
  <2>1. DOMAIN set = D /\ DOMAIN set \subseteq DOMAIN table /\ table' = Over(ins, Over(set, table))  BY <1>1
  <2> HIDE DEF set, D
  <2>2. Layered(table', ins, set, table)  BY <2>1, LayerFields
  <2> QED  BY <2>1, <2>2 DEF Inserts, Layered, set
<1>3. \A k \in D : /\ k.attempt = rows[k.step].attempt /\ k.step \in SettledSteps(c)
                   /\ Settled(c)[k] \in Record /\ Settled(c)[k].job = table[k].job
                   /\ Settled(c)[k].status = IF c.status # "none" /\ k.step = c.step THEN c.status ELSE "cancelled"
  <2> SUFFICES ASSUME NEW k \in D
               PROVE  /\ k.attempt = rows[k.step].attempt /\ k.step \in SettledSteps(c)
                      /\ Settled(c)[k] \in Record /\ Settled(c)[k].job = table[k].job
                      /\ Settled(c)[k].status = IF c.status # "none" /\ k.step = c.step THEN c.status ELSE "cancelled"
    OBVIOUS
  <2>1. PICK s \in SettledSteps(c) : k = At(s, rows[s].attempt)  BY <1>1
  <2>2. k.step = s /\ k.attempt = rows[s].attempt  BY <2>1, KeyFields
  <2>3. /\ Settled(c)[k] \in Record /\ Settled(c)[k].job = table[k].job
        /\ Settled(c)[k].status = IF c.status # "none" /\ s = c.step THEN c.status ELSE "cancelled"
    <3>1. SettlesRow(c, s, k)  BY <2>1, SettledFits
    <3> QED  BY <3>1 DEF SettlesRow
  <2> QED  BY <2>1, <2>2, <2>3
<1> HIDE DEF D
<1>4. ASSUME NEW s \in Steps PROVE OnTop(s)'
  <2>1. \A k \in DOMAIN table : k.step = s => k.attempt <= rows[s].attempt /\ rows[s].status # "none"
    <3> SUFFICES ASSUME NEW k \in DOMAIN table, k.step = s
                 PROVE  k.attempt <= rows[s].attempt /\ rows[s].status # "none"
      OBVIOUS
    <3>1. k \in Attempts(s)  BY DEF Attempts
    <3> QED  BY <3>1 DEF OnTop
  <2>2. \A k \in DOMAIN table : k.attempt \in Nat  BY DEF StoreTypeOK, Key
  <2>3. rows[s] \in Row /\ rows[s].attempt \in Nat  BY DEF Row
  <2>4. CASE \E k \in N : k.step = s
    <3>1. PICK k \in N : k.step = s  BY <2>4
    <3>2. k = At(s, k.attempt) /\ k.attempt \in Nat  BY <3>1, KeysAreAt DEF Newest
    <3>3. /\ rows'[s].status = "running" /\ rows'[s].attempt = k.attempt /\ rows'[s].job = FALSE
          /\ k.attempt >= rows[s].attempt
      BY <3>1 DEF RowsAfter, Newest
    <3>4. k \in DOMAIN table' /\ table'[k].status = "running" /\ table'[k].job = FALSE
      BY <1>2, FreshTyped
    <3>5. \A l \in DOMAIN table' : l.step = s => l.attempt <= k.attempt
      <4> SUFFICES ASSUME NEW l \in DOMAIN table', l.step = s PROVE l.attempt <= k.attempt  OBVIOUS
      <4>1. CASE l \in N
        <5>1. l = k  BY <3>1, <4>1 DEF Newest
        <5> QED  BY <3>2, <5>1
      <4>2. CASE l \in DOMAIN table  BY <2>1, <2>2, <2>3, <3>2, <3>3, <4>2
      <4> QED  BY <1>2, <4>1, <4>2
    <3> QED  BY <3>2, <3>3, <3>4, <3>5 DEF OnTop, Attempts
  <2>5. CASE \A k \in N : k.step # s
    <3>1. rows'[s] = Persist(rows, c, {})[s]  BY <2>5 DEF RowsAfter
    <3>2. /\ rows'[s].attempt = rows[s].attempt /\ rows'[s].job = rows[s].job
          /\ rows'[s].status = IF c.status # "none" /\ s = c.step THEN c.status
                               ELSE IF s \in c.cancel THEN "cancelled" ELSE rows[s].status
      BY <3>1, PersistFields
    <3>3. \A k \in DOMAIN table' : k.step = s => k \in DOMAIN table /\ k \notin N  BY <1>2, <2>5
    <3>4. CASE rows[s].status = "none"
      <4>1. s \notin SettledSteps(c)  BY <1>1, <3>4
      <4>2. rows'[s].status = "none"  BY <3>2, <3>4, <4>1 DEF SettledSteps
      <4>3. \A k \in DOMAIN table' : k.step # s  BY <2>1, <3>3, <3>4
      <4> QED  BY <4>2, <4>3 DEF OnTop, Attempts
    <3>5. CASE rows[s].status # "none"
      <4> DEFINE top == At(s, rows[s].attempt)
      <4>1. top \in DOMAIN table /\ table[top].status = rows[s].status /\ table[top].job = rows[s].job
        BY <3>5 DEF OnTop
      <4>2. top.step = s  BY KeyFields
      <4>d. s \in SettledSteps(c) => top \in D  BY <1>1
      <4> HIDE DEF top
      <4>3. top \in DOMAIN table' /\ top \notin N  BY <1>2, <2>5, <4>1, <4>2
      <4>4. table'[top] = IF top \in D THEN Settled(c)[top] ELSE table[top]  BY <1>2, <4>1, <4>3
      <4>5. "cancelled" # "none" /\ (c.status # "none" /\ s = c.step => s \in SettledSteps(c))
            /\ (s \in c.cancel => s \in SettledSteps(c))
            /\ (s \in SettledSteps(c) => s \in c.cancel \/ (c.status # "none" /\ s = c.step))
        BY DEF SettledSteps
      <4>6. top \in D => s \in SettledSteps(c)  BY <1>3, <4>2
      <4>7. table'[top].job = rows[s].job
        BY <1>3, <4>1, <4>4
      <4>8. table'[top].status = rows'[s].status
        <5>1. CASE s \in SettledSteps(c)
          <6>1. top \in D  BY <4>d, <5>1
          <6>2. table'[top].status = IF c.status # "none" /\ s = c.step THEN c.status ELSE "cancelled"
            BY <1>3, <4>2, <4>4, <6>1
          <6> QED  BY <3>2, <4>5, <5>1, <6>2
        <5>2. CASE s \notin SettledSteps(c)
          <6>1. table'[top] = table[top]  BY <4>4, <4>6, <5>2
          <6> QED  BY <3>2, <4>1, <4>5, <5>2, <6>1
        <5> QED  BY <5>1, <5>2
      <4>9. rows'[s].status # "none"  BY <3>2, <3>5
      <4>10. \A k \in DOMAIN table' : k.step = s => k.attempt <= rows[s].attempt  BY <2>1, <3>3
      <4> QED  BY <3>2, <4>3, <4>7, <4>8, <4>9, <4>10 DEF OnTop, Attempts, top
    <3> QED  BY <3>4, <3>5
  <2> QED  BY <2>4, <2>5
<1>5. DOMAIN table' \subseteq Key  BY <1>2 DEF Newest, StoreTypeOK
<1>6. \A k \in DOMAIN table' : table'[k] \in Record  BY <1>2, <1>3, FreshTyped DEF StoreTypeOK
<1> QED  BY <1>2, <1>4, <1>5, <1>6

-----------------------------------------------------------------------------
(* Following the events *)

\* A step whose last event is e may have the status st.
Tells(st, e) ==
  /\ e \in StepEvent
  /\ e = "none" => st = "none"
  /\ e \in {"step_activated", "step_waiting_on_subflow"} => st \in {"running", "cancelled"}
  /\ e = "step_waiting_approval" => st \in {"waiting_approval", "cancelled"}
  /\ e = "step_completed" => st = "completed"
  /\ e = "step_failed" => st \in {"failed", "failed_rejected"}

Told == \A s \in Steps : Tells(rows[s].status, told[s])

LEMMA ToldIsTold ==
  ASSUME told \in [Steps -> StepEvent]
  PROVE  Told <=> EventsTellRows
<1>1. ASSUME NEW s \in Steps
      PROVE  Tells(rows[s].status, told[s]) <=>
               rows[s].status \in
                 CASE told[s] = "none"                  -> {"none"}
                   [] told[s] \in {"step_activated", "step_waiting_on_subflow"} -> {"running", "cancelled"}
                   [] told[s] = "step_waiting_approval" -> {"waiting_approval", "cancelled"}
                   [] told[s] = "step_completed"        -> {"completed"}
                   [] told[s] = "step_failed"           -> {"failed", "failed_rejected"}
  <2>1. told[s] \in StepEvent  OBVIOUS
  <2> QED  BY <2>1 DEF Tells, StepEvent
<1> QED  BY <1>1 DEF Told, EventsTellRows

\* The events of a batch: of the attempts it inserts, and of the step it marks.
Speaks(ev, N, c) ==
  /\ DOMAIN ev \subseteq Steps
  /\ \A k \in N : k.step \in DOMAIN ev /\ Tells("running", ev[k.step])
  /\ \A s \in Steps : (\A k \in N : k.step # s) =>
       IF c.status # "none" /\ s = c.step THEN s \in DOMAIN ev /\ Tells(c.status, ev[s])
       ELSE s \notin DOMAIN ev

LEMMA BatchTells ==
  ASSUME rows \in [Steps -> Row], told \in [Steps -> StepEvent], Told,
         NEW c \in Commands, Rightful(rows, c), NEW N, NEW ev, Speaks(ev, N, c), RowsAfter(N, c),
         told' = Over(ev, told)
  PROVE  told' \in [Steps -> StepEvent] /\ Told'
<1>1. told' = [s \in Steps |-> IF s \in DOMAIN ev THEN ev[s] ELSE told[s]]
  BY DEF Over, Speaks
<1>2. ASSUME NEW s \in Steps PROVE Tells(rows'[s].status, told'[s])
  <2>1. CASE \E k \in N : k.step = s
    BY <1>1, <2>1 DEF RowsAfter, Speaks
  <2>2. CASE \A k \in N : k.step # s
    <3>1. rows'[s].status = IF c.status # "none" /\ s = c.step THEN c.status
                            ELSE IF s \in c.cancel THEN "cancelled" ELSE rows[s].status
      BY <2>2, PersistFields DEF RowsAfter
    <3>2. CASE c.status # "none" /\ s = c.step  BY <1>1, <2>2, <3>1, <3>2 DEF Speaks
    <3>3. CASE ~(c.status # "none" /\ s = c.step)
      <4>1. told'[s] = told[s] /\ Tells(rows[s].status, told[s])  BY <1>1, <2>2, <3>3 DEF Speaks, Told
      <4>2. s \in c.cancel => rows[s].status \in {"running", "waiting_approval"}
        BY DEF Rightful, ActiveSteps, Active
      <4> QED  BY <3>1, <3>3, <4>1, <4>2 DEF Tells
    <3> QED  BY <3>2, <3>3
  <2> QED  BY <2>1, <2>2
<1>3. \A s \in Steps : told'[s] \in StepEvent  BY <1>2 DEF Tells
<1> QED  BY <1>1, <1>2, <1>3 DEF Told

\* The event of a mark tells its status.
LEMMA MarkAnnounced ==
  ASSUME NEW r, NEW c, Rightful(r, c)
  PROVE  /\ DOMAIN Announces(c) = IF c.status = "none" THEN {} ELSE {c.step}
         /\ c.status # "none" => Tells(c.status, Announces(c)[c.step])
<1>1. CASE c.status = "none"  BY <1>1 DEF Announces, Nothing
<1>2. CASE c.status # "none"
  <2>1. \A e : DOMAIN Only(c.step, e) = {c.step} /\ Only(c.step, e)[c.step] = e  BY DEF Only
  <2>2. ASSUME NEW e, Announces(c) = Only(c.step, e), Tells(c.status, e)
        PROVE  /\ DOMAIN Announces(c) = {c.step}
               /\ Tells(c.status, Announces(c)[c.step])
    BY <2>1, <2>2
  <2>3. CASE c.status = "waiting_approval"
    <3>1. Announces(c) = Only(c.step, "step_waiting_approval")  BY <2>3 DEF Announces
    <3>2. Tells(c.status, "step_waiting_approval")  BY <2>3 DEF Tells, StepEvent
    <3> QED  BY <1>2, <2>2, <3>1, <3>2
  <2>4. CASE c.status = "completed"
    <3>1. Announces(c) = Only(c.step, "step_completed")  BY <2>4 DEF Announces
    <3>2. Tells(c.status, "step_completed")  BY <2>4 DEF Tells, StepEvent
    <3> QED  BY <1>2, <2>2, <3>1, <3>2
  <2>5. CASE c.status \in {"failed", "failed_rejected"}
    <3>1. Announces(c) = Only(c.step, "step_failed")  BY <2>5 DEF Announces
    <3>2. Tells(c.status, "step_failed")  BY <2>5 DEF Tells, StepEvent
    <3> QED  BY <1>2, <2>2, <3>1, <3>2
  <2>6. c.status \in {"waiting_approval", "completed", "failed", "failed_rejected"}
    BY <1>2 DEF Rightful
  <2> QED  BY <2>3, <2>4, <2>5, <2>6
<1> QED  BY <1>1, <1>2

LEMMA StepsSpeak ==
  ASSUME NEW kids
  PROVE  /\ DOMAIN Waits(kids) = kids
         /\ \A s \in kids : Tells("running", Waits(kids)[s])
         /\ \A s : /\ DOMAIN Only(s, "step_activated") = {s}
                  /\ Tells("running", Only(s, "step_activated")[s])
BY DEF Waits, Only, Tells, StepEvent

-----------------------------------------------------------------------------
(* The transactions of the lock holder *)

LEMMA InsertRow ==
  ASSUME NEW row \in Row, NEW n \in Nat, n >= row.attempt
  PROVE  /\ Insert(row, n).status = "running" /\ Insert(row, n).attempt = n
         /\ Insert(row, n).job = FALSE
BY DEF Insert

\* The subflow stubs are the new rows of the steps they are of.
LEMMA StubRow ==
  ASSUME IInv, NEW kids \in SUBSET Subflows, NEW s \in kids
  PROVE  /\ s \in Steps /\ rows[s].attempt \in Nat /\ 1 >= rows[s].attempt
         /\ Persist(rows, turn.cmds, kids)[s].status = "running"
         /\ Persist(rows, turn.cmds, kids)[s].attempt = 1
         /\ Persist(rows, turn.cmds, kids)[s].job = FALSE
<1>1. s \in Steps /\ rows[s] \in Row /\ rows[s].attempt \in Nat /\ rows[s].attempt <= 1
  BY DEF IInv, TypeOK, Coherent, SubflowOnce, Row
<1> DEFINE r == rows[s]
           to == Persist(rows, turn.cmds, kids)[s]
<1>2. to = Insert(r, 1)  BY <1>1 DEF Persist
<1>3. r \in Row /\ r.attempt \in Nat /\ 1 >= r.attempt  BY <1>1
<1> HIDE DEF r, to
<1>4. Insert(r, 1).status = "running" /\ Insert(r, 1).attempt = 1 /\ Insert(r, 1).job = FALSE
  <2>1. 1 \in Nat  OBVIOUS
  <2> QED  BY <1>3, <2>1, InsertRow, Zenon
<1>5. to.status = "running" /\ to.attempt = 1 /\ to.job = FALSE  BY <1>2, <1>4, Zenon
<1> QED  BY <1>1, <1>3, <1>5 DEF r, to

StubKeys(kids) == {At(s, 1) : s \in kids}

LEMMA StubsAreFresh ==
  ASSUME NEW kids
  PROVE  Inserts(StubKeys(kids), Stubs(kids))
BY DEF Inserts, Stubs, StubKeys

LEMMA StubKeyOf ==
  ASSUME NEW kids, NEW k \in StubKeys(kids)
  PROVE  k.step \in kids /\ k = At(k.step, 1) /\ k.attempt = 1
<1>1. PICK s \in kids : k = At(s, 1)  BY DEF StubKeys
<1> QED  BY <1>1, KeyFields

LEMMA StubKeyIn ==
  ASSUME NEW kids, NEW s \in kids
  PROVE  At(s, 1) \in StubKeys(kids)
BY DEF StubKeys

\* What the last transaction of a turn does.
LEMMA TurnBatch ==
  ASSUME IInv, KnownInv, FinishTurn
  PROVE  LET c == turn.cmds
             N == StubKeys(c.children)
         IN  /\ c \in Commands /\ Rightful(rows, c)
             /\ Newest(N) /\ RowsAfter(N, c)
             /\ Speaks(Over(Waits(c.children), Announces(c)), N, c)
<1> DEFINE c == turn.cmds
           N == StubKeys(c.children)
           ev == Over(Waits(c.children), Announces(c))
<1>0. /\ rows \in [Steps -> Row] /\ c \in Commands /\ c.children \in SUBSET Subflows
      /\ rows' = Persist(rows, c, c.children) /\ Rightful(rows, c)
  BY DEF IInv, TypeOK, Turn, Coherent, TurnFits, Fits, FinishTurn, KnownInv, TurnKnown
<1>k. \A k \in N : k.step \in c.children /\ k = At(k.step, 1) /\ k.attempt = 1  BY StubKeyOf
<1>i. \A s \in c.children : At(s, 1) \in N /\ At(s, 1).step = s  BY StubKeyIn, KeyFields
<1>s. \A s \in c.children : /\ s \in Steps /\ 1 >= rows[s].attempt
                            /\ rows'[s].status = "running" /\ rows'[s].attempt = 1 /\ rows'[s].job = FALSE
  BY <1>0, StubRow
<1>p. \A s \in Steps : s \notin c.children => rows'[s] = Persist(rows, c, {})[s]  BY FinishStarts
<1>m. /\ DOMAIN Announces(c) = IF c.status = "none" THEN {} ELSE {c.step}
      /\ c.status # "none" => Tells(c.status, Announces(c)[c.step]) /\ c.step \in Steps
  BY <1>0, MarkAnnounced DEF Rightful
<1>w. DOMAIN Waits(c.children) = c.children /\ \A s \in c.children : Tells("running", Waits(c.children)[s])
  BY StepsSpeak
<1>1. Newest(N)
  <2>1. N \subseteq Key
    <3> SUFFICES ASSUME NEW k \in N PROVE k \in Key  OBVIOUS
    <3> QED  BY <1>k, <1>s, KeysTyped
  <2>2. \A k, l \in N : k.step = l.step => k = l
    <3> SUFFICES ASSUME NEW k \in N, NEW l \in N, k.step = l.step PROVE k = l  OBVIOUS
    <3>1. k = At(k.step, 1) /\ l = At(l.step, 1)  BY <1>k
    <3> QED  BY <3>1
  <2>3. \A k \in N : k.attempt >= rows[k.step].attempt  BY <1>k, <1>s
  <2> QED  BY <2>1, <2>2, <2>3 DEF Newest
<1>2. RowsAfter(N, c)
  <2>1. \A k \in N : /\ rows'[k.step].status = "running" /\ rows'[k.step].attempt = k.attempt
                     /\ rows'[k.step].job = FALSE
    BY <1>k, <1>s
  <2>2. ASSUME NEW s \in Steps, \A k \in N : k.step # s PROVE rows'[s] = Persist(rows, c, {})[s]
    <3>1. s \notin c.children  BY <1>i, <2>2
    <3> QED  BY <1>p, <3>1
  <2> QED  BY <2>1, <2>2 DEF RowsAfter
<1>3. Speaks(ev, N, c)
  <2>1. /\ DOMAIN ev = c.children \cup DOMAIN Announces(c)
        /\ \A s \in c.children : ev[s] = Waits(c.children)[s]
        /\ \A s \in DOMAIN Announces(c) \ c.children : ev[s] = Announces(c)[s]
    BY <1>w DEF Over
  <2> HIDE DEF ev
  <2>2. \A k \in N : k.step \in DOMAIN ev /\ Tells("running", ev[k.step])  BY <1>k, <1>w, <2>1
  <2>3. ASSUME NEW s \in Steps, \A k \in N : k.step # s
        PROVE  IF c.status # "none" /\ s = c.step THEN s \in DOMAIN ev /\ Tells(c.status, ev[s])
               ELSE s \notin DOMAIN ev
    <3>1. s \notin c.children  BY <1>i, <2>3
    <3> QED  BY <1>m, <2>1, <3>1
  <2>4. DOMAIN ev \subseteq Steps  BY <1>m, <1>s, <2>1
  <2> QED  BY <2>2, <2>3, <2>4 DEF Speaks
<1> QED  BY <1>0, <1>1, <1>2, <1>3

\* What a flush with the activation of one step does.
LEMMA ActivationBatch ==
  ASSUME IInv, KnownInv, NEW a \in turn.cmds.activate, NEW kids \in SUBSET turn.cmds.children,
         ActivateStep(a, kids)
  PROVE  LET c == turn.cmds
             N == {At(a.step, a.attempt)} \cup StubKeys(kids)
         IN  /\ c \in Commands /\ Rightful(rows, c)
             /\ Inserts(N, Over(Only(At(a.step, a.attempt), Fresh), Stubs(kids)))
             /\ Newest(N) /\ RowsAfter(N, c)
             /\ Speaks(Over(Only(a.step, "step_activated"), Over(Waits(kids), Announces(c))), N, c)
<1> DEFINE c == turn.cmds
           new == At(a.step, a.attempt)
           N == {new} \cup StubKeys(kids)
           ins == Over(Only(new, Fresh), Stubs(kids))
           below == Over(Waits(kids), Announces(c))
           ev == Over(Only(a.step, "step_activated"), below)
           flushed == Persist(rows, c, kids)
<1>0. /\ rows \in [Steps -> Row] /\ c \in Commands /\ Rightful(rows, c) /\ kids \in SUBSET Subflows
      /\ a.step \in Steps /\ a.attempt \in Nat /\ a.step \notin Subflows
      /\ rows[a.step].attempt \in Nat /\ a.attempt > rows[a.step].attempt
  BY DEF IInv, TypeOK, Turn, Commands, Activation, Coherent, TurnFits, Fits, ActivateStep,
         KnownInv, TurnKnown, Row
<1>f. /\ flushed \in [Steps -> Row] /\ flushed[a.step].attempt = rows[a.step].attempt
      /\ rows' = [flushed EXCEPT ![a.step] = Insert(flushed[a.step], a.attempt)]
  <2>1. kids \subseteq Steps /\ a.step \notin kids  BY <1>0
  <2>2. rows' = [flushed EXCEPT ![a.step] = Insert(flushed[a.step], a.attempt)]  BY DEF ActivateStep
  <2> QED  BY <1>0, <2>1, <2>2, PersistTyped, PersistRow
<1>k. \A k \in StubKeys(kids) : k.step \in kids /\ k = At(k.step, 1) /\ k.attempt = 1  BY StubKeyOf
<1>i. \A s \in kids : At(s, 1) \in StubKeys(kids) /\ At(s, 1).step = s  BY StubKeyIn, KeyFields
<1>n. new.step = a.step /\ new.attempt = a.attempt /\ new \in Key  BY <1>0, KeyFields, KeysTyped
<1>j. Inserts(StubKeys(kids), Stubs(kids))  BY StubsAreFresh
<1> HIDE DEF new
<1>s. \A s \in kids : /\ s \in Steps /\ s # a.step /\ 1 >= rows[s].attempt
                      /\ rows'[s].status = "running" /\ rows'[s].attempt = 1 /\ rows'[s].job = FALSE
  <2> SUFFICES ASSUME NEW s \in kids
               PROVE  /\ s \in Steps /\ s # a.step /\ 1 >= rows[s].attempt
                      /\ rows'[s].status = "running" /\ rows'[s].attempt = 1 /\ rows'[s].job = FALSE
    OBVIOUS
  <2>1. /\ s \in Steps /\ 1 >= rows[s].attempt
        /\ flushed[s].status = "running" /\ flushed[s].attempt = 1 /\ flushed[s].job = FALSE
    BY <1>0, StubRow
  <2> HIDE DEF flushed
  <2>2. s # a.step  BY <1>0
  <2>3. rows'[s] = flushed[s]  BY <1>f, <2>1, <2>2
  <2> QED  BY <2>1, <2>2, <2>3
<1>a. rows'[a.step].status = "running" /\ rows'[a.step].attempt = a.attempt /\ rows'[a.step].job = FALSE
  <2> HIDE DEF flushed
  <2> DEFINE r == flushed[a.step]
             n == a.attempt
             to == rows'[a.step]
  <2>1. to = Insert(r, n)  BY <1>0, <1>f
  <2>2. r \in Row /\ n >= r.attempt /\ n \in Nat  BY <1>0, <1>f
  <2> HIDE DEF r, n, to
  <2>3. to.status = "running" /\ to.attempt = n /\ to.job = FALSE  BY <2>1, <2>2, InsertRow
  <2> QED  BY <2>3 DEF n, to
<1>p. \A s \in Steps : s # a.step /\ s \notin kids => rows'[s] = Persist(rows, c, {})[s]  BY ActivateStarts
<1>m. /\ DOMAIN Announces(c) = IF c.status = "none" THEN {} ELSE {c.step}
      /\ c.status # "none" => Tells(c.status, Announces(c)[c.step]) /\ c.step \in Steps
  BY <1>0, MarkAnnounced DEF Rightful
<1>w. /\ DOMAIN Waits(kids) = kids /\ \A s \in kids : Tells("running", Waits(kids)[s])
      /\ DOMAIN Only(a.step, "step_activated") = {a.step}
      /\ Tells("running", Only(a.step, "step_activated")[a.step])
  BY StepsSpeak
<1> HIDE DEF flushed
<1>1. Newest(N)
  <2>1. N \subseteq Key
    <3> SUFFICES ASSUME NEW k \in N PROVE k \in Key  OBVIOUS
    <3> QED  BY <1>k, <1>n, <1>s, KeysTyped
  <2>2. \A k, l \in N : k.step = l.step => k = l
    <3> SUFFICES ASSUME NEW k \in N, NEW l \in N, k.step = l.step PROVE k = l  OBVIOUS
    <3>1. \A m \in N : m = new \/ (m = At(m.step, 1) /\ m.step # a.step)  BY <1>k, <1>s
    <3>2. k = new \/ (k = At(k.step, 1) /\ k.step # a.step)  BY <3>1
    <3>3. l = new \/ (l = At(l.step, 1) /\ l.step # a.step)  BY <3>1
    <3> QED  BY <1>n, <3>2, <3>3
  <2>3. \A k \in N : k.attempt >= rows[k.step].attempt  BY <1>0, <1>k, <1>n, <1>s
  <2> QED  BY <2>1, <2>2, <2>3 DEF Newest
<1>2. RowsAfter(N, c)
  <2>1. \A k \in N : /\ rows'[k.step].status = "running" /\ rows'[k.step].attempt = k.attempt
                     /\ rows'[k.step].job = FALSE
    BY <1>a, <1>k, <1>n, <1>s
  <2>2. ASSUME NEW s \in Steps, \A k \in N : k.step # s PROVE rows'[s] = Persist(rows, c, {})[s]
    <3>1. s # a.step  BY <1>n, <2>2
    <3>2. s \notin kids  BY <1>i, <2>2
    <3> QED  BY <1>p, <3>1, <3>2
  <2> QED  BY <2>1, <2>2 DEF RowsAfter
<1>3. Inserts(N, ins)
  <2>1. DOMAIN Only(new, Fresh) = {new} /\ Only(new, Fresh)[new] = Fresh  BY DEF Only
  <2>2. DOMAIN ins = N /\ \A k \in N : ins[k] = IF k = new THEN Fresh ELSE Stubs(kids)[k]
    BY <1>j, <2>1 DEF Over, Inserts
  <2> HIDE DEF ins
  <2>3. \A k \in N : ins[k] = Fresh  BY <1>j, <2>2 DEF Inserts
  <2> QED  BY <2>2, <2>3 DEF Inserts
<1>4. Speaks(ev, N, c)
  <2>1. /\ DOMAIN below = kids \cup DOMAIN Announces(c)
        /\ \A s \in kids : below[s] = Waits(kids)[s]
        /\ \A s \in DOMAIN Announces(c) \ kids : below[s] = Announces(c)[s]
    BY <1>w DEF Over
  <2> HIDE DEF below
  <2>2. /\ DOMAIN ev = {a.step} \cup DOMAIN below
        /\ ev[a.step] = Only(a.step, "step_activated")[a.step]
        /\ \A s \in DOMAIN below : s # a.step => ev[s] = below[s]
    BY <1>w DEF Over
  <2> HIDE DEF ev
  <2>3. \A k \in N : k.step \in DOMAIN ev /\ Tells("running", ev[k.step])
    <3> SUFFICES ASSUME NEW k \in N PROVE k.step \in DOMAIN ev /\ Tells("running", ev[k.step])  OBVIOUS
    <3>1. CASE k = new  BY <1>n, <1>w, <2>2, <3>1
    <3>2. CASE k \in StubKeys(kids)
      <4>1. k.step \in kids /\ k.step # a.step  BY <1>k, <1>s, <3>2
      <4> QED  BY <1>w, <2>1, <2>2, <4>1
    <3> QED  BY <3>1, <3>2
  <2>4. ASSUME NEW s \in Steps, \A k \in N : k.step # s
        PROVE  IF c.status # "none" /\ s = c.step THEN s \in DOMAIN ev /\ Tells(c.status, ev[s])
               ELSE s \notin DOMAIN ev
    <3>1. s # a.step  BY <1>n, <2>4
    <3>2. s \notin kids  BY <1>i, <2>4
    <3> QED  BY <1>m, <2>1, <2>2, <3>1, <3>2
  <2>5. DOMAIN ev \subseteq Steps  BY <1>0, <1>m, <1>s, <2>1, <2>2
  <2> QED  BY <2>3, <2>4, <2>5 DEF Speaks
<1> QED  BY <1>0, <1>1, <1>2, <1>3, <1>4 DEF new

-----------------------------------------------------------------------------
(* The invariant is kept *)

\* What every action has to leave behind of the store; the keys come after.
Kept == /\ StoreTypeOK' /\ EventsTellRows'
        /\ \A s \in Steps : OnTop(s)'
        /\ DOMAIN table \subseteq DOMAIN table'

LEMMA ToldIsToldNext ==
  ASSUME told' \in [Steps -> StepEvent]
  PROVE  Told' <=> EventsTellRows'
<1>1. ASSUME NEW s \in Steps
      PROVE  Tells(rows'[s].status, told'[s]) <=>
               rows'[s].status \in
                 CASE told'[s] = "none"                  -> {"none"}
                   [] told'[s] \in {"step_activated", "step_waiting_on_subflow"} -> {"running", "cancelled"}
                   [] told'[s] = "step_waiting_approval" -> {"waiting_approval", "cancelled"}
                   [] told'[s] = "step_completed"        -> {"completed"}
                   [] told'[s] = "step_failed"           -> {"failed", "failed_rejected"}
  <2>1. told'[s] \in StepEvent  OBVIOUS
  <2> QED  BY <2>1 DEF Tells, StepEvent
<1> QED  BY <1>1 DEF Told, EventsTellRows

\* One transaction with the attempts of N and the decision c, in the state it
\* finds: it is never refused.
LEMMA BatchKept ==
  ASSUME IInv, KnownInv, StoreInv,
         NEW c \in Commands, Rightful(rows, c), NEW N, NEW ins, NEW ev,
         Inserts(N, ins), Newest(N), RowsAfter(N, c), Speaks(ev, N, c),
         Apply(ins, Settled(c), ev)
  PROVE  Kept /\ N \subseteq DOMAIN table'
<1>0. /\ rows \in [Steps -> Row] /\ Untouched /\ StoreTypeOK /\ \A s \in Steps : OnTop(s)
      /\ told \in [Steps -> StepEvent] /\ EventsTellRows
  BY DEF IInv, TypeOK, KnownInv, StoreInv, StoreTypeOK
<1>1. Latest = rows  BY <1>0, TopIsLatest
<1>2. DOMAIN Settled(c) \subseteq DOMAIN table  BY <1>0, <1>1, SettledFits
<1>3. table' = Over(ins, Over(Settled(c), table)) /\ told' = Over(ev, told)  BY <1>2 DEF Apply
<1>4. /\ \A s \in Steps : OnTop(s)'
      /\ DOMAIN table' \subseteq Key
      /\ \A k \in DOMAIN table' : table'[k] \in Record
      /\ N \subseteq DOMAIN table' /\ DOMAIN table \subseteq DOMAIN table'
  BY <1>0, <1>1, <1>3, BatchOnTop
<1>5. told' \in [Steps -> StepEvent] /\ Told'  BY <1>0, <1>3, ToldIsTold, BatchTells
<1>6. EventsTellRows'  BY <1>5, ToldIsToldNext
<1> QED  BY <1>4, <1>5, <1>6 DEF Kept, StoreTypeOK

LEMMA ActivationKept ==
  ASSUME IInv, KnownInv, StoreInv,
         NEW a \in turn.cmds.activate, NEW kids \in SUBSET turn.cmds.children, StoreActivation(a, kids)
  PROVE  Kept /\ At(a.step, a.attempt) \in DOMAIN table'
<1> DEFINE c == turn.cmds
           N == {At(a.step, a.attempt)} \cup StubKeys(kids)
           ins == Over(Only(At(a.step, a.attempt), Fresh), Stubs(kids))
           ev == Over(Only(a.step, "step_activated"), Over(Waits(kids), Announces(c)))
<1>1. /\ c \in Commands /\ Rightful(rows, c) /\ Inserts(N, ins) /\ Newest(N) /\ RowsAfter(N, c)
      /\ Speaks(ev, N, c)
  BY ActivationBatch DEF StoreActivation
<1>2. Apply(ins, Settled(c), ev)  BY DEF StoreActivation
<1>3. At(a.step, a.attempt) \in N  OBVIOUS
<1> HIDE DEF c, N, ins, ev
<1>4. Kept /\ N \subseteq DOMAIN table'  BY <1>1, <1>2, BatchKept
<1> QED  BY <1>3, <1>4

LEMMA TurnKept ==
  ASSUME IInv, KnownInv, StoreInv, StoreTurn
  PROVE  Kept
<1> DEFINE c == turn.cmds
           N == StubKeys(c.children)
           ins == Stubs(c.children)
           ev == Over(Waits(c.children), Announces(c))
<1>1. /\ c \in Commands /\ Rightful(rows, c) /\ Newest(N) /\ RowsAfter(N, c) /\ Speaks(ev, N, c)
  BY TurnBatch DEF StoreTurn
<1>2. Inserts(N, ins)  BY StubsAreFresh
<1>3. Apply(ins, Settled(c), ev)  BY DEF StoreTurn
<1> HIDE DEF c, N, ins, ev
<1> QED  BY <1>1, <1>2, <1>3, BatchKept

\* Filling a column of a row that is there changes nothing the engine sees.
LEMMA OneRow ==
  ASSUME NEW k \in DOMAIN table, NEW row, table' = Over(Nothing, Over(Only(k, row), table))
  PROVE  /\ DOMAIN table' = DOMAIN table /\ table'[k] = row
         /\ \A l \in DOMAIN table : l # k => table'[l] = table[l]
<1>1. /\ DOMAIN Nothing = {} /\ DOMAIN Only(k, row) = {k} /\ Only(k, row)[k] = row
  BY DEF Nothing, Only
<1>2. Layered(table', Nothing, Only(k, row), table)  BY <1>1, LayerFields
<1> QED  BY <1>1, <1>2 DEF Layered

LEMMA NoEvent == ASSUME NEW f, told \in [Steps -> f] PROVE Over(Nothing, told) = told
BY DEF Over, Nothing

LEMMA QuietKept ==
  ASSUME StoreInv, rows' = rows, UNCHANGED <<table, told>>
  PROVE  Kept
BY DEF StoreInv, StoreTypeOK, EventsTellRows, OnTop, Attempts, Kept

LEMMA KeyIsAt == ASSUME NEW t PROVE KeyOf(t) = At(t.step, t.attempt)
BY DEF KeyOf, At

LEMMA FailureKept ==
  ASSUME IInv, StoreInv, NEW t \in tasks, StoreFailure(t)
  PROVE  Kept
<1>0. rows' = rows  BY DEF StoreFailure, StartFails, JobFails, WaitGivesUp, store
<1>1. CASE t.reattached  BY <1>0, <1>1, QuietKept DEF StoreFailure
<1>2. CASE ~t.reattached
  <2> DEFINE k == KeyOf(t)
             row == [table[k] EXCEPT !.filled = table[k].filled \cup {"failure_detail"}]
  <2>1. k \in DOMAIN table  BY KeyIsAt DEF StoreInv, KeysStored
  <2>2. table[k] \in Record  BY <2>1 DEF StoreInv, StoreTypeOK
  <2>3. row \in Record /\ row.status = table[k].status /\ row.job = table[k].job
    BY <2>2 DEF Record, Columns
  <2>4. Apply(Nothing, Only(k, row), Nothing)  BY <1>2 DEF StoreFailure, Fill
  <2> HIDE DEF row, k
  <2>5. DOMAIN Only(k, row) = {k}  BY DEF Only
  <2>6. table' = Over(Nothing, Over(Only(k, row), table)) /\ told' = Over(Nothing, told)
    BY <2>1, <2>4, <2>5 DEF Apply
  <2>7. told' = told /\ told \in [Steps -> StepEvent]  BY <2>6, NoEvent DEF StoreInv, StoreTypeOK
  <2>8. /\ DOMAIN table' = DOMAIN table /\ table'[k] = row
        /\ \A l \in DOMAIN table : l # k => table'[l] = table[l]
    BY <2>1, <2>6, OneRow
  <2>9. \A l \in DOMAIN table : /\ table'[l] \in Record /\ table'[l].status = table[l].status
                                /\ table'[l].job = table[l].job
    BY <2>3, <2>8 DEF StoreInv, StoreTypeOK
  <2>10. StoreTypeOK'  BY <2>7, <2>8, <2>9 DEF StoreInv, StoreTypeOK
  <2>11. EventsTellRows'  BY <1>0, <2>7 DEF StoreInv, EventsTellRows
  <2>12. \A s \in Steps : OnTop(s)'  BY <1>0, <2>8, <2>9 DEF StoreInv, OnTop, Attempts
  <2> QED  BY <2>8, <2>10, <2>11, <2>12 DEF Kept
<1> QED  BY <1>1, <1>2

LEMMA JobIdKept ==
  ASSUME IInv, StoreInv, NEW t \in tasks, StoreJobId(t)
  PROVE  Kept
<1> DEFINE k == KeyOf(t)
           row == [table[k] EXCEPT !.job = TRUE]
<1>0. rows \in [Steps -> Row] /\ t.step \in Steps /\ t.attempt \in Nat  BY DEF IInv, TypeOK, Task
<1>1. k \in DOMAIN table /\ k.step = t.step /\ k.attempt = t.attempt
  BY KeyIsAt, KeyFields DEF StoreInv, KeysStored
<1>2. table[k] \in Record  BY <1>1 DEF StoreInv, StoreTypeOK
<1>3. row \in Record /\ row.status = table[k].status /\ row.job = TRUE  BY <1>2 DEF Record
<1>4. Apply(Nothing, Only(k, row), Nothing)  BY DEF StoreJobId
<1>k. k = At(t.step, t.attempt)  BY KeyIsAt
<1> HIDE DEF row, k
<1>5. DOMAIN Only(k, row) = {k}  BY DEF Only
<1>6. table' = Over(Nothing, Over(Only(k, row), table)) /\ told' = Over(Nothing, told)
  BY <1>1, <1>4, <1>5 DEF Apply
<1>7. told' = told /\ told \in [Steps -> StepEvent]  BY <1>6, NoEvent DEF StoreInv, StoreTypeOK
<1>8. /\ DOMAIN table' = DOMAIN table /\ table'[k] = row
      /\ \A l \in DOMAIN table : l # k => table'[l] = table[l]
  BY <1>1, <1>6, OneRow
<1>9. \A s \in Steps :
        /\ rows'[s].status = rows[s].status /\ rows'[s].attempt = rows[s].attempt
        /\ rows'[s].job = IF s = t.step /\ rows[s].attempt = t.attempt THEN TRUE ELSE rows[s].job
  <2> SUFFICES ASSUME NEW s \in Steps
               PROVE  /\ rows'[s].status = rows[s].status /\ rows'[s].attempt = rows[s].attempt
                      /\ rows'[s].job = IF s = t.step /\ rows[s].attempt = t.attempt THEN TRUE ELSE rows[s].job
    OBVIOUS
  <2> DEFINE b == rows[t.step].job \/ rows[t.step].attempt = t.attempt
  <2>1. rows' = [rows EXCEPT ![t.step].job = b]  BY DEF StoreJobId, PersistJobId
  <2>2. rows[s] \in Row /\ rows[s].job \in BOOLEAN  BY <1>0 DEF Row
  <2>3. CASE s # t.step  BY <1>0, <2>1, <2>3
  <2>4. CASE s = t.step
    <3>1. rows'[s] = [rows[s] EXCEPT !.job = b]  BY <1>0, <2>1, <2>4
    <3>2. b = IF rows[s].attempt = t.attempt THEN TRUE ELSE rows[s].job  BY <2>2, <2>4
    <3> HIDE DEF b
    <3> QED  BY <2>2, <2>4, <3>1, <3>2 DEF Row
  <2> QED  BY <2>3, <2>4
<1>10. StoreTypeOK'  BY <1>3, <1>7, <1>8 DEF StoreInv, StoreTypeOK
<1>11. EventsTellRows'  BY <1>7, <1>9 DEF StoreInv, EventsTellRows
<1>12. ASSUME NEW s \in Steps PROVE OnTop(s)'
  <2> DEFINE top == At(s, rows[s].attempt)
  <2>1. At(s, rows'[s].attempt) = top  BY <1>9
  <2>2. top.step = s /\ top.attempt = rows[s].attempt  BY KeyFields
  <2>3. k = top <=> s = t.step /\ rows[s].attempt = t.attempt  BY <1>1, <1>k, <2>2
  <2>4. rows[s].status # "none" => top \in DOMAIN table /\ table[top].status = rows[s].status
                                   /\ table[top].job = rows[s].job
    BY DEF StoreInv, OnTop
  <2>5. rows[s].status = "none" => Attempts(s)' = {}  BY <1>8 DEF StoreInv, OnTop, Attempts
  <2>6. rows[s].status # "none" => \A l \in Attempts(s)' : l.attempt <= rows[s].attempt
    BY <1>8 DEF StoreInv, OnTop, Attempts
  <2> HIDE DEF top
  <2>7. rows[s].status # "none" => top \in DOMAIN table' /\ table'[top].status = rows'[s].status
                                   /\ table'[top].job = rows'[s].job
    <3>1. CASE k = top  BY <1>3, <1>8, <1>9, <2>3, <2>4, <3>1
    <3>2. CASE k # top  BY <1>8, <1>9, <2>3, <2>4, <3>2
    <3> QED  BY <3>1, <3>2
  <2> QED  BY <1>9, <2>1, <2>5, <2>6, <2>7 DEF OnTop
<1> QED  BY <1>8, <1>10, <1>11, <1>12 DEF Kept

\* The keys of the tasks and of the recovery plan: where they come from.
TasksFrom(more) ==
  \A u \in tasks' : \/ \E t \in tasks : u.step = t.step /\ u.attempt = t.attempt
                    \/ At(u.step, u.attempt) \in more
PlanFrom(more) ==
  \A p \in plan' : p \in plan \/ p.step \notin Steps \/ At(p.step, p.attempt) \in more

LEMMA KeysFollow ==
  ASSUME StoreInv, Kept, NEW more \in SUBSET DOMAIN table', TasksFrom(more), PlanFrom(more)
  PROVE  StoreInv'
<1>1. \A u \in tasks' : At(u.step, u.attempt) \in DOMAIN table'
  BY DEF StoreInv, KeysStored, Kept, TasksFrom
<1>2. \A p \in plan' : p.step \in Steps => At(p.step, p.attempt) \in DOMAIN table'
  BY DEF StoreInv, KeysStored, Kept, PlanFrom
<1>3. KeysStored'  BY <1>1, <1>2 DEF KeysStored
<1> QED  BY <1>3 DEF StoreInv, Kept

LEMMA FewerKeys ==
  ASSUME NEW more, tasks' \subseteq tasks, plan' \subseteq plan
  PROVE  TasksFrom(more) /\ PlanFrom(more)
BY DEF TasksFrom, PlanFrom

LEMMA MovedKeys ==
  ASSUME IInv, NEW more, NEW t \in tasks,
         NEW pc \in {"starting", "persisting", "waiting", "completed", "failed"}, Move(t, pc), plan' = plan
  PROVE  TasksFrom(more) /\ PlanFrom(more)
<1> DEFINE moved == [t EXCEPT !.pc = pc]
<1>1. t \in Task  BY DEF IInv, TypeOK
<1>2. moved.step = t.step /\ moved.attempt = t.attempt  BY <1>1 DEF Task
<1>3. tasks' = (tasks \ {t}) \cup {moved}  BY DEF Move
<1> HIDE DEF moved
<1> QED  BY <1>2, <1>3 DEF TasksFrom, PlanFrom

LEMMA TaskStepKeys ==
  ASSUME IInv, NEW more, NEW t \in tasks, TaskStep(t)
  PROVE  TasksFrom(more) /\ PlanFrom(more)
BY MovedKeys DEF TaskStep, StartJob, StartFails, PersistJobId, JobCompletes, JobFails, WaitGivesUp

\* The recovery plan names rows that are there.
LEMMA PlanStored ==
  ASSUME IInv, StoreInv, Boot
  PROVE  PlanFrom(DOMAIN table)
<1> SUFFICES ASSUME NEW p \in RecoveryPlan, p.step \in Steps
             PROVE  At(p.step, p.attempt) \in DOMAIN table
  BY DEF Boot, PlanFrom
<1>1. p # Restart  BY FlowAssumption DEF Restart, FlowAssumption
<1>2. \E s \in Steps : rows[s].status = "running" /\ p.step = s /\ p.attempt = rows[s].attempt
  BY <1>1 DEF RecoveryPlan
<1> QED  BY <1>2 DEF StoreInv, OnTop

\* Every action of the stored run is the action of the run it is joined with.
LEMMA StoredSteps ==
  /\ \A a \in turn.cmds.activate, kids \in SUBSET turn.cmds.children : StoreActivation(a, kids) => Next
  /\ StoreTurn => Next
  /\ \A t \in tasks : StoreJobId(t) \/ StoreFailure(t) => Next /\ TaskStep(t)
  /\ StoreNothing => Next
<1>1. ASSUME NEW a \in turn.cmds.activate, NEW kids \in SUBSET turn.cmds.children, StoreActivation(a, kids)
      PROVE  Next
  BY <1>1 DEF StoreActivation, Next, LockStep
<1>2. StoreTurn => Next  BY DEF StoreTurn, Next, LockStep
<1>3. ASSUME NEW t \in tasks, StoreJobId(t) \/ StoreFailure(t) PROVE Next /\ TaskStep(t)
  BY <1>3 DEF StoreJobId, StoreFailure, TaskStep, Next
<1>4. ASSUME StoreNothing PROVE Next
  BY <1>4 DEF StoreNothing, Next, LockStep, TaskStep, Recover
<1> QED  BY <1>1, <1>2, <1>3, <1>4

LEMMA StoreIsNext == [StoreNext]_storedVars => [Next]_vars
BY StoredSteps DEF StoreNext, storedVars

LEMMA NothingKept ==
  ASSUME Hookless, IInv, StoreInv, StoreNothing
  PROVE  StoreInv'
<1>0. UNCHANGED <<table, told>> /\ hooks = {}  BY DEF StoreNothing, IInv
<1> DEFINE D == DOMAIN table'
<1> SUFFICES rows' = rows /\ TasksFrom(D) /\ PlanFrom(D)
  <2>1. Kept  BY <1>0, QuietKept
  <2> HIDE DEF D
  <2> QED  BY <2>1, KeysFollow DEF D
<1>d. D = DOMAIN table  BY <1>0
<1> HIDE DEF D
<1>1. CASE RunStarted \/ CancelRequested \/ DeadlineExceeded
  BY <1>1, FewerKeys DEF RunStarted, CancelRequested, DeadlineExceeded, store
<1>2. CASE Crash  BY <1>2, FewerKeys DEF Crash, store
<1>3. CASE Ended  BY <1>3, FewerKeys DEF Ended, vars
<1>4. ASSUME NEW s \in Steps, CancelJob(s) \/ AbortTask(s) \/ FollowOnSubmits(s)
      PROVE  rows' = rows /\ TasksFrom(D) /\ PlanFrom(D)
  BY <1>4, FewerKeys DEF CancelJob, AbortTask, FollowOnSubmits, store
<1>5. ASSUME NEW a \in turn.cmds.activate, ActivationFails(a)
      PROVE  rows' = rows /\ TasksFrom(D) /\ PlanFrom(D)
  BY <1>5, FewerKeys DEF ActivationFails, store
<1>6. ASSUME NEW t \in tasks, StartJob(t) \/ JobCompletes(t)
      PROVE  rows' = rows /\ TasksFrom(D) /\ PlanFrom(D)
  <2>1. rows' = rows  BY <1>6 DEF StartJob, JobCompletes, store
  <2>2. TaskStep(t)  BY <1>6 DEF TaskStep
  <2> QED  BY <2>1, <2>2, TaskStepKeys
<1>7. ASSUME NEW t \in tasks, TaskSubmits(t)
      PROVE  rows' = rows /\ TasksFrom(D) /\ PlanFrom(D)
  BY <1>7, FewerKeys DEF TaskSubmits, store
<1>8. ASSUME NEW c \in Clients, NEW s \in Steps, NEW type \in {"step_approved", "step_rejected"},
             ResolveApproval(c, s, type)
      PROVE  rows' = rows /\ TasksFrom(D) /\ PlanFrom(D)
  BY <1>8, FewerKeys DEF ResolveApproval, store
<1>9. ASSUME NEW c \in Clients, SubmitApproval(c)
      PROVE  rows' = rows /\ TasksFrom(D) /\ PlanFrom(D)
  BY <1>9, FewerKeys DEF SubmitApproval, store
<1>10. CASE Recover
  <2>1. CASE Boot
    <3>1. rows' = rows /\ tasks' = tasks  BY <2>1 DEF Boot, store
    <3>2. PlanFrom(D)  BY <1>d, <2>1, PlanStored
    <3> QED  BY <3>1, <3>2 DEF TasksFrom
  <2>2. CASE Serve  BY <2>2, FewerKeys DEF Serve, store
  <2>3. ASSUME NEW p \in plan, Reattach(p)
        PROVE  rows' = rows /\ TasksFrom(D) /\ PlanFrom(D)
    <3>1. p.step \in Steps  BY <2>3 DEF Reattach, IInv, TypeOK, Plan, Restart
    <3>2. At(p.step, p.attempt) \in D  BY <1>d, <3>1 DEF StoreInv, KeysStored
    <3>3. rows' = rows /\ plan' \subseteq plan /\ \A u \in tasks' : u \in tasks \/ (u.step = p.step /\ u.attempt = p.attempt)
      BY <2>3 DEF Reattach, store
    <3> QED  BY <3>2, <3>3 DEF TasksFrom, PlanFrom
  <2>4. ASSUME NEW p \in plan, RecoverBySubmit(p)
        PROVE  rows' = rows /\ TasksFrom(D) /\ PlanFrom(D)
    BY <2>4, FewerKeys DEF RecoverBySubmit, store
  <2> QED  BY <1>10, <2>1, <2>2, <2>3, <2>4 DEF Recover
<1> QED  BY <1>0, <1>1, <1>2, <1>3, <1>4, <1>5, <1>6, <1>7, <1>8, <1>9, <1>10 DEF StoreNothing

LEMMA NextStored ==
  ASSUME Hookless
  PROVE  IInv /\ KnownInv /\ StoreInv /\ [StoreNext]_storedVars => StoreInv'
<1> SUFFICES ASSUME IInv, KnownInv, StoreInv, [StoreNext]_storedVars PROVE StoreInv'  OBVIOUS
<1>1. ASSUME NEW a \in turn.cmds.activate, NEW kids \in SUBSET turn.cmds.children, StoreActivation(a, kids)
      PROVE  StoreInv'
  <2> DEFINE new == At(a.step, a.attempt)
             D == DOMAIN table'
  <2>1. Kept /\ new \in D  BY <1>1, ActivationKept
  <2>2. ActivateStep(a, kids)  BY <1>1 DEF StoreActivation
  <2>3. plan' = plan /\ \A u \in tasks' : u \in tasks \/ (u.step = a.step /\ u.attempt = a.attempt)
    BY <2>2 DEF ActivateStep
  <2>4. TasksFrom(D) /\ PlanFrom(D)  BY <2>1, <2>3 DEF TasksFrom, PlanFrom
  <2> HIDE DEF D
  <2> QED  BY <2>1, <2>4, KeysFollow DEF D
<1>2. CASE StoreTurn
  <2>1. tasks' = tasks /\ plan' = plan  BY <1>2 DEF StoreTurn, FinishTurn
  <2> DEFINE D == DOMAIN table'
  <2>2. TasksFrom(D) /\ PlanFrom(D)  BY <2>1, FewerKeys
  <2>3. Kept  BY <1>2, TurnKept
  <2> HIDE DEF D
  <2> QED  BY <2>2, <2>3, KeysFollow DEF D
<1>3. ASSUME NEW t \in tasks, StoreJobId(t) \/ StoreFailure(t) PROVE StoreInv'
  <2> DEFINE D == DOMAIN table'
  <2>1. TaskStep(t)  BY <1>3, StoredSteps
  <2>2. TasksFrom(D) /\ PlanFrom(D)  BY <2>1, TaskStepKeys
  <2>3. Kept  BY <1>3, JobIdKept, FailureKept
  <2> HIDE DEF D
  <2> QED  BY <2>2, <2>3, KeysFollow DEF D
<1>4. CASE StoreNothing  BY <1>4, NothingKept
<1>5. CASE UNCHANGED storedVars
  <2>1. rows' = rows /\ tasks' = tasks /\ plan' = plan /\ UNCHANGED <<table, told>>
    BY <1>5 DEF storedVars, vars
  <2> DEFINE D == DOMAIN table'
  <2>2. TasksFrom(D) /\ PlanFrom(D)  BY <2>1, FewerKeys
  <2>3. Kept  BY <2>1, QuietKept
  <2> HIDE DEF D
  <2> QED  BY <2>2, <2>3, KeysFollow DEF D
<1> QED  BY <1>1, <1>2, <1>3, <1>4, <1>5 DEF StoreNext

LEMMA InitStored == StoreInit => IInv /\ KnownInv /\ StoreInv
<1> SUFFICES ASSUME StoreInit PROVE IInv /\ KnownInv /\ StoreInv  OBVIOUS
<1>1. Init /\ table = Nothing /\ told = [s \in Steps |-> "none"]  BY DEF StoreInit
<1>2. IInv /\ KnownInv  BY <1>1, InitCoherent, InitKnown
<1>3. DOMAIN table = {}  BY <1>1 DEF Nothing
<1>4. \A s \in Steps : rows[s].status = "none"  BY <1>1 DEF Init, NoRow
<1>5. tasks = {} /\ plan = {}  BY <1>1 DEF Init
<1>6. StoreTypeOK  BY <1>1, <1>3 DEF StoreTypeOK, StepEvent
<1>7. EventsTellRows  BY <1>1, <1>4 DEF EventsTellRows
<1>8. \A s \in Steps : OnTop(s)  BY <1>3, <1>4 DEF OnTop, Attempts
<1> QED  BY <1>2, <1>5, <1>6, <1>7, <1>8 DEF StoreInv, KeysStored

\* The three invariants together.
StoredInv == IInv /\ KnownInv /\ StoreInv

LEMMA StoredAlways == ASSUME Hookless PROVE StoreSpec => []StoredInv
<1>1. StoreInit => StoredInv  BY InitStored DEF StoredInv
<1>2. StoredInv /\ [StoreNext]_storedVars => StoredInv'
  BY StoreIsNext, NextCoherent, NextKnown, NextStored DEF StoredInv
<1> QED  BY <1>1, <1>2, PTL DEF StoreSpec

-----------------------------------------------------------------------------
(* What a status stands on *)

\* The columns f of a row of s are what the status st is asked for.
Holds(s, st, f) ==
  /\ st \in {"waiting_approval", "completed", "failed_rejected"} => "output" \in f
  /\ st = "completed" /\ s \in HumanLoop => "approved" \in f
  /\ st = "failed_rejected" => "rejected" \in f
  /\ st = "failed" => "failure_reason" \in f

Results ==
  \A s \in Steps : rows[s].status # "none" => Holds(s, rows[s].status, table[At(s, rows[s].attempt)].filled)

\* Commands that tell what a human decided, and find the question on the rows r.
Decides(c) == c.status = "failed_rejected" \/ (c.status = "completed" /\ c.step \in HumanLoop)
Answers(r, c) == Decides(c) => c.step \in Steps /\ r[c.step].status = "waiting_approval"

\* Only the answer of a human decides; a task, a subflow, a deadline does not.
LEMMA ReportsDecideNothing ==
  ASSUME Hookless, NEW r, NEW s \in Steps
  PROVE  ~Decides(OnStepCompleted(r, s)) /\ ~Decides(OnStepFailed(r, s))
<1>1. ASSUME NEW c, NEW d, Framed(c, d), ~Decides(c) PROVE ~Decides(d)  BY <1>1 DEF Framed, Decides
<1>2. ~Decides(OnStepCompleted(r, s))
  <2>1. s \notin AfterHooks  BY DEF Hookless
  <2>2. CASE s \in HumanLoop
    <3>1. OnStepCompleted(r, s) = Mark(s, "waiting_approval")
      BY <2>1, <2>2, MarkBare, StatusFacts DEF OnStepCompleted
    <3> QED  BY <3>1, MarkFields, StatusFacts DEF Decides
  <2>3. CASE s \notin HumanLoop
    <3>1. OnStepCompleted(r, s) = Route(Mark(s, "completed"), SetStatus(r, s, "completed"), OnSuccess[s])
      BY <2>1, <2>3, MarkBare, StatusFacts DEF OnStepCompleted
    <3>2. Mark(s, "completed") \in Commands /\ ~Decides(Mark(s, "completed"))
      BY <2>3, MarkFields, StatusFacts DEF Decides
    <3> QED  BY <1>1, <3>1, <3>2, RouteFrames
  <2> QED  BY <2>2, <2>3
<1>3. ~Decides(OnStepFailed(r, s))
  <2>1. CASE r[s].attempt <= Retries[s]
    <3>1. NoCommands \in Commands /\ ~Decides(NoCommands)  BY NoCommandsTyped DEF NoCommands, Decides
    <3> QED  BY <1>1, <2>1, <3>1, LaunchFrames DEF OnStepFailed
  <2>2. CASE ~(r[s].attempt <= Retries[s])
    <3> DEFINE m == Mark(s, "failed")
               c == Cancel(m, ActiveSteps(r) \ {s})
    <3>1. ActiveSteps(r) \ {s} \in SUBSET Steps  BY DEF ActiveSteps
    <3>2. m \in Commands /\ m.status = "failed"  BY MarkFields, StatusFacts
    <3> HIDE DEF m
    <3>3. c \in Commands /\ c.status = m.status  BY <3>1, <3>2, CancelFields
    <3>4. OnStepFailed(r, s) = Route(c, FailFast(r, s), OnFailure[s])  BY <2>2 DEF OnStepFailed, m
    <3> HIDE DEF c
    <3>5. ~Decides(c)  BY <3>2, <3>3 DEF Decides
    <3> QED  BY <1>1, <3>3, <3>4, <3>5, RouteFrames
  <2> QED  BY <2>1, <2>2
<1> QED  BY <1>2, <1>3

LEMMA OthersDecideNothing ==
  ASSUME Hookless, NEW r, NEW ph
  PROVE  ~Decides(OnRunStarted(r)) /\ ~Decides(Stop(r, ph))
<1>1. ~Decides(Stop(r, ph))  BY DEF Stop, Cancel, NoCommands, Decides
<1> DEFINE c == RunHooks(NoCommands, "none")
<1>2. c \in Commands /\ c.status = "none"  BY NoCommandsTyped DEF RunHooks, NoCommands, Commands
<1>3. OnRunStarted(r) = Launch(c, r, Ready(r, EntrySteps))  BY DEF OnRunStarted, Hookless
<1> HIDE DEF c
<1> QED  BY <1>1, <1>2, <1>3, LaunchFrames DEF Framed, Decides

\* Whatever a human decides is about the step that is named.
LEMMA AnswersName ==
  ASSUME NEW r, NEW s \in Steps
  PROVE  OnStepApproved(r, s).step = s /\ OnStepRejected(r, s).step = s
<1>1. /\ Mark(s, "completed") \in Commands /\ Mark(s, "completed").step = s
      /\ Mark(s, "failed_rejected") \in Commands /\ Mark(s, "failed_rejected").step = s
  BY MarkFields, StatusFacts
<1> QED  BY <1>1, RouteFrames, LaunchFrames DEF OnStepApproved, OnStepRejected, Framed

LEMMA SubmitAnswers ==
  ASSUME Answers(rows, turn.cmds), NEW c, c.gate = "none", Submit(c, hooks),
         phase = "running" /\ ~turn.held => Answers(rows, c)
  PROVE  Answers(rows, turn'.cmds)
<1>1. CASE turn' = turn  BY <1>1
<1>2. CASE turn' # turn
  <2>1. turn' = Held(c) /\ phase = "running" /\ ~turn.held  BY <1>2 DEF Submit, Drive, Free
  <2>2. Held(c).cmds = c  BY DEF Held
  <2> QED  BY <2>1, <2>2
<1> QED  BY <1>1, <1>2

LEMMA NextAnswers ==
  ASSUME Hookless, IInv, Booted, Tended, Answers(rows, turn.cmds), [Next]_vars
  PROVE  Answers(rows', turn'.cmds)
<1>0. /\ TypeOK /\ rows \in [Steps -> Row] /\ hooks = {} /\ turn \in Turn /\ turn.cmds \in Commands
      /\ \A t \in tasks : t.step \in Steps
      /\ \A p \in plan : p.kind = "fail" => p.step \in Steps
  BY DEF IInv, TypeOK, Task, Turn, Plan, Restart
<1>q. ASSUME \A s \in Steps : rows'[s].status = rows[s].status, turn'.cmds = turn.cmds
      PROVE  Answers(rows', turn'.cmds)
  BY <1>q DEF Answers
<1>i. ASSUME turn' = Idle PROVE Answers(rows', turn'.cmds)
  <2>1. ~Decides(turn'.cmds)  BY <1>i DEF Idle, NoCommands, Decides
  <2> QED  BY <2>1 DEF Answers
<1>s. ASSUME NEW c, Plain(c), Submit(c, hooks), rows' = rows, phase = "running" /\ ~turn.held => Answers(rows, c)
      PROVE  Answers(rows', turn'.cmds)
  <2>1. Answers(rows, turn'.cmds)  BY <1>s, SubmitAnswers DEF Plain
  <2> QED  BY <1>s, <2>1
<1>d. ASSUME NEW c, ~Decides(c) PROVE Answers(rows, c)  BY <1>d DEF Answers
<1>p. /\ \A s \in Steps : /\ Plain(OnStepCompleted(rows, s)) /\ Plain(OnStepFailed(rows, s))
                          /\ Plain(OnStepApproved(rows, s)) /\ Plain(OnStepRejected(rows, s))
      /\ Plain(OnRunStarted(rows)) /\ Plain(Stop(rows, "failed")) /\ Plain(Stop(rows, "cancelled"))
  BY <1>0, DecisionsPlain
<1>1. ASSUME NEW s \in Steps, CancelJob(s) \/ AbortTask(s) PROVE Answers(rows', turn'.cmds)
  <2>1. rows' = rows /\ turn'.cmds = turn.cmds  BY <1>0, <1>1 DEF CancelJob, AbortTask, Turn, store
  <2> QED  BY <1>q, <2>1
<1>2. ASSUME NEW a \in turn.cmds.activate, NEW kids \in SUBSET turn.cmds.children, ActivateStep(a, kids)
      PROVE  Answers(rows', turn'.cmds)
  <2>1. turn'.cmds.status = "none"  BY <1>0, <1>2 DEF ActivateStep, Turn, Commands
  <2> QED  BY <2>1 DEF Answers, Decides
<1>3. ASSUME NEW a \in turn.cmds.activate, ActivationFails(a) PROVE Answers(rows', turn'.cmds)
  BY <1>i, <1>3 DEF ActivationFails
<1>4. ASSUME FinishTurn PROVE Answers(rows', turn'.cmds)  BY <1>i, <1>4 DEF FinishTurn
<1>5. ASSUME RunStarted PROVE Answers(rows', turn'.cmds)
  <2>1. Submit(OnRunStarted(rows), hooks) /\ rows' = rows  BY <1>5 DEF RunStarted, store
  <2> QED  BY <1>d, <1>p, <1>s, <2>1, OthersDecideNothing
<1>6. ASSUME NEW t \in tasks, TaskSubmits(t) PROVE Answers(rows', turn'.cmds)
  <2> DEFINE c == IF t.pc = "completed" THEN OnStepCompleted(rows, t.step) ELSE OnStepFailed(rows, t.step)
  <2>1. Submit(c, hooks) /\ rows' = rows  BY <1>6 DEF TaskSubmits, store
  <2>2. Plain(c) /\ ~Decides(c)  BY <1>0, <1>p, ReportsDecideNothing
  <2> HIDE DEF c
  <2> QED  BY <1>d, <1>s, <2>1, <2>2
<1>7. ASSUME NEW s \in Steps, FollowOnSubmits(s) PROVE Answers(rows', turn'.cmds)
  <2>1. Submit(OnStepFailed(rows, s), hooks) /\ rows' = rows  BY <1>7 DEF FollowOnSubmits, store
  <2> QED  BY <1>d, <1>p, <1>s, <2>1, ReportsDecideNothing
<1>8. ASSUME CancelRequested \/ DeadlineExceeded PROVE Answers(rows', turn'.cmds)
  <2>1. PICK ph \in {"cancelled", "failed"} : Submit(Stop(rows, ph), hooks)
    BY <1>8 DEF CancelRequested, DeadlineExceeded
  <2>2. rows' = rows  BY <1>8 DEF CancelRequested, DeadlineExceeded, store
  <2>3. Plain(Stop(rows, ph)) /\ ~Decides(Stop(rows, ph))  BY <1>p, OthersDecideNothing
  <2> QED  BY <1>d, <1>s, <2>1, <2>2, <2>3
<1>9. ASSUME NEW c \in Clients, NEW s \in Steps, NEW type \in {"step_approved", "step_rejected"},
             ResolveApproval(c, s, type)
      PROVE  Answers(rows', turn'.cmds)
  BY <1>q, <1>9 DEF ResolveApproval, store
<1>10. ASSUME NEW d \in Clients, SubmitApproval(d) PROVE Answers(rows', turn'.cmds)
  <2> DEFINE s == clients[d].step
             c == IF clients[d].type = "step_approved" THEN OnStepApproved(rows, s) ELSE OnStepRejected(rows, s)
  <2>1. s \in Steps  BY <1>0, <1>10 DEF SubmitApproval, TypeOK, Call
  <2>2. Submit(c, hooks) /\ rows' = rows  BY <1>10 DEF SubmitApproval, store
  <2>3. phase = "running" /\ ~turn.held => rows[s].status = "waiting_approval"  BY <2>1, BetweenTurns
  <2> HIDE DEF s
  <2>4. Plain(c) /\ c.step = s  BY <1>p, <2>1, AnswersName
  <2> HIDE DEF c
  <2>5. phase = "running" /\ ~turn.held => Answers(rows, c)  BY <2>1, <2>3, <2>4 DEF Answers
  <2> QED  BY <1>s, <2>2, <2>4, <2>5
<1>11. ASSUME NEW t \in tasks, TaskStep(t) PROVE Answers(rows', turn'.cmds)
  <2>1. turn' = turn
    BY <1>11 DEF TaskStep, StartJob, StartFails, PersistJobId, JobCompletes, JobFails, WaitGivesUp
  <2>2. CASE PersistJobId(t)  BY <1>0, <1>q, <2>1, <2>2, JobIdStatuses
  <2>3. CASE ~PersistJobId(t)
    <3>1. rows' = rows
      BY <1>11, <2>3 DEF TaskStep, StartJob, StartFails, JobCompletes, JobFails, WaitGivesUp, store
    <3> QED  BY <1>q, <2>1, <3>1
  <2> QED  BY <2>2, <2>3
<1>12. ASSUME Crash PROVE Answers(rows', turn'.cmds)  BY <1>i, <1>12 DEF Crash
<1>13. ASSUME Boot \/ Serve PROVE Answers(rows', turn'.cmds)  BY <1>q, <1>13 DEF Boot, Serve, store
<1>14. ASSUME NEW p \in plan, Reattach(p) PROVE Answers(rows', turn'.cmds)
  BY <1>q, <1>14 DEF Reattach, store
<1>15. ASSUME NEW p \in plan, RecoverBySubmit(p) PROVE Answers(rows', turn'.cmds)
  <2> DEFINE c == IF p.kind = "fail" THEN OnStepFailed(rows, p.step) ELSE OnRunStarted(rows)
  <2>1. Submit(c, hooks) /\ rows' = rows  BY <1>15 DEF RecoverBySubmit, store
  <2>2. Plain(c) /\ ~Decides(c)  BY <1>0, <1>p, ReportsDecideNothing, OthersDecideNothing
  <2> HIDE DEF c
  <2> QED  BY <1>d, <1>s, <2>1, <2>2
<1>16. ASSUME UNCHANGED vars PROVE Answers(rows', turn'.cmds)  BY <1>q, <1>16 DEF vars
<1>17. ~ \E h \in hooks : HookStep(h)  BY <1>0
<1> QED
  BY <1>1, <1>2, <1>3, <1>4, <1>5, <1>6, <1>7, <1>8, <1>9, <1>10, <1>11, <1>12, <1>13, <1>14, <1>15,
     <1>16, <1>17
  DEF Next, LockStep, Recover, Ended

\* A mark fills the columns its status is asked for; that of a decision leaves
\* those of the question.
LEMMA MarkHolds ==
  ASSUME NEW c, c.status \in {"waiting_approval", "completed", "failed", "failed_rejected"}, c.step \in Steps,
         NEW r, Answers(r, c), NEW f, Holds(c.step, r[c.step].status, f)
  PROVE  Holds(c.step, c.status, f \cup Column(c))
<1>1. CASE c.status = "waiting_approval"
  <2>1. Column(c) = {"output"}  BY <1>1 DEF Column
  <2> QED  BY <1>1, <2>1 DEF Holds
<1>2. CASE c.status = "completed" /\ c.step \notin HumanLoop
  <2>1. Column(c) = {"output"}  BY <1>2 DEF Column
  <2> QED  BY <1>2, <2>1 DEF Holds
<1>3. CASE c.status = "completed" /\ c.step \in HumanLoop
  <2>1. Column(c) = {"approved"}  BY <1>3 DEF Column
  <2>2. "output" \in f  BY <1>3 DEF Answers, Decides, Holds
  <2> QED  BY <1>3, <2>1, <2>2 DEF Holds
<1>4. CASE c.status = "failed"
  <2>1. Column(c) = {"failure_reason"}  BY <1>4 DEF Column
  <2> QED  BY <1>4, <2>1 DEF Holds
<1>5. CASE c.status = "failed_rejected"
  <2>1. Column(c) = {"rejected"}  BY <1>5 DEF Column
  <2>2. "output" \in f  BY <1>5 DEF Answers, Decides, Holds
  <2> QED  BY <1>5, <2>1, <2>2 DEF Holds
<1> QED  BY <1>1, <1>2, <1>3, <1>4, <1>5

LEMMA BatchResults ==
  ASSUME IInv, KnownInv, StoreInv, Results,
         NEW c \in Commands, Rightful(rows, c), Answers(rows, c), NEW N, NEW ins, NEW ev,
         Inserts(N, ins), Newest(N), RowsAfter(N, c), Apply(ins, Settled(c), ev)
  PROVE  Results'
<1> DEFINE D == DOMAIN Settled(c)
<1>0. /\ rows \in [Steps -> Row] /\ Untouched /\ StoreTypeOK /\ \A s \in Steps : OnTop(s)
  BY DEF IInv, TypeOK, KnownInv, StoreInv
<1>1. Latest = rows  BY <1>0, TopIsLatest
<1>2. /\ D \subseteq DOMAIN table /\ SettledSteps(c) \subseteq Steps
      /\ \A s \in SettledSteps(c) : rows[s].status # "none"
      /\ D = {At(s, rows[s].attempt) : s \in SettledSteps(c)}
      /\ \A s \in SettledSteps(c) : SettlesRow(c, s, At(s, rows[s].attempt))
  BY <1>0, <1>1, SettledFits
<1>3. table' = Over(ins, Over(Settled(c), table))  BY <1>2 DEF Apply
<1>4. \A k \in DOMAIN table \ N : table'[k] = IF k \in D THEN Settled(c)[k] ELSE table[k]
  <2> DEFINE set == Settled(c)
  <2>1. DOMAIN set = D /\ DOMAIN set \subseteq DOMAIN table /\ table' = Over(ins, Over(set, table))  BY <1>2, <1>3
  <2> HIDE DEF set, D
  <2>2. Layered(table', ins, set, table)  BY <2>1, LayerFields
  <2> QED  BY <2>1, <2>2 DEF Inserts, Layered, set
<1> HIDE DEF D
<1>5. ASSUME NEW s \in Steps, rows'[s].status # "none"
      PROVE  Holds(s, rows'[s].status, table'[At(s, rows'[s].attempt)].filled)
  <2>1. CASE \E k \in N : k.step = s
    <3>1. rows'[s].status = "running"  BY <2>1 DEF RowsAfter
    <3> QED  BY <3>1 DEF Holds
  <2>2. CASE \A k \in N : k.step # s
    <3> DEFINE top == At(s, rows[s].attempt)
    <3>1. /\ rows'[s].attempt = rows[s].attempt
          /\ rows'[s].status = IF c.status # "none" /\ s = c.step THEN c.status
                               ELSE IF s \in c.cancel THEN "cancelled" ELSE rows[s].status
      BY <1>0, <2>2, PersistFields DEF RowsAfter
    <3>2. s \in SettledSteps(c) <=> (c.status # "none" /\ s = c.step) \/ s \in c.cancel  BY DEF SettledSteps
    <3>3. rows[s].status # "none"  BY <1>2, <1>5, <3>1, <3>2
    <3>4. top \in DOMAIN table /\ top.step = s  BY <1>0, <3>3, KeyFields DEF OnTop
    <3>5. Holds(s, rows[s].status, table[top].filled)  BY <3>3 DEF Results
    <3>d. s \in SettledSteps(c) => top \in D /\ SettlesRow(c, s, top)  BY <1>2
    <3>e. top \in D => s \in SettledSteps(c)
      <4>1. ASSUME NEW u \in SettledSteps(c), top = At(u, rows[u].attempt) PROVE u = s  BY <3>4, <4>1, KeyFields
      <4> QED  BY <1>2, <4>1
    <3>6. table'[top] = IF top \in D THEN Settled(c)[top] ELSE table[top]  BY <1>4, <2>2, <3>4
    <3> HIDE DEF top
    <3>7. Holds(s, rows'[s].status, table'[top].filled)
      <4>1. CASE c.status # "none" /\ s = c.step
        <5>1. table'[top].filled = table[top].filled \cup Column(c)
          BY <3>2, <3>6, <3>d, <4>1 DEF SettlesRow
        <5>2. c.status \in {"waiting_approval", "completed", "failed", "failed_rejected"} /\ c.step \in Steps
          BY <4>1 DEF Rightful
        <5>3. rows'[s].status = c.status  BY <3>1, <4>1
        <5> DEFINE f == table[top].filled
        <5>4. Holds(c.step, rows[c.step].status, f)  BY <3>5, <4>1
        <5> HIDE DEF f
        <5>5. Holds(c.step, c.status, f \cup Column(c))  BY <5>2, <5>4, MarkHolds
        <5> QED  BY <4>1, <5>1, <5>3, <5>5 DEF f
      <4>2. CASE ~(c.status # "none" /\ s = c.step) /\ s \in c.cancel
        <5>1. rows'[s].status = "cancelled"  BY <3>1, <4>2
        <5> QED  BY <5>1 DEF Holds
      <4>3. CASE s \notin SettledSteps(c)
        <5>1. rows'[s].status = rows[s].status  BY <3>1, <3>2, <4>3
        <5>2. table'[top] = table[top]  BY <3>6, <3>e, <4>3
        <5> QED  BY <3>5, <5>1, <5>2
      <4> QED  BY <3>2, <4>1, <4>2, <4>3
    <3> QED  BY <3>1, <3>7 DEF top
  <2> QED  BY <2>1, <2>2
<1> QED  BY <1>5 DEF Results

\* A write outside the run lock takes no column away.
FilledGrows == \A k \in DOMAIN table : table[k].filled \subseteq table'[k].filled

LEMMA GrowingResults ==
  ASSUME StoreInv, Results, FilledGrows,
         \A s \in Steps : rows'[s].status = rows[s].status /\ rows'[s].attempt = rows[s].attempt
  PROVE  Results'
<1>1. ASSUME NEW s \in Steps, rows[s].status # "none"
      PROVE  Holds(s, rows[s].status, table'[At(s, rows[s].attempt)].filled)
  <2> DEFINE top == At(s, rows[s].attempt)
  <2>1. top \in DOMAIN table  BY <1>1 DEF StoreInv, OnTop
  <2>2. Holds(s, rows[s].status, table[top].filled)  BY <1>1 DEF Results
  <2> HIDE DEF top
  <2>3. table[top].filled \subseteq table'[top].filled  BY <2>1 DEF FilledGrows
  <2>4. Holds(s, rows[s].status, table'[top].filled)  BY <2>2, <2>3 DEF Holds
  <2> QED  BY <2>4 DEF top
<1> QED  BY <1>1 DEF Results

LEMMA RowGrows ==
  ASSUME NEW k \in DOMAIN table, NEW row, table[k].filled \subseteq row.filled,
         Apply(Nothing, Only(k, row), Nothing)
  PROVE  FilledGrows
<1>1. DOMAIN Only(k, row) = {k}  BY DEF Only
<1>2. table' = Over(Nothing, Over(Only(k, row), table))  BY <1>1 DEF Apply
<1>3. table'[k] = row /\ \A l \in DOMAIN table : l # k => table'[l] = table[l]  BY <1>2, OneRow
<1> QED  BY <1>3 DEF FilledGrows

LEMMA TaskGrows ==
  ASSUME IInv, StoreInv, NEW t \in tasks, StoreJobId(t) \/ StoreFailure(t)
  PROVE  FilledGrows
<1> DEFINE k == KeyOf(t)
<1>1. k \in DOMAIN table  BY KeyIsAt DEF StoreInv, KeysStored
<1>2. table[k] \in Record  BY <1>1 DEF StoreInv, StoreTypeOK
<1>3. CASE StoreJobId(t)
  <2> DEFINE row == [table[k] EXCEPT !.job = TRUE]
  <2>1. Apply(Nothing, Only(k, row), Nothing)  BY <1>3 DEF StoreJobId
  <2>2. table[k].filled \subseteq row.filled  BY <1>2 DEF Record
  <2> HIDE DEF k, row
  <2> QED  BY <1>1, <2>1, <2>2, RowGrows
<1>4. CASE StoreFailure(t) /\ ~t.reattached
  <2> DEFINE row == [table[k] EXCEPT !.filled = table[k].filled \cup {"failure_detail"}]
  <2>1. Apply(Nothing, Only(k, row), Nothing)  BY <1>4 DEF StoreFailure, Fill
  <2>2. table[k].filled \subseteq row.filled  BY <1>2 DEF Record
  <2> HIDE DEF k, row
  <2> QED  BY <1>1, <2>1, <2>2, RowGrows
<1>5. CASE StoreFailure(t) /\ t.reattached  BY <1>5 DEF StoreFailure, FilledGrows
<1> QED  BY <1>3, <1>4, <1>5

LEMMA NothingMoves ==
  ASSUME Hookless, IInv, StoreNothing
  PROVE  rows' = rows
BY DEF StoreNothing, IInv, RunStarted, CancelRequested, DeadlineExceeded, Crash, Recover, Boot, Serve, Reattach,
       RecoverBySubmit, Ended, vars, CancelJob, AbortTask, FollowOnSubmits, ActivationFails, StartJob, JobCompletes,
       TaskSubmits, ResolveApproval, SubmitApproval, store

LEMMA NextResults ==
  ASSUME Hookless, IInv, KnownInv, StoreInv, Results, Answers(rows, turn.cmds), [StoreNext]_storedVars
  PROVE  Results'
<1>1. ASSUME NEW a \in turn.cmds.activate, NEW kids \in SUBSET turn.cmds.children, StoreActivation(a, kids)
      PROVE  Results'
  <2> DEFINE c == turn.cmds
             N == {At(a.step, a.attempt)} \cup StubKeys(kids)
             ins == Over(Only(At(a.step, a.attempt), Fresh), Stubs(kids))
             ev == Over(Only(a.step, "step_activated"), Over(Waits(kids), Announces(c)))
  <2>1. c \in Commands /\ Rightful(rows, c) /\ Inserts(N, ins) /\ Newest(N) /\ RowsAfter(N, c)
    BY <1>1, ActivationBatch DEF StoreActivation
  <2>2. Apply(ins, Settled(c), ev) /\ Answers(rows, c)  BY <1>1 DEF StoreActivation
  <2> HIDE DEF c, N, ins, ev
  <2> QED  BY <2>1, <2>2, BatchResults
<1>2. CASE StoreTurn
  <2> DEFINE c == turn.cmds
             N == StubKeys(c.children)
             ins == Stubs(c.children)
             ev == Over(Waits(c.children), Announces(c))
  <2>1. c \in Commands /\ Rightful(rows, c) /\ Newest(N) /\ RowsAfter(N, c)  BY <1>2, TurnBatch DEF StoreTurn
  <2>2. Apply(ins, Settled(c), ev)  BY <1>2 DEF StoreTurn
  <2>3. Answers(rows, c) /\ Inserts(N, ins)  BY StubsAreFresh
  <2> HIDE DEF c, N, ins, ev
  <2> QED  BY <2>1, <2>2, <2>3, BatchResults
<1>3. ASSUME NEW t \in tasks, StoreJobId(t) \/ StoreFailure(t) PROVE Results'
  <2>1. FilledGrows  BY <1>3, TaskGrows
  <2>2. \A s \in Steps : rows'[s].status = rows[s].status /\ rows'[s].attempt = rows[s].attempt
    <3>1. CASE StoreJobId(t)
      <4>1. TypeOK /\ turn.cmds \in Commands  BY DEF IInv, TypeOK, Turn
      <4>2. PersistJobId(t)  BY <3>1 DEF StoreJobId
      <4> QED  BY <4>1, <4>2, JobIdStatuses
    <3>2. CASE StoreFailure(t)
      <4>1. rows' = rows  BY <3>2 DEF StoreFailure, StartFails, JobFails, WaitGivesUp, store
      <4> QED  BY <4>1
    <3> QED  BY <1>3, <3>1, <3>2
  <2> QED  BY <2>1, <2>2, GrowingResults
<1>4. CASE StoreNothing \/ UNCHANGED storedVars
  <2>1. rows' = rows  BY <1>4, NothingMoves DEF storedVars, vars
  <2>2. FilledGrows  BY <1>4 DEF StoreNothing, storedVars, FilledGrows
  <2> QED  BY <2>1, <2>2, GrowingResults
<1> QED  BY <1>1, <1>2, <1>3, <1>4 DEF StoreNext

ResultInv == OrderInv /\ StoreInv /\ Results /\ Answers(rows, turn.cmds)

LEMMA NextResult ==
  ASSUME Hookless, Unhandled, Orderly, OneClient
  PROVE  ResultInv /\ [StoreNext]_storedVars => ResultInv'
<1> SUFFICES ASSUME ResultInv, [StoreNext]_storedVars PROVE ResultInv'  OBVIOUS
<1>1. OrderInv /\ IInv /\ KnownInv /\ StoreInv /\ Results /\ Answers(rows, turn.cmds) /\ Booted /\ Tended
  BY DEF ResultInv, OrderInv
<1>2. [Next]_vars  BY StoreIsNext
<1>3. OrderInv'  BY <1>1, <1>2, NextOrder
<1>4. StoreInv'  BY <1>1, NextStored
<1>5. Results'  BY <1>1, NextResults
<1>6. Answers(rows', turn'.cmds)  BY <1>1, <1>2, NextAnswers
<1> QED  BY <1>3, <1>4, <1>5, <1>6 DEF ResultInv

LEMMA InitResult == StoreInit => ResultInv
<1> SUFFICES ASSUME StoreInit PROVE ResultInv  OBVIOUS
<1>1. Init  BY DEF StoreInit
<1>2. OrderInv /\ StoreInv  BY <1>1, InitOrder, InitStored
<1>3. Results  BY <1>1 DEF Init, NoRow, Results
<1>4. Answers(rows, turn.cmds)  BY <1>1 DEF Init, Idle, NoCommands, Answers, Decides
<1> QED  BY <1>2, <1>3, <1>4 DEF ResultInv

-----------------------------------------------------------------------------
(* Theorems *)

\* step_runs and run_events hold what sqlite_store.rs puts in them.
THEOREM StoreTyped == ASSUME Hookless PROVE StoreSpec => []StoreTypeOK
<1>1. StoredInv => StoreTypeOK  BY DEF StoredInv, StoreInv
<1> QED  BY <1>1, StoredAlways, PTL

\* In a flow without hooks, whatever its steps, routes, retries and clients and
\* however often the runtime crashes: latest_steps of step_runs always finds the
\* rows the engine decides on.  No mutation batch is rolled back for a row that
\* is not there, no write outside the run lock reaches another attempt, and an
\* attempt that was replaced never comes back to the top.
THEOREM StoreHoldsRows == ASSUME Hookless PROVE StoreSpec => []LatestIsRows
<1>1. StoredInv => LatestIsRows
  <2> SUFFICES ASSUME StoredInv PROVE Latest = rows  BY DEF LatestIsRows
  <2>1. /\ rows \in [Steps -> Row] /\ Untouched /\ StoreTypeOK /\ \A s \in Steps : OnTop(s)
    BY DEF StoredInv, StoreInv, KnownInv, IInv, TypeOK
  <2> QED  BY <2>1, TopIsLatest
<1> QED  BY <1>1, StoredAlways, PTL

\* In a flow without hooks: whoever reads run_events in order and keeps the last
\* event of every step knows the status of its row, but for a cancelled step,
\* which has no event of its own.
THEOREM EventsFollowRows == ASSUME Hookless PROVE StoreSpec => []EventsTellRows
<1>1. StoredInv => EventsTellRows  BY DEF StoredInv, StoreInv
<1> QED  BY <1>1, StoredAlways, PTL

LEMMA SeenInit == ASSUME StoreInit PROVE Seen!Init
<1>1. \A s \in Steps : Attempts(s) = {}  BY DEF StoreInit, Nothing, Attempts
<1>2. \A s \in Steps : Latest[s].status = "none" /\ Latest[s].attempt = 0  BY <1>1 DEF Latest, NoRow
<1> QED  BY <1>2 DEF StoreInit, Init, Seen!Init

LEMMA SeenNext ==
  ASSUME Latest = rows, Latest' = rows', [Contract!Next]_(Contract!vars)
  PROVE  [Seen!Next]_(Seen!vars)
BY DEF Contract!Next, Contract!Work, Contract!End, Contract!StepsMove, Contract!StartedIn, Contract!ActiveIn,
       Contract!vars, Seen!Next, Seen!Work, Seen!End, Seen!StepsMove, Seen!StartedIn, Seen!ActiveIn, Seen!vars

\* In a flow without hooks, with its crashes, recoveries and racing approvals:
\* whoever reads a run through latest_steps between two transactions sees the
\* contract of a run kept, although every attempt has a row of its own.
THEOREM ReadersSeeTheContract == ASSUME Hookless PROVE StoreSpec => SeenKeepsContract
<1>1. StoredInv => IInv /\ Latest = rows
  <2> SUFFICES ASSUME StoredInv PROVE IInv /\ Latest = rows  OBVIOUS
  <2>1. /\ IInv /\ rows \in [Steps -> Row] /\ Untouched /\ StoreTypeOK /\ \A s \in Steps : OnTop(s)
    BY DEF StoredInv, StoreInv, KnownInv, IInv, TypeOK
  <2> QED  BY <2>1, TopIsLatest
<1>2. StoredInv /\ StoredInv' /\ [StoreNext]_storedVars => [Seen!Next]_(Seen!vars)
  <2> SUFFICES ASSUME StoredInv, StoredInv', [StoreNext]_storedVars PROVE [Seen!Next]_(Seen!vars)  OBVIOUS
  <2>1. IInv /\ Latest = rows  BY <1>1
  <2>2. IInv' /\ Latest' = rows'
    <3>1. (IInv /\ Latest = rows)'  BY <1>1, PTL
    <3> QED  BY <3>1
  <2>3. [Next]_vars  BY StoreIsNext
  <2>4. [Contract!Next]_(Contract!vars)  BY <2>1, <2>2, <2>3, ContractNext
  <2> QED  BY <2>1, <2>2, <2>4, SeenNext
<1>3. StoreInit => Seen!Init  BY SeenInit
<1> HIDE DEF StoredInv
<1> QED  BY <1>2, <1>3, StoredAlways, PTL DEF StoreSpec, SeenKeepsContract, Seen!Spec

\* In a flow without hooks and failure routes, whose joins need all their feeders,
\* and whose humans answer one at a time: whatever status the latest row of a step
\* has, the columns it is asked for are filled, since a decision of a human always
\* finds the output it is about, in any interleaving and across any crashes.
THEOREM ResultsAreKept ==
  ASSUME Hookless, Unhandled, Orderly, OneClient PROVE StoreSpec => []ResultsKept
<1>1. StoreInit => ResultInv  BY InitResult
<1>2. ResultInv /\ [StoreNext]_storedVars => ResultInv'  BY NextResult
<1>3. ResultInv => ResultsKept
  <2> SUFFICES ASSUME ResultInv, NEW s \in Steps, Attempts(s) # {}
               PROVE  LET row == table[LatestKey(s)]
                      IN  /\ row.status \in {"waiting_approval", "completed", "failed_rejected"} => "output" \in row.filled
                          /\ row.status = "completed" /\ s \in HumanLoop => "approved" \in row.filled
                          /\ row.status = "failed_rejected" => "rejected" \in row.filled
                          /\ row.status = "failed" => "failure_reason" \in row.filled
    BY DEF ResultsKept
  <2>1. /\ rows \in [Steps -> Row] /\ StoreTypeOK /\ OnTop(s) /\ Results
    BY DEF ResultInv, OrderInv, IInv, TypeOK, StoreInv
  <2>2. rows[s].status # "none"  BY <2>1 DEF OnTop
  <2>3. LatestKey(s) = At(s, rows[s].attempt)  BY <2>1, <2>2, TopKey
  <2>4. table[LatestKey(s)].status = rows[s].status  BY <2>1, <2>2, <2>3 DEF OnTop
  <2>5. Holds(s, rows[s].status, table[LatestKey(s)].filled)  BY <2>1, <2>2, <2>3 DEF Results
  <2> QED  BY <2>4, <2>5 DEF Holds
<1> HIDE DEF ResultInv
<1> QED  BY <1>1, <1>2, <1>3, PTL DEF StoreSpec
=============================================================================
