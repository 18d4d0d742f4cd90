---------------------------- MODULE OutboxProofs ----------------------------
(***************************************************************************)
(* What the outbox promises, proved for any runs, batch size and bounds.   *)
(* The argument: the batch in the pump's hands is closed downwards (every  *)
(* earlier event of a run in hand is marked or in hand too), so marking    *)
(* "everything up to the last one" marks nothing that was not sent; and    *)
(* the snapshot is read after the events it has to cover were written.     *)
(***************************************************************************)
EXTENDS Outbox, FiniteSetTheorems, TLAPS

\* The batch holds stored events, and every earlier one of the same run is
\* marked or in the batch.
Closed ==
  \A e \in batch :
    /\ e[2] <= Len(log[e[1]])
    /\ \A n \in 1 .. e[2] : n \in pushed[e[1]] \/ <<e[1], n>> \in batch

\* No event and no snapshot is newer than its run.
Dated ==
  \A r \in Runs :
    /\ seen[r] <= version[r]
    /\ \A n \in 1 .. Len(log[r]) : log[r][n] <= version[r]

\* What the pump has achieved for the current run at each of its awaits.
Progress ==
  \A r \in Runs : Current(r) =>
    /\ pc \in {"events", "snapshot", "state", "mark"} => r \in PlatformRuns
    /\ pc \in {"snapshot", "state", "mark"} => \A e \in InHand(r) : e[2] \in got[r]
    /\ pc = "state" => /\ snapshot >= seen[r]
                       /\ snapshot <= version[r]
                       /\ \A e \in InHand(r) : snapshot >= log[r][e[2]]
    /\ pc = "mark" => \A e \in InHand(r) : seen[r] >= log[r][e[2]]

Marked ==
  \A r \in Runs : \A n \in pushed[r] : n <= Len(log[r])

IInv == TypeOK /\ Closed /\ Dated /\ Progress /\ Marked /\ NothingLost /\ NoGap /\ SnapshotCovers

-----------------------------------------------------------------------------
LEMMA LogLength ==
  ASSUME TypeOK, NEW r \in Runs
  PROVE  log[r] \in Seq(Nat) /\ Len(log[r]) \in Nat
<1>1. log[r] \in Seq(Nat)
  BY DEF TypeOK
<1> QED BY <1>1

\* unpushed_events takes no event of a run without the run's earlier ones that
\* are not marked yet: LIMIT cuts the ordered rows at the end.
LEMMA BatchIsClosed ==
  ASSUME TypeOK, NEW e \in FirstUnpushed, NEW n \in 1 .. e[2], n \notin pushed[e[1]]
  PROVE  <<e[1], n>> \in FirstUnpushed
<1> DEFINE f == <<e[1], n>>
           All == Runs \X (1 .. 2 * MaxApplies)
           Less(x) == {y \in Unpushed : Before(y, x)}
<1>1. /\ e \in Runs \X (1 .. 2 * MaxApplies)
      /\ e[2] <= Len(log[e[1]])
      /\ Cardinality(Less(e)) < BatchSize
  BY DEF FirstUnpushed, Unpushed
<1>2. e[1] \in Runs /\ e[2] \in 1 .. 2 * MaxApplies /\ e[1] \in Nat /\ Len(log[e[1]]) \in Nat
  <2>1. e[1] \in Runs /\ e[2] \in 1 .. 2 * MaxApplies
    BY <1>1
  <2> QED BY <2>1, LogLength, OutboxAssumption
<1>3. f \in Unpushed
  BY <1>1, <1>2, OutboxAssumption DEF Unpushed
<1>4. IsFiniteSet(All)
  <2>1. IsFiniteSet(1 .. 2 * MaxApplies)
    BY FS_Interval, OutboxAssumption
  <2> QED BY <2>1, FS_Product, OutboxAssumption
<1>5. IsFiniteSet(Unpushed)
  BY <1>4, FS_Subset DEF Unpushed
<1>6. IsFiniteSet(Less(e)) /\ IsFiniteSet(Less(f))
  BY <1>5, FS_Subset
<1>7. Less(f) \subseteq Less(e)
  <2> SUFFICES ASSUME NEW y \in Unpushed, Before(y, f) PROVE Before(y, e)
    OBVIOUS
  <2>1. y \in Runs \X (1 .. 2 * MaxApplies)
    BY DEF Unpushed
  <2>2. y[1] \in Runs /\ y[2] \in 1 .. 2 * MaxApplies
    BY <2>1
  <2>3. y[1] \in Nat
    BY <2>2, OutboxAssumption
  <2>4. y[2] \in Nat
    BY <2>2
  <2> QED BY <1>2, <2>3, <2>4 DEF Before
<1>8. Cardinality(Less(f)) <= Cardinality(Less(e))
  BY <1>6, <1>7, FS_Subset
<1>9. Cardinality(Less(f)) \in Nat /\ Cardinality(Less(e)) \in Nat
  BY <1>6, FS_CardinalityType
<1>10. Cardinality(Less(f)) < BatchSize
  BY <1>1, <1>8, <1>9, OutboxAssumption
<1> QED BY <1>3, <1>10 DEF FirstUnpushed

LEMMA InitStep == Init => IInv
BY OutboxAssumption
DEF Init, IInv, TypeOK, Pc, Closed, Dated, Progress, Marked, NothingLost, NoGap, SnapshotCovers,
    Current, InHand

LEMMA FetchStep ==
  ASSUME IInv, Fetch PROVE IInv'
<1> USE DEF Fetch, store, platform, bounds
<1>1. TypeOK'
  <2>1. FirstUnpushed \subseteq Runs \X (Nat \ {0})
    BY OutboxAssumption DEF FirstUnpushed, Unpushed
  <2> QED BY <2>1 DEF IInv, TypeOK, Pc
<1>2. Closed'
  <2>1. \A e \in FirstUnpushed : e[2] <= Len(log[e[1]])
    BY DEF FirstUnpushed, Unpushed
  <2> QED BY <2>1, BatchIsClosed DEF IInv, Closed
<1>3. Dated' /\ Marked' /\ NothingLost' /\ NoGap' /\ SnapshotCovers'
  BY DEF IInv, Dated, Marked, NothingLost, NoGap, SnapshotCovers
<1>4. Progress'
  BY DEF Progress, Current, InHand
<1> QED BY <1>1, <1>2, <1>3, <1>4 DEF IInv

\* Appending leaves the events there were, their dates and the batch alone.
LEMMA ApplyStep ==
  ASSUME IInv, NEW r \in Runs, NEW n \in 0 .. 2, Apply(r, n) PROVE IInv'
<1> DEFINE new == [i \in 1 .. n |-> version[r] + 1]
<1> USE DEF Apply, store, pump, platform, bounds
<1>1. new \in Seq(Nat) /\ Len(new) = n
  BY OutboxAssumption DEF IInv, TypeOK
<1>2. /\ version' = [version EXCEPT ![r] = version[r] + 1]
      /\ version[r] + 1 \in 0 .. MaxApplies
      /\ log' = [log EXCEPT ![r] = log[r] \o new]
      /\ log[r] \in Seq(Nat)
  BY OutboxAssumption DEF IInv, TypeOK
<1>3. /\ log[r] \o new \in Seq(Nat)
      /\ Len(log[r] \o new) = Len(log[r]) + n
      /\ \A i \in 1 .. Len(log[r]) : (log[r] \o new)[i] = log[r][i]
      /\ \A i \in Len(log[r]) + 1 .. Len(log[r]) + n : (log[r] \o new)[i] = version[r] + 1
  <2> DEFINE l == log[r]
  <2>1. l \in Seq(Nat) /\ Len(l) \in Nat /\ n \in Nat
    BY <1>2, LogLength DEF IInv
  <2> HIDE DEF l
  <2>2. l \o new \in Seq(Nat) /\ Len(l \o new) = Len(l) + n
    BY <1>1, <2>1
  <2>3. \A i \in 1 .. Len(l) : (l \o new)[i] = l[i]
    BY <1>1, <2>1
  <2>4. ASSUME NEW i \in Len(l) + 1 .. Len(l) + n PROVE (l \o new)[i] = version[r] + 1
    <3>1. (l \o new)[i] = new[i - Len(l)]
      BY <1>1, <2>1
    <3>2. i - Len(l) \in 1 .. n
      BY <2>1
    <3> QED BY <3>1, <3>2
  <2> QED BY <2>2, <2>3, <2>4 DEF l
<1> HIDE DEF new
<1>4. \A q \in Runs :
        /\ log[q] \in Seq(Nat) /\ Len(log[q]) \in Nat /\ Len(log'[q]) \in Nat
        /\ Len(log[q]) <= Len(log'[q])
        /\ \A i \in 1 .. Len(log[q]) : log'[q][i] = log[q][i]
        /\ version[q] \in Nat /\ version'[q] \in Nat /\ version[q] <= version'[q]
  <2> TAKE q \in Runs
  <2>1. log[q] \in Seq(Nat) /\ Len(log[q]) \in Nat
    BY LogLength DEF IInv
  <2>2. version[q] \in Nat /\ version'[q] \in Nat /\ version[q] <= version'[q]
    BY <1>2, OutboxAssumption DEF IInv, TypeOK
  <2>3. CASE q = r
    <3>1. log'[r] = log[r] \o new
      BY <1>2 DEF IInv, TypeOK
    <3> QED BY <1>3, <2>1, <2>2, <2>3, <3>1
  <2>4. CASE q # r
    <3>1. log'[q] = log[q]
      BY <1>2, <2>4 DEF IInv, TypeOK
    <3> QED BY <2>1, <2>2, <3>1
  <2> QED BY <2>3, <2>4
<1>5. TypeOK'
  BY <1>2, <1>3 DEF IInv, TypeOK
<1>6. Closed'
  BY <1>4 DEF IInv, Closed, TypeOK
<1>7. Dated'
  <2>1. ASSUME NEW q \in Runs, NEW i \in 1 .. Len(log'[q])
        PROVE  log'[q][i] <= version'[q]
    <3>1. CASE q # r
      BY <1>2, <3>1 DEF IInv, Dated, TypeOK
    <3>2. CASE q = r /\ i <= Len(log[r])
      <4>1. i \in 1 .. Len(log[r])
        BY <1>4, <3>2
      <4>2. log[r][i] \in Nat
        <5> DEFINE l == log[r]
        <5>1. l \in Seq(Nat) /\ i \in 1 .. Len(l)
          BY <1>2, <4>1
        <5> HIDE DEF l
        <5>2. l[i] \in Nat
          BY <5>1
        <5> QED BY <5>2 DEF l
      <4>3. log[r][i] <= version[r] /\ log'[r][i] = log[r][i]
        BY <1>4, <4>1 DEF IInv, Dated
      <4>4. version[r] \in Nat /\ version'[r] \in Nat /\ version[r] <= version'[r]
        BY <1>4
      <4>5. \A x, y, z \in Nat : x <= y /\ y <= z => x <= z
        OBVIOUS
      <4>6. log[r][i] <= version'[r]
        BY <4>2, <4>3, <4>4, <4>5
      <4> QED BY <3>2, <4>3, <4>6
    <3>3. CASE q = r /\ i > Len(log[r])
      <4>1. i \in Len(log[r]) + 1 .. Len(log[r]) + n
        BY <1>2, <1>3, <1>4, <3>3 DEF IInv, TypeOK
      <4> QED BY <1>2, <1>3, <3>3, <4>1 DEF IInv, TypeOK
    <3> QED BY <1>4, <3>1, <3>2, <3>3
  <2>2. \A q \in Runs : seen'[q] <= version'[q]
    BY <1>4 DEF IInv, Dated, TypeOK
  <2> QED BY <2>1, <2>2 DEF Dated
<1>8. Marked'
  BY <1>4 DEF IInv, Marked, TypeOK
<1>9. NothingLost' /\ NoGap'
  BY DEF IInv, NothingLost, NoGap
<1>10. SnapshotCovers'
  <2> SUFFICES ASSUME NEW q \in PlatformRuns, NEW i \in pushed[q] PROVE seen[q] >= log'[q][i]
    BY DEF SnapshotCovers
  <2>1. q \in Runs /\ i \in 1 .. Len(log[q])
    BY <1>4, OutboxAssumption DEF IInv, TypeOK, Marked
  <2> QED BY <1>4, <2>1 DEF IInv, SnapshotCovers
<1>11. Progress'
  <2> SUFFICES ASSUME NEW q \in Runs, Current(q)
               PROVE  /\ pc \in {"events", "snapshot", "state", "mark"} => q \in PlatformRuns
                      /\ pc \in {"snapshot", "state", "mark"} => \A e \in InHand(q) : e[2] \in got[q]
                      /\ pc = "state" => /\ snapshot >= seen[q]
                                         /\ snapshot <= version'[q]
                                         /\ \A e \in InHand(q) : snapshot >= log'[q][e[2]]
                      /\ pc = "mark" => \A e \in InHand(q) : seen[q] >= log'[q][e[2]]
    BY DEF Progress, Current, InHand
  <2>1. \A e \in InHand(q) : e[2] \in 1 .. Len(log[q])
    BY <1>4 DEF IInv, Closed, InHand, TypeOK
  <2>2. \A e \in InHand(q) : log'[q][e[2]] = log[q][e[2]]
    BY <1>4, <2>1
  <2>3. seen[q] \in Nat /\ snapshot \in Nat
    BY DEF IInv, TypeOK
  <2>4. pc = "state" => snapshot <= version'[q]
    BY <1>4, <2>3 DEF IInv, Progress
  <2> QED BY <2>2, <2>4 DEF IInv, Progress
<1> QED BY <1>5, <1>6, <1>7, <1>8, <1>9, <1>10, <1>11 DEF IInv

\* Whatever ends the work on a run, what is left of the batch stays closed and
\* nothing is claimed of the next run yet.
LEMMA NextRunKeeps ==
  ASSUME IInv, NEW r \in Runs, NextRun(r), UNCHANGED log,
         \A q \in Runs : pushed[q] \subseteq pushed'[q]
  PROVE  Closed' /\ Progress'
<1>1. Closed'
  <2> SUFFICES ASSUME NEW e \in batch', NEW n \in 1 .. e[2]
               PROVE  /\ e[2] <= Len(log[e[1]])
                      /\ n \in pushed'[e[1]] \/ <<e[1], n>> \in batch'
    <3>1. \A e \in batch' : e \in Runs \X (Nat \ {0})
      BY DEF IInv, TypeOK, NextRun
    <3>2. \A e \in batch' : 1 \in 1 .. e[2]
      BY <3>1
    <3> QED BY <3>2 DEF Closed
  <2>1. e \in batch /\ e[1] # r /\ e[1] \in Runs
    BY DEF NextRun, InHand, IInv, TypeOK
  <2>2. e[2] <= Len(log[e[1]]) /\ (n \in pushed[e[1]] \/ <<e[1], n>> \in batch)
    BY <2>1 DEF IInv, Closed
  <2> QED BY <2>1, <2>2 DEF NextRun, InHand
<1>2. Progress'
  <2>1. pc' \in {"idle", "load"}
    BY DEF NextRun
  <2> QED BY <2>1 DEF Progress
<1> QED BY <1>1, <1>2

\* Marking up to the last event in hand marks events in hand and marked ones.
LEMMA MarkIsExact ==
  ASSUME IInv, NEW r \in Runs, MarkPushed(r), Current(r)
  PROVE  /\ pushed' \in [Runs -> SUBSET (Nat \ {0})]
         /\ \A q \in Runs : pushed[q] \subseteq pushed'[q]
         /\ \A q \in Runs \ {r} : pushed'[q] = pushed[q]
         /\ \A n \in pushed'[r] : n \in pushed[r] \/ \E e \in InHand(r) : e[2] = n
         /\ \A q \in Runs : \A n \in pushed'[q] : n <= Len(log[q])
<1> DEFINE upto == {n \in 1 .. Len(log[r]) : \E e \in batch : e[1] = r /\ n <= e[2]}
<1>1. pushed' = [pushed EXCEPT ![r] = pushed[r] \cup upto]
  BY DEF MarkPushed
<1>2. upto \subseteq Nat \ {0} /\ \A n \in upto : n <= Len(log[r])
  BY DEF IInv, TypeOK
<1>3. ASSUME NEW n \in upto PROVE n \in pushed[r] \/ \E e \in InHand(r) : e[2] = n
  <2>1. PICK e \in batch : e[1] = r /\ n <= e[2]
    OBVIOUS
  <2>2. e[2] \in Nat /\ n \in 1 .. e[2]
    BY <1>2, <2>1 DEF IInv, TypeOK
  <2>3. n \in pushed[r] \/ <<r, n>> \in batch
    BY <2>1, <2>2 DEF IInv, Closed
  <2> QED BY <2>3 DEF InHand
<1> HIDE DEF upto
<1> QED BY <1>1, <1>2, <1>3 DEF IInv, TypeOK, Marked

LEMMA LoadStep ==
  ASSUME IInv, NEW r \in Runs, Load(r) PROVE IInv'
<1>1. CASE r \in PlatformRuns /\ pc' = "events" /\ UNCHANGED <<pushed, batch, snapshot>>
  <2> USE <1>1 DEF Load, platform, bounds
  <2>1. TypeOK' /\ Closed' /\ Dated' /\ Marked' /\ NothingLost' /\ NoGap' /\ SnapshotCovers'
    BY DEF IInv, TypeOK, Pc, Closed, Dated, Marked, NothingLost, NoGap, SnapshotCovers
  <2>2. \A q \in Runs : Current(q)' => q = r
    BY OutboxAssumption DEF Current, InHand
  <2>3. Progress'
    BY <2>2 DEF Progress
  <2> QED BY <2>1, <2>3 DEF IInv
<1>2. CASE r \notin PlatformRuns /\ MarkPushed(r) /\ NextRun(r)
  <2> USE <1>2 DEF Load, platform, bounds
  <2>1. /\ pushed' \in [Runs -> SUBSET (Nat \ {0})]
        /\ \A q \in Runs : pushed[q] \subseteq pushed'[q]
        /\ \A q \in Runs \ {r} : pushed'[q] = pushed[q]
        /\ \A q \in Runs : \A n \in pushed'[q] : n <= Len(log[q])
    BY MarkIsExact
  <2>2. TypeOK'
    BY <2>1 DEF IInv, TypeOK, Pc, NextRun
  <2>3. Closed' /\ Progress'
    BY <2>1, NextRunKeeps
  <2>4. Dated' /\ Marked' /\ NoGap'
    BY <2>1 DEF IInv, Dated, Marked, NoGap
  <2>5. NothingLost' /\ SnapshotCovers'
    BY <2>1, OutboxAssumption DEF IInv, NothingLost, SnapshotCovers
  <2> QED BY <2>2, <2>3, <2>4, <2>5 DEF IInv
<1> QED BY <1>1, <1>2 DEF Load

\* The batch of a run may land any number of times: what is before it landed
\* before, or is in it.
LEMMA LandedKeeps ==
  ASSUME IInv, NEW r \in Runs, Current(r), pc = "events",
         got' = [got EXCEPT ![r] = @ \cup {e[2] : e \in InHand(r)}]
  PROVE  /\ got' \in [Runs -> SUBSET (Nat \ {0})]
         /\ \A q \in Runs : got[q] \subseteq got'[q]
         /\ \A e \in InHand(r) : e[2] \in got'[r]
         /\ NoGap'
<1>1. r \in PlatformRuns
  BY DEF IInv, Progress
<1>2. {e[2] : e \in InHand(r)} \subseteq Nat \ {0}
  BY DEF InHand, IInv, TypeOK
<1>3. /\ got' \in [Runs -> SUBSET (Nat \ {0})]
      /\ \A q \in Runs : got[q] \subseteq got'[q]
      /\ \A e \in InHand(r) : e[2] \in got'[r]
  BY <1>2 DEF IInv, TypeOK
<1>4. ASSUME NEW q \in Runs, NEW n \in got'[q], NEW m \in 1 .. n PROVE m \in got'[q]
  <2>1. CASE n \in got[q]
    BY <1>3, <2>1 DEF IInv, NoGap
  <2>2. CASE n \notin got[q]
    <3>1. q = r /\ \E e \in InHand(r) : e[2] = n
      BY <2>2 DEF IInv, TypeOK
    <3>2. PICK e \in InHand(r) : e[2] = n
      BY <3>1
    <3>3. m \in pushed[r] \/ <<r, m>> \in batch
      BY <3>2 DEF IInv, Closed, InHand
    <3>4. CASE m \in pushed[r]
      BY <1>1, <1>3, <3>1, <3>4 DEF IInv, NothingLost
    <3>5. CASE <<r, m>> \in batch
      <4>1. <<r, m>> \in InHand(r)
        BY <3>5 DEF InHand
      <4> QED BY <1>3, <3>1, <4>1
    <3> QED BY <3>3, <3>4, <3>5
  <2> QED BY <2>1, <2>2
<1>5. NoGap'
  BY <1>4 DEF NoGap
<1> QED BY <1>3, <1>5

LEMMA PushEventsStep ==
  ASSUME IInv, NEW r \in Runs, PushEvents(r) PROVE IInv'
<1> USE DEF PushEvents, store, bounds
<1>1. /\ got' \in [Runs -> SUBSET (Nat \ {0})]
      /\ \A q \in Runs : got[q] \subseteq got'[q]
      /\ \A e \in InHand(r) : e[2] \in got'[r]
      /\ NoGap'
  BY LandedKeeps
<1>2. TypeOK'
  BY <1>1 DEF IInv, TypeOK, Pc
<1>3. Closed' /\ Dated' /\ Marked' /\ SnapshotCovers'
  BY DEF IInv, Closed, Dated, Marked, SnapshotCovers
<1>4. NothingLost'
  BY <1>1, OutboxAssumption DEF IInv, NothingLost
<1>5. \A q \in Runs : Current(q)' => q = r
  BY OutboxAssumption DEF Current, InHand
<1>6. Progress'
  BY <1>1, <1>5 DEF IInv, Progress, InHand
<1> QED BY <1>1, <1>2, <1>3, <1>4, <1>6 DEF IInv

\* The snapshot is as new as every event in hand: they were stored before.
LEMMA ReadSnapshotStep ==
  ASSUME IInv, NEW r \in Runs, ReadSnapshot(r) PROVE IInv'
<1> USE DEF ReadSnapshot, store, platform, bounds
<1>1. TypeOK'
  BY OutboxAssumption DEF IInv, TypeOK, Pc
<1>2. Closed' /\ Dated' /\ Marked' /\ NothingLost' /\ NoGap' /\ SnapshotCovers'
  BY DEF IInv, Closed, Dated, Marked, NothingLost, NoGap, SnapshotCovers
<1>3. \A q \in Runs : Current(q)' => q = r
  BY OutboxAssumption DEF Current, InHand
<1>4. \A e \in InHand(r) : e[2] \in 1 .. Len(log[r])
  BY DEF IInv, Closed, InHand, TypeOK
<1>5. /\ version[r] \in Nat /\ seen[r] <= version[r]
      /\ \A e \in InHand(r) : log[r][e[2]] <= version[r]
  BY <1>4, OutboxAssumption DEF IInv, TypeOK, Dated
<1>6. Progress'
  BY <1>3, <1>5 DEF IInv, Progress, InHand, TypeOK
<1> QED BY <1>1, <1>2, <1>6 DEF IInv

\* Showing the snapshot in hand never turns the platform back.
LEMMA ShownKeeps ==
  ASSUME IInv, NEW r \in Runs, Current(r), pc = "state", UNCHANGED <<log, pushed, version>>,
         seen' = [seen EXCEPT ![r] = snapshot]
  PROVE  /\ seen' \in [Runs -> Nat]
         /\ \A e \in InHand(r) : seen'[r] >= log[r][e[2]]
         /\ Dated' /\ SnapshotCovers'
<1>1. /\ snapshot >= seen[r] /\ snapshot <= version[r] /\ snapshot \in Nat
      /\ \A e \in InHand(r) : snapshot >= log[r][e[2]]
  BY DEF IInv, Progress, TypeOK
<1>2. seen' \in [Runs -> Nat] /\ seen'[r] = snapshot /\ \A q \in Runs : seen'[q] >= seen[q]
  BY <1>1 DEF IInv, TypeOK
<1>3. Dated'
  BY <1>1, <1>2 DEF IInv, Dated, TypeOK
<1>4. SnapshotCovers'
  <2> SUFFICES ASSUME NEW q \in PlatformRuns, NEW n \in pushed[q] PROVE seen'[q] >= log[q][n]
    BY DEF SnapshotCovers
  <2>1. q \in Runs /\ n \in 1 .. Len(log[q])
    BY OutboxAssumption DEF IInv, TypeOK, Marked
  <2>2. log[q][n] \in Nat /\ seen[q] \in Nat /\ seen'[q] \in Nat
    BY <1>2, <2>1 DEF IInv, TypeOK
  <2> QED BY <1>2, <2>1, <2>2 DEF IInv, SnapshotCovers
<1> QED BY <1>1, <1>2, <1>3, <1>4

LEMMA PushStateStep ==
  ASSUME IInv, NEW r \in Runs, PushState(r) PROVE IInv'
<1> USE DEF PushState, store, bounds
<1>1. /\ seen' \in [Runs -> Nat]
      /\ \A e \in InHand(r) : seen'[r] >= log[r][e[2]]
      /\ Dated' /\ SnapshotCovers'
  BY ShownKeeps
<1>2. TypeOK'
  BY <1>1 DEF IInv, TypeOK, Pc
<1>3. Closed' /\ Marked' /\ NothingLost' /\ NoGap'
  BY DEF IInv, Closed, Marked, NothingLost, NoGap
<1>4. \A q \in Runs : Current(q)' => q = r
  BY OutboxAssumption DEF Current, InHand
<1>5. Progress'
  BY <1>1, <1>4 DEF IInv, Progress, InHand
<1> QED BY <1>1, <1>2, <1>3, <1>5 DEF IInv

LEMMA MarkStep ==
  ASSUME IInv, NEW r \in Runs, Mark(r) PROVE IInv'
<1> USE DEF Mark, platform, bounds
<1>1. /\ pushed' \in [Runs -> SUBSET (Nat \ {0})]
      /\ \A q \in Runs : pushed[q] \subseteq pushed'[q]
      /\ \A q \in Runs \ {r} : pushed'[q] = pushed[q]
      /\ \A n \in pushed'[r] : n \in pushed[r] \/ \E e \in InHand(r) : e[2] = n
      /\ \A q \in Runs : \A n \in pushed'[q] : n <= Len(log[q])
  BY MarkIsExact
<1>2. TypeOK'
  BY <1>1 DEF IInv, TypeOK, Pc, NextRun
<1>3. Closed' /\ Progress'
  BY <1>1, NextRunKeeps
<1>4. Dated' /\ Marked' /\ NoGap'
  BY <1>1 DEF IInv, Dated, Marked, NoGap
<1>5. \A e \in InHand(r) : e[2] \in got[r] /\ seen[r] >= log[r][e[2]]
  BY DEF IInv, Progress
<1>6. NothingLost'
  BY <1>1, <1>5, OutboxAssumption DEF IInv, NothingLost
<1>7. SnapshotCovers'
  BY <1>1, <1>5, OutboxAssumption DEF IInv, SnapshotCovers
<1> QED BY <1>2, <1>3, <1>4, <1>6, <1>7 DEF IInv

LEMMA FailsStep ==
  ASSUME IInv, NEW r \in Runs, Fails(r) PROVE IInv'
<1> USE DEF Fails, store
<1>1. Closed' /\ Progress'
  BY NextRunKeeps
<1>2. failures' \in 0 .. MaxFailures
  BY OutboxAssumption DEF IInv, TypeOK
<1>3. Marked'
  BY DEF IInv, Marked
<1>4. CASE UNCHANGED platform
  BY <1>1, <1>2, <1>3, <1>4
  DEF IInv, TypeOK, Pc, NextRun, platform, Dated, NothingLost, NoGap, SnapshotCovers
<1>5. CASE pc = "events" /\ got' = [got EXCEPT ![r] = @ \cup {e[2] : e \in InHand(r)}] /\ UNCHANGED seen
  <2>1. /\ got' \in [Runs -> SUBSET (Nat \ {0})]
        /\ \A q \in Runs : got[q] \subseteq got'[q]
        /\ NoGap'
    BY <1>5, LandedKeeps
  <2>2. TypeOK'
    BY <1>2, <1>5, <2>1 DEF IInv, TypeOK, Pc, NextRun
  <2>3. NothingLost'
    BY <2>1, OutboxAssumption DEF IInv, NothingLost
  <2>4. Dated' /\ SnapshotCovers'
    BY <1>5 DEF IInv, Dated, SnapshotCovers
  <2> QED BY <1>1, <1>3, <2>1, <2>2, <2>3, <2>4 DEF IInv
<1>6. CASE pc = "state" /\ seen' = [seen EXCEPT ![r] = snapshot] /\ UNCHANGED got
  <2>1. seen' \in [Runs -> Nat] /\ Dated' /\ SnapshotCovers'
    BY <1>6, ShownKeeps
  <2>2. TypeOK'
    BY <1>2, <1>6, <2>1 DEF IInv, TypeOK, Pc, NextRun
  <2>3. NothingLost' /\ NoGap'
    BY <1>6 DEF IInv, NothingLost, NoGap
  <2> QED BY <1>1, <1>3, <2>1, <2>2, <2>3 DEF IInv
<1> QED BY <1>4, <1>5, <1>6

LEMMA CrashStep ==
  ASSUME IInv, Crash PROVE IInv'
<1> USE DEF Crash, store, platform
<1>1. TypeOK'
  BY OutboxAssumption DEF IInv, TypeOK, Pc
<1>2. Closed' /\ Progress'
  BY DEF Closed, Progress, Current, InHand
<1>3. Dated' /\ Marked' /\ NothingLost' /\ NoGap' /\ SnapshotCovers'
  BY DEF IInv, Dated, Marked, NothingLost, NoGap, SnapshotCovers
<1> QED BY <1>1, <1>2, <1>3 DEF IInv

LEMMA StutterStep ==
  ASSUME IInv, UNCHANGED vars PROVE IInv'
BY DEF IInv, vars, TypeOK, Closed, Dated, Progress, Marked, NothingLost, NoGap, SnapshotCovers,
       Current, InHand

LEMMA NextStep == IInv /\ [Next]_vars => IInv'
BY FetchStep, ApplyStep, LoadStep, PushEventsStep, ReadSnapshotStep, PushStateStep, MarkStep,
   FailsStep, CrashStep, StutterStep DEF Next, PumpStep

LEMMA Always == Spec => []IInv
BY InitStep, NextStep, PTL DEF Spec

-----------------------------------------------------------------------------
\* The variables keep their types, for any runs and bounds.
THEOREM OutboxTypes == Spec => []TypeOK
BY Always, PTL DEF IInv

\* pump.rs never marks an event of a platform run that the platform does not
\* have, for any batch size, any interleaving with the scheduler's writes, any
\* failed request and any crash.
THEOREM NothingIsLost == Spec => []NothingLost
BY Always, PTL DEF IInv

\* The platform has the events of a run without gaps, at every moment.
THEOREM NoGaps == Spec => []NoGap
BY Always, PTL DEF IInv

\* The snapshot the platform shows is never older than an event that left the
\* outbox.
THEOREM SnapshotIsCurrent == Spec => []SnapshotCovers
BY Always, PTL DEF IInv

=============================================================================
