------------------------------- MODULE Outbox -------------------------------
(***************************************************************************)
(* The run-event outbox of crates/flowspec-server/src/state/sqlite_store.rs *)
(* and the pump of platform/pump.rs that drains it: per run, events first, *)
(* then a fresh snapshot of the run, then the batch is marked pushed.      *)
(* Every request to the platform can fail, or land with its answer lost,   *)
(* and the runtime can crash between any two steps of the pump.            *)
(***************************************************************************)
EXTENDS Integers, Sequences, FiniteSets

CONSTANTS
  Runs,          \* the runs of the store, in the order of their ids
  PlatformRuns,  \* the runs the platform triggered; the others came over MCP
  BatchSize,     \* PumpConfig.event_batch_size
  Rejected,      \* runs whose pushes the platform always refuses
  MaxApplies,    \* bound on the transactions of a run
  MaxFailures,   \* bound on failed requests and failed store calls
  MaxCrashes     \* bound on crashes

ASSUME OutboxAssumption ==
  /\ Runs \subseteq Nat /\ IsFiniteSet(Runs)
  /\ PlatformRuns \subseteq Runs
  /\ Rejected \subseteq PlatformRuns
  /\ BatchSize \in Nat \ {0}
  /\ MaxApplies \in Nat /\ MaxFailures \in Nat /\ MaxCrashes \in Nat

VARIABLES
  version,   \* how many transactions changed the run
  log,       \* run_events: for every sequence number, the version it came with
  pushed,    \* run_events: the sequences whose pushed_at is set
  batch,     \* what the pump still has in hand: pairs <<run, sequence>>
  pc,        \* the pump's next await
  snapshot,  \* the version of the run's snapshot in the pump's hands
  got,       \* platform: the events it has (INSERT OR IGNORE)
  seen,      \* platform: the version of the snapshot it shows (an upsert)
  failures, crashes

store    == <<version, log, pushed>>
pump     == <<batch, pc, snapshot>>
platform == <<got, seen>>
bounds   == <<failures, crashes>>
vars     == <<version, log, pushed, batch, pc, snapshot, got, seen, failures, crashes>>

-----------------------------------------------------------------------------
(* The store. *)

Unpushed == {e \in Runs \X (1 .. 2 * MaxApplies) :
               e[2] <= Len(log[e[1]]) /\ e[2] \notin pushed[e[1]]}

\* Mutant of Before: newest events first.
BeforeNewestFirst(e, f) == e[1] < f[1] \/ (e[1] = f[1] /\ e[2] > f[2])

\* ORDER BY run_id, sequence
Before(e, f) == e[1] < f[1] \/ (e[1] = f[1] /\ e[2] < f[2])

\* unpushed_events(limit)
FirstUnpushed == {e \in Unpushed : Cardinality({f \in Unpushed : Before(f, e)}) < BatchSize}

\* One transaction of the scheduler on run r that appends n events with the
\* next sequence numbers (none, one, or two).
Apply(r, n) ==
  /\ version[r] < MaxApplies
  /\ version' = [version EXCEPT ![r] = @ + 1]
  /\ log' = [log EXCEPT ![r] = @ \o [i \in 1 .. n |-> version[r] + 1]]
  /\ UNCHANGED <<pushed, pump, platform, bounds>>

\* Mutants of MarkPushed: whatever the store holds by now; one event too early.
MarkAllStored(r) == pushed' = [pushed EXCEPT ![r] = @ \cup DOMAIN log[r]]
MarkFromZero(r) ==
  pushed' = [pushed EXCEPT ![r] = @ \cup {n \in 0 .. Len(log[r]) : \E e \in batch : e[1] = r /\ n <= e[2]}]

\* mark_events_pushed(r, max_seq): everything up to the batch's last event
MarkPushed(r) ==
  pushed' = [pushed EXCEPT ![r] = @ \cup {n \in 1 .. Len(log[r]) : \E e \in batch : e[1] = r /\ n <= e[2]}]

-----------------------------------------------------------------------------
(* The pump. *)

\* by_run is a BTreeMap: the runs are visited in the order of their ids.
InHand(r)  == {e \in batch : e[1] = r}
Current(r) == InHand(r) # {} /\ \A e \in batch : r <= e[1]

\* On to the next run of the batch, or to the next tick.
NextRun(r) ==
  /\ batch' = batch \ InHand(r)
  /\ pc' = IF batch = InHand(r) THEN "idle" ELSE "load"
  /\ snapshot' = 0

Fetch ==
  /\ pc = "idle"
  /\ FirstUnpushed # {}
  /\ batch' = FirstUnpushed
  /\ pc' = "load"
  /\ UNCHANGED <<store, snapshot, platform, bounds>>

\* Mutant of Load: the events of other runs are left alone.
LoadUnmarked(r) ==
  /\ pc = "load"
  /\ Current(r)
  /\ \/ r \in PlatformRuns /\ pc' = "events" /\ UNCHANGED <<batch, snapshot>>
     \/ r \notin PlatformRuns /\ NextRun(r)
  /\ UNCHANGED <<store, platform, bounds>>

\* load_run: a run of the platform is pushed, for another there is nobody to
\* push to and its events are marked at once.
Load(r) ==
  /\ pc = "load"
  /\ Current(r)
  /\ \/ /\ r \in PlatformRuns
        /\ pc' = "events"
        /\ UNCHANGED <<pushed, batch, snapshot>>
     \/ /\ r \notin PlatformRuns
        /\ MarkPushed(r)
        /\ NextRun(r)
  /\ UNCHANGED <<version, log, platform, bounds>>

PushEvents(r) ==
  /\ pc = "events"
  /\ Current(r)
  /\ r \notin Rejected
  /\ got' = [got EXCEPT ![r] = @ \cup {e[2] : e \in InHand(r)}]
  /\ pc' = "snapshot"
  /\ UNCHANGED <<store, batch, snapshot, seen, bounds>>

ReadSnapshot(r) ==
  /\ pc = "snapshot"
  /\ Current(r)
  /\ snapshot' = version[r]
  /\ pc' = "state"
  /\ UNCHANGED <<store, batch, platform, bounds>>

PushState(r) ==
  /\ pc = "state"
  /\ Current(r)
  /\ seen' = [seen EXCEPT ![r] = snapshot]
  /\ pc' = "mark"
  /\ UNCHANGED <<store, batch, snapshot, got, bounds>>

Mark(r) ==
  /\ pc = "mark"
  /\ Current(r)
  /\ MarkPushed(r)
  /\ NextRun(r)
  /\ UNCHANGED <<version, log, platform, bounds>>

\* Mutant of Fails: a failed state push is logged and the batch marked.
FailsMarked(r) ==
  /\ pc # "idle"
  /\ Current(r)
  /\ failures < MaxFailures /\ failures' = failures + 1
  /\ IF pc = "state" THEN MarkPushed(r) ELSE UNCHANGED pushed
  /\ NextRun(r)
  /\ UNCHANGED <<version, log, platform, crashes>>

\* Any await fails: the events of this run stay unpushed and the next run is
\* taken up.  A request may have landed although its answer did not arrive.
Fails(r) ==
  /\ pc # "idle"
  /\ Current(r)
  /\ \/ failures < MaxFailures /\ failures' = failures + 1
     \/ pc = "events" /\ r \in Rejected /\ UNCHANGED failures
  /\ \/ UNCHANGED platform
     \/ /\ pc = "events" /\ r \notin Rejected
        /\ got' = [got EXCEPT ![r] = @ \cup {e[2] : e \in InHand(r)}]
        /\ UNCHANGED seen
     \/ /\ pc = "state"
        /\ seen' = [seen EXCEPT ![r] = snapshot]
        /\ UNCHANGED got
  /\ NextRun(r)
  /\ UNCHANGED <<store, crashes>>

\* The pump's memory is gone; the store and the platform stay.  A shutdown
\* drops the task at the same places.
Crash ==
  /\ crashes < MaxCrashes
  /\ crashes' = crashes + 1
  /\ batch' = {}
  /\ pc' = "idle"
  /\ snapshot' = 0
  /\ UNCHANGED <<store, platform, failures>>

-----------------------------------------------------------------------------
Init ==
  /\ version = [r \in Runs |-> 0]
  /\ log = [r \in Runs |-> <<>>]
  /\ pushed = [r \in Runs |-> {}]
  /\ batch = {} /\ pc = "idle" /\ snapshot = 0
  /\ got = [r \in Runs |-> {}]
  /\ seen = [r \in Runs |-> 0]
  /\ failures = 0 /\ crashes = 0

PumpStep(r) == Load(r) \/ PushEvents(r) \/ ReadSnapshot(r) \/ PushState(r) \/ Mark(r)

Next ==
  \/ Fetch
  \/ \E r \in Runs : PumpStep(r) \/ Fails(r) \/ \E n \in 0 .. 2 : Apply(r, n)
  \/ Crash

Spec == Init /\ [][Next]_vars

\* The pump is a loop that ticks for ever: whatever it can do it does, and a
\* request that is refused fails.  Nothing is asked of the runs.
Fairness == WF_vars(Fetch) /\ WF_vars(\E r \in Runs : PumpStep(r) \/ (r \in Rejected /\ Fails(r)))

FairSpec == Spec /\ Fairness

-----------------------------------------------------------------------------
(* Properties. *)

Pc == {"idle", "load", "events", "snapshot", "state", "mark"}

\* The types of the store's columns, of the pump's locals and of what the
\* platform keeps.
TypeOK ==
  /\ version \in [Runs -> 0 .. MaxApplies]
  /\ log \in [Runs -> Seq(Nat)]
  /\ pushed \in [Runs -> SUBSET (Nat \ {0})]
  /\ batch \subseteq Runs \X (Nat \ {0})
  /\ pc \in Pc
  /\ snapshot \in Nat
  /\ got \in [Runs -> SUBSET (Nat \ {0})]
  /\ seen \in [Runs -> Nat]
  /\ failures \in 0 .. MaxFailures
  /\ crashes \in 0 .. MaxCrashes

\* pump.rs:91 "Events already landed; don't mark pushed on a state failure":
\* an event that is marked, and so never sent again, is at the platform,
\* although the mark covers a range of sequences and new events are appended
\* while the requests are under way.
NothingLost == \A r \in PlatformRuns : pushed[r] \subseteq got[r]

\* pump.rs:2 "ascending sequence, per run": the platform never has an event of
\* a run without all the earlier ones, whatever was lost or sent twice.
NoGap == \A r \in Runs : \A n \in got[r] : 1 .. n \subseteq got[r]

\* The platform shows a run at least as it was when its last marked event was
\* written: once the outbox is empty no state is left behind that an event
\* announced.
SnapshotCovers ==
  \A r \in PlatformRuns : \A n \in pushed[r] : seen[r] >= log[r][n]

\* The outbox empties again and again: every event is delivered and leaves it,
\* however the pump is interrupted by failing requests, by crashes and by a run
\* of a later id that the platform refuses for good.
Delivered == []<>(\A r \in Runs \ Rejected : pushed[r] = DOMAIN log[r])

=============================================================================
