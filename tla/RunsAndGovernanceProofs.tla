------------------------ MODULE RunsAndGovernanceProofs ------------------------
(***************************************************************************)
(* The runs of Program Mode and the governance above them: two modules     *)
(* that share no state.                                                    *)
(*                                                                         *)
(* What RunLifecycle guarantees for any runs, dispatchers and reconcilers. *)
(* First its types, one lemma for each kind of step; then the ladder, the  *)
(* lease and the census: a worker watching a leased run's child holds the  *)
(* worktree's lease, and, where only dispatchers and workers write the     *)
(* ledger, one real child runs at a time; a ready run has the evidence its *)
(* handoff names, and no dispatch key gets a second worker.                *)
(*                                                                         *)
(* Then the budgets and decisions of Governance, for any questions, lanes, *)
(* findings, modes and number of crashes.                                  *)
(***************************************************************************)
EXTENDS RunLifecycle, Governance, TLAPS

----------------------------------------------------------------------------
(* The pieces the actions share.                                           *)

LEMMA StateNames ==
    /\ Refusals \subseteq States /\ Active \subseteq States
    /\ Terminal \subseteq States /\ "NONE" \in States
BY DEF States, Terminal

LEMMA SettleType ==
    ASSUME RowsOK, NEW r \in Runs, NEW to \in States, Settle(r, to),
           UNCHANGED <<lease, spawned, started, result, evidence, handoff>>
    PROVE  RowsOK'
BY DEF RowsOK, Settle

LEMMA ReturnType ==
    ASSUME DispatchersOK, NEW d \in Dispatchers, Return(d)
    PROVE  DispatchersOK'
BY DEF DispatchersOK, Return, DispatcherPCs

LEMMA GotoType ==
    ASSUME DispatchersOK, NEW d \in Dispatchers, dpc[d] # "idle",
           NEW p \in DispatcherPCs \ {"idle"}, Goto(d, p)
    PROVE  DispatchersOK'
BY DEF DispatchersOK, Goto

LEMMA AdvanceType ==
    ASSUME RowsOK, DispatchersOK, NEW d \in Dispatchers, drun[d] \in Runs, dpc[d] # "idle",
           NEW legal, NEW to \in States, NEW p \in DispatcherPCs \ {"idle"},
           Advance(d, legal, to, p),
           UNCHANGED <<lease, spawned, started, result, evidence, handoff>>
    PROVE  RowsOK' /\ DispatchersOK'
<1>1. RowsOK'
  BY DEF Advance, RowsOK
<1>2. DispatchersOK'
  BY ReturnType, GotoType DEF Advance
<1> QED
  BY <1>1, <1>2

LEMMA Busy ==
    ASSUME DispatchersOK, NEW d \in Dispatchers, dpc[d] # "idle"
    PROVE  drun[d] \in Runs
BY DEF DispatchersOK

\* A dispatcher's step writes the run's state, the lease, a spawn or its own place.
LEMMA DispatcherType ==
    ASSUME TypeOK, NEW d \in Dispatchers, DispatcherStep(d)
    PROVE  TypeOK'
<1> RowsOK /\ FilesOK /\ DispatchersOK /\ WorkersOK /\ ReconcilersOK /\ CancelOK /\ HistoryOK
  BY DEF TypeOK
<1>1. dpc[d] # "idle"
  BY DEF DispatcherStep, StartPreflight, RefuseAtGates, Census, RefuseOverCeiling,
         AcquireLease, MarkLeased, FindDrift, RefuseLease, WriteRequest, MarkDispatched,
         Spawn, SpawnFails, RecordSpawn
<1>2. drun[d] \in Runs
  BY <1>1, Busy
<1>3. UNCHANGED <<reconcilers, canceller>> => ReconcilersOK' /\ CancelOK'
  BY DEF reconcilers, canceller, ReconcilersOK, CancelOK
<1>4. UNCHANGED <<files, workers>> => FilesOK' /\ WorkersOK'
  BY DEF files, workers, FilesOK, WorkersOK
<1>5. UNCHANGED history => HistoryOK'
  BY DEF history, HistoryOK
<1>6. ASSUME NEW to \in Refusals, Refuse(d, to)
      PROVE  /\ RowsOK' /\ FilesOK' /\ DispatchersOK' /\ WorkersOK' /\ ReconcilersOK'
             /\ CancelOK'
  <2>1. RowsOK'
    BY <1>2, <1>6, StateNames, SettleType DEF Refuse
  <2>2. DispatchersOK'
    BY <1>6, ReturnType DEF Refuse
  <2> QED
    BY <1>3, <1>4, <1>6, <2>1, <2>2 DEF Refuse
<1>7. CASE StartPreflight(d)
  <2>1. RowsOK' /\ DispatchersOK'
    BY <1>1, <1>2, <1>7, AdvanceType, StateNames DEF StartPreflight, DispatcherPCs, Active
  <2> QED
    BY <1>3, <1>4, <1>5, <1>7, <2>1 DEF StartPreflight, TypeOK
<1>8. CASE RefuseAtGates(d)
  <2>1. PICK to \in Refusals : Refuse(d, to)
    BY <1>8 DEF RefuseAtGates, Refusals
  <2> QED
    BY <1>5, <1>6, <1>8, <2>1 DEF RefuseAtGates, TypeOK
<1>9. CASE Census(d)
  <2>1. DispatchersOK'
    BY <1>1, <1>9, GotoType DEF Census, AfterCensus, DispatcherPCs
  <2>2. RowsOK'
    BY <1>9 DEF Census, rows, RowsOK
  <2> QED
    BY <1>3, <1>4, <1>5, <1>9, <2>1, <2>2 DEF Census, TypeOK
<1>10. CASE RefuseOverCeiling(d)
  BY <1>5, <1>6, <1>10 DEF RefuseOverCeiling, Refusals, TypeOK
<1>11. CASE AcquireLease(d)
  <2>1. DispatchersOK'
    BY <1>1, <1>11, GotoType DEF AcquireLease, DispatcherPCs
  <2>2. RowsOK'
    BY <1>2, <1>11 DEF AcquireLease, RowsOK
  <2> QED
    BY <1>3, <1>4, <1>5, <1>11, <2>1, <2>2 DEF AcquireLease, TypeOK
<1>12. CASE MarkLeased(d)
  <2>1. RowsOK' /\ DispatchersOK'
    BY <1>1, <1>2, <1>12, AdvanceType, StateNames DEF MarkLeased, DispatcherPCs, Active
  <2> QED
    BY <1>3, <1>4, <1>5, <1>12, <2>1 DEF MarkLeased, TypeOK
<1>13. CASE FindDrift(d)
  <2>1. DispatchersOK'
    BY <1>1, <1>13, GotoType DEF FindDrift, DispatcherPCs
  <2>2. RowsOK'
    BY <1>13 DEF FindDrift, RowsOK
  <2> QED
    BY <1>3, <1>4, <1>5, <1>13, <2>1, <2>2 DEF FindDrift, TypeOK
<1>14. CASE RefuseLease(d)
  BY <1>5, <1>6, <1>14 DEF RefuseLease, Refusals, TypeOK
<1>15. CASE WriteRequest(d)
  <2>1. DispatchersOK'
    BY <1>1, <1>15, GotoType DEF WriteRequest, DispatcherPCs
  <2>2. RowsOK' /\ FilesOK' /\ WorkersOK'
    BY <1>2, <1>15 DEF WriteRequest, rows, workers, RowsOK, FilesOK, WorkersOK
  <2> QED
    BY <1>3, <1>5, <1>15, <2>1, <2>2 DEF WriteRequest, TypeOK
<1>16. CASE MarkDispatched(d)
  <2>1. RowsOK' /\ DispatchersOK'
    BY <1>1, <1>2, <1>16, AdvanceType, StateNames DEF MarkDispatched, DispatcherPCs, Active
  <2> QED
    BY <1>3, <1>4, <1>5, <1>16, <2>1 DEF MarkDispatched, TypeOK
<1>17. CASE Spawn(d)
  <2>1. DispatchersOK'
    BY <1>1, <1>17, GotoType DEF Spawn, DispatcherPCs
  <2>2. RowsOK' /\ FilesOK'
    BY <1>17 DEF Spawn, rows, files, RowsOK, FilesOK
  <2>3. WorkersOK'
    BY <1>2, <1>17 DEF Spawn, WorkersOK, WorkerPCs
  <2> QED
    BY <1>3, <1>5, <1>17, <2>1, <2>2, <2>3 DEF Spawn, TypeOK
<1>18. CASE SpawnFails(d)
  <2>1. HistoryOK'
    BY <1>2, <1>18 DEF SpawnFails, HistoryOK
  <2> QED
    BY <1>6, <1>18, <2>1 DEF SpawnFails, Refusals, TypeOK
<1>19. CASE RecordSpawn(d)
  <2>1. DispatchersOK'
    BY <1>19, ReturnType DEF RecordSpawn
  <2>2. RowsOK'
    BY <1>2, <1>19 DEF RecordSpawn, RowsOK
  <2> QED
    BY <1>3, <1>4, <1>5, <1>19, <2>1, <2>2 DEF RecordSpawn, TypeOK
<1> QED
  BY <1>7, <1>8, <1>9, <1>10, <1>11, <1>12, <1>13, <1>14, <1>15, <1>16, <1>17, <1>18, <1>19
  DEF DispatcherStep

\* The shapes a worker's step comes in, each with what it leaves alone.
LEMMA WorkerFrameType ==
    ASSUME DispatchersOK, ReconcilersOK, CancelOK, WorkerFrame
    PROVE  DispatchersOK' /\ ReconcilersOK' /\ CancelOK'
BY DEF WorkerFrame, dispatchers, reconcilers, canceller, DispatchersOK, ReconcilersOK, CancelOK

LEMMA StepType ==
    ASSUME WorkersOK, NEW r \in Runs, NEW from, NEW to \in WorkerPCs, Step(r, from, to),
           UNCHANGED <<wlease, child>>
    PROVE  WorkersOK'
BY DEF WorkersOK, Step

LEMMA FailType ==
    ASSUME TypeOK, NEW r \in Runs, NEW from, NEW to \in WorkerPCs, NEW verdict \in Refusals,
           Fail(r, from, to, verdict), broken' \subseteq Runs
    PROVE  TypeOK'
<1>1. RowsOK'
  BY SettleType, StateNames DEF Fail, WorkerFrame, TypeOK
<1>2. FilesOK'
  BY DEF Fail, WorkerFrame, TypeOK, FilesOK
<1>3. WorkersOK'
  BY StepType DEF Fail, TypeOK
<1>4. HistoryOK'
  BY DEF Fail, WorkerFrame, TypeOK, HistoryOK
<1> QED
  BY <1>1, <1>2, <1>3, <1>4, WorkerFrameType DEF Fail, TypeOK

LEMMA ProceedType ==
    ASSUME TypeOK, NEW r \in Runs, NEW from, NEW to \in WorkerPCs, NEW before,
           NEW after \in States, Proceed(r, from, to, before, after)
    PROVE  TypeOK'
<1>1. RowsOK'
  BY DEF Proceed, WorkerFrame, TypeOK, RowsOK
<1>2. FilesOK'
  BY DEF Proceed, WorkerFrame, TypeOK, FilesOK
<1>3. WorkersOK'
  BY StepType DEF Proceed, TypeOK, WorkerPCs
<1>4. HistoryOK'
  BY DEF Proceed, WorkerFrame, TypeOK, HistoryOK
<1> QED
  BY <1>1, <1>2, <1>3, <1>4, WorkerFrameType DEF Proceed, TypeOK

LEMMA ReceiptType ==
    ASSUME TypeOK, NEW r \in Runs, NEW from, NEW to \in WorkerPCs, NEW how \in Receipts,
           WriteReceipt(r, from, to, how)
    PROVE  TypeOK'
<1>1. RowsOK' /\ HistoryOK'
  BY DEF WriteReceipt, WorkerFrame, TypeOK, RowsOK, HistoryOK
<1>2. FilesOK'
  BY DEF WriteReceipt, WorkerFrame, TypeOK, FilesOK
<1>3. WorkersOK'
  BY StepType DEF WriteReceipt, TypeOK
<1> QED
  BY <1>1, <1>2, <1>3, WorkerFrameType DEF WriteReceipt, TypeOK

LEMMA ResultType ==
    ASSUME TypeOK, NEW r \in Runs, NEW from, NEW to \in WorkerPCs, NEW valid \in BOOLEAN,
           RecordResult(r, from, to, valid)
    PROVE  TypeOK'
<1>1. RowsOK'
  BY DEF RecordResult, WorkerFrame, TypeOK, RowsOK
<1>2. FilesOK'
  BY DEF RecordResult, WorkerFrame, TypeOK, FilesOK
<1>3. WorkersOK'
  BY StepType DEF RecordResult, TypeOK
<1>4. HistoryOK'
  BY DEF RecordResult, WorkerFrame, TypeOK, HistoryOK
<1> QED
  BY <1>1, <1>2, <1>3, <1>4, WorkerFrameType DEF RecordResult, TypeOK

LEMMA EvidenceType ==
    ASSUME TypeOK, NEW r \in Runs, NEW from, NEW to \in WorkerPCs, NEW ok \in BOOLEAN,
           CollectEvidence(r, from, to, ok)
    PROVE  TypeOK'
<1>1. RowsOK'
  BY DEF CollectEvidence, WorkerFrame, TypeOK, RowsOK
<1>2. FilesOK' /\ HistoryOK'
  BY DEF CollectEvidence, WorkerFrame, TypeOK, FilesOK, HistoryOK
<1>3. WorkersOK'
  BY StepType DEF CollectEvidence, TypeOK
<1> QED
  BY <1>1, <1>2, <1>3, WorkerFrameType DEF CollectEvidence, TypeOK

\* Up to the child's end: the lock, the identity, the lease row and the launch.
LEMMA LaunchType ==
    ASSUME TypeOK, NEW r \in Runs,
           \/ OpenLock(r) \/ TakeLock(r) \/ LockRefused(r) \/ RecordStarted(r)
           \/ ReadLease(r) \/ Launch(r)
    PROVE  TypeOK'
<1>1. RowsOK'
  BY DEF OpenLock, TakeLock, LockRefused, RecordStarted, ReadLease, Launch, WorkerFrame,
         TypeOK, RowsOK
<1>2. FilesOK'
  BY DEF OpenLock, TakeLock, LockRefused, RecordStarted, ReadLease, Launch, WorkerFrame,
         TypeOK, FilesOK
<1>3. WorkersOK'
  <2>1. CASE OpenLock(r) \/ TakeLock(r) \/ LockRefused(r) \/ RecordStarted(r)
    BY <2>1, StepType
    DEF OpenLock, TakeLock, LockRefused, RecordStarted, TypeOK, WorkerPCs, Executing
  <2>2. CASE ReadLease(r) \/ Launch(r)
    BY <2>2 DEF ReadLease, Launch, Step, TypeOK, WorkersOK, WorkerPCs, Executing
  <2> QED
    BY <2>1, <2>2
<1>4. HistoryOK'
  BY DEF OpenLock, TakeLock, LockRefused, RecordStarted, ReadLease, Launch, WorkerFrame,
         TypeOK, HistoryOK
<1>5. WorkerFrame
  BY DEF OpenLock, TakeLock, LockRefused, RecordStarted, ReadLease, Launch
<1> QED
  BY <1>1, <1>2, <1>3, <1>4, <1>5, WorkerFrameType DEF TypeOK

\* The end of a worker, orderly or not, and of a child.
LEMMA EndType ==
    ASSUME TypeOK, NEW r \in Runs,
           \/ RecordHandoff(r) \/ ReleaseLease(r) \/ Unlock(r)
           \/ WorkerRaises(r) \/ WorkerDies(r)
    PROVE  TypeOK'
<1>1. RowsOK'
  BY DEF RecordHandoff, ReleaseLease, Unlock, WorkerRaises, WorkerDies, WorkerFrame,
         TypeOK, RowsOK
<1>2. FilesOK'
  BY DEF RecordHandoff, ReleaseLease, Unlock, WorkerRaises, WorkerDies, WorkerFrame,
         TypeOK, FilesOK
<1>3. WorkersOK'
  BY StepType
  DEF RecordHandoff, ReleaseLease, Unlock, WorkerRaises, WorkerDies, TypeOK, WorkerPCs,
      Executing
<1>4. HistoryOK'
  BY DEF RecordHandoff, ReleaseLease, Unlock, WorkerRaises, WorkerDies, WorkerFrame,
         TypeOK, HistoryOK
<1>5. WorkerFrame
  BY DEF RecordHandoff, ReleaseLease, Unlock, WorkerRaises, WorkerDies
<1> QED
  BY <1>1, <1>2, <1>3, <1>4, <1>5, WorkerFrameType DEF TypeOK

LEMMA ChildEndsType ==
    ASSUME TypeOK, NEW r \in Runs, ChildEnds(r)
    PROVE  TypeOK'
<1>1. WorkersOK'
  BY DEF ChildEnds, TypeOK, WorkersOK
<1>2. RowsOK' /\ FilesOK' /\ DispatchersOK' /\ HistoryOK'
  BY DEF ChildEnds, rows, files, dispatchers, history, TypeOK, RowsOK, FilesOK, DispatchersOK,
         HistoryOK
<1>3. ReconcilersOK' /\ CancelOK'
  BY DEF ChildEnds, reconcilers, canceller, TypeOK, ReconcilersOK, CancelOK
<1> QED
  BY <1>1, <1>2, <1>3 DEF TypeOK

LEMMA WorkerType ==
    ASSUME TypeOK, NEW r \in Runs, WorkerStep(r)
    PROVE  TypeOK'
<1>1. broken \subseteq Runs
  BY DEF TypeOK, HistoryOK
<1>2. CASE RequestUnreadable(r)
  BY <1>1, <1>2, FailType DEF RequestUnreadable, WorkerPCs, Refusals
<1>3. CASE DriftAtLaunch(r) \/ NeverStarted(r) \/ RejectResult(r) \/ FailUnsynced(r)
           \/ RejectEvidence(r)
  BY <1>1, <1>3, FailType
  DEF DriftAtLaunch, NeverStarted, RejectResult, FailUnsynced, RejectEvidence, WorkerPCs, Refusals
<1>4. CASE StartRunning(r) \/ MarkReceived(r) \/ MarkCollected(r) \/ MarkReady(r)
  BY <1>4, ProceedType
  DEF StartRunning, MarkReceived, MarkCollected, MarkReady, WorkerPCs, Executing, States,
      Active, Terminal
<1>5. CASE LaunchFails(r) \/ ChildReturns(r)
  BY <1>5, ReceiptType DEF LaunchFails, ChildReturns, WorkerPCs, Executing, Receipts
<1>6. CASE RecordValid(r) \/ RecordInvalid(r) \/ SyncFails(r)
  BY <1>6, ResultType DEF RecordValid, RecordInvalid, SyncFails, WorkerPCs, Executing
<1>7. CASE EvidenceOfInvalid(r) \/ EvidenceAccepted(r) \/ EvidenceRefused(r)
  BY <1>7, EvidenceType
  DEF EvidenceOfInvalid, EvidenceAccepted, EvidenceRefused, WorkerPCs, Executing
<1> QED
  BY <1>2, <1>3, <1>4, <1>5, <1>6, <1>7, LaunchType, EndType DEF WorkerStep

\* A reconciler's step writes what it has seen, a probe of a lock, a verdict or a
\* reclaimed lease.
LEMMA ReadFrameType ==
    ASSUME TypeOK, ReadFrame
    PROVE  RowsOK' /\ FilesOK' /\ DispatchersOK' /\ WorkersOK' /\ CancelOK' /\ HistoryOK'
<1>1. RowsOK' /\ FilesOK'
  BY DEF ReadFrame, rows, files, TypeOK, RowsOK, FilesOK
<1>2. DispatchersOK' /\ WorkersOK'
  BY DEF ReadFrame, dispatchers, workers, TypeOK, DispatchersOK, WorkersOK
<1>3. CancelOK' /\ HistoryOK'
  BY DEF ReadFrame, canceller, history, TypeOK, CancelOK, HistoryOK
<1> QED
  BY <1>1, <1>2, <1>3

LEMMA UnseenType == Unseen \in Sightings
BY DEF Unseen, Sightings, Receipts

LEMMA FinishType ==
    ASSUME ReconcilersOK, NEW c \in Reconcilers, Finish(c)
    PROVE  ReconcilersOK'
BY UnseenType DEF ReconcilersOK, Finish, See, ReconcilerPCs

LEMMA SightingFlags ==
    ASSUME NEW k \in Sightings, NEW p, NEW q \in BOOLEAN
    PROVE  /\ [k EXCEPT !.started = p \in started] \in Sightings
           /\ [k EXCEPT !.pid = p \in started] \in Sightings
           /\ [k EXCEPT !.changed = q] \in Sightings
<1>1. ASSUME NEW b \in BOOLEAN
      PROVE  /\ [k EXCEPT !.started = b] \in Sightings
             /\ [k EXCEPT !.pid = b] \in Sightings
             /\ [k EXCEPT !.changed = b] \in Sightings
  BY DEF Sightings
<1>2. (p \in started) \in BOOLEAN
  OBVIOUS
<1> QED
  BY <1>1, <1>2, Zenon

LEMMA SeeType ==
    ASSUME ReconcilersOK, NEW c \in Reconcilers, NEW from \in ReconcilerPCs \ {"idle"},
           NEW to \in ReconcilerPCs \ {"idle"}, RStep(c, from, to),
           NEW k \in Sightings, See(c, k)
    PROVE  ReconcilersOK'
BY DEF ReconcilersOK, RStep, See

LEMMA Occupied ==
    ASSUME ReconcilersOK, NEW c \in Reconcilers, rpc[c] # "idle"
    PROVE  rrun[c] \in Runs
BY DEF ReconcilersOK

LEMMA BeginReconcileType ==
    ASSUME TypeOK, NEW c \in Reconcilers, NEW r \in Runs, BeginReconcile(c, r)
    PROVE  TypeOK'
<1>1. [Unseen EXCEPT !.phase = Phase(state[r])] \in Sightings
  BY DEF Unseen, Sightings, Receipts, Phase
<1>2. ReconcilersOK'
  BY <1>1, RunsAssumption DEF BeginReconcile, See, TypeOK, ReconcilersOK, ReconcilerPCs
<1> QED
  BY <1>2, ReadFrameType DEF BeginReconcile, TypeOK

LEMMA ReadingType ==
    ASSUME TypeOK, NEW c \in Reconcilers,
           SeeWorker(c) \/ SeeReceipt(c) \/ SeeResult(c) \/ SeeEvidence(c)
    PROVE  TypeOK'
<1>1. rpc[c] # "idle"
  BY DEF SeeWorker, SeeReceipt, SeeResult, SeeEvidence, RStep
<1>2. rrun[c] \in Runs /\ seen[c] \in Sightings
  BY <1>1, Occupied DEF TypeOK, ReconcilersOK
<1>3. CASE SeeWorker(c)
  <2>1. [seen[c] EXCEPT !.started = rrun[c] \in started] \in Sightings
    BY <1>2, SightingFlags
  <2> QED
    BY <1>3, <2>1, SeeType, ReadFrameType DEF SeeWorker, TypeOK, ReconcilerPCs
<1>4. CASE SeeReceipt(c)
  <2>1. [seen[c] EXCEPT !.receipt = receipt[rrun[c]]] \in Sightings
    BY <1>2 DEF Sightings, TypeOK, FilesOK
  <2> QED
    BY <1>4, <2>1, SeeType, ReadFrameType DEF SeeReceipt, TypeOK, ReconcilerPCs
<1>5. CASE SeeResult(c)
  <2>1. [seen[c] EXCEPT !.valid = (result[rrun[c]] = "valid")] \in Sightings
    BY <1>2 DEF Sightings
  <2> QED
    BY <1>5, <2>1, SeeType, ReadFrameType DEF SeeResult, TypeOK, ReconcilerPCs
<1>6. CASE SeeEvidence(c)
  <2>1. evidence[rrun[c]].changed \in BOOLEAN
    BY <1>2 DEF TypeOK, RowsOK
  <2>2. [seen[c] EXCEPT !.changed = evidence[rrun[c]].changed,
                        !.pid = rrun[c] \in started] \in Sightings
    <3>1. [seen[c] EXCEPT !.changed = evidence[rrun[c]].changed] \in Sightings
      BY <1>2, <2>1, SightingFlags
    <3> QED
      BY <3>1, SightingFlags
  <2> QED
    BY <1>6, <2>2, SeeType, ReadFrameType DEF SeeEvidence, TypeOK, ReconcilerPCs
<1> QED
  BY <1>3, <1>4, <1>5, <1>6

LEMMA ProbingType ==
    ASSUME TypeOK, NEW c \in Reconcilers, Probing(c)
    PROVE  TypeOK'
<1>1. rpc[c] # "idle"
  BY DEF Probing, CannotProbe, FindHeld, ProbeLock, FinishProbe, RStep
<1>2. rrun[c] \in Runs /\ seen[c] \in Sightings
  BY <1>1, Occupied DEF TypeOK, ReconcilersOK
<1>3. ASSUME NEW live \in {"ALIVE", "DEAD", "UNKNOWN"}
      PROVE  [seen[c] EXCEPT !.live = live] \in Sightings
  BY <1>2 DEF Sightings
<1>4. CASE CannotProbe(c, "probe", "classify") \/ CannotProbe(c, "reprobe", "reclaim")
  BY <1>3, <1>4, SeeType, ReadFrameType DEF CannotProbe, TypeOK, ReconcilerPCs
<1>5. CASE FindHeld(c, "probe", "classify") \/ FindHeld(c, "reprobe", "reclaim")
  BY <1>3, <1>5, SeeType, ReadFrameType DEF FindHeld, TypeOK, ReconcilerPCs
<1>6. ASSUME NEW from \in {"probe", "reprobe"}, NEW hold \in {"probing", "reprobing"},
             ProbeLock(c, from, hold)
      PROVE  TypeOK'
  <2>1. ReconcilersOK'
    BY <1>6 DEF ProbeLock, RStep, TypeOK, ReconcilersOK, ReconcilerPCs
  <2>2. FilesOK'
    BY <1>2, <1>6 DEF ProbeLock, TypeOK, FilesOK
  <2>3. RowsOK' /\ DispatchersOK' /\ WorkersOK'
    BY <1>6 DEF ProbeLock, rows, dispatchers, workers, TypeOK, RowsOK, DispatchersOK, WorkersOK
  <2>4. CancelOK' /\ HistoryOK'
    BY <1>6 DEF ProbeLock, canceller, history, TypeOK, CancelOK, HistoryOK
  <2> QED
    BY <2>1, <2>2, <2>3, <2>4 DEF TypeOK
<1>7. ASSUME NEW hold \in {"probing", "reprobing"}, NEW to \in {"classify", "reclaim"},
             FinishProbe(c, hold, to)
      PROVE  TypeOK'
  <2>1. ReconcilersOK'
    BY <1>3, <1>7, SeeType DEF FinishProbe, TypeOK, ReconcilerPCs
  <2>2. FilesOK'
    BY <1>2, <1>7 DEF FinishProbe, TypeOK, FilesOK
  <2>3. RowsOK' /\ DispatchersOK' /\ WorkersOK'
    BY <1>7
    DEF FinishProbe, rows, dispatchers, workers, TypeOK, RowsOK, DispatchersOK, WorkersOK
  <2>4. CancelOK' /\ HistoryOK'
    BY <1>7 DEF FinishProbe, canceller, history, TypeOK, CancelOK, HistoryOK
  <2> QED
    BY <2>1, <2>2, <2>3, <2>4 DEF TypeOK
<1> QED
  BY <1>4, <1>5, <1>6, <1>7 DEF Probing

LEMMA VerdictTargets ==
    ASSUME NEW k, NEW write, NEW workerRow
    PROVE  Classify(k, write, workerRow).target \in Refusals \cup {"NONE"}
BY DEF Classify, WithReceipt, WithoutReceipt, Leave, Verdict, Refusals

LEMMA ConcludeType ==
    ASSUME TypeOK, NEW c \in Reconcilers, Conclude(c)
    PROVE  TypeOK'
<1> DEFINE v == Classify(seen[c], rrun[c] \in Writes, rrun[c] \in spawned \cup started)
<1>1. rpc[c] # "idle" /\ rrun[c] \in Runs
  BY Occupied DEF Conclude, TypeOK
<1>2. HistoryOK'
  BY <1>1 DEF Conclude, TypeOK, HistoryOK
<1>3. ReconcilersOK'
  <2>1. CASE v.target = "NONE" /\ Finish(c)
    BY <2>1, FinishType DEF TypeOK
  <2>2. CASE /\ rpc' = [rpc EXCEPT ![c] = "apply"]
             /\ See(c, [Unseen EXCEPT !.target = v.target])
             /\ UNCHANGED rrun
    <3>1. [Unseen EXCEPT !.target = v.target] \in Sightings
      BY VerdictTargets DEF Unseen, Sightings, Receipts
    <3> QED
      BY <1>1, <2>2, <3>1 DEF See, TypeOK, ReconcilersOK, ReconcilerPCs
  <2> QED
    BY <2>1, <2>2 DEF Conclude
<1>4. RowsOK' /\ FilesOK' /\ DispatchersOK'
  BY DEF Conclude, rows, files, dispatchers, TypeOK, RowsOK, FilesOK, DispatchersOK
<1>5. WorkersOK' /\ CancelOK'
  BY DEF Conclude, workers, canceller, TypeOK, WorkersOK, CancelOK
<1> QED
  BY <1>2, <1>3, <1>4, <1>5 DEF TypeOK

LEMMA ActingType ==
    ASSUME TypeOK, NEW c \in Reconcilers, ApplyVerdict(c) \/ SeeLease(c) \/ Reclaim(c)
    PROVE  TypeOK'
<1>1. rpc[c] # "idle" /\ rrun[c] \in Runs
  BY Occupied DEF ApplyVerdict, SeeLease, Reclaim, RStep, TypeOK
<1>2. seen[c].target \in States
  BY <1>1, StateNames DEF TypeOK, ReconcilersOK, Sightings
<1>3. CASE ApplyVerdict(c)
  <2>1. RowsOK'
    BY <1>1, <1>2, <1>3, SettleType DEF ApplyVerdict, TypeOK
  <2>2. ReconcilersOK'
    BY <1>3 DEF ApplyVerdict, RStep, TypeOK, ReconcilersOK, ReconcilerPCs
  <2>3. FilesOK' /\ DispatchersOK' /\ WorkersOK'
    BY <1>3 DEF ApplyVerdict, files, dispatchers, workers, TypeOK, FilesOK, DispatchersOK, WorkersOK
  <2>4. CancelOK' /\ HistoryOK'
    BY <1>3 DEF ApplyVerdict, canceller, history, TypeOK, CancelOK, HistoryOK
  <2> QED
    BY <2>1, <2>2, <2>3, <2>4 DEF TypeOK
<1>4. CASE SeeLease(c)
  <2>1. [Unseen EXCEPT !.pid = rrun[c] \in started] \in Sightings
    BY UnseenType, SightingFlags
  <2>2. ReconcilersOK'
    BY <1>1, <1>4, <2>1, FinishType DEF SeeLease, See, TypeOK, ReconcilersOK, ReconcilerPCs
  <2> QED
    BY <1>4, <2>2, ReadFrameType DEF SeeLease, TypeOK
<1>5. CASE Reclaim(c)
  <2>1. RowsOK'
    BY <1>5 DEF Reclaim, TypeOK, RowsOK
  <2>2. ReconcilersOK'
    BY <1>5, FinishType DEF Reclaim, TypeOK
  <2>3. FilesOK' /\ DispatchersOK' /\ WorkersOK'
    BY <1>5 DEF Reclaim, files, dispatchers, workers, TypeOK, FilesOK, DispatchersOK, WorkersOK
  <2>4. CancelOK' /\ HistoryOK'
    BY <1>5 DEF Reclaim, canceller, history, TypeOK, CancelOK, HistoryOK
  <2> QED
    BY <2>1, <2>2, <2>3, <2>4 DEF TypeOK
<1> QED
  BY <1>3, <1>4, <1>5

LEMMA CancelType ==
    ASSUME TypeOK, (\E r \in Runs : BeginCancel(r)) \/ ApplyCancel
    PROVE  TypeOK'
<1>1. CancelOK'
  BY RunsAssumption DEF BeginCancel, ApplyCancel, TypeOK, CancelOK
<1>2. CancelFrame
  BY DEF BeginCancel, ApplyCancel
<1>3. RowsOK'
  <2>1. CASE ApplyCancel
    <3>1. crun \in Runs
      BY <2>1 DEF ApplyCancel, TypeOK, CancelOK
    <3>2. "CANCELLED" \in States
      BY StateNames DEF Refusals
    <3> QED
      BY <1>2, <2>1, <3>1, <3>2, SettleType DEF ApplyCancel, CancelFrame, TypeOK
  <2>2. CASE UNCHANGED state
    BY <1>2, <2>2 DEF CancelFrame, TypeOK, RowsOK
  <2> QED
    BY <2>1, <2>2 DEF BeginCancel
<1>4. FilesOK' /\ DispatchersOK' /\ WorkersOK'
  BY <1>2 DEF CancelFrame, files, dispatchers, workers, TypeOK, FilesOK, DispatchersOK, WorkersOK
<1>5. ReconcilersOK' /\ HistoryOK'
  BY <1>2 DEF CancelFrame, reconcilers, history, TypeOK, ReconcilersOK, HistoryOK
<1> QED
  BY <1>1, <1>3, <1>4, <1>5 DEF TypeOK

LEMMA DispatcherEndsType ==
    ASSUME TypeOK, NEW d \in Dispatchers,
           (\E r \in Runs : Admit(d, r)) \/ DispatcherDies(d)
    PROVE  TypeOK'
<1>1. CASE \E r \in Runs : Admit(d, r)
  <2>1. PICK r \in Runs : Admit(d, r)
    BY <1>1
  <2>2. DispatchersOK'
    BY <2>1, RunsAssumption DEF Admit, Create, TypeOK, DispatchersOK, DispatcherPCs
  <2>3. RowsOK'
    BY <2>1 DEF Admit, Create, TypeOK, RowsOK, States, Active
  <2>4. FilesOK' /\ WorkersOK'
    BY <2>1 DEF Admit, Create, files, workers, TypeOK, FilesOK, WorkersOK
  <2>5. ReconcilersOK' /\ CancelOK' /\ HistoryOK'
    BY <2>1
    DEF Admit, Create, reconcilers, canceller, history, TypeOK, ReconcilersOK, CancelOK, HistoryOK
  <2> QED
    BY <2>2, <2>3, <2>4, <2>5 DEF TypeOK
<1>2. CASE DispatcherDies(d)
  <2>1. DispatchersOK'
    BY <1>2, ReturnType DEF DispatcherDies, TypeOK
  <2>2. HistoryOK'
    BY <1>2, Busy DEF DispatcherDies, TypeOK, HistoryOK
  <2>3. RowsOK' /\ FilesOK' /\ WorkersOK'
    BY <1>2 DEF DispatcherDies, rows, files, workers, TypeOK, RowsOK, FilesOK, WorkersOK
  <2>4. ReconcilersOK' /\ CancelOK'
    BY <1>2 DEF DispatcherDies, reconcilers, canceller, TypeOK, ReconcilersOK, CancelOK
  <2> QED
    BY <2>1, <2>2, <2>3, <2>4 DEF TypeOK
<1> QED
  BY <1>1, <1>2

LEMMA InitType == Init => TypeOK
<1> SUFFICES ASSUME Init PROVE TypeOK
  OBVIOUS
<1>1. RowsOK
  BY DEF Init, RowsOK, NoEvidence, States
<1>2. FilesOK
  BY DEF Init, FilesOK, Receipts
<1>3. DispatchersOK
  BY DEF Init, DispatchersOK, DispatcherPCs
<1>4. WorkersOK
  BY DEF Init, WorkersOK, WorkerPCs
<1>5. ReconcilersOK
  BY UnseenType DEF Init, ReconcilersOK, ReconcilerPCs
<1>6. CancelOK /\ HistoryOK
  BY DEF Init, CancelOK, HistoryOK
<1> QED
  BY <1>1, <1>2, <1>3, <1>4, <1>5, <1>6 DEF TypeOK

LEMMA StutterType == TypeOK /\ UNCHANGED vars => TypeOK'
<1> SUFFICES ASSUME TypeOK, UNCHANGED vars PROVE TypeOK'
  OBVIOUS
<1>1. RowsOK' /\ FilesOK' /\ DispatchersOK' /\ WorkersOK'
  BY DEF vars, rows, files, dispatchers, workers, TypeOK, RowsOK, FilesOK, DispatchersOK,
         WorkersOK
<1>2. ReconcilersOK' /\ CancelOK' /\ HistoryOK'
  BY DEF vars, reconcilers, canceller, history, TypeOK, ReconcilersOK, CancelOK, HistoryOK
<1> QED
  BY <1>1, <1>2 DEF TypeOK

LEMMA StepKeepsType == TypeOK /\ [Next]_vars => TypeOK'
<1> SUFFICES ASSUME TypeOK, Next PROVE TypeOK'
  BY StutterType
<1>1. ASSUME NEW d \in Dispatchers,
             (\E r \in Runs : Admit(d, r)) \/ DispatcherStep(d) \/ DispatcherDies(d)
      PROVE  TypeOK'
  BY <1>1, DispatcherType, DispatcherEndsType
<1>2. ASSUME NEW r \in Runs, WorkerStep(r) \/ WorkerRaises(r) \/ WorkerDies(r) \/ ChildEnds(r)
      PROVE  TypeOK'
  BY <1>2, WorkerType, EndType, ChildEndsType
<1>3. ASSUME NEW c \in Reconcilers, (\E r \in Runs : BeginReconcile(c, r)) \/ ReconcilerStep(c)
      PROVE  TypeOK'
  BY <1>3, BeginReconcileType, ReadingType, ProbingType, ConcludeType, ActingType
  DEF ReconcilerStep
<1> QED
  BY <1>1, <1>2, <1>3, CancelType DEF Next

\* Type correctness of the run ledger, the run directories and every process.
THEOREM TypeCorrect == Spec => []TypeOK
BY InitType, StepKeepsType, PTL DEF Spec

----------------------------------------------------------------------------
(* The lease.  WriterHoldsLease is not inductive: why nobody else can have  *)
(* taken the worktree is a matter of where every process stands.            *)

\* Positions in which a leased run's dispatcher already holds the worktree.
Holding == {"leasing", "drift", "dispatch", "spawn"}

\* A run has at most one dispatcher, from its row to its worker's record.
OneDispatcher ==
    \A d, e \in Dispatchers : dpc[d] # "idle" /\ drun[d] = drun[e] => d = e
\* Until the spawn the run has its row and no worker.
Ladder ==
    \A d \in Dispatchers : dpc[d] # "idle" =>
        /\ state[drun[d]] # "NONE"
        /\ dpc[d] # "record" => wpc[drun[d]] = "none"
NoRowNoWorker == \A r \in Runs : state[r] = "NONE" => wpc[r] = "none"
LadderLease ==
    \A d \in Dispatchers :
        dpc[d] \in Holding /\ drun[d] \in NeedsLease => lease = drun[d]
WorkerLease ==
    \A r \in NeedsLease : wpc[r] \notin {"none", "unlock", "gone"} => lease = r
\* A worker with a running child waits for it, or is no more.
ChildWatched == \A r \in Runs : Running(r) /\ Watched(r) => wpc[r] = "wait"
\* Dead, once seen, stays true: no worker starts twice.
DeadIsGone ==
    \A c \in Reconcilers : seen[c].live = "DEAD" => rpc[c] # "idle" /\ wpc[rrun[c]] = "gone"

LeaseInv ==
    /\ OneDispatcher /\ Ladder /\ NoRowNoWorker /\ LadderLease /\ WorkerLease
    /\ ChildWatched /\ DeadIsGone

LEMMA InitLease == Init => LeaseInv
<1> SUFFICES ASSUME Init PROVE LeaseInv
  OBVIOUS
<1>1. OneDispatcher /\ Ladder /\ NoRowNoWorker /\ LadderLease
  BY DEF Init, OneDispatcher, Ladder, NoRowNoWorker, LadderLease, Holding
<1>2. WorkerLease /\ ChildWatched /\ DeadIsGone
  BY RunsAssumption DEF Init, WorkerLease, ChildWatched, DeadIsGone, Running, Unseen
<1> QED
  BY <1>1, <1>2 DEF LeaseInv

LEMMA LeaseInvImplies == TypeOK /\ LeaseInv => WriterHoldsLease
BY RunsAssumption DEF LeaseInv, ChildWatched, WorkerLease, WriterHoldsLease

\* No row comes or goes.
RowsKept == \A r \in Runs : state'[r] = "NONE" <=> state[r] = "NONE"

LEMMA SettleKeepsRows ==
    ASSUME RowsOK, NEW r \in Runs, NEW to \in Refusals, Settle(r, to)
    PROVE  RowsKept
<1>1. to # "NONE"
  BY DEF Refusals
<1>2. ~CanTransition("NONE", to)
  BY DEF CanTransition, Forward, Active
<1> QED
  BY <1>1, <1>2 DEF RowsOK, RowsKept, Settle

\* A dispatcher that moves on, or stops, without touching lease or worker.
LEMMA DispatcherMoves ==
    ASSUME TypeOK, LeaseInv, NEW d \in Dispatchers, dpc[d] # "idle", RowsKept,
           UNCHANGED <<lease, workers, reconcilers>>,
           \/ Return(d)
           \/ \E p \in DispatcherPCs \ {"record"} :
                /\ Goto(d, p) /\ dpc[d] # "record"
                /\ p \in Holding => dpc[d] \in Holding \/ drun[d] \notin NeedsLease
    PROVE  LeaseInv'
<1>1. OneDispatcher'
  BY RunsAssumption
  DEF LeaseInv, OneDispatcher, Return, Goto, TypeOK, DispatchersOK
<1>2. Ladder'
  BY DEF LeaseInv, Ladder, RowsKept, Return, Goto, workers, TypeOK, DispatchersOK
<1>3. LadderLease'
  BY DEF LeaseInv, LadderLease, Return, Goto, Holding, TypeOK, DispatchersOK
<1>4. NoRowNoWorker' /\ WorkerLease' /\ ChildWatched'
  BY DEF LeaseInv, NoRowNoWorker, WorkerLease, ChildWatched, Running, Watched, RowsKept, workers
<1>5. DeadIsGone'
  BY DEF LeaseInv, DeadIsGone, workers, reconcilers
<1> QED
  BY <1>1, <1>2, <1>3, <1>4, <1>5 DEF LeaseInv

LEMMA AdvanceLease ==
    ASSUME TypeOK, LeaseInv, NEW d \in Dispatchers, dpc[d] \notin {"idle", "record"},
           NEW legal, NEW to \in Active, NEW p \in DispatcherPCs \ {"idle", "record"},
           p \in Holding => dpc[d] \in Holding,
           Advance(d, legal, to, p), UNCHANGED <<lease, workers, reconcilers>>
    PROVE  LeaseInv'
<1>1. RowsKept
  BY DEF LeaseInv, Ladder, RowsKept, Advance, Active, TypeOK, RowsOK
<1> QED
  BY <1>1, DispatcherMoves DEF Advance

LEMMA RefuseLeaseInv ==
    ASSUME TypeOK, LeaseInv, NEW d \in Dispatchers, dpc[d] # "idle", NEW to \in Refusals,
           Refuse(d, to)
    PROVE  LeaseInv'
<1>1. RowsKept
  BY SettleKeepsRows, Busy DEF Refuse, TypeOK
<1> QED
  BY <1>1, DispatcherMoves DEF Refuse

LEMMA DispatcherLease ==
    ASSUME TypeOK, LeaseInv, NEW d \in Dispatchers, DispatcherStep(d)
    PROVE  LeaseInv'
<1>1. dpc[d] # "idle" /\ drun[d] \in Runs
  <2>1. dpc[d] # "idle"
    BY DEF DispatcherStep, StartPreflight, RefuseAtGates, Census, RefuseOverCeiling,
           AcquireLease, MarkLeased, FindDrift, RefuseLease, WriteRequest, MarkDispatched,
           Spawn, SpawnFails, RecordSpawn
  <2> QED
    BY <2>1, Busy DEF TypeOK
<1>2. CASE StartPreflight(d)
  BY <1>2, AdvanceLease DEF StartPreflight, DispatcherPCs, Active, Holding
<1>3. CASE RefuseAtGates(d)
  BY <1>1, <1>3, RefuseLeaseInv DEF RefuseAtGates, Refusals
<1>4. CASE Census(d)
  <2>1. RowsKept
    BY <1>4 DEF Census, rows, RowsKept
  <2>2. AfterCensus(drun[d]) \in Holding => drun[d] \notin NeedsLease
    BY DEF AfterCensus, Holding
  <2>3. AfterCensus(drun[d]) \in DispatcherPCs \ {"record"}
    BY DEF AfterCensus, DispatcherPCs
  <2> QED
    BY <1>1, <1>4, <2>1, <2>2, <2>3, DispatcherMoves DEF Census, rows
<1>5. CASE RefuseOverCeiling(d)
  BY <1>1, <1>5, RefuseLeaseInv DEF RefuseOverCeiling, Refusals
<1>6. CASE AcquireLease(d)
  <2>1. OneDispatcher' /\ Ladder'
    BY <1>6 DEF AcquireLease, Goto, LeaseInv, OneDispatcher, Ladder, workers, TypeOK, DispatchersOK
  <2>2. LadderLease'
    BY <1>1, <1>6, RunsAssumption
    DEF AcquireLease, Goto, LeaseInv, OneDispatcher, LadderLease, Holding, TypeOK, DispatchersOK
  <2>3. NoRowNoWorker' /\ ChildWatched' /\ DeadIsGone'
    BY <1>6
    DEF AcquireLease, LeaseInv, NoRowNoWorker, ChildWatched, DeadIsGone, Running, Watched, workers,
        reconcilers
  <2>4. WorkerLease'
    BY <1>6, RunsAssumption DEF AcquireLease, LeaseInv, WorkerLease, workers
  <2> QED
    BY <2>1, <2>2, <2>3, <2>4 DEF LeaseInv
<1>7. CASE MarkLeased(d)
  BY <1>7, AdvanceLease DEF MarkLeased, DispatcherPCs, Active, Holding
<1>8. CASE FindDrift(d)
  <2>1. OneDispatcher' /\ Ladder'
    BY <1>8 DEF FindDrift, Goto, LeaseInv, OneDispatcher, Ladder, workers, TypeOK, DispatchersOK
  <2>2. LadderLease'
    BY <1>1, <1>8
    DEF FindDrift, Goto, LeaseInv, OneDispatcher, LadderLease, Holding, TypeOK, DispatchersOK
  <2>3. NoRowNoWorker' /\ ChildWatched' /\ DeadIsGone'
    BY <1>8
    DEF FindDrift, LeaseInv, NoRowNoWorker, ChildWatched, DeadIsGone, Running, Watched, workers,
        reconcilers
  <2>4. WorkerLease'
    BY <1>1, <1>8, RunsAssumption DEF FindDrift, LeaseInv, Ladder, WorkerLease, workers
  <2> QED
    BY <2>1, <2>2, <2>3, <2>4 DEF LeaseInv
<1>9. CASE RefuseLease(d)
  BY <1>1, <1>9, RefuseLeaseInv DEF RefuseLease, Refusals
<1>10. CASE WriteRequest(d)
  <2>1. RowsKept
    BY <1>10 DEF WriteRequest, rows, RowsKept
  <2> QED
    BY <1>1, <1>10, <2>1, DispatcherMoves DEF WriteRequest, rows, DispatcherPCs, Holding
<1>11. CASE MarkDispatched(d)
  BY <1>11, AdvanceLease DEF MarkDispatched, DispatcherPCs, Active, Holding
<1>12. CASE Spawn(d)
  <2>1. wpc[drun[d]] = "none" /\ wpc' = [wpc EXCEPT ![drun[d]] = "boot"]
    BY <1>12 DEF Spawn, LeaseInv, Ladder
  <2>2. OneDispatcher' /\ Ladder'
    BY <1>1, <1>12, <2>1
    DEF Spawn, Goto, rows, LeaseInv, OneDispatcher, Ladder, TypeOK, DispatchersOK, WorkersOK
  <2>3. LadderLease'
    BY <1>12 DEF Spawn, Goto, rows, LeaseInv, LadderLease, Holding, TypeOK, DispatchersOK
  <2>4. NoRowNoWorker' /\ WorkerLease'
    BY <1>1, <1>12, <2>1, RunsAssumption
    DEF Spawn, rows, LeaseInv, Ladder, LadderLease, Holding, NoRowNoWorker, WorkerLease, TypeOK,
        WorkersOK
  <2>5. ChildWatched' /\ DeadIsGone'
    BY <1>1, <1>12, <2>1
    DEF Spawn, LeaseInv, ChildWatched, DeadIsGone, Running, Watched, reconcilers, TypeOK, WorkersOK
  <2> QED
    BY <2>2, <2>3, <2>4, <2>5 DEF LeaseInv
<1>13. CASE SpawnFails(d)
  BY <1>1, <1>13, RefuseLeaseInv DEF SpawnFails, Refusals
<1>14. CASE RecordSpawn(d)
  BY <1>1, <1>14, DispatcherMoves DEF RecordSpawn, RowsKept
<1> QED
  BY <1>2, <1>3, <1>4, <1>5, <1>6, <1>7, <1>8, <1>9, <1>10, <1>11, <1>12, <1>13, <1>14
  DEF DispatcherStep

LEMMA DispatcherEndsLease ==
    ASSUME TypeOK, LeaseInv, NEW d \in Dispatchers,
           (\E r \in Runs : Admit(d, r)) \/ DispatcherDies(d)
    PROVE  LeaseInv'
<1>1. CASE \E r \in Runs : Admit(d, r)
  <2>1. PICK r \in Runs : state[r] = "NONE" /\ Create(d, r, "CREATED")
    BY <1>1 DEF Admit
  <2>2. wpc[r] = "none" /\ \A e \in Dispatchers : dpc[e] # "idle" => drun[e] # r
    BY <2>1 DEF LeaseInv, NoRowNoWorker, Ladder
  <2>3. OneDispatcher'
    BY <2>1, <2>2, RunsAssumption DEF Create, LeaseInv, OneDispatcher, TypeOK, DispatchersOK
  <2>4. Ladder' /\ NoRowNoWorker'
    BY <2>1, <2>2
    DEF Create, LeaseInv, Ladder, NoRowNoWorker, workers, TypeOK, DispatchersOK, RowsOK
  <2>5. LadderLease' /\ WorkerLease'
    BY <2>1
    DEF Create, LeaseInv, LadderLease, WorkerLease, Holding, workers, TypeOK, DispatchersOK
  <2>6. ChildWatched' /\ DeadIsGone'
    BY <2>1
    DEF Create, LeaseInv, ChildWatched, DeadIsGone, Running, Watched, workers, reconcilers
  <2> QED
    BY <2>3, <2>4, <2>5, <2>6 DEF LeaseInv
<1>2. CASE DispatcherDies(d)
  BY <1>2, DispatcherMoves DEF DispatcherDies, rows, RowsKept
<1> QED
  BY <1>1, <1>2

\* A worker that moves on without touching the lease; it leaves a running child
\* only by dying.
LEMMA WorkerMoves ==
    ASSUME TypeOK, LeaseInv, NEW r \in Runs, NEW to, wpc[r] \notin {"none", "gone"},
           Step(r, wpc[r], to), to # "none", RowsKept,
           UNCHANGED <<lease, child, dispatchers, reconcilers>>,
           wpc[r] = "unlock" => to = "gone",
           wpc[r] = "wait" => to = "gone" \/ ~Running(r)
    PROVE  LeaseInv'
<1>1. OneDispatcher' /\ LadderLease'
  BY DEF LeaseInv, OneDispatcher, LadderLease, dispatchers
<1>2. Ladder'
  BY Busy DEF LeaseInv, Ladder, RowsKept, Step, dispatchers, TypeOK, WorkersOK
<1>3. NoRowNoWorker' /\ WorkerLease'
  BY RunsAssumption
  DEF LeaseInv, NoRowNoWorker, WorkerLease, RowsKept, Step, TypeOK, WorkersOK
<1>4. ChildWatched'
  BY DEF LeaseInv, ChildWatched, Running, Watched, Step, TypeOK, WorkersOK
<1>5. DeadIsGone'
  BY Occupied DEF LeaseInv, DeadIsGone, Step, reconcilers, TypeOK, WorkersOK
<1> QED
  BY <1>1, <1>2, <1>3, <1>4, <1>5 DEF LeaseInv

LEMMA FailLease ==
    ASSUME TypeOK, LeaseInv, NEW r \in Runs, NEW from \in Executing \cup {"boot"},
           NEW to \in {"release", "gone"}, NEW verdict \in Refusals, Fail(r, from, to, verdict)
    PROVE  LeaseInv'
<1>1. RowsKept
  BY SettleKeepsRows DEF Fail, TypeOK
<1> QED
  BY <1>1, WorkerMoves DEF Fail, Step, WorkerFrame, Executing

LEMMA ProceedLease ==
    ASSUME TypeOK, LeaseInv, NEW r \in Runs, NEW from \in Executing,
           NEW to \in Executing \cup {"release"}, NEW before \in Active,
           NEW after \in Active \cup {"HANDOFF_READY"}, Proceed(r, from, to, before, after)
    PROVE  LeaseInv'
<1>1. RowsKept
  BY DEF Proceed, RowsKept, Active, TypeOK, RowsOK
<1> QED
  BY <1>1, WorkerMoves DEF Proceed, Step, WorkerFrame, Executing

\* The steps that only write files, or rows the lease does not depend on.
LEMMA WritingLease ==
    ASSUME TypeOK, LeaseInv, NEW r \in Runs, NEW from, NEW to,
           Step(r, from, to), WorkerFrame, UNCHANGED <<state, lease, child>>,
           from \in Executing \cup {"boot", "lock", "identify", "readLease"},
           to \in Executing \cup {"lock", "identify", "readLease", "release", "gone"}
    PROVE  LeaseInv'
<1>1. RowsKept
  BY DEF RowsKept
<1> QED
  BY <1>1, WorkerMoves DEF Step, WorkerFrame, Executing

LEMMA WorkerStepLease ==
    ASSUME TypeOK, LeaseInv, NEW r \in Runs, WorkerStep(r)
    PROVE  LeaseInv'
<1>1. CASE RequestUnreadable(r) \/ DriftAtLaunch(r) \/ NeverStarted(r) \/ RejectResult(r)
           \/ FailUnsynced(r) \/ RejectEvidence(r)
  BY <1>1, FailLease
  DEF RequestUnreadable, DriftAtLaunch, NeverStarted, RejectResult, FailUnsynced,
      RejectEvidence, Executing, Refusals
<1>2. CASE StartRunning(r) \/ MarkReceived(r) \/ MarkCollected(r) \/ MarkReady(r)
  BY <1>2, ProceedLease
  DEF StartRunning, MarkReceived, MarkCollected, MarkReady, Executing, Active
<1>3. CASE OpenLock(r) \/ TakeLock(r) \/ LockRefused(r) \/ RecordStarted(r) \/ ReadLease(r)
  BY <1>3, WritingLease
  DEF OpenLock, TakeLock, LockRefused, RecordStarted, ReadLease, Executing
<1>4. CASE RecordValid(r) \/ RecordInvalid(r) \/ SyncFails(r)
  BY <1>4, WritingLease DEF RecordValid, RecordInvalid, SyncFails, RecordResult, Executing
<1>5. CASE EvidenceOfInvalid(r) \/ EvidenceAccepted(r) \/ EvidenceRefused(r)
  BY <1>5, WritingLease
  DEF EvidenceOfInvalid, EvidenceAccepted, EvidenceRefused, CollectEvidence, Executing
<1>6. CASE LaunchFails(r) \/ RecordHandoff(r)
  BY <1>6, WritingLease DEF LaunchFails, RecordHandoff, WriteReceipt, Executing
<1>7. CASE ChildReturns(r)
  <2>1. ~Running(r) /\ RowsKept
    BY <1>7 DEF ChildReturns, WriteReceipt, Running, RowsKept
  <2> QED
    BY <1>7, <2>1, WorkerMoves DEF ChildReturns, WriteReceipt, Step, WorkerFrame
<1>8. CASE Unlock(r)
  <2>1. RowsKept
    BY <1>8 DEF Unlock, RowsKept
  <2> QED
    BY <1>8, <2>1, WorkerMoves DEF Unlock, Step, WorkerFrame
<1>9. CASE Launch(r)
  <2>1. OneDispatcher' /\ LadderLease' /\ Ladder'
    BY <1>9, Busy
    DEF Launch, Step, WorkerFrame, dispatchers, LeaseInv, OneDispatcher, LadderLease, Ladder,
        TypeOK, WorkersOK
  <2>2. NoRowNoWorker' /\ WorkerLease'
    BY <1>9, RunsAssumption
    DEF Launch, Step, LeaseInv, NoRowNoWorker, WorkerLease, TypeOK, WorkersOK
  <2>3. ChildWatched'
    BY <1>9 DEF Launch, Step, LeaseInv, ChildWatched, Running, Watched, TypeOK, WorkersOK
  <2>4. DeadIsGone'
    BY <1>9, Occupied
    DEF Launch, Step, WorkerFrame, reconcilers, LeaseInv, DeadIsGone, TypeOK, WorkersOK
  <2> QED
    BY <2>1, <2>2, <2>3, <2>4 DEF LeaseInv
<1>10. CASE ReleaseLease(r)
  <2>1. wpc[r] = "release" /\ wpc' = [wpc EXCEPT ![r] = "unlock"] /\ UNCHANGED <<child, state>>
    BY <1>10 DEF ReleaseLease, Step
  <2>2. \A q \in Runs \ {r} : lease = q => lease' = q
    BY <1>10 DEF ReleaseLease
  <2>3. \A d \in Dispatchers : dpc[d] \notin {"idle", "record"} => drun[d] \in Runs \ {r}
    BY <2>1, Busy DEF LeaseInv, Ladder, TypeOK
  <2>4. OneDispatcher' /\ Ladder'
    BY <1>10, <2>1, Busy
    DEF ReleaseLease, WorkerFrame, dispatchers, LeaseInv, OneDispatcher, Ladder, TypeOK, WorkersOK
  <2>5. LadderLease'
    BY <1>10, <2>2, <2>3
    DEF ReleaseLease, WorkerFrame, dispatchers, LeaseInv, LadderLease, Holding
  <2>6. NoRowNoWorker' /\ WorkerLease'
    BY <2>1, <2>2, RunsAssumption DEF LeaseInv, NoRowNoWorker, WorkerLease, TypeOK, WorkersOK
  <2>7. ChildWatched'
    BY <2>1 DEF LeaseInv, ChildWatched, Running, Watched, TypeOK, WorkersOK
  <2>8. DeadIsGone'
    BY <1>10, <2>1, Occupied
    DEF ReleaseLease, WorkerFrame, reconcilers, LeaseInv, DeadIsGone, TypeOK, WorkersOK
  <2> QED
    BY <2>4, <2>5, <2>6, <2>7, <2>8 DEF LeaseInv
<1> QED
  BY <1>1, <1>2, <1>3, <1>4, <1>5, <1>6, <1>7, <1>8, <1>9, <1>10 DEF WorkerStep

LEMMA WorkerEndsLease ==
    ASSUME TypeOK, LeaseInv, NEW r \in Runs, WorkerRaises(r) \/ WorkerDies(r) \/ ChildEnds(r)
    PROVE  LeaseInv'
<1>1. CASE WorkerRaises(r)
  BY <1>1, WritingLease DEF WorkerRaises
<1>2. CASE WorkerDies(r)
  <2>1. RowsKept
    BY <1>2 DEF WorkerDies, RowsKept
  <2> QED
    BY <1>2, <2>1, WorkerMoves DEF WorkerDies, WorkerFrame
<1>3. CASE ChildEnds(r)
  <2>1. OneDispatcher' /\ Ladder' /\ NoRowNoWorker' /\ LadderLease' /\ WorkerLease' /\ DeadIsGone'
    BY <1>3
    DEF ChildEnds, rows, dispatchers, reconcilers, LeaseInv, OneDispatcher, Ladder, NoRowNoWorker,
        LadderLease, WorkerLease, DeadIsGone
  <2>2. ChildWatched'
    BY <1>3 DEF ChildEnds, LeaseInv, ChildWatched, Running, Watched, TypeOK, WorkersOK
  <2> QED
    BY <2>1, <2>2 DEF LeaseInv
<1> QED
  BY <1>1, <1>2, <1>3

\* Whoever leaves dispatchers, workers and the lease alone, and keeps to what it saw.
LEMMA OnlookerLease ==
    ASSUME LeaseInv, RowsKept, UNCHANGED <<lease, dispatchers, workers>>, DeadIsGone',
           TypeOK
    PROVE  LeaseInv'
<1>1. Ladder'
  BY Busy DEF LeaseInv, Ladder, RowsKept, dispatchers, workers, TypeOK
<1>2. OneDispatcher' /\ LadderLease'
  BY DEF LeaseInv, OneDispatcher, LadderLease, dispatchers
<1>3. NoRowNoWorker' /\ WorkerLease' /\ ChildWatched'
  BY DEF LeaseInv, NoRowNoWorker, WorkerLease, ChildWatched, Running, Watched, RowsKept, workers
<1> QED
  BY <1>1, <1>2, <1>3 DEF LeaseInv

LEMMA ReconcilerLease ==
    ASSUME TypeOK, LeaseInv, NEW c \in Reconcilers,
           (\E r \in Runs : BeginReconcile(c, r)) \/ ReconcilerStep(c)
    PROVE  LeaseInv'
<1>1. CASE \E r \in Runs : BeginReconcile(c, r)
  <2>1. DeadIsGone'
    BY <1>1
    DEF BeginReconcile, See, Unseen, ReadFrame, workers, LeaseInv, DeadIsGone, TypeOK, ReconcilersOK
  <2> QED
    BY <1>1, <2>1, OnlookerLease DEF BeginReconcile, ReadFrame, rows, RowsKept
<1>2. CASE SeeWorker(c) \/ SeeReceipt(c) \/ SeeResult(c) \/ SeeEvidence(c)
  <2>1. /\ seen'[c].live = seen[c].live /\ rpc'[c] # "idle" /\ UNCHANGED rrun
        /\ \A e \in Reconcilers \ {c} : seen'[e] = seen[e] /\ rpc'[e] = rpc[e]
    <3>1. seen[c] \in Sightings
      BY DEF TypeOK, ReconcilersOK
    <3>2. CASE SeeWorker(c) \/ SeeReceipt(c)
      BY <3>1, <3>2 DEF SeeWorker, SeeReceipt, RStep, See, TypeOK, ReconcilersOK, Sightings
    <3>3. CASE SeeResult(c)
      BY <3>1, <3>3 DEF SeeResult, RStep, See, TypeOK, ReconcilersOK, Sightings
    <3>4. CASE SeeEvidence(c)
      <4>1. PICK k : See(c, k) /\ k.live = seen[c].live
        <5>1. ASSUME NEW x, NEW y
              PROVE  [seen[c] EXCEPT !.changed = x, !.pid = y].live = seen[c].live
          BY <3>1 DEF Sightings
        <5> QED
          BY <3>4, <5>1, Zenon DEF SeeEvidence
      <4> QED
        BY <3>4, <4>1 DEF SeeEvidence, RStep, See, TypeOK, ReconcilersOK
    <3> QED
      BY <1>2, <3>2, <3>3, <3>4
  <2>2. ReadFrame
    BY <1>2 DEF SeeWorker, SeeReceipt, SeeResult, SeeEvidence
  <2>3. DeadIsGone'
    BY <2>1, <2>2 DEF ReadFrame, workers, LeaseInv, DeadIsGone
  <2> QED
    BY <2>2, <2>3, OnlookerLease DEF ReadFrame, rows, RowsKept
<1>3. CASE Probing(c)
  <2>1. DeadIsGone'
    <3>1. CASE CannotProbe(c, "probe", "classify") \/ CannotProbe(c, "reprobe", "reclaim")
               \/ FindHeld(c, "probe", "classify") \/ FindHeld(c, "reprobe", "reclaim")
      BY <3>1
      DEF CannotProbe, FindHeld, RStep, See, ReadFrame, workers, LeaseInv, DeadIsGone, TypeOK,
          ReconcilersOK, Sightings
    <3>2. CASE ProbeLock(c, "probe", "probing") \/ ProbeLock(c, "reprobe", "reprobing")
      BY <3>2
      DEF ProbeLock, RStep, workers, LeaseInv, DeadIsGone, TypeOK, ReconcilersOK
    <3>3. CASE FinishProbe(c, "probing", "classify") \/ FinishProbe(c, "reprobing", "reclaim")
      BY <3>3
      DEF FinishProbe, RStep, See, workers, LeaseInv, DeadIsGone, TypeOK, ReconcilersOK, Sightings
    <3> QED
      BY <1>3, <3>1, <3>2, <3>3 DEF Probing
  <2>2. RowsKept /\ UNCHANGED <<lease, dispatchers, workers>>
    BY <1>3
    DEF Probing, CannotProbe, FindHeld, ProbeLock, FinishProbe, ReadFrame, rows, RowsKept
  <2> QED
    BY <2>1, <2>2, OnlookerLease
<1>4. CASE Conclude(c)
  <2>1. DeadIsGone'
    BY <1>4
    DEF Conclude, Finish, See, Unseen, workers, LeaseInv, DeadIsGone, TypeOK, ReconcilersOK
  <2> QED
    BY <1>4, <2>1, OnlookerLease DEF Conclude, rows, RowsKept
<1>5. CASE ApplyVerdict(c)
  <2>1. DeadIsGone'
    BY <1>5 DEF ApplyVerdict, RStep, workers, LeaseInv, DeadIsGone, TypeOK, ReconcilersOK
  <2>2. RowsKept
    <3>1. rrun[c] \in Runs
      BY <1>5, Occupied DEF ApplyVerdict, RStep, TypeOK
    <3>2. CASE seen[c].target \in Refusals
      BY <1>5, <3>1, <3>2, SettleKeepsRows DEF ApplyVerdict, TypeOK
    <3>3. CASE seen[c].target = "NONE"
      <4>1. ~CanTransition(state[rrun[c]], "NONE")
        BY DEF CanTransition, Forward, Refusals
      <4> QED
        BY <1>5, <3>3, <4>1 DEF ApplyVerdict, Settle, RowsKept
    <3> QED
      BY <3>2, <3>3 DEF TypeOK, ReconcilersOK, Sightings
  <2> QED
    BY <1>5, <2>1, <2>2, OnlookerLease DEF ApplyVerdict
<1>6. CASE SeeLease(c)
  <2>1. DeadIsGone'
    BY <1>6
    DEF SeeLease, Finish, See, Unseen, ReadFrame, workers, LeaseInv, DeadIsGone, TypeOK,
        ReconcilersOK
  <2> QED
    BY <1>6, <2>1, OnlookerLease DEF SeeLease, ReadFrame, rows, RowsKept
<1>7. CASE Reclaim(c)
  <2>1. DeadIsGone'
    BY <1>7
    DEF Reclaim, Finish, See, Unseen, workers, LeaseInv, DeadIsGone, TypeOK, ReconcilersOK
  <2>2. rrun[c] \in Runs /\ (lease' # lease => lease = rrun[c] /\ wpc[rrun[c]] = "gone")
    BY <1>7, Occupied DEF Reclaim, LeaseInv, DeadIsGone, TypeOK
  <2>3. OneDispatcher' /\ Ladder' /\ NoRowNoWorker' /\ ChildWatched'
    BY <1>7
    DEF Reclaim, dispatchers, workers, LeaseInv, OneDispatcher, Ladder, NoRowNoWorker, ChildWatched,
        Running, Watched
  <2>4. LadderLease'
    BY <1>7, <2>2, RunsAssumption
    DEF Reclaim, dispatchers, LeaseInv, Ladder, LadderLease, Holding
  <2>5. WorkerLease'
    BY <1>7, <2>2 DEF Reclaim, workers, LeaseInv, WorkerLease
  <2> QED
    BY <2>1, <2>3, <2>4, <2>5 DEF LeaseInv
<1> QED
  BY <1>1, <1>2, <1>3, <1>4, <1>5, <1>6, <1>7 DEF ReconcilerStep

LEMMA CancelLease ==
    ASSUME TypeOK, LeaseInv, (\E r \in Runs : BeginCancel(r)) \/ ApplyCancel
    PROVE  LeaseInv'
<1>1. CancelFrame
  BY DEF BeginCancel, ApplyCancel
<1>2. RowsKept
  <2>1. CASE ApplyCancel
    BY <2>1, SettleKeepsRows DEF ApplyCancel, Refusals, TypeOK, CancelOK
  <2>2. CASE UNCHANGED state
    BY <2>2 DEF RowsKept
  <2> QED
    BY <2>1, <2>2 DEF BeginCancel
<1>3. DeadIsGone'
  BY <1>1 DEF CancelFrame, workers, reconcilers, LeaseInv, DeadIsGone
<1> QED
  BY <1>1, <1>2, <1>3, OnlookerLease DEF CancelFrame

LEMMA StepKeepsLease == TypeOK /\ LeaseInv /\ [Next]_vars => LeaseInv'
<1> SUFFICES ASSUME TypeOK, LeaseInv, [Next]_vars PROVE LeaseInv'
  OBVIOUS
<1>1. ASSUME NEW d \in Dispatchers,
             (\E r \in Runs : Admit(d, r)) \/ DispatcherStep(d) \/ DispatcherDies(d)
      PROVE  LeaseInv'
  BY <1>1, DispatcherLease, DispatcherEndsLease
<1>2. ASSUME NEW r \in Runs, WorkerStep(r) \/ WorkerRaises(r) \/ WorkerDies(r) \/ ChildEnds(r)
      PROVE  LeaseInv'
  BY <1>2, WorkerStepLease, WorkerEndsLease
<1>3. CASE UNCHANGED vars
  <2>1. DeadIsGone'
    BY <1>3 DEF vars, workers, reconcilers, LeaseInv, DeadIsGone
  <2> QED
    BY <1>3, <2>1, OnlookerLease DEF vars, rows, RowsKept
<1> QED
  BY <1>1, <1>2, <1>3, ReconcilerLease, CancelLease DEF Next

\* Whatever the number of runs, dispatchers and reconcilers, and whoever dies: a
\* worker watching a leased run's child holds the worktree's lease
\* (dispatcher.py's ladder, worker.py's finally, reconcile.py's reclaim).
THEOREM LeaseKept == Spec => []WriterHoldsLease
<1>1. Init => TypeOK /\ LeaseInv
  BY InitType, InitLease
<1>2. TypeOK /\ LeaseInv /\ [Next]_vars => (TypeOK /\ LeaseInv)'
  BY StepKeepsType, StepKeepsLease
<1> QED
  BY <1>1, <1>2, LeaseInvImplies, PTL DEF Spec

----------------------------------------------------------------------------
(* The ceiling.  With nobody but dispatchers and workers at the ledger, a   *)
(* run is on the books from before its census until its child has ended.    *)

\* Places after a census that let the run through.
Admitted == {"lease", "leasing", "noLease", "drift", "dispatch", "spawn"}
Passed(r) ==
    (\E d \in Dispatchers : drun[d] = r /\ dpc[d] \in Admitted) \/ wpc[r] # "none"
InFlight(r) == state[r] \in Active /\ Passed(r)

OneInFlight == \A q, r \in Real : InFlight(q) /\ InFlight(r) => q = r
\* A child is started, and runs, only while its run is on the books as RUNNING.
OnTheBooks == \A r \in Runs : wpc[r] = "launch" \/ Running(r) => state[r] = "RUNNING"
CeilingInv == OneInFlight /\ OnTheBooks /\ cpc = "idle"

LEMMA CeilingImplies == LeaseInv /\ CeilingInv => OneRealChild
<1> SUFFICES ASSUME LeaseInv, CeilingInv, NEW q \in Real, NEW r \in Real,
                    Running(q), Running(r)
             PROVE  q = r
  BY DEF OneRealChild
<1>1. \A x \in Real : Running(x) => InFlight(x)
  BY RunsAssumption
  DEF CeilingInv, OnTheBooks, InFlight, Passed, LeaseInv, ChildWatched, Watched, Active
<1> QED
  BY <1>1 DEF CeilingInv, OneInFlight

LEMMA InitCeiling == Init => CeilingInv
BY RunsAssumption DEF Init, CeilingInv, OneInFlight, OnTheBooks, InFlight, Running, Active

\* Nothing new gets through: what is in flight after the step was so before.
LEMMA NothingNew ==
    ASSUME CeilingInv, \A r \in Real : InFlight(r)' => InFlight(r)
    PROVE  OneInFlight'
BY DEF CeilingInv, OneInFlight

LEMMA DispatcherMovesCeiling ==
    ASSUME TypeOK, LeaseInv, CeilingInv, NEW d \in Dispatchers, dpc[d] # "idle",
           UNCHANGED <<workers, canceller>>,
           \A r \in Runs : state'[r] # state[r] =>
               /\ r = drun[d] /\ dpc[d] # "record"
               /\ state'[r] \in Active => state[r] \in Active,
           \/ Return(d)
           \/ \E p : Goto(d, p) /\ (p \in Admitted => dpc[d] \in Admitted)
    PROVE  CeilingInv'
<1>1. ASSUME NEW r \in Real, InFlight(r)' PROVE InFlight(r)
  <2>1. state[r] \in Active
    BY <1>1, RunsAssumption DEF InFlight
  <2>2. CASE wpc'[r] # "none"
    BY <2>1, <2>2 DEF InFlight, Passed, workers
  <2>3. CASE \E e \in Dispatchers : drun'[e] = r /\ dpc'[e] \in Admitted
    BY <2>1, <2>3
    DEF InFlight, Passed, Return, Goto, Admitted, TypeOK, DispatchersOK
  <2> QED
    BY <1>1, <2>2, <2>3 DEF InFlight, Passed
<1>2. OnTheBooks'
  BY DEF CeilingInv, OnTheBooks, Running, Watched, LeaseInv, Ladder, ChildWatched, workers
<1> QED
  BY <1>1, <1>2, NothingNew DEF CeilingInv, canceller

LEMMA RefuseCeiling ==
    ASSUME TypeOK, LeaseInv, CeilingInv, NEW d \in Dispatchers, dpc[d] \notin {"idle", "record"},
           NEW to \in Refusals, Refuse(d, to)
    PROVE  CeilingInv'
<1>1. to \notin Active
  BY DEF Refusals, Active
<1> QED
  BY <1>1, DispatcherMovesCeiling DEF Refuse, Settle, TypeOK, RowsOK

LEMMA AdvanceCeiling ==
    ASSUME TypeOK, LeaseInv, CeilingInv, NEW d \in Dispatchers, dpc[d] \notin {"idle", "record"},
           NEW legal, legal => state[drun[d]] \in Active, NEW to, NEW p,
           p \in Admitted => dpc[d] \in Admitted,
           Advance(d, legal, to, p), UNCHANGED <<workers, canceller>>
    PROVE  CeilingInv'
BY DispatcherMovesCeiling DEF Advance, TypeOK, RowsOK

LEMMA CensusCeiling ==
    ASSUME TypeOK, LeaseInv, CeilingInv, NEW d \in Dispatchers, Census(d)
    PROVE  CeilingInv'
<1>1. PICK s \in Runs : s = drun[d] /\ dpc[d] = "gates" /\ wpc[s] = "none"
  BY Busy DEF Census, LeaseInv, Ladder, TypeOK
<1>2. OnTheBooks' /\ cpc' = "idle"
  BY DEF Census, rows, workers, canceller, CeilingInv, OnTheBooks, Running
<1>3. ASSUME NEW r \in Real, InFlight(r)', r # s PROVE InFlight(r)
  BY <1>1, <1>3 DEF Census, Goto, rows, workers, InFlight, Passed, TypeOK, DispatchersOK
<1>4. ASSUME s \in Real, InFlight(s)' PROVE \A r \in Real \ {s} : ~InFlight(r)
  <2>1. \A e \in Dispatchers : drun[e] = s => e = d
    BY <1>1 DEF LeaseInv, OneDispatcher
  <2>2. AfterCensus(s) \in Admitted
    BY <1>1, <1>4, <2>1
    DEF Census, Goto, workers, InFlight, Passed, TypeOK, DispatchersOK
  <2>3. ActiveReal(s) = {}
    BY <1>1, <1>4, <2>2 DEF AfterCensus, Admitted
  <2> QED
    BY <2>3, RunsAssumption DEF ActiveReal, InFlight
<1>5. OneInFlight'
  <2> SUFFICES ASSUME NEW q \in Real, NEW r \in Real, InFlight(q)', InFlight(r)'
               PROVE  q = r
    BY DEF OneInFlight
  <2>1. CASE q # s /\ r # s
    BY <1>3, <2>1 DEF CeilingInv, OneInFlight
  <2>2. CASE q = s \/ r = s
    BY <1>3, <1>4, <2>2
  <2> QED
    BY <2>1, <2>2
<1> QED
  BY <1>2, <1>5 DEF CeilingInv

LEMMA DispatcherCeiling ==
    ASSUME TypeOK, LeaseInv, CeilingInv, NEW d \in Dispatchers,
           (\E r \in Runs : Admit(d, r)) \/ DispatcherStep(d) \/ DispatcherDies(d)
    PROVE  CeilingInv'
<1>1. CASE \E r \in Runs : Admit(d, r)
  <2>1. PICK r \in Runs : state[r] = "NONE" /\ Create(d, r, "CREATED")
    BY <1>1 DEF Admit
  <2>2. wpc[r] = "none" /\ ~Running(r) /\ \A e \in Dispatchers : dpc[e] # "idle" => drun[e] # r
    BY <2>1 DEF LeaseInv, NoRowNoWorker, Ladder, ChildWatched, Watched
  <2>3. ASSUME NEW q \in Real, InFlight(q)' PROVE InFlight(q)
    BY <2>1, <2>2, <2>3, RunsAssumption
    DEF Create, InFlight, Passed, Admitted, workers, TypeOK, DispatchersOK, RowsOK
  <2>4. OnTheBooks'
    BY <2>1, <2>2 DEF Create, CeilingInv, OnTheBooks, Running, workers, TypeOK, RowsOK
  <2> QED
    BY <2>1, <2>3, <2>4, NothingNew DEF Create, canceller, CeilingInv
<1>2. CASE StartPreflight(d)
  BY <1>2, AdvanceCeiling DEF StartPreflight, Admitted, Active
<1>3. CASE RefuseAtGates(d) \/ RefuseOverCeiling(d) \/ RefuseLease(d) \/ SpawnFails(d)
  BY <1>3, RefuseCeiling
  DEF RefuseAtGates, RefuseOverCeiling, RefuseLease, SpawnFails, Refusals
<1>4. CASE Census(d)
  BY <1>4, CensusCeiling
<1>5. CASE AcquireLease(d) \/ FindDrift(d)
  BY <1>5, DispatcherMovesCeiling DEF AcquireLease, FindDrift, Admitted
<1>6. CASE MarkLeased(d)
  BY <1>6, AdvanceCeiling DEF MarkLeased, Admitted, Active
<1>7. CASE WriteRequest(d)
  BY <1>7, DispatcherMovesCeiling DEF WriteRequest, rows, Admitted
<1>8. CASE MarkDispatched(d)
  <2>1. CanTransition(state[drun[d]], "DISPATCHED") => state[drun[d]] \in Active
    BY DEF CanTransition, Forward, Active
  <2> QED
    BY <1>8, <2>1, AdvanceCeiling DEF MarkDispatched, Admitted
<1>9. CASE Spawn(d)
  <2>1. drun[d] \in Runs /\ ~Running(drun[d])
    BY <1>9, Busy DEF Spawn, LeaseInv, Ladder, ChildWatched, Watched, TypeOK
  <2>2. ASSUME NEW r \in Real, InFlight(r)' PROVE InFlight(r)
    BY <1>9, <2>1, <2>2
    DEF Spawn, Goto, rows, InFlight, Passed, Admitted, TypeOK, DispatchersOK, WorkersOK
  <2>3. OnTheBooks'
    BY <1>9, <2>1 DEF Spawn, rows, CeilingInv, OnTheBooks, Running, TypeOK, WorkersOK
  <2> QED
    BY <1>9, <2>2, <2>3, NothingNew DEF Spawn, canceller, CeilingInv
<1>10. CASE RecordSpawn(d)
  BY <1>10, DispatcherMovesCeiling DEF RecordSpawn
<1>11. CASE DispatcherDies(d)
  BY <1>11, DispatcherMovesCeiling DEF DispatcherDies, rows
<1> QED
  BY <1>1, <1>2, <1>3, <1>4, <1>5, <1>6, <1>7, <1>8, <1>9, <1>10, <1>11 DEF DispatcherStep

\* A worker writes its own run's row only, never back onto the books, and has or
\* starts a child only while the row says RUNNING.
LEMMA WorkerMovesCeiling ==
    ASSUME TypeOK, LeaseInv, CeilingInv, NEW r \in Runs, wpc[r] # "none",
           UNCHANGED <<dispatchers, canceller>>,
           \A q \in Runs \ {r} :
               wpc'[q] = wpc[q] /\ child'[q] = child[q] /\ state'[q] = state[q],
           state'[r] \in Active => state[r] \in Active,
           wpc'[r] = "launch" \/ child'[r] = "running" => state'[r] = "RUNNING"
    PROVE  CeilingInv'
<1>1. ASSUME NEW q \in Real, InFlight(q)' PROVE InFlight(q)
  BY <1>1, RunsAssumption DEF InFlight, Passed, dispatchers
<1>2. OnTheBooks'
  BY DEF CeilingInv, OnTheBooks, Running
<1> QED
  BY <1>1, <1>2, NothingNew DEF CeilingInv, canceller

LEMMA FailCeiling ==
    ASSUME TypeOK, LeaseInv, CeilingInv, NEW r \in Runs, NEW from \in Executing \cup {"boot"},
           NEW to \in {"release", "gone"}, NEW verdict \in Refusals, Fail(r, from, to, verdict)
    PROVE  CeilingInv'
<1>1. verdict \notin Active
  BY DEF Refusals, Active
<1>2. ~Running(r)
  BY DEF Fail, Step, Executing, LeaseInv, ChildWatched, Watched
<1> QED
  BY <1>1, <1>2, WorkerMovesCeiling
  DEF Fail, Step, Settle, WorkerFrame, Executing, Running, TypeOK, RowsOK, WorkersOK

LEMMA ProceedCeiling ==
    ASSUME TypeOK, LeaseInv, CeilingInv, NEW r \in Runs, NEW from \in Executing,
           NEW to \in Executing \cup {"release"}, NEW before \in Active,
           NEW after, to = "launch" => after = "RUNNING", Proceed(r, from, to, before, after)
    PROVE  CeilingInv'
<1>1. ~Running(r)
  BY DEF Proceed, Step, Executing, LeaseInv, ChildWatched, Watched
<1> QED
  BY <1>1, WorkerMovesCeiling
  DEF Proceed, Step, WorkerFrame, Executing, Running, TypeOK, RowsOK, WorkersOK

LEMMA WritingCeiling ==
    ASSUME TypeOK, LeaseInv, CeilingInv, NEW r \in Runs, NEW to,
           wpc[r] \notin {"none", "wait", "gone"}, Step(r, wpc[r], to), to # "launch",
           WorkerFrame, UNCHANGED <<state, child>>
    PROVE  CeilingInv'
<1>1. ~Running(r)
  BY DEF LeaseInv, ChildWatched, Watched
<1> QED
  BY <1>1, WorkerMovesCeiling DEF Step, WorkerFrame, Running, TypeOK, WorkersOK

LEMMA WorkerStepCeiling ==
    ASSUME TypeOK, LeaseInv, CeilingInv, NEW r \in Runs, WorkerStep(r)
    PROVE  CeilingInv'
<1>1. CASE RequestUnreadable(r) \/ DriftAtLaunch(r) \/ NeverStarted(r) \/ RejectResult(r)
           \/ FailUnsynced(r) \/ RejectEvidence(r)
  BY <1>1, FailCeiling
  DEF RequestUnreadable, DriftAtLaunch, NeverStarted, RejectResult, FailUnsynced,
      RejectEvidence, Executing, Refusals
<1>2. CASE StartRunning(r) \/ MarkReceived(r) \/ MarkCollected(r) \/ MarkReady(r)
  BY <1>2, ProceedCeiling
  DEF StartRunning, MarkReceived, MarkCollected, MarkReady, Executing, Active
<1>3. CASE OpenLock(r) \/ TakeLock(r) \/ LockRefused(r) \/ RecordStarted(r) \/ ReadLease(r)
  BY <1>3, WritingCeiling
  DEF OpenLock, TakeLock, LockRefused, RecordStarted, ReadLease, Step
<1>4. CASE RecordValid(r) \/ RecordInvalid(r) \/ SyncFails(r)
  BY <1>4, WritingCeiling DEF RecordValid, RecordInvalid, SyncFails, RecordResult, Step
<1>5. CASE EvidenceOfInvalid(r) \/ EvidenceAccepted(r) \/ EvidenceRefused(r)
  BY <1>5, WritingCeiling
  DEF EvidenceOfInvalid, EvidenceAccepted, EvidenceRefused, CollectEvidence, Step
<1>6. CASE LaunchFails(r) \/ RecordHandoff(r) \/ ReleaseLease(r) \/ Unlock(r)
  BY <1>6, WritingCeiling
  DEF LaunchFails, RecordHandoff, ReleaseLease, Unlock, WriteReceipt, Step
<1>7. CASE ChildReturns(r)
  BY <1>7, WorkerMovesCeiling
  DEF ChildReturns, WriteReceipt, Step, WorkerFrame, TypeOK, WorkersOK
<1>8. CASE Launch(r)
  BY <1>8, WorkerMovesCeiling
  DEF Launch, Step, WorkerFrame, CeilingInv, OnTheBooks, TypeOK, WorkersOK
<1> QED
  BY <1>1, <1>2, <1>3, <1>4, <1>5, <1>6, <1>7, <1>8 DEF WorkerStep

LEMMA WorkerEndsCeiling ==
    ASSUME TypeOK, LeaseInv, CeilingInv, NEW r \in Runs,
           WorkerRaises(r) \/ WorkerDies(r) \/ ChildEnds(r)
    PROVE  CeilingInv'
<1>1. CASE WorkerRaises(r)
  BY <1>1, WritingCeiling DEF WorkerRaises, Executing
<1>2. CASE WorkerDies(r)
  BY <1>2, WorkerMovesCeiling
  DEF WorkerDies, Step, WorkerFrame, CeilingInv, OnTheBooks, Running, TypeOK, WorkersOK
<1>3. CASE ChildEnds(r)
  <2>1. wpc[r] # "none"
    BY <1>3 DEF ChildEnds, LeaseInv, ChildWatched, Running, Watched
  <2> QED
    BY <1>3, <2>1, WorkerMovesCeiling
    DEF ChildEnds, rows, CeilingInv, OnTheBooks, TypeOK, WorkersOK
<1> QED
  BY <1>1, <1>2, <1>3

\* However many dispatchers and runs, and whoever dies: as long as no reconciler
\* and no cancel writes verdicts, one real executor's child runs at a time
\* (the census of dispatcher.py and concurrency.py's decide).
THEOREM CeilingKept ==
    ASSUME Reconcilers = {}, ~Cancels
    PROVE  Spec => []OneRealChild
<1>1. Init => TypeOK /\ LeaseInv /\ CeilingInv
  BY InitType, InitLease, InitCeiling
<1>2. TypeOK /\ LeaseInv /\ CeilingInv /\ [Next]_vars => (TypeOK /\ LeaseInv /\ CeilingInv)'
  <2> SUFFICES ASSUME TypeOK, LeaseInv, CeilingInv, [Next]_vars
               PROVE  TypeOK' /\ LeaseInv' /\ CeilingInv'
    OBVIOUS
  <2>1. TypeOK' /\ LeaseInv'
    BY StepKeepsType, StepKeepsLease
  <2>2. CASE UNCHANGED vars
    <3>1. \A r \in Real : InFlight(r)' => InFlight(r)
      BY <2>2 DEF vars, rows, dispatchers, workers, InFlight, Passed
    <3>2. OnTheBooks' /\ cpc' = "idle"
      BY <2>2 DEF vars, rows, workers, canceller, CeilingInv, OnTheBooks, Running
    <3> QED
      BY <2>1, <3>1, <3>2, NothingNew DEF CeilingInv
  <2>3. ~\E r \in Runs : BeginCancel(r)
    BY DEF BeginCancel
  <2>4. ~ApplyCancel
    BY DEF ApplyCancel, CeilingInv
  <2>5. CASE Next
    BY <2>1, <2>3, <2>4, <2>5, DispatcherCeiling, WorkerStepCeiling, WorkerEndsCeiling DEF Next
  <2> QED
    BY <2>1, <2>2, <2>5
<1> QED
  BY <1>1, <1>2, CeilingImplies, PTL DEF Spec

----------------------------------------------------------------------------
(* The handoff.  That a ready run is backed is a matter of what its worker  *)
(* has established at each of its places; that INTERRUPTED is never said of *)
(* an uncertain run, of what a reconciler has read and not yet acted on.    *)

Judging == {"parse", "valid", "invalid", "reject", "sync", "unsynced", "collected",
            "disproved", "handoff", "ready"}
\* What a worker that got so far has established.
Established ==
    \A r \in Runs :
        /\ wpc[r] \in Judging => child[r] = "ended" /\ receipt[r] \notin {"none", "unstarted"}
        /\ wpc[r] \in {"valid", "sync", "collected", "disproved", "handoff", "ready"} =>
               result[r] = "valid"
        /\ wpc[r] \in {"collected", "handoff", "ready"} => evidence[r].ok
        /\ wpc[r] = "ready" => r \in handoff
Backed(r) ==
    /\ result[r] = "valid" /\ evidence[r].ok
    /\ receipt[r] \notin {"none", "unstarted"} /\ child[r] = "ended"
    /\ r \in handoff
\* Once a run is ready its worker only leaves.
ReadyIsBacked ==
    \A r \in Runs : state[r] = "HANDOFF_READY" =>
        wpc[r] \in {"release", "unlock", "gone"} /\ Backed(r)
ValidWasValid == \A r \in Runs : result[r] = "valid" => r \in wasValid
\* A reconciler that saw a valid result saw one that was on record.
SightWasValid ==
    \A c \in Reconcilers : rpc[c] # "idle" =>
        /\ seen[c].valid => rrun[c] \in wasValid
        /\ rpc[c] = "apply" /\ seen[c].target = "INTERRUPTED" /\ rrun[c] \in Writes =>
               rrun[c] \in wasValid
InterruptedWasValid == \A r \in Writes : state[r] = "INTERRUPTED" => r \in wasValid

BackedInv ==
    Established /\ ReadyIsBacked /\ ValidWasValid /\ SightWasValid /\ InterruptedWasValid

LEMMA BackedImplies == BackedInv => HandoffIsBacked
BY DEF BackedInv, ReadyIsBacked, Backed, InterruptedWasValid, HandoffIsBacked

LEMMA InitBacked == Init => BackedInv
BY RunsAssumption
DEF Init, BackedInv, Established, Judging, ReadyIsBacked, ValidWasValid, SightWasValid,
    InterruptedWasValid

\* The two verdicts this is about are not written by the step.
NoWord ==
    \A r \in Runs : state'[r] \in {"HANDOFF_READY", "INTERRUPTED"} => state'[r] = state[r]

LEMMA SettleNoWord ==
    ASSUME RowsOK, NEW r \in Runs, NEW to \in Refusals \ {"INTERRUPTED"}, Settle(r, to)
    PROVE  NoWord
BY DEF RowsOK, Settle, NoWord, Refusals

\* Whoever leaves the worker and what it wrote alone, and is no reconciler.
LEMMA BystanderBacked ==
    ASSUME BackedInv, NoWord, UNCHANGED <<result, evidence, handoff, receipt, wasValid>>,
           UNCHANGED <<wpc, child, reconcilers>>
    PROVE  BackedInv'
<1>1. Established' /\ ReadyIsBacked'
  BY DEF BackedInv, Established, ReadyIsBacked, Backed, NoWord
<1>2. ValidWasValid' /\ SightWasValid' /\ InterruptedWasValid'
  BY RunsAssumption
  DEF BackedInv, ValidWasValid, SightWasValid, InterruptedWasValid, NoWord, reconcilers
<1> QED
  BY <1>1, <1>2 DEF BackedInv

LEMMA AdvanceBacked ==
    ASSUME TypeOK, BackedInv, NEW d \in Dispatchers, NEW legal, NEW to \in Active, NEW p,
           Advance(d, legal, to, p),
           UNCHANGED <<result, evidence, handoff, receipt, wasValid, wpc, child, reconcilers>>
    PROVE  BackedInv'
<1>1. NoWord
  BY DEF Advance, Active, NoWord, TypeOK, RowsOK
<1> QED
  BY <1>1, BystanderBacked

LEMMA RefuseBacked ==
    ASSUME TypeOK, BackedInv, NEW d \in Dispatchers, dpc[d] # "idle",
           NEW to \in Refusals \ {"INTERRUPTED"}, Refuse(d, to), UNCHANGED wasValid
    PROVE  BackedInv'
<1>1. NoWord
  BY SettleNoWord, Busy DEF Refuse, TypeOK
<1> QED
  BY <1>1, BystanderBacked DEF Refuse, files, workers

LEMMA DispatcherBacked ==
    ASSUME TypeOK, LeaseInv, BackedInv, NEW d \in Dispatchers,
           (\E r \in Runs : Admit(d, r)) \/ DispatcherStep(d) \/ DispatcherDies(d)
    PROVE  BackedInv'
<1>1. CASE \E r \in Runs : Admit(d, r)
  <2>1. NoWord
    BY <1>1 DEF Admit, Create, NoWord, TypeOK, RowsOK
  <2> QED
    BY <1>1, <2>1, BystanderBacked DEF Admit, Create, files, workers, history
<1>2. CASE StartPreflight(d) \/ MarkLeased(d) \/ MarkDispatched(d)
  BY <1>2, AdvanceBacked
  DEF StartPreflight, MarkLeased, MarkDispatched, Active, files, workers, history
<1>3. CASE RefuseAtGates(d) \/ RefuseOverCeiling(d) \/ RefuseLease(d) \/ SpawnFails(d)
  BY <1>3, RefuseBacked
  DEF RefuseAtGates, RefuseOverCeiling, RefuseLease, SpawnFails, Refusals, history
<1>4. CASE Census(d) \/ WriteRequest(d) \/ DispatcherDies(d)
  BY <1>4, BystanderBacked
  DEF Census, WriteRequest, DispatcherDies, rows, files, workers, history, NoWord
<1>5. CASE AcquireLease(d) \/ FindDrift(d) \/ RecordSpawn(d)
  BY <1>5, BystanderBacked
  DEF AcquireLease, FindDrift, RecordSpawn, files, workers, history, NoWord
<1>6. CASE Spawn(d)
  <2>1. drun[d] \in Runs /\ wpc[drun[d]] = "none"
    BY <1>6, Busy DEF Spawn, LeaseInv, Ladder, TypeOK
  <2>2. Established' /\ ReadyIsBacked'
    BY <1>6, <2>1
    DEF Spawn, rows, files, BackedInv, Established, Judging, ReadyIsBacked, Backed, TypeOK,
        WorkersOK
  <2>3. ValidWasValid' /\ SightWasValid' /\ InterruptedWasValid'
    BY <1>6
    DEF Spawn, rows, files, reconcilers, history, BackedInv, ValidWasValid, SightWasValid,
        InterruptedWasValid
  <2> QED
    BY <2>2, <2>3 DEF BackedInv
<1> QED
  BY <1>1, <1>2, <1>3, <1>4, <1>5, <1>6 DEF DispatcherStep

\* A worker's step leaves every other run's rows and files alone.
Mine(r) ==
    /\ \A q \in Runs \ {r} :
         /\ wpc'[q] = wpc[q] /\ child'[q] = child[q] /\ receipt'[q] = receipt[q]
         /\ result'[q] = result[q] /\ evidence'[q] = evidence[q] /\ state'[q] = state[q]
         /\ q \in handoff' <=> q \in handoff
    /\ wasValid \subseteq wasValid'

\* What has to be shown of the run itself.
LEMMA WorkerBacked ==
    ASSUME BackedInv, NEW r \in Runs, Mine(r), UNCHANGED reconcilers,
           /\ wpc'[r] \in Judging =>
                  child'[r] = "ended" /\ receipt'[r] \notin {"none", "unstarted"}
           /\ wpc'[r] \in {"valid", "sync", "collected", "disproved", "handoff", "ready"} =>
                  result'[r] = "valid"
           /\ wpc'[r] \in {"collected", "handoff", "ready"} => evidence'[r].ok
           /\ wpc'[r] = "ready" => r \in handoff',
           state'[r] = "HANDOFF_READY" =>
               wpc'[r] \in {"release", "unlock", "gone"} /\ Backed(r)',
           result'[r] = "valid" => r \in wasValid',
           state'[r] = "INTERRUPTED" => state[r] = "INTERRUPTED"
    PROVE  BackedInv'
<1>1. Established' /\ ReadyIsBacked'
  BY DEF BackedInv, Established, ReadyIsBacked, Backed, Mine
<1>2. ValidWasValid' /\ SightWasValid' /\ InterruptedWasValid'
  BY RunsAssumption
  DEF BackedInv, ValidWasValid, SightWasValid, InterruptedWasValid, Mine, reconcilers
<1> QED
  BY <1>1, <1>2 DEF BackedInv

\* The worker moves and writes nothing the handoff rests on.
LEMMA MovesBacked ==
    ASSUME TypeOK, BackedInv, NEW r \in Runs, NEW to, Step(r, wpc[r], to), NoWord,
           \A q \in Runs \ {r} : state'[q] = state[q],
           UNCHANGED <<result, evidence, handoff, receipt, child, wasValid, reconcilers>>,
           to \in Judging => wpc[r] \in Judging,
           to \in {"valid", "sync", "disproved"} => wpc[r] \in {"valid", "sync"},
           to \in {"collected", "handoff"} => wpc[r] = "collected",
           to # "ready",
           wpc[r] \in {"release", "unlock", "gone"} => to \in {"release", "unlock", "gone"}
    PROVE  BackedInv'
<1>1. Mine(r) /\ wpc'[r] = to
  BY DEF Mine, Step, TypeOK, WorkersOK
<1>2. /\ to \in Judging => child[r] = "ended" /\ receipt[r] \notin {"none", "unstarted"}
      /\ to \in {"valid", "sync", "collected", "disproved", "handoff", "ready"} =>
             result[r] = "valid"
      /\ to \in {"collected", "handoff", "ready"} => evidence[r].ok
      /\ to = "ready" => r \in handoff
  BY DEF BackedInv, Established
<1>3. /\ state'[r] = "HANDOFF_READY" => to \in {"release", "unlock", "gone"} /\ Backed(r)
      /\ state'[r] = "INTERRUPTED" => state[r] = "INTERRUPTED"
      /\ result[r] = "valid" => r \in wasValid
  BY DEF BackedInv, ReadyIsBacked, ValidWasValid, NoWord
<1> QED
  BY <1>1, <1>2, <1>3, WorkerBacked DEF Backed

LEMMA FailBacked ==
    ASSUME TypeOK, BackedInv, NEW r \in Runs, NEW from, from \notin {"release", "unlock", "gone"},
           NEW to \in {"release", "gone"}, NEW verdict \in Refusals \ {"INTERRUPTED"},
           Fail(r, from, to, verdict)
    PROVE  BackedInv'
<1>1. NoWord /\ \A q \in Runs \ {r} : state'[q] = state[q]
  BY SettleNoWord DEF Fail, Settle, TypeOK, RowsOK
<1> QED
  BY <1>1, MovesBacked DEF Fail, Step, WorkerFrame, Judging

LEMMA ProceedBacked ==
    ASSUME TypeOK, BackedInv, NEW r \in Runs,
           StartRunning(r) \/ MarkReceived(r) \/ MarkCollected(r)
    PROVE  BackedInv'
<1>1. NoWord /\ \A q \in Runs \ {r} : state'[q] = state[q]
  BY DEF StartRunning, MarkReceived, MarkCollected, Proceed, NoWord, TypeOK, RowsOK
<1> QED
  BY <1>1, MovesBacked
  DEF StartRunning, MarkReceived, MarkCollected, Proceed, Step, WorkerFrame, Judging

LEMMA ReadyBacked ==
    ASSUME TypeOK, BackedInv, NEW r \in Runs, MarkReady(r)
    PROVE  BackedInv'
<1>1. Mine(r) /\ wpc[r] = "ready" /\ wpc'[r] = "release" /\ UNCHANGED reconcilers
  BY DEF MarkReady, Proceed, Step, WorkerFrame, Mine, TypeOK, RowsOK, WorkersOK
<1>2. Backed(r)'
  BY <1>1 DEF MarkReady, Proceed, BackedInv, Established, Judging, Backed
<1>3. state'[r] = "INTERRUPTED" => state[r] = "INTERRUPTED"
  BY DEF MarkReady, Proceed, TypeOK, RowsOK
<1>4. result'[r] = "valid" => r \in wasValid'
  BY DEF MarkReady, Proceed, BackedInv, ValidWasValid
<1> QED
  BY <1>1, <1>2, <1>3, <1>4, WorkerBacked DEF Judging

\* The steps that write what the handoff rests on.
LEMMA WritesBacked ==
    ASSUME TypeOK, BackedInv, NEW r \in Runs,
           \/ Launch(r) \/ LaunchFails(r) \/ ChildReturns(r)
           \/ RecordValid(r) \/ RecordInvalid(r) \/ SyncFails(r)
           \/ EvidenceOfInvalid(r) \/ EvidenceAccepted(r) \/ EvidenceRefused(r)
           \/ RecordHandoff(r)
    PROVE  BackedInv'
<1>1. state[r] # "HANDOFF_READY" /\ UNCHANGED <<state, reconcilers>>
  BY DEF Launch, LaunchFails, ChildReturns, WriteReceipt, RecordValid, RecordInvalid, SyncFails,
         RecordResult, EvidenceOfInvalid, EvidenceAccepted, EvidenceRefused, CollectEvidence,
         RecordHandoff, Step, WorkerFrame, BackedInv, ReadyIsBacked
<1>2. Mine(r)
  BY DEF Launch, LaunchFails, ChildReturns, WriteReceipt, RecordValid, RecordInvalid, SyncFails,
         RecordResult, EvidenceOfInvalid, EvidenceAccepted, EvidenceRefused, CollectEvidence,
         RecordHandoff, Step, Mine, TypeOK, WorkersOK, RowsOK, FilesOK
<1>3. CASE Launch(r) \/ LaunchFails(r) \/ ChildReturns(r)
  BY <1>1, <1>2, <1>3, WorkerBacked
  DEF Launch, LaunchFails, ChildReturns, WriteReceipt, Step, Judging, BackedInv, ValidWasValid,
      TypeOK, WorkersOK, FilesOK
<1>4. CASE RecordValid(r) \/ RecordInvalid(r) \/ SyncFails(r)
  BY <1>1, <1>2, <1>4, WorkerBacked
  DEF RecordValid, RecordInvalid, SyncFails, RecordResult, Step, Judging, BackedInv, Established,
      TypeOK, WorkersOK, RowsOK
<1>5. CASE EvidenceOfInvalid(r) \/ EvidenceAccepted(r) \/ EvidenceRefused(r)
  BY <1>1, <1>2, <1>5, WorkerBacked
  DEF EvidenceOfInvalid, EvidenceAccepted, EvidenceRefused, CollectEvidence, Step, Judging,
      BackedInv, Established, ValidWasValid, TypeOK, WorkersOK, RowsOK
<1>6. CASE RecordHandoff(r)
  BY <1>1, <1>2, <1>6, WorkerBacked
  DEF RecordHandoff, Step, Judging, BackedInv, Established, ValidWasValid, TypeOK, WorkersOK
<1> QED
  BY <1>3, <1>4, <1>5, <1>6

LEMMA WorkerStepBacked ==
    ASSUME TypeOK, BackedInv, NEW r \in Runs, WorkerStep(r)
    PROVE  BackedInv'
<1>1. CASE RequestUnreadable(r) \/ DriftAtLaunch(r) \/ NeverStarted(r) \/ RejectResult(r)
           \/ FailUnsynced(r) \/ RejectEvidence(r)
  BY <1>1, FailBacked
  DEF RequestUnreadable, DriftAtLaunch, NeverStarted, RejectResult, FailUnsynced,
      RejectEvidence, Refusals
<1>2. CASE OpenLock(r) \/ TakeLock(r) \/ LockRefused(r) \/ RecordStarted(r) \/ ReadLease(r)
           \/ ReleaseLease(r) \/ Unlock(r)
  <2>1. NoWord /\ UNCHANGED state
    BY <1>2
    DEF OpenLock, TakeLock, LockRefused, RecordStarted, ReadLease, ReleaseLease, Unlock, NoWord
  <2> QED
    BY <1>2, <2>1, MovesBacked
    DEF OpenLock, TakeLock, LockRefused, RecordStarted, ReadLease, ReleaseLease, Unlock, Step,
        WorkerFrame, Judging
<1> QED
  BY <1>1, <1>2, ProceedBacked, ReadyBacked, WritesBacked DEF WorkerStep

LEMMA WorkerEndsBacked ==
    ASSUME TypeOK, BackedInv, NEW r \in Runs, WorkerRaises(r) \/ WorkerDies(r) \/ ChildEnds(r)
    PROVE  BackedInv'
<1>1. CASE WorkerRaises(r) \/ WorkerDies(r)
  <2>1. NoWord /\ UNCHANGED state
    BY <1>1 DEF WorkerRaises, WorkerDies, NoWord
  <2> QED
    BY <1>1, <2>1, MovesBacked
    DEF WorkerRaises, WorkerDies, Executing, Step, WorkerFrame, Judging
<1>2. CASE ChildEnds(r)
  <2>1. Established' /\ ReadyIsBacked'
    BY <1>2
    DEF ChildEnds, rows, files, BackedInv, Established, ReadyIsBacked, Backed, TypeOK, WorkersOK
  <2>2. ValidWasValid' /\ SightWasValid' /\ InterruptedWasValid'
    BY <1>2
    DEF ChildEnds, rows, reconcilers, history, BackedInv, ValidWasValid, SightWasValid,
        InterruptedWasValid
  <2> QED
    BY <2>1, <2>2 DEF BackedInv
<1> QED
  BY <1>1, <1>2

\* A reconciler's step that keeps what it has seen and not yet acted on true.
LEMMA OnlookerBacked ==
    ASSUME BackedInv, SightWasValid', NoWord,
           UNCHANGED <<result, evidence, handoff, receipt, wasValid, wpc, child>>
    PROVE  BackedInv'
<1>1. Established' /\ ReadyIsBacked'
  BY DEF BackedInv, Established, ReadyIsBacked, Backed, NoWord
<1>2. ValidWasValid' /\ InterruptedWasValid'
  BY RunsAssumption DEF BackedInv, ValidWasValid, InterruptedWasValid, NoWord
<1> QED
  BY <1>1, <1>2 DEF BackedInv

\* The other reconcilers stay where they are.
LEMMA SightKept ==
    ASSUME TypeOK, BackedInv, NEW c \in Reconcilers, UNCHANGED wasValid,
           \A e \in Reconcilers \ {c} :
               rpc'[e] = rpc[e] /\ rrun'[e] = rrun[e] /\ seen'[e] = seen[e],
           rpc'[c] # "idle" => rpc'[c] # "apply" /\ (seen'[c].valid => rrun'[c] \in wasValid)
    PROVE  SightWasValid'
BY DEF BackedInv, SightWasValid

LEMMA ReadFrameBacked ==
    ASSUME BackedInv, SightWasValid', ReadFrame
    PROVE  BackedInv'
BY OnlookerBacked DEF ReadFrame, rows, files, workers, history, NoWord

LEMMA ReadingBacked ==
    ASSUME TypeOK, BackedInv, NEW c \in Reconcilers,
           SeeWorker(c) \/ SeeReceipt(c) \/ SeeResult(c) \/ SeeEvidence(c)
    PROVE  BackedInv'
<1> DEFINE k == seen[c]
<1>1. k \in Sightings /\ rpc[c] # "idle" /\ ReadFrame
  BY DEF SeeWorker, SeeReceipt, SeeResult, SeeEvidence, RStep, TypeOK, ReconcilersOK
<1>2. k.valid => rrun[c] \in wasValid
  BY <1>1 DEF BackedInv, SightWasValid
<1>3. ASSUME NEW x, NEW y
      PROVE  /\ [k EXCEPT !.started = x].valid = k.valid
             /\ [k EXCEPT !.receipt = x].valid = k.valid
             /\ [k EXCEPT !.valid = x].valid = x
             /\ [k EXCEPT !.changed = x, !.pid = y].valid = k.valid
  BY <1>1 DEF Sightings
<1>4. \E kk : See(c, kk) /\ (kk.valid => rrun[c] \in wasValid)
  <2>1. CASE SeeWorker(c)
    <3> WITNESS [k EXCEPT !.started = rrun[c] \in started]
    <3> QED
      BY <1>2, <1>3, <2>1, Zenon DEF SeeWorker
  <2>2. CASE SeeReceipt(c)
    <3> WITNESS [k EXCEPT !.receipt = receipt[rrun[c]]]
    <3> QED
      BY <1>2, <1>3, <2>2, Zenon DEF SeeReceipt
  <2>3. CASE SeeResult(c)
    <3>1. (result[rrun[c]] = "valid") => rrun[c] \in wasValid
      BY <1>1, Occupied DEF BackedInv, ValidWasValid, TypeOK
    <3> WITNESS [k EXCEPT !.valid = (result[rrun[c]] = "valid")]
    <3> QED
      BY <1>3, <2>3, <3>1, Zenon DEF SeeResult
  <2>4. CASE SeeEvidence(c)
    <3>1. PICK x, y : x = evidence[rrun[c]].changed /\ y = (rrun[c] \in started)
      OBVIOUS
    <3>2. See(c, [k EXCEPT !.changed = x, !.pid = y])
      BY <2>4, <3>1, Zenon DEF SeeEvidence
    <3>3. [k EXCEPT !.changed = x, !.pid = y].valid = k.valid
      BY <1>3
    <3> WITNESS [k EXCEPT !.changed = x, !.pid = y]
    <3> QED
      BY <1>2, <3>2, <3>3
  <2> QED
    BY <2>1, <2>2, <2>3, <2>4
<1>5. PICK to \in {"receipt", "result", "evidence", "probe"} :
        rpc' = [rpc EXCEPT ![c] = to] /\ UNCHANGED rrun
  BY DEF SeeWorker, SeeReceipt, SeeResult, SeeEvidence, RStep
<1>6. SightWasValid'
  BY <1>1, <1>4, <1>5, SightKept DEF See, ReadFrame, history, TypeOK, ReconcilersOK
<1> QED
  BY <1>1, <1>6, ReadFrameBacked

LEMMA ProbingBacked ==
    ASSUME TypeOK, BackedInv, NEW c \in Reconcilers, Probing(c)
    PROVE  BackedInv'
<1>1. seen[c] \in Sightings /\ rpc[c] # "idle"
  BY DEF Probing, CannotProbe, FindHeld, ProbeLock, FinishProbe, RStep, TypeOK, ReconcilersOK
<1>2. seen[c].valid => rrun[c] \in wasValid
  BY <1>1 DEF BackedInv, SightWasValid
<1>3. \E k : \E to \in {"classify", "reclaim", "probing", "reprobing"} :
        /\ See(c, k) /\ k.valid = seen[c].valid
        /\ rpc' = [rpc EXCEPT ![c] = to] /\ UNCHANGED rrun
  <2>1. \A x : [seen[c] EXCEPT !.live = x].valid = seen[c].valid
    BY <1>1 DEF Sightings
  <2>2. CASE ProbeLock(c, "probe", "probing") \/ ProbeLock(c, "reprobe", "reprobing")
    <3>1. See(c, seen[c])
      BY <2>2 DEF ProbeLock, See, TypeOK, ReconcilersOK
    <3> QED
      BY <2>2, <3>1 DEF ProbeLock, RStep
  <2>3. CASE CannotProbe(c, "probe", "classify") \/ CannotProbe(c, "reprobe", "reclaim")
             \/ FindHeld(c, "probe", "classify") \/ FindHeld(c, "reprobe", "reclaim")
    BY <2>1, <2>3, Zenon DEF CannotProbe, FindHeld, RStep
  <2>4. CASE FinishProbe(c, "probing", "classify") \/ FinishProbe(c, "reprobing", "reclaim")
    BY <2>1, <2>4, Zenon DEF FinishProbe, RStep
  <2> QED
    BY <2>2, <2>3, <2>4 DEF Probing
<1>4. NoWord /\ UNCHANGED <<result, evidence, handoff, receipt, wasValid, wpc, child>>
  BY DEF Probing, CannotProbe, FindHeld, ProbeLock, FinishProbe, ReadFrame, rows, files, workers,
         history, NoWord
<1>5. SightWasValid'
  BY <1>2, <1>3, <1>4, SightKept DEF See, TypeOK, ReconcilersOK
<1> QED
  BY <1>4, <1>5, OnlookerBacked

\* Only a result seen valid makes a run that could write INTERRUPTED.
LEMMA InterruptedVerdict ==
    ASSUME NEW k, NEW workerRow, Classify(k, TRUE, workerRow).target = "INTERRUPTED"
    PROVE  k.valid
BY DEF Classify, WithReceipt, WithoutReceipt, Leave, Verdict

LEMMA ConcludeBacked ==
    ASSUME TypeOK, BackedInv, NEW c \in Reconcilers, Conclude(c)
    PROVE  BackedInv'
<1> DEFINE v == Classify(seen[c], rrun[c] \in Writes, rrun[c] \in spawned \cup started)
<1>1. seen[c].valid => rrun[c] \in wasValid
  BY DEF Conclude, BackedInv, SightWasValid
<1>2. v.target = "INTERRUPTED" /\ rrun[c] \in Writes => rrun[c] \in wasValid
  BY <1>1, InterruptedVerdict
<1>3. SightWasValid'
  <2>1. CASE Finish(c)
    BY <2>1, SightKept DEF Conclude, Finish, See, TypeOK, ReconcilersOK
  <2>2. CASE ~Finish(c)
    <3>1. /\ rpc' = [rpc EXCEPT ![c] = "apply"] /\ UNCHANGED <<rrun, wasValid>>
          /\ seen' = [seen EXCEPT ![c] = [Unseen EXCEPT !.target = v.target]]
      BY <2>2 DEF Conclude, See
    <3> HIDE DEF v
    <3>2. seen'[c].target = v.target /\ ~seen'[c].valid
      BY <3>1 DEF Unseen, TypeOK, ReconcilersOK
    <3> QED
      BY <1>2, <3>1, <3>2 DEF BackedInv, SightWasValid, TypeOK, ReconcilersOK
  <2> QED
    BY <2>1, <2>2
<1> QED
  BY <1>3, OnlookerBacked DEF Conclude, rows, files, workers, NoWord

LEMMA ApplyBacked ==
    ASSUME TypeOK, BackedInv, NEW c \in Reconcilers, ApplyVerdict(c)
    PROVE  BackedInv'
<1> DEFINE r == rrun[c]
           to == seen[c].target
<1>1. r \in Runs /\ rpc[c] = "apply" /\ Settle(r, to)
  BY Occupied DEF ApplyVerdict, RStep, TypeOK
<1>2. \A q \in Runs : state'[q] = "HANDOFF_READY" => state[q] = "HANDOFF_READY"
  <2>1. to # "HANDOFF_READY"
    BY DEF TypeOK, ReconcilersOK, Sightings, Refusals
  <2> QED
    BY <1>1, <2>1 DEF Settle, TypeOK, RowsOK
<1>3. UNCHANGED <<result, evidence, handoff, receipt, wasValid, wpc, child, rrun, seen>>
  BY DEF ApplyVerdict, RStep, files, workers, history
<1>4. Established' /\ ReadyIsBacked' /\ ValidWasValid'
  BY <1>2, <1>3 DEF BackedInv, Established, ReadyIsBacked, Backed, ValidWasValid
<1>5. InterruptedWasValid'
  <2>1. to = "INTERRUPTED" /\ r \in Writes => r \in wasValid
    BY <1>1 DEF BackedInv, SightWasValid
  <2>2. \A q \in Runs : state'[q] # state[q] => q = r /\ state'[q] = to
    BY <1>1 DEF Settle, TypeOK, RowsOK
  <2> QED
    BY <1>3, <2>1, <2>2, RunsAssumption DEF BackedInv, InterruptedWasValid
<1>6. SightWasValid'
  BY <1>1, <1>3 DEF ApplyVerdict, RStep, BackedInv, SightWasValid, TypeOK, ReconcilersOK
<1> QED
  BY <1>4, <1>5, <1>6 DEF BackedInv

LEMMA ReconcilerBacked ==
    ASSUME TypeOK, BackedInv, NEW c \in Reconcilers,
           (\E r \in Runs : BeginReconcile(c, r)) \/ ReconcilerStep(c)
    PROVE  BackedInv'
<1>1. CASE \E r \in Runs : BeginReconcile(c, r)
  <2>1. SightWasValid'
    BY <1>1, SightKept
    DEF BeginReconcile, See, Unseen, ReadFrame, history, TypeOK, ReconcilersOK
  <2> QED
    BY <1>1, <2>1, ReadFrameBacked DEF BeginReconcile
<1>2. CASE SeeLease(c)
  <2>1. SightWasValid'
    BY <1>2, SightKept
    DEF SeeLease, Finish, See, Unseen, ReadFrame, history, TypeOK, ReconcilersOK
  <2> QED
    BY <1>2, <2>1, ReadFrameBacked DEF SeeLease
<1>3. CASE Reclaim(c)
  <2>1. SightWasValid'
    BY <1>3, SightKept DEF Reclaim, Finish, See, history, TypeOK, ReconcilersOK
  <2> QED
    BY <1>3, <2>1, OnlookerBacked DEF Reclaim, files, workers, history, NoWord
<1> QED
  BY <1>1, <1>2, <1>3, ReadingBacked, ProbingBacked, ConcludeBacked, ApplyBacked
  DEF ReconcilerStep

LEMMA CancelBacked ==
    ASSUME TypeOK, BackedInv, (\E r \in Runs : BeginCancel(r)) \/ ApplyCancel
    PROVE  BackedInv'
<1>1. NoWord
  <2>1. CASE ApplyCancel
    BY <2>1, SettleNoWord DEF ApplyCancel, Refusals, TypeOK, CancelOK
  <2> QED
    BY <2>1 DEF BeginCancel, NoWord
<1> QED
  BY <1>1, BystanderBacked
  DEF BeginCancel, ApplyCancel, CancelFrame, files, workers, history

LEMMA StepKeepsBacked == TypeOK /\ LeaseInv /\ BackedInv /\ [Next]_vars => BackedInv'
<1> SUFFICES ASSUME TypeOK, LeaseInv, BackedInv, [Next]_vars PROVE BackedInv'
  OBVIOUS
<1>1. CASE UNCHANGED vars
  BY <1>1, BystanderBacked DEF vars, rows, files, workers, history, NoWord
<1>2. CASE Next
  BY <1>2, DispatcherBacked, WorkerStepBacked, WorkerEndsBacked, ReconcilerBacked, CancelBacked
  DEF Next
<1> QED
  BY <1>1, <1>2

\* Whatever dies, and however many dispatchers, reconcilers and cancels there are: a
\* ready handoff has its valid result, its accepted measurement and its ended child
\* behind it, and a run that could write is called INTERRUPTED only if it had a valid
\* result (worker.py's order of writes, reconcile.py's classification).
THEOREM HandoffBacked == Spec => []HandoffIsBacked
<1>1. Init => TypeOK /\ LeaseInv /\ BackedInv
  BY InitType, InitLease, InitBacked
<1>2. TypeOK /\ LeaseInv /\ BackedInv /\ [Next]_vars => (TypeOK /\ LeaseInv /\ BackedInv)'
  BY StepKeepsType, StepKeepsLease, StepKeepsBacked
<1> QED
  BY <1>1, <1>2, BackedImplies, PTL DEF Spec

----------------------------------------------------------------------------
\* Only Spawn starts a worker, and it finds none there.
LEMMA StartsOnce ==
    TypeOK /\ LeaseInv /\ [Next]_vars =>
        \A r \in Runs : wpc'[r] = "boot" => wpc[r] \in {"none", "boot"}
<1> SUFFICES ASSUME TypeOK, LeaseInv, [Next]_vars, NEW r \in Runs, wpc'[r] = "boot"
             PROVE  wpc[r] \in {"none", "boot"}
  OBVIOUS
<1>1. CASE UNCHANGED wpc
  BY <1>1
<1>2. ASSUME NEW d \in Dispatchers, Spawn(d) PROVE wpc[r] \in {"none", "boot"}
  <2>1. drun[d] \in Runs /\ wpc[drun[d]] = "none"
    BY <1>2, Busy DEF Spawn, LeaseInv, Ladder, TypeOK
  <2> QED
    BY <1>2, <2>1 DEF Spawn, TypeOK, WorkersOK
<1>3. ASSUME NEW d \in Dispatchers, ~Spawn(d),
             (\E q \in Runs : Admit(d, q)) \/ DispatcherStep(d) \/ DispatcherDies(d)
      PROVE  UNCHANGED wpc
  BY <1>3
  DEF Admit, Create, DispatcherStep, DispatcherDies, StartPreflight, RefuseAtGates, Census,
      RefuseOverCeiling, AcquireLease, MarkLeased, FindDrift, RefuseLease, WriteRequest,
      MarkDispatched, SpawnFails, RecordSpawn, Refuse, workers
<1>4. ASSUME NEW q \in Runs, NEW from, NEW to, to # "boot", Step(q, from, to)
      PROVE  wpc[r] \in {"none", "boot"}
  BY <1>4 DEF Step, TypeOK, WorkersOK
<1>5. ASSUME NEW q \in Runs, WorkerStep(q) \/ WorkerRaises(q) \/ WorkerDies(q)
      PROVE  \E from, to : to # "boot" /\ Step(q, from, to)
  BY <1>5
  DEF WorkerStep, WorkerRaises, WorkerDies, RequestUnreadable, OpenLock, TakeLock, LockRefused,
      RecordStarted, ReadLease, DriftAtLaunch, StartRunning, Launch, LaunchFails, NeverStarted,
      ChildReturns, RecordValid, RecordInvalid, EvidenceOfInvalid, RejectResult, MarkReceived,
      SyncFails, FailUnsynced, EvidenceAccepted, EvidenceRefused, RejectEvidence, MarkCollected,
      RecordHandoff, MarkReady, ReleaseLease, Unlock, Fail, Proceed, WriteReceipt, RecordResult,
      CollectEvidence
<1>6. ASSUME NEW q \in Runs, ChildEnds(q) PROVE UNCHANGED wpc
  BY <1>6 DEF ChildEnds
<1>7. ASSUME NEW c \in Reconcilers, (\E q \in Runs : BeginReconcile(c, q)) \/ ReconcilerStep(c)
      PROVE  UNCHANGED wpc
  BY <1>7
  DEF BeginReconcile, ReconcilerStep, SeeWorker, SeeReceipt, SeeResult, SeeEvidence, Probing,
      CannotProbe, FindHeld, ProbeLock, FinishProbe, Conclude, ApplyVerdict, SeeLease, Reclaim,
      ReadFrame, workers
<1>8. ASSUME (\E q \in Runs : BeginCancel(q)) \/ ApplyCancel
      PROVE  UNCHANGED wpc
  BY <1>8 DEF BeginCancel, ApplyCancel, CancelFrame, workers
<1>9. CASE UNCHANGED vars
  BY <1>1, <1>9 DEF vars, workers
<1> QED
  BY <1>1, <1>2, <1>3, <1>4, <1>5, <1>6, <1>7, <1>8, <1>9 DEF Next

\* One admission, one worker: no two dispatchers, however they race on one dispatch
\* key, ever start its worker twice (dispatcher.py's ladder below admit()).
THEOREM OneWorker == Spec => OneWorkerPerKey
<1>1. Init => TypeOK /\ LeaseInv
  BY InitType, InitLease
<1>2. TypeOK /\ LeaseInv /\ [Next]_vars => (TypeOK /\ LeaseInv)'
  BY StepKeepsType, StepKeepsLease
<1>3. TypeOK /\ LeaseInv /\ [Next]_vars =>
        [\A r \in Runs : wpc'[r] = "boot" => wpc[r] \in {"none", "boot"}]_vars
  BY StartsOnce
<1> QED
  BY <1>1, <1>2, <1>3, PTL DEF Spec, OneWorkerPerKey


----------------------------------------------------------------------------
(* Governance.                                                              *)

(* A saved document is a proposal once it is one.                          *)
Proposals ==
  [status : {"PENDING", "REFUSED", "ADOPTED"}, found : SUBSET Findings,
   open : SUBSET Findings, reviewed : BOOLEAN, run : Nat]

(* What a process has read goes with its place.                            *)
Copying == {"save findings", "challenge key", "save reviewed"}

TickShape ==
  /\ "at" \in DOMAIN tick
  /\ tick.at \in Copying => "copy" \in DOMAIN tick /\ tick.copy \in Proposals

HumanShape ==
  /\ "at" \in DOMAIN human
  /\ human.at \in {"drop", "approve"} => human.q \in Questions
  /\ human.at \in {"decide", "mark", "wake"} =>
       "q" \in DOMAIN human /\ human.q \in Questions
  /\ human.at = "create lanes" =>
       {"at", "copy", "left"} = DOMAIN human /\ human.copy \in Proposals
  /\ human.at = "save resolved" => human.copy \in Proposals /\ human.finding \in Findings

Counters ==
  /\ crashes \in Nat /\ fruitless \in Nat /\ refusals \in Nat /\ planners \in Nat
  /\ stale \in BOOLEAN

Books ==
  /\ question \in [Questions -> [kind : Kinds \cup {"unfiled"}, answered : BOOLEAN]]
  /\ approvals \in [Questions -> 0 .. 2]
  /\ lanes \in [LaneKeys -> 0 .. 2]

Shapes == Counters /\ Books /\ TickShape /\ HumanShape

--------------------------------------------------------------------------------
(* The budget.  A turn on offer is on its way from its dispatch until the  *)
(* tick has counted it; the refusals that count are those over the         *)
(* questions on offer, also between the write of the count and of its      *)
(* scope.                                                                  *)

InHand ==
  tick.at \in {"turn attempt", "turn key", "inbox", "dispose", "mark", "wake", "refuse",
               "admitted"}

OnItsWay == turn # "none" \/ InHand

CountedScope == IF TickAt("refusal scope") THEN tick.scope ELSE scope

Counted == IF CountedScope = Answerable THEN refusals ELSE 0

BudgetInv ==
  /\ refusals <= MaxRefusals
  /\ InHand => turn = "none"
  /\ OnItsWay => refusals < MaxRefusals
  /\ TickAt("refusal scope") => refusals = 1 \/ tick.scope = scope
  /\ fruitless <= Counted + (IF OnItsWay THEN 1 ELSE 0) + crashes

--------------------------------------------------------------------------------
(* Decisions.  Whoever applies an approval found the question unanswered.  *)

Approving(q) ==
  /\ human.at = "approve" \/ (human.at = "decide" /\ human.by = "approval")
  /\ human.q = q

ApprovalInv ==
  \A q \in Questions :
    /\ approvals[q] # 0 =>
         question[q].answered \/ q \in torn \/ (HumanAt("mark") /\ human.q = q)
    /\ Approving(q) => approvals[q] = 0 \/ q \in torn
    /\ approvals[q] = 2 => q \in torn

(* The plan.  While there is no document there is a planner at most, and   *)
(* nobody holds a copy; a document never becomes none again.               *)
Planning ==
  planner # "none" \/ tick.at \in {"plan read", "planner attempt", "planner key"}

DocInv ==
  /\ doc \in Proposals \cup {NoDoc}
  /\ Planning => doc = NoDoc
  /\ tick.at = "plan read" => planner = "none"
  /\ human.at \in {"create lanes", "save resolved"} \/ tick.at \in Copying => doc # NoDoc

(* Lanes are there only under an adopted plan, or while one is adopted.    *)
LanesInv ==
  stale \/
    \A k \in LaneKeys :
      /\ lanes[k] # 2
      /\ HumanAt("create lanes") => (k \in human.left => lanes[k] = 0)
      /\ lanes[k] # 0 => HumanAt("create lanes") \/ doc.status = "ADOPTED"

IInv == Shapes /\ BudgetInv /\ ApprovalInv /\ DocInv /\ LanesInv

--------------------------------------------------------------------------------
(* All of it holds where the program starts.                              *)
LEMMA InitInvariant == GovernanceInit => IInv
<1> SUFFICES ASSUME GovernanceInit PROVE IInv
  OBVIOUS
<1>1. Shapes
  <2>1. Counters /\ TickShape /\ HumanShape
    BY DEF GovernanceInit, Counters, TickShape, HumanShape, Idle, Copying
  <2>2. Books
    BY DEF GovernanceInit, Books
  <2>3. QED
    BY <2>1, <2>2 DEF Shapes
<1>2. BudgetInv
  BY BoundsAssumption DEF GovernanceInit, BudgetInv, OnItsWay, InHand, Counted, CountedScope, TickAt, Idle
<1>3. ApprovalInv
  <2>1. ASSUME NEW q \in Questions PROVE approvals[q] = 0 /\ approvals[q] # 2
    BY DEF GovernanceInit
  <2>2. ASSUME NEW q \in Questions PROVE ~Approving(q)
    BY DEF GovernanceInit, Approving, Idle
  <2>3. QED
    BY <2>1, <2>2, Zenon DEF ApprovalInv
<1>4. DocInv
  BY DEF GovernanceInit, DocInv, Planning, Copying, Idle
<1>5. LanesInv
  BY DEF GovernanceInit, LanesInv, HumanAt, Idle
<1>6. QED
  BY <1>1, <1>2, <1>3, <1>4, <1>5 DEF IInv

--------------------------------------------------------------------------------
(* Each process leaves the other's place alone, and the tick alone counts. *)
LEMMA TickApart == Human \/ World \/ HumanDies => tick' = tick
<1>1. CASE Human
  BY <1>1 DEF Human, Approve, Discard, Answer, TakeFromQueue, HumanDecides, HumanMarks,
     HumanWakes, Adopt, CreateLane, SaveAdopted, Resolve, SaveResolved
<1>2. CASE World
  BY <1>2 DEF World, File, RunEnds, ChooseMode
<1>3. CASE HumanDies
  BY <1>3 DEF HumanDies
<1>4. QED
  BY <1>1, <1>2, <1>3

LEMMA HumanApart == Tick \/ World \/ TickDies => human' = human
<1>1. CASE Tick
  BY <1>1 DEF Tick, TickBegins, ConsumePlanner, SaveProposal, ConsumeChallenge,
     ReadForFindings, SaveFindings, DispatchPlanner, NoPlanner, CountPlanner, KeyPlanner,
     DispatchChallenge, NoChallenge, KeyChallenge, SaveReviewed, SeatIdle, ConsumeTurn,
     ReadInbox, CountRefusal, NoteScope, QueueDirective, ApplyDirective, MarkApplied,
     WakeApplied, SaveQueue, ForgiveRefusals, NewScope, NoTurn, DispatchTurn, DuplicateTurn,
     CountTurn, KeyTurn
<1>2. CASE World
  BY <1>2 DEF World, File, RunEnds, ChooseMode
<1>3. CASE TickDies
  BY <1>3 DEF TickDies
<1>4. QED
  BY <1>1, <1>2, <1>3

LEMMA TickCounts ==
  Human \/ World \/ TickDies \/ HumanDies => refusals' = refusals /\ scope' = scope
<1>1. CASE Human
  BY <1>1 DEF Human, seatVars, Approve, Discard, Answer, TakeFromQueue, HumanDecides,
     HumanMarks, HumanWakes, Adopt, CreateLane, SaveAdopted, Resolve, SaveResolved
<1>2. CASE World
  BY <1>2 DEF World, File, RunEnds, ChooseMode, seatVars
<1>3. CASE TickDies
  BY <1>3 DEF TickDies, seatVars
<1>4. CASE HumanDies
  BY <1>4 DEF HumanDies, seatVars
<1>5. QED
  BY <1>1, <1>2, <1>3, <1>4

LEMMA CrashesKept == Tick \/ Human \/ World => crashes' = crashes
<1>1. CASE Tick
  BY <1>1 DEF Tick, TickBegins, ConsumePlanner, SaveProposal, ConsumeChallenge,
     ReadForFindings, SaveFindings, DispatchPlanner, NoPlanner, CountPlanner, KeyPlanner,
     DispatchChallenge, NoChallenge, KeyChallenge, SaveReviewed, SeatIdle, ConsumeTurn,
     ReadInbox, CountRefusal, NoteScope, QueueDirective, ApplyDirective, MarkApplied,
     WakeApplied, SaveQueue, ForgiveRefusals, NewScope, NoTurn, DispatchTurn, DuplicateTurn,
     CountTurn, KeyTurn
<1>2. CASE Human
  BY <1>2 DEF Human, Approve, Discard, Answer, TakeFromQueue, HumanDecides, HumanMarks,
     HumanWakes, Adopt, CreateLane, SaveAdopted, Resolve, SaveResolved
<1>3. CASE World
  BY <1>3 DEF World, File, RunEnds, ChooseMode
<1>4. QED
  BY <1>1, <1>2, <1>3

LEMMA CrashesCounted == TickDies \/ HumanDies => crashes' = crashes + 1
<1>1. CASE TickDies
  BY <1>1 DEF TickDies
<1>2. CASE HumanDies
  BY <1>2 DEF HumanDies
<1>3. QED
  BY <1>1, <1>2

(* Only a dispatch counts a turn, and only while nothing on offer changes. *)
LEMMA FruitlessCounted ==
  ASSUME CountFruitless
  PROVE  \/ fruitless' = 0
         \/ /\ Answerable' = Answerable
            /\ \/ fruitless' = fruitless
               \/ fruitless' = fruitless + 1 /\ TickAt("budget") /\ tick'.at = "turn attempt"
BY Zenon DEF CountFruitless

(* The counters stay numbers, whatever is done.                            *)
LEMMA CountersStep == ASSUME Counters, GovernanceNext PROVE Counters'
<1>1. fruitless' \in Nat
  <2>1. fruitless' = 0 \/ fruitless' = fruitless \/ fruitless' = fruitless + 1
    BY FruitlessCounted, Zenon DEF GovernanceNext
  <2>2. QED
    BY <2>1 DEF Counters
<1>2. refusals' \in Nat
  <2>1. CASE CountRefusal
    <3>1. refusals' = refusals + 1 \/ refusals' = 1
      BY <2>1, Zenon DEF CountRefusal
    <3>2. QED
      BY <3>1 DEF Counters
  <2>2. CASE ForgiveRefusals
    BY <2>2 DEF ForgiveRefusals
  <2>3. CASE NewScope
    BY <2>3 DEF NewScope
  <2>4. CASE Tick /\ ~CountRefusal /\ ~ForgiveRefusals /\ ~NewScope
    <3>1. refusals' = refusals
      BY <2>4 DEF Tick, seatVars, TickBegins, ConsumePlanner, SaveProposal,
         ConsumeChallenge, ReadForFindings, SaveFindings, DispatchPlanner, NoPlanner,
         CountPlanner, KeyPlanner, DispatchChallenge, NoChallenge, KeyChallenge,
         SaveReviewed, SeatIdle, ConsumeTurn, ReadInbox, NoteScope, QueueDirective,
         ApplyDirective, MarkApplied, WakeApplied, SaveQueue, NoTurn, DispatchTurn,
         DuplicateTurn, CountTurn, KeyTurn
    <3>2. QED
      BY <3>1 DEF Counters
  <2>5. CASE Human \/ World \/ TickDies \/ HumanDies
    BY <2>5, TickCounts DEF Counters
  <2>6. QED
    BY <2>1, <2>2, <2>3, <2>4, <2>5 DEF GovernanceNext
<1>3. planners' \in Nat
  <2>1. CASE DispatchPlanner
    <3>1. planners' = planners + 1
      BY <2>1 DEF DispatchPlanner
    <3>2. QED
      BY <3>1 DEF Counters
  <2>2. CASE Tick /\ ~DispatchPlanner
    <3>1. planners' = planners
      BY <2>2 DEF Tick, planVars, TickBegins, ConsumePlanner, SaveProposal,
         ConsumeChallenge, ReadForFindings, SaveFindings, NoPlanner, CountPlanner,
         KeyPlanner, DispatchChallenge, NoChallenge, KeyChallenge, SaveReviewed, SeatIdle,
         ConsumeTurn, ReadInbox, CountRefusal, NoteScope, QueueDirective, ApplyDirective,
         MarkApplied, WakeApplied, SaveQueue, ForgiveRefusals, NewScope, NoTurn,
         DispatchTurn, DuplicateTurn, CountTurn, KeyTurn
    <3>2. QED
      BY <3>1 DEF Counters
  <2>3. CASE Human \/ World \/ TickDies \/ HumanDies
    <3>1. CASE Human
      BY <3>1 DEF Human, planVars, Counters, Approve, Discard, Answer, TakeFromQueue,
         HumanDecides, HumanMarks, HumanWakes, Adopt, CreateLane, SaveAdopted, Resolve,
         SaveResolved
    <3>2. CASE World
      BY <3>2 DEF World, File, RunEnds, ChooseMode, planVars, Counters
    <3>3. CASE TickDies
      BY <3>3 DEF TickDies, planVars, Counters
    <3>4. CASE HumanDies
      BY <3>4 DEF HumanDies, planVars, Counters
    <3>5. QED
      BY <2>3, <3>1, <3>2, <3>3, <3>4
  <2>4. QED
    BY <2>1, <2>2, <2>3 DEF GovernanceNext
<1>4. crashes' \in Nat
  <2>1. crashes' = crashes \/ crashes' = crashes + 1
    BY CrashesKept, CrashesCounted, Zenon DEF GovernanceNext
  <2>2. QED
    BY <2>1 DEF Counters
<1>5. stale' \in BOOLEAN
  <2>1. CASE Tick
    BY <2>1 DEF Tick, TickBegins, ConsumePlanner, SaveProposal, ConsumeChallenge,
       ReadForFindings, SaveFindings, DispatchPlanner, NoPlanner, CountPlanner, KeyPlanner,
       DispatchChallenge, NoChallenge, KeyChallenge, SaveReviewed, SeatIdle, ConsumeTurn,
       ReadInbox, CountRefusal, NoteScope, QueueDirective, ApplyDirective, MarkApplied,
       WakeApplied, SaveQueue, ForgiveRefusals, NewScope, NoTurn, DispatchTurn,
       DuplicateTurn, CountTurn, KeyTurn, SaveDoc, ledger, Counters
  <2>2. CASE Human
    BY <2>2 DEF Human, Approve, Discard, Answer, TakeFromQueue, HumanDecides, HumanMarks,
       HumanWakes, Adopt, CreateLane, SaveAdopted, Resolve, SaveResolved, SaveDoc, ledger,
       Counters
  <2>3. CASE World
    BY <2>3 DEF World, File, RunEnds, ChooseMode, ledger, Counters
  <2>4. CASE TickDies
    BY <2>4 DEF TickDies, Counters
  <2>5. CASE HumanDies
    <3>1. stale' = (stale \/ HumanAt("create lanes"))
      BY <2>5 DEF HumanDies
    <3>2. QED
      BY <3>1 DEF HumanAt
  <2>6. QED
    BY <2>1, <2>2, <2>3, <2>4, <2>5 DEF GovernanceNext
<1>6. QED
  BY <1>1, <1>2, <1>3, <1>4, <1>5 DEF Counters

LEMMA CappedCount == ASSUME NEW n \in 0 .. 2 PROVE (IF n < 2 THEN n + 1 ELSE 2) \in 0 .. 2
OBVIOUS

(* The records of questions, approvals and lanes keep their form.          *)
LEMMA BooksStep == ASSUME Books, TickShape, HumanShape, GovernanceNext PROVE Books'
<1>1. CASE Tick
  <2>1. CASE ApplyDirective
    BY <2>1 DEF ApplyDirective, Decide, worldVars, planVars, Books
  <2>2. CASE MarkApplied
    BY <2>2 DEF MarkApplied, Mark, ledger, planVars, Books
  <2>3. CASE Tick /\ ~ApplyDirective /\ ~MarkApplied
    BY <2>3 DEF Tick, TickBegins, ConsumePlanner, SaveProposal, ConsumeChallenge,
       ReadForFindings, SaveFindings, DispatchPlanner, NoPlanner, CountPlanner, KeyPlanner,
       DispatchChallenge, NoChallenge, KeyChallenge, SaveReviewed, SeatIdle, ConsumeTurn,
       ReadInbox, CountRefusal, NoteScope, QueueDirective, WakeApplied, SaveQueue,
       ForgiveRefusals, NewScope, NoTurn, DispatchTurn, DuplicateTurn, CountTurn, KeyTurn,
       planVars, worldVars, ledger, Books
  <2>4. QED
    BY <1>1, <2>1, <2>2, <2>3
<1>2. CASE Human
  <2>1. CASE HumanDecides
    <3>1. approvals' \in [Questions -> 0 .. 2]
      BY <2>1, CappedCount DEF HumanDecides, Decide, Books
    <3>2. QED
      BY <2>1, <3>1 DEF HumanDecides, worldVars, planVars, Books
  <2>2. CASE HumanMarks
    BY <2>2 DEF HumanMarks, Mark, ledger, planVars, Books
  <2>3. CASE CreateLane
    <3>1. PICK k \in human.left :
            lanes' = [lanes EXCEPT ![k] = IF @ < 2 THEN @ + 1 ELSE 2]
      BY <2>3 DEF CreateLane
    <3>2. lanes' \in [LaneKeys -> 0 .. 2]
      BY <3>1, CappedCount DEF Books
    <3>3. QED
      BY <2>3, <3>2 DEF CreateLane, ledger, worldVars, Books
  <2>4. CASE Human /\ ~HumanDecides /\ ~HumanMarks /\ ~CreateLane
    BY <2>4 DEF Human, Approve, Discard, Answer, TakeFromQueue, HumanWakes, Adopt,
       SaveAdopted, Resolve, SaveResolved, planVars, worldVars, ledger, Books
  <2>5. QED
    BY <1>2, <2>1, <2>2, <2>3, <2>4
<1>3. CASE World
  <2>1. ASSUME NEW q \in Questions, NEW k \in Kinds, File(q, k) PROVE Books'
    BY <2>1 DEF File, planVars, ledger, Books
  <2>2. CASE RunEnds \/ ChooseMode
    BY <2>2 DEF RunEnds, ChooseMode, planVars, worldVars, ledger, Books
  <2>3. QED
    BY <1>3, <2>1, <2>2 DEF World
<1>4. CASE TickDies
  BY <1>4 DEF TickDies, planVars, worldVars, Books
<1>5. CASE HumanDies
  BY <1>5 DEF HumanDies, planVars, worldVars, Books
<1>6. QED
  BY <1>1, <1>2, <1>3, <1>4, <1>5 DEF GovernanceNext

(* What the tick has read goes with its place.                             *)
LEMMA TickShapeStep == ASSUME TickShape, DocInv, GovernanceNext PROVE TickShape'
<1>1. CASE Tick
  <2>1. CASE TickBegins
    BY <2>1 DEF TickBegins, TickShape, Copying, TickAt, GoTick, Idle
  <2>2. CASE ConsumePlanner
    BY <2>2 DEF ConsumePlanner, TickShape, Copying, TickAt, GoTick, Idle
  <2>3. CASE SaveProposal
    BY <2>3 DEF SaveProposal, TickShape, Copying, TickAt, GoTick, Idle
  <2>4. CASE ConsumeChallenge
    BY <2>4 DEF ConsumeChallenge, TickShape, Copying, TickAt, GoTick, Idle
  <2>5. CASE ReadForFindings
    BY <2>5 DEF ReadForFindings, TickShape, Copying, DocInv
  <2>6. CASE SaveFindings
    BY <2>6 DEF SaveFindings, TickShape, Copying, TickAt, GoTick, Idle
  <2>7. CASE DispatchPlanner
    BY <2>7 DEF DispatchPlanner, TickShape, Copying, TickAt, GoTick, Idle
  <2>8. CASE NoPlanner
    BY <2>8 DEF NoPlanner, TickShape, Copying, TickAt, GoTick, Idle
  <2>9. CASE CountPlanner
    BY <2>9 DEF CountPlanner, TickShape, Copying, TickAt, GoTick, Idle
  <2>10. CASE KeyPlanner
    BY <2>10 DEF KeyPlanner, TickShape, Copying, TickAt, GoTick, Idle
  <2>11. CASE DispatchChallenge
    BY <2>11 DEF DispatchChallenge, ChallengeDue, Pending, TickShape, Copying, DocInv
  <2>12. CASE NoChallenge
    BY <2>12 DEF NoChallenge, TickShape, Copying, TickAt, GoTick, Idle
  <2>13. CASE KeyChallenge
    BY <2>13 DEF KeyChallenge, TickShape, Copying, TickAt, GoTick, Idle
  <2>14. CASE SaveReviewed
    BY <2>14 DEF SaveReviewed, TickShape, Copying, TickAt, GoTick, Idle
  <2>15. CASE SeatIdle
    BY <2>15 DEF SeatIdle, TickShape, Copying, TickAt, GoTick, Idle
  <2>16. CASE ConsumeTurn
    BY <2>16 DEF ConsumeTurn, TickShape, Copying, TickAt, GoTick, Idle
  <2>17. CASE ReadInbox
    <3>1. \/ \E todo : tick' = [at |-> "dispose", queue |-> tick.queue, todo |-> todo]
          \/ tick' = [at |-> "refuse"]
      BY <2>17, Zenon DEF ReadInbox
    <3>2. ASSUME NEW todo, tick' = [at |-> "dispose", queue |-> tick.queue, todo |-> todo]
          PROVE TickShape'
      BY <3>2 DEF TickShape, Copying
    <3>3. CASE tick' = [at |-> "refuse"]
      BY <3>3 DEF TickShape, Copying
    <3>4. QED
      BY <3>1, <3>2, <3>3
  <2>18. CASE CountRefusal
    BY <2>18 DEF CountRefusal, TickShape, Copying, TickAt, GoTick, Idle
  <2>19. CASE NoteScope
    BY <2>19 DEF NoteScope, TickShape, Copying, TickAt, GoTick, Idle
  <2>20. CASE QueueDirective
    BY <2>20 DEF QueueDirective, TickShape, Copying, TickAt, GoTick, Idle
  <2>21. CASE ApplyDirective
    <3>1. PICK q, todo : tick' = [at |-> "mark", q |-> q, queue |-> tick.queue, todo |-> todo]
      BY <2>21, Zenon DEF ApplyDirective
    <3>2. QED
      BY <3>1 DEF TickShape, Copying
  <2>22. CASE MarkApplied
    BY <2>22 DEF MarkApplied, TickShape, Copying, TickAt, GoTick, Idle
  <2>23. CASE WakeApplied
    BY <2>23 DEF WakeApplied, TickShape, Copying, TickAt, GoTick, Idle
  <2>24. CASE SaveQueue
    BY <2>24 DEF SaveQueue, TickShape, Copying, TickAt, GoTick, Idle
  <2>25. CASE ForgiveRefusals
    BY <2>25 DEF ForgiveRefusals, TickShape, Copying, TickAt, GoTick, Idle
  <2>26. CASE NewScope
    BY <2>26 DEF NewScope, TickShape, Copying, TickAt, GoTick, Idle
  <2>27. CASE NoTurn
    BY <2>27 DEF NoTurn, TickShape, Copying, TickAt, GoTick, Idle
  <2>28. CASE DispatchTurn
    BY <2>28 DEF DispatchTurn, TickShape, Copying, TickAt, GoTick, Idle
  <2>29. CASE DuplicateTurn
    BY <2>29 DEF DuplicateTurn, TickShape, Copying, TickAt, GoTick, Idle
  <2>30. CASE CountTurn
    BY <2>30 DEF CountTurn, TickShape, Copying, TickAt, GoTick, Idle
  <2>31. CASE KeyTurn
    BY <2>31 DEF KeyTurn, TickShape, Copying, TickAt, GoTick, Idle
  <2>32. QED
    BY <1>1, <2>1, <2>2, <2>3, <2>4, <2>5, <2>6, <2>7, <2>8, <2>9, <2>10, <2>11, <2>12, <2>13,
       <2>14, <2>15, <2>16, <2>17, <2>18, <2>19, <2>20, <2>21, <2>22, <2>23, <2>24, <2>25,
       <2>26, <2>27, <2>28, <2>29, <2>30, <2>31 DEF Tick
<1>2. CASE Human \/ World \/ HumanDies
  BY <1>2, TickApart DEF TickShape
<1>3. CASE TickDies
  BY <1>3 DEF TickDies, TickShape, Copying, Idle
<1>4. QED
  BY <1>1, <1>2, <1>3 DEF GovernanceNext

(* What the person has read goes with the place.                           *)
LEMMA HumanShapeStep == ASSUME HumanShape, DocInv, GovernanceNext PROVE HumanShape'
<1>1. CASE Human
  <2>1. ASSUME NEW q \in Questions, Approve(q) PROVE HumanShape'
    BY <2>1 DEF Approve, HumanShape, HumanAt, GoHuman, Idle
  <2>2. ASSUME NEW q \in Questions, Discard(q) PROVE HumanShape'
    BY <2>2 DEF Discard, HumanShape, HumanAt, GoHuman, Idle
  <2>3. ASSUME NEW q \in Questions, Answer(q) PROVE HumanShape'
    BY <2>3 DEF Answer, HumanShape, HumanAt, GoHuman, Idle
  <2>4. CASE TakeFromQueue
    BY <2>4 DEF TakeFromQueue, HumanShape, HumanAt, GoHuman, Idle
  <2>5. CASE HumanDecides
    BY <2>5 DEF HumanDecides, HumanShape, HumanAt, GoHuman, Idle
  <2>6. CASE HumanMarks
    BY <2>6 DEF HumanMarks, HumanShape, HumanAt, GoHuman, Idle
  <2>7. CASE HumanWakes
    BY <2>7 DEF HumanWakes, HumanShape, HumanAt, GoHuman, Idle
  <2>8. CASE Adopt
    BY <2>8 DEF Adopt, HumanShape, HumanAt, Pending, DocInv
  <2>9. CASE CreateLane
    BY <2>9 DEF CreateLane, HumanShape, HumanAt, GoHuman, Idle
  <2>10. CASE SaveAdopted
    BY <2>10 DEF SaveAdopted, HumanShape, HumanAt, GoHuman, Idle
  <2>11. ASSUME NEW f \in Findings, Resolve(f) PROVE HumanShape'
    BY <2>11 DEF Resolve, HumanShape, HumanAt, DocInv
  <2>12. CASE SaveResolved
    BY <2>12 DEF SaveResolved, HumanShape, HumanAt, GoHuman, Idle
  <2>13. QED
    BY <1>1, <2>1, <2>2, <2>3, <2>4, <2>5, <2>6, <2>7, <2>8, <2>9, <2>10, <2>11, <2>12 DEF Human
<1>2. CASE Tick \/ World \/ TickDies
  BY <1>2, HumanApart DEF HumanShape
<1>3. CASE HumanDies
  BY <1>3 DEF HumanDies, HumanShape, Idle
<1>4. QED
  BY <1>1, <1>2, <1>3 DEF GovernanceNext

LEMMA ShapesStep == ASSUME Shapes, DocInv, GovernanceNext PROVE Shapes'
BY CountersStep, BooksStep, TickShapeStep, HumanShapeStep DEF Shapes

--------------------------------------------------------------------------------
(* An answered question stays answered, and a torn one torn.               *)
LEMMA AnsweredStays ==
  ASSUME Books, GovernanceNext, NEW q \in Questions
  PROVE  /\ question[q].answered => question'[q].answered
         /\ q \in torn => q \in torn'
<1>1. CASE Tick
  <2>1. CASE MarkApplied
    BY <2>1 DEF MarkApplied, Mark, ledger, Books
  <2>2. CASE Tick /\ ~MarkApplied
    BY <2>2 DEF Tick, TickBegins, ConsumePlanner, SaveProposal, ConsumeChallenge,
       ReadForFindings, SaveFindings, DispatchPlanner, NoPlanner, CountPlanner, KeyPlanner,
       DispatchChallenge, NoChallenge, KeyChallenge, SaveReviewed, SeatIdle, ConsumeTurn,
       ReadInbox, CountRefusal, NoteScope, QueueDirective, ApplyDirective, WakeApplied,
       SaveQueue, ForgiveRefusals, NewScope, NoTurn, DispatchTurn, DuplicateTurn, CountTurn,
       KeyTurn, worldVars, ledger
  <2>3. QED
    BY <1>1, <2>1, <2>2
<1>2. CASE Human
  <2>1. CASE HumanMarks
    BY <2>1 DEF HumanMarks, Mark, ledger, Books
  <2>2. CASE Human /\ ~HumanMarks
    BY <2>2 DEF Human, Approve, Discard, Answer, TakeFromQueue, HumanDecides, HumanWakes,
       Adopt, CreateLane, SaveAdopted, Resolve, SaveResolved, worldVars, ledger
  <2>3. QED
    BY <1>2, <2>1, <2>2
<1>3. CASE World
  <2>1. ASSUME NEW r \in Questions, NEW k \in Kinds, File(r, k)
        PROVE  question[q].answered => question'[q].answered
    BY <2>1 DEF File, Books
  <2>2. CASE RunEnds \/ ChooseMode
    BY <2>2 DEF RunEnds, ChooseMode, worldVars, ledger
  <2>3. torn' = torn
    BY <1>3 DEF World, File, RunEnds, ChooseMode, ledger
  <2>4. QED
    BY <1>3, <2>1, <2>2, <2>3 DEF World
<1>4. CASE TickDies
  BY <1>4 DEF TickDies, worldVars
<1>5. CASE HumanDies
  BY <1>5 DEF HumanDies, worldVars
<1>6. QED
  BY <1>1, <1>2, <1>3, <1>4, <1>5 DEF GovernanceNext

(* Only a person's decision is an approval.                                *)
LEMMA OnlyPeopleApprove ==
  ASSUME GovernanceNext, ~HumanDecides PROVE approvals' = approvals
<1>1. CASE Tick
  <2>1. CASE ApplyDirective
    BY <2>1 DEF ApplyDirective, Decide
  <2>2. CASE Tick /\ ~ApplyDirective
    BY <2>2 DEF Tick, TickBegins, ConsumePlanner, SaveProposal, ConsumeChallenge,
       ReadForFindings, SaveFindings, DispatchPlanner, NoPlanner, CountPlanner, KeyPlanner,
       DispatchChallenge, NoChallenge, KeyChallenge, SaveReviewed, SeatIdle, ConsumeTurn,
       ReadInbox, CountRefusal, NoteScope, QueueDirective, MarkApplied, WakeApplied,
       SaveQueue, ForgiveRefusals, NewScope, NoTurn, DispatchTurn, DuplicateTurn, CountTurn,
       KeyTurn, ledger
  <2>3. QED
    BY <1>1, <2>1, <2>2
<1>2. CASE Human
  BY <1>2 DEF Human, Approve, Discard, Answer, TakeFromQueue, HumanMarks, HumanWakes, Adopt,
     CreateLane, SaveAdopted, Resolve, SaveResolved, ledger
<1>3. CASE World
  BY <1>3 DEF World, File, RunEnds, ChooseMode, ledger
<1>4. CASE TickDies \/ HumanDies
  BY <1>4 DEF TickDies, HumanDies
<1>5. QED
  BY <1>1, <1>2, <1>3, <1>4 DEF GovernanceNext

LEMMA CountIsOne ==
  ASSUME NEW n \in 0 .. 2 PROVE n = 0 => (IF n < 2 THEN n + 1 ELSE 2) = 1
OBVIOUS

(* The question an approval is applied to was not answered when it was read, *)
(* and nobody else approves it meanwhile.                                    *)
LEMMA ApprovalStep ==
  ASSUME Books, HumanShape, ApprovalInv, GovernanceNext PROVE ApprovalInv'
<1> SUFFICES ASSUME NEW q \in Questions
             PROVE  /\ approvals'[q] # 0 =>
                         \/ question'[q].answered \/ q \in torn'
                         \/ human'.at = "mark" /\ human'.q = q
                    /\ Approving(q)' => approvals'[q] = 0 \/ q \in torn'
                    /\ approvals'[q] = 2 => q \in torn'
  BY DEF ApprovalInv, HumanAt
<1> DEFINE Goal ==
      /\ approvals'[q] # 0 =>
           \/ question'[q].answered \/ q \in torn'
           \/ human'.at = "mark" /\ human'.q = q
      /\ Approving(q)' => approvals'[q] = 0 \/ q \in torn'
      /\ approvals'[q] = 2 => q \in torn'
<1>1. /\ question[q].answered => question'[q].answered
      /\ q \in torn => q \in torn'
  BY AnsweredStays
<1>2. /\ approvals[q] # 0 =>
           \/ question[q].answered \/ q \in torn
           \/ human.at = "mark" /\ human.q = q
      /\ Approving(q) => approvals[q] = 0 \/ q \in torn
      /\ approvals[q] = 2 => q \in torn
  BY DEF ApprovalInv, HumanAt
<1>3. ~HumanDecides => approvals' = approvals
  BY OnlyPeopleApprove
<1>4. CASE Tick \/ World \/ TickDies
  <2>1. human' = human /\ ~HumanDecides
    BY <1>4, HumanApart DEF HumanDecides, GoHuman, HumanAt, HumanShape
  <2>2. QED
    BY <2>1, <1>1, <1>2, <1>3 DEF Approving
<1>5. CASE HumanDies
  <2>1. human'.at = "idle" /\ ~HumanDecides
    BY <1>5 DEF HumanDies, HumanDecides, GoHuman, Idle, HumanAt, HumanShape
  <2>2. human.at = "mark" /\ human.q = q => q \in torn'
    BY <1>5 DEF HumanDies, HumanAt
  <2>3. QED
    BY <2>1, <2>2, <1>1, <1>2, <1>3 DEF Approving
<1>6. CASE Human
  <2>1. ASSUME NEW r \in Questions, Approve(r) PROVE Goal
    <3>1. ~HumanDecides /\ human.at = "idle"
      BY <2>1 DEF Approve, HumanDecides, HumanAt
    <3>2. /\ human'.at # "mark" /\ human'.at # "decide" /\ human'.q = r
          /\ human'.at = "approve" => ~question[r].answered
      BY <2>1 DEF Approve
    <3>3. QED
      BY <3>1, <3>2, <1>1, <1>2, <1>3 DEF Approving
  <2>2. ASSUME NEW r \in Questions, Discard(r) PROVE Goal
    <3>1. ~HumanDecides /\ human.at = "idle" /\ human'.at = "drop"
      BY <2>2 DEF Discard, HumanDecides, HumanAt
    <3>2. QED
      BY <3>1, <1>1, <1>2, <1>3 DEF Approving
  <2>3. ASSUME NEW r \in Questions, Answer(r) PROVE Goal
    <3>1. /\ ~HumanDecides /\ human.at = "idle"
          /\ human'.at = "decide" /\ human'.by = "owner"
      BY <2>3 DEF Answer, HumanDecides, HumanAt
    <3>2. QED
      BY <3>1, <1>1, <1>2, <1>3 DEF Approving
  <2>4. CASE TakeFromQueue
    <3>1. ~HumanDecides /\ human.at \in {"drop", "approve"}
      BY <2>4 DEF TakeFromQueue, HumanDecides, HumanAt
    <3>2. \/ human'.at = "idle"
          \/ human.at = "approve" /\ human'.at = "decide" /\ human'.q = human.q
      BY <2>4 DEF TakeFromQueue, HumanAt, Idle
    <3>3. QED
      BY <3>1, <3>2, <1>1, <1>2, <1>3 DEF Approving
  <2>5. CASE HumanDecides
    <3>1. /\ human.at = "decide" /\ human'.at = "mark" /\ human'.q = human.q
          /\ human.q \in Questions
      BY <2>5 DEF HumanDecides, HumanAt, GoHuman, HumanShape
    <3>2. CASE human.by # "approval" \/ human.q # q
      <4>1. approvals'[q] = approvals[q]
        BY <2>5, <3>2 DEF HumanDecides, Decide, Books
      <4>2. QED
        BY <4>1, <3>1, <1>1, <1>2 DEF Approving
    <3>3. CASE human.by = "approval" /\ human.q = q
      <4>1. approvals[q] = 0 \/ q \in torn
        BY <3>1, <3>3, <1>2 DEF Approving
      <4>2. approvals'[q] = IF approvals[q] < 2 THEN approvals[q] + 1 ELSE 2
        BY <2>5, <3>3 DEF HumanDecides, Decide, Books
      <4>3. approvals[q] \in 0 .. 2
        BY DEF Books
      <4>4. approvals[q] = 0 => approvals'[q] = 1
        BY <4>2, <4>3, CountIsOne
      <4>5. QED
        BY <4>1, <4>4, <3>1, <3>3, <1>1 DEF Approving
    <3>4. QED
      BY <3>2, <3>3
  <2>6. CASE HumanMarks
    <3>1. /\ ~HumanDecides /\ human.at = "mark" /\ human'.at = "wake"
      BY <2>6 DEF HumanMarks, HumanDecides, HumanAt, GoHuman, HumanShape
    <3>2. human.q = q => question'[q].answered
      BY <2>6 DEF HumanMarks, Mark, Books
    <3>3. QED
      BY <3>1, <3>2, <1>1, <1>2, <1>3 DEF Approving
  <2>7. CASE HumanWakes \/ SaveAdopted \/ SaveResolved
    <3>1. ~HumanDecides /\ human.at # "mark" /\ human'.at = "idle"
      <4>1. CASE HumanWakes
        BY <4>1 DEF HumanWakes, HumanDecides, HumanAt, Idle
      <4>2. CASE SaveAdopted
        BY <4>2 DEF SaveAdopted, HumanDecides, HumanAt, Idle
      <4>3. CASE SaveResolved
        BY <4>3 DEF SaveResolved, HumanDecides, HumanAt, Idle
      <4>4. QED
        BY <2>7, <4>1, <4>2, <4>3
    <3>2. QED
      BY <3>1, <1>1, <1>2, <1>3 DEF Approving
  <2>8. CASE Adopt
    <3>1. ~HumanDecides /\ human.at = "idle" /\ human'.at = "create lanes"
      BY <2>8 DEF Adopt, HumanDecides, HumanAt
    <3>2. QED
      BY <3>1, <1>1, <1>2, <1>3 DEF Approving
  <2>9. CASE CreateLane
    <3>1. ~HumanDecides /\ human.at = "create lanes" /\ human'.at = "create lanes"
      BY <2>9 DEF CreateLane, HumanDecides, HumanAt, HumanShape
    <3>2. QED
      BY <3>1, <1>1, <1>2, <1>3 DEF Approving
  <2>10. ASSUME NEW f \in Findings, Resolve(f) PROVE Goal
    <3>1. ~HumanDecides /\ human.at = "idle" /\ human'.at = "save resolved"
      BY <2>10 DEF Resolve, HumanDecides, HumanAt
    <3>2. QED
      BY <3>1, <1>1, <1>2, <1>3 DEF Approving
  <2>11. QED
    BY <1>6, <2>1, <2>2, <2>3, <2>4, <2>5, <2>6, <2>7, <2>8, <2>9, <2>10 DEF Human
<1>7. QED
  BY <1>4, <1>5, <1>6 DEF GovernanceNext

--------------------------------------------------------------------------------
LEMMA ProposalIsSome == NoDoc \notin Proposals
BY DEF NoDoc, Proposals

(* A planner is dispatched, and its proposal saved, only while there is no *)
(* document; whoever holds a copy read one.                                *)
LEMMA DocStep ==
  ASSUME Counters, TickShape, HumanShape, DocInv, GovernanceNext PROVE DocInv'
<1>1. CASE Tick
  <2>1. CASE TickBegins
    BY <2>1 DEF TickBegins, DocInv, Planning, Copying, TickShape, HumanShape, TickAt,
       GoTick, Idle, planVars
  <2>2. CASE ConsumePlanner
    BY <2>2 DEF ConsumePlanner, DocInv, Planning, Copying, TickShape, HumanShape, TickAt,
       GoTick, Idle, planVars
  <2>3. CASE SaveProposal
    <3>1. doc' \in Proposals
      <4>1. PICK status \in {"PENDING", "REFUSED"} : doc' = FreshDoc(status)
        BY <2>3 DEF SaveProposal
      <4>2. FreshDoc(status) \in Proposals
        BY DEF FreshDoc, Proposals, Counters
      <4>3. QED
        BY <4>1, <4>2
    <3>2. /\ planner' = "none" /\ tick'.at = "challenge"
          /\ human' = human
      BY <2>3 DEF SaveProposal, DocInv, TickAt, GoTick, TickShape
    <3>3. QED
      BY <3>1, <3>2, ProposalIsSome DEF DocInv, Planning, Copying
  <2>4. CASE ConsumeChallenge
    BY <2>4 DEF ConsumeChallenge, DocInv, Planning, Copying, TickShape, HumanShape, TickAt,
       GoTick, Idle, planVars
  <2>5. CASE ReadForFindings
    BY <2>5 DEF ReadForFindings, DocInv, Planning, Copying, TickShape, HumanShape, TickAt,
       GoTick, Idle, planVars
  <2>6. CASE SaveFindings
    <3>1. PICK f \in SUBSET Findings :
            doc' = [tick.copy EXCEPT !.found = @ \cup f, !.open = @ \cup f]
      BY <2>6 DEF SaveFindings, SaveDoc
    <3>2. tick.copy \in Proposals
      BY <2>6 DEF SaveFindings, TickAt, TickShape, Copying
    <3>3. doc' \in Proposals
      BY <3>1, <3>2 DEF Proposals
    <3>4. /\ ~Planning /\ planner' = planner /\ human' = human
          /\ tick'.at = "dispatch planner"
      BY <2>6 DEF SaveFindings, TickAt, DocInv, Copying
    <3>5. QED
      BY <3>3, <3>4, ProposalIsSome DEF DocInv, Planning, Copying
  <2>7. CASE DispatchPlanner
    BY <2>7 DEF DispatchPlanner, PlannerDue, DocInv, Planning, Copying, TickShape,
       HumanShape, TickAt, GoTick, Idle, planVars
  <2>8. CASE NoPlanner
    BY <2>8 DEF NoPlanner, DocInv, Planning, Copying, TickShape, HumanShape, TickAt, GoTick,
       Idle, planVars
  <2>9. CASE CountPlanner
    BY <2>9 DEF CountPlanner, DocInv, Planning, Copying, TickShape, HumanShape, TickAt,
       GoTick, Idle, planVars
  <2>10. CASE KeyPlanner
    BY <2>10 DEF KeyPlanner, DocInv, Planning, Copying, TickShape, HumanShape, TickAt,
       GoTick, Idle, planVars
  <2>11. CASE DispatchChallenge
    BY <2>11 DEF DispatchChallenge, ChallengeDue, Pending, DocInv, Planning, Copying,
       TickShape, HumanShape, TickAt, GoTick, Idle, planVars
  <2>12. CASE NoChallenge
    BY <2>12 DEF NoChallenge, DocInv, Planning, Copying, TickShape, HumanShape, TickAt,
       GoTick, Idle, planVars
  <2>13. CASE KeyChallenge
    BY <2>13 DEF KeyChallenge, DocInv, Planning, Copying, TickShape, HumanShape, TickAt,
       GoTick, Idle, planVars
  <2>14. CASE SaveReviewed
    BY <2>14, ProposalIsSome DEF SaveReviewed, SaveDoc, Proposals, DocInv, Planning, Copying,
       TickShape, TickAt
  <2>15. CASE SeatIdle
    BY <2>15 DEF SeatIdle, DocInv, Planning, Copying, TickShape, HumanShape, TickAt, GoTick,
       Idle, planVars
  <2>16. CASE ConsumeTurn
    BY <2>16 DEF ConsumeTurn, DocInv, Planning, Copying, TickShape, HumanShape, TickAt,
       GoTick, Idle, planVars
  <2>17. CASE ReadInbox
    <3>1. /\ TickAt("inbox") /\ UNCHANGED <<planner, doc, human>>
          /\ \/ \E todo : tick' = [at |-> "dispose", queue |-> tick.queue, todo |-> todo]
             \/ tick' = [at |-> "refuse"]
      BY <2>17, Zenon DEF ReadInbox, planVars
    <3>2. ASSUME NEW todo, tick' = [at |-> "dispose", queue |-> tick.queue, todo |-> todo]
          PROVE DocInv'
      BY <3>1, <3>2 DEF DocInv, Planning, Copying
    <3>3. CASE tick' = [at |-> "refuse"]
      BY <3>1, <3>3 DEF DocInv, Planning, Copying
    <3>4. QED
      BY <3>1, <3>2, <3>3
  <2>18. CASE CountRefusal
    BY <2>18 DEF CountRefusal, DocInv, Planning, Copying, TickShape, HumanShape, TickAt,
       GoTick, Idle, planVars
  <2>19. CASE NoteScope
    BY <2>19 DEF NoteScope, DocInv, Planning, Copying, TickShape, HumanShape, TickAt,
       GoTick, Idle, planVars
  <2>20. CASE QueueDirective
    BY <2>20 DEF QueueDirective, DocInv, Planning, Copying, TickShape, HumanShape, TickAt,
       GoTick, Idle, planVars
  <2>21. CASE ApplyDirective
    <3>1. PICK q, todo : tick' = [at |-> "mark", q |-> q, queue |-> tick.queue, todo |-> todo]
      BY <2>21, Zenon DEF ApplyDirective
    <3>2. UNCHANGED <<planner, doc, human>>
      BY <2>21, Zenon DEF ApplyDirective, planVars
    <3>3. QED
      BY <3>1, <3>2 DEF DocInv, Planning, Copying
  <2>22. CASE MarkApplied
    BY <2>22 DEF MarkApplied, DocInv, Planning, Copying, TickShape, HumanShape, TickAt,
       GoTick, Idle, planVars
  <2>23. CASE WakeApplied
    BY <2>23 DEF WakeApplied, DocInv, Planning, Copying, TickShape, HumanShape, TickAt,
       GoTick, Idle, planVars
  <2>24. CASE SaveQueue
    BY <2>24 DEF SaveQueue, DocInv, Planning, Copying, TickShape, HumanShape, TickAt,
       GoTick, Idle, planVars
  <2>25. CASE ForgiveRefusals
    BY <2>25 DEF ForgiveRefusals, DocInv, Planning, Copying, TickShape, HumanShape, TickAt,
       GoTick, Idle, planVars
  <2>26. CASE NewScope
    BY <2>26 DEF NewScope, DocInv, Planning, Copying, TickShape, HumanShape, TickAt, GoTick,
       Idle, planVars
  <2>27. CASE NoTurn
    BY <2>27 DEF NoTurn, DocInv, Planning, Copying, TickShape, HumanShape, TickAt, GoTick,
       Idle, planVars
  <2>28. CASE DispatchTurn
    BY <2>28 DEF DispatchTurn, DocInv, Planning, Copying, TickShape, HumanShape, TickAt,
       GoTick, Idle, planVars
  <2>29. CASE DuplicateTurn
    BY <2>29 DEF DuplicateTurn, DocInv, Planning, Copying, TickShape, HumanShape, TickAt,
       GoTick, Idle, planVars
  <2>30. CASE CountTurn
    BY <2>30 DEF CountTurn, DocInv, Planning, Copying, TickShape, HumanShape, TickAt,
       GoTick, Idle, planVars
  <2>31. CASE KeyTurn
    BY <2>31 DEF KeyTurn, DocInv, Planning, Copying, TickShape, HumanShape, TickAt, GoTick,
       Idle, planVars
  <2>32. QED
    BY <1>1, <2>1, <2>2, <2>3, <2>4, <2>5, <2>6, <2>7, <2>8, <2>9, <2>10, <2>11, <2>12, <2>13,
       <2>14, <2>15, <2>16, <2>17, <2>18, <2>19, <2>20, <2>21, <2>22, <2>23, <2>24, <2>25,
       <2>26, <2>27, <2>28, <2>29, <2>30, <2>31 DEF Tick
<1>2. CASE Human
  <2>1. ASSUME NEW q \in Questions, Approve(q) PROVE DocInv'
    BY <2>1 DEF Approve, DocInv, Planning, Copying, HumanShape, HumanAt, GoHuman, Idle,
       planVars
  <2>2. ASSUME NEW q \in Questions, Discard(q) PROVE DocInv'
    BY <2>2 DEF Discard, DocInv, Planning, Copying, HumanShape, HumanAt, GoHuman, Idle,
       planVars
  <2>3. ASSUME NEW q \in Questions, Answer(q) PROVE DocInv'
    BY <2>3 DEF Answer, DocInv, Planning, Copying, HumanShape, HumanAt, GoHuman, Idle,
       planVars
  <2>4. CASE TakeFromQueue
    BY <2>4 DEF TakeFromQueue, DocInv, Planning, Copying, HumanShape, HumanAt, GoHuman,
       Idle, planVars
  <2>5. CASE HumanDecides
    BY <2>5 DEF HumanDecides, DocInv, Planning, Copying, HumanShape, HumanAt, GoHuman, Idle,
       planVars
  <2>6. CASE HumanMarks
    BY <2>6 DEF HumanMarks, DocInv, Planning, Copying, HumanShape, HumanAt, GoHuman, Idle,
       planVars
  <2>7. CASE HumanWakes
    BY <2>7 DEF HumanWakes, DocInv, Planning, Copying, HumanShape, HumanAt, GoHuman, Idle,
       planVars
  <2>8. CASE Adopt
    BY <2>8 DEF Adopt, Pending, DocInv, Planning, Copying, HumanShape, HumanAt, GoHuman,
       Idle, planVars
  <2>9. CASE CreateLane
    BY <2>9 DEF CreateLane, DocInv, Planning, Copying, HumanShape, HumanAt, GoHuman, Idle,
       planVars
  <2>10. CASE SaveAdopted
    BY <2>10, ProposalIsSome DEF SaveAdopted, SaveDoc, Proposals, DocInv, Planning, Copying,
       HumanShape, HumanAt, Idle
  <2>11. ASSUME NEW f \in Findings, Resolve(f) PROVE DocInv'
    BY <2>11 DEF Resolve, DocInv, Planning, Copying, HumanShape, HumanAt, GoHuman, Idle,
       planVars
  <2>12. CASE SaveResolved
    <3>1. PICK p \in Proposals : p = human.copy
      BY <2>12 DEF SaveResolved, HumanShape, HumanAt
    <3>2. [p EXCEPT !.open = @ \ {human.finding}] \in Proposals
      BY DEF Proposals
    <3>3. doc' \in Proposals /\ doc' # NoDoc
      BY <2>12, <3>1, <3>2, ProposalIsSome DEF SaveResolved, SaveDoc
    <3>4. doc # NoDoc /\ planner' = planner /\ tick' = tick /\ human' = Idle
      BY <2>12 DEF SaveResolved, HumanAt, DocInv
    <3> QED BY <3>3, <3>4 DEF DocInv, Planning, Copying, Idle
  <2>13. QED
    BY <1>2, <2>1, <2>2, <2>3, <2>4, <2>5, <2>6, <2>7, <2>8, <2>9, <2>10, <2>11, <2>12 DEF Human
<1>3. CASE World
  <2>1. ASSUME NEW q \in Questions, NEW k \in Kinds, File(q, k) PROVE DocInv'
    BY <2>1 DEF File, DocInv, Planning, planVars
  <2>2. CASE RunEnds
    BY <2>2 DEF RunEnds, DocInv, Planning
  <2>3. CASE ChooseMode
    BY <2>3 DEF ChooseMode, DocInv, Planning, planVars
  <2>4. QED
    BY <1>3, <2>1, <2>2, <2>3 DEF World
<1>4. CASE TickDies
  BY <1>4 DEF TickDies, DocInv, Planning, Copying, Idle, planVars
<1>5. CASE HumanDies
  BY <1>5 DEF HumanDies, DocInv, Planning, Idle, planVars
<1>6. QED
  BY <1>1, <1>2, <1>3, <1>4, <1>5 DEF GovernanceNext

--------------------------------------------------------------------------------
(* A saved document is the copy, edited, or the save made it stale.        *)
LEMMA SavedFromCopy ==
  ASSUME NEW copy, NEW new, SaveDoc(copy, new), stale \in BOOLEAN
  PROVE  doc' = new /\ (stale' \/ (~stale /\ doc = copy))
BY DEF SaveDoc

(* A save that keeps the status of a document that is no older keeps what  *)
(* the lanes stand under.                                                  *)
LEMMA SameStatusKeepsLanes ==
  ASSUME LanesInv, lanes' = lanes, human'.at # "create lanes",
         stale' \/ (~stale /\ doc'.status = doc.status /\ human.at # "create lanes")
  PROVE  LanesInv'
BY DEF LanesInv, HumanAt

(* No step but the creation of lanes, its start and the saves of a document *)
(* touches what LanesInv is about.                                          *)
LEMMA LanesLeftAlone ==
  ASSUME GovernanceNext, ~SaveProposal, ~SaveFindings, ~SaveReviewed, ~Human, ~HumanDies
  PROVE  UNCHANGED <<doc, lanes, stale, human>>
<1>1. CASE Tick
  <2>1. human' = human
    BY <1>1, HumanApart
  <2>2. UNCHANGED <<doc, lanes, stale>>
    BY <1>1 DEF Tick, TickBegins, ConsumePlanner, ConsumeChallenge, ReadForFindings,
       DispatchPlanner, NoPlanner, CountPlanner, KeyPlanner, DispatchChallenge, NoChallenge,
       KeyChallenge, SeatIdle, ConsumeTurn, ReadInbox, CountRefusal, NoteScope,
       QueueDirective, ApplyDirective, MarkApplied, WakeApplied, SaveQueue, ForgiveRefusals,
       NewScope, NoTurn, DispatchTurn, DuplicateTurn, CountTurn, KeyTurn, planVars, ledger
  <2>3. QED
    BY <2>1, <2>2
<1>2. CASE World
  BY <1>2 DEF World, File, RunEnds, ChooseMode, planVars, ledger
<1>3. CASE TickDies
  BY <1>3 DEF TickDies, planVars
<1>4. QED
  BY <1>1, <1>2, <1>3 DEF GovernanceNext

(* Lanes are created by one adoption, of a pending plan: under a pending    *)
(* plan there are none, and an adopted one does not become pending again.   *)
LEMMA LanesStep ==
  ASSUME Counters, Books, TickShape, HumanShape, DocInv, LanesInv, GovernanceNext PROVE LanesInv'
<1>1. CASE SaveProposal
  <2>1. doc = NoDoc /\ human.at # "create lanes"
    BY <1>1 DEF SaveProposal, TickAt, DocInv, Planning
  <2>2. UNCHANGED <<lanes, stale, human>>
    BY <1>1 DEF SaveProposal, ledger
  <2>3. ASSUME ~stale, NEW k \in LaneKeys PROVE lanes[k] = 0
    BY <2>1, <2>3 DEF LanesInv, NoDoc, HumanAt
  <2>4. QED
    BY <2>1, <2>2, <2>3 DEF LanesInv, HumanAt, Counters
<1>2. CASE SaveFindings
  <2>1. PICK f \in SUBSET Findings :
          SaveDoc(tick.copy, [tick.copy EXCEPT !.found = @ \cup f, !.open = @ \cup f])
    BY <1>2 DEF SaveFindings
  <2>2. tick.copy \in Proposals
    BY <1>2 DEF SaveFindings, TickAt, TickShape, Copying
  <2>3. /\ doc' = [tick.copy EXCEPT !.found = @ \cup f, !.open = @ \cup f]
        /\ stale' \/ (~stale /\ doc = tick.copy)
    BY <2>1, SavedFromCopy DEF Counters
  <2>4. doc'.status = tick.copy.status
    BY <2>2, <2>3 DEF Proposals
  <2>5. UNCHANGED <<lanes, human>>
    BY <1>2 DEF SaveFindings
  <2>6. QED
    BY <2>3, <2>4, <2>5 DEF LanesInv, HumanAt
<1>3. CASE SaveReviewed
  <2>1. tick.copy \in Proposals
    BY <1>3 DEF SaveReviewed, TickAt, TickShape, Copying
  <2>2. /\ doc' = [tick.copy EXCEPT !.reviewed = TRUE]
        /\ stale' \/ (~stale /\ doc = tick.copy)
    BY <1>3, SavedFromCopy DEF SaveReviewed, Counters
  <2>3. doc'.status = tick.copy.status
    BY <2>1, <2>2 DEF Proposals
  <2>4. UNCHANGED <<lanes, human>>
    BY <1>3 DEF SaveReviewed
  <2>5. QED
    BY <2>2, <2>3, <2>4 DEF LanesInv, HumanAt
<1>4. CASE Adopt
  <2>1. /\ doc.status = "PENDING" /\ human.at = "idle"
        /\ human'.at = "create lanes" /\ UNCHANGED <<doc, lanes, stale>>
    BY <1>4 DEF Adopt, Pending, HumanAt, planVars, ledger
  <2>2. QED
    BY <2>1 DEF LanesInv, HumanAt
<1>5. CASE CreateLane
  <2>1. PICK k \in human.left :
          /\ lanes' = [lanes EXCEPT ![k] = IF @ < 2 THEN @ + 1 ELSE 2]
          /\ human' = [human EXCEPT !.left = @ \ {k}]
    BY <1>5 DEF CreateLane
  <2>2. /\ human.at = "create lanes" /\ human'.at = "create lanes"
        /\ human'.left = human.left \ {k}
    BY <1>5, <2>1 DEF CreateLane, HumanAt, HumanShape
  <2>3. stale' = stale
    BY <1>5 DEF CreateLane, ledger
  <2>4. ASSUME ~stale, NEW j \in LaneKeys
        PROVE  lanes'[j] # 2 /\ (j \in human'.left => lanes'[j] = 0)
    <3>1. CASE j # k
      BY <2>1, <2>2, <2>4, <3>1 DEF LanesInv, HumanAt, Books
    <3>2. CASE j = k
      <4>1. lanes[j] = 0
        BY <2>2, <2>4, <3>2 DEF LanesInv, HumanAt
      <4>2. lanes'[j] = IF lanes[j] < 2 THEN lanes[j] + 1 ELSE 2
        BY <2>1, <3>2 DEF Books
      <4>3. lanes'[j] = 1
        BY <4>1, <4>2
      <4>4. lanes'[j] # 2
        BY <4>3
      <4>5. QED
        BY <4>4, <2>2, <3>2
    <3>3. QED
      BY <3>1, <3>2
  <2>5. QED
    BY <2>2, <2>3, <2>4 DEF LanesInv, HumanAt, Counters
<1>6. CASE SaveAdopted
  <2>1. human.at = "create lanes" /\ human.copy \in Proposals /\ human'.at = "idle"
    BY <1>6 DEF SaveAdopted, HumanAt, HumanShape, Idle
  <2>2. /\ doc' = [human.copy EXCEPT !.status = "ADOPTED"]
        /\ stale' \/ ~stale
    BY <1>6, SavedFromCopy DEF SaveAdopted, Counters
  <2>3. doc'.status = "ADOPTED" /\ lanes' = lanes
    BY <1>6, <2>1, <2>2 DEF SaveAdopted, Proposals
  <2>4. QED
    BY <2>1, <2>2, <2>3 DEF LanesInv, HumanAt
<1>7. CASE SaveResolved
  <2>1. human.at = "save resolved" /\ human.copy \in Proposals /\ human'.at = "idle"
    BY <1>7 DEF SaveResolved, HumanAt, HumanShape, Idle
  <2>2. /\ doc' = [human.copy EXCEPT !.open = @ \ {human.finding}]
        /\ stale' \/ (~stale /\ doc = human.copy)
    BY <1>7, SavedFromCopy DEF SaveResolved, Counters
  <2>3. doc'.status = human.copy.status /\ lanes' = lanes
    BY <1>7, <2>1, <2>2 DEF SaveResolved, Proposals
  <2>4. QED
    BY <2>1, <2>2, <2>3, SameStatusKeepsLanes
<1>8. CASE HumanDies
  <2>1. stale' = (stale \/ human.at = "create lanes")
    BY <1>8 DEF HumanDies, HumanAt
  <2>2. human'.at = "idle" /\ UNCHANGED <<doc, lanes>>
    BY <1>8 DEF HumanDies, Idle, planVars
  <2>3. QED
    BY <2>1, <2>2 DEF LanesInv, HumanAt
<1>9. CASE Human /\ ~CreateLane /\ ~SaveAdopted /\ ~SaveResolved /\ ~Adopt
  <2>1. UNCHANGED <<doc, lanes, stale>>
    BY <1>9 DEF Human, Approve, Discard, Answer, TakeFromQueue, HumanDecides, HumanMarks,
       HumanWakes, Resolve, planVars, ledger
  <2>2. human.at # "create lanes" /\ human'.at # "create lanes"
    <3>1. ASSUME NEW q \in Questions, Approve(q)
          PROVE  human.at = "idle" /\ human'.at # "create lanes"
      BY <3>1 DEF Approve, HumanAt
    <3>2. ASSUME NEW q \in Questions, Discard(q)
          PROVE  human.at = "idle" /\ human'.at # "create lanes"
      BY <3>2 DEF Discard, HumanAt
    <3>3. ASSUME NEW q \in Questions, Answer(q)
          PROVE  human.at = "idle" /\ human'.at # "create lanes"
      BY <3>3 DEF Answer, HumanAt
    <3>4. CASE TakeFromQueue
      BY <3>4 DEF TakeFromQueue, HumanAt, Idle
    <3>5. CASE HumanDecides
      BY <3>5 DEF HumanDecides, HumanAt, GoHuman, HumanShape
    <3>6. CASE HumanMarks
      BY <3>6 DEF HumanMarks, HumanAt, GoHuman, HumanShape
    <3>7. CASE HumanWakes
      BY <3>7 DEF HumanWakes, HumanAt, Idle
    <3>8. ASSUME NEW f \in Findings, Resolve(f)
          PROVE  human.at = "idle" /\ human'.at # "create lanes"
      BY <3>8 DEF Resolve, HumanAt
    <3>9. QED
      BY <1>9, <3>1, <3>2, <3>3, <3>4, <3>5, <3>6, <3>7, <3>8 DEF Human
  <2>3. QED
    BY <2>1, <2>2 DEF LanesInv, HumanAt
<1>10. CASE ~SaveProposal /\ ~SaveFindings /\ ~SaveReviewed /\ ~Human /\ ~HumanDies
  <2>1. UNCHANGED <<doc, lanes, stale, human>>
    BY <1>10, LanesLeftAlone
  <2>2. QED
    BY <2>1 DEF LanesInv, HumanAt
<1>11. QED
  BY <1>1, <1>2, <1>3, <1>4, <1>5, <1>6, <1>7, <1>8, <1>9, <1>10

--------------------------------------------------------------------------------
(* A step that neither counts a turn nor dispatches one.                   *)
Quiet ==
  /\ UNCHANGED <<refusals, scope, crashes>>
  /\ OnItsWay' <=> OnItsWay
  /\ (InHand => turn = "none") => (InHand' => turn' = "none")
  /\ tick' # tick => tick.at # "refusal scope" /\ tick'.at # "refusal scope"
  /\ tick.at = "budget" => tick'.at # "turn attempt"

(* Of the steps of a tick, five are not.                                   *)
LEMMA TickIsQuiet ==
  ASSUME TickShape, Tick, ~CountRefusal, ~NoteScope, ~ForgiveRefusals, ~NewScope, ~DispatchTurn
  PROVE  Quiet
<1> USE DEF Tick
<1>1. CASE Tick
  <2>1. CASE TickBegins
    BY <2>1 DEF TickBegins, Quiet, OnItsWay, InHand, TickShape, TickAt, GoTick, Idle,
       seatVars
  <2>2. CASE ConsumePlanner
    BY <2>2 DEF ConsumePlanner, Quiet, OnItsWay, InHand, TickShape, TickAt, GoTick, Idle,
       seatVars
  <2>3. CASE SaveProposal
    BY <2>3 DEF SaveProposal, Quiet, OnItsWay, InHand, TickShape, TickAt, GoTick, Idle,
       seatVars
  <2>4. CASE ConsumeChallenge
    BY <2>4 DEF ConsumeChallenge, Quiet, OnItsWay, InHand, TickShape, TickAt, GoTick, Idle,
       seatVars
  <2>5. CASE ReadForFindings
    BY <2>5 DEF ReadForFindings, Quiet, OnItsWay, InHand, TickShape, TickAt, GoTick, Idle,
       seatVars
  <2>6. CASE SaveFindings
    BY <2>6 DEF SaveFindings, Quiet, OnItsWay, InHand, TickShape, TickAt, GoTick, Idle,
       seatVars
  <2>7. CASE DispatchPlanner
    BY <2>7 DEF DispatchPlanner, Quiet, OnItsWay, InHand, TickShape, TickAt, GoTick, Idle,
       seatVars
  <2>8. CASE NoPlanner
    BY <2>8 DEF NoPlanner, Quiet, OnItsWay, InHand, TickShape, TickAt, GoTick, Idle,
       seatVars
  <2>9. CASE CountPlanner
    BY <2>9 DEF CountPlanner, Quiet, OnItsWay, InHand, TickShape, TickAt, GoTick, Idle,
       seatVars
  <2>10. CASE KeyPlanner
    BY <2>10 DEF KeyPlanner, Quiet, OnItsWay, InHand, TickShape, TickAt, GoTick, Idle,
       seatVars
  <2>11. CASE DispatchChallenge
    BY <2>11 DEF DispatchChallenge, Quiet, OnItsWay, InHand, TickShape, TickAt, GoTick,
       Idle, seatVars
  <2>12. CASE NoChallenge
    BY <2>12 DEF NoChallenge, Quiet, OnItsWay, InHand, TickShape, TickAt, GoTick, Idle,
       seatVars
  <2>13. CASE KeyChallenge
    BY <2>13 DEF KeyChallenge, Quiet, OnItsWay, InHand, TickShape, TickAt, GoTick, Idle,
       seatVars
  <2>14. CASE SaveReviewed
    BY <2>14 DEF SaveReviewed, Quiet, OnItsWay, InHand, TickShape, TickAt, GoTick, Idle,
       seatVars
  <2>15. CASE SeatIdle
    BY <2>15 DEF SeatIdle, Quiet, OnItsWay, InHand, TickShape, TickAt, GoTick, Idle,
       seatVars
  <2>16. CASE ConsumeTurn
    BY <2>16 DEF ConsumeTurn, Quiet, OnItsWay, InHand, TickShape, TickAt, GoTick, Idle,
       seatVars
  <2>17. CASE ReadInbox
    <3>1. /\ TickAt("inbox") /\ UNCHANGED <<refusals, scope, crashes, turn>>
          /\ \/ \E todo : tick' = [at |-> "dispose", queue |-> tick.queue, todo |-> todo]
             \/ tick' = [at |-> "refuse"]
      BY <2>17, Zenon DEF ReadInbox, seatVars
    <3>2. ASSUME NEW todo, tick' = [at |-> "dispose", queue |-> tick.queue, todo |-> todo]
          PROVE Quiet
      BY <3>1, <3>2 DEF Quiet, OnItsWay, InHand, TickAt
    <3>3. CASE tick' = [at |-> "refuse"]
      BY <3>1, <3>3 DEF Quiet, OnItsWay, InHand, TickAt
    <3>4. QED
      BY <3>1, <3>2, <3>3
  <2>18. CASE QueueDirective
    BY <2>18 DEF QueueDirective, Quiet, OnItsWay, InHand, TickShape, TickAt, GoTick, Idle,
       seatVars
  <2>19. CASE ApplyDirective
    <3>1. PICK q, todo : tick' = [at |-> "mark", q |-> q, queue |-> tick.queue, todo |-> todo]
      BY <2>19, Zenon DEF ApplyDirective
    <3>2. TickAt("dispose") /\ UNCHANGED <<refusals, scope, crashes, turn>>
      BY <2>19, Zenon DEF ApplyDirective, seatVars
    <3>3. QED
      BY <3>1, <3>2 DEF Quiet, OnItsWay, InHand, TickAt
  <2>20. CASE MarkApplied
    BY <2>20 DEF MarkApplied, Quiet, OnItsWay, InHand, TickShape, TickAt, GoTick, Idle,
       seatVars
  <2>21. CASE WakeApplied
    BY <2>21 DEF WakeApplied, Quiet, OnItsWay, InHand, TickShape, TickAt, GoTick, Idle,
       seatVars
  <2>22. CASE SaveQueue
    BY <2>22 DEF SaveQueue, Quiet, OnItsWay, InHand, TickShape, TickAt, GoTick, Idle,
       seatVars
  <2>23. CASE NoTurn
    BY <2>23 DEF NoTurn, Quiet, OnItsWay, InHand, TickShape, TickAt, GoTick, Idle, seatVars
  <2>24. CASE DuplicateTurn
    BY <2>24 DEF DuplicateTurn, Quiet, OnItsWay, InHand, TickShape, TickAt, GoTick, Idle,
       seatVars
  <2>25. CASE CountTurn
    BY <2>25 DEF CountTurn, Quiet, OnItsWay, InHand, TickShape, TickAt, GoTick, Idle,
       seatVars
  <2>26. CASE KeyTurn
    BY <2>26 DEF KeyTurn, Quiet, OnItsWay, InHand, TickShape, TickAt, GoTick, Idle, seatVars
  <2>27. QED
    BY <1>1, <2>1, <2>2, <2>3, <2>4, <2>5, <2>6, <2>7, <2>8, <2>9, <2>10, <2>11, <2>12, <2>13,
       <2>14, <2>15, <2>16, <2>17, <2>18, <2>19, <2>20, <2>21, <2>22, <2>23, <2>24, <2>25,
       <2>26 DEF Tick
<1>2. QED
  BY <1>1

LEMMA OthersAreQuiet == ASSUME Human \/ World PROVE Quiet
<1>1. tick' = tick /\ refusals' = refusals /\ scope' = scope /\ crashes' = crashes
  BY TickApart, TickCounts, CrashesKept
<1>2. turn' # "none" <=> turn # "none"
  <2>1. CASE Human
    BY <2>1 DEF Human, Approve, Discard, Answer, TakeFromQueue, HumanDecides, HumanMarks,
       HumanWakes, Adopt, CreateLane, SaveAdopted, Resolve, SaveResolved, seatVars
  <2>2. CASE World
    BY <2>2 DEF World, File, RunEnds, ChooseMode, seatVars
  <2>3. QED
    BY <2>1, <2>2
<1>3. QED
  BY <1>1, <1>2 DEF Quiet, OnItsWay, InHand

(* The count of fruitless turns is bounded by what was refused, what is on *)
(* its way, and what deaths lost; an empty count always is.                *)
Way == IF OnItsWay THEN 1 ELSE 0

LEMMA CountsAreNumbers ==
  ASSUME Counters PROVE Counted \in 0 .. refusals /\ Way \in 0 .. 1 /\ refusals \in Nat
<1>1. Counted = refusals \/ Counted = 0
  BY Zenon DEF Counted
<1>2. Way = 0 \/ Way = 1
  BY Zenon DEF Way
<1>3. QED
  BY <1>1, <1>2 DEF Counters

Limits ==
  /\ refusals <= MaxRefusals
  /\ InHand => turn = "none"
  /\ OnItsWay => refusals < MaxRefusals
  /\ tick.at = "refusal scope" => refusals = 1 \/ tick.scope = scope

LEMMA BudgetParts == BudgetInv <=> Limits /\ fruitless <= Counted + Way + crashes
BY DEF BudgetInv, Limits, Way, TickAt

LEMMA QuietKeepsLimits ==
  ASSUME Limits, Quiet PROVE Limits'
<1>1. CASE tick' = tick
  BY <1>1 DEF Limits, Quiet
<1>2. CASE tick' # tick
  BY <1>2 DEF Limits, Quiet
<1>3. QED
  BY <1>1, <1>2

(* A refusal is counted of a turn that was on its way, so below the limit. *)
LEMMA LimitsStep ==
  ASSUME Counters, TickShape, Limits, GovernanceNext PROVE Limits'
<1>1. CASE CountRefusal
  <2>1. tick.at = "refuse" /\ tick' = [at |-> "refusal scope", scope |-> Answerable]
    BY <1>1 DEF CountRefusal, TickAt
  <2>2. turn' = turn /\ scope' = scope
    BY <1>1 DEF CountRefusal
  <2>3. \/ scope = Answerable /\ refusals' = refusals + 1
        \/ refusals' = 1
    BY <1>1, Zenon DEF CountRefusal
  <2>4. turn = "none" /\ refusals < MaxRefusals
    BY <2>1 DEF Limits, OnItsWay, InHand
  <2>5. refusals' <= MaxRefusals
    BY <2>3, <2>4, BoundsAssumption DEF Counters
  <2>6. tick'.at = "refusal scope" /\ tick'.scope = Answerable
    BY <2>1
  <2>7. ~OnItsWay' /\ ~InHand'
    BY <2>2, <2>4, <2>6 DEF OnItsWay, InHand
  <2>8. refusals' = 1 \/ tick'.scope = scope'
    BY <2>2, <2>3, <2>6
  <2>9. QED
    BY <2>5, <2>7, <2>8 DEF Limits
<1>2. CASE NoteScope
  <2>1. tick.at = "refusal scope" /\ tick'.at = "budget" /\ UNCHANGED <<refusals, turn>>
    BY <1>2 DEF NoteScope, TickAt
  <2>2. ~InHand /\ ~InHand' /\ tick'.at # "refusal scope"
    BY <2>1 DEF InHand
  <2>3. QED
    BY <2>1, <2>2 DEF Limits, OnItsWay
<1>3. CASE ForgiveRefusals \/ NewScope
  <2>1. refusals' = 0 /\ turn' = turn
    BY <1>3 DEF ForgiveRefusals, NewScope
  <2>2. ~InHand' /\ tick'.at # "refusal scope"
    <3>1. CASE ForgiveRefusals
      BY <3>1 DEF ForgiveRefusals, GoTick, TickShape, InHand
    <3>2. CASE NewScope
      BY <3>2 DEF NewScope, TickAt, InHand
    <3>3. QED
      BY <1>3, <3>1, <3>2
  <2>3. refusals' <= MaxRefusals /\ refusals' < MaxRefusals
    BY <2>1, BoundsAssumption
  <2>4. QED
    BY <2>2, <2>3 DEF Limits
<1>4. CASE DispatchTurn
  <2>1. turn = "none" /\ refusals < MaxRefusals
    BY <1>4, Zenon DEF DispatchTurn, TurnDue
  <2>2. UNCHANGED <<refusals, turn, scope>> /\ tick'.at = "turn attempt"
    BY <1>4 DEF DispatchTurn, GoTick, TickShape
  <2>3. QED
    BY <2>1, <2>2 DEF Limits
<1>5. CASE Tick /\ ~CountRefusal /\ ~NoteScope /\ ~ForgiveRefusals /\ ~NewScope /\ ~DispatchTurn
  <2>1. Quiet
    BY <1>5, TickIsQuiet
  <2>2. QED
    BY <2>1, QuietKeepsLimits
<1>6. CASE Human \/ World
  BY <1>6, OthersAreQuiet, QuietKeepsLimits
<1>7. CASE TickDies \/ HumanDies
  <2>1. UNCHANGED <<refusals, scope, turn>>
    BY <1>7 DEF TickDies, HumanDies, seatVars
  <2>2. tick' = tick \/ tick'.at = "idle"
    BY <1>7, TickApart DEF TickDies, Idle
  <2>3. CASE tick' = tick
    BY <2>1, <2>3 DEF Limits, OnItsWay, InHand
  <2>4. CASE tick'.at = "idle"
    BY <2>1, <2>4 DEF Limits, OnItsWay, InHand
  <2>5. QED
    BY <2>2, <2>3, <2>4
<1>8. QED
  BY <1>1, <1>2, <1>3, <1>4, <1>5, <1>6, <1>7 DEF GovernanceNext

(* The count itself.  What a step adds to it, or takes from what covers    *)
(* it, it makes up for: a dispatch puts a turn on its way, a turn on its   *)
(* way becomes a counted refusal, and a death loses one of either kind.    *)
Covered == Counted + Way + crashes

LEMMA CountedCases ==
  /\ CountedScope = Answerable => Counted = refusals
  /\ CountedScope # Answerable => Counted = 0
  /\ tick.at = "refusal scope" => CountedScope = tick.scope
  /\ tick.at # "refusal scope" => CountedScope = scope
<1>1. /\ CountedScope = Answerable => Counted = refusals
      /\ CountedScope # Answerable => Counted = 0
  BY Zenon DEF Counted
<1>2. /\ tick.at = "refusal scope" => CountedScope = tick.scope
      /\ tick.at # "refusal scope" => CountedScope = scope
  BY Zenon DEF CountedScope, TickAt
<1>3. QED
  BY <1>1, <1>2

LEMMA WayCases == (OnItsWay => Way = 1) /\ (~OnItsWay => Way = 0)
BY Zenon DEF Way

LEMMA CoverStep ==
  ASSUME Counters, TickShape, Limits, GovernanceNext, Answerable' = Answerable, ~ForgiveRefusals
  PROVE  /\ DispatchTurn => Covered' = Covered + 1
         /\ ~DispatchTurn => Covered' >= Covered
<1> DEFINE Goal == /\ DispatchTurn => Covered' = Covered + 1
                   /\ ~DispatchTurn => Covered' >= Covered
<1>0. PICK c \in Nat, d \in Nat, w \in 0 .. 1, v \in 0 .. 1, n \in Nat, m \in Nat :
        /\ c = Counted /\ d = Counted' /\ w = Way /\ v = Way'
        /\ n = crashes /\ m = crashes'
  <2>1. Counters'
    BY CountersStep
  <2>2. Counted' \in Nat /\ Way' \in 0 .. 1
    <3>1. Counted' = refusals' \/ Counted' = 0
      BY Zenon DEF Counted
    <3>2. Way' = 0 \/ Way' = 1
      BY Zenon DEF Way
    <3>3. QED
      BY <2>1, <3>1, <3>2 DEF Counters
  <2>3. Counted \in Nat /\ Way \in 0 .. 1
    BY CountsAreNumbers
  <2>4. crashes \in Nat /\ crashes' \in Nat
    BY <2>1 DEF Counters
  <2>5. QED
    BY <2>2, <2>3, <2>4
<1>1. c \in Nat /\ d \in Nat /\ w \in 0 .. 1 /\ v \in 0 .. 1 /\ n \in Nat /\ m \in Nat
  BY <1>0
<1>14. Covered = c + w + n /\ Covered' = d + v + m
  BY <1>0, Zenon DEF Covered
<1>2. /\ CountedScope' = Answerable => Counted' = refusals'
      /\ CountedScope' # Answerable => Counted' = 0
  BY Zenon DEF Counted
<1>3. /\ tick'.at = "refusal scope" => CountedScope' = tick'.scope
      /\ tick'.at # "refusal scope" => CountedScope' = scope'
  BY Zenon DEF CountedScope, TickAt
<1>4. (OnItsWay' => Way' = 1) /\ (~OnItsWay' => Way' = 0)
  BY Zenon DEF Way
<1>5. CASE CountRefusal
  <2>1. tick.at = "refuse" /\ tick' = [at |-> "refusal scope", scope |-> Answerable]
    BY <1>5 DEF CountRefusal, TickAt
  <2>2. tick'.at = "refusal scope" /\ tick'.scope = Answerable
    BY <2>1
  <2>3. Way = 1 /\ Counted' = refusals'
    BY <2>1, <2>2, <1>2, <1>3, WayCases DEF OnItsWay, InHand
  <2>4. crashes' = crashes /\ ~DispatchTurn
    BY <1>5, <2>1 DEF CountRefusal, DispatchTurn, TickAt
  <2>5. Counted' = Counted + 1
    <3>1. CASE scope = Answerable
      <4>1. refusals' = refusals + 1
        BY <1>5, <3>1, Zenon DEF CountRefusal
      <4>2. Counted = refusals
        BY <2>1, <3>1, CountedCases
      <4>3. QED
        BY <4>1, <4>2, <2>3
    <3>2. CASE scope # Answerable
      <4>1. refusals' = 1
        BY <1>5, <3>2, Zenon DEF CountRefusal
      <4>2. Counted = 0
        BY <2>1, <3>2, CountedCases
      <4>3. QED
        BY <4>1, <4>2, <2>3
    <3>3. QED
      BY <3>1, <3>2
  <2>6. d + v + m >= c + w + n
    <3>1. d = c + 1 /\ w = 1 /\ m = n
      BY <2>3, <2>4, <2>5, <1>0
    <3>2. QED
      BY <3>1, <1>1
  <2>7. QED
    BY <2>4, <2>6, <1>14, Zenon
<1>6. CASE NoteScope
  <2>1. /\ tick.at = "refusal scope" /\ tick'.at = "budget" /\ scope' = tick.scope
        /\ UNCHANGED <<refusals, turn, crashes>> /\ ~DispatchTurn
    BY <1>6 DEF NoteScope, DispatchTurn, TickAt
  <2>2. OnItsWay' <=> OnItsWay
    BY <2>1 DEF OnItsWay, InHand
  <2>3. CountedScope' = CountedScope
    BY <2>1, <1>3, CountedCases
  <2>4. Counted' = Counted /\ Way' = Way
    BY <2>1, <2>2, <2>3, <1>2, <1>4, CountedCases, WayCases
  <2>5. d + v + m >= c + w + n
    <3>1. d = c /\ v = w /\ m = n
      BY <2>1, <2>4, <1>0
    <3>2. QED
      BY <3>1, <1>1
  <2>6. QED
    BY <2>1, <2>5, <1>14, Zenon
<1>7. CASE NewScope
  <2>1. /\ tick.at = "budget" /\ scope # Answerable /\ ~DispatchTurn
        /\ UNCHANGED <<tick, scope, turn, crashes>>
    <3>1. tick.at = "budget" /\ scope # Answerable /\ UNCHANGED <<tick, scope, turn, crashes>>
      BY <1>7 DEF NewScope, TickAt
    <3>2. ~DispatchTurn
      <4>1. DispatchTurn => tick'.at = "turn attempt"
        BY DEF DispatchTurn, GoTick, TickShape
      <4>2. QED
        BY <3>1, <4>1
    <3>3. QED
      BY <3>1, <3>2
  <2>2. Counted = 0 /\ Counted' = 0
    BY <2>1, <1>2, <1>3, CountedCases
  <2>3. OnItsWay' <=> OnItsWay
    BY <2>1 DEF OnItsWay, InHand
  <2>4. Way' = Way
    BY <2>3, <1>4, WayCases
  <2>5. d + v + m >= c + w + n
    <3>1. d = c /\ v = w /\ m = n
      BY <2>1, <2>2, <2>4, <1>0
    <3>2. QED
      BY <3>1, <1>1
  <2>6. QED
    BY <2>1, <2>5, <1>14, Zenon
<1>8. CASE DispatchTurn
  <2>1. turn = "none"
    BY <1>8, Zenon DEF DispatchTurn, TurnDue
  <2>2. /\ tick.at = "budget" /\ tick'.at = "turn attempt"
        /\ UNCHANGED <<refusals, scope, crashes>>
    BY <1>8 DEF DispatchTurn, GoTick, TickShape, TickAt
  <2>3. ~OnItsWay /\ OnItsWay'
    BY <2>1, <2>2 DEF OnItsWay, InHand
  <2>4. Way = 0 /\ Way' = 1
    BY <2>3, <1>4, WayCases
  <2>5. CountedScope' = CountedScope
    BY <2>2, <1>3, CountedCases
  <2>6. Counted' = Counted
    BY <2>2, <2>5, <1>2, CountedCases
  <2>7. d + v + m = c + w + n + 1
    <3>1. d = c /\ w = 0 /\ v = 1 /\ m = n
      BY <2>2, <2>4, <2>6, <1>0
    <3>2. QED
      BY <3>1, <1>1
  <2>8. QED
    BY <1>8, <2>7, <1>14, Zenon
<1>9. CASE Quiet /\ ~DispatchTurn
  <2>1. CountedScope' = CountedScope
    BY <1>9, <1>3, CountedCases DEF Quiet
  <2>2. Counted' = Counted
    BY <1>9, <2>1, <1>2, CountedCases DEF Quiet
  <2>3. Way' = Way
    BY <1>9, <1>4, WayCases DEF Quiet
  <2>4. crashes' = crashes
    BY <1>9 DEF Quiet
  <2>5. d + v + m >= c + w + n
    <3>1. d = c /\ v = w /\ m = n
      BY <2>2, <2>3, <2>4, <1>0
    <3>2. QED
      BY <3>1, <1>1
  <2>6. QED
    BY <1>9, <2>5, <1>14, Zenon
<1>10. CASE TickDies \/ HumanDies
  <2>1. UNCHANGED <<refusals, scope, turn>>
    BY <1>10 DEF TickDies, HumanDies, seatVars
  <2>2. crashes' = crashes + 1
    BY <1>10, CrashesCounted
  <2>3. tick' = tick \/ tick'.at = "idle"
    BY <1>10, TickApart DEF TickDies, Idle
  <2>4. d + v + 1 >= c + w
    <3>1. CASE tick.at # "refusal scope"
      <4>1. CountedScope' = CountedScope
        BY <2>1, <2>3, <3>1, <1>3, CountedCases
      <4>2. Counted' = Counted
        BY <2>1, <4>1, <1>2, CountedCases
      <4>3. QED
        <5>1. d = c
          BY <4>2, <1>0
        <5>2. QED
          BY <5>1, <1>1
    <3>2. CASE tick.at = "refusal scope"
      <4>1. ~InHand /\ ~InHand'
        BY <2>3, <3>2 DEF InHand
      <4>2. OnItsWay' <=> OnItsWay
        BY <4>1, <2>1 DEF OnItsWay
      <4>3. Way' = Way
        BY <4>2, <1>4, WayCases
      <4>4. refusals = 1 \/ tick.scope = scope
        BY <3>2 DEF Limits
      <4>5. d + 1 >= c
        <5>1. CASE refusals = 1
          <6>1. Counted = 0 \/ Counted = 1
            BY <5>1, CountedCases
          <6>2. QED
            <7>1. c = 0 \/ c = 1
              BY <6>1, <1>0
            <7>2. QED
              BY <7>1, <1>1
        <5>2. CASE tick.scope = scope
          <6>1. CountedScope' = CountedScope
            BY <2>1, <2>3, <3>2, <5>2, <1>3, CountedCases
          <6>2. Counted' = Counted
            BY <2>1, <6>1, <1>2, CountedCases
          <6>3. QED
            <7>1. d = c
              BY <6>2, <1>0
            <7>2. QED
              BY <7>1, <1>1
        <5>3. QED
          BY <4>4, <5>1, <5>2
      <4>6. QED
        <5>1. v = w
          BY <4>3, <1>0
        <5>2. QED
          BY <5>1, <4>5, <1>1
    <3>3. QED
      BY <3>1, <3>2
  <2>5. d + v + m >= c + w + n
    <3>1. m = n + 1
      BY <2>2, <1>0
    <3>2. QED
      BY <3>1, <2>4, <1>1
  <2>6. ~DispatchTurn
    <3>1. DispatchTurn => crashes' = crashes
      BY DEF DispatchTurn
    <3>2. crashes' # crashes
      <4>1. m = n + 1
        BY <2>2, <1>0
      <4>2. m # n
        BY <4>1, <1>1
      <4>3. QED
        BY <4>2, <1>0
    <3>3. QED
      BY <3>1, <3>2
  <2>7. QED
    BY <2>5, <2>6, <1>14, Zenon
<1>11. Human \/ World => Quiet
  BY OthersAreQuiet
<1>12. Tick /\ ~CountRefusal /\ ~NoteScope /\ ~NewScope /\ ~DispatchTurn => Quiet
  BY TickIsQuiet
<1>13. QED
  BY <1>5, <1>6, <1>7, <1>8, <1>9, <1>10, <1>11, <1>12 DEF GovernanceNext

(* Only a dispatch leaves the budget for an attempt.                       *)
LEMMA OnlyDispatchesAttempt ==
  ASSUME TickShape, GovernanceNext, TickAt("budget"), tick'.at = "turn attempt" PROVE DispatchTurn
<1>1. ~Quiet
  BY DEF Quiet, TickAt
<1>2. ~CountRefusal /\ ~NoteScope /\ ~ForgiveRefusals /\ ~NewScope
  <2>1. ~CountRefusal
    BY DEF CountRefusal, TickAt
  <2>2. ~NoteScope
    BY DEF NoteScope, TickAt
  <2>3. ~ForgiveRefusals
    BY DEF ForgiveRefusals, TickAt
  <2>4. ~NewScope
    BY DEF NewScope, TickAt
  <2>5. QED
    BY <2>1, <2>2, <2>3, <2>4
<1>3. ~TickDies
  <2> SUFFICES ASSUME TickDies PROVE FALSE
    OBVIOUS
  <2>1. tick'.at = "idle"
    BY DEF TickDies, Idle
  <2>2. QED
    BY <2>1
<1>4. ~HumanDies
  BY TickApart DEF TickAt
<1>5. QED
  BY <1>1, <1>2, <1>3, <1>4, TickIsQuiet, OthersAreQuiet DEF GovernanceNext

(* What the count gains, its cover gains; where it is reset, nothing.      *)
LEMMA BudgetStep ==
  ASSUME Counters, TickShape, BudgetInv, GovernanceNext PROVE BudgetInv'
<1>1. Limits /\ fruitless <= Covered
  BY BudgetParts DEF Covered
<1>2. Limits'
  BY <1>1, LimitsStep
<1>3. Counters' /\ Counted' \in Nat /\ Way' \in 0 .. 1
  <2>1. Counters'
    BY CountersStep
  <2>2. Counted' = refusals' \/ Counted' = 0
    BY Zenon DEF Counted
  <2>3. Way' = 0 \/ Way' = 1
    BY Zenon DEF Way
  <2>4. QED
    BY <2>1, <2>2, <2>3 DEF Counters
<1>4. PICK c \in Nat, d \in Nat, f \in Nat, g \in Nat :
        c = Covered /\ d = Covered' /\ f = fruitless /\ g = fruitless'
  <2>1. PICK a \in Nat, b \in Nat, w \in 0 .. 1, v \in 0 .. 1, n \in Nat, m \in Nat :
          /\ a = Counted /\ b = Counted' /\ w = Way /\ v = Way'
          /\ n = crashes /\ m = crashes'
    BY <1>3, CountsAreNumbers DEF Counters
  <2>2. Covered = a + w + n /\ Covered' = b + v + m
    BY <2>1, Zenon DEF Covered
  <2>3. a + w + n \in Nat /\ b + v + m \in Nat
    <3>1. a \in Nat /\ b \in Nat /\ w \in 0 .. 1 /\ v \in 0 .. 1 /\ n \in Nat /\ m \in Nat
      BY <2>1
    <3>2. QED
      BY <3>1
  <2>4. Covered \in Nat /\ Covered' \in Nat
    BY <2>2, <2>3, Zenon
  <2>5. fruitless \in Nat /\ fruitless' \in Nat
    BY <1>3 DEF Counters
  <2>6. QED
    BY <2>4, <2>5
<1>5. f <= c
  BY <1>1, <1>4, Zenon
<1>6. g <= d
  <2>1. CountFruitless
    BY DEF GovernanceNext
  <2>2. CASE fruitless' = 0
    <3>1. g = 0 /\ d \in Nat
      BY <2>2, <1>4
    <3>2. QED
      BY <3>1
  <2>3. CASE /\ fruitless' # 0 /\ Answerable' = Answerable
             /\ \/ fruitless' = fruitless
                \/ fruitless' = fruitless + 1 /\ TickAt("budget") /\ tick'.at = "turn attempt"
    <3>1. ~ForgiveRefusals
      <4>1. ForgiveRefusals => TickAt("admitted") /\ tick'.at = "budget"
        BY DEF ForgiveRefusals, GoTick, TickShape
      <4>2. TickAt("admitted") /\ tick'.at = "budget" => fruitless' = 0
        BY <2>1, Zenon DEF CountFruitless
      <4>3. QED
        BY <2>3, <4>1, <4>2
    <3>2. /\ DispatchTurn => d = c + 1
          /\ ~DispatchTurn => d >= c
      <4>1. /\ DispatchTurn => Covered' = Covered + 1
            /\ ~DispatchTurn => Covered' >= Covered
        BY <2>3, <3>1, <1>1, CoverStep
      <4>2. QED
        BY <4>1, <1>4, Zenon
    <3>3. f \in Nat /\ g \in Nat /\ c \in Nat /\ d \in Nat
      BY <1>4
    <3>4. CASE fruitless' = fruitless
      <4>1. g = f
        BY <3>4, <1>4
      <4>2. d = c + 1 \/ d >= c
        BY <3>2
      <4>3. QED
        BY <4>1, <4>2, <3>3, <1>5
    <3>5. CASE fruitless' = fruitless + 1 /\ TickAt("budget") /\ tick'.at = "turn attempt"
      <4>1. DispatchTurn
        BY <3>5, OnlyDispatchesAttempt
      <4>2. QED
        <5>1. g = f + 1 /\ d = c + 1
          BY <4>1, <3>2, <3>5, <1>4
        <5>2. QED
          BY <5>1, <3>3, <1>5
    <3>6. QED
      BY <2>3, <3>4, <3>5
  <2>4. QED
    BY <2>1, <2>2, <2>3, FruitlessCounted
<1>7. QED
  <2>1. BudgetInv' <=> Limits' /\ fruitless' <= Counted' + Way' + crashes'
    BY DEF BudgetInv, Limits, Way, TickAt
  <2>2. fruitless' <= Covered'
    BY <1>4, <1>6, Zenon
  <2>3. QED
    BY <1>2, <2>1, <2>2, Zenon DEF Covered

--------------------------------------------------------------------------------
(* And no step of anyone disturbs it.                                      *)
LEMMA InvariantStep == ASSUME IInv, [GovernanceNext]_governanceVars PROVE IInv'
<1>1. CASE GovernanceNext
  <2>1. Shapes'
    BY <1>1, ShapesStep DEF IInv
  <2>2. BudgetInv'
    BY <1>1, BudgetStep DEF IInv, Shapes
  <2>3. ApprovalInv'
    BY <1>1, ApprovalStep DEF IInv, Shapes
  <2>4. DocInv'
    BY <1>1, DocStep DEF IInv, Shapes
  <2>5. LanesInv'
    BY <1>1, LanesStep DEF IInv, Shapes
  <2>6. QED
    BY <2>1, <2>2, <2>3, <2>4, <2>5 DEF IInv
<1>2. CASE UNCHANGED governanceVars
  <2>1. /\ UNCHANGED <<lane, question, lastBlocker, approvals, queue, turn, refusals, scope>>
        /\ UNCHANGED <<planner, planners, doc, lanes, tick, human, crashes, fruitless>>
        /\ UNCHANGED <<torn, stale>>
    BY <1>2 DEF governanceVars, codeVars, planVars, seatVars, worldVars, ledger
  <2>2. Shapes'
    BY <2>1 DEF IInv, Shapes, Counters, Books, TickShape, HumanShape
  <2>3. Answerable' = Answerable
    BY <2>1 DEF Answerable, Inbox, Open, BlockerShown, Waiting, Route
  <2>4. CountedScope' = CountedScope /\ (OnItsWay' <=> OnItsWay) /\ (InHand' <=> InHand)
    BY <2>1 DEF CountedScope, TickAt, OnItsWay, InHand
  <2>5. BudgetInv'
    BY <2>1, <2>3, <2>4 DEF IInv, BudgetInv, Counted, TickAt
  <2>6. ApprovalInv'
    BY <2>1 DEF IInv, ApprovalInv, Approving, HumanAt
  <2>7. DocInv'
    BY <2>1 DEF IInv, DocInv, Planning
  <2>8. LanesInv'
    BY <2>1 DEF IInv, LanesInv, HumanAt
  <2>9. QED
    BY <2>2, <2>5, <2>6, <2>7, <2>8 DEF IInv
<1>3. QED
  BY <1>1, <1>2

(* What a process has read fits its place, a document exists only once no  *)
(* planner is at work on one, lanes stand only under an adopted plan, and  *)
(* every fruitless turn is a counted refusal, on its way or lost (the meta *)
(* keys of _program_governance and of the owner's commands).               *)
THEOREM Invariant == GovernanceSpec => []IInv
<1>1. GovernanceInit => IInv
  BY InitInvariant
<1>2. IInv /\ [GovernanceNext]_governanceVars => IInv'
  BY InvariantStep
<1>3. QED
  BY <1>1, <1>2, PTL DEF GovernanceSpec

(* A seat that keeps failing at the same questions stops after MaxRefusals *)
(* turns, and one more for each turn a death lost, whatever questions are  *)
(* filed, answered and queued meanwhile (_count_strategist_refusal).       *)
THEOREM BudgetAlwaysHolds == GovernanceSpec => []BudgetHolds
<1>1. IInv => BudgetHolds
  <2> SUFFICES ASSUME IInv PROVE BudgetHolds
    OBVIOUS
  <2>1. Counters /\ Limits /\ fruitless <= Counted + Way + crashes
    BY BudgetParts DEF IInv, Shapes
  <2>2. Counted \in 0 .. refusals /\ Way \in 0 .. 1 /\ refusals \in Nat
    BY <2>1, CountsAreNumbers
  <2>3. Counted + Way <= MaxRefusals
    <3>1. CASE OnItsWay
      <4>1. refusals < MaxRefusals
        BY <2>1, <3>1 DEF Limits
      <4>2. QED
        BY <4>1, <2>2, BoundsAssumption
    <3>2. CASE ~OnItsWay
      <4>1. Way = 0 /\ refusals <= MaxRefusals
        BY <2>1, <3>2, WayCases DEF Limits
      <4>2. QED
        BY <4>1, <2>2, BoundsAssumption
    <3>3. QED
      BY <3>1, <3>2
  <2>4. fruitless \in Nat /\ crashes \in Nat /\ fruitless <= Counted + Way + crashes
    BY <2>1 DEF Counters
  <2>5. QED
    BY <2>2, <2>3, <2>4, BoundsAssumption DEF BudgetHolds
<1>2. QED
  BY <1>1, Invariant, PTL

(* A question is decided by approval once, save where an approval died     *)
(* before it marked the message, and a plan's lanes are created once, save *)
(* where a newer document was overwritten or an adoption died              *)
(* (approve_pending_directive, adopt_plan_proposal).                       *)
THEOREM DecidedOnceAlways == GovernanceSpec => []DecidedOnce
<1>1. IInv => DecidedOnce
  <2> SUFFICES ASSUME IInv PROVE DecidedOnce
    OBVIOUS
  <2>1. ASSUME NEW q \in Questions, approvals[q] > 1 PROVE q \in torn
    <3>1. approvals[q] \in 0 .. 2
      BY DEF IInv, Shapes, Books
    <3>2. approvals[q] = 2
      BY <2>1, <3>1
    <3>3. QED
      BY <3>2 DEF IInv, ApprovalInv
  <2>2. ASSUME ~stale, NEW k \in LaneKeys PROVE lanes[k] <= 1
    <3>1. lanes[k] \in 0 .. 2
      BY DEF IInv, Shapes, Books
    <3>2. lanes[k] # 2
      BY <2>2 DEF IInv, LanesInv
    <3>3. QED
      BY <3>1, <3>2
  <2>3. QED
    BY <2>1, <2>2, Zenon DEF DecidedOnce
<1>2. QED
  BY <1>1, Invariant, PTL

================================================================================
