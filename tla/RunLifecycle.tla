----------------------------- MODULE RunLifecycle -----------------------------
(***************************************************************************)
(* One dispatch of Program Mode, from its admission to its verdict         *)
(* (core/dispatcher.py, core/worker.py, core/reconcile.py) over the run    *)
(* ledger they share (core/store.py), the run directory's files and the    *)
(* worker's lock (core/proc.py).                                           *)
(*                                                                         *)
(* Four kinds of process act, each one committed write at a time: a        *)
(* dispatcher admits a run and spawns its detached worker, the worker      *)
(* drives one child and judges what it produced, a reconciler classifies a *)
(* run nobody watches, a transport cancels.  Dispatchers and workers may   *)
(* die between any two steps; a child outlives its worker.                 *)
(*                                                                         *)
(* A dispatch key admits one attempt ever, so a run is named by its key.   *)
(* All runs name the same worktree, the one they may fight over.           *)
(***************************************************************************)
EXTENDS FiniteSets

CONSTANTS
    Runs,         \* the dispatch keys, one attempt each
    NoRun,
    Earlier,      \* runs before these that may have left their lease behind
    Writes,       \* runs with a write-capable profile
    NeedsLease,   \* those and the ones dispatched with require_lease
    Real,         \* runs whose executor counts against the ceiling
    Dispatchers,  \* processes that call dispatch(), each any number of times
    Reconcilers,  \* processes that call reconcile_run()
    Cancels       \* whether the transport may cancel runs

ASSUME RunsAssumption ==
    /\ NoRun \notin Runs \cup Earlier /\ Runs \cap Earlier = {}
    /\ NeedsLease \subseteq Runs /\ Writes \subseteq NeedsLease /\ Real \subseteq Runs
    /\ Cancels \in BOOLEAN

VARIABLES
    state,        \* attempt.execution_state, "NONE" before the row exists
    lease,        \* holder_run_id of the worktree's unreleased lease, or NoRun
    spawned,      \* runs whose worker row has a spawn_pid
    started,      \* runs whose worker row has a worker_pid
    result,       \* the result row: none, valid or invalid
    evidence,     \* the evidence row: whether accepted, and whether a change was observed
    handoff,      \* runs with a handoff row
    request,      \* runs whose request.json is on disk
    receipt,      \* exit.json: none, the child never started, it exited nonzero, or it ran
    lockFile,     \* runs whose worker lock file exists
    lock,         \* who holds it: free, worker or probe
    dpc, drun,    \* each dispatcher: where it is, and the run it created
    wpc, wlease,  \* each run's worker: where it is, and the lease row it read
    child,        \* the executor's child: none, running or ended
    rpc, rrun, seen,  \* each reconciler: where it is, its run, what it has read
    cpc, crun,    \* the transport's cancel handler
    wasValid,     \* history: runs whose result row has been valid
    broken,       \* history: runs some process failed before finishing its part
    cleared       \* history: runs reported with auto_redispatch_allowed

rows == <<state, lease, spawned, started, result, evidence, handoff>>
files == <<request, receipt, lockFile, lock>>
dispatchers == <<dpc, drun>>
workers == <<wpc, wlease, child>>
reconcilers == <<rpc, rrun, seen>>
canceller == <<cpc, crun>>
history == <<wasValid, broken, cleared>>
vars == <<rows, files, dispatchers, workers, reconcilers, canceller, history>>

----------------------------------------------------------------------------
(* The execution axis: the states and the legal edges between them.        *)

Active == {"CREATED", "PREFLIGHT", "LEASED", "DISPATCHED", "RUNNING",
           "RESULT_RECEIVED", "EVIDENCE_COLLECTED"}
Refusals == {"PREFLIGHT_REFUSED", "LEASE_REFUSED", "AUTHORITY_REFUSED",
             "PERMISSION_REFUSED", "OWNER_REQUIRED", "CANCELLED", "WORKER_FAILED",
             "CLAUDE_FAILED", "INTERRUPTED", "RESULT_INVALID", "EVIDENCE_INVALID",
             "AMBIGUOUS_EXECUTION"}
Terminal == Refusals \cup {"HANDOFF_READY", "HANDED_TO_ORCHESTRATOR"}

Forward == {<<"CREATED", "PREFLIGHT">>, <<"PREFLIGHT", "LEASED">>,
            <<"PREFLIGHT", "DISPATCHED">>, <<"LEASED", "DISPATCHED">>,
            <<"DISPATCHED", "RUNNING">>, <<"RUNNING", "RESULT_RECEIVED">>,
            <<"RESULT_RECEIVED", "EVIDENCE_COLLECTED">>,
            <<"EVIDENCE_COLLECTED", "HANDOFF_READY">>,
            <<"HANDOFF_READY", "HANDED_TO_ORCHESTRATOR">>}

CanTransition(src, dst) ==
    \/ <<src, dst>> \in Forward
    \/ src \in Active /\ dst \in Refusals

\* store.transition by a caller that swallows TransitionRefused.
Settle(r, to) ==
    state' = IF CanTransition(state[r], to) THEN [state EXCEPT ![r] = to] ELSE state

NoEvidence == [ok |-> FALSE, changed |-> FALSE]
Unseen == [phase |-> "later", started |-> FALSE, receipt |-> "none", valid |-> FALSE,
           changed |-> FALSE, pid |-> FALSE, live |-> "UNKNOWN", target |-> "NONE"]

Init ==
    /\ state = [r \in Runs |-> "NONE"]
    /\ lease \in Earlier \cup {NoRun}
    /\ spawned = {} /\ started = {} /\ handoff = {} /\ request = {} /\ lockFile = {}
    /\ result = [r \in Runs |-> "none"]
    /\ evidence = [r \in Runs |-> NoEvidence]
    /\ receipt = [r \in Runs |-> "none"]
    /\ lock = [r \in Runs |-> "free"]
    /\ dpc = [d \in Dispatchers |-> "idle"]
    /\ drun = [d \in Dispatchers |-> NoRun]
    /\ wpc = [r \in Runs |-> "none"]
    /\ wlease = [r \in Runs |-> FALSE]
    /\ child = [r \in Runs |-> "none"]
    /\ rpc = [c \in Reconcilers |-> "idle"]
    /\ rrun = [c \in Reconcilers |-> NoRun]
    /\ seen = [c \in Reconcilers |-> Unseen]
    /\ cpc = "idle" /\ crun = NoRun
    /\ wasValid = {} /\ broken = {} /\ cleared = {}

----------------------------------------------------------------------------
(* dispatch(): the admission ladder.  A caller that finds its key already   *)
(* admitted gets the existing run back and changes nothing.                 *)

Goto(d, p) == dpc' = [dpc EXCEPT ![d] = p] /\ UNCHANGED drun
Return(d) ==
    /\ dpc' = [dpc EXCEPT ![d] = "idle"]
    /\ drun' = [drun EXCEPT ![d] = NoRun]

\* store.transition with expect_from, or an edge the graph must allow: when it
\* is refused, TransitionRefused leaves dispatch() with whatever it holds.
Advance(d, legal, to, p) ==
    \/ /\ legal
       /\ state' = [state EXCEPT ![drun[d]] = to]
       /\ Goto(d, p)
    \/ /\ ~legal
       /\ UNCHANGED state
       /\ Return(d)

\* The new attempt's row, and the dispatcher that goes on with it.
Create(d, r, s) ==
    /\ dpc[d] = "idle"
    /\ state' = [state EXCEPT ![r] = s]
    /\ dpc' = [dpc EXCEPT ![d] = "created"]
    /\ drun' = [drun EXCEPT ![d] = r]
    /\ UNCHANGED <<lease, spawned, started, result, evidence, handoff, files, workers,
                   reconcilers, canceller, history>>

\* Definitions named Slip... are slips of this code that a property must catch;
\* nothing uses them.  Here: a key whose attempt is over is admitted again, and
\* the dispatcher's word for the outcome lands in the row.
SlipAdmitAgain(d, r) == state[r] \notin Active /\ Create(d, r, "CREATED")

\* One admission transaction: a key that has no attempt yet gets its only one.
Admit(d, r) == state[r] = "NONE" /\ Create(d, r, "CREATED")

StartPreflight(d) ==
    /\ dpc[d] = "created"
    /\ Advance(d, state[drun[d]] = "CREATED", "PREFLIGHT", "gates")
    /\ UNCHANGED <<lease, spawned, started, result, evidence, handoff, files, workers,
                   reconcilers, canceller, history>>

\* A dispatcher that stops here writes its refusal and returns, or raises.
Refuse(d, to) ==
    /\ Settle(drun[d], to)
    /\ Return(d)
    /\ UNCHANGED <<lease, spawned, started, result, evidence, handoff, files, workers,
                   reconcilers, canceller>>

\* The authority decision or the credential preflight refuses; nothing modelled
\* here decides either.
RefuseAtGates(d) ==
    /\ dpc[d] = "gates"
    /\ \E to \in {"OWNER_REQUIRED", "AUTHORITY_REFUSED", "PREFLIGHT_REFUSED"} : Refuse(d, to)
    /\ UNCHANGED history

\* Slip: only the runs a worker already drives are counted.
SlipCountRunning(r) ==
    {q \in Runs \ {r} : state[q] = "RUNNING" /\ (q \in Real \/ q \notin request)}

\* The other active runs the census takes for real: a run whose request.json is
\* not there yet counts, whatever its executor.
ActiveReal(r) == {q \in Runs \ {r} : state[q] \in Active /\ (q \in Real \/ q \notin request)}

AfterCensus(r) ==
    IF r \in Real /\ ActiveReal(r) # {} THEN "overCeiling"
    ELSE IF r \in NeedsLease THEN "lease" ELSE "drift"

Census(d) ==
    /\ dpc[d] = "gates"
    /\ Goto(d, AfterCensus(drun[d]))
    /\ UNCHANGED <<rows, files, workers, reconcilers, canceller, history>>

RefuseOverCeiling(d) ==
    /\ dpc[d] = "overCeiling"
    /\ Refuse(d, "PERMISSION_REFUSED")
    /\ UNCHANGED history

AcquireLease(d) ==
    /\ dpc[d] = "lease"
    /\ \/ /\ lease \in {NoRun, drun[d]}
          /\ lease' = drun[d]
          /\ Goto(d, "leasing")
       \/ /\ lease \notin {NoRun, drun[d]}
          /\ Goto(d, "noLease")
          /\ UNCHANGED lease
    /\ UNCHANGED <<state, spawned, started, result, evidence, handoff, files, workers,
                   reconcilers, canceller, history>>

MarkLeased(d) ==
    /\ dpc[d] = "leasing"
    /\ Advance(d, state[drun[d]] = "PREFLIGHT", "LEASED", "drift")
    /\ UNCHANGED <<lease, spawned, started, result, evidence, handoff, files, workers,
                   reconcilers, canceller, history>>

\* Slip: drift refuses the run and forgets the lease it took.
SlipKeepLease(d) ==
    /\ dpc[d] = "drift"
    /\ Goto(d, "noLease")
    /\ UNCHANGED <<rows, files, workers, reconcilers, canceller, history>>

\* The worktree moved since it was bound: the lease goes back first.
FindDrift(d) ==
    /\ dpc[d] = "drift"
    /\ lease' = IF lease = drun[d] THEN NoRun ELSE lease
    /\ Goto(d, "noLease")
    /\ UNCHANGED <<state, spawned, started, result, evidence, handoff, files, workers,
                   reconcilers, canceller, history>>

RefuseLease(d) ==
    /\ dpc[d] = "noLease"
    /\ Refuse(d, "LEASE_REFUSED")
    /\ UNCHANGED history

WriteRequest(d) ==
    /\ dpc[d] = "drift"
    /\ request' = request \cup {drun[d]}
    /\ Goto(d, "dispatch")
    /\ UNCHANGED <<rows, receipt, lockFile, lock, workers, reconcilers, canceller, history>>

MarkDispatched(d) ==
    /\ dpc[d] = "dispatch"
    /\ Advance(d, CanTransition(state[drun[d]], "DISPATCHED"), "DISPATCHED", "spawn")
    /\ UNCHANGED <<lease, spawned, started, result, evidence, handoff, files, workers,
                   reconcilers, canceller, history>>

Spawn(d) ==
    /\ dpc[d] = "spawn"
    /\ wpc' = [wpc EXCEPT ![drun[d]] = "boot"]
    /\ Goto(d, "record")
    /\ UNCHANGED <<rows, files, wlease, child, reconcilers, canceller, history>>

\* No process: the run is failed and its lease stays where it is.
SpawnFails(d) ==
    /\ dpc[d] = "spawn"
    /\ Refuse(d, "WORKER_FAILED")
    /\ broken' = broken \cup {drun[d]}
    /\ UNCHANGED <<wasValid, cleared>>

RecordSpawn(d) ==
    /\ dpc[d] = "record"
    /\ spawned' = spawned \cup {drun[d]}
    /\ Return(d)
    /\ UNCHANGED <<state, lease, started, result, evidence, handoff, files, workers,
                   reconcilers, canceller, history>>

DispatcherStep(d) ==
    \/ StartPreflight(d) \/ RefuseAtGates(d) \/ Census(d) \/ RefuseOverCeiling(d)
    \/ AcquireLease(d) \/ MarkLeased(d) \/ FindDrift(d) \/ RefuseLease(d)
    \/ WriteRequest(d) \/ MarkDispatched(d)
    \/ Spawn(d) \/ SpawnFails(d) \/ RecordSpawn(d)

\* The calling process dies; the worker it may have spawned is detached.
DispatcherDies(d) ==
    /\ dpc[d] # "idle"
    /\ Return(d)
    /\ broken' = broken \cup {drun[d]}
    /\ UNCHANGED <<rows, files, workers, reconcilers, canceller, wasValid, cleared>>

----------------------------------------------------------------------------
(* The worker: the lock first, then its own identity, the lease, a last     *)
(* drift check, the child, the receipt, and only then the judgement.        *)

Step(r, from, to) == wpc[r] = from /\ wpc' = [wpc EXCEPT ![r] = to]

\* Everything but the worker's position and the run's own rows stays.
WorkerFrame ==
    UNCHANGED <<dispatchers, reconcilers, canceller, cleared, spawned, request>>

\* _fail: record the verdict unless somebody already recorded one.
Fail(r, from, to, verdict) ==
    /\ Step(r, from, to)
    /\ Settle(r, verdict)
    /\ WorkerFrame
    /\ UNCHANGED <<lease, started, result, evidence, handoff, receipt, lockFile, lock,
                   wlease, child, wasValid>>

\* A transition with expect_from; refused, the exception ends _execute.
Proceed(r, from, to, before, after) ==
    /\ \/ Step(r, from, to) /\ state[r] = before /\ state' = [state EXCEPT ![r] = after]
       \/ Step(r, from, "release") /\ state[r] # before /\ UNCHANGED state
    /\ WorkerFrame
    /\ UNCHANGED <<lease, started, result, evidence, handoff, receipt, lockFile, lock,
                   wlease, child, wasValid, broken>>

\* request.json is there but cannot be read back.
RequestUnreadable(r) ==
    /\ Fail(r, "boot", "gone", "WORKER_FAILED")
    /\ broken' = broken \cup {r}

\* WorkerLock.acquire: create the file, then try the lock.
OpenLock(r) ==
    /\ r \in request
    /\ Step(r, "boot", "lock")
    /\ lockFile' = lockFile \cup {r}
    /\ WorkerFrame
    /\ UNCHANGED <<state, lease, started, result, evidence, handoff, receipt, lock,
                   wlease, child, wasValid, broken>>

TakeLock(r) ==
    /\ lock[r] = "free"
    /\ Step(r, "lock", "identify")
    /\ lock' = [lock EXCEPT ![r] = "worker"]
    /\ WorkerFrame
    /\ UNCHANGED <<state, lease, started, result, evidence, handoff, receipt, lockFile,
                   wlease, child, wasValid, broken>>

\* Somebody holds it: the worker exits having done nothing.
LockRefused(r) ==
    /\ lock[r] # "free"
    /\ Step(r, "lock", "gone")
    /\ broken' = broken \cup {r}
    /\ WorkerFrame
    /\ UNCHANGED <<state, lease, started, result, evidence, handoff, receipt, lockFile, lock,
                   wlease, child, wasValid>>

RecordStarted(r) ==
    /\ Step(r, "identify", "readLease")
    /\ started' = started \cup {r}
    /\ WorkerFrame
    /\ UNCHANGED <<state, lease, result, evidence, handoff, receipt, lockFile, lock,
                   wlease, child, wasValid, broken>>

ReadLease(r) ==
    /\ Step(r, "readLease", "probe")
    /\ wlease' = [wlease EXCEPT ![r] = (lease = r)]
    /\ WorkerFrame
    /\ UNCHANGED <<state, lease, started, result, evidence, handoff, receipt, lockFile, lock,
                   child, wasValid, broken>>

DriftAtLaunch(r) == Fail(r, "probe", "release", "LEASE_REFUSED") /\ UNCHANGED broken
StartRunning(r) == Proceed(r, "probe", "launch", "DISPATCHED", "RUNNING")

Launch(r) ==
    /\ Step(r, "launch", "wait")
    /\ child' = [child EXCEPT ![r] = "running"]
    /\ WorkerFrame
    /\ UNCHANGED <<state, lease, started, result, evidence, handoff, receipt, lockFile, lock,
                   wlease, wasValid, broken>>

\* exit.json, before anything is parsed.
WriteReceipt(r, from, to, how) ==
    /\ Step(r, from, to)
    /\ receipt' = [receipt EXCEPT ![r] = how]
    /\ WorkerFrame
    /\ UNCHANGED <<state, lease, started, result, evidence, handoff, lockFile, lock,
                   wlease, child, wasValid, broken>>

LaunchFails(r) == WriteReceipt(r, "launch", "unstarted", "unstarted")
NeverStarted(r) == Fail(r, "unstarted", "release", "WORKER_FAILED") /\ UNCHANGED broken

ChildReturns(r) ==
    /\ child[r] = "ended"
    /\ \E how \in {"ran", "nonzero"} : WriteReceipt(r, "wait", "parse", how)

RecordResult(r, from, to, valid) ==
    /\ Step(r, from, to)
    /\ result' = [result EXCEPT ![r] = IF valid THEN "valid" ELSE "invalid"]
    /\ wasValid' = IF valid THEN wasValid \cup {r} ELSE wasValid
    /\ WorkerFrame
    /\ UNCHANGED <<state, lease, started, evidence, handoff, receipt, lockFile, lock,
                   wlease, child, broken>>

RecordValid(r) == RecordResult(r, "parse", "valid", TRUE)
RecordInvalid(r) == RecordResult(r, "parse", "invalid", FALSE)

\* The measurement of the worktree after the child.
CollectEvidence(r, from, to, ok) ==
    /\ Step(r, from, to)
    /\ \E changed \in BOOLEAN :
         evidence' = [evidence EXCEPT ![r] = [ok |-> ok, changed |-> changed]]
    /\ WorkerFrame
    /\ UNCHANGED <<state, lease, started, result, handoff, receipt, lockFile, lock,
                   wlease, child, wasValid, broken>>

EvidenceOfInvalid(r) == \E ok \in BOOLEAN : CollectEvidence(r, "invalid", "reject", ok)
RejectResult(r) == Fail(r, "reject", "release", "RESULT_INVALID") /\ UNCHANGED broken

MarkReceived(r) == Proceed(r, "valid", "sync", "RUNNING", "RESULT_RECEIVED")

\* Slip: a failed delivery is noted on the result and the run carries on.
SlipSyncIgnored(r) == RecordResult(r, "sync", "sync", FALSE)

\* Two-way delivery to the program failed: the result is taken back, the run failed.
SyncFails(r) == RecordResult(r, "sync", "unsynced", FALSE)
FailUnsynced(r) == Fail(r, "unsynced", "release", "WORKER_FAILED") /\ UNCHANGED broken

EvidenceAccepted(r) == CollectEvidence(r, "sync", "collected", TRUE)
EvidenceRefused(r) == CollectEvidence(r, "sync", "disproved", FALSE)
RejectEvidence(r) == Fail(r, "disproved", "release", "EVIDENCE_INVALID") /\ UNCHANGED broken
MarkCollected(r) == Proceed(r, "collected", "handoff", "RESULT_RECEIVED", "EVIDENCE_COLLECTED")

RecordHandoff(r) ==
    /\ Step(r, "handoff", "ready")
    /\ handoff' = handoff \cup {r}
    /\ WorkerFrame
    /\ UNCHANGED <<state, lease, started, result, evidence, receipt, lockFile, lock,
                   wlease, child, wasValid, broken>>

MarkReady(r) == Proceed(r, "ready", "release", "EVIDENCE_COLLECTED", "HANDOFF_READY")

\* The finally clause: give back the lease read at the start, then the lock.
ReleaseLease(r) ==
    /\ Step(r, "release", "unlock")
    /\ lease' = IF wlease[r] /\ lease = r THEN NoRun ELSE lease
    /\ WorkerFrame
    /\ UNCHANGED <<state, started, result, evidence, handoff, receipt, lockFile, lock,
                   wlease, child, wasValid, broken>>

Unlock(r) ==
    /\ Step(r, "unlock", "gone")
    /\ lock' = [lock EXCEPT ![r] = "free"]
    /\ WorkerFrame
    /\ UNCHANGED <<state, lease, started, result, evidence, handoff, receipt, lockFile,
                   wlease, child, wasValid, broken>>

WorkerStep(r) ==
    \/ RequestUnreadable(r)
    \/ OpenLock(r) \/ TakeLock(r) \/ LockRefused(r) \/ RecordStarted(r) \/ ReadLease(r)
    \/ DriftAtLaunch(r) \/ StartRunning(r)
    \/ Launch(r) \/ LaunchFails(r) \/ NeverStarted(r) \/ ChildReturns(r)
    \/ RecordValid(r) \/ RecordInvalid(r) \/ EvidenceOfInvalid(r) \/ RejectResult(r)
    \/ MarkReceived(r) \/ SyncFails(r) \/ FailUnsynced(r)
    \/ EvidenceAccepted(r) \/ EvidenceRefused(r) \/ RejectEvidence(r) \/ MarkCollected(r)
    \/ RecordHandoff(r) \/ MarkReady(r) \/ ReleaseLease(r) \/ Unlock(r)

\* A store or file write fails while no child runs: the exception leaves _execute.
Executing == {"probe", "launch", "unstarted", "parse", "valid", "invalid", "reject", "sync",
              "unsynced", "collected", "disproved", "handoff", "ready"}
WorkerRaises(r) ==
    /\ wpc[r] \in Executing
    /\ Step(r, wpc[r], "release")
    /\ broken' = broken \cup {r}
    /\ WorkerFrame
    /\ UNCHANGED <<state, lease, started, result, evidence, handoff, receipt, lockFile, lock,
                   wlease, child, wasValid>>

\* The process dies; the kernel drops its lock, its child runs on.
WorkerDies(r) ==
    /\ wpc[r] \notin {"none", "gone"}
    /\ Step(r, wpc[r], "gone")
    /\ lock' = [lock EXCEPT ![r] = IF @ = "worker" THEN "free" ELSE @]
    /\ broken' = broken \cup {r}
    /\ WorkerFrame
    /\ UNCHANGED <<state, lease, started, result, evidence, handoff, receipt, lockFile,
                   wlease, child, wasValid>>

ChildEnds(r) ==
    /\ child[r] = "running"
    /\ child' = [child EXCEPT ![r] = "ended"]
    /\ UNCHANGED <<rows, files, dispatchers, wpc, wlease, reconcilers, canceller, history>>

----------------------------------------------------------------------------
(* reconcile_run(): one reading after another, a classification, and what   *)
(* follows from it.                                                         *)

\* What the transitions and the lease block may follow from.
Verdict(target, auto) == [target |-> target, auto |-> auto]
Leave == Verdict("NONE", FALSE)

\* exit.json is there: the worker saw the child end.
WithReceipt(k, write) ==
    IF k.receipt = "unstarted" THEN Verdict("WORKER_FAILED", TRUE)
    ELSE IF k.valid THEN Verdict("INTERRUPTED", FALSE)
    ELSE IF k.receipt = "nonzero" THEN Verdict("CLAUDE_FAILED", FALSE)
    ELSE IF write \/ k.changed THEN Verdict("AMBIGUOUS_EXECUTION", FALSE)
    ELSE Verdict("INTERRUPTED", FALSE)

\* Slip: a dead worker's run is incomplete, whatever it could write.
SlipDeadIsInterrupted(k, write) ==
    IF k.live = "UNKNOWN" THEN Verdict("AMBIGUOUS_EXECUTION", FALSE)
    ELSE IF ~k.started THEN Verdict("WORKER_FAILED", TRUE)
    ELSE Verdict("INTERRUPTED", FALSE)

\* Slip: an unknown liveness is left for a later pass.
SlipHoldUnknown(k, write) ==
    IF k.live = "UNKNOWN" THEN Leave
    ELSE IF ~k.started THEN Verdict("WORKER_FAILED", TRUE)
    ELSE IF write \/ k.changed THEN Verdict("AMBIGUOUS_EXECUTION", FALSE)
    ELSE Verdict("INTERRUPTED", FALSE)

WithoutReceipt(k, write) ==
    IF k.live = "UNKNOWN" THEN Verdict("AMBIGUOUS_EXECUTION", FALSE)
    ELSE IF ~k.started THEN Verdict("WORKER_FAILED", TRUE)
    ELSE IF write \/ k.changed THEN Verdict("AMBIGUOUS_EXECUTION", FALSE)
    ELSE Verdict("INTERRUPTED", FALSE)

\* What of the run's state the classification looks at.
Phase(s) ==
    IF s \in Terminal THEN "terminal"
    ELSE IF s \in {"CREATED", "PREFLIGHT", "LEASED"} THEN "unspawned" ELSE "later"

\* NEVER_DISPATCHED: no worker row, in a state before the spawn.
NeverDispatched(k, workerRow) ==
    ~workerRow /\ k.phase = "unspawned" /\ k.receipt = "none"

Classify(k, write, workerRow) ==
    IF k.phase = "terminal" THEN Leave
    ELSE IF NeverDispatched(k, workerRow) THEN Verdict("NONE", TRUE)
    ELSE IF k.live = "ALIVE" THEN Leave
    ELSE IF k.receipt # "none" THEN WithReceipt(k, write)
    ELSE WithoutReceipt(k, write)

RStep(c, from, to) == rpc[c] = from /\ rpc' = [rpc EXCEPT ![c] = to] /\ UNCHANGED rrun
See(c, k) == seen' = [seen EXCEPT ![c] = k]
Finish(c) ==
    /\ rpc' = [rpc EXCEPT ![c] = "idle"]
    /\ rrun' = [rrun EXCEPT ![c] = NoRun]
    /\ See(c, Unseen)

ReadFrame == UNCHANGED <<rows, files, dispatchers, workers, canceller, history>>

BeginReconcile(c, r) ==
    /\ rpc[c] = "idle"
    /\ state[r] # "NONE"
    /\ rpc' = [rpc EXCEPT ![c] = "worker"]
    /\ rrun' = [rrun EXCEPT ![c] = r]
    /\ See(c, [Unseen EXCEPT !.phase = Phase(state[r])])
    /\ ReadFrame

SeeWorker(c) ==
    /\ RStep(c, "worker", "receipt")
    /\ See(c, [seen[c] EXCEPT !.started = rrun[c] \in started])
    /\ ReadFrame

SeeReceipt(c) ==
    /\ RStep(c, "receipt", "result")
    /\ See(c, [seen[c] EXCEPT !.receipt = receipt[rrun[c]]])
    /\ ReadFrame

SeeResult(c) ==
    /\ RStep(c, "result", "evidence")
    /\ See(c, [seen[c] EXCEPT !.valid = (result[rrun[c]] = "valid")])
    /\ ReadFrame

\* The evidence row, then read_liveness's own reading of the worker row.
SeeEvidence(c) ==
    /\ RStep(c, "evidence", "probe")
    /\ See(c, [seen[c] EXCEPT !.changed = evidence[rrun[c]].changed,
                              !.pid = rrun[c] \in started])
    /\ ReadFrame

\* proc.observe, with the worker's identity as just read.  The lock file may
\* be absent or refuse to open; a free lock is taken for a moment.
CannotProbe(c, from, to) ==
    /\ RStep(c, from, to)
    /\ See(c, [seen[c] EXCEPT !.live = "UNKNOWN"])
    /\ ReadFrame

FindHeld(c, from, to) ==
    /\ rrun[c] \in lockFile /\ lock[rrun[c]] # "free"
    /\ RStep(c, from, to)
    /\ See(c, [seen[c] EXCEPT !.live = "ALIVE"])
    /\ ReadFrame

ProbeLock(c, from, hold) ==
    /\ rrun[c] \in lockFile /\ lock[rrun[c]] = "free"
    /\ RStep(c, from, hold)
    /\ lock' = [lock EXCEPT ![rrun[c]] = "probe"]
    /\ UNCHANGED <<rows, request, receipt, lockFile, dispatchers, workers, seen, canceller,
                   history>>

\* The lock was free: DEAD only when the recorded process is gone as well.
FinishProbe(c, hold, to) ==
    /\ RStep(c, hold, to)
    /\ lock' = [lock EXCEPT ![rrun[c]] = "free"]
    /\ See(c, [seen[c] EXCEPT !.live =
                 IF seen[c].pid /\ wpc[rrun[c]] = "gone" THEN "DEAD" ELSE "UNKNOWN"])
    /\ UNCHANGED <<rows, request, receipt, lockFile, dispatchers, workers, canceller, history>>

\* The last reading, whether there is a worker row at all, and the verdict.
Conclude(c) ==
    /\ rpc[c] = "classify"
    /\ LET v == Classify(seen[c], rrun[c] \in Writes, rrun[c] \in spawned \cup started)
       IN  /\ cleared' = IF v.auto THEN cleared \cup {rrun[c]} ELSE cleared
           /\ \/ /\ v.target # "NONE"
                 /\ rpc' = [rpc EXCEPT ![c] = "apply"]
                 /\ See(c, [Unseen EXCEPT !.target = v.target])
                 /\ UNCHANGED rrun
              \/ v.target = "NONE" /\ Finish(c)
    /\ UNCHANGED <<rows, files, dispatchers, workers, canceller, wasValid, broken>>

\* No expect_from: any active state will do.
ApplyVerdict(c) ==
    /\ RStep(c, "apply", "readLease")
    /\ Settle(rrun[c], seen[c].target)
    /\ UNCHANGED <<lease, spawned, started, result, evidence, handoff, files, dispatchers,
                   workers, seen, canceller, history>>

SeeLease(c) ==
    /\ rpc[c] = "readLease"
    /\ \/ /\ lease = rrun[c]
          /\ rpc' = [rpc EXCEPT ![c] = "reprobe"]
          /\ See(c, [Unseen EXCEPT !.pid = rrun[c] \in started])
          /\ UNCHANGED rrun
       \/ lease # rrun[c] /\ Finish(c)
    /\ ReadFrame

\* Slip: a terminal run is enough to reclaim its lease.
SlipReclaimTerminal(c) ==
    /\ rpc[c] = "reclaim"
    /\ lease' = IF lease = rrun[c] /\ state[rrun[c]] \in Terminal THEN NoRun ELSE lease
    /\ Finish(c)
    /\ UNCHANGED <<state, spawned, started, result, evidence, handoff, files, dispatchers,
                   workers, canceller, history>>

\* may_reclaim: the holder provably dead and its run terminal.
Reclaim(c) ==
    /\ rpc[c] = "reclaim"
    /\ lease' = IF /\ lease = rrun[c]
                   /\ seen[c].live = "DEAD"
                   /\ state[rrun[c]] \in Terminal
                THEN NoRun ELSE lease
    /\ Finish(c)
    /\ UNCHANGED <<state, spawned, started, result, evidence, handoff, files, dispatchers,
                   workers, canceller, history>>

Probing(c) ==
    \/ CannotProbe(c, "probe", "classify") \/ CannotProbe(c, "reprobe", "reclaim")
    \/ FindHeld(c, "probe", "classify") \/ FindHeld(c, "reprobe", "reclaim")
    \/ ProbeLock(c, "probe", "probing") \/ ProbeLock(c, "reprobe", "reprobing")
    \/ FinishProbe(c, "probing", "classify") \/ FinishProbe(c, "reprobing", "reclaim")

ReconcilerStep(c) ==
    \/ SeeWorker(c) \/ SeeReceipt(c) \/ SeeResult(c) \/ SeeEvidence(c)
    \/ Probing(c) \/ Conclude(c) \/ ApplyVerdict(c) \/ SeeLease(c) \/ Reclaim(c)

----------------------------------------------------------------------------
(* cancel over the transport: it reads the run, then the worker row, and    *)
(* applies CANCELLED only when no spawn is on record.  The two readings are *)
(* one step: a run that has left its active states stays out of them, and   *)
(* the transition itself refuses what the first reading would have refused. *)

CancelFrame ==
    UNCHANGED <<lease, spawned, started, result, evidence, handoff, files, dispatchers,
                workers, reconcilers, history>>

\* stage_for and classify_cancel: CANCELLED before a worker was spawned; from then
\* on nothing this handler measures lets it claim that.
MayCancel(r) == state[r] \in Active /\ r \notin spawned

BeginCancel(r) ==
    /\ Cancels /\ cpc = "idle"
    /\ MayCancel(r)
    /\ cpc' = "apply" /\ crun' = r
    /\ UNCHANGED state /\ CancelFrame

ApplyCancel ==
    /\ cpc = "apply"
    /\ Settle(crun, "CANCELLED")
    /\ cpc' = "idle" /\ crun' = NoRun
    /\ CancelFrame

----------------------------------------------------------------------------
Next ==
    \/ \E d \in Dispatchers :
         (\E r \in Runs : Admit(d, r)) \/ DispatcherStep(d) \/ DispatcherDies(d)
    \/ \E r \in Runs : WorkerStep(r) \/ WorkerRaises(r) \/ WorkerDies(r) \/ ChildEnds(r)
    \/ \E c \in Reconcilers :
         (\E r \in Runs : BeginReconcile(c, r)) \/ ReconcilerStep(c)
    \/ (\E r \in Runs : BeginCancel(r)) \/ ApplyCancel

Spec == Init /\ [][Next]_vars

Running(r) == child[r] = "running"
Watched(r) == wpc[r] # "gone"

\* A process that is alive takes its next step; the executor's timeout ends a
\* child its worker waits for; reconcile_all visits every active run on each of
\* its passes.
Fairness ==
    /\ \A d \in Dispatchers : WF_vars(DispatcherStep(d))
    /\ \A r \in Runs : WF_vars(WorkerStep(r)) /\ WF_vars(Watched(r) /\ ChildEnds(r))
    /\ \A c \in Reconcilers :
         /\ WF_vars(ReconcilerStep(c))
         /\ \A r \in Runs : SF_vars(BeginReconcile(c, r))

FairSpec == Spec /\ Fairness
----------------------------------------------------------------------------
DispatcherPCs == {"idle", "created", "gates", "overCeiling", "lease", "leasing",
                  "noLease", "drift", "dispatch", "spawn", "record"}
WorkerPCs == Executing \cup {"none", "boot", "lock", "identify", "readLease", "wait",
                             "release", "unlock", "gone"}
ReconcilerPCs == {"idle", "worker", "receipt", "result", "evidence", "probe", "probing",
                  "classify", "apply", "readLease", "reprobe", "reprobing", "reclaim"}
States == Active \cup Terminal \cup {"NONE"}
Receipts == {"none", "unstarted", "ran", "nonzero"}
Sightings == [phase: {"terminal", "unspawned", "later"}, started: BOOLEAN,
              receipt: Receipts, valid: BOOLEAN, changed: BOOLEAN, pid: BOOLEAN,
              live: {"ALIVE", "DEAD", "UNKNOWN"}, target: Refusals \cup {"NONE"}]

RowsOK ==
    /\ state \in [Runs -> States]
    /\ lease \in Runs \cup Earlier \cup {NoRun}
    /\ spawned \subseteq Runs /\ started \subseteq Runs /\ handoff \subseteq Runs
    /\ result \in [Runs -> {"none", "valid", "invalid"}]
    /\ evidence \in [Runs -> [ok: BOOLEAN, changed: BOOLEAN]]
FilesOK ==
    /\ request \subseteq Runs /\ lockFile \subseteq Runs
    /\ receipt \in [Runs -> Receipts]
    /\ lock \in [Runs -> {"free", "worker", "probe"}]
DispatchersOK ==
    /\ dpc \in [Dispatchers -> DispatcherPCs]
    /\ drun \in [Dispatchers -> Runs \cup {NoRun}]
    /\ \A d \in Dispatchers : dpc[d] = "idle" <=> drun[d] = NoRun
WorkersOK ==
    /\ wpc \in [Runs -> WorkerPCs]
    /\ wlease \in [Runs -> BOOLEAN]
    /\ child \in [Runs -> {"none", "running", "ended"}]
ReconcilersOK ==
    /\ rpc \in [Reconcilers -> ReconcilerPCs]
    /\ rrun \in [Reconcilers -> Runs \cup {NoRun}]
    /\ \A c \in Reconcilers : rpc[c] = "idle" <=> rrun[c] = NoRun
    /\ seen \in [Reconcilers -> Sightings]
CancelOK ==
    /\ cpc \in {"idle", "apply"} /\ crun \in Runs \cup {NoRun}
    /\ cpc = "idle" <=> crun = NoRun
HistoryOK == wasValid \subseteq Runs /\ broken \subseteq Runs /\ cleared \subseteq Runs

\* Every variable holds a value of its kind: the columns of the run ledger, the
\* files of a run directory and what each process has in hand.
TypeOK ==
    RowsOK /\ FilesOK /\ DispatchersOK /\ WorkersOK /\ ReconcilersOK /\ CancelOK /\ HistoryOK

\* The concurrency ceiling is one real child at a time.  Nothing locks the
\* census: two dispatchers may take it at once, and it holds only because a run
\* is on the books before its own census and stays active while its child runs.
OneRealChild == \A q, r \in Real : Running(q) /\ Running(r) => q = r

\* Two dispatchers racing on one dispatch key never start two workers: the
\* admission transaction shows the loser the winner's row.
OneWorkerPerKey == [][\A r \in Runs : wpc'[r] = "boot" => wpc[r] \in {"none", "boot"}]_vars

\* Every run ends but one whose dispatcher failed before it was DISPATCHED: from
\* there on its worker or a reconciler gives it a verdict although both its
\* dispatcher and its worker may die.  And a run that no process failed and
\* no cancel ended gives the worktree back: no path between the lease and the
\* verdict forgets to release it.
RunsSettle ==
    \A r \in Runs :
        state[r] # "NONE" ~>
            \/ state[r] \in Terminal /\ (lease # r \/ r \in broken \/ state[r] = "CANCELLED")
            \/ state[r] \in {"CREATED", "PREFLIGHT", "LEASED"} /\ r \in broken

\* A leased run's child never runs under its worker without the lease: neither
\* the ladder's release, nor a reclaim on stale readings, nor a cancel, nor the
\* death of a dispatcher takes the worktree from a worker that is still there.
WriterHoldsLease ==
    \A r \in NeedsLease : Running(r) /\ Watched(r) => lease = r

\* A handoff is ready only behind a valid result that was not taken back, an
\* accepted measurement of the worktree, and a receipt of a child that ran and
\* ended, whatever reconcilers and cancels did in between.  And INTERRUPTED says the
\* execution is incomplete, not uncertain: a run that could write gets it only if a
\* valid result of it was on record, though the readings behind the verdict were
\* taken one by one while the worker may have been moving.
HandoffIsBacked ==
    /\ \A r \in Runs : state[r] = "HANDOFF_READY" =>
           /\ result[r] = "valid" /\ evidence[r].ok
           /\ receipt[r] \notin {"none", "unstarted"} /\ child[r] = "ended"
           /\ r \in handoff
    /\ \A r \in Writes : state[r] = "INTERRUPTED" => r \in wasValid

=============================================================================
