---------------------------- MODULE McpTransport ----------------------------
(****************************************************************************)
(* The MCP transport: a threaded server in front of the run store it shares  *)
(* with the command line (transports/mcp).  A call is authenticated, opened  *)
(* in the transport's ledger, validated, handled by the verbs below it,      *)
(* scanned and closed; the runs the transport may see are the ones its own   *)
(* ledger says it dispatched.                                                *)
(****************************************************************************)
EXTENDS Naturals, Sequences, FiniteSets

CONSTANTS
    Threads, Keys,
    MaxCalls,      \* calls the ledger has a row for
    MaxLocal,      \* runs other surfaces dispatch
    MaxEvents      \* restarts and mode settings

VARIABLES
    mode, modeFile, \* the mode the server resolved at construction; the deployment's file
    rows,           \* the transport ledger
    runs,           \* the run store
    call,           \* thread -> the call it is handling
    acted,          \* history: the runs some call changed or showed
    local, events

vars == <<mode, modeFile, rows, runs, call, acted, local, events>>

deployment == <<mode, modeFile>>
counts == <<local, events>>

Modes == {"QUALIFICATION_ONLY", "LOCAL_GOVERNED"}
Tools == {"dispatch", "show", "cancel", "reconcile"}

Idle == [pc |-> "idle", tool |-> "", arg |-> 0, row |-> 0,
         run |-> 0, seen |-> {}, ok |-> TRUE]

Init ==
    /\ mode = "QUALIFICATION_ONLY" /\ modeFile = mode
    /\ rows = <<>> /\ runs = <<>> /\ acted = {}
    /\ call = [t \in Threads |-> Idle]
    /\ local = 0 /\ events = 0

----------------------------------------------------------------------------
(* The ledger.                                                              *)

Opened == [mode |-> mode, disp |-> "OPEN", run |-> 0, key |-> 0]

\* Runs in the transport's scope: those its own ledger accepted a call for.
OwnedRunIds == {rows[i].run : i \in {j \in DOMAIN rows : rows[j].disp = "ACCEPTED"}} \ {0}

Closed(t, disp, run, key) ==
    rows' = [rows EXCEPT ![call[t].row] =
                [mode |-> @.mode, disp |-> disp, run |-> run, key |-> key]]

----------------------------------------------------------------------------
(* One message: authentication, the ledger row, validation.                 *)

Unauthenticated ==
    /\ Len(rows) < MaxCalls
    /\ rows' = Append(rows, [Opened EXCEPT !.disp = "UNAUTHENTICATED"])
    /\ UNCHANGED <<deployment, runs, call, acted, counts>>

Open(t, tool, arg) ==
    /\ call[t].pc = "idle" /\ Len(rows) < MaxCalls
    /\ rows' = Append(rows, Opened)
    /\ call' = [call EXCEPT ![t] = [Idle EXCEPT !.pc = "begin", !.tool = tool, !.arg = arg,
                                               !.row = Len(rows) + 1]]
    /\ UNCHANGED <<deployment, runs, acted, counts>>

Finish(t, disp, run, key) ==
    /\ Closed(t, disp, run, key)
    /\ call' = [call EXCEPT ![t] = Idle]

\* The closed schema refuses, or the channel is read-only and the tool is not.
Refused(t) ==
    /\ call[t].pc = "begin"
    /\ Finish(t, "REFUSED", 0, 0)
    /\ UNCHANGED <<deployment, runs, acted, counts>>

\* The mode's gate refuses the executor or the profile before the ladder is reached.
ModeRefuses(t) ==
    /\ call[t].pc = "begin" /\ call[t].tool = "dispatch"
    /\ Finish(t, "REFUSED", 0, 0)
    /\ UNCHANGED <<deployment, runs, acted, counts>>

MayRun(t) == call[t].pc = "begin"
Goes(t, p) == call' = [call EXCEPT ![t].pc = p]

----------------------------------------------------------------------------
(* orchestrator_dispatch: the admission ladder of the dispatcher.           *)

NewRun(k, by) ==
    [key |-> k, by |-> by, state |-> "preflight", worker |-> "none", recorded |-> FALSE]
RunsFor(k) == {r \in DOMAIN runs : runs[r].key = k}
ActiveRuns == {r \in DOMAIN runs : runs[r].state \in {"preflight", "dispatched"}}

\* Slip: a key whose run has ended is free again.
SlipHolder(k) == RunsFor(k) \cap ActiveRuns

\* The run that has a dispatch key already.
Holder(k) == RunsFor(k)

\* Slip: a run that was never started is started for the call that found it.
SlipDuplicate(t) ==
    /\ MayRun(t) /\ call[t].tool = "dispatch"
    /\ \E r \in Holder(call[t].arg) :
           call' = [call EXCEPT ![t].run = r,
                        ![t].pc = IF mode = "LOCAL_GOVERNED" /\ runs[r].state = "preflight"
                                  THEN "ladder" ELSE "close"]
    /\ UNCHANGED <<deployment, rows, runs, acted, counts>>

\* The key is taken: its run is the answer, whatever became of it and whoever made it.
Duplicate(t) ==
    /\ MayRun(t) /\ call[t].tool = "dispatch"
    /\ \E r \in Holder(call[t].arg) :
           call' = [call EXCEPT ![t].pc = "close", ![t].run = r]
    /\ UNCHANGED <<deployment, rows, runs, acted, counts>>

Admit(t) ==
    /\ MayRun(t) /\ call[t].tool = "dispatch" /\ Holder(call[t].arg) = {}
    /\ runs' = Append(runs, NewRun(call[t].arg, call[t].row))
    /\ call' = [call EXCEPT ![t].pc = "ladder", ![t].run = Len(runs) + 1]
    /\ UNCHANGED <<deployment, rows, acted, counts>>

\* Authority, preflight, concurrency, lease or drift refuses.
LadderRefuses(t) ==
    /\ call[t].pc = "ladder" /\ runs[call[t].run].state = "preflight"
    /\ runs' = [runs EXCEPT ![call[t].run].state = "refused"]
    /\ call' = [call EXCEPT ![t].pc = "close", ![t].ok = FALSE]
    /\ UNCHANGED <<deployment, rows, acted, counts>>

\* The qualification dispatch ends here, with spawn=False: no worker, and nothing else either.
Inert(t) ==
    /\ call[t].pc = "ladder" /\ mode = "QUALIFICATION_ONLY"
    /\ Goes(t, "close")
    /\ UNCHANGED <<deployment, rows, runs, acted, counts>>

Spawn(t) ==
    /\ call[t].pc = "ladder" /\ mode = "LOCAL_GOVERNED"
    /\ runs[call[t].run].state = "preflight"
    /\ runs' = [runs EXCEPT ![call[t].run].state = "dispatched", ![call[t].run].worker = "alive"]
    /\ Goes(t, "record")
    /\ UNCHANGED <<deployment, rows, acted, counts>>

RecordSpawn(t) ==
    /\ call[t].pc = "record"
    /\ runs' = [runs EXCEPT ![call[t].run].recorded = TRUE]
    /\ Goes(t, "close")
    /\ UNCHANGED <<deployment, rows, acted, counts>>

\* A run another call cancelled cannot be dispatched: the ladder raises.
LadderRaises(t) ==
    /\ call[t].pc = "ladder" /\ runs[call[t].run].state # "preflight"
    /\ Finish(t, "FAILED", 0, 0)
    /\ UNCHANGED <<deployment, runs, acted, counts>>

----------------------------------------------------------------------------
(* The other verbs, on runs in scope.                                       *)

InScope(t) == call[t].tool \in {"show", "cancel"} /\ call[t].arg \in OwnedRunIds

NotFound(t) ==
    /\ MayRun(t) /\ call[t].tool \in {"show", "cancel"} /\ ~InScope(t)
    /\ Finish(t, "REFUSED", call[t].arg, 0)
    /\ UNCHANGED <<deployment, runs, acted, counts>>

ShowsStatus(t) ==
    /\ MayRun(t) /\ InScope(t) /\ call[t].tool = "show"
    /\ call' = [call EXCEPT ![t].pc = "close", ![t].run = call[t].arg]
    /\ acted' = acted \cup {call[t].arg}
    /\ UNCHANGED <<deployment, rows, runs, counts>>

\* A result and a fetch want the run's handoff.
ShowsHandoff(t) ==
    /\ MayRun(t) /\ InScope(t) /\ call[t].tool = "show"
    /\ call' = [call EXCEPT ![t].pc = "close", ![t].run = call[t].arg,
                            ![t].ok = runs[call[t].arg].state = "done"]
    /\ acted' = acted \cup {call[t].arg}
    /\ UNCHANGED <<deployment, rows, runs, counts>>

\* Cancel classifies what it reads: only where no spawn is on record is the run CANCELLED.
Looks(t) ==
    /\ MayRun(t) /\ InScope(t) /\ call[t].tool = "cancel"
    /\ LET r == runs[call[t].arg]
           clean == call[t].arg \in ActiveRuns /\ ~r.recorded
       IN call' = [call EXCEPT ![t].pc = IF clean THEN "cancel" ELSE "close",
                               ![t].run = call[t].arg]
    /\ UNCHANGED <<deployment, rows, runs, acted, counts>>

Cancels(t) ==
    /\ call[t].pc = "cancel" /\ Goes(t, "close")
    /\ runs' = IF call[t].run \in ActiveRuns
               THEN [runs EXCEPT ![call[t].run].state = "cancelled"] ELSE runs
    /\ acted' = acted \cup {call[t].run}
    /\ UNCHANGED <<deployment, rows, counts>>

\* Slip: reconcile walks the store.
SlipTargets == DOMAIN runs

Targets == OwnedRunIds

Scopes(t) ==
    /\ MayRun(t) /\ call[t].tool = "reconcile"
    /\ call' = [call EXCEPT ![t].pc = "reconcile", ![t].seen = Targets]
    /\ UNCHANGED <<deployment, rows, runs, acted, counts>>

Reconciles(t) ==
    /\ call[t].pc = "reconcile"
    /\ IF call[t].seen = {} THEN Goes(t, "close") /\ UNCHANGED <<runs, acted>>
       ELSE \E r \in call[t].seen :
              /\ call' = [call EXCEPT ![t].seen = @ \ {r}]
              /\ acted' = acted \cup {r}
              /\ runs' = IF r \in ActiveRuns /\ runs[r].worker = "dead"
                         THEN [runs EXCEPT ![r].state = "unknown"] ELSE runs
    /\ UNCHANGED <<deployment, rows, counts>>

----------------------------------------------------------------------------
(* The answer.                                                              *)

Close(t) ==
    /\ call[t].pc = "close"
    /\ Finish(t, IF call[t].ok THEN "ACCEPTED" ELSE "REFUSED", call[t].run,
              IF call[t].tool = "dispatch" THEN call[t].arg ELSE 0)
    /\ UNCHANGED <<deployment, runs, acted, counts>>

\* The payload fails its own scan: what the call did stands, and the row names no run.
ScanFails(t) ==
    /\ call[t].pc = "close"
    /\ Finish(t, "FAILED", 0, 0)
    /\ UNCHANGED <<deployment, runs, acted, counts>>

Raises(t) ==
    /\ call[t].pc \in {"begin", "reconcile", "cancel", "record"}
    /\ Finish(t, "FAILED", 0, 0)
    /\ UNCHANGED <<deployment, runs, acted, counts>>

----------------------------------------------------------------------------
(* Everything else: workers, the command line, the owner, the machine.      *)

WorkerEnds(r) ==
    /\ runs[r].worker = "alive"
    /\ runs' = [runs EXCEPT ![r].worker = "dead",
                            ![r].state = IF @ = "dispatched" THEN "done" ELSE @]
    /\ UNCHANGED <<deployment, rows, call, acted, counts>>

WorkerDies(r) ==
    /\ runs[r].worker = "alive"
    /\ runs' = [runs EXCEPT ![r].worker = "dead"]
    /\ UNCHANGED <<deployment, rows, call, acted, counts>>

LocalDispatch(k) ==
    /\ local < MaxLocal /\ local' = local + 1 /\ Holder(k) = {}
    /\ runs' = Append(runs, [NewRun(k, 0) EXCEPT !.state = "dispatched", !.worker = "alive",
                                                 !.recorded = TRUE])
    /\ UNCHANGED <<deployment, rows, call, acted, events>>

WriteMode ==
    /\ events < MaxEvents /\ events' = events + 1
    /\ modeFile' \in Modes \ {modeFile}
    /\ UNCHANGED <<mode, rows, runs, call, acted, local>>

\* An unreadable or unknown file resolves to the qualification mode.
Restart ==
    /\ events < MaxEvents /\ events' = events + 1
    /\ mode' \in {modeFile, "QUALIFICATION_ONLY"}
    /\ call' = [t \in Threads |-> Idle]
    /\ UNCHANGED <<modeFile, rows, runs, acted, local>>

Args(tool) == CASE tool = "dispatch" -> Keys [] tool = "reconcile" -> {0}
                [] OTHER -> DOMAIN runs

Message(t) ==
    \E tool \in Tools : \E a \in Args(tool) : Open(t, tool, a)

Handle(t) ==
    \/ Refused(t) \/ ModeRefuses(t) \/ Duplicate(t) \/ Admit(t) \/ LadderRefuses(t)
    \/ Inert(t) \/ Spawn(t) \/ RecordSpawn(t) \/ LadderRaises(t) \/ NotFound(t)
    \/ ShowsStatus(t) \/ ShowsHandoff(t) \/ Looks(t) \/ Cancels(t) \/ Scopes(t)
    \/ Reconciles(t) \/ Close(t) \/ ScanFails(t) \/ Raises(t)

Next ==
    \/ \E t \in Threads : Message(t) \/ Handle(t)
    \/ \E r \in DOMAIN runs : WorkerEnds(r) \/ WorkerDies(r)
    \/ \E k \in Keys : LocalDispatch(k)
    \/ Unauthenticated \/ WriteMode \/ Restart

Spec == Init /\ [][Next]_vars

----------------------------------------------------------------------------
(* Properties.                                                              *)

\* However often a dispatch is repeated, on whichever threads, through lost answers and
\* restarts, its key has one run, and every call accepted for the key named that run
\* (ledger.py 6-12).
OneRunPerKey ==
    /\ \A r, q \in DOMAIN runs : runs[r].key = runs[q].key => r = q
    /\ \A i, j \in DOMAIN rows :
           (rows[i].key # 0 /\ rows[i].key = rows[j].key) => rows[i].run = rows[j].run

\* No call changes or shows a run that no dispatch call was answered with before it.
ScopeIsLedgered ==
    \A r \in acted : \E i \in DOMAIN rows :
        rows[i].key # 0 /\ rows[i].disp = "ACCEPTED" /\ rows[i].run = r

\* What was dispatched in the qualification mode never has a worker, though the mode changes,
\* the server restarts and the same key is dispatched again.
InertStaysInert ==
    \A r \in DOMAIN runs :
        (runs[r].by # 0 /\ rows[runs[r].by].mode = "QUALIFICATION_ONLY")
            => runs[r].worker = "none"
=============================================================================
