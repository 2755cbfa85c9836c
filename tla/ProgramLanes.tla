------------------------------ MODULE ProgramLanes ------------------------------
(***************************************************************************)
(* A program's lanes under the orchestrator (core/orchestrator.py) and the *)
(* strategic store it keeps them in (core/strategic_store.py).             *)
(*                                                                         *)
(* A tick is one process: it recovers dead workers, consumes finished      *)
(* runs, wakes answered lanes, integrates, schedules, and writes the       *)
(* program's status, one committed write after another, and it may die     *)
(* between any two.  Beside it run the workers of the runs it dispatched   *)
(* (core/worker.py), whoever answers an executor's question, and whoever   *)
(* cancels the program.  A lane's checkpoint is one JSON document that all *)
(* of them read, change and merge back.                                    *)
(*                                                                         *)
(* A run is a number, in order of dispatch; an executor asks at most one   *)
(* question in a run, so a question is named by its run.  RunLifecycle is  *)
(* the life of a single run; here a run only starts, syncs, ends or dies.  *)
(***************************************************************************)
EXTENDS Integers, FiniteSets

CONSTANTS
    Lanes,            \* the lanes of the program
    Code,             \* those of kind implementation; the others only report
    Requires,         \* pairs <<l, u>>: lane l REQUIRES lane u
    Merged,           \* lanes COMPLETE and PASS before the behaviour starts
    Late,             \* lanes that plan_lane may add once the program runs
    Reviews,          \* policy.require_adversarial
    MaxReviewCycles,  \* policy.max_review_cycles
    EscalationPasses, \* UNKNOWN_LIVENESS_ESCALATION_PASSES
    Ceiling,          \* policy.max_concurrent_executors
    MayAsk,           \* lanes whose executors may ask a question
    MayRefuse,        \* whether a dispatch may be refused at the dispatcher's gates
    MayFail,          \* whether an executor may fail
    CancelsBefore,    \* someone may cancel the program while fewer runs than this were dispatched
    MaxRuns, MaxCrashes, MaxDeaths, MaxAnswers, MaxMisreads
                      \* bounds: runs, ticks that die, workers that die, answers, failed probes

ASSUME LanesAssumption ==
    /\ IsFiniteSet(Lanes)
    /\ Code \subseteq Lanes /\ Merged \subseteq Lanes /\ Late \subseteq Lanes
    /\ MayAsk \subseteq Lanes /\ Merged \cap Late = {}
    /\ Requires \subseteq Lanes \X Lanes
    /\ {Reviews, MayRefuse, MayFail} \subseteq BOOLEAN
    /\ {MaxReviewCycles, EscalationPasses, Ceiling, CancelsBefore, MaxRuns, MaxCrashes, MaxDeaths,
        MaxAnswers, MaxMisreads} \subseteq Nat
    /\ EscalationPasses > 0 /\ Ceiling > 0

VARIABLES
    lane,      \* lane -> its row: state and verdict
    attempt,   \* lane -> lane_task.attempt
    ckpt,      \* lane -> lane_task.checkpoint_json: a function on the keys it holds
    runs,      \* run -> its lane, role, dispatch key, phase, and the head it started from
    bound,     \* runs with a lane_run row
    processed, \* those marked processed
    alive,     \* runs whose worker process lives
    lease,     \* lane -> the run that holds its worktree, or 0
    tree,      \* lane -> its worktree: commits made on it, and whether it is dirty
    asked,     \* runs whose question is on record
    answered,  \* those with answered_by set
    blockers,  \* lanes with a BLOCKER message
    status,    \* the program's status
    integration, \* the integration state and the lanes it merged
    pc, todo, rows, here, cur, doc, found, busy, statusIn, integ, \* the tick: where it is,
               \* what its loop has left, and what it has read
    wsnap,     \* run -> the checkpoint its worker read, while it is saving
    apc, aseen, alane,  \* the answer being recorded: where it is, and what it has read
    cancelling, \* whether cancel_program has begun and not ended
    crashes, deaths, answers, misreads, \* how often a tick died, a worker died, someone
               \* answered and a worker's lock could not be probed
    wakes,     \* history: lane -> times it was set PLANNED by an answer
    consumed   \* history: run -> times a tick began to consume it

rowsOf == <<lane, attempt, ckpt>>
ledger == <<runs, alive, lease, tree>>
book == <<bound, processed>>
talk == <<asked, answered, blockers>>
program == <<status, integration>>
tick == <<pc, todo, rows, here, cur, doc, found, busy, statusIn, integ>>
answer == <<apc, aseen, alane>>
faults == <<crashes, deaths, answers, misreads>>
history == <<wakes, consumed>>
vars == <<rowsOf, ledger, book, talk, program, tick, wsnap, answer, cancelling, faults, history>>

----------------------------------------------------------------------------
(* Lanes, runs and the checkpoint document.                                *)

LaneStates == {"UNPLANNED", "PLANNED", "ACTIVE", "WAITING_STRATEGIST", "WAITING_OWNER",
               "COMPLETE", "ABANDONED"}
Waiting == {"WAITING_STRATEGIST", "WAITING_OWNER"}
TerminalLane == {"COMPLETE", "ABANDONED"}
Roles == {"implementation", "report", "review"}

Runs == 1..MaxRuns
\* RESULT_INVALID, WORKER_FAILED, CLAUDE_FAILED and INTERRUPTED are FAILED here;
\* AMBIGUOUS_EXECUTION and OWNER_REQUIRED are AMBIGUOUS; every other refusal REFUSED.
Over == {"HANDOFF_READY", "FAILED", "AMBIGUOUS", "REFUSED"}
Active(n) == runs[n].phase \notin Over \cup {"none"}
NoLane == "none"
NoRow == [lane |-> NoLane, role |-> "report", key |-> <<0, 0>>, phase |-> "none", head |-> 0]

\* The keys of the checkpoint this model tells apart, and what reading an absent
\* one yields.  pending_wake is TRUE or, once spent, FALSE.
Absent == [awaiting |-> 0, wake |-> FALSE, asks |-> 0, seq |-> 0, held |-> FALSE, fix |-> FALSE,
           possible_write |-> FALSE, sync |-> 0, told |-> FALSE, merged |-> {},
           unknown |-> [run |-> 0, passes |-> 0, escalated |-> FALSE]]
NoKeys == [k \in {} |-> 0]
\* One key, and a document written over another: those of the TLC module, spelt out
\* here so that the provers can expand them too.
k :> v == [x \in {k} |-> v]
c @@ d == [x \in (DOMAIN c) \cup (DOMAIN d) |-> IF x \in DOMAIN c THEN c[x] ELSE d[x]]
Read(c, k) == (c @@ Absent)[k]
With(c, k, v) == (k :> v) @@ c

\* store.save_checkpoint merges by key: a key the caller does not hold stands.
Save(l, c) == ckpt' = [ckpt EXCEPT ![l] = c @@ @]
SaveKey(l, k, v) == Save(l, k :> v)

SetState(l, s) == lane' = [lane EXCEPT ![l].state = s]
SetVerdict(l, s, v) == lane' = [lane EXCEPT ![l] = [state |-> s, verdict |-> v]]

InFlight(l) == {n \in bound \ processed : runs[n].lane = l}
RoleOf(l) == IF l \in Code THEN "implementation" ELSE "report"
ReviewCycles(l) == Cardinality({n \in bound : runs[n].lane = l /\ runs[n].role = "review"})
Spent == {n \in Runs : runs[n].phase # "none"}
Fresh == Cardinality(Spent) + 1   \* the next run's number
RoomForRun == Cardinality(Spent) < MaxRuns

Init ==
    /\ lane = [l \in Lanes |->
                 IF l \in Merged THEN [state |-> "COMPLETE", verdict |-> "PASS"]
                 ELSE [state |-> IF l \in Late THEN "UNPLANNED" ELSE "PLANNED",
                       verdict |-> "NOT_EVALUATED"]]
    /\ attempt = [l \in Lanes |-> 0]
    /\ ckpt = [l \in Lanes |-> NoKeys]
    /\ runs = [n \in Runs |-> NoRow]
    /\ bound = {} /\ processed = {} /\ alive = {}
    /\ lease = [l \in Lanes |-> 0]
    /\ tree = [l \in Lanes |-> [head |-> 0, dirty |-> FALSE]]
    /\ asked = {} /\ answered = {} /\ blockers = {}
    /\ status = "PLANNED" /\ integration = [state |-> "NONE", lanes |-> {}]
    /\ pc = "idle" /\ todo = {} /\ rows = [l \in Lanes |-> "UNPLANNED"] /\ here = NoLane
    /\ cur = 0 /\ doc = NoKeys /\ found = FALSE /\ busy = 0
    /\ statusIn = "PLANNED" /\ integ = "none"
    /\ wsnap = [n \in Runs |-> NoKeys]
    /\ apc = "idle" /\ aseen = NoKeys /\ alane = NoLane
    /\ cancelling = FALSE /\ crashes = 0 /\ deaths = 0 /\ answers = 0 /\ misreads = 0
    /\ wakes = [l \in Lanes |-> 0] /\ consumed = [n \in Runs |-> 0]

----------------------------------------------------------------------------
(* The worker of one run, as far as the program sees it.                   *)

WorkerFrame == UNCHANGED <<attempt, book, blockers, answered, program, tick, answer,
                           cancelling, faults, wakes, consumed>>
Phase(n, p) == runs' = [runs EXCEPT ![n].phase = p]
LeaseOf(n) == IF lease[runs[n].lane] = n THEN [lease EXCEPT ![runs[n].lane] = 0] ELSE lease

\* An implementer changes its worktree.
Write(n) ==
    /\ n \in alive /\ runs[n].phase = "live" /\ runs[n].role = "implementation"
    /\ ~tree[runs[n].lane].dirty
    /\ tree' = [tree EXCEPT ![runs[n].lane].dirty = TRUE]
    /\ WorkerFrame /\ UNCHANGED <<lane, ckpt, runs, alive, lease, asked, wsnap>>

\* _sync_program_state: record the question, park the lane by its route, then
\* read the checkpoint and write the whole of it back.
RecordQuestion(n) ==
    /\ n \in alive /\ runs[n].phase = "live" /\ runs[n].lane \in MayAsk
    /\ asked' = asked \cup {n} /\ Phase(n, "asked")
    /\ WorkerFrame /\ UNCHANGED <<lane, ckpt, alive, lease, tree, wsnap>>
ParkLane(n) ==
    /\ n \in alive /\ runs[n].phase = "asked"
    /\ \E s \in Waiting : SetState(runs[n].lane, s)
    /\ Phase(n, "parked")
    /\ WorkerFrame /\ UNCHANGED <<ckpt, alive, lease, tree, asked, wsnap>>
ReadCheckpoint(n) ==
    /\ n \in alive /\ runs[n].phase \in {"live", "parked"}
    /\ wsnap' = [wsnap EXCEPT ![n] = ckpt[runs[n].lane]]
    /\ Phase(n, "saving")
    /\ WorkerFrame /\ UNCHANGED <<lane, ckpt, alive, lease, tree, asked>>
SaveCheckpoint(n) ==
    /\ n \in alive /\ runs[n].phase = "saving"
    /\ Save(runs[n].lane, With(wsnap[n], "awaiting", IF n \in asked THEN n ELSE 0))
    /\ wsnap' = [wsnap EXCEPT ![n] = NoKeys]
    /\ Phase(n, "synced")
    /\ WorkerFrame /\ UNCHANGED <<lane, alive, lease, tree, asked>>

\* The worker ends: with a handoff, by failing before or after the sync, or by
\* rejecting the evidence.  Its lease goes with it.
EndRun(n, p) ==
    /\ Phase(n, p) /\ alive' = alive \ {n} /\ lease' = LeaseOf(n)
    /\ wsnap' = [wsnap EXCEPT ![n] = NoKeys]
    /\ WorkerFrame /\ UNCHANGED <<lane, ckpt, tree, asked>>
HandOff(n) == n \in alive /\ runs[n].phase = "synced" /\ EndRun(n, "HANDOFF_READY")
RunFails(n) ==
    /\ MayFail /\ n \in alive
    /\ \/ runs[n].phase \in {"live", "asked", "parked", "saving"} /\ EndRun(n, "FAILED")
       \/ runs[n].phase = "synced" /\ EndRun(n, "REFUSED")

\* The worker process dies; its row stays active until somebody measures it.
WorkerDies(n) ==
    /\ deaths < MaxDeaths /\ n \in alive
    /\ alive' = alive \ {n} /\ deaths' = deaths + 1
    /\ wsnap' = [wsnap EXCEPT ![n] = NoKeys]
    /\ UNCHANGED <<rowsOf, runs, lease, tree, book, talk, program, tick, answer, cancelling,
                   crashes, answers, misreads, history>>

\* reconcile_run on a dead worker's run: a writer's outcome cannot be known.
Reconcile(n) ==
    /\ n \notin alive /\ Active(n)
    /\ Phase(n, IF runs[n].role = "implementation" THEN "AMBIGUOUS" ELSE "FAILED")
    /\ lease' = LeaseOf(n)
    /\ WorkerFrame /\ UNCHANGED <<lane, ckpt, alive, tree, asked, wsnap>>

Worker(n) ==
    \/ Write(n) \/ RecordQuestion(n) \/ ParkLane(n) \/ ReadCheckpoint(n)
    \/ SaveCheckpoint(n) \/ HandOff(n) \/ RunFails(n)

----------------------------------------------------------------------------
(* The transports: plan_lane, answer, cancel_program.                      *)

TransportFrame == UNCHANGED <<ledger, book, integration, tick, wsnap, crashes, deaths, misreads, consumed>>
Known == {l \in Lanes : lane[l].state # "UNPLANNED"}

PlanLane(l) ==
    /\ lane[l].state = "UNPLANNED"
    /\ \A u \in Lanes : <<l, u>> \in Requires => u \in Known
    /\ SetState(l, "PLANNED")
    /\ TransportFrame
    /\ UNCHANGED <<answers, attempt, ckpt, talk, status, answer, cancelling, wakes>>

\* What the inbox shows of a lane: its open questions, and its last BLOCKER
\* while it waits.
OpenQuestions(l) == {n \in asked \ answered : runs[n].lane = l}
OnInbox(l) == OpenQuestions(l) # {} \/ (lane[l].state \in Waiting /\ l \in blockers)

\* answer(): the decision, the DIRECTIVE and answered_by.
RecordAnswer(l) ==
    /\ apc = "idle" /\ OnInbox(l)
    /\ answers < MaxAnswers /\ answers' = answers + 1
    /\ \/ \E n \in OpenQuestions(l) : answered' = answered \cup {n}
       \/ lane[l].state \in Waiting /\ l \in blockers /\ UNCHANGED answered
    /\ apc' = "look" /\ alane' = l
    /\ TransportFrame
    /\ UNCHANGED <<rowsOf, asked, blockers, status, aseen, cancelling, wakes>>

\* It reads the lane: parked, it is woken; not parked yet, the wake is left in the
\* checkpoint for a later tick; over, the answer is only history.
LookAtLane ==
    /\ apc = "look"
    /\ LET s == lane[alane].state IN
         /\ apc' = CASE s \in Waiting -> "wake" [] s \in TerminalLane -> "idle" [] OTHER -> "note"
         /\ aseen' = IF s \in Waiting \cup TerminalLane THEN NoKeys ELSE ckpt[alane]
         /\ alane' = IF s \in TerminalLane THEN NoLane ELSE alane
    /\ TransportFrame
    /\ UNCHANGED <<answers, rowsOf, talk, status, cancelling, wakes>>
AnswerDone == apc' = "idle" /\ alane' = NoLane /\ aseen' = NoKeys
WakeLane ==
    /\ apc = "wake"
    /\ SetState(alane, "PLANNED")
    /\ wakes' = [wakes EXCEPT ![alane] = @ + 1]
    /\ AnswerDone /\ TransportFrame
    /\ UNCHANGED <<answers, attempt, ckpt, talk, status, cancelling>>
NoteWake ==
    /\ apc = "note"
    /\ Save(alane, With(aseen, "wake", TRUE))
    /\ AnswerDone /\ TransportFrame
    /\ UNCHANGED <<answers, lane, attempt, talk, status, cancelling, wakes>>

\* cancel_program: every lane that is not over, then the status.
CancelLanes ==
    /\ Cardinality(Spent) < CancelsBefore /\ ~cancelling /\ status # "CANCELLED"
    /\ lane' = [l \in Lanes |-> IF lane[l].state \in TerminalLane \cup {"UNPLANNED"} THEN lane[l]
                                ELSE [state |-> "ABANDONED", verdict |-> "FAIL"]]
    /\ cancelling' = TRUE
    /\ TransportFrame
    /\ UNCHANGED <<answers, attempt, ckpt, talk, status, answer, wakes>>
CancelStatus ==
    /\ cancelling
    /\ status' = "CANCELLED" /\ cancelling' = FALSE
    /\ TransportFrame
    /\ UNCHANGED <<answers, rowsOf, talk, answer, wakes>>

Transport ==
    \/ \E l \in Lanes : PlanLane(l) \/ RecordAnswer(l)
    \/ LookAtLane \/ WakeLane \/ NoteWake \/ CancelLanes \/ CancelStatus

----------------------------------------------------------------------------
(* The tick.  go(p): where it is next; the loops take their items one by one. *)

Go(p) == pc' = p
CallFrame == UNCHANGED <<answer, wsnap, cancelling, crashes, deaths, answers, asked, answered>>
TickFrame == CallFrame /\ UNCHANGED misreads
Blocker(l) == blockers' = blockers \cup {l}
Park(l, s) == SetState(l, s) /\ Blocker(l)
Rows == [l \in Lanes |-> lane[l].state]
NoRows == [l \in Lanes |-> "UNPLANNED"]
Listed(r) == {l \in Lanes : r[l] # "UNPLANNED"}
Loop(p, items) == Go(p) /\ todo' = items /\ rows' = Rows /\ busy' = 0

\* The phases of a tick in order.  A phase with nothing to do only reads, so it is
\* passed over; each begins by listing the lanes.
Due(r) == Code \cap Listed(r) # {} /\ \A l \in Listed(r) : r[l] \in TerminalLane
ToSchedule ==
    /\ Go("schedule") /\ todo' = {l \in Lanes : lane[l].state \in {"PLANNED", "ACTIVE"}}
    /\ rows' = Rows /\ busy' = Cardinality({n \in Runs : Active(n)})
ToIntegrate == IF Due(Rows) THEN Loop("integrate", {}) ELSE ToSchedule
ToWake ==
    LET parked == {l \in Lanes : lane[l].state \in Waiting}
    IN IF parked # {} THEN Loop("wake", parked) ELSE ToIntegrate
ToConsume == IF bound \ processed # {} THEN Loop("consume", bound \ processed) ELSE ToWake

TickBegins ==
    /\ pc = "idle" /\ status # "CANCELLED"
    /\ statusIn' = status
    /\ IF bound \ processed # {} THEN Loop("recover", bound \ processed) ELSE ToWake
    /\ TickFrame
    /\ UNCHANGED <<rowsOf, ledger, book, blockers, program, here, cur, doc, found, integ, history>>

PhaseFrame ==
    /\ TickFrame
    /\ UNCHANGED <<rowsOf, ledger, book, blockers, program, here, cur, doc, found, statusIn, integ,
                   history>>

TickDies ==
    /\ crashes < MaxCrashes /\ pc # "idle"
    /\ crashes' = crashes + 1 /\ UNCHANGED <<answers, misreads>> /\ Go("idle")
    /\ todo' = {} /\ here' = NoLane /\ cur' = 0 /\ doc' = NoKeys /\ found' = FALSE
    /\ busy' = 0 /\ integ' = "none" /\ rows' = NoRows /\ statusIn' = "PLANNED"
    /\ UNCHANGED <<rowsOf, ledger, book, talk, program, answer, wsnap,
                   cancelling, deaths, history>>

\* --- reap, first loop: the runs whose worker may be dead ---

RecoverFrame ==
    /\ CallFrame
    /\ UNCHANGED <<attempt, program, rows, here, found, busy, statusIn, integ, wakes, consumed>>
Readings(n) == IF n \in alive THEN {"ALIVE", "UNKNOWN"} ELSE {"DEAD", "UNKNOWN"}
Drop(n) == todo' = todo \ {n}
LaneOf(n) == runs[n].lane
\* An unprocessed run proves the last dependency sync succeeded.
SyncCleared(l) ==
    IF Read(ckpt[l], "sync") > 0 \/ Read(ckpt[l], "told")
    THEN ("sync" :> 0) @@ ("told" :> FALSE) @@ ckpt[l] ELSE ckpt[l]
NoMark == [run |-> 0, passes |-> 0, escalated |-> FALSE]
MarkOf(n) == LET m == Read(ckpt[LaneOf(n)], "unknown") IN IF m.run = n THEN m ELSE NoMark

\* A run that is over, or whose worker reads alive: nothing to recover, and the
\* count of unreadable passes starts again.
NothingToRecover(n) ==
    /\ pc = "recover" /\ n \in todo
    /\ Active(n) => "ALIVE" \in Readings(n)
    /\ LET c == SyncCleared(LaneOf(n)) IN
         ckpt' = [ckpt EXCEPT ![LaneOf(n)] =
                    IF Active(n) /\ Read(c, "unknown") # NoMark THEN With(c, "unknown", NoMark)
                    ELSE c]
    /\ Drop(n) /\ RecoverFrame
    /\ UNCHANGED <<misreads, lane, ledger, book, blockers, pc, cur, doc>>

\* _hold_unknown_liveness: the pass is counted; at the bound the lane is parked and
\* the blocker filed before the marker says so, and only once per run.
\* Slip: the marker goes first.
SlipHold(n) ==
    LET m == MarkOf(n)
        escalate == m.passes + 1 >= EscalationPasses
    IN /\ ckpt' = [ckpt EXCEPT ![LaneOf(n)] = With(@, "unknown",
                     [run |-> n, passes |-> m.passes + 1, escalated |-> escalate])]
       /\ doc' = "fix" :> Read(ckpt[LaneOf(n)], "fix")
       /\ Go("mark") /\ cur' = n /\ Drop(n) /\ UNCHANGED <<lane, blockers>>
Hold(n) ==
    LET m == MarkOf(n)
        escalate == m.passes + 1 >= EscalationPasses
    IN IF m.escalated
       THEN /\ ckpt' = [ckpt EXCEPT ![LaneOf(n)] = SyncCleared(LaneOf(n))]
            /\ Drop(n) /\ UNCHANGED <<lane, blockers, pc, cur, doc>>
       ELSE /\ IF escalate THEN Park(LaneOf(n), "WAITING_OWNER") ELSE UNCHANGED <<lane, blockers>>
            /\ ckpt' = [ckpt EXCEPT ![LaneOf(n)] = SyncCleared(LaneOf(n))]
            /\ doc' = "unknown" :> [run |-> n, passes |-> m.passes + 1, escalated |-> escalate]
            /\ Go("mark") /\ cur' = n /\ Drop(n)
HoldUnknown(n) ==
    /\ pc = "recover" /\ n \in todo /\ Active(n) /\ "UNKNOWN" \in Readings(n)
    /\ misreads < MaxMisreads /\ misreads' = misreads + 1
    /\ Hold(n) /\ RecoverFrame
    /\ UNCHANGED <<ledger, book>>
SaveMark ==
    /\ pc = "mark"
    /\ Save(LaneOf(cur), doc)
    /\ Go("recover") /\ cur' = 0 /\ doc' = NoKeys /\ RecoverFrame
    /\ UNCHANGED <<misreads, lane, ledger, book, blockers, todo>>

\* Provably dead.  An untouched worktree: the run is failed and its lease released,
\* each its own write.  A changed one: the run is ambiguous and the owner is asked.
Untouched(l) == ~tree[l].dirty /\ tree[l].head = 0
RecoverDead(n) ==
    /\ pc = "recover" /\ n \in todo /\ Active(n) /\ "DEAD" \in Readings(n)
    /\ Phase(n, IF Untouched(LaneOf(n)) THEN "FAILED" ELSE "AMBIGUOUS")
    /\ Go(IF Untouched(LaneOf(n)) THEN "release" ELSE "escalate")
    /\ ckpt' = [ckpt EXCEPT ![LaneOf(n)] = SyncCleared(LaneOf(n))]
    /\ cur' = n /\ Drop(n) /\ RecoverFrame
    /\ UNCHANGED <<misreads, doc, lane, alive, lease, tree, book, blockers>>
ReleaseDead ==
    /\ pc = "release"
    /\ lease' = LeaseOf(cur) /\ Go("recover") /\ cur' = 0
    /\ RecoverFrame
    /\ UNCHANGED <<misreads, lane, ckpt, runs, alive, tree, book, blockers, todo, doc>>
EscalateAmbiguous ==
    /\ pc = "escalate"
    /\ Park(LaneOf(cur), "WAITING_OWNER")
    /\ SaveKey(LaneOf(cur), "possible_write", TRUE)
    /\ Go("noted") /\ RecoverFrame
    /\ UNCHANGED <<misreads, ledger, book, todo, cur, doc>>
NoteAmbiguous ==
    /\ pc = "noted"
    /\ processed' = processed \cup {cur} /\ Go("recover") /\ cur' = 0
    /\ RecoverFrame
    /\ UNCHANGED <<misreads, lane, ckpt, ledger, bound, blockers, todo, doc>>
RecoverEnds ==
    /\ pc = "recover" /\ todo = {}
    /\ ToConsume
    /\ PhaseFrame

\* --- reap, second loop: the runs that are over ---

ConsumeFrame ==
    /\ TickFrame
    /\ UNCHANGED <<program, rows, busy, statusIn, integ, wakes>>

\* The run is marked processed before anything is done about it.  An abandoned
\* lane's run is only history.
\* Slip: a failed run is left for the next tick.
SlipTakeRun(n) ==
    /\ pc = "consume" /\ n \in todo /\ ~Active(n)
    /\ processed' = IF runs[n].phase = "FAILED" THEN processed ELSE processed \cup {n}
    /\ Drop(n)
    /\ IF rows[LaneOf(n)] = "ABANDONED"
       THEN UNCHANGED <<pc, cur, consumed>>
       ELSE /\ Go("judge") /\ cur' = n
            /\ consumed' = [consumed EXCEPT ![n] = @ + 1]
    /\ ConsumeFrame
    /\ UNCHANGED <<rowsOf, ledger, bound, blockers, here, doc, found>>
TakeRun(n) ==
    /\ pc = "consume" /\ n \in todo /\ ~Active(n)
    /\ processed' = processed \cup {n}
    /\ Drop(n)
    /\ IF rows[LaneOf(n)] = "ABANDONED"
       THEN UNCHANGED <<pc, cur, consumed>>
       ELSE /\ Go("judge") /\ cur' = n
            /\ consumed' = [consumed EXCEPT ![n] = @ + 1]
    /\ ConsumeFrame
    /\ UNCHANGED <<rowsOf, ledger, bound, blockers, here, doc, found>>
PassOver(n) ==
    /\ pc = "consume" /\ n \in todo /\ Active(n)
    /\ Drop(n) /\ ConsumeFrame
    /\ UNCHANGED <<rowsOf, ledger, book, blockers, pc, here, cur, doc, found, consumed>>

JudgeFrame == ConsumeFrame /\ UNCHANGED <<book, todo, here, consumed>>
NextRun == Go("consume") /\ cur' = 0
Judged(p) == pc = "judge" /\ runs[cur].phase = p /\ Read(ckpt[LaneOf(cur)], "awaiting") = 0

\* The checkpoint says the run paused to ask: its pipeline ends here.
CountQuestion ==
    /\ pc = "judge" /\ Read(ckpt[LaneOf(cur)], "awaiting") # 0
    /\ LET c == ckpt[LaneOf(cur)] IN Save(LaneOf(cur), With(c, "asks", Read(c, "asks") + 1))
    /\ NextRun /\ JudgeFrame
    /\ UNCHANGED <<lane, attempt, ledger, blockers, doc, found>>

\* Slip: the lane is parked and nobody is told.
SlipEscalate ==
    /\ Judged("AMBIGUOUS")
    /\ SetState(LaneOf(cur), "WAITING_OWNER")
    /\ NextRun /\ JudgeFrame
    /\ UNCHANGED <<attempt, ckpt, ledger, blockers, doc, found>>
EscalateEnded ==
    /\ Judged("AMBIGUOUS")
    /\ Park(LaneOf(cur), "WAITING_OWNER")
    /\ NextRun /\ JudgeFrame
    /\ UNCHANGED <<attempt, ckpt, ledger, doc, found>>
RefusedRun ==
    /\ Judged("REFUSED")
    /\ SetVerdict(LaneOf(cur), "WAITING_STRATEGIST", "FAIL")
    /\ NextRun /\ JudgeFrame
    /\ UNCHANGED <<attempt, ckpt, ledger, blockers, doc, found>>

\* A failed run: the worktree is reset and an attempt is spent, then the lane goes
\* back to PLANNED or, past the bound, to the strategist.
ResetWorktree ==
    /\ Judged("FAILED")
    /\ tree' = [tree EXCEPT ![LaneOf(cur)].dirty = FALSE]
    /\ attempt' = [attempt EXCEPT ![LaneOf(cur)] = @ + 1]
    /\ Go("retry") /\ JudgeFrame
    /\ UNCHANGED <<lane, ckpt, runs, alive, lease, blockers, cur, doc, found>>
\* Slip: the bound is one attempt late.
SlipRetry ==
    /\ pc = "retry"
    /\ IF attempt[LaneOf(cur)] > MaxReviewCycles + 2
       THEN Park(LaneOf(cur), "WAITING_STRATEGIST")
       ELSE SetState(LaneOf(cur), "PLANNED") /\ UNCHANGED blockers
    /\ NextRun /\ JudgeFrame
    /\ UNCHANGED <<attempt, ckpt, ledger, doc, found>>
Retry ==
    /\ pc = "retry"
    /\ IF attempt[LaneOf(cur)] > MaxReviewCycles + 1
       THEN Park(LaneOf(cur), "WAITING_STRATEGIST")
       ELSE SetState(LaneOf(cur), "PLANNED") /\ UNCHANGED blockers
    /\ NextRun /\ JudgeFrame
    /\ UNCHANGED <<attempt, ckpt, ledger, doc, found>>

\* LANE_HANDLERS.  A report: the run's verdict is the lane's.
\* Slip: a report whose evidence was rejected completes its lane too.
SlipCompleteReport ==
    /\ (Judged("HANDOFF_READY") \/ Judged("REFUSED")) /\ runs[cur].role = "report"
    /\ \E v \in {"PASS", "FAIL", "NOT_EVALUATED"} : SetVerdict(LaneOf(cur), "COMPLETE", v)
    /\ NextRun /\ JudgeFrame
    /\ UNCHANGED <<attempt, ckpt, ledger, blockers, doc, found>>
CompleteReport ==
    /\ Judged("HANDOFF_READY") /\ runs[cur].role = "report"
    /\ \E v \in {"PASS", "FAIL", "NOT_EVALUATED"} : SetVerdict(LaneOf(cur), "COMPLETE", v)
    /\ NextRun /\ JudgeFrame
    /\ UNCHANGED <<attempt, ckpt, ledger, blockers, doc, found>>

\* An implementation: commit what changed, verify, and review what was committed.
AfterImplementation ==
    /\ Judged("HANDOFF_READY") /\ runs[cur].role = "implementation"
    /\ LET l == LaneOf(cur)
           committed == tree[l].dirty
       IN /\ tree' = [tree EXCEPT ![l] = [head |-> @.head + IF committed THEN 1 ELSE 0,
                                          dirty |-> FALSE]]
          /\ doc' = ckpt[l]
          /\ Go(IF Reviews /\ committed THEN "verify" ELSE "check")
    /\ JudgeFrame
    /\ UNCHANGED <<lane, attempt, ckpt, runs, alive, lease, blockers, cur, found>>

\* The tests have run; the receipt goes into the checkpoint read before they did.
Verify ==
    /\ pc \in {"verify", "check"}
    /\ Save(LaneOf(cur), doc)
    /\ found' \in BOOLEAN
    /\ Go(IF pc = "verify" THEN "review" ELSE "resolve")
    /\ JudgeFrame
    /\ UNCHANGED <<lane, attempt, ledger, blockers, cur, doc>>

\* _dispatch_reviewer: the seat may be refused, the key may have been used, the
\* dispatcher may refuse; in each case the lane is parked with a blocker.
NewRun(l, role, key, phase) ==
    /\ RoomForRun
    /\ runs' = [runs EXCEPT ![Fresh] = [lane |-> l, role |-> role, key |-> key, phase |-> phase,
                                        head |-> tree[l].head]]
    /\ alive' = IF phase = "live" THEN alive \cup {Fresh} ELSE alive
    /\ lease' = IF phase = "live" /\ role = "implementation"
                THEN [lease EXCEPT ![l] = Fresh] ELSE lease
KeyUsed(l, role, key) ==
    \E n \in Spent : runs[n].lane = l /\ runs[n].role = role /\ runs[n].key = key
ReviewKey(l) == <<ReviewCycles(l), 0>>
ReviewNotDispatched ==
    /\ pc = "review"
    /\ LET l == LaneOf(cur) IN
         /\ \/ KeyUsed(l, "review", ReviewKey(l)) /\ UNCHANGED <<ckpt, runs, alive, lease>>
            \/ /\ MayRefuse /\ UNCHANGED <<runs, alive, lease>>
               /\ UNCHANGED ckpt \/ SaveKey(l, "fix", TRUE)
            \/ /\ MayRefuse /\ ~KeyUsed(l, "review", ReviewKey(l))
               /\ NewRun(l, "review", ReviewKey(l), "REFUSED") /\ UNCHANGED ckpt
         /\ Park(l, "WAITING_STRATEGIST")
    /\ Go("hold") /\ JudgeFrame
    /\ UNCHANGED <<attempt, tree, cur, doc, found>>
DispatchReview ==
    /\ pc = "review"
    /\ LET l == LaneOf(cur) IN
         /\ ~KeyUsed(l, "review", ReviewKey(l))
         /\ NewRun(l, "review", ReviewKey(l), "live")
         /\ cur' = Fresh
    /\ Go("bindreview") /\ JudgeFrame
    /\ UNCHANGED <<rowsOf, tree, blockers, doc, found>>
BindReview ==
    /\ pc = "bindreview"
    /\ bound' = bound \cup {cur}
    /\ Go("hold") /\ ConsumeFrame
    /\ UNCHANGED <<rowsOf, ledger, processed, blockers, todo, here, cur, doc, found, consumed>>

\* The findings of the verification wait in the checkpoint this handler read
\* before it began, and the lane is ACTIVE whatever became of the review.
HoldFindings ==
    /\ pc = "hold"
    /\ IF found THEN Save(LaneOf(cur), With(doc, "held", TRUE)) ELSE UNCHANGED ckpt
    /\ SetState(LaneOf(cur), "ACTIVE")
    /\ NextRun /\ doc' = NoKeys /\ found' = FALSE /\ JudgeFrame
    /\ UNCHANGED <<attempt, ledger, blockers>>

\* A review: its surviving findings and the ones held back.
AfterReview ==
    /\ Judged("HANDOFF_READY") /\ runs[cur].role = "review"
    /\ LET l == LaneOf(cur) IN
         /\ \E f \in BOOLEAN : found' = (f \/ Read(ckpt[l], "held"))
         /\ Save(l, With(ckpt[l], "held", FALSE))
    /\ Go("resolve") /\ JudgeFrame
    /\ UNCHANGED <<lane, attempt, ledger, blockers, cur, doc>>

\* _resolve_findings_from: an attempt per fix, to the bound; none, and it is done.
Resolve ==
    /\ pc = "resolve"
    /\ LET l == LaneOf(cur)
           spent == attempt[l] + 1
       IN \/ /\ found /\ attempt' = [attempt EXCEPT ![l] = spent]
             /\ IF spent > MaxReviewCycles
                THEN SetVerdict(l, "WAITING_STRATEGIST", "FAIL") /\ Blocker(l) /\ UNCHANGED ckpt
                ELSE /\ SaveKey(l, "fix", TRUE)
                     /\ SetVerdict(l, "PLANNED", "NOT_EVALUATED") /\ UNCHANGED blockers
          \/ /\ ~found
             /\ \E v \in {"PASS", "FAIL"} : SetVerdict(l, "COMPLETE", v)
             /\ UNCHANGED <<attempt, ckpt, blockers>>
    /\ NextRun /\ doc' = NoKeys /\ found' = FALSE /\ JudgeFrame
    /\ UNCHANGED <<ledger>>

Consume ==
    \/ \E n \in Runs : TakeRun(n) \/ PassOver(n)
    \/ CountQuestion \/ EscalateEnded \/ RefusedRun \/ ResetWorktree \/ Retry
    \/ CompleteReport \/ AfterImplementation \/ Verify \/ ReviewNotDispatched \/ DispatchReview
    \/ BindReview \/ HoldFindings \/ AfterReview \/ Resolve
ConsumeEnds ==
    /\ pc = "consume" /\ todo = {}
    /\ ToWake
    /\ PhaseFrame

\* --- apply_pending_wakes: the flag is spent first, then the lane is woken ---

WakeFrame ==
    /\ TickFrame
    /\ UNCHANGED <<attempt, ledger, book, blockers, program, rows, cur, doc, found, busy,
                   statusIn, integ, consumed>>
SpendWake(l) ==
    /\ pc = "wake" /\ l \in todo
    /\ todo' = todo \ {l}
    /\ IF Read(ckpt[l], "wake")
       THEN SaveKey(l, "wake", FALSE) /\ Go("woken") /\ here' = l
       ELSE UNCHANGED <<ckpt, pc, here>>
    /\ WakeFrame /\ UNCHANGED <<lane, wakes>>
WakePending ==
    /\ pc = "woken"
    /\ SetState(here, "PLANNED") /\ wakes' = [wakes EXCEPT ![here] = @ + 1]
    /\ Go("wake") /\ here' = NoLane
    /\ WakeFrame /\ UNCHANGED <<ckpt, todo>>
WakeEnds ==
    /\ pc = "wake" /\ todo = {}
    /\ ToIntegrate
    /\ PhaseFrame

\* --- integrate: the union of the PASS implementation lanes, once all is over ---

IntegrateFrame ==
    /\ TickFrame
    /\ UNCHANGED <<rowsOf, ledger, book, blockers, here, cur, doc, found, statusIn, history>>
ToMerge == {l \in Code \cap Known : lane[l].verdict = "PASS"}
FailedCode == {l \in Code \cap Known : lane[l].verdict # "PASS" /\ lane[l].state # "ABANDONED"}
\* integrate reads the lanes again: COMPLETE is never redone, and a lane that is not
\* over, or that failed, refuses it.
StillOver == \A l \in Known : lane[l].state \in TerminalLane
SkipIntegration ==
    /\ pc = "integrate"
    /\ integration.state = "COMPLETE" \/ ~StillOver \/ FailedCode # {} \/ MayRefuse
    /\ integration' = IF integration.state # "COMPLETE" /\ StillOver
                      THEN [integration EXCEPT !.state = "REFUSED"] ELSE integration
    /\ integ' = "OTHER" /\ ToSchedule /\ UNCHANGED status
    /\ IntegrateFrame
\* A conflict or overlap stops it; otherwise the merged union is tested.
Integrate ==
    /\ pc = "integrate" /\ integration.state # "COMPLETE"
    /\ StillOver /\ FailedCode = {}
    /\ \/ /\ ToMerge # {}
          /\ integration' = [integration EXCEPT !.state = "CONFLICT"]
          /\ integ' = "CONFLICT" /\ ToSchedule
       \/ \E v \in {"CANDIDATE_PASS", "CANDIDATE_FAIL"} :
             /\ integration' = [lanes |-> ToMerge,
                    state |-> IF v = "CANDIDATE_PASS" THEN "COMPLETE" ELSE "TESTS_FAILED"]
             /\ integ' = v /\ Go("integrated") /\ UNCHANGED <<todo, rows, busy>>
    /\ UNCHANGED status /\ IntegrateFrame
SetIntegrated ==
    /\ pc = "integrated"
    /\ status' = integ /\ ToSchedule
    /\ UNCHANGED <<integration, integ>> /\ IntegrateFrame

\* --- schedule ---

ScheduleFrame ==
    /\ TickFrame
    /\ UNCHANGED <<book, program, rows, found, statusIn, integ, wakes, consumed>>

BlockedBy(l) == {u \in Listed(rows) : <<l, u>> \in Requires /\ rows[u] \notin {"COMPLETE", "ABANDONED"}}
\* Slip: an ACTIVE lane is taken for one whose run is over.
SlipReady(l) == busy < Ceiling /\ BlockedBy(l) = {}
Ready(l) ==
    /\ busy < Ceiling
    /\ BlockedBy(l) = {} /\ InFlight(l) = {}
NotReady(l) ==
    /\ pc = "schedule" /\ l \in todo /\ ~Ready(l)
    /\ todo' = todo \ {l} /\ ScheduleFrame
    /\ UNCHANGED <<rowsOf, ledger, blockers, pc, here, cur, doc, busy>>

\* _sync_dependencies commits what a paused run left behind, then merges what it
\* needs; a failure that repeats is told once and parks the lane.
ToSync(l) == {u \in Lanes : <<l, u>> \in Requires /\ lane[u].state = "COMPLETE"}
                 \ Read(ckpt[l], "merged")
Committed(l) == [tree EXCEPT ![l] = [head |-> @.head + IF @.dirty THEN 1 ELSE 0, dirty |-> FALSE]]
SyncFails(l) ==
    /\ pc = "schedule" /\ l \in todo /\ Ready(l) /\ ToSync(l) # {}
    /\ LET n == Read(ckpt[l], "sync") + 1
           tell == n >= 2 /\ ~Read(ckpt[l], "told")
           c == With(ckpt[l], "sync", IF n > 2 THEN 2 ELSE n)
       IN /\ Save(l, IF tell THEN With(c, "told", TRUE) ELSE c)
          /\ IF tell THEN Blocker(l) ELSE UNCHANGED blockers
          /\ IF tell /\ lane[l].state \in {"PLANNED", "ACTIVE"}
             THEN SetState(l, "WAITING_STRATEGIST") ELSE UNCHANGED lane
    /\ tree' = Committed(l)
    /\ todo' = todo \ {l} /\ ScheduleFrame
    /\ UNCHANGED <<attempt, runs, alive, lease, pc, here, cur, doc, busy>>

\* The seat for the lane's role is refused by name; independence refusals leave a
\* finding for the next attempt.
RefuseSeat(l) ==
    /\ MayRefuse /\ pc = "schedule" /\ l \in todo /\ Ready(l)
    /\ Park(l, "WAITING_STRATEGIST")
    /\ tree' = Committed(l)
    /\ LET c == With(ckpt[l], "merged", Read(ckpt[l], "merged") \cup ToSync(l)) IN
         \/ Save(l, c)
         \/ Save(l, With(c, "fix", TRUE))
    /\ todo' = todo \ {l} /\ ScheduleFrame
    /\ UNCHANGED <<attempt, runs, alive, lease, pc, here, cur, doc, busy>>

\* A fresh dispatch identity is written into the checkpoint this lane's turn began
\* with, after the sync has written its own.
Prepare(l) ==
    /\ pc = "schedule" /\ l \in todo /\ Ready(l)
    /\ tree' = Committed(l)
    /\ LET synced == IF ToSync(l) = {} THEN ckpt[l]
                     ELSE With(ckpt[l], "merged", Read(ckpt[l], "merged") \cup ToSync(l))
       IN ckpt' = [ckpt EXCEPT ![l] = With(ckpt[l], "seq", Read(ckpt[l], "seq") + 1) @@ synced]
    /\ doc' = ckpt[l] /\ here' = l /\ Go("dispatch")
    /\ todo' = todo \ {l} /\ ScheduleFrame
    /\ UNCHANGED <<lane, attempt, runs, alive, lease, blockers, cur, busy>>

KeyOf(l) == <<attempt[l] + Read(doc, "asks"), Read(doc, "seq") + 1>>
NextLane == Go("schedule") /\ here' = NoLane /\ doc' = NoKeys
DispatchFrame ==
    /\ ScheduleFrame
    /\ UNCHANGED <<attempt, ckpt, tree, todo, busy>>
\* Slip: a lease counts only while a run is bound to the lane.
SlipLeased(l) == l \in Code /\ lease[l] # 0 /\ InFlight(l) # {}
Leased(l) == l \in Code /\ lease[l] # 0
Dispatch ==
    /\ pc = "dispatch" /\ ~KeyUsed(here, RoleOf(here), KeyOf(here)) /\ ~Leased(here)
    /\ NewRun(here, RoleOf(here), KeyOf(here), "live")
    /\ cur' = Fresh /\ Go("bind") /\ DispatchFrame
    /\ UNCHANGED <<lane, blockers, here, doc>>
DuplicateDispatch ==
    /\ pc = "dispatch" /\ KeyUsed(here, RoleOf(here), KeyOf(here))
    /\ Park(here, "WAITING_STRATEGIST")
    /\ NextLane /\ DispatchFrame /\ UNCHANGED <<runs, alive, lease, cur>>
RefusedDispatch ==
    /\ pc = "dispatch" /\ ~KeyUsed(here, RoleOf(here), KeyOf(here))
    /\ NewRun(here, RoleOf(here), KeyOf(here), "REFUSED")
    /\ \/ Leased(here) /\ Park(here, "WAITING_OWNER")
       \/ MayRefuse /\ Park(here, "WAITING_OWNER")
       \/ MayRefuse /\ UNCHANGED <<lane, blockers>>    \* the dispatcher's own ceiling
       \/ MayRefuse /\ SetVerdict(here, "WAITING_STRATEGIST", "FAIL") /\ UNCHANGED blockers
    /\ NextLane /\ DispatchFrame /\ UNCHANGED cur

\* bind_run, then ACTIVE, but only from PLANNED, then the findings it carries are
\* dropped from the checkpoint its turn began with.
BindRun ==
    /\ pc = "bind"
    /\ bound' = bound \cup {cur} /\ Go("promote")
    /\ TickFrame
    /\ UNCHANGED <<rowsOf, ledger, processed, blockers, program, todo, rows, here, cur, doc, found,
                   busy, statusIn, integ, history>>
Promote ==
    /\ pc = "promote"
    /\ IF lane[here].state = "PLANNED" THEN SetState(here, "ACTIVE") ELSE UNCHANGED lane
    /\ Go("dropfix") /\ ScheduleFrame
    /\ UNCHANGED <<attempt, ckpt, ledger, blockers, todo, here, cur, doc, busy>>
DropFix ==
    /\ pc = "dropfix"
    /\ IF Read(doc, "fix") THEN Save(here, With(doc, "fix", FALSE)) ELSE UNCHANGED ckpt
    /\ busy' = busy + 1 /\ cur' = 0 /\ NextLane /\ ScheduleFrame
    /\ UNCHANGED <<lane, attempt, ledger, blockers, todo>>

Schedule ==
    \/ \E l \in Lanes : NotReady(l) \/ SyncFails(l) \/ RefuseSeat(l) \/ Prepare(l)
    \/ Dispatch \/ DuplicateDispatch \/ RefusedDispatch \/ BindRun \/ Promote \/ DropFix

\* --- the program's status ---

ProgramVerdict(K) ==
    IF \E l \in K : lane[l].verdict = "FAIL" THEN "FAIL"
    ELSE IF K # {} /\ \A l \in K : lane[l].state \in TerminalLane /\ lane[l].verdict = "PASS"
         THEN "PASS" ELSE "NOT_EVALUATED"
WaitingLanes(K) == {l \in K : lane[l].state \in Waiting}
AggregateStatus ==
    IF status = "CANCELLED" THEN "CANCELLED"
    ELSE IF integ \in {"CANDIDATE_PASS", "CANDIDATE_FAIL"} THEN integ
    ELSE IF integ = "CONFLICT" THEN "WAITING_STRATEGIST"
    ELSE LET K == Known
             failed == \E l \in K : lane[l].verdict = "FAIL"
         IN IF ~failed /\ \E l \in K : lane[l].state = "WAITING_OWNER" THEN "WAITING_OWNER"
            ELSE IF WaitingLanes(K) # {} THEN "WAITING_STRATEGIST"
            ELSE IF K # {} /\ \A l \in K : lane[l].state \in TerminalLane
                 THEN IF ProgramVerdict(K) = "PASS" THEN "CANDIDATE_PASS" ELSE "CANDIDATE_FAIL"
            ELSE IF K # {} THEN "RUNNING" ELSE "DRAFT"

StatusFrame ==
    /\ TickFrame
    /\ UNCHANGED <<rowsOf, ledger, book, blockers, integration, here, cur, doc, found, todo,
                   history>>
ScheduleEnds ==
    /\ pc = "schedule" /\ todo = {}
    /\ integ' = AggregateStatus /\ Go("status")
    /\ StatusFrame /\ UNCHANGED <<rows, statusIn, status, busy>>
TickEnds ==
    /\ pc = "status"
    /\ status' = IF integ # statusIn THEN integ ELSE status
    /\ Go("idle") /\ busy' = 0 /\ integ' = "none" /\ rows' = NoRows /\ statusIn' = "PLANNED"
    /\ StatusFrame

Tick ==
    \/ TickBegins
    \/ \E n \in Runs : NothingToRecover(n) \/ HoldUnknown(n) \/ RecoverDead(n)
    \/ SaveMark \/ ReleaseDead \/ EscalateAmbiguous \/ NoteAmbiguous \/ RecoverEnds
    \/ Consume \/ ConsumeEnds
    \/ \E l \in Lanes : SpendWake(l)
    \/ WakePending \/ WakeEnds \/ SkipIntegration \/ Integrate \/ SetIntegrated
    \/ Schedule \/ ScheduleEnds \/ TickEnds

Next ==
    \/ Tick \/ TickDies
    \/ \E n \in Runs : Worker(n) \/ WorkerDies(n) \/ Reconcile(n)
    \/ Transport

Spec == Init /\ [][Next]_vars

----------------------------------------------------------------------------
(* Properties.  Definitions named Slip... above are slips of this code that  *)
(* a property must catch; nothing uses them.                                *)

\* One implementer at a time works in a lane's worktree, although a tick that died
\* between the dispatch and bind_run has left one behind that no lane_run row names;
\* and a lane has at most one run bound and not yet processed, reviews included
\* (orchestrator.py, schedule and _dispatch_reviewer; strategic_store.py, bind_run).
OneWriter ==
    /\ \A l \in Code :
         Cardinality({n \in alive : runs[n].lane = l /\ runs[n].role = "implementation"}) <= 1
    /\ \A l \in Lanes : Cardinality(InFlight(l)) <= 1

\* The end of a run is acted on once, however often ticks die while they consume it
\* (orchestrator.py, reap: a run is marked processed before its consequences).
ConsumedOnce == \A n \in Runs : consumed[n] <= 1

\* Retries and fixes are bounded by the review cycles: past the bound the lane waits
\* for the strategist, and only an answer or a tick that died gives it another
\* (orchestrator.py, _consume_run and _resolve_findings_from).
AttemptsAreBounded ==
    \A l \in Lanes : attempt[l] <= MaxReviewCycles + 2 + wakes[l] + crashes

\* A lane is COMPLETE only by the handoff of a run of its own that was consumed: not
\* by a failure, a refusal, a question, an answer or a tick that died half way
\* (orchestrator.py, _consume_run).
CompletedOnEvidence ==
    \A l \in Lanes \ Merged : lane[l].state = "COMPLETE" =>
        \E n \in processed :
            runs[n].lane = l /\ runs[n].phase = "HANDOFF_READY" /\ consumed[n] > 0

\* Where no tick dies and nobody answers, a lane the program has parked can be
\* explained from its inbox: an open question, a BLOCKER, or a FAIL verdict
\* (orchestrator.py, inbox); and the marker that stops an unreadable worker from being
\* told of again is written only once the BLOCKER that tells of it exists
\* (_hold_unknown_liveness).
ParkedIsExplained ==
    \A l \in Lanes :
        /\ pc = "idle" /\ lane[l].state \in Waiting /\ lane[l].verdict # "FAIL"
             => OpenQuestions(l) # {} \/ l \in blockers
        /\ Read(ckpt[l], "unknown").escalated => l \in blockers

=============================================================================
