--------------------------- MODULE ProgramLanesProofs ---------------------------
(***************************************************************************)
(* Proofs about ProgramLanes, for every set of lanes and every bound: the  *)
(* five invariants its runs check.  All rest on Settled, what the ledger   *)
(* of runs and the place of the tick always are; each then adds what the   *)
(* tick carries from one write to the next, which its invariant needs to   *)
(* be inductive.                                                           *)
(***************************************************************************)
EXTENDS ProgramLanes, FiniteSetTheorems, TLAPS

Verdicts == {"NOT_EVALUATED", "PASS", "FAIL"}
Fields == {"lane", "role", "key", "phase", "head"}

\* Where the tick is: working on a dead worker's run, on a run that is over, or on
\* one it is dispatching.
Recovering == {"mark", "release", "escalate", "noted"}
Judging == {"judge", "retry", "verify", "check", "review", "bindreview", "hold", "resolve"}
Launching == {"bind", "promote", "dropfix"}

TypeOK ==
    /\ lane \in [Lanes -> [state : LaneStates, verdict : Verdicts]]
    /\ attempt \in [Lanes -> Nat] /\ wakes \in [Lanes -> Nat] /\ crashes \in Nat
    /\ DOMAIN ckpt = Lanes /\ DOMAIN wsnap = Runs
    /\ DOMAIN runs = Runs /\ \A n \in Runs : DOMAIN runs[n] = Fields
    /\ lease \in [Lanes -> 0..MaxRuns]
    /\ consumed \in [Runs -> Nat]
    /\ answers \in Nat

\* Runs are numbered in the order of their dispatch; what lives, is bound or has
\* asked was dispatched, and what lives is not over.
Numbered ==
    /\ \E k \in 0..MaxRuns : Spent = 1..k
    /\ \A n \in Spent : runs[n].lane \in Lanes
    /\ alive \subseteq Spent /\ \A n \in alive : Active(n)
    /\ bound \subseteq Spent /\ processed \subseteq bound /\ asked \subseteq Spent

\* What the tick and the answer hold in their hands where they use it.
InHand ==
    /\ pc \in Judging \cup Launching => cur \in Spent
    /\ pc \in Recovering => cur \in bound
    /\ pc \in {"recover", "consume"} \cup Recovering \cup Judging => todo \subseteq bound
    /\ pc \in {"wake", "woken", "schedule", "dispatch"} \cup Launching => todo \subseteq Lanes
    /\ pc \in {"woken", "dispatch"} \cup Launching => here \in Lanes
    /\ apc # "idle" => alane \in Lanes

Settled == TypeOK /\ Numbered /\ InHand

OnceInv ==
    /\ \A n \in Runs : consumed[n] <= 1 /\ (consumed[n] > 0 => n \in processed)
    /\ pc \in {"consume"} \cup Judging => todo \cap processed = {}

\* The lease names the living implementer of a lane; a tick that judges a run, or
\* dispatches one, has found nothing else of that lane in flight.
Alone == \A m, n \in bound \ processed : runs[m].lane = runs[n].lane => m = n
LeaseInv ==
    /\ \A n \in alive : runs[n].role = "implementation" => lease[runs[n].lane] = n
    /\ pc = "release" => cur \notin alive
FlightInv ==
    /\ Alone
    /\ pc \in Judging \ {"hold"} => InFlight(runs[cur].lane) = {}
    /\ pc \in {"dispatch", "bind"} => InFlight(here) = {}
    /\ pc = "bind" => runs[cur].lane = here
WriterInv == LeaseInv /\ FlightInv

\* What a lane is completed on is consumed, and has been handed off once the tick
\* is past the verification.
EvidenceInv ==
    /\ CompletedOnEvidence
    /\ pc \in {"judge", "check", "resolve"} => cur \in processed /\ consumed[cur] > 0
    /\ pc \in {"check", "resolve"} => runs[cur].phase = "HANDOFF_READY"

\* A lane that can still be given a run, or whose run is still to be judged, has room
\* for one more attempt, save the one the tick has just charged.
Allowed(l) == MaxReviewCycles + 1 + wakes[l] + crashes
Room(l) == attempt[l] <= Allowed(l)
Charged(l) == pc = "retry" /\ runs[cur].lane = l
AttemptInv ==
    /\ \A l \in Lanes : attempt[l] <= Allowed(l) + 1
    /\ \A l \in Lanes : lane[l].state \in {"UNPLANNED", "PLANNED", "ACTIVE"} => Room(l) \/ Charged(l)
    /\ \A n \in bound \ processed : Room(runs[n].lane)
    /\ pc \in Judging \ {"retry"} => Room(runs[cur].lane)
    /\ pc \in {"schedule", "dispatch"} \cup Launching => \A l \in todo : Room(l)
    /\ pc \in {"dispatch", "bind"} => Room(here)

\* While nobody has answered, each lane that waits is explained at every step of a
\* tick; and every document anyone may still write back tells of no unreadable
\* worker the inbox does not.
Explained(l) == OpenQuestions(l) # {} \/ l \in blockers
TellsIn(c, l, B) == Read(c, "unknown").escalated => l \in B
Tells(c, l) == TellsIn(c, l, blockers)
ParkedInv ==
    /\ answers = 0 => answered = {}
    /\ \A n \in Runs : runs[n].phase = "asked" => n \in asked
    /\ answers = 0 => \A l \in Lanes :
          lane[l].state \in Waiting /\ lane[l].verdict # "FAIL" => Explained(l)
ToldInv ==
    /\ \A l \in Lanes : Tells(ckpt[l], l)
    /\ \A n \in Runs : runs[n].phase = "saving" => Tells(wsnap[n], runs[n].lane)
    /\ apc = "note" => Tells(aseen, alane)
    /\ pc \in {"mark", "verify", "check", "review", "bindreview", "hold"} => Tells(doc, runs[cur].lane)
    /\ pc \in {"dispatch"} \cup Launching => Tells(doc, here)

----------------------------------------------------------------------------
(* Steps of the ledger.                                                    *)

USE DEF rowsOf, ledger, book, talk, program, tick, answer, faults, history

LEMMA BoundsAreNat ==
    /\ {MaxReviewCycles, EscalationPasses, Ceiling, CancelsBefore, MaxRuns, MaxCrashes, MaxDeaths,
        MaxAnswers, MaxMisreads} \subseteq Nat
    /\ Runs = 1..MaxRuns
  BY LanesAssumption DEF LanesAssumption, Runs

\* A run's phase changes and nothing else of it; a spent run stays spent.
LEMMA PhaseStep ==
    ASSUME TypeOK, NEW n \in Runs, NEW p, Phase(n, p)
    PROVE  /\ DOMAIN runs' = Runs /\ \A m \in Runs : DOMAIN runs'[m] = Fields
           /\ \A m \in Runs : /\ runs'[m].lane = runs[m].lane /\ runs'[m].role = runs[m].role
                              /\ runs'[m].phase = IF m = n THEN p ELSE runs[m].phase
           /\ n \in Spent /\ p # "none" => Spent' = Spent
<1>1. /\ DOMAIN runs' = Runs /\ \A m \in Runs : DOMAIN runs'[m] = Fields
      /\ \A m \in Runs : /\ runs'[m].lane = runs[m].lane /\ runs'[m].role = runs[m].role
                         /\ runs'[m].phase = IF m = n THEN p ELSE runs[m].phase
  BY DEF TypeOK, Phase, Fields
<1>2. n \in Spent /\ p # "none" => Spent' = Spent
  BY <1>1 DEF Spent
<1>3. QED
  BY <1>1, <1>2

\* Giving up a lease keeps the leases well typed.
LEMMA LeaseStep ==
    ASSUME TypeOK, NEW n \in Runs, runs[n].lane \in Lanes
    PROVE  /\ LeaseOf(n) \in [Lanes -> 0..MaxRuns]
           /\ \A l \in Lanes : LeaseOf(n)[l] = IF l = runs[n].lane /\ lease[l] = n THEN 0 ELSE lease[l]
<1>1. CASE lease[runs[n].lane] = n
  BY <1>1, BoundsAreNat DEF TypeOK, LeaseOf
<1>2. CASE lease[runs[n].lane] # n
  BY <1>2, BoundsAreNat DEF TypeOK, LeaseOf
<1>3. QED
  BY <1>1, <1>2

\* The number of the next run is a run, and nobody has it yet.
LEMMA FreshIsNew ==
    ASSUME Numbered, RoomForRun
    PROVE  Fresh \in Runs /\ Fresh \notin Spent /\ Spent \cup {Fresh} = 1..Fresh
<1>1. PICK k \in 0..MaxRuns : Spent = 1..k
  BY DEF Numbered
<1>2. k \in Nat /\ MaxRuns \in Nat
  BY <1>1, BoundsAreNat
<1>3. Cardinality(Spent) = k
  BY <1>1, <1>2, FS_Interval
<1>4. QED
  BY <1>1, <1>2, <1>3, BoundsAreNat DEF Fresh, RoomForRun

LEMMA NewRunStep ==
    ASSUME TypeOK, Numbered, NEW l \in Lanes, NEW role, NEW key, NEW phase, phase # "none",
           NewRun(l, role, key, phase)
    PROVE  /\ Fresh \in Runs /\ Fresh \notin Spent
           /\ DOMAIN runs' = Runs /\ \A m \in Runs : DOMAIN runs'[m] = Fields
           /\ \A m \in Runs \ {Fresh} : runs'[m] = runs[m]
           /\ runs'[Fresh].lane = l /\ runs'[Fresh].role = role /\ runs'[Fresh].phase = phase
           /\ Spent' = Spent \cup {Fresh}
           /\ \E k \in 0..MaxRuns : Spent' = 1..k
           /\ lease' \in [Lanes -> 0..MaxRuns]
           /\ alive' = IF phase = "live" THEN alive \cup {Fresh} ELSE alive
<1>1. Fresh \in Runs /\ Fresh \notin Spent /\ Spent \cup {Fresh} = 1..Fresh
  BY FreshIsNew DEF NewRun
<1>2. /\ DOMAIN runs' = Runs /\ \A m \in Runs : DOMAIN runs'[m] = Fields
      /\ \A m \in Runs \ {Fresh} : runs'[m] = runs[m]
      /\ runs'[Fresh].lane = l /\ runs'[Fresh].role = role /\ runs'[Fresh].phase = phase
  BY <1>1 DEF NewRun, TypeOK, Fields
<1>3. Spent' = Spent \cup {Fresh}
  BY <1>1, <1>2 DEF Spent
<1>4. lease' \in [Lanes -> 0..MaxRuns]
  BY <1>1, BoundsAreNat DEF NewRun, TypeOK
<1>5. Fresh \in 0..MaxRuns
  BY <1>1, BoundsAreNat
<1>6. QED
  BY <1>1, <1>2, <1>3, <1>4, <1>5 DEF NewRun

\* A lane's row changes in its state, or in its state and verdict.
LEMMA StateStep ==
    ASSUME TypeOK, NEW l \in Lanes, NEW s \in LaneStates, SetState(l, s)
    PROVE  /\ lane' \in [Lanes -> [state : LaneStates, verdict : Verdicts]]
           /\ \A k \in Lanes : /\ k # l => lane'[k] = lane[k]
                               /\ lane'[k].state = IF k = l THEN s ELSE lane[k].state
                               /\ lane'[k].verdict = lane[k].verdict
<1>1. lane \in [Lanes -> [state : LaneStates, verdict : Verdicts]]
  BY DEF TypeOK
<1>2. lane' = [lane EXCEPT ![l] = [state |-> s, verdict |-> lane[l].verdict]]
  <2>1. [lane[l] EXCEPT !.state = s] = [state |-> s, verdict |-> lane[l].verdict]
    BY <1>1
  <2>2. QED
    BY <1>1, <2>1 DEF SetState
<1>3. lane[l].verdict \in Verdicts
  BY <1>1
<1>4. QED
  BY <1>1, <1>2, <1>3

LEMMA VerdictStep ==
    ASSUME TypeOK, NEW l \in Lanes, NEW s \in LaneStates, NEW v \in Verdicts, SetVerdict(l, s, v)
    PROVE  /\ lane' \in [Lanes -> [state : LaneStates, verdict : Verdicts]]
           /\ \A k \in Lanes : /\ k # l => lane'[k] = lane[k]
                               /\ lane'[k].state = IF k = l THEN s ELSE lane[k].state
                               /\ lane'[k].verdict = IF k = l THEN v ELSE lane[k].verdict
  BY DEF TypeOK, SetVerdict

----------------------------------------------------------------------------
(* Settled.                                                                *)

\* A dispatched run stays one, of the same lane and role; once over it stays as it
\* ended, and once dead it stays dead.
Grows ==
    /\ Spent \subseteq Spent'
    /\ \A n \in Spent : /\ runs'[n].lane = runs[n].lane /\ runs'[n].role = runs[n].role
                        /\ runs[n].phase \in Over => runs'[n].phase = runs[n].phase
                        /\ n \in alive' => n \in alive

LEMMA SettledInit == Init => Settled
<1> SUFFICES ASSUME Init PROVE Settled
  OBVIOUS
<1>1. TypeOK
  BY BoundsAreNat DEF Init, TypeOK, LaneStates, Verdicts, NoRow, Fields
<1>2. Spent = {} /\ 0 \in 0..MaxRuns /\ 1..0 = {}
  BY BoundsAreNat DEF Init, Spent, NoRow
<1>3. QED
  BY <1>1, <1>2 DEF Init, Settled, Numbered, InHand, Recovering, Judging, Launching

\* The workers, and whoever measures a dead one.
WorkerOf(n) == Worker(n) \/ WorkerDies(n) \/ Reconcile(n)
LEMMA WorkerLedger ==
    ASSUME Settled, NEW n \in Runs, WorkerOf(n)
    PROVE  /\ n \in Spent /\ Active(n) /\ Spent' = Spent /\ runs[n].lane \in Lanes
           /\ DOMAIN runs' = Runs /\ \A m \in Runs : DOMAIN runs'[m] = Fields
           /\ \A m \in Runs : /\ runs'[m].lane = runs[m].lane /\ runs'[m].role = runs[m].role
                              /\ m # n => runs'[m].phase = runs[m].phase
           /\ alive' \subseteq alive /\ \A m \in alive' : Active(m)'
<1>1. n \in Spent /\ Active(n) /\ runs[n].lane \in Lanes
  BY DEF Settled, Numbered, WorkerOf, Worker, Write, RecordQuestion, ParkLane, ReadCheckpoint,
         SaveCheckpoint, HandOff, RunFails, WorkerDies, Reconcile, Active, Spent
<1>2. CASE runs' = runs /\ alive' \subseteq alive
  BY <1>1, <1>2 DEF Settled, TypeOK, Numbered, Spent, Active
<1>3. ASSUME NEW p, p # "none", Phase(n, p), alive' \subseteq alive, p \notin Over \/ n \notin alive'
      PROVE  /\ Spent' = Spent
             /\ DOMAIN runs' = Runs /\ \A m \in Runs : DOMAIN runs'[m] = Fields
             /\ \A m \in Runs : /\ runs'[m].lane = runs[m].lane /\ runs'[m].role = runs[m].role
                                /\ m # n => runs'[m].phase = runs[m].phase
             /\ \A m \in alive' : Active(m)'
  <2>1. /\ Spent' = Spent
        /\ DOMAIN runs' = Runs /\ \A m \in Runs : DOMAIN runs'[m] = Fields
        /\ \A m \in Runs : /\ runs'[m].lane = runs[m].lane /\ runs'[m].role = runs[m].role
                           /\ runs'[m].phase = IF m = n THEN p ELSE runs[m].phase
    BY <1>1, <1>3, PhaseStep DEF Settled
  <2>2. \A m \in alive' : Active(m)'
    BY <1>1, <1>3, <2>1 DEF Settled, Numbered, Active, Spent
  <2>3. QED
    BY <2>1, <2>2
<1>4. CASE Worker(n)
  <2>1. CASE Write(n)
    BY <1>2, <2>1 DEF Write
  <2>2. CASE RecordQuestion(n)
    BY <1>1, <1>3, <2>2 DEF RecordQuestion, Over
  <2>3. CASE ParkLane(n)
    BY <1>1, <1>3, <2>3 DEF ParkLane, Over
  <2>4. CASE ReadCheckpoint(n)
    BY <1>1, <1>3, <2>4 DEF ReadCheckpoint, Over
  <2>5. CASE SaveCheckpoint(n)
    BY <1>1, <1>3, <2>5 DEF SaveCheckpoint, Over
  <2>6. CASE HandOff(n)
    BY <1>1, <1>3, <2>6 DEF HandOff, EndRun
  <2>7. CASE RunFails(n)
    BY <1>1, <1>3, <2>7 DEF RunFails, EndRun
  <2>8. QED
    BY <1>4, <2>1, <2>2, <2>3, <2>4, <2>5, <2>6, <2>7 DEF Worker
<1>5. CASE WorkerDies(n)
  BY <1>2, <1>5 DEF WorkerDies
<1>6. CASE Reconcile(n)
  <2>1. CASE runs[n].role = "implementation"
    BY <1>1, <1>3, <1>6, <2>1 DEF Reconcile
  <2>2. CASE runs[n].role # "implementation"
    BY <1>1, <1>3, <1>6, <2>2 DEF Reconcile
  <2>3. QED
    BY <2>1, <2>2
<1>7. QED
  BY <1>4, <1>5, <1>6 DEF WorkerOf

\* A worker touches nothing of the program's but the rows of its lane and its lease.
LEMMA WorkerTouches ==
    ASSUME NEW n \in Runs, WorkerOf(n)
    PROVE  /\ UNCHANGED <<book, tick, answer, consumed, attempt, wakes, crashes, answers, blockers,
                          answered>>
           /\ asked' \subseteq asked \cup {n} /\ asked \subseteq asked'
           /\ \/ lane' = lane
              \/ runs[n].phase = "asked" /\ \E s \in Waiting : SetState(runs[n].lane, s)
           /\ lease' = lease \/ (lease' = LeaseOf(n) /\ n \notin alive')
<1>1. CASE Write(n) \/ RecordQuestion(n) \/ ParkLane(n)
  BY <1>1 DEF Write, RecordQuestion, ParkLane, WorkerFrame
<1>2. CASE ReadCheckpoint(n) \/ SaveCheckpoint(n) \/ WorkerDies(n) \/ Reconcile(n)
  BY <1>2 DEF ReadCheckpoint, SaveCheckpoint, WorkerDies, Reconcile, WorkerFrame
<1>3. CASE HandOff(n) \/ RunFails(n)
  BY <1>3 DEF HandOff, RunFails, EndRun, WorkerFrame
<1>4. QED
  BY <1>1, <1>2, <1>3 DEF WorkerOf, Worker

LEMMA WorkerSettled == ASSUME Settled, NEW n \in Runs, WorkerOf(n) PROVE Settled'
<1>1. n \in Spent /\ Active(n) /\ Spent' = Spent /\ runs[n].lane \in Lanes
  BY WorkerLedger
<1>2. \A m \in Runs : runs'[m].lane = runs[m].lane
  BY WorkerLedger
<1>3. /\ UNCHANGED <<book, tick, answer, consumed, attempt, wakes, crashes, answers>>
      /\ asked' \subseteq asked \cup {n}
  BY WorkerTouches
<1>4. lane' \in [Lanes -> [state : LaneStates, verdict : Verdicts]]
  <2>1. CASE lane' = lane
    BY <2>1 DEF Settled, TypeOK
  <2>2. ASSUME NEW s \in Waiting, SetState(runs[n].lane, s)
        PROVE  lane' \in [Lanes -> [state : LaneStates, verdict : Verdicts]]
    BY <1>1, <2>2, StateStep DEF Settled, Waiting, LaneStates
  <2>3. QED
    BY <2>1, <2>2, WorkerTouches
<1>5. lease' \in [Lanes -> 0..MaxRuns]
  BY <1>1, WorkerTouches, LeaseStep DEF Settled, TypeOK
<1>6. DOMAIN ckpt' = Lanes /\ DOMAIN wsnap' = Runs
  BY DEF WorkerOf, Worker, Write, RecordQuestion, ParkLane, ReadCheckpoint, SaveCheckpoint, HandOff,
         RunFails, EndRun, WorkerDies, Reconcile, WorkerFrame, Save, Settled, TypeOK
<1>7. TypeOK'
  BY <1>3, <1>4, <1>5, <1>6, WorkerLedger DEF Settled, TypeOK
<1>8. Numbered'
  BY <1>1, <1>2, <1>3, WorkerLedger DEF Settled, Numbered, Spent
<1>9. InHand'
  BY <1>1, <1>3 DEF Settled, InHand
<1>10. QED
  BY <1>7, <1>8, <1>9 DEF Settled

\* The transports change no run and nothing of a tick.
LEMMA TransportTouches ==
    ASSUME Transport
    PROVE  UNCHANGED <<ledger, book, tick, wsnap, crashes, consumed, asked, blockers, attempt>>
<1>1. CASE \E l \in Lanes : PlanLane(l) \/ RecordAnswer(l)
  BY <1>1 DEF PlanLane, RecordAnswer, TransportFrame
<1>2. CASE LookAtLane \/ WakeLane \/ NoteWake \/ CancelLanes \/ CancelStatus
  BY <1>2 DEF LookAtLane, WakeLane, NoteWake, CancelLanes, CancelStatus, TransportFrame
<1>3. QED
  BY <1>1, <1>2 DEF Transport

LEMMA TransportSettled == ASSUME Settled, Transport PROVE Settled'
<1>1. UNCHANGED <<ledger, book, tick, wsnap, crashes, consumed, asked, blockers, attempt>>
  BY TransportTouches
<1>2. Numbered' /\ (pc \in Judging \cup Launching => cur \in Spent')
  BY <1>1 DEF Settled, Numbered, InHand, Spent, Active
<1>3. ASSUME apc' # "idle" => alane' \in Lanes
      PROVE  InHand'
  BY <1>1, <1>2, <1>3 DEF Settled, InHand
<1>4. ASSUME lane' \in [Lanes -> [state : LaneStates, verdict : Verdicts]],
             wakes' \in [Lanes -> Nat], answers' \in Nat, DOMAIN ckpt' = Lanes
      PROVE  TypeOK'
  BY <1>1, <1>4 DEF Settled, TypeOK
<1>5. ASSUME NEW l \in Lanes, PlanLane(l) PROVE Settled'
  <2>1. lane' \in [Lanes -> [state : LaneStates, verdict : Verdicts]]
    BY <1>5, StateStep DEF PlanLane, Settled, LaneStates
  <2>2. UNCHANGED <<answers, ckpt, answer, wakes>>
    BY <1>5 DEF PlanLane
  <2>3. QED
    BY <1>2, <1>3, <1>4, <2>1, <2>2 DEF Settled, TypeOK, InHand
<1>6. ASSUME NEW l \in Lanes, RecordAnswer(l) PROVE Settled'
  <2>1. UNCHANGED <<rowsOf, wakes>> /\ alane' = l /\ answers' = answers + 1
    BY <1>6 DEF RecordAnswer
  <2>2. QED
    BY <1>2, <1>3, <1>4, <2>1 DEF Settled, TypeOK
<1>7. CASE LookAtLane
  <2>1. UNCHANGED <<answers, rowsOf, wakes>> /\ (apc' # "idle" => apc = "look" /\ alane' = alane)
    BY <1>7 DEF LookAtLane, Waiting, TerminalLane
  <2>2. QED
    BY <1>2, <1>3, <1>4, <2>1 DEF Settled, TypeOK, InHand
<1>8. CASE WakeLane
  <2>1. alane \in Lanes /\ apc' = "idle" /\ UNCHANGED <<answers, ckpt>>
    BY <1>8 DEF WakeLane, AnswerDone, Settled, InHand
  <2>2. lane' \in [Lanes -> [state : LaneStates, verdict : Verdicts]]
    BY <1>8, <2>1, StateStep DEF WakeLane, Settled, LaneStates
  <2>3. wakes' \in [Lanes -> Nat]
    BY <1>8, <2>1 DEF WakeLane, Settled, TypeOK
  <2>4. QED
    BY <1>2, <1>3, <1>4, <2>1, <2>2, <2>3 DEF Settled, TypeOK
<1>9. CASE NoteWake
  <2>1. apc' = "idle" /\ UNCHANGED <<answers, lane, wakes>> /\ DOMAIN ckpt' = Lanes
    BY <1>9 DEF NoteWake, AnswerDone, Save, Settled, TypeOK
  <2>2. QED
    BY <1>2, <1>3, <1>4, <2>1 DEF Settled, TypeOK
<1>10. CASE CancelLanes
  <2>1. UNCHANGED <<answers, ckpt, answer, wakes>>
    BY <1>10 DEF CancelLanes
  <2>2. lane' \in [Lanes -> [state : LaneStates, verdict : Verdicts]]
    BY <1>10 DEF CancelLanes, Settled, TypeOK, LaneStates, Verdicts
  <2>3. QED
    BY <1>2, <1>3, <1>4, <2>1, <2>2 DEF Settled, TypeOK, InHand
<1>11. CASE CancelStatus
  <2>1. UNCHANGED <<answers, rowsOf, answer, wakes>>
    BY <1>11 DEF CancelStatus
  <2>2. QED
    BY <1>2, <1>3, <1>4, <2>1 DEF Settled, TypeOK, InHand
<1>12. QED
  BY <1>5, <1>6, <1>7, <1>8, <1>9, <1>10, <1>11 DEF Transport

\* The steps of a tick from one phase to another, its death among them: they change
\* no lane and no run, and list again what the next phase is to go through.
Moves ==
    \/ TickBegins \/ RecoverEnds \/ ConsumeEnds \/ WakeEnds \/ SkipIntegration \/ Integrate
    \/ SetIntegrated \/ ScheduleEnds \/ TickEnds \/ TickDies
Schedulable == {l \in Lanes : lane[l].state \in {"PLANNED", "ACTIVE"}}
Moved ==
    \/ pc' \in {"idle", "integrate", "integrated", "status"}
    \/ pc' \in {"recover", "consume"} /\ todo' = bound \ processed
    \/ pc' = "wake" /\ todo' \subseteq Lanes
    \/ pc' = "schedule" /\ todo' = Schedulable
LEMMA PhasesMove ==
    /\ ToSchedule \/ ToIntegrate \/ ToWake \/ ToConsume => Moved
    /\ bound \ processed # {} /\ Loop("recover", bound \ processed) => Moved
<1>1. ToSchedule => Moved
  BY DEF ToSchedule, Moved, Go, Schedulable
<1>2. ToIntegrate => Moved
  BY <1>1 DEF ToIntegrate, Moved, Loop, Go
<1>3. ToWake => Moved
  BY <1>2 DEF ToWake, Moved, Loop, Go
<1>4. ToConsume => Moved
  BY <1>3 DEF ToConsume, Moved, Loop, Go
<1>5. Loop("recover", bound \ processed) => Moved
  BY DEF Moved, Loop, Go
<1>6. QED
  BY <1>1, <1>2, <1>3, <1>4, <1>5

LEMMA MovesTouch ==
    ASSUME Moves
    PROVE  /\ UNCHANGED <<rowsOf, ledger, book, talk, answer, wsnap, answers, history>>
           /\ Moved
           /\ \/ crashes' = crashes /\ pc \notin Recovering \cup Judging \cup Launching
              \/ crashes' = crashes + 1
<1>1. CASE TickBegins \/ RecoverEnds \/ ConsumeEnds \/ WakeEnds
  <2>1. /\ UNCHANGED <<rowsOf, ledger, book, talk, answer, wsnap, answers, history, crashes>>
        /\ pc \in {"idle", "recover", "consume", "wake"}
    BY <1>1 DEF TickBegins, RecoverEnds, ConsumeEnds, WakeEnds, PhaseFrame, TickFrame, CallFrame
  <2>2. Moved
    BY <1>1, PhasesMove DEF TickBegins, RecoverEnds, ConsumeEnds, WakeEnds
  <2>3. QED
    BY <2>1, <2>2 DEF Recovering, Judging, Launching
<1>2. CASE SkipIntegration \/ Integrate \/ SetIntegrated
  <2>1. /\ UNCHANGED <<rowsOf, ledger, book, talk, answer, wsnap, answers, history, crashes>>
        /\ pc \in {"integrate", "integrated"}
    BY <1>2 DEF SkipIntegration, Integrate, SetIntegrated, IntegrateFrame, TickFrame, CallFrame
  <2>2. Moved
    <3>1. CASE SkipIntegration \/ SetIntegrated
      BY <3>1, PhasesMove DEF SkipIntegration, SetIntegrated
    <3>2. CASE Integrate
      BY <3>2, PhasesMove DEF Integrate, Go, Moved
    <3>3. QED
      BY <1>2, <3>1, <3>2
  <2>3. QED
    BY <2>1, <2>2 DEF Recovering, Judging, Launching
<1>3. CASE ScheduleEnds \/ TickEnds
  BY <1>3 DEF ScheduleEnds, TickEnds, StatusFrame, TickFrame, CallFrame, Moved, Go, Recovering,
              Judging, Launching
<1>4. CASE TickDies
  BY <1>4 DEF TickDies, Moved, Go
<1>5. QED
  BY <1>1, <1>2, <1>3, <1>4 DEF Moves

LEMMA MovesSettled == ASSUME Settled, Moves PROVE Settled'
<1>1. UNCHANGED <<rowsOf, ledger, book, talk, answer, wsnap, answers, history>> /\ Moved
  BY MovesTouch
<1>2. TypeOK'
  BY <1>1, MovesTouch DEF Settled, TypeOK
<1>3. Numbered'
  BY <1>1 DEF Settled, Numbered, Spent, Active
<1>4. InHand'
  BY <1>1 DEF Settled, InHand, Moved, Recovering, Judging, Launching, Schedulable
<1>5. QED
  BY <1>2, <1>3, <1>4 DEF Settled

\* reap's first loop.
Recovery ==
    \/ \E n \in Runs : NothingToRecover(n) \/ HoldUnknown(n) \/ RecoverDead(n)
    \/ SaveMark \/ ReleaseDead \/ EscalateAmbiguous \/ NoteAmbiguous
LEMMA RecoveryTouches ==
    ASSUME Recovery
    PROVE  UNCHANGED <<attempt, bound, alive, answer, wsnap, crashes, answers, asked, answered, here,
                       history>>
<1>1. CASE \E n \in Runs : NothingToRecover(n) \/ HoldUnknown(n) \/ RecoverDead(n)
  BY <1>1 DEF NothingToRecover, HoldUnknown, RecoverDead, RecoverFrame, CallFrame
<1>2. CASE SaveMark \/ ReleaseDead \/ EscalateAmbiguous \/ NoteAmbiguous
  BY <1>2 DEF SaveMark, ReleaseDead, EscalateAmbiguous, NoteAmbiguous, RecoverFrame, CallFrame
<1>3. QED
  BY <1>1, <1>2 DEF Recovery

\* Where it is in the loop, and what it does to the lane of the run it looks at.
LEMMA RecoveryMoves ==
    ASSUME Settled, Recovery
    PROVE  /\ pc \in {"recover"} \cup Recovering /\ pc' \in {"recover"} \cup Recovering
           /\ todo' \subseteq todo /\ (pc' \in Recovering => cur' \in bound)
           /\ pc' \in Recovering /\ pc \in Recovering => cur' = cur
           /\ pc' = "release" => \E n \in Runs : RecoverDead(n)
           /\ DOMAIN ckpt' = Lanes
           /\ \/ UNCHANGED <<lane, blockers>>
              \/ \E n \in Spent : Park(runs[n].lane, "WAITING_OWNER")
           /\ processed' \subseteq processed \cup {cur} /\ processed \subseteq processed'
           /\ pc \in Recovering \/ processed' = processed
<1>1. ASSUME NEW n \in Runs, NothingToRecover(n) \/ HoldUnknown(n)
      PROVE  /\ pc = "recover" /\ n \in todo /\ todo' \subseteq todo
             /\ pc' = "recover" \/ (pc' = "mark" /\ cur' = n)
             /\ UNCHANGED <<lane, blockers>> \/ Park(runs[n].lane, "WAITING_OWNER")
             /\ UNCHANGED <<ledger, book>> /\ DOMAIN ckpt' = Lanes
  BY <1>1 DEF NothingToRecover, HoldUnknown, Hold, Drop, Go, LaneOf, Settled, TypeOK
<1>2. CASE \E n \in Runs : NothingToRecover(n) \/ HoldUnknown(n)
  BY <1>1, <1>2 DEF Recovering, Settled, InHand, Numbered
<1>3. CASE \E n \in Runs : RecoverDead(n)
  BY <1>3 DEF RecoverDead, Drop, Go, Recovering, Settled, InHand, TypeOK
<1>4. CASE SaveMark \/ ReleaseDead \/ NoteAmbiguous
  BY <1>4 DEF SaveMark, ReleaseDead, NoteAmbiguous, Save, Go, Recovering, Settled, TypeOK
<1>5. CASE EscalateAmbiguous
  BY <1>5 DEF EscalateAmbiguous, SaveKey, Save, Go, LaneOf, Recovering, Settled, TypeOK, InHand,
         Numbered
<1>6. QED
  BY <1>2, <1>3, <1>4, <1>5 DEF Recovery

LEMMA RecoveryLedger ==
    ASSUME Settled, Recovery
    PROVE  /\ DOMAIN runs' = Runs /\ \A n \in Runs : DOMAIN runs'[n] = Fields
           /\ \A n \in Runs : /\ runs'[n].lane = runs[n].lane /\ runs'[n].role = runs[n].role
                              /\ runs'[n].phase = runs[n].phase
                                   \/ (n \notin alive /\ Active(n) /\ runs'[n].phase \in Over)
           /\ Spent' = Spent /\ lease' \in [Lanes -> 0..MaxRuns]
           /\ lease' = lease \/ (pc = "release" /\ lease' = LeaseOf(cur))
<1>1. ASSUME NEW n \in Runs, RecoverDead(n)
      PROVE  /\ DOMAIN runs' = Runs /\ \A m \in Runs : DOMAIN runs'[m] = Fields
             /\ \A m \in Runs : /\ runs'[m].lane = runs[m].lane /\ runs'[m].role = runs[m].role
                                /\ runs'[m].phase = runs[m].phase
                                     \/ (m \notin alive /\ Active(m) /\ runs'[m].phase \in Over)
             /\ Spent' = Spent /\ lease' = lease
  <2>1. n \notin alive /\ Active(n) /\ n \in Spent
    BY <1>1 DEF RecoverDead, Readings, Active, Spent
  <2>2. PICK p \in {"FAILED", "AMBIGUOUS"} : Phase(n, p)
    BY <1>1 DEF RecoverDead
  <2>3. QED
    BY <1>1, <2>1, <2>2, PhaseStep DEF Settled, RecoverDead, Over
<1>2. CASE \E n \in Runs : RecoverDead(n)
  BY <1>1, <1>2 DEF Settled, TypeOK
<1>3. CASE ReleaseDead
  <2>1. pc = "release" /\ runs' = runs /\ lease' = LeaseOf(cur)
    BY <1>3 DEF ReleaseDead
  <2>2. cur \in Runs /\ runs[cur].lane \in Lanes
    BY <2>1 DEF Settled, InHand, Recovering, Numbered, Spent
  <2>3. QED
    BY <2>1, <2>2, LeaseStep DEF Settled, TypeOK, Spent
<1>4. ASSUME runs' = runs, lease' = lease
      PROVE  /\ DOMAIN runs' = Runs /\ \A n \in Runs : DOMAIN runs'[n] = Fields
             /\ Spent' = Spent /\ lease' \in [Lanes -> 0..MaxRuns]
  BY <1>4 DEF Settled, TypeOK, Spent
<1>5. CASE \E n \in Runs : NothingToRecover(n) \/ HoldUnknown(n)
  BY <1>4, <1>5 DEF NothingToRecover, HoldUnknown
<1>6. CASE SaveMark \/ EscalateAmbiguous \/ NoteAmbiguous
  BY <1>4, <1>6 DEF SaveMark, EscalateAmbiguous, NoteAmbiguous
<1>7. QED
  BY <1>2, <1>3, <1>5, <1>6 DEF Recovery

LEMMA RecoverySettled == ASSUME Settled, Recovery PROVE Settled'
<1>1. UNCHANGED <<attempt, bound, alive, answer, wsnap, crashes, answers, asked, answered, here,
                  history>>
  BY RecoveryTouches
<1>2. lane' \in [Lanes -> [state : LaneStates, verdict : Verdicts]]
  <2>1. CASE lane' = lane
    BY <2>1 DEF Settled, TypeOK
  <2>2. ASSUME NEW n \in Spent, Park(runs[n].lane, "WAITING_OWNER")
        PROVE  lane' \in [Lanes -> [state : LaneStates, verdict : Verdicts]]
    BY <2>2, StateStep DEF Park, Settled, Numbered, LaneStates
  <2>3. QED
    BY <2>1, <2>2, RecoveryMoves
<1>3. TypeOK'
  BY <1>1, <1>2, RecoveryLedger, RecoveryMoves DEF Settled, TypeOK
<1>4. pc \in Recovering => cur \in bound
  BY DEF Settled, InHand
<1>5. Numbered'
  BY <1>1, <1>4, RecoveryLedger, RecoveryMoves DEF Settled, Numbered, Spent, Active
<1>6. InHand'
  BY <1>1, <1>4, RecoveryLedger, RecoveryMoves DEF Settled, Numbered, InHand, Recovering, Judging, Launching
<1>7. QED
  BY <1>3, <1>5, <1>6 DEF Settled

\* reap's second loop.  It takes a run that is over, or passes one over; the rest
\* is about the run it has taken.
Handlers ==
    \/ CountQuestion \/ EscalateEnded \/ RefusedRun \/ ResetWorktree \/ Retry
    \/ CompleteReport \/ AfterImplementation \/ Verify \/ ReviewNotDispatched \/ DispatchReview
    \/ BindReview \/ HoldFindings \/ AfterReview \/ Resolve
LEMMA ConsumeSplits == Consume <=> Handlers \/ \E n \in Runs : TakeRun(n) \/ PassOver(n)
  BY DEF Consume, Handlers

LEMMA TakingTouches ==
    ASSUME NEW n \in Runs, TakeRun(n) \/ PassOver(n)
    PROVE  /\ UNCHANGED <<rowsOf, ledger, bound, talk, answer, wsnap, crashes, answers, wakes, here,
                          doc, found>>
           /\ pc = "consume" /\ n \in todo /\ todo' = todo \ {n}
           /\ \/ pc' = "consume" /\ processed' \in {processed, processed \cup {n}} /\ consumed' = consumed
              \/ /\ pc' = "judge" /\ cur' = n /\ processed' = processed \cup {n}
                 /\ consumed' = [consumed EXCEPT ![n] = @ + 1]
  BY DEF TakeRun, PassOver, Drop, Go, ConsumeFrame, TickFrame, CallFrame

LEMMA HandlersTouch ==
    ASSUME Handlers
    PROVE  UNCHANGED <<todo, processed, consumed, answer, wsnap, crashes, answers, asked, answered,
                       wakes, here>>
<1>1. CASE CountQuestion \/ EscalateEnded \/ RefusedRun \/ ResetWorktree \/ Retry
  BY <1>1 DEF CountQuestion, EscalateEnded, RefusedRun, ResetWorktree, Retry, JudgeFrame,
              ConsumeFrame, TickFrame, CallFrame
<1>2. CASE CompleteReport \/ AfterImplementation \/ Verify \/ ReviewNotDispatched
  BY <1>2 DEF CompleteReport, AfterImplementation, Verify, ReviewNotDispatched, JudgeFrame,
              ConsumeFrame, TickFrame, CallFrame
<1>3. CASE DispatchReview \/ BindReview \/ HoldFindings \/ AfterReview \/ Resolve
  BY <1>3 DEF DispatchReview, BindReview, HoldFindings, AfterReview, Resolve, JudgeFrame,
              ConsumeFrame, TickFrame, CallFrame
<1>4. QED
  BY <1>1, <1>2, <1>3 DEF Handlers

\* Only the dispatch of a reviewer changes the ledger, only its binding the book; and
\* the handlers go from place to place with the run they were given.
ReviewerRun(p) == \E key : NewRun(runs[cur].lane, "review", key, p)
LEMMA HandlersMove ==
    ASSUME Handlers
    PROVE  /\ pc \in Judging /\ (pc \in {"hold", "retry"} => pc' = "consume")
           /\ \/ pc' = "consume"
              \/ pc' \in Judging \ {"judge", "bindreview"} /\ cur' = cur
              \/ pc = "review" /\ pc' = "bindreview" /\ cur' = Fresh
           /\ \/ UNCHANGED <<runs, alive, lease>> /\ pc' # "bindreview"
              \/ pc = "review" /\ pc' = "hold" /\ ReviewerRun("REFUSED")
              \/ pc = "review" /\ pc' = "bindreview" /\ ReviewerRun("live")
           /\ bound' = bound \/ (pc = "bindreview" /\ bound' = bound \cup {cur} /\ pc' = "hold")
<1>1. CASE CountQuestion \/ EscalateEnded \/ RefusedRun \/ ResetWorktree \/ Retry
  BY <1>1 DEF CountQuestion, EscalateEnded, RefusedRun, ResetWorktree, Retry, JudgeFrame, Judged,
              NextRun, Go, Judging
<1>2. CASE CompleteReport \/ HoldFindings \/ AfterReview \/ Resolve
  BY <1>2 DEF CompleteReport, HoldFindings, AfterReview, Resolve, JudgeFrame, Judged, NextRun, Go,
              Judging
<1>3. CASE AfterImplementation \/ Verify \/ BindReview
  BY <1>3 DEF AfterImplementation, Verify, BindReview, JudgeFrame, Judged, Go, Judging
<1>4. CASE ReviewNotDispatched
  BY <1>4 DEF ReviewNotDispatched, JudgeFrame, Go, Judging, LaneOf, ReviewerRun
<1>5. CASE DispatchReview
  BY <1>5 DEF DispatchReview, JudgeFrame, Go, Judging, LaneOf, ReviewerRun
<1>6. QED
  BY <1>1, <1>2, <1>3, <1>4, <1>5 DEF Handlers

\* What they do to the lane of their run.
LEMMA HandlersRows ==
    ASSUME Handlers
    PROVE  \/ lane' = lane
           \/ \E s \in LaneStates : SetState(runs[cur].lane, s)
           \/ \E s \in LaneStates, v \in Verdicts : SetVerdict(runs[cur].lane, s, v)
<1>1. CASE CountQuestion \/ ResetWorktree \/ AfterImplementation \/ Verify \/ DispatchReview
           \/ BindReview \/ AfterReview
  BY <1>1 DEF CountQuestion, ResetWorktree, AfterImplementation, Verify, DispatchReview, BindReview,
              AfterReview
<1>2. CASE EscalateEnded \/ Retry \/ ReviewNotDispatched \/ HoldFindings
  BY <1>2 DEF EscalateEnded, Retry, ReviewNotDispatched, HoldFindings, Park, LaneOf, LaneStates
<1>3. CASE RefusedRun \/ CompleteReport \/ Resolve
  BY <1>3 DEF RefusedRun, CompleteReport, Resolve, LaneOf, LaneStates, Verdicts
<1>4. QED
  BY <1>1, <1>2, <1>3 DEF Handlers

LEMMA HandlersCounts ==
    ASSUME Settled, Handlers
    PROVE  DOMAIN ckpt' = Lanes /\ attempt' \in [Lanes -> Nat]
<1>1. pc \in Judging
  BY HandlersMove
<1>2. runs[cur].lane \in Lanes /\ DOMAIN ckpt = Lanes /\ attempt \in [Lanes -> Nat]
  BY <1>1 DEF Settled, InHand, Numbered, TypeOK
<1>3. CASE CountQuestion \/ EscalateEnded \/ RefusedRun \/ ResetWorktree \/ Retry
  BY <1>2, <1>3 DEF CountQuestion, EscalateEnded, RefusedRun, ResetWorktree, Retry, Save, LaneOf
<1>4. CASE CompleteReport \/ AfterImplementation \/ Verify \/ ReviewNotDispatched
  BY <1>2, <1>4 DEF CompleteReport, AfterImplementation, Verify, ReviewNotDispatched, Save, SaveKey,
                    LaneOf
<1>5. CASE DispatchReview \/ BindReview \/ HoldFindings \/ AfterReview
  BY <1>2, <1>5 DEF DispatchReview, BindReview, HoldFindings, AfterReview, Save, LaneOf
<1>6. CASE Resolve
  <2>1. ckpt' = ckpt \/ SaveKey(LaneOf(cur), "fix", TRUE)
    BY <1>6 DEF Resolve
  <2>2. attempt' = attempt \/ attempt' = [attempt EXCEPT ![LaneOf(cur)] = attempt[LaneOf(cur)] + 1]
    BY <1>6 DEF Resolve
  <2>3. DOMAIN ckpt' = Lanes
    BY <1>2, <2>1 DEF Save, SaveKey
  <2>4. attempt' \in [Lanes -> Nat]
    BY <1>2, <2>2 DEF LaneOf
  <2>5. QED
    BY <2>3, <2>4
<1>7. QED
  BY <1>3, <1>4, <1>5, <1>6 DEF Handlers

LEMMA ConsumeSettled == ASSUME Settled, Consume PROVE Settled'
<1>1. ASSUME NEW n \in Runs, TakeRun(n) \/ PassOver(n) PROVE Settled'
  <2>1. /\ UNCHANGED <<rowsOf, ledger, bound, talk, answer, wsnap, crashes, answers, wakes, here>>
        /\ pc = "consume" /\ n \in todo /\ todo' = todo \ {n}
        /\ \/ pc' = "consume" /\ processed' \in {processed, processed \cup {n}} /\ consumed' = consumed
           \/ /\ pc' = "judge" /\ cur' = n /\ processed' = processed \cup {n}
              /\ consumed' = [consumed EXCEPT ![n] = @ + 1]
    BY <1>1, TakingTouches
  <2>2. n \in bound /\ todo \subseteq bound /\ bound \subseteq Spent
    BY <2>1 DEF Settled, InHand, Numbered
  <2>3. TypeOK'
    BY <2>1 DEF Settled, TypeOK
  <2>4. Numbered'
    BY <2>1, <2>2 DEF Settled, Numbered, Spent, Active
  <2>5. InHand'
    BY <2>1, <2>2, <2>4 DEF Settled, InHand, Numbered, Recovering, Judging, Launching
  <2>6. QED
    BY <2>3, <2>4, <2>5 DEF Settled
<1>2. CASE Handlers
  <2>1. UNCHANGED <<todo, processed, consumed, answer, wsnap, crashes, answers, asked, wakes, here>>
    BY <1>2, HandlersTouch
  <2>2. pc \in Judging /\ cur \in Spent /\ runs[cur].lane \in Lanes
    BY <1>2, HandlersMove DEF Settled, InHand, Numbered
  <2>3. lane' \in [Lanes -> [state : LaneStates, verdict : Verdicts]]
    <3>1. CASE lane' = lane
      BY <3>1 DEF Settled, TypeOK
    <3>2. CASE \E s \in LaneStates : SetState(runs[cur].lane, s)
      BY <2>2, <3>2, StateStep DEF Settled
    <3>3. CASE \E s \in LaneStates, v \in Verdicts : SetVerdict(runs[cur].lane, s, v)
      BY <2>2, <3>3, VerdictStep DEF Settled
    <3>4. QED
      BY <1>2, <3>1, <3>2, <3>3, HandlersRows
  <2>4. ASSUME UNCHANGED <<runs, alive, lease>>, pc' # "bindreview" PROVE Settled'
    <3>1. TypeOK'
      BY <1>2, <2>1, <2>3, <2>4, HandlersCounts DEF Settled, TypeOK
    <3>2. Numbered'
      BY <1>2, <2>1, <2>2, <2>4, HandlersMove DEF Settled, Numbered, Spent, Active
    <3>3. InHand'
      BY <1>2, <2>1, <2>2, <2>4, HandlersMove
         DEF Settled, InHand, Spent, Recovering, Judging, Launching
    <3>4. QED
      BY <3>1, <3>2, <3>3 DEF Settled
  <2>5. ASSUME NEW p \in {"REFUSED", "live"}, ReviewerRun(p), pc = "review",
               pc' = "hold" \/ pc' = "bindreview"
        PROVE  Settled'
    <3>1. PICK key : NewRun(runs[cur].lane, "review", key, p)
      BY <2>5 DEF ReviewerRun
    <3> DEFINE l == runs[cur].lane
    <3>2. /\ Fresh \in Runs /\ Fresh \notin Spent
          /\ DOMAIN runs' = Runs /\ \A m \in Runs : DOMAIN runs'[m] = Fields
          /\ \A m \in Runs \ {Fresh} : runs'[m] = runs[m]
          /\ runs'[Fresh].lane = l /\ runs'[Fresh].phase = p
          /\ Spent' = Spent \cup {Fresh}
          /\ \E k \in 0..MaxRuns : Spent' = 1..k
          /\ lease' \in [Lanes -> 0..MaxRuns]
          /\ alive' = IF p = "live" THEN alive \cup {Fresh} ELSE alive
      <4>1. p # "none"
        OBVIOUS
      <4>2. QED
        BY <2>2, <3>1, <4>1, NewRunStep DEF Settled
    <3>3. TypeOK'
      BY <1>2, <2>1, <2>3, <3>2, HandlersCounts DEF Settled, TypeOK
    <3>4. bound' = bound
      BY <1>2, <2>5, HandlersMove
    <3>5. Numbered'
      BY <2>1, <2>2, <3>2, <3>4 DEF Settled, Numbered, Spent, Active, Over
    <3>6. InHand'
      BY <1>2, <2>1, <2>2, <2>5, <3>2, <3>4, HandlersMove
         DEF Settled, InHand, Recovering, Judging, Launching
    <3>7. QED
      BY <3>3, <3>5, <3>6 DEF Settled
  <2>6. QED
    BY <1>2, <2>4, <2>5, HandlersMove
<1>3. QED
  BY <1>1, <1>2, ConsumeSplits

\* apply_pending_wakes.
Waking == WakePending \/ \E l \in Lanes : SpendWake(l)
LEMMA WakingTouches ==
    ASSUME Waking
    PROVE  /\ UNCHANGED <<attempt, ledger, book, talk, answer, wsnap, crashes, answers, cur, doc,
                          consumed>>
           /\ todo' \subseteq todo
           /\ \/ pc = "wake" /\ pc' = "wake" /\ lane' = lane /\ wakes' = wakes
              \/ pc = "wake" /\ pc' = "woken" /\ here' \in todo /\ lane' = lane /\ wakes' = wakes
              \/ /\ pc = "woken" /\ pc' = "wake" /\ SetState(here, "PLANNED")
                 /\ wakes' = [wakes EXCEPT ![here] = @ + 1]
           /\ ckpt' = ckpt \/ \E l \in Lanes : SaveKey(l, "wake", FALSE)
<1>1. CASE WakePending
  BY <1>1 DEF WakePending, WakeFrame, TickFrame, CallFrame, Go
<1>2. CASE \E l \in Lanes : SpendWake(l)
  BY <1>2 DEF SpendWake, WakeFrame, TickFrame, CallFrame, Go
<1>3. QED
  BY <1>1, <1>2 DEF Waking

LEMMA WakingSettled == ASSUME Settled, Waking PROVE Settled'
<1>1. /\ UNCHANGED <<attempt, ledger, book, talk, answer, wsnap, crashes, answers, cur, consumed>>
      /\ todo' \subseteq todo
      /\ \/ pc = "wake" /\ pc' = "wake" /\ lane' = lane /\ wakes' = wakes
         \/ pc = "wake" /\ pc' = "woken" /\ here' \in todo /\ lane' = lane /\ wakes' = wakes
         \/ /\ pc = "woken" /\ pc' = "wake" /\ SetState(here, "PLANNED")
            /\ wakes' = [wakes EXCEPT ![here] = @ + 1]
  BY WakingTouches
<1>2. todo \subseteq Lanes
  BY <1>1 DEF Settled, InHand
<1>3. pc = "woken" => here \in Lanes
  BY DEF Settled, InHand
<1>4. /\ lane' \in [Lanes -> [state : LaneStates, verdict : Verdicts]]
      /\ wakes' \in [Lanes -> Nat]
  BY <1>1, <1>3, StateStep DEF Settled, TypeOK, LaneStates
<1>5. DOMAIN ckpt' = Lanes
  BY WakingTouches DEF SaveKey, Save, Settled, TypeOK
<1>6. TypeOK'
  BY <1>1, <1>4, <1>5 DEF Settled, TypeOK
<1>7. Numbered'
  BY <1>1 DEF Settled, Numbered, Spent, Active
<1>8. InHand'
  BY <1>1, <1>2 DEF Settled, InHand, Recovering, Judging, Launching
<1>9. QED
  BY <1>6, <1>7, <1>8 DEF Settled

\* schedule.
LEMMA ScheduleTouches ==
    ASSUME Schedule
    PROVE  UNCHANGED <<attempt, processed, asked, answered, answer, wsnap, crashes, answers, history>>
<1>1. CASE \E l \in Lanes : NotReady(l) \/ SyncFails(l) \/ RefuseSeat(l) \/ Prepare(l)
  BY <1>1 DEF NotReady, SyncFails, RefuseSeat, Prepare, ScheduleFrame, TickFrame, CallFrame
<1>2. CASE Dispatch \/ DuplicateDispatch \/ RefusedDispatch
  BY <1>2 DEF Dispatch, DuplicateDispatch, RefusedDispatch, DispatchFrame, ScheduleFrame, TickFrame,
              CallFrame
<1>3. CASE BindRun \/ Promote \/ DropFix
  BY <1>3 DEF BindRun, Promote, DropFix, ScheduleFrame, TickFrame, CallFrame
<1>4. QED
  BY <1>1, <1>2, <1>3 DEF Schedule

\* It takes a lane that is ready, gives it a run, and binds the run to it.
LaneRun(p) == \E key : NewRun(here, RoleOf(here), key, p)
LEMMA ScheduleMoves ==
    ASSUME Schedule
    PROVE  /\ todo' \subseteq todo
           /\ \/ pc' = "schedule" /\ pc \in {"schedule", "dispatch", "dropfix"}
              \/ pc = "schedule" /\ pc' = "dispatch" /\ here' \in todo /\ InFlight(here') = {}
              \/ pc = "dispatch" /\ pc' = "bind" /\ here' = here /\ cur' = Fresh
              \/ pc = "bind" /\ pc' = "promote" /\ here' = here /\ cur' = cur
              \/ pc = "promote" /\ pc' = "dropfix" /\ here' = here /\ cur' = cur
           /\ \/ UNCHANGED <<runs, alive, lease>> /\ pc' # "bind"
              \/ pc = "dispatch" /\ pc' = "bind" /\ LaneRun("live") /\ ~Leased(here)
              \/ pc = "dispatch" /\ pc' = "schedule" /\ LaneRun("REFUSED")
           /\ bound' = bound \/ (pc = "bind" /\ pc' = "promote" /\ bound' = bound \cup {cur})
<1>1. CASE \E l \in Lanes : NotReady(l) \/ SyncFails(l) \/ RefuseSeat(l) \/ Prepare(l)
  BY <1>1 DEF NotReady, SyncFails, RefuseSeat, Prepare, ScheduleFrame, Go, Ready, InFlight
<1>2. CASE Dispatch
  BY <1>2 DEF Dispatch, DispatchFrame, ScheduleFrame, Go, LaneRun
<1>3. CASE DuplicateDispatch
  BY <1>3 DEF DuplicateDispatch, DispatchFrame, ScheduleFrame, NextLane, Go
<1>4. CASE RefusedDispatch
  BY <1>4 DEF RefusedDispatch, DispatchFrame, ScheduleFrame, NextLane, Go, LaneRun
<1>5. CASE BindRun \/ Promote \/ DropFix
  BY <1>5 DEF BindRun, Promote, DropFix, ScheduleFrame, NextLane, Go
<1>6. QED
  BY <1>1, <1>2, <1>3, <1>4, <1>5 DEF Schedule

LEMMA ScheduleRows ==
    ASSUME Settled, Schedule
    PROVE  /\ \/ lane' = lane
              \/ \E l \in Lanes, s \in Waiting : SetState(l, s) /\ Blocker(l)
              \/ pc = "dispatch" /\ SetVerdict(here, "WAITING_STRATEGIST", "FAIL")
              \/ pc = "promote" /\ lane[here].state = "PLANNED" /\ SetState(here, "ACTIVE")
           /\ DOMAIN ckpt' = Lanes
<1>1. pc = "schedule" => todo \subseteq Lanes
  BY DEF Settled, InHand
<1>2. pc \in {"dispatch"} \cup Launching => here \in Lanes
  BY DEF Settled, InHand
<1>3. DOMAIN ckpt = Lanes
  BY DEF Settled, TypeOK
<1>4. ASSUME NEW l \in Lanes, NotReady(l) \/ SyncFails(l)
      PROVE  /\ lane' = lane \/ \E s \in Waiting : SetState(l, s) /\ Blocker(l)
             /\ DOMAIN ckpt' = Lanes
  BY <1>3, <1>4 DEF NotReady, SyncFails, Save, Waiting
<1>5. ASSUME NEW l \in Lanes, RefuseSeat(l) \/ Prepare(l)
      PROVE  /\ lane' = lane \/ \E s \in Waiting : SetState(l, s) /\ Blocker(l)
             /\ DOMAIN ckpt' = Lanes
  BY <1>3, <1>5 DEF RefuseSeat, Prepare, Park, Save, Waiting
<1>6. CASE Dispatch \/ DuplicateDispatch \/ RefusedDispatch
  BY <1>2, <1>3, <1>6 DEF Dispatch, DuplicateDispatch, RefusedDispatch, DispatchFrame, Park, Waiting
<1>7. CASE BindRun \/ Promote \/ DropFix
  BY <1>2, <1>3, <1>7 DEF BindRun, Promote, DropFix, Save
<1>8. QED
  BY <1>4, <1>5, <1>6, <1>7 DEF Schedule

LEMMA ScheduleSettled == ASSUME Settled, Schedule PROVE Settled'
<1>1. UNCHANGED <<attempt, processed, asked, answered, answer, wsnap, crashes, answers, history>>
  BY ScheduleTouches
<1>2. /\ todo \subseteq Lanes /\ todo' \subseteq todo
      /\ pc \in {"dispatch"} \cup Launching => here \in Lanes
      /\ pc \in Launching => cur \in Spent
  BY ScheduleMoves DEF Settled, InHand, Launching
<1>3. lane' \in [Lanes -> [state : LaneStates, verdict : Verdicts]] /\ DOMAIN ckpt' = Lanes
  <2>1. CASE lane' = lane
    BY <2>1, ScheduleRows DEF Settled, TypeOK
  <2>2. ASSUME NEW l \in Lanes, NEW s \in Waiting \cup {"ACTIVE"}, SetState(l, s)
        PROVE  lane' \in [Lanes -> [state : LaneStates, verdict : Verdicts]]
    BY <2>2, StateStep DEF Settled, LaneStates, Waiting
  <2>3. CASE pc = "dispatch" /\ SetVerdict(here, "WAITING_STRATEGIST", "FAIL")
    BY <1>2, <2>3, VerdictStep, ScheduleRows DEF Settled, LaneStates, Verdicts
  <2>4. QED
    BY <1>2, <2>1, <2>2, <2>3, ScheduleRows DEF Launching
<1>4. CASE UNCHANGED <<runs, alive, lease>> /\ pc' # "bind"
  <2>1. TypeOK'
    BY <1>1, <1>3, <1>4 DEF Settled, TypeOK
  <2>2. Numbered'
    BY <1>1, <1>2, <1>4, ScheduleMoves DEF Settled, Numbered, Spent, Active, Launching
  <2>3. InHand'
    BY <1>1, <1>2, <1>4, ScheduleMoves DEF Settled, InHand, Spent, Recovering, Judging, Launching
  <2>4. QED
    BY <2>1, <2>2, <2>3 DEF Settled
<1>5. ASSUME NEW p \in {"REFUSED", "live"}, LaneRun(p), pc = "dispatch", pc' \in {"bind", "schedule"}
      PROVE  Settled'
  <2>1. PICK key : NewRun(here, RoleOf(here), key, p)
    BY <1>5 DEF LaneRun
  <2>2. /\ Fresh \in Runs /\ Fresh \notin Spent
        /\ DOMAIN runs' = Runs /\ \A m \in Runs : DOMAIN runs'[m] = Fields
        /\ \A m \in Runs \ {Fresh} : runs'[m] = runs[m]
        /\ runs'[Fresh].lane = here /\ runs'[Fresh].phase = p
        /\ Spent' = Spent \cup {Fresh}
        /\ \E k \in 0..MaxRuns : Spent' = 1..k
        /\ lease' \in [Lanes -> 0..MaxRuns]
        /\ alive' = IF p = "live" THEN alive \cup {Fresh} ELSE alive
    <3>1. p # "none"
      OBVIOUS
    <3>2. QED
      BY <1>2, <1>5, <2>1, <3>1, NewRunStep DEF Settled
  <2>3. TypeOK'
    BY <1>1, <1>3, <2>2 DEF Settled, TypeOK
  <2>4. bound' = bound
    BY <1>5, ScheduleMoves
  <2>5. Numbered'
    BY <1>1, <1>2, <1>5, <2>2, <2>4 DEF Settled, Numbered, Spent, Active, Over
  <2>6. InHand'
    BY <1>1, <1>2, <1>5, <2>2, <2>4, ScheduleMoves DEF Settled, InHand, Recovering, Judging, Launching
  <2>7. QED
    BY <2>3, <2>5, <2>6 DEF Settled
<1>6. QED
  BY <1>4, <1>5, ScheduleMoves

\* Every step is one of these.
LEMMA NextSplits ==
    Next => \/ Moves \/ Recovery \/ Consume \/ Waking \/ Schedule \/ Transport
            \/ \E n \in Runs : WorkerOf(n)
  BY DEF Next, Tick, Moves, Recovery, Waking, WorkerOf

THEOREM Typed == Spec => []Settled
<1>1. Settled /\ [Next]_vars => Settled'
  <2> SUFFICES ASSUME Settled, [Next]_vars PROVE Settled'
    OBVIOUS
  <2>1. CASE UNCHANGED vars
    BY <2>1 DEF vars, Settled, TypeOK, Numbered, InHand, Spent, Active
  <2>2. CASE Next
    BY <2>2, NextSplits, MovesSettled, RecoverySettled, ConsumeSettled, WakingSettled,
       ScheduleSettled, TransportSettled, WorkerSettled
  <2>3. QED
    BY <2>1, <2>2
<1>2. QED
  BY <1>1, SettledInit, PTL DEF Spec

LEMMA NextHandlers == Handlers => Next
  BY ConsumeSplits DEF Next, Tick

LEMMA RunsGrow == ASSUME Settled, Next PROVE Grows
<1>1. CASE UNCHANGED <<runs, alive>>
  BY <1>1 DEF Grows, Spent
<1>2. CASE Recovery
  BY <1>2, RecoveryLedger, RecoveryTouches DEF Grows, Spent, Active
<1>3. ASSUME NEW n \in Runs, WorkerOf(n) PROVE Grows
  BY <1>3, WorkerLedger DEF Grows, Spent, Active
<1>4. ASSUME NEW l \in Lanes, NEW role, NEW key, NEW p \in {"REFUSED", "live"}, NewRun(l, role, key, p)
      PROVE  Grows
  <2>1. p # "none" /\ TypeOK /\ Numbered
    BY DEF Settled
  <2>2. /\ Fresh \notin Spent /\ \A m \in Runs \ {Fresh} : runs'[m] = runs[m]
        /\ Spent' = Spent \cup {Fresh} /\ alive' \subseteq alive \cup {Fresh}
    BY <1>4, <2>1, NewRunStep
  <2>3. QED
    BY <2>2 DEF Grows, Spent
<1>5. CASE Consume
  <2>1. CASE \E n \in Runs : TakeRun(n) \/ PassOver(n)
    BY <1>1, <2>1, TakingTouches
  <2>2. CASE Handlers
    <3>1. runs[cur].lane \in Lanes
      BY <2>2, HandlersMove DEF Settled, InHand, Numbered
    <3>2. QED
      BY <1>1, <1>4, <2>2, <3>1, HandlersMove DEF ReviewerRun
  <2>3. QED
    BY <1>5, <2>1, <2>2, ConsumeSplits
<1>6. CASE Schedule
  <2>1. pc = "dispatch" => here \in Lanes
    BY DEF Settled, InHand
  <2>2. QED
    BY <1>1, <1>4, <1>6, <2>1, ScheduleMoves DEF LaneRun
<1>7. CASE Moves \/ Waking \/ Transport
  BY <1>1, <1>7, MovesTouch, WakingTouches, TransportTouches
<1>8. QED
  BY <1>2, <1>3, <1>5, <1>6, <1>7, NextSplits

----------------------------------------------------------------------------
(* A run is consumed once.                                                 *)

LEMMA OnceStep == ASSUME Settled, OnceInv, [Next]_vars PROVE OnceInv'
<1>1. CASE UNCHANGED <<pc, todo, processed, consumed>>
  BY <1>1 DEF OnceInv
<1>2. CASE Moves
  BY <1>2, MovesTouch DEF OnceInv, Moved, Judging
<1>3. CASE Recovery
  BY <1>3, RecoveryTouches, RecoveryMoves DEF OnceInv, Recovering, Judging
<1>4. ASSUME NEW n \in Runs, TakeRun(n) \/ PassOver(n) PROVE OnceInv'
  <2>1. /\ pc = "consume" /\ n \in todo /\ todo' = todo \ {n}
        /\ \/ processed' \in {processed, processed \cup {n}} /\ consumed' = consumed
           \/ processed' = processed \cup {n} /\ consumed' = [consumed EXCEPT ![n] = @ + 1]
    BY <1>4, TakingTouches
  <2>2. n \notin processed /\ consumed[n] = 0 /\ consumed \in [Runs -> Nat]
    BY <2>1 DEF OnceInv, Settled, TypeOK
  <2>3. \A m \in Runs : consumed'[m] <= 1 /\ (consumed'[m] > 0 => m \in processed')
    BY <2>1, <2>2 DEF OnceInv
  <2>4. QED
    BY <2>1, <2>3 DEF OnceInv
<1>5. CASE Handlers
  BY <1>5, HandlersTouch, HandlersMove DEF OnceInv
<1>6. CASE Waking
  BY <1>6, WakingTouches DEF OnceInv, Judging
<1>7. CASE Schedule
  BY <1>7, ScheduleTouches, ScheduleMoves DEF OnceInv, Judging
<1>8. CASE Transport \/ \E n \in Runs : WorkerOf(n)
  BY <1>1, <1>8, TransportTouches, WorkerTouches
<1>9. CASE UNCHANGED vars
  BY <1>1, <1>9 DEF vars
<1>10. QED
  BY <1>2, <1>3, <1>4, <1>5, <1>6, <1>7, <1>8, <1>9, NextSplits, ConsumeSplits

\* The end of a run is acted on once, however often ticks die while they consume it
\* (orchestrator.py, reap).
THEOREM RunsAreConsumedOnce == Spec => []ConsumedOnce
<1>1. Init => OnceInv
  BY DEF Init, OnceInv, Judging
<1>2. Settled /\ OnceInv /\ [Next]_vars => OnceInv'
  BY OnceStep
<1>3. OnceInv => ConsumedOnce
  BY DEF OnceInv, ConsumedOnce
<1>4. QED
  BY <1>1, <1>2, <1>3, Typed, PTL DEF Spec

----------------------------------------------------------------------------
(* One writer.                                                             *)

LEMMA LeaseInvStep == ASSUME Settled, LeaseInv, [Next]_vars PROVE LeaseInv'
<1>1. Numbered /\ TypeOK /\ InHand
  BY DEF Settled
<1>2. alive \subseteq Spent /\ Spent \subseteq Runs /\ \A n \in Spent : runs[n].lane \in Lanes
  BY <1>1 DEF Numbered, Spent
\* The lease of a run that is not alive is nobody else's.
<1>3. ASSUME NEW n \in Runs, runs[n].lane \in Lanes, NEW m \in alive, m # n,
             runs[m].role = "implementation"
      PROVE  LeaseOf(n)[runs[m].lane] = m
  <2>1. lease[runs[m].lane] = m /\ runs[m].lane \in Lanes
    BY <1>2, <1>3 DEF LeaseInv
  <2>2. QED
    BY <1>1, <1>3, <2>1, LeaseStep
<1>4. CASE UNCHANGED <<runs, alive, lease>> /\ (pc' = "release" => pc = "release" /\ cur' = cur)
  BY <1>4 DEF LeaseInv
<1>5. ASSUME NEW n \in Runs, WorkerOf(n) PROVE LeaseInv'
  <2>1. /\ alive' \subseteq alive /\ runs[n].lane \in Lanes
        /\ \A m \in Runs : runs'[m].lane = runs[m].lane /\ runs'[m].role = runs[m].role
    BY <1>5, WorkerLedger
  <2>2. lease' = lease \/ (lease' = LeaseOf(n) /\ n \notin alive')
    BY <1>5, WorkerTouches
  <2>3. pc' = pc /\ cur' = cur
    BY <1>5, WorkerTouches
  <2>4. \A m \in alive' : runs[m].role = "implementation" => lease'[runs[m].lane] = m
    BY <1>2, <1>3, <2>1, <2>2 DEF LeaseInv
  <2>5. QED
    BY <1>2, <2>1, <2>3, <2>4 DEF LeaseInv
<1>6. CASE Recovery
  <2>1. /\ alive' = alive
        /\ \A m \in Runs : runs'[m].lane = runs[m].lane /\ runs'[m].role = runs[m].role
        /\ lease' = lease \/ (pc = "release" /\ lease' = LeaseOf(cur))
    BY <1>6, RecoveryTouches, RecoveryLedger
  <2>2. pc = "release" => cur \in Spent /\ cur \notin alive
    BY <1>1 DEF LeaseInv, InHand, Recovering, Numbered
  <2>3. pc' = "release" => cur' \notin alive
    BY <1>6, RecoveryMoves DEF RecoverDead, Readings
  <2>4. \A m \in alive : runs[m].role = "implementation" => lease'[runs[m].lane] = m
    BY <1>2, <1>3, <2>1, <2>2 DEF LeaseInv
  <2>5. QED
    BY <1>2, <2>1, <2>3, <2>4 DEF LeaseInv
\* A new implementer gets a lease nobody held.
<1>7. ASSUME NEW l \in Lanes, NEW role, NEW key, NEW p \in {"REFUSED", "live"},
             NewRun(l, role, key, p), pc' # "release",
             role = "implementation" /\ p = "live" => lease[l] = 0
      PROVE  LeaseInv'
  <2>1. p # "none"
    OBVIOUS
  <2>2. /\ Fresh \in Runs /\ Fresh \notin Spent /\ \A m \in Runs \ {Fresh} : runs'[m] = runs[m]
        /\ runs'[Fresh].lane = l /\ runs'[Fresh].role = role
        /\ alive' = IF p = "live" THEN alive \cup {Fresh} ELSE alive
    BY <1>1, <1>7, <2>1, NewRunStep
  <2>3. lease' = IF p = "live" /\ role = "implementation" THEN [lease EXCEPT ![l] = Fresh] ELSE lease
    BY <1>7 DEF NewRun
  <2>4. lease \in [Lanes -> 0..MaxRuns] /\ 0 \notin Runs
    BY <1>1, BoundsAreNat DEF TypeOK
  <2>5. \A m \in alive : runs[m].role = "implementation" => lease'[runs[m].lane] = m
    BY <1>2, <1>7, <2>3, <2>4 DEF LeaseInv
  <2>6. \A m \in alive : runs'[m] = runs[m]
    BY <1>2, <2>2
  <2>7. p = "live" /\ role = "implementation" => lease'[l] = Fresh
    BY <2>3, <2>4
  <2>8. QED
    BY <1>7, <2>2, <2>5, <2>6, <2>7 DEF LeaseInv
<1>8. CASE Consume
  <2>1. CASE \E n \in Runs : TakeRun(n) \/ PassOver(n)
    BY <1>4, <2>1, TakingTouches
  <2>2. CASE Handlers
    <3>1. pc' # "release" /\ runs[cur].lane \in Lanes
      BY <1>1, <1>2, <2>2, HandlersMove DEF InHand, Judging
    <3>2. QED
      BY <1>4, <1>7, <2>2, <3>1, HandlersMove DEF ReviewerRun
  <2>3. QED
    BY <1>8, <2>1, <2>2, ConsumeSplits
<1>9. CASE Schedule
  <2>1. pc' # "release" /\ (pc = "dispatch" => here \in Lanes)
    BY <1>1, <1>9, ScheduleMoves DEF InHand
  <2>2. RoleOf(here) = "implementation" /\ ~Leased(here) => lease[here] = 0
    BY DEF RoleOf, Leased
  <2>3. QED
    BY <1>4, <1>7, <1>9, <2>1, <2>2, ScheduleMoves DEF LaneRun
<1>10. CASE Moves \/ Waking \/ Transport
  BY <1>4, <1>10, MovesTouch, WakingTouches, TransportTouches DEF Moved
<1>11. CASE UNCHANGED vars
  BY <1>4, <1>11 DEF vars
<1>12. QED
  BY <1>5, <1>6, <1>8, <1>9, <1>10, <1>11, NextSplits

\* What is in flight changes with the book only.
LEMMA SameFlight ==
    ASSUME Settled, Grows, UNCHANGED book
    PROVE  (\A l : InFlight(l)' = InFlight(l)) /\ (Alone => Alone')
<1>1. \A n \in bound : runs'[n].lane = runs[n].lane
  BY DEF Settled, Numbered, Grows
<1>2. QED
  BY <1>1 DEF InFlight, Alone

\* The handlers stay with the lane of the run they were given.
LEMMA SameLane ==
    ASSUME Settled, Handlers, pc' \in Judging
    PROVE  runs'[cur'].lane = runs[cur].lane
<1>1. TypeOK /\ Numbered /\ pc \in Judging /\ cur \in Spent /\ runs[cur].lane \in Lanes
  BY HandlersMove DEF Settled, InHand, Numbered
<1>2. CASE pc' = "bindreview"
  <2>1. cur' = Fresh /\ "live" # "none"
    BY <1>2, HandlersMove DEF Judging
  <2>2. PICK key : NewRun(runs[cur].lane, "review", key, "live")
    BY <1>2, HandlersMove DEF ReviewerRun
  <2>3. runs'[Fresh].lane = runs[cur].lane
    BY <1>1, <2>1, <2>2, NewRunStep
  <2>4. QED
    BY <2>1, <2>3
<1>3. CASE pc' # "bindreview"
  <2>1. Grows
    BY RunsGrow, NextHandlers
  <2>2. QED
    BY <1>1, <1>3, <2>1, HandlersMove DEF Judging, Grows
<1>4. QED
  BY <1>2, <1>3

LEMMA FlightStep == ASSUME Settled, OnceInv, FlightInv, [Next]_vars PROVE FlightInv'
<1>1. Numbered /\ TypeOK /\ InHand
  BY DEF Settled
<1>2. CASE UNCHANGED vars
  BY <1>2 DEF vars, FlightInv, Alone, InFlight
<1> SUFFICES ASSUME Next PROVE FlightInv'
  BY <1>2
<1>3. Grows
  BY RunsGrow
<1>4. pc \in Judging \cup {"bind"} => cur \in Spent /\ runs'[cur].lane = runs[cur].lane
  BY <1>1, <1>3 DEF InHand, Launching, Grows
<1>5. CASE UNCHANGED <<book, pc, here, cur>>
  BY <1>3, <1>4, <1>5, SameFlight DEF FlightInv
<1>6. CASE Moves \/ Waking
  <2>1. UNCHANGED book /\ pc' \notin Judging \cup {"dispatch", "bind"}
    BY <1>6, MovesTouch, WakingTouches DEF Moved, Judging
  <2>2. QED
    BY <1>3, <2>1, SameFlight DEF FlightInv
<1>7. CASE Recovery
  <2>1. bound' = bound /\ processed \subseteq processed' /\ pc' \notin Judging \cup {"dispatch", "bind"}
    BY <1>7, RecoveryTouches, RecoveryMoves DEF Recovering, Judging
  <2>2. \A n \in bound : runs'[n].lane = runs[n].lane
    BY <1>1, <1>3 DEF Numbered, Grows
  <2>3. QED
    BY <2>1, <2>2 DEF FlightInv, Alone
<1>8. ASSUME NEW n \in Runs, TakeRun(n) \/ PassOver(n) PROVE FlightInv'
  <2>1. /\ UNCHANGED <<runs, bound>> /\ pc = "consume" /\ n \in todo
        /\ \/ pc' = "consume" /\ processed' \in {processed, processed \cup {n}}
           \/ pc' = "judge" /\ cur' = n /\ processed' = processed \cup {n}
    BY <1>8, TakingTouches
  <2>2. n \in bound \ processed
    BY <1>1, <2>1 DEF InHand, OnceInv
  <2>3. Alone'
    BY <2>1 DEF FlightInv, Alone
  <2>4. pc' = "judge" => (InFlight(runs[cur].lane) = {})'
    BY <2>1, <2>2 DEF FlightInv, Alone, InFlight
  <2>5. QED
    BY <2>1, <2>3, <2>4 DEF FlightInv, Judging
<1>9. CASE Handlers
  <2>1. /\ processed' = processed /\ pc \in Judging /\ pc' \notin {"dispatch", "bind"}
    BY <1>9, HandlersTouch, HandlersMove DEF Judging
  <2>2. CASE bound' = bound
    <3>1. (\A l : InFlight(l)' = InFlight(l)) /\ Alone'
      BY <1>3, <2>1, <2>2, SameFlight DEF FlightInv
    <3>2. pc' \in Judging \ {"hold"} => pc # "hold" /\ runs'[cur'].lane = runs[cur].lane
      BY <1>9, SameLane, HandlersMove DEF Judging
    <3>3. pc' \in Judging \ {"hold"} => InFlight(runs[cur].lane) = {}
      BY <2>1, <3>2 DEF FlightInv
    <3>4. QED
      BY <2>1, <3>1, <3>2, <3>3 DEF FlightInv
  <2>3. CASE pc = "bindreview" /\ bound' = bound \cup {cur} /\ pc' = "hold"
    <3>1. InFlight(runs[cur].lane) = {}
      BY <2>3 DEF FlightInv, Judging
    <3>2. \A n \in bound' : runs'[n].lane = runs[n].lane
      BY <1>1, <1>3, <1>4, <2>1, <2>3 DEF Numbered, Grows
    <3>3. Alone'
      BY <2>1, <2>3, <3>1, <3>2 DEF FlightInv, Alone, InFlight
    <3>4. QED
      BY <2>3, <3>3 DEF FlightInv
  <2>4. QED
    BY <1>9, <2>2, <2>3, HandlersMove
<1>10. CASE Schedule
  <2>1. processed' = processed /\ pc' \notin Judging
    BY <1>10, ScheduleTouches, ScheduleMoves DEF Judging
  <2>2. CASE bound' = bound
    <3>1. (\A l : InFlight(l)' = InFlight(l)) /\ Alone'
      BY <1>3, <2>1, <2>2, SameFlight DEF FlightInv
    <3>2. pc' \in {"dispatch", "bind"} => InFlight(here') = {}
      BY <1>10, ScheduleMoves DEF FlightInv
    <3>3. pc' = "bind" => runs'[cur'].lane = here'
      <4> SUFFICES ASSUME pc' = "bind" PROVE runs'[cur'].lane = here'
        OBVIOUS
      <4>1. pc = "dispatch" /\ here' = here /\ cur' = Fresh /\ LaneRun("live")
        BY <1>10, ScheduleMoves
      <4>2. PICK key : NewRun(here, RoleOf(here), key, "live")
        BY <4>1 DEF LaneRun
      <4>3. here \in Lanes /\ "live" # "none"
        BY <1>1, <4>1 DEF InHand
      <4>4. QED
        BY <1>1, <4>1, <4>2, <4>3, NewRunStep
    <3>4. QED
      BY <2>1, <3>1, <3>2, <3>3 DEF FlightInv
  <2>3. CASE pc = "bind" /\ pc' = "promote" /\ bound' = bound \cup {cur}
    <3>1. InFlight(runs[cur].lane) = {}
      BY <2>3 DEF FlightInv
    <3>2. \A n \in bound' : runs'[n].lane = runs[n].lane
      BY <1>1, <1>3, <1>4, <2>3 DEF Numbered, Grows
    <3>3. Alone'
      BY <2>1, <2>3, <3>1, <3>2 DEF FlightInv, Alone, InFlight
    <3>4. QED
      BY <2>1, <2>3, <3>3 DEF FlightInv
  <2>4. QED
    BY <1>10, <2>2, <2>3, ScheduleMoves
<1>11. CASE Transport \/ \E n \in Runs : WorkerOf(n)
  BY <1>5, <1>11, TransportTouches, WorkerTouches
<1>12. QED
  BY <1>6, <1>7, <1>8, <1>9, <1>10, <1>11, NextSplits, ConsumeSplits

LEMMA WriterImplies == Settled /\ WriterInv => OneWriter
<1> SUFFICES ASSUME Settled, WriterInv PROVE OneWriter
  OBVIOUS
<1>1. \A S, x : (\A y \in S : y = x) => Cardinality(S) <= 1
  <2> SUFFICES ASSUME NEW S, NEW x, \A y \in S : y = x PROVE Cardinality(S) <= 1
    OBVIOUS
  <2>1. S = {} \/ S = {x}
    OBVIOUS
  <2>2. Cardinality({}) = 0 /\ Cardinality({x}) = 1
    BY FS_EmptySet, FS_Singleton
  <2>3. QED
    BY <2>1, <2>2
<1>2. ASSUME NEW l \in Code
      PROVE  Cardinality({n \in alive : runs[n].lane = l /\ runs[n].role = "implementation"}) <= 1
  <2>1. \A n \in {m \in alive : runs[m].lane = l /\ runs[m].role = "implementation"} : n = lease[l]
    BY DEF WriterInv, LeaseInv
  <2>2. QED
    BY <1>1, <2>1
<1>3. ASSUME NEW l \in Lanes PROVE Cardinality(InFlight(l)) <= 1
  <2>1. \A m, n \in InFlight(l) : m = n
    BY DEF WriterInv, FlightInv, Alone, InFlight
  <2>2. CASE InFlight(l) = {}
    BY <1>1, <2>2
  <2>3. CASE InFlight(l) # {}
    BY <1>1, <2>1, <2>3
  <2>4. QED
    BY <2>2, <2>3
<1>4. QED
  BY <1>2, <1>3 DEF OneWriter

\* One implementer at a time works in a lane's worktree, and a lane has at most one
\* run bound and not yet processed, whatever died in between (orchestrator.py,
\* schedule and _dispatch_reviewer; strategic_store.py, bind_run).
THEOREM OneWriterAtATime == Spec => []OneWriter
<1>1. Init => OnceInv /\ WriterInv
  BY DEF Init, OnceInv, WriterInv, LeaseInv, FlightInv, Alone, Judging
<1>2. Settled /\ OnceInv /\ WriterInv /\ [Next]_vars => OnceInv' /\ WriterInv'
  BY OnceStep, LeaseInvStep, FlightStep DEF WriterInv
<1>3. QED
  BY <1>1, <1>2, WriterImplies, Typed, PTL DEF Spec

----------------------------------------------------------------------------
(* What a step may make of a lane's row, and what it leaves on the record.  *)

RowStep(l) ==
    \/ lane'[l] = lane[l]
    \/ /\ lane'[l].state \in Waiting
       /\ \/ lane'[l].verdict = "FAIL" \/ l \in blockers'
          \/ lane'[l].verdict = lane[l].verdict
               /\ \E n \in Runs : runs[n].phase = "asked" /\ runs[n].lane = l
    \/ /\ lane'[l].state = "COMPLETE" /\ l = runs[cur].lane
       /\ pc = "resolve" \/ (pc = "judge" /\ runs[cur].phase = "HANDOFF_READY")
    \/ /\ lane'[l].state = "ACTIVE"
       /\ (pc = "hold" /\ l = runs[cur].lane) \/ (pc = "promote" /\ lane[l].state = "PLANNED")
    \/ /\ lane'[l].state = "PLANNED"
       /\ \/ lane[l].state = "UNPLANNED" \/ wakes'[l] = wakes[l] + 1
          \/ attempt'[l] <= MaxReviewCycles + 1
    \/ lane'[l].state = "ABANDONED"

LEMMA HandlersJudge ==
    ASSUME Settled, Handlers
    PROVE  blockers \subseteq blockers' /\ \A l \in Lanes : RowStep(l)
<1>1. pc \in Judging /\ runs[cur].lane \in Lanes /\ TypeOK
  BY HandlersMove DEF Settled, InHand, Numbered
<1> DEFINE h == runs[cur].lane
<1>2. ASSUME lane' = lane PROVE \A l \in Lanes : RowStep(l)
  BY <1>2 DEF RowStep
<1>3. ASSUME NEW s \in {"WAITING_STRATEGIST", "WAITING_OWNER", "ACTIVE", "PLANNED"}, SetState(h, s),
             \/ s \in {"WAITING_STRATEGIST", "WAITING_OWNER"} /\ h \in blockers'
             \/ s = "ACTIVE" /\ pc = "hold"
             \/ s = "PLANNED" /\ attempt'[h] <= MaxReviewCycles + 1
      PROVE  \A l \in Lanes : RowStep(l)
  <2>1. s \in LaneStates
    BY DEF LaneStates
  <2>2. QED
    BY <1>1, <1>3, <2>1, StateStep DEF RowStep, Waiting
<1>4. ASSUME NEW s \in LaneStates, NEW v \in Verdicts, SetVerdict(h, s, v),
             \/ s \in Waiting /\ v = "FAIL"
             \/ s = "COMPLETE" /\ (pc = "resolve" \/ (pc = "judge" /\ runs[cur].phase = "HANDOFF_READY"))
             \/ s = "PLANNED" /\ attempt'[h] <= MaxReviewCycles + 1
      PROVE  \A l \in Lanes : RowStep(l)
  BY <1>1, <1>4, VerdictStep DEF RowStep
<1>5. CASE CountQuestion \/ ResetWorktree \/ AfterImplementation \/ Verify \/ DispatchReview
           \/ BindReview \/ AfterReview
  BY <1>2, <1>5 DEF CountQuestion, ResetWorktree, AfterImplementation, Verify, DispatchReview,
              BindReview, AfterReview, JudgeFrame, ConsumeFrame, TickFrame, CallFrame
<1>6. CASE EscalateEnded \/ ReviewNotDispatched
  <2>1. \E s \in Waiting : SetState(h, s) /\ Blocker(h)
    BY <1>6 DEF EscalateEnded, ReviewNotDispatched, Park, LaneOf, Waiting
  <2>2. blockers \subseteq blockers' /\ h \in blockers'
    BY <2>1 DEF Blocker
  <2>3. QED
    BY <1>3, <2>1, <2>2 DEF Waiting
<1>7. CASE Retry
  <2>1. attempt' = attempt /\ attempt[h] \in Nat /\ MaxReviewCycles \in Nat
    BY <1>1, <1>7, BoundsAreNat DEF Retry, TypeOK
  <2>2. CASE attempt[h] > MaxReviewCycles + 1
    <3>1. SetState(h, "WAITING_STRATEGIST") /\ Blocker(h)
      BY <1>7, <2>2 DEF Retry, Park, LaneOf
    <3>2. blockers \subseteq blockers' /\ h \in blockers'
      BY <3>1 DEF Blocker
    <3>3. QED
      BY <1>3, <3>1, <3>2
  <2>3. CASE ~(attempt[h] > MaxReviewCycles + 1)
    <3>1. SetState(h, "PLANNED") /\ UNCHANGED blockers /\ attempt'[h] <= MaxReviewCycles + 1
      BY <1>7, <2>1, <2>3 DEF Retry, LaneOf
    <3>2. QED
      BY <1>3, <3>1
  <2>4. QED
    BY <2>2, <2>3
<1>8. CASE HoldFindings
  <2>1. SetState(h, "ACTIVE") /\ pc = "hold" /\ blockers' = blockers
    BY <1>8 DEF HoldFindings, LaneOf
  <2>2. QED
    BY <1>3, <2>1
<1>9. CASE RefusedRun \/ CompleteReport
  BY <1>4, <1>9 DEF RefusedRun, CompleteReport, Judged, LaneOf, Waiting, LaneStates, Verdicts
<1>10. CASE Resolve
  <2>1. pc = "resolve" /\ blockers \subseteq blockers'
    BY <1>10 DEF Resolve, Blocker
  <2>2. attempt \in [Lanes -> Nat] /\ MaxReviewCycles \in Nat
    BY <1>1, BoundsAreNat DEF TypeOK
  <2>3. \/ \E s \in Waiting : SetVerdict(h, s, "FAIL")
        \/ \E v \in Verdicts : SetVerdict(h, "COMPLETE", v)
        \/ SetVerdict(h, "PLANNED", "NOT_EVALUATED") /\ attempt'[h] <= MaxReviewCycles + 1
    <3>1. CASE found
      <4>1. attempt' = [attempt EXCEPT ![h] = attempt[h] + 1]
        BY <1>10, <3>1 DEF Resolve, LaneOf
      <4>2. CASE attempt[h] + 1 > MaxReviewCycles
        BY <1>10, <3>1, <4>2 DEF Resolve, LaneOf, Waiting
      <4>3. CASE ~(attempt[h] + 1 > MaxReviewCycles)
        <5>1. SetVerdict(h, "PLANNED", "NOT_EVALUATED")
          BY <1>10, <3>1, <4>3 DEF Resolve, LaneOf
        <5>2. attempt'[h] <= MaxReviewCycles + 1
          BY <1>1, <2>2, <4>1, <4>3
        <5>3. QED
          BY <5>1, <5>2
      <4>4. QED
        BY <4>2, <4>3
    <3>2. CASE ~found
      BY <1>10, <3>2 DEF Resolve, LaneOf, Verdicts
    <3>3. QED
      BY <3>1, <3>2
  <2>4. QED
    BY <1>4, <2>1, <2>3 DEF Waiting, LaneStates, Verdicts
<1>11. QED
  BY <1>5, <1>6, <1>7, <1>8, <1>9, <1>10 DEF Handlers

LEMMA TransportRows ==
    ASSUME Settled, Transport
    PROVE  /\ \A l \in Lanes : RowStep(l)
           /\ wakes' = wakes \/ \E l \in Lanes : wakes' = [wakes EXCEPT ![l] = @ + 1]
<1>1. TypeOK /\ (apc # "idle" => alane \in Lanes)
  BY DEF Settled, InHand
<1>2. CASE LookAtLane \/ NoteWake \/ CancelStatus \/ \E l \in Lanes : RecordAnswer(l)
  <2>1. lane' = lane /\ wakes' = wakes
    BY <1>2 DEF LookAtLane, NoteWake, CancelStatus, RecordAnswer
  <2>2. QED
    BY <2>1 DEF RowStep
<1>3. ASSUME NEW l \in Lanes, PlanLane(l)
      PROVE  wakes' = wakes /\ \A k \in Lanes : RowStep(k)
  <2>1. lane[l].state = "UNPLANNED" /\ SetState(l, "PLANNED") /\ wakes' = wakes
    BY <1>3 DEF PlanLane
  <2>2. QED
    BY <1>1, <2>1, StateStep DEF RowStep, LaneStates
<1>4. CASE WakeLane
  <2>1. alane \in Lanes /\ SetState(alane, "PLANNED") /\ wakes' = [wakes EXCEPT ![alane] = @ + 1]
    BY <1>1, <1>4 DEF WakeLane
  <2>2. wakes'[alane] = wakes[alane] + 1
    BY <1>1, <2>1 DEF TypeOK
  <2>3. "PLANNED" \in LaneStates
    BY DEF LaneStates
  <2>4. \A k \in Lanes : (k # alane => lane'[k] = lane[k]) /\ (k = alane => lane'[k].state = "PLANNED")
    BY <1>1, <2>1, <2>3, StateStep
  <2>5. \A k \in Lanes : RowStep(k)
    BY <2>2, <2>4 DEF RowStep
  <2>6. QED
    BY <2>1, <2>5
<1>5. CASE CancelLanes
  <2>1. wakes' = wakes /\ \A l \in Lanes : lane'[l] = lane[l] \/ lane'[l].state = "ABANDONED"
    BY <1>5 DEF CancelLanes
  <2>2. QED
    BY <2>1 DEF RowStep
<1>6. QED
  BY <1>2, <1>3, <1>4, <1>5 DEF Transport

LEMMA RowsStep ==
    ASSUME Settled, Next
    PROVE  blockers \subseteq blockers' /\ \A l \in Lanes : RowStep(l)
<1>1. TypeOK /\ Numbered /\ InHand
  BY DEF Settled
<1>2. ASSUME UNCHANGED <<lane, blockers>>
      PROVE  blockers \subseteq blockers' /\ \A l \in Lanes : RowStep(l)
  BY <1>2 DEF RowStep
<1>3. ASSUME NEW k \in Lanes, NEW s \in Waiting, SetState(k, s), Blocker(k)
      PROVE  blockers \subseteq blockers' /\ \A l \in Lanes : RowStep(l)
  BY <1>1, <1>3, StateStep DEF RowStep, Blocker, Waiting, LaneStates
<1>4. CASE Recovery
  <2>1. CASE UNCHANGED <<lane, blockers>>
    BY <1>2, <2>1
  <2>2. ASSUME NEW n \in Spent, Park(runs[n].lane, "WAITING_OWNER")
        PROVE  blockers \subseteq blockers' /\ \A l \in Lanes : RowStep(l)
    BY <1>1, <1>3, <2>2 DEF Park, Waiting, Numbered
  <2>3. QED
    BY <1>4, <2>1, <2>2, RecoveryMoves
<1>5. ASSUME NEW n \in Runs, WorkerOf(n)
      PROVE  blockers \subseteq blockers' /\ \A l \in Lanes : RowStep(l)
  <2>1. runs[n].lane \in Lanes
    BY <1>5, WorkerLedger
  <2>2. CASE lane' = lane
    <3>1. blockers' = blockers
      BY <1>5, WorkerTouches
    <3>2. QED
      BY <1>2, <2>2, <3>1
  <2>3. ASSUME NEW s \in Waiting, runs[n].phase = "asked", SetState(runs[n].lane, s)
        PROVE  \A l \in Lanes : RowStep(l)
    BY <1>1, <2>1, <2>3, StateStep DEF RowStep, Waiting, LaneStates
  <2>4. QED
    BY <1>5, <2>2, <2>3, WorkerTouches
<1>6. CASE Consume
  <2>1. CASE \E n \in Runs : TakeRun(n) \/ PassOver(n)
    <3>1. UNCHANGED <<lane, blockers>>
      BY <2>1, TakingTouches
    <3>2. QED
      BY <1>2, <3>1
  <2>2. QED
    BY <1>6, <2>1, HandlersJudge, ConsumeSplits
<1>7. CASE Waking
  <2>1. CASE lane' = lane
    BY <1>2, <1>7, <2>1, WakingTouches
  <2>2. CASE pc = "woken" /\ SetState(here, "PLANNED") /\ wakes' = [wakes EXCEPT ![here] = @ + 1]
    <3>1. here \in Lanes
      BY <1>1, <2>2 DEF InHand
    <3>2. wakes'[here] = wakes[here] + 1
      BY <1>1, <2>2, <3>1 DEF TypeOK
    <3>3. \A l \in Lanes : RowStep(l)
      BY <1>1, <2>2, <3>1, <3>2, StateStep DEF RowStep, LaneStates
    <3>4. QED
      BY <1>7, <3>3, WakingTouches
  <2>3. QED
    BY <1>7, <2>1, <2>2, WakingTouches
<1>8. CASE Schedule
  <2>1. blockers \subseteq blockers'
    BY <1>8 DEF Schedule, NotReady, SyncFails, RefuseSeat, Prepare, Dispatch, DuplicateDispatch,
                RefusedDispatch, BindRun, Promote, DropFix, Park, Blocker
  <2>2. CASE lane' = lane
    BY <2>1, <2>2 DEF RowStep
  <2>3. CASE pc = "dispatch" /\ SetVerdict(here, "WAITING_STRATEGIST", "FAIL")
    <3>1. here \in Lanes
      BY <1>1, <2>3 DEF InHand
    <3>2. QED
      BY <1>1, <2>1, <2>3, <3>1, VerdictStep DEF RowStep, Waiting, LaneStates, Verdicts
  <2>4. CASE pc = "promote" /\ lane[here].state = "PLANNED" /\ SetState(here, "ACTIVE")
    <3>1. here \in Lanes
      BY <1>1, <2>4 DEF InHand, Launching
    <3>2. QED
      BY <1>1, <2>1, <2>4, <3>1, StateStep DEF RowStep, LaneStates
  <2>5. QED
    BY <1>3, <1>8, <2>2, <2>3, <2>4, ScheduleRows
<1>9. CASE Moves
  BY <1>2, <1>9, MovesTouch
<1>10. CASE Transport
  BY <1>10, TransportRows, TransportTouches
<1>11. QED
  BY <1>4, <1>5, <1>6, <1>7, <1>8, <1>9, <1>10, NextSplits

\* Consumptions, processed runs, wakes and deaths are only ever added to; an attempt
\* is charged by the tick that judges the lane's run.
LEMMA HistoryGrows ==
    ASSUME Settled, Next
    PROVE  /\ processed \subseteq processed' /\ \A n \in Runs : consumed'[n] >= consumed[n]
           /\ crashes' >= crashes /\ \A l \in Lanes : wakes'[l] >= wakes[l]
           /\ attempt' = attempt \/ Handlers
<1>1. TypeOK /\ Numbered /\ InHand
  BY DEF Settled
<1>2. ASSUME UNCHANGED <<consumed, wakes>>
      PROVE  (\A n \in Runs : consumed'[n] >= consumed[n]) /\ \A l \in Lanes : wakes'[l] >= wakes[l]
  BY <1>1, <1>2 DEF TypeOK
<1>3. CASE Moves
  BY <1>1, <1>2, <1>3, MovesTouch DEF TypeOK
<1>4. CASE Recovery \/ Schedule
  BY <1>1, <1>2, <1>4, RecoveryTouches, RecoveryMoves, ScheduleTouches DEF TypeOK
<1>5. ASSUME NEW n \in Runs, TakeRun(n) \/ PassOver(n)
      PROVE  /\ processed \subseteq processed' /\ UNCHANGED <<attempt, crashes, wakes>>
             /\ \A m \in Runs : consumed'[m] >= consumed[m]
  <2>1. /\ UNCHANGED <<attempt, crashes, wakes>> /\ processed' \in {processed, processed \cup {n}}
        /\ consumed' = consumed \/ consumed' = [consumed EXCEPT ![n] = @ + 1]
    BY <1>5, TakingTouches
  <2>2. QED
    BY <1>1, <2>1 DEF TypeOK
<1>6. CASE Consume
  BY <1>1, <1>2, <1>5, <1>6, HandlersTouch, ConsumeSplits DEF TypeOK
<1>7. CASE Waking
  <2>1. UNCHANGED <<processed, consumed, attempt, crashes>>
    BY <1>7, WakingTouches
  <2>2. wakes' = wakes \/ (pc = "woken" /\ wakes' = [wakes EXCEPT ![here] = @ + 1])
    BY <1>7, WakingTouches
  <2>3. QED
    BY <1>1, <2>1, <2>2 DEF TypeOK, InHand
<1>8. CASE Transport
  <2>1. UNCHANGED <<processed, consumed, attempt, crashes>>
    BY <1>8, TransportTouches
  <2>2. \A l \in Lanes : wakes'[l] >= wakes[l]
    BY <1>1, <1>8, TransportRows DEF TypeOK
  <2>3. QED
    BY <1>1, <2>1, <2>2 DEF TypeOK
<1>9. CASE \E n \in Runs : WorkerOf(n)
  BY <1>1, <1>2, <1>9, WorkerTouches DEF TypeOK
<1>10. QED
  BY <1>3, <1>4, <1>6, <1>7, <1>8, <1>9, NextSplits

----------------------------------------------------------------------------
(* Completion is by evidence.                                              *)

\* Where a handler leaves a run that was handed off.
LEMMA HandedOffOn ==
    ASSUME Handlers, pc' \in {"judge", "check", "resolve"}
    PROVE  /\ cur' = cur
           /\ \/ pc = "judge" /\ runs[cur].phase = "HANDOFF_READY"
              \/ pc = "check"
<1>1. CASE AfterImplementation \/ AfterReview
  BY <1>1 DEF AfterImplementation, AfterReview, Judged
<1>2. CASE Verify
  BY <1>2 DEF Verify, Go
<1>3. CASE CountQuestion \/ EscalateEnded \/ RefusedRun \/ ResetWorktree \/ Retry \/ CompleteReport
  BY <1>3 DEF CountQuestion, EscalateEnded, RefusedRun, ResetWorktree, Retry, CompleteReport, NextRun,
              Go
<1>4. CASE ReviewNotDispatched \/ DispatchReview \/ BindReview \/ HoldFindings \/ Resolve
  BY <1>4 DEF ReviewNotDispatched, DispatchReview, BindReview, HoldFindings, Resolve, NextRun, Go
<1>5. QED
  BY <1>1, <1>2, <1>3, <1>4 DEF Handlers

LEMMA EvidenceStep == ASSUME Settled, OnceInv, EvidenceInv, [Next]_vars PROVE EvidenceInv'
<1>1. CASE UNCHANGED vars
  BY <1>1 DEF vars, EvidenceInv, CompletedOnEvidence
<1> SUFFICES ASSUME Next PROVE EvidenceInv'
  BY <1>1
<1>2. TypeOK /\ Numbered /\ InHand
  BY DEF Settled
<1>3. Grows /\ processed \subseteq processed' /\ \A n \in Runs : consumed'[n] >= consumed[n]
  BY RunsGrow, HistoryGrows
<1>4. processed \subseteq Spent /\ Spent \subseteq Runs
  BY <1>2 DEF Numbered, Spent
<1>5. consumed \in [Runs -> Nat] /\ consumed' \in [Runs -> Nat]
  <2>1. Settled'
    BY MovesSettled, RecoverySettled, ConsumeSettled, WakingSettled, ScheduleSettled,
       TransportSettled, WorkerSettled, NextSplits
  <2>2. QED
    BY <1>2, <2>1 DEF Settled, TypeOK
\* A handed off run that was consumed stays so.
<1>6. ASSUME NEW n \in processed, consumed[n] > 0
      PROVE  /\ n \in processed' /\ consumed'[n] > 0 /\ runs'[n].lane = runs[n].lane
             /\ runs[n].phase = "HANDOFF_READY" => runs'[n].phase = "HANDOFF_READY"
  BY <1>3, <1>4, <1>5, <1>6 DEF Grows, Over
<1>7. ASSUME NEW l \in Lanes \ Merged, lane'[l].state = "COMPLETE"
      PROVE  \E n \in processed' :
                 runs'[n].lane = l /\ runs'[n].phase = "HANDOFF_READY" /\ consumed'[n] > 0
  <2>1. CASE lane[l].state = "COMPLETE"
    BY <1>6, <2>1 DEF EvidenceInv, CompletedOnEvidence
  <2>2. CASE l = runs[cur].lane /\ (pc = "resolve" \/ (pc = "judge" /\ runs[cur].phase = "HANDOFF_READY"))
    BY <1>6, <2>2 DEF EvidenceInv
  <2>3. RowStep(l)
    BY RowsStep
  <2>4. QED
    BY <1>7, <2>1, <2>2, <2>3 DEF RowStep, Waiting
<1>8. CompletedOnEvidence'
  BY <1>7 DEF CompletedOnEvidence
<1>9. ASSUME pc' \in {"judge", "check", "resolve"}
      PROVE  /\ cur' \in processed' /\ consumed'[cur'] > 0
             /\ pc' # "judge" => runs'[cur'].phase = "HANDOFF_READY"
  <2>1. CASE UNCHANGED <<pc, cur>>
    BY <1>6, <1>9, <2>1 DEF EvidenceInv
  <2>2. CASE Handlers
    <3>1. cur' = cur /\ (pc = "check" \/ (pc = "judge" /\ runs[cur].phase = "HANDOFF_READY"))
      BY <1>9, <2>2, HandedOffOn
    <3>2. cur \in processed /\ consumed[cur] > 0 /\ runs[cur].phase = "HANDOFF_READY"
      BY <3>1 DEF EvidenceInv
    <3>3. QED
      BY <1>6, <3>1, <3>2
  <2>3. ASSUME NEW n \in Runs, TakeRun(n) \/ PassOver(n)
        PROVE  pc' = "judge" /\ cur' \in processed' /\ consumed'[cur'] > 0
    <3>1. pc' = "judge" /\ cur' = n /\ processed' = processed \cup {n}
            /\ consumed' = [consumed EXCEPT ![n] = @ + 1]
      BY <1>9, <2>3, TakingTouches
    <3>2. QED
      BY <1>5, <3>1
  <2>4. CASE Moves \/ Recovery \/ Waking \/ Schedule
    BY <1>9, <2>4, MovesTouch, RecoveryMoves, WakingTouches, ScheduleMoves DEF Moved, Recovering
  <2>5. CASE Transport \/ \E n \in Runs : WorkerOf(n)
    BY <2>1, <2>5, TransportTouches, WorkerTouches
  <2>6. QED
    BY <2>2, <2>3, <2>4, <2>5, NextSplits, ConsumeSplits
<1>10. QED
  BY <1>8, <1>9 DEF EvidenceInv

\* A lane is COMPLETE only by the handoff of a run of its own that was consumed
\* (orchestrator.py, _consume_run).
THEOREM CompletionHasEvidence == Spec => []CompletedOnEvidence
<1>1. Init => OnceInv /\ EvidenceInv
  BY DEF Init, OnceInv, EvidenceInv, CompletedOnEvidence, Judging
<1>2. Settled /\ OnceInv /\ EvidenceInv /\ [Next]_vars => OnceInv' /\ EvidenceInv'
  BY OnceStep, EvidenceStep
<1>3. EvidenceInv => CompletedOnEvidence
  BY DEF EvidenceInv
<1>4. QED
  BY <1>1, <1>2, <1>3, Typed, PTL DEF Spec

----------------------------------------------------------------------------
(* Attempts are bounded.                                                   *)

\* What the handlers charge, and where they go when they have.
LEMMA HandlersCharge ==
    ASSUME Settled, Handlers
    PROVE  /\ \/ attempt' = attempt /\ pc' # "retry"
              \/ /\ pc = "judge" /\ pc' = "retry" /\ cur' = cur /\ lane' = lane
                 /\ attempt' = [attempt EXCEPT ![runs[cur].lane] = @ + 1]
              \/ /\ pc = "resolve" /\ pc' = "consume"
                 /\ attempt' = [attempt EXCEPT ![runs[cur].lane] = @ + 1]
                 /\ \/ lane'[runs[cur].lane].state = "WAITING_STRATEGIST"
                    \/ attempt'[runs[cur].lane] <= MaxReviewCycles + 1
           /\ pc = "retry" => \/ lane'[runs[cur].lane].state = "WAITING_STRATEGIST"
                              \/ attempt[runs[cur].lane] <= MaxReviewCycles + 1
<1>1. pc \in Judging /\ runs[cur].lane \in Lanes /\ TypeOK
  BY HandlersMove DEF Settled, InHand, Numbered
<1>2. attempt \in [Lanes -> Nat] /\ MaxReviewCycles \in Nat
  BY <1>1, BoundsAreNat DEF TypeOK
<1>3. CASE CountQuestion \/ EscalateEnded \/ RefusedRun \/ CompleteReport
  BY <1>3 DEF CountQuestion, EscalateEnded, RefusedRun, CompleteReport, Judged, NextRun, Go
<1>4. CASE ResetWorktree
  BY <1>4 DEF ResetWorktree, Judged, LaneOf, Go
<1>5. CASE Retry
  <2>1. attempt' = attempt /\ pc = "retry" /\ pc' = "consume"
    BY <1>5 DEF Retry, NextRun, Go
  <2>2. CASE attempt[runs[cur].lane] > MaxReviewCycles + 1
    <3>1. SetState(runs[cur].lane, "WAITING_STRATEGIST")
      BY <1>5, <2>2 DEF Retry, Park, LaneOf
    <3>2. QED
      BY <1>1, <2>1, <3>1, StateStep DEF LaneStates
  <2>3. CASE ~(attempt[runs[cur].lane] > MaxReviewCycles + 1)
    BY <1>1, <1>2, <2>1, <2>3
  <2>4. QED
    BY <2>2, <2>3
<1>6. CASE AfterImplementation \/ Verify \/ AfterReview \/ HoldFindings
  BY <1>6 DEF AfterImplementation, Verify, AfterReview, HoldFindings, Judged, NextRun, Go
<1>7. CASE ReviewNotDispatched \/ DispatchReview \/ BindReview
  BY <1>7 DEF ReviewNotDispatched, DispatchReview, BindReview, Go
<1>8. CASE Resolve
  <2>1. pc = "resolve" /\ pc' = "consume"
    BY <1>8 DEF Resolve, NextRun, Go
  <2>2. CASE ~found
    BY <1>8, <2>1, <2>2 DEF Resolve
  <2>3. CASE found
    <3>1. attempt' = [attempt EXCEPT ![runs[cur].lane] = attempt[runs[cur].lane] + 1]
      BY <1>8, <2>3 DEF Resolve, LaneOf
    <3>2. CASE attempt[runs[cur].lane] + 1 > MaxReviewCycles
      <4>1. SetVerdict(runs[cur].lane, "WAITING_STRATEGIST", "FAIL")
        BY <1>8, <2>3, <3>2 DEF Resolve, LaneOf
      <4>2. lane'[runs[cur].lane].state = "WAITING_STRATEGIST"
        BY <1>1, <4>1, VerdictStep DEF LaneStates, Verdicts
      <4>3. QED
        BY <2>1, <3>1, <4>2
    <3>3. CASE ~(attempt[runs[cur].lane] + 1 > MaxReviewCycles)
      BY <1>1, <1>2, <2>1, <3>1, <3>3
    <3>4. QED
      BY <3>2, <3>3
  <2>4. QED
    BY <2>2, <2>3
<1>9. QED
  BY <1>3, <1>4, <1>5, <1>6, <1>7, <1>8 DEF Handlers

\* Room after the step.
AllowedNext(l) == MaxReviewCycles + 1 + wakes'[l] + crashes'
RoomNext(l) == attempt'[l] <= AllowedNext(l)
ChargedNext(l) == pc' = "retry" /\ runs'[cur'].lane = l
LEMMA AttemptNext ==
    ASSUME \A l \in Lanes : attempt'[l] <= AllowedNext(l) + 1,
           \A l \in Lanes :
               lane'[l].state \in {"UNPLANNED", "PLANNED", "ACTIVE"} => RoomNext(l) \/ ChargedNext(l),
           \A n \in bound' \ processed' : RoomNext(runs'[n].lane),
           pc' \in Judging \ {"retry"} => RoomNext(runs'[cur'].lane),
           pc' \in {"schedule", "dispatch"} \cup Launching => \A l \in todo' : RoomNext(l),
           pc' \in {"dispatch", "bind"} => RoomNext(here')
    PROVE  AttemptInv'
  BY DEF AttemptInv, Room, Allowed, Charged, RoomNext, AllowedNext, ChargedNext

LEMMA AttemptStep == ASSUME Settled, OnceInv, FlightInv, AttemptInv, [Next]_vars PROVE AttemptInv'
<1>1. CASE UNCHANGED vars
  BY <1>1 DEF vars, AttemptInv, Allowed, Room, Charged
<1> SUFFICES ASSUME Next PROVE AttemptInv'
  BY <1>1
<1>2. TypeOK /\ Numbered /\ InHand
  BY DEF Settled
<1>3. /\ Grows /\ processed \subseteq processed' /\ crashes' >= crashes
      /\ \A l \in Lanes : wakes'[l] >= wakes[l]
  BY RunsGrow, HistoryGrows
<1>4. /\ attempt \in [Lanes -> Nat] /\ wakes \in [Lanes -> Nat] /\ crashes \in Nat
      /\ attempt' \in [Lanes -> Nat] /\ wakes' \in [Lanes -> Nat] /\ crashes' \in Nat
      /\ MaxReviewCycles \in Nat
  <2>1. Settled'
    BY MovesSettled, RecoverySettled, ConsumeSettled, WakingSettled, ScheduleSettled,
       TransportSettled, WorkerSettled, NextSplits
  <2>2. QED
    BY <1>2, <2>1, BoundsAreNat DEF Settled, TypeOK
\* Where nothing is charged, room stays and an answer or a death makes some.
<1>5. ASSUME NEW l \in Lanes, attempt'[l] = attempt[l]
      PROVE  /\ Room(l) => RoomNext(l)
             /\ attempt'[l] <= AllowedNext(l) + 1
             /\ wakes'[l] = wakes[l] + 1 \/ crashes' = crashes + 1 => RoomNext(l)
  BY <1>3, <1>4, <1>5 DEF AttemptInv, Room, Allowed, RoomNext, AllowedNext
<1>6. ASSUME NEW l \in Lanes, attempt'[l] <= MaxReviewCycles + 1 PROVE RoomNext(l) /\ attempt'[l] <= AllowedNext(l) + 1
  BY <1>4, <1>6 DEF RoomNext, AllowedNext
<1> DEFINE Open == {"UNPLANNED", "PLANNED", "ACTIVE"}
<1>7. ASSUME NEW l \in Lanes, attempt'[l] = attempt[l], Charged(l) => ChargedNext(l) \/ RoomNext(l),
             lane'[l].state \in Open
      PROVE  RoomNext(l) \/ ChargedNext(l)
  <2>1. CASE lane[l].state \in Open
    BY <1>5, <1>7, <2>1 DEF AttemptInv
  <2>2. CASE pc = "hold" /\ l = runs[cur].lane
    BY <1>5, <1>7, <2>2 DEF AttemptInv, Judging
  <2>3. CASE lane[l].state \notin Open
    <3>1. RowStep(l)
      BY RowsStep
    <3>2. QED
      BY <1>5, <1>6, <1>7, <2>2, <2>3, <3>1 DEF RowStep, Waiting
  <2>4. QED
    BY <2>1, <2>3
<1>8. \A n \in bound : runs'[n].lane = runs[n].lane /\ runs[n].lane \in Lanes
  BY <1>2, <1>3 DEF Numbered, Grows
\* A step that charges nobody, and leaves no lane charged.
<1>9. ASSUME attempt' = attempt, \A l \in Lanes : Charged(l) => ChargedNext(l) \/ RoomNext(l)
      PROVE  /\ \A l \in Lanes : attempt'[l] <= AllowedNext(l) + 1
             /\ \A l \in Lanes : lane'[l].state \in Open => RoomNext(l) \/ ChargedNext(l)
             /\ \A n \in bound \ processed : RoomNext(runs[n].lane)
  BY <1>5, <1>7, <1>8, <1>9 DEF AttemptInv
<1>10. CASE Handlers
  <2> DEFINE h == runs[cur].lane
  <2>1. pc \in Judging /\ h \in Lanes /\ processed' = processed
    BY <1>2, <1>10, HandlersMove, HandlersTouch DEF InHand, Numbered
  <2>2. pc' \notin {"schedule", "dispatch"} \cup Launching
    BY <1>10, HandlersMove DEF Judging, Launching
  <2>3. pc # "retry" => Room(h)
    BY <2>1 DEF AttemptInv
  <2>4. ASSUME NEW l \in Lanes, l # h PROVE ~Charged(l) /\ attempt'[l] = attempt[l]
    BY <1>4, <1>10, <2>1, <2>4, HandlersCharge DEF Charged
  <2>5. CASE attempt' = attempt /\ pc' # "retry"
    <3>1. \A l \in Lanes : lane'[l].state \in Open => RoomNext(l) \/ ChargedNext(l)
      <4>1. CASE pc # "retry"
        BY <1>9, <2>5, <4>1 DEF Charged, ChargedNext
      <4>2. ASSUME pc = "retry", lane'[h].state \in Open PROVE RoomNext(h)
        BY <1>6, <1>10, <2>1, <2>5, <4>2, HandlersCharge
      <4>3. CASE pc = "retry"
        BY <1>7, <2>4, <4>2, <4>3
      <4>4. QED
        BY <4>1, <4>3
    <3>2. \A l \in Lanes : attempt'[l] <= AllowedNext(l) + 1
      BY <1>5, <2>5
    <3>3. \A n \in bound' \ processed' : RoomNext(runs[n].lane) /\ runs'[n].lane = runs[n].lane
      <4>1. \A n \in bound \ processed : RoomNext(runs[n].lane)
        BY <1>5, <1>8, <2>5 DEF AttemptInv
      <4>2. pc = "bindreview" => RoomNext(h) /\ runs'[cur].lane = h
        BY <1>2, <1>3, <1>5, <2>1, <2>3, <2>5 DEF InHand, Grows
      <4>3. QED
        BY <1>8, <1>10, <2>1, <4>1, <4>2, HandlersMove
    <3>4. pc' \in Judging => RoomNext(runs'[cur'].lane)
      <4> SUFFICES ASSUME pc' \in Judging PROVE RoomNext(runs'[cur'].lane)
        OBVIOUS
      <4>1. pc # "retry" /\ runs'[cur'].lane = h
        BY <1>10, SameLane, HandlersMove DEF Judging
      <4>2. RoomNext(h)
        BY <1>5, <2>1, <2>3, <2>5, <4>1
      <4>3. QED
        BY <4>1, <4>2
    <3>5. QED
      BY <2>2, <3>1, <3>2, <3>3, <3>4, AttemptNext DEF Launching
  <2>6. CASE /\ pc \in {"judge", "resolve"} /\ pc' \in {"retry", "consume"}
             /\ attempt' = [attempt EXCEPT ![h] = @ + 1]
             /\ \/ pc' = "retry" /\ cur' = cur
                \/ lane'[h].state = "WAITING_STRATEGIST"
                \/ attempt'[h] <= MaxReviewCycles + 1
    <3>1. Room(h) /\ InFlight(h) = {} /\ bound' = bound
      BY <1>10, <2>3, <2>6, HandlersMove DEF FlightInv, Judging
    <3>2. attempt'[h] <= AllowedNext(h) + 1
      BY <1>3, <1>4, <2>1, <2>6, <3>1 DEF Room, Allowed, AllowedNext
    <3>3. \A l \in Lanes : attempt'[l] <= AllowedNext(l) + 1
      BY <1>5, <2>4, <3>2
    <3>4. lane'[h].state \in Open => RoomNext(h) \/ ChargedNext(h)
      <4>1. cur \in Spent /\ runs'[cur].lane = h
        BY <1>2, <1>3, <2>1 DEF InHand, Grows
      <4>2. QED
        BY <1>6, <2>1, <2>6, <4>1 DEF ChargedNext
    <3>5. \A l \in Lanes : lane'[l].state \in Open => RoomNext(l) \/ ChargedNext(l)
      BY <1>7, <2>4, <3>4
    <3>6. \A n \in bound' \ processed' : RoomNext(runs'[n].lane)
      <4>1. \A n \in bound \ processed : runs[n].lane # h
        BY <3>1 DEF InFlight
      <4>2. QED
        BY <1>5, <1>8, <2>1, <2>4, <3>1, <4>1 DEF AttemptInv
    <3>7. pc' \notin Judging \ {"retry"}
      BY <2>6 DEF Judging
    <3>8. QED
      BY <2>2, <3>3, <3>5, <3>6, <3>7, AttemptNext DEF Launching
  <2>7. QED
    BY <1>10, <2>5, <2>6, HandlersCharge
<1>11. CASE Moves
  <2>1. /\ UNCHANGED <<attempt, lane, book>> /\ Moved
        /\ (crashes' = crashes /\ pc # "retry") \/ crashes' = crashes + 1
    BY <1>11, MovesTouch DEF Judging
  <2>2. \A l \in Lanes : Charged(l) => RoomNext(l)
    BY <1>5, <2>1 DEF Charged
  <2>3. pc' = "schedule" => \A l \in todo' : RoomNext(l)
    BY <1>5, <2>1, <2>2 DEF Moved, Schedulable, AttemptInv
  <2>4. pc' \notin Judging \cup {"dispatch"} \cup Launching
    BY <2>1 DEF Moved, Judging, Launching
  <2>5. QED
    BY <1>8, <1>9, <2>1, <2>2, <2>3, <2>4, AttemptNext DEF Launching
<1>12. CASE Recovery \/ Waking
  <2>1. /\ attempt' = attempt /\ bound' = bound /\ pc # "retry"
        /\ pc' \notin Judging \cup {"schedule", "dispatch"} \cup Launching
    BY <1>12, RecoveryTouches, RecoveryMoves, WakingTouches DEF Recovering, Judging, Launching
  <2>2. QED
    BY <1>3, <1>8, <1>9, <2>1, AttemptNext DEF Charged, Launching
<1>13. ASSUME NEW n \in Runs, TakeRun(n) \/ PassOver(n) PROVE AttemptInv'
  <2>1. /\ UNCHANGED <<attempt, runs, bound>> /\ pc = "consume" /\ n \in todo
        /\ pc' = "consume" \/ (pc' = "judge" /\ cur' = n)
    BY <1>13, TakingTouches
  <2>2. n \in bound \ processed
    BY <1>2, <2>1 DEF InHand, OnceInv
  <2>3. \A m \in bound \ processed : RoomNext(runs[m].lane)
    BY <1>9, <2>1 DEF Charged
  <2>4. QED
    BY <1>3, <1>9, <2>1, <2>2, <2>3, AttemptNext DEF Charged, Launching, Judging
<1>14. CASE Schedule
  <2>1. attempt' = attempt /\ processed' = processed /\ todo' \subseteq todo /\ todo \subseteq Lanes
    BY <1>2, <1>14, ScheduleTouches, ScheduleMoves DEF InHand, Launching
  <2>2. /\ pc \in {"schedule", "dispatch"} \cup Launching /\ pc' \notin Judging
    BY <1>14, ScheduleMoves DEF Launching, Judging
  <2>3. pc # "retry"
    BY <2>2 DEF Launching
  <2>4. \A l \in todo' : RoomNext(l)
    BY <1>5, <2>1, <2>2 DEF AttemptInv
  <2>5. pc' \in {"dispatch", "bind"} => RoomNext(here')
    BY <1>2, <1>5, <1>14, <2>1, ScheduleMoves DEF AttemptInv, InHand
  <2>6. \A n \in bound' \ processed' : RoomNext(runs'[n].lane)
    <3>1. pc = "bind" => runs'[cur].lane = here /\ here \in Lanes /\ Room(here)
      BY <1>2, <1>3 DEF FlightInv, AttemptInv, InHand, Launching, Grows
    <3>2. QED
      BY <1>5, <1>8, <1>9, <1>14, <2>1, <2>3, <3>1, ScheduleMoves DEF Charged
  <2>7. QED
    BY <1>9, <2>1, <2>2, <2>3, <2>4, <2>5, <2>6, AttemptNext DEF Charged
<1>15. CASE Transport \/ \E n \in Runs : WorkerOf(n)
  <2>1. UNCHANGED <<attempt, book, pc, cur, here, todo>>
    BY <1>15, TransportTouches, WorkerTouches
  <2>2. pc \in Judging => cur \in Spent /\ runs'[cur].lane = runs[cur].lane /\ runs[cur].lane \in Lanes
    BY <1>2, <1>3 DEF InHand, Grows, Numbered
  <2>3. \A l \in Lanes : Charged(l) => ChargedNext(l)
    BY <2>1, <2>2 DEF Charged, ChargedNext, Judging
  <2>4. pc \in Judging \ {"retry"} => RoomNext(runs[cur].lane)
    BY <1>5, <2>1, <2>2 DEF AttemptInv
  <2>5. pc \in {"schedule", "dispatch"} \cup Launching => \A l \in todo : RoomNext(l)
    BY <1>2, <1>5, <2>1 DEF AttemptInv, InHand
  <2>6. pc \in {"dispatch", "bind"} => RoomNext(here)
    BY <1>2, <1>5, <2>1 DEF AttemptInv, InHand, Launching
  <2>7. QED
    BY <1>8, <1>9, <2>1, <2>2, <2>3, <2>4, <2>5, <2>6, AttemptNext
<1>16. QED
  BY <1>10, <1>11, <1>12, <1>13, <1>14, <1>15, NextSplits, ConsumeSplits

\* Retries and fixes are bounded by the review cycles: only an answer or a tick that
\* died gives a lane another (orchestrator.py, _consume_run and _resolve_findings_from).
THEOREM AttemptsStayBounded == Spec => []AttemptsAreBounded
<1>1. Init => OnceInv /\ WriterInv
  BY DEF Init, OnceInv, WriterInv, LeaseInv, FlightInv, Alone, Judging
<1>2. Init => AttemptInv
  <2>1. Init => \A l \in Lanes : attempt[l] = 0 /\ wakes[l] = 0 /\ crashes = 0
    BY DEF Init
  <2>2. QED
    BY <2>1, BoundsAreNat DEF Init, AttemptInv, Room, Allowed, Judging, Launching
<1>3. Settled /\ OnceInv /\ WriterInv /\ AttemptInv /\ [Next]_vars => OnceInv' /\ WriterInv' /\ AttemptInv'
  BY OnceStep, LeaseInvStep, FlightStep, AttemptStep DEF WriterInv
<1>4. Settled /\ AttemptInv => AttemptsAreBounded
  <2> SUFFICES ASSUME Settled, AttemptInv, NEW l \in Lanes
               PROVE  attempt[l] <= MaxReviewCycles + 2 + wakes[l] + crashes
    BY DEF AttemptsAreBounded
  <2>1. attempt[l] \in Nat /\ wakes[l] \in Nat /\ crashes \in Nat /\ MaxReviewCycles \in Nat
    BY BoundsAreNat DEF Settled, TypeOK
  <2>2. attempt[l] <= MaxReviewCycles + 1 + wakes[l] + crashes + 1
    BY DEF AttemptInv, Allowed
  <2>3. QED
    BY <2>1, <2>2
<1>5. QED
  BY <1>1, <1>2, <1>3, <1>4, Typed, PTL DEF Spec

----------------------------------------------------------------------------
(* What is parked is explained.                                            *)

\* Only an answer answers; questions are only ever added.
LEMMA AnswersStep ==
    ASSUME Settled, Next
    PROVE  /\ UNCHANGED <<answers, answered>> \/ answers' = answers + 1
           /\ asked \subseteq asked'
<1>1. CASE Transport
  <2>1. asked' = asked
    BY <1>1, TransportTouches
  <2>2. CASE \E l \in Lanes : PlanLane(l) \/ RecordAnswer(l)
    BY <2>1, <2>2 DEF PlanLane, RecordAnswer
  <2>3. CASE LookAtLane \/ WakeLane \/ NoteWake \/ CancelLanes \/ CancelStatus
    BY <2>1, <2>3 DEF LookAtLane, WakeLane, NoteWake, CancelLanes, CancelStatus
  <2>4. QED
    BY <1>1, <2>2, <2>3 DEF Transport
<1>2. CASE Moves \/ Recovery \/ Waking \/ Schedule
  BY <1>2, MovesTouch, RecoveryTouches, WakingTouches, ScheduleTouches
<1>3. CASE Consume
  BY <1>3, TakingTouches, HandlersTouch, ConsumeSplits
<1>4. CASE \E n \in Runs : WorkerOf(n)
  BY <1>4, WorkerTouches
<1>5. QED
  BY <1>1, <1>2, <1>3, <1>4, NextSplits

\* A run that has asked is on record, and one that is saving holds what it has read.
SavingStep(n) ==
    \/ runs[n].phase = "saving" /\ wsnap'[n] = wsnap[n]
    \/ wsnap'[n] = ckpt[runs[n].lane] \/ wsnap'[n] = NoKeys
LEMMA PhasesStep ==
    ASSUME Settled, Next, NEW n \in Runs
    PROVE  /\ runs'[n].phase = "asked" => runs[n].phase = "asked" \/ n \in asked'
           /\ runs'[n].phase = "saving" => SavingStep(n) /\ n \in Spent
<1>1. TypeOK /\ Numbered /\ InHand
  BY DEF Settled
<1> DEFINE Goal == /\ runs'[n].phase = "asked" => runs[n].phase = "asked" \/ n \in asked'
                   /\ runs'[n].phase = "saving" => SavingStep(n) /\ n \in Spent
<1>2. CASE UNCHANGED <<runs, wsnap>>
  BY <1>2 DEF SavingStep, Spent
<1>3. CASE Recovery
  BY <1>3, RecoveryLedger, RecoveryTouches DEF SavingStep, Over, Spent
<1>4. ASSUME NEW l \in Lanes, NEW role, NEW key, NEW p \in {"REFUSED", "live"}, wsnap' = wsnap,
             NewRun(l, role, key, p)
      PROVE  Goal
  <2>1. p # "none"
    OBVIOUS
  <2>2. runs'[Fresh].phase = p /\ \A m \in Runs \ {Fresh} : runs'[m] = runs[m]
    BY <1>1, <1>4, <2>1, NewRunStep
  <2>3. QED
    BY <1>4, <2>2 DEF SavingStep, Spent
<1>5. ASSUME NEW m \in Runs, WorkerOf(m) PROVE Goal
  <2>1. /\ m \in Spent /\ Spent' = Spent
        /\ \A k \in Runs : k # m => runs'[k].phase = runs[k].phase
    BY <1>5, WorkerLedger
  <2>2. runs'[n].phase = "saving" => n \in Spent
    BY <2>1 DEF Spent
  <2>3. ASSUME NEW p, Phase(m, p) PROVE runs'[m].phase = p
    BY <1>1, <2>3, PhaseStep
  <2>4. CASE Write(m)
    BY <1>2, <2>4 DEF Write
  <2>5. CASE RecordQuestion(m)
    <3>1. runs'[m].phase = "asked" /\ m \in asked' /\ wsnap' = wsnap
      BY <2>3, <2>5 DEF RecordQuestion
    <3>2. QED
      BY <2>1, <2>2, <3>1 DEF SavingStep
  <2>6. CASE ParkLane(m)
    <3>1. runs'[m].phase = "parked" /\ wsnap' = wsnap
      BY <2>3, <2>6 DEF ParkLane
    <3>2. QED
      BY <2>1, <2>2, <3>1 DEF SavingStep
  <2>7. CASE ReadCheckpoint(m)
    <3>1. runs'[m].phase = "saving" /\ wsnap' = [wsnap EXCEPT ![m] = ckpt[runs[m].lane]]
      BY <2>3, <2>7 DEF ReadCheckpoint
    <3>2. QED
      BY <1>1, <2>1, <2>2, <3>1 DEF SavingStep, TypeOK
  <2>8. CASE SaveCheckpoint(m)
    <3>1. runs'[m].phase = "synced" /\ wsnap' = [wsnap EXCEPT ![m] = NoKeys]
      BY <2>3, <2>8 DEF SaveCheckpoint
    <3>2. QED
      BY <1>1, <2>1, <2>2, <3>1 DEF SavingStep, TypeOK
  <2>9. ASSUME NEW p \in Over, EndRun(m, p) PROVE Goal
    <3>1. runs'[m].phase = p /\ wsnap' = [wsnap EXCEPT ![m] = NoKeys]
      BY <2>3, <2>9 DEF EndRun
    <3>2. QED
      BY <1>1, <2>1, <2>2, <3>1 DEF SavingStep, TypeOK, Over
  <2>10. CASE HandOff(m) \/ RunFails(m)
    BY <2>9, <2>10 DEF HandOff, RunFails, Over
  <2>11. CASE WorkerDies(m)
    <3>1. runs' = runs /\ wsnap' = [wsnap EXCEPT ![m] = NoKeys]
      BY <2>11 DEF WorkerDies
    <3>2. QED
      BY <1>1, <2>2, <3>1 DEF SavingStep, TypeOK
  <2>12. CASE Reconcile(m)
    <3>1. runs'[m].phase \in {"AMBIGUOUS", "FAILED"} /\ wsnap' = wsnap
      BY <2>3, <2>12 DEF Reconcile
    <3>2. QED
      BY <2>1, <2>2, <3>1 DEF SavingStep
  <2>13. QED
    BY <1>5, <2>4, <2>5, <2>6, <2>7, <2>8, <2>10, <2>11, <2>12 DEF WorkerOf, Worker
<1>6. CASE Consume
  <2>1. CASE \E m \in Runs : TakeRun(m) \/ PassOver(m)
    BY <1>2, <2>1, TakingTouches
  <2>2. CASE Handlers
    <3>1. runs[cur].lane \in Lanes /\ wsnap' = wsnap
      BY <1>1, <2>2, HandlersMove, HandlersTouch DEF InHand, Numbered
    <3>2. QED
      BY <1>2, <1>4, <2>2, <3>1, HandlersMove DEF ReviewerRun
  <2>3. QED
    BY <1>6, <2>1, <2>2, ConsumeSplits
<1>7. CASE Schedule
  <2>1. wsnap' = wsnap /\ (pc = "dispatch" => here \in Lanes)
    BY <1>1, <1>7, ScheduleTouches DEF InHand
  <2>2. QED
    BY <1>2, <1>4, <1>7, <2>1, ScheduleMoves DEF LaneRun
<1>8. CASE Moves \/ Waking \/ Transport
  BY <1>2, <1>8, MovesTouch, WakingTouches, TransportTouches
<1>9. QED
  BY <1>3, <1>5, <1>6, <1>7, <1>8, NextSplits

LEMMA ParkedStep == ASSUME Settled, ParkedInv, [Next]_vars PROVE ParkedInv'
<1>1. CASE UNCHANGED vars
  BY <1>1 DEF vars, ParkedInv, Explained, OpenQuestions
<1> SUFFICES ASSUME Next PROVE ParkedInv'
  BY <1>1
<1>2. TypeOK /\ Numbered /\ Grows
  BY RunsGrow DEF Settled
<1>3. \A n \in Runs : runs'[n].phase = "asked" => n \in asked'
  BY PhasesStep, AnswersStep DEF ParkedInv
<1>4. answers' = 0 => answers = 0 /\ answered = {} /\ answered' = {}
  BY <1>2, AnswersStep DEF ParkedInv, TypeOK
<1>5. ASSUME answers' = 0, NEW l \in Lanes, lane'[l].state \in Waiting, lane'[l].verdict # "FAIL"
      PROVE  Explained(l)'
  <2>1. RowStep(l) /\ blockers \subseteq blockers'
    BY RowsStep
  <2>2. ASSUME NEW n \in asked, runs[n].lane = l PROVE Explained(l)'
    <3>1. n \in asked' /\ runs'[n].lane = l /\ answered' = {}
      BY <1>2, <1>4, <1>5, <2>2, AnswersStep DEF Numbered, Grows
    <3>2. QED
      BY <3>1 DEF Explained, OpenQuestions
  <2>3. CASE l \in blockers'
    BY <2>3 DEF Explained
  <2>4. CASE lane'[l] = lane[l]
    <3>1. Explained(l)
      BY <1>4, <1>5, <2>4 DEF ParkedInv
    <3>2. QED
      BY <2>1, <2>2, <2>3, <3>1 DEF Explained, OpenQuestions
  <2>5. CASE \E n \in Runs : runs[n].phase = "asked" /\ runs[n].lane = l
    BY <2>2, <2>5 DEF ParkedInv
  <2>6. QED
    BY <1>5, <2>1, <2>3, <2>4, <2>5 DEF RowStep, Waiting
<1>6. QED
  BY <1>3, <1>4, <1>5 DEF ParkedInv

\* Documents: a merge, a key and an empty one tell of no more than their parts.
LEMMA ReadMerge ==
    ASSUME NEW c, NEW d
    PROVE  Read(c @@ d, "unknown") = IF "unknown" \in DOMAIN c THEN c["unknown"] ELSE Read(d, "unknown")
<1>1. "unknown" \in DOMAIN Absent
  BY DEF Absent
<1>2. QED
  BY <1>1 DEF Read, @@

LEMMA MergeTells ==
    ASSUME NEW c, NEW d, NEW l, NEW B, TellsIn(c, l, B), TellsIn(d, l, B)
    PROVE  TellsIn(c @@ d, l, B)
<1>1. "unknown" \in DOMAIN Absent
  BY DEF Absent
<1>2. "unknown" \in DOMAIN c => Read(c, "unknown") = c["unknown"]
  BY <1>1 DEF Read, @@
<1>3. QED
  BY <1>2, ReadMerge DEF TellsIn

LEMMA KeyTells ==
    ASSUME NEW k, NEW v, NEW l, NEW B, k # "unknown" \/ (v.escalated => l \in B)
    PROVE  TellsIn(k :> v, l, B)
<1>1. "unknown" \in DOMAIN Absent /\ ~Absent["unknown"].escalated
  BY DEF Absent
<1>2. DOMAIN (k :> v) = {k} /\ (k :> v)[k] = v
  BY DEF :>
<1>3. CASE k = "unknown"
  BY <1>1, <1>2, <1>3 DEF TellsIn, Read, @@
<1>4. CASE k # "unknown"
  BY <1>1, <1>2, <1>4 DEF TellsIn, Read, @@
<1>5. QED
  BY <1>3, <1>4

LEMMA WithTells ==
    ASSUME NEW c, NEW k, NEW v, NEW l, NEW B, k # "unknown", TellsIn(c, l, B)
    PROVE  TellsIn(With(c, k, v), l, B)
  BY KeyTells, MergeTells DEF With

LEMMA EmptyTells == ASSUME NEW l, NEW B PROVE TellsIn(NoKeys, l, B)
<1>1. "unknown" \in DOMAIN Absent /\ ~Absent["unknown"].escalated /\ "unknown" \notin DOMAIN NoKeys
  BY DEF Absent, NoKeys
<1>2. QED
  BY <1>1 DEF TellsIn, Read, @@

\* Nor does a document saved over one.
LEMMA SaveTells ==
    ASSUME DOMAIN ckpt = Lanes, NEW B, \A l \in Lanes : TellsIn(ckpt[l], l, B),
           NEW k \in Lanes, NEW c, TellsIn(c, k, B), Save(k, c)
    PROVE  \A l \in Lanes : TellsIn(ckpt'[l], l, B)
<1>1. \A l \in Lanes : ckpt'[l] = IF l = k THEN c @@ ckpt[k] ELSE ckpt[l]
  BY DEF Save
<1>2. TellsIn(c @@ ckpt[k], k, B)
  BY MergeTells
<1>3. QED
  BY <1>1, <1>2

LEMMA ClearedTells ==
    ASSUME NEW l \in Lanes, NEW B, TellsIn(ckpt[l], l, B)
    PROVE  TellsIn(SyncCleared(l), l, B)
<1>1. TellsIn(("sync" :> 0) @@ ("told" :> FALSE), l, B)
  <2>1. TellsIn("sync" :> 0, l, B) /\ TellsIn("told" :> FALSE, l, B)
    BY KeyTells
  <2>2. QED
    BY <2>1, MergeTells
<1>2. TellsIn(("sync" :> 0) @@ ("told" :> FALSE) @@ ckpt[l], l, B)
  BY <1>1, MergeTells
<1>3. QED
  BY <1>2 DEF SyncCleared

\* Every checkpoint, whoever writes it.
LEMMA CheckpointsTell ==
    ASSUME Settled, ToldInv, Next
    PROVE  \A l \in Lanes : TellsIn(ckpt'[l], l, blockers')
<1>1. TypeOK /\ Numbered /\ InHand /\ DOMAIN ckpt = Lanes
  BY DEF Settled, TypeOK
<1>2. blockers \subseteq blockers'
  BY RowsStep
<1> DEFINE B == blockers'
<1>3. \A l, c : Tells(c, l) => TellsIn(c, l, B)
  BY <1>2 DEF Tells, TellsIn
<1>4. \A l \in Lanes : TellsIn(ckpt[l], l, B)
  BY <1>3 DEF ToldInv
<1>5. CASE ckpt' = ckpt
  BY <1>4, <1>5
<1>6. ASSUME NEW k \in Lanes, NEW c, TellsIn(c, k, B), Save(k, c)
      PROVE  \A l \in Lanes : TellsIn(ckpt'[l], l, B)
  BY <1>1, <1>4, <1>6, SaveTells
<1>7. ASSUME NEW k \in Lanes, NEW key, NEW v, key # "unknown", SaveKey(k, key, v)
      PROVE  \A l \in Lanes : TellsIn(ckpt'[l], l, B)
  BY <1>6, <1>7, KeyTells DEF SaveKey
<1>8. ASSUME NEW k \in Lanes, NEW c, TellsIn(c, k, B), ckpt' = [ckpt EXCEPT ![k] = c]
      PROVE  \A l \in Lanes : TellsIn(ckpt'[l], l, B)
  BY <1>1, <1>4, <1>8
<1>9. ASSUME NEW n \in Runs, WorkerOf(n) PROVE \A l \in Lanes : TellsIn(ckpt'[l], l, B)
  <2>1. CASE SaveCheckpoint(n)
    <3>1. runs[n].lane \in Lanes
      BY <1>9, WorkerLedger
    <3>2. TellsIn(wsnap[n], runs[n].lane, B)
      BY <1>3, <2>1 DEF ToldInv, SaveCheckpoint
    <3>3. TellsIn(With(wsnap[n], "awaiting", IF n \in asked THEN n ELSE 0), runs[n].lane, B)
      BY <3>2, WithTells
    <3>4. QED
      BY <1>6, <2>1, <3>1, <3>3 DEF SaveCheckpoint
  <2>2. CASE ~SaveCheckpoint(n)
    BY <1>5, <1>9, <2>2 DEF WorkerOf, Worker, Write, RecordQuestion, ParkLane, ReadCheckpoint, HandOff,
        RunFails, EndRun, WorkerDies, Reconcile
  <2>3. QED
    BY <2>1, <2>2
<1>10. CASE Transport
  <2>1. CASE NoteWake
    <3>1. alane \in Lanes /\ TellsIn(aseen, alane, B)
      BY <1>1, <1>3, <2>1 DEF InHand, NoteWake, ToldInv
    <3>2. TellsIn(With(aseen, "wake", TRUE), alane, B)
      BY <3>1, WithTells
    <3>3. QED
      BY <1>6, <2>1, <3>1, <3>2 DEF NoteWake
  <2>2. CASE ~NoteWake
    BY <1>5, <1>10, <2>2 DEF Transport, PlanLane, RecordAnswer, LookAtLane, WakeLane, CancelLanes,
        CancelStatus
  <2>3. QED
    BY <2>1, <2>2
<1>11. CASE Recovery
  <2>1. \A n \in todo : n \in Runs /\ runs[n].lane \in Lanes
    BY <1>1, <1>11, RecoveryMoves DEF InHand, Numbered, Spent
  <2>2. \A l \in Lanes : TellsIn(SyncCleared(l), l, B)
    BY <1>4, ClearedTells
  <2>3. pc \in Recovering => runs[cur].lane \in Lanes
    BY <1>1 DEF InHand, Numbered
  <2>4. ASSUME NEW n \in Runs, NothingToRecover(n) PROVE \A l \in Lanes : TellsIn(ckpt'[l], l, B)
    <3> DEFINE l == runs[n].lane
    <3>1. l \in Lanes /\ TellsIn(SyncCleared(l), l, B)
      BY <2>1, <2>2, <2>4 DEF NothingToRecover
    <3>2. TellsIn(With(SyncCleared(l), "unknown", NoMark), l, B)
      <4>1. ~NoMark.escalated
        BY DEF NoMark
      <4>2. TellsIn("unknown" :> NoMark, l, B)
        BY <4>1, KeyTells
      <4>3. QED
        BY <3>1, <4>2, MergeTells DEF With
    <3>3. \E c \in {SyncCleared(l), With(SyncCleared(l), "unknown", NoMark)} :
              ckpt' = [ckpt EXCEPT ![l] = c]
      BY <2>4 DEF NothingToRecover, LaneOf
    <3>4. QED
      BY <1>8, <3>1, <3>2, <3>3
  <2>5. ASSUME NEW n \in Runs, HoldUnknown(n) \/ RecoverDead(n)
        PROVE  \A l \in Lanes : TellsIn(ckpt'[l], l, B)
    <3>1. n \in todo /\ ckpt' = [ckpt EXCEPT ![runs[n].lane] = SyncCleared(runs[n].lane)]
      BY <2>5 DEF HoldUnknown, Hold, RecoverDead, LaneOf
    <3>2. QED
      BY <1>8, <2>1, <2>2, <3>1
  <2>6. CASE SaveMark
    <3>1. pc = "mark" /\ Save(runs[cur].lane, doc)
      BY <2>6 DEF SaveMark, LaneOf
    <3>2. TellsIn(doc, runs[cur].lane, B)
      BY <1>3, <3>1 DEF ToldInv
    <3>3. QED
      BY <1>6, <2>3, <3>1, <3>2 DEF Recovering
  <2>7. CASE EscalateAmbiguous
    BY <1>7, <2>3, <2>7 DEF EscalateAmbiguous, LaneOf, Recovering
  <2>8. CASE ReleaseDead \/ NoteAmbiguous
    BY <1>5, <2>8 DEF ReleaseDead, NoteAmbiguous
  <2>9. QED
    BY <1>11, <2>4, <2>5, <2>6, <2>7, <2>8 DEF Recovery
<1>12. CASE Handlers
  <2> DEFINE h == runs[cur].lane
  <2>1. h \in Lanes
    BY <1>1, <1>12, HandlersMove DEF InHand, Numbered
  <2>2. pc \in {"verify", "check", "hold"} => TellsIn(doc, h, B)
    BY <1>3 DEF ToldInv
  <2>3. CASE CountQuestion
    <3>1. \E v : Save(h, With(ckpt[h], "asks", v))
      BY <2>3 DEF CountQuestion, LaneOf
    <3>2. QED
      BY <1>4, <1>6, <2>1, <3>1, WithTells
  <2>4. CASE Verify
    <3>1. Save(h, doc) /\ TellsIn(doc, h, B)
      BY <2>2, <2>4 DEF Verify, LaneOf
    <3>2. QED
      BY <1>6, <2>1, <3>1
  <2>5. CASE HoldFindings
    <3>1. ckpt' = ckpt \/ Save(h, With(doc, "held", TRUE))
      BY <2>5 DEF HoldFindings, LaneOf
    <3>2. TellsIn(With(doc, "held", TRUE), h, B)
      BY <2>2, <2>5, WithTells DEF HoldFindings
    <3>3. QED
      BY <1>5, <1>6, <2>1, <3>1, <3>2
  <2>6. CASE AfterReview
    <3>1. Save(h, With(ckpt[h], "held", FALSE))
      BY <2>6 DEF AfterReview, LaneOf
    <3>2. QED
      BY <1>4, <1>6, <2>1, <3>1, WithTells
  <2>7. CASE ReviewNotDispatched \/ Resolve
    <3>1. ckpt' = ckpt \/ SaveKey(h, "fix", TRUE)
      BY <2>7 DEF ReviewNotDispatched, Resolve, LaneOf
    <3>2. QED
      BY <1>5, <1>7, <2>1, <3>1
  <2>8. CASE EscalateEnded \/ RefusedRun \/ ResetWorktree \/ Retry \/ CompleteReport
             \/ AfterImplementation \/ DispatchReview \/ BindReview
    BY <1>5, <2>8 DEF EscalateEnded, RefusedRun, ResetWorktree, Retry, CompleteReport,
        AfterImplementation, DispatchReview, BindReview
  <2>9. QED
    BY <1>12, <2>3, <2>4, <2>5, <2>6, <2>7, <2>8 DEF Handlers
<1>13. CASE Waking
  BY <1>5, <1>7, <1>13, WakingTouches
<1>14. CASE Schedule
  <2>1. ASSUME NEW l \in Lanes, SyncFails(l) PROVE \A k \in Lanes : TellsIn(ckpt'[k], k, B)
    <3>1. PICK c : /\ \E n : c = With(ckpt[l], "sync", n)
                   /\ Save(l, c) \/ Save(l, With(c, "told", TRUE))
      BY <2>1 DEF SyncFails
    <3>2. TellsIn(c, l, B) /\ TellsIn(With(c, "told", TRUE), l, B)
      BY <1>4, <3>1, WithTells
    <3>3. QED
      BY <1>6, <3>1, <3>2
  <2>2. ASSUME NEW l \in Lanes, RefuseSeat(l) PROVE \A k \in Lanes : TellsIn(ckpt'[k], k, B)
    <3>1. PICK c : /\ \E n : c = With(ckpt[l], "merged", n)
                   /\ Save(l, c) \/ Save(l, With(c, "fix", TRUE))
      BY <2>2 DEF RefuseSeat
    <3>2. TellsIn(c, l, B) /\ TellsIn(With(c, "fix", TRUE), l, B)
      BY <1>4, <3>1, WithTells
    <3>3. QED
      BY <1>6, <3>1, <3>2
  <2>3. ASSUME NEW l \in Lanes, Prepare(l) PROVE \A k \in Lanes : TellsIn(ckpt'[k], k, B)
    <3>1. PICK c, d : /\ \E n : c = With(ckpt[l], "seq", n)
                      /\ d = ckpt[l] \/ \E n : d = With(ckpt[l], "merged", n)
                      /\ ckpt' = [ckpt EXCEPT ![l] = c @@ d]
      BY <2>3 DEF Prepare
    <3>2. TellsIn(c, l, B) /\ TellsIn(d, l, B)
      BY <1>4, <3>1, WithTells
    <3>3. TellsIn(c @@ d, l, B)
      BY <3>2, MergeTells
    <3>4. QED
      BY <1>8, <3>1, <3>3
  <2>4. CASE DropFix
    <3>1. here \in Lanes /\ TellsIn(doc, here, B)
      BY <1>1, <1>3, <2>4 DEF DropFix, InHand, ToldInv, Launching
    <3>2. TellsIn(With(doc, "fix", FALSE), here, B)
      BY <3>1, WithTells
    <3>3. ckpt' = ckpt \/ Save(here, With(doc, "fix", FALSE))
      BY <2>4 DEF DropFix
    <3>4. QED
      BY <1>5, <1>6, <3>1, <3>2, <3>3
  <2>5. CASE Dispatch \/ DuplicateDispatch \/ RefusedDispatch \/ BindRun \/ Promote
             \/ \E l \in Lanes : NotReady(l)
    BY <1>5, <2>5 DEF Dispatch, DuplicateDispatch, RefusedDispatch, DispatchFrame, BindRun, Promote,
        NotReady
  <2>6. QED
    BY <1>14, <2>1, <2>2, <2>3, <2>4, <2>5 DEF Schedule
<1>15. CASE Moves \/ \E n \in Runs : TakeRun(n) \/ PassOver(n)
  BY <1>5, <1>15, MovesTouch, TakingTouches
<1>16. QED
  BY <1>9, <1>10, <1>11, <1>12, <1>13, <1>14, <1>15, NextSplits, ConsumeSplits

\* Every document a tick, a worker or an answer holds, put together.
LEMMA ToldNext ==
    ASSUME NEW B, B = blockers',
           \A l \in Lanes : TellsIn(ckpt'[l], l, B),
           \A n \in Runs : runs'[n].phase = "saving" => TellsIn(wsnap'[n], runs'[n].lane, B),
           apc' = "note" => TellsIn(aseen', alane', B),
           pc' \in {"mark", "verify", "check", "review", "bindreview", "hold"}
               => TellsIn(doc', runs'[cur'].lane, B),
           pc' \in {"dispatch"} \cup Launching => TellsIn(doc', here', B)
    PROVE  ToldInv'
  BY DEF ToldInv, Tells, TellsIn, Read, Launching, Absent, @@

\* What a worker has read of its lane, and what an answer has.
LEMMA ReadersTell ==
    ASSUME Settled, ToldInv, Next, NEW B, B = blockers'
    PROVE  /\ \A n \in Runs : runs'[n].phase = "saving" => TellsIn(wsnap'[n], runs'[n].lane, B)
           /\ apc' = "note" => TellsIn(aseen', alane', B)
<1>1. TypeOK /\ Numbered /\ InHand /\ Grows
  BY RunsGrow DEF Settled
<1>2. blockers \subseteq B
  BY RowsStep
<1>3. \A l, c : Tells(c, l) => TellsIn(c, l, B)
  BY <1>2 DEF Tells, TellsIn
<1>4. ASSUME NEW n \in Runs, runs'[n].phase = "saving" PROVE TellsIn(wsnap'[n], runs'[n].lane, B)
  <2>1. n \in Spent /\ SavingStep(n) /\ runs[n].lane \in Lanes /\ runs'[n].lane = runs[n].lane
    BY <1>1, <1>4, PhasesStep DEF Numbered, Grows
  <2>2. CASE runs[n].phase = "saving" /\ wsnap'[n] = wsnap[n]
    BY <1>3, <2>1, <2>2 DEF ToldInv
  <2>3. CASE wsnap'[n] = ckpt[runs[n].lane]
    BY <1>3, <2>1, <2>3 DEF ToldInv
  <2>4. CASE wsnap'[n] = NoKeys
    BY <2>4, EmptyTells
  <2>5. QED
    BY <2>1, <2>2, <2>3, <2>4 DEF SavingStep
<1>5. ASSUME apc' = "note" PROVE TellsIn(aseen', alane', B)
  <2>1. CASE UNCHANGED answer
    BY <1>3, <1>5, <2>1 DEF ToldInv
  <2>2. CASE LookAtLane
    <3>1. alane \in Lanes /\ aseen' = ckpt[alane] /\ alane' = alane
      BY <1>1, <1>5, <2>2 DEF LookAtLane, InHand, Waiting, TerminalLane
    <3>2. QED
      BY <1>3, <3>1 DEF ToldInv
  <2>3. CASE Transport /\ ~LookAtLane
    BY <1>5, <2>1, <2>3 DEF Transport, PlanLane, RecordAnswer, WakeLane, NoteWake, CancelLanes,
        CancelStatus, AnswerDone
  <2>4. CASE ~Transport
    BY <2>1, <2>4, NextSplits, MovesTouch, RecoveryTouches, ConsumeSplits, TakingTouches,
       HandlersTouch, WakingTouches, ScheduleTouches, WorkerTouches
  <2>5. QED
    BY <2>2, <2>3, <2>4
<1>6. QED
  BY <1>4, <1>5

\* The document of the run in hand, and of the lane being dispatched.
LEMMA DocumentTells ==
    ASSUME Settled, ToldInv, Next, NEW B, B = blockers'
    PROVE  /\ pc' \in {"mark", "verify", "check", "review", "bindreview", "hold"}
                => TellsIn(doc', runs'[cur'].lane, B)
           /\ pc' \in {"dispatch"} \cup Launching => TellsIn(doc', here', B)
<1> DEFINE Held == {"mark", "verify", "check", "review", "bindreview", "hold"}
           Goal == /\ pc' \in Held => TellsIn(doc', runs'[cur'].lane, B)
                   /\ pc' \in {"dispatch"} \cup Launching => TellsIn(doc', here', B)
<1>1. TypeOK /\ Numbered /\ InHand /\ Grows
  BY RunsGrow DEF Settled
<1>2. blockers \subseteq B
  BY RowsStep
<1>3. \A l, c : Tells(c, l) => TellsIn(c, l, B)
  BY <1>2 DEF Tells, TellsIn
\* A step that moves nothing of the tick.
<1>4. ASSUME UNCHANGED <<pc, cur, doc, here>> PROVE Goal
  <2>1. pc' \in Held => runs'[cur'].lane = runs[cur].lane
    BY <1>1, <1>4 DEF InHand, Numbered, Grows, Judging, Recovering, Launching
  <2>2. QED
    BY <1>3, <1>4, <2>1 DEF ToldInv
<1>5. CASE Transport \/ \E n \in Runs : WorkerOf(n)
  BY <1>4, <1>5, TransportTouches, WorkerTouches
<1>6. CASE Moves
  <2>1. pc' \notin Held \cup {"dispatch"} \cup Launching
    BY <1>6, MovesTouch DEF Moved, Launching
  <2>2. QED
    BY <2>1
<1>7. CASE Recovery
  <2>1. pc' \in {"recover"} \cup Recovering /\ pc' \notin {"dispatch"} \cup Launching
    BY <1>7, RecoveryMoves DEF Recovering, Launching
  <2>2. ASSUME pc' = "mark" PROVE TellsIn(doc', runs'[cur'].lane, B)
    <3>1. PICK n \in Runs : HoldUnknown(n) \/ NothingToRecover(n)
      BY <1>7, <2>2 DEF Recovery, RecoverDead, SaveMark, ReleaseDead, EscalateAmbiguous,
                        NoteAmbiguous, Go
    <3>2. HoldUnknown(n)
      BY <2>2, <3>1 DEF NothingToRecover
    <3>3. PICK m : /\ doc' = "unknown" :> m /\ cur' = n /\ runs' = runs
                   /\ m.escalated => runs[n].lane \in B
      <4> DEFINE e == MarkOf(n).passes + 1 >= EscalationPasses
                 m == [run |-> n, passes |-> MarkOf(n).passes + 1, escalated |-> e]
      <4>1. /\ doc' = "unknown" :> m /\ cur' = n /\ runs' = runs
            /\ e => Blocker(runs[n].lane)
        BY <2>2, <3>2 DEF HoldUnknown, Hold, Park, LaneOf
      <4>2. m.escalated = e
        OBVIOUS
      <4>3. e => runs[n].lane \in B
        BY <4>1 DEF Blocker
      <4> HIDE DEF m, e
      <4>4. QED
        BY <4>1, <4>2, <4>3
    <3>4. QED
      BY <3>3, KeyTells
  <2>3. QED
    BY <2>1, <2>2 DEF Recovering
<1>8. CASE Consume
  <2>1. CASE \E n \in Runs : TakeRun(n) \/ PassOver(n)
    <3>1. pc' \in {"consume", "judge"}
      BY <2>1, TakingTouches
    <3>2. QED
      BY <3>1 DEF Launching
  <2>2. CASE Handlers
    <3>1. pc \in Judging /\ pc' \in {"consume"} \cup Judging
      BY <2>2, HandlersMove DEF Judging
    <3>2. ASSUME pc' \in Held PROVE TellsIn(doc', runs'[cur'].lane, B)
      <4>1. runs'[cur'].lane = runs[cur].lane /\ runs[cur].lane \in Lanes
        BY <1>1, <2>2, <3>1, <3>2, SameLane DEF Judging, InHand, Numbered
      <4>2. doc' = ckpt[runs[cur].lane] \/ (doc' = doc /\ pc \in Held)
        BY <2>2, <3>2 DEF Handlers, CountQuestion, EscalateEnded, RefusedRun, ResetWorktree, Retry,
            CompleteReport, AfterImplementation, Verify, ReviewNotDispatched, DispatchReview,
            BindReview, HoldFindings, AfterReview, Resolve, NextRun, Go, LaneOf
      <4>3. QED
        BY <1>3, <4>1, <4>2 DEF ToldInv
    <3>3. QED
      BY <3>1, <3>2 DEF Judging, Launching
  <2>3. QED
    BY <1>8, <2>1, <2>2, ConsumeSplits
<1>9. CASE Waking
  <2>1. pc' \in {"wake", "woken"}
    BY <1>9, WakingTouches
  <2>2. QED
    BY <2>1 DEF Launching
<1>10. CASE Schedule
  <2>1. pc' \in {"schedule", "dispatch"} \cup Launching /\ pc' \notin Held
    BY <1>10, ScheduleMoves DEF Launching
  <2>2. ASSUME pc' \in {"dispatch"} \cup Launching PROVE TellsIn(doc', here', B)
    <3>1. CASE \E l \in Lanes : Prepare(l)
      BY <1>3, <3>1 DEF Prepare, ToldInv
    <3>2. CASE Dispatch \/ BindRun \/ Promote
      <4>1. doc' = doc /\ here' = here /\ pc \in {"dispatch"} \cup Launching
        BY <3>2 DEF Dispatch, BindRun, Promote, Launching
      <4>2. QED
        BY <1>3, <4>1 DEF ToldInv
    <3>3. CASE \E l \in Lanes : NotReady(l) \/ SyncFails(l) \/ RefuseSeat(l)
      BY <2>2, <3>3 DEF NotReady, SyncFails, RefuseSeat, Launching
    <3>4. CASE DuplicateDispatch \/ RefusedDispatch \/ DropFix
      BY <2>2, <3>4 DEF DuplicateDispatch, RefusedDispatch, DropFix, NextLane, Go, Launching
    <3>5. QED
      BY <1>10, <3>1, <3>2, <3>3, <3>4 DEF Schedule
  <2>3. QED
    BY <2>1, <2>2
<1>11. QED
  BY <1>5, <1>6, <1>7, <1>8, <1>9, <1>10, NextSplits

LEMMA ToldStep == ASSUME Settled, ToldInv, [Next]_vars PROVE ToldInv'
<1>1. CASE UNCHANGED vars
  BY <1>1 DEF vars, ToldInv, Tells, TellsIn
<1>2. CASE Next
  BY <1>2, CheckpointsTell, ReadersTell, DocumentTells, ToldNext
<1>3. QED
  BY <1>1, <1>2

LEMMA ParkedToldInit == Init => ParkedInv /\ ToldInv
<1> SUFFICES ASSUME Init PROVE ParkedInv /\ ToldInv
  OBVIOUS
<1>1. \A l \in Lanes : ckpt[l] = NoKeys /\ lane[l].state \notin Waiting
  BY DEF Init, Waiting
<1>2. \A n \in Runs : runs[n].phase = "none"
  BY DEF Init, NoRow
<1>3. ParkedInv
  BY <1>1, <1>2 DEF Init, ParkedInv
<1>4. ToldInv
  BY <1>1, <1>2, EmptyTells DEF Init, ToldInv, Tells, Launching
<1>5. QED
  BY <1>3, <1>4

\* Whether or not ticks die, while nobody has answered: a lane that waits between two
\* ticks has an open question, a BLOCKER or a FAIL verdict to show for it, and an
\* unreadable worker is marked as told of only where the BLOCKER stands (orchestrator.py,
\* inbox and _hold_unknown_liveness).
THEOREM ParkedStaysExplained == Spec => [](answers = 0 => ParkedIsExplained)
<1>1. Settled /\ ParkedInv /\ ToldInv /\ [Next]_vars => ParkedInv' /\ ToldInv'
  BY ParkedStep, ToldStep
<1>2. ParkedInv /\ ToldInv => (answers = 0 => ParkedIsExplained)
  BY DEF ParkedInv, ToldInv, Tells, TellsIn, Explained, ParkedIsExplained
<1>3. QED
  BY <1>1, <1>2, ParkedToldInit, Typed, PTL DEF Spec

================================================================================
