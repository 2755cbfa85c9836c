------------------------------ MODULE Governance ------------------------------
(***************************************************************************)
(* Program governance: what a tick does after the lanes were reaped and    *)
(* before they are scheduled (core/orchestrator.py, _program_governance),  *)
(* and what people do to the same records meanwhile.                       *)
(*                                                                         *)
(*   - a planner seat proposes a plan, an adversarial reviewer challenges  *)
(*     it, a person adopts it or resolves findings (core/planner.py);      *)
(*   - a model in the strategist seat answers executors' questions; what   *)
(*     it may dispose of alone is core/autonomy.py's, the rest waits in a  *)
(*     queue for a person to approve or discard.                           *)
(*                                                                         *)
(* Both keep their state in program meta: one key per fact, each written   *)
(* on its own, documents read whole and written back whole.  A step of the *)
(* model is one such write (or one read that is used later).  The tick and *)
(* the person are separate processes and either may die between two steps. *)
(*                                                                         *)
(* Abstractions.  One lane files every question, one a run.  A turn's response is the *)
(* set of questions it answers, empty when nothing can be parsed.  A  *)
(* run is only active or ended.  The text of briefs, events, the provider  *)
(* session and the resolution of seats are left out: a dispatch may fail.  *)
(***************************************************************************)
EXTENDS Integers

CONSTANTS
  Questions,    \* messages executors and the scheduler may file
  LaneKeys,     \* lanes of the plan a planner proposes
  Findings,     \* what a challenge may find
  Severe,       \* the findings of severity CRITICAL or HIGH
  Programs,     \* governance settings the program may have: "plan", "seat"
  Modes,        \* autonomy modes the owner may choose
  FirstMode,    \* the one the program starts with
  MaxRefusals,  \* MAX_CONSECUTIVE_REFUSALS
  MaxModes,     \* bound: changes of the autonomy mode
  MaxCrashes    \* bound: deaths of the tick or of the person's process

ASSUME SevereAssumption == Severe \subseteq Findings
ASSUME ModesAssumption == FirstMode \in Modes
ASSUME BoundsAssumption ==
  MaxRefusals \in Nat \ {0} /\ MaxModes \in Nat /\ MaxCrashes \in Nat

VARIABLES
  program,     \* "plan": planning_mode planner_seat; "seat": STRATEGIST_SEAT
  mode,        \* autonomy_mode
  lane,        \* where the lane stands: RUNNING, or for whom it waits
  question,    \* the message rows: kind and whether answered
  lastBlocker, \* the lane's last BLOCKER message
  approvals,   \* the decision ledger: how often each was decided by approval
  queue,       \* _pending_directives_json
  turn,        \* _strategist_run_id and the state of that run
  turnStray,   \* a turn that was dispatched and is in no meta key
  refusals,    \* _strategist_refusals
  scope,       \* _strategist_refusal_scope
  planner,     \* _planner_run_id and the state of that run
  plannerStray,\* a planner run in no meta key, and how its number is used
  planners,    \* planner runs dispatched
  challenge,   \* _plan_challenge_run_id and the state of that run
  challenges,  \* plan challenges dispatched
  doc,         \* _plan_proposal_json
  lanes,       \* how often each lane of the plan was created
  tick,        \* the process that ticks: its place and what it has read
  human,       \* the person's process: approve, discard, answer, adopt, resolve
  modeChanges, \* bound
  crashes,     \* bound
  fruitless,   \* history: turns dispatched since the questions on offer changed or
               \* a turn was admitted
  torn,        \* history: questions decided by a process that died before it
               \* marked them answered
  stale        \* history: a copy of the document was saved over a newer one, or
               \* an adoption died among its writes

planVars == <<planner, plannerStray, planners, challenge, challenges, doc, lanes>>
seatVars == <<queue, turn, turnStray, refusals, scope>>
worldVars == <<mode, lane, question, lastBlocker, modeChanges>>
ledger == <<approvals, torn, stale>>
codeVars == <<program, planVars, seatVars, worldVars, ledger, tick, human, crashes>>
governanceVars == <<codeVars, fruitless>>

NoQuestion == "no question"
NoDoc == [status |-> "NONE", found |-> {}, open |-> {}, reviewed |-> FALSE, run |-> 0]
LaneStates == {"RUNNING", "WAITING_STRATEGIST", "WAITING_OWNER"}
OwnerKinds == {"AUTHORITY_REQUEST"}
RoutineKinds == {"CLARIFICATION_REQUEST"}
Kinds == OwnerKinds \cup RoutineKinds \cup {"BLOCKER"}
Waiting == lane \in {"WAITING_STRATEGIST", "WAITING_OWNER"}

--------------------------------------------------------------------------------
(* The inbox, as the seat reads it.                                        *)

\* A question that awaits an answer and has none.
Open(q) == question[q].kind \in OwnerKinds \cup RoutineKinds /\ ~question[q].answered

\* The lane's last blocker is shown while the lane waits, answered or not.
BlockerShown(q) == q = lastBlocker /\ Waiting

\* Who the item of a message is routed to, were it not queued.
Route(q) ==
  IF question[q].kind = "BLOCKER"
  THEN IF lane = "WAITING_OWNER" THEN "OWNER" ELSE "STRATEGIST"
  ELSE IF question[q].kind \in OwnerKinds THEN "OWNER" ELSE "STRATEGIST"

\* The items with a message id, by that id.  A queued directive is an item of
\* its own under the id of the question it answers; being the oldest item it is
\* the last of the list, and the later item of an id replaces the earlier one
\* wherever the seat's code keys items by message.
Inbox ==
  [q \in {m \in Questions : Open(m) \/ BlockerShown(m) \/ m \in queue} |->
     IF q \in queue THEN [route |-> "STRATEGIST", kind |-> "DIRECTIVE_PENDING_APPROVAL"]
     ELSE [route |-> Route(q), kind |-> question[q].kind]]

\* answerable_seat_questions filters the items one by one, so an owner's
\* question with a directive queued for it is answerable through that item.
Answerable == {q \in DOMAIN Inbox : Inbox[q].route # "OWNER"}

\* validate_directive_response: closed over what the seat was shown.
Valid(response, shown) ==
  /\ response # {}
  /\ \A q \in response : q \in DOMAIN shown /\ shown[q].route # "OWNER"

\* core/autonomy.py: what one admitted directive comes to.
Disposition(m, item) ==
  IF item.route = "OWNER" \/ item.kind \in OwnerKinds THEN "ESCALATE_TO_OWNER"
  ELSE IF m = "AUTO" \/ (m = "SAFE" /\ item.kind \in RoutineKinds) THEN "APPLY"
  ELSE "QUEUE_FOR_APPROVAL"

--------------------------------------------------------------------------------
(* The two processes.  A process holds a place and what it has read.       *)

Idle == [at |-> "idle"]
TickAt(place) == tick.at = place
GoTick(place) == tick' = [tick EXCEPT !.at = place]
HumanAt(place) == human.at = place
GoHuman(place) == human' = [human EXCEPT !.at = place]

FreshDoc(status) ==
  [status |-> status, found |-> {}, open |-> {}, reviewed |-> FALSE, run |-> planners]

\* save_proposal_doc writes a whole document, made from a copy read earlier.
SaveDoc(copy, new) == doc' = new /\ stale' = (stale \/ doc # copy)
\* Slip: a decided document is pending still.
SlipPending == doc.status \in {"PENDING", "ADOPTED"}

\* The document is PENDING.
Pending == doc # NoDoc /\ doc.status = "PENDING"

GovernanceInit ==
  /\ program \in Programs
  /\ mode = FirstMode
  /\ lane = "RUNNING"
  /\ question = [q \in Questions |-> [kind |-> "unfiled", answered |-> FALSE]]
  /\ lastBlocker = NoQuestion
  /\ approvals = [q \in Questions |-> 0]
  /\ queue = {}
  /\ turn = "none" /\ turnStray = "none"
  /\ refusals = 0 /\ scope = {}
  /\ planner = "none" /\ plannerStray = FALSE /\ planners = 0
  /\ challenge = "none" /\ challenges = 0
  /\ doc = NoDoc
  /\ lanes = [k \in LaneKeys |-> 0]
  /\ tick = Idle /\ human = Idle
  /\ modeChanges = 0 /\ crashes = 0 /\ fruitless = 0 /\ torn = {} /\ stale = FALSE

--------------------------------------------------------------------------------
(* The world: executors file, runs end, the owner chooses a mode.          *)

\* A message of the lane is recorded and the lane is parked for whoever it
\* waits for.  The scheduler files blockers, for the owner or the strategist.
File(q, k) ==
  /\ program = "seat" /\ lane = "RUNNING"
  /\ question[q].kind = "unfiled"
  /\ question' = [question EXCEPT ![q].kind = k]
  /\ lane' \in CASE k \in OwnerKinds -> {"WAITING_OWNER"}
                 [] k = "BLOCKER" -> {"WAITING_OWNER", "WAITING_STRATEGIST"}
                 [] OTHER -> {"WAITING_STRATEGIST"}
  /\ lastBlocker' = IF k = "BLOCKER" THEN q ELSE lastBlocker
  /\ UNCHANGED <<program, planVars, seatVars, mode, modeChanges, ledger, tick, human, crashes>>

RunEnds ==
  /\ \/ turn = "active" /\ turn' = "ended" /\ UNCHANGED <<planner, challenge>>
     \/ planner = "active" /\ planner' = "ended" /\ UNCHANGED <<turn, challenge>>
     \/ challenge = "active" /\ challenge' = "ended" /\ UNCHANGED <<turn, planner>>
  /\ UNCHANGED <<program, plannerStray, planners, challenges, doc, lanes, queue, turnStray,
                 refusals, scope, worldVars, ledger, tick, human, crashes>>

ChooseMode ==
  /\ program = "seat" /\ modeChanges < MaxModes
  /\ \E m \in Modes \ {mode} : mode' = m
  /\ modeChanges' = modeChanges + 1
  /\ UNCHANGED <<program, planVars, seatVars, lane, question, lastBlocker, ledger, tick,
                 human, crashes>>

--------------------------------------------------------------------------------
(* answer(): the decision, the mark on the message, the lane.  Three        *)
(* writes, made by the seat's turn, by an approval or by the owner.         *)

\* The decision is recorded.  Approvals are counted, up to two.
Decide(q, by) ==
  approvals' = IF by # "approval" THEN approvals
               ELSE [approvals EXCEPT ![q] = IF @ < 2 THEN @ + 1 ELSE 2]

Mark(q) == question' = [question EXCEPT ![q].answered = TRUE]

\* Whatever the lane waits for, an answer wakes it.
Wake == lane' = IF Waiting THEN "RUNNING" ELSE lane

--------------------------------------------------------------------------------
(* The tick: planner, challenge, planner's dispatch, challenge's dispatch,  *)
(* then the strategist seat.                                                *)

\* Without a planner seat there is never a plan, and its steps find nothing.
TickBegins ==
  /\ TickAt("idle") /\ GoTick(IF program = "plan" THEN "planner" ELSE "seat")
  /\ UNCHANGED <<program, planVars, seatVars, worldVars, ledger, human, crashes>>

\* _consume_planner_run: the key is cleared before the result is read.
ConsumePlanner ==
  /\ TickAt("planner")
  /\ IF planner = "ended" THEN planner' = "none" /\ GoTick("plan read")
                          ELSE UNCHANGED planner /\ GoTick("challenge")
  /\ UNCHANGED <<program, plannerStray, planners, challenge, challenges, doc, lanes, seatVars,
                 worldVars, ledger, human, crashes>>

\* A valid proposal is PENDING, anything else is REFUSED; both are saved.
SaveProposal ==
  /\ TickAt("plan read")
  /\ \E status \in {"PENDING", "REFUSED"} : doc' = FreshDoc(status)
  /\ GoTick("challenge")
  /\ UNCHANGED <<program, planner, plannerStray, planners, challenge, challenges, lanes,
                 seatVars, worldVars, ledger, human, crashes>>

\* _consume_plan_challenge: clear the key, load the document, save it again
\* with the findings.  A run that did not end in HANDOFF_READY found nothing.
ConsumeChallenge ==
  /\ TickAt("challenge")
  /\ IF challenge = "ended" THEN challenge' = "none" /\ GoTick("challenge read")
                            ELSE UNCHANGED challenge /\ GoTick("dispatch planner")
  /\ UNCHANGED <<program, planner, plannerStray, planners, challenges, doc, lanes, seatVars,
                 worldVars, ledger, human, crashes>>

ReadForFindings ==
  /\ TickAt("challenge read")
  /\ tick' = IF doc = NoDoc THEN [at |-> "dispatch planner"]
             ELSE [at |-> "save findings", copy |-> doc]
  /\ UNCHANGED <<program, planVars, seatVars, worldVars, ledger, human, crashes>>

SaveFindings ==
  /\ TickAt("save findings")
  /\ \E f \in SUBSET Findings :
       SaveDoc(tick.copy, [tick.copy EXCEPT !.found = @ \cup f, !.open = @ \cup f])
  /\ tick' = [at |-> "dispatch planner"]
  /\ UNCHANGED <<program, planner, plannerStray, planners, challenge, challenges, lanes,
                 seatVars, worldVars, approvals, torn, human, crashes>>

\* dispatch_planner only while there is no document, no run and no lane.
PlannerDue ==
  /\ program = "plan" /\ doc = NoDoc /\ planner = "none"
  /\ \A k \in LaneKeys : lanes[k] = 0

\* The step is numbered by _planner_attempts, which is written after the
\* dispatch: after a death in between, the number is taken and the task is the
\* same, so the dispatch is a DUPLICATE.
DispatchPlanner ==
  /\ TickAt("dispatch planner") /\ PlannerDue /\ ~plannerStray
  /\ planners' = planners + 1 /\ plannerStray' = TRUE
  /\ GoTick("planner attempt")
  /\ UNCHANGED <<program, planner, challenge, challenges, doc, lanes, seatVars, worldVars,
                 ledger, human, crashes>>

NoPlanner ==
  /\ TickAt("dispatch planner") /\ (~PlannerDue \/ plannerStray)
  /\ GoTick("dispatch challenge")
  /\ UNCHANGED <<program, planVars, seatVars, worldVars, ledger, human, crashes>>

CountPlanner ==
  /\ TickAt("planner attempt") /\ plannerStray' = FALSE /\ GoTick("planner key")
  /\ UNCHANGED <<program, planner, planners, challenge, challenges, doc, lanes, seatVars,
                 worldVars, ledger, human, crashes>>

KeyPlanner ==
  /\ TickAt("planner key") /\ planner' = "active" /\ GoTick("dispatch challenge")
  /\ UNCHANGED <<program, plannerStray, planners, challenge, challenges, doc, lanes, seatVars,
                 worldVars, ledger, human, crashes>>

\* A plan that is PENDING, asks for a challenge, and has had none.
ChallengeDue == Pending /\ challenge = "none" /\ ~doc.reviewed

\* The step is numbered by the reviews the document lists, and the task is the
\* plan: it can be admitted once.
ChallengeKeyUsed == challenges > 0

DispatchChallenge ==
  /\ TickAt("dispatch challenge") /\ ChallengeDue /\ ~ChallengeKeyUsed
  /\ challenges' = challenges + 1
  /\ tick' = [at |-> "challenge key", copy |-> doc]
  /\ UNCHANGED <<program, planner, plannerStray, planners, challenge, doc, lanes, seatVars,
                 worldVars, ledger, human, crashes>>

\* No challenge was asked for, or none could be dispatched.
NoChallenge ==
  /\ TickAt("dispatch challenge") /\ GoTick("seat")
  /\ UNCHANGED <<program, planVars, seatVars, worldVars, ledger, human, crashes>>

KeyChallenge ==
  /\ TickAt("challenge key") /\ challenge' = "active" /\ GoTick("save reviewed")
  /\ UNCHANGED <<program, planner, plannerStray, planners, challenges, doc, lanes, seatVars,
                 worldVars, ledger, human, crashes>>

SaveReviewed ==
  /\ TickAt("save reviewed")
  /\ SaveDoc(tick.copy, [tick.copy EXCEPT !.reviewed = TRUE])
  /\ tick' = [at |-> "seat"]
  /\ UNCHANGED <<program, planner, plannerStray, planners, challenge, challenges, lanes,
                 seatVars, worldVars, approvals, torn, human, crashes>>

\* strategist_governance_step, and _consume_strategist_run: mode and queue are
\* read with the key, before it is cleared.
SeatIdle ==
  /\ TickAt("seat") /\ turn # "ended"
  /\ tick' = IF program = "seat" THEN [at |-> "budget"] ELSE Idle
  /\ UNCHANGED <<program, planVars, seatVars, worldVars, ledger, human, crashes>>

ConsumeTurn ==
  /\ TickAt("seat") /\ program = "seat" /\ turn = "ended"
  /\ turn' = "none"
  /\ tick' = [at |-> "inbox", mode |-> mode, queue |-> queue]
  /\ UNCHANGED <<program, planVars, queue, turnStray, refusals, scope, worldVars,
                 ledger, human, crashes>>

\* Read the inbox and judge the response against it.
ReadInbox ==
  /\ TickAt("inbox")
  /\ \E response \in SUBSET Questions :
       IF Valid(response, Inbox)
       THEN tick' = [at |-> "dispose", queue |-> tick.queue,
                     todo |-> [q \in response |-> Disposition(tick.mode, Inbox[q])]]
       ELSE tick' = [at |-> "refuse"]
  /\ UNCHANGED <<program, planVars, seatVars, worldVars, ledger, human, crashes>>

\* _count_strategist_refusal: the count is of refusals over the same questions.
CountRefusal ==
  /\ TickAt("refuse")
  /\ refusals' = IF scope = Answerable THEN refusals + 1 ELSE 1
  /\ tick' = [at |-> "refusal scope", scope |-> Answerable]
  /\ UNCHANGED <<program, planVars, queue, turn, turnStray, scope, worldVars, ledger,
                 human, crashes>>
\* Slip: the set the refusals are counted against is not saved.
SlipNoteScope ==
  /\ TickAt("refusal scope") /\ tick' = [at |-> "budget"]
  /\ UNCHANGED <<program, planVars, seatVars, worldVars, ledger, human, crashes>>

NoteScope ==
  /\ TickAt("refusal scope")
  /\ scope' = tick.scope /\ tick' = [at |-> "budget"]
  /\ UNCHANGED <<program, planVars, queue, turn, turnStray, refusals, worldVars,
                 ledger, human, crashes>>

Without(todo, q) == [r \in DOMAIN todo \ {q} |-> todo[r]]

\* _dispose_directives: one directive after another, as autonomy decides.
QueueDirective ==
  /\ TickAt("dispose")
  /\ \E q \in DOMAIN tick.todo :
       /\ tick.todo[q] = "QUEUE_FOR_APPROVAL"
       /\ tick' = [tick EXCEPT !.queue = @ \cup {q}, !.todo = Without(@, q)]
  /\ UNCHANGED <<program, planVars, seatVars, worldVars, ledger, human, crashes>>

ApplyDirective ==
  /\ TickAt("dispose")
  /\ \E q \in DOMAIN tick.todo :
       /\ tick.todo[q] = "APPLY"
       /\ Decide(q, "seat")
       /\ tick' = [at |-> "mark", q |-> q, queue |-> tick.queue, todo |-> Without(tick.todo, q)]
  /\ UNCHANGED <<program, planVars, seatVars, worldVars, torn, stale, human, crashes>>

MarkApplied ==
  /\ TickAt("mark") /\ Mark(tick.q) /\ GoTick("wake")
  /\ UNCHANGED <<program, planVars, seatVars, mode, lane, lastBlocker, modeChanges, ledger,
                 human, crashes>>

WakeApplied ==
  /\ TickAt("wake") /\ Wake
  /\ tick' = [at |-> "dispose", queue |-> tick.queue, todo |-> tick.todo]
  /\ UNCHANGED <<program, planVars, seatVars, mode, question, lastBlocker, modeChanges, ledger,
                 human, crashes>>

SaveQueue ==
  /\ TickAt("dispose") /\ DOMAIN tick.todo = {}
  /\ queue' = tick.queue /\ tick' = [at |-> "admitted"]
  /\ UNCHANGED <<program, planVars, turn, turnStray, refusals, scope, worldVars,
                 ledger, human, crashes>>

ForgiveRefusals ==
  /\ TickAt("admitted")
  /\ refusals' = 0 /\ GoTick("budget")
  /\ UNCHANGED <<program, planVars, queue, turn, turnStray, scope, worldVars, ledger, human,
                 crashes>>
\* Slip: only an admitted turn forgives; other questions do not.
SlipNewScope ==
  /\ TickAt("budget") /\ refusals > 0 /\ scope # Answerable
  /\ tick' = Idle
  /\ UNCHANGED <<program, planVars, seatVars, worldVars, ledger, human, crashes>>

\* The budget is forgiven when other questions are on offer, and spent when
\* MaxRefusals turns over the same ones were refused.
NewScope ==
  /\ TickAt("budget") /\ refusals > 0 /\ scope # Answerable
  /\ refusals' = 0
  /\ UNCHANGED <<program, planVars, queue, turn, turnStray, scope, worldVars, ledger,
                 tick, human, crashes>>

Halted == refusals >= MaxRefusals /\ scope = Answerable

TurnDue == refusals < MaxRefusals /\ turn = "none" /\ Answerable # {}

NoTurn ==
  /\ TickAt("budget") /\ (refusals = 0 \/ scope = Answerable) /\ ~TurnDue
  /\ tick' = Idle
  /\ UNCHANGED <<program, planVars, seatVars, worldVars, ledger, human, crashes>>

\* The number of the step is taken while a stray turn has it; the brief may
\* have changed since, and with it the dispatch key.
DispatchTurn ==
  /\ TickAt("budget") /\ (refusals = 0 \/ scope = Answerable) /\ TurnDue
  /\ turnStray' = "counting"
  /\ GoTick("turn attempt")
  /\ UNCHANGED <<program, planVars, queue, turn, refusals, scope, worldVars, ledger, human,
                 crashes>>

DuplicateTurn ==
  /\ TickAt("budget") /\ (refusals = 0 \/ scope = Answerable) /\ TurnDue
  /\ turnStray = "counting"
  /\ tick' = Idle
  /\ UNCHANGED <<program, planVars, seatVars, worldVars, ledger, human, crashes>>

CountTurn ==
  /\ TickAt("turn attempt") /\ turnStray' = "none" /\ GoTick("turn key")
  /\ UNCHANGED <<program, planVars, queue, turn, refusals, scope, worldVars, ledger,
                 human, crashes>>

KeyTurn ==
  /\ TickAt("turn key") /\ turn' = "active" /\ tick' = Idle
  /\ UNCHANGED <<program, planVars, queue, turnStray, refusals, scope, worldVars,
                 ledger, human, crashes>>

TickDies ==
  /\ crashes < MaxCrashes /\ ~TickAt("idle")
  /\ crashes' = crashes + 1
  /\ torn' = IF TickAt("mark") THEN torn \cup {tick.q} ELSE torn
  /\ tick' = Idle
  /\ UNCHANGED <<program, planVars, seatVars, worldVars, approvals, stale, human>>

Tick ==
  \/ TickBegins \/ ConsumePlanner \/ SaveProposal \/ ConsumeChallenge \/ ReadForFindings
  \/ SaveFindings \/ DispatchPlanner \/ NoPlanner \/ CountPlanner \/ KeyPlanner
  \/ DispatchChallenge \/ NoChallenge \/ KeyChallenge \/ SaveReviewed
  \/ SeatIdle \/ ConsumeTurn \/ ReadInbox \/ CountRefusal \/ NoteScope \/ QueueDirective
  \/ ApplyDirective \/ MarkApplied \/ WakeApplied \/ SaveQueue \/ ForgiveRefusals
  \/ NewScope \/ NoTurn \/ DispatchTurn \/ DuplicateTurn \/ CountTurn \/ KeyTurn

--------------------------------------------------------------------------------
(* The person: approve, discard or answer; adopt a plan, resolve a finding. *)
\* Slip: whether the question has been answered is not asked.
SlipApprove(q) ==
  /\ HumanAt("idle") /\ q \in queue
  /\ human' = [at |-> "approve", q |-> q, queue |-> queue \ {q}]
  /\ UNCHANGED <<program, planVars, seatVars, worldVars, ledger, tick, crashes>>

\* approve_pending_directive reads queue and message; an answered question's
\* directive is dropped, any other leaves the queue before it is applied.
Approve(q) ==
  /\ HumanAt("idle") /\ q \in queue
  /\ human' = [at |-> IF question[q].answered THEN "drop" ELSE "approve", q |-> q,
               queue |-> queue \ {q}]
  /\ UNCHANGED <<program, planVars, seatVars, worldVars, ledger, tick, crashes>>

Discard(q) ==
  /\ HumanAt("idle") /\ q \in queue
  /\ human' = [at |-> "drop", q |-> q, queue |-> queue \ {q}]
  /\ UNCHANGED <<program, planVars, seatVars, worldVars, ledger, tick, crashes>>

\* Both halves write the queue they read, without the directive.
TakeFromQueue ==
  /\ HumanAt("drop") \/ HumanAt("approve")
  /\ queue' = human.queue
  /\ human' = IF HumanAt("drop") THEN Idle
              ELSE [at |-> "decide", q |-> human.q, by |-> "approval"]
  /\ UNCHANGED <<program, planVars, turn, turnStray, refusals, scope, worldVars,
                 ledger, tick, crashes>>

\* The owner answers an item of the inbox.
Answer(q) ==
  /\ HumanAt("idle") /\ (Open(q) \/ BlockerShown(q))
  /\ human' = [at |-> "decide", q |-> q, by |-> "owner"]
  /\ UNCHANGED <<program, planVars, seatVars, worldVars, ledger, tick, crashes>>

HumanDecides ==
  /\ HumanAt("decide") /\ Decide(human.q, human.by) /\ GoHuman("mark")
  /\ UNCHANGED <<program, planVars, seatVars, worldVars, torn, stale, tick, crashes>>

HumanMarks ==
  /\ HumanAt("mark") /\ Mark(human.q) /\ GoHuman("wake")
  /\ UNCHANGED <<program, planVars, seatVars, mode, lane, lastBlocker, modeChanges, ledger,
                 tick, crashes>>

HumanWakes ==
  /\ HumanAt("wake") /\ Wake /\ human' = Idle
  /\ UNCHANGED <<program, planVars, seatVars, mode, question, lastBlocker, modeChanges, ledger,
                 tick, crashes>>

\* adopt_plan_proposal, of the pending proposal: refused while a severe finding
\* is open.  (With require_plan_review off nothing is refused; the default is on.)
Blocking(d) == d.open \cap Severe

Adopt ==
  /\ HumanAt("idle") /\ Pending /\ Blocking(doc) = {}
  /\ human' = [at |-> "create lanes", copy |-> doc, left |-> LaneKeys]
  /\ UNCHANGED <<program, planVars, seatVars, worldVars, ledger, tick, crashes>>

\* All lanes first, one by one; then the decision; the document last.
CreateLane ==
  /\ HumanAt("create lanes")
  /\ \E k \in human.left :
       /\ lanes' = [lanes EXCEPT ![k] = IF @ < 2 THEN @ + 1 ELSE 2]
       /\ human' = [human EXCEPT !.left = @ \ {k}]
  /\ UNCHANGED <<program, planner, plannerStray, planners, challenge, challenges, doc, seatVars,
                 worldVars, ledger, tick, crashes>>

SaveAdopted ==
  /\ HumanAt("create lanes") /\ human.left = {}
  /\ SaveDoc(human.copy, [human.copy EXCEPT !.status = "ADOPTED"])
  /\ human' = Idle
  /\ UNCHANGED <<program, planner, plannerStray, planners, challenge, challenges, lanes,
                 seatVars, worldVars, approvals, torn, tick, crashes>>

\* resolve_proposal_finding: any document, the decision before the save.
Resolve(f) ==
  /\ HumanAt("idle") /\ doc # NoDoc /\ f \in doc.found
  /\ human' = [at |-> "save resolved", copy |-> doc, finding |-> f]
  /\ UNCHANGED <<program, planVars, seatVars, worldVars, ledger, tick, crashes>>

SaveResolved ==
  /\ HumanAt("save resolved")
  /\ SaveDoc(human.copy, [human.copy EXCEPT !.open = @ \ {human.finding}])
  /\ human' = Idle
  /\ UNCHANGED <<program, planner, plannerStray, planners, challenge, challenges, lanes,
                 seatVars, worldVars, approvals, torn, tick, crashes>>

HumanDies ==
  /\ crashes < MaxCrashes /\ ~HumanAt("idle")
  /\ crashes' = crashes + 1
  /\ torn' = IF HumanAt("mark") THEN torn \cup {human.q} ELSE torn
  /\ stale' = (stale \/ HumanAt("create lanes"))
  /\ human' = Idle
  /\ UNCHANGED <<program, planVars, seatVars, worldVars, approvals, tick>>

Human ==
  \/ \E q \in Questions : Approve(q) \/ Discard(q) \/ Answer(q)
  \/ TakeFromQueue \/ HumanDecides \/ HumanMarks \/ HumanWakes
  \/ Adopt \/ CreateLane \/ SaveAdopted
  \/ \E f \in Findings : Resolve(f)
  \/ SaveResolved

World == RunEnds \/ ChooseMode \/ \E q \in Questions, k \in Kinds : File(q, k)

\* Counting is no part of the code: it looks at what a step did.
CountFruitless ==
  fruitless' =
    IF Answerable' # Answerable \/ (TickAt("admitted") /\ tick'.at = "budget") THEN 0
    ELSE IF TickAt("budget") /\ tick'.at = "turn attempt" THEN fruitless + 1
    ELSE fruitless

GovernanceNext == (Tick \/ Human \/ World \/ TickDies \/ HumanDies) /\ CountFruitless

GovernanceSpec == GovernanceInit /\ [][GovernanceNext]_governanceVars

\* Somebody ticks the program again and again, and every run ends: the worker
\* bounds it by run_timeout_s.
GovernanceFairSpec == GovernanceSpec /\ WF_codeVars(Tick) /\ WF_codeVars(RunEnds)

--------------------------------------------------------------------------------
(* Properties.                                                             *)

\* A seat that keeps failing at the same questions stops: over one set of
\* answerable questions no more than MaxRefusals turns are spent without one
\* being admitted, save one for each turn a death lost.  The counter, its scope
\* and the run key are separate keys, the set changes while turns run, and the
\* refusal is counted against the set of that moment, not of the dispatch.
BudgetHolds == fruitless <= MaxRefusals + crashes

\* However often its directive is proposed, put back into the queue by a turn
\* that read the queue before it was taken out, or approved again, a question is
\* decided by approval once, except where an approval died between the decision
\* and the mark on the message; and a plan's lanes are created once, unless a
\* process saved a copy of the document over a newer one, or an adoption died
\* among its writes.
DecidedOnce ==
    /\ \A q \in Questions : approvals[q] > 1 => q \in torn
    /\ stale \/ \A k \in LaneKeys : lanes[k] <= 1

\* Governance is never left for good with something to do.  A program in
\* planner_seat gets a proposal, or the refusal of one.  A seat that could answer
\* something gets a turn, unless it was halted over just these questions: a halt
\* over others, or a count of refusals whose scope was never written, does not
\* keep it from them.  (Where no process died: see the README for where one did.)
SomethingDue == IF program = "plan" THEN doc = NoDoc ELSE Answerable # {} /\ turn = "none"
NothingDue == IF program = "plan" THEN doc # NoDoc
              ELSE turn # "none" \/ Halted \/ Answerable = {}
GovernanceMoves == SomethingDue ~> (NothingDue \/ crashes > 0)

================================================================================
