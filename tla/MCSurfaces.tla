----------------------------- MODULE MCSurfaces -----------------------------
(***************************************************************************)
(* The parts around the relay's and the program's cores, checked in one    *)
(* run.  They share no state, so a behaviour is a behaviour of one of      *)
(* them: the initial state picks the part, and the others are switched     *)
(* off.                                                                    *)
(***************************************************************************)
EXTENDS Naturals

CONSTANTS
    Commands, Commanded, Unset, MaxEffects, MaxTurns, MaxRestarts,
    MaxWords, MaxLines, MaxChecks, Limit, MaxApiTurns, Window, MissLimit,
    RetryLimit, MaxWork, MaxOwn, MaxCrashes, Threads, DispatchKeys, MaxCalls,
    MaxLocal, MaxEvents, Strategists, Digests, LeaseS, MaxClock, MaxClaims,
    MaxDecisions, MaxMessages, LaneCount, MaxDeps, MaxAdoptions, Own, Other,
    LookLimit, SettlePolls, StablePolls, Lag, Flicker, ShownTurns,
    MaxTroubles, Producers, MessageIds, MaxAppends, MaxDeaths, MaxMisses,
    InboxRuns, MaxAnswers, Budget, BlockerWindow, ObservationWindow,
    DirectiveLimit, MaxEntries, MaxSize, MaxUpstream, Files, MaxWrites, Crew,
    Upstream, Sources, Lockfile, MaxRuns, MaxTampers

VARIABLES
    part,
    row, lock, command, overrides,
    observationTree, readings, observationPhase, awaiting, observationBefore,
    profile, demands, spent,
    said, granted, gate, checks, sent, textTold,
    apiTurn, apiPhase, chat, session, busy, flying, pc, st, missing, retries,
    got, recorded, posted, torn, blind, own, crashes,
    mode, modeFile, rows, mcpRuns, call, acted, local, events,
    clock, lease, held, doing, storeDecisions, storeMessages, minted,
    storeTold,
    plan, stage, kahn, errors, planDoc, laneMap, laneRows, requires,
    adoptions,
    bound, tab, thread, down, socket, seat, outcome, packets, alone,
    troubles,
    spool, expired, dead, appending, appends, cursor, inbox, acked, twice,
    missed, deaths,
    tasks, outbox, consumed, inboxTurn, reply, written,
    handoverMessages, handoverDecisions, upstream, checkpoint, brief, doc,
    evidenceTree, want, floor, half, evidenceBefore, after, was, is,
    evidencePhase, write, report, verdict, writes,
    suite, receipt,
    needs, made, disk, staged, has, synced, lane, committing, excludes,
    writable, omit, integration, treeRuns, tampers, past

\* A dispatch key is never the number that stands for none.
ASSUME KeysAssumption == 0 \notin DispatchKeys

\* A lease lasts a number of seconds.
ASSUME LeaseAssumption == LeaseS \in Nat

\* The lanes of a proposal are counted.
ASSUME LanesAssumption == LaneCount \in Nat

\* No command is the name of nobody.
ASSUME CommandsAssumption == "nobody" \notin Commands

\* The lane the others may require is one of them, and none is the name of nobody.
ASSUME CrewAssumption == Upstream \in Crew /\ "nobody" \notin Crew

Command == INSTANCE RelayCommands WITH Checks <- Commanded
Observation == INSTANCE RelayObservation WITH tree <- observationTree, phase <- observationPhase, before <- observationBefore
Text == INSTANCE RelayText WITH told <- textTold
Api == INSTANCE ApiEnds WITH MaxTurns <- MaxApiTurns, turn <- apiTurn, phase <- apiPhase
Mcp == INSTANCE McpTransport WITH Keys <- DispatchKeys, runs <- mcpRuns
Store == INSTANCE StrategicStore WITH decisions <- storeDecisions, messages <- storeMessages, told <- storeTold
Plan == INSTANCE PlanAdmission
Browser == INSTANCE BrowserSeat WITH Window <- ShownTurns
Mail == INSTANCE Mailbox
Inbox == INSTANCE FileInbox WITH Turns <- InboxRuns, turn <- inboxTurn
Handover == INSTANCE SeatHandover WITH messages <- handoverMessages, decisions <- handoverDecisions
Evidence == INSTANCE RunEvidence WITH tree <- evidenceTree, before <- evidenceBefore, phase <- evidencePhase
Collector == INSTANCE TestCollector
Tree == INSTANCE LaneTree WITH First <- Upstream, runs <- treeRuns

CommandState == <<row, lock, command, overrides>>
ObservationState == <<observationTree, readings, observationPhase, awaiting,
      observationBefore, profile, demands, spent>>
TextState == <<said, granted, gate, checks, sent, textTold>>
ApiState == <<apiTurn, apiPhase, chat, session, busy, flying, pc, st,
      missing, retries, got, recorded, posted, torn, blind, own, crashes>>
McpState == <<mode, modeFile, rows, mcpRuns, call, acted, local, events>>
StoreState == <<clock, lease, held, doing, storeDecisions, storeMessages,
      minted, storeTold>>
PlanState == <<plan, stage, kahn, errors, planDoc, laneMap, laneRows,
      requires, adoptions>>
BrowserState == <<bound, tab, thread, down, socket, seat, outcome, packets,
      alone, troubles>>
MailState == <<spool, expired, dead, appending, appends, cursor, inbox,
      acked, twice, missed, deaths>>
InboxState == <<tasks, outbox, consumed, inboxTurn, reply, written>>
HandoverState == <<handoverMessages, handoverDecisions, upstream, checkpoint,
      brief, doc>>
EvidenceState == <<evidenceTree, want, floor, half, evidenceBefore, after,
      was, is, evidencePhase, write, report, verdict, writes>>
CollectorState == <<suite, receipt>>
TreeState == <<needs, made, disk, staged, has, synced, lane, committing,
      excludes, writable, omit, integration, treeRuns, tampers, past>>

Off == "off"

CommandOff ==
    row = Off /\ lock = Off /\ command = Off /\ overrides = Off
ObservationOff ==
    observationTree = Off /\ readings = Off /\ observationPhase = Off /\
    awaiting = Off /\ observationBefore = Off /\ profile = Off /\
    demands = Off /\ spent = Off
TextOff ==
    said = Off /\ granted = Off /\ gate = Off /\ checks = Off /\
    sent = Off /\ textTold = Off
ApiOff ==
    apiTurn = Off /\ apiPhase = Off /\ chat = Off /\ session = Off /\
    busy = Off /\ flying = Off /\ pc = Off /\ st = Off /\ missing = Off /\
    retries = Off /\ got = Off /\ recorded = Off /\ posted = Off /\
    torn = Off /\ blind = Off /\ own = Off /\ crashes = Off
McpOff ==
    mode = Off /\ modeFile = Off /\ rows = Off /\ mcpRuns = Off /\
    call = Off /\ acted = Off /\ local = Off /\ events = Off
StoreOff ==
    clock = Off /\ lease = Off /\ held = Off /\ doing = Off /\
    storeDecisions = Off /\ storeMessages = Off /\ minted = Off /\
    storeTold = Off
PlanOff ==
    plan = Off /\ stage = Off /\ kahn = Off /\ errors = Off /\
    planDoc = Off /\ laneMap = Off /\ laneRows = Off /\ requires = Off /\
    adoptions = Off
BrowserOff ==
    bound = Off /\ tab = Off /\ thread = Off /\ down = Off /\ socket = Off /\
    seat = Off /\ outcome = Off /\ packets = Off /\ alone = Off /\
    troubles = Off
MailOff ==
    spool = Off /\ expired = Off /\ dead = Off /\ appending = Off /\
    appends = Off /\ cursor = Off /\ inbox = Off /\ acked = Off /\
    twice = Off /\ missed = Off /\ deaths = Off
InboxOff ==
    tasks = Off /\ outbox = Off /\ consumed = Off /\ inboxTurn = Off /\
    reply = Off /\ written = Off
HandoverOff ==
    handoverMessages = Off /\ handoverDecisions = Off /\ upstream = Off /\
    checkpoint = Off /\ brief = Off /\ doc = Off
EvidenceOff ==
    evidenceTree = Off /\ want = Off /\ floor = Off /\ half = Off /\
    evidenceBefore = Off /\ after = Off /\ was = Off /\ is = Off /\
    evidencePhase = Off /\ write = Off /\ report = Off /\ verdict = Off /\
    writes = Off
CollectorOff ==
    suite = Off /\ receipt = Off
TreeOff ==
    needs = Off /\ made = Off /\ disk = Off /\ staged = Off /\ has = Off /\
    synced = Off /\ lane = Off /\ committing = Off /\ excludes = Off /\
    writable = Off /\ omit = Off /\ integration = Off /\ treeRuns = Off /\
    tampers = Off /\ past = Off

Parts == {"commands", "observation", "text", "api", "mcp", "store", "plan", "browser",
          "mail", "inbox", "handover", "evidence", "collector", "tree"}

Init ==
    /\ part \in Parts
    /\ \/ part = "commands" /\ Command!CommandInit
       \/ part # "commands" /\ CommandOff
    /\ \/ part = "observation" /\ Observation!ObserveInit
       \/ part # "observation" /\ ObservationOff
    /\ \/ part = "text" /\ Text!TextInit
       \/ part # "text" /\ TextOff
    /\ \/ part = "api" /\ Api!Init
       \/ part # "api" /\ ApiOff
    /\ \/ part = "mcp" /\ Mcp!Init
       \/ part # "mcp" /\ McpOff
    /\ \/ part = "store" /\ Store!StoreInit
       \/ part # "store" /\ StoreOff
    /\ \/ part = "plan" /\ Plan!PlanInit
       \/ part # "plan" /\ PlanOff
    /\ \/ part = "browser" /\ Browser!Init
       \/ part # "browser" /\ BrowserOff
    /\ \/ part = "mail" /\ Mail!MailInit
       \/ part # "mail" /\ MailOff
    /\ \/ part = "inbox" /\ Inbox!InboxInit
       \/ part # "inbox" /\ InboxOff
    /\ \/ part = "handover" /\ Handover!SeatInit
       \/ part # "handover" /\ HandoverOff
    /\ \/ part = "evidence" /\ Evidence!EvidenceInit
       \/ part # "evidence" /\ EvidenceOff
    /\ \/ part = "collector" /\ Collector!CollectorInit
       \/ part # "collector" /\ CollectorOff
    /\ \/ part = "tree" /\ Tree!TreeInit
       \/ part # "tree" /\ TreeOff

\* Every other part stays as it is.
Others(p) ==
    /\ UNCHANGED part
    /\ IF p = "commands" THEN TRUE ELSE UNCHANGED CommandState
    /\ IF p = "observation" THEN TRUE ELSE UNCHANGED ObservationState
    /\ IF p = "text" THEN TRUE ELSE UNCHANGED TextState
    /\ IF p = "api" THEN TRUE ELSE UNCHANGED ApiState
    /\ IF p = "mcp" THEN TRUE ELSE UNCHANGED McpState
    /\ IF p = "store" THEN TRUE ELSE UNCHANGED StoreState
    /\ IF p = "plan" THEN TRUE ELSE UNCHANGED PlanState
    /\ IF p = "browser" THEN TRUE ELSE UNCHANGED BrowserState
    /\ IF p = "mail" THEN TRUE ELSE UNCHANGED MailState
    /\ IF p = "inbox" THEN TRUE ELSE UNCHANGED InboxState
    /\ IF p = "handover" THEN TRUE ELSE UNCHANGED HandoverState
    /\ IF p = "evidence" THEN TRUE ELSE UNCHANGED EvidenceState
    /\ IF p = "collector" THEN TRUE ELSE UNCHANGED CollectorState
    /\ IF p = "tree" THEN TRUE ELSE UNCHANGED TreeState

Next ==
    \/ part = "commands" /\ Command!CommandNext /\ Others("commands")
    \/ part = "observation" /\ Observation!ObserveNext /\ Others("observation")
    \/ part = "text" /\ Text!TextNext /\ Others("text")
    \/ part = "api" /\ Api!Next /\ Others("api")
    \/ part = "mcp" /\ Mcp!Next /\ Others("mcp")
    \/ part = "store" /\ Store!StoreNext /\ Others("store")
    \/ part = "plan" /\ Plan!PlanNext /\ Others("plan")
    \/ part = "browser" /\ Browser!BrowserNext /\ Others("browser")
    \/ part = "mail" /\ Mail!MailNext /\ Others("mail")
    \/ part = "inbox" /\ Inbox!InboxNext /\ Others("inbox")
    \/ part = "handover" /\ Handover!SeatNext /\ Others("handover")
    \/ part = "evidence" /\ Evidence!EvidenceNext /\ Others("evidence")
    \/ part = "collector" /\ Collector!CollectorNext /\ Others("collector")
    \/ part = "tree" /\ Tree!TreeNext /\ Others("tree")

vars ==
    <<part, CommandState, ObservationState, TextState, ApiState, McpState, StoreState,
      PlanState, BrowserState, MailState, InboxState, HandoverState,
      EvidenceState, CollectorState, TreeState>>

Spec == Init /\ [][Next]_vars

----------------------------------------------------------------------------
(* Properties: what each part promises, stated and explained in its module.  *)

\* A relay resumed from the command line runs under what its record says, and that is what
\* the relay had but for the flags typed, each of which is logged (relay/cli.py resume).
ResumeInherits ==
    part = "commands" => Command!RecordIsWhatRuns /\ Command!ResumeKeepsPolicy

\* Nothing an agent did to the repository passes its gate unseen, and a relay that had to
\* move it does not end complete without having seen it move (relay/observe.py, effects.py).
EffectsAreSeen ==
    part = "observation" => Observation!NothingPassesUnseen /\ Observation!CompleteMeansMoved

\* What an agent submits is weighed.  A completion claim is read the same however its last
\* line is wrapped, is believed when every check passes as meant, and is told why when it is
\* not (relay/corroborate.py); a cyclic plan is refused, and an acyclic one only if a lane of
\* it lists a dependency twice (core/planner.py).
ClaimsAreWeighed ==
    /\ part = "text" => /\ Text!WrappingChangesNothing /\ Text!AcceptedAsMeant
                        /\ Text!RefusedIsTold
    /\ part = "plan" => Plan!CycleVerdict

\* The ends reached through an interface work a directive once and record whole answers,
\* each to its own prompt, through crashes and failed calls (relay/ends/opencode.py,
\* http_chat.py).
EndsAnswerOnce ==
    part = "api" =>
        Api!WorkedOnce /\ Api!WholeAnswers /\ Api!AnswersFollowTheirPrompt

\* The tool server starts one run for a key, shows only runs it started, and never gives a
\* worker to what was dispatched in the qualification mode (transports/mcp/adapter.py).
ToolsStayInScope ==
    part = "mcp" => Mcp!OneRunPerKey /\ Mcp!ScopeIsLedgered /\ Mcp!InertStaysInert

\* One claim on a lane passes the fence, a decided question keeps one answer that its
\* replacement names, and a message is one row; an adopted plan is whole, across an adoption
\* that died half way (core/strategic_store.py, planner.py).
RecordsStayWhole ==
    /\ part = "store" => Store!OneWriterPasses /\ Store!AnswerStands /\ Store!MessageOnce
    /\ part = "plan" => Plan!AdoptedIsWhole

\* No message is delivered again once acknowledged or passed over unaccounted, and a file
\* response is handed over once and whole (adapters/mailbox.py, adapters/filebox.py).
DeliveredOnce ==
    /\ part = "mail" => Mail!AckedIsNotRedelivered /\ Mail!PassedIsAccounted
    /\ part = "inbox" => Inbox!HandedOnceAndWhole

\* What a seat is handed states what it leaves out, overruns its budget by a bounded amount
\* and starves no section (core/strategic_store.py context_capsule, core/briefing.py).
HandoverIsHonest ==
    part = "handover" =>
        Handover!OmissionIsStated /\ Handover!OverrunIsBounded /\ Handover!NoneIsStarved

\* What is reported of a run was measured: its clean claims, the sameness of its tracked
\* content, its floor of files and the verdict on its tests (evidence/).
MeasuredNotClaimed ==
    /\ part = "evidence" => /\ Evidence!CleanClaimsAreTrue /\ Evidence!SameIsSame
                            /\ Evidence!FloorIsNotLowered
    /\ part = "collector" => Collector!PassIsMeasured

\* A run of the browser's seat types its packet once, on the page of its conversation,
\* returns an answer that was finished and is the packet's, goes on only with the answer to
\* the command it sent, and leaves no connection behind (executors/chatgpt_web.py,
\* browser_transport.py, websocket_client.py).
SeatTypesOnce ==
    part = "browser" =>
        /\ Browser!NoneOutstanding /\ Browser!TypedWhereAsked
        /\ Browser!ResultIsTheAnswer /\ Browser!NoSocketLeaks

\* A lane's branch holds the work its accepted runs did and nothing else, and the
\* integration all of it (core/orchestrator.py, workspace/worktrees.py).
BranchesHoldTheWork ==
    part = "tree" =>
        Tree!NoiseStaysOut /\ Tree!RefusedWorkIsDropped /\ Tree!IntegratedIsWhole
=============================================================================
