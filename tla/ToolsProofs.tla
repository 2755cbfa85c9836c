----------------------------- MODULE ToolsProofs -----------------------------
(***************************************************************************)
(* Proofs about the parts of MCSurfaces that act on a request - the MCP    *)
(* tools, the worktrees of lanes - for every value of the constants.  The  *)
(* parts share no state: each has an invariant of its own, and one lemma   *)
(* says that a step is a step of one part and of no other.                 *)
(***************************************************************************)
EXTENDS MCSurfaces, FiniteSetTheorems, SequenceTheorems, WellFoundedInduction, TLAPS

\* A step leaves the choice of the part alone; a part that is on takes a step of its own or none.
LEMMA OnePartMoves ==
    ASSUME [Next]_vars
    PROVE  /\ part' = part
           /\ part = "commands" => Command!CommandNext \/ UNCHANGED CommandState
           /\ part = "api" => Api!Next \/ UNCHANGED ApiState
           /\ part = "mcp" => Mcp!Next \/ UNCHANGED McpState
           /\ part = "store" => Store!StoreNext \/ UNCHANGED StoreState
           /\ part = "plan" => Plan!PlanNext \/ UNCHANGED PlanState
           /\ part = "browser" => Browser!BrowserNext \/ UNCHANGED BrowserState
           /\ part = "mail" => Mail!MailNext \/ UNCHANGED MailState
           /\ part = "inbox" => Inbox!InboxNext \/ UNCHANGED InboxState
           /\ part = "evidence" => Evidence!EvidenceNext \/ UNCHANGED EvidenceState
           /\ part = "collector" => Collector!CollectorNext \/ UNCHANGED CollectorState
           /\ part = "tree" => Tree!TreeNext \/ UNCHANGED TreeState
<1>1. CASE UNCHANGED vars
  BY <1>1 DEF vars
<1>2. CASE Next
  BY <1>2 DEF Next, Others
<1> QED BY <1>1, <1>2

-----------------------------------------------------------------------------
(* The tool server.                                                          *)

Numbers == Nat \cup DispatchKeys

LedgerRow ==
    [mode : Mcp!Modes, disp : {"OPEN", "UNAUTHENTICATED", "ACCEPTED", "REFUSED", "FAILED"},
     run : Numbers, key : Numbers]
StoredRun ==
    [key : DispatchKeys, by : Nat,
     state : {"preflight", "dispatched", "refused", "cancelled", "done", "unknown"},
     worker : {"none", "alive", "dead"}, recorded : BOOLEAN]
Handling ==
    [pc : {"idle", "begin", "ladder", "record", "cancel", "reconcile", "close"},
     tool : Mcp!Tools \cup {""}, arg : Numbers, row : Nat, run : Numbers,
     seen : SUBSET Numbers, ok : BOOLEAN]

McpTyped ==
    /\ mode \in Mcp!Modes /\ modeFile \in Mcp!Modes
    /\ rows \in Seq(LedgerRow)
    /\ mcpRuns \in Seq(StoredRun)
    /\ call \in [Threads -> Handling]
    /\ acted \in SUBSET Numbers
    /\ local \in Nat /\ events \in Nat

Handles(t) == call[t].pc # "idle"

\* A call in progress has an open row of its own, written in the mode the server still is in.
CallsHaveRows ==
    \A t \in Threads : Handles(t) =>
        /\ call[t].row \in 1..Len(rows)
        /\ rows[call[t].row].disp = "OPEN"
        /\ rows[call[t].row].mode = mode
        /\ rows[call[t].row].key = 0
        /\ call[t].tool = "dispatch" => call[t].arg \in DispatchKeys
        /\ \A u \in Threads \ {t} : Handles(u) => call[u].row # call[t].row

\* A dispatch that was accepted named the run.
Granted(r) ==
    \E i \in 1..Len(rows) : rows[i].key # 0 /\ rows[i].disp = "ACCEPTED" /\ rows[i].run = r

\* Whatever call was accepted for a run, a dispatch was before.
AcceptedAreGranted ==
    \A i \in 1..Len(rows) :
        rows[i].disp = "ACCEPTED" /\ rows[i].run # 0 => Granted(rows[i].run)

\* A row with a key names the run that has it.
RowsNameRuns ==
    \A i \in 1..Len(rows) : rows[i].key # 0 =>
        rows[i].run \in 1..Len(mcpRuns) /\ mcpRuns[rows[i].run].key = rows[i].key

KeysAreUnique ==
    \A r, q \in 1..Len(mcpRuns) : mcpRuns[r].key = mcpRuns[q].key => r = q

\* A run of the transport has the row of the call that made it; one made in the qualification
\* mode has no worker.
RunsHaveRows ==
    \A r \in 1..Len(mcpRuns) :
        /\ mcpRuns[r].by \in 0..Len(rows)
        /\ mcpRuns[r].by # 0 /\ rows[mcpRuns[r].by].mode = "QUALIFICATION_ONLY"
               => mcpRuns[r].worker = "none"

\* The run a call has in hand is the one of its key, or one it was granted.
InHand(t) ==
    /\ call[t].pc \in {"ladder", "record"} => call[t].tool = "dispatch"
    /\ call[t].pc \in {"ladder", "record", "close"} /\ call[t].tool = "dispatch" =>
           call[t].run \in 1..Len(mcpRuns) /\ mcpRuns[call[t].run].key = call[t].arg
    /\ call[t].pc = "ladder" => mcpRuns[call[t].run].by = call[t].row
    /\ call[t].pc = "close" /\ call[t].tool # "dispatch" => call[t].run = 0 \/ Granted(call[t].run)
    /\ call[t].pc = "cancel" => call[t].tool = "cancel" /\ Granted(call[t].run)
    /\ call[t].pc = "reconcile" =>
           call[t].tool = "reconcile" /\ call[t].run = 0 /\ \A r \in call[t].seen : Granted(r)
    /\ call[t].pc = "begin" => call[t].run = 0

McpInv ==
    /\ McpTyped /\ CallsHaveRows /\ AcceptedAreGranted /\ RowsNameRuns /\ KeysAreUnique
    /\ RunsHaveRows /\ (\A t \in Threads : InHand(t)) /\ (\A r \in acted : Granted(r))

LEMMA McpImplies ==
    ASSUME McpInv
    PROVE  Mcp!OneRunPerKey /\ Mcp!ScopeIsLedgered /\ Mcp!InertStaysInert
<1>1. DOMAIN rows = 1..Len(rows) /\ DOMAIN mcpRuns = 1..Len(mcpRuns)
  BY DEF McpInv, McpTyped
<1>2. Mcp!OneRunPerKey
  <2>1. ASSUME NEW i \in 1..Len(rows), NEW j \in 1..Len(rows),
               rows[i].key # 0, rows[i].key = rows[j].key
        PROVE  rows[i].run = rows[j].run
    BY <2>1 DEF McpInv, RowsNameRuns, KeysAreUnique
  <2> QED BY <1>1, <2>1 DEF McpInv, KeysAreUnique, Mcp!OneRunPerKey
<1>3. Mcp!ScopeIsLedgered
  BY <1>1 DEF McpInv, Granted, Mcp!ScopeIsLedgered
<1>4. Mcp!InertStaysInert
  BY <1>1 DEF McpInv, RunsHaveRows, Mcp!InertStaysInert
<1> QED BY <1>2, <1>3, <1>4

LEMMA McpStarts == ASSUME Mcp!Init PROVE McpInv
<1>1. Len(rows) = 0 /\ Len(mcpRuns) = 0 /\ rows = <<>> /\ mcpRuns = <<>>
  BY DEF Mcp!Init
<1>2. McpTyped
  <2>1. Mcp!Idle \in Handling
    BY DEF Mcp!Idle, Handling, Numbers
  <2>2. call \in [Threads -> Handling]
    BY <2>1 DEF Mcp!Init
  <2> QED BY <1>1, <2>2 DEF Mcp!Init, McpTyped, Mcp!Modes, Numbers
<1>3. \A t \in Threads : call[t] = Mcp!Idle
  BY DEF Mcp!Init
<1>4. CallsHaveRows /\ \A t \in Threads : InHand(t)
  <2>1. \A t \in Threads : call[t].pc = "idle"
    BY DEF Mcp!Init, Mcp!Idle
  <2> QED BY <2>1 DEF CallsHaveRows, InHand, Handles
<1>5. AcceptedAreGranted /\ RowsNameRuns /\ KeysAreUnique /\ RunsHaveRows
  BY <1>1 DEF AcceptedAreGranted, RowsNameRuns, KeysAreUnique, RunsHaveRows
<1> QED BY <1>2, <1>4, <1>5 DEF Mcp!Init, McpInv

\* Closing a call's row changes that row and no other.
LEMMA ClosedRow ==
    ASSUME McpInv, NEW t \in Threads, Handles(t), NEW disp \in {"ACCEPTED", "REFUSED", "FAILED"},
           NEW run \in Numbers, NEW key \in Numbers, Mcp!Finish(t, disp, run, key)
    PROVE  /\ rows' \in Seq(LedgerRow) /\ Len(rows') = Len(rows)
           /\ call[t].row \in 1..Len(rows)
           /\ rows'[call[t].row] = [mode |-> mode, disp |-> disp, run |-> run, key |-> key]
           /\ \A i \in 1..Len(rows) : i # call[t].row => rows'[i] = rows[i]
           /\ call' \in [Threads -> Handling]
           /\ call'[t].pc = "idle"
           /\ \A u \in Threads \ {t} : call'[u] = call[u]
<1> DEFINE at == call[t].row
<1>1. at \in 1..Len(rows) /\ rows[at].mode = mode
  BY DEF McpInv, CallsHaveRows
<1>2. rows \in Seq(LedgerRow) /\ mode \in Mcp!Modes /\ call \in [Threads -> Handling]
  BY DEF McpInv, McpTyped
<1>3. rows' = [rows EXCEPT ![at] = [mode |-> rows[at].mode, disp |-> disp, run |-> run,
                                     key |-> key]]
  BY DEF Mcp!Finish, Mcp!Closed
<1>4. rows[at] \in LedgerRow
  BY <1>1, <1>2
<1>5. [mode |-> mode, disp |-> disp, run |-> run, key |-> key] \in LedgerRow
  BY <1>2 DEF LedgerRow
<1>6. rows'[at] = [mode |-> mode, disp |-> disp, run |-> run, key |-> key]
  BY <1>1, <1>2, <1>3
<1>7. \A i \in 1..Len(rows) : i # at => rows'[i] = rows[i]
  BY <1>1, <1>2, <1>3
<1>8. rows' \in Seq(LedgerRow) /\ Len(rows') = Len(rows)
  <2>1. DOMAIN rows' = 1..Len(rows)
    BY <1>2, <1>3
  <2>2. rows' \in [1..Len(rows) -> LedgerRow]
    <3>1. \A i \in 1..Len(rows) : rows'[i] \in LedgerRow
      BY <1>2, <1>5, <1>6, <1>7
    <3>2. rows' = [i \in 1..Len(rows) |-> rows'[i]]
      BY <2>1, <1>3
    <3> QED BY <3>1, <3>2
  <2> QED BY <2>2, <1>2
<1>9. call' = [call EXCEPT ![t] = Mcp!Idle]
  BY DEF Mcp!Finish
<1>10. Mcp!Idle \in Handling /\ Mcp!Idle.pc = "idle"
  BY DEF Mcp!Idle, Handling, Numbers
<1> QED BY <1>1, <1>2, <1>6, <1>7, <1>8, <1>9, <1>10

\* A call may be closed with a key's run, or with a run that was granted, or with none.
LEMMA FinishKeepsMcp ==
    ASSUME McpInv, NEW t \in Threads, Handles(t), NEW disp \in {"ACCEPTED", "REFUSED", "FAILED"},
           NEW run \in Numbers, NEW key \in Numbers, Mcp!Finish(t, disp, run, key),
           UNCHANGED <<mode, modeFile, mcpRuns, acted, local, events>>,
           key # 0 => run \in 1..Len(mcpRuns) /\ mcpRuns[run].key = key,
           disp = "ACCEPTED" /\ run # 0 => key # 0 \/ Granted(run)
    PROVE  McpInv'
<1> DEFINE at == call[t].row
<1>1. /\ rows' \in Seq(LedgerRow) /\ Len(rows') = Len(rows)
      /\ at \in 1..Len(rows)
      /\ rows'[at] = [mode |-> mode, disp |-> disp, run |-> run, key |-> key]
      /\ \A i \in 1..Len(rows) : i # at => rows'[i] = rows[i]
      /\ call' \in [Threads -> Handling] /\ call'[t].pc = "idle"
      /\ \A u \in Threads \ {t} : call'[u] = call[u]
  BY ClosedRow
<1>2. rows[at].disp = "OPEN" /\ rows[at].mode = mode /\ rows[at].key = 0
  BY DEF McpInv, CallsHaveRows
<1>3. McpTyped'
  BY <1>1 DEF McpInv, McpTyped
<1>4. CallsHaveRows'
  BY <1>1 DEF McpInv, CallsHaveRows, Handles
<1>5. ASSUME NEW r, Granted(r) PROVE Granted(r)'
  BY <1>1, <1>2, <1>5 DEF Granted
<1>6. AcceptedAreGranted'
  <2> SUFFICES ASSUME NEW i \in 1..Len(rows), rows'[i].disp = "ACCEPTED", rows'[i].run # 0
               PROVE  Granted(rows[i].run)'
    BY <1>1 DEF AcceptedAreGranted
  <2>1. CASE i # at
    <3>1. rows'[i] = rows[i]
      BY <2>1, <1>1
    <3>2. Granted(rows[i].run)
      BY <3>1 DEF McpInv, AcceptedAreGranted
    <3> QED BY <3>1, <3>2, <1>1, <1>2 DEF Granted
  <2>2. CASE i = at
    <3>1. CASE key # 0
      BY <3>1, <2>2, <1>1 DEF Granted
    <3>2. CASE Granted(run)
      BY <3>2, <2>2, <1>1, <1>2 DEF Granted
    <3> QED BY <3>1, <3>2, <2>2, <1>1
  <2> QED BY <2>1, <2>2
<1>7. RowsNameRuns'
  BY <1>1 DEF McpInv, RowsNameRuns
<1>8. KeysAreUnique'
  BY DEF McpInv, KeysAreUnique
<1>9. RunsHaveRows'
  <2>1. \A i \in 1..Len(rows) : rows'[i].mode = rows[i].mode
    BY <1>1, <1>2
  <2> QED BY <2>1, <1>1 DEF McpInv, RunsHaveRows
<1>10. ASSUME NEW u \in Threads PROVE InHand(u)'
  <2>1. CASE u = t
    BY <2>1, <1>1 DEF InHand
  <2>2. CASE u # t
    <3>1. call'[u] = call[u] /\ InHand(u)
      BY <2>2, <1>1 DEF McpInv
    <3> QED BY <3>1, <1>5 DEF InHand
  <2> QED BY <2>1, <2>2
<1> QED BY <1>3, <1>4, <1>5, <1>6, <1>7, <1>8, <1>9, <1>10 DEF McpInv

\* A call may go on with its own row, if what it has in hand is right.
LEMMA MoveKeepsMcp ==
    ASSUME McpInv, NEW t \in Threads, Handles(t), NEW c \in Handling,
           call' = [call EXCEPT ![t] = c],
           c.row = call[t].row, c.tool = call[t].tool, c.arg = call[t].arg,
           UNCHANGED <<mode, modeFile, rows, local, events>>,
           mcpRuns' \in Seq(StoredRun), Len(mcpRuns) <= Len(mcpRuns'),
           \A r \in 1..Len(mcpRuns) :
               mcpRuns'[r].key = mcpRuns[r].key /\ mcpRuns'[r].by = mcpRuns[r].by,
           KeysAreUnique', RunsHaveRows', InHand(t)',
           acted' \in SUBSET Numbers, \A r \in acted' : Granted(r)
    PROVE  McpInv'
<1>1. call \in [Threads -> Handling] /\ mcpRuns \in Seq(StoredRun)
  BY DEF McpInv, McpTyped
<1>2. call'[t] = c /\ \A u \in Threads \ {t} : call'[u] = call[u]
  BY <1>1
<1>3. McpTyped'
  BY <1>1 DEF McpInv, McpTyped
<1>4. CallsHaveRows'
  BY <1>2 DEF McpInv, CallsHaveRows, Handles
<1>5. \A r : Granted(r) <=> Granted(r)'
  BY DEF Granted
<1>6. AcceptedAreGranted'
  BY <1>5 DEF McpInv, AcceptedAreGranted
<1>7. RowsNameRuns'
  BY <1>1 DEF McpInv, RowsNameRuns
<1>8. ASSUME NEW u \in Threads \ {t} PROVE InHand(u)'
  <2>1. InHand(u) /\ call'[u] = call[u]
    BY <1>2 DEF McpInv
  <2> QED BY <2>1, <1>1, <1>5 DEF InHand
<1> QED BY <1>3, <1>4, <1>5, <1>6, <1>7, <1>8 DEF McpInv

\* Call t goes on to place p with run r in hand, and keeps the rest.
Goes(t, p, r) ==
    \E c \in Handling :
        /\ call' = [call EXCEPT ![t] = c]
        /\ c.pc = p /\ c.run = r /\ c.seen = call[t].seen
        /\ c.row = call[t].row /\ c.tool = call[t].tool /\ c.arg = call[t].arg

Stations == {"ladder", "record", "cancel", "reconcile", "close"}

LEMMA GoesOn ==
    ASSUME McpInv, NEW t \in Threads, NEW p \in Stations, call' = [call EXCEPT ![t].pc = p]
    PROVE  Goes(t, p, call[t].run)
<1>1. call \in [Threads -> Handling] /\ call[t] \in Handling
  BY DEF McpInv, McpTyped
<1> DEFINE c == [call[t] EXCEPT !.pc = p]
<1>2. c \in Handling /\ c.pc = p /\ c.run = call[t].run /\ c.seen = call[t].seen
  BY <1>1 DEF Handling, Stations
<1>3. c.row = call[t].row /\ c.tool = call[t].tool /\ c.arg = call[t].arg
  BY <1>1 DEF Handling
<1>4. call' = [call EXCEPT ![t] = c]
  BY <1>1
<1> HIDE DEF c
<1> QED BY <1>2, <1>3, <1>4 DEF Goes

LEMMA GoesOnWithRun ==
    ASSUME McpInv, NEW t \in Threads, NEW p \in Stations, NEW r \in Numbers, NEW b \in BOOLEAN,
           \/ call' = [call EXCEPT ![t].pc = p, ![t].run = r]
           \/ call' = [call EXCEPT ![t].pc = p, ![t].run = r, ![t].ok = b]
    PROVE  Goes(t, p, r)
<1>1. call \in [Threads -> Handling] /\ call[t] \in Handling
  BY DEF McpInv, McpTyped
<1>2. CASE call' = [call EXCEPT ![t].pc = p, ![t].run = r]
  <2> DEFINE c == [call[t] EXCEPT !.pc = p, !.run = r]
  <2>1. c \in Handling /\ c.pc = p /\ c.run = r /\ c.seen = call[t].seen
    BY <1>1 DEF Handling, Stations
  <2>2. c.row = call[t].row /\ c.tool = call[t].tool /\ c.arg = call[t].arg
    BY <1>1 DEF Handling
  <2>3. call' = [call EXCEPT ![t] = c]
    BY <1>1, <1>2
  <2> HIDE DEF c
  <2> QED BY <2>1, <2>2, <2>3 DEF Goes
<1>3. CASE call' = [call EXCEPT ![t].pc = p, ![t].run = r, ![t].ok = b]
  <2> DEFINE c == [call[t] EXCEPT !.pc = p, !.run = r, !.ok = b]
  <2>1. c \in Handling /\ c.pc = p /\ c.run = r /\ c.seen = call[t].seen
    BY <1>1 DEF Handling, Stations
  <2>2. c.row = call[t].row /\ c.tool = call[t].tool /\ c.arg = call[t].arg
    BY <1>1 DEF Handling
  <2>3. call' = [call EXCEPT ![t] = c]
    BY <1>1, <1>3
  <2> HIDE DEF c
  <2> QED BY <2>1, <2>2, <2>3 DEF Goes
<1> QED BY <1>2, <1>3

\* A run keeps its key and the row of its call, and a worker of its own only where it may.
LEMMA RunWritten ==
    ASSUME McpInv, NEW r \in 1..Len(mcpRuns), NEW x \in StoredRun,
           mcpRuns' = [mcpRuns EXCEPT ![r] = x], rows' = rows,
           x.key = mcpRuns[r].key, x.by = mcpRuns[r].by,
           \/ x.worker = "none"
           \/ mcpRuns[r].worker # "none"
           \/ x.by # 0 => rows[x.by].mode # "QUALIFICATION_ONLY"
    PROVE  /\ mcpRuns' \in Seq(StoredRun) /\ Len(mcpRuns') = Len(mcpRuns)
           /\ \A q \in 1..Len(mcpRuns) :
                mcpRuns'[q].key = mcpRuns[q].key /\ mcpRuns'[q].by = mcpRuns[q].by
           /\ KeysAreUnique' /\ RunsHaveRows'
<1>1. mcpRuns \in Seq(StoredRun)
  BY DEF McpInv, McpTyped
<1>2. mcpRuns' \in Seq(StoredRun) /\ Len(mcpRuns') = Len(mcpRuns)
  BY <1>1
<1>3. /\ mcpRuns'[r] = x
      /\ \A q \in 1..Len(mcpRuns) : q # r => mcpRuns'[q] = mcpRuns[q]
  BY <1>1
<1>4. \A q \in 1..Len(mcpRuns) :
          mcpRuns'[q].key = mcpRuns[q].key /\ mcpRuns'[q].by = mcpRuns[q].by
  BY <1>3
<1>5. KeysAreUnique'
  BY <1>2, <1>4 DEF McpInv, KeysAreUnique
<1>6. RunsHaveRows'
  BY <1>2, <1>3, <1>4 DEF McpInv, RunsHaveRows
<1> QED BY <1>2, <1>4, <1>5, <1>6

\* The calls that end.
LEMMA EndingKeepsMcp ==
    ASSUME McpInv, NEW t \in Threads,
           \/ Mcp!Refused(t) \/ Mcp!ModeRefuses(t) \/ Mcp!LadderRaises(t) \/ Mcp!NotFound(t)
           \/ Mcp!Close(t) \/ Mcp!ScanFails(t) \/ Mcp!Raises(t)
    PROVE  McpInv'
<1>1. Handles(t)
  BY DEF Handles, Mcp!Refused, Mcp!ModeRefuses, Mcp!LadderRaises, Mcp!NotFound, Mcp!Close,
         Mcp!ScanFails, Mcp!Raises, Mcp!MayRun
<1>2. 0 \in Numbers /\ call[t].arg \in Numbers /\ call[t].run \in Numbers /\ InHand(t)
  BY DEF Numbers, McpInv, McpTyped, Handling
<1>3. CASE Mcp!NotFound(t)
  BY <1>1, <1>2, <1>3, FinishKeepsMcp DEF Mcp!NotFound, Mcp!deployment, Mcp!counts
<1>4. CASE Mcp!Close(t)
  <2> DEFINE disp == IF call[t].ok THEN "ACCEPTED" ELSE "REFUSED"
             key == IF call[t].tool = "dispatch" THEN call[t].arg ELSE 0
  <2>1. disp \in {"ACCEPTED", "REFUSED", "FAILED"} /\ key \in Numbers
    BY <1>2
  <2>2. /\ call[t].pc = "close" /\ Mcp!Finish(t, disp, call[t].run, key)
        /\ UNCHANGED <<mode, modeFile, mcpRuns, acted, local, events>>
    BY <1>4 DEF Mcp!Close, Mcp!deployment, Mcp!counts
  <2>3. call[t].tool = "dispatch" => call[t].arg # 0
    BY <1>1, KeysAssumption DEF McpInv, CallsHaveRows
  <2>4. key # 0 => call[t].run \in 1..Len(mcpRuns) /\ mcpRuns[call[t].run].key = key
    BY <1>2, <2>2 DEF InHand
  <2>5. call[t].run # 0 => key # 0 \/ Granted(call[t].run)
    BY <1>2, <2>2, <2>3 DEF InHand
  <2> HIDE DEF disp, key
  <2> QED BY <1>1, <1>2, <2>1, <2>2, <2>4, <2>5, FinishKeepsMcp
<1>5. ASSUME Mcp!Finish(t, "REFUSED", 0, 0) \/ Mcp!Finish(t, "FAILED", 0, 0),
             UNCHANGED <<mode, modeFile, mcpRuns, acted, local, events>>
      PROVE  McpInv'
  BY <1>1, <1>2, <1>5, FinishKeepsMcp
<1> QED
  BY <1>3, <1>4, <1>5 DEF Mcp!Refused, Mcp!ModeRefuses, Mcp!LadderRaises, Mcp!ScanFails,
     Mcp!Raises, Mcp!deployment, Mcp!counts

\* The calls that go on, the runs left as they are.
LEMMA GoingKeepsMcp ==
    ASSUME McpInv, NEW t \in Threads, Handles(t), NEW p \in Stations, NEW r \in Numbers,
           Goes(t, p, r),
           UNCHANGED <<mode, modeFile, rows, mcpRuns, local, events>>,
           p \in {"ladder", "record"} => call[t].tool = "dispatch",
           p \in {"ladder", "record", "close"} /\ call[t].tool = "dispatch" =>
               r \in 1..Len(mcpRuns) /\ mcpRuns[r].key = call[t].arg,
           p = "ladder" => mcpRuns[r].by = call[t].row,
           p = "close" /\ call[t].tool # "dispatch" => r = 0 \/ Granted(r),
           p = "cancel" => call[t].tool = "cancel" /\ Granted(r),
           p # "reconcile",
           acted' \in SUBSET Numbers, \A q \in acted' : Granted(q)
    PROVE  McpInv'
<1>1. mcpRuns' \in Seq(StoredRun) /\ Len(mcpRuns) <= Len(mcpRuns') /\ KeysAreUnique' /\ RunsHaveRows'
  BY DEF McpInv, McpTyped, KeysAreUnique, RunsHaveRows
<1>2. PICK c \in Handling :
        /\ call' = [call EXCEPT ![t] = c]
        /\ c.pc = p /\ c.run = r /\ c.seen = call[t].seen
        /\ c.row = call[t].row /\ c.tool = call[t].tool /\ c.arg = call[t].arg
  BY DEF Goes
<1>3. call'[t] = c
  BY <1>2 DEF McpInv, McpTyped
<1>4. InHand(t)'
  BY <1>2, <1>3 DEF InHand, Granted, Stations
<1> QED BY <1>1, <1>2, <1>4, MoveKeepsMcp

\* What the ledger's accepted rows name was granted.
LEMMA OwnedAreGranted ==
    ASSUME McpInv PROVE \A r \in Mcp!OwnedRunIds : Granted(r) /\ r \in Numbers
<1>1. rows \in Seq(LedgerRow)
  BY DEF McpInv, McpTyped
<1>2. \A i \in 1..Len(rows) : rows[i] \in LedgerRow
  BY <1>1
<1>3. \A i \in 1..Len(rows) : rows[i].run \in Numbers
  BY <1>2 DEF LedgerRow
<1> QED BY <1>1, <1>3 DEF McpInv, AcceptedAreGranted, Mcp!OwnedRunIds

LEMMA DuplicateKeepsMcp ==
    ASSUME McpInv, NEW t \in Threads, Mcp!Duplicate(t) PROVE McpInv'
<1>1. PICK r \in Mcp!Holder(call[t].arg) : call' = [call EXCEPT ![t].pc = "close", ![t].run = r]
  BY DEF Mcp!Duplicate
<1>2. /\ Handles(t) /\ call[t].tool = "dispatch"
      /\ UNCHANGED <<mode, modeFile, rows, mcpRuns, acted, local, events>>
  BY DEF Mcp!Duplicate, Mcp!MayRun, Handles, Mcp!deployment, Mcp!counts
<1>3. /\ mcpRuns \in Seq(StoredRun) /\ acted \in SUBSET Numbers /\ \A q \in acted : Granted(q)
  BY DEF McpInv, McpTyped
<1>4. r \in 1..Len(mcpRuns) /\ mcpRuns[r].key = call[t].arg /\ r \in Numbers
  BY <1>3 DEF Mcp!Holder, Mcp!RunsFor, Numbers
<1>5. Goes(t, "close", r)
  BY <1>1, <1>4, GoesOnWithRun DEF Stations
<1> QED BY <1>2, <1>3, <1>4, <1>5, GoingKeepsMcp DEF Stations

LEMMA AdmitKeepsMcp ==
    ASSUME McpInv, NEW t \in Threads, Mcp!Admit(t) PROVE McpInv'
<1> DEFINE run == Mcp!NewRun(call[t].arg, call[t].row)
           n == Len(mcpRuns) + 1
<1>1. /\ Handles(t) /\ call[t].tool = "dispatch" /\ Mcp!Holder(call[t].arg) = {}
      /\ mcpRuns' = Append(mcpRuns, run)
      /\ call' = [call EXCEPT ![t].pc = "ladder", ![t].run = n]
      /\ UNCHANGED <<mode, modeFile, rows, acted, local, events>>
  BY DEF Mcp!Admit, Mcp!MayRun, Handles, Mcp!deployment, Mcp!counts
<1>2. /\ call \in [Threads -> Handling] /\ mcpRuns \in Seq(StoredRun)
      /\ acted \in SUBSET Numbers /\ \A q \in acted : Granted(q)
  BY DEF McpInv, McpTyped
<1>3. call[t].arg \in DispatchKeys /\ call[t].row \in 1..Len(rows)
  BY <1>1 DEF McpInv, CallsHaveRows
<1>4. n \in 1..n /\ n \in Numbers
  BY <1>2 DEF Numbers
<1>5. /\ run \in StoredRun /\ run.key = call[t].arg /\ run.by = call[t].row
      /\ run.worker = "none"
  BY <1>2, <1>3 DEF Mcp!NewRun, StoredRun
<1>6. Goes(t, "ladder", n)
  BY <1>1, <1>4, GoesOnWithRun DEF Stations
<1> HIDE DEF run
<1>7. PICK c \in Handling :
        /\ call' = [call EXCEPT ![t] = c]
        /\ c.pc = "ladder" /\ c.run = n
        /\ c.row = call[t].row /\ c.tool = call[t].tool /\ c.arg = call[t].arg
  BY <1>6 DEF Goes
<1>8. /\ mcpRuns' \in Seq(StoredRun) /\ Len(mcpRuns') = n /\ mcpRuns'[n] = run
      /\ \A q \in 1..Len(mcpRuns) : mcpRuns'[q] = mcpRuns[q]
  BY <1>1, <1>2, <1>5
<1>9. \A q \in 1..Len(mcpRuns) : mcpRuns[q].key # run.key
  BY <1>1, <1>2, <1>5 DEF Mcp!Holder, Mcp!RunsFor
<1>10. KeysAreUnique'
  BY <1>2, <1>8, <1>9 DEF McpInv, KeysAreUnique
<1>11. RunsHaveRows'
  BY <1>1, <1>2, <1>3, <1>5, <1>8 DEF McpInv, RunsHaveRows
<1>12. InHand(t)'
  BY <1>1, <1>2, <1>4, <1>5, <1>7, <1>8 DEF InHand
<1>13. Len(mcpRuns) <= Len(mcpRuns')
  BY <1>2, <1>8
<1> HIDE DEF n
<1> QED BY <1>1, <1>2, <1>7, <1>8, <1>10, <1>11, <1>12, <1>13, MoveKeepsMcp

\* A call that goes on may write the run it has in hand.
LEMMA WritingKeepsMcp ==
    ASSUME McpInv, NEW t \in Threads, Handles(t), NEW p \in {"record", "close"},
           Goes(t, p, call[t].run),
           UNCHANGED <<mode, modeFile, rows, acted, local, events>>,
           call[t].tool = "dispatch",
           call[t].run \in 1..Len(mcpRuns), mcpRuns[call[t].run].key = call[t].arg,
           NEW x \in StoredRun, mcpRuns' = [mcpRuns EXCEPT ![call[t].run] = x],
           x.key = mcpRuns[call[t].run].key, x.by = mcpRuns[call[t].run].by,
           \/ x.worker = "none"
           \/ mcpRuns[call[t].run].worker # "none"
           \/ x.by # 0 => rows[x.by].mode # "QUALIFICATION_ONLY"
    PROVE  McpInv'
<1> DEFINE r == call[t].run
<1>1. /\ mcpRuns' \in Seq(StoredRun) /\ Len(mcpRuns') = Len(mcpRuns)
      /\ \A q \in 1..Len(mcpRuns) :
           mcpRuns'[q].key = mcpRuns[q].key /\ mcpRuns'[q].by = mcpRuns[q].by
      /\ KeysAreUnique' /\ RunsHaveRows'
  BY RunWritten
<1>2. PICK c \in Handling :
        /\ call' = [call EXCEPT ![t] = c]
        /\ c.pc = p /\ c.run = r
        /\ c.row = call[t].row /\ c.tool = call[t].tool /\ c.arg = call[t].arg
  BY DEF Goes
<1>3. call'[t] = c /\ acted \in SUBSET Numbers /\ \A q \in acted : Granted(q)
  BY <1>2 DEF McpInv, McpTyped
<1>4. InHand(t)'
  BY <1>1, <1>2, <1>3 DEF InHand
<1>5. Len(mcpRuns) <= Len(mcpRuns')
  BY <1>1 DEF McpInv, McpTyped
<1> HIDE DEF r
<1> QED BY <1>1, <1>2, <1>3, <1>4, <1>5, MoveKeepsMcp

\* The admission ladder, the run admitted.
LEMMA LadderKeepsMcp ==
    ASSUME McpInv, NEW t \in Threads,
           Mcp!LadderRefuses(t) \/ Mcp!Inert(t) \/ Mcp!Spawn(t) \/ Mcp!RecordSpawn(t)
    PROVE  McpInv'
<1> DEFINE r == call[t].run
           old == mcpRuns[r]
<1>1. Handles(t) /\ UNCHANGED <<mode, modeFile, rows, acted, local, events>>
  BY DEF Mcp!LadderRefuses, Mcp!Inert, Mcp!Spawn, Mcp!RecordSpawn, Handles, Mcp!deployment,
         Mcp!counts
<1>2. call[t].pc \in {"ladder", "record"}
  BY DEF Mcp!LadderRefuses, Mcp!Inert, Mcp!Spawn, Mcp!RecordSpawn
<1>3. /\ call[t].tool = "dispatch" /\ r \in 1..Len(mcpRuns) /\ old.key = call[t].arg
      /\ call[t].pc = "ladder" => old.by = call[t].row
  BY <1>2 DEF McpInv, InHand
<1>4. /\ mcpRuns \in Seq(StoredRun) /\ r \in Numbers
      /\ acted \in SUBSET Numbers /\ \A q \in acted : Granted(q)
  BY DEF McpInv, McpTyped, Handling
<1>5. old \in StoredRun
  BY <1>3, <1>4
<1>6. CASE Mcp!LadderRefuses(t)
  <2> DEFINE x == [old EXCEPT !.state = "refused"]
  <2>1. mcpRuns' = [mcpRuns EXCEPT ![r] = x] /\ call[t].pc = "ladder"
    BY <1>3, <1>4, <1>6 DEF Mcp!LadderRefuses
  <2>2. x \in StoredRun /\ x.key = old.key /\ x.by = old.by /\ x.worker = old.worker
    BY <1>5 DEF StoredRun
  <2>3. [call EXCEPT ![t].pc = "close", ![t].ok = FALSE] = call'
    BY <1>6 DEF Mcp!LadderRefuses
  <2>4. call[t].run = r /\ call \in [Threads -> Handling] /\ call[t] \in Handling
    BY DEF McpInv, McpTyped
  <2>5. Goes(t, "close", r)
    <3> DEFINE c == [call[t] EXCEPT !.pc = "close", !.ok = FALSE]
    <3>1. /\ c \in Handling /\ c.pc = "close" /\ c.run = r /\ c.seen = call[t].seen
          /\ c.row = call[t].row /\ c.tool = call[t].tool /\ c.arg = call[t].arg
      BY <2>4 DEF Handling
    <3>2. call' = [call EXCEPT ![t] = c]
      BY <2>3, <2>4
    <3> HIDE DEF c
    <3> QED BY <3>1, <3>2 DEF Goes
  <2> HIDE DEF x
  <2> QED BY <1>1, <1>3, <2>1, <2>2, <2>5, WritingKeepsMcp
<1>7. CASE Mcp!Inert(t)
  <2>1. mcpRuns' = mcpRuns /\ call' = [call EXCEPT ![t].pc = "close"]
    BY <1>7 DEF Mcp!Inert, Mcp!Goes
  <2>2. Goes(t, "close", r)
    BY <2>1, GoesOn DEF Stations
  <2> QED BY <1>1, <1>3, <1>4, <2>1, <2>2, GoingKeepsMcp DEF Stations
<1>8. CASE Mcp!Spawn(t)
  <2> DEFINE x == [old EXCEPT !.state = "dispatched", !.worker = "alive"]
  <2>1. /\ mcpRuns' = [mcpRuns EXCEPT ![r].state = "dispatched", ![r].worker = "alive"]
        /\ call[t].pc = "ladder" /\ mode = "LOCAL_GOVERNED"
        /\ call' = [call EXCEPT ![t].pc = "record"]
    BY <1>8 DEF Mcp!Spawn, Mcp!Goes
  <2>2. mcpRuns' = [mcpRuns EXCEPT ![r] = x]
    BY <2>1, <1>3, <1>4
  <2>3. x \in StoredRun /\ x.key = old.key /\ x.by = old.by
    BY <1>5 DEF StoredRun
  <2>4. rows[x.by].mode # "QUALIFICATION_ONLY"
    BY <1>1, <1>3, <2>1, <2>3 DEF McpInv, CallsHaveRows
  <2>5. Goes(t, "record", r)
    BY <2>1, GoesOn DEF Stations
  <2> HIDE DEF x
  <2> QED BY <1>1, <1>3, <2>2, <2>3, <2>4, <2>5, WritingKeepsMcp
<1>9. CASE Mcp!RecordSpawn(t)
  <2> DEFINE x == [old EXCEPT !.recorded = TRUE]
  <2>1. /\ mcpRuns' = [mcpRuns EXCEPT ![r] = x]
        /\ call' = [call EXCEPT ![t].pc = "close"]
    BY <1>3, <1>4, <1>9 DEF Mcp!RecordSpawn, Mcp!Goes
  <2>2. x \in StoredRun /\ x.key = old.key /\ x.by = old.by /\ x.worker = old.worker
    BY <1>5 DEF StoredRun
  <2>3. Goes(t, "close", r)
    BY <2>1, GoesOn DEF Stations
  <2> HIDE DEF x
  <2> QED BY <1>1, <1>3, <2>1, <2>2, <2>3, WritingKeepsMcp
<1> QED BY <1>6, <1>7, <1>8, <1>9

\* The verbs on runs in scope.
LEMMA VerbsKeepMcp ==
    ASSUME McpInv, NEW t \in Threads,
           Mcp!ShowsStatus(t) \/ Mcp!ShowsHandoff(t) \/ Mcp!Looks(t)
    PROVE  McpInv'
<1> DEFINE r == call[t].arg
<1>1. /\ Handles(t) /\ UNCHANGED <<mode, modeFile, rows, mcpRuns, local, events>>
      /\ r \in Mcp!OwnedRunIds /\ call[t].tool \in {"show", "cancel"}
      /\ acted' = acted \/ acted' = acted \cup {r}
  BY DEF Mcp!ShowsStatus, Mcp!ShowsHandoff, Mcp!Looks, Mcp!MayRun, Mcp!InScope, Handles,
         Mcp!deployment, Mcp!counts
<1>2. r \in Numbers /\ Granted(r)
  BY <1>1, OwnedAreGranted
<1>3. acted' \in SUBSET Numbers /\ \A q \in acted' : Granted(q)
  BY <1>1, <1>2 DEF McpInv, McpTyped
<1>4. \/ Goes(t, "close", r)
      \/ Goes(t, "cancel", r) /\ call[t].tool = "cancel"
  <2>1. CASE Mcp!ShowsStatus(t)
    BY <2>1, <1>2, GoesOnWithRun DEF Mcp!ShowsStatus, Stations
  <2>2. CASE Mcp!ShowsHandoff(t)
    <3>1. (mcpRuns[r].state = "done") \in BOOLEAN
      OBVIOUS
    <3> QED BY <2>2, <3>1, <1>2, GoesOnWithRun DEF Mcp!ShowsHandoff, Stations
  <2>3. CASE Mcp!Looks(t)
    <3>1. /\ call[t].tool = "cancel"
          /\ \/ call' = [call EXCEPT ![t].pc = "cancel", ![t].run = r]
             \/ call' = [call EXCEPT ![t].pc = "close", ![t].run = r]
      BY <2>3 DEF Mcp!Looks
    <3> QED BY <3>1, <1>2, GoesOnWithRun DEF Stations
  <2> QED BY <2>1, <2>2, <2>3
<1> QED BY <1>1, <1>2, <1>3, <1>4, GoingKeepsMcp DEF Stations

LEMMA CancelsKeepsMcp ==
    ASSUME McpInv, NEW t \in Threads, Mcp!Cancels(t) PROVE McpInv'
<1> DEFINE r == call[t].run
           old == mcpRuns[r]
<1>1. /\ Handles(t) /\ call[t].pc = "cancel" /\ call' = [call EXCEPT ![t].pc = "close"]
      /\ UNCHANGED <<mode, modeFile, rows, local, events>>
      /\ acted' = acted \cup {r}
      /\ \/ r \in Mcp!ActiveRuns /\ mcpRuns' = [mcpRuns EXCEPT ![r].state = "cancelled"]
         \/ mcpRuns' = mcpRuns
  BY DEF Mcp!Cancels, Mcp!Goes, Handles, Mcp!deployment, Mcp!counts
<1>2. Granted(r) /\ call[t].tool = "cancel" /\ r \in Numbers
  BY <1>1 DEF McpInv, InHand, McpTyped, Handling
<1>3. acted' \in SUBSET Numbers /\ \A q \in acted' : Granted(q)
  BY <1>1, <1>2 DEF McpInv, McpTyped
<1>4. Goes(t, "close", r)
  BY <1>1, GoesOn DEF Stations
<1>5. CASE mcpRuns' = mcpRuns
  BY <1>1, <1>2, <1>3, <1>4, <1>5, GoingKeepsMcp DEF Stations
<1>6. CASE r \in Mcp!ActiveRuns /\ mcpRuns' = [mcpRuns EXCEPT ![r].state = "cancelled"]
  <2> DEFINE x == [old EXCEPT !.state = "cancelled"]
  <2>1. mcpRuns \in Seq(StoredRun) /\ r \in 1..Len(mcpRuns)
    BY <1>6 DEF McpInv, McpTyped, Mcp!ActiveRuns
  <2>2. mcpRuns' = [mcpRuns EXCEPT ![r] = x] /\ old \in StoredRun
    BY <1>6, <2>1
  <2>3. x \in StoredRun /\ x.key = old.key /\ x.by = old.by /\ x.worker = old.worker
    BY <2>2 DEF StoredRun
  <2> HIDE DEF x
  <2>4. /\ mcpRuns' \in Seq(StoredRun) /\ Len(mcpRuns') = Len(mcpRuns)
        /\ \A q \in 1..Len(mcpRuns) :
             mcpRuns'[q].key = mcpRuns[q].key /\ mcpRuns'[q].by = mcpRuns[q].by
        /\ KeysAreUnique' /\ RunsHaveRows'
    BY <1>1, <2>1, <2>2, <2>3, RunWritten
  <2>5. PICK c \in Handling :
          /\ call' = [call EXCEPT ![t] = c]
          /\ c.pc = "close" /\ c.run = r
          /\ c.row = call[t].row /\ c.tool = call[t].tool /\ c.arg = call[t].arg
    BY <1>4 DEF Goes
  <2>6. call'[t] = c
    BY <2>5 DEF McpInv, McpTyped
  <2>7. InHand(t)'
    BY <1>1, <1>2, <2>5, <2>6 DEF InHand, Granted
  <2>8. Len(mcpRuns) <= Len(mcpRuns')
    BY <2>1, <2>4
  <2> QED BY <1>1, <1>3, <2>4, <2>5, <2>7, <2>8, MoveKeepsMcp
<1> QED BY <1>1, <1>5, <1>6

LEMMA ScopesKeepsMcp ==
    ASSUME McpInv, NEW t \in Threads, Mcp!Scopes(t) PROVE McpInv'
<1> DEFINE c == [call[t] EXCEPT !.pc = "reconcile", !.seen = Mcp!OwnedRunIds]
<1>1. /\ Handles(t) /\ call[t].pc = "begin" /\ call[t].tool = "reconcile"
      /\ call' = [call EXCEPT ![t].pc = "reconcile", ![t].seen = Mcp!OwnedRunIds]
      /\ UNCHANGED <<mode, modeFile, rows, mcpRuns, acted, local, events>>
  BY DEF Mcp!Scopes, Mcp!Targets, Mcp!MayRun, Handles, Mcp!deployment, Mcp!counts
<1>2. Mcp!OwnedRunIds \in SUBSET Numbers /\ \A q \in Mcp!OwnedRunIds : Granted(q)
  BY OwnedAreGranted
<1>3. /\ call \in [Threads -> Handling] /\ call[t] \in Handling /\ mcpRuns \in Seq(StoredRun)
      /\ call[t].run = 0 /\ acted \in SUBSET Numbers /\ \A q \in acted : Granted(q)
  BY <1>1 DEF McpInv, McpTyped, InHand
<1>4. /\ c \in Handling /\ c.pc = "reconcile" /\ c.run = 0 /\ c.seen = Mcp!OwnedRunIds
      /\ c.row = call[t].row /\ c.tool = call[t].tool /\ c.arg = call[t].arg
  BY <1>2, <1>3 DEF Handling
<1>5. call' = [call EXCEPT ![t] = c]
  BY <1>1, <1>3
<1> HIDE DEF c
<1>6. call'[t] = c
  BY <1>3, <1>5
<1>7. InHand(t)'
  BY <1>1, <1>2, <1>4, <1>6 DEF InHand, Granted
<1>8. mcpRuns' \in Seq(StoredRun) /\ Len(mcpRuns) <= Len(mcpRuns') /\ KeysAreUnique' /\ RunsHaveRows'
  BY <1>1, <1>3 DEF McpInv, KeysAreUnique, RunsHaveRows
<1> QED BY <1>1, <1>3, <1>4, <1>5, <1>7, <1>8, MoveKeepsMcp

LEMMA ReconcilesKeepsMcp ==
    ASSUME McpInv, NEW t \in Threads, Mcp!Reconciles(t) PROVE McpInv'
<1>1. /\ Handles(t) /\ call[t].pc = "reconcile"
      /\ UNCHANGED <<mode, modeFile, rows, local, events>>
  BY DEF Mcp!Reconciles, Handles, Mcp!deployment, Mcp!counts
<1>2. call[t].tool = "reconcile" /\ call[t].run = 0 /\ \A q \in call[t].seen : Granted(q)
  BY <1>1 DEF McpInv, InHand
<1>3. /\ call \in [Threads -> Handling] /\ call[t] \in Handling /\ mcpRuns \in Seq(StoredRun)
      /\ acted \in SUBSET Numbers /\ \A q \in acted : Granted(q)
  BY DEF McpInv, McpTyped
<1>4. CASE call[t].seen = {}
  <2>1. call' = [call EXCEPT ![t].pc = "close"] /\ mcpRuns' = mcpRuns /\ acted' = acted
    BY <1>4 DEF Mcp!Reconciles, Mcp!Goes
  <2>2. Goes(t, "close", 0)
    BY <1>2, <2>1, GoesOn DEF Stations
  <2>3. 0 \in Numbers
    BY DEF Numbers
  <2> QED BY <1>1, <1>2, <1>3, <2>1, <2>2, <2>3, GoingKeepsMcp DEF Stations
<1>5. CASE call[t].seen # {}
  <2>1. PICK r \in call[t].seen :
          /\ call' = [call EXCEPT ![t].seen = @ \ {r}]
          /\ acted' = acted \cup {r}
          /\ mcpRuns' = IF r \in Mcp!ActiveRuns /\ mcpRuns[r].worker = "dead"
                        THEN [mcpRuns EXCEPT ![r].state = "unknown"] ELSE mcpRuns
    BY <1>5 DEF Mcp!Reconciles
  <2> DEFINE c == [call[t] EXCEPT !.seen = call[t].seen \ {r}]
  <2>2. r \in Numbers /\ Granted(r)
    BY <1>2, <1>3 DEF Handling
  <2>3. /\ c \in Handling /\ c.pc = "reconcile" /\ c.run = 0 /\ c.seen = call[t].seen \ {r}
        /\ c.row = call[t].row /\ c.tool = call[t].tool /\ c.arg = call[t].arg
    BY <1>1, <1>2, <1>3 DEF Handling
  <2>4. call' = [call EXCEPT ![t] = c]
    BY <1>3, <2>1
  <2> HIDE DEF c
  <2>5. call'[t] = c
    BY <1>3, <2>4
  <2>6. InHand(t)'
    BY <1>1, <1>2, <2>3, <2>5 DEF InHand, Granted
  <2>7. acted' \in SUBSET Numbers /\ \A q \in acted' : Granted(q)
    BY <1>3, <2>1, <2>2
  <2>8. /\ mcpRuns' \in Seq(StoredRun) /\ Len(mcpRuns') = Len(mcpRuns)
        /\ \A q \in 1..Len(mcpRuns) :
             mcpRuns'[q].key = mcpRuns[q].key /\ mcpRuns'[q].by = mcpRuns[q].by
        /\ KeysAreUnique' /\ RunsHaveRows'
    <3>1. CASE mcpRuns' = mcpRuns
      BY <3>1, <1>1, <1>3 DEF McpInv, KeysAreUnique, RunsHaveRows
    <3>2. CASE r \in Mcp!ActiveRuns /\ mcpRuns' = [mcpRuns EXCEPT ![r].state = "unknown"]
      <4> DEFINE old == mcpRuns[r]
                 x == [old EXCEPT !.state = "unknown"]
      <4>1. r \in 1..Len(mcpRuns)
        BY <1>3, <3>2 DEF Mcp!ActiveRuns
      <4>2. mcpRuns' = [mcpRuns EXCEPT ![r] = x] /\ old \in StoredRun
        BY <1>3, <3>2, <4>1
      <4>3. x \in StoredRun /\ x.key = old.key /\ x.by = old.by /\ x.worker = old.worker
        BY <4>2 DEF StoredRun
      <4> HIDE DEF x
      <4> QED BY <1>1, <4>1, <4>2, <4>3, RunWritten
    <3> QED BY <3>1, <3>2, <2>1
  <2>9. Len(mcpRuns) <= Len(mcpRuns')
    BY <1>3, <2>8
  <2> QED BY <1>1, <2>3, <2>4, <2>6, <2>7, <2>8, <2>9, MoveKeepsMcp
<1> QED BY <1>4, <1>5

\* A row is added: the calls and the grants keep theirs.
LEMMA RowAdded ==
    ASSUME McpInv, NEW x \in LedgerRow, rows' = Append(rows, x), x.disp # "ACCEPTED", x.key = 0,
           UNCHANGED <<mcpRuns, acted>>
    PROVE  /\ rows' \in Seq(LedgerRow) /\ Len(rows') = Len(rows) + 1
           /\ rows'[Len(rows) + 1] = x
           /\ \A i \in 1..Len(rows) : rows'[i] = rows[i]
           /\ \A r : Granted(r) => Granted(r)'
           /\ AcceptedAreGranted' /\ RowsNameRuns' /\ RunsHaveRows'
<1>1. rows \in Seq(LedgerRow) /\ mcpRuns \in Seq(StoredRun)
  BY DEF McpInv, McpTyped
<1>2. /\ rows' \in Seq(LedgerRow) /\ Len(rows') = Len(rows) + 1
      /\ rows'[Len(rows) + 1] = x
      /\ \A i \in 1..Len(rows) : rows'[i] = rows[i]
  BY <1>1
<1>3. \A i \in 1..Len(rows') : i \in 1..Len(rows) \/ i = Len(rows) + 1
  BY <1>1, <1>2
<1>4. \A r : Granted(r) => Granted(r)'
  <2>1. \A i \in 1..Len(rows) : i \in 1..Len(rows')
    BY <1>1, <1>2
  <2> QED BY <1>2, <2>1 DEF Granted
<1>5. AcceptedAreGranted'
  BY <1>2, <1>3, <1>4 DEF McpInv, AcceptedAreGranted
<1>6. RowsNameRuns'
  BY <1>2, <1>3 DEF McpInv, RowsNameRuns
<1>7. RunsHaveRows'
  BY <1>1, <1>2 DEF McpInv, RunsHaveRows
<1> QED BY <1>2, <1>4, <1>5, <1>6, <1>7

LEMMA OpeningKeepsMcp ==
    ASSUME McpInv, NEW t \in Threads, Mcp!Message(t) PROVE McpInv'
<1>0. PICK tool \in Mcp!Tools : \E a \in Mcp!Args(tool) : Mcp!Open(t, tool, a)
  BY DEF Mcp!Message
<1>1. PICK a \in Mcp!Args(tool) : Mcp!Open(t, tool, a)
  BY <1>0
<1> DEFINE n == Len(rows) + 1
           c == [Mcp!Idle EXCEPT !.pc = "begin", !.tool = tool, !.arg = a, !.row = n]
           x == Mcp!Opened
<1>2. /\ rows' = Append(rows, x) /\ call' = [call EXCEPT ![t] = c] /\ call[t].pc = "idle"
      /\ UNCHANGED <<mode, modeFile, mcpRuns, acted, local, events>>
  BY <1>1 DEF Mcp!Open, Mcp!deployment, Mcp!counts
<1>3. /\ call \in [Threads -> Handling] /\ rows \in Seq(LedgerRow)
      /\ mcpRuns \in Seq(StoredRun) /\ mode \in Mcp!Modes
  BY DEF McpInv, McpTyped
<1>4. a \in Numbers /\ (tool = "dispatch" => a \in DispatchKeys)
  <2>1. CASE tool = "dispatch"
    BY <2>1 DEF Mcp!Args, Numbers
  <2>2. CASE tool = "reconcile"
    BY <2>2 DEF Mcp!Args, Numbers
  <2>3. CASE tool \in {"show", "cancel"}
    BY <2>3, <1>3 DEF Mcp!Args, Numbers
  <2> QED BY <2>1, <2>2, <2>3 DEF Mcp!Tools
<1>5. /\ c \in Handling /\ c.pc = "begin" /\ c.tool = tool /\ c.arg = a /\ c.row = n
      /\ c.run = 0
  <2>1. Mcp!Idle \in Handling /\ Mcp!Idle.run = 0
    BY DEF Mcp!Idle, Handling, Numbers
  <2>2. n \in Nat
    BY <1>3
  <2> QED BY <1>4, <2>1, <2>2 DEF Handling
<1>6. x \in LedgerRow /\ x.disp = "OPEN" /\ x.mode = mode /\ x.key = 0
  BY <1>3 DEF Mcp!Opened, LedgerRow, Numbers
<1> HIDE DEF c, x
<1>7. /\ rows' \in Seq(LedgerRow) /\ Len(rows') = n
      /\ rows'[n] = x
      /\ \A i \in 1..Len(rows) : rows'[i] = rows[i]
      /\ \A r : Granted(r) => Granted(r)'
      /\ AcceptedAreGranted' /\ RowsNameRuns' /\ RunsHaveRows'
  BY <1>2, <1>6, RowAdded
<1>8. call'[t] = c /\ \A u \in Threads \ {t} : call'[u] = call[u]
  BY <1>2, <1>3
<1>9. McpTyped'
  BY <1>2, <1>3, <1>5, <1>7 DEF McpInv, McpTyped
<1>10. CallsHaveRows'
  <2>1. n \in 1..n /\ \A i \in 1..Len(rows) : i \in 1..n /\ i # n
    BY <1>3
  <2>2. ASSUME NEW u \in Threads \ {t}, Handles(u)'
        PROVE  /\ Handles(u) /\ call'[u] = call[u] /\ call[u].row \in 1..Len(rows)
               /\ rows'[call[u].row] = rows[call[u].row]
    BY <2>2, <1>7, <1>8 DEF McpInv, CallsHaveRows, Handles
  <2> QED BY <2>1, <2>2, <1>2, <1>4, <1>5, <1>6, <1>7, <1>8 DEF McpInv, CallsHaveRows
<1>11. ASSUME NEW u \in Threads PROVE InHand(u)'
  <2>1. CASE u = t
    BY <2>1, <1>5, <1>8 DEF InHand
  <2>2. CASE u # t
    <3>1. call'[u] = call[u] /\ InHand(u)
      BY <2>2, <1>8 DEF McpInv
    <3> QED BY <3>1, <1>2, <1>7 DEF InHand
  <2> QED BY <2>1, <2>2
<1> QED BY <1>2, <1>7, <1>9, <1>10, <1>11 DEF McpInv, KeysAreUnique

\* Nothing of the ledger or of a call changes: workers end, other surfaces dispatch.
LEMMA RunsKeepMcp ==
    ASSUME McpInv, UNCHANGED <<mode, modeFile, rows, call, acted, events>>, local' \in Nat,
           mcpRuns' \in Seq(StoredRun), Len(mcpRuns) <= Len(mcpRuns'),
           \A r \in 1..Len(mcpRuns) :
               mcpRuns'[r].key = mcpRuns[r].key /\ mcpRuns'[r].by = mcpRuns[r].by,
           KeysAreUnique', RunsHaveRows'
    PROVE  McpInv'
<1>1. mcpRuns \in Seq(StoredRun)
  BY DEF McpInv, McpTyped
<1>2. McpTyped'
  BY DEF McpInv, McpTyped
<1>3. CallsHaveRows' /\ AcceptedAreGranted' /\ \A r \in acted' : Granted(r)'
  BY DEF McpInv, CallsHaveRows, AcceptedAreGranted, Handles, Granted
<1>4. RowsNameRuns'
  BY <1>1 DEF McpInv, RowsNameRuns
<1>5. ASSUME NEW u \in Threads PROVE InHand(u)'
  <2>1. InHand(u)
    BY DEF McpInv
  <2> QED BY <2>1, <1>1 DEF InHand, Granted
<1> QED BY <1>2, <1>3, <1>4, <1>5 DEF McpInv

LEMMA WorkersKeepMcp ==
    ASSUME McpInv, NEW r \in DOMAIN mcpRuns, Mcp!WorkerEnds(r) \/ Mcp!WorkerDies(r)
    PROVE  McpInv'
<1> DEFINE old == mcpRuns[r]
           x == [old EXCEPT !.worker = "dead",
                            !.state = IF old.state = "dispatched" THEN "done" ELSE old.state]
           y == [old EXCEPT !.worker = "dead"]
<1>1. mcpRuns \in Seq(StoredRun) /\ r \in 1..Len(mcpRuns) /\ old \in StoredRun /\ local \in Nat
  BY DEF McpInv, McpTyped
<1>2. /\ old.worker = "alive"
      /\ mcpRuns' = [mcpRuns EXCEPT ![r] = x] \/ mcpRuns' = [mcpRuns EXCEPT ![r] = y]
      /\ UNCHANGED <<mode, modeFile, rows, call, acted, local, events>>
  BY <1>1 DEF Mcp!WorkerEnds, Mcp!WorkerDies, Mcp!deployment, Mcp!counts
<1>3. /\ x \in StoredRun /\ x.key = old.key /\ x.by = old.by
      /\ y \in StoredRun /\ y.key = old.key /\ y.by = old.by
  BY <1>1 DEF StoredRun
<1> HIDE DEF x, y
<1>4. /\ mcpRuns' \in Seq(StoredRun) /\ Len(mcpRuns') = Len(mcpRuns)
      /\ \A q \in 1..Len(mcpRuns) :
           mcpRuns'[q].key = mcpRuns[q].key /\ mcpRuns'[q].by = mcpRuns[q].by
      /\ KeysAreUnique' /\ RunsHaveRows'
  BY <1>1, <1>2, <1>3, RunWritten
<1>5. Len(mcpRuns) <= Len(mcpRuns')
  BY <1>1, <1>4
<1> QED BY <1>1, <1>2, <1>4, <1>5, RunsKeepMcp

LEMMA LocalKeepsMcp ==
    ASSUME McpInv, NEW k \in DispatchKeys, Mcp!LocalDispatch(k) PROVE McpInv'
<1> DEFINE run == [Mcp!NewRun(k, 0) EXCEPT !.state = "dispatched", !.worker = "alive",
                                           !.recorded = TRUE]
           n == Len(mcpRuns) + 1
<1>1. /\ mcpRuns' = Append(mcpRuns, run) /\ Mcp!Holder(k) = {} /\ local' = local + 1
      /\ UNCHANGED <<mode, modeFile, rows, call, acted, events>>
  BY DEF Mcp!LocalDispatch, Mcp!deployment
<1>2. mcpRuns \in Seq(StoredRun) /\ local' \in Nat /\ rows \in Seq(LedgerRow)
  BY <1>1 DEF McpInv, McpTyped
<1>3. run \in StoredRun /\ run.key = k /\ run.by = 0
  BY DEF Mcp!NewRun, StoredRun
<1> HIDE DEF run
<1>4. /\ mcpRuns' \in Seq(StoredRun) /\ Len(mcpRuns') = n /\ mcpRuns'[n] = run
      /\ \A q \in 1..Len(mcpRuns) : mcpRuns'[q] = mcpRuns[q]
  BY <1>1, <1>2, <1>3
<1>5. \A q \in 1..Len(mcpRuns) : mcpRuns[q].key # k
  BY <1>1, <1>2 DEF Mcp!Holder, Mcp!RunsFor
<1>6. KeysAreUnique'
  <2>1. \A q \in 1..n : q \in 1..Len(mcpRuns) \/ q = n
    BY <1>2
  <2>2. \A q \in 1..Len(mcpRuns) : mcpRuns'[q].key = mcpRuns[q].key /\ mcpRuns'[q].key # mcpRuns'[n].key
    BY <1>3, <1>4, <1>5
  <2> QED BY <1>4, <2>1, <2>2 DEF McpInv, KeysAreUnique
<1>7. RunsHaveRows'
  BY <1>1, <1>2, <1>3, <1>4 DEF McpInv, RunsHaveRows
<1>8. Len(mcpRuns) <= Len(mcpRuns')
  BY <1>2, <1>4
<1> QED BY <1>1, <1>2, <1>4, <1>6, <1>7, <1>8, RunsKeepMcp

LEMMA MachineKeepsMcp ==
    ASSUME McpInv, Mcp!Unauthenticated \/ Mcp!WriteMode \/ Mcp!Restart PROVE McpInv'
<1>1. CASE Mcp!Unauthenticated
  <2> DEFINE x == [Mcp!Opened EXCEPT !.disp = "UNAUTHENTICATED"]
  <2>1. rows' = Append(rows, x) /\ UNCHANGED <<mode, modeFile, mcpRuns, call, acted, local, events>>
    BY <1>1 DEF Mcp!Unauthenticated, Mcp!deployment, Mcp!counts
  <2>2. x \in LedgerRow /\ x.disp # "ACCEPTED" /\ x.key = 0
    BY DEF Mcp!Opened, LedgerRow, Numbers, McpInv, McpTyped
  <2> HIDE DEF x
  <2>3. /\ rows' \in Seq(LedgerRow) /\ Len(rows') = Len(rows) + 1
        /\ \A i \in 1..Len(rows) : rows'[i] = rows[i]
        /\ \A r : Granted(r) => Granted(r)'
        /\ AcceptedAreGranted' /\ RowsNameRuns' /\ RunsHaveRows'
    BY <2>1, <2>2, RowAdded
  <2>4. McpTyped' /\ rows \in Seq(LedgerRow)
    BY <2>1, <2>3 DEF McpInv, McpTyped
  <2>5. CallsHaveRows'
    BY <2>1, <2>3, <2>4 DEF McpInv, CallsHaveRows, Handles
  <2>6. ASSUME NEW u \in Threads PROVE InHand(u)'
    <3>1. InHand(u)
      BY DEF McpInv
    <3> QED BY <3>1, <2>1, <2>3 DEF InHand
  <2> QED BY <2>1, <2>3, <2>4, <2>5, <2>6 DEF McpInv, KeysAreUnique
<1>2. CASE Mcp!WriteMode
  <2>1. McpTyped'
    BY <1>2 DEF Mcp!WriteMode, McpInv, McpTyped
  <2> QED BY <1>2, <2>1 DEF Mcp!WriteMode, McpInv, CallsHaveRows, AcceptedAreGranted, RowsNameRuns,
             KeysAreUnique, RunsHaveRows, InHand, Granted, Handles
<1>3. CASE Mcp!Restart
  <2>1. Mcp!Idle \in Handling /\ Mcp!Idle.pc = "idle"
    BY DEF Mcp!Idle, Handling, Numbers
  <2>2. \A t \in Threads : call'[t].pc = "idle"
    BY <1>3 DEF Mcp!Restart, Mcp!Idle
  <2>3. McpTyped'
    BY <1>3, <2>1 DEF Mcp!Restart, McpInv, McpTyped, Mcp!Modes
  <2>4. CallsHaveRows' /\ \A t \in Threads : InHand(t)'
    BY <2>2 DEF CallsHaveRows, InHand, Handles
  <2> QED BY <1>3, <2>3, <2>4 DEF Mcp!Restart, McpInv, AcceptedAreGranted, RowsNameRuns,
             KeysAreUnique, RunsHaveRows, Granted
<1> QED BY <1>1, <1>2, <1>3

LEMMA StepKeepsMcp ==
    ASSUME McpInv, Mcp!Next \/ UNCHANGED McpState PROVE McpInv'
<1>1. CASE UNCHANGED McpState
  BY <1>1 DEF McpState, McpInv, McpTyped, CallsHaveRows, AcceptedAreGranted, RowsNameRuns,
         KeysAreUnique, RunsHaveRows, InHand, Granted, Handles
<1>2. ASSUME NEW t \in Threads, Mcp!Handle(t) PROVE McpInv'
  BY <1>2, EndingKeepsMcp, DuplicateKeepsMcp, AdmitKeepsMcp, LadderKeepsMcp, VerbsKeepMcp,
     CancelsKeepsMcp, ScopesKeepsMcp, ReconcilesKeepsMcp DEF Mcp!Handle
<1> QED BY <1>1, <1>2, OpeningKeepsMcp, WorkersKeepMcp, LocalKeepsMcp, MachineKeepsMcp DEF Mcp!Next

\* The tool server starts one run for a key, acts on the runs of its ledger alone, and never
\* gives a worker to what the qualification mode dispatched, on however many threads
\* (transports/mcp/adapter.py).
THEOREM ToolsInScope == Spec => []ToolsStayInScope
<1> DEFINE Inv == part = "mcp" => McpInv
<1>1. Init => Inv
  BY McpStarts DEF Init
<1>2. Inv /\ [Next]_vars => Inv'
  <2>1. SUFFICES ASSUME Inv, [Next]_vars, part' = "mcp" PROVE McpInv'
    OBVIOUS
  <2>2. part = "mcp" /\ (Mcp!Next \/ UNCHANGED McpState)
    BY <2>1, OnePartMoves
  <2> QED BY <2>1, <2>2, StepKeepsMcp
<1>3. Inv => ToolsStayInScope
  BY McpImplies DEF ToolsStayInScope
<1> HIDE DEF Inv
<1> QED BY <1>1, <1>2, <1>3, PTL DEF Spec

-----------------------------------------------------------------------------
(* The lanes' worktrees.                                                     *)

LaneStates == {"planned", "running", "handed", "parked", "refused", "ambiguous", "committed",
               "complete", "left"}
Work == SUBSET Tree!Things
Histories == [accepted : [Crew -> Work], refused : [Crew -> Work], smuggled : Work,
              lapsed : BOOLEAN, unreset : BOOLEAN, missed : SUBSET Crew]
Integrations == [state : {"none", "CONFLICT", "TESTS_FAILED", "COMPLETE"}, made : BOOLEAN,
                 has : Work]
Commits == [of : Crew, why : {"attempt", "checkpoint"}, step : {"probe", "add", "write"}]

TreeTyped ==
    /\ disk \in [Crew -> Work] /\ staged \in [Crew -> Work] /\ has \in [Crew -> Work]
    /\ lane \in [Crew -> LaneStates]
    /\ past \in Histories
    /\ integration \in Integrations
    /\ committing = Tree!Idle \/ committing \in Commits

\* A commit is of a lane that waits for it; once it has added, what is left on disk is noise.
CommitIsOfItsLane ==
    committing # Tree!Idle =>
        /\ lane[committing.of] = IF committing.why = "attempt" THEN "handed" ELSE "planned"
        /\ committing.step = "write" => disk[committing.of] \subseteq {Tree!Noise}

\* What was proved excluded stays so until the add; only a lapse lets noise in.
NoiseLapsed ==
    /\ committing # Tree!Idle /\ committing.step = "add" => Tree!Effective \/ past.lapsed
    /\ \A l \in Crew : Tree!Noise \in staged[l] \cup has[l] => past.lapsed

\* What only a refused run did is in no tree, but for the tree that waits to be reset.
RefusedIsGone ==
    /\ \A l \in Crew : Tree!Noise \notin past.refused[l]
    /\ ~past.unreset =>
           \A l \in Crew : lane[l] # "refused" => (disk[l] \cup staged[l]) \cap past.refused[l] = {}

\* What was accepted is in the tree, the index or the branch; in the branch, when a run is
\* on, was refused, or was committed.
AcceptedIsKept ==
    \A l \in Crew :
        /\ Tree!Noise \notin past.accepted[l]
        /\ past.accepted[l] \subseteq has[l] \cup staged[l] \cup disk[l]
        /\ lane[l] \in {"running", "refused"} => past.accepted[l] \subseteq has[l]
        /\ lane[l] \in {"committed", "complete"} /\ l \notin past.missed =>
               past.accepted[l] \subseteq has[l]

TreeInv ==
    /\ TreeTyped /\ CommitIsOfItsLane /\ NoiseLapsed /\ RefusedIsGone /\ AcceptedIsKept
    /\ Tree!RefusedWorkIsDropped /\ Tree!IntegratedIsWhole
    /\ integration.state = "COMPLETE" => \A l \in Crew : lane[l] = "complete"

LEMMA TreeImplies ==
    ASSUME TreeInv
    PROVE  Tree!NoiseStaysOut /\ Tree!RefusedWorkIsDropped /\ Tree!IntegratedIsWhole
BY DEF TreeInv, NoiseLapsed, Tree!NoiseStaysOut

LEMMA TreeStarts == ASSUME Tree!TreeInit PROVE TreeInv
<1>1. /\ disk = [l \in Crew |-> {}] /\ staged = [l \in Crew |-> {}] /\ has = [l \in Crew |-> {}]
      /\ lane = [l \in Crew |-> "planned"] /\ committing = Tree!Idle
      /\ past = [accepted |-> [l \in Crew |-> {}], refused |-> [l \in Crew |-> {}],
                 smuggled |-> {}, lapsed |-> FALSE, unreset |-> FALSE, missed |-> {}]
      /\ integration = [state |-> "none", made |-> FALSE, has |-> {}]
  BY DEF Tree!TreeInit
<1>2. TreeTyped
  BY <1>1 DEF TreeTyped, LaneStates, Work, Histories, Integrations
<1> QED BY <1>1, <1>2 DEF TreeInv, CommitIsOfItsLane, NoiseLapsed, RefusedIsGone, AcceptedIsKept,
           Tree!RefusedWorkIsDropped, Tree!IntegratedIsWhole

LEMMA IdleIsNoCommit == /\ Tree!Idle \notin Commits /\ Tree!Idle.of \notin Crew
BY CrewAssumption DEF Commits, Tree!Idle

\* Steps that leave the trees, the branches and the history alone.
LEMMA WaitingKeepsTree ==
    ASSUME TreeInv, NEW l \in Crew,
           \/ Tree!CreateTree(l) \/ Tree!BeginCheckpoint(l) \/ Tree!Dispatch(l) \/ Tree!Resumed(l)
           \/ Tree!BeginCommit(l) \/ Tree!Exclude(l)
    PROVE  TreeInv'
<1>1. CASE Tree!CreateTree(l)
  <2>1. committing = Tree!Idle
    BY <1>1 DEF Tree!CreateTree, Tree!Ready, Tree!NoCommit
  <2> QED BY <1>1, <2>1 DEF Tree!CreateTree, TreeInv, TreeTyped, CommitIsOfItsLane, NoiseLapsed,
             RefusedIsGone, AcceptedIsKept, Tree!RefusedWorkIsDropped, Tree!IntegratedIsWhole
<1>2. CASE Tree!BeginCheckpoint(l) \/ Tree!BeginCommit(l)
  <2>1. PICK c \in Commits :
            /\ c.step = "probe" /\ committing' = c
            /\ lane[c.of] = IF c.why = "attempt" THEN "handed" ELSE "planned"
    <3>1. CASE Tree!BeginCheckpoint(l)
      BY <3>1 DEF Tree!BeginCheckpoint, Tree!Ready, Commits
    <3>2. CASE Tree!BeginCommit(l)
      BY <3>2 DEF Tree!BeginCommit, Commits
    <3> QED BY <1>2, <3>1, <3>2
  <2>2. UNCHANGED <<disk, staged, has, lane, past, integration, omit>>
    BY <1>2 DEF Tree!BeginCheckpoint, Tree!BeginCommit
  <2> QED BY <2>1, <2>2 DEF TreeInv, TreeTyped, CommitIsOfItsLane, NoiseLapsed,
             RefusedIsGone, AcceptedIsKept, Tree!RefusedWorkIsDropped, Tree!IntegratedIsWhole
<1>3. CASE Tree!Dispatch(l)
  <2>1. /\ committing = Tree!Idle /\ UNCHANGED <<committing, disk, staged, has, past, integration, omit>>
        /\ lane' = [lane EXCEPT ![l] = "running"] /\ lane[l] = "planned"
        /\ disk[l] \cup staged[l] \subseteq {Tree!Noise}
    BY <1>3 DEF Tree!Dispatch, Tree!Ready, Tree!NoCommit, Tree!ChangedFiles
  <2>2. /\ lane' \in [Crew -> LaneStates] /\ lane'[l] = "running"
        /\ \A k \in Crew \ {l} : lane'[k] = lane[k]
    BY <2>1 DEF TreeInv, TreeTyped, LaneStates
  <2>3. past.accepted[l] \subseteq has[l]
    BY <2>1 DEF TreeInv, AcceptedIsKept
  <2> QED BY <2>1, <2>2, <2>3 DEF TreeInv, TreeTyped, CommitIsOfItsLane, NoiseLapsed,
             RefusedIsGone, AcceptedIsKept, Tree!RefusedWorkIsDropped, Tree!IntegratedIsWhole
<1>4. CASE Tree!Resumed(l)
  <2>1. /\ UNCHANGED <<committing, excludes, disk, staged, has, past, integration, omit>>
        /\ lane' = [lane EXCEPT ![l] = "planned"] /\ lane[l] \in {"parked", "ambiguous"}
    BY <1>4 DEF Tree!Resumed
  <2>2. /\ lane' \in [Crew -> LaneStates] /\ lane'[l] = "planned"
        /\ \A k \in Crew \ {l} : lane'[k] = lane[k]
    BY <2>1 DEF TreeInv, TreeTyped, LaneStates
  <2>3. committing # Tree!Idle => committing.of # l /\ committing.of \in Crew
    BY <2>1 DEF TreeInv, TreeTyped, CommitIsOfItsLane, Commits
  <2> QED BY <2>1, <2>2, <2>3 DEF TreeInv, TreeTyped, CommitIsOfItsLane, NoiseLapsed, Tree!Effective,
             RefusedIsGone, AcceptedIsKept, Tree!RefusedWorkIsDropped, Tree!IntegratedIsWhole
<1>5. CASE Tree!Exclude(l)
  BY <1>5 DEF Tree!Exclude, TreeInv, TreeTyped, CommitIsOfItsLane, NoiseLapsed, Tree!Effective,
         RefusedIsGone, AcceptedIsKept, Tree!RefusedWorkIsDropped, Tree!IntegratedIsWhole
<1> QED BY <1>1, <1>2, <1>3, <1>4, <1>5

\* The upstream branch is merged.
LEMMA MergeKeepsTree ==
    ASSUME TreeInv, NEW l \in Crew, Tree!MergeUpstream(l) PROVE TreeInv'
<1>1. /\ UNCHANGED <<committing, disk, staged, lane, past, integration, omit, excludes>>
      /\ has' = [has EXCEPT ![l] = @ \cup has[Upstream]]
      /\ committing = Tree!Idle
  BY DEF Tree!MergeUpstream, Tree!Ready, Tree!NoCommit
<1>2. Upstream \in Crew
  BY CrewAssumption
<1>3. /\ has' \in [Crew -> Work] /\ has'[l] = has[l] \cup has[Upstream]
      /\ \A k \in Crew \ {l} : has'[k] = has[k]
  BY <1>1, <1>2 DEF TreeInv, TreeTyped, Work
<1>4. NoiseLapsed'
  BY <1>1, <1>2, <1>3 DEF TreeInv, NoiseLapsed, Tree!Effective
<1> QED BY <1>1, <1>3, <1>4 DEF TreeInv, TreeTyped, CommitIsOfItsLane, RefusedIsGone, AcceptedIsKept,
           Tree!RefusedWorkIsDropped, Tree!IntegratedIsWhole

\* A run ends: what it wrote is on disk, accepted, refused, or neither.
LEMMA RunEndKeepsTree ==
    ASSUME TreeInv, NEW l \in Crew, Tree!RunEnds(l) PROVE TreeInv'
<1>1. PICK W \in SUBSET Tree!Things, end \in {"handed", "parked", "refused", "ambiguous"} :
          /\ disk' = [disk EXCEPT ![l] = @ \cup W]
          /\ lane' = [lane EXCEPT ![l] = end]
          /\ past' = [past EXCEPT
                 !.accepted[l] = IF end \in {"handed", "parked"} THEN @ \cup (W \ {Tree!Noise}) ELSE @,
                 !.refused[l] = IF end = "refused" THEN @ \cup (W \ {Tree!Noise}) ELSE @ \ W]
  BY DEF Tree!RunEnds
<1>2. lane[l] = "running" /\ UNCHANGED <<staged, has, committing, excludes, omit, integration>>
  BY DEF Tree!RunEnds
<1> DEFINE more == IF end \in {"handed", "parked"} THEN past.accepted[l] \cup (W \ {Tree!Noise})
                   ELSE past.accepted[l]
           less == IF end = "refused" THEN past.refused[l] \cup (W \ {Tree!Noise})
                   ELSE past.refused[l] \ W
<1>3. /\ past \in Histories /\ past.accepted \in [Crew -> Work] /\ past.refused \in [Crew -> Work]
  BY DEF TreeInv, TreeTyped, Histories
<1>4. /\ past'.accepted = [past.accepted EXCEPT ![l] = more]
      /\ past'.refused = [past.refused EXCEPT ![l] = less]
      /\ past'.smuggled = past.smuggled /\ past'.lapsed = past.lapsed /\ past'.unreset = past.unreset
      /\ past'.missed = past.missed
      /\ more \in Work /\ less \in Work
  <2>1. more \in Work /\ less \in Work
    BY <1>3 DEF Work
  <2>2. past' = [past EXCEPT !.accepted = [past.accepted EXCEPT ![l] = more],
                             !.refused = [past.refused EXCEPT ![l] = less]]
    BY <1>1, <1>3
  <2> HIDE DEF more, less
  <2> QED BY <1>3, <2>1, <2>2 DEF Histories
<1>5. past' \in Histories
  <2>1. past' = [past EXCEPT !.accepted = [past.accepted EXCEPT ![l] = more],
                             !.refused = [past.refused EXCEPT ![l] = less]]
    BY <1>1, <1>3
  <2> HIDE DEF more, less
  <2> QED BY <1>3, <1>4, <2>1 DEF Histories
<1> HIDE DEF more, less
<1>6. /\ past'.accepted[l] = more /\ past'.refused[l] = less
      /\ \A k \in Crew \ {l} : past'.accepted[k] = past.accepted[k] /\ past'.refused[k] = past.refused[k]
  BY <1>3, <1>4
<1>7. /\ disk' \in [Crew -> Work] /\ disk'[l] = disk[l] \cup W
      /\ \A k \in Crew \ {l} : disk'[k] = disk[k]
      /\ lane' \in [Crew -> LaneStates] /\ lane'[l] = end
      /\ \A k \in Crew \ {l} : lane'[k] = lane[k]
  BY <1>1 DEF TreeInv, TreeTyped, Work, LaneStates
<1>8. TreeTyped'
  BY <1>2, <1>5, <1>7 DEF TreeInv, TreeTyped
<1>9. CommitIsOfItsLane' /\ NoiseLapsed'
  <2>1. committing # Tree!Idle => committing.of # l /\ committing.of \in Crew
    BY <1>2 DEF TreeInv, TreeTyped, CommitIsOfItsLane, Commits
  <2> QED BY <1>2, <1>4, <1>7, <2>1 DEF TreeInv, CommitIsOfItsLane, NoiseLapsed, Tree!Effective
<1>10. RefusedIsGone'
  <2>1. Tree!Noise \notin less
    BY DEF TreeInv, RefusedIsGone, less
  <2>2. ~past.unreset /\ end # "refused" => (disk[l] \cup W \cup staged[l]) \cap less = {}
    BY <1>2 DEF TreeInv, RefusedIsGone, less
  <2> QED BY <1>2, <1>4, <1>6, <1>7, <2>1, <2>2 DEF TreeInv, RefusedIsGone
<1>11. AcceptedIsKept'
  <2>1. /\ Tree!Noise \notin more
        /\ more \subseteq has[l] \cup staged[l] \cup disk[l] \cup W
        /\ end = "refused" => more \subseteq has[l]
    BY <1>2 DEF TreeInv, AcceptedIsKept, more
  <2> QED BY <1>2, <1>4, <1>6, <1>7, <2>1 DEF TreeInv, AcceptedIsKept
<1>12. integration.state # "COMPLETE"
  BY <1>2 DEF TreeInv
<1> QED BY <1>2, <1>4, <1>8, <1>9, <1>10, <1>11, <1>12
        DEF TreeInv, Tree!RefusedWorkIsDropped, Tree!IntegratedIsWhole

\* The tree of a refused run is reset, or could not be; a verification leaves noise.
LEMMA ResetKeepsTree ==
    ASSUME TreeInv, NEW l \in Crew, Tree!ResetRefused(l) PROVE TreeInv'
<1>1. /\ lane[l] = "refused" /\ committing = Tree!Idle /\ lane' = [lane EXCEPT ![l] = "planned"]
      /\ UNCHANGED <<has, committing, omit, integration>>
  BY DEF Tree!ResetRefused, Tree!NoCommit
<1>2. /\ lane' \in [Crew -> LaneStates] /\ lane'[l] = "planned"
      /\ \A k \in Crew \ {l} : lane'[k] = lane[k]
  BY <1>1 DEF TreeInv, TreeTyped, LaneStates
<1>3. past.accepted[l] \subseteq has[l] /\ integration.state # "COMPLETE"
  BY <1>1 DEF TreeInv, AcceptedIsKept
<1>4. CASE disk' = [disk EXCEPT ![l] = Tree!ResetDisk(l)] /\ staged' = [staged EXCEPT ![l] = {}]
           /\ UNCHANGED past
  <2>1. Tree!ResetDisk(l) \subseteq {Tree!Noise} /\ Tree!ResetDisk(l) \subseteq disk[l]
    BY DEF Tree!ResetDisk
  <2>2. /\ disk' \in [Crew -> Work] /\ disk'[l] = Tree!ResetDisk(l)
        /\ \A k \in Crew \ {l} : disk'[k] = disk[k]
        /\ staged' \in [Crew -> Work] /\ staged'[l] = {}
        /\ \A k \in Crew \ {l} : staged'[k] = staged[k]
    BY <1>4, <2>1 DEF TreeInv, TreeTyped, Work
  <2>3. RefusedIsGone'
    BY <1>2, <1>4, <2>1, <2>2 DEF TreeInv, RefusedIsGone
  <2> QED BY <1>1, <1>2, <1>3, <1>4, <2>2, <2>3 DEF TreeInv, TreeTyped, CommitIsOfItsLane, NoiseLapsed,
             AcceptedIsKept, Tree!RefusedWorkIsDropped, Tree!IntegratedIsWhole
<1>5. CASE past' = [past EXCEPT !.unreset = TRUE] /\ UNCHANGED <<disk, staged>>
  <2>1. /\ past' \in Histories /\ past'.unreset /\ past'.accepted = past.accepted
        /\ past'.refused = past.refused /\ past'.smuggled = past.smuggled
        /\ past'.lapsed = past.lapsed /\ past'.missed = past.missed
    BY <1>5 DEF TreeInv, TreeTyped, Histories
  <2> QED BY <1>1, <1>2, <1>3, <1>5, <2>1 DEF TreeInv, TreeTyped, CommitIsOfItsLane, NoiseLapsed,
             RefusedIsGone, AcceptedIsKept, Tree!RefusedWorkIsDropped, Tree!IntegratedIsWhole
<1> QED BY <1>4, <1>5 DEF Tree!ResetRefused

LEMMA VerifyKeepsTree ==
    ASSUME TreeInv, NEW l \in Crew, Tree!VerifyLane(l) PROVE TreeInv'
<1>1. PICK s \in {"complete", "planned"} : lane' = [lane EXCEPT ![l] = s]
  BY DEF Tree!VerifyLane
<1>2. /\ lane[l] = "committed" /\ disk' = [disk EXCEPT ![l] = @ \cup {Tree!Noise}]
      /\ UNCHANGED <<staged, has, committing, excludes, omit, integration, past>>
  BY DEF Tree!VerifyLane
<1>3. /\ disk' \in [Crew -> Work] /\ disk'[l] = disk[l] \cup {Tree!Noise}
      /\ \A k \in Crew \ {l} : disk'[k] = disk[k]
      /\ lane' \in [Crew -> LaneStates] /\ lane'[l] = s
      /\ \A k \in Crew \ {l} : lane'[k] = lane[k]
  BY <1>1, <1>2 DEF TreeInv, TreeTyped, Work, LaneStates, Tree!Things
<1>4. committing # Tree!Idle => committing.of # l /\ committing.of \in Crew
  BY <1>2 DEF TreeInv, TreeTyped, CommitIsOfItsLane, Commits
<1>5. integration.state # "COMPLETE"
  BY <1>2 DEF TreeInv
<1>6. RefusedIsGone'
  BY <1>2, <1>3 DEF TreeInv, RefusedIsGone
<1> QED BY <1>2, <1>3, <1>4, <1>5, <1>6 DEF TreeInv, TreeTyped, CommitIsOfItsLane, NoiseLapsed,
           Tree!Effective, AcceptedIsKept, Tree!RefusedWorkIsDropped, Tree!IntegratedIsWhole

\* A commit is refused for want of proof, or goes on to add.
LEMMA ProbeKeepsTree ==
    ASSUME TreeInv, Tree!CommitRefused \/ Tree!CommitProved PROVE TreeInv'
<1>1. committing \in Commits /\ committing.of \in Crew
  BY IdleIsNoCommit DEF TreeInv, TreeTyped, Tree!CommitRefused, Tree!CommitProved
<1>2. UNCHANGED <<disk, staged, has, omit, integration>>
  BY DEF Tree!CommitRefused, Tree!CommitProved
<1>3. committing # Tree!Idle
  BY <1>1, IdleIsNoCommit
<1>4. CASE Tree!CommitProved
  <2>1. /\ committing' \in Commits /\ committing'.of = committing.of
        /\ committing'.why = committing.why /\ committing'.step = "add"
        /\ UNCHANGED <<lane, past>> /\ excludes' = "block"
    BY <1>1, <1>4 DEF Tree!CommitProved, Tree!Proved, Commits
  <2>2. NoiseLapsed'
    BY <1>2, <2>1 DEF TreeInv, NoiseLapsed, Tree!Effective
  <2> QED BY <1>2, <1>3, <2>1, <2>2 DEF TreeInv, TreeTyped, CommitIsOfItsLane, RefusedIsGone,
             AcceptedIsKept, Tree!RefusedWorkIsDropped, Tree!IntegratedIsWhole
<1>5. CASE Tree!CommitRefused
  <2> DEFINE l == committing.of
             s == IF committing.why = "attempt" THEN "committed" ELSE lane[l]
  <2>1. lane' = [lane EXCEPT ![l] = s] /\ committing' = Tree!Idle
    BY <1>5 DEF Tree!CommitRefused, Tree!Onward
  <2>2. lane[l] = IF committing.why = "attempt" THEN "handed" ELSE "planned"
    BY <1>3 DEF TreeInv, CommitIsOfItsLane
  <2>3. /\ past' \in Histories /\ past'.accepted = past.accepted /\ past'.refused = past.refused
        /\ past'.smuggled = past.smuggled /\ past'.lapsed = past.lapsed
        /\ past'.unreset = past.unreset /\ past.missed \subseteq past'.missed
        /\ committing.why = "attempt" => l \in past'.missed
    BY <1>1, <1>5 DEF Tree!CommitRefused, TreeInv, TreeTyped, Histories
  <2>4. l \in Crew /\ (s = "committed" => committing.why = "attempt")
        /\ s \in {"committed", "planned"}
    BY <1>1, <2>2
  <2>5. integration.state # "COMPLETE"
    BY <2>2, <2>4 DEF TreeInv
  <2> HIDE DEF l, s
  <2>6. /\ lane' \in [Crew -> LaneStates] /\ lane'[l] = s
        /\ \A k \in Crew \ {l} : lane'[k] = lane[k]
    BY <2>1, <2>4 DEF TreeInv, TreeTyped, LaneStates
  <2>7. lane[l] # "refused"
    BY <2>2
  <2> QED BY <1>2, <2>1, <2>3, <2>4, <2>5, <2>6, <2>7 DEF TreeInv, TreeTyped, CommitIsOfItsLane,
             NoiseLapsed, RefusedIsGone, AcceptedIsKept, Tree!RefusedWorkIsDropped,
             Tree!IntegratedIsWhole
<1> QED BY <1>4, <1>5

\* Everything changed is staged: what is left on disk is noise.
LEMMA AddKeepsTree ==
    ASSUME TreeInv, Tree!CommitAdds PROVE TreeInv'
<1> DEFINE l == committing.of
<1>1. /\ committing \in Commits /\ l \in Crew /\ committing.step = "add"
      /\ staged' = [staged EXCEPT ![l] = Tree!Swept(l)]
      /\ disk' = [disk EXCEPT ![l] = @ \ Tree!Swept(l)]
      /\ committing' = [committing EXCEPT !.step = "write"]
      /\ UNCHANGED <<has, lane, excludes, omit, integration, past>>
  BY IdleIsNoCommit DEF TreeInv, TreeTyped, Tree!CommitAdds
<1>2. /\ committing' \in Commits /\ committing'.of = l /\ committing'.why = committing.why
      /\ committing'.step = "write" /\ committing # Tree!Idle
  BY <1>1, IdleIsNoCommit DEF Commits
<1>3. /\ Tree!Swept(l) \subseteq disk[l] \cup staged[l]
      /\ staged[l] \subseteq Tree!Swept(l)
      /\ disk[l] \ Tree!Swept(l) \subseteq {Tree!Noise}
      /\ Tree!Noise \in Tree!Swept(l) => Tree!Noise \in staged[l] \/ ~Tree!Effective
  BY DEF Tree!Swept, Tree!ChangedFiles
<1>4. lane[l] = IF committing.why = "attempt" THEN "handed" ELSE "planned"
  BY <1>2 DEF TreeInv, CommitIsOfItsLane
<1> HIDE DEF l
<1>5. /\ staged' \in [Crew -> Work] /\ staged'[l] = Tree!Swept(l)
      /\ \A k \in Crew \ {l} : staged'[k] = staged[k]
      /\ disk' \in [Crew -> Work] /\ disk'[l] = disk[l] \ Tree!Swept(l)
      /\ \A k \in Crew \ {l} : disk'[k] = disk[k]
  BY <1>1, <1>3 DEF TreeInv, TreeTyped, Work
<1>6. TreeTyped' /\ CommitIsOfItsLane'
  BY <1>1, <1>2, <1>3, <1>4, <1>5 DEF TreeInv, TreeTyped, CommitIsOfItsLane
<1>7. NoiseLapsed'
  BY <1>1, <1>2, <1>3, <1>5 DEF TreeInv, NoiseLapsed
<1>8. RefusedIsGone' /\ AcceptedIsKept'
  BY <1>1, <1>3, <1>4, <1>5 DEF TreeInv, RefusedIsGone, AcceptedIsKept
<1> QED BY <1>1, <1>6, <1>7, <1>8 DEF TreeInv, Tree!RefusedWorkIsDropped, Tree!IntegratedIsWhole

\* What is staged enters the branch; the lane goes on.
LEMMA WriteKeepsTree ==
    ASSUME TreeInv, Tree!CommitWrites PROVE TreeInv'
<1> DEFINE l == committing.of
           s == IF committing.why = "attempt" THEN "committed" ELSE lane[l]
<1>1. /\ committing \in Commits /\ l \in Crew /\ committing.step = "write"
      /\ has' = [has EXCEPT ![l] = @ \cup staged[l]]
      /\ staged' = [staged EXCEPT ![l] = {}]
      /\ lane' = [lane EXCEPT ![l] = s]
      /\ past' = [past EXCEPT !.smuggled = @ \cup (staged[l] \cap past.refused[l])]
      /\ committing' = Tree!Idle
      /\ UNCHANGED <<disk, excludes, omit, integration>>
  BY IdleIsNoCommit DEF TreeInv, TreeTyped, Tree!CommitWrites, Tree!Onward
<1>2. /\ lane[l] = IF committing.why = "attempt" THEN "handed" ELSE "planned"
      /\ disk[l] \subseteq {Tree!Noise}
  BY <1>1, IdleIsNoCommit DEF TreeInv, CommitIsOfItsLane
<1>3. s \in {"committed", "planned"} /\ lane[l] \notin {"refused", "complete"}
  BY <1>2
<1>4. /\ past' \in Histories /\ past'.accepted = past.accepted /\ past'.refused = past.refused
      /\ past'.smuggled = past.smuggled \cup (staged[l] \cap past.refused[l])
      /\ past'.lapsed = past.lapsed /\ past'.unreset = past.unreset /\ past'.missed = past.missed
  <2>1. past.smuggled \cup (staged[l] \cap past.refused[l]) \in Work
    BY <1>1 DEF TreeInv, TreeTyped, Histories, Work
  <2> QED BY <1>1, <2>1 DEF TreeInv, TreeTyped, Histories
<1> HIDE DEF l, s
<1>5. /\ has' \in [Crew -> Work] /\ has'[l] = has[l] \cup staged[l]
      /\ \A k \in Crew \ {l} : has'[k] = has[k]
      /\ staged' \in [Crew -> Work] /\ staged'[l] = {}
      /\ \A k \in Crew \ {l} : staged'[k] = staged[k]
      /\ lane' \in [Crew -> LaneStates] /\ lane'[l] = s
      /\ \A k \in Crew \ {l} : lane'[k] = lane[k]
  BY <1>1, <1>3 DEF TreeInv, TreeTyped, Work, LaneStates
<1>6. TreeTyped' /\ CommitIsOfItsLane'
  BY <1>1, <1>4, <1>5 DEF TreeInv, TreeTyped, CommitIsOfItsLane
<1>7. NoiseLapsed'
  BY <1>1, <1>4, <1>5 DEF TreeInv, NoiseLapsed
<1>8. RefusedIsGone'
  BY <1>1, <1>3, <1>4, <1>5 DEF TreeInv, RefusedIsGone
<1>9. AcceptedIsKept'
  <2>1. past.accepted[l] \subseteq has'[l]
    BY <1>1, <1>2, <1>5 DEF TreeInv, AcceptedIsKept
  <2> QED BY <1>1, <1>3, <1>4, <1>5, <2>1 DEF TreeInv, AcceptedIsKept
<1>10. Tree!RefusedWorkIsDropped'
  <2>1. ~past.unreset => staged[l] \cap past.refused[l] = {}
    BY <1>1, <1>3 DEF TreeInv, RefusedIsGone
  <2> QED BY <1>4, <2>1 DEF TreeInv, Tree!RefusedWorkIsDropped
<1>11. integration.state # "COMPLETE"
  BY <1>1, <1>3 DEF TreeInv
<1> QED BY <1>1, <1>6, <1>7, <1>8, <1>9, <1>10, <1>11 DEF TreeInv, Tree!IntegratedIsWhole

\* The process dies in a commit.
LEMMA DyingKeepsTree ==
    ASSUME TreeInv, Tree!DiesCommitting PROVE TreeInv'
<1> DEFINE l == committing.of
           s == IF committing.why = "attempt" THEN "left" ELSE lane[l]
<1>1. /\ committing \in Commits /\ l \in Crew
      /\ lane' = [lane EXCEPT ![l] = s] /\ committing' = Tree!Idle
      /\ UNCHANGED <<disk, staged, has, omit, integration, past>>
  BY IdleIsNoCommit DEF TreeInv, TreeTyped, Tree!DiesCommitting
<1>2. lane[l] = IF committing.why = "attempt" THEN "handed" ELSE "planned"
  BY <1>1, IdleIsNoCommit DEF TreeInv, CommitIsOfItsLane
<1>3. s \in {"left", "planned"} /\ lane[l] \notin {"refused", "complete"}
  BY <1>2
<1> HIDE DEF l, s
<1>4. /\ lane' \in [Crew -> LaneStates] /\ lane'[l] = s
      /\ \A k \in Crew \ {l} : lane'[k] = lane[k]
  BY <1>1, <1>3 DEF TreeInv, TreeTyped, LaneStates
<1> QED BY <1>1, <1>3, <1>4 DEF TreeInv, TreeTyped, CommitIsOfItsLane, NoiseLapsed, RefusedIsGone,
           AcceptedIsKept, Tree!RefusedWorkIsDropped, Tree!IntegratedIsWhole

\* The branches of all lanes but the omitted are merged.
LEMMA IntegrateKeepsTree ==
    ASSUME TreeInv, Tree!Integrate PROVE TreeInv'
<1>1. /\ \A l \in Crew : lane[l] = "complete"
      /\ committing = Tree!Idle
      /\ UNCHANGED <<disk, staged, has, lane, committing, omit, past>>
  BY DEF Tree!Integrate, Tree!NoCommit
<1>2. /\ integration' \in Integrations
      /\ integration'.state = "COMPLETE" => Tree!Merged(omit) \subseteq integration'.has
  <2>1. integration \in Integrations /\ \A o : Tree!Merged(o) \in Work
    BY DEF TreeInv, TreeTyped, Tree!Merged, Work
  <2>2. ASSUME integration' = [integration EXCEPT !.state = "CONFLICT", !.made = TRUE]
        PROVE  integration' \in Integrations /\ integration'.state # "COMPLETE"
    BY <2>1, <2>2 DEF Integrations
  <2>3. ASSUME NEW l \in Crew \ omit,
               integration' = [state |-> "CONFLICT", made |-> TRUE,
                               has |-> integration.has \cup Tree!Merged(omit \cup {l})]
        PROVE  integration' \in Integrations /\ integration'.state # "COMPLETE"
    BY <2>1, <2>3 DEF Integrations, Work
  <2>4. ASSUME NEW s \in {"COMPLETE", "TESTS_FAILED"},
               integration' = [state |-> s, made |-> TRUE, has |-> integration.has \cup Tree!Merged(omit)]
        PROVE  integration' \in Integrations /\ Tree!Merged(omit) \subseteq integration'.has
    BY <2>1, <2>4 DEF Integrations, Work
  <2> QED BY <2>2, <2>3, <2>4 DEF Tree!Integrate
<1>3. Tree!IntegratedIsWhole'
  BY <1>1, <1>2 DEF TreeInv, AcceptedIsKept, Tree!IntegratedIsWhole, Tree!Merged
<1> QED BY <1>1, <1>2, <1>3 DEF TreeInv, TreeTyped, CommitIsOfItsLane, NoiseLapsed, RefusedIsGone,
           AcceptedIsKept, Tree!RefusedWorkIsDropped

\* The exclude file is rewritten.
LEMMA TamperKeepsTree ==
    ASSUME TreeInv, Tree!Tamper PROVE TreeInv'
<1>1. /\ UNCHANGED <<disk, staged, has, lane, committing, omit, integration>>
      /\ past' \in Histories /\ past'.accepted = past.accepted /\ past'.refused = past.refused
      /\ past'.smuggled = past.smuggled /\ past'.unreset = past.unreset /\ past'.missed = past.missed
      /\ past.lapsed => past'.lapsed
      /\ committing # Tree!Idle /\ committing.step = "add" => past'.lapsed
  BY DEF Tree!Tamper, Tree!NoCommit, TreeInv, TreeTyped, Histories
<1> QED BY <1>1 DEF TreeInv, TreeTyped, CommitIsOfItsLane, NoiseLapsed, RefusedIsGone,
           AcceptedIsKept, Tree!RefusedWorkIsDropped, Tree!IntegratedIsWhole

LEMMA StepKeepsTree ==
    ASSUME TreeInv, Tree!TreeNext \/ UNCHANGED TreeState PROVE TreeInv'
<1>1. CASE UNCHANGED TreeState
  BY <1>1 DEF TreeState, TreeInv, TreeTyped, CommitIsOfItsLane, NoiseLapsed, Tree!Effective,
         RefusedIsGone, AcceptedIsKept, Tree!RefusedWorkIsDropped, Tree!IntegratedIsWhole
<1> QED BY <1>1, WaitingKeepsTree, MergeKeepsTree, RunEndKeepsTree, ResetKeepsTree, VerifyKeepsTree,
        ProbeKeepsTree, AddKeepsTree, WriteKeepsTree, DyingKeepsTree, IntegrateKeepsTree,
        TamperKeepsTree DEF Tree!TreeNext

\* A lane's branch holds the work its accepted runs did and nothing else, and the integration
\* all of it, through deaths in the middle of a commit, refused runs and a shared exclude
\* file that anyone rewrites (core/orchestrator.py, workspace/worktrees.py).
THEOREM BranchesAreTheWork == Spec => []BranchesHoldTheWork
<1> DEFINE Inv == part = "tree" => TreeInv
<1>1. Init => Inv
  BY TreeStarts DEF Init
<1>2. Inv /\ [Next]_vars => Inv'
  BY OnePartMoves, StepKeepsTree
<1>3. Inv => BranchesHoldTheWork
  BY TreeImplies DEF BranchesHoldTheWork
<1> HIDE DEF Inv
<1> QED BY <1>1, <1>2, <1>3, PTL DEF Spec

=============================================================================
