-------------------------- MODULE RelayPartsProofs --------------------------
(***************************************************************************)
(* Proofs about the parts of MCSurfaces that belong to the relay - its     *)
(* command line, the ends it reaches through an interface, its readings of *)
(* the repository - for every value of the constants.  The parts share no  *)
(* state: each has an invariant of its own, and one lemma says that a step *)
(* is a step of one part and of no other.                                  *)
(***************************************************************************)
EXTENDS MCSurfaces, FiniteSetTheorems, SequenceTheorems, WellFoundedInduction, TLAPS

\* A step leaves the choice of the part alone; a part that is on takes a step of its own or none.
LEMMA OnePartMoves ==
    ASSUME [Next]_vars
    PROVE  /\ part' = part
           /\ part = "commands" => Command!CommandNext \/ UNCHANGED CommandState
           /\ part = "observation" => Observation!ObserveNext \/ UNCHANGED ObservationState
           /\ part = "api" => Api!Next \/ UNCHANGED ApiState
           /\ part = "mcp" => Mcp!Next \/ UNCHANGED McpState
           /\ part = "store" => Store!StoreNext \/ UNCHANGED StoreState
           /\ part = "plan" => Plan!PlanNext \/ UNCHANGED PlanState
           /\ part = "browser" => Browser!BrowserNext \/ UNCHANGED BrowserState
           /\ part = "mail" => Mail!MailNext \/ UNCHANGED MailState
           /\ part = "inbox" => Inbox!InboxNext \/ UNCHANGED InboxState
           /\ part = "evidence" => Evidence!EvidenceNext \/ UNCHANGED EvidenceState
           /\ part = "collector" => Collector!CollectorNext \/ UNCHANGED CollectorState
           /\ part = "tree" => Tree!TreeNext \/ UNCHANGED TreeState
<1>1. CASE UNCHANGED vars
  BY <1>1 DEF vars
<1>2. CASE Next
  BY <1>2 DEF Next, Others
<1> QED BY <1>1, <1>2

-----------------------------------------------------------------------------
(* The relay's command line.                                                 *)

AnyCeiling == Command!Ceilings \cup {Unset}
Bases == {"here", "there", Unset}
Flags == [checks : SUBSET Commanded, ceiling : AnyCeiling, noProbe : BOOLEAN, base : Bases,
          noCreate : BOOLEAN]
Policies == [exists : {TRUE}, checks : SUBSET Commanded, ceiling : AnyCeiling, probe : BOOLEAN,
             placed : BOOLEAN, base : Bases, creates : BOOLEAN]
Holding == {"starting", "created", "resuming", "recorded", "running"}
Processes == [pc : Holding \cup {"idle", "read", "done"}, flags : Flags,
              read : Policies \cup {Command!NoRow}, runs : Policies \cup {Command!NoRow}]

\* A command that runs, or is about to, holds the lock; what it wrote is the record; what a
\* resume runs under comes from the row it read.
CommandInv ==
    /\ row \in Policies \cup {Command!NoRow}
    /\ command \in [Commands -> Processes]
    /\ \A p \in Commands : command[p].pc \in Holding => lock = p
    /\ \A p \in Commands : command[p].pc \in {"starting", "created"} =>
           command[p].read = Command!NoRow /\ command[p].runs \in Policies
    /\ \A p \in Commands : command[p].pc = "read" => command[p].read \in Policies
    /\ \A p \in Commands : command[p].pc \in {"resuming", "recorded", "running"} =>
           /\ command[p].runs \in Policies
           /\ command[p].read # Command!NoRow =>
                  command[p].runs = Command!Resumed(command[p].flags, command[p].read)
    /\ \A p \in Commands : command[p].pc \in {"recorded", "running"} => row = command[p].runs
    /\ \A p \in Commands : command[p].pc = "running" => Command!Overrides(p) \subseteq overrides

LEMMA NoRowIsNone == Command!NoRow \notin Policies
BY DEF Command!NoRow, Policies

LEMMA CommandImplies ==
    ASSUME CommandInv PROVE Command!RecordIsWhatRuns /\ Command!ResumeKeepsPolicy
<1>1. Command!RecordIsWhatRuns
  BY DEF CommandInv, Holding, Command!RecordIsWhatRuns, Command!CmdAt
<1>2. Command!ResumeKeepsPolicy
  <2> SUFFICES ASSUME NEW p \in Commands, command[p].pc = "running", command[p].read # Command!NoRow
               PROVE  LET c == command[p] IN
                      /\ c.flags.ceiling = Unset => c.runs.ceiling = c.read.ceiling
                      /\ c.flags.base = Unset /\ c.read.placed => c.runs.base = c.read.base
                      /\ c.runs.base # c.read.base /\ c.read.placed =>
                             [was |-> c.read.base, used |-> c.runs.base] \in overrides
    BY DEF Command!ResumeKeepsPolicy, Command!CmdAt
  <2>1. /\ command[p].runs = Command!Resumed(command[p].flags, command[p].read)
        /\ Command!Overrides(p) \subseteq overrides
    BY DEF CommandInv
  <2>2. /\ command[p].runs.ceiling = IF command[p].flags.ceiling # Unset THEN command[p].flags.ceiling
                                     ELSE command[p].read.ceiling
        /\ command[p].runs.base = IF command[p].flags.base # Unset \/ ~command[p].read.placed
                                  THEN command[p].flags.base ELSE command[p].read.base
    BY <2>1 DEF Command!Resumed
  <2>3. ASSUME command[p].runs.base # command[p].read.base, command[p].read.placed
        PROVE  [was |-> command[p].read.base, used |-> command[p].runs.base] \in Command!Overrides(p)
    <3>1. command[p].flags.base # Unset /\ command[p].flags.base # command[p].read.base
      BY <2>2, <2>3
    <3>2. 1 \in {y \in {1} : /\ command[p].read # Command!NoRow /\ command[p].read.placed
                             /\ command[p].flags.base # Unset
                             /\ command[p].flags.base # command[p].read.base}
      BY <2>3, <3>1
    <3> QED BY <3>2 DEF Command!Overrides
  <2> QED BY <2>1, <2>2, <2>3
<1> QED BY <1>1, <1>2

LEMMA CommandStarts == ASSUME Command!CommandInit PROVE CommandInv
<1>1. Command!NoCommand \in Processes /\ Command!NoCommand.pc = "idle"
  BY DEF Command!NoCommand, Command!NoFlags, Processes, Flags, AnyCeiling, Bases, Holding
<1> QED BY <1>1 DEF Command!CommandInit, CommandInv, Holding

\* What a process becomes, and that the others stay what they are.
LEMMA ProcessMoves ==
    ASSUME CommandInv, NEW p \in Commands, NEW c \in Processes,
           command' = [command EXCEPT ![p] = c]
    PROVE  /\ command' \in [Commands -> Processes] /\ command'[p] = c
           /\ \A q \in Commands \ {p} : command'[q] = command[q]
           /\ \A q \in Commands \ {p} : Command!Overrides(q)' = Command!Overrides(q)
<1>1. /\ command' \in [Commands -> Processes] /\ command'[p] = c
      /\ \A q \in Commands \ {p} : command'[q] = command[q]
  BY DEF CommandInv
<1> QED BY <1>1 DEF Command!Overrides

\* A process that leaves is done; one that only goes on keeps the rest of what it is.
LEMMA LeavingProcess ==
    ASSUME CommandInv, NEW p \in Commands, Command!Leaves(p)
    PROVE  \E c \in Processes : c.pc = "done" /\ command' = [command EXCEPT ![p] = c]
<1> DEFINE c == [Command!NoCommand EXCEPT !.pc = "done"]
<1>1. c \in Processes /\ c.pc = "done"
  BY DEF Command!NoCommand, Command!NoFlags, Processes, Flags, AnyCeiling, Bases, Holding
<1>2. command' = [command EXCEPT ![p] = c]
  BY DEF Command!Leaves
<1> HIDE DEF c
<1> QED BY <1>1, <1>2

LEMMA GoingProcess ==
    ASSUME CommandInv, NEW p \in Commands,
           NEW to \in Holding \cup {"idle", "read", "done"}, Command!Goes(p, to)
    PROVE  \E c \in Processes :
               /\ c.pc = to /\ c.flags = command[p].flags /\ c.read = command[p].read
               /\ c.runs = command[p].runs /\ command' = [command EXCEPT ![p] = c]
<1> DEFINE c == [command[p] EXCEPT !.pc = to]
<1>1. command[p] \in Processes /\ command \in [Commands -> Processes]
  BY DEF CommandInv
<1>2. /\ c \in Processes /\ c.pc = to /\ c.flags = command[p].flags /\ c.read = command[p].read
      /\ c.runs = command[p].runs
  BY <1>1 DEF Processes
<1>3. command' = [command EXCEPT ![p] = c]
  BY <1>1 DEF Command!Goes
<1> HIDE DEF c
<1> QED BY <1>2, <1>3

\* A process leaves: refused, stopped, dead, or turned away by the lock.
LEMMA LeavingKeepsCommand ==
    ASSUME CommandInv, NEW p \in Commands, Command!Leaves(p), UNCHANGED <<row, overrides>>,
           \/ lock' = lock /\ lock # p
           \/ lock' = Command!Nobody /\ (lock = p \/ \A q \in Commands : lock # q)
    PROVE  CommandInv'
<1>1. PICK c \in Processes : c.pc = "done" /\ command' = [command EXCEPT ![p] = c]
  BY LeavingProcess
<1>2. /\ command' \in [Commands -> Processes] /\ command'[p].pc = "done"
      /\ \A q \in Commands \ {p} : command'[q] = command[q]
      /\ \A q \in Commands \ {p} : Command!Overrides(q)' = Command!Overrides(q)
  BY <1>1, ProcessMoves
<1>3. \A q \in Commands : command'[q].pc \in Holding => lock' = q
  BY <1>2 DEF CommandInv, Holding
<1>4. \A q \in Commands : command'[q].pc # "done" => q # p
  BY <1>2
<1> QED BY <1>2, <1>3, <1>4 DEF CommandInv

\* A start takes the lock, and writes the row.
LEMMA StartKeepsCommand ==
    ASSUME CommandInv, NEW p \in Commands, Command!Start(p) \/ Command!Create(p) PROVE CommandInv'
<1>1. ASSUME NEW f \in Command!StartFlags, command[p].pc = "idle", lock = Command!Nobody, lock' = p,
             UNCHANGED <<row, overrides>>,
             command' = [command EXCEPT ![p] = [pc |-> "starting", flags |-> f, read |-> Command!NoRow,
                                                runs |-> Command!Typed(f)]]
      PROVE  CommandInv'
  <2> DEFINE c == [pc |-> "starting", flags |-> f, read |-> Command!NoRow, runs |-> Command!Typed(f)]
  <2>1. f \in Flags
    <3>1. PICK k \in SUBSET Commanded, n \in Command!Ceilings, x \in BOOLEAN :
              f = Command!StartWith(k, n, x)
      BY DEF Command!StartFlags
    <3> QED BY <3>1 DEF Command!StartWith, Flags, AnyCeiling, Bases
  <2>2. Command!Typed(f) \in Policies
    BY <2>1 DEF Command!Typed, Flags, Policies
  <2>3. /\ c \in Processes /\ c.pc = "starting" /\ c.read = Command!NoRow /\ c.runs \in Policies
    BY <2>1, <2>2 DEF Processes, Holding
  <2>4. command' = [command EXCEPT ![p] = c]
    BY <1>1
  <2> HIDE DEF c
  <2>5. /\ command' \in [Commands -> Processes] /\ command'[p] = c
        /\ \A q \in Commands \ {p} : command'[q] = command[q]
        /\ \A q \in Commands \ {p} : Command!Overrides(q)' = Command!Overrides(q)
    BY <2>3, <2>4, ProcessMoves
  <2>6. \A q \in Commands \ {p} : command[q].pc \notin Holding
    BY <1>1, CommandsAssumption DEF CommandInv, Command!Nobody
  <2> QED BY <1>1, <2>3, <2>5, <2>6 DEF CommandInv, Holding
<1>2. ASSUME command[p].pc = "idle", lock # Command!Nobody, Command!Leaves(p),
             UNCHANGED <<lock, row, overrides>>
      PROVE  CommandInv'
  <2>1. CASE lock # p
    BY <1>2, <2>1, LeavingKeepsCommand
  <2>2. CASE lock = p
    <3>1. PICK c \in Processes : c.pc = "done" /\ command' = [command EXCEPT ![p] = c]
      BY <1>2, LeavingProcess
    <3>2. /\ command' \in [Commands -> Processes] /\ command'[p].pc = "done"
          /\ \A q \in Commands \ {p} : command'[q] = command[q]
          /\ \A q \in Commands \ {p} : Command!Overrides(q)' = Command!Overrides(q)
      BY <3>1, ProcessMoves
    <3>3. \A q \in Commands : command'[q].pc # "done" => q # p
      BY <3>2
    <3>4. \A q \in Commands : command'[q].pc \in Holding => lock = q
      BY <3>2 DEF CommandInv, Holding
    <3> QED BY <1>2, <3>2, <3>3, <3>4 DEF CommandInv
  <2> QED BY <2>1, <2>2
<1>3. ASSUME command[p].pc = "starting", UNCHANGED <<lock, overrides>>, row = Command!NoRow,
             row' = Command!Unplaced(command[p].runs), Command!Goes(p, "created")
      PROVE  CommandInv'
  <2>1. PICK c \in Processes :
            /\ c.pc = "created" /\ c.read = command[p].read
            /\ c.runs = command[p].runs /\ command' = [command EXCEPT ![p] = c]
    BY <1>3, GoingProcess DEF Holding
  <2>2. /\ command' \in [Commands -> Processes] /\ command'[p] = c
        /\ \A q \in Commands \ {p} : command'[q] = command[q]
        /\ \A q \in Commands \ {p} : Command!Overrides(q)' = Command!Overrides(q)
    BY <2>1, ProcessMoves
  <2>3. command[p].runs \in Policies /\ lock = p /\ command[p].read = Command!NoRow
    BY <1>3 DEF CommandInv, Holding
  <2>4. row' \in Policies
    BY <1>3, <2>3 DEF Command!Unplaced, Policies, Bases
  <2>5. \A q \in Commands \ {p} : command[q].pc \notin Holding
    BY <2>3 DEF CommandInv
  <2> QED BY <1>3, <2>1, <2>2, <2>3, <2>4, <2>5 DEF CommandInv, Holding
<1>4. ASSUME command[p].pc = "starting", Command!Leaves(p), lock' = Command!Nobody,
             UNCHANGED <<row, overrides>>
      PROVE  CommandInv'
  <2>1. lock = p
    BY <1>4 DEF CommandInv, Holding
  <2> QED BY <1>4, <2>1, LeavingKeepsCommand
<1> QED BY <1>1, <1>2, <1>3, <1>4 DEF Command!Start, Command!Create, Command!CmdAt

\* A resume reads the row, and takes the lock.
LEMMA ResumeKeepsCommand ==
    ASSUME CommandInv, NEW p \in Commands,
           Command!Resume(p) \/ (Command!Hold(p) /\ lock = Command!Nobody)
    PROVE CommandInv'
<1>1. ASSUME NEW f \in Command!ResumeFlags, command[p].pc = "idle", row # Command!NoRow,
             UNCHANGED <<row, lock, overrides>>,
             command' = [command EXCEPT ![p] = [pc |-> "read", flags |-> f, read |-> row,
                                                runs |-> Command!NoRow]]
      PROVE  CommandInv'
  <2> DEFINE c == [pc |-> "read", flags |-> f, read |-> row, runs |-> Command!NoRow]
  <2>1. f \in Flags
    <3>1. Command!NoFlags \in Flags
      BY DEF Command!NoFlags, Flags, AnyCeiling, Bases
    <3>2. /\ [Command!NoFlags EXCEPT !.checks = Commanded] \in Flags
          /\ [Command!NoFlags EXCEPT !.noProbe = TRUE] \in Flags
          /\ [Command!NoFlags EXCEPT !.base = "there"] \in Flags
          /\ [Command!NoFlags EXCEPT !.noCreate = TRUE] \in Flags
          /\ \A n \in Command!Ceilings : [Command!NoFlags EXCEPT !.ceiling = n] \in Flags
      BY <3>1 DEF Flags, AnyCeiling, Bases
    <3> QED BY <3>1, <3>2 DEF Command!ResumeFlags
  <2>2. row \in Policies
    BY <1>1 DEF CommandInv
  <2>3. c \in Processes /\ c.pc = "read" /\ c.read \in Policies
    BY <2>1, <2>2 DEF Processes
  <2>4. command' = [command EXCEPT ![p] = c]
    BY <1>1
  <2> HIDE DEF c
  <2>5. /\ command' \in [Commands -> Processes] /\ command'[p] = c
        /\ \A q \in Commands \ {p} : command'[q] = command[q]
        /\ \A q \in Commands \ {p} : Command!Overrides(q)' = Command!Overrides(q)
    BY <2>3, <2>4, ProcessMoves
  <2> QED BY <1>1, <2>3, <2>5 DEF CommandInv, Holding
<1>2. ASSUME command[p].pc = "read", lock = Command!Nobody, lock' = p, UNCHANGED <<row, overrides>>,
             command' = [command EXCEPT ![p].pc = "resuming",
                            ![p].runs = Command!Resumed(command[p].flags, command[p].read)]
      PROVE  CommandInv'
  <2> DEFINE r == Command!Resumed(command[p].flags, command[p].read)
             c == [command[p] EXCEPT !.pc = "resuming", !.runs = r]
  <2>1. command[p] \in Processes /\ command[p].flags \in Flags /\ command[p].read \in Policies
    BY <1>2 DEF CommandInv, Processes
  <2>2. r \in Policies
    BY <2>1 DEF Command!Resumed, Command!Believes, Flags, Policies
  <2>3. command' = [command EXCEPT ![p] = [command[p] EXCEPT !.pc = "resuming", !.runs = r]]
    <3> HIDE DEF r
    <3>1. command' = [command EXCEPT ![p].pc = "resuming", ![p].runs = r]
      BY <1>2 DEF r
    <3> QED BY <3>1 DEF CommandInv
  <2> HIDE DEF r
  <2>4. /\ c \in Processes /\ c.pc = "resuming" /\ c.read = command[p].read
        /\ c.flags = command[p].flags /\ c.runs = r
    BY <2>1, <2>2 DEF Processes, Holding
  <2> HIDE DEF c
  <2>5. command' = [command EXCEPT ![p] = c]
    BY <2>3 DEF c
  <2>6. /\ command' \in [Commands -> Processes] /\ command'[p] = c
        /\ \A q \in Commands \ {p} : command'[q] = command[q]
        /\ \A q \in Commands \ {p} : Command!Overrides(q)' = Command!Overrides(q)
    BY <2>4, <2>5, ProcessMoves
  <2>7. \A q \in Commands \ {p} : command[q].pc \notin Holding
    BY <1>2, CommandsAssumption DEF CommandInv, Command!Nobody
  <2>8. c.runs = Command!Resumed(c.flags, c.read)
    BY <2>4 DEF r
  <2> QED BY <1>2, <2>2, <2>4, <2>6, <2>7, <2>8 DEF CommandInv, Holding
<1> QED BY <1>1, <1>2 DEF Command!Resume, Command!Hold, Command!CmdAt

\* The shape is recorded and an override logged: what runs is what the record says.
LEMMA RecordingKeepsCommand ==
    ASSUME CommandInv, NEW p \in Commands, Command!RecordShape(p) \/ Command!LogOverride(p)
    PROVE  CommandInv'
<1>1. PICK to \in {"recorded", "running"} :
          /\ Command!Goes(p, to) /\ lock' = lock
          /\ command[p].pc \in {"created", "resuming", "recorded"}
          /\ row' = command[p].runs
          /\ overrides \subseteq overrides'
          /\ to = "running" => Command!Overrides(p) \subseteq overrides'
  <2>1. CASE Command!RecordShape(p)
    BY <2>1 DEF Command!RecordShape, Command!CmdAt
  <2>2. CASE Command!LogOverride(p)
    <3>1. row = command[p].runs
      BY <2>2 DEF CommandInv, Command!LogOverride, Command!CmdAt
    <3> QED BY <2>2, <3>1 DEF Command!LogOverride, Command!CmdAt
  <2> QED BY <2>1, <2>2
<1>2. PICK c \in Processes :
          /\ c.pc = to /\ c.flags = command[p].flags /\ c.read = command[p].read
          /\ c.runs = command[p].runs /\ command' = [command EXCEPT ![p] = c]
  BY <1>1, GoingProcess DEF Holding
<1>3. /\ command' \in [Commands -> Processes] /\ command'[p] = c
      /\ \A q \in Commands \ {p} : command'[q] = command[q]
      /\ \A q \in Commands \ {p} : Command!Overrides(q)' = Command!Overrides(q)
  BY <1>2, ProcessMoves
<1>4. Command!Overrides(p)' = Command!Overrides(p)
  BY <1>2, <1>3 DEF Command!Overrides
<1>5. /\ lock = p /\ c.runs \in Policies
      /\ c.read # Command!NoRow => c.runs = Command!Resumed(c.flags, c.read)
  BY <1>1, <1>2 DEF CommandInv, Holding
<1>6. \A q \in Commands \ {p} : command[q].pc \notin Holding
  BY <1>5 DEF CommandInv
<1>7. \A q \in Commands \ {p} : command'[q].pc \notin Holding
  BY <1>3, <1>6
<1> QED BY <1>1, <1>2, <1>3, <1>4, <1>5, <1>7 DEF CommandInv, Holding

LEMMA StepKeepsCommand ==
    ASSUME CommandInv, Command!CommandNext \/ UNCHANGED CommandState PROVE CommandInv'
<1>1. CASE UNCHANGED CommandState
  BY <1>1 DEF CommandState, CommandInv, Command!Overrides
<1>2. ASSUME NEW p \in Commands, Command!Hold(p), lock # Command!Nobody PROVE CommandInv'
  <2>1. Command!Leaves(p) /\ UNCHANGED <<lock, row, overrides>>
    BY <1>2 DEF Command!Hold
  <2>2. PICK c \in Processes : c.pc = "done" /\ command' = [command EXCEPT ![p] = c]
    BY <2>1, LeavingProcess
  <2>3. /\ command' \in [Commands -> Processes] /\ command'[p].pc = "done"
        /\ \A q \in Commands \ {p} : command'[q] = command[q]
        /\ \A q \in Commands \ {p} : Command!Overrides(q)' = Command!Overrides(q)
    BY <2>2, ProcessMoves
  <2>4. \A q \in Commands : command'[q].pc # "done" => q # p
    BY <2>3
  <2>5. \A q \in Commands : command'[q].pc \in Holding => lock = q
    BY <2>3 DEF CommandInv, Holding
  <2> QED BY <2>1, <2>3, <2>4, <2>5 DEF CommandInv
<1>3. ASSUME NEW p \in Commands, Command!Refused(p) \/ Command!Stops(p) PROVE CommandInv'
  <2>1. lock = p
    BY <1>3 DEF CommandInv, Holding, Command!Refused, Command!Stops, Command!CmdAt
  <2> QED BY <1>3, <2>1, LeavingKeepsCommand DEF Command!Refused, Command!Stops
<1>4. ASSUME NEW p \in Commands, Command!CommandDies(p) PROVE CommandInv'
  BY <1>4, LeavingKeepsCommand DEF Command!CommandDies
<1> QED BY <1>1, <1>2, <1>3, <1>4, StartKeepsCommand, ResumeKeepsCommand, RecordingKeepsCommand
        DEF Command!CommandNext

\* A relay resumed from the command line runs alone, under what its record says, and that is
\* what the relay had but for the flags typed, each of which is logged (relay/cli.py resume).
THEOREM ResumeIsInherited == Spec => []ResumeInherits
<1> DEFINE Inv == part = "commands" => CommandInv
<1>1. Init => Inv
  BY CommandStarts DEF Init
<1>2. Inv /\ [Next]_vars => Inv'
  BY OnePartMoves, StepKeepsCommand
<1>3. Inv => ResumeInherits
  BY CommandImplies DEF ResumeInherits
<1> HIDE DEF Inv
<1> QED BY <1>1, <1>2, <1>3, PTL DEF Spec

-----------------------------------------------------------------------------
(* The ends reached through an interface.                                    *)

ChatTurns == [role : {"user", "assistant"}, of : Nat, whole : BOOLEAN]
Messages == [role : {"user", "assistant"}, of : Nat, done : BOOLEAN]
Replies == [of : Nat, whole : BOOLEAN, parts : SUBSET Nat]

ApiTyped ==
    /\ apiTurn \in Nat /\ flying \subseteq Nat
    /\ chat \in Seq(ChatTurns)
    /\ session \in Seq(Messages)
    /\ posted \in [Api!Turns -> Nat]
    /\ recorded \in [Api!Turns -> Replies] /\ got \in Replies
    /\ pc \in {"send", "sent", "ask"} => apiPhase = "delivering"
    /\ pc \in {"wait", "list", "replied"} => apiPhase = "awaiting"
    /\ pc = "list" => Api!ToAgent(apiTurn)

PromptOf(t, a) == session[a].role = "user" /\ session[a].of = t

\* What the agent was given is on its way or in its session; a later turn has not been, and
\* the present one has not before it is sent, unless a resume could not see it.
GivenOnce ==
    /\ \A t \in Api!Turns : posted[t] > 0 <=> t \in flying \/ Api!Has(t)
    /\ \A t \in Api!Turns : t > apiTurn \/ ~Api!ToAgent(t) => posted[t] = 0
    /\ apiTurn \in Api!Turns \ blind /\ (apiPhase = "queued" \/ pc = "send") => posted[apiTurn] = 0
    /\ Api!WorkedOnce

\* While the provider's answer is awaited its packet is the last of the transcript, unless a
\* driver died over an answer that it had saved there.
PacketIsLast ==
    /\ ~Api!ToAgent(apiTurn) /\ (apiPhase = "awaiting" \/ pc = "sent") => chat # <<>>
    /\ ~Api!ToAgent(apiTurn) /\ apiTurn \notin torn =>
           /\ (apiPhase = "awaiting" \/ pc = "sent") /\ pc # "replied" =>
                  chat[Len(chat)].role = "user" /\ chat[Len(chat)].of = apiTurn
           /\ pc = "replied" => got.of = apiTurn /\ got.whole
    /\ Api!WholeAnswers

\* Each part of a reply lies in the session behind a prompt of its turn.
Follows(parts, t) ==
    \A i \in parts : i \in 1..Len(session) /\ \E a \in 1..i - 1 : PromptOf(t, a)

\* A prompt comes after all that was recorded for an earlier turn.
PartsFollow ==
    /\ pc = "replied" => Follows(got.parts, apiTurn)
    /\ \A t \in Api!Turns : Follows(recorded[t].parts, t)
    /\ \A t \in Api!Turns : t > apiTurn => recorded[t].parts = {}
    /\ \A t, u \in Api!Turns : t < u =>
           \A i \in recorded[t].parts : \A a \in 1..Len(session) : PromptOf(u, a) => i < a

ApiInv == ApiTyped /\ GivenOnce /\ PacketIsLast /\ PartsFollow

LEMMA ApiImplies ==
    ASSUME ApiInv
    PROVE  Api!WorkedOnce /\ Api!WholeAnswers /\ Api!AnswersFollowTheirPrompt
<1>1. ASSUME NEW t \in Api!Turns, NEW u \in Api!Turns, t < u
      PROVE  recorded[t].parts \cap recorded[u].parts = {}
  <2> SUFFICES ASSUME NEW i \in recorded[t].parts, i \in recorded[u].parts PROVE FALSE
    OBVIOUS
  <2>1. PICK a \in 1..i - 1 : PromptOf(u, a)
    BY DEF ApiInv, PartsFollow, Follows
  <2>2. i \in 1..Len(session) /\ Len(session) \in Nat
    BY DEF ApiInv, ApiTyped, PartsFollow, Follows
  <2>3. i < a
    BY <1>1, <2>1, <2>2 DEF ApiInv, PartsFollow
  <2> QED BY <2>1, <2>2, <2>3
<1>2. \A t, u \in Api!Turns : u # t => recorded[u].parts \cap recorded[t].parts = {}
  <2>1. \A t, u \in Api!Turns : u # t => u < t \/ t < u
    BY DEF Api!Turns
  <2> QED BY <1>1, <2>1
<1>3. Api!AnswersFollowTheirPrompt
  BY <1>2 DEF Api!AnswersFollowTheirPrompt, ApiInv, PartsFollow, Follows, PromptOf
<1> QED BY <1>3 DEF ApiInv, GivenOnce, PacketIsLast

LEMMA ApiStarts == ASSUME Api!Init PROVE ApiInv
<1>1. \A t \in Api!Turns : recorded[t] = Api!Nothing /\ posted[t] = 0
  BY DEF Api!Init
<1>2. Api!Nothing \in Replies /\ Api!Nothing.parts = {}
  BY DEF Api!Nothing, Replies
<1>3. ApiTyped
  <2>1. <<>> \in Seq(ChatTurns)
        /\ <<>> \in Seq(Messages)
    OBVIOUS
  <2>2. posted \in [Api!Turns -> Nat] /\ recorded \in [Api!Turns -> Replies]
    BY <1>2 DEF Api!Init
  <2> QED BY <1>2, <2>1, <2>2, Zenon DEF ApiTyped, Api!Init
<1>4. GivenOnce
  <2>0. session = <<>>
    BY DEF Api!Init
  <2>1. \A t : ~Api!Has(t)
    BY <2>0 DEF Api!Has
  <2>2. flying = {}
    BY DEF Api!Init
  <2> QED BY <1>1, <2>1, <2>2 DEF GivenOnce, Api!WorkedOnce
<1>5. PacketIsLast
  BY <1>1 DEF PacketIsLast, Api!Init, Api!WholeAnswers
<1>6. PartsFollow
  BY <1>1, <1>2 DEF PartsFollow, Api!Init, Follows
<1> QED BY <1>3, <1>4, <1>5, <1>6 DEF ApiInv

\* The session only grows, and a message keeps its author.
Longer ==
    /\ Len(session) <= Len(session') /\ Len(session') \in Nat
    /\ \A i \in 1..Len(session) : session'[i].role = session[i].role /\ session'[i].of = session[i].of

LEMMA FollowsStays ==
    ASSUME ApiTyped, Longer, NEW S, NEW t, Follows(S, t) PROVE Follows(S, t)'
<1>1. Len(session) \in Nat
  BY DEF ApiTyped
<1> QED BY <1>1 DEF Follows, Longer, PromptOf

\* The server's own steps.
LEMMA ServerSteps ==
    ASSUME ApiInv, Longer,
           session' \in Seq(Messages), flying' \subseteq flying,
           \A t \in Api!Turns : t \in flying' \/ Api!Has(t)' <=> t \in flying \/ Api!Has(t),
           UNCHANGED <<apiTurn, apiPhase, recorded, chat, pc, got, posted, torn, blind>>
    PROVE  ApiInv'
<1>1. ApiTyped'
  BY DEF ApiInv, ApiTyped
<1>2. GivenOnce'
  BY DEF ApiInv, GivenOnce, Api!WorkedOnce
<1>3. PacketIsLast'
  BY DEF ApiInv, PacketIsLast, Api!WholeAnswers
<1>4. ASSUME NEW t \in Api!Turns, NEW u \in Api!Turns, t < u, NEW i \in recorded[t].parts,
             NEW a \in 1..Len(session'), PromptOf(u, a)'
      PROVE  i < a
  <2>1. i \in 1..Len(session) /\ Len(session) \in Nat
    BY DEF ApiInv, ApiTyped, PartsFollow, Follows
  <2>2. CASE a \in 1..Len(session)
    <3>1. PromptOf(u, a)
      BY <1>4, <2>2 DEF Longer, PromptOf
    <3> QED BY <1>4, <2>2, <3>1 DEF ApiInv, PartsFollow
  <2> QED BY <2>1, <2>2 DEF Longer
<1>5. PartsFollow'
  <2>1. \A t \in Api!Turns : Follows(recorded[t].parts, t)'
    <3>1. \A t \in Api!Turns : Follows(recorded[t].parts, t)
      BY DEF ApiInv, PartsFollow
    <3>2. ApiTyped
      BY DEF ApiInv
    <3> QED BY <3>1, <3>2, FollowsStays DEF Follows
  <2>2. pc = "replied" => Follows(got.parts, apiTurn)'
    BY FollowsStays DEF ApiInv, PartsFollow, Follows
  <2> QED BY <1>4, <2>1, <2>2 DEF ApiInv, PartsFollow
<1> QED BY <1>1, <1>2, <1>3, <1>5 DEF ApiInv

\* The driver's steps that deliver nothing and take nothing in.
LEMMA IdleSteps ==
    ASSUME ApiInv,
           UNCHANGED <<apiTurn, apiPhase, recorded, chat, session, flying, posted, blind>>,
           torn \subseteq torn', got' \in {got, Api!Nothing},
           pc' \notin {"send", "sent", "replied"},
           pc' = "ask" => apiPhase = "delivering",
           pc' \in {"wait", "list"} => apiPhase = "awaiting",
           pc' = "list" => Api!ToAgent(apiTurn),
           pc = "replied" => Api!ToAgent(apiTurn) \/ apiTurn \in torn'
    PROVE  ApiInv'
<1>1. ApiTyped'
  <2>1. Api!Nothing \in Replies
    BY DEF Api!Nothing, Replies
  <2> QED BY <2>1 DEF ApiInv, ApiTyped
<1>2. GivenOnce'
  BY DEF ApiInv, GivenOnce, Api!WorkedOnce, Api!Has
<1>3. PacketIsLast'
  BY DEF ApiInv, PacketIsLast, Api!WholeAnswers
<1>4. PartsFollow'
  BY DEF ApiInv, PartsFollow, Follows, PromptOf
<1> QED BY <1>1, <1>2, <1>3, <1>4 DEF ApiInv

\* Delivering a turn.
LEMMA DeliverySteps ==
    ASSUME ApiInv, Api!Begin \/ Api!SendChat \/ Api!Post \/ Api!Sent
    PROVE  ApiInv'
<1> USE DEF ApiInv
<1>1. CASE Api!Begin
  <2> USE <1>1 DEF Api!Begin, Api!server, Api!history
  <2>1. ApiTyped'
    BY DEF ApiTyped, Api!Goto
  <2>2. GivenOnce'
    BY DEF GivenOnce, Api!WorkedOnce, Api!Has, Api!Goto
  <2>3. PacketIsLast'
    BY DEF PacketIsLast, Api!WholeAnswers, Api!Goto
  <2>4. PartsFollow'
    BY DEF PartsFollow, Follows, PromptOf, Api!Goto
  <2> QED BY <2>1, <2>2, <2>3, <2>4
<1>2. CASE Api!SendChat
  <2> DEFINE m == [role |-> "user", of |-> apiTurn, whole |-> TRUE]
  <2>0. /\ chat' = Append(chat, m) /\ pc' = "sent" /\ pc = "send"
        /\ UNCHANGED <<apiTurn, apiPhase, recorded, session, flying, posted, got, torn, blind>>
    BY <1>2 DEF Api!SendChat, Api!ledger, Api!server, Api!history, Api!Goto
  <2>1. m \in ChatTurns
    BY DEF ApiTyped, ChatTurns
  <2>2. /\ chat' \in Seq(ChatTurns)
        /\ Len(chat') = Len(chat) + 1 /\ chat'[Len(chat')] = m /\ Len(chat) \in Nat
    BY <2>0, <2>1 DEF ApiTyped
  <2>3. m.role = "user" /\ m.of = apiTurn
    OBVIOUS
  <2> HIDE DEF m
  <2>4. ApiTyped'
    BY <2>0, <2>2 DEF ApiTyped
  <2>5. GivenOnce'
    BY <2>0 DEF GivenOnce, Api!WorkedOnce, Api!Has
  <2>6. chat' # <<>>
    BY <2>2
  <2>7. PacketIsLast'
    BY <2>0, <2>2, <2>3, <2>6 DEF PacketIsLast, Api!WholeAnswers
  <2>8. PartsFollow'
    BY <2>0 DEF PartsFollow, Follows, PromptOf
  <2> QED BY <2>4, <2>5, <2>7, <2>8
<1>3. CASE Api!Post
  <2>0. /\ pc = "send" /\ pc' \in {"sent", "over"} /\ apiPhase = "delivering" /\ Api!ToAgent(apiTurn)
        /\ UNCHANGED <<apiTurn, apiPhase, recorded, chat, session, got, torn, blind>>
        /\ \/ UNCHANGED <<posted, flying>>
           \/ /\ posted' = [posted EXCEPT ![apiTurn] = @ + 1]
              /\ flying' = flying \cup {apiTurn}
    BY <1>3 DEF Api!Post, Api!Posts, Api!Goto, Api!ledger, Api!history, ApiTyped
  <2>1. ApiTyped'
    <3>1. posted' \in [Api!Turns -> Nat]
      <4>1. posted \in [Api!Turns -> Nat]
        BY DEF ApiTyped
      <4>2. CASE apiTurn \in Api!Turns
        BY <2>0, <4>1, <4>2
      <4>3. CASE apiTurn \notin Api!Turns
        <5>1. [posted EXCEPT ![apiTurn] = @ + 1] = posted
          BY <4>1, <4>3
        <5> QED BY <2>0, <4>1, <5>1
      <4> QED BY <4>2, <4>3
    <3> QED BY <2>0, <3>1 DEF ApiTyped
  <2>2. GivenOnce'
    <3>1. \A t \in Api!Turns : t # apiTurn => posted'[t] = posted[t] /\ (t \in flying' <=> t \in flying)
      BY <2>0 DEF ApiTyped
    <3>2. apiTurn \in Api!Turns =>
             \/ posted'[apiTurn] = posted[apiTurn] /\ (apiTurn \in flying' <=> apiTurn \in flying)
             \/ posted'[apiTurn] = posted[apiTurn] + 1 /\ apiTurn \in flying'
      BY <2>0 DEF ApiTyped
    <3>3. \A t : Api!Has(t)' <=> Api!Has(t)
      BY <2>0 DEF Api!Has
    <3>4. \A t \in Api!Turns : posted[t] \in Nat /\ posted'[t] \in Nat
      BY <2>1 DEF ApiTyped
    <3>5. \A t \in Api!Turns : posted'[t] > 0 <=> t \in flying' \/ Api!Has(t)'
      <4> SUFFICES ASSUME NEW t \in Api!Turns PROVE posted'[t] > 0 <=> t \in flying' \/ Api!Has(t)'
        OBVIOUS
      <4>1. posted[t] > 0 <=> t \in flying \/ Api!Has(t)
        BY DEF GivenOnce
      <4> QED BY <3>1, <3>2, <3>3, <3>4, <4>1
    <3>6. \A t \in Api!Turns : t > apiTurn \/ ~Api!ToAgent(t) => t # apiTurn
      BY <2>0 DEF ApiTyped
    <3>7. \A t \in Api!Turns \ blind : posted'[t] <= 1
      BY <2>0, <3>1, <3>2, <3>4 DEF GivenOnce, Api!WorkedOnce
    <3>8. pc' # "send" /\ apiPhase' # "queued"
      BY <2>0
    <3> QED BY <2>0, <3>1, <3>5, <3>6, <3>7, <3>8 DEF GivenOnce, Api!WorkedOnce
  <2>3. PacketIsLast'
    BY <2>0 DEF PacketIsLast, Api!WholeAnswers
  <2>4. PartsFollow'
    BY <2>0 DEF PartsFollow, Follows, PromptOf
  <2> QED BY <2>1, <2>2, <2>3, <2>4
<1>4. CASE Api!Sent
  <2> USE <1>4 DEF Api!Sent, Api!server, Api!history, Api!Goto
  <2>1. ApiTyped'
    BY DEF ApiTyped
  <2>2. GivenOnce'
    BY DEF GivenOnce, Api!WorkedOnce, Api!Has
  <2>3. PacketIsLast'
    BY DEF PacketIsLast, Api!WholeAnswers
  <2>4. PartsFollow'
    BY DEF PartsFollow, Follows, PromptOf
  <2> QED BY <2>1, <2>2, <2>3, <2>4
<1> QED BY <1>1, <1>2, <1>3, <1>4

\* A reply is taken in.
LEMMA ReplySteps ==
    ASSUME ApiInv, Api!AskProvider \/ Api!Compose PROVE ApiInv'
<1> USE DEF ApiInv
<1>1. CASE Api!AskProvider
  <2> DEFINE a == Api!Answer(chat)
             m == [role |-> "assistant", of |-> a.of, whole |-> a.whole]
  <2>0. /\ chat' = Append(chat, m) /\ pc' = "replied" /\ pc = "wait" /\ got' = a
        /\ ~Api!ToAgent(apiTurn)
        /\ UNCHANGED <<apiTurn, apiPhase, recorded, session, flying, posted, torn, blind>>
    BY <1>1 DEF Api!AskProvider, Api!ledger, Api!server, Api!history, Api!Goto
  <2>1. chat # <<>> /\ apiPhase = "awaiting"
    BY <2>0 DEF PacketIsLast, ApiTyped
  <2>2. chat[Len(chat)] \in ChatTurns
    BY <2>1 DEF ApiTyped
  <2>3. /\ a.of = chat[Len(chat)].of /\ a.whole = (chat[Len(chat)].role = "user") /\ a.parts = {}
        /\ a \in Replies
    BY <2>2 DEF Api!Answer, Replies, ChatTurns
  <2>4. m \in ChatTurns
    BY <2>3 DEF Replies, ChatTurns
  <2> HIDE DEF a, m
  <2>5. /\ chat' \in Seq(ChatTurns) /\ chat' # <<>>
    BY <2>0, <2>4 DEF ApiTyped
  <2>6. ApiTyped'
    BY <2>0, <2>1, <2>3, <2>5 DEF ApiTyped
  <2>7. GivenOnce'
    BY <2>0 DEF GivenOnce, Api!WorkedOnce, Api!Has
  <2>8. PacketIsLast'
    BY <2>0, <2>1, <2>3, <2>5 DEF PacketIsLast, Api!WholeAnswers
  <2>9. PartsFollow'
    BY <2>0, <2>3 DEF PartsFollow, Follows, PromptOf
  <2> QED BY <2>6, <2>7, <2>8, <2>9
<1>2. CASE Api!Compose
  <2> DEFINE S == Api!After(apiTurn)
  <2>0. /\ pc' = "replied" /\ pc = "list" /\ got' = [of |-> apiTurn, whole |-> ~busy, parts |-> S]
        /\ UNCHANGED <<apiTurn, apiPhase, recorded, chat, session, flying, posted, torn, blind>>
    BY <1>2 DEF Api!Compose, Api!ledger, Api!server, Api!history, Api!Goto, Api!poll
  <2>1. DOMAIN session = 1..Len(session) /\ Len(session) \in Nat
    BY DEF ApiTyped
  <2>2. Follows(S, apiTurn)
    BY <2>1 DEF Follows, PromptOf, Api!After, Api!Anchor, Api!Listing
  <2>3. S \in SUBSET Nat
    BY <2>1 DEF Api!After, Api!Listing
  <2>4. got' \in Replies /\ got'.parts = S
    BY <2>0, <2>3 DEF Replies, ApiTyped
  <2> HIDE DEF S
  <2>5. ApiTyped'
    BY <2>0, <2>4 DEF ApiTyped
  <2>6. GivenOnce'
    BY <2>0 DEF GivenOnce, Api!WorkedOnce, Api!Has
  <2>7. PacketIsLast'
    BY <2>0 DEF PacketIsLast, Api!WholeAnswers, ApiTyped
  <2>8. PartsFollow'
    BY <2>0, <2>2, <2>4 DEF PartsFollow, Follows, PromptOf
  <2> QED BY <2>5, <2>6, <2>7, <2>8
<1> QED BY <1>1, <1>2

\* The reply is put on record, and the next turn queued.
LEMMA RecordSteps ==
    ASSUME ApiInv, Api!Record PROVE ApiInv'
<1> USE DEF ApiInv
<1>0. /\ pc = "replied" /\ apiPhase = "awaiting"
      /\ recorded' = [recorded EXCEPT ![apiTurn] = got] /\ got' = Api!Nothing
      /\ UNCHANGED <<chat, session, flying, posted, torn, blind>>
      /\ \/ pc' = "over" /\ apiPhase' = "answered" /\ UNCHANGED apiTurn
         \/ apiTurn' = apiTurn + 1 /\ apiPhase' = "queued" /\ pc' = "step"
  BY DEF Api!Record, Api!server, Api!history, Api!Goto, ApiTyped
<1>1. /\ \A t \in Api!Turns : t # apiTurn => recorded'[t] = recorded[t]
      /\ apiTurn \in Api!Turns => recorded'[apiTurn] = got
  BY <1>0 DEF ApiTyped
<1>2. apiTurn \in Nat /\ apiTurn' \in Nat /\ apiTurn' >= apiTurn
  BY <1>0 DEF ApiTyped
<1>3. \A t \in Api!Turns : t \in Int
  BY DEF Api!Turns
<1>4. ApiTyped'
  <2>1. Api!Nothing \in Replies
    BY DEF Api!Nothing, Replies
  <2>2. recorded' \in [Api!Turns -> Replies]
    <3>1. recorded \in [Api!Turns -> Replies] /\ got \in Replies
      BY DEF ApiTyped
    <3>2. CASE apiTurn \in Api!Turns
      BY <1>0, <3>1, <3>2
    <3>3. CASE apiTurn \notin Api!Turns
      <4>1. [recorded EXCEPT ![apiTurn] = got] = recorded
        BY <3>1, <3>3
      <4> QED BY <1>0, <3>1, <4>1
    <3> QED BY <3>2, <3>3
  <2> QED BY <1>0, <1>2, <2>1, <2>2 DEF ApiTyped
<1>5. GivenOnce'
  <2>1. \A t : Api!Has(t)' <=> Api!Has(t)
    BY <1>0 DEF Api!Has
  <2>2. \A t \in Api!Turns : t > apiTurn' => t > apiTurn
    BY <1>2, <1>3
  <2>3. apiPhase' = "queued" => apiTurn' > apiTurn
    BY <1>0, <1>2
  <2> QED BY <1>0, <2>1, <2>2, <2>3 DEF GivenOnce, Api!WorkedOnce
<1>6. PacketIsLast'
  <2>1. \A t \in Api!Turns : ~Api!ToAgent(t) /\ recorded'[t] # Api!Nothing /\ t \notin torn =>
            recorded'[t].of = t /\ recorded'[t].whole
    BY <1>0, <1>1 DEF PacketIsLast, Api!WholeAnswers
  <2> QED BY <1>0, <2>1 DEF PacketIsLast, Api!WholeAnswers
<1>7. PartsFollow'
  <2>1. Follows(got.parts, apiTurn) /\ \A t \in Api!Turns : Follows(recorded[t].parts, t)
    BY <1>0 DEF PartsFollow
  <2>2. \A t \in Api!Turns : Follows(recorded'[t].parts, t)
    BY <1>1, <2>1
  <2>3. \A t \in Api!Turns : Follows(recorded[t].parts, t)'
    BY <1>0, <2>2 DEF Follows, PromptOf
  <2>4. \A t \in Api!Turns : t > apiTurn' => recorded'[t].parts = {}
    BY <1>1, <1>2, <1>3 DEF PartsFollow
  <2>5. ASSUME NEW t \in Api!Turns, NEW u \in Api!Turns, t < u, NEW i \in recorded'[t].parts,
               NEW a \in 1..Len(session), PromptOf(u, a)
        PROVE  i < a
    <3>1. CASE t = apiTurn
      <4>1. posted[u] = 0
        BY <2>5, <3>1 DEF GivenOnce
      <4>2. Api!Has(u)
        BY <2>5 DEF Api!Has, PromptOf, ApiTyped
      <4> QED BY <4>1, <4>2 DEF GivenOnce
    <3>2. CASE t # apiTurn
      BY <1>1, <2>5, <3>2 DEF PartsFollow
    <3> QED BY <3>1, <3>2
  <2> QED BY <1>0, <2>3, <2>4, <2>5 DEF PartsFollow, PromptOf
<1> QED BY <1>4, <1>5, <1>6, <1>7

\* The session is no longer than a listing of it.
SessionIsListed == Len(session) <= Window

\* A turn that is not in the session was not given, or cannot be seen yet.
LEMMA NotHeldSteps ==
    ASSUME Window \in Nat, ApiInv, SessionIsListed, Api!NotHeld PROVE ApiInv'
<1> USE DEF ApiInv
<1>0. /\ pc = "ask" /\ ~Api!Holds(apiTurn) /\ pc' = "step" /\ apiPhase' = "queued"
      /\ apiPhase = "delivering"
      /\ blind' = IF apiTurn \in flying THEN blind \cup {apiTurn} ELSE blind
      /\ UNCHANGED <<apiTurn, recorded, chat, session, flying, posted, got, torn>>
  BY DEF Api!NotHeld, Api!server, Api!Goto, ApiTyped
<1>1. ApiTyped'
  BY <1>0 DEF ApiTyped
<1>2. \A t : Api!Has(t)' <=> Api!Has(t)
  BY <1>0 DEF Api!Has
<1>3. Api!ToAgent(apiTurn) => ~Api!Has(apiTurn)
  <2>1. DOMAIN session = 1..Len(session) /\ Len(session) \in Nat
    BY DEF ApiTyped
  <2>2. Api!Listing = DOMAIN session
    BY <2>1 DEF Api!Listing, SessionIsListed
  <2> QED BY <1>0, <2>2 DEF Api!Holds, Api!Anchor, Api!Has
<1>4. GivenOnce'
  <2>1. apiTurn \in Api!Turns \ blind' => posted[apiTurn] = 0
    <3> SUFFICES ASSUME apiTurn \in Api!Turns \ blind' PROVE posted[apiTurn] = 0
      OBVIOUS
    <3>1. apiTurn \notin flying
      BY <1>0
    <3>2. posted[apiTurn] \in Nat
      BY DEF ApiTyped
    <3> QED BY <1>3, <3>1, <3>2 DEF GivenOnce
  <2>2. \A t \in Api!Turns \ blind' : posted[t] <= 1
    BY <1>0 DEF GivenOnce, Api!WorkedOnce
  <2> QED BY <1>0, <1>2, <2>1, <2>2 DEF GivenOnce, Api!WorkedOnce
<1>5. PacketIsLast'
  BY <1>0 DEF PacketIsLast, Api!WholeAnswers
<1>6. PartsFollow'
  BY <1>0 DEF PartsFollow, Follows, PromptOf
<1> QED BY <1>1, <1>4, <1>5, <1>6

\* The server takes prompts in and works, on its own.
LEMMA ServerActs ==
    ASSUME ApiInv, \/ Api!PromptLands \/ Api!OperatorPrompts \/ Api!AgentWrites
                   \/ Api!AgentCompletes \/ Api!AgentRests
    PROVE  ApiInv'
<1>0. /\ ApiTyped /\ session \in Seq(Messages) /\ Len(session) \in Nat
      /\ DOMAIN session = 1..Len(session)
  BY DEF ApiInv, ApiTyped
<1>1. ASSUME NEW m \in Messages, session' = Append(session, m)
      PROVE  /\ Longer /\ session' \in Seq(Messages)
             /\ \A t : Api!Has(t)' <=> Api!Has(t) \/ (m.role = "user" /\ m.of = t)
  <2>1. /\ session' \in Seq(Messages) /\ Len(session') = Len(session) + 1
        /\ \A i \in 1..Len(session) : session'[i] = session[i]
        /\ session'[Len(session) + 1] = m
        /\ DOMAIN session' = 1..(Len(session) + 1)
    BY <1>0, <1>1
  <2>2. Longer
    BY <1>0, <2>1 DEF Longer
  <2> QED BY <1>0, <2>1, <2>2 DEF Api!Has
<1>2. ASSUME UNCHANGED session
      PROVE  Longer /\ session' \in Seq(Messages) /\ \A t : Api!Has(t)' <=> Api!Has(t)
  BY <1>0, <1>2 DEF Longer, Api!Has
<1>3. CASE Api!PromptLands
  <2>1. PICK t \in flying :
            /\ flying' = flying \ {t}
            /\ session' = IF Api!Has(t) THEN session ELSE Append(session, Api!Prompt(t))
    BY <1>3 DEF Api!PromptLands
  <2>2. Api!Prompt(t) \in Messages /\ Api!Prompt(t).role = "user" /\ Api!Prompt(t).of = t
    BY <1>0 DEF Api!Prompt, Messages, ApiTyped
  <2>3. /\ Longer /\ session' \in Seq(Messages)
        /\ \A u : Api!Has(u)' <=> Api!Has(u) \/ u = t
    <3>1. CASE Api!Has(t)
      BY <1>2, <2>1, <3>1
    <3>2. CASE ~Api!Has(t)
      BY <1>1, <2>1, <2>2, <3>2
    <3> QED BY <3>1, <3>2
  <2>4. UNCHANGED <<apiTurn, apiPhase, recorded, chat, pc, got, posted, torn, blind>>
    BY <1>3 DEF Api!PromptLands, Api!ledger, Api!history
  <2>5. \A u \in Api!Turns : u \in flying' \/ Api!Has(u)' <=> u \in flying \/ Api!Has(u)
    BY <2>1, <2>3
  <2> QED BY <2>1, <2>3, <2>4, <2>5, ServerSteps
<1>4. CASE Api!OperatorPrompts
  <2>1. /\ Api!Prompt(0) \in Messages /\ session' = Append(session, Api!Prompt(0))
        /\ Api!Prompt(0).of = 0
    BY <1>4 DEF Api!OperatorPrompts, Api!Prompt, Messages
  <2>2. UNCHANGED <<flying, apiTurn, apiPhase, recorded, chat, pc, got, posted, torn, blind>>
    BY <1>4 DEF Api!OperatorPrompts, Api!ledger
  <2>3. \A t \in Api!Turns : t # 0
    BY DEF Api!Turns
  <2> QED BY <1>1, <2>1, <2>2, <2>3, ServerSteps
<1>5. CASE Api!AgentWrites
  <2>1. /\ Api!Step \in Messages /\ session' = Append(session, Api!Step)
        /\ Api!Step.role # "user"
    BY <1>5 DEF Api!AgentWrites, Api!Step, Messages
  <2>2. UNCHANGED <<flying, apiTurn, apiPhase, recorded, chat, pc, got, posted, torn, blind>>
    BY <1>5 DEF Api!AgentWrites, Api!ledger, Api!history
  <2> QED BY <1>1, <2>1, <2>2, ServerSteps
<1>6. CASE Api!AgentCompletes
  <2>1. session' = [i \in 1..Len(session) |-> [session[i] EXCEPT !.done = TRUE]]
    BY <1>0, <1>6 DEF Api!AgentCompletes
  <2>2. \A i \in 1..Len(session) : session[i] \in Messages
    BY <1>0
  <2>3. \A m \in Messages : /\ [m EXCEPT !.done = TRUE] \in Messages
                            /\ [m EXCEPT !.done = TRUE].role = m.role
                            /\ [m EXCEPT !.done = TRUE].of = m.of
    BY DEF Messages
  <2>4. /\ session' \in Seq(Messages) /\ Len(session') = Len(session)
        /\ DOMAIN session' = 1..Len(session)
        /\ \A i \in 1..Len(session) : session'[i] = [session[i] EXCEPT !.done = TRUE]
    BY <1>0, <2>1, <2>2, <2>3
  <2>5. Longer /\ \A t : Api!Has(t)' <=> Api!Has(t)
    <3>1. \A i \in 1..Len(session) : /\ session'[i].role = session[i].role
                                      /\ session'[i].of = session[i].of
      BY <2>2, <2>3, <2>4
    <3> QED BY <1>0, <2>4, <3>1 DEF Longer, Api!Has
  <2>6. UNCHANGED <<flying, apiTurn, apiPhase, recorded, chat, pc, got, posted, torn, blind>>
    BY <1>6 DEF Api!AgentCompletes, Api!ledger, Api!history
  <2> QED BY <2>4, <2>5, <2>6, ServerSteps
<1>7. CASE Api!AgentRests
  <2>1. UNCHANGED <<session, flying, apiTurn, apiPhase, recorded, chat, pc, got, posted, torn, blind>>
    BY <1>7 DEF Api!AgentRests, Api!ledger, Api!history
  <2> QED BY <1>2, <2>1, ServerSteps
<1> QED BY <1>3, <1>4, <1>5, <1>6, <1>7

LEMMA PollingSteps ==
    ASSUME ApiInv, \/ Api!ProviderFails \/ Api!ReadStatus \/ Api!SessionLooksLost
                   \/ Api!KeepPolling \/ Api!AnchorMissing \/ Api!ReceiveTimesOut
    PROVE  ApiInv'
<1>1. /\ pc \in {"wait", "list"} /\ pc' \in {"wait", "list", "over"}
      /\ pc' = "list" => Api!ToAgent(apiTurn)
      /\ UNCHANGED <<apiTurn, apiPhase, recorded, chat, session, flying, posted, blind, torn, got>>
  BY DEF Api!ProviderFails, Api!ReadStatus, Api!SessionLooksLost, Api!KeepPolling,
     Api!AnchorMissing, Api!ReceiveTimesOut, Api!Incomplete, Api!Goto, Api!ledger, Api!server,
     Api!history
<1>2. apiPhase = "awaiting"
  BY <1>1 DEF ApiInv, ApiTyped
<1> QED BY <1>1, <1>2, IdleSteps

LEMMA RestartSteps ==
    ASSUME ApiInv, \/ Api!Crash \/ Api!Attach \/ Api!AttachFails \/ Api!CannotAsk \/ Api!Confirmed
    PROVE  ApiInv'
<1>1. /\ UNCHANGED <<apiTurn, apiPhase, recorded, chat, session, flying, posted, blind>>
      /\ torn \subseteq torn' /\ got' \in {got, Api!Nothing}
  BY DEF Api!Crash, Api!Attach, Api!AttachFails, Api!CannotAsk, Api!Confirmed,
     Api!ledger, Api!server, Api!history
<1>2. /\ pc' \in {"down", "over", "ask", "wait", "step"}
      /\ pc' = "ask" => apiPhase = "delivering"
      /\ pc' = "wait" => apiPhase = "awaiting"
  BY DEF Api!Crash, Api!Attach, Api!AttachFails, Api!CannotAsk, Api!Confirmed, Api!Goto
<1>3. pc = "replied" => Api!ToAgent(apiTurn) \/ apiTurn \in torn'
  BY DEF Api!Crash, Api!Attach, Api!AttachFails, Api!CannotAsk, Api!Confirmed, Api!Stopped
<1> QED BY <1>1, <1>2, <1>3, IdleSteps

LEMMA ApiSteps ==
    ASSUME Window \in Nat, ApiInv, SessionIsListed, Api!Next \/ UNCHANGED ApiState
    PROVE  ApiInv'
<1>1. CASE UNCHANGED ApiState
  BY <1>1 DEF ApiState, ApiInv, ApiTyped, GivenOnce, PacketIsLast, PartsFollow, Follows,
     PromptOf, Api!Has, Api!WorkedOnce, Api!WholeAnswers
<1>2. CASE Api!Next
  BY <1>2, ServerActs, DeliverySteps, ReplySteps, PollingSteps, RecordSteps, RestartSteps,
     NotHeldSteps DEF Api!Next
<1> QED BY <1>1, <1>2

(* While a listing shows the whole session, a directive is given to the    *)
(* agent once, and a reply on record is the whole answer to its own turn,  *)
(* for any turns, faults and deaths.                                       *)
THEOREM EndsAnswerTheirOwn ==
    ASSUME Window \in Nat PROVE Spec /\ []SessionIsListed => []EndsAnswerOnce
<1> DEFINE Inv == part = "api" => ApiInv
<1>1. Init => Inv
  BY ApiStarts DEF Init
<1>2. Inv /\ SessionIsListed /\ [Next]_vars => Inv'
  <2> SUFFICES ASSUME Inv, SessionIsListed, [Next]_vars, part' = "api" PROVE ApiInv'
    OBVIOUS
  <2>1. part = "api" /\ (Api!Next \/ UNCHANGED ApiState)
    BY OnePartMoves
  <2> QED BY <2>1, ApiSteps
<1>3. Inv => EndsAnswerOnce
  BY ApiImplies DEF EndsAnswerOnce
<1> QED BY <1>1, <1>2, <1>3, PTL DEF Spec

-----------------------------------------------------------------------------
(* The highest of a bounded set of numbers.                                  *)

LEMMA Highest ==
    ASSUME NEW S \in SUBSET Nat, S # {}, NEW n \in Nat, \A x \in S : x <= n
    PROVE  \E m \in S : \A x \in S : x <= m
<1> DEFINE T == {k \in Nat : n - k \in S}
<1>1. T # {} /\ T \subseteq Nat
  <2>1. PICK x \in S : TRUE
    OBVIOUS
  <2>2. n - x \in Nat /\ n - (n - x) = x
    BY <2>1
  <2> QED BY <2>2
<1>2. \E k \in T : \A y \in T : ~(y < k)
  <2> HIDE DEF T
  <2>1. \E k \in T : \A y \in T : ~(<<y, k>> \in OpToRel(<, Nat))
    BY <1>1, NatLessThanWellFounded, WFMin, Zenon
  <2> QED BY <1>1, <2>1, Zenon DEF OpToRel
<1>4. PICK k \in Nat : k \in T /\ \A y \in Nat : y \in T => k <= y
  BY <1>2
<1>3. ASSUME NEW x \in S PROVE x <= n - k
  <2>1. n - x \in Nat /\ n - (n - x) = x
    OBVIOUS
  <2>2. n - x \in T
    BY <2>1
  <2>3. k <= n - x
    BY <1>4, <2>1, <2>2
  <2> QED BY <2>1, <2>3
<1> QED BY <1>4, <1>3

-----------------------------------------------------------------------------
(* The relay's readings of the repository.                                   *)

Trees == [head : Nat, dirty : Nat, pushed : Nat]
Snaps == {Observation!Unreadable} \cup
         [ok : {TRUE}, head : Nat, dirty : Nat, pushed : Nat, upstream : BOOLEAN]
Readings == [step : {"START", "BEFORE_TURN", "AFTER_TURN"}, snap : Snaps, tree : Trees]

\* A reading says what the repository was, or nothing, and not always what was pushed.
SaysWhatIs(r) ==
    r.snap \in {Observation!Unreadable, Observation!Read(r.tree, TRUE),
               Observation!Read(r.tree, FALSE)}

ReadingsTyped ==
    /\ readings \in Seq(Readings) /\ Len(readings) >= 1 /\ observationTree \in Trees
    /\ readings[1].snap.ok
    /\ \A i \in 1..Len(readings) : SaysWhatIs(readings[i])

Newest(step, i) ==
    /\ i \in 1..Len(readings) /\ readings[i].step = step
    /\ \A j \in 1..Len(readings) : readings[j].step = step => j <= i

\* From the reading before a turn to the one after it, the former is the newest of its kind,
\* and what the process compares with, restarted or not.
TurnIsBracketed ==
    /\ observationPhase \in {"ready", "open", "closed", "down", "allowed"} =>
           \E i : Newest("BEFORE_TURN", i)
    /\ observationPhase \in {"ready", "open", "closed"} =>
           \E i : Newest("BEFORE_TURN", i) /\ observationBefore = readings[i].snap

\* What was let through was measured, and the profile carries it.
AllowedIsCarried ==
    observationPhase = "allowed" =>
        \E i : /\ Newest("BEFORE_TURN", i) /\ Newest("AFTER_TURN", Len(readings))
              /\ readings[i].snap.ok /\ readings[Len(readings)].snap.ok
              /\ Observation!Carries(
                     Observation!Changed(readings[i].snap, readings[Len(readings)].snap))

ObservationInv ==
    ReadingsTyped /\ TurnIsBracketed /\ AllowedIsCarried /\ Observation!CompleteMeansMoved

LEMMA ReadSays ==
    ASSUME NEW t \in Trees, NEW u \in BOOLEAN
    PROVE  /\ Observation!Read(t, u) \in Snaps
           /\ Observation!Read(t, u).ok /\ Observation!Read(t, u).upstream = u
<1>1. t.head \in Nat /\ t.dirty \in Nat /\ (IF u THEN t.pushed ELSE 0) \in Nat
  BY DEF Trees
<1> QED BY <1>1 DEF Observation!Read, Snaps

LEMMA NewestIsLastOf ==
    ASSUME ReadingsTyped, NEW step, NEW i, Newest(step, i)
    PROVE  Observation!LastOf(step) = readings[i]
<1> DEFINE S == {j \in DOMAIN readings : readings[j].step = step}
<1>1. DOMAIN readings = 1..Len(readings) /\ Len(readings) \in Nat
  BY DEF ReadingsTyped
<1>2. i \in S /\ \A j \in S : i >= j
  BY <1>1 DEF Newest
<1>3. \A x \in S : (\A y \in S : x >= y) => x = i
  BY <1>1, <1>2
<1>4. Observation!Max(S) = i
  BY <1>2, <1>3 DEF Observation!Max
<1> QED BY <1>4 DEF Observation!LastOf

LEMMA ObservationImplies ==
    ASSUME ObservationInv
    PROVE  Observation!NothingPassesUnseen /\ Observation!CompleteMeansMoved
<1> SUFFICES ASSUME observationPhase = "allowed", ~Observation!UpstreamUnread
             PROVE  Observation!Carries(Observation!TrueEffect)
  BY DEF ObservationInv, Observation!NothingPassesUnseen
<1>1. PICK i : /\ Newest("BEFORE_TURN", i) /\ Newest("AFTER_TURN", Len(readings))
               /\ readings[i].snap.ok /\ readings[Len(readings)].snap.ok
               /\ Observation!Carries(
                      Observation!Changed(readings[i].snap, readings[Len(readings)].snap))
  BY DEF ObservationInv, AllowedIsCarried
<1> DEFINE b == readings[i]
           a == readings[Len(readings)]
<1>2. Observation!LastOf("BEFORE_TURN") = b /\ Observation!LastOf("AFTER_TURN") = a
  BY <1>1, NewestIsLastOf DEF ObservationInv
<1>3. b.snap.upstream /\ a.snap.upstream
  BY <1>1, <1>2 DEF Observation!UpstreamUnread
<1>4. SaysWhatIs(b) /\ SaysWhatIs(a)
  BY <1>1 DEF ObservationInv, ReadingsTyped, Newest
<1>5. b.snap = Observation!Read(b.tree, TRUE) /\ a.snap = Observation!Read(a.tree, TRUE)
  <2>1. b.tree \in Trees /\ a.tree \in Trees
    <3>1. b \in Readings /\ a \in Readings
      BY <1>1 DEF ObservationInv, ReadingsTyped, Newest
    <3> QED BY <3>1 DEF Readings
  <2>2. /\ Observation!Read(b.tree, FALSE).upstream = FALSE
        /\ Observation!Read(a.tree, FALSE).upstream = FALSE
    BY <2>1, ReadSays
  <2>3. ~Observation!Unreadable.ok
    BY DEF Observation!Unreadable
  <2> QED BY <1>1, <1>3, <1>4, <2>2, <2>3 DEF SaysWhatIs
<1>6. Observation!Changed(b.snap, a.snap) = Observation!Changed(b.tree, a.tree)
  BY <1>5 DEF Observation!Changed, Observation!Read
<1> QED BY <1>1, <1>2, <1>6 DEF Observation!TrueEffect

LEMMA ObservationStarts == ASSUME Observation!ObserveInit PROVE ObservationInv
<1> DEFINE r == [step |-> "START", snap |-> Observation!Read(observationTree, TRUE),
                 tree |-> observationTree]
<1>1. observationTree \in Trees
  BY DEF Observation!ObserveInit, Trees
<1>2. r \in Readings /\ r.snap.ok /\ SaysWhatIs(r)
  BY <1>1, ReadSays DEF Readings, SaysWhatIs
<1>3. readings = <<r>>
  BY DEF Observation!ObserveInit
<1> HIDE DEF r
<1>4. readings \in Seq(Readings) /\ Len(readings) = 1 /\ readings[1] = r
  BY <1>2, <1>3
<1>5. ReadingsTyped
  BY <1>1, <1>2, <1>4 DEF ReadingsTyped
<1> QED BY <1>5 DEF ObservationInv, TurnIsBracketed, AllowedIsCarried,
         Observation!CompleteMeansMoved, Observation!ObserveInit

\* Another reading is the newest of its kind, and leaves the others as they are.
LEMMA ReadingAdded ==
    ASSUME ReadingsTyped, NEW snap \in Observation!Snapshots,
           NEW step \in {"BEFORE_TURN", "AFTER_TURN"},
           readings' = Observation!Observed(step, snap), UNCHANGED observationTree
    PROVE  /\ ReadingsTyped'
           /\ Len(readings)' = Len(readings) + 1
           /\ readings'[Len(readings)'].snap = snap
           /\ Newest(step, Len(readings))'
           /\ \A i, s : s # step /\ Newest(s, i) => Newest(s, i)' /\ readings'[i] = readings[i]
<1> DEFINE r == [step |-> step, snap |-> snap, tree |-> observationTree]
<1>1. snap \in Snaps /\ r \in Readings
  <2>1. observationTree \in Trees /\ Observation!Unreadable \in Snaps
    BY DEF ReadingsTyped, Snaps
  <2>2. snap \in Snaps
    BY <2>1, ReadSays DEF Observation!Snapshots
  <2> QED BY <2>1, <2>2 DEF Readings
<1>2. SaysWhatIs(r)
  BY DEF Observation!Snapshots, SaysWhatIs
<1>3. readings' = Append(readings, r)
  BY DEF Observation!Observed
<1> HIDE DEF r
<1>4. /\ readings' \in Seq(Readings) /\ Len(readings') = Len(readings) + 1
      /\ readings'[Len(readings) + 1] = r /\ Len(readings) \in Nat
      /\ \A i \in 1..Len(readings) : readings'[i] = readings[i]
  BY <1>1, <1>3 DEF ReadingsTyped
<1>5. ReadingsTyped'
  <2>1. \A i \in 1..Len(readings) + 1 :
            \/ readings'[i] = r
            \/ i \in 1..Len(readings) /\ readings'[i] = readings[i]
    BY <1>4
  <2>2. \A i \in 1..Len(readings') : SaysWhatIs(readings'[i])
    BY <1>2, <1>4, <2>1 DEF ReadingsTyped
  <2>3. readings'[1] = readings[1] /\ Len(readings') >= 1
    BY <1>4 DEF ReadingsTyped
  <2> QED BY <1>4, <2>2, <2>3 DEF ReadingsTyped, SaysWhatIs
<1>6. r.step = step /\ r.snap = snap
  BY DEF r
<1> QED BY <1>4, <1>5, <1>6 DEF Newest

LEMMA ObservationStays ==
    ASSUME ObservationInv, UNCHANGED ObservationState PROVE ObservationInv'
BY DEF ObservationState, ObservationInv, ReadingsTyped, SaysWhatIs, TurnIsBracketed, Newest,
   AllowedIsCarried, Observation!Carries, Observation!CompleteMeansMoved

\* A repository that moved from the first measured reading to the last is not where it was
\* at the start, which was measured.
LEMMA MovedIsSeen ==
    ASSUME ReadingsTyped, Observation!Moved = "moved"
    PROVE  \E i \in DOMAIN readings :
              \/ readings[i].tree.head # readings[1].tree.head
              \/ readings[i].tree.dirty # readings[1].tree.dirty
<1> DEFINE M == Observation!Measurements
<1>1. DOMAIN readings = 1..Len(readings) /\ Len(readings) \in Nat /\ 1 \in M
  BY DEF ReadingsTyped, Observation!Measurements
<1>3. Observation!Min(M) = 1
  <2>1. \A x \in M : 1 <= x /\ x \in Nat
    BY <1>1 DEF Observation!Measurements
  <2>2. \A x \in M : (\A y \in M : x <= y) => x = 1
    BY <1>1, <2>1
  <2> QED BY <1>1, <2>1, <2>2 DEF Observation!Min
<1> DEFINE i == Observation!Max(M)
<1>4. i \in M
  <2>1. \E x \in M : \A y \in M : x >= y
    <3>1. M \in SUBSET Nat /\ M # {} /\ \A y \in M : y <= Len(readings)
      BY <1>1 DEF Observation!Measurements
    <3> QED BY <3>1, <1>1, Highest
  <2> QED BY <2>1 DEF Observation!Max
<1>5. readings[1].snap.ok /\ readings[i].snap.ok /\ i \in 1..Len(readings)
  BY <1>1, <1>4 DEF Observation!Measurements, ReadingsTyped
<1>6. /\ readings[1].snap.head = readings[1].tree.head /\ readings[1].snap.dirty = readings[1].tree.dirty
      /\ readings[i].snap.head = readings[i].tree.head /\ readings[i].snap.dirty = readings[i].tree.dirty
  <2>1. \A j \in 1..Len(readings) : SaysWhatIs(readings[j])
    BY DEF ReadingsTyped
  <2>2. 1 \in 1..Len(readings)
    BY <1>1 DEF ReadingsTyped
  <2>3. \A q : SaysWhatIs(q) /\ q.snap.ok => q.snap.head = q.tree.head /\ q.snap.dirty = q.tree.dirty
    BY DEF SaysWhatIs, Observation!Read, Observation!Unreadable
  <2> QED BY <1>5, <2>1, <2>2, <2>3
<1>7. readings[1].snap.head # readings[i].snap.head \/ readings[1].snap.dirty # readings[i].snap.dirty
  BY <1>3 DEF Observation!Moved, Observation!FirstMeasured, Observation!LastMeasured
<1> QED BY <1>1, <1>5, <1>6, <1>7

LEMMA ObservationSteps == ASSUME ObservationInv, Observation!ObserveNext PROVE ObservationInv'
<1> USE DEF ObservationInv
<1>1. CASE Observation!ReadBefore
  <2>1. PICK s \in Observation!Snapshots :
            observationBefore' = s /\ readings' = Observation!Observed("BEFORE_TURN", s)
    BY <1>1 DEF Observation!ReadBefore
  <2>2. observationPhase' = "ready" /\ UNCHANGED observationTree
    BY <1>1 DEF Observation!ReadBefore
  <2> QED BY <2>1, <2>2, ReadingAdded DEF TurnIsBracketed, AllowedIsCarried, Observation!CompleteMeansMoved
<1>2. CASE Observation!ReadAfter
  <2>1. PICK s \in Observation!Snapshots :
            /\ readings' = Observation!Observed("AFTER_TURN", s)
            /\ observationPhase' = IF /\ Observation!ObservedEffect(observationBefore, s) # "unmeasured"
                                      /\ Observation!Carries(Observation!ObservedEffect(observationBefore, s))
                                   THEN "allowed" ELSE "held"
    BY <1>2 DEF Observation!ReadAfter
  <2>2. observationPhase = "closed" /\ UNCHANGED <<observationTree, profile>>
    BY <1>2 DEF Observation!ReadAfter
  <2>3. PICK i : Newest("BEFORE_TURN", i) /\ observationBefore = readings[i].snap
    BY <2>2 DEF TurnIsBracketed
  <2>4. /\ ReadingsTyped' /\ readings'[Len(readings)'].snap = s
        /\ Newest("AFTER_TURN", Len(readings))'
        /\ Newest("BEFORE_TURN", i)' /\ readings'[i] = readings[i]
    BY <2>1, <2>2, <2>3, ReadingAdded
  <2>5. ASSUME observationPhase' = "allowed"
        PROVE  /\ observationBefore.ok /\ s.ok
               /\ Observation!Carries(Observation!Changed(observationBefore, s))
    BY <2>1, <2>5 DEF Observation!ObservedEffect
  <2>6. AllowedIsCarried'
    <3> SUFFICES ASSUME observationPhase' = "allowed" PROVE AllowedIsCarried'
      BY DEF AllowedIsCarried
    <3>1. readings'[i].snap = observationBefore
      BY <2>3, <2>4
    <3>2. Observation!Carries(Observation!Changed(readings'[i].snap, readings'[Len(readings)'].snap))
      BY <2>4, <2>5, <3>1
    <3> QED BY <2>2, <2>4, <2>5, <3>1, <3>2 DEF AllowedIsCarried, Observation!Carries
  <2>7. observationPhase' \in {"allowed", "held"}
    BY <2>1
  <2> QED BY <2>4, <2>6, <2>7 DEF TurnIsBracketed, Observation!CompleteMeansMoved
<1>3. ASSUME UNCHANGED <<readings, profile, demands>>, observationTree' \in Trees,
             observationPhase' # "allowed",
             observationPhase' = "complete" => Observation!CompleteMeansMoved',
             observationPhase' \in {"ready", "open", "closed", "down"} =>
                 observationPhase \in {"ready", "open", "closed", "down"},
             observationPhase' \in {"ready", "open", "closed"} =>
                 \/ observationBefore' = Observation!LastOf("BEFORE_TURN").snap
                 \/ /\ observationPhase \in {"ready", "open", "closed"}
                    /\ UNCHANGED observationBefore
      PROVE  ObservationInv'
  <2>1. ReadingsTyped' /\ \A s, i : Newest(s, i)' <=> Newest(s, i)
    BY <1>3 DEF ReadingsTyped, Newest, SaysWhatIs
  <2>2. AllowedIsCarried' /\ Observation!CompleteMeansMoved'
    BY <1>3 DEF AllowedIsCarried, Observation!CompleteMeansMoved
  <2>3. TurnIsBracketed'
    <3> SUFFICES ASSUME observationPhase' \in {"ready", "open", "closed", "down"}
                 PROVE  TurnIsBracketed'
      BY <1>3 DEF TurnIsBracketed
    <3>1. PICK i : Newest("BEFORE_TURN", i)
      BY <1>3 DEF TurnIsBracketed
    <3>2. Observation!LastOf("BEFORE_TURN") = readings[i]
      BY <3>1, NewestIsLastOf
    <3> QED BY <1>3, <2>1, <3>1, <3>2 DEF TurnIsBracketed
  <2> QED BY <2>1, <2>2, <2>3
<1>4. CASE Observation!AgentActs
  <2>1. observationTree \in Trees
    BY DEF ReadingsTyped
  <2>2. PICK h, d, p \in Nat : observationTree = [head |-> h, dirty |-> d, pushed |-> p]
    BY <2>1 DEF Trees
  <2>3. \/ observationTree' = [head |-> h, dirty |-> d + 1, pushed |-> p]
        \/ observationTree' = [head |-> h + 1, dirty |-> 0, pushed |-> p]
        \/ observationTree' = [head |-> h, dirty |-> d, pushed |-> h]
    BY <1>4, <2>2 DEF Observation!AgentActs
  <2>4. observationTree' \in Trees
    BY <2>3 DEF Trees
  <2> QED BY <1>3, <1>4, <2>4 DEF Observation!AgentActs
<1>5. CASE Observation!Claim
  <2>1. /\ UNCHANGED <<observationTree, readings, profile, demands>>
        /\ observationPhase' \in {"complete", "idle"}
    BY <1>5 DEF Observation!Claim
  <2>2. observationTree' \in Trees
    BY <2>1 DEF ReadingsTyped
  <2>3. observationPhase' = "complete" /\ demands.change => Observation!Moved = "moved"
    BY <1>5 DEF Observation!Claim, Observation!ClaimVerdict
  <2>4. Observation!Moved = "moved" => Observation!CompleteMeansMoved'
    BY <2>1, MovedIsSeen DEF Observation!CompleteMeansMoved
  <2> QED BY <1>3, <2>1, <2>2, <2>3, <2>4 DEF Observation!CompleteMeansMoved
<1>6. CASE Observation!ResumeTurn
  <2> QED BY <1>3, <1>6 DEF Observation!ResumeTurn, Observation!ResumedReading, ReadingsTyped
<1>7. CASE Observation!ProcessDies
  <2> QED BY <1>3, <1>7 DEF Observation!ProcessDies, ReadingsTyped
<1>8. CASE \/ Observation!DeliverDirective \/ Observation!Reply
           \/ Observation!Approve \/ Observation!Instructs
  <2> QED BY <1>3, <1>8 DEF Observation!DeliverDirective, Observation!Reply,
           Observation!Approve, Observation!Instructs, ReadingsTyped
<1> QED BY <1>1, <1>2, <1>4, <1>5, <1>6, <1>7, <1>8 DEF Observation!ObserveNext

\* What the relay sees of the repository is what the turn did to it, over restarts of the
\* relay's process in the middle of the turn, and a relay that had to move it saw it moved.
THEOREM EffectsAlwaysSeen == Spec => []EffectsAreSeen
<1> DEFINE Inv == part = "observation" => ObservationInv
<1>1. Init => Inv
  BY ObservationStarts DEF Init
<1>2. Inv /\ [Next]_vars => Inv'
  <2> SUFFICES ASSUME Inv, [Next]_vars, part' = "observation" PROVE ObservationInv'
    OBVIOUS
  <2>1. part = "observation" /\ (Observation!ObserveNext \/ UNCHANGED ObservationState)
    BY OnePartMoves
  <2>2. CASE UNCHANGED ObservationState
    BY <2>1, <2>2, ObservationStays
  <2> QED BY <2>1, <2>2, ObservationSteps
<1>3. Inv => EffectsAreSeen
  BY ObservationImplies DEF EffectsAreSeen
<1> QED BY <1>1, <1>2, <1>3, PTL DEF Spec

=============================================================================
