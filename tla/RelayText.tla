------------------------------ MODULE RelayText ------------------------------
(***************************************************************************)
(* What the relay reads out of a turn of the orchestrator, and what it     *)
(* writes to the two ends (relay/kernel.py claims_completion, effects.py   *)
(* gate_directive, corroborate.py run_check, packets.py).                  *)
(*                                                                         *)
(* The orchestrator's turn is ordinary text.  Two things in it are for the *)
(* relay: a fenced block that asks for an effect, and the completion       *)
(* marker, which counts only when it is the last thing said and its clause *)
(* neither denies nor defers it.  A model wraps its lines where it likes.  *)
(* A turn that claims is measured by running the operator's checks.        *)
(*                                                                         *)
(* A line is a sequence of the words the relay tells apart, or the name of *)
(* the effect that a block asks for.                                       *)
(***************************************************************************)
EXTENDS Naturals, Sequences, FiniteSets, SequencesExt

CONSTANTS
    MaxWords,       \* bound: words, stops and blocks of a turn
    MaxLines,       \* bound: lines of a turn
    MaxChecks,      \* bound: checks the operator configured
    Limit           \* words of a directive that fit in a packet

VARIABLES
    said,           \* the orchestrator's turn, line by line
    granted,        \* effects the profile and the grants allow
    gate,           \* the gate's verdict on the turn
    checks,         \* the checks, the required change, and what the measurement found
    sent,           \* what the agent was sent
    told            \* the blockers of the packet the orchestrator reads next

textVars == <<said, granted, gate, checks, sent, told>>

(***************************************************************************)
(* Words.  "deny" is a negation or a deferral, "utter" a verb of saying,   *)
(* "far" a phrase that distances; a stop closes a sentence or decorates,   *)
(* a question mark closes one and speaks.  The marker may be glued to a    *)
(* word before it, or quoted.                                              *)
(***************************************************************************)
Stops == {"stop", "ask"}
Marks == {"marker", "glued", "quoted"}
Words == {"deny", "utter", "plain"} \cup Marks
Decoration == {"stop"}
Tokens == Words \cup Stops \cup {"far"}

Decorates(text) == \A i \in DOMAIN text : text[i] \in Decoration

\* The words after the last stop.
Clause(text) ==
    LET closed == {i \in DOMAIN text : text[i] \in Stops}
    IN  IF closed = {} THEN text
        ELSE SubSeq(text, (CHOOSE i \in closed : \A j \in closed : j <= i) + 1, Len(text))

\* A clause denies the marker when it distances itself from it, when nothing
\* stands between a denial and the marker, or when a denial governs a verb of saying.
Denies(text) ==
    LET said_(w) == w \in Words
        clause == Clause(text)
        words == SelectSeq(clause, said_)
    IN  \/ "far" \in ToSet(clause)
        \/ \E i \in DOMAIN words :
             /\ words[i] = "deny"
             /\ i = Len(words) \/ \E j \in (i + 1)..Len(words) : words[j] = "utter"

\* Slip: a line break is a full stop.
SlipGoverning(lines, prose) == prose

\* A marker alone on its line is governed by the line above, when that line
\* did not end its sentence.
Governing(lines, prose) ==
    IF /\ Decorates(prose) /\ Len(lines) > 1
       /\ Last(lines[Len(lines) - 1]) \notin Stops
    THEN lines[Len(lines) - 1] \o prose ELSE prose

ClaimsCompletion(lines) ==
    /\ lines # <<>>
    /\ LET line == Last(lines)
           marks == {i \in DOMAIN line : line[i] \in Marks}
       IN  /\ marks # {}
           /\ LET k == CHOOSE i \in marks : \A j \in marks : j <= i
                  prose == SubSeq(line, 1, k - 1)
              IN  /\ Decorates(SubSeq(line, k + 1, Len(line)))
                  /\ line[k] # "glued"
                  /\ line[k] = "quoted" => Decorates(prose)
                  /\ ~Denies(Governing(lines, prose))

(***************************************************************************)
(* The effect a turn asks for: the class its first block names, an         *)
(* unmodelled one, or none at all; without a block, an ordinary edit.      *)
(***************************************************************************)
Classes == {"edit", "commit"}
Blocks == {"commit", "odd", "void"}

IsBlock(line) == line # <<>> /\ line[1] \in Blocks
Asked(lines) ==
    LET asking == {i \in DOMAIN lines : IsBlock(lines[i])}
    IN  IF asking = {} THEN "edit"
        ELSE lines[CHOOSE i \in asking : \A j \in asking : i <= j][1]
Recognised(effect) == effect \in Classes

GateDirective(lines) ==
    LET effect == Asked(lines)
    IN  [effect |-> effect,
         hold |-> IF ~Recognised(effect) THEN "UNKNOWN_EFFECT_CLASS"
                  ELSE IF effect \notin granted THEN "OWNER_REQUIRED" ELSE "none"]

(***************************************************************************)
(* Packets.  The directive travels without its blocks, cut at the limit;   *)
(* the header of the first one names the parties and the objective.        *)
(***************************************************************************)
Clip(body) == SubSeq(body, 1, IF Len(body) <= Limit THEN Len(body) ELSE Limit - 1)

OrchestratorToExecution(lines) ==
    LET kept_(line) == ~IsBlock(line)
        body == FlattenSeq(SelectSeq(lines, kept_))
    IN  [body |-> Clip(body), clipped |-> Len(body) > Limit]

(***************************************************************************)
(* Checks.  A command is an argument vector or a string; one that quotes   *)
(* an argument means the argument without its quotes.                      *)
(***************************************************************************)
Checks == [form : {"blank", "empty", "unparsable"}, does : {"nothing"}]
          \cup [form : {"plain", "quoted"}, does : {"passes", "fails"}]
          \cup [form : {"plain"}, does : {"hangs", "missing"}]

\* Slip: the quotes stay on, and what runs is a string literal that succeeds.
SlipRuns(c) == IF c.form = "quoted" THEN "passes" ELSE c.does

Runs(c) == c.does

RunCheck(c) ==
    [measured |-> Runs(c) \in {"passes", "fails"}, ok |-> Runs(c) = "passes"]

\* The verdict of the checks that are not blank and of the change that is required.
Verdict(cs, require, changed) ==
    LET results == {RunCheck(c) : c \in {d \in cs : d.form # "blank"}}
    IN  IF results = {} /\ ~require THEN "UNCONFIGURED"
        ELSE IF (\E r \in results : ~r.measured) \/ (require /\ changed = "unknown")
             THEN "UNMEASURABLE"
        ELSE IF (\A r \in results : r.ok) /\ (require => changed = "yes")
             THEN "CORROBORATED" ELSE "REFUTED"

\* Slip: only a refuted claim is answered.
SlipBlockerLine(verdict) == IF verdict = "REFUTED" THEN {verdict} ELSE {}

BlockerLine(verdict) == IF verdict \in {"REFUTED", "UNMEASURABLE"} THEN {verdict} ELSE {}

(***************************************************************************)
(* The turn.                                                               *)
(***************************************************************************)
NoChecks == [of |-> {}, verdict |-> "none"]
NoGate == [effect |-> "none", hold |-> "none"]
Nothing == [clipped |-> FALSE]

TextInit ==
    /\ said = << <<>> >>
    /\ granted \in {{}, {"edit"}, {"edit", "commit"}}
    /\ gate = NoGate /\ checks = NoChecks /\ sent = Nothing /\ told = {}

Speaking == gate = NoGate
Length == Len(FlattenSeq(said))

Word(w) ==
    /\ Speaking /\ Length < MaxWords /\ ~IsBlock(Last(said))
    /\ said' = [said EXCEPT ![Len(said)] = Append(@, w)]
    /\ UNCHANGED <<granted, gate, checks, sent, told>>

BreakLine ==
    /\ Speaking /\ Last(said) # <<>> /\ Len(said) < MaxLines /\ Length < MaxWords
    /\ said' = Append(said, <<>>)
    /\ UNCHANGED <<granted, gate, checks, sent, told>>

AskEffect(b) ==
    /\ Speaking /\ Last(said) = <<>> /\ Length < MaxWords
    /\ said' = [said EXCEPT ![Len(said)] = <<b>>]
    /\ UNCHANGED <<granted, gate, checks, sent, told>>

\* The gate comes first; a turn it holds is not read for a claim.
Gate ==
    /\ Speaking /\ Last(said) # <<>>
    /\ gate' = GateDirective(said)
    /\ UNCHANGED <<said, granted, checks, sent, told>>

Passed == ~Speaking /\ gate.hold = "none"

\* A claim is measured; one that stands ends the relay.
Measure ==
    /\ Passed /\ checks = NoChecks /\ ClaimsCompletion(said)
    /\ \E cs \in SUBSET Checks, require \in BOOLEAN, changed \in {"yes", "no", "unknown"} :
         /\ Cardinality(cs) <= MaxChecks
         /\ checks' = [of |-> cs, verdict |-> Verdict(cs, require, changed)]
    /\ UNCHANGED <<said, granted, gate, sent, told>>

Stands == checks.verdict \in {"CORROBORATED", "UNCONFIGURED"}

Deliver ==
    /\ Passed /\ sent = Nothing
    /\ IF ClaimsCompletion(said) THEN checks # NoChecks /\ ~Stands ELSE TRUE
    /\ sent' = OrchestratorToExecution(said)
    /\ UNCHANGED <<said, granted, gate, checks, told>>

\* The agent's turn goes back in a packet that carries the blocker.
HandOver ==
    /\ sent # Nothing /\ told = {}
    /\ told' = {"packet"} \cup BlockerLine(checks.verdict)
    /\ UNCHANGED <<said, granted, gate, checks, sent>>

TextNext ==
    \/ \E w \in Tokens : Word(w)
    \/ \E b \in Blocks : AskEffect(b)
    \/ BreakLine \/ Gate \/ Measure \/ Deliver \/ HandOver

TextSpec == TextInit /\ [][TextNext]_textVars

(***************************************************************************)
(* Properties.                                                             *)
(***************************************************************************)
\* The turn with its last two lines written as one.
Unwrapped ==
    Append(SubSeq(said, 1, Len(said) - 2), said[Len(said) - 1] \o Last(said))

AloneOnItsLine ==
    /\ Len(said) > 1 /\ ~IsBlock(said[Len(said) - 1])
    /\ said[Len(said)] # <<>> /\ said[Len(said)][1] \in {"marker", "glued"}
    /\ \A i \in 2..Len(said[Len(said)]) : said[Len(said)][i] \in Decoration

\* "A LINE BREAK IS NOT A FULL STOP": a marker alone on its line means what it
\* would mean at the end of the line above, so a denial wrapped in front of the
\* marker is still a denial (kernel.py claims_completion).
WrappingChangesNothing ==
    AloneOnItsLine => (ClaimsCompletion(said) <=> ClaimsCompletion(Unwrapped))

\* A claim ends a relay with checks only when each check that says anything
\* passes as its operator means it (corroborate.py run_check, verdict).
AcceptedAsMeant ==
    checks # NoChecks /\ Stands => \A c \in checks.of : c.form = "blank" \/ c.does = "passes"

\* A claim that was not believed is answered with the reason in the next packet
\* the orchestrator reads (corroborate.py blocker_line).
RefusedIsTold ==
    told # {} /\ ClaimsCompletion(said) => told \cap {"REFUTED", "UNMEASURABLE"} # {}
============================================================================
