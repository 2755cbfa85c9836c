------------------------- MODULE RelayObservation -------------------------
(****************************************************************************)
(* What the relay sees of the repository (relay/observe.py), the gate that   *)
(* compares two readings of it (relay/effects.py) and the completion claim   *)
(* measured on them (relay/kernel.py, relay/corroborate.py).  The agent acts *)
(* between the delivery of a directive and its reply, whether or not the     *)
(* relay's process lives; the readings are durable.                          *)
(****************************************************************************)
EXTENDS Naturals, Sequences, FiniteSets, FiniteSetsExt, SequencesExt

CONSTANTS
    MaxEffects,      \* things the agent does to the repository
    MaxTurns,        \* directives delivered
    MaxRestarts      \* times the relay's process dies

VARIABLES
    tree,            \* the repository: commits, what is dirty, what is pushed
    readings,        \* the relay's observations, oldest first
    phase,           \* where the relay is in a turn
    awaiting,        \* the record says a reply is outstanding
    before,          \* the reading this process compares with
    profile,         \* the highest effect the profile carries
    demands,         \* what a completion claim needs: checks, a moved repository
    spent            \* effects, turns and restarts so far

observeVars == <<tree, readings, phase, awaiting, before, profile, demands, spent>>


Unreadable == [ok |-> FALSE]
Read(t, upstream) ==
    [ok |-> TRUE, head |-> t.head, dirty |-> t.dirty,
     pushed |-> IF upstream THEN t.pushed ELSE 0, upstream |-> upstream]

\* One snapshot: git answers, or does not, or does but for the upstream.
Snapshots == {Unreadable, Read(tree, TRUE), Read(tree, FALSE)}

Observed(step, snap) == Append(readings, [step |-> step, snap |-> snap, tree |-> tree])

\* The newest reading of a step.
LastOf(step) == readings[Max({i \in DOMAIN readings : readings[i].step = step})]

\* A developer's own uncommitted work may be in the tree when the relay starts.
ObserveInit ==
    /\ tree \in [head : {1}, dirty : {0, 1}, pushed : {1}]
    /\ readings = <<[step |-> "START", snap |-> Read(tree, TRUE), tree |-> tree]>>
    /\ phase = "idle" /\ awaiting = FALSE /\ before = Unreadable
    /\ profile \in {"STANDARD_EDIT", "GIT_COMMIT"}
    /\ demands \in [checks : BOOLEAN, change : BOOLEAN]
    /\ spent = [effects |-> 0, turns |-> 0, restarts |-> 0]

----------------------------------------------------------------------------
(* The effects.                                                              *)

Ranks == <<"READ_ONLY", "STANDARD_EDIT", "GIT_COMMIT", "GIT_PUSH">>
Rank(class) == CHOOSE i \in DOMAIN Ranks : Ranks[i] = class

\* Each class costs what the ones before it cost, and one capability more.
Carries(class) == Rank(class) <= Rank(profile)

Changed(b, a) ==
    CASE b.pushed # a.pushed /\ a.pushed # 0 -> "GIT_PUSH"
      [] ~(b.pushed # a.pushed /\ a.pushed # 0) /\ b.head # a.head -> "GIT_COMMIT"
      [] ~(b.pushed # a.pushed /\ a.pushed # 0) /\ b.head = a.head
           /\ b.dirty # a.dirty -> "STANDARD_EDIT"
      [] OTHER -> "READ_ONLY"

\* observed_effect_class: the most severe thing two readings show.
ObservedEffect(b, a) == IF b.ok /\ a.ok THEN Changed(b, a) ELSE "unmeasured"

----------------------------------------------------------------------------
(* One turn of the agent.                                                    *)

\* The reading before the agent acts is durable before anything is delivered.
ReadBefore ==
    /\ phase = "idle" /\ spent.turns < MaxTurns
    /\ \E s \in Snapshots : before' = s /\ readings' = Observed("BEFORE_TURN", s)
    /\ phase' = "ready"
    /\ UNCHANGED <<tree, awaiting, profile, demands, spent>>

DeliverDirective ==
    /\ phase = "ready"
    /\ phase' = "open" /\ awaiting' = TRUE
    /\ spent' = [spent EXCEPT !.turns = @ + 1]
    /\ UNCHANGED <<tree, readings, before, profile, demands>>

AgentActs ==
    /\ awaiting /\ phase \in {"open", "down"} /\ spent.effects < MaxEffects
    /\ spent' = [spent EXCEPT !.effects = @ + 1]
    /\ \/ tree' = [tree EXCEPT !.dirty = @ + 1]
       \/ tree.dirty > 0 /\ tree' = [tree EXCEPT !.head = @ + 1, !.dirty = 0]
       \/ tree.pushed < tree.head /\ tree' = [tree EXCEPT !.pushed = tree.head]
    /\ UNCHANGED <<readings, phase, awaiting, before, profile, demands>>

\* The reply is taken and the turn closed on the record ...
Reply ==
    /\ phase = "open"
    /\ phase' = "closed" /\ awaiting' = FALSE
    /\ UNCHANGED <<tree, readings, before, profile, demands, spent>>

\* ... the repository is read again, and the gate compares.
ReadAfter ==
    /\ phase = "closed"
    /\ \E s \in Snapshots :
           /\ readings' = Observed("AFTER_TURN", s)
           /\ phase' = IF /\ ObservedEffect(before, s) # "unmeasured"
                          /\ Carries(ObservedEffect(before, s))
                       THEN "allowed" ELSE "held"
    /\ UNCHANGED <<tree, awaiting, before, profile, demands, spent>>

\* The owner approves what a hold names; one that could not be measured names nothing.
Approve ==
    /\ phase = "held" /\ Last(readings).snap.ok /\ before.ok
    /\ phase' = "idle"
    /\ UNCHANGED <<tree, readings, awaiting, before, profile, demands, spent>>

Instructs ==
    /\ phase = "allowed" /\ phase' = "idle"
    /\ UNCHANGED <<tree, readings, awaiting, before, profile, demands, spent>>

----------------------------------------------------------------------------
(* The completion claim.                                                     *)

Measurements == {i \in DOMAIN readings : readings[i].snap.ok}
FirstMeasured == readings[Min(Measurements)].snap
LastMeasured == readings[Max(Measurements)].snap

\* Slip: any uncommitted work is the relay's.
SlipMoved ==
    IF Cardinality(Measurements) < 2 THEN "unknown"
    ELSE IF LastMeasured.dirty > 0 \/ LastMeasured.head # FirstMeasured.head
         THEN "moved" ELSE "still"

\* The first reading against the last.
Moved ==
    IF Cardinality(Measurements) < 2 THEN "unknown"
    ELSE IF \/ FirstMeasured.head # LastMeasured.head
            \/ FirstMeasured.dirty # LastMeasured.dirty
         THEN "moved" ELSE "still"

\* verdict, over what the checks did: each passed, one failed, one could not be run.
ClaimVerdict(checks) ==
    CASE ~demands.checks /\ ~demands.change -> "UNCONFIGURED"
      [] (demands.checks /\ checks = "unrun") \/ (demands.change /\ Moved = "unknown")
             -> "UNMEASURABLE"
      [] ~((demands.checks /\ checks = "unrun") \/ (demands.change /\ Moved = "unknown"))
         /\ (demands.checks \/ demands.change)
         /\ (demands.checks => checks = "passed") /\ (demands.change => Moved = "moved")
             -> "CORROBORATED"
      [] OTHER -> "REFUTED"

Claim ==
    /\ phase = "allowed"
    /\ \E checks \in {"passed", "failed", "unrun"} :
           phase' = IF ClaimVerdict(checks) \in {"CORROBORATED", "UNCONFIGURED"}
                    THEN "complete" ELSE "idle"
    /\ UNCHANGED <<tree, readings, awaiting, before, profile, demands, spent>>

----------------------------------------------------------------------------
(* The process.                                                              *)

\* A turn closed and not yet gated is gone: nothing is queued behind it.
ProcessDies ==
    /\ phase \in {"ready", "open", "closed"} /\ spent.restarts < MaxRestarts
    /\ spent' = [spent EXCEPT !.restarts = @ + 1]
    /\ phase' = IF phase = "closed" THEN "stopped" ELSE "down"
    /\ before' = Unreadable
    /\ UNCHANGED <<tree, readings, awaiting, profile, demands>>

\* Slip: the reading is taken again, now.
SlipResumedReading == Read(tree, TRUE)

\* _before_reading on an outstanding turn: the recorded one, for the agent has worked since.
ResumedReading == LastOf("BEFORE_TURN").snap

ResumeTurn ==
    /\ phase = "down"
    /\ IF awaiting THEN before' = ResumedReading /\ phase' = "open"
       ELSE UNCHANGED before /\ phase' = "idle"
    /\ UNCHANGED <<tree, readings, awaiting, profile, demands, spent>>

ObserveNext ==
    \/ ReadBefore \/ DeliverDirective \/ AgentActs \/ Reply \/ ReadAfter
    \/ Approve \/ Instructs \/ Claim
    \/ ProcessDies \/ ResumeTurn

ObserveSpec == ObserveInit /\ [][ObserveNext]_observeVars

----------------------------------------------------------------------------
\* What the repository really went through in the turn just read.
TrueEffect == Changed(LastOf("BEFORE_TURN").tree, LastOf("AFTER_TURN").tree)

UpstreamUnread ==
    \E s \in {"BEFORE_TURN", "AFTER_TURN"} : LastOf(s).snap.ok /\ ~LastOf(s).snap.upstream

(* A turn the gate lets pass left nothing in the repository the profile does *)
(* not carry, the agent having worked on while the relay was dead or not,    *)
(* unless the upstream ref could not be read (effects.py:268).               *)
NothingPassesUnseen ==
    phase = "allowed" => Carries(TrueEffect) \/ UpstreamUnread

(* A relay that ends complete on a repository that had to move saw it moved  *)
(* from where it stood at the start, whatever was uncommitted then           *)
(* (kernel.py:1029).                                                         *)
CompleteMeansMoved ==
    phase = "complete" /\ demands.change =>
        \E i \in DOMAIN readings :
            readings[i].tree.head # readings[1].tree.head
            \/ readings[i].tree.dirty # readings[1].tree.dirty
=============================================================================
