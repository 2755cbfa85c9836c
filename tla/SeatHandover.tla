---------------------------- MODULE SeatHandover ----------------------------
(***************************************************************************)
(* The documents a new holder of a seat reads instead of a transcript      *)
(* (core/strategic_store.py context_capsule and handoff_bundle,            *)
(* core/briefing.py): assembled from the rows of the program whenever they *)
(* are asked for.                                                          *)
(*                                                                         *)
(* The child of lane "own" gets a capsule: sections filled oldest first    *)
(* under a budget of characters, a marker where one is cut.  The           *)
(* strategist gets a briefing of everything that is open in every lane,    *)
(* with a directive packet for the first few questions.                    *)
(***************************************************************************)
EXTENDS Naturals, Sequences, FiniteSets, SequencesExt

CONSTANTS
    Budget,             \* characters a capsule may use
    BlockerWindow,      \* blockers considered at all
    ObservationWindow,  \* observations considered at all
    DirectiveLimit,     \* questions a briefing renders a packet for
    MaxEntries,         \* bound: rows written
    MaxSize,            \* bound: size of an entry
    MaxUpstream         \* bound: dependencies of the lane

VARIABLES
    messages,       \* of the program, in their order
    decisions,      \* of the program, in their order
    upstream,       \* the dependency rows of the lane and what became of them
    checkpoint,     \* of the lane: the findings to fix and the findings held
    brief,          \* the lane's kind; objective, task and constraints together
    doc             \* the document assembled from the rows as they stand

seatVars == <<messages, decisions, upstream, checkpoint, brief, doc>>

Lanes == <<"own", "peer">>
Kinds == {"question", "authority", "blocker", "observation"}
Awaiting == {"question", "authority"}
OwnerRouted == {"authority"}
Roles == {"implementation", "verification"}
Sections == {"decisions", "dependency_outputs", "review_findings",
             "blockers", "open_questions", "recent_observations"}

\* What an entry holds is an excerpt, so its size is bounded.
Entry(id, size) == [id |-> id, size |-> size]
Marker(omitted) == [id |-> 0, size |-> 1, omitted |-> omitted]
NoDoc == [kind |-> "none"]

Entries(rows) == [i \in DOMAIN rows |-> Entry(rows[i].id, rows[i].size)]

(***************************************************************************)
(* The rows.                                                               *)
(***************************************************************************)
OfKind(lane, K) == SelectSeq(messages, LAMBDA m : m.lane = lane /\ m.kind \in K)
OpenQuestions(lane) == SelectSeq(OfKind(lane, Awaiting), LAMBDA m : ~m.answered)

\* Newest first.
LiveDecisions == Reverse(SelectSeq(decisions, LAMBDA d : d.status # "SUPERSEDED"))

\* In the order of the dependency rows, whenever each was completed.
UpstreamOutputs == SelectSeq(upstream, LAMBDA u : u.requires /\ u.state = "COMPLETE")

\* What every holder of the strategist's seat starts from.
HandoffBundle ==
    [decisions |-> LiveDecisions,
     questions |-> FlattenSeq([l \in DOMAIN Lanes |-> OpenQuestions(Lanes[l])])]

(***************************************************************************)
(* The capsule.                                                            *)
(***************************************************************************)
LastOf(rows, n) == SubSeq(rows, IF Len(rows) > n THEN Len(rows) - n + 1 ELSE 1, Len(rows))

Pools ==
    [decisions |-> Entries(Reverse(LiveDecisions)),
     dependency_outputs |-> Entries(UpstreamOutputs),
     review_findings |-> checkpoint.fix \o checkpoint.pending,
     blockers |-> Entries(LastOf(OfKind("own", {"blocker"}), BlockerWindow)),
     open_questions |-> Entries(OpenQuestions("own")),
     recent_observations |-> Entries(LastOf(OfKind("own", {"observation"}), ObservationWindow))]

\* A reviewer reads findings first, a builder what its dependencies produced.
SectionOrder(role) ==
    (IF role = "verification" THEN <<"review_findings", "decisions", "dependency_outputs">>
     ELSE <<"decisions", "dependency_outputs", "review_findings">>)
    \o <<"blockers", "open_questions", "recent_observations">>

Total(entries) == FoldLeft(LAMBDA sum, e : sum + e.size, 0, entries)
Used(content) ==
    FoldLeft(LAMBDA sum, s : sum + Total(content[s]), brief.size, SectionOrder(brief.role))

\* Slip: the section stops at the entry that does not fit, without a word.
SlipCut(pool, kept) == SubSeq(pool, 1, kept)

\* The entry that did not fit stays, and the marker after it counts it as omitted.
Cut(pool, kept) == Append(SubSeq(pool, 1, kept + 1), Marker(Len(pool) - kept))

\* Slip: the budget is not looked at.
SlipFits(content, pool, n) == TRUE

Fits(content, pool, n) == Used(content) + Total(SubSeq(pool, 1, n)) <= Budget

\* One section: its entries until one does not fit.
Fill(capsule, section) ==
    LET pool == Pools[section]
        kept == CHOOSE n \in 0..Len(pool) :
                    /\ \A k \in 1..n : Fits(capsule.content, pool, k)
                    /\ n = Len(pool) \/ ~Fits(capsule.content, pool, n + 1)
    IN  IF kept = Len(pool) THEN [capsule EXCEPT !.content[section] = pool]
        ELSE [capsule EXCEPT !.content[section] = Cut(pool, kept),
                             !.truncated = Append(@, section)]

ContextCapsule ==
    FoldLeft(Fill, [kind |-> "capsule", content |-> [s \in Sections |-> <<>>],
                    truncated |-> <<>>], SectionOrder(brief.role))

\* The text appended to the child's task: every section that holds something.
CapsuleText(content) == {s \in Sections : content[s] # <<>>}

(***************************************************************************)
(* The briefing.                                                           *)
(***************************************************************************)
Route(m) == IF m.kind \in OwnerRouted THEN "OWNER" ELSE "STRATEGIST"
Truncated(questions) == Len(questions) > DirectiveLimit
Question(m) == [id |-> m.id, lane |-> m.lane, route |-> Route(m)]

\* The packet for one question, which tells the strategist that an owner's question
\* is not for it.
DirectivePacket(q) == [id |-> q.id, answerable |-> q.route = "STRATEGIST"]

Briefing(bundle) ==
    LET asked == [i \in DOMAIN bundle.questions |-> Question(bundle.questions[i])]
        shown == SubSeq(asked, 1, IF Truncated(asked) THEN DirectiveLimit ELSE Len(asked))
    IN  [kind |-> "briefing", decisions |-> bundle.decisions, questions |-> asked,
         directives |-> [i \in DOMAIN shown |-> DirectivePacket(shown[i])],
         truncated |-> Truncated(asked)]

(***************************************************************************)
(* The program.                                                            *)
(***************************************************************************)
SeatInit ==
    /\ messages = <<>> /\ decisions = <<>>
    /\ \E n \in 0..MaxUpstream :
         upstream \in [1..n -> [id : {1}, requires : BOOLEAN, size : 1..MaxSize,
                                state : {"ACTIVE"}]]
    /\ checkpoint = [fix |-> <<>>, pending |-> <<>>]
    /\ brief \in [role : Roles, size : 1..MaxSize]
    /\ doc = NoDoc

Written == Len(messages) + Len(decisions) + Len(checkpoint.fix) + Len(checkpoint.pending)

\* A document is of the rows it was read from.
Changes == doc' = NoDoc /\ UNCHANGED brief

Message(lane, kind, size) ==
    [id |-> Len(messages) + 1, lane |-> lane, kind |-> kind, size |-> size, answered |-> FALSE]
Decision(size, supersedes) ==
    [id |-> Len(decisions) + 1, size |-> size, status |-> "DECIDED", supersedes |-> supersedes]

RecordMessage(lane, kind, size) ==
    /\ Written < MaxEntries
    /\ messages' = Append(messages, Message(lane, kind, size))
    /\ Changes /\ UNCHANGED <<decisions, upstream, checkpoint>>

RecordDecision(size) ==
    /\ Written < MaxEntries
    /\ decisions' = Append(decisions, Decision(size, 0))
    /\ Changes /\ UNCHANGED <<messages, upstream, checkpoint>>

\* Answering a question is a decision too; a question already answered is not refused.
Answer(i, size) ==
    /\ Written < MaxEntries /\ messages[i].kind \in Awaiting
    /\ decisions' = Append(decisions, Decision(size, 0))
    /\ messages' = [messages EXCEPT ![i].answered = TRUE]
    /\ Changes /\ UNCHANGED <<upstream, checkpoint>>

\* The replacement is recorded, then the decision it replaces is marked.
SupersedeDecision(i, size) ==
    /\ Written < MaxEntries
    /\ decisions' = Append(decisions, Decision(size, i))
    /\ Changes /\ UNCHANGED <<messages, upstream, checkpoint>>

MarkSuperseded(i) ==
    /\ decisions[i].supersedes # 0
    /\ decisions' = [decisions EXCEPT ![decisions[i].supersedes].status = "SUPERSEDED"]
    /\ decisions' # decisions
    /\ Changes /\ UNCHANGED <<messages, upstream, checkpoint>>

Completes(i) ==
    /\ upstream[i].state = "ACTIVE"
    /\ upstream' = [upstream EXCEPT ![i].state = "COMPLETE"]
    /\ Changes /\ UNCHANGED <<messages, decisions, checkpoint>>

Finding(size) == Entry(1, size)

\* Findings of the verification are held while an adversarial review runs.
HoldFindings(size) ==
    /\ Written < MaxEntries
    /\ checkpoint' = [checkpoint EXCEPT !.pending = <<Finding(size)>>]
    /\ Changes /\ UNCHANGED <<messages, decisions, upstream>>

\* The review's own findings and the held ones are to be fixed, or past the bound on
\* cycles are left with a blocker.
ResolveFindings(found, exhausted) ==
    LET surviving == found \o checkpoint.pending
    IN  /\ Written + Len(found) < MaxEntries /\ surviving # <<>>
        /\ checkpoint' = [fix |-> IF exhausted THEN checkpoint.fix ELSE surviving,
                          pending |-> <<>>]
        /\ messages' = IF exhausted THEN Append(messages, Message("own", "blocker", 1))
                       ELSE messages
        /\ Changes /\ UNCHANGED <<decisions, upstream>>

\* A seat that independence refuses leaves a blocker and a finding.
RefuseSeat(size) ==
    /\ Written + 1 < MaxEntries
    /\ messages' = Append(messages, Message("own", "blocker", 1))
    /\ checkpoint' = [checkpoint EXCEPT !.fix = Append(@, Finding(size))]
    /\ Changes /\ UNCHANGED <<decisions, upstream>>

\* A dispatch that replaces another holder of the lane's seat assembles its capsule.
AssembleCapsule ==
    /\ doc = NoDoc
    /\ doc' = ContextCapsule
    /\ UNCHANGED <<messages, decisions, upstream, checkpoint, brief>>

\* The dispatched attempt carries the findings to fix.
ConsumeFindings ==
    /\ checkpoint.fix # <<>>
    /\ checkpoint' = [checkpoint EXCEPT !.fix = <<>>]
    /\ Changes /\ UNCHANGED <<messages, decisions, upstream>>

AssembleBriefing ==
    /\ doc = NoDoc
    /\ doc' = Briefing(HandoffBundle)
    /\ UNCHANGED <<messages, decisions, upstream, checkpoint, brief>>

SeatNext ==
    \/ \E size \in 1..MaxSize :
         \/ \E l \in DOMAIN Lanes, kind \in Kinds : RecordMessage(Lanes[l], kind, size)
         \/ RecordDecision(size) \/ HoldFindings(size) \/ RefuseSeat(size)
         \/ \E i \in DOMAIN messages : Answer(i, size)
         \/ \E i \in DOMAIN decisions : SupersedeDecision(i, size)
         \/ \E exhausted \in BOOLEAN : ResolveFindings(<<Finding(size)>>, exhausted)
    \/ \E exhausted \in BOOLEAN : ResolveFindings(<<>>, exhausted)
    \/ \E i \in DOMAIN decisions : MarkSuperseded(i)
    \/ \E i \in DOMAIN upstream : Completes(i)
    \/ ConsumeFindings \/ AssembleCapsule \/ AssembleBriefing

SeatSpec == SeatInit /\ [][SeatNext]_seatVars

(***************************************************************************)
(* Properties.                                                             *)
(***************************************************************************)
Shown(section) ==
    LET marked == \E i \in DOMAIN doc.content[section] : doc.content[section][i].id = 0
    IN  Len(doc.content[section]) - (IF marked THEN 1 ELSE 0)

\* "an omitted fact is stated as omitted, never silently absent": what a section of
\* a capsule does not show is counted by the marker it ends in, and a question
\* without a packet in a briefing is stood for by the briefing's flag, whoever's
\* lane asked it (strategic_store.py context_capsule, briefing.py briefing).
\* The windows are not covered.
OmissionIsStated ==
    /\ doc.kind = "capsule" =>
         \A s \in Sections : Shown(s) < Len(Pools[s]) =>
           /\ s \in ToSet(doc.truncated)
           /\ doc.content[s] # <<>> /\ Last(doc.content[s]).id = 0
           /\ Last(doc.content[s]).omitted >= Len(Pools[s]) - Shown(s)
    /\ doc.kind = "briefing" =>
         \A i \in DOMAIN messages :
           messages[i].kind \in Awaiting /\ ~messages[i].answered =>
             /\ \E q \in ToSet(doc.questions) : q.id = i
             /\ doc.truncated \/ \E d \in ToSet(doc.directives) : d.id = i

\* What a capsule exceeds its budget by is at most its head, and an entry and a
\* marker for each section that was cut (strategic_store.py context_capsule).
OverrunIsBounded ==
    doc.kind = "capsule" =>
      LET limit == IF Budget > brief.size THEN Budget ELSE brief.size
      IN  Used(doc.content) <= limit + Len(doc.truncated) * (MaxSize + 1)

\* After a cut every section still shows its oldest entry: none is starved by the
\* ones before it (strategic_store.py context_capsule, capsule_text).
NoneIsStarved ==
    doc.kind = "capsule" =>
      \A s \in Sections : Pools[s] # <<>> => s \in CapsuleText(doc.content)
=============================================================================
