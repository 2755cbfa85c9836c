--------------------------- MODULE PlanAdmission ---------------------------
(****************************************************************************)
(* A planner's proposal (core/planner.py): validated as data, checked for    *)
(* cycles one lane at a time, and adopted write by write.  The adopter can   *)
(* die between two writes, and adopt again.                                  *)
(****************************************************************************)
EXTENDS Naturals, Sequences, FiniteSets, FiniteSetsExt, SequencesExt, Functions

CONSTANTS
    LaneCount,       \* lanes of a proposal
    MaxDeps,         \* dependencies a lane lists
    MaxAdoptions     \* times adoption is tried

VARIABLES
    plan,            \* the proposal under admission
    stage,           \* how far validation or adoption is
    kahn,            \* the cycle check's counters, queue and visited keys
    errors,          \* names of what validation found
    planDoc,         \* status of the proposal's document
    laneMap,         \* lanes this adoption created: key -> lane id
    laneRows,        \* lanes written by every adoption so far
    requires,        \* dependency rows <<lane id, lane id>>
    adoptions        \* adoptions tried

planVars == <<plan, stage, kahn, errors, planDoc, laneMap, laneRows, requires, adoptions>>

adopted == <<planDoc, laneMap, laneRows, requires, adoptions>>

Keys == 1 .. LaneCount
Unknown == LaneCount + 1

----------------------------------------------------------------------------
(* Proposals: what each lane lists, and the flaw one of them may carry.      *)

\* kind and acceptance: a list, an empty one, null, or too long.
Shapes == {<<"implementation", "listed">>, <<"implementation", "empty">>,
           <<"research", "null">>, <<"research", "long">>, <<"strange", "listed">>,
           <<"", "listed">>}

PlanLane(key, shape, deps) ==
    [key |-> key, kind |-> shape[1], acceptance |-> shape[2], deps |-> deps]

DepLists == BoundedSeq(Keys \cup {Unknown}, MaxDeps)

\* The keys, the first lane's shape and what every lane depends on.
Proposal(k, shape, d) ==
    [field |-> "", lanes |-> [i \in Keys |->
        PlanLane(k[i], IF i = 1 THEN shape ELSE <<"implementation", "listed">>, d[i])]]

\* Every lane has a key of its own, or the second has the first one's.
KeyLists == {[i \in Keys |-> i], [i \in Keys |-> IF i = 2 THEN 1 ELSE i]}

Plans ==
    {Proposal(k, s, d) : k \in KeyLists, s \in Shapes, d \in [Keys -> DepLists]}
    \cup {[field |-> f, lanes |-> l] :
             f \in {"authority", "other"},
             l \in {<<>>, <<PlanLane(1, <<"implementation", "listed">>, <<>>)>>}}

NoPlan == [field |-> "", lanes |-> <<>>]
NoKahn == [indeg |-> <<>>, queue |-> <<>>, seen |-> {}]

PlanInit ==
    /\ plan = NoPlan /\ stage = "none" /\ kahn = NoKahn /\ errors = {}
    /\ planDoc = "" /\ laneMap = <<>> /\ laneRows = 0 /\ requires = {} /\ adoptions = 0

----------------------------------------------------------------------------
(* validate_plan_proposal.                                                   *)

Lanes == Range(plan.lanes)
PlanKeys == {l.key : l \in Lanes}

\* An authority claim is refused under its own name.
KeyErrors ==
    CASE plan.field = "authority" -> {"PROPOSAL_AUTHORITY_FIELD"}
      [] plan.field = "other" -> {"PROPOSAL_UNKNOWN_FIELD"}
      [] OTHER -> {}

LaneErrors ==
    {e \in {"duplicate key", "kind"} :
        \/ e = "duplicate key" /\ Cardinality(PlanKeys) < Len(plan.lanes)
        \/ e = "kind" /\ \E l \in Lanes : l.kind = ""}

\* Only when every lane names a kind.
KindErrors ==
    {e \in {"PROPOSAL_UNKNOWN_KIND", "PROPOSAL_INVALID"} :
        /\ \A l \in Lanes : l.kind # ""
        /\ \E l \in Lanes :
               \/ e = "PROPOSAL_UNKNOWN_KIND" /\ l.kind = "strange"
               \/ e = "PROPOSAL_INVALID" /\ l.kind = "implementation"
                                         /\ l.acceptance \in {"empty", "null"}}

\* A lane whose acceptance is null is passed over, its dependencies with it.
ReferenceErrors ==
    {e \in {"acceptance", "unknown dependency"} :
        \E l \in Lanes :
            /\ l.acceptance # "null"
            /\ \/ e = "acceptance" /\ l.acceptance = "long"
               \/ e = "unknown dependency" /\ Range(l.deps) \ PlanKeys # {}}

\* One key, several lanes: the last one's dependencies count.
Edges ==
    [k \in PlanKeys |->
        LET last == Max({i \in DOMAIN plan.lanes : plan.lanes[i].key = k})
        IN  SelectSeq(plan.lanes[last].deps, LAMBDA d : d \in PlanKeys)]

KahnStart ==
    LET indeg == [k \in PlanKeys |-> Len(Edges[k])]
    IN  [indeg |-> indeg,
         queue |-> SetToSortSeq({k \in PlanKeys : indeg[k] = 0}, <),
         seen |-> {}]

Propose ==
    /\ stage = "none"
    /\ \E p \in Plans : plan' = p /\ stage' = "shape"
    /\ UNCHANGED <<kahn, errors, adopted>>

\* Everything but the cycle check; no lanes ends it here.
Validate ==
    /\ stage = "shape"
    /\ IF plan.lanes = <<>>
       THEN /\ errors' = KeyErrors \cup {"PROPOSAL_EMPTY"}
            /\ stage' = "judged"
            /\ UNCHANGED kahn
       ELSE /\ errors' = KeyErrors \cup LaneErrors \cup KindErrors \cup ReferenceErrors
            /\ stage' = "sorting"
            /\ kahn' = KahnStart
    /\ UNCHANGED <<plan, adopted>>

\* Slip: a lane one of whose dependencies is done is taken as ready.
SlipVisit(n) ==
    LET freed == {k \in PlanKeys \ (kahn.seen \cup {n}) : n \in Range(Edges[k])}
    IN  [indeg |-> kahn.indeg, seen |-> kahn.seen \cup {n},
         queue |-> Tail(kahn.queue)
                      \o SetToSortSeq(freed \ Range(kahn.queue), <)]

\* One round of the queue: a lane that lists n loses one of its counted dependencies, even
\* when it lists n twice.
Visit(n) ==
    LET seen == kahn.seen \cup {n}
        rest == Tail(kahn.queue)
        lists == {k \in PlanKeys \ (seen \cup Range(rest)) : n \in Range(Edges[k])}
        indeg == [k \in PlanKeys |-> IF k \in lists THEN kahn.indeg[k] - 1 ELSE kahn.indeg[k]]
    IN  [indeg |-> indeg, seen |-> seen,
         queue |-> rest \o SetToSortSeq({k \in lists : indeg[k] = 0}, <)]

Sort ==
    /\ stage = "sorting" /\ kahn.queue # <<>>
    /\ kahn' = Visit(Head(kahn.queue))
    /\ UNCHANGED <<plan, stage, errors, adopted>>

\* What the queue never reached is a cycle; the proposal is filed when nothing was found.
Judge ==
    LET found == errors \cup {e \in {"PROPOSAL_CYCLE"} : PlanKeys # kahn.seen} IN
    /\ stage = "sorting" /\ kahn.queue = <<>>
    /\ errors' = found
    /\ stage' = "judged"
    /\ planDoc' = IF found = {} THEN "PENDING" ELSE ""
    /\ UNCHANGED <<plan, kahn, laneMap, laneRows, requires, adoptions>>

----------------------------------------------------------------------------
(* adopt_plan_proposal.                                                      *)

Adopt ==
    /\ stage = "judged" /\ planDoc = "PENDING" /\ adoptions < MaxAdoptions
    /\ adoptions' = adoptions + 1
    /\ laneMap' = <<>>
    /\ stage' = "lanes"
    /\ UNCHANGED <<plan, kahn, errors, planDoc, laneRows, requires>>

\* plan_lane, for the next lane of the proposal.
PlanOneLane ==
    LET next == plan.lanes[Cardinality(DOMAIN laneMap) + 1].key IN
    /\ stage = "lanes" /\ DOMAIN laneMap # PlanKeys
    /\ laneRows' = laneRows + 1
    /\ laneMap' = [k \in DOMAIN laneMap \cup {next} |->
                      IF k = next THEN laneRows + 1 ELSE laneMap[k]]
    /\ UNCHANGED <<plan, stage, kahn, errors, planDoc, requires, adoptions>>

\* Slip: the rows are written as the lanes are: a lane created later has no id yet.
SlipRows ==
    UNION {{<<laneMap[l.key], laneMap[d]>> :
               d \in {k \in Range(l.deps) \cap PlanKeys : laneMap[k] < laneMap[l.key]}} : l \in Lanes}

\* The dependencies the proposal asks for, as rows between the lanes of this adoption.
Rows == UNION {{<<laneMap[l.key], laneMap[d]>> : d \in Range(l.deps) \cap PlanKeys} : l \in Lanes}
Unmapped == \E l \in Lanes : Range(l.deps) \ PlanKeys # {}

\* add_dependency, for one of them.
Wire ==
    /\ stage = "lanes" /\ DOMAIN laneMap = PlanKeys
    /\ \E r \in Rows : r \notin requires /\ requires' = requires \cup {r}
    /\ UNCHANGED <<plan, stage, kahn, errors, planDoc, laneMap, laneRows, adoptions>>

\* The second pass reaches a key no lane has: it raises and the document stays as it was.
WireRaises ==
    /\ stage = "lanes" /\ DOMAIN laneMap = PlanKeys /\ Unmapped
    /\ stage' = "judged"
    /\ UNCHANGED <<plan, kahn, errors, adopted>>

\* The decision and the document.
Record ==
    /\ stage = "lanes" /\ DOMAIN laneMap = PlanKeys /\ ~Unmapped /\ Rows \subseteq requires
    /\ planDoc' = "ADOPTED"
    /\ stage' = "judged"
    /\ UNCHANGED <<plan, kahn, errors, laneMap, laneRows, requires, adoptions>>

AdopterDies ==
    /\ stage = "lanes"
    /\ stage' = "judged"
    /\ UNCHANGED <<plan, kahn, errors, adopted>>

PlanNext ==
    \/ Propose \/ Validate \/ Sort \/ Judge
    \/ Adopt \/ PlanOneLane \/ Wire \/ WireRaises \/ Record \/ AdopterDies

PlanSpec == PlanInit /\ [][PlanNext]_planVars

----------------------------------------------------------------------------
(* Some order puts every lane after the lanes it depends on.                 *)
Acyclic ==
    \E rank \in [PlanKeys -> Keys] :
        \A k \in PlanKeys : \A d \in Range(Edges[k]) : rank[d] < rank[k]

Repeats == \E l \in Lanes : Cardinality(Range(l.deps)) < Len(l.deps)

(* The cycle check refuses every cyclic plan, and an acyclic one only if a   *)
(* lane of it lists a dependency twice, whatever the order in which lanes    *)
(* are listed and freed (planner.py:209).                                    *)
CycleVerdict ==
    stage = "judged" /\ plan.lanes # <<>> =>
        /\ ~Acyclic => "PROPOSAL_CYCLE" \in errors
        /\ Acyclic /\ ~Repeats => "PROPOSAL_CYCLE" \notin errors

(* An adopted plan is whole: every lane of it exists, and its dependencies   *)
(* are the proposal's, between lanes of this adoption and no earlier one     *)
(* that died half way (planner.py:348).                                      *)
AdoptedIsWhole ==
    planDoc = "ADOPTED" =>
        /\ DOMAIN laneMap = PlanKeys
        /\ \A l \in Lanes : \A d \in PlanKeys :
               <<laneMap[l.key], laneMap[d]>> \in requires <=> d \in Range(l.deps)
=============================================================================
