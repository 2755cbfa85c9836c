------------------------------ MODULE LaneTree ------------------------------
(***************************************************************************)
(* The lanes' worktrees and what the scheduler commits and merges in them  *)
(* (workspace/worktrees.py, and _sync_dependencies, _ensure_lane_worktree, *)
(* _after_implementation and integrate of core/orchestrator.py).           *)
(*                                                                         *)
(* A child edits its lane's tree and cannot commit; the scheduler commits  *)
(* after the run, resets the tree of a refused run, commits what is dirty  *)
(* before it merges the branches a lane depends on, and merges all         *)
(* branches in the end.  A commit is several git commands, and it is       *)
(* refused unless git shows that interpreter noise is excluded.  The       *)
(* exclude file is shared by all trees and anyone may rewrite it.          *)
(***************************************************************************)
EXTENDS Naturals, FiniteSets

CONSTANTS
    Crew,           \* implementation lanes
    First,          \* the lane the others may require
    Sources,        \* project files; Lockfile is one of them
    Lockfile,       \* a file textual merging cannot be trusted with
    MaxRuns,        \* bound: runs of all lanes
    MaxTampers      \* bound: times the exclude file is rewritten

VARIABLES
    needs,          \* do the other lanes require the first one?
    made,           \* lanes whose worktree exists
    disk,           \* per lane: what differs from its HEAD on disk
    staged,         \* per lane: what its index holds beyond HEAD
    has,            \* per lane: what its branch holds
    synced,         \* lanes whose dependency is merged, as the checkpoint says
    lane,           \* per lane: where it stands
    committing,     \* a commit in progress: its lane, reason and step
    excludes,       \* the shared exclude file: its block, its marker alone, or neither
    writable,       \* can the exclude file be written?
    omit,           \* lanes a recorded decision leaves out of the integration
    integration,    \* its state and what its worktree holds
    runs, tampers,  \* runs so far; rewrites of the exclude file
    past            \* history: work accepted, dropped, smuggled; lapses and failures

treeVars == <<needs, made, disk, staged, has, synced, lane, committing, excludes, writable, omit,
              integration, runs, tampers, past>>

Noise == "pyc"
Things == Sources \cup {Noise}
Idle == [of |-> "nobody"]

(***************************************************************************)
(* What git says.                                                          *)
(***************************************************************************)
Effective == excludes = "block"

\* Changed files relative to HEAD, untracked ones included, ignored ones not.
ChangedFiles(l) == (disk[l] \cup staged[l]) \ (IF Effective THEN {Noise} ELSE {})

\* The block is appended unless its marker is there or the file cannot be written.
AfterEnsure == IF excludes = "none" /\ writable THEN "block" ELSE excludes

\* Slip: the block was asserted, so it is in force.
SlipProved == TRUE

\* Is the commit allowed to sweep the tree: git itself reports the noise as ignored.
Proved == AfterEnsure = "block"

\* Slip: untracked files are not added.
SlipSwept(l) == staged[l] \cup (ChangedFiles(l) \cap has[l])

Swept(l) == staged[l] \cup ChangedFiles(l)

(***************************************************************************)
(* The worktree and its synchronisation.                                   *)
(***************************************************************************)
TreeInit ==
    /\ needs \in BOOLEAN /\ made = {} /\ disk = [l \in Crew |-> {}] /\ staged = [l \in Crew |-> {}]
    /\ has = [l \in Crew |-> {}] /\ synced = {}
    /\ lane = [l \in Crew |-> "planned"]
    /\ committing = Idle /\ excludes \in {"none", "block"} /\ writable \in BOOLEAN
    /\ omit = {} /\ integration = [state |-> "none", made |-> FALSE, has |-> {}]
    /\ runs = 0 /\ tampers = 0
    /\ past = [accepted |-> [l \in Crew |-> {}], refused |-> [l \in Crew |-> {}],
               smuggled |-> {}, lapsed |-> FALSE, unreset |-> FALSE, missed |-> {}]

NoCommit == committing = Idle
Ready(l) == lane[l] = "planned" /\ NoCommit /\ runs < MaxRuns
Requires(l) == needs /\ l # First
Unblocked(l) == Requires(l) => lane[First] = "complete"

\* A worktree on a new branch; its creation asserts the exclude block.
CreateTree(l) ==
    /\ Ready(l) /\ Unblocked(l) /\ l \notin made
    /\ made' = made \cup {l}
    /\ excludes' = AfterEnsure
    /\ UNCHANGED <<needs, disk, staged, has, synced, lane, committing, writable, omit,
                   integration, runs, tampers, past>>

\* Uncommitted work of a run that paused is committed before anything is merged.
BeginCheckpoint(l) ==
    /\ Ready(l) /\ Unblocked(l) /\ l \in made /\ ChangedFiles(l) # {}
    /\ committing' = [of |-> l, why |-> "checkpoint", step |-> "probe"]
    /\ UNCHANGED <<needs, made, disk, staged, has, synced, lane, excludes, writable,
                   omit, integration, runs, tampers, past>>

\* The upstream branch is merged; a conflict is aborted and the lane is tried again.
MergeUpstream(l) ==
    /\ Ready(l) /\ Requires(l) /\ lane[First] = "complete" /\ l \in made /\ ChangedFiles(l) = {}
    /\ l \notin synced
    /\ has' = [has EXCEPT ![l] = @ \cup has[First]]
    /\ synced' = synced \cup {l}
    /\ UNCHANGED <<needs, made, disk, staged, lane, committing, excludes, writable,
                   omit, integration, runs, tampers, past>>

Dispatch(l) ==
    /\ Ready(l) /\ l \in made /\ ChangedFiles(l) = {}
    /\ Requires(l) => l \in synced
    /\ lane' = [lane EXCEPT ![l] = "running"]
    /\ runs' = runs + 1
    /\ UNCHANGED <<needs, made, disk, staged, has, synced, committing, excludes,
                   writable, omit, integration, tampers, past>>

(***************************************************************************)
(* The run and its end.                                                    *)
(***************************************************************************)
\* A handoff, a question (the lane is parked with its work), a refused result, or a death.
RunEnds(l) ==
    /\ lane[l] = "running"
    /\ \E W \in SUBSET Things, end \in {"handed", "parked", "refused", "ambiguous"} :
         /\ disk' = [disk EXCEPT ![l] = @ \cup W]
         /\ lane' = [lane EXCEPT ![l] = end]
         /\ past' = [past EXCEPT
                !.accepted[l] = IF end \in {"handed", "parked"} THEN @ \cup (W \ {Noise}) ELSE @,
                !.refused[l] = IF end = "refused" THEN @ \cup (W \ {Noise}) ELSE @ \ W]
    /\ UNCHANGED <<needs, made, staged, has, synced, committing, excludes, writable, omit,
                   integration, runs, tampers>>

\* An answer or an owner wakes the lane over the work it holds.
Resumed(l) ==
    /\ lane[l] \in {"parked", "ambiguous"}
    /\ lane' = [lane EXCEPT ![l] = "planned"]
    /\ UNCHANGED <<needs, made, disk, staged, has, synced, committing, excludes,
                   writable, omit, integration, runs, tampers, past>>

\* Slip: a hard reset that leaves the untracked files.
SlipResetDisk(l) == disk[l] \ has[l]

\* A hard reset and a clean: ignored files stay.
ResetDisk(l) == IF Effective THEN disk[l] \cap {Noise} ELSE {}

\* The tree of a refused run is reset and the lane is tried again.  Nothing
\* looks at whether git could do it.
ResetRefused(l) ==
    /\ lane[l] = "refused" /\ NoCommit
    /\ lane' = [lane EXCEPT ![l] = "planned"]
    /\ \/ /\ disk' = [disk EXCEPT ![l] = ResetDisk(l)]
          /\ staged' = [staged EXCEPT ![l] = {}]
          /\ UNCHANGED past
       \/ past' = [past EXCEPT !.unreset = TRUE] /\ UNCHANGED <<disk, staged>>
    /\ UNCHANGED <<needs, made, has, synced, committing, excludes, writable, omit,
                   integration, runs, tampers>>

(***************************************************************************)
(* The commit.                                                             *)
(***************************************************************************)
BeginCommit(l) ==
    /\ lane[l] = "handed" /\ NoCommit
    /\ committing' = [of |-> l, why |-> "attempt", step |-> "probe"]
    /\ UNCHANGED <<needs, made, disk, staged, has, synced, lane, excludes, writable,
                   omit, integration, runs, tampers, past>>

\* Where the lane goes once its commit step is over.
Onward(l) == [lane EXCEPT ![l] = IF committing.why = "attempt" THEN "committed" ELSE @]

CommitRefused ==
    /\ committing.of \in Crew /\ committing.step = "probe" /\ ~Proved
    /\ excludes' = AfterEnsure /\ committing' = Idle
    /\ lane' = Onward(committing.of)
    /\ past' = IF committing.why = "attempt"
               THEN [past EXCEPT !.missed = @ \cup {committing.of}] ELSE past
    /\ UNCHANGED <<needs, made, disk, staged, has, synced, writable, omit, integration,
                   runs, tampers>>

CommitProved ==
    /\ committing.of \in Crew /\ committing.step = "probe" /\ Proved
    /\ excludes' = AfterEnsure /\ committing' = [committing EXCEPT !.step = "add"]
    /\ UNCHANGED <<needs, made, disk, staged, has, synced, lane, writable, omit,
                   integration, runs, tampers, past>>

CommitAdds ==
    /\ committing.of \in Crew /\ committing.step = "add"
    /\ LET l == committing.of
       IN  /\ staged' = [staged EXCEPT ![l] = Swept(l)]
           /\ disk' = [disk EXCEPT ![l] = @ \ Swept(l)]
    /\ committing' = [committing EXCEPT !.step = "write"]
    /\ UNCHANGED <<needs, made, has, synced, lane, excludes, writable, omit,
                   integration, runs, tampers, past>>

CommitWrites ==
    /\ committing.of \in Crew /\ committing.step = "write"
    /\ LET l == committing.of
       IN  /\ has' = [has EXCEPT ![l] = @ \cup staged[l]]
           /\ staged' = [staged EXCEPT ![l] = {}]
           /\ lane' = Onward(l)
           /\ past' = [past EXCEPT !.smuggled = @ \cup (staged[l] \cap past.refused[l])]
    /\ committing' = Idle
    /\ UNCHANGED <<needs, made, disk, synced, excludes, writable, omit, integration,
                   runs, tampers>>

\* The process dies in a commit: what was added stays added.  The run counts as
\* processed, so the lane of an attempt is left where it is.
DiesCommitting ==
    /\ committing.of \in Crew
    /\ committing' = Idle
    /\ lane' = [lane EXCEPT ![committing.of] = IF committing.why = "attempt" THEN "left" ELSE @]
    /\ UNCHANGED <<needs, made, disk, staged, has, synced, excludes, writable, omit,
                   integration, runs, tampers, past>>

\* The tests run in the tree and leave noise; then the lane is complete or tried
\* again, whatever became of the commit.
VerifyLane(l) ==
    /\ lane[l] = "committed"
    /\ disk' = [disk EXCEPT ![l] = @ \cup {Noise}]
    /\ \E s \in {"complete", "planned"} : lane' = [lane EXCEPT ![l] = s]
    /\ UNCHANGED <<needs, made, staged, has, synced, committing, excludes, writable,
                   omit, integration, runs, tampers, past>>

(***************************************************************************)
(* Integration.                                                            *)
(***************************************************************************)
\* Files two lanes share that textual merging cannot be trusted with.
OverlapRisk == \E l, k \in Crew : l # k /\ Lockfile \in ChangedFiles(l) \cap ChangedFiles(k)

Merged(without) == UNION {has[l] : l \in Crew \ without}

Integrate ==
    /\ \A l \in Crew : lane[l] = "complete"
    /\ integration.state \notin {"COMPLETE"} /\ NoCommit
    /\ excludes' = IF integration.made THEN excludes ELSE AfterEnsure
    /\ \/ /\ OverlapRisk
          /\ integration' = [integration EXCEPT !.state = "CONFLICT", !.made = TRUE]
       \/ /\ ~OverlapRisk
          /\ \/ \E l \in Crew \ omit :
                  integration' = [state |-> "CONFLICT", made |-> TRUE,
                                  has |-> integration.has \cup Merged(omit \cup {l})]
             \/ \E s \in {"COMPLETE", "TESTS_FAILED"} :
                  integration' = [state |-> s, made |-> TRUE,
                                  has |-> integration.has \cup Merged(omit)]
    /\ UNCHANGED <<needs, made, disk, staged, has, synced, lane, committing, writable,
                   omit, runs, tampers, past>>

\* A recorded decision leaves a branch out of the next attempt.
Exclude(l) ==
    /\ integration.state = "CONFLICT" /\ omit = {}
    /\ omit' = {l}
    /\ UNCHANGED <<needs, made, disk, staged, has, synced, lane, committing, excludes,
                   writable, integration, runs, tampers, past>>

\* Somebody rewrites the exclude file, or its permissions.
Tamper ==
    /\ tampers < MaxTampers /\ tampers' = tampers + 1
    /\ excludes' \in {"none", "marker", "block"} /\ writable' \in BOOLEAN
    /\ past' = [past EXCEPT !.lapsed = @ \/ (~NoCommit /\ committing.step = "add")]
    /\ UNCHANGED <<needs, made, disk, staged, has, synced, lane, committing, omit,
                   integration, runs>>

TreeNext ==
    \/ \E l \in Crew :
         \/ CreateTree(l) \/ BeginCheckpoint(l) \/ MergeUpstream(l) \/ Dispatch(l)
         \/ RunEnds(l) \/ Resumed(l) \/ ResetRefused(l)
         \/ BeginCommit(l) \/ VerifyLane(l) \/ Exclude(l)
    \/ CommitRefused \/ CommitProved \/ CommitAdds \/ CommitWrites \/ DiesCommitting
    \/ Integrate \/ Tamper

TreeSpec == TreeInit /\ [][TreeNext]_treeVars

(***************************************************************************)
(* Properties.                                                             *)
(***************************************************************************)
\* Interpreter noise enters no branch, unless the exclusion vanished between
\* git's proof of it and the add (worktrees.py commit_all).
NoiseStaysOut == (\E l \in Crew : Noise \in has[l]) => past.lapsed

\* Work that only a refused run did enters no commit, neither the one of the
\* next attempt nor a checkpoint before a merge, unless git could not reset the
\* tree (orchestrator.py _process_runs, worktrees.py reset_worktree).
RefusedWorkIsDropped == past.smuggled # {} => past.unreset

\* A complete integration holds all the work of the handoffs of every lane that
\* no decision left out, unless a commit of the lane was refused (orchestrator.py
\* _after_implementation, integrate).
IntegratedIsWhole ==
    integration.state = "COMPLETE" =>
      \A l \in Crew \ (omit \cup past.missed) : past.accepted[l] \subseteq integration.has

\* "after a semantic-overlap check (lockfile/schema collisions force
\* re-evaluation even when git merges textually)" (docs/OPERATIONS.md:243-244).
OverlapIsSeen ==
    integration.state = "COMPLETE" =>
      needs \/ Cardinality({l \in Crew \ omit : Lockfile \in has[l]}) < 2
============================================================================
