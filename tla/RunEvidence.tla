---------------------------- MODULE RunEvidence ----------------------------
(***************************************************************************)
(* What the bridge measures of a run, beside what the child reports        *)
(* (evidence/, workspace/git.py, and the steps of core/worker.py and       *)
(* core/dispatcher.py that use them).                                      *)
(*                                                                         *)
(* A repository is read by several git commands, so a reading has two      *)
(* halves (HEAD and branch, then status, files and diff) and the tree may  *)
(* move between them: the child writes, and so may another session.  The   *)
(* dispatcher reads once to bind the run and once more before it spawns,   *)
(* the worker before the child and after it, and the verdict compares the  *)
(* last two readings with what the report claims.                          *)
(***************************************************************************)
EXTENDS Naturals, Sequences, FiniteSets, SequencesExt

CONSTANTS
    Files,          \* paths of the repository
    MaxWrites       \* bound: changes of the tree, the index, HEAD or the branch

VARIABLES
    tree,           \* head, branch, and per path its bytes in base, index and disk
    want,           \* the head and branch the run is bound to, and how many files it held
    floor,          \* the floor somebody derived for the run
    half,           \* the first half of a reading in progress
    before, after,  \* the worker's two readings
    was, is,        \* the disk when each of them read the status
    phase,          \* how far the run has come
    write,          \* is the run a write run?
    report,         \* what the child reported
    verdict,        \* the evidence verdict and its disagreements
    writes          \* changes made so far

evidenceVars == <<tree, want, floor, half, before, after, was, is, phase, write, report,
                  verdict, writes>>

Absent == 0
Contents == 0..2

(***************************************************************************)
(* Readings.  A path is dirty when the index or the disk differs from the  *)
(* commit; an untracked path is one the index does not hold.  The diff is  *)
(* of tracked paths only.                                                  *)
(***************************************************************************)
Tracked(t) == {p \in Files : t.index[p] # Absent}
Dirty(t) == {p \in Files : t.index[p] # t.base[p] \/ t.disk[p] # t.index[p]}
Diff(t) == [p \in {q \in Files : (t.index[q] # Absent \/ t.base[q] # Absent)
                                 /\ t.disk[q] # t.base[q]} |-> t.disk[p]]
NoReading == [ok |-> FALSE]

FirstHalf == [ok |-> TRUE, head |-> tree.head, branch |-> tree.branch]
WholeReading(h) == [ok |-> TRUE, head |-> h.head, branch |-> h.branch, paths |-> Dirty(tree),
                    count |-> Cardinality(Tracked(tree)), diff |-> Diff(tree),
                    staged |-> tree.index]

\* HEAD moved between the two halves of the reading.
Torn(h) == h.head # tree.head

Drifted(r) == ~r.ok \/ r.head # want.head \/ r.branch # want.branch

(***************************************************************************)
(* The instruments.                                                        *)
(***************************************************************************)
\* Slip: the index's blobs stand for the bytes of the working tree.
SlipFingerprint(r) == [head |-> r.head, diff |-> r.staged, count |-> r.count]

\* Bytes of the tracked files: HEAD, the diff against it and the number of paths.
Fingerprint(r) == [head |-> r.head, diff |-> r.diff, count |-> r.count]
Compare(a, b) ==
    IF ~(a.ok /\ b.ok) THEN "UNCOMPARABLE"
    ELSE IF Fingerprint(a) = Fingerprint(b) THEN "SAME" ELSE "CHANGED"

\* A floor is the bridge's count of the commit or of a digested workspace; it
\* may be of an older revision, without its anchor, or the child's own.
Derivations(t) ==
    LET n == Cardinality({p \in Files : t.base[p] # Absent})
    IN  {[value |-> n, method |-> "tree", by |-> "bridge", revision |-> t.head],
         [value |-> n - 1, method |-> "tree", by |-> "bridge", revision |-> t.head - 1],
         [value |-> n, method |-> "tree", by |-> "bridge", revision |-> 0],
         [value |-> n, method |-> "workspace", by |-> "bridge", revision |-> 0],
         [value |-> 1, method |-> "tree", by |-> "child", revision |-> t.head]}

\* Slip: anybody's floor will do.
SlipSound(f) ==
    /\ f.value >= 1
    /\ f.revision # 0 => f.revision = want.head
    /\ f.method = "tree" => f.revision # 0

Sound(f) ==
    /\ f.by = "bridge"
    /\ f.value >= 1
    /\ f.revision # 0 => f.revision = want.head
    /\ f.method = "tree" => f.revision # 0

FloorMet(f, n) == Sound(f) /\ n > 0 /\ n >= f.value

(***************************************************************************)
(* The verdict of two readings and a claim: TRUE, FALSE or none.           *)
(***************************************************************************)
\* Slip: what was dirty before and is clean after is no change.
SlipChangedPaths(b, a) == a.paths \ b.paths

ChangedPaths(b, a) == (b.paths \ a.paths) \cup (a.paths \ b.paths)

Disagreements(b, a, claim) ==
    LET moved == b.head # a.head
        changed == ChangedPaths(b, a) # {} \/ moved
    IN  {d \in {"HEAD_MOVED", "BRANCH_MOVED", "CLEAN_BUT_CHANGED", "CHANGED_BUT_CLEAN"} :
           \/ d = "HEAD_MOVED" /\ moved /\ ~write
           \/ d = "BRANCH_MOVED" /\ b.branch # a.branch
           \/ d = "CLEAN_BUT_CHANGED" /\ claim = "clean" /\ changed
           \/ d = "CHANGED_BUT_CLEAN" /\ claim = "changed" /\ ~changed}

Envelope(b, a, claim) ==
    IF ~(b.ok /\ a.ok) THEN "UNAVAILABLE"
    ELSE IF b.count < 1 \/ a.count < 1 THEN "VACUOUS"
    ELSE IF Disagreements(b, a, claim) # {} THEN "DISAGREEMENT" ELSE "OK"

\* A report: what the schema and the nonce make of it, and what it claims.
Reports == [result : {"VALID", "RUN_IDENTITY_REFUSED", "RESULT_INVALID"},
            claim : {"silent", "clean", "changed"}]
ValidHandoff(r) == r.result = "VALID"

(***************************************************************************)
(* The run.                                                                *)
(***************************************************************************)
EvidenceInit ==
    /\ \E b \in {[p \in Files |-> 1]} \cup {[p \in Files |-> IF p = q THEN 1 ELSE Absent] : q \in Files} :
         \E d \in [Files -> Contents] :
           /\ Cardinality({p \in Files : d[p] # b[p]}) <= 1
           /\ tree = [head |-> 2, branch |-> "lane", base |-> b, index |-> b, disk |-> d]
    /\ want = [head |-> 0, branch |-> "", held |-> 0] /\ floor = [by |-> "nobody"]
    /\ half = NoReading /\ before = NoReading /\ after = NoReading
    /\ was = tree.disk /\ is = tree.disk
    /\ phase = "new" /\ write \in BOOLEAN
    /\ report = [claim |-> "none"] /\ verdict = "none"
    /\ writes = 0

\* The dispatcher binds the run to what it reads, and a floor is derived from the commit.
Bind ==
    /\ phase = "new"
    /\ want' = [head |-> tree.head, branch |-> tree.branch,
                held |-> Cardinality({p \in Files : tree.base[p] # Absent})]
    /\ floor' \in Derivations(tree)
    /\ phase' = "bound"
    /\ UNCHANGED <<tree, half, before, after, was, is, write, report, verdict, writes>>

\* The dispatcher's second reading, before the worker is spawned.
Recheck ==
    /\ phase = "bound"
    /\ phase' = IF Drifted(FirstHalf) THEN "refused" ELSE "spawned"
    /\ UNCHANGED <<tree, want, floor, half, before, after, was, is, write, report, verdict, writes>>

BeginReading ==
    /\ phase \in {"spawned", "returned"} /\ ~half.ok
    /\ half' = FirstHalf
    /\ UNCHANGED <<tree, want, floor, before, after, was, is, phase, write, report, verdict, writes>>

\* The worker's reading before the child, and its own drift check.
ReadBefore ==
    /\ phase = "spawned" /\ half.ok
    /\ before' = WholeReading(half) /\ was' = tree.disk /\ half' = NoReading
    /\ phase' = IF Drifted(before') THEN "refused" ELSE "running"
    /\ UNCHANGED <<tree, want, floor, after, is, write, report, verdict, writes>>

ChildReturns ==
    /\ phase = "running"
    /\ report' \in Reports
    /\ phase' = "returned"
    /\ UNCHANGED <<tree, want, floor, half, before, after, was, is, write, verdict, writes>>

\* The reading after the child, and the verdict.  A refused report is measured
\* all the same, and ends the run whatever the verdict.
ReadAfter ==
    /\ phase = "returned" /\ half.ok
    /\ after' = WholeReading(half) /\ is' = tree.disk
    /\ half' = [ok |-> FALSE, torn |-> Torn(half)]
    /\ verdict' = Envelope(before, after', report.claim)
    /\ phase' = IF ~ValidHandoff(report) THEN "invalid"
                ELSE IF verdict' # "OK" THEN "unproven" ELSE "ready"
    /\ UNCHANGED <<tree, want, floor, before, was, write, report, writes>>

\* A repository that cannot be read: the reading is none at all.
ReadingFails ==
    /\ phase \in {"spawned", "returned"} /\ half.ok
    /\ half' = NoReading
    /\ phase' = IF phase = "spawned" THEN "refused"
                ELSE IF ValidHandoff(report) THEN "unproven" ELSE "invalid"
    /\ verdict' = IF phase = "spawned" THEN verdict ELSE Envelope(before, NoReading, report.claim)
    /\ UNCHANGED <<tree, want, floor, before, after, was, is, write, report,
                   writes>>

\* The child, or another session in the same tree.
SomebodyWrites ==
    /\ writes < MaxWrites /\ writes' = writes + 1
    /\ phase \in {"new", "bound", "spawned", "running", "returned"}
    /\ \/ \E p \in Files, v \in Contents :
            /\ v # tree.disk[p]
            /\ tree' = [tree EXCEPT !.disk[p] = v]
       \/ \E p \in Files :
            /\ tree.index[p] # tree.disk[p]
            /\ tree' = [tree EXCEPT !.index[p] = tree.disk[p]]
       \/ /\ tree.index # tree.base
          /\ tree' = [tree EXCEPT !.base = tree.index, !.head = @ + 1]
       \/ tree' = [tree EXCEPT !.branch = IF @ = "lane" THEN "other" ELSE "lane"]
    /\ UNCHANGED <<want, floor, half, before, after, was, is, phase, write, report, verdict>>

EvidenceNext ==
    \/ Bind \/ Recheck \/ BeginReading \/ ReadBefore \/ ChildReturns \/ ReadAfter
    \/ ReadingFails \/ SomebodyWrites

EvidenceSpec == EvidenceInit /\ [][EvidenceNext]_evidenceVars

(***************************************************************************)
(* Properties.                                                             *)
(***************************************************************************)
Judged == after.ok /\ before.ok

\* A handoff that claims a clean tree and is accepted left the bytes of every
\* path as the worker found them, but for a path that was dirty at both
\* readings (the measurement compares sets of paths) or a commit that fell
\* inside a reading (evidence/model.py build_envelope).
CleanClaimsAreTrue ==
    phase = "ready" /\ report.claim = "clean" /\ ~half.torn =>
      \A p \in Files : was[p] # is[p] => p \in before.paths \cap after.paths

\* Two equal fingerprints of the tracked content mean that every path tracked
\* at both readings has the same bytes (evidence/fingerprints.py
\* tracked_content_fingerprint).
SameIsSame ==
    Judged /\ ~half.torn /\ Compare(before, after) = "SAME" =>
      \A p \in Files : before.staged[p] # Absent /\ after.staged[p] # Absent => was[p] = is[p]

\* A floor that is met was not lowered by the child or by a thin checkout: the
\* reading saw at least as many files as the commit held when the run was bound
\* to it (evidence/floors.py adjudicate).
FloorIsNotLowered ==
    Judged /\ FloorMet(floor, after.count) => after.count >= want.held
============================================================================
