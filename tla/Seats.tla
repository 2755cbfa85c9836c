------------------------------- MODULE Seats -------------------------------
(****************************************************************************)
(* Who may sit where.  A program's lanes are worked by providers: the        *)
(* scheduler resolves a kind of executor for each seat from the manifest     *)
(* (an ordered chain, a pin or the default), refuses the seat by name when   *)
(* policy says so, and records what it dispatched; the reaper decides from   *)
(* how a run died whether the chain may move on.                             *)
(* adapters/registry.py and core/orchestrator.py.                            *)
(****************************************************************************)
EXTENDS Naturals, Sequences, FiniteSets

CONSTANTS
    Lanes,       \* implementation lanes, numbered in the order of their rows
    Registry,    \* declared kind -> [family, write, built]: PROVIDER_REGISTRY
    Order,       \* the declared kinds in the order of PROVIDER_ORDER
    Policies,    \* the manifests a program may have
    MaxRuns, MaxAttempts, MaxCrashes

\* The declared order names declared kinds, and a kind that may write is a gateway or has a
\* vendor: only the bridges, which may not, have none.
ASSUME SeatsAssumption ==
    /\ Lanes \subseteq Nat
    /\ Order \in Seq(DOMAIN Registry)
    /\ \A k \in DOMAIN Registry :
          Registry[k].write /\ ~Registry[k].gateway => Registry[k].family # ""

Impl == "implementation"
Review == "adversarial_review"
Roles == {Impl, Review}
None == "none"

VARIABLES
    policy,   \* the manifest: chains, pins, default, pairs, sensitive, barred
    runs,     \* the runs bound to lanes, in the order they were bound
    exhausted, \* lane -> seat -> kinds: chain_exhausted of its checkpoint
    doubt,    \* lanes whose checkpoint says possible_write
    lane,     \* lane -> the state of its row
    attempt,  \* lane -> lane_task.attempt
    authors,  \* lane -> the runs that committed to its branch, oldest first
    pc, todo, cur, fams, \* the tick: its place, the lanes left, the run or lane in hand,
                         \* and the families it read
    crashes

vars == <<policy, runs, exhausted, doubt, lane, attempt, authors, pc, todo, cur, fams, crashes>>

Declared(k) == k \in DOMAIN Registry
Family(k) == IF Declared(k) THEN Registry[k].family ELSE ""

----------------------------------------------------------------------------
(* The rules, as operators.                                                 *)

\* constraint_refusals: a kind the manifest's seat policy bars, one that cannot write where
\* the seat writes, or a gateway whose model names no vendor.
ConstraintsRefuse(k, write) ==
    \/ ~Declared(k)
    \/ Registry[k].gateway /\ Family(k) = ""
    \/ k \in policy.barred
    \/ write /\ ~Registry[k].write

\* A resolved seat: the kind, or the name of the refusal.
Seat(k, f) == [kind |-> k, from |-> f, refusal |-> ""]
Refused(why) == [kind |-> None, from |-> None, refusal |-> why]

\* _seat_spec: the gate every configured path passes.
SeatSpec(role, k, f) ==
    IF \/ ~Declared(k)
       \/ ~Registry[k].built
       \/ ConstraintsRefuse(k, role = Impl)
    THEN Refused("SEAT_UNRESOLVABLE")
    ELSE Seat(k, f)

\* Slip: the seats compare kinds.
SlipCheckPairing(a, k, b, j, hit) ==
    k = j /\ ({a, b} \in policy.pairs \/ (hit /\ policy.sensitive))

\* check_pairing: may kind k hold seat a beside kind j in seat b?  Only a shared family is
\* ever refused.
CheckPairing(a, k, b, j, hit) ==
    /\ Family(k) # "" /\ Family(k) = Family(j)
    /\ \/ {a, b} \in policy.pairs
       \/ \E x \in Roles \ {a, b} : {a, x} \in policy.pairs /\ Family(fams[x]) = Family(k)
       \/ hit /\ policy.sensitive

\* _pairing_admission_refusal: against each partner on record.
PairingRefuses(role, k, hit) ==
    \E b \in Roles \ {role} :
        /\ {role, b} \in policy.pairs
        /\ fams[b] # None
        /\ CheckPairing(role, k, b, fams[b], hit)

\* _pairing_gate: the same question, asked of a member of a chain.
PairingGate(role, k) == PairingRefuses(role, k, FALSE)

\* chain_next: the first member not dead and not refused by pairing.
ChainNext(role, dead, ambiguous) ==
    LET chain == policy.chain[role]
        families == {Family(chain[i]) : i \in DOMAIN chain}
        open == {i \in DOMAIN chain : chain[i] \notin dead}
        fit == {i \in open : ~PairingGate(role, chain[i])}
    IN  IF \E i \in DOMAIN chain : ~Declared(chain[i]) THEN Refused("SEAT_UNRESOLVABLE")
        ELSE IF "" \in families \/ Cardinality(families) < 2 THEN Refused("CHAIN_SINGLE_FAMILY")
        ELSE IF ambiguous THEN Refused("CHAIN_BLOCKED_AMBIGUOUS_WRITE")
        ELSE IF fit # {} THEN LET i == CHOOSE i \in fit : \A j \in fit : i <= j
                              IN  SeatSpec(role, chain[i], "chain")
        ELSE Refused(IF open # {} THEN "CHAIN_POLICY_REFUSED" ELSE "CHAIN_EXHAUSTED")

\* _resolve_executor on the configured paths.
Resolve(role, dead, ambiguous) ==
    IF policy.chain[role] # <<>> THEN ChainNext(role, dead, ambiguous)
    ELSE IF policy.pin[role] # None THEN SeatSpec(role, policy.pin[role], "pin")
    ELSE SeatSpec(role, policy.default, "default")

\* Slip: the picker forgets what the seat is for.
SlipResolveSeat(role) ==
    LET fit == {i \in DOMAIN Order : ~ConstraintsRefuse(Order[i], FALSE)}
        pin == policy.pin[role]
    IN  IF pin # None THEN (IF ConstraintsRefuse(pin, FALSE) THEN Refused("SEAT_UNRESOLVABLE")
                                                             ELSE Seat(pin, "pin"))
        ELSE IF fit = {} THEN Refused("SEAT_UNRESOLVABLE")
        ELSE Seat(Order[CHOOSE i \in fit : \A j \in fit : i <= j], "default")

\* resolve_seat: the seat picker, a pin first and then the declared order.  A pin that is not
\* declared, or names a gateway and no model, is not passed over.
ResolveSeat(role) ==
    LET pin == policy.pin[role]
        Fits(k) == ~ConstraintsRefuse(k, role = Impl)
        Nameless(k) == Registry[k].gateway /\ Family(k) = ""
        fit == {i \in DOMAIN Order : Fits(Order[i])}
    IN  IF pin # None /\ (~Declared(pin) \/ Nameless(pin)) THEN Refused("SEAT_UNRESOLVABLE")
        ELSE IF pin # None /\ Fits(pin) THEN Seat(pin, "pin")
        ELSE IF fit = {} THEN Refused("SEAT_UNRESOLVABLE")
        ELSE Seat(Order[CHOOSE i \in fit : \A j \in fit : i <= j], "default")

\* mark_chain_exhaustion: idempotent, and only in this seat.
MarkExhaustion(l, role, k) ==
    exhausted' = [exhausted EXCEPT ![l][role] = @ \cup {k}]

\* The runs of a lane in the order they were bound.
RunsOf(l) == {n \in DOMAIN runs : runs[n].lane = l}
Newest(S) == CHOOSE n \in S : \A i \in S : i <= n

\* _independence_ctx: each seat's provider as recorded, the last lane's last run winning.
Families ==
    [r \in Roles |->
        LET on == {n \in DOMAIN runs : runs[n].role = r /\ runs[n].known}
            ls == {runs[n].lane : n \in on}
        IN  IF on = {} THEN None
            ELSE runs[Newest({n \in on : runs[n].lane = Newest(ls)})].kind]

\* _seat_provider_from_provenance, for the implementer of a lane.
Implementer(l) ==
    LET on == {n \in RunsOf(l) : runs[n].role = Impl /\ runs[n].known}
    IN  IF on = {} THEN None ELSE runs[Newest(on)].kind

----------------------------------------------------------------------------
Init ==
    /\ policy \in Policies
    /\ runs = <<>>
    /\ exhausted = [l \in Lanes |-> [r \in Roles |-> {}]]
    /\ doubt = {}
    /\ lane = [l \in Lanes |-> "PLANNED"]
    /\ attempt = [l \in Lanes |-> 0]
    /\ authors = [l \in Lanes |-> <<>>]
    /\ pc = "idle" /\ todo = {} /\ cur = 0 /\ fams = [r \in Roles |-> None]
    /\ crashes = 0

rows == <<exhausted, doubt, lane, attempt, authors>>
loop == <<todo, cur, fams>>

SetLane(l, s) == lane' = [lane EXCEPT ![l] = s]
Ended(n, e) == runs' = [runs EXCEPT ![n].end = e]
Processed(n) == runs' = [runs EXCEPT ![n].processed = TRUE]
Goto(p) == pc' = p

\* A worker delivers a handoff, delivers nothing usable, or dies: leaving nothing behind,
\* or leaving the worktree dirty.
RunEnds ==
    \E n \in DOMAIN runs, e \in {"ok", "invalid", "died"}, d \in BOOLEAN :
        /\ runs[n].end = "live"
        /\ d => e = "died" /\ runs[n].role = Impl
        /\ runs' = [runs EXCEPT ![n].end = e, ![n].dirty = d]
        /\ UNCHANGED <<policy, rows, loop, pc, crashes>>

----------------------------------------------------------------------------
(* reap, its first loop: the dead.                                          *)

BeginTick == pc = "idle" /\ Goto("reap") /\ UNCHANGED <<policy, runs, rows, loop, crashes>>

\* A worktree is unchanged when it is clean and still at the head it was made with.
Unchanged(n) == ~runs[n].dirty /\ authors[runs[n].lane] = <<>>

Dead(n) == runs[n].end = "died" /\ ~runs[n].processed

\* Died without effect: the run fails, and the chain of the LANE's seat may move past the
\* provider on record for the run.
RecoverClean(n) ==
    /\ pc = "reap" /\ Dead(n) /\ Unchanged(n)
    /\ Ended(n, "failed")
    /\ cur' = n /\ Goto("exhaust")
    /\ UNCHANGED <<policy, rows, todo, fams, crashes>>

Exhaust ==
    /\ pc = "exhaust" /\ Goto("reap")
    /\ IF runs[cur].known THEN MarkExhaustion(runs[cur].lane, Impl, runs[cur].kind)
                          ELSE UNCHANGED exhausted
    /\ UNCHANGED <<policy, runs, doubt, lane, attempt, authors, loop, crashes>>

\* Slip: a death is a death.
SlipRecoverAmbiguous(n) ==
    /\ pc = "reap" /\ Dead(n) /\ ~Unchanged(n)
    /\ Ended(n, "failed")
    /\ cur' = n /\ Goto("exhaust")
    /\ UNCHANGED <<policy, rows, todo, fams, crashes>>

\* Died with an effect, or where one cannot be excluded.
RecoverAmbiguous(n) ==
    /\ pc = "reap" /\ Dead(n) /\ ~Unchanged(n)
    /\ Ended(n, "ambiguous")
    /\ cur' = n /\ Goto("park")
    /\ UNCHANGED <<policy, rows, todo, fams, crashes>>

Park ==
    /\ pc = "park" /\ Goto("flag")
    /\ SetLane(runs[cur].lane, "WAITING_OWNER")
    /\ UNCHANGED <<policy, runs, exhausted, doubt, attempt, authors, loop, crashes>>

Flag ==
    /\ pc = "flag" /\ Goto("reap")
    /\ doubt' = doubt \cup {runs[cur].lane}
    /\ Processed(cur)
    /\ UNCHANGED <<policy, exhausted, lane, attempt, authors, loop, crashes>>

\* The loops look at each run once; a run may die just behind them.
EndRecovery == pc = "reap" /\ Goto("consume") /\ UNCHANGED <<policy, runs, rows, loop, crashes>>

----------------------------------------------------------------------------
(* reap, its second loop: what has ended is consumed, in one go here.        *)

\* A finding or a failure costs an attempt; past the bound the lane waits.
Again(l, bound) ==
    /\ attempt' = [attempt EXCEPT ![l] = @ + 1]
    /\ SetLane(l, IF attempt[l] + 1 > bound THEN "WAITING_STRATEGIST" ELSE "PLANNED")

Consumable(n) == pc = "consume" /\ ~runs[n].processed

ConsumeFailed(n) ==
    /\ Consumable(n) /\ runs[n].end \in {"failed", "invalid"}
    /\ Processed(n)
    /\ Again(runs[n].lane, MaxAttempts + 1)
    /\ UNCHANGED <<policy, exhausted, doubt, authors, pc, loop, crashes>>

ConsumeAmbiguous(n) ==
    /\ Consumable(n) /\ runs[n].end = "ambiguous"
    /\ Processed(n)
    /\ SetLane(runs[n].lane, "WAITING_OWNER")
    /\ UNCHANGED <<policy, exhausted, doubt, attempt, authors, pc, loop, crashes>>

\* A reviewed candidate is complete, or is to be fixed.
ConsumeReview(n) ==
    /\ Consumable(n) /\ runs[n].end = "ok" /\ runs[n].role = Review
    /\ Processed(n)
    /\ \/ SetLane(runs[n].lane, "COMPLETE") /\ UNCHANGED attempt
       \/ Again(runs[n].lane, MaxAttempts)
    /\ UNCHANGED <<policy, exhausted, doubt, authors, pc, loop, crashes>>

\* An implementation is committed and a reviewer sought; an unchanged tree is not reviewed.
ConsumeImplementation(n) ==
    /\ Consumable(n) /\ runs[n].end = "ok" /\ runs[n].role = Impl
    /\ Processed(n)
    /\ \/ /\ authors' = [authors EXCEPT ![runs[n].lane] = Append(@, n)]
          /\ cur' = runs[n].lane /\ fams' = Families /\ Goto("review")
          /\ UNCHANGED <<lane, attempt, todo>>
       \/ /\ SetLane(runs[n].lane, "COMPLETE")
          /\ UNCHANGED <<authors, attempt, pc, loop>>
    /\ UNCHANGED <<policy, exhausted, doubt, crashes>>

----------------------------------------------------------------------------
(* Dispatch: a run is bound, and what was dispatched is recorded.           *)

Bind(l, role, s) ==
    /\ runs' = Append(runs, [lane |-> l, role |-> role, kind |-> s.kind, from |-> s.from,
                             known |-> FALSE, end |-> "live", dirty |-> FALSE,
                             processed |-> FALSE])
    /\ cur' = Len(runs) + 1

Record(at, back) ==
    /\ pc = at /\ Goto(back)
    /\ runs' = [runs EXCEPT ![cur].known = TRUE]
    /\ SetLane(runs[cur].lane, "ACTIVE")
    /\ UNCHANGED <<policy, exhausted, doubt, attempt, authors, loop, crashes>>

RecordReviewer == Record("boundReviewer", "consume")
RecordRun == Record("bound", "schedule")

\* _dispatch_reviewer: the seat is resolved, then compared with the lane's implementer on
\* record and with the partners of the whole program.  hit: the diff touches a class the
\* manifest names.
DispatchReviewer(hit) ==
    LET s == Resolve(Review, exhausted[cur][Review], FALSE)
    IN  /\ pc = "review" /\ Len(runs) < MaxRuns
        /\ s.refusal = ""
        /\ ~CheckPairing(Review, s.kind, Impl, Implementer(cur), hit)
        /\ ~PairingRefuses(Review, s.kind, hit)
        /\ Bind(cur, Review, s)
        /\ Goto("boundReviewer")
        /\ UNCHANGED <<policy, rows, todo, fams, crashes>>

\* A refused reviewer parks the lane, and the caller sets it ACTIVE again.
ReviewerRefused(hit) ==
    LET s == Resolve(Review, exhausted[cur][Review], FALSE)
    IN  /\ pc = "review"
        /\ \/ s.refusal # ""
           \/ CheckPairing(Review, s.kind, Impl, Implementer(cur), hit)
           \/ PairingRefuses(Review, s.kind, hit)
        /\ Goto("consume")
        /\ SetLane(cur, "ACTIVE")
        /\ UNCHANGED <<policy, runs, exhausted, doubt, attempt, authors, loop, crashes>>

\* schedule reads the families once, and then goes through the lanes.
BeginSchedule ==
    /\ pc = "consume" /\ Goto("schedule")
    /\ todo' = Lanes /\ fams' = Families
    /\ UNCHANGED <<policy, runs, rows, cur, crashes>>

Ready(l) ==
    /\ lane[l] \in {"PLANNED", "ACTIVE"}
    /\ \A n \in RunsOf(l) : runs[n].processed

Lane == CHOOSE l \in todo : \A k \in todo : l <= k
SeatOf(l) == Resolve(Impl, exhausted[l][Impl], l \in doubt)

Dispatch ==
    /\ pc = "schedule" /\ todo # {} /\ Ready(Lane) /\ Len(runs) < MaxRuns
    /\ SeatOf(Lane).refusal = "" /\ ~PairingRefuses(Impl, SeatOf(Lane).kind, FALSE)
    /\ Bind(Lane, Impl, SeatOf(Lane))
    /\ todo' = todo \ {Lane} /\ Goto("bound")
    /\ UNCHANGED <<policy, rows, fams, crashes>>

\* _refuse_seat: the lane waits for the strategist, with the refusal's name.
RefuseSeat ==
    /\ pc = "schedule" /\ todo # {} /\ Ready(Lane)
    /\ SeatOf(Lane).refusal # "" \/ PairingRefuses(Impl, SeatOf(Lane).kind, FALSE)
    /\ SetLane(Lane, "WAITING_STRATEGIST")
    /\ todo' = todo \ {Lane}
    /\ UNCHANGED <<policy, runs, exhausted, doubt, attempt, authors, pc, cur, fams, crashes>>

PassOver ==
    /\ pc = "schedule" /\ todo # {} /\ ~Ready(Lane)
    /\ todo' = todo \ {Lane}
    /\ UNCHANGED <<policy, runs, rows, pc, cur, fams, crashes>>

EndTick ==
    /\ pc = "schedule" /\ todo = {} /\ Goto("idle")
    /\ UNCHANGED <<policy, runs, rows, loop, crashes>>

----------------------------------------------------------------------------
\* The ticking process dies; the next one starts from the records.
Crash ==
    /\ pc # "idle" /\ crashes < MaxCrashes
    /\ crashes' = crashes + 1
    /\ pc' = "idle" /\ todo' = {} /\ cur' = 0 /\ fams' = [r \in Roles |-> None]
    /\ UNCHANGED <<policy, runs, rows>>

\* A person answers for a parked lane, and the wake makes it PLANNED.
Answered ==
    \E l \in Lanes :
        /\ pc = "idle" /\ lane[l] \in {"WAITING_OWNER", "WAITING_STRATEGIST"}
        /\ SetLane(l, "PLANNED")
        /\ UNCHANGED <<policy, runs, exhausted, doubt, attempt, authors, pc, loop, crashes>>

Next ==
    \/ RunEnds \/ BeginTick \/ Exhaust \/ Park \/ Flag \/ EndRecovery
    \/ \E n \in DOMAIN runs :
        \/ RecoverClean(n) \/ RecoverAmbiguous(n)
        \/ ConsumeFailed(n) \/ ConsumeAmbiguous(n) \/ ConsumeReview(n) \/ ConsumeImplementation(n)
    \/ \E hit \in BOOLEAN : DispatchReviewer(hit) \/ ReviewerRefused(hit)
    \/ RecordReviewer \/ BeginSchedule \/ Dispatch \/ RefuseSeat \/ PassOver \/ RecordRun
    \/ EndTick \/ Crash \/ Answered

Spec == Init /\ [][Next]_vars

----------------------------------------------------------------------------
(* Properties.                                                              *)

\* A reviewer admitted under a pairing rule is of another family than the run whose commit it
\* is to judge, if that run's provider is on record: whichever of chain, pin and default
\* filled either seat, and however many failovers and fixes came before.
ReviewerIsAnother ==
    \A n \in DOMAIN runs :
        LET l == runs[n].lane
            judged == {i \in DOMAIN authors[l] : authors[l][i] < n}
            author == runs[authors[l][Newest(judged)]]
        IN  (runs[n].role = Review /\ {Impl, Review} \in policy.pairs /\ author.known)
            => Family(runs[n].kind) # Family(author.kind)

\* A chain never changes provider across a death that left the worktree dirty: where two
\* successive runs of a lane's seat differ in kind and the later comes from the chain, the
\* earlier did not leave changes nobody has judged.
NoBlindFailover ==
    \A n \in DOMAIN runs :
        LET before == {i \in RunsOf(runs[n].lane) : i < n /\ runs[i].role = Impl}
            last == runs[Newest(before)]
        IN  (runs[n].role = Impl /\ runs[n].from = "chain" /\ before # {}
             /\ last.kind # runs[n].kind) => ~last.dirty

\* As long as no tick dies on its way from the verdict on a death to the mark in the lane's
\* checkpoint, nobody at all is seated from a chain after a death with changes on disk.
DirtyDeathBarsTheChain ==
    crashes = 0 => \A n \in DOMAIN runs : \A i \in RunsOf(runs[n].lane) :
        i < n /\ runs[n].role = Impl /\ runs[n].from = "chain" => ~runs[i].dirty

\* Whom the seat picker would seat, dispatch admits, or refuses for want of an executor only:
\* a matter of the manifest, which no step changes.
PickerAgrees ==
    runs = <<>> => \A r \in Roles :
        LET s == ResolveSeat(r)
        IN  s.refusal = "" =>
                SeatSpec(r, s.kind, "pin").refusal = "" \/ ~Registry[s.kind].built

=============================================================================
