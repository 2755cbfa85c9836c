------------------------- MODULE CoreAndSeatsProofs -------------------------
(***************************************************************************)
(* Proofs about Seats and about CoreService.  The two share no state: each *)
(* has its part of the module.                                             *)
(*                                                                         *)
(* Seats: for every registry, set of manifests, number of lanes, runs and  *)
(* crashes.  The invariant says what the queue of a lane's runs is like:   *)
(* only the newest may still be unprocessed.  So the run a reviewer is     *)
(* compared with is the one whose commit it judges, and a death is dealt   *)
(* with before the seat is filled again.                                   *)
(*                                                                         *)
(* CoreService: one request identity is one relay, for any number of       *)
(* threads, requests, relays and relay processes.                          *)
(***************************************************************************)
EXTENDS CoreService, Seats, SequenceTheorems, WellFoundedInduction, TLAPS

-----------------------------------------------------------------------------
(* Who is seated, and who may judge whom.                                  *)

Ends == {"live", "ok", "invalid", "died", "failed", "ambiguous"}
Run == [lane : Lanes, role : Roles, kind : DOMAIN Registry, from : {"chain", "pin", "default"},
        known : BOOLEAN, end : Ends, dirty : BOOLEAN, processed : BOOLEAN]

Typed ==
    /\ runs \in Seq(Run)
    /\ authors \in [Lanes -> Seq(Nat)]
    /\ doubt \subseteq Lanes
    /\ todo \subseteq Lanes
    /\ cur \in Nat
    /\ crashes \in Nat

\* A lane has at most one run that is not processed, its newest.
OneOpenRun ==
    \A m, n \in DOMAIN runs : m < n /\ runs[m].lane = runs[n].lane => runs[m].processed

\* What is processed has ended, and only a death leaves changes.
EndsAreFinal ==
    \A n \in DOMAIN runs :
        /\ runs[n].processed => runs[n].end \notin {"live", "died"}
        /\ runs[n].dirty => runs[n].end \in {"died", "ambiguous"}

\* The commits of a lane are of implementation runs of that lane, consumed before.
AuthorsAreRuns ==
    \A l \in Lanes : \A i \in DOMAIN authors[l] :
        /\ authors[l][i] \in DOMAIN runs
        /\ runs[authors[l][i]].lane = l
        /\ runs[authors[l][i]].role = Impl
        /\ runs[authors[l][i]].processed

\* An implementation seat is given to a vendor.
ImplementersHaveVendors ==
    \A n \in DOMAIN runs : runs[n].role = Impl => Family(runs[n].kind) # ""

\* Where the tick is, and what it has in hand there.
TickIsThere ==
    /\ pc \in {"exhaust", "park", "flag"} => cur \in DOMAIN runs
    /\ pc \in {"park", "flag"} => runs[cur].end = "ambiguous"
    /\ pc \in {"bound", "boundReviewer"} =>
          /\ cur \in DOMAIN runs /\ cur = Len(runs)
          /\ ~runs[cur].processed
    /\ pc = "review" =>
          /\ cur \in Lanes
          /\ authors[cur] # <<>>
          /\ \A n \in RunsOf(cur) : runs[n].processed
          /\ \A n \in RunsOf(cur) :
                runs[n].role = Impl => n <= authors[cur][Len(authors[cur])]

\* A review has a commit to judge.
ReviewsJudge ==
    \A n \in DOMAIN runs : runs[n].role = Review =>
        \E i \in DOMAIN authors[runs[n].lane] : authors[runs[n].lane][i] < n

\* Until a tick dies, an ambiguous death is either being marked or it is marked.
DeathsAreMarked ==
    crashes = 0 => \A n \in DOMAIN runs :
        /\ runs[n].end = "ambiguous" /\ ~runs[n].processed => pc \in {"park", "flag"} /\ cur = n
        /\ runs[n].dirty /\ runs[n].processed => runs[n].lane \in doubt

SeatsInv ==
    /\ Typed /\ OneOpenRun /\ EndsAreFinal /\ AuthorsAreRuns /\ ImplementersHaveVendors
    /\ TickIsThere /\ ReviewsJudge /\ DeathsAreMarked
    /\ ReviewerIsAnother /\ DirtyDeathBarsTheChain

-----------------------------------------------------------------------------
(* The operators.                                                            *)

LEMMA LessIsOneWay ==
    ASSUME NEW m \in Nat, NEW n \in Nat, m < n
    PROVE  m # n /\ ~(n < m)
OBVIOUS

\* A set of numbers that is not empty has a least.
LEMMA LeastIsThere ==
    ASSUME NEW S \in SUBSET Nat, S # {}
    PROVE  \E n \in S : \A i \in S : n <= i
<1>1. PICK n \in S : \A i \in S : ~(<<i, n>> \in OpToRel(<, Nat))
  BY NatLessThanWellFounded, WFMin
<1>2. \A i \in S : ~(i < n)
  BY <1>1 DEF OpToRel
<1> QED BY <1>2

\* The first of some places of a sequence is one of them.
LEMMA FirstIsThere ==
    ASSUME NEW T, NEW q \in Seq(T), NEW S \in SUBSET DOMAIN q, S # {}
    PROVE  (CHOOSE i \in S : \A j \in S : i <= j) \in S
<1>1. S \in SUBSET Nat
  OBVIOUS
<1>2. \E i \in S : \A j \in S : i <= j
  BY <1>1, LeastIsThere
<1> QED BY <1>2

\* A set of numbers up to k has a newest.
LEMMA NewestIsThere ==
    ASSUME NEW k \in Nat, NEW S \in SUBSET (1..k), S # {}
    PROVE  Newest(S) \in S /\ \A i \in S : i <= Newest(S)
<1> DEFINE T == {j \in Nat : \E i \in S : j = k - i}
<1>1. T \in SUBSET Nat /\ T # {}
  <2>1. PICK i \in S : TRUE
    OBVIOUS
  <2>2. i \in 1..k /\ k - i \in Nat
    OBVIOUS
  <2> QED BY <2>1, <2>2
<1>2. \A i \in S : k - i \in T
  OBVIOUS
<1>3. \A j \in T : \E i \in S : j = k - i
  OBVIOUS
<1> HIDE DEF T
<1>4. PICK low \in T : \A j \in T : low <= j
  BY <1>1, LeastIsThere
<1>5. PICK n \in S : low = k - n
  BY <1>3, <1>4
<1>6. \A i \in S : i <= n
  BY <1>2, <1>4, <1>5
<1> QED BY <1>5, <1>6 DEF Newest

\* And only one.
LEMMA NewestIsOne ==
    ASSUME NEW S \in SUBSET Nat, NEW n \in S, \A i \in S : i <= n
    PROVE  Newest(S) = n
<1>1. \E m \in S : \A i \in S : i <= m
  OBVIOUS
<1>2. Newest(S) \in S /\ \A i \in S : i <= Newest(S)
  BY <1>1 DEF Newest
<1>3. Newest(S) \in Nat /\ n \in Nat /\ n <= Newest(S) /\ Newest(S) <= n
  BY <1>2
<1> QED BY <1>3

\* A seat that is not refused is of a declared kind which its constraints admit, whichever
\* way it was resolved.
LEMMA SeatsAreAdmitted ==
    ASSUME NEW role \in Roles, NEW dead, NEW ambiguous, Resolve(role, dead, ambiguous).refusal = ""
    PROVE  LET s == Resolve(role, dead, ambiguous)
           IN  /\ s.kind \in DOMAIN Registry
               /\ s.from \in {"chain", "pin", "default"}
               /\ ~ConstraintsRefuse(s.kind, role = Impl)
               /\ s.from = "chain" => ~ambiguous
<1> DEFINE s == Resolve(role, dead, ambiguous)
<1>1. ASSUME NEW k, NEW f, SeatSpec(role, k, f).refusal = ""
      PROVE  /\ SeatSpec(role, k, f) = Seat(k, f)
             /\ k \in DOMAIN Registry
             /\ ~ConstraintsRefuse(k, role = Impl)
  BY <1>1 DEF SeatSpec, Refused, Declared
<1>2. \A why : Refused(why).refusal = why
  BY DEF Refused
<1>3. CASE policy.chain[role] # <<>>
  <2>1. s = ChainNext(role, dead, ambiguous)
    BY <1>3 DEF Resolve
  <2>2. ~ambiguous /\ \E k : s = SeatSpec(role, k, "chain")
    <3> DEFINE open == {i \in DOMAIN policy.chain[role] : policy.chain[role][i] \notin dead}
               fit == {i \in open : ~PairingGate(role, policy.chain[role][i])}
               first == CHOOSE i \in fit : \A j \in fit : i <= j
    <3>1. \/ s = Refused("SEAT_UNRESOLVABLE") \/ s = Refused("CHAIN_SINGLE_FAMILY")
          \/ ambiguous /\ s = Refused("CHAIN_BLOCKED_AMBIGUOUS_WRITE")
          \/ ~ambiguous /\ s = SeatSpec(role, policy.chain[role][first], "chain")
          \/ s = Refused("CHAIN_POLICY_REFUSED") \/ s = Refused("CHAIN_EXHAUSTED")
      BY <2>1, Zenon DEF ChainNext
    <3>2. s.refusal = ""
      OBVIOUS
    <3>3. \A why : why # "" => s # Refused(why)
      BY <3>2, <1>2, Zenon
    <3> HIDE DEF open, fit, first, s
    <3>4. ~ambiguous /\ s = SeatSpec(role, policy.chain[role][first], "chain")
      BY <3>1, <3>3
    <3> QED BY <3>4
  <2>3. PICK k : s = SeatSpec(role, k, "chain")
    BY <2>2
  <2>4. s = Seat(k, "chain") /\ k \in DOMAIN Registry /\ ~ConstraintsRefuse(k, role = Impl)
    BY <2>3, <1>1
  <2> HIDE DEF s
  <2>5. s.kind = k /\ s.from = "chain"
    BY <2>4 DEF Seat
  <2> QED BY <2>2, <2>4, <2>5 DEF s
<1>4. CASE policy.chain[role] = <<>>
  <2>1. s = SeatSpec(role, policy.pin[role], "pin")
        \/ s = SeatSpec(role, policy.default, "default")
    BY <1>4, Zenon DEF Resolve
  <2>2. PICK k, f : f \in {"pin", "default"} /\ s = SeatSpec(role, k, f)
    BY <2>1, Zenon
  <2>3. s = Seat(k, f) /\ k \in DOMAIN Registry /\ ~ConstraintsRefuse(k, role = Impl)
    BY <2>2, <1>1
  <2> HIDE DEF s
  <2>4. s.kind = k /\ s.from = f
    BY <2>3 DEF Seat
  <2> QED BY <2>2, <2>3, <2>4 DEF s
<1> QED BY <1>3, <1>4

\* Who may write is a vendor.
LEMMA WritersHaveVendors ==
    ASSUME NEW k \in DOMAIN Registry, ~ConstraintsRefuse(k, TRUE)
    PROVE  Family(k) # ""
BY SeatsAssumption DEF SeatsAssumption, ConstraintsRefuse, Family, Declared

\* Whom the seat picker would seat, dispatch admits, or this build has no executor for it.
THEOREM PickerAgreesAlways == PickerAgrees
<1> SUFFICES ASSUME NEW r \in Roles, ResolveSeat(r).refusal = ""
             PROVE  \/ SeatSpec(r, ResolveSeat(r).kind, "pin").refusal = ""
                    \/ ~Registry[ResolveSeat(r).kind].built
  BY DEF PickerAgrees
<1> DEFINE fit == {i \in DOMAIN Order : ~ConstraintsRefuse(Order[i], r = Impl)}
           first == CHOOSE i \in fit : \A j \in fit : i <= j
<1>1. Refused("SEAT_UNRESOLVABLE").refusal # ""
  BY DEF Refused
<1>2. PICK k, f : ResolveSeat(r) = Seat(k, f) /\ ~ConstraintsRefuse(k, r = Impl)
  <2>1. \/ ResolveSeat(r) = Refused("SEAT_UNRESOLVABLE")
        \/ /\ ~ConstraintsRefuse(policy.pin[r], r = Impl)
           /\ ResolveSeat(r) = Seat(policy.pin[r], "pin")
        \/ fit # {} /\ ResolveSeat(r) = Seat(Order[first], "default")
    BY Zenon DEF ResolveSeat
  <2>2. fit # {} => first \in fit
    <3>1. Order \in Seq(DOMAIN Registry) /\ fit \in SUBSET DOMAIN Order
      BY SeatsAssumption, Zenon DEF SeatsAssumption
    <3> HIDE DEF fit
    <3> QED BY <3>1, FirstIsThere, Zenon
  <2>3. fit # {} => ~ConstraintsRefuse(Order[first], r = Impl)
    BY <2>2
  <2> HIDE DEF fit, first
  <2> QED BY <2>1, <2>3, <1>1
<1>3. ResolveSeat(r).kind = k
  <2>1. Seat(k, f).kind = k
    BY DEF Seat
  <2> QED BY <1>2, <2>1, Zenon
<1>4. Declared(k)
  BY <1>2 DEF ConstraintsRefuse
<1>5. SeatSpec(r, k, "pin").refusal = "" \/ ~Registry[k].built
  BY <1>2, <1>4 DEF SeatSpec, Seat
<1> QED BY <1>3, <1>5

-----------------------------------------------------------------------------
(* What the steps do to the runs.                                            *)

\* One run is marked: it stays the run it was, and what is processed stays as it is.
Marks(n) ==
    /\ n \in DOMAIN runs
    /\ runs' \in Seq(Run) /\ Len(runs') = Len(runs) /\ DOMAIN runs' = DOMAIN runs
    /\ \A m \in DOMAIN runs :
        /\ runs'[m].lane = runs[m].lane /\ runs'[m].role = runs[m].role
        /\ runs'[m].kind = runs[m].kind /\ runs'[m].from = runs[m].from
        /\ runs[m].processed => /\ runs'[m].processed
                                /\ runs'[m].known = runs[m].known
                                /\ runs'[m].dirty = runs[m].dirty
        /\ m # n => runs'[m] = runs[m]

\* A mark on one run leaves the others as they are.
LEMMA MarksLeaveOthers ==
    ASSUME NEW n, Marks(n)
    PROVE  /\ n \in DOMAIN runs /\ DOMAIN runs' = DOMAIN runs
           /\ \A m \in DOMAIN runs : runs'[m].lane = runs[m].lane /\ (m # n => runs'[m] = runs[m])
BY DEF Marks

LEMMA EndsStayFinal ==
    ASSUME EndsAreFinal, NEW n, Marks(n),
           runs'[n].processed => runs'[n].end \notin {"live", "died"},
           runs'[n].dirty => runs'[n].end \in {"died", "ambiguous"}
    PROVE  EndsAreFinal'
<1>1. DOMAIN runs' = DOMAIN runs /\ \A m \in DOMAIN runs : m # n => runs'[m] = runs[m]
  BY MarksLeaveOthers
<1> SUFFICES ASSUME NEW m \in DOMAIN runs
             PROVE  /\ runs'[m].processed => runs'[m].end \notin {"live", "died"}
                    /\ runs'[m].dirty => runs'[m].end \in {"died", "ambiguous"}
  BY <1>1 DEF EndsAreFinal
<1>2. CASE m = n
  BY <1>2
<1>3. CASE m # n
  BY <1>1, <1>3 DEF EndsAreFinal
<1> QED BY <1>2, <1>3

LEMMA MarkRun ==
    ASSUME runs \in Seq(Run), NEW n \in DOMAIN runs, NEW r \in Run,
           r.lane = runs[n].lane, r.role = runs[n].role,
           r.kind = runs[n].kind, r.from = runs[n].from,
           runs[n].processed => /\ r.processed
                                /\ r.known = runs[n].known /\ r.dirty = runs[n].dirty,
           runs' = [runs EXCEPT ![n] = r]
    PROVE  Marks(n) /\ runs'[n] = r
<1>1. /\ runs' \in Seq(Run) /\ Len(runs') = Len(runs) /\ DOMAIN runs' = DOMAIN runs
      /\ runs'[n] = r /\ \A m \in DOMAIN runs : m # n => runs'[m] = runs[m]
  <2> PICK q : q = [runs EXCEPT ![n] = r]
    OBVIOUS
  <2>1. q \in Seq(Run) /\ Len(q) = Len(runs) /\ DOMAIN q = DOMAIN runs
    BY ExceptSeq
  <2>2. q[n] = r /\ \A m \in DOMAIN runs : m # n => q[m] = runs[m]
    OBVIOUS
  <2> QED BY <2>1, <2>2
<1> QED BY <1>1 DEF Marks

\* A run is bound: the ones before it stay as they are.
Binds(k, r) ==
    /\ k \in Nat /\ r \in Run
    /\ runs' \in Seq(Run) /\ Len(runs') = k
    /\ DOMAIN runs' = DOMAIN runs \cup {k} /\ k \notin DOMAIN runs
    /\ runs'[k] = r
    /\ \A m \in DOMAIN runs : m \in Nat /\ m < k /\ runs'[m] = runs[m]

LEMMA BindRun ==
    ASSUME runs \in Seq(Run), NEW r \in Run, runs' = Append(runs, r)
    PROVE  Binds(Len(runs) + 1, r)
<1> PICK q : q = Append(runs, r)
  OBVIOUS
<1>1. /\ q \in Seq(Run) /\ Len(q) = Len(runs) + 1
      /\ q[Len(runs) + 1] = r /\ \A m \in 1..Len(runs) : q[m] = runs[m]
  BY AppendProperties
<1>2. DOMAIN runs = 1..Len(runs) /\ DOMAIN q = 1..(Len(runs) + 1) /\ Len(runs) \in Nat
  BY <1>1
<1> QED BY <1>1, <1>2 DEF Binds

\* The runs, and what is read beside them, stay as they are.
Quiet ==
    /\ UNCHANGED <<policy, runs, authors, doubt>>
    /\ crashes' \in Nat /\ (crashes' = 0 => crashes = 0)
    /\ \/ pc' = pc /\ cur' = cur
       \/ pc' \in {"idle", "reap", "consume", "schedule"} /\ (pc \in {"park", "flag"} => crashes' # 0)
       \/ pc = "park" /\ pc' = "flag" /\ cur' = cur

QuietStep ==
    \/ BeginTick \/ Exhaust \/ Park \/ EndRecovery \/ (\E hit \in BOOLEAN : ReviewerRefused(hit))
    \/ BeginSchedule \/ RefuseSeat \/ PassOver \/ EndTick \/ Crash \/ Answered \/ UNCHANGED vars

LEMMA QuietSteps ==
    ASSUME Typed, QuietStep
    PROVE  Quiet
<1>1. crashes \in Nat
  BY DEF Typed
<1>2. CASE BeginTick
  BY <1>1, <1>2 DEF BeginTick, Goto, rows, loop, Quiet
<1>3. CASE Exhaust
  BY <1>1, <1>3 DEF Exhaust, Goto, loop, Quiet
<1>4. CASE Park
  BY <1>1, <1>4 DEF Park, Goto, loop, Quiet
<1>5. CASE EndRecovery
  BY <1>1, <1>5 DEF EndRecovery, Goto, rows, loop, Quiet
<1>6. ASSUME NEW hit \in BOOLEAN, ReviewerRefused(hit) PROVE Quiet
  <2>1. pc = "review" /\ pc' = "consume" /\ UNCHANGED <<policy, runs, authors, doubt, crashes>>
    BY <1>6, Zenon DEF ReviewerRefused, Goto
  <2> QED BY <1>1, <2>1 DEF Quiet
<1>7. CASE BeginSchedule
  <2>1. pc = "consume" /\ pc' = "schedule" /\ UNCHANGED <<policy, runs, authors, doubt, crashes>>
    BY <1>7, Zenon DEF BeginSchedule, Goto, rows
  <2> QED BY <1>1, <2>1 DEF Quiet
<1>8. CASE RefuseSeat
  <2>1. pc = "schedule" /\ pc' = pc /\ UNCHANGED <<policy, runs, authors, doubt, crashes>>
    BY <1>8, Zenon DEF RefuseSeat
  <2> QED BY <1>1, <2>1 DEF Quiet
<1>9. CASE PassOver
  <2>1. pc = "schedule" /\ pc' = pc /\ UNCHANGED <<policy, runs, authors, doubt, crashes>>
    BY <1>9, Zenon DEF PassOver, rows
  <2> QED BY <1>1, <2>1 DEF Quiet
<1>10. CASE EndTick
  BY <1>1, <1>10 DEF EndTick, Goto, rows, loop, Quiet
<1>11. CASE Crash
  BY <1>1, <1>11 DEF Crash, rows, Quiet
<1>12. CASE Answered
  BY <1>1, <1>12 DEF Answered, loop, Quiet
<1>13. CASE UNCHANGED vars
  BY <1>1, <1>13 DEF vars, Quiet
<1> QED
  BY <1>2, <1>3, <1>4, <1>5, <1>6, <1>7, <1>8, <1>9, <1>10, <1>11, <1>12, <1>13 DEF QuietStep

-----------------------------------------------------------------------------
(* What the invariant says is kept by a step of each sort.                   *)

\* The commit a review judges is of a run, and what it says of it can be said of the run.
LEMMA AuthorIsThere ==
    ASSUME Typed, AuthorsAreRuns, ReviewsJudge,
           NEW n \in DOMAIN runs, runs[n].role = Review
    PROVE  LET l == runs[n].lane
               judged == {i \in DOMAIN authors[l] : authors[l][i] < n}
               a == authors[l][Newest(judged)]
           IN  /\ l \in Lanes /\ Newest(judged) \in judged
               /\ a \in DOMAIN runs /\ runs[a].processed
<1>1. runs[n].lane \in Lanes /\ authors[runs[n].lane] \in Seq(Nat)
  <2>1. runs[n] \in Run
    BY DEF Typed
  <2> QED BY <2>1 DEF Typed, Run
<1>2. \E i \in DOMAIN authors[runs[n].lane] : authors[runs[n].lane][i] < n
  BY DEF ReviewsJudge
<1> DEFINE l == runs[n].lane
           judged == {i \in DOMAIN authors[l] : authors[l][i] < n}
<1>3. Len(authors[l]) \in Nat /\ judged \in SUBSET (1..Len(authors[l]))
  BY <1>1
<1>4. Newest(judged) \in judged
  BY <1>2, <1>3, NewestIsThere
<1>5. Newest(judged) \in DOMAIN authors[l]
  BY <1>4
<1>6. authors[l][Newest(judged)] \in DOMAIN runs /\ runs[authors[l][Newest(judged)]].processed
  BY <1>1, <1>5 DEF AuthorsAreRuns
<1> QED BY <1>1, <1>4, <1>6

LEMMA MarksKeep ==
    ASSUME SeatsInv, NEW n \in DOMAIN runs, Marks(n), crashes' = crashes
    PROVE  OneOpenRun' /\ ImplementersHaveVendors' /\ DirtyDeathBarsTheChain'
<1>1. OneOpenRun'
  BY DEF SeatsInv, OneOpenRun, Marks
<1>2. ImplementersHaveVendors'
  BY DEF SeatsInv, ImplementersHaveVendors, Marks
<1>3. DirtyDeathBarsTheChain'
  <2> SUFFICES ASSUME crashes = 0, NEW m \in DOMAIN runs, NEW i \in DOMAIN runs,
                      runs[i].lane = runs[m].lane, i < m,
                      runs[m].role = Impl, runs[m].from = "chain"
               PROVE  ~runs'[i].dirty
    BY DEF Marks, DirtyDeathBarsTheChain, RunsOf
  <2>1. runs[i].processed
    BY DEF SeatsInv, OneOpenRun
  <2>2. ~runs[i].dirty
    BY DEF SeatsInv, DirtyDeathBarsTheChain, RunsOf
  <2> QED BY <2>1, <2>2 DEF Marks
<1> QED BY <1>1, <1>2, <1>3

LEMMA MarksKeepReviews ==
    ASSUME SeatsInv, NEW n \in DOMAIN runs, Marks(n), UNCHANGED <<authors, policy>>
    PROVE  AuthorsAreRuns' /\ ReviewsJudge' /\ ReviewerIsAnother'
<1>1. AuthorsAreRuns'
  BY DEF SeatsInv, AuthorsAreRuns, Marks
<1>2. ReviewsJudge'
  BY DEF SeatsInv, ReviewsJudge, Marks
<1>3. ReviewerIsAnother'
  <2>0. DOMAIN runs' = DOMAIN runs
    BY DEF Marks
  <2> SUFFICES ASSUME NEW m \in DOMAIN runs'
               PROVE  LET l == runs'[m].lane
                          judged == {i \in DOMAIN authors'[l] : authors'[l][i] < m}
                          author == runs'[authors'[l][Newest(judged)]]
                      IN  (runs'[m].role = Review /\ {Impl, Review} \in policy'.pairs /\ author.known)
                          => Family(runs'[m].kind) # Family(author.kind)
    BY DEF ReviewerIsAnother
  <2> m \in DOMAIN runs
    BY <2>0
  <2> DEFINE l == runs[m].lane
             judged == {i \in DOMAIN authors[l] : authors[l][i] < m}
             a == authors[l][Newest(judged)]
  <2>1. SUFFICES ASSUME runs[m].role = Review, {Impl, Review} \in policy.pairs, runs'[a].known
                 PROVE  Family(runs[m].kind) # Family(runs'[a].kind)
    BY DEF Marks
  <2>2. a \in DOMAIN runs /\ runs[a].processed
    BY <2>1, AuthorIsThere DEF SeatsInv
  <2>3. runs[a].known /\ runs'[a].kind = runs[a].kind
    BY <2>1, <2>2 DEF Marks
  <2> QED BY <2>1, <2>3 DEF SeatsInv, ReviewerIsAnother
<1> QED BY <1>1, <1>2, <1>3

LEMMA QuietKeeps ==
    ASSUME SeatsInv, Quiet
    PROVE  /\ OneOpenRun' /\ EndsAreFinal' /\ AuthorsAreRuns' /\ ImplementersHaveVendors'
           /\ TickIsThere' /\ ReviewsJudge' /\ DeathsAreMarked'
           /\ ReviewerIsAnother' /\ DirtyDeathBarsTheChain'
<1>1. runs' = runs /\ authors' = authors /\ doubt' = doubt /\ policy' = policy
  BY DEF Quiet
<1>2. OneOpenRun' /\ EndsAreFinal' /\ AuthorsAreRuns' /\ ImplementersHaveVendors' /\ ReviewsJudge'
  BY <1>1 DEF SeatsInv, OneOpenRun, EndsAreFinal, AuthorsAreRuns, ImplementersHaveVendors, ReviewsJudge
<1>3. TickIsThere'
  <2>1. CASE pc' = pc /\ cur' = cur
    BY <1>1, <2>1 DEF SeatsInv, TickIsThere, RunsOf
  <2>2. CASE pc' \in {"idle", "reap", "consume", "schedule"}
    BY <2>2 DEF TickIsThere
  <2>3. CASE pc = "park" /\ pc' = "flag" /\ cur' = cur
    BY <1>1, <2>3 DEF SeatsInv, TickIsThere
  <2> QED BY <2>1, <2>2, <2>3 DEF Quiet
<1>4. DeathsAreMarked'
  BY <1>1 DEF SeatsInv, DeathsAreMarked, Quiet
<1>5. ReviewerIsAnother'
  <2> SUFFICES ASSUME NEW m \in DOMAIN runs
               PROVE  LET l == runs'[m].lane
                          judged == {i \in DOMAIN authors'[l] : authors'[l][i] < m}
                          author == runs'[authors'[l][Newest(judged)]]
                      IN  (runs'[m].role = Review /\ {Impl, Review} \in policy'.pairs /\ author.known)
                          => Family(runs'[m].kind) # Family(author.kind)
    BY <1>1 DEF ReviewerIsAnother
  <2> DEFINE l == runs[m].lane
             judged == {i \in DOMAIN authors[l] : authors[l][i] < m}
             a == authors[l][Newest(judged)]
  <2>1. SUFFICES ASSUME runs[m].role = Review, {Impl, Review} \in policy.pairs, runs[a].known
                 PROVE  Family(runs[m].kind) # Family(runs[a].kind)
    BY <1>1
  <2> QED BY <2>1 DEF SeatsInv, ReviewerIsAnother
<1>6. DirtyDeathBarsTheChain'
  BY <1>1 DEF SeatsInv, DirtyDeathBarsTheChain, RunsOf, Quiet
<1> QED BY <1>2, <1>3, <1>4, <1>5, <1>6

LEMMA BindsKeep ==
    ASSUME SeatsInv, NEW k, NEW r, Binds(k, r), UNCHANGED <<authors, policy, crashes, doubt>>,
           \A m \in DOMAIN runs : runs[m].lane = r.lane => runs[m].processed,
           r.role = Impl => Family(r.kind) # "",
           r.end = "live", ~r.dirty, ~r.processed,
           pc \notin {"park", "flag"}
    PROVE  /\ OneOpenRun' /\ EndsAreFinal' /\ AuthorsAreRuns' /\ ImplementersHaveVendors'
           /\ DeathsAreMarked'
<1>0. /\ DOMAIN runs' = DOMAIN runs \cup {k} /\ k \notin DOMAIN runs /\ k \in Nat
      /\ \A m \in DOMAIN runs : m \in Nat /\ m < k
      /\ runs'[k] = r /\ \A m \in DOMAIN runs : runs'[m] = runs[m]
  BY DEF Binds
<1>b. authors' = authors /\ crashes' = crashes /\ doubt' = doubt
  OBVIOUS
<1>1. OneOpenRun'
  <2> SUFFICES ASSUME NEW m \in DOMAIN runs', NEW n \in DOMAIN runs', m < n,
                      runs'[m].lane = runs'[n].lane
               PROVE  runs'[m].processed
    BY DEF OneOpenRun
  <2>1. m \in DOMAIN runs
    <3>1. m \in Nat /\ n \in Nat /\ k \in Nat
      BY <1>0
    <3>2. m # n /\ ~(n < m)
      BY <3>1, LessIsOneWay, Zenon
    <3>3. n = k \/ n < k
      BY <1>0
    <3>4. m # k
      BY <3>2, <3>3, Zenon
    <3> QED BY <1>0, <3>4
  <2>2. CASE n = k
    BY <1>0, <2>1, <2>2
  <2>3. CASE n \in DOMAIN runs
    BY <1>0, <2>1, <2>3 DEF SeatsInv, OneOpenRun
  <2> QED BY <1>0, <2>2, <2>3
<1>2. EndsAreFinal'
  BY <1>0 DEF SeatsInv, EndsAreFinal
<1>3. AuthorsAreRuns'
  <2> SUFFICES \A l \in Lanes : \A i \in DOMAIN authors'[l] :
                  /\ authors'[l][i] \in DOMAIN runs'
                  /\ runs'[authors'[l][i]].lane = l
                  /\ runs'[authors'[l][i]].role = Impl
                  /\ runs'[authors'[l][i]].processed
    BY DEF AuthorsAreRuns
  <2> TAKE l \in Lanes
  <2> TAKE i \in DOMAIN authors'[l]
  <2>1. authors'[l] = authors[l] /\ i \in DOMAIN authors[l]
    BY <1>b
  <2>2. /\ authors[l][i] \in DOMAIN runs
        /\ runs[authors[l][i]].lane = l
        /\ runs[authors[l][i]].role = Impl
        /\ runs[authors[l][i]].processed
    BY <2>1 DEF SeatsInv, AuthorsAreRuns
  <2> QED BY <1>0, <2>1, <2>2
<1>4. ImplementersHaveVendors'
  BY <1>0 DEF SeatsInv, ImplementersHaveVendors
<1>5. DeathsAreMarked'
  BY <1>0, <1>b DEF SeatsInv, DeathsAreMarked
<1> QED BY <1>1, <1>2, <1>3, <1>4, <1>5

\* A run bound to an implementation seat judges nothing.
LEMMA BindsKeepReviews ==
    ASSUME SeatsInv, NEW k, NEW r, Binds(k, r), UNCHANGED <<authors, policy>>,
           NEW m \in DOMAIN runs
    PROVE  /\ runs[m].role = Review =>
                \E i \in DOMAIN authors[runs[m].lane] : authors[runs[m].lane][i] < m
           /\ LET l == runs'[m].lane
                  judged == {i \in DOMAIN authors'[l] : authors'[l][i] < m}
                  author == runs'[authors'[l][Newest(judged)]]
              IN  (runs'[m].role = Review /\ {Impl, Review} \in policy'.pairs /\ author.known)
                  => Family(runs'[m].kind) # Family(author.kind)
<1>1. runs'[m] = runs[m]
  BY DEF Binds
<1>2. runs[m].role = Review =>
        \E i \in DOMAIN authors[runs[m].lane] : authors[runs[m].lane][i] < m
  BY DEF SeatsInv, ReviewsJudge
<1> DEFINE l == runs[m].lane
           judged == {i \in DOMAIN authors[l] : authors[l][i] < m}
           a == authors[l][Newest(judged)]
<1>3. ASSUME runs[m].role = Review, {Impl, Review} \in policy.pairs, runs'[a].known
      PROVE  Family(runs[m].kind) # Family(runs'[a].kind)
  <2>1. a \in DOMAIN runs
    BY <1>3, AuthorIsThere DEF SeatsInv
  <2>2. runs'[a] = runs[a]
    BY <2>1 DEF Binds
  <2> QED BY <1>3, <2>2 DEF SeatsInv, ReviewerIsAnother
<1> QED BY <1>1, <1>2, <1>3

-----------------------------------------------------------------------------
(* Types.                                                                    *)

LEMMA TypesAtInit == Init => Typed
<1>1. Init => /\ runs = <<>> /\ authors = [l \in Lanes |-> <<>>] /\ doubt = {}
              /\ todo = {} /\ cur = 0 /\ crashes = 0
  BY DEF Init
<1>2. <<>> \in Seq(Run) /\ <<>> \in Seq(Nat)
  OBVIOUS
<1>3. [l \in Lanes |-> <<>>] \in [Lanes -> Seq(Nat)]
  BY <1>2
<1>4. 0 \in Nat /\ {} \subseteq Lanes
  OBVIOUS
<1> QED BY <1>1, <1>2, <1>3, <1>4, Zenon DEF Typed

\* What a run that is marked, or one that is bound, is made of.
LEMMA RunIsTyped ==
    ASSUME runs \in Seq(Run), NEW n \in DOMAIN runs
    PROVE  /\ runs[n] \in Run /\ runs[n].lane \in Lanes /\ runs[n].role \in Roles
           /\ runs[n].kind \in DOMAIN Registry /\ n \in Nat
           /\ \A e \in Ends, d \in BOOLEAN :
                 [runs[n] EXCEPT !.end = e, !.dirty = d] \in Run
           /\ \A e \in Ends : [runs[n] EXCEPT !.end = e] \in Run
           /\ [runs[n] EXCEPT !.known = TRUE] \in Run
           /\ [runs[n] EXCEPT !.processed = TRUE] \in Run
<1>1. runs[n] \in Run /\ n \in Nat
  OBVIOUS
<1> QED BY <1>1 DEF Run

LEMMA RunEndsMarks ==
    ASSUME Typed, EndsAreFinal, NEW n \in DOMAIN runs,
           NEW e \in {"ok", "invalid", "died"}, NEW d \in BOOLEAN,
           runs[n].end = "live", d => e = "died" /\ runs[n].role = Impl,
           runs' = [runs EXCEPT ![n].end = e, ![n].dirty = d]
    PROVE  Marks(n) /\ runs'[n].end = e /\ runs'[n].dirty = d
           /\ runs'[n].processed = runs[n].processed
<1> DEFINE r == [runs[n] EXCEPT !.end = e, !.dirty = d]
<1>1. r \in Run
  BY RunIsTyped DEF Typed, Ends
<1>2. runs' = [runs EXCEPT ![n] = r]
  OBVIOUS
<1>3. ~runs[n].processed
  BY DEF EndsAreFinal
<1>4. runs[n] \in Run
  BY RunIsTyped DEF Typed
<1>5. /\ r.lane = runs[n].lane /\ r.role = runs[n].role /\ r.kind = runs[n].kind
      /\ r.from = runs[n].from /\ r.end = e /\ r.dirty = d /\ r.processed = runs[n].processed
  BY <1>4 DEF Run
<1> HIDE DEF r
<1>6. Marks(n) /\ runs'[n] = r
  BY <1>1, <1>2, <1>3, <1>5, MarkRun DEF Typed
<1> QED BY <1>5, <1>6

LEMMA EndedMarks ==
    ASSUME Typed, NEW n \in DOMAIN runs, NEW e \in Ends, Ended(n, e)
    PROVE  Marks(n) /\ runs'[n] = [runs[n] EXCEPT !.end = e]
<1> DEFINE r == [runs[n] EXCEPT !.end = e]
<1>1. r \in Run /\ runs[n] \in Run
  BY RunIsTyped DEF Typed
<1>2. runs' = [runs EXCEPT ![n] = r]
  BY DEF Ended
<1>3. /\ r.lane = runs[n].lane /\ r.role = runs[n].role /\ r.kind = runs[n].kind
      /\ r.from = runs[n].from /\ r.known = runs[n].known
      /\ r.dirty = runs[n].dirty /\ r.processed = runs[n].processed
  BY <1>1 DEF Run
<1> HIDE DEF r
<1>4. Marks(n) /\ runs'[n] = r
  BY <1>1, <1>2, <1>3, MarkRun DEF Typed
<1> QED BY <1>4 DEF r

LEMMA ProcessedMarks ==
    ASSUME Typed, NEW n \in DOMAIN runs, Processed(n)
    PROVE  Marks(n) /\ runs'[n] = [runs[n] EXCEPT !.processed = TRUE]
<1> DEFINE r == [runs[n] EXCEPT !.processed = TRUE]
<1>1. r \in Run /\ runs[n] \in Run
  BY RunIsTyped DEF Typed
<1>2. runs' = [runs EXCEPT ![n] = r]
  BY DEF Processed
<1>3. /\ r.lane = runs[n].lane /\ r.role = runs[n].role /\ r.kind = runs[n].kind
      /\ r.from = runs[n].from /\ r.known = runs[n].known
      /\ r.dirty = runs[n].dirty /\ r.processed
  BY <1>1 DEF Run
<1> HIDE DEF r
<1>4. Marks(n) /\ runs'[n] = r
  BY <1>1, <1>2, <1>3, MarkRun DEF Typed
<1> QED BY <1>4 DEF r

LEMMA KnownMarks ==
    ASSUME Typed, NEW n \in DOMAIN runs, ~runs[n].processed,
           runs' = [runs EXCEPT ![n].known = TRUE]
    PROVE  Marks(n) /\ runs'[n] = [runs[n] EXCEPT !.known = TRUE]
<1> DEFINE r == [runs[n] EXCEPT !.known = TRUE]
<1>1. r \in Run /\ runs[n] \in Run
  BY RunIsTyped DEF Typed
<1>2. runs' = [runs EXCEPT ![n] = r]
  OBVIOUS
<1>3. /\ r.lane = runs[n].lane /\ r.role = runs[n].role /\ r.kind = runs[n].kind
      /\ r.from = runs[n].from
  BY <1>1 DEF Run
<1> HIDE DEF r
<1>4. Marks(n) /\ runs'[n] = r
  BY <1>1, <1>2, <1>3, MarkRun DEF Typed
<1> QED BY <1>4 DEF r

\* What dispatch binds is a run.
LEMMA BindBinds ==
    ASSUME Typed, NEW l \in Lanes, NEW role \in Roles, NEW s,
           s.kind \in DOMAIN Registry, s.from \in {"chain", "pin", "default"}, Bind(l, role, s)
    PROVE  \E r : /\ Binds(Len(runs) + 1, r) /\ r.lane = l /\ r.role = role
                  /\ r.kind = s.kind /\ r.from = s.from
                  /\ r.end = "live" /\ ~r.dirty /\ ~r.processed /\ ~r.known
<1> DEFINE r == [lane |-> l, role |-> role, kind |-> s.kind, from |-> s.from,
                 known |-> FALSE, end |-> "live", dirty |-> FALSE, processed |-> FALSE]
<1>1. r \in Run
  BY DEF Run, Ends
<1>2. runs' = Append(runs, r)
  BY DEF Bind
<1>3. /\ r.lane = l /\ r.role = role /\ r.kind = s.kind /\ r.from = s.from
      /\ r.end = "live" /\ ~r.dirty /\ ~r.processed /\ ~r.known
  OBVIOUS
<1> HIDE DEF r
<1>4. Binds(Len(runs) + 1, r)
  BY <1>1, <1>2, BindRun DEF Typed
<1> QED BY <1>3, <1>4

-----------------------------------------------------------------------------
(* The steps that mark a run.                                                *)

LEMMA RunEndsKeeps ==
    ASSUME SeatsInv, RunEnds
    PROVE  SeatsInv'
<1>1. PICK n \in DOMAIN runs, e \in {"ok", "invalid", "died"}, d \in BOOLEAN :
        /\ runs[n].end = "live" /\ (d => e = "died" /\ runs[n].role = Impl)
        /\ runs' = [runs EXCEPT ![n].end = e, ![n].dirty = d]
  BY Zenon DEF RunEnds
<1>2. /\ policy' = policy /\ doubt' = doubt /\ authors' = authors /\ crashes' = crashes
      /\ todo' = todo /\ cur' = cur /\ pc' = pc
  BY Zenon DEF RunEnds, rows, loop
<1>3. Marks(n) /\ runs'[n].end = e /\ runs'[n].dirty = d /\ runs'[n].processed = runs[n].processed
  BY <1>1, RunEndsMarks DEF SeatsInv
<1>4. ~runs[n].processed
  BY <1>1 DEF SeatsInv, EndsAreFinal
<1>5. Typed'
  BY <1>2, <1>3 DEF SeatsInv, Typed, Marks
<1>6. EndsAreFinal'
  BY <1>1, <1>3, <1>4 DEF SeatsInv, EndsAreFinal, Marks
<1>7. TickIsThere'
  BY <1>1, <1>2, <1>3 DEF SeatsInv, TickIsThere, Marks, RunsOf
<1>8. DeathsAreMarked'
  BY <1>1, <1>2, <1>3, <1>4 DEF SeatsInv, DeathsAreMarked, Marks
<1> QED BY <1>2, <1>3, <1>5, <1>6, <1>7, <1>8, MarksKeep, MarksKeepReviews DEF SeatsInv

\* The verdict on a death.
LEMMA RecoverKeeps ==
    ASSUME SeatsInv, NEW n \in DOMAIN runs, RecoverClean(n) \/ RecoverAmbiguous(n)
    PROVE  SeatsInv'
<1>1. PICK e \in {"failed", "ambiguous"} :
        /\ Ended(n, e) /\ (e = "failed" => ~runs[n].dirty)
        /\ pc' = (IF e = "failed" THEN "exhaust" ELSE "park")
  BY DEF RecoverClean, RecoverAmbiguous, Unchanged, Goto
<1>2. /\ pc = "reap" /\ runs[n].end = "died" /\ ~runs[n].processed
      /\ policy' = policy /\ doubt' = doubt /\ authors' = authors /\ crashes' = crashes
      /\ todo' = todo /\ cur' = n
  BY Zenon DEF RecoverClean, RecoverAmbiguous, rows, Dead
<1>3. Marks(n) /\ runs'[n] = [runs[n] EXCEPT !.end = e]
  BY <1>1, EndedMarks DEF SeatsInv, Ends
<1>4. runs[n] \in Run /\ n \in Nat
  BY RunIsTyped DEF SeatsInv, Typed
<1>5. runs'[n].end = e /\ runs'[n].dirty = runs[n].dirty /\ runs'[n].processed = runs[n].processed
  BY <1>3, <1>4 DEF Run
<1>6. Typed'
  BY <1>2, <1>3, <1>4 DEF SeatsInv, Typed, Marks
<1>7. EndsAreFinal'
  <2>1. EndsAreFinal
    BY DEF SeatsInv
  <2>2. runs'[n].processed => runs'[n].end \notin {"live", "died"}
    BY <1>1, <1>2, <1>3, <1>5
  <2>3. runs'[n].dirty => runs'[n].end \in {"died", "ambiguous"}
    BY <1>1, <1>2, <1>3, <1>5, <2>1 DEF EndsAreFinal
  <2> QED BY <1>3, <2>1, <2>2, <2>3, EndsStayFinal
<1>8. TickIsThere'
  BY <1>1, <1>2, <1>3, <1>5 DEF TickIsThere, Marks
<1>9. DeathsAreMarked'
  <2>1. /\ DOMAIN runs' = DOMAIN runs
        /\ \A m \in DOMAIN runs : runs'[m].lane = runs[m].lane /\ (m # n => runs'[m] = runs[m])
    BY <1>3, MarksLeaveOthers
  <2> QED BY <1>1, <1>2, <1>5, <2>1 DEF SeatsInv, DeathsAreMarked
<1> QED BY <1>2, <1>3, <1>6, <1>7, <1>8, <1>9, MarksKeep, MarksKeepReviews DEF SeatsInv

LEMMA FlagKeeps ==
    ASSUME SeatsInv, Flag
    PROVE  SeatsInv'
<1>1. /\ pc = "flag" /\ pc' = "reap" /\ Processed(cur)
      /\ doubt' = doubt \cup {runs[cur].lane}
      /\ policy' = policy /\ authors' = authors /\ crashes' = crashes
      /\ todo' = todo /\ cur' = cur
  BY Zenon DEF Flag, Goto, loop
<1>2. cur \in DOMAIN runs /\ runs[cur].end = "ambiguous"
  BY <1>1 DEF SeatsInv, TickIsThere
<1>3. Marks(cur) /\ runs'[cur] = [runs[cur] EXCEPT !.processed = TRUE]
  BY <1>1, <1>2, ProcessedMarks DEF SeatsInv
<1>4. runs[cur] \in Run /\ runs[cur].lane \in Lanes
  BY <1>2, RunIsTyped DEF SeatsInv, Typed
<1>5. /\ runs'[cur].end = runs[cur].end /\ runs'[cur].dirty = runs[cur].dirty
      /\ runs'[cur].processed /\ runs'[cur].lane = runs[cur].lane
  BY <1>3, <1>4 DEF Run
<1>6. Typed'
  BY <1>1, <1>3, <1>4 DEF SeatsInv, Typed, Marks
<1>7. EndsAreFinal'
  <2>1. EndsAreFinal
    BY DEF SeatsInv
  <2>2. runs'[cur].processed => runs'[cur].end \notin {"live", "died"}
    BY <1>2, <1>3, <1>5
  <2>3. runs'[cur].dirty => runs'[cur].end \in {"died", "ambiguous"}
    BY <1>2, <1>3, <1>5, <2>1 DEF EndsAreFinal
  <2> QED BY <1>3, <2>1, <2>2, <2>3, EndsStayFinal
<1>8. TickIsThere'
  BY <1>1 DEF TickIsThere
<1>9. DeathsAreMarked'
  <2>1. /\ DOMAIN runs' = DOMAIN runs
        /\ \A m \in DOMAIN runs : runs'[m].lane = runs[m].lane /\ (m # cur => runs'[m] = runs[m])
    BY <1>3, <1>2, MarksLeaveOthers
  <2> QED BY <1>1, <1>2, <1>5, <2>1 DEF SeatsInv, DeathsAreMarked
<1> QED BY <1>1, <1>2, <1>3, <1>6, <1>7, <1>8, <1>9, MarksKeep, MarksKeepReviews DEF SeatsInv

\* A run is consumed, with whatever it means for its lane but a commit.
LEMMA ConsumeKeeps ==
    ASSUME SeatsInv, NEW n \in DOMAIN runs, Consumable(n), Processed(n),
           runs[n].end \in {"failed", "invalid", "ok", "ambiguous"},
           UNCHANGED <<policy, doubt, authors, pc, loop, crashes>>
    PROVE  SeatsInv'
<1>1. /\ pc = "consume" /\ pc' = pc /\ cur' = cur /\ todo' = todo
      /\ policy' = policy /\ doubt' = doubt /\ authors' = authors /\ crashes' = crashes
      /\ ~runs[n].processed
  BY DEF Consumable, loop
<1>2. Marks(n) /\ runs'[n] = [runs[n] EXCEPT !.processed = TRUE]
  BY ProcessedMarks DEF SeatsInv
<1>3. runs[n] \in Run
  BY RunIsTyped DEF SeatsInv, Typed
<1>4. /\ runs'[n].end = runs[n].end /\ runs'[n].dirty = runs[n].dirty /\ runs'[n].processed
  BY <1>2, <1>3 DEF Run
<1>5. Typed'
  BY <1>1, <1>2 DEF SeatsInv, Typed, Marks
<1>6. EndsAreFinal'
  <2>1. EndsAreFinal
    BY DEF SeatsInv
  <2>2. runs'[n].processed => runs'[n].end \notin {"live", "died"}
    BY <1>2, <1>4
  <2>3. runs'[n].dirty => runs'[n].end \in {"died", "ambiguous"}
    BY <1>2, <1>4, <2>1 DEF EndsAreFinal
  <2> QED BY <1>2, <2>1, <2>2, <2>3, EndsStayFinal
<1>7. TickIsThere'
  BY <1>1 DEF TickIsThere
<1>8. DeathsAreMarked'
  <2>1. crashes = 0 => runs[n].end # "ambiguous"
    BY <1>1 DEF SeatsInv, DeathsAreMarked
  <2>2. crashes = 0 => ~runs[n].dirty
    BY <2>1 DEF SeatsInv, EndsAreFinal
  <2> QED BY <1>1, <1>2, <1>4, <2>1, <2>2 DEF SeatsInv, DeathsAreMarked, Marks
<1> QED BY <1>1, <1>2, <1>5, <1>6, <1>7, <1>8, MarksKeep, MarksKeepReviews DEF SeatsInv

LEMMA RecordKeeps ==
    ASSUME SeatsInv, NEW at \in {"bound", "boundReviewer"}, NEW back \in {"consume", "schedule"},
           Record(at, back)
    PROVE  SeatsInv'
<1>1. /\ pc = at /\ pc' = back /\ cur' = cur /\ todo' = todo
      /\ policy' = policy /\ doubt' = doubt /\ authors' = authors /\ crashes' = crashes
      /\ runs' = [runs EXCEPT ![cur].known = TRUE]
  BY DEF Record, Goto, loop
<1>2. cur \in DOMAIN runs /\ ~runs[cur].processed
  BY <1>1 DEF SeatsInv, TickIsThere
<1>3. Marks(cur) /\ runs'[cur] = [runs[cur] EXCEPT !.known = TRUE]
  BY <1>1, <1>2, KnownMarks DEF SeatsInv
<1>4. runs[cur] \in Run
  BY <1>2, RunIsTyped DEF SeatsInv, Typed
<1>5. /\ runs'[cur].end = runs[cur].end /\ runs'[cur].dirty = runs[cur].dirty
      /\ runs'[cur].processed = runs[cur].processed
  BY <1>3, <1>4 DEF Run
<1>6. Typed'
  BY <1>1, <1>3 DEF SeatsInv, Typed, Marks
<1>7. EndsAreFinal'
  <2>1. EndsAreFinal
    BY DEF SeatsInv
  <2>2. runs'[cur].processed => runs'[cur].end \notin {"live", "died"}
    BY <1>3, <1>5, <1>2
  <2>3. runs'[cur].dirty => runs'[cur].end \in {"died", "ambiguous"}
    BY <1>3, <1>5, <1>2, <2>1 DEF EndsAreFinal
  <2> QED BY <1>3, <2>1, <2>2, <2>3, EndsStayFinal
<1>8. TickIsThere'
  BY <1>1 DEF TickIsThere
<1>9. DeathsAreMarked'
  <2>1. /\ DOMAIN runs' = DOMAIN runs
        /\ \A m \in DOMAIN runs : runs'[m].lane = runs[m].lane /\ (m # cur => runs'[m] = runs[m])
    BY <1>3, <1>2, MarksLeaveOthers
  <2> QED BY <1>1, <1>2, <1>5, <2>1 DEF SeatsInv, DeathsAreMarked
<1> QED BY <1>1, <1>2, <1>3, <1>6, <1>7, <1>8, <1>9, MarksKeep, MarksKeepReviews DEF SeatsInv

\* A commit is the newest implementation run of its lane.
LEMMA CommitKeeps ==
    ASSUME SeatsInv, NEW n \in DOMAIN runs, Consumable(n), Processed(n),
           runs[n].end = "ok", runs[n].role = Impl,
           authors' = [authors EXCEPT ![runs[n].lane] = Append(@, n)],
           cur' = runs[n].lane, Goto("review"),
           UNCHANGED <<policy, doubt, todo, crashes>>
    PROVE  SeatsInv'
<1>1. /\ pc = "consume" /\ pc' = "review" /\ cur' = runs[n].lane /\ todo' = todo
      /\ policy' = policy /\ doubt' = doubt /\ crashes' = crashes /\ ~runs[n].processed
  BY DEF Consumable, Goto
<1>2. Marks(n) /\ runs'[n] = [runs[n] EXCEPT !.processed = TRUE]
  BY ProcessedMarks DEF SeatsInv
<1>3. runs[n] \in Run /\ runs[n].lane \in Lanes /\ n \in Nat /\ DOMAIN runs \subseteq Nat
  BY RunIsTyped DEF SeatsInv, Typed
<1>4. /\ runs'[n].end = runs[n].end /\ runs'[n].dirty = runs[n].dirty /\ runs'[n].processed
  BY <1>2, <1>3 DEF Run
<1>5. PICK c \in Lanes : c = runs[n].lane
  BY <1>3
<1>6. authors[c] \in Seq(Nat) /\ Append(authors[c], n) \in Seq(Nat)
  BY <1>3, <1>5, AppendProperties DEF SeatsInv, Typed
<1>7. /\ authors' \in [Lanes -> Seq(Nat)] /\ authors'[c] = Append(authors[c], n)
      /\ \A l \in Lanes : l # c => authors'[l] = authors[l]
  BY <1>5, <1>6 DEF SeatsInv, Typed
<1>8. PICK k \in Nat :
        /\ Len(authors'[c]) = k /\ authors'[c] # <<>>
        /\ DOMAIN authors'[c] = DOMAIN authors[c] \cup {k} /\ k \notin DOMAIN authors[c]
        /\ authors'[c][k] = n
        /\ \A i \in DOMAIN authors[c] : authors'[c][i] = authors[c][i]
  <2>1. PICK p \in Seq(Nat) : p = authors[c]
    BY <1>6
  <2>2. PICK j \in Nat : j = Len(p) /\ DOMAIN p = 1..j
    OBVIOUS
  <2>3. PICK q : q = Append(p, n)
    OBVIOUS
  <2>4. /\ Len(q) = j + 1 /\ q # <<>> /\ q[j + 1] = n /\ DOMAIN q = 1..(j + 1)
        /\ \A i \in 1..j : q[i] = p[i]
    BY <1>3, <2>2, <2>3, AppendProperties
  <2>5. 1..(j + 1) = 1..j \cup {j + 1} /\ j + 1 \notin 1..j /\ j + 1 \in Nat
    OBVIOUS
  <2>6. authors'[c] = q
    BY <1>7, <2>1, <2>3
  <2> QED BY <2>1, <2>2, <2>4, <2>5, <2>6
<1>9. \A m \in DOMAIN runs : runs[m].lane = c => m <= n
  <2> SUFFICES ASSUME NEW m \in DOMAIN runs, runs[m].lane = c, n < m
               PROVE  FALSE
    BY <1>3
  <2>1. OneOpenRun
    BY DEF SeatsInv
  <2>2. runs[n].processed
    BY <1>5, <2>1 DEF OneOpenRun
  <2> QED BY <1>1, <2>2
<1>10. Typed'
  <2>1. cur' \in Nat
    BY <1>1, <1>3, SeatsAssumption
  <2> QED BY <1>1, <1>2, <1>7, <2>1 DEF SeatsInv, Typed, Marks
<1>11. EndsAreFinal'
  <2>1. EndsAreFinal
    BY DEF SeatsInv
  <2>2. runs'[n].processed => runs'[n].end \notin {"live", "died"}
    BY <1>2, <1>4
  <2>3. runs'[n].dirty => runs'[n].end \in {"died", "ambiguous"}
    BY <1>2, <1>4, <2>1 DEF EndsAreFinal
  <2> QED BY <1>2, <2>1, <2>2, <2>3, EndsStayFinal
<1>12. AuthorsAreRuns'
  <2> SUFFICES \A l \in Lanes : \A i \in DOMAIN authors'[l] :
                  /\ authors'[l][i] \in DOMAIN runs'
                  /\ runs'[authors'[l][i]].lane = l
                  /\ runs'[authors'[l][i]].role = Impl
                  /\ runs'[authors'[l][i]].processed
    BY DEF AuthorsAreRuns
  <2> TAKE l \in Lanes
  <2> TAKE i \in DOMAIN authors'[l]
  <2>1. \/ l = c /\ i = k
        \/ i \in DOMAIN authors[l] /\ authors'[l][i] = authors[l][i]
    BY <1>7, <1>8
  <2>2. CASE l = c /\ i = k
    <3>1. authors'[l][i] = n /\ l = c
      BY <1>8, <2>2
    <3>2. n \in DOMAIN runs' /\ runs'[n].lane = c /\ runs'[n].role = Impl
      BY <1>2, <1>5 DEF Marks
    <3> QED BY <1>4, <3>1, <3>2
  <2>3. CASE i \in DOMAIN authors[l] /\ authors'[l][i] = authors[l][i]
    <3>1. /\ authors[l][i] \in DOMAIN runs /\ runs[authors[l][i]].lane = l
          /\ runs[authors[l][i]].role = Impl /\ runs[authors[l][i]].processed
      BY <2>3 DEF SeatsInv, AuthorsAreRuns
    <3> QED BY <1>2, <2>3, <3>1 DEF Marks
  <2> QED BY <2>1, <2>2, <2>3
<1>13. TickIsThere'
  <2>1. cur' = c /\ authors'[c][Len(authors'[c])] = n
    BY <1>1, <1>5, <1>8
  <2>2. \A m \in DOMAIN runs : runs[m].lane = c => runs'[m].processed
    <3> SUFFICES ASSUME NEW m \in DOMAIN runs, runs[m].lane = c
                 PROVE  runs'[m].processed
      OBVIOUS
    <3>1. m = n \/ m < n
      BY <1>3, <1>9
    <3>2. CASE m = n
      BY <1>4, <3>2
    <3>3. CASE m < n
      BY <1>2, <1>5, <3>3 DEF SeatsInv, OneOpenRun, Marks
    <3> QED BY <3>1, <3>2, <3>3
  <2>3. \A m \in DOMAIN runs' :
          runs'[m].lane = c => m \in DOMAIN runs /\ runs[m].lane = c
    BY <1>2 DEF Marks
  <2>4. /\ c \in Lanes /\ authors'[c] # <<>>
        /\ \A m \in DOMAIN runs' : runs'[m].lane = c =>
              runs'[m].processed /\ m <= authors'[c][Len(authors'[c])]
    BY <1>8, <1>9, <2>1, <2>2, <2>3
  <2> QED BY <1>1, <2>1, <2>4 DEF TickIsThere, RunsOf
<1>14. DeathsAreMarked'
  <2>1. ~runs[n].dirty /\ runs[n].end # "ambiguous"
    BY DEF SeatsInv, EndsAreFinal
  <2> QED BY <1>1, <1>2, <1>4, <2>1 DEF SeatsInv, DeathsAreMarked, Marks
<1>15. ASSUME NEW m \in DOMAIN runs, runs[m].role = Review
       PROVE  {i \in DOMAIN authors'[runs[m].lane] : authors'[runs[m].lane][i] < m}
              = {i \in DOMAIN authors[runs[m].lane] : authors[runs[m].lane][i] < m}
  <2>1. runs[m].lane \in Lanes /\ m \in Nat
    BY RunIsTyped DEF SeatsInv, Typed
  <2>2. CASE runs[m].lane # c
    BY <1>7, <2>1, <2>2
  <2>3. CASE runs[m].lane = c
    <3>1. m <= n /\ m # n
      BY <1>9, <1>15, <2>3 DEF Impl, Review
    <3>2. ~(n < m)
      BY <1>3, <2>1, <3>1
    <3>3. \A i \in DOMAIN authors'[c] : authors'[c][i] < m =>
             i \in DOMAIN authors[c] /\ authors[c][i] < m
      BY <1>8, <3>2
    <3>4. \A i \in DOMAIN authors[c] : authors[c][i] < m =>
             i \in DOMAIN authors'[c] /\ authors'[c][i] < m
      BY <1>8
    <3>5. {i \in DOMAIN authors'[c] : authors'[c][i] < m}
          = {i \in DOMAIN authors[c] : authors[c][i] < m}
      BY <3>3, <3>4
    <3> QED BY <2>3, <3>5
  <2> QED BY <2>2, <2>3
<1>16. ReviewsJudge'
  <2> SUFFICES ASSUME NEW m \in DOMAIN runs, runs[m].role = Review
               PROVE  \E i \in DOMAIN authors'[runs[m].lane] : authors'[runs[m].lane][i] < m
    BY <1>2 DEF ReviewsJudge, Marks
  <2>1. \E i \in DOMAIN authors[runs[m].lane] : authors[runs[m].lane][i] < m
    BY DEF SeatsInv, ReviewsJudge
  <2> QED BY <1>15, <2>1
<1>17. ReviewerIsAnother'
  <2> SUFFICES ASSUME NEW m \in DOMAIN runs
               PROVE  LET l == runs'[m].lane
                          judged == {i \in DOMAIN authors'[l] : authors'[l][i] < m}
                          author == runs'[authors'[l][Newest(judged)]]
                      IN  (runs'[m].role = Review /\ {Impl, Review} \in policy'.pairs /\ author.known)
                          => Family(runs'[m].kind) # Family(author.kind)
    BY <1>2, MarksLeaveOthers DEF ReviewerIsAnother
  <2> DEFINE l == runs[m].lane
             judged == {i \in DOMAIN authors[l] : authors[l][i] < m}
             after == {i \in DOMAIN authors'[l] : authors'[l][i] < m}
             a == authors[l][Newest(judged)]
             b == authors'[l][Newest(after)]
  <2>1. SUFFICES ASSUME runs[m].role = Review, {Impl, Review} \in policy.pairs, runs'[b].known
                 PROVE  Family(runs[m].kind) # Family(runs'[b].kind)
    BY <1>1, <1>2 DEF Marks
  <2>2. l \in Lanes /\ Newest(judged) \in judged /\ a \in DOMAIN runs /\ runs[a].processed
    BY <2>1, AuthorIsThere DEF SeatsInv
  <2>3. after = judged
    BY <1>15, <2>1
  <2>4. b = a
    <3>1. Newest(judged) \in DOMAIN authors[l]
      BY <2>2
    <3> HIDE DEF judged, after
    <3>2. authors'[l][Newest(judged)] = authors[l][Newest(judged)]
      BY <1>7, <1>8, <2>2, <3>1
    <3> QED BY <2>3, <3>2
  <2> HIDE DEF b
  <2>5. runs[a].known /\ runs'[a].kind = runs[a].kind
    BY <1>2, <2>1, <2>2, <2>4 DEF Marks
  <2>6. Family(runs[m].kind) # Family(runs[a].kind)
    BY <2>1, <2>5 DEF SeatsInv, ReviewerIsAnother
  <2> QED BY <2>4, <2>5, <2>6
<1> QED
  BY <1>1, <1>2, <1>10, <1>11, <1>12, <1>13, <1>14, <1>16, <1>17, MarksKeep DEF SeatsInv

-----------------------------------------------------------------------------
(* The steps that bind a run.                                                *)

\* A lane's own runs, and the provider its implementer is on record with.
LEMMA ReviewerKeeps ==
    ASSUME SeatsInv, NEW hit \in BOOLEAN, DispatchReviewer(hit)
    PROVE  SeatsInv'
<1> DEFINE s == Resolve(Review, exhausted[cur][Review], FALSE)
<1>1. /\ pc = "review" /\ pc' = "boundReviewer" /\ s.refusal = ""
      /\ ~CheckPairing(Review, s.kind, Impl, Implementer(cur), hit)
      /\ Bind(cur, Review, s)
      /\ policy' = policy /\ doubt' = doubt /\ authors' = authors /\ crashes' = crashes
      /\ todo' = todo
  BY Zenon DEF DispatchReviewer, Goto, rows
<1>2. /\ cur \in Lanes /\ authors[cur] # <<>>
      /\ \A n \in DOMAIN runs : runs[n].lane = cur => runs[n].processed
      /\ \A n \in DOMAIN runs : runs[n].lane = cur /\ runs[n].role = Impl =>
            n <= authors[cur][Len(authors[cur])]
  BY <1>1 DEF SeatsInv, TickIsThere, RunsOf
<1>3. s.kind \in DOMAIN Registry /\ s.from \in {"chain", "pin", "default"}
  BY <1>1, SeatsAreAdmitted DEF Roles
<1> HIDE DEF s
<1>4. PICK r : /\ Binds(Len(runs) + 1, r) /\ r.lane = cur /\ r.role = Review
               /\ r.kind = s.kind /\ r.from = s.from
               /\ r.end = "live" /\ ~r.dirty /\ ~r.processed /\ ~r.known
  <2>1. Typed /\ Review \in Roles
    BY DEF SeatsInv, Roles
  <2>2. cur \in Lanes
    BY <1>2
  <2>3. PICK c, t : c = cur /\ t = s
    OBVIOUS
  <2>4. t.kind \in DOMAIN Registry /\ t.from \in {"chain", "pin", "default"}
    BY <1>3, <2>3
  <2>5. c \in Lanes /\ Bind(c, Review, t)
    BY <1>1, <2>2, <2>3
  <2>6. \E r : /\ Binds(Len(runs) + 1, r) /\ r.lane = c /\ r.role = Review
                /\ r.kind = t.kind /\ r.from = t.from
                /\ r.end = "live" /\ ~r.dirty /\ ~r.processed /\ ~r.known
    BY <2>1, <2>4, <2>5, BindBinds
  <2> QED BY <2>3, <2>6
<1>5. PICK k \in Nat : k = Len(runs) + 1
  BY <1>4 DEF Binds
<1>6. Binds(k, r) /\ cur' = k
  BY <1>1, <1>4, <1>5 DEF Bind
<1>7. Typed'
  BY <1>1, <1>6 DEF SeatsInv, Typed, Binds
<1>8. r.role # Impl
  BY <1>4 DEF Impl, Review
<1>9. OneOpenRun' /\ EndsAreFinal' /\ AuthorsAreRuns' /\ ImplementersHaveVendors' /\ DeathsAreMarked'
  <2>1. UNCHANGED <<authors, policy, crashes, doubt>> /\ pc \notin {"park", "flag"}
    BY <1>1
  <2>2. \A m \in DOMAIN runs : runs[m].lane = r.lane => runs[m].processed
    BY <1>2, <1>4
  <2> QED BY <1>4, <1>6, <1>8, <2>1, <2>2, BindsKeep
<1>10. TickIsThere'
  BY <1>1, <1>4, <1>6 DEF TickIsThere, Binds
<1>11. PICK last \in DOMAIN authors[cur] :
         /\ last = Len(authors[cur]) /\ authors[cur][last] \in DOMAIN runs
         /\ runs[authors[cur][last]].lane = cur /\ runs[authors[cur][last]].role = Impl
         /\ \A i \in DOMAIN authors[cur] : i <= last /\ authors[cur][i] \in DOMAIN runs
  <2>1. authors[cur] \in Seq(Nat)
    BY <1>2 DEF SeatsInv, Typed
  <2>2. /\ Len(authors[cur]) \in DOMAIN authors[cur]
        /\ \A i \in DOMAIN authors[cur] : i <= Len(authors[cur])
    BY <1>2, <2>1
  <2>3. \A i \in DOMAIN authors[cur] :
          /\ authors[cur][i] \in DOMAIN runs
          /\ runs[authors[cur][i]].lane = cur /\ runs[authors[cur][i]].role = Impl
    BY <1>2 DEF SeatsInv, AuthorsAreRuns
  <2> QED BY <2>2, <2>3
<1>12. /\ DOMAIN runs' = DOMAIN runs \cup {k} /\ k \notin DOMAIN runs
       /\ \A m \in DOMAIN runs : m \in Nat /\ m < k /\ runs'[m] = runs[m]
       /\ runs'[k] = r
  BY <1>6 DEF Binds
<1>13. ReviewsJudge'
  <2> SUFFICES ASSUME NEW m \in DOMAIN runs', runs'[m].role = Review
               PROVE  \E i \in DOMAIN authors[runs'[m].lane] : authors[runs'[m].lane][i] < m
    BY <1>1 DEF ReviewsJudge
  <2>1. CASE m = k
    BY <1>4, <1>11, <1>12, <2>1
  <2>2. CASE m \in DOMAIN runs
    BY <1>12, <2>2 DEF SeatsInv, ReviewsJudge
  <2> QED BY <1>12, <2>1, <2>2
<1>14. {i \in DOMAIN authors[cur] : authors[cur][i] < k} = DOMAIN authors[cur]
  BY <1>11, <1>12
<1>15. Newest(DOMAIN authors[cur]) = last
  <2>1. DOMAIN authors[cur] \in SUBSET Nat
    BY <1>2 DEF SeatsInv, Typed
  <2> QED BY <1>11, <2>1, NewestIsOne
<1>16. ASSUME {Impl, Review} \in policy.pairs, runs[authors[cur][last]].known
       PROVE  Family(r.kind) # Family(runs[authors[cur][last]].kind)
  <2> DEFINE on == {n \in RunsOf(cur) : runs[n].role = Impl /\ runs[n].known}
             a == authors[cur][last]
  <2>1. a \in on
    BY <1>11, <1>16 DEF RunsOf
  <2>2. \A i \in on : i <= a
    BY <1>2, <1>11 DEF RunsOf
  <2>3. on \in SUBSET Nat
    BY <1>12 DEF RunsOf
  <2>4. Newest(on) = a
    <3> HIDE DEF on, a
    <3> QED BY <2>1, <2>2, <2>3, NewestIsOne
  <2>5. Implementer(cur) = runs[a].kind
    BY <2>1, <2>4 DEF Implementer
  <2>6. Family(runs[a].kind) # ""
    BY <1>11 DEF SeatsInv, ImplementersHaveVendors
  <2>7. {Review, Impl} \in policy.pairs
    <3>1. {Review, Impl} = {Impl, Review}
      OBVIOUS
    <3> QED BY <1>16, <3>1
  <2> HIDE DEF on, a
  <2>8. ~(Family(s.kind) # "" /\ Family(s.kind) = Family(runs[a].kind))
    BY <1>1, <2>5, <2>7 DEF CheckPairing
  <2>9. r.kind = s.kind
    BY <1>4
  <2> QED BY <2>6, <2>8, <2>9 DEF a
<1>17. ReviewerIsAnother'
  <2> SUFFICES ASSUME NEW m \in DOMAIN runs'
               PROVE  LET l == runs'[m].lane
                          judged == {i \in DOMAIN authors'[l] : authors'[l][i] < m}
                          author == runs'[authors'[l][Newest(judged)]]
                      IN  (runs'[m].role = Review /\ {Impl, Review} \in policy'.pairs /\ author.known)
                          => Family(runs'[m].kind) # Family(author.kind)
    BY DEF ReviewerIsAnother
  <2>1. CASE m = k
    <3>1. runs'[m].lane = cur /\ runs'[m].kind = r.kind /\ authors'[cur] = authors[cur]
      BY <1>1, <1>4, <1>12, <2>1
    <3>2. runs'[authors[cur][last]] = runs[authors[cur][last]]
      BY <1>11, <1>12
    <3> QED BY <1>1, <1>14, <1>15, <1>16, <2>1, <3>1, <3>2
  <2>2. CASE m \in DOMAIN runs
    BY <1>1, <1>6, <2>2, BindsKeepReviews
  <2> QED BY <1>12, <2>1, <2>2
<1>18. DirtyDeathBarsTheChain'
  <2> SUFFICES ASSUME crashes = 0, NEW m \in DOMAIN runs', NEW i \in DOMAIN runs',
                      runs'[i].lane = runs'[m].lane, i < m,
                      runs'[m].role = Impl, runs'[m].from = "chain"
               PROVE  ~runs'[i].dirty
    BY <1>1 DEF DirtyDeathBarsTheChain, RunsOf
  <2>1. m \in DOMAIN runs
    BY <1>4, <1>8, <1>12
  <2>2. CASE i = k
    BY <1>4, <1>12, <2>2
  <2>3. CASE i \in DOMAIN runs
    BY <1>12, <2>1, <2>3 DEF SeatsInv, DirtyDeathBarsTheChain, RunsOf
  <2> QED BY <1>12, <2>2, <2>3
<1> QED BY <1>7, <1>9, <1>10, <1>13, <1>17, <1>18 DEF SeatsInv

LEMMA DispatchKeeps ==
    ASSUME SeatsInv, Dispatch
    PROVE  SeatsInv'
<1>1. Lane \in todo /\ Lane \in Lanes
  <2>1. todo \in SUBSET Nat /\ todo # {}
    BY SeatsAssumption DEF SeatsInv, Typed, Dispatch
  <2>2. \E l \in todo : \A k \in todo : l <= k
    BY <2>1, LeastIsThere
  <2>3. Lane \in todo
    BY <2>2 DEF Lane
  <2> QED BY <2>3 DEF SeatsInv, Typed
<1>2. PICK l \in Lanes : l = Lane
  BY <1>1
<1> DEFINE s == Resolve(Impl, exhausted[l][Impl], l \in doubt)
<1>3. /\ pc = "schedule" /\ pc' = "bound" /\ s.refusal = "" /\ Ready(l)
      /\ Bind(l, Impl, s) /\ todo' = todo \ {l}
      /\ policy' = policy /\ doubt' = doubt /\ authors' = authors /\ crashes' = crashes
  BY <1>2, Zenon DEF Dispatch, SeatOf, Goto, rows
<1>4. /\ s.kind \in DOMAIN Registry /\ s.from \in {"chain", "pin", "default"}
      /\ ~ConstraintsRefuse(s.kind, TRUE) /\ (s.from = "chain" => l \notin doubt)
  <2>1. Impl \in Roles
    BY DEF Roles
  <2> QED BY <1>3, <2>1, SeatsAreAdmitted
<1>5. Family(s.kind) # ""
  BY <1>4, WritersHaveVendors
<1> HIDE DEF s
<1>6. \A n \in DOMAIN runs : runs[n].lane = l => runs[n].processed
  BY <1>3 DEF Ready, RunsOf
<1>7. PICK r : /\ Binds(Len(runs) + 1, r) /\ r.lane = l /\ r.role = Impl
               /\ r.kind = s.kind /\ r.from = s.from
               /\ r.end = "live" /\ ~r.dirty /\ ~r.processed /\ ~r.known
  <2>1. Typed /\ Impl \in Roles
    BY DEF SeatsInv, Roles
  <2>2. PICK t : t = s
    OBVIOUS
  <2>3. t.kind \in DOMAIN Registry /\ t.from \in {"chain", "pin", "default"}
    BY <1>4, <2>2
  <2>4. Bind(l, Impl, t)
    BY <1>3, <2>2
  <2>5. \E r : /\ Binds(Len(runs) + 1, r) /\ r.lane = l /\ r.role = Impl
                /\ r.kind = t.kind /\ r.from = t.from
                /\ r.end = "live" /\ ~r.dirty /\ ~r.processed /\ ~r.known
    BY <2>1, <2>3, <2>4, BindBinds
  <2> QED BY <2>2, <2>5
<1>8. PICK k \in Nat : k = Len(runs) + 1
  BY <1>7 DEF Binds
<1>9. Binds(k, r) /\ cur' = k
  BY <1>3, <1>7, <1>8 DEF Bind
<1>10. /\ DOMAIN runs' = DOMAIN runs \cup {k} /\ k \notin DOMAIN runs
       /\ \A m \in DOMAIN runs : m \in Nat /\ m < k /\ runs'[m] = runs[m]
       /\ runs'[k] = r
  BY <1>9 DEF Binds
<1>11. r.role # Review
  BY <1>7 DEF Impl, Review
<1>12. Typed'
  BY <1>3, <1>9 DEF SeatsInv, Typed, Binds
<1>13. OneOpenRun' /\ EndsAreFinal' /\ AuthorsAreRuns' /\ ImplementersHaveVendors' /\ DeathsAreMarked'
  <2>1. UNCHANGED <<authors, policy, crashes, doubt>> /\ pc \notin {"park", "flag"}
    BY <1>3
  <2>2. \A m \in DOMAIN runs : runs[m].lane = r.lane => runs[m].processed
    BY <1>6, <1>7
  <2>3. Family(r.kind) # ""
    BY <1>5, <1>7
  <2> QED BY <1>7, <1>9, <2>1, <2>2, <2>3, BindsKeep
<1>14. TickIsThere'
  BY <1>3, <1>7, <1>9 DEF TickIsThere, Binds
<1>15. ReviewsJudge'
  <2> SUFFICES ASSUME NEW m \in DOMAIN runs', runs'[m].role = Review
               PROVE  \E i \in DOMAIN authors[runs'[m].lane] : authors[runs'[m].lane][i] < m
    BY <1>3 DEF ReviewsJudge
  <2>1. m \in DOMAIN runs
    BY <1>10, <1>11
  <2> QED BY <1>10, <2>1 DEF SeatsInv, ReviewsJudge
<1>16. ReviewerIsAnother'
  <2> SUFFICES ASSUME NEW m \in DOMAIN runs'
               PROVE  LET d == runs'[m].lane
                          judged == {i \in DOMAIN authors'[d] : authors'[d][i] < m}
                          author == runs'[authors'[d][Newest(judged)]]
                      IN  (runs'[m].role = Review /\ {Impl, Review} \in policy'.pairs /\ author.known)
                          => Family(runs'[m].kind) # Family(author.kind)
    BY DEF ReviewerIsAnother
  <2>1. CASE m = k
    BY <1>10, <1>11, <2>1
  <2>2. CASE m \in DOMAIN runs
    BY <1>3, <1>9, <2>2, BindsKeepReviews
  <2> QED BY <1>10, <2>1, <2>2
<1>17. DirtyDeathBarsTheChain'
  <2> SUFFICES ASSUME crashes = 0, NEW m \in DOMAIN runs', NEW i \in DOMAIN runs',
                      runs'[i].lane = runs'[m].lane, i < m,
                      runs'[m].role = Impl, runs'[m].from = "chain"
               PROVE  ~runs'[i].dirty
    BY <1>3 DEF DirtyDeathBarsTheChain, RunsOf
  <2>1. CASE i = k
    BY <1>7, <1>10, <2>1
  <2>2. CASE i \in DOMAIN runs /\ m = k
    <3>1. l \notin doubt
      BY <1>4, <1>7, <1>10, <2>2
    <3>2. runs[i].lane = l /\ runs[i].processed
      BY <1>6, <1>7, <1>10, <2>2
    <3>3. ~runs[i].dirty
      BY <2>2, <3>1, <3>2 DEF SeatsInv, DeathsAreMarked
    <3> QED BY <1>10, <2>2, <3>3
  <2>3. CASE i \in DOMAIN runs /\ m \in DOMAIN runs
    BY <1>10, <2>3 DEF SeatsInv, DirtyDeathBarsTheChain, RunsOf
  <2> QED BY <1>10, <2>1, <2>2, <2>3
<1> QED BY <1>12, <1>13, <1>14, <1>15, <1>16, <1>17 DEF SeatsInv

-----------------------------------------------------------------------------
(* The invariant, and what it is for.                                        *)

LEMMA SeatsInitHolds == Init => SeatsInv
<1> SUFFICES ASSUME Init PROVE SeatsInv
  OBVIOUS
<1>1. runs = <<>> /\ pc = "idle" /\ authors = [l \in Lanes |-> <<>>]
  BY Zenon DEF Init
<1>2. DOMAIN runs = {} /\ \A l \in Lanes : DOMAIN authors[l] = {}
  BY <1>1
<1>3. Typed
  BY TypesAtInit
<1>4. OneOpenRun /\ EndsAreFinal /\ ImplementersHaveVendors /\ ReviewsJudge /\ DeathsAreMarked
      /\ ReviewerIsAnother /\ DirtyDeathBarsTheChain
  BY <1>2 DEF OneOpenRun, EndsAreFinal, ImplementersHaveVendors, ReviewsJudge, DeathsAreMarked,
              ReviewerIsAnother, DirtyDeathBarsTheChain
<1>5. AuthorsAreRuns
  BY <1>2 DEF AuthorsAreRuns
<1>6. TickIsThere
  BY <1>1 DEF TickIsThere
<1> QED BY <1>3, <1>4, <1>5, <1>6 DEF SeatsInv

LEMMA QuietTypes ==
    ASSUME SeatsInv, QuietStep
    PROVE  Typed'
<1>1. Quiet
  BY QuietSteps DEF SeatsInv
<1>2. todo' \subseteq Lanes /\ cur' \in Nat
  <2>1. todo \subseteq Lanes /\ cur \in Nat
    BY DEF SeatsInv, Typed
  <2>2. CASE Crash
    BY <2>2 DEF Crash
  <2>3. CASE BeginSchedule
    BY <2>1, <2>3 DEF BeginSchedule
  <2>4. CASE RefuseSeat
    <3>1. todo' \subseteq todo /\ cur' = cur
      BY <2>4, Zenon DEF RefuseSeat
    <3> QED BY <2>1, <3>1
  <2>5. CASE PassOver
    <3>1. todo' \subseteq todo /\ cur' = cur
      BY <2>5, Zenon DEF PassOver
    <3> QED BY <2>1, <3>1
  <2>6. CASE \/ BeginTick \/ Exhaust \/ Park \/ EndRecovery
             \/ (\E hit \in BOOLEAN : ReviewerRefused(hit))
             \/ EndTick \/ Answered \/ UNCHANGED vars
    <3>1. todo' = todo /\ cur' = cur
      BY <2>6, Zenon DEF BeginTick, Exhaust, Park, EndRecovery, ReviewerRefused, EndTick,
                         Answered, vars, loop
    <3> QED BY <2>1, <3>1
  <2> QED BY <2>2, <2>3, <2>4, <2>5, <2>6 DEF QuietStep
<1> QED BY <1>1, <1>2 DEF SeatsInv, Typed, Quiet

LEMMA StepKeeps ==
    ASSUME SeatsInv, [Next]_vars
    PROVE  SeatsInv'
<1>1. CASE QuietStep
  BY <1>1, QuietSteps, QuietKeeps, QuietTypes DEF SeatsInv
<1>2. CASE RunEnds
  BY <1>2, RunEndsKeeps
<1>3. ASSUME NEW n \in DOMAIN runs, RecoverClean(n) \/ RecoverAmbiguous(n) PROVE SeatsInv'
  BY <1>3, RecoverKeeps
<1>4. CASE Flag
  BY <1>4, FlagKeeps
<1>5. ASSUME NEW n \in DOMAIN runs, ConsumeFailed(n) PROVE SeatsInv'
  <2>1. /\ Consumable(n) /\ Processed(n) /\ runs[n].end \in {"failed", "invalid"}
        /\ UNCHANGED <<policy, doubt, authors, pc, loop, crashes>>
    BY <1>5 DEF ConsumeFailed
  <2> QED BY <2>1, ConsumeKeeps
<1>6. ASSUME NEW n \in DOMAIN runs, ConsumeAmbiguous(n) PROVE SeatsInv'
  <2>1. /\ Consumable(n) /\ Processed(n) /\ runs[n].end = "ambiguous"
        /\ UNCHANGED <<policy, doubt, authors, pc, loop, crashes>>
    BY <1>6 DEF ConsumeAmbiguous
  <2> QED BY <2>1, ConsumeKeeps
<1>7. ASSUME NEW n \in DOMAIN runs, ConsumeReview(n) PROVE SeatsInv'
  <2>1. /\ Consumable(n) /\ Processed(n) /\ runs[n].end = "ok"
        /\ UNCHANGED <<policy, doubt, authors, pc, loop, crashes>>
    BY <1>7 DEF ConsumeReview
  <2> QED BY <2>1, ConsumeKeeps
<1>8. ASSUME NEW n \in DOMAIN runs, ConsumeImplementation(n) PROVE SeatsInv'
  <2>1. /\ Consumable(n) /\ Processed(n) /\ runs[n].end = "ok" /\ runs[n].role = Impl
        /\ UNCHANGED <<policy, doubt, crashes>>
        /\ \/ /\ authors' = [authors EXCEPT ![runs[n].lane] = Append(@, n)]
              /\ cur' = runs[n].lane /\ Goto("review") /\ UNCHANGED todo
           \/ UNCHANGED <<authors, pc, loop>>
    BY <1>8, Zenon DEF ConsumeImplementation
  <2>2. CASE /\ authors' = [authors EXCEPT ![runs[n].lane] = Append(@, n)]
             /\ cur' = runs[n].lane /\ Goto("review") /\ UNCHANGED todo
    <3>1. UNCHANGED <<policy, doubt, todo, crashes>>
      BY <2>1, <2>2
    <3> QED BY <2>1, <2>2, <3>1, CommitKeeps
  <2>3. CASE UNCHANGED <<authors, pc, loop>>
    <3>1. UNCHANGED <<policy, doubt, authors, pc, loop, crashes>>
      BY <2>1, <2>3
    <3> QED BY <2>1, <3>1, ConsumeKeeps
  <2> QED BY <2>1, <2>2, <2>3
<1>9. CASE RecordReviewer
  BY <1>9, RecordKeeps DEF RecordReviewer
<1>10. CASE RecordRun
  BY <1>10, RecordKeeps DEF RecordRun
<1>11. ASSUME NEW hit \in BOOLEAN, DispatchReviewer(hit) PROVE SeatsInv'
  BY <1>11, ReviewerKeeps
<1>12. CASE Dispatch
  BY <1>12, DispatchKeeps
<1> QED
  BY <1>1, <1>2, <1>3, <1>4, <1>5, <1>6, <1>7, <1>8, <1>9, <1>10, <1>11, <1>12
  DEF Next, QuietStep

\* Whatever is configured, bound, killed or answered, the invariant holds.
THEOREM SeatsInvariant == Spec => []SeatsInv
<1>1. Init => SeatsInv
  BY SeatsInitHolds
<1>2. SeatsInv /\ [Next]_vars => SeatsInv'
  BY StepKeeps
<1> QED BY <1>1, <1>2, PTL DEF Spec

\* A reviewer admitted under a pairing rule never judges a commit of its own family.
THEOREM ReviewerIsAlwaysAnother == Spec => []ReviewerIsAnother
<1>1. SeatsInv => ReviewerIsAnother
  BY DEF SeatsInv
<1> QED BY <1>1, SeatsInvariant, PTL

\* Until a tick dies between a verdict and its mark, a death with changes on disk bars the
\* chain of the lane for good.
THEOREM DirtyDeathAlwaysBarsTheChain == Spec => []DirtyDeathBarsTheChain
<1>1. SeatsInv => DirtyDeathBarsTheChain
  BY DEF SeatsInv
<1> QED BY <1>1, SeatsInvariant, PTL

\* The seat picker promises nothing that dispatch refuses, but for want of an executor.
THEOREM PickerAlwaysAgrees == Spec => []PickerAgrees
BY PickerAgreesAlways, PTL

-----------------------------------------------------------------------------
(* One relay for one request.                                              *)

(* A start that holds a reservation is past Reserve, and still holds it.   *)
Starting(t) == thread[t].op = "start" /\ thread[t].relay # Nobody

Early == {"recall", "reuse", "count", "reserve", "conflict"}

FrameShape ==
  \A t \in Threads :
    /\ thread[t].op = "none" => thread[t].at = "idle"
    /\ thread[t].at = "idle" => thread[t] = Idle
    /\ thread[t].op = "start" => thread[t].request \in Requests
    /\ thread[t].op = "start" => (thread[t].at \in Early <=> thread[t].relay = Nobody)
    /\ thread[t].op \in {"resume", "stop"} =>
         thread[t].relay \in Relays /\ Known(thread[t].relay)
    /\ thread[t].op = "resume" => thread[t].at \in ResumeSteps
    /\ thread[t].op = "stop" => thread[t].at \in StopSteps
    /\ thread[t].at = "wait" <=> thread[t].child # Nobody

Reserving ==
  \A t \in Threads : Starting(t) =>
    /\ thread[t].at \in {"spawn", "wait", "reread", "release"}
    /\ made[thread[t].relay] = thread[t].request
    /\ reserved[thread[t].request] = thread[t].relay

(* Two threads start no relay and wait for no relay process in common.     *)
Apart ==
  \A t, u \in Threads :
    \/ Starting(t) /\ Starting(u) /\ thread[t].relay = thread[u].relay
    \/ thread[t].child # Nobody /\ thread[t].child = thread[u].child
    => t = u

ReservedInv ==
  /\ \A q \in Requests : reserved[q] # Nobody => made[reserved[q]] = q
  /\ \A r \in Relays : Known(r) => made[r] # Nobody

(* A relay process that starts a relay: there is one, of the identity's    *)
(* relay, and the thread that spawned it waits for it or has gone.         *)
ChildShape ==
  \A c \in Children :
    /\ child[c].stage = "gone" => child[c] = Gone
    /\ child[c].stage # "gone" =>
         child[c].relay \in Relays /\ child[c].verb \in {"start", "resume"}
    /\ child[c].verb = "resume" => Known(child[c].relay)
    /\ child[c].verb = "start" =>
         /\ made[child[c].relay] # Nobody
         /\ reserved[made[child[c].relay]] = child[c].relay

OneStarter ==
  \A c, d \in Children :
    /\ child[c].verb = "start" /\ child[d].verb = "start"
    /\ child[c].relay = child[d].relay
    => c = d

Watched ==
  \A t \in Threads :
    /\ \A c \in Children :
         Starting(t) /\ child[c].verb = "start" /\ child[c].relay = thread[t].relay
         => thread[t].at = "wait" /\ thread[t].child = c
    /\ thread[t].at = "wait" =>
         \/ child[thread[t].child] = Gone
         \/ child[thread[t].child].verb = thread[t].op

(* What has been looked for before an identity is given back.              *)
ReleaseInv ==
  \A t \in Threads :
    thread[t].at = "release" =>
      ~Known(thread[t].relay) \/ thread[t].relay \in misread

ServiceInv ==
  /\ TypeOK /\ FrameShape /\ Reserving /\ Apart /\ ReservedInv
  /\ ChildShape /\ OneStarter /\ Watched /\ ReleaseInv
  /\ RequestNamesItsRelay /\ FailedStartFreesItsIdentity

-----------------------------------------------------------------------------
(* The vocabulary every step is written in.                                *)
USE CoreAssumption
    DEF Starting, Known, At, MoveTo, Answer, ledger, Idle, Gone, Early, Ops,
        StartSteps, ResumeSteps, StopSteps, RowStates, Stages, Serving

Steps == StartSteps \cup ResumeSteps \cup StopSteps
Frames == [op : Ops \cup {"none"}, at : {"idle"} \cup StartSteps \cup ResumeSteps \cup StopSteps,
           request : Requests \cup {Nobody}, relay : Relays \cup {Nobody},
           child : Children \cup {Nobody}, seen : RowStates]

\* A thread that goes to another step, or answers, stays a thread.
LEMMA ThreadsStayTyped ==
  ASSUME TypeOK, NEW t \in Threads, NEW step \in Steps,
         \/ thread' = [thread EXCEPT ![t].at = step]
         \/ thread' = [thread EXCEPT ![t].at = step, ![t].child = Nobody]
         \/ thread' = [thread EXCEPT ![t] = Idle]
  PROVE  thread' \in [Threads -> Frames]
<1>1. thread \in [Threads -> Frames]
  BY DEF TypeOK, Frames
<1>2. PICK f \in Frames : f = thread[t]
  BY <1>1
<1>3. [f EXCEPT !.at = step] \in Frames
  BY DEF Frames, Steps
<1>4. [f EXCEPT !.at = step, !.child = Nobody] \in Frames
  BY DEF Frames, Steps
<1>5. Idle \in Frames
  BY DEF Frames
<1>6. PICK g \in Frames : thread' = [thread EXCEPT ![t] = g]
  BY <1>1, <1>2, <1>3, <1>4, <1>5
<1> QED BY <1>1, <1>6

LEMMA ServiceInitHolds == ServiceInit => ServiceInv
<1>1. ServiceInit => TypeOK
  <2> SUFFICES ASSUME ServiceInit PROVE TypeOK
    OBVIOUS
  <2>1. Idle \in [op : Ops \cup {"none"},
                  at : {"idle"} \cup StartSteps \cup ResumeSteps \cup StopSteps,
                  request : Requests \cup {Nobody}, relay : Relays \cup {Nobody},
                  child : Children \cup {Nobody}, seen : RowStates]
    OBVIOUS
  <2>2. Gone \in [stage : Stages, verb : {"none", "start", "resume"},
                  relay : Relays \cup {Nobody}]
    OBVIOUS
  <2>3. core \in {"down", "up", "leaving"} /\ deaths \in 0..MaxDeaths
    BY DEF ServiceInit
  <2>4. quiet \in BOOLEAN
    BY DEF ServiceInit
  <2> HIDE DEF Idle, Gone
  <2> QED
    BY <2>1, <2>2, <2>3, <2>4 DEF ServiceInit, TypeOK
<1>2. ServiceInit => FrameShape
  BY DEF ServiceInit, TypeOK, FrameShape
<1>3. ServiceInit => Reserving
  BY DEF ServiceInit, TypeOK, FrameShape, Reserving, Apart, ReservedInv
<1>4. ServiceInit => Apart
  BY DEF ServiceInit, TypeOK, FrameShape, Apart, Reserving, ReservedInv
<1>5. ServiceInit => ReservedInv
  BY DEF ServiceInit, TypeOK, ReservedInv, FrameShape, ChildShape
<1>6. ServiceInit => ChildShape
  BY DEF ServiceInit, TypeOK, FrameShape, Reserving, ChildShape, ReservedInv, Watched
<1>7. ServiceInit => OneStarter
  BY DEF ServiceInit, TypeOK, FrameShape, ChildShape, OneStarter, Watched
<1>8. ServiceInit => Watched
  BY DEF ServiceInit, TypeOK, FrameShape, ChildShape, Watched, Apart, Reserving, ReservedInv
<1>9. ServiceInit => ReleaseInv
  BY DEF ServiceInit, TypeOK, FrameShape, ChildShape, Watched, ReleaseInv
<1>10. ServiceInit => RequestNamesItsRelay
  BY DEF ServiceInit, TypeOK, FrameShape, Reserving, ReservedInv, ChildShape, ReleaseInv, RequestNamesItsRelay
<1>11. ServiceInit => FailedStartFreesItsIdentity
  BY DEF ServiceInit, TypeOK, FrameShape, Reserving, ReservedInv, FailedStartFreesItsIdentity
<1> QED
  BY <1>1, <1>2, <1>3, <1>4, <1>5, <1>6, <1>7, <1>8, <1>9, <1>10, <1>11 DEF ServiceInv

-----------------------------------------------------------------------------
(* A request arrives                                                       *)

LEMMA RefuseKeeps ==
  ASSUME ServiceInv, Refuse
  PROVE  ServiceInv'
<1>1. TypeOK' /\ FrameShape'
  BY DEF ServiceInv, Refuse,
         TypeOK, FrameShape, ChildShape
<1>2. Reserving' /\ Apart' /\ ReservedInv'
  BY DEF ServiceInv, Refuse,
         TypeOK, FrameShape, Reserving, Apart, ReservedInv, ChildShape
<1>3. ChildShape' /\ OneStarter' /\ Watched'
  BY DEF ServiceInv, Refuse,
         TypeOK, FrameShape, Reserving, Apart, ReservedInv, ChildShape,
         OneStarter, Watched
<1>4. ReleaseInv' /\ RequestNamesItsRelay' /\ FailedStartFreesItsIdentity'
  BY DEF ServiceInv, Refuse,
         TypeOK, FrameShape, Reserving, ReservedInv, ChildShape, Watched,
         ReleaseInv, RequestNamesItsRelay, FailedStartFreesItsIdentity
<1> QED
  BY <1>1, <1>2, <1>3, <1>4 DEF ServiceInv

LEMMA ReceiveStartKeeps ==
  ASSUME ServiceInv, NEW t \in Threads, NEW q \in Requests, ReceiveStart(t, q)
  PROVE  ServiceInv'
<1>1. TypeOK' /\ FrameShape'
  BY DEF ServiceInv, ReceiveStart,
         TypeOK, FrameShape, ChildShape
<1>2. Reserving' /\ Apart' /\ ReservedInv'
  BY DEF ServiceInv, ReceiveStart,
         TypeOK, FrameShape, Reserving, Apart, ReservedInv, ChildShape
<1>3. ChildShape' /\ OneStarter' /\ Watched'
  BY DEF ServiceInv, ReceiveStart,
         TypeOK, FrameShape, Reserving, Apart, ReservedInv, ChildShape,
         OneStarter, Watched
<1>4. ReleaseInv' /\ RequestNamesItsRelay' /\ FailedStartFreesItsIdentity'
  BY DEF ServiceInv, ReceiveStart,
         TypeOK, FrameShape, Reserving, ReservedInv, ChildShape, Watched,
         ReleaseInv, RequestNamesItsRelay, FailedStartFreesItsIdentity
<1> QED
  BY <1>1, <1>2, <1>3, <1>4 DEF ServiceInv

LEMMA ReceiveNamedKeeps ==
  ASSUME ServiceInv, NEW t \in Threads, NEW op \in {"resume", "stop"}, NEW r \in Relays, ReceiveNamed(t, op, r)
  PROVE  ServiceInv'
<1>1. TypeOK' /\ FrameShape'
  BY DEF ServiceInv, ReceiveNamed,
         TypeOK, FrameShape, ChildShape
<1>2. Reserving' /\ Apart' /\ ReservedInv'
  BY DEF ServiceInv, ReceiveNamed,
         TypeOK, FrameShape, Reserving, Apart, ReservedInv, ChildShape
<1>3. ChildShape' /\ OneStarter' /\ Watched'
  BY DEF ServiceInv, ReceiveNamed,
         TypeOK, FrameShape, Reserving, Apart, ReservedInv, ChildShape,
         OneStarter, Watched
<1>4. ReleaseInv' /\ RequestNamesItsRelay' /\ FailedStartFreesItsIdentity'
  BY DEF ServiceInv, ReceiveNamed,
         TypeOK, FrameShape, Reserving, ReservedInv, ChildShape, Watched,
         ReleaseInv, RequestNamesItsRelay, FailedStartFreesItsIdentity
<1> QED
  BY <1>1, <1>2, <1>3, <1>4 DEF ServiceInv

-----------------------------------------------------------------------------
(* relay.start                                                             *)

LEMMA RecallKeeps ==
  ASSUME ServiceInv, NEW t \in Threads, Recall(t)
  PROVE  ServiceInv'
<1>1. TypeOK' /\ FrameShape'
  BY DEF ServiceInv, Recall,
         TypeOK, FrameShape, ChildShape
<1>2. Reserving' /\ Apart' /\ ReservedInv'
  BY DEF ServiceInv, Recall,
         TypeOK, FrameShape, Reserving, Apart, ReservedInv, ChildShape
<1>3. ChildShape' /\ OneStarter' /\ Watched'
  BY DEF ServiceInv, Recall,
         TypeOK, FrameShape, Reserving, Apart, ReservedInv, ChildShape,
         OneStarter, Watched
<1>4. ReleaseInv' /\ RequestNamesItsRelay' /\ FailedStartFreesItsIdentity'
  BY DEF ServiceInv, Recall,
         TypeOK, FrameShape, Reserving, ReservedInv, ChildShape, Watched,
         ReleaseInv, RequestNamesItsRelay, FailedStartFreesItsIdentity
<1> QED
  BY <1>1, <1>2, <1>3, <1>4 DEF ServiceInv

LEMMA ReuseKeeps ==
  ASSUME ServiceInv, NEW t \in Threads, Reuse(t)
  PROVE  ServiceInv'
<1>1. TypeOK' /\ FrameShape'
  BY DEF ServiceInv, Reuse,
         TypeOK, FrameShape, ChildShape
<1>2. Reserving' /\ Apart' /\ ReservedInv'
  BY DEF ServiceInv, Reuse,
         TypeOK, FrameShape, Reserving, Apart, ReservedInv, ChildShape
<1>3. ChildShape' /\ OneStarter' /\ Watched'
  BY DEF ServiceInv, Reuse,
         TypeOK, FrameShape, Reserving, Apart, ReservedInv, ChildShape,
         OneStarter, Watched
<1>4. ReleaseInv' /\ RequestNamesItsRelay' /\ FailedStartFreesItsIdentity'
  BY DEF ServiceInv, Reuse,
         TypeOK, FrameShape, Reserving, ReservedInv, ChildShape, Watched,
         ReleaseInv, RequestNamesItsRelay, FailedStartFreesItsIdentity
<1> QED
  BY <1>1, <1>2, <1>3, <1>4 DEF ServiceInv

LEMMA UnreadableKeeps ==
  ASSUME ServiceInv, NEW t \in Threads, Unreadable(t)
  PROVE  ServiceInv'
<1>1. TypeOK' /\ FrameShape'
  BY DEF ServiceInv, Unreadable,
         TypeOK, FrameShape, ChildShape
<1>2. Reserving' /\ Apart' /\ ReservedInv'
  BY DEF ServiceInv, Unreadable,
         TypeOK, FrameShape, Reserving, Apart, ReservedInv, ChildShape
<1>3. ChildShape' /\ OneStarter' /\ Watched'
  BY DEF ServiceInv, Unreadable,
         TypeOK, FrameShape, Reserving, Apart, ReservedInv, ChildShape,
         OneStarter, Watched
<1>4. ReleaseInv' /\ RequestNamesItsRelay' /\ FailedStartFreesItsIdentity'
  BY DEF ServiceInv, Unreadable,
         TypeOK, FrameShape, Reserving, ReservedInv, ChildShape, Watched,
         ReleaseInv, RequestNamesItsRelay, FailedStartFreesItsIdentity
<1> QED
  BY <1>1, <1>2, <1>3, <1>4 DEF ServiceInv

LEMMA TooManyKeeps ==
  ASSUME ServiceInv, NEW t \in Threads, TooMany(t)
  PROVE  ServiceInv'
<1>1. TypeOK' /\ FrameShape'
  BY DEF ServiceInv, TooMany,
         TypeOK, FrameShape, ChildShape
<1>2. Reserving' /\ Apart' /\ ReservedInv'
  BY DEF ServiceInv, TooMany,
         TypeOK, FrameShape, Reserving, Apart, ReservedInv, ChildShape
<1>3. ChildShape' /\ OneStarter' /\ Watched'
  BY DEF ServiceInv, TooMany,
         TypeOK, FrameShape, Reserving, Apart, ReservedInv, ChildShape,
         OneStarter, Watched
<1>4. ReleaseInv' /\ RequestNamesItsRelay' /\ FailedStartFreesItsIdentity'
  BY DEF ServiceInv, TooMany,
         TypeOK, FrameShape, Reserving, ReservedInv, ChildShape, Watched,
         ReleaseInv, RequestNamesItsRelay, FailedStartFreesItsIdentity
<1> QED
  BY <1>1, <1>2, <1>3, <1>4 DEF ServiceInv

LEMMA CountKeeps ==
  ASSUME ServiceInv, NEW t \in Threads, Count(t)
  PROVE  ServiceInv'
<1>1. TypeOK' /\ FrameShape'
  BY DEF ServiceInv, Count,
         TypeOK, FrameShape, ChildShape
<1>2. Reserving' /\ Apart' /\ ReservedInv'
  BY DEF ServiceInv, Count,
         TypeOK, FrameShape, Reserving, Apart, ReservedInv, ChildShape
<1>3. ChildShape' /\ OneStarter' /\ Watched'
  BY DEF ServiceInv, Count,
         TypeOK, FrameShape, Reserving, Apart, ReservedInv, ChildShape,
         OneStarter, Watched
<1>4. ReleaseInv' /\ RequestNamesItsRelay' /\ FailedStartFreesItsIdentity'
  BY DEF ServiceInv, Count,
         TypeOK, FrameShape, Reserving, ReservedInv, ChildShape, Watched,
         ReleaseInv, RequestNamesItsRelay, FailedStartFreesItsIdentity
<1> QED
  BY <1>1, <1>2, <1>3, <1>4 DEF ServiceInv

LEMMA ReserveKeeps ==
  ASSUME ServiceInv, NEW t \in Threads, NEW r \in Relays, Reserve(t, r)
  PROVE  ServiceInv'
<1>1. TypeOK' /\ FrameShape'
  BY DEF ServiceInv, Reserve,
         TypeOK, FrameShape, ChildShape
<1>2. Reserving' /\ Apart' /\ ReservedInv'
  BY DEF ServiceInv, Reserve,
         TypeOK, FrameShape, Reserving, Apart, ReservedInv, ChildShape
<1>3. ChildShape' /\ OneStarter' /\ Watched'
  BY DEF ServiceInv, Reserve,
         TypeOK, FrameShape, Reserving, Apart, ReservedInv, ChildShape,
         OneStarter, Watched
<1>4. ReleaseInv' /\ RequestNamesItsRelay' /\ FailedStartFreesItsIdentity'
  BY DEF ServiceInv, Reserve,
         TypeOK, FrameShape, Reserving, ReservedInv, ChildShape, Watched,
         ReleaseInv, RequestNamesItsRelay, FailedStartFreesItsIdentity
<1> QED
  BY <1>1, <1>2, <1>3, <1>4 DEF ServiceInv

LEMMA ReserveRefusedKeeps ==
  ASSUME ServiceInv, NEW t \in Threads, ReserveRefused(t)
  PROVE  ServiceInv'
<1>1. TypeOK' /\ FrameShape'
  BY DEF ServiceInv, ReserveRefused,
         TypeOK, FrameShape, ChildShape
<1>2. Reserving' /\ Apart' /\ ReservedInv'
  BY DEF ServiceInv, ReserveRefused,
         TypeOK, FrameShape, Reserving, Apart, ReservedInv, ChildShape
<1>3. ChildShape' /\ OneStarter' /\ Watched'
  BY DEF ServiceInv, ReserveRefused,
         TypeOK, FrameShape, Reserving, Apart, ReservedInv, ChildShape,
         OneStarter, Watched
<1>4. ReleaseInv' /\ RequestNamesItsRelay' /\ FailedStartFreesItsIdentity'
  BY DEF ServiceInv, ReserveRefused,
         TypeOK, FrameShape, Reserving, ReservedInv, ChildShape, Watched,
         ReleaseInv, RequestNamesItsRelay, FailedStartFreesItsIdentity
<1> QED
  BY <1>1, <1>2, <1>3, <1>4 DEF ServiceInv

LEMMA NotRecordableKeeps ==
  ASSUME ServiceInv, NEW t \in Threads, NotRecordable(t)
  PROVE  ServiceInv'
<1>1. TypeOK' /\ FrameShape'
  BY DEF ServiceInv, NotRecordable,
         TypeOK, FrameShape, ChildShape
<1>2. Reserving' /\ Apart' /\ ReservedInv'
  BY DEF ServiceInv, NotRecordable,
         TypeOK, FrameShape, Reserving, Apart, ReservedInv, ChildShape
<1>3. ChildShape' /\ OneStarter' /\ Watched'
  BY DEF ServiceInv, NotRecordable,
         TypeOK, FrameShape, Reserving, Apart, ReservedInv, ChildShape,
         OneStarter, Watched
<1>4. ReleaseInv' /\ RequestNamesItsRelay' /\ FailedStartFreesItsIdentity'
  BY DEF ServiceInv, NotRecordable,
         TypeOK, FrameShape, Reserving, ReservedInv, ChildShape, Watched,
         ReleaseInv, RequestNamesItsRelay, FailedStartFreesItsIdentity
<1> QED
  BY <1>1, <1>2, <1>3, <1>4 DEF ServiceInv

LEMMA ConflictKeeps ==
  ASSUME ServiceInv, NEW t \in Threads, Conflict(t)
  PROVE  ServiceInv'
<1>1. CASE reserved[thread[t].request] = Nobody
  <2>1. TypeOK'
    <3>1. thread' \in [Threads -> Frames]
      <4>1. "reuse" \in Steps
        BY DEF Steps
      <4> QED BY <1>1, <4>1, ThreadsStayTyped DEF ServiceInv, Conflict
    <3> QED BY <3>1 DEF ServiceInv, Conflict, TypeOK, Frames
  <2>2. FrameShape'
    BY <1>1 DEF ServiceInv, Conflict,
         TypeOK, FrameShape
  <2>3. Reserving'
    BY <1>1 DEF ServiceInv, Conflict,
         TypeOK, FrameShape, Reserving, Apart, ReservedInv
  <2>4. Apart'
    BY <1>1 DEF ServiceInv, Conflict,
         TypeOK, FrameShape, Apart, Reserving, ReservedInv
  <2>5. ReservedInv'
    BY <1>1 DEF ServiceInv, Conflict,
         TypeOK, ReservedInv, FrameShape, ChildShape
  <2>6. ChildShape'
    BY <1>1 DEF ServiceInv, Conflict,
         TypeOK, FrameShape, Reserving, ChildShape, ReservedInv, Watched
  <2>7. OneStarter'
    BY <1>1 DEF ServiceInv, Conflict,
         TypeOK, FrameShape, ChildShape, OneStarter, Watched
  <2>8. Watched'
    BY <1>1 DEF ServiceInv, Conflict, TypeOK, Watched
  <2>9. ReleaseInv'
    BY <1>1 DEF ServiceInv, Conflict,
         TypeOK, FrameShape, ChildShape, Watched, ReleaseInv
  <2>10. RequestNamesItsRelay'
    BY <1>1 DEF ServiceInv, Conflict,
         TypeOK, FrameShape, Reserving, ReservedInv, ChildShape, ReleaseInv, RequestNamesItsRelay
  <2>11. FailedStartFreesItsIdentity'
    BY <1>1 DEF ServiceInv, Conflict,
         TypeOK, FrameShape, Reserving, ReservedInv, FailedStartFreesItsIdentity
  <2> QED
    BY <2>1, <2>2, <2>3, <2>4, <2>5, <2>6,
       <2>7, <2>8, <2>9, <2>10, <2>11 DEF ServiceInv
<1>2. CASE reserved[thread[t].request] # Nobody
  <2>1. TypeOK'
    <3>1. thread' \in [Threads -> Frames]
      <4>1. "reuse" \in Steps
        BY DEF Steps
      <4> QED BY <1>2, <4>1, ThreadsStayTyped DEF ServiceInv, Conflict
    <3> QED BY <3>1 DEF ServiceInv, Conflict, TypeOK, Frames
  <2>2. FrameShape'
    BY <1>2 DEF ServiceInv, Conflict,
         TypeOK, FrameShape
  <2>3. Reserving'
    BY <1>2 DEF ServiceInv, Conflict,
         TypeOK, FrameShape, Reserving, Apart, ReservedInv
  <2>4. Apart'
    BY <1>2 DEF ServiceInv, Conflict,
         TypeOK, FrameShape, Apart, Reserving, ReservedInv
  <2>5. ReservedInv'
    BY <1>2 DEF ServiceInv, Conflict,
         TypeOK, ReservedInv, FrameShape, ChildShape
  <2>6. ChildShape'
    BY <1>2 DEF ServiceInv, Conflict,
         TypeOK, FrameShape, Reserving, ChildShape, ReservedInv, Watched
  <2>7. OneStarter'
    BY <1>2 DEF ServiceInv, Conflict,
         TypeOK, FrameShape, ChildShape, OneStarter, Watched
  <2>8. Watched'
    BY <1>2 DEF ServiceInv, Conflict,
         TypeOK, FrameShape, ChildShape, Watched, Apart, Reserving, ReservedInv
  <2>9. ReleaseInv'
    BY <1>2 DEF ServiceInv, Conflict,
         TypeOK, FrameShape, ChildShape, Watched, ReleaseInv
  <2>10. RequestNamesItsRelay'
    BY <1>2 DEF ServiceInv, Conflict,
         TypeOK, FrameShape, Reserving, ReservedInv, ChildShape, ReleaseInv, RequestNamesItsRelay
  <2>11. FailedStartFreesItsIdentity'
    BY <1>2 DEF ServiceInv, Conflict,
         TypeOK, FrameShape, Reserving, ReservedInv, FailedStartFreesItsIdentity
  <2> QED
    BY <2>1, <2>2, <2>3, <2>4, <2>5, <2>6,
       <2>7, <2>8, <2>9, <2>10, <2>11 DEF ServiceInv
<1> QED
  BY <1>1, <1>2

-----------------------------------------------------------------------------
(* spawn                                                                   *)

LEMMA SpawnKeeps ==
  ASSUME ServiceInv, NEW t \in Threads, NEW c \in Children, Spawn(t, c)
  PROVE  ServiceInv'
<1>1. TypeOK' /\ FrameShape'
  BY DEF ServiceInv, Spawn, Free,
         TypeOK, FrameShape, ChildShape
<1>2. Reserving' /\ Apart' /\ ReservedInv'
  BY DEF ServiceInv, Spawn, Free,
         TypeOK, FrameShape, Reserving, Apart, ReservedInv, ChildShape
<1>3. ChildShape' /\ OneStarter' /\ Watched'
  BY DEF ServiceInv, Spawn, Free,
         TypeOK, FrameShape, Reserving, Apart, ReservedInv, ChildShape,
         OneStarter, Watched
<1>4. ReleaseInv' /\ RequestNamesItsRelay' /\ FailedStartFreesItsIdentity'
  BY DEF ServiceInv, Spawn, Free,
         TypeOK, FrameShape, Reserving, ReservedInv, ChildShape, Watched,
         ReleaseInv, RequestNamesItsRelay, FailedStartFreesItsIdentity
<1> QED
  BY <1>1, <1>2, <1>3, <1>4 DEF ServiceInv

LEMMA SpawnFailsKeeps ==
  ASSUME ServiceInv, NEW t \in Threads, SpawnFails(t)
  PROVE  ServiceInv'
<1>1. CASE thread[t].op = "start"
  <2>1. TypeOK'
    <3>1. thread' \in [Threads -> Frames]
      <4>1. "reread" \in Steps
        BY DEF Steps
      <4> QED BY <1>1, <4>1, ThreadsStayTyped DEF ServiceInv, SpawnFails, AfterFailure
    <3> QED BY <3>1 DEF ServiceInv, SpawnFails, TypeOK, Frames
  <2>2. FrameShape'
    BY <1>1 DEF ServiceInv, SpawnFails, AfterFailure,
         TypeOK, FrameShape
  <2>3. Reserving'
    BY <1>1 DEF ServiceInv, SpawnFails, AfterFailure,
         TypeOK, FrameShape, Reserving, Apart, ReservedInv
  <2>4. Apart'
    BY <1>1 DEF ServiceInv, SpawnFails, AfterFailure,
         TypeOK, FrameShape, Apart, Reserving, ReservedInv
  <2>5. ReservedInv'
    BY <1>1 DEF ServiceInv, SpawnFails, AfterFailure,
         TypeOK, ReservedInv, FrameShape, ChildShape
  <2>6. ChildShape'
    BY <1>1 DEF ServiceInv, SpawnFails, AfterFailure,
         TypeOK, FrameShape, Reserving, ChildShape, ReservedInv, Watched
  <2>7. OneStarter'
    BY <1>1 DEF ServiceInv, SpawnFails, AfterFailure,
         TypeOK, FrameShape, ChildShape, OneStarter, Watched
  <2>8. Watched'
    BY <1>1 DEF ServiceInv, SpawnFails, AfterFailure,
         TypeOK, FrameShape, ChildShape, Watched, Apart, Reserving, ReservedInv
  <2>9. ReleaseInv'
    BY <1>1 DEF ServiceInv, SpawnFails, AfterFailure,
         TypeOK, FrameShape, ChildShape, Watched, ReleaseInv
  <2>10. RequestNamesItsRelay'
    BY <1>1 DEF ServiceInv, SpawnFails, AfterFailure,
         TypeOK, FrameShape, Reserving, ReservedInv, ChildShape, ReleaseInv, RequestNamesItsRelay
  <2>11. FailedStartFreesItsIdentity'
    BY <1>1 DEF ServiceInv, SpawnFails, AfterFailure,
         TypeOK, FrameShape, Reserving, ReservedInv, FailedStartFreesItsIdentity
  <2> QED
    BY <2>1, <2>2, <2>3, <2>4, <2>5, <2>6,
       <2>7, <2>8, <2>9, <2>10, <2>11 DEF ServiceInv
<1>2. CASE thread[t].op # "start"
  <2>1. TypeOK'
    <3>1. thread' \in [Threads -> Frames]
      <4>1. "reread" \in Steps
        BY DEF Steps
      <4> QED BY <1>2, <4>1, ThreadsStayTyped DEF ServiceInv, SpawnFails, AfterFailure
    <3> QED BY <3>1 DEF ServiceInv, SpawnFails, TypeOK, Frames
  <2>2. FrameShape'
    BY <1>2 DEF ServiceInv, SpawnFails, AfterFailure,
         TypeOK, FrameShape
  <2>3. Reserving'
    BY <1>2 DEF ServiceInv, SpawnFails, AfterFailure,
         TypeOK, FrameShape, Reserving, Apart, ReservedInv
  <2>4. Apart'
    BY <1>2 DEF ServiceInv, SpawnFails, AfterFailure,
         TypeOK, FrameShape, Apart, Reserving, ReservedInv
  <2>5. ReservedInv'
    BY <1>2 DEF ServiceInv, SpawnFails, AfterFailure,
         TypeOK, ReservedInv, FrameShape, ChildShape
  <2>6. ChildShape'
    BY <1>2 DEF ServiceInv, SpawnFails, AfterFailure,
         TypeOK, FrameShape, Reserving, ChildShape, ReservedInv, Watched
  <2>7. OneStarter'
    BY <1>2 DEF ServiceInv, SpawnFails, AfterFailure,
         TypeOK, FrameShape, ChildShape, OneStarter, Watched
  <2>8. Watched'
    BY <1>2 DEF ServiceInv, SpawnFails, AfterFailure,
         TypeOK, FrameShape, ChildShape, Watched, Apart, Reserving, ReservedInv
  <2>9. ReleaseInv'
    BY <1>2 DEF ServiceInv, SpawnFails, AfterFailure,
         TypeOK, FrameShape, ChildShape, Watched, ReleaseInv
  <2>10. RequestNamesItsRelay'
    BY <1>2 DEF ServiceInv, SpawnFails, AfterFailure,
         TypeOK, FrameShape, Reserving, ReservedInv, ChildShape, ReleaseInv, RequestNamesItsRelay
  <2>11. FailedStartFreesItsIdentity'
    BY <1>2 DEF ServiceInv, SpawnFails, AfterFailure,
         TypeOK, FrameShape, Reserving, ReservedInv, FailedStartFreesItsIdentity
  <2> QED
    BY <2>1, <2>2, <2>3, <2>4, <2>5, <2>6,
       <2>7, <2>8, <2>9, <2>10, <2>11 DEF ServiceInv
<1> QED
  BY <1>1, <1>2

LEMMA SucceedsKeeps ==
  ASSUME ServiceInv, NEW t \in Threads, Succeeds(t)
  PROVE  ServiceInv'
<1>1. TypeOK' /\ FrameShape'
  BY DEF ServiceInv, Succeeds, Promised,
         TypeOK, FrameShape, ChildShape
<1>2. Reserving' /\ Apart' /\ ReservedInv'
  BY DEF ServiceInv, Succeeds, Promised,
         TypeOK, FrameShape, Reserving, Apart, ReservedInv, ChildShape
<1>3. ChildShape' /\ OneStarter' /\ Watched'
  BY DEF ServiceInv, Succeeds, Promised,
         TypeOK, FrameShape, Reserving, Apart, ReservedInv, ChildShape,
         OneStarter, Watched
<1>4. ReleaseInv' /\ RequestNamesItsRelay' /\ FailedStartFreesItsIdentity'
  BY DEF ServiceInv, Succeeds, Promised,
         TypeOK, FrameShape, Reserving, ReservedInv, ChildShape, Watched,
         ReleaseInv, RequestNamesItsRelay, FailedStartFreesItsIdentity
<1> QED
  BY <1>1, <1>2, <1>3, <1>4 DEF ServiceInv

LEMMA SeesExitKeeps ==
  ASSUME ServiceInv, NEW t \in Threads, SeesExit(t)
  PROVE  ServiceInv'
<1>1. CASE thread[t].op = "start"
  <2>1. TypeOK'
    <3>1. thread' \in [Threads -> Frames]
      <4>1. "reread" \in Steps
        BY DEF Steps
      <4> QED BY <1>1, <4>1, ThreadsStayTyped DEF ServiceInv, SeesExit, AfterFailure
    <3> QED BY <3>1 DEF ServiceInv, SeesExit, TypeOK, Frames
  <2>2. FrameShape'
    BY <1>1 DEF ServiceInv, SeesExit, AfterFailure,
         TypeOK, FrameShape
  <2>3. Reserving'
    BY <1>1 DEF ServiceInv, SeesExit, AfterFailure,
         TypeOK, FrameShape, Reserving, Apart, ReservedInv
  <2>4. Apart'
    BY <1>1 DEF ServiceInv, SeesExit, AfterFailure,
         TypeOK, FrameShape, Apart, Reserving, ReservedInv
  <2>5. ReservedInv'
    BY <1>1 DEF ServiceInv, SeesExit, AfterFailure,
         TypeOK, ReservedInv, FrameShape, ChildShape
  <2>6. ChildShape'
    BY <1>1 DEF ServiceInv, SeesExit, AfterFailure,
         TypeOK, FrameShape, Reserving, ChildShape, ReservedInv, Watched
  <2>7. OneStarter'
    BY <1>1 DEF ServiceInv, SeesExit, AfterFailure,
         TypeOK, FrameShape, ChildShape, OneStarter, Watched
  <2>8. Watched'
    BY <1>1 DEF ServiceInv, SeesExit, AfterFailure,
         TypeOK, FrameShape, ChildShape, Watched, Apart, Reserving, ReservedInv
  <2>9. ReleaseInv'
    BY <1>1 DEF ServiceInv, SeesExit, AfterFailure,
         TypeOK, FrameShape, ChildShape, Watched, ReleaseInv
  <2>10. RequestNamesItsRelay'
    BY <1>1 DEF ServiceInv, SeesExit, AfterFailure,
         TypeOK, FrameShape, Reserving, ReservedInv, ChildShape, ReleaseInv, RequestNamesItsRelay
  <2>11. FailedStartFreesItsIdentity'
    BY <1>1 DEF ServiceInv, SeesExit, AfterFailure,
         TypeOK, FrameShape, Reserving, ReservedInv, FailedStartFreesItsIdentity
  <2> QED
    BY <2>1, <2>2, <2>3, <2>4, <2>5, <2>6,
       <2>7, <2>8, <2>9, <2>10, <2>11 DEF ServiceInv
<1>2. CASE thread[t].op # "start"
  <2>1. TypeOK'
    <3>1. thread' \in [Threads -> Frames]
      <4>1. "reread" \in Steps
        BY DEF Steps
      <4> QED BY <1>2, <4>1, ThreadsStayTyped DEF ServiceInv, SeesExit, AfterFailure
    <3> QED BY <3>1 DEF ServiceInv, SeesExit, TypeOK, Frames
  <2>2. FrameShape'
    BY <1>2 DEF ServiceInv, SeesExit, AfterFailure,
         TypeOK, FrameShape
  <2>3. Reserving'
    BY <1>2 DEF ServiceInv, SeesExit, AfterFailure,
         TypeOK, FrameShape, Reserving, Apart, ReservedInv
  <2>4. Apart'
    BY <1>2 DEF ServiceInv, SeesExit, AfterFailure,
         TypeOK, FrameShape, Apart, Reserving, ReservedInv
  <2>5. ReservedInv'
    BY <1>2 DEF ServiceInv, SeesExit, AfterFailure,
         TypeOK, ReservedInv, FrameShape, ChildShape
  <2>6. ChildShape'
    BY <1>2 DEF ServiceInv, SeesExit, AfterFailure,
         TypeOK, FrameShape, Reserving, ChildShape, ReservedInv, Watched
  <2>7. OneStarter'
    BY <1>2 DEF ServiceInv, SeesExit, AfterFailure,
         TypeOK, FrameShape, ChildShape, OneStarter, Watched
  <2>8. Watched'
    BY <1>2 DEF ServiceInv, SeesExit, AfterFailure,
         TypeOK, FrameShape, ChildShape, Watched, Apart, Reserving, ReservedInv
  <2>9. ReleaseInv'
    BY <1>2 DEF ServiceInv, SeesExit, AfterFailure,
         TypeOK, FrameShape, ChildShape, Watched, ReleaseInv
  <2>10. RequestNamesItsRelay'
    BY <1>2 DEF ServiceInv, SeesExit, AfterFailure,
         TypeOK, FrameShape, Reserving, ReservedInv, ChildShape, ReleaseInv, RequestNamesItsRelay
  <2>11. FailedStartFreesItsIdentity'
    BY <1>2 DEF ServiceInv, SeesExit, AfterFailure,
         TypeOK, FrameShape, Reserving, ReservedInv, FailedStartFreesItsIdentity
  <2> QED
    BY <2>1, <2>2, <2>3, <2>4, <2>5, <2>6,
       <2>7, <2>8, <2>9, <2>10, <2>11 DEF ServiceInv
<1> QED
  BY <1>1, <1>2

LEMMA GivesUpKeeps ==
  ASSUME ServiceInv, NEW t \in Threads, GivesUp(t)
  PROVE  ServiceInv'
<1>1. TypeOK' /\ FrameShape'
  BY DEF ServiceInv, GivesUp,
         TypeOK, FrameShape, ChildShape
<1>2. Reserving' /\ Apart' /\ ReservedInv'
  BY DEF ServiceInv, GivesUp,
         TypeOK, FrameShape, Reserving, Apart, ReservedInv, ChildShape
<1>3. ChildShape' /\ OneStarter' /\ Watched'
  BY DEF ServiceInv, GivesUp,
         TypeOK, FrameShape, Reserving, Apart, ReservedInv, ChildShape,
         OneStarter, Watched
<1>4. ReleaseInv' /\ RequestNamesItsRelay' /\ FailedStartFreesItsIdentity'
  BY DEF ServiceInv, GivesUp,
         TypeOK, FrameShape, Reserving, ReservedInv, ChildShape, Watched,
         ReleaseInv, RequestNamesItsRelay, FailedStartFreesItsIdentity
<1> QED
  BY <1>1, <1>2, <1>3, <1>4 DEF ServiceInv

LEMMA RereadFindsKeeps ==
  ASSUME ServiceInv, NEW t \in Threads, RereadFinds(t)
  PROVE  ServiceInv'
<1>1. TypeOK' /\ FrameShape'
  BY DEF ServiceInv, RereadFinds,
         TypeOK, FrameShape, ChildShape
<1>2. Reserving' /\ Apart' /\ ReservedInv'
  BY DEF ServiceInv, RereadFinds,
         TypeOK, FrameShape, Reserving, Apart, ReservedInv, ChildShape
<1>3. ChildShape' /\ OneStarter' /\ Watched'
  BY DEF ServiceInv, RereadFinds,
         TypeOK, FrameShape, Reserving, Apart, ReservedInv, ChildShape,
         OneStarter, Watched
<1>4. ReleaseInv' /\ RequestNamesItsRelay' /\ FailedStartFreesItsIdentity'
  BY DEF ServiceInv, RereadFinds,
         TypeOK, FrameShape, Reserving, ReservedInv, ChildShape, Watched,
         ReleaseInv, RequestNamesItsRelay, FailedStartFreesItsIdentity
<1> QED
  BY <1>1, <1>2, <1>3, <1>4 DEF ServiceInv

LEMMA RereadFindsNoneKeeps ==
  ASSUME ServiceInv, NEW t \in Threads, RereadFindsNone(t)
  PROVE  ServiceInv'
<1>1. TypeOK' /\ FrameShape'
  <2>1. "release" \in Steps
    BY DEF Steps
  <2>2. thread' \in [Threads -> Frames]
    BY <2>1, ThreadsStayTyped DEF ServiceInv, RereadFindsNone
  <2>3. TypeOK'
    BY <2>2 DEF ServiceInv, RereadFindsNone, TypeOK, Frames
  <2>4. FrameShape'
    BY DEF ServiceInv, RereadFindsNone, TypeOK, FrameShape
  <2> QED BY <2>3, <2>4
<1>2. Reserving' /\ Apart' /\ ReservedInv'
  BY DEF ServiceInv, RereadFindsNone,
         TypeOK, FrameShape, Reserving, Apart, ReservedInv, ChildShape
<1>3. ChildShape' /\ OneStarter' /\ Watched'
  BY DEF ServiceInv, RereadFindsNone,
         TypeOK, FrameShape, Reserving, Apart, ReservedInv, ChildShape,
         OneStarter, Watched
<1>4. ReleaseInv' /\ RequestNamesItsRelay' /\ FailedStartFreesItsIdentity'
  BY DEF ServiceInv, RereadFindsNone,
         TypeOK, FrameShape, Reserving, ReservedInv, ChildShape, Watched,
         ReleaseInv, RequestNamesItsRelay, FailedStartFreesItsIdentity
<1> QED
  BY <1>1, <1>2, <1>3, <1>4 DEF ServiceInv

LEMMA RereadUnreadableKeeps ==
  ASSUME ServiceInv, NEW t \in Threads, RereadUnreadable(t)
  PROVE  ServiceInv'
<1>1. TypeOK' /\ FrameShape'
  BY DEF ServiceInv, RereadUnreadable,
         TypeOK, FrameShape, ChildShape
<1>2. Reserving' /\ Apart' /\ ReservedInv'
  BY DEF ServiceInv, RereadUnreadable,
         TypeOK, FrameShape, Reserving, Apart, ReservedInv, ChildShape
<1>3. ChildShape' /\ OneStarter' /\ Watched'
  BY DEF ServiceInv, RereadUnreadable,
         TypeOK, FrameShape, Reserving, Apart, ReservedInv, ChildShape,
         OneStarter, Watched
<1>4. ReleaseInv' /\ RequestNamesItsRelay' /\ FailedStartFreesItsIdentity'
  BY DEF ServiceInv, RereadUnreadable,
         TypeOK, FrameShape, Reserving, ReservedInv, ChildShape, Watched,
         ReleaseInv, RequestNamesItsRelay, FailedStartFreesItsIdentity
<1> QED
  BY <1>1, <1>2, <1>3, <1>4 DEF ServiceInv

LEMMA ReleaseKeeps ==
  ASSUME ServiceInv, NEW t \in Threads, Release(t)
  PROVE  ServiceInv'
<1>1. TypeOK' /\ FrameShape'
  BY DEF ServiceInv, Release,
         TypeOK, FrameShape, ChildShape
<1>2. Reserving' /\ Apart' /\ ReservedInv'
  BY DEF ServiceInv, Release,
         TypeOK, FrameShape, Reserving, Apart, ReservedInv, ChildShape
<1>3. ChildShape' /\ OneStarter' /\ Watched'
  BY DEF ServiceInv, Release,
         TypeOK, FrameShape, Reserving, Apart, ReservedInv, ChildShape,
         OneStarter, Watched
<1>4. ReleaseInv' /\ RequestNamesItsRelay' /\ FailedStartFreesItsIdentity'
  BY DEF ServiceInv, Release,
         TypeOK, FrameShape, Reserving, ReservedInv, ChildShape, Watched,
         ReleaseInv, RequestNamesItsRelay, FailedStartFreesItsIdentity
<1> QED
  BY <1>1, <1>2, <1>3, <1>4 DEF ServiceInv

-----------------------------------------------------------------------------
(* relay.resume and relay.stop                                             *)

LEMMA ReadRowKeeps ==
  ASSUME ServiceInv, NEW t \in Threads, ReadRow(t)
  PROVE  ServiceInv'
<1>1. CASE thread[t].op = "resume"
  <2>1. TypeOK'
    <3>1. thread[t].relay \in Relays
      BY <1>1 DEF ServiceInv, TypeOK, FrameShape, ReadRow
    <3>2. row[thread[t].relay] \in RowStates
      BY <3>1 DEF ServiceInv, TypeOK
    <3>3. thread' = [thread EXCEPT ![t].at = "owned",
                                   ![t].seen = row[thread[t].relay]]
      BY <1>1 DEF ReadRow
    <3>4. thread' \in [Threads -> [op : Ops \cup {"none"},
              at : {"idle"} \cup StartSteps \cup ResumeSteps \cup StopSteps,
              request : Requests \cup {Nobody}, relay : Relays \cup {Nobody},
              child : Children \cup {Nobody}, seen : RowStates]]
      <4> DEFINE f == [thread[t] EXCEPT !.at = "owned", !.seen = row[thread[t].relay]]
      <4>1. thread[t] \in [op : Ops \cup {"none"},
                  at : {"idle"} \cup StartSteps \cup ResumeSteps \cup StopSteps,
                  request : Requests \cup {Nobody}, relay : Relays \cup {Nobody},
                  child : Children \cup {Nobody}, seen : RowStates]
        BY DEF ServiceInv, TypeOK
      <4>2. f \in [op : Ops \cup {"none"},
                  at : {"idle"} \cup StartSteps \cup ResumeSteps \cup StopSteps,
                  request : Requests \cup {Nobody}, relay : Relays \cup {Nobody},
                  child : Children \cup {Nobody}, seen : RowStates]
        BY <3>2, <4>1
      <4>3. thread' = [thread EXCEPT ![t] = f]
        BY <3>3 DEF ServiceInv, TypeOK
      <4> HIDE DEF f
      <4> QED
        BY <4>2, <4>3 DEF ServiceInv, TypeOK
    <3> QED
      BY <3>4 DEF ServiceInv, TypeOK, ReadRow
  <2>2. FrameShape'
    BY <1>1 DEF ServiceInv, ReadRow,
         TypeOK, FrameShape
  <2>3. Reserving'
    BY <1>1 DEF ServiceInv, ReadRow,
         TypeOK, FrameShape, Reserving, Apart, ReservedInv
  <2>4. Apart'
    BY <1>1 DEF ServiceInv, ReadRow,
         TypeOK, FrameShape, Apart, Reserving, ReservedInv
  <2>5. ReservedInv'
    BY <1>1 DEF ServiceInv, ReadRow,
         TypeOK, ReservedInv, FrameShape, ChildShape
  <2>6. ChildShape'
    BY <1>1 DEF ServiceInv, ReadRow,
         TypeOK, FrameShape, Reserving, ChildShape, ReservedInv, Watched
  <2>7. OneStarter'
    BY <1>1 DEF ServiceInv, ReadRow,
         TypeOK, FrameShape, ChildShape, OneStarter, Watched
  <2>8. Watched'
    BY <1>1 DEF ServiceInv, ReadRow,
         TypeOK, FrameShape, ChildShape, Watched, Apart, Reserving, ReservedInv
  <2>9. ReleaseInv'
    BY <1>1 DEF ServiceInv, ReadRow,
         TypeOK, FrameShape, ChildShape, Watched, ReleaseInv
  <2>10. RequestNamesItsRelay'
    BY <1>1 DEF ServiceInv, ReadRow,
         TypeOK, FrameShape, Reserving, ReservedInv, ChildShape, ReleaseInv, RequestNamesItsRelay
  <2>11. FailedStartFreesItsIdentity'
    BY <1>1 DEF ServiceInv, ReadRow,
         TypeOK, FrameShape, Reserving, ReservedInv, FailedStartFreesItsIdentity
  <2> QED
    BY <2>1, <2>2, <2>3, <2>4, <2>5, <2>6,
       <2>7, <2>8, <2>9, <2>10, <2>11 DEF ServiceInv
<1>2. CASE thread[t].op # "resume"
  <2>1. TypeOK'
    <3>1. thread[t].relay \in Relays
      BY <1>2 DEF ServiceInv, TypeOK, FrameShape, ReadRow
    <3>2. row[thread[t].relay] \in RowStates
      BY <3>1 DEF ServiceInv, TypeOK
    <3>3. thread' = [thread EXCEPT ![t].at = "stop",
                                   ![t].seen = row[thread[t].relay]]
      BY <1>2 DEF ReadRow
    <3>4. thread' \in [Threads -> [op : Ops \cup {"none"},
              at : {"idle"} \cup StartSteps \cup ResumeSteps \cup StopSteps,
              request : Requests \cup {Nobody}, relay : Relays \cup {Nobody},
              child : Children \cup {Nobody}, seen : RowStates]]
      <4> DEFINE f == [thread[t] EXCEPT !.at = "stop", !.seen = row[thread[t].relay]]
      <4>1. thread[t] \in [op : Ops \cup {"none"},
                  at : {"idle"} \cup StartSteps \cup ResumeSteps \cup StopSteps,
                  request : Requests \cup {Nobody}, relay : Relays \cup {Nobody},
                  child : Children \cup {Nobody}, seen : RowStates]
        BY DEF ServiceInv, TypeOK
      <4>2. f \in [op : Ops \cup {"none"},
                  at : {"idle"} \cup StartSteps \cup ResumeSteps \cup StopSteps,
                  request : Requests \cup {Nobody}, relay : Relays \cup {Nobody},
                  child : Children \cup {Nobody}, seen : RowStates]
        BY <3>2, <4>1
      <4>3. thread' = [thread EXCEPT ![t] = f]
        BY <3>3 DEF ServiceInv, TypeOK
      <4> HIDE DEF f
      <4> QED
        BY <4>2, <4>3 DEF ServiceInv, TypeOK
    <3> QED
      BY <3>4 DEF ServiceInv, TypeOK, ReadRow
  <2>2. FrameShape'
    BY <1>2 DEF ServiceInv, ReadRow,
         TypeOK, FrameShape
  <2>3. Reserving'
    BY <1>2 DEF ServiceInv, ReadRow,
         TypeOK, FrameShape, Reserving, Apart, ReservedInv
  <2>4. Apart'
    BY <1>2 DEF ServiceInv, ReadRow,
         TypeOK, FrameShape, Apart, Reserving, ReservedInv
  <2>5. ReservedInv'
    BY <1>2 DEF ServiceInv, ReadRow,
         TypeOK, ReservedInv, FrameShape, ChildShape
  <2>6. ChildShape'
    BY <1>2 DEF ServiceInv, ReadRow,
         TypeOK, FrameShape, Reserving, ChildShape, ReservedInv, Watched
  <2>7. OneStarter'
    BY <1>2 DEF ServiceInv, ReadRow,
         TypeOK, FrameShape, ChildShape, OneStarter, Watched
  <2>8. Watched'
    BY <1>2 DEF ServiceInv, ReadRow,
         TypeOK, FrameShape, ChildShape, Watched, Apart, Reserving, ReservedInv
  <2>9. ReleaseInv'
    BY <1>2 DEF ServiceInv, ReadRow,
         TypeOK, FrameShape, ChildShape, Watched, ReleaseInv
  <2>10. RequestNamesItsRelay'
    BY <1>2 DEF ServiceInv, ReadRow,
         TypeOK, FrameShape, Reserving, ReservedInv, ChildShape, ReleaseInv, RequestNamesItsRelay
  <2>11. FailedStartFreesItsIdentity'
    BY <1>2 DEF ServiceInv, ReadRow,
         TypeOK, FrameShape, Reserving, ReservedInv, FailedStartFreesItsIdentity
  <2> QED
    BY <2>1, <2>2, <2>3, <2>4, <2>5, <2>6,
       <2>7, <2>8, <2>9, <2>10, <2>11 DEF ServiceInv
<1> QED
  BY <1>1, <1>2

LEMMA ResumeRefusedKeeps ==
  ASSUME ServiceInv, NEW t \in Threads, ResumeRefused(t)
  PROVE  ServiceInv'
<1>1. TypeOK' /\ FrameShape'
  BY DEF ServiceInv, ResumeRefused,
         TypeOK, FrameShape, ChildShape
<1>2. Reserving' /\ Apart' /\ ReservedInv'
  BY DEF ServiceInv, ResumeRefused,
         TypeOK, FrameShape, Reserving, Apart, ReservedInv, ChildShape
<1>3. ChildShape' /\ OneStarter' /\ Watched'
  BY DEF ServiceInv, ResumeRefused,
         TypeOK, FrameShape, Reserving, Apart, ReservedInv, ChildShape,
         OneStarter, Watched
<1>4. ReleaseInv' /\ RequestNamesItsRelay' /\ FailedStartFreesItsIdentity'
  BY DEF ServiceInv, ResumeRefused,
         TypeOK, FrameShape, Reserving, ReservedInv, ChildShape, Watched,
         ReleaseInv, RequestNamesItsRelay, FailedStartFreesItsIdentity
<1> QED
  BY <1>1, <1>2, <1>3, <1>4 DEF ServiceInv

LEMMA ResumeAllowedKeeps ==
  ASSUME ServiceInv, NEW t \in Threads, ResumeAllowed(t)
  PROVE  ServiceInv'
<1>1. TypeOK' /\ FrameShape'
  BY DEF ServiceInv, ResumeAllowed, MayLookFree, Held,
         TypeOK, FrameShape, ChildShape
<1>2. Reserving' /\ Apart' /\ ReservedInv'
  BY DEF ServiceInv, ResumeAllowed, MayLookFree, Held,
         TypeOK, FrameShape, Reserving, Apart, ReservedInv, ChildShape
<1>3. ChildShape' /\ OneStarter' /\ Watched'
  BY DEF ServiceInv, ResumeAllowed, MayLookFree, Held,
         TypeOK, FrameShape, Reserving, Apart, ReservedInv, ChildShape,
         OneStarter, Watched
<1>4. ReleaseInv' /\ RequestNamesItsRelay' /\ FailedStartFreesItsIdentity'
  BY DEF ServiceInv, ResumeAllowed, MayLookFree, Held,
         TypeOK, FrameShape, Reserving, ReservedInv, ChildShape, Watched,
         ReleaseInv, RequestNamesItsRelay, FailedStartFreesItsIdentity
<1> QED
  BY <1>1, <1>2, <1>3, <1>4 DEF ServiceInv

LEMMA StopRelayKeeps ==
  ASSUME ServiceInv, NEW t \in Threads, StopRelay(t)
  PROVE  ServiceInv'
<1>1. TypeOK' /\ FrameShape'
  BY DEF ServiceInv, StopRelay, Stoppable,
         TypeOK, FrameShape, ChildShape
<1>2. Reserving' /\ Apart' /\ ReservedInv'
  BY DEF ServiceInv, StopRelay, Stoppable,
         TypeOK, FrameShape, Reserving, Apart, ReservedInv, ChildShape
<1>3. ChildShape' /\ OneStarter' /\ Watched'
  BY DEF ServiceInv, StopRelay, Stoppable,
         TypeOK, FrameShape, Reserving, Apart, ReservedInv, ChildShape,
         OneStarter, Watched
<1>4. ReleaseInv' /\ RequestNamesItsRelay' /\ FailedStartFreesItsIdentity'
  BY DEF ServiceInv, StopRelay, Stoppable,
         TypeOK, FrameShape, Reserving, ReservedInv, ChildShape, Watched,
         ReleaseInv, RequestNamesItsRelay, FailedStartFreesItsIdentity
<1> QED
  BY <1>1, <1>2, <1>3, <1>4 DEF ServiceInv

-----------------------------------------------------------------------------
(* The relay process                                                       *)

LEMMA TakeLockKeeps ==
  ASSUME ServiceInv, NEW c \in Children, TakeLock(c)
  PROVE  ServiceInv'
<1>1. TypeOK' /\ FrameShape'
  BY DEF ServiceInv, TakeLock, Held, Stage,
         TypeOK, FrameShape, ChildShape
<1>2. Reserving' /\ Apart' /\ ReservedInv'
  BY DEF ServiceInv, TakeLock, Held, Stage,
         TypeOK, FrameShape, Reserving, Apart, ReservedInv, ChildShape
<1>3. ChildShape' /\ OneStarter' /\ Watched'
  BY DEF ServiceInv, TakeLock, Held, Stage,
         TypeOK, FrameShape, Reserving, Apart, ReservedInv, ChildShape,
         OneStarter, Watched
<1>4. ReleaseInv' /\ RequestNamesItsRelay' /\ FailedStartFreesItsIdentity'
  BY DEF ServiceInv, TakeLock, Held, Stage,
         TypeOK, FrameShape, Reserving, ReservedInv, ChildShape, Watched,
         ReleaseInv, RequestNamesItsRelay, FailedStartFreesItsIdentity
<1> QED
  BY <1>1, <1>2, <1>3, <1>4 DEF ServiceInv

LEMMA MissLockKeeps ==
  ASSUME ServiceInv, NEW c \in Children, MissLock(c)
  PROVE  ServiceInv'
<1>1. TypeOK' /\ FrameShape'
  BY DEF ServiceInv, MissLock, Held, Exit,
         TypeOK, FrameShape, ChildShape
<1>2. Reserving' /\ Apart' /\ ReservedInv'
  BY DEF ServiceInv, MissLock, Held, Exit,
         TypeOK, FrameShape, Reserving, Apart, ReservedInv, ChildShape
<1>3. ChildShape' /\ OneStarter' /\ Watched'
  BY DEF ServiceInv, MissLock, Held, Exit,
         TypeOK, FrameShape, Reserving, Apart, ReservedInv, ChildShape,
         OneStarter, Watched
<1>4. ReleaseInv' /\ RequestNamesItsRelay' /\ FailedStartFreesItsIdentity'
  BY DEF ServiceInv, MissLock, Held, Exit,
         TypeOK, FrameShape, Reserving, ReservedInv, ChildShape, Watched,
         ReleaseInv, RequestNamesItsRelay, FailedStartFreesItsIdentity
<1> QED
  BY <1>1, <1>2, <1>3, <1>4 DEF ServiceInv

LEMMA NotBuiltKeeps ==
  ASSUME ServiceInv, NEW c \in Children, NotBuilt(c)
  PROVE  ServiceInv'
<1>1. TypeOK' /\ FrameShape'
  BY DEF ServiceInv, NotBuilt, Exit, LetGo,
         TypeOK, FrameShape, ChildShape
<1>2. Reserving' /\ Apart' /\ ReservedInv'
  BY DEF ServiceInv, NotBuilt, Exit, LetGo,
         TypeOK, FrameShape, Reserving, Apart, ReservedInv, ChildShape
<1>3. ChildShape' /\ OneStarter' /\ Watched'
  BY DEF ServiceInv, NotBuilt, Exit, LetGo,
         TypeOK, FrameShape, Reserving, Apart, ReservedInv, ChildShape,
         OneStarter, Watched
<1>4. ReleaseInv' /\ RequestNamesItsRelay' /\ FailedStartFreesItsIdentity'
  BY DEF ServiceInv, NotBuilt, Exit, LetGo,
         TypeOK, FrameShape, Reserving, ReservedInv, ChildShape, Watched,
         ReleaseInv, RequestNamesItsRelay, FailedStartFreesItsIdentity
<1> QED
  BY <1>1, <1>2, <1>3, <1>4 DEF ServiceInv

LEMMA DriveKeeps ==
  ASSUME ServiceInv, NEW c \in Children, Drive(c)
  PROVE  ServiceInv'
<1>1. TypeOK' /\ FrameShape'
  BY DEF ServiceInv, Drive, Stage,
         TypeOK, FrameShape, ChildShape
<1>2. Reserving' /\ Apart' /\ ReservedInv'
  BY DEF ServiceInv, Drive, Stage,
         TypeOK, FrameShape, Reserving, Apart, ReservedInv, ChildShape
<1>3. ChildShape' /\ OneStarter' /\ Watched'
  BY DEF ServiceInv, Drive, Stage,
         TypeOK, FrameShape, Reserving, Apart, ReservedInv, ChildShape,
         OneStarter, Watched
<1>4. ReleaseInv' /\ RequestNamesItsRelay' /\ FailedStartFreesItsIdentity'
  BY DEF ServiceInv, Drive, Stage,
         TypeOK, FrameShape, Reserving, ReservedInv, ChildShape, Watched,
         ReleaseInv, RequestNamesItsRelay, FailedStartFreesItsIdentity
<1> QED
  BY <1>1, <1>2, <1>3, <1>4 DEF ServiceInv

LEMMA ResumeStopsKeeps ==
  ASSUME ServiceInv, NEW c \in Children, ResumeStops(c)
  PROVE  ServiceInv'
<1>1. TypeOK' /\ FrameShape'
  BY DEF ServiceInv, ResumeStops, Stage,
         TypeOK, FrameShape, ChildShape
<1>2. Reserving' /\ Apart' /\ ReservedInv'
  BY DEF ServiceInv, ResumeStops, Stage,
         TypeOK, FrameShape, Reserving, Apart, ReservedInv, ChildShape
<1>3. ChildShape' /\ OneStarter' /\ Watched'
  <2>1. ChildShape'
    BY DEF ServiceInv, TypeOK, ChildShape, ResumeStops, Stage
  <2>2. OneStarter'
    BY DEF ServiceInv, TypeOK, ChildShape, OneStarter, ResumeStops, Stage
  <2>3. Watched'
    BY DEF ServiceInv, TypeOK, FrameShape, ChildShape, Watched, ResumeStops, Stage
  <2> QED
    BY <2>1, <2>2, <2>3
<1>4. ReleaseInv' /\ RequestNamesItsRelay' /\ FailedStartFreesItsIdentity'
  BY DEF ServiceInv, ResumeStops, Stage,
         TypeOK, FrameShape, Reserving, ReservedInv, ChildShape, Watched,
         ReleaseInv, RequestNamesItsRelay, FailedStartFreesItsIdentity
<1> QED
  BY <1>1, <1>2, <1>3, <1>4 DEF ServiceInv

LEMMA FinishKeeps ==
  ASSUME ServiceInv, NEW c \in Children, Finish(c)
  PROVE  ServiceInv'
<1>1. TypeOK' /\ FrameShape'
  BY DEF ServiceInv, Finish, Stage,
         TypeOK, FrameShape, ChildShape
<1>2. Reserving' /\ Apart' /\ ReservedInv'
  BY DEF ServiceInv, Finish, Stage,
         TypeOK, FrameShape, Reserving, Apart, ReservedInv, ChildShape
<1>3. ChildShape' /\ OneStarter' /\ Watched'
  BY DEF ServiceInv, Finish, Stage,
         TypeOK, FrameShape, Reserving, Apart, ReservedInv, ChildShape,
         OneStarter, Watched
<1>4. ReleaseInv' /\ RequestNamesItsRelay' /\ FailedStartFreesItsIdentity'
  BY DEF ServiceInv, Finish, Stage,
         TypeOK, FrameShape, Reserving, ReservedInv, ChildShape, Watched,
         ReleaseInv, RequestNamesItsRelay, FailedStartFreesItsIdentity
<1> QED
  BY <1>1, <1>2, <1>3, <1>4 DEF ServiceInv

LEMMA SeeStopKeeps ==
  ASSUME ServiceInv, NEW c \in Children, SeeStop(c)
  PROVE  ServiceInv'
<1>1. TypeOK' /\ FrameShape'
  BY DEF ServiceInv, SeeStop, Stage,
         TypeOK, FrameShape, ChildShape
<1>2. Reserving' /\ Apart' /\ ReservedInv'
  BY DEF ServiceInv, SeeStop, Stage,
         TypeOK, FrameShape, Reserving, Apart, ReservedInv, ChildShape
<1>3. ChildShape' /\ OneStarter' /\ Watched'
  BY DEF ServiceInv, SeeStop, Stage,
         TypeOK, FrameShape, Reserving, Apart, ReservedInv, ChildShape,
         OneStarter, Watched
<1>4. ReleaseInv' /\ RequestNamesItsRelay' /\ FailedStartFreesItsIdentity'
  BY DEF ServiceInv, SeeStop, Stage,
         TypeOK, FrameShape, Reserving, ReservedInv, ChildShape, Watched,
         ReleaseInv, RequestNamesItsRelay, FailedStartFreesItsIdentity
<1> QED
  BY <1>1, <1>2, <1>3, <1>4 DEF ServiceInv

LEMMA LeaveKeeps ==
  ASSUME ServiceInv, NEW c \in Children, Leave(c)
  PROVE  ServiceInv'
<1>1. TypeOK' /\ FrameShape'
  BY DEF ServiceInv, Leave, Exit, LetGo,
         TypeOK, FrameShape, ChildShape
<1>2. Reserving' /\ Apart' /\ ReservedInv'
  BY DEF ServiceInv, Leave, Exit, LetGo,
         TypeOK, FrameShape, Reserving, Apart, ReservedInv, ChildShape
<1>3. ChildShape' /\ OneStarter' /\ Watched'
  BY DEF ServiceInv, Leave, Exit, LetGo,
         TypeOK, FrameShape, Reserving, Apart, ReservedInv, ChildShape,
         OneStarter, Watched
<1>4. ReleaseInv' /\ RequestNamesItsRelay' /\ FailedStartFreesItsIdentity'
  BY DEF ServiceInv, Leave, Exit, LetGo,
         TypeOK, FrameShape, Reserving, ReservedInv, ChildShape, Watched,
         ReleaseInv, RequestNamesItsRelay, FailedStartFreesItsIdentity
<1> QED
  BY <1>1, <1>2, <1>3, <1>4 DEF ServiceInv

LEMMA KilledKeeps ==
  ASSUME ServiceInv, NEW c \in Children, Killed(c)
  PROVE  ServiceInv'
<1>1. TypeOK' /\ FrameShape'
  BY DEF ServiceInv, Killed, Exit, LetGo,
         TypeOK, FrameShape, ChildShape
<1>2. Reserving' /\ Apart' /\ ReservedInv'
  BY DEF ServiceInv, Killed, Exit, LetGo,
         TypeOK, FrameShape, Reserving, Apart, ReservedInv, ChildShape
<1>3. ChildShape' /\ OneStarter' /\ Watched'
  BY DEF ServiceInv, Killed, Exit, LetGo,
         TypeOK, FrameShape, Reserving, Apart, ReservedInv, ChildShape,
         OneStarter, Watched
<1>4. ReleaseInv' /\ RequestNamesItsRelay' /\ FailedStartFreesItsIdentity'
  BY DEF ServiceInv, Killed, Exit, LetGo,
         TypeOK, FrameShape, Reserving, ReservedInv, ChildShape, Watched,
         ReleaseInv, RequestNamesItsRelay, FailedStartFreesItsIdentity
<1> QED
  BY <1>1, <1>2, <1>3, <1>4 DEF ServiceInv

-----------------------------------------------------------------------------
(* Core itself                                                             *)

LEMMA CoreStartsKeeps ==
  ASSUME ServiceInv, CoreStarts
  PROVE  ServiceInv'
<1>1. TypeOK' /\ FrameShape'
  BY DEF ServiceInv, CoreStarts,
         TypeOK, FrameShape, ChildShape
<1>2. Reserving' /\ Apart' /\ ReservedInv'
  BY DEF ServiceInv, CoreStarts,
         TypeOK, FrameShape, Reserving, Apart, ReservedInv, ChildShape
<1>3. ChildShape' /\ OneStarter' /\ Watched'
  BY DEF ServiceInv, CoreStarts,
         TypeOK, FrameShape, Reserving, Apart, ReservedInv, ChildShape,
         OneStarter, Watched
<1>4. ReleaseInv' /\ RequestNamesItsRelay' /\ FailedStartFreesItsIdentity'
  BY DEF ServiceInv, CoreStarts,
         TypeOK, FrameShape, Reserving, ReservedInv, ChildShape, Watched,
         ReleaseInv, RequestNamesItsRelay, FailedStartFreesItsIdentity
<1> QED
  BY <1>1, <1>2, <1>3, <1>4 DEF ServiceInv

LEMMA CoreDiesKeeps ==
  ASSUME ServiceInv, CoreDies
  PROVE  ServiceInv'
<1>1. TypeOK' /\ FrameShape'
  <2>1. \A t \in Threads : Starting(t) => thread[t].relay \in Relays
    BY DEF ServiceInv, TypeOK
  <2>2. abandoned' \subseteq Relays
    BY <2>1 DEF ServiceInv, TypeOK, CoreDies, CoreEnds
  <2>3. TypeOK'
    <3>1. deaths' \in 0..MaxDeaths
      BY DEF ServiceInv, TypeOK, CoreDies, CoreEnds
    <3>2. quiet' \in BOOLEAN
      BY DEF CoreDies, CoreEnds
    <3>3. thread' = [t \in Threads |-> Idle] /\ core' = "down"
      BY DEF CoreDies, CoreEnds
    <3> QED
      BY <2>2, <3>1, <3>2, <3>3 DEF ServiceInv, TypeOK, CoreDies, CoreEnds
  <2>4. FrameShape'
    BY DEF ServiceInv, FrameShape, CoreDies, CoreEnds
  <2> QED
    BY <2>3, <2>4
<1>2. Reserving' /\ Apart' /\ ReservedInv'
  BY DEF ServiceInv, CoreDies, CoreEnds,
         TypeOK, FrameShape, Reserving, Apart, ReservedInv, ChildShape
<1>3. ChildShape' /\ OneStarter' /\ Watched'
  BY DEF ServiceInv, CoreDies, CoreEnds,
         TypeOK, FrameShape, Reserving, Apart, ReservedInv, ChildShape,
         OneStarter, Watched
<1>4. ReleaseInv' /\ RequestNamesItsRelay' /\ FailedStartFreesItsIdentity'
  BY DEF ServiceInv, CoreDies, CoreEnds,
         TypeOK, FrameShape, Reserving, ReservedInv, ChildShape, Watched,
         ReleaseInv, RequestNamesItsRelay, FailedStartFreesItsIdentity
<1> QED
  BY <1>1, <1>2, <1>3, <1>4 DEF ServiceInv

LEMMA IdlePassesKeeps ==
  ASSUME ServiceInv, IdlePasses
  PROVE  ServiceInv'
<1>1. TypeOK' /\ FrameShape'
  BY DEF ServiceInv, IdlePasses,
         TypeOK, FrameShape, ChildShape
<1>2. Reserving' /\ Apart' /\ ReservedInv'
  BY DEF ServiceInv, IdlePasses,
         TypeOK, FrameShape, Reserving, Apart, ReservedInv, ChildShape
<1>3. ChildShape' /\ OneStarter' /\ Watched'
  BY DEF ServiceInv, IdlePasses,
         TypeOK, FrameShape, Reserving, Apart, ReservedInv, ChildShape,
         OneStarter, Watched
<1>4. ReleaseInv' /\ RequestNamesItsRelay' /\ FailedStartFreesItsIdentity'
  BY DEF ServiceInv, IdlePasses,
         TypeOK, FrameShape, Reserving, ReservedInv, ChildShape, Watched,
         ReleaseInv, RequestNamesItsRelay, FailedStartFreesItsIdentity
<1> QED
  BY <1>1, <1>2, <1>3, <1>4 DEF ServiceInv

LEMMA WatchdogLooksKeeps ==
  ASSUME ServiceInv, WatchdogLooks
  PROVE  ServiceInv'
<1>1. TypeOK' /\ FrameShape'
  BY DEF ServiceInv, WatchdogLooks,
         TypeOK, FrameShape, ChildShape
<1>2. Reserving' /\ Apart' /\ ReservedInv'
  BY DEF ServiceInv, WatchdogLooks,
         TypeOK, FrameShape, Reserving, Apart, ReservedInv, ChildShape
<1>3. ChildShape' /\ OneStarter' /\ Watched'
  BY DEF ServiceInv, WatchdogLooks,
         TypeOK, FrameShape, Reserving, Apart, ReservedInv, ChildShape,
         OneStarter, Watched
<1>4. ReleaseInv' /\ RequestNamesItsRelay' /\ FailedStartFreesItsIdentity'
  BY DEF ServiceInv, WatchdogLooks,
         TypeOK, FrameShape, Reserving, ReservedInv, ChildShape, Watched,
         ReleaseInv, RequestNamesItsRelay, FailedStartFreesItsIdentity
<1> QED
  BY <1>1, <1>2, <1>3, <1>4 DEF ServiceInv

LEMMA WatchdogLeavesKeeps ==
  ASSUME ServiceInv, WatchdogLeaves
  PROVE  ServiceInv'
<1>1. TypeOK' /\ FrameShape'
  <2>1. \A t \in Threads : Starting(t) => thread[t].relay \in Relays
    BY DEF ServiceInv, TypeOK
  <2>2. abandoned' \subseteq Relays
    BY <2>1 DEF ServiceInv, TypeOK, WatchdogLeaves, CoreEnds
  <2>3. TypeOK'
    <3>1. deaths' \in 0..MaxDeaths
      BY DEF ServiceInv, TypeOK, WatchdogLeaves, CoreEnds
    <3>2. quiet' \in BOOLEAN
      BY DEF WatchdogLeaves, CoreEnds
    <3>3. thread' = [t \in Threads |-> Idle] /\ core' = "down"
      BY DEF WatchdogLeaves, CoreEnds
    <3> QED
      BY <2>2, <3>1, <3>2, <3>3 DEF ServiceInv, TypeOK, WatchdogLeaves, CoreEnds
  <2>4. FrameShape'
    BY DEF ServiceInv, FrameShape, WatchdogLeaves, CoreEnds
  <2> QED
    BY <2>3, <2>4
<1>2. Reserving' /\ Apart' /\ ReservedInv'
  BY DEF ServiceInv, WatchdogLeaves, CoreEnds,
         TypeOK, FrameShape, Reserving, Apart, ReservedInv, ChildShape
<1>3. ChildShape' /\ OneStarter' /\ Watched'
  BY DEF ServiceInv, WatchdogLeaves, CoreEnds,
         TypeOK, FrameShape, Reserving, Apart, ReservedInv, ChildShape,
         OneStarter, Watched
<1>4. ReleaseInv' /\ RequestNamesItsRelay' /\ FailedStartFreesItsIdentity'
  BY DEF ServiceInv, WatchdogLeaves, CoreEnds,
         TypeOK, FrameShape, Reserving, ReservedInv, ChildShape, Watched,
         ReleaseInv, RequestNamesItsRelay, FailedStartFreesItsIdentity
<1> QED
  BY <1>1, <1>2, <1>3, <1>4 DEF ServiceInv

-----------------------------------------------------------------------------
(* Every step, and what follows                                            *)

LEMMA StepHolds == ServiceInv /\ [ServiceNext]_serviceVars => ServiceInv'
<1> SUFFICES ASSUME ServiceInv, [ServiceNext]_serviceVars PROVE ServiceInv'
  OBVIOUS
<1>1. ASSUME NEW t \in Threads, RequestStep(t) PROVE ServiceInv'
  BY <1>1,
     ReceiveStartKeeps, ReceiveNamedKeeps, RecallKeeps, ReuseKeeps,
     UnreadableKeeps, TooManyKeeps, CountKeeps, ReserveKeeps,
     ReserveRefusedKeeps, NotRecordableKeeps, ConflictKeeps, SpawnKeeps,
     SpawnFailsKeeps, SucceedsKeeps, SeesExitKeeps, GivesUpKeeps,
     RereadFindsKeeps, RereadFindsNoneKeeps, RereadUnreadableKeeps,
     ReleaseKeeps, ReadRowKeeps, ResumeRefusedKeeps, ResumeAllowedKeeps,
     StopRelayKeeps
  DEF RequestStep
<1>2. ASSUME NEW c \in Children, RelayStep(c) PROVE ServiceInv'
  BY <1>2,
     TakeLockKeeps, MissLockKeeps, NotBuiltKeeps, DriveKeeps,
     ResumeStopsKeeps, FinishKeeps, SeeStopKeeps, LeaveKeeps, KilledKeeps
  DEF RelayStep
<1>3. ASSUME CoreStep PROVE ServiceInv'
  BY <1>3, RefuseKeeps, CoreStartsKeeps, CoreDiesKeeps, IdlePassesKeeps,
     WatchdogLooksKeeps, WatchdogLeavesKeeps
  DEF CoreStep
<1>4. ASSUME UNCHANGED serviceVars PROVE ServiceInv'
  BY <1>4 DEF serviceVars, ServiceInv, TypeOK, FrameShape, Reserving, Apart, ReservedInv, ChildShape,
              OneStarter, Watched, ReleaseInv, RequestNamesItsRelay,
              FailedStartFreesItsIdentity
<1> QED
  BY <1>1, <1>2, <1>3, <1>4 DEF ServiceNext

(* Core's state stays within its types, and what the other results rest on *)
(* holds in every state that can be reached.                               *)
THEOREM ServiceInvariant == ServiceSpec => []ServiceInv
<1> QED
  BY ServiceInitHolds, StepHolds, PTL DEF ServiceSpec

(* The threads, the relay processes and the files hold values of their     *)
(* kind.                                                                   *)
THEOREM TypeCorrect == ServiceSpec => []TypeOK
<1>1. ServiceInv => TypeOK
  BY DEF ServiceInv
<1> QED
  BY <1>1, ServiceInvariant, PTL

(* An identity names the relay it made for ever, for any number of         *)
(* retries, threads and deaths of Core.                                    *)
THEOREM IdentityIsKept == ServiceSpec => []RequestNamesItsRelay
<1>1. ServiceInv => RequestNamesItsRelay
  BY DEF ServiceInv
<1> QED
  BY <1>1, ServiceInvariant, PTL

(* A start that failed while Core watched leaves its identity free.        *)
THEOREM IdentityIsFreed == ServiceSpec => []FailedStartFreesItsIdentity
<1>1. ServiceInv => FailedStartFreesItsIdentity
  BY DEF ServiceInv
<1> QED
  BY <1>1, ServiceInvariant, PTL

(* Two processes never start relays for one identity.                      *)
THEOREM OneStart == ServiceSpec => []OneStartPerRequest
<1>1. ServiceInv => OneStartPerRequest
  <2> SUFFICES ASSUME ServiceInv, NEW c \in Children, NEW d \in Children, c # d,
                      child[c].verb = "start", child[d].verb = "start",
                      made[child[c].relay] = made[child[d].relay]
               PROVE  FALSE
    BY DEF OneStartPerRequest
  <2>1. child[c].relay = child[d].relay
    BY DEF ServiceInv, ChildShape
  <2> QED
    BY <2>1 DEF ServiceInv, OneStarter
<1> QED
  BY <1>1, ServiceInvariant, PTL
=============================================================================
