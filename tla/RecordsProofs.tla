---------------------------- MODULE RecordsProofs ----------------------------
(***************************************************************************)
(* Proofs about the parts of MCSurfaces that keep records - the strategic  *)
(* store, plan adoption, run evidence and the test collector, mailbox and  *)
(* file inbox - for every value of the constants.  The parts share no      *)
(* state: each has an invariant of its own, and one lemma says that a step *)
(* is a step of one part and of no other.                                  *)
(***************************************************************************)
EXTENDS MCSurfaces, FiniteSetTheorems, SequenceTheorems, WellFoundedInduction, TLAPS

\* A step leaves the choice of the part alone; a part that is on takes a step of its own or none.
LEMMA OnePartMoves ==
    ASSUME [Next]_vars
    PROVE  /\ part' = part
           /\ part = "commands" => Command!CommandNext \/ UNCHANGED CommandState
           /\ part = "observation" => Observation!ObserveNext \/ UNCHANGED ObservationState
           /\ part = "api" => Api!Next \/ UNCHANGED ApiState
           /\ part = "mcp" => Mcp!Next \/ UNCHANGED McpState
           /\ part = "store" => Store!StoreNext \/ UNCHANGED StoreState
           /\ part = "plan" => Plan!PlanNext \/ UNCHANGED PlanState
           /\ part = "browser" => Browser!BrowserNext \/ UNCHANGED BrowserState
           /\ part = "mail" => Mail!MailNext \/ UNCHANGED MailState
           /\ part = "inbox" => Inbox!InboxNext \/ UNCHANGED InboxState
           /\ part = "evidence" => Evidence!EvidenceNext \/ UNCHANGED EvidenceState
           /\ part = "collector" => Collector!CollectorNext \/ UNCHANGED CollectorState
           /\ part = "tree" => Tree!TreeNext \/ UNCHANGED TreeState
<1>1. CASE UNCHANGED vars
  BY <1>1 DEF vars
<1>2. CASE Next
  BY <1>2 DEF Next, Others
<1> QED BY <1>1, <1>2

-----------------------------------------------------------------------------
(* The strategic store.                                                      *)

Claimed == [fence : Nat, token : Nat]
Answered == [status : {"DECIDED", "SUPERSEDED"}, supersedes : Nat, by : Nat]

StoreTyped ==
    /\ lease \in [fence : Nat, token : Nat, expires : Nat, released : BOOLEAN]
    /\ clock \in Nat
    /\ held \in [Strategists -> Claimed]
    /\ doing \in [Strategists -> [op : {"none", "release", "mark", "insert"},
                                  arg : Nat \cup Digests, id : Nat]]
    /\ DOMAIN storeMessages = Digests
    /\ minted \in Nat

\* A lane's fence counts its claims, and no two strategists were answered the same claim.
ClaimsAreCounted ==
    /\ lease.fence = lease.token
    /\ \A w \in Strategists : held[w].fence = held[w].token /\ held[w].token <= lease.token
    /\ \A v, w \in Strategists : held[v].token = held[w].token /\ held[v].token # 0 => v = w

\* The answers of a question are numbered as they were given.
Numbered(n) == DOMAIN storeDecisions = 1..n /\ \A d \in 1..n : storeDecisions[d] \in Answered

\* The newest answer is in force; what was replaced names a later answer that names it.
NewestIsLive ==
    \E n \in Nat :
        /\ Numbered(n)
        /\ n = 0 <=> storeDecisions = <<>>
        /\ n # 0 => storeDecisions[n].status = "DECIDED"
        /\ \A d \in 1..n : storeDecisions[d].by # 0 =>
               storeDecisions[d].by \in 1..n /\ storeDecisions[storeDecisions[d].by].supersedes = d
        /\ \A w \in Strategists : doing[w].op = "mark" =>
               /\ doing[w].arg \in 1..n /\ doing[w].id \in 1..n /\ doing[w].arg < doing[w].id
               /\ storeDecisions[doing[w].id].supersedes = doing[w].arg

\* A digest has one row at most, and everyone was told it.
OneRowEach ==
    /\ \A g \in Digests : \A x, y \in storeMessages[g] : x = y
    /\ \A w \in Strategists : doing[w].op = "insert" => doing[w].arg \in Digests
    /\ \A a \in storeTold : a.digest \in Digests /\ storeMessages[a.digest] = {a.id}

StoreInv == StoreTyped /\ ClaimsAreCounted /\ NewestIsLive /\ OneRowEach

LEMMA StoreImplies ==
    ASSUME StoreInv PROVE Store!OneWriterPasses /\ Store!AnswerStands /\ Store!MessageOnce
<1>1. Store!OneWriterPasses
  <2> SUFFICES ASSUME NEW v \in Strategists, NEW w \in Strategists,
                      held[v] # Store!NoClaim, held[v].fence >= lease.fence,
                      held[w] # Store!NoClaim, held[w].fence >= lease.fence
               PROVE  v = w
    BY DEF Store!OneWriterPasses, Store!FencePasses
  <2>1. /\ held[v] \in Claimed /\ held[w] \in Claimed /\ lease.token \in Nat
        /\ held[v].fence = held[v].token /\ held[w].fence = held[w].token
        /\ held[v].token <= lease.token /\ held[w].token <= lease.token
        /\ lease.fence = lease.token
    BY DEF StoreInv, StoreTyped, ClaimsAreCounted
  <2>2. held[v].token = held[w].token /\ held[v].token # 0
    BY <2>1 DEF Store!NoClaim, Claimed
  <2> QED BY <2>2 DEF StoreInv, ClaimsAreCounted
<1>2. Store!AnswerStands
  BY DEF StoreInv, NewestIsLive, Numbered, Store!AnswerStands, Store!DecisionIds, Store!Live
<1>3. Store!MessageOnce
  BY DEF StoreInv, OneRowEach, Store!MessageOnce
<1> QED BY <1>1, <1>2, <1>3

LEMMA StoreStarts == ASSUME Store!StoreInit PROVE StoreInv
<1>1. StoreTyped
  BY DEF Store!StoreInit, Store!NoLease, Store!NoClaim, Store!Resting, StoreTyped, Claimed
<1>2. ClaimsAreCounted
  BY DEF Store!StoreInit, Store!NoLease, Store!NoClaim, ClaimsAreCounted
<1>3. \A w \in Strategists : doing[w].op = "none"
  BY DEF Store!StoreInit, Store!Resting
<1>4. NewestIsLive
  <2>1. DOMAIN storeDecisions = 1..0 /\ storeDecisions = <<>>
    BY DEF Store!StoreInit
  <2> QED BY <2>1, <1>3 DEF NewestIsLive, Numbered
<1>5. OneRowEach
  BY <1>3 DEF Store!StoreInit, OneRowEach
<1> QED BY <1>1, <1>2, <1>4, <1>5 DEF StoreInv

\* A claim, a renewal and a release move the lane's row and the claims held, and nothing else.
LEMMA LeaseKeepsStore ==
    ASSUME StoreInv, NEW w \in Strategists,
           Store!Claim(w) \/ Store!Renew(w) \/ Store!ReadForRelease(w) \/ Store!Release(w)
    PROVE  StoreInv'
<1>0. /\ lease \in [fence : Nat, token : Nat, expires : Nat, released : BOOLEAN]
      /\ clock \in Nat /\ LeaseS \in Nat /\ clock + LeaseS \in Nat
      /\ held \in [Strategists -> Claimed]
      /\ lease.fence = lease.token /\ lease.token \in Nat
  BY LeaseAssumption DEF StoreInv, StoreTyped, ClaimsAreCounted
<1>1. ASSUME /\ UNCHANGED <<storeDecisions, storeMessages, minted, storeTold>>
             /\ \A v \in Strategists : doing'[v] = doing[v] \/ doing'[v].op \in {"none", "release"}
      PROVE  NewestIsLive' /\ OneRowEach'
  BY <1>1 DEF StoreInv, NewestIsLive, Numbered, OneRowEach
<1>2. CASE Store!Claim(w)
  <2>1. PICK n \in Nat : n = lease.token + 1
    BY <1>0
  <2>2. /\ lease' = [fence |-> n, token |-> n, expires |-> clock + LeaseS, released |-> FALSE]
        /\ held' = [held EXCEPT ![w] = [fence |-> n, token |-> n]]
        /\ UNCHANGED <<clock, doing, storeDecisions, storeMessages, minted, storeTold>>
    BY <1>0, <1>2, <2>1 DEF Store!Claim, Store!Takes, Store!messageRows
  <2>3. StoreTyped'
    BY <1>0, <2>2 DEF StoreInv, StoreTyped, Claimed
  <2>4. /\ held'[w].token = n /\ held'[w].fence = n
        /\ \A v \in Strategists \ {w} : held'[v] = held[v]
    BY <1>0, <2>2
  <2>5. ClaimsAreCounted'
    BY <1>0, <2>1, <2>2, <2>4 DEF StoreInv, ClaimsAreCounted, Claimed
  <2> QED BY <1>1, <2>2, <2>3, <2>5 DEF StoreInv
<1>3. CASE Store!Renew(w)
  <2>1. UNCHANGED <<clock, held, doing, storeDecisions, storeMessages, minted, storeTold>>
    BY <1>3 DEF Store!Renew, Store!messageRows
  <2>2. /\ lease' \in [fence : Nat, token : Nat, expires : Nat, released : BOOLEAN]
        /\ lease'.fence = lease.fence /\ lease'.token = lease.token
    BY <1>0, <1>3 DEF Store!Renew
  <2>3. StoreTyped' /\ ClaimsAreCounted'
    BY <2>1, <2>2 DEF StoreInv, StoreTyped, ClaimsAreCounted
  <2> QED BY <1>1, <2>1, <2>3 DEF StoreInv
<1>4. CASE Store!ReadForRelease(w)
  <2>1. /\ UNCHANGED <<clock, lease, held, storeDecisions, storeMessages, minted, storeTold>>
        /\ doing' = [doing EXCEPT ![w] = [op |-> "release", arg |-> 0, id |-> 0]]
    BY <1>4 DEF Store!ReadForRelease, Store!Starts, Store!leaseRows, Store!messageRows
  <2>2. StoreTyped' /\ ClaimsAreCounted'
    BY <2>1 DEF StoreInv, StoreTyped, ClaimsAreCounted
  <2>3. \A v \in Strategists : doing'[v] = doing[v] \/ doing'[v].op = "release"
    BY <2>1 DEF StoreInv, StoreTyped
  <2> QED BY <1>1, <2>1, <2>2, <2>3 DEF StoreInv
<1>5. CASE Store!Release(w)
  <2>1. /\ UNCHANGED <<clock, storeDecisions, storeMessages, minted, storeTold>>
        /\ lease' = [lease EXCEPT !.released = TRUE]
        /\ held' = [held EXCEPT ![w] = [fence |-> 0, token |-> 0]]
        /\ doing' = [doing EXCEPT ![w] = [op |-> "none", arg |-> 0, id |-> 0]]
    BY <1>5 DEF Store!Release, Store!Ends, Store!Resting, Store!NoClaim, Store!messageRows
  <2>2. /\ lease' \in [fence : Nat, token : Nat, expires : Nat, released : BOOLEAN]
        /\ lease'.fence = lease.fence /\ lease'.token = lease.token
    BY <1>0, <2>1
  <2>3. StoreTyped'
    BY <2>1, <2>2 DEF StoreInv, StoreTyped, Claimed
  <2>4. /\ held'[w].token = 0 /\ held'[w].fence = 0
        /\ \A v \in Strategists \ {w} : held'[v] = held[v]
    BY <1>0, <2>1
  <2>5. ClaimsAreCounted'
    BY <1>0, <2>2, <2>4 DEF StoreInv, ClaimsAreCounted, Claimed
  <2>6. \A v \in Strategists : doing'[v] = doing[v] \/ doing'[v].op = "none"
    BY <2>1 DEF StoreInv, StoreTyped
  <2> QED BY <1>1, <2>1, <2>3, <2>5, <2>6 DEF StoreInv
<1> QED BY <1>2, <1>3, <1>4, <1>5

\* A tick, and a strategist that dies: its claim and what it was doing are gone.
LEMMA DyingKeepsStore ==
    ASSUME StoreInv, Store!Tick \/ \E w \in Strategists : Store!Dies(w) PROVE StoreInv'
<1>1. CASE Store!Tick
  BY <1>1 DEF Store!Tick, Store!messageRows, StoreInv, StoreTyped, ClaimsAreCounted, NewestIsLive,
         Numbered, OneRowEach
<1>2. ASSUME NEW w \in Strategists, Store!Dies(w) PROVE StoreInv'
  <2>1. /\ UNCHANGED <<clock, lease, storeDecisions, storeMessages, minted, storeTold>>
        /\ held' = [held EXCEPT ![w] = [fence |-> 0, token |-> 0]]
        /\ doing' = [doing EXCEPT ![w] = [op |-> "none", arg |-> 0, id |-> 0]]
    BY <1>2 DEF Store!Dies, Store!Ends, Store!Resting, Store!NoClaim, Store!messageRows
  <2>2. StoreTyped'
    BY <2>1 DEF StoreInv, StoreTyped, Claimed
  <2>3. /\ held'[w].token = 0 /\ held'[w].fence = 0
        /\ \A v \in Strategists \ {w} : held'[v] = held[v]
    BY <2>1 DEF StoreInv, StoreTyped
  <2>4. lease.token \in Nat
    BY DEF StoreInv, StoreTyped
  <2>5. ClaimsAreCounted'
    BY <2>1, <2>3, <2>4 DEF StoreInv, ClaimsAreCounted, Claimed
  <2>6. \A v \in Strategists : doing'[v] = doing[v] \/ doing'[v].op = "none"
    BY <2>1 DEF StoreInv, StoreTyped
  <2> QED BY <2>1, <2>2, <2>5, <2>6 DEF StoreInv, NewestIsLive, Numbered, OneRowEach
<1> QED BY <1>1, <1>2
\* The store counts as everyone does.
LEMMA StoreCounts == ASSUME NEW S PROVE Store!Cardinality(S) = Cardinality(S)
  BY DEF Store!Cardinality, Cardinality

\* The first answer, the answer that replaces one, and the mark on what it replaced.
LEMMA AnswersKeepStore ==
    ASSUME StoreInv, NEW w \in Strategists,
           Store!Decide(w) \/ Store!Supersede(w) \/ Store!Mark(w)
    PROVE  StoreInv'
<1>1. PICK n \in Nat :
          /\ Numbered(n)
          /\ n = 0 <=> storeDecisions = <<>>
          /\ n # 0 => storeDecisions[n].status = "DECIDED"
          /\ \A d \in 1..n : storeDecisions[d].by # 0 =>
                 storeDecisions[d].by \in 1..n /\ storeDecisions[storeDecisions[d].by].supersedes = d
          /\ \A v \in Strategists : doing[v].op = "mark" =>
                 /\ doing[v].arg \in 1..n /\ doing[v].id \in 1..n /\ doing[v].arg < doing[v].id
                 /\ storeDecisions[doing[v].id].supersedes = doing[v].arg
  BY DEF StoreInv, NewestIsLive
<1>2. UNCHANGED <<clock, lease, held, storeMessages, minted, storeTold>>
  BY DEF Store!Decide, Store!Supersede, Store!Mark, Store!leaseRows, Store!messageRows
<1>3. ClaimsAreCounted'
  BY <1>2 DEF StoreInv, ClaimsAreCounted
<1>4. CASE Store!Decide(w)
  <2>1. n = 0 /\ storeDecisions' = <<[status |-> "DECIDED", supersedes |-> 0, by |-> 0]>>
        /\ UNCHANGED doing
    BY <1>1, <1>4 DEF Store!Decide, Store!Decided
  <2>2. Numbered(1)' /\ storeDecisions' # <<>> /\ storeDecisions'[1].status = "DECIDED"
        /\ \A d \in 1..1 : storeDecisions'[d].by = 0
    BY <2>1 DEF Numbered, Answered
  <2>3. \A v \in Strategists : doing'[v].op # "mark"
    BY <1>1, <2>1
  <2>4. NewestIsLive'
    BY <2>2, <2>3 DEF NewestIsLive
  <2>5. StoreTyped' /\ OneRowEach'
    BY <1>2, <2>1 DEF StoreInv, StoreTyped, OneRowEach
  <2> QED BY <1>3, <2>4, <2>5 DEF StoreInv
<1>5. CASE Store!Supersede(w)
  <2>1. PICK m \in Nat : m = n + 1
    BY <1>1
  <2>2. Store!Fresh = m
    <3>1. DOMAIN storeDecisions = 1..n
      BY <1>1 DEF Numbered
    <3>2. Cardinality(1..n) = n
      <4>1. Cardinality(1..n) = IF 1 > n THEN 0 ELSE n - 1 + 1
        BY <1>1, FS_Interval
      <4> QED BY <1>1, <4>1
    <3>3. Store!Cardinality(1..n) = n
      BY <3>2, StoreCounts
    <3> QED BY <2>1, <3>1, <3>3 DEF Store!Fresh, Store!DecisionIds
  <2>3. PICK prev \in 1..n :
            /\ storeDecisions' = [d \in 1..m |->
                  IF d = m THEN [status |-> "DECIDED", supersedes |-> prev, by |-> 0]
                  ELSE storeDecisions[d]]
            /\ doing' = [doing EXCEPT ![w] = [op |-> "mark", arg |-> prev, id |-> m]]
    <3>1. (1..n) \cup {m} = 1..m
      BY <2>1
    <3>2. PICK prev \in DOMAIN storeDecisions :
              /\ storeDecisions' = [d \in (DOMAIN storeDecisions) \cup {m} |->
                    IF d = m THEN [status |-> "DECIDED", supersedes |-> prev, by |-> 0]
                    ELSE storeDecisions[d]]
              /\ doing' = [doing EXCEPT ![w] = [op |-> "mark", arg |-> prev, id |-> m]]
      BY <1>5, <2>2, Zenon DEF Store!Supersede, Store!Starts, Store!Decided, Store!DecisionIds
    <3> QED BY <1>1, <3>1, <3>2, Zenon DEF Numbered
  <2>4. /\ storeDecisions'[m] = [status |-> "DECIDED", supersedes |-> prev, by |-> 0]
        /\ \A d \in 1..n : storeDecisions'[d] = storeDecisions[d]
        /\ DOMAIN storeDecisions' = 1..m /\ m # 0 /\ 1..n \subseteq 1..m /\ m \in 1..m
        /\ \A d \in 1..m : d = m \/ d \in 1..n
    BY <2>1, <2>3
  <2>5. Numbered(m)' /\ storeDecisions' # <<>>
    BY <1>1, <2>1, <2>4 DEF Numbered, Answered
  <2>6. \A d \in 1..m : storeDecisions'[d].by # 0 =>
            storeDecisions'[d].by \in 1..m /\ storeDecisions'[storeDecisions'[d].by].supersedes = d
    <3> SUFFICES ASSUME NEW d \in 1..m, storeDecisions'[d].by # 0
                 PROVE  /\ storeDecisions'[d].by \in 1..m
                        /\ storeDecisions'[storeDecisions'[d].by].supersedes = d
      OBVIOUS
    <3>1. d \in 1..n /\ storeDecisions'[d] = storeDecisions[d]
      BY <2>4
    <3>2. /\ storeDecisions[d].by \in 1..n
          /\ storeDecisions'[storeDecisions[d].by] = storeDecisions[storeDecisions[d].by]
          /\ storeDecisions[storeDecisions[d].by].supersedes = d
      BY <1>1, <2>4, <3>1
    <3> QED BY <2>4, <3>1, <3>2
  <2>7. doing'[w] = [op |-> "mark", arg |-> prev, id |-> m]
        /\ \A v \in Strategists \ {w} : doing'[v] = doing[v]
    BY <2>3 DEF StoreInv, StoreTyped
  <2>8. prev < m
    BY <2>1, <2>3
  <2>9. \A v \in Strategists : doing'[v].op = "mark" =>
            /\ doing'[v].arg \in 1..m /\ doing'[v].id \in 1..m /\ doing'[v].arg < doing'[v].id
            /\ storeDecisions'[doing'[v].id].supersedes = doing'[v].arg
    <3> SUFFICES ASSUME NEW v \in Strategists, doing'[v].op = "mark"
                 PROVE  /\ doing'[v].arg \in 1..m /\ doing'[v].id \in 1..m
                        /\ doing'[v].arg < doing'[v].id
                        /\ storeDecisions'[doing'[v].id].supersedes = doing'[v].arg
      OBVIOUS
    <3>1. CASE v = w
      BY <2>3, <2>4, <2>7, <2>8, <3>1
    <3>2. CASE v # w
      <4>1. doing'[v] = doing[v] /\ doing[v].op = "mark"
        BY <2>7, <3>2
      <4>2. /\ doing[v].arg \in 1..n /\ doing[v].id \in 1..n /\ doing[v].arg < doing[v].id
            /\ storeDecisions[doing[v].id].supersedes = doing[v].arg
        BY <1>1, <4>1
      <4>3. storeDecisions'[doing[v].id] = storeDecisions[doing[v].id]
        BY <2>4, <4>2
      <4> QED BY <2>4, <4>1, <4>2, <4>3
    <3> QED BY <3>1, <3>2
  <2>10. NewestIsLive'
    BY <2>4, <2>5, <2>6, <2>9 DEF NewestIsLive
  <2>11. StoreTyped'
    BY <1>2, <2>1, <2>3 DEF StoreInv, StoreTyped
  <2>12. OneRowEach'
    BY <1>2, <2>7 DEF StoreInv, OneRowEach
  <2> QED BY <1>3, <2>10, <2>11, <2>12 DEF StoreInv
<1>6. CASE Store!Mark(w)
  <2> DEFINE a == doing[w].arg
             i == doing[w].id
  <2>1. a \in 1..n /\ i \in 1..n /\ a < i /\ storeDecisions[i].supersedes = a /\ n # 0
    BY <1>1, <1>6 DEF Store!Mark
  <2>2. /\ storeDecisions' = [storeDecisions EXCEPT ![a] =
               [storeDecisions[a] EXCEPT !.status = "SUPERSEDED", !.by = i]]
        /\ doing' = [doing EXCEPT ![w] = [op |-> "none", arg |-> 0, id |-> 0]]
    BY <1>1, <1>6, <2>1 DEF Store!Mark, Store!Ends, Store!Resting, Numbered
  <2> HIDE DEF a, i
  <2>3. storeDecisions[a] \in Answered
    BY <1>1, <2>1 DEF Numbered
  <2>4. /\ storeDecisions'[a] \in Answered /\ storeDecisions'[a].by = i
        /\ storeDecisions'[a].supersedes = storeDecisions[a].supersedes
        /\ \A d \in 1..n \ {a} : storeDecisions'[d] = storeDecisions[d]
        /\ DOMAIN storeDecisions' = 1..n
    <3>1. /\ storeDecisions'[a] = [storeDecisions[a] EXCEPT !.status = "SUPERSEDED", !.by = i]
          /\ \A d \in 1..n \ {a} : storeDecisions'[d] = storeDecisions[d]
          /\ DOMAIN storeDecisions' = 1..n
      BY <1>1, <2>1, <2>2 DEF Numbered
    <3>2. i \in Nat
      BY <2>1
    <3> QED BY <2>3, <3>1, <3>2 DEF Answered
  <2>5. /\ Numbered(n)' /\ storeDecisions' # <<>> /\ a # n /\ n \in 1..n
        /\ \A d \in 1..n : storeDecisions'[d].supersedes = storeDecisions[d].supersedes
    BY <1>1, <2>1, <2>4 DEF Numbered
  <2>6. \A d \in 1..n : storeDecisions'[d].by # 0 =>
            storeDecisions'[d].by \in 1..n /\ storeDecisions'[storeDecisions'[d].by].supersedes = d
    BY <1>1, <2>1, <2>4, <2>5
  <2>7. /\ doing'[w] = [op |-> "none", arg |-> 0, id |-> 0]
        /\ \A v \in Strategists \ {w} : doing'[v] = doing[v]
    BY <2>2 DEF StoreInv, StoreTyped
  <2>8. \A v \in Strategists : doing'[v].op = "mark" =>
            /\ doing'[v].arg \in 1..n /\ doing'[v].id \in 1..n /\ doing'[v].arg < doing'[v].id
            /\ storeDecisions'[doing'[v].id].supersedes = doing'[v].arg
    BY <1>1, <2>5, <2>7
  <2>9. NewestIsLive'
    BY <1>1, <2>1, <2>4, <2>5, <2>6, <2>8 DEF NewestIsLive
  <2>10. StoreTyped'
    BY <1>2, <2>2 DEF StoreInv, StoreTyped
  <2>11. OneRowEach'
    BY <1>2, <2>7 DEF StoreInv, OneRowEach
  <2> QED BY <1>3, <2>9, <2>10, <2>11 DEF StoreInv
<1> QED BY <1>4, <1>5, <1>6

\* A message looked up, and a message inserted under the unique index.
LEMMA MessagesKeepStore ==
    ASSUME StoreInv, NEW w \in Strategists, Store!LookUp(w) \/ Store!Insert(w)
    PROVE  StoreInv'
<1>1. UNCHANGED <<clock, lease, held, storeDecisions>>
  BY DEF Store!LookUp, Store!Insert, Store!leaseRows
<1>2. ClaimsAreCounted'
  BY <1>1 DEF StoreInv, ClaimsAreCounted
<1>3. ASSUME \A v \in Strategists : doing'[v] = doing[v] \/ doing'[v].op \in {"none", "insert"}
      PROVE  NewestIsLive'
  BY <1>1, <1>3 DEF StoreInv, NewestIsLive, Numbered
<1>4. CASE Store!LookUp(w)
  <2>1. PICK g \in Digests :
            /\ minted' = minted + 1 /\ UNCHANGED storeMessages
            /\ \/ /\ doing' = [doing EXCEPT ![w] = [op |-> "insert", arg |-> g, id |-> minted + 1]]
                  /\ UNCHANGED storeTold
               \/ /\ \E id \in storeMessages[g] :
                         storeTold' = storeTold \cup {[digest |-> g, id |-> id, stored |-> FALSE]}
                  /\ UNCHANGED doing
    BY <1>4 DEF Store!LookUp, Store!Starts, Store!Tells
  <2>2. minted' \in Nat
    BY <2>1 DEF StoreInv, StoreTyped
  <2>3. doing' \in [Strategists -> [op : {"none", "release", "mark", "insert"},
                                    arg : Nat \cup Digests, id : Nat]]
        /\ \A v \in Strategists : 
               \/ doing'[v] = doing[v]
               \/ doing'[v].op = "insert" /\ doing'[v].arg \in Digests
    BY <2>1, <2>2 DEF StoreInv, StoreTyped
  <2>4. StoreTyped' /\ NewestIsLive'
    BY <1>1, <1>3, <2>1, <2>2, <2>3 DEF StoreInv, StoreTyped
  <2>5. \A b \in storeTold' : b.digest \in Digests /\ storeMessages[b.digest] = {b.id}
    BY <2>1 DEF StoreInv, OneRowEach
  <2>6. OneRowEach'
    BY <2>1, <2>3, <2>5 DEF StoreInv, OneRowEach
  <2> QED BY <1>2, <2>4, <2>6 DEF StoreInv
<1>5. CASE Store!Insert(w)
  <2> DEFINE g == doing[w].arg
             n == doing[w].id
  <2>1. g \in Digests
    BY <1>5 DEF Store!Insert, StoreInv, OneRowEach
  <2>2. /\ UNCHANGED minted /\ doing' = [doing EXCEPT ![w] = [op |-> "none", arg |-> 0, id |-> 0]]
        /\ \/ /\ storeMessages[g] = {}
              /\ storeMessages' = [storeMessages EXCEPT ![g] = {n}]
              /\ storeTold' = storeTold \cup {[digest |-> g, id |-> n, stored |-> TRUE]}
           \/ /\ UNCHANGED storeMessages
              /\ \E id \in storeMessages[g] :
                     storeTold' = storeTold \cup {[digest |-> g, id |-> id, stored |-> FALSE]}
    BY <1>5 DEF Store!Insert, Store!Ends, Store!Resting, Store!Tells
  <2> HIDE DEF g, n
  <2>3. doing' \in [Strategists -> [op : {"none", "release", "mark", "insert"},
                                    arg : Nat \cup Digests, id : Nat]]
        /\ \A v \in Strategists : doing'[v] = doing[v] \/ doing'[v].op = "none"
    BY <2>2 DEF StoreInv, StoreTyped
  <2>4. StoreTyped' /\ NewestIsLive'
    BY <1>1, <1>3, <2>2, <2>3 DEF StoreInv, StoreTyped
  <2>5. \A h \in Digests : \A x, y \in storeMessages'[h] : x = y
    BY <2>2 DEF StoreInv, StoreTyped, OneRowEach
  <2>6. \A b \in storeTold' : b.digest \in Digests /\ storeMessages'[b.digest] = {b.id}
    <3>1. \A b \in storeTold : b.digest \in Digests /\ storeMessages[b.digest] = {b.id}
      BY DEF StoreInv, OneRowEach
    <3>2. CASE storeMessages[g] = {} /\ storeMessages' = [storeMessages EXCEPT ![g] = {n}]
               /\ storeTold' = storeTold \cup {[digest |-> g, id |-> n, stored |-> TRUE]}
      <4>1. storeMessages'[g] = {n}
            /\ \A h \in Digests \ {g} : storeMessages'[h] = storeMessages[h]
        BY <2>1, <3>2 DEF StoreInv, StoreTyped
      <4>2. \A b \in storeTold : b.digest # g
        BY <3>1, <3>2
      <4> QED BY <2>1, <3>1, <3>2, <4>1, <4>2
    <3>3. ASSUME UNCHANGED storeMessages, NEW id \in storeMessages[g],
                 storeTold' = storeTold \cup {[digest |-> g, id |-> id, stored |-> FALSE]}
          PROVE  \A b \in storeTold' : b.digest \in Digests /\ storeMessages'[b.digest] = {b.id}
      <4>1. storeMessages[g] = {id}
        BY <2>1, <3>3 DEF StoreInv, OneRowEach
      <4> QED BY <2>1, <3>1, <3>3, <4>1
    <3> QED BY <2>2, <3>2, <3>3
  <2>7. OneRowEach'
    BY <2>3, <2>5, <2>6 DEF StoreInv, OneRowEach
  <2> QED BY <1>2, <2>4, <2>7 DEF StoreInv
<1> QED BY <1>4, <1>5

LEMMA StepKeepsStore ==
    ASSUME StoreInv, Store!StoreNext \/ UNCHANGED StoreState PROVE StoreInv'
<1>1. CASE UNCHANGED StoreState
  BY <1>1 DEF StoreState, StoreInv, StoreTyped, ClaimsAreCounted, NewestIsLive, Numbered, OneRowEach
<1> QED BY <1>1, LeaseKeepsStore, DyingKeepsStore, AnswersKeepStore, MessagesKeepStore DEF Store!StoreNext

-----------------------------------------------------------------------------
(* A plan's admission and adoption.                                          *)

\* The lanes of a proposal are a sequence.
ProposalTyped == plan.lanes \in Seq(Plan!Range(plan.lanes))

\* Nothing is adopted before the proposal was judged, and what is adopted had no errors.
KeysDiffer == \A l, m \in Plan!Lanes : l.key = m.key => l = m

Admission ==
    /\ stage \in {"none", "shape", "sorting"} => planDoc = "" /\ laneMap = <<>> /\ requires = {}
    /\ stage = "sorting" /\ errors = {} => KeysDiffer
    /\ planDoc # "" => KeysDiffer
    /\ stage = "lanes" => planDoc = "PENDING"
    /\ planDoc = "ADOPTED" =>
           /\ stage = "judged" /\ DOMAIN laneMap = Plan!PlanKeys
           /\ Plan!Rows \subseteq requires

\* A lane id is minted once; a row that joins two lanes of this adoption is the proposal's,
\* and was written when all its lanes had their ids.
Wiring ==
    /\ laneRows \in Nat
    /\ \A k \in DOMAIN laneMap : laneMap[k] \in 1..laneRows
    /\ \A j, k \in DOMAIN laneMap : laneMap[j] = laneMap[k] => j = k
    /\ requires \subseteq (1..laneRows) \X (1..laneRows)
    /\ \A j, k \in DOMAIN laneMap : <<laneMap[j], laneMap[k]>> \in requires =>
           DOMAIN laneMap = Plan!PlanKeys /\ <<laneMap[j], laneMap[k]>> \in Plan!Rows

PlanInv == ProposalTyped /\ Admission /\ Wiring

LEMMA PlanImplies == ASSUME PlanInv PROVE Plan!AdoptedIsWhole
<1> SUFFICES ASSUME planDoc = "ADOPTED", NEW l \in Plan!Lanes, NEW d \in Plan!PlanKeys
             PROVE  <<laneMap[l.key], laneMap[d]>> \in requires <=> d \in Plan!Range(l.deps)
  BY DEF Plan!AdoptedIsWhole, PlanInv, Admission
<1>1. /\ DOMAIN laneMap = Plan!PlanKeys /\ l.key \in Plan!PlanKeys
      /\ KeysDiffer /\ Plan!Rows \subseteq requires
  BY DEF PlanInv, Admission, Plan!PlanKeys
<1>2. ASSUME <<laneMap[l.key], laneMap[d]>> \in requires PROVE d \in Plan!Range(l.deps)
  <2>1. <<laneMap[l.key], laneMap[d]>> \in Plan!Rows
    BY <1>1, <1>2 DEF PlanInv, Wiring
  <2>2. PICK m \in Plan!Lanes :
            \E e \in Plan!Range(m.deps) \cap Plan!PlanKeys :
                <<laneMap[l.key], laneMap[d]>> = <<laneMap[m.key], laneMap[e]>>
    BY <2>1 DEF Plan!Rows
  <2>3. PICK e \in Plan!Range(m.deps) \cap Plan!PlanKeys :
            laneMap[l.key] = laneMap[m.key] /\ laneMap[d] = laneMap[e]
    BY <2>2
  <2>4. m.key \in Plan!PlanKeys
    BY DEF Plan!PlanKeys
  <2>5. l.key = m.key /\ d = e
    BY <1>1, <2>3, <2>4 DEF PlanInv, Wiring
  <2> QED BY <1>1, <2>3, <2>5 DEF KeysDiffer
<1>3. ASSUME d \in Plan!Range(l.deps) PROVE <<laneMap[l.key], laneMap[d]>> \in requires
  BY <1>1, <1>3 DEF Plan!Rows
<1> QED BY <1>2, <1>3

LEMMA PlanStarts == ASSUME Plan!PlanInit PROVE PlanInv
<1>0. (\A S : <<>> \in Seq(S)) /\ DOMAIN <<>> = {}
  OBVIOUS
<1>1. ProposalTyped
  BY <1>0 DEF Plan!PlanInit, Plan!NoPlan, ProposalTyped
<1>2. Admission
  BY DEF Plan!PlanInit, Admission
<1>3. Wiring
  BY <1>0 DEF Plan!PlanInit, Wiring
<1> QED BY <1>1, <1>2, <1>3 DEF PlanInv

LEMMA PlanCounts == ASSUME NEW S PROVE Plan!Cardinality(S) = Cardinality(S)
  BY DEF Plan!Cardinality, Cardinality

\* As many keys as lanes: no key is used twice.
LEMMA KeysCounted ==
    ASSUME ProposalTyped, Plan!LaneErrors = {} PROVE KeysDiffer
<1>1. PICK n \in Nat : n = Len(plan.lanes) /\ plan.lanes \in [1..n -> Plan!Range(plan.lanes)]
  BY DEF ProposalTyped
<1>2. Len(plan.lanes) = n
  BY <1>1
<1>3. ~(Cardinality(Plan!PlanKeys) < n)
  BY <1>2, PlanCounts DEF Plan!LaneErrors
<1> DEFINE f == [i \in 1..n |-> plan.lanes[i].key]
<1>4. f \in Surjection(1..n, Plan!PlanKeys)
  BY <1>1 DEF Surjection, Plan!PlanKeys, Plan!Lanes, Plan!Range
<1>5. IsFiniteSet(1..n) /\ Cardinality(1..n) = n
  BY FS_Interval
<1>6. Cardinality(Plan!PlanKeys) \in Nat /\ Cardinality(Plan!PlanKeys) <= n
  BY <1>4, <1>5, FS_Surjection, FS_CardinalityType
<1>7. f \in Injection(1..n, Plan!PlanKeys)
  <2>1. Cardinality(Plan!PlanKeys) = Cardinality(1..n)
    BY <1>3, <1>5, <1>6
  <2> HIDE DEF f
  <2> QED BY <1>4, <1>5, <2>1, FS_Surjection
<1>8. ASSUME NEW l \in Plan!Lanes, NEW m \in Plan!Lanes, l.key = m.key PROVE l = m
  <2>1. PICK i \in 1..n : l = plan.lanes[i]
    BY <1>1 DEF Plan!Lanes, Plan!Range
  <2>2. PICK j \in 1..n : m = plan.lanes[j]
    BY <1>1 DEF Plan!Lanes, Plan!Range
  <2>3. f[i] = f[j]
    BY <1>8, <2>1, <2>2
  <2>4. i = j
    BY <1>7, <2>3 DEF Injection, IsInjective
  <2> QED BY <2>1, <2>2, <2>4
<1> QED BY <1>8 DEF KeysDiffer

LEMMA ValidationKeepsPlan ==
    ASSUME PlanInv, Plan!Propose \/ Plan!Validate \/ Plan!Sort \/ Plan!Judge
    PROVE  PlanInv'
<1>1. CASE Plan!Propose
  <2>1. stage = "none" /\ plan' \in Plan!Plans /\ stage' = "shape"
        /\ UNCHANGED <<kahn, errors, planDoc, laneMap, laneRows, requires, adoptions>>
    BY <1>1 DEF Plan!Propose, Plan!adopted
  <2>2. ProposalTyped'
    <3>1. ASSUME NEW k \in Plan!KeyLists, NEW t, NEW d \in [Plan!Keys -> Plan!DepLists],
                 plan' = Plan!Proposal(k, t, d)
          PROVE  ProposalTyped'
      <4>1. DOMAIN plan'.lanes = 1..LaneCount
        BY <3>1 DEF Plan!Keys, Plan!Proposal
      <4>2. plan'.lanes \in [1..LaneCount -> Plan!Range(plan'.lanes)]
        BY <3>1, <4>1 DEF Plan!Range, Plan!Keys, Plan!Proposal
      <4> QED BY <4>2, LanesAssumption DEF ProposalTyped
    <3>2. ASSUME NEW x, plan'.lanes = <<>> \/ plan'.lanes = <<x>> PROVE ProposalTyped'
      <4>1. (\A S : <<>> \in Seq(S)) /\ \A S : x \in S => <<x>> \in Seq(S)
        OBVIOUS
      <4>2. plan'.lanes = <<x>> => x \in Plan!Range(plan'.lanes)
        BY DEF Plan!Range
      <4> QED BY <3>2, <4>1, <4>2 DEF ProposalTyped
    <3>3. CASE plan' \in {[field |-> f, lanes |-> l] : f \in {"authority", "other"},
                     l \in {<<>>, <<Plan!PlanLane(1, <<"implementation", "listed">>, <<>>)>>}}
      BY <3>2, <3>3
    <3>4. CASE plan' \in {Plan!Proposal(k, t, d) : k \in Plan!KeyLists, t \in Plan!Shapes,
                                                   d \in [Plan!Keys -> Plan!DepLists]}
      BY <3>1, <3>4
    <3> QED BY <2>1, <3>3, <3>4 DEF Plan!Plans
  <2>3. planDoc = "" /\ laneMap = <<>> /\ requires = {}
    BY <2>1 DEF PlanInv, Admission
  <2>4. Admission'
    BY <2>1, <2>3 DEF Admission
  <2>5. Wiring'
    BY <2>1, <2>3 DEF PlanInv, Wiring
  <2> QED BY <2>2, <2>4, <2>5 DEF PlanInv
<1>2. CASE Plan!Validate
  <2>1. stage = "shape" /\ UNCHANGED <<plan, planDoc, laneMap, laneRows, requires, adoptions>>
        /\ stage' \in {"judged", "sorting"}
    BY <1>2 DEF Plan!Validate, Plan!adopted
  <2>2. planDoc = "" /\ laneMap = <<>> /\ requires = {} /\ ProposalTyped
    BY <2>1 DEF PlanInv, Admission
  <2>3. ASSUME stage' = "sorting", errors' = {} PROVE KeysDiffer
    BY <1>2, <2>2, <2>3, KeysCounted DEF Plan!Validate
  <2>4. Admission'
    BY <2>1, <2>2, <2>3 DEF Admission, KeysDiffer, Plan!Lanes
  <2>5. Wiring' /\ ProposalTyped'
    BY <2>1, <2>2 DEF PlanInv, Wiring, ProposalTyped
  <2> QED BY <2>4, <2>5 DEF PlanInv
<1>3. CASE Plan!Sort
  BY <1>3 DEF Plan!Sort, Plan!adopted, PlanInv, ProposalTyped, Admission, Wiring, KeysDiffer, Plan!Lanes,
         Plan!PlanKeys, Plan!Rows
<1>4. CASE Plan!Judge
  <2>1. stage = "sorting" /\ stage' = "judged" /\ UNCHANGED <<plan, laneMap, laneRows, requires>>
        /\ planDoc' \in {"", "PENDING"} /\ (planDoc' # "" => errors = {})
    BY <1>4 DEF Plan!Judge
  <2>2. laneMap = <<>> /\ requires = {}
    BY <2>1 DEF PlanInv, Admission
  <2>3. Admission'
    BY <2>1, <2>2 DEF PlanInv, Admission, KeysDiffer, Plan!Lanes
  <2>4. Wiring' /\ ProposalTyped'
    BY <2>1, <2>2 DEF PlanInv, Wiring, ProposalTyped
  <2> QED BY <2>3, <2>4 DEF PlanInv
<1> QED BY <1>1, <1>2, <1>3, <1>4

LEMMA AdoptionKeepsPlan ==
    ASSUME PlanInv,
           \/ Plan!Adopt \/ Plan!PlanOneLane \/ Plan!Wire
           \/ Plan!WireRaises \/ Plan!Record \/ Plan!AdopterDies
    PROVE  PlanInv'
<1>1. /\ UNCHANGED <<plan, errors>> /\ stage \in {"judged", "lanes"} /\ stage' \in {"judged", "lanes"}
      /\ ProposalTyped'
  BY DEF Plan!Adopt, Plan!PlanOneLane, Plan!Wire, Plan!WireRaises, Plan!Record, Plan!AdopterDies,
         Plan!adopted, PlanInv, ProposalTyped
<1>2. KeysDiffer' = KeysDiffer /\ Plan!PlanKeys' = Plan!PlanKeys
  BY <1>1 DEF KeysDiffer, Plan!PlanKeys, Plan!Lanes
<1>3. CASE Plan!Adopt
  <2>1. planDoc = "PENDING" /\ laneMap' = <<>> /\ UNCHANGED <<planDoc, laneRows, requires>>
    BY <1>3 DEF Plan!Adopt
  <2> QED BY <1>1, <1>2, <2>1 DEF PlanInv, Admission, Wiring
<1>4. CASE Plan!PlanOneLane
  <2> DEFINE next == plan.lanes[Plan!Cardinality(DOMAIN laneMap) + 1].key
  <2>1. /\ stage = "lanes" /\ stage' = "lanes" /\ DOMAIN laneMap # Plan!PlanKeys
        /\ laneRows' = laneRows + 1
        /\ laneMap' = [k \in DOMAIN laneMap \cup {next} |->
                          IF k = next THEN laneRows + 1 ELSE laneMap[k]]
        /\ UNCHANGED <<planDoc, requires>>
    BY <1>4 DEF Plan!PlanOneLane
  <2> HIDE DEF next
  <2>2. PICK n \in Nat, m \in Nat :
            /\ n = laneRows /\ m = n + 1
            /\ m \notin 1..n /\ m \in 1..m /\ 1..n \subseteq 1..m
    BY DEF PlanInv, Wiring
  <2>3. /\ DOMAIN laneMap' = DOMAIN laneMap \cup {next} /\ laneMap'[next] = m /\ laneRows' = m
        /\ \A k \in DOMAIN laneMap' : k # next => k \in DOMAIN laneMap /\ laneMap'[k] = laneMap[k]
    BY <2>1, <2>2
  <2>4. /\ \A k \in DOMAIN laneMap : laneMap[k] \in 1..n
        /\ requires \subseteq (1..n) \X (1..n)
        /\ \A j, k \in DOMAIN laneMap : laneMap[j] = laneMap[k] => j = k
        /\ \A j, k \in DOMAIN laneMap : <<laneMap[j], laneMap[k]>> \notin requires
    BY <2>1, <2>2 DEF PlanInv, Wiring
  <2>5. \A j, k \in DOMAIN laneMap' : laneMap'[j] = laneMap'[k] => j = k
    BY <2>2, <2>3, <2>4
  <2>6. \A j, k \in DOMAIN laneMap' : <<laneMap'[j], laneMap'[k]>> \notin requires
    BY <2>2, <2>3, <2>4
  <2>7. /\ \A k \in DOMAIN laneMap' : laneMap'[k] \in 1..m
        /\ requires \subseteq (1..m) \X (1..m)
    BY <2>2, <2>3, <2>4
  <2>8. Wiring'
    BY <2>1, <2>3, <2>5, <2>6, <2>7 DEF Wiring
  <2>9. Admission'
    BY <1>1, <1>2, <2>1 DEF PlanInv, Admission
  <2> QED BY <1>1, <2>8, <2>9 DEF PlanInv
<1>5. CASE Plan!Wire
  <2>1. PICK r \in Plan!Rows :
            /\ stage = "lanes" /\ stage' = "lanes" /\ DOMAIN laneMap = Plan!PlanKeys
            /\ requires' = requires \cup {r} /\ UNCHANGED <<planDoc, laneMap, laneRows>>
    BY <1>5 DEF Plan!Wire
  <2>2. Plan!Rows' = Plan!Rows
    BY <1>1, <2>1 DEF Plan!Rows, Plan!PlanKeys, Plan!Lanes
  <2>3. r \in (1..laneRows) \X (1..laneRows)
    BY <2>1 DEF PlanInv, Wiring, Plan!Rows, Plan!PlanKeys
  <2>4. Wiring'
    BY <1>2, <2>1, <2>2, <2>3 DEF PlanInv, Wiring
  <2>5. Admission'
    BY <1>1, <1>2, <2>1 DEF PlanInv, Admission
  <2> QED BY <1>1, <2>4, <2>5 DEF PlanInv
<1>6. CASE Plan!Record
  <2>1. /\ stage = "lanes" /\ stage' = "judged" /\ DOMAIN laneMap = Plan!PlanKeys
        /\ Plan!Rows \subseteq requires /\ planDoc' = "ADOPTED"
        /\ UNCHANGED <<laneMap, laneRows, requires>>
    BY <1>6 DEF Plan!Record
  <2>2. Plan!Rows' = Plan!Rows
    BY <1>1, <2>1 DEF Plan!Rows, Plan!PlanKeys, Plan!Lanes
  <2>3. KeysDiffer
    BY <2>1, <1>6 DEF PlanInv, Admission
  <2> QED BY <1>1, <1>2, <2>1, <2>2, <2>3 DEF PlanInv, Admission, Wiring
<1>7. CASE Plan!WireRaises \/ Plan!AdopterDies
  <2>1. stage = "lanes" /\ stage' = "judged" /\ UNCHANGED <<planDoc, laneMap, laneRows, requires>>
    BY <1>7 DEF Plan!WireRaises, Plan!AdopterDies, Plan!adopted
  <2>2. Plan!Rows' = Plan!Rows
    BY <1>1, <2>1 DEF Plan!Rows, Plan!PlanKeys, Plan!Lanes
  <2> QED BY <1>1, <1>2, <2>1, <2>2 DEF PlanInv, Admission, Wiring
<1> QED BY <1>3, <1>4, <1>5, <1>6, <1>7

LEMMA StepKeepsPlan ==
    ASSUME PlanInv, Plan!PlanNext \/ UNCHANGED PlanState PROVE PlanInv'
<1>1. CASE UNCHANGED PlanState
  <2>1. /\ UNCHANGED <<plan, stage, errors, planDoc, laneMap, laneRows, requires>>
        /\ Plan!PlanKeys' = Plan!PlanKeys /\ Plan!Rows' = Plan!Rows /\ KeysDiffer' = KeysDiffer
    BY <1>1 DEF PlanState, KeysDiffer, Plan!PlanKeys, Plan!Rows, Plan!Lanes
  <2> QED BY <2>1 DEF PlanInv, ProposalTyped, Admission, Wiring
<1> QED BY <1>1, ValidationKeepsPlan, AdoptionKeepsPlan DEF Plan!PlanNext
\* One claim on a lane passes the fence, a decided question keeps one answer that its
\* replacement names and a message is one row, however many strategists write and die at
\* once; an adopted plan is whole, across adoptions that died half way
\* (core/strategic_store.py, planner.py).
THEOREM RecordsAreWhole == Spec => []RecordsStayWhole
<1> DEFINE Inv == /\ part = "store" => StoreInv
                  /\ part = "plan" => PlanInv
<1>1. Init => Inv
  BY StoreStarts, PlanStarts DEF Init
<1>2. Inv /\ [Next]_vars => Inv'
  <2> SUFFICES ASSUME Inv, [Next]_vars PROVE Inv'
    OBVIOUS
  <2>1. ASSUME part' = "store" PROVE StoreInv'
    BY <2>1, OnePartMoves, StepKeepsStore
  <2>2. ASSUME part' = "plan" PROVE PlanInv'
    BY <2>2, OnePartMoves, StepKeepsPlan
  <2> QED BY <2>1, <2>2
<1>3. Inv => RecordsStayWhole
  BY StoreImplies, PlanImplies DEF RecordsStayWhole
<1> HIDE DEF Inv
<1> QED BY <1>1, <1>2, <1>3, PTL DEF Spec
-----------------------------------------------------------------------------
(* What is measured of a run.                                                *)

Bytes == [Files -> Evidence!Contents]
OpenPhases == {"new", "bound", "spawned", "running", "returned"}

EvidenceTyped ==
    /\ evidenceTree \in [head : Nat \ {0}, branch : {"lane", "other"}, base : Bytes, index : Bytes,
                         disk : Bytes]
    /\ evidencePhase \in OpenPhases \cup {"refused", "invalid", "unproven", "ready"}
    /\ half.ok => half.head \in Nat /\ half.head <= evidenceTree.head

\* While HEAD is where the first reading found it, a path the reading called clean, or
\* tracked and not in its diff, still has in the commit the bytes the worker found.
Baseline ==
    evidenceBefore.ok =>
        /\ evidenceBefore.head \in Nat /\ evidenceBefore.head <= evidenceTree.head
        /\ \A p \in DOMAIN evidenceBefore.diff : evidenceBefore.diff[p] = was[p]
        /\ evidenceBefore.head = evidenceTree.head =>
               \A p \in Files :
                   (\/ p \notin evidenceBefore.paths
                    \/ evidenceBefore.staged[p] # 0 /\ p \notin DOMAIN evidenceBefore.diff)
                       => was[p] = evidenceTree.base[p]

\* A floor that is sound is the number of files of the commit the run is bound to.
FloorIsCounted == evidencePhase # "new" /\ Evidence!Sound(floor) => floor.value = want.held

EvidenceInv ==
    /\ EvidenceTyped /\ Baseline /\ FloorIsCounted
    /\ evidencePhase \in OpenPhases => ~after.ok
    /\ Evidence!CleanClaimsAreTrue /\ Evidence!SameIsSame
    /\ after.ok => evidencePhase # "new"

LEMMA EvidenceImplies ==
    ASSUME EvidenceInv
    PROVE  Evidence!CleanClaimsAreTrue /\ Evidence!SameIsSame /\ Evidence!FloorIsNotLowered
BY DEF EvidenceInv, FloorIsCounted, Evidence!FloorIsNotLowered, Evidence!Judged, Evidence!FloorMet

LEMMA EvidenceStarts == ASSUME Evidence!EvidenceInit PROVE EvidenceInv
<1>1. PICK b \in {[p \in Files |-> 1]} \cup
                 {[p \in Files |-> IF p = q THEN 1 ELSE Evidence!Absent] : q \in Files} :
          \E d \in [Files -> Evidence!Contents] :
              evidenceTree = [head |-> 2, branch |-> "lane", base |-> b, index |-> b, disk |-> d]
  BY DEF Evidence!EvidenceInit
<1>2. b \in Bytes
  BY DEF Bytes, Evidence!Contents, Evidence!Absent
<1>3. /\ evidenceTree \in [head : Nat \ {0}, branch : {"lane", "other"}, base : Bytes, index : Bytes,
                           disk : Bytes]
  BY <1>1, <1>2 DEF Bytes
<1>4. evidencePhase = "new" /\ ~half.ok /\ ~evidenceBefore.ok /\ ~after.ok
  BY DEF Evidence!EvidenceInit, Evidence!NoReading
<1> QED BY <1>3, <1>4 DEF EvidenceInv, EvidenceTyped, OpenPhases, Baseline, FloorIsCounted,
           Evidence!CleanClaimsAreTrue, Evidence!SameIsSame, Evidence!Judged

\* Binding, the second reading of the dispatcher, a reading begun, the child's return.
LEMMA ApproachKeepsEvidence ==
    ASSUME EvidenceInv,
           Evidence!Bind \/ Evidence!Recheck \/ Evidence!BeginReading \/ Evidence!ChildReturns
    PROVE  EvidenceInv'
<1>1. UNCHANGED <<evidenceTree, evidenceBefore, after, was, is>>
  BY DEF Evidence!Bind, Evidence!Recheck, Evidence!BeginReading, Evidence!ChildReturns
<1>2. evidencePhase \in OpenPhases /\ evidencePhase' \in OpenPhases \cup {"refused"} /\ ~after.ok
      /\ evidencePhase' # "new"
  BY DEF Evidence!Bind, Evidence!Recheck, Evidence!BeginReading, Evidence!ChildReturns, OpenPhases,
         EvidenceInv
<1>3. half' = half \/ half' = [ok |-> TRUE, head |-> evidenceTree.head, branch |-> evidenceTree.branch]
  BY DEF Evidence!Bind, Evidence!Recheck, Evidence!BeginReading, Evidence!ChildReturns,
         Evidence!FirstHalf
<1>4. EvidenceTyped'
  BY <1>1, <1>2, <1>3 DEF EvidenceInv, EvidenceTyped
<1>5. Baseline'
  BY <1>1 DEF EvidenceInv, Baseline
<1>6. Evidence!CleanClaimsAreTrue' /\ Evidence!SameIsSame'
  BY <1>1, <1>2 DEF Evidence!CleanClaimsAreTrue, Evidence!SameIsSame, Evidence!Judged, OpenPhases
<1>7. FloorIsCounted'
  <2>1. CASE Evidence!Bind
    <3>1. /\ floor' \in Evidence!Derivations(evidenceTree)
          /\ want' = [head |-> evidenceTree.head, branch |-> evidenceTree.branch,
                      held |-> Evidence!Cardinality({p \in Files : evidenceTree.base[p] # Evidence!Absent})]
      BY <2>1 DEF Evidence!Bind
    <3>2. evidenceTree.head \in Nat
      BY DEF EvidenceInv, EvidenceTyped
    <3> QED BY <3>1, <3>2 DEF FloorIsCounted, Evidence!Sound, Evidence!Derivations
  <2>2. CASE Evidence!Recheck \/ Evidence!BeginReading \/ Evidence!ChildReturns
    <3>1. UNCHANGED <<floor, want>> /\ evidencePhase # "new"
      BY <2>2 DEF Evidence!Recheck, Evidence!BeginReading, Evidence!ChildReturns
    <3> QED BY <3>1 DEF EvidenceInv, FloorIsCounted, Evidence!Sound
  <2> QED BY <2>1, <2>2
<1> QED BY <1>1, <1>2, <1>4, <1>5, <1>6, <1>7 DEF EvidenceInv

\* A reading that fails, and the worker's first reading.
LEMMA FirstReadingKeepsEvidence ==
    ASSUME EvidenceInv, Evidence!ReadBefore \/ Evidence!ReadingFails PROVE EvidenceInv'
<1>1. UNCHANGED <<evidenceTree, want, floor, after, is>> /\ evidencePhase # "new" /\ ~after.ok
  BY DEF Evidence!ReadBefore, Evidence!ReadingFails, EvidenceInv, OpenPhases
<1>2. FloorIsCounted'
  BY <1>1 DEF EvidenceInv, FloorIsCounted, Evidence!Sound
<1>3. evidencePhase' \in {"refused", "running", "invalid", "unproven"} /\ ~half'.ok
  BY DEF Evidence!ReadBefore, Evidence!ReadingFails, Evidence!NoReading
<1>4. EvidenceTyped'
  BY <1>1, <1>3 DEF EvidenceInv, EvidenceTyped, OpenPhases
<1>5. Evidence!CleanClaimsAreTrue' /\ Evidence!SameIsSame'
  BY <1>1, <1>3 DEF Evidence!CleanClaimsAreTrue, Evidence!SameIsSame, Evidence!Judged
<1>6. Baseline'
  <2>1. CASE Evidence!ReadBefore
    <3>1. /\ half.ok /\ half.head \in Nat /\ half.head <= evidenceTree.head
          /\ evidenceBefore' = Evidence!WholeReading(half) /\ was' = evidenceTree.disk
      BY <2>1 DEF Evidence!ReadBefore, EvidenceInv, EvidenceTyped
    <3>2. /\ evidenceBefore'.head = half.head
          /\ evidenceBefore'.paths = Evidence!Dirty(evidenceTree)
          /\ evidenceBefore'.diff = Evidence!Diff(evidenceTree)
          /\ evidenceBefore'.staged = evidenceTree.index
      BY <3>1 DEF Evidence!WholeReading
    <3>3. \A p \in DOMAIN Evidence!Diff(evidenceTree) : Evidence!Diff(evidenceTree)[p] = evidenceTree.disk[p]
      BY DEF Evidence!Diff
    <3>4. \A p \in Files :
              (\/ p \notin Evidence!Dirty(evidenceTree)
               \/ evidenceTree.index[p] # 0 /\ p \notin DOMAIN Evidence!Diff(evidenceTree))
                  => evidenceTree.disk[p] = evidenceTree.base[p]
      BY DEF Evidence!Dirty, Evidence!Diff, Evidence!Absent
    <3> QED BY <1>1, <3>1, <3>2, <3>3, <3>4 DEF Baseline
  <2>2. CASE Evidence!ReadingFails
    <3>1. UNCHANGED <<evidenceBefore, was>>
      BY <2>2 DEF Evidence!ReadingFails
    <3> QED BY <1>1, <3>1 DEF EvidenceInv, Baseline
  <2> QED BY <2>1, <2>2
<1> QED BY <1>1, <1>2, <1>3, <1>4, <1>5, <1>6 DEF EvidenceInv

\* The reading after the child, and its verdict.
LEMMA ReadAfterKeepsEvidence == ASSUME EvidenceInv, Evidence!ReadAfter PROVE EvidenceInv'
<1>1. /\ half.ok /\ evidencePhase = "returned"
      /\ after' = Evidence!WholeReading(half) /\ is' = evidenceTree.disk
      /\ half' = [ok |-> FALSE, torn |-> Evidence!Torn(half)]
      /\ evidencePhase' \in {"invalid", "unproven", "ready"}
      /\ evidencePhase' = "ready" =>
             Evidence!Envelope(evidenceBefore, after', report.claim) = "OK"
      /\ UNCHANGED <<evidenceTree, want, floor, evidenceBefore, was, write, report>>
  BY DEF Evidence!ReadAfter
<1>2. /\ after'.ok /\ after'.head = half.head
      /\ after'.paths = Evidence!Dirty(evidenceTree) /\ after'.diff = Evidence!Diff(evidenceTree)
      /\ after'.staged = evidenceTree.index
  BY <1>1 DEF Evidence!WholeReading
<1>3. ~half'.torn => half.head = evidenceTree.head
  BY <1>1 DEF Evidence!Torn
<1>4. EvidenceTyped' /\ Baseline' /\ FloorIsCounted'
  BY <1>1 DEF EvidenceInv, EvidenceTyped, Baseline, FloorIsCounted, Evidence!Sound
<1>5. Evidence!CleanClaimsAreTrue'
  <2> SUFFICES ASSUME evidencePhase' = "ready", report.claim = "clean", ~half'.torn, NEW p \in Files,
                      was[p] # evidenceTree.disk[p]
               PROVE  p \in evidenceBefore.paths \cap after'.paths
    BY <1>1 DEF Evidence!CleanClaimsAreTrue
  <2>1. /\ evidenceBefore.ok
        /\ Evidence!Disagreements(evidenceBefore, after', "clean") = {}
    BY <1>1 DEF Evidence!Envelope
  <2>2. evidenceBefore.head = after'.head /\ Evidence!ChangedPaths(evidenceBefore, after') = {}
    BY <2>1 DEF Evidence!Disagreements
  <2>3. evidenceBefore.head = evidenceTree.head
    BY <1>2, <1>3, <2>2
  <2>4. p \notin evidenceBefore.paths => was[p] = evidenceTree.base[p]
    BY <2>1, <2>3 DEF EvidenceInv, Baseline
  <2>5. p \notin after'.paths => evidenceTree.disk[p] = evidenceTree.base[p]
    BY <1>2 DEF Evidence!Dirty
  <2>6. p \in evidenceBefore.paths <=> p \in after'.paths
    BY <2>2 DEF Evidence!ChangedPaths
  <2> QED BY <2>4, <2>5, <2>6
<1>6. Evidence!SameIsSame'
  <2> SUFFICES ASSUME evidenceBefore.ok, ~half'.torn,
                      Evidence!Compare(evidenceBefore, after') = "SAME", NEW p \in Files,
                      evidenceBefore.staged[p] # 0, after'.staged[p] # 0
               PROVE  was[p] = evidenceTree.disk[p]
    BY <1>1 DEF Evidence!SameIsSame, Evidence!Judged, Evidence!Absent
  <2>1. Evidence!Fingerprint(evidenceBefore) = Evidence!Fingerprint(after')
    BY <1>2 DEF Evidence!Compare
  <2>2. evidenceBefore.head = after'.head /\ evidenceBefore.diff = after'.diff
    BY <2>1 DEF Evidence!Fingerprint
  <2>3. evidenceBefore.head = evidenceTree.head
    BY <1>2, <1>3, <2>2
  <2>4. CASE p \in DOMAIN after'.diff
    <3>1. evidenceBefore.diff[p] = was[p]
      BY <2>2, <2>4 DEF EvidenceInv, Baseline
    <3>2. after'.diff[p] = evidenceTree.disk[p]
      BY <1>2, <2>4 DEF Evidence!Diff
    <3> QED BY <2>2, <3>1, <3>2
  <2>5. CASE p \notin DOMAIN after'.diff
    <3>1. was[p] = evidenceTree.base[p]
      BY <2>2, <2>3, <2>5 DEF EvidenceInv, Baseline
    <3>2. evidenceTree.disk[p] = evidenceTree.base[p]
      BY <1>2, <2>5 DEF Evidence!Diff, Evidence!Absent
    <3> QED BY <3>1, <3>2
  <2> QED BY <2>4, <2>5
<1>7. evidencePhase' \notin OpenPhases
  BY <1>1 DEF OpenPhases
<1> QED BY <1>4, <1>5, <1>6, <1>7 DEF EvidenceInv, OpenPhases

\* The child, or another session, writes.
LEMMA WritesKeepEvidence == ASSUME EvidenceInv, Evidence!SomebodyWrites PROVE EvidenceInv'
<1>1. /\ evidencePhase \in OpenPhases /\ ~after.ok
      /\ UNCHANGED <<want, floor, half, evidenceBefore, after, was, is, evidencePhase, report>>
  BY DEF Evidence!SomebodyWrites, EvidenceInv, OpenPhases
<1>2. /\ evidenceTree' \in [head : Nat \ {0}, branch : {"lane", "other"}, base : Bytes, index : Bytes,
                            disk : Bytes]
      /\ \/ evidenceTree'.head = evidenceTree.head /\ evidenceTree'.base = evidenceTree.base
         \/ evidenceTree'.head = evidenceTree.head + 1
  <2> DEFINE Trees == [head : Nat \ {0}, branch : {"lane", "other"}, base : Bytes, index : Bytes,
                       disk : Bytes]
  <2>0. /\ evidenceTree \in Trees
        /\ evidenceTree.disk \in Bytes /\ evidenceTree.index \in Bytes
        /\ evidenceTree.head \in Nat \ {0} /\ evidenceTree.head + 1 \in Nat \ {0}
    BY DEF EvidenceInv, EvidenceTyped
  <2>1. ASSUME NEW p \in Files, NEW v \in Evidence!Contents,
               evidenceTree' = [evidenceTree EXCEPT !.disk[p] = v]
        PROVE  evidenceTree' \in Trees /\ evidenceTree'.head = evidenceTree.head
               /\ evidenceTree'.base = evidenceTree.base
    <3>1. [evidenceTree.disk EXCEPT ![p] = v] \in Bytes
      BY <2>0, <2>1 DEF Bytes
    <3>2. evidenceTree' = [evidenceTree EXCEPT !.disk = [evidenceTree.disk EXCEPT ![p] = v]]
      BY <2>0, <2>1
    <3> QED BY <2>0, <3>1, <3>2
  <2>2. ASSUME NEW p \in Files,
               evidenceTree' = [evidenceTree EXCEPT !.index[p] = evidenceTree.disk[p]]
        PROVE  evidenceTree' \in Trees /\ evidenceTree'.head = evidenceTree.head
               /\ evidenceTree'.base = evidenceTree.base
    <3>1. [evidenceTree.index EXCEPT ![p] = evidenceTree.disk[p]] \in Bytes
      BY <2>0, <2>2 DEF Bytes
    <3>2. evidenceTree' = [evidenceTree EXCEPT !.index =
                              [evidenceTree.index EXCEPT ![p] = evidenceTree.disk[p]]]
      BY <2>0, <2>2
    <3> QED BY <2>0, <3>1, <3>2
  <2>3. ASSUME evidenceTree' = [evidenceTree EXCEPT !.base = evidenceTree.index, !.head = @ + 1]
        PROVE  evidenceTree' \in Trees /\ evidenceTree'.head = evidenceTree.head + 1
    BY <2>0, <2>3
  <2>4. ASSUME evidenceTree' = [evidenceTree EXCEPT !.branch = IF @ = "lane" THEN "other" ELSE "lane"]
        PROVE  evidenceTree' \in Trees /\ evidenceTree'.head = evidenceTree.head
               /\ evidenceTree'.base = evidenceTree.base
    BY <2>0, <2>4
  <2> HIDE DEF Trees
  <2>5. \/ \E p \in Files, v \in Evidence!Contents : evidenceTree' = [evidenceTree EXCEPT !.disk[p] = v]
        \/ \E p \in Files : evidenceTree' = [evidenceTree EXCEPT !.index[p] = evidenceTree.disk[p]]
        \/ evidenceTree' = [evidenceTree EXCEPT !.base = evidenceTree.index, !.head = @ + 1]
        \/ evidenceTree' = [evidenceTree EXCEPT !.branch = IF @ = "lane" THEN "other" ELSE "lane"]
    BY DEF Evidence!SomebodyWrites
  <2>6. evidenceTree' \in Trees /\ (\/ evidenceTree'.head = evidenceTree.head /\ evidenceTree'.base = evidenceTree.base
                                    \/ evidenceTree'.head = evidenceTree.head + 1)
    BY <2>1, <2>2, <2>3, <2>4, <2>5, Zenon
  <2> QED BY <2>6 DEF Trees
<1>3. evidenceTree.head \in Nat
  BY DEF EvidenceInv, EvidenceTyped
<1>4. EvidenceTyped'
  BY <1>1, <1>2, <1>3 DEF EvidenceInv, EvidenceTyped
<1>5. Baseline'
  BY <1>1, <1>2, <1>3 DEF EvidenceInv, Baseline
<1>6. FloorIsCounted' /\ Evidence!CleanClaimsAreTrue' /\ Evidence!SameIsSame'
  BY <1>1 DEF EvidenceInv, FloorIsCounted, Evidence!Sound, Evidence!CleanClaimsAreTrue,
         Evidence!SameIsSame, Evidence!Judged, OpenPhases
<1> QED BY <1>1, <1>4, <1>5, <1>6 DEF EvidenceInv

LEMMA StepKeepsEvidence ==
    ASSUME EvidenceInv, Evidence!EvidenceNext \/ UNCHANGED EvidenceState PROVE EvidenceInv'
<1>1. CASE UNCHANGED EvidenceState
  BY <1>1 DEF EvidenceState, EvidenceInv, EvidenceTyped, Baseline, FloorIsCounted, Evidence!Sound,
         Evidence!CleanClaimsAreTrue, Evidence!SameIsSame, Evidence!Judged
<1> QED BY <1>1, ApproachKeepsEvidence, FirstReadingKeepsEvidence, ReadAfterKeepsEvidence,
           WritesKeepEvidence DEF Evidence!EvidenceNext
\* A summary on a stream comes from the suite, or from a suite that one of its tests ran.
LEMMA PassesAreRead ==
    ASSUME NEW s \in Collector!Suites, Collector!Receipt(s) = "PASS"
    PROVE  /\ s.started /\ ~s.timed /\ s.found > 0
           /\ \/ s.quits = "no" /\ s.bad = 0
              \/ s.inner /\ s.quits = "before" /\ s.code = 0
<1> DEFINE whole == [ran |-> s.found, bad |-> s.bad]
           first == [ran |-> 1, bad |-> 0]
           err == Collector!Printed(s, "stderr")
           text == IF err # <<>> THEN err ELSE Collector!Printed(s, "stdout")
<1>1. /\ s.started /\ ~s.timed
      /\ Collector!Classify(text, s.code, 1) = "PASS"
  BY DEF Collector!Receipt
<1>2. /\ text # <<>> /\ s.code = 0
      /\ ~Collector!Parse(text).failed
      /\ ~(Collector!Parse(text).ran < 1 \/ Collector!Parse(text).ran = 0)
  <2> HIDE DEF text
  <2> QED BY <1>1 DEF Collector!Classify
<1>3. /\ s.found \in 0..2 /\ s.bad \in 0..1 /\ s.quits \in {"no", "before", "after"}
      /\ s.inner \in BOOLEAN /\ s.stream \in {"stderr", "stdout"}
      /\ s.inner => s.found > 0
      /\ s.quits = "no" => (s.bad > 0 => s.code = 1)
      /\ s.quits = "after" => s.code = 1
  BY DEF Collector!Suites
<1>4. CASE s.quits = "before"
  <2>1. s.inner
    BY <1>2, <1>4 DEF Collector!Printed
  <2> QED BY <1>1, <1>2, <1>3, <1>4, <2>1
<1>5. CASE s.quits = "no"
  <2>1. s.bad = 0
    BY <1>2, <1>3, <1>5
  <2>2. CASE s.inner
    BY <1>1, <1>3, <1>5, <2>1, <2>2
  <2>3. CASE ~s.inner
    <3>1. text = <<whole>>
      BY <1>3, <1>5, <2>3 DEF Collector!Printed, Collector!Summary
    <3>2. Collector!Parse(text).ran = s.found
      <4> HIDE DEF text
      <4> QED BY <3>1 DEF Collector!Parse
    <3> QED BY <1>1, <1>2, <1>3, <1>5, <2>1, <3>2
  <2> QED BY <2>2, <2>3, <1>3
<1> QED BY <1>2, <1>3, <1>4, <1>5

LEMMA StepKeepsCollector ==
    ASSUME Collector!PassIsMeasured, Collector!CollectorNext \/ UNCHANGED CollectorState
    PROVE  Collector!PassIsMeasured'
<1>1. CASE UNCHANGED CollectorState
  BY <1>1 DEF CollectorState, Collector!PassIsMeasured
<1>2. CASE Collector!RunProfile
  <2> SUFFICES ASSUME receipt' = "PASS"
               PROVE  /\ suite'.started /\ ~suite'.timed /\ suite'.found > 0
                      /\ \/ suite'.quits = "no" /\ suite'.bad = 0
                         \/ suite'.inner /\ suite'.quits = "before" /\ suite'.code = 0
    BY DEF Collector!PassIsMeasured
  <2>1. PICK s \in Collector!Suites : suite' = s /\ Collector!Receipt(s) = "PASS"
    BY <1>2 DEF Collector!RunProfile
  <2> QED BY <2>1, PassesAreRead
<1> QED BY <1>1, <1>2 DEF Collector!CollectorNext

\* What is reported of a run was measured: its clean claims, the sameness of its tracked
\* content, its floor of files and the verdict on its tests, whoever writes to the tree in
\* between (evidence/, core/worker.py, core/dispatcher.py).
THEOREM MeasuredIsTrue == Spec => []MeasuredNotClaimed
<1> DEFINE Inv == /\ part = "evidence" => EvidenceInv
                  /\ part = "collector" => Collector!PassIsMeasured
<1>1. Init => Inv
  BY EvidenceStarts DEF Init, Collector!CollectorInit, Collector!PassIsMeasured
<1>2. Inv /\ [Next]_vars => Inv'
  <2> SUFFICES ASSUME Inv, [Next]_vars PROVE Inv'
    OBVIOUS
  <2>1. ASSUME part' = "evidence" PROVE EvidenceInv'
    BY <2>1, OnePartMoves, StepKeepsEvidence
  <2>2. ASSUME part' = "collector" PROVE Collector!PassIsMeasured'
    BY <2>2, OnePartMoves, StepKeepsCollector
  <2> QED BY <2>1, <2>2
<1>3. Inv => MeasuredNotClaimed
  BY EvidenceImplies DEF MeasuredNotClaimed
<1> HIDE DEF Inv
<1> QED BY <1>1, <1>2, <1>3, PTL DEF Spec
-----------------------------------------------------------------------------
(* The highest of a bounded set of numbers.                                  *)

LEMMA Highest ==
    ASSUME NEW S \in SUBSET Nat, S # {}, NEW n \in Nat, \A x \in S : x <= n
    PROVE  \E m \in S : \A x \in S : x <= m
<1> DEFINE T == {k \in Nat : n - k \in S}
<1>1. T # {} /\ T \subseteq Nat
  <2>1. PICK x \in S : TRUE
    OBVIOUS
  <2>2. n - x \in Nat /\ n - (n - x) = x
    BY <2>1
  <2> QED BY <2>2
<1>2. \E k \in T : \A y \in T : ~(y < k)
  <2> HIDE DEF T
  <2>1. \E k \in T : \A y \in T : ~(<<y, k>> \in OpToRel(<, Nat))
    BY <1>1, NatLessThanWellFounded, WFMin, Zenon
  <2> QED BY <1>1, <2>1, Zenon DEF OpToRel
<1>4. PICK k \in Nat : k \in T /\ \A y \in Nat : y \in T => k <= y
  BY <1>2
<1>3. ASSUME NEW x \in S PROVE x <= n - k
  <2>1. n - x \in Nat /\ n - (n - x) = x
    OBVIOUS
  <2>2. n - x \in T
    BY <2>1
  <2>3. k <= n - x
    BY <1>4, <2>1, <2>2
  <2> QED BY <2>1, <2>3
<1> QED BY <1>4, <1>3

\* The lowest of a set of numbers.
LEMMA Lowest ==
    ASSUME NEW S \in SUBSET Nat, S # {} PROVE \E m \in S : \A x \in S : m <= x
<1>1. \E m \in S : \A x \in S : ~(x < m)
  <2>1. \E m \in S : \A x \in S : ~(<<x, m>> \in OpToRel(<, Nat))
    BY NatLessThanWellFounded, WFMin, Zenon
  <2> QED BY <2>1, Zenon DEF OpToRel
<1> QED BY <1>1
-----------------------------------------------------------------------------
(* The file inbox.                                                           *)

Responses == [task : Nat, of : InboxRuns, at : Nat, complete : BOOLEAN]
InboxPcs == {"idle", "numbered", "polling", "taking", "answered", "failed", "timeout"}

\* Two runs took one number.
Twins(k) == \E v, w \in InboxRuns : v # w /\ Inbox!Took(v, k) /\ Inbox!Took(w, k)

InboxTyped ==
    /\ written \in Nat
    /\ outbox \subseteq Responses /\ consumed \subseteq Responses
    /\ inboxTurn \in [InboxRuns -> [pc : InboxPcs, task : Nat, listed : SUBSET Responses]]
    /\ DOMAIN reply = InboxRuns
    /\ \E n \in Nat : \A k \in DOMAIN tasks \cup {r.task : r \in consumed} : k \in Nat /\ k <= n

\* An envelope is of a run that took its number, and so is a response to it.
NumbersAreTaken ==
    /\ \A k \in DOMAIN tasks : tasks[k] \in InboxRuns /\ Inbox!Took(tasks[k], k)
    /\ \A r \in outbox \cup consumed :
           r.task \in DOMAIN tasks /\ Inbox!Took(r.of, r.task) /\ r.at <= written
    /\ \A t \in InboxRuns : \A r \in inboxTurn[t].listed :
           r.complete /\ r.task \in DOMAIN tasks /\ Inbox!Took(r.of, r.task) /\ r.at <= written

\* A whole response that was read or handed over is in the outbox or moved, unless a twin's
\* took its place; a moved one is not answered again but for a twin.
NothingReturns ==
    /\ \A r \in consumed : \A s \in outbox : r.task = s.task /\ r.complete => Twins(r.task)
    /\ \A t \in InboxRuns : \A r \in inboxTurn[t].listed :
           r \in outbox \cup consumed \/ Twins(r.task)
    /\ \A t \in InboxRuns :
           IF Inbox!At(t, "answered")
           THEN reply[t].complete /\ (reply[t] \in consumed \/ Twins(reply[t].task))
           ELSE ~reply[t].complete
    /\ \A t \in InboxRuns : Inbox!At(t, "taking") => inboxTurn[t].listed # {}

InboxInv == InboxTyped /\ NumbersAreTaken /\ NothingReturns /\ Inbox!HandedOnceAndWhole

LEMMA InboxStarts == ASSUME Inbox!InboxInit PROVE InboxInv
<1>0. DOMAIN <<>> = {}
  OBVIOUS
<1>1. \A t \in InboxRuns : inboxTurn[t] = [pc |-> "idle", task |-> 0, listed |-> {}]
                           /\ ~reply[t].complete
  BY DEF Inbox!InboxInit, Inbox!Waiting, Inbox!NoReply
<1>2. InboxTyped
  <2>1. inboxTurn \in [InboxRuns -> [pc : InboxPcs, task : Nat, listed : SUBSET Responses]]
    BY DEF Inbox!InboxInit, Inbox!Waiting, InboxPcs
  <2> QED BY <1>0, <2>1 DEF Inbox!InboxInit, InboxTyped
<1>3. NumbersAreTaken /\ NothingReturns /\ Inbox!HandedOnceAndWhole
  BY <1>0, <1>1 DEF Inbox!InboxInit, NumbersAreTaken, NothingReturns, Inbox!At, Inbox!HandedOnceAndWhole
<1> QED BY <1>2, <1>3 DEF InboxInv

LEMMA NumberKeepsInbox ==
    ASSUME InboxInv, NEW t \in InboxRuns, Inbox!Number(t) PROVE InboxInv'
<1>1. /\ inboxTurn[t].pc = "idle" /\ UNCHANGED <<tasks, outbox, consumed, reply, written>>
      /\ inboxTurn' = [inboxTurn EXCEPT ![t] = [pc |-> "numbered", task |-> Inbox!NextTask, listed |-> {}]]
  BY DEF Inbox!Number, Inbox!At
<1>2. Inbox!NextTask \in Nat
  <2> DEFINE S == DOMAIN tasks \cup {r.task : r \in consumed} \cup {0}
  <2>1. PICK n \in Nat : \A k \in DOMAIN tasks \cup {r.task : r \in consumed} : k \in Nat /\ k <= n
    BY DEF InboxInv, InboxTyped
  <2>2. S \in SUBSET Nat /\ S # {} /\ \A x \in S : x <= n
    BY <2>1
  <2>3. PICK m \in S : \A x \in S : x <= m
    <3> HIDE DEF S
    <3> QED BY <2>2, Highest
  <2>4. Inbox!Max(S) \in S
    <3>1. \E m_1 \in S : \A x \in S : m_1 >= x
      BY <2>2, <2>3
    <3> HIDE DEF S
    <3> QED BY <3>1 DEF Inbox!Max
  <2> QED BY <2>2, <2>4 DEF Inbox!NextTask
<1>3. inboxTurn' \in [InboxRuns -> [pc : InboxPcs, task : Nat, listed : SUBSET Responses]]
  <2>1. [pc |-> "numbered", task |-> Inbox!NextTask, listed |-> {}]
            \in [pc : InboxPcs, task : Nat, listed : SUBSET Responses]
    BY <1>2 DEF InboxPcs
  <2> QED BY <1>1, <2>1 DEF InboxInv, InboxTyped
<1>4. InboxTyped'
  BY <1>1, <1>3 DEF InboxInv, InboxTyped
<1>5. /\ inboxTurn'[t].pc = "numbered" /\ inboxTurn'[t].listed = {}
      /\ \A u \in InboxRuns \ {t} : inboxTurn'[u] = inboxTurn[u]
  BY <1>1 DEF InboxInv, InboxTyped
<1>6. /\ \A u \in InboxRuns : \A k : Inbox!Took(u, k) => Inbox!Took(u, k)'
      /\ \A k : Twins(k) => Twins(k)'
  BY <1>1, <1>5 DEF Inbox!Took, Inbox!At, Twins
<1>7. NumbersAreTaken'
  <2>1. \A r \in outbox \cup consumed : r.of \in InboxRuns
    BY DEF InboxInv, InboxTyped, Responses
  <2>2. \A u \in InboxRuns : \A r \in inboxTurn[u].listed : r.of \in InboxRuns
    BY DEF InboxInv, InboxTyped, Responses
  <2> QED BY <1>1, <1>5, <1>6, <2>1, <2>2 DEF InboxInv, NumbersAreTaken
<1>8. NothingReturns'
  BY <1>1, <1>5, <1>6 DEF InboxInv, NothingReturns, Inbox!At
<1>9. Inbox!HandedOnceAndWhole'
  <2>1. \A u \in InboxRuns : Inbox!At(u, "answered")' => Inbox!At(u, "answered")
    BY <1>5 DEF Inbox!At
  <2> QED BY <1>1, <1>6, <2>1 DEF InboxInv, Inbox!HandedOnceAndWhole, Twins
<1> QED BY <1>4, <1>7, <1>8, <1>9 DEF InboxInv

LEMMA SendKeepsInbox ==
    ASSUME InboxInv, NEW t \in InboxRuns, Inbox!Send(t) PROVE InboxInv'
<1> DEFINE k == inboxTurn[t].task
<1>1. /\ inboxTurn[t].pc = "numbered" /\ UNCHANGED <<outbox, consumed, reply, written>>
      /\ tasks' = [j \in DOMAIN tasks \cup {k} |-> IF j = k THEN t ELSE tasks[j]]
      /\ inboxTurn' = [inboxTurn EXCEPT ![t].pc = "polling"]
      /\ k \in Nat
  BY DEF Inbox!Send, Inbox!At, InboxInv, InboxTyped
<1> HIDE DEF k
<1>2. /\ inboxTurn' \in [InboxRuns -> [pc : InboxPcs, task : Nat, listed : SUBSET Responses]]
      /\ \A u \in InboxRuns : inboxTurn'[u].task = inboxTurn[u].task
                              /\ inboxTurn'[u].listed = inboxTurn[u].listed
      /\ inboxTurn'[t].pc = "polling" /\ \A u \in InboxRuns \ {t} : inboxTurn'[u] = inboxTurn[u]
  BY <1>1 DEF InboxInv, InboxTyped, InboxPcs
<1>3. /\ \A u \in InboxRuns : \A j : Inbox!Took(u, j) => Inbox!Took(u, j)'
      /\ \A j : Twins(j) => Twins(j)'
  BY <1>1, <1>2 DEF Inbox!Took, Inbox!At, Twins
<1>4. InboxTyped'
  <2>1. PICK n \in Nat : \A j \in DOMAIN tasks \cup {r.task : r \in consumed} : j \in Nat /\ j <= n
    BY DEF InboxInv, InboxTyped
  <2>2. PICK m \in Nat : m = n + k /\ k <= m /\ n <= m
    BY <1>1
  <2>3. \A j \in DOMAIN tasks' \cup {r.task : r \in consumed'} : j \in Nat /\ j <= m
    BY <1>1, <2>1, <2>2
  <2> QED BY <1>1, <1>2, <2>3 DEF InboxInv, InboxTyped
<1>5. NumbersAreTaken'
  <2>1. \A r \in outbox \cup consumed : r.of \in InboxRuns
    BY DEF InboxInv, InboxTyped, Responses
  <2>2. \A u \in InboxRuns : \A r \in inboxTurn[u].listed : r.of \in InboxRuns
    BY DEF InboxInv, InboxTyped, Responses
  <2>4. \A j \in DOMAIN tasks' : tasks'[j] \in InboxRuns /\ Inbox!Took(tasks[j], j)'
    <3> SUFFICES ASSUME NEW j \in DOMAIN tasks'
                 PROVE  /\ tasks'[j] \in InboxRuns
                        /\ inboxTurn'[tasks'[j]].pc # "idle" /\ inboxTurn'[tasks'[j]].task = j
      BY DEF Inbox!Took, Inbox!At
    <3>1. CASE j = k
      BY <1>1, <1>2, <3>1 DEF k
    <3>2. CASE j # k
      <4>1. j \in DOMAIN tasks /\ tasks'[j] = tasks[j]
        BY <1>1, <3>2
      <4>2. tasks[j] \in InboxRuns /\ inboxTurn[tasks[j]].pc # "idle" /\ inboxTurn[tasks[j]].task = j
        BY <4>1 DEF InboxInv, NumbersAreTaken, Inbox!Took, Inbox!At
      <4>3. inboxTurn'[tasks[j]].pc # "idle"
        BY <1>2, <4>2
      <4> QED BY <1>2, <4>1, <4>2, <4>3
    <3> QED BY <3>1, <3>2
  <2>5. DOMAIN tasks \subseteq DOMAIN tasks'
    BY <1>1
  <2>6. \A r \in outbox \cup consumed :
            r.task \in DOMAIN tasks' /\ Inbox!Took(r.of, r.task)' /\ r.at <= written
    BY <1>3, <2>1, <2>5 DEF InboxInv, NumbersAreTaken
  <2>7. \A u \in InboxRuns : \A r \in inboxTurn[u].listed :
            r.complete /\ r.task \in DOMAIN tasks' /\ Inbox!Took(r.of, r.task)' /\ r.at <= written
    BY <1>3, <2>2, <2>5 DEF InboxInv, NumbersAreTaken
  <2> QED BY <1>1, <1>2, <2>4, <2>6, <2>7 DEF NumbersAreTaken
<1>6. NothingReturns'
  BY <1>1, <1>2, <1>3 DEF InboxInv, NothingReturns, Inbox!At
<1>7. Inbox!HandedOnceAndWhole'
  <2>1. \A u \in InboxRuns : Inbox!At(u, "answered")' => Inbox!At(u, "answered")
    BY <1>2 DEF Inbox!At
  <2> QED BY <1>1, <1>3, <2>1 DEF InboxInv, Inbox!HandedOnceAndWhole, Twins
<1> QED BY <1>4, <1>5, <1>6, <1>7 DEF InboxInv

\* The outbox is read, the time is up, or the file was moved by another run.
LEMMA PollKeepsInbox ==
    ASSUME InboxInv, NEW t \in InboxRuns,
           Inbox!Poll(t) \/ Inbox!TakeFails(t) \/ Inbox!Timeout(t)
    PROVE  InboxInv'
<1>1. /\ UNCHANGED <<tasks, outbox, consumed, reply, written>>
      /\ inboxTurn[t].pc \in {"polling", "taking"}
      /\ \/ /\ inboxTurn' = [inboxTurn EXCEPT ![t].pc = "taking", ![t].listed = Inbox!CompletedResponses]
            /\ Inbox!CompletedResponses # {}
         \/ inboxTurn' = [inboxTurn EXCEPT ![t].pc = "failed", ![t].listed = {}]
         \/ inboxTurn' = [inboxTurn EXCEPT ![t].pc = "timeout"]
  BY DEF Inbox!Poll, Inbox!TakeFails, Inbox!Timeout, Inbox!At
<1>2. PICK e \in [pc : InboxPcs, task : Nat, listed : SUBSET Responses] :
          /\ inboxTurn' = [inboxTurn EXCEPT ![t] = e]
          /\ e.task = inboxTurn[t].task /\ e.pc \in {"taking", "failed", "timeout"}
          /\ e.listed \subseteq inboxTurn[t].listed \cup Inbox!CompletedResponses
          /\ e.pc = "taking" => e.listed # {}
  <2>1. /\ inboxTurn[t] \in [pc : InboxPcs, task : Nat, listed : SUBSET Responses]
        /\ inboxTurn \in [InboxRuns -> [pc : InboxPcs, task : Nat, listed : SUBSET Responses]]
        /\ Inbox!CompletedResponses \in SUBSET Responses
    BY DEF InboxInv, InboxTyped, Inbox!CompletedResponses
  <2> DEFINE e1 == [inboxTurn[t] EXCEPT !.pc = "taking", !.listed = Inbox!CompletedResponses]
             e2 == [inboxTurn[t] EXCEPT !.pc = "failed", !.listed = {}]
             e3 == [inboxTurn[t] EXCEPT !.pc = "timeout"]
  <2>2. /\ e1 \in [pc : InboxPcs, task : Nat, listed : SUBSET Responses]
        /\ e1.task = inboxTurn[t].task /\ e1.pc = "taking" /\ e1.listed = Inbox!CompletedResponses
    BY <2>1 DEF InboxPcs
  <2>3. /\ e2 \in [pc : InboxPcs, task : Nat, listed : SUBSET Responses]
        /\ e2.task = inboxTurn[t].task /\ e2.pc = "failed" /\ e2.listed = {}
    BY <2>1 DEF InboxPcs
  <2>4. /\ e3 \in [pc : InboxPcs, task : Nat, listed : SUBSET Responses]
        /\ e3.task = inboxTurn[t].task /\ e3.pc = "timeout" /\ e3.listed = inboxTurn[t].listed
    BY <2>1 DEF InboxPcs
  <2>5. \/ inboxTurn' = [inboxTurn EXCEPT ![t] = e1] /\ Inbox!CompletedResponses # {}
        \/ inboxTurn' = [inboxTurn EXCEPT ![t] = e2]
        \/ inboxTurn' = [inboxTurn EXCEPT ![t] = e3]
    BY <1>1, <2>1
  <2> HIDE DEF e1, e2, e3
  <2> QED BY <2>2, <2>3, <2>4, <2>5
<1>3. /\ inboxTurn' \in [InboxRuns -> [pc : InboxPcs, task : Nat, listed : SUBSET Responses]]
      /\ inboxTurn'[t] = e /\ \A u \in InboxRuns \ {t} : inboxTurn'[u] = inboxTurn[u]
  BY <1>2 DEF InboxInv, InboxTyped
<1>4. /\ \A u \in InboxRuns : \A j : Inbox!Took(u, j) => Inbox!Took(u, j)'
      /\ \A j : Twins(j) => Twins(j)'
  BY <1>2, <1>3 DEF Inbox!Took, Inbox!At, Twins
<1>5. InboxTyped'
  BY <1>1, <1>3 DEF InboxInv, InboxTyped
<1>6. \A r \in Inbox!CompletedResponses :
          r \in outbox /\ r.complete /\ r.task \in DOMAIN tasks
  BY DEF Inbox!CompletedResponses
<1>7. NumbersAreTaken'
  <2>1. \A r \in outbox \cup consumed : r.of \in InboxRuns
    BY DEF InboxInv, InboxTyped, Responses
  <2>2. \A u \in InboxRuns : \A r \in inboxTurn[u].listed : r.of \in InboxRuns
    BY DEF InboxInv, InboxTyped, Responses
  <2>3. \A u \in InboxRuns : \A r \in inboxTurn'[u].listed :
            r.complete /\ r.task \in DOMAIN tasks /\ Inbox!Took(r.of, r.task) /\ r.at <= written
            /\ r.of \in InboxRuns
    BY <1>2, <1>3, <1>6, <2>1, <2>2 DEF InboxInv, NumbersAreTaken
  <2> QED BY <1>1, <1>4, <2>1, <2>3 DEF InboxInv, NumbersAreTaken
<1>8. NothingReturns'
  <2>1. \A u \in InboxRuns : \A r \in inboxTurn'[u].listed : r \in outbox \cup consumed \/ Twins(r.task)
    BY <1>2, <1>3, <1>6 DEF InboxInv, NothingReturns
  <2> QED BY <1>1, <1>2, <1>3, <1>4, <2>1 DEF InboxInv, NothingReturns, Inbox!At
<1>9. Inbox!HandedOnceAndWhole'
  <2>1. \A u \in InboxRuns : Inbox!At(u, "answered")' => Inbox!At(u, "answered")
    BY <1>2, <1>3 DEF Inbox!At
  <2> QED BY <1>1, <1>4, <2>1 DEF InboxInv, Inbox!HandedOnceAndWhole, Twins
<1> QED BY <1>5, <1>7, <1>8, <1>9 DEF InboxInv
\* The newest of what was read is handed over, and what lies under its name moved.
LEMMA TakeKeepsInbox ==
    ASSUME InboxInv, NEW t \in InboxRuns, Inbox!Take(t) PROVE InboxInv'
<1> DEFINE r == Inbox!Newest(inboxTurn[t].listed)
           named == Inbox!Named(r.task)
<1>1. /\ inboxTurn[t].pc = "taking" /\ named # {}
      /\ outbox' = outbox \ named
      /\ consumed' = {c \in consumed : c.task # r.task} \cup named
      /\ reply' = [reply EXCEPT ![t] = r]
      /\ inboxTurn' = [inboxTurn EXCEPT ![t].pc = "answered", ![t].listed = {}]
      /\ UNCHANGED <<tasks, written>>
  BY DEF Inbox!Take, Inbox!At
<1>2. r \in inboxTurn[t].listed
  <2> DEFINE L == inboxTurn[t].listed
             S == {s.at : s \in L}
  <2>1. L # {} /\ \A s \in L : s.at \in Nat /\ s.at <= written
    BY <1>1 DEF InboxInv, InboxTyped, NothingReturns, NumbersAreTaken, Inbox!At, Responses
  <2>2. S \in SUBSET Nat /\ S # {} /\ written \in Nat /\ \A x \in S : x <= written
    BY <2>1 DEF InboxInv, InboxTyped
  <2>3. PICK m \in S : \A x \in S : x <= m
    <3> HIDE DEF S
    <3> QED BY <2>2, Highest
  <2>4. \E q \in L : \A s \in L : s.at <= q.at
    BY <2>3
  <2> HIDE DEF L
  <2> QED BY <2>4 DEF Inbox!Newest, L
<1>3. \A s : s \in named <=> s \in outbox /\ s.task = r.task
  BY DEF Inbox!Named
<1> HIDE DEF r, named
<1>4. /\ r \in Responses /\ r.complete
      /\ r \in outbox \cup consumed \/ Twins(r.task)
  BY <1>1, <1>2 DEF InboxInv, InboxTyped, NumbersAreTaken, NothingReturns
<1>5. /\ inboxTurn' \in [InboxRuns -> [pc : InboxPcs, task : Nat, listed : SUBSET Responses]]
      /\ inboxTurn'[t].pc = "answered" /\ inboxTurn'[t].listed = {}
      /\ inboxTurn'[t].task = inboxTurn[t].task
      /\ \A u \in InboxRuns \ {t} : inboxTurn'[u] = inboxTurn[u]
  <2> DEFINE e == [inboxTurn[t] EXCEPT !.pc = "answered", !.listed = {}]
  <2>1. inboxTurn[t] \in [pc : InboxPcs, task : Nat, listed : SUBSET Responses]
        /\ inboxTurn \in [InboxRuns -> [pc : InboxPcs, task : Nat, listed : SUBSET Responses]]
    BY DEF InboxInv, InboxTyped
  <2>2. /\ e \in [pc : InboxPcs, task : Nat, listed : SUBSET Responses]
        /\ e.task = inboxTurn[t].task /\ e.pc = "answered" /\ e.listed = {}
    BY <2>1 DEF InboxPcs
  <2>3. inboxTurn' = [inboxTurn EXCEPT ![t] = e]
    BY <1>1, <2>1
  <2> HIDE DEF e
  <2> QED BY <2>1, <2>2, <2>3
<1>6. /\ \A u \in InboxRuns : \A j : Inbox!Took(u, j) => Inbox!Took(u, j)'
      /\ \A j : Twins(j) => Twins(j)'
  BY <1>1, <1>5 DEF Inbox!Took, Inbox!At, Twins
<1>7. /\ outbox' \subseteq outbox /\ consumed' \subseteq consumed \cup outbox
      /\ \A q \in outbox : q \in outbox' \/ q \in consumed'
      /\ \A q \in consumed : q \in consumed' \/ q.task = r.task
      /\ \A q \in outbox' : q.task # r.task
      /\ \A q \in consumed' : (q \in consumed /\ q.task # r.task) \/ (q \in outbox /\ q.task = r.task)
  BY <1>1, <1>3
<1>8. \A q \in consumed : q.task = r.task /\ q.complete => Twins(r.task)
  BY <1>1, <1>3 DEF InboxInv, NothingReturns
<1>9. /\ reply'[t] = r /\ DOMAIN reply' = InboxRuns
      /\ \A u \in InboxRuns \ {t} : reply'[u] = reply[u]
  BY <1>1 DEF InboxInv, InboxTyped
<1>10. InboxTyped'
  <2>1. PICK n \in Nat : \A j \in DOMAIN tasks \cup {s.task : s \in consumed} : j \in Nat /\ j <= n
    BY DEF InboxInv, InboxTyped
  <2>2. \A s \in outbox : s.task \in DOMAIN tasks
    BY DEF InboxInv, NumbersAreTaken
  <2>3. \A j \in DOMAIN tasks' \cup {s.task : s \in consumed'} : j \in Nat /\ j <= n
    BY <1>1, <1>7, <2>1, <2>2
  <2>4. outbox' \subseteq Responses /\ consumed' \subseteq Responses
    BY <1>7 DEF InboxInv, InboxTyped
  <2> QED BY <1>1, <1>5, <1>9, <2>3, <2>4 DEF InboxInv, InboxTyped
<1>11. NumbersAreTaken'
  <2>1. \A s \in outbox \cup consumed : s.of \in InboxRuns
    BY DEF InboxInv, InboxTyped, Responses
  <2>2. \A u \in InboxRuns : \A s \in inboxTurn[u].listed : s.of \in InboxRuns
    BY DEF InboxInv, InboxTyped, Responses
  <2> QED BY <1>1, <1>5, <1>6, <1>7, <2>1, <2>2 DEF InboxInv, NumbersAreTaken
<1>12. \A s : s \in consumed /\ s.complete => s \in consumed' \/ Twins(s.task)
  BY <1>7, <1>8
<1>13. r \in consumed' \/ Twins(r.task)
  BY <1>3, <1>4, <1>7, <1>8, <1>1
<1>14. NothingReturns'
  <2>1. \A q \in consumed' : \A s \in outbox' : q.task = s.task /\ q.complete => Twins(q.task)'
    BY <1>6, <1>7 DEF InboxInv, NothingReturns
  <2>2. \A u \in InboxRuns : \A q \in inboxTurn'[u].listed : q \in outbox' \cup consumed' \/ Twins(q.task)'
    <3> SUFFICES ASSUME NEW u \in InboxRuns, NEW q \in inboxTurn'[u].listed
                 PROVE  q \in outbox' \cup consumed' \/ Twins(q.task)
      BY <1>6
    <3>1. u # t /\ q \in inboxTurn[u].listed
      BY <1>5
    <3>2. q.complete /\ (q \in outbox \cup consumed \/ Twins(q.task))
      BY <3>1 DEF InboxInv, NumbersAreTaken, NothingReturns
    <3> QED BY <1>7, <1>12, <3>2
  <2>3. ASSUME NEW u \in InboxRuns
        PROVE  IF inboxTurn'[u].pc = "answered"
               THEN /\ reply'[u].complete
                    /\ \/ reply'[u] \in consumed'
                       \/ Twins(IF u = t THEN r.task ELSE reply[u].task)
               ELSE ~reply'[u].complete
    <3>1. CASE u = t
      BY <1>4, <1>5, <1>9, <1>13, <3>1
    <3>2. CASE u # t
      <4>1. inboxTurn'[u] = inboxTurn[u] /\ reply'[u] = reply[u]
        BY <1>5, <1>9, <3>2
      <4> QED BY <1>12, <3>2, <4>1 DEF InboxInv, NothingReturns, Inbox!At
    <3> QED BY <3>1, <3>2
  <2>5. \A u \in InboxRuns :
            IF Inbox!At(u, "answered")'
            THEN reply'[u].complete /\ (reply'[u] \in consumed' \/ Twins(reply[u].task)')
            ELSE ~reply'[u].complete
    BY <1>6, <1>9, <2>3 DEF Inbox!At
  <2>4. \A u \in InboxRuns : Inbox!At(u, "taking")' => inboxTurn'[u].listed # {}
    BY <1>5 DEF InboxInv, NothingReturns, Inbox!At
  <2> QED BY <2>1, <2>2, <2>5, <2>4 DEF NothingReturns
<1>15. Inbox!HandedOnceAndWhole'
  <2> SUFFICES ASSUME NEW u \in InboxRuns, NEW v \in InboxRuns, v # u,
                      Inbox!At(u, "answered")', reply'[v] = reply'[u]
               PROVE  reply'[u].complete /\ Twins(reply'[u].task)
    <3>1. \A u \in InboxRuns : Inbox!At(u, "answered")' => reply'[u].complete
      BY <1>14 DEF NothingReturns
    <3> QED BY <1>6, <3>1 DEF Inbox!HandedOnceAndWhole, Twins
  <2>1. reply'[u].complete /\ Inbox!At(v, "answered")'
    BY <1>14 DEF NothingReturns
  <2>2. CASE u # t /\ v # t
    <3>1. Inbox!At(u, "answered") /\ reply[v] = reply[u] /\ reply'[u] = reply[u]
      BY <1>5, <1>9, <2>2 DEF Inbox!At
    <3> QED BY <2>1, <3>1 DEF InboxInv, Inbox!HandedOnceAndWhole, Twins
  <2>3. ASSUME NEW w \in InboxRuns \ {t}, Inbox!At(w, "answered")', reply'[w] = r
        PROVE  Twins(r.task)
    <3>1. Inbox!At(w, "answered") /\ reply[w] = r
      BY <1>5, <1>9, <2>3 DEF Inbox!At
    <3>2. r \in consumed \/ Twins(r.task)
      BY <3>1 DEF InboxInv, NothingReturns
    <3> QED BY <1>4, <1>8, <3>2
  <2> QED BY <1>9, <2>1, <2>2, <2>3
<1> QED BY <1>10, <1>11, <1>14, <1>15 DEF InboxInv

\* The external consumer answers an envelope, and replaces what it wrote under that number.
LEMMA AnswerKeepsInbox ==
    ASSUME InboxInv, NEW k \in DOMAIN tasks, NEW c \in BOOLEAN, Inbox!Answer(k, c)
    PROVE  InboxInv'
<1>1. PICK n \in Nat, s \in Responses :
          /\ n = written + 1 /\ written' = n /\ written <= n /\ n # written
          /\ s = [task |-> k, of |-> tasks[k], at |-> n, complete |-> c]
          /\ outbox' = {r \in outbox : r.task # k} \cup {s}
          /\ UNCHANGED <<tasks, consumed, inboxTurn, reply>>
  <2>1. k \in Nat /\ tasks[k] \in InboxRuns /\ written \in Nat
    BY DEF InboxInv, InboxTyped, NumbersAreTaken
  <2>2. [task |-> k, of |-> tasks[k], at |-> written + 1, complete |-> c] \in Responses
    BY <2>1 DEF Responses
  <2> QED BY <2>1, <2>2 DEF Inbox!Answer
<1>2. \A r \in outbox \cup consumed : r.task = k /\ r.complete => r.of # tasks[k]
  BY DEF Inbox!Answer
<1>3. /\ tasks[k] \in InboxRuns /\ Inbox!Took(tasks[k], k)
      /\ \A r \in outbox \cup consumed :
             r.of \in InboxRuns /\ Inbox!Took(r.of, r.task) /\ r.task \in DOMAIN tasks /\ r.at \in Nat
             /\ r.at <= written
      /\ written \in Nat
  BY DEF InboxInv, InboxTyped, NumbersAreTaken, Responses
<1>4. \A r \in outbox \cup consumed : r.task = k /\ r.complete => Twins(k)
  BY <1>2, <1>3 DEF Twins
<1>5. /\ \A u \in InboxRuns : \A j : Inbox!Took(u, j)' = Inbox!Took(u, j)
      /\ \A j : Twins(j)' = Twins(j)
      /\ \A u \in InboxRuns : \A p : Inbox!At(u, p)' = Inbox!At(u, p)
  BY <1>1 DEF Inbox!Took, Inbox!At, Twins
<1>6. InboxTyped'
  <2>1. outbox' \subseteq Responses
    BY <1>1 DEF InboxInv, InboxTyped
  <2> QED BY <1>1, <2>1 DEF InboxInv, InboxTyped
<1>7. NumbersAreTaken'
  <2>1. \A r \in outbox' \cup consumed' :
            r.task \in DOMAIN tasks' /\ Inbox!Took(r.of, r.task)' /\ r.at <= written'
    <3> SUFFICES ASSUME NEW r \in outbox' \cup consumed'
                 PROVE  r.of \in InboxRuns /\ r.task \in DOMAIN tasks /\ Inbox!Took(r.of, r.task) /\ r.at <= n
      BY <1>1, <1>5
    <3>1. CASE r = s
      BY <1>1, <1>3, <3>1
    <3>2. CASE r \in outbox \cup consumed
      BY <1>1, <1>3, <3>2
    <3> QED BY <1>1, <3>1, <3>2
  <2>2. \A u \in InboxRuns : \A r \in inboxTurn'[u].listed :
            r.complete /\ r.task \in DOMAIN tasks' /\ Inbox!Took(r.of, r.task)' /\ r.at <= written'
    <3> SUFFICES ASSUME NEW u \in InboxRuns, NEW r \in inboxTurn[u].listed
                 PROVE  /\ r.complete /\ r.task \in DOMAIN tasks /\ Inbox!Took(r.of, r.task)
                        /\ r.of \in InboxRuns /\ r.at <= n
      BY <1>1, <1>5
    <3>1. r \in Responses
      BY DEF InboxInv, InboxTyped
    <3> QED BY <1>1, <1>3, <3>1 DEF InboxInv, NumbersAreTaken, Responses
  <2> QED BY <1>1, <1>3, <1>5, <2>1, <2>2 DEF InboxInv, NumbersAreTaken
<1>8. NothingReturns'
  <2>1. \A q \in consumed : \A r \in outbox' : q.task = r.task /\ q.complete => Twins(q.task)
    BY <1>1, <1>4 DEF InboxInv, NothingReturns
  <2>2. \A u \in InboxRuns : \A q \in inboxTurn[u].listed : q \in outbox' \cup consumed \/ Twins(q.task)
    <3> SUFFICES ASSUME NEW u \in InboxRuns, NEW q \in inboxTurn[u].listed
                 PROVE  q \in outbox' \cup consumed \/ Twins(q.task)
      OBVIOUS
    <3>1. q.complete /\ (q \in outbox \cup consumed \/ Twins(q.task))
      BY DEF InboxInv, NumbersAreTaken, NothingReturns
    <3> QED BY <1>1, <1>4, <3>1
  <2> QED BY <1>1, <1>5, <2>1, <2>2 DEF InboxInv, NothingReturns
<1>9. Inbox!HandedOnceAndWhole'
  BY <1>1, <1>5 DEF InboxInv, Inbox!HandedOnceAndWhole
<1> QED BY <1>6, <1>7, <1>8, <1>9 DEF InboxInv

LEMMA StepKeepsInbox ==
    ASSUME InboxInv, Inbox!InboxNext \/ UNCHANGED InboxState PROVE InboxInv'
<1>1. CASE UNCHANGED InboxState
  BY <1>1 DEF InboxState, InboxInv, InboxTyped, NumbersAreTaken, NothingReturns, Twins, Inbox!Took,
         Inbox!At, Inbox!HandedOnceAndWhole
<1> QED BY <1>1, NumberKeepsInbox, SendKeepsInbox, PollKeepsInbox, TakeKeepsInbox, AnswerKeepsInbox
        DEF Inbox!InboxNext
-----------------------------------------------------------------------------
(* The mailbox.                                                              *)

OnSpool == spool \cup expired
MailAppend == [pc : {"idle", "sequence", "write"}, id : MessageIds \cup {""}, ttl : BOOLEAN,
               seq : Nat, raced : BOOLEAN]

MailTyped ==
    /\ \A f \in OnSpool : f.seq \in Nat
    /\ \E n \in Nat : \A f \in OnSpool : f.seq <= n
    /\ appending \in [Producers -> MailAppend]
    /\ cursor \in Nat
    /\ inbox.open => inbox.next \in Nat /\ cursor <= inbox.next

\* The consumer has seen no higher sequence than lies on the disk.
CursorIsRead ==
    /\ cursor = 0 \/ \E f \in OnSpool : cursor <= f.seq
    /\ inbox.open => inbox.next = 0 \/ \E f \in OnSpool : inbox.next <= f.seq

\* A sequence picked since the last publication is higher than everything seen.
NewComeAfter ==
    \A p \in Producers : appending[p].pc = "write" /\ ~appending[p].raced =>
        /\ \A f \in OnSpool : f.seq < appending[p].seq
        /\ cursor < appending[p].seq
        /\ inbox.open => inbox.next < appending[p].seq

\* Of an id that was acknowledged, or waits to be, a file stays on the spool at or before
\* the cursor that passes it.
AckedAreKept ==
    /\ \A i \in acked : \E f \in spool : f.id = i /\ f.seq <= cursor
    /\ inbox.open => \A g \in inbox.batch : \E f \in spool : f.id = g.id /\ f.seq <= inbox.next

\* An id some copy of which was published late, not read or expired.
Accounted(i) == \E g \in OnSpool : g.id = i /\ (g.raced \/ g \in missed \cup expired)

PassedAre ==
    /\ \A f \in spool : f.seq <= cursor => f.id \in acked \/ Accounted(f.id)
    /\ inbox.open =>
           \A f \in spool : f.seq <= inbox.next =>
               f.id \in acked \/ f.id \in Mail!Ids(inbox.batch) \/ Accounted(f.id)

MailInv ==
    /\ MailTyped /\ CursorIsRead /\ NewComeAfter /\ AckedAreKept /\ PassedAre
    /\ Mail!AckedIsNotRedelivered

LEMMA MailImplies ==
    ASSUME MailInv PROVE Mail!AckedIsNotRedelivered /\ Mail!PassedIsAccounted
BY DEF MailInv, PassedAre, Accounted, OnSpool, Mail!PassedIsAccounted, Mail!OnDisk

LEMMA MailStarts == ASSUME Mail!MailInit PROVE MailInv
<1>1. /\ OnSpool = {} /\ spool = {} /\ cursor = 0 /\ ~inbox.open /\ acked = {} /\ twice = {}
      /\ appending = [p \in Producers |-> Mail!NotAppending]
  BY DEF Mail!MailInit, Mail!NothingReceived, OnSpool
<1>2. appending \in [Producers -> MailAppend] /\ \A p \in Producers : appending[p].pc = "idle"
  BY <1>1 DEF Mail!NotAppending, MailAppend
<1> QED BY <1>1, <1>2 DEF MailInv, MailTyped, CursorIsRead, NewComeAfter, AckedAreKept, PassedAre,
           Mail!AckedIsNotRedelivered

\* The highest of some sequences and zero, or the cursor, is one of them.
LEMMA MailHighest ==
    ASSUME NEW F, NEW b \in Nat, NEW n \in Nat, \A f \in F : f.seq \in Nat /\ f.seq <= n
    PROVE  LET m == Mail!Max({f.seq : f \in F} \cup {b})
           IN  /\ m \in Nat /\ b <= m /\ \A f \in F : f.seq <= m
               /\ m = b \/ \E f \in F : f.seq = m
<1> DEFINE S == {f.seq : f \in F} \cup {b}
<1>1. PICK k \in Nat : n <= k /\ b <= k
  <2>1. n + b \in Nat /\ n <= n + b /\ b <= n + b
    OBVIOUS
  <2> QED BY <2>1
<1>2. S \in SUBSET Nat /\ S # {} /\ \A x \in S : x <= k
  BY <1>1
<1>3. Mail!Max(S) \in S /\ \A x \in S : x <= Mail!Max(S)
  <2> HIDE DEF S
  <2>1. \E m \in S : \A x \in S : m >= x
    <3>1. \E m \in S : \A x \in S : x <= m
      BY <1>2, Highest
    <3> QED BY <1>2, <3>1
  <2>2. Mail!Max(S) \in S /\ \A x \in S : Mail!Max(S) >= x
    BY <2>1 DEF Mail!Max
  <2> QED BY <1>2, <2>2
<1> QED BY <1>2, <1>3

\* Appending again, starting to append, a death of either side.
LEMMA QuietKeepsMail ==
    ASSUME MailInv,
           \/ \E p \in Producers : \E id \in MessageIds :
                  Mail!AppendAgain(p, id) \/ \E ttl \in BOOLEAN : Mail!Append1(p, id, ttl)
           \/ \E p \in Producers : Mail!ProducerDies(p)
           \/ Mail!ConsumerDies \/ \E f \in spool : Mail!Expires(f)
    PROVE  MailInv'
<1>1. /\ UNCHANGED <<spool, expired, cursor, acked, twice, missed>>
      /\ inbox' = inbox \/ ~inbox'.open
  <2> DEFINE Kept == /\ UNCHANGED <<spool, expired, cursor, acked, twice, missed>>
                     /\ inbox' = inbox \/ ~inbox'.open
  <2>1. ASSUME NEW p \in Producers, NEW id \in MessageIds, Mail!AppendAgain(p, id) PROVE Kept
    BY <2>1 DEF Mail!AppendAgain, Mail!files, Mail!history
  <2>2. ASSUME NEW p \in Producers, NEW id \in MessageIds, NEW ttl \in BOOLEAN, Mail!Append1(p, id, ttl)
        PROVE  Kept
    BY <2>2 DEF Mail!Append1, Mail!files, Mail!history
  <2>3. ASSUME NEW p \in Producers, Mail!ProducerDies(p) PROVE Kept
    BY <2>3 DEF Mail!ProducerDies, Mail!files, Mail!history
  <2>4. ASSUME Mail!ConsumerDies PROVE Kept
    BY <2>4 DEF Mail!ConsumerDies, Mail!files, Mail!history, Mail!NothingReceived
  <2>5. ASSUME NEW f \in spool, Mail!Expires(f) PROVE Kept
    BY <2>5 DEF Mail!Expires, Mail!history
  <2> HIDE DEF Kept
  <2>6. Kept
    BY <2>1, <2>2, <2>3, <2>4, <2>5
  <2> QED BY <2>6 DEF Kept
<1>2. /\ appending' \in [Producers -> MailAppend]
      /\ \A p \in Producers : appending'[p].pc = "write" => appending'[p] = appending[p]
  <2>1. appending \in [Producers -> MailAppend]
    BY DEF MailInv, MailTyped
  <2>2. CASE UNCHANGED appending
    BY <2>1, <2>2
  <2>3. ASSUME NEW p \in Producers, NEW a \in MailAppend, a.pc # "write",
               appending' = [appending EXCEPT ![p] = a]
        PROVE  /\ appending' \in [Producers -> MailAppend]
               /\ \A q \in Producers : appending'[q].pc = "write" => appending'[q] = appending[q]
    BY <2>1, <2>3
  <2>4. ASSUME NEW p \in Producers, NEW id \in MessageIds, NEW ttl \in BOOLEAN,
               Mail!Append1(p, id, ttl)
        PROVE  \E a \in MailAppend : a.pc # "write" /\ appending' = [appending EXCEPT ![p] = a]
    <3> DEFINE a == [Mail!NotAppending EXCEPT !.pc = "sequence", !.id = id, !.ttl = ttl]
    <3>1. a \in MailAppend /\ a.pc = "sequence"
      BY DEF Mail!NotAppending, MailAppend
    <3>2. appending' = [appending EXCEPT ![p] = a]
      BY <2>4 DEF Mail!Append1
    <3> HIDE DEF a
    <3> QED BY <3>1, <3>2
  <2>5. ASSUME NEW p \in Producers, Mail!ProducerDies(p)
        PROVE  \E a \in MailAppend : a.pc # "write" /\ appending' = [appending EXCEPT ![p] = a]
    BY <2>5 DEF Mail!ProducerDies, Mail!NotAppending, MailAppend
  <2> QED BY <2>2, <2>3, <2>4, <2>5 DEF Mail!AppendAgain, Mail!ConsumerDies, Mail!Expires, Mail!producing
<1> QED BY <1>1, <1>2 DEF MailInv, MailTyped, CursorIsRead, NewComeAfter, AckedAreKept, PassedAre,
           Accounted, OnSpool, Mail!AckedIsNotRedelivered, Mail!Ids

\* A sequence is picked: it is higher than everything on the disk.
LEMMA SequenceKeepsMail ==
    ASSUME MailInv, NEW p \in Producers, Mail!Sequence(p) PROVE MailInv'
<1>1. /\ UNCHANGED <<spool, expired, cursor, inbox, acked, twice, missed>>
      /\ appending' = [appending EXCEPT ![p].pc = "write", ![p].seq = Mail!NextSeq]
      /\ appending \in [Producers -> MailAppend]
  BY DEF Mail!Sequence, Mail!files, Mail!history, MailInv, MailTyped
<1>2. PICK n \in Nat, m \in Nat :
          /\ m = n + 1 /\ Mail!NextSeq = m
          /\ \A f \in OnSpool : f.seq <= n
  <2> DEFINE n == Mail!Max({f.seq : f \in OnSpool} \cup {0})
  <2>1. PICK k \in Nat : \A f \in OnSpool : f.seq \in Nat /\ f.seq <= k
    BY DEF MailInv, MailTyped
  <2>2. n \in Nat /\ \A f \in OnSpool : f.seq <= n
    BY <2>1, MailHighest
  <2>3. Mail!NextSeq = n + 1
    BY DEF Mail!NextSeq, Mail!OnDisk, OnSpool
  <2> HIDE DEF n
  <2> QED BY <2>2, <2>3
<1>3. \A f \in OnSpool : f.seq < m
  BY <1>2 DEF MailInv, MailTyped
<1>4. cursor < m /\ (inbox.open => inbox.next < m)
  <2>1. \A f \in OnSpool : f.seq \in Nat
    BY DEF MailInv, MailTyped
  <2>2. ASSUME NEW c \in Nat, c = 0 \/ \E f \in OnSpool : c <= f.seq PROVE c < m
    BY <1>2, <1>3, <2>1, <2>2
  <2> QED BY <2>2 DEF MailInv, MailTyped, CursorIsRead
<1>5. /\ appending' \in [Producers -> MailAppend] /\ appending'[p].seq = m
      /\ \A q \in Producers \ {p} : appending'[q] = appending[q]
  <2> DEFINE a == [appending[p] EXCEPT !.pc = "write", !.seq = m]
  <2>1. appending[p] \in MailAppend
    BY <1>1
  <2>2. a \in MailAppend /\ a.seq = m
    BY <2>1 DEF MailAppend
  <2>3. appending' = [appending EXCEPT ![p] = a]
    BY <1>1, <1>2
  <2> HIDE DEF a
  <2> QED BY <1>1, <2>2, <2>3
<1>6. NewComeAfter'
  BY <1>1, <1>3, <1>4, <1>5 DEF MailInv, NewComeAfter, OnSpool
<1> QED BY <1>1, <1>5, <1>6 DEF MailInv, MailTyped, CursorIsRead, AckedAreKept, PassedAre,
           Accounted, OnSpool, Mail!AckedIsNotRedelivered, Mail!Ids

\* A file is published; one of its name, if any, was raced with.
LEMMA PublishKeepsMail ==
    ASSUME MailInv, NEW p \in Producers, Mail!Publish(p) PROVE MailInv'
<1> DEFINE a == appending[p]
           new == [seq |-> a.seq, id |-> a.id, ttl |-> a.ttl, raced |-> a.raced]
<1>1. /\ UNCHANGED <<expired, cursor, inbox, acked, twice, missed>> /\ a.pc = "write"
      /\ spool' = {f \in spool : ~(f.seq = a.seq /\ f.id = a.id)} \cup {new}
      /\ appending' = [q \in Producers |->
             IF q = p THEN Mail!NotAppending
             ELSE [appending[q] EXCEPT !.raced = appending[q].pc = "write"]]
  BY DEF Mail!Publish, Mail!history
<1>2. new.seq \in Nat /\ new.id = a.id /\ new.raced = a.raced /\ new.seq = a.seq
  BY DEF MailInv, MailTyped, MailAppend
<1>3. ~a.raced =>
          /\ \A f \in OnSpool : f.seq < new.seq
          /\ cursor < new.seq /\ (inbox.open => inbox.next < new.seq)
  BY <1>1 DEF MailInv, NewComeAfter
<1> HIDE DEF a, new
<1>4. \A f \in OnSpool : f.seq \in Nat
  BY DEF MailInv, MailTyped
<1>5. /\ new \in spool' /\ \A f \in spool' : f \in spool \/ f = new
      /\ \A f \in spool : f \in spool' \/ (f.seq = new.seq /\ f.id = new.id)
      /\ a.raced \/ \A f \in spool : f \in spool'
  BY <1>1, <1>2, <1>3, <1>4 DEF OnSpool
<1>6. \A f \in OnSpool : \E g \in OnSpool' : g.id = f.id /\ g.seq = f.seq /\ (f \in spool => g \in spool')
  BY <1>1, <1>5 DEF OnSpool
<1>7. \A i : Accounted(i) => \E g \in OnSpool' : g.id = i /\ (g.raced \/ g \in missed \cup expired)
  <2> SUFFICES ASSUME NEW g \in OnSpool, g.raced \/ g \in missed \cup expired
               PROVE  \E h \in OnSpool' : h.id = g.id /\ (h.raced \/ h \in missed \cup expired)
    BY DEF Accounted
  <2>1. CASE g \in OnSpool'
    BY <2>1
  <2>2. CASE g \notin OnSpool'
    <3>1. g \in spool /\ g \notin spool'
      BY <1>1, <2>2 DEF OnSpool
    <3>2. new.raced /\ new.id = g.id /\ new \in OnSpool'
      BY <1>2, <1>5, <3>1 DEF OnSpool
    <3> QED BY <3>2
  <2> QED BY <2>1, <2>2
<1>8. MailTyped'
  <2>1. \A f \in OnSpool' : f.seq \in Nat
    BY <1>1, <1>2, <1>4, <1>5 DEF OnSpool
  <2>2. \E n \in Nat : \A f \in OnSpool' : f.seq <= n
    <3>1. PICK n \in Nat : \A f \in OnSpool : f.seq <= n
      BY DEF MailInv, MailTyped
    <3>2. PICK m \in Nat : n <= m /\ new.seq <= m
      <4>1. n + new.seq \in Nat /\ n <= n + new.seq /\ new.seq <= n + new.seq
        BY <1>2
      <4> QED BY <4>1
    <3>3. \A f \in OnSpool' : f.seq <= m
      <4> SUFFICES ASSUME NEW f \in OnSpool' PROVE f.seq <= m
        OBVIOUS
      <4>1. CASE f = new
        BY <3>2, <4>1
      <4>2. CASE f \in OnSpool
        BY <1>4, <3>1, <3>2, <4>2
      <4> QED BY <1>1, <1>5, <4>1, <4>2 DEF OnSpool
    <3> QED BY <3>3
  <2>3. appending' \in [Producers -> MailAppend]
    <3>1. Mail!NotAppending \in MailAppend
      BY DEF Mail!NotAppending, MailAppend
    <3>2. \A q \in Producers : [appending[q] EXCEPT !.raced = appending[q].pc = "write"] \in MailAppend
      <4> SUFFICES ASSUME NEW q \in Producers, NEW b, b = appending[q]
                   PROVE  [b EXCEPT !.raced = b.pc = "write"] \in MailAppend
        OBVIOUS
      <4>1. b \in MailAppend /\ (b.pc = "write") \in BOOLEAN
        BY DEF MailInv, MailTyped
      <4> QED BY <4>1 DEF MailAppend
    <3> QED BY <1>1, <3>1, <3>2
  <2> QED BY <1>1, <2>1, <2>2, <2>3 DEF MailInv, MailTyped
<1>9. CursorIsRead'
  <2>1. cursor = 0 \/ \E f \in OnSpool' : cursor <= f.seq
    BY <1>6 DEF MailInv, CursorIsRead
  <2>2. inbox.open => inbox.next = 0 \/ \E f \in OnSpool' : inbox.next <= f.seq
    BY <1>6 DEF MailInv, CursorIsRead
  <2> QED BY <1>1, <2>1, <2>2 DEF CursorIsRead
<1>10. NewComeAfter'
  <2>1. appending \in [Producers -> MailAppend]
    BY DEF MailInv, MailTyped
  <2>2. \A q \in Producers : ~(appending'[q].pc = "write" /\ ~appending'[q].raced)
    BY <1>1, <2>1 DEF Mail!NotAppending, MailAppend
  <2> QED BY <2>2 DEF NewComeAfter
<1>11. AckedAreKept'
  <2>1. \A i \in acked : \E f \in spool' : f.id = i /\ f.seq <= cursor
    BY <1>5 DEF MailInv, AckedAreKept
  <2>2. inbox.open => \A g \in inbox.batch : \E f \in spool' : f.id = g.id /\ f.seq <= inbox.next
    BY <1>5 DEF MailInv, AckedAreKept
  <2> QED BY <1>1, <2>1, <2>2 DEF AckedAreKept
<1>12. PassedAre'
  <2>1. ASSUME NEW f \in spool', NEW n \in Nat, f.seq <= n, NEW ids,
               ~a.raced => n < new.seq,
               \A g \in spool : g.seq <= n => g.id \in ids \/ Accounted(g.id)
        PROVE  f.id \in ids \/ \E g \in OnSpool' : g.id = f.id /\ (g.raced \/ g \in missed \cup expired)
    <3>1. CASE f \in spool
      BY <1>7, <2>1, <3>1
    <3>2. CASE f = new
      <4>1. a.raced
        BY <1>2, <2>1, <3>2
      <4> QED BY <1>2, <1>5, <3>2, <4>1 DEF OnSpool
    <3> QED BY <1>5, <3>1, <3>2
  <2>2. \A f \in spool' : f.seq <= cursor =>
            f.id \in acked \/ \E g \in OnSpool' : g.id = f.id /\ (g.raced \/ g \in missed \cup expired)
    <3>1. cursor \in Nat /\ \A g \in spool : g.seq <= cursor => g.id \in acked \/ Accounted(g.id)
      BY DEF MailInv, MailTyped, PassedAre
    <3> QED BY <1>3, <2>1, <3>1
  <2>3. ASSUME inbox.open, NEW f \in spool', f.seq <= inbox.next
        PROVE  f.id \in acked \cup Mail!Ids(inbox.batch)
               \/ \E g \in OnSpool' : g.id = f.id /\ (g.raced \/ g \in missed \cup expired)
    <3>1. inbox.next \in Nat
          /\ \A g \in spool : g.seq <= inbox.next =>
                 g.id \in acked \cup Mail!Ids(inbox.batch) \/ Accounted(g.id)
      BY <2>3 DEF MailInv, MailTyped, PassedAre
    <3> QED BY <1>3, <2>1, <2>3, <3>1
  <2> QED BY <1>1, <2>2, <2>3 DEF PassedAre, Accounted, Mail!Ids
<1> QED BY <1>1, <1>8, <1>9, <1>10, <1>11, <1>12 DEF MailInv, Mail!AckedIsNotRedelivered, Mail!Ids

\* The spool is read after the cursor; what is dead expires.
LEMMA ReceiveKeepsMail ==
    ASSUME MailInv, Mail!Receive PROVE MailInv'
<1>1. PICK unread \in {u \in SUBSET (spool \ missed) : Mail!Cardinality(u) + Mail!Cardinality(missed) <= MaxMisses} :
          LET read == spool \ unread
              gone == Mail!Fresh(read) \cap dead
              batch == Mail!Fresh(read) \ dead
          IN /\ ~inbox.open
             /\ inbox' = [open |-> TRUE, batch |-> batch,
                          next |-> Mail!Max({f.seq : f \in read} \cup {cursor})]
             /\ spool' = spool \ gone
             /\ expired' = expired \cup gone
             /\ twice' = twice \cup (Mail!Ids(batch) \cap acked)
             /\ missed' = missed \cup unread
             /\ UNCHANGED <<dead, Mail!producing, cursor, acked, deaths>>
  BY DEF Mail!Receive
<1> DEFINE read == spool \ unread
           fresh == Mail!Fresh(read)
           gone == fresh \cap dead
           batch == fresh \ dead
           next == Mail!Max({f.seq : f \in read} \cup {cursor})
<1>2. /\ inbox'.open /\ inbox'.batch = batch /\ inbox'.next = next
      /\ spool' = spool \ gone /\ expired' = expired \cup gone /\ missed' = missed \cup unread
      /\ twice' = twice \cup (Mail!Ids(batch) \cap acked)
      /\ UNCHANGED <<appending, cursor, acked>>
      /\ unread \subseteq spool
  BY <1>1 DEF Mail!producing
<1>3. /\ \A f \in OnSpool : f.seq \in Nat
      /\ cursor \in Nat
  BY DEF MailInv, MailTyped
<1>4. /\ next \in Nat /\ cursor <= next /\ \A f \in read : f.seq <= next
      /\ next = cursor \/ \E f \in read : f.seq = next
  <2> HIDE DEF read
  <2>1. PICK n \in Nat : \A f \in OnSpool : f.seq \in Nat /\ f.seq <= n
    BY DEF MailInv, MailTyped
  <2>2. \A f \in read : f.seq \in Nat /\ f.seq <= n
    BY <2>1 DEF read, OnSpool
  <2> QED BY <1>3, <2>2, MailHighest
<1>5. \A f : f \in fresh <=> f \in read /\ f.seq > cursor /\ \A g \in read : g.id = f.id => f.seq <= g.seq
  BY DEF Mail!Fresh, Mail!First
<1>6. \A f : f \in read <=> f \in spool /\ f \notin unread
  OBVIOUS
<1> HIDE DEF read, fresh, next
<1>7. OnSpool' = OnSpool
  BY <1>2, <1>5, <1>6 DEF OnSpool
<1>8. \A i : Accounted(i) => Accounted(i)'
  BY <1>2, <1>7 DEF Accounted
<1>9. MailTyped'
  BY <1>2, <1>4, <1>7 DEF MailInv, MailTyped
<1>10. CursorIsRead'
  <2>1. cursor = 0 \/ \E f \in OnSpool : cursor <= f.seq
    BY DEF MailInv, CursorIsRead
  <2>2. next = 0 \/ \E f \in OnSpool : next <= f.seq
    BY <1>3, <1>4, <1>6, <2>1 DEF OnSpool
  <2> QED BY <1>2, <1>7, <2>1, <2>2 DEF CursorIsRead
<1>11. NewComeAfter'
  <2> SUFFICES ASSUME NEW p \in Producers, appending[p].pc = "write", ~appending[p].raced
               PROVE  /\ \A f \in OnSpool : f.seq < appending[p].seq
                      /\ cursor < appending[p].seq /\ next < appending[p].seq
    BY <1>2, <1>7 DEF NewComeAfter
  <2>1. (\A f \in OnSpool : f.seq < appending[p].seq) /\ cursor < appending[p].seq
    BY DEF MailInv, NewComeAfter
  <2> QED BY <1>4, <1>6, <2>1 DEF OnSpool
<1>12. AckedAreKept'
  <2>1. \A i \in acked : \E f \in spool' : f.id = i /\ f.seq <= cursor
    <3> SUFFICES ASSUME NEW i \in acked PROVE \E f \in spool' : f.id = i /\ f.seq <= cursor
      OBVIOUS
    <3>1. PICK f \in spool : f.id = i /\ f.seq <= cursor
      BY DEF MailInv, AckedAreKept
    <3>2. f \notin fresh
      BY <1>3, <1>5, <3>1 DEF OnSpool
    <3> QED BY <1>2, <3>1, <3>2
  <2>2. \A g \in batch : \E f \in spool' : f.id = g.id /\ f.seq <= next
    <3> SUFFICES ASSUME NEW g \in batch PROVE g \in spool' /\ g.seq <= next
      OBVIOUS
    <3> QED BY <1>2, <1>4, <1>5, <1>6
  <2> QED BY <1>2, <2>1, <2>2 DEF AckedAreKept
<1>13. \A f \in spool' : f.seq <= cursor => f.id \in acked \/ Accounted(f.id)'
  BY <1>2, <1>8 DEF MailInv, PassedAre
<1>14. ASSUME NEW f \in spool', f.seq <= next
       PROVE  f.id \in acked \/ f.id \in Mail!Ids(batch) \/ Accounted(f.id)'
  <2>1. f \in spool
    BY <1>2
  <2>2. CASE f \in unread
    BY <1>2, <2>1, <2>2 DEF Accounted, OnSpool
  <2>3. CASE f \in read
    <3> DEFINE S == {g.seq : g \in {h \in read : h.id = f.id}}
    <3>1. S \in SUBSET Nat /\ S # {}
      BY <1>3, <1>6, <2>3 DEF OnSpool
    <3>2. PICK m \in S : \A x \in S : m <= x
      <4> HIDE DEF S
      <4> QED BY <3>1, Lowest
    <3>3. PICK g \in read : g.id = f.id /\ \A h \in read : h.id = f.id => g.seq <= h.seq
      BY <3>2
    <3> HIDE DEF S
    <3>4. g \in spool /\ g.seq \in Nat
      BY <1>3, <1>6, <3>3 DEF OnSpool
    <3>5. CASE g.seq <= cursor
      <4>1. g.id \in acked \/ Accounted(g.id)
        BY <3>4, <3>5 DEF MailInv, PassedAre
      <4> QED BY <1>8, <3>3, <4>1
    <3>6. CASE g.seq > cursor
      <4>1. g \in fresh
        BY <1>5, <3>3, <3>6
      <4>2. CASE g \in dead
        BY <1>2, <3>3, <4>1, <4>2 DEF Accounted, OnSpool
      <4>3. CASE g \notin dead
        BY <3>3, <4>1, <4>3 DEF Mail!Ids
      <4> QED BY <4>2, <4>3
    <3> QED BY <1>3, <3>4, <3>5, <3>6
  <2> QED BY <1>6, <2>1, <2>2, <2>3
<1>15. PassedAre'
  <2>1. Mail!Ids(inbox.batch)' = Mail!Ids(batch)
    BY <1>2 DEF Mail!Ids
  <2> QED BY <1>2, <1>13, <1>14, <2>1 DEF PassedAre
<1>16. Mail!AckedIsNotRedelivered'
  <2> SUFFICES ASSUME NEW i \in twice' PROVE \E g \in missed' : g.id = i
    BY DEF Mail!AckedIsNotRedelivered, Mail!Ids
  <2>1. CASE i \in twice
    BY <1>2, <2>1 DEF MailInv, Mail!AckedIsNotRedelivered, Mail!Ids
  <2>2. CASE i \in Mail!Ids(batch) \cap acked
    <3>1. PICK f \in fresh : f.id = i
      BY <2>2 DEF Mail!Ids
    <3>2. PICK g \in spool : g.id = i /\ g.seq <= cursor
      BY <2>2 DEF MailInv, AckedAreKept
    <3>3. g \notin read
      <4>1. g \in read => f.seq <= g.seq /\ f.seq > cursor /\ f \in read
        BY <1>5, <3>1, <3>2
      <4>2. \A h \in spool : h.seq \in Nat
        BY <1>3 DEF OnSpool
      <4> QED BY <1>3, <1>6, <3>2, <4>1, <4>2
    <3> QED BY <1>2, <1>6, <3>2, <3>3
  <2> QED BY <1>2, <2>1, <2>2
<1> QED BY <1>9, <1>10, <1>11, <1>12, <1>15, <1>16 DEF MailInv

\* The batch is acknowledged: the cursor moves to what its receive read.
LEMMA AckKeepsMail ==
    ASSUME MailInv, Mail!Ack PROVE MailInv'
<1>1. /\ inbox.open /\ cursor' = inbox.next /\ acked' = acked \cup Mail!Ids(inbox.batch)
      /\ ~inbox'.open /\ UNCHANGED <<spool, expired, appending, twice, missed>>
      /\ OnSpool' = OnSpool
  BY DEF Mail!Ack, Mail!NothingReceived, Mail!files, Mail!producing, OnSpool
<1>2. MailTyped' /\ CursorIsRead' /\ NewComeAfter'
  BY <1>1 DEF MailInv, MailTyped, CursorIsRead, NewComeAfter
<1>3. AckedAreKept'
  <2> SUFFICES ASSUME NEW i \in acked' PROVE \E f \in spool : f.id = i /\ f.seq <= inbox.next
    BY <1>1 DEF AckedAreKept
  <2>1. CASE i \in acked
    <3>1. PICK f \in spool : f.id = i /\ f.seq <= cursor
      BY <2>1 DEF MailInv, AckedAreKept
    <3>2. f.seq \in Nat /\ cursor \in Nat /\ inbox.next \in Nat /\ cursor <= inbox.next
      BY <1>1 DEF MailInv, MailTyped, OnSpool
    <3> QED BY <3>1, <3>2
  <2>2. CASE i \in Mail!Ids(inbox.batch)
    BY <1>1, <2>2 DEF MailInv, AckedAreKept, Mail!Ids
  <2> QED BY <1>1, <2>1, <2>2
<1>4. PassedAre'
  <2>1. \A i : Accounted(i)' = Accounted(i)
    BY <1>1 DEF Accounted
  <2> QED BY <1>1, <2>1 DEF MailInv, PassedAre
<1> QED BY <1>1, <1>2, <1>3, <1>4 DEF MailInv, Mail!AckedIsNotRedelivered, Mail!Ids

LEMMA StepKeepsMail ==
    ASSUME MailInv, Mail!MailNext \/ UNCHANGED MailState PROVE MailInv'
<1>1. CASE UNCHANGED MailState
  BY <1>1 DEF MailState, MailInv, MailTyped, CursorIsRead, NewComeAfter, AckedAreKept, PassedAre,
         Accounted, OnSpool, Mail!AckedIsNotRedelivered, Mail!Ids
<1> QED BY <1>1, QuietKeepsMail, SequenceKeepsMail, PublishKeepsMail, ReceiveKeepsMail, AckKeepsMail
        DEF Mail!MailNext

\* No message is delivered again once acknowledged or passed over unaccounted, through races
\* of producers and deaths of either side, and a file response is handed over once and whole
\* unless two runs took one number (adapters/mailbox.py, adapters/filebox.py).
THEOREM DeliveredIsOnce == Spec => []DeliveredOnce
<1> DEFINE Inv == /\ part = "mail" => MailInv
                  /\ part = "inbox" => InboxInv
<1>1. Init => Inv
  BY MailStarts, InboxStarts DEF Init
<1>2. Inv /\ [Next]_vars => Inv'
  <2> SUFFICES ASSUME Inv, [Next]_vars PROVE Inv'
    OBVIOUS
  <2>1. ASSUME part' = "mail" PROVE MailInv'
    BY <2>1, OnePartMoves, StepKeepsMail
  <2>2. ASSUME part' = "inbox" PROVE InboxInv'
    BY <2>2, OnePartMoves, StepKeepsInbox
  <2> QED BY <2>1, <2>2
<1>3. Inv => DeliveredOnce
  BY MailImplies DEF InboxInv, DeliveredOnce
<1> HIDE DEF Inv
<1> QED BY <1>1, <1>2, <1>3, PTL DEF Spec

=============================================================================
