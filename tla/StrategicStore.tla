--------------------------- MODULE StrategicStore ---------------------------
(****************************************************************************)
(* The shared rows of the strategic store (core/strategic_store.py with      *)
(* programs.py, decisions.py, messages.py): the fenced lease of one lane,    *)
(* the decisions that supersede each other and the messages deduplicated by  *)
(* content.  Each SQL statement is atomic; claim_lane alone is a             *)
(* transaction.  A writer is a strategist's process: it can die between two  *)
(* statements.                                                               *)
(****************************************************************************)
EXTENDS Naturals, FiniteSets

CONSTANTS
    Strategists,
    Digests,         \* contents a message can have
    LeaseS,          \* how long a claim stands
    MaxClock, MaxClaims, MaxDecisions, MaxMessages

VARIABLES
    clock,
    lease,           \* the lane's row of lane_lease
    held,            \* strategist -> the claim it was answered
    doing,           \* strategist -> the operation it is in the middle of
    decisions,       \* the rows of one question, in the order of their ids
    messages,        \* digest -> the ids of its rows
    minted,          \* message ids handed out
    told             \* history: the answers of record_message

storeVars == <<clock, lease, held, doing, decisions, messages, minted, told>>

leaseRows == <<clock, lease, held>>
messageRows == <<messages, minted, told>>

NoLease == [fence |-> 0, token |-> 0, expires |-> 0, released |-> TRUE]
NoClaim == [fence |-> 0, token |-> 0]
Resting == [op |-> "none", arg |-> 0, id |-> 0]

StoreInit ==
    /\ clock = 0 /\ lease = NoLease
    /\ held = [w \in Strategists |-> NoClaim]
    /\ doing = [w \in Strategists |-> Resting]
    /\ decisions = <<>>
    /\ messages = [g \in Digests |-> {}] /\ minted = 0 /\ told = {}

Rests(w) == doing[w] = Resting
Starts(w, op, arg, id) == doing' = [doing EXCEPT ![w] = [op |-> op, arg |-> arg, id |-> id]]
Ends(w) == doing' = [doing EXCEPT ![w] = Resting]

----------------------------------------------------------------------------
(* The lane's lease.  A token names one claim: nobody else is told it.       *)

LeaseActive == ~lease.released /\ clock < lease.expires

\* check_fence: only an older fence is refused; expiry and release are not looked at.
FencePasses(f) == lease # NoLease /\ f >= lease.fence

Takes(w, f) ==
    /\ lease' = [fence |-> f, token |-> lease.token + 1,
                 expires |-> clock + LeaseS, released |-> FALSE]
    /\ held' = [held EXCEPT ![w] = [fence |-> f, token |-> lease.token + 1]]

\* Slip: a lane that was released starts its fences again.
SlipClaim(w) ==
    /\ Rests(w) /\ ~LeaseActive /\ lease.token < MaxClaims
    /\ Takes(w, IF lease.released THEN 1 ELSE lease.fence + 1)
    /\ UNCHANGED <<clock, doing, decisions, messageRows>>

\* claim_lane on a lane nobody holds now: one transaction, the next fence.
Claim(w) ==
    /\ Rests(w) /\ ~LeaseActive /\ lease.token < MaxClaims
    /\ Takes(w, lease.fence + 1)
    /\ UNCHANGED <<clock, doing, decisions, messageRows>>

\* claim_lane with the token of the live lease.
Renew(w) ==
    /\ Rests(w) /\ LeaseActive /\ held[w].token = lease.token
    /\ lease' = [lease EXCEPT !.expires = clock + LeaseS]
    /\ UNCHANGED <<clock, held, doing, decisions, messageRows>>

\* release_lane reads the row and compares the token ...
ReadForRelease(w) ==
    /\ Rests(w) /\ held[w].token # 0 /\ held[w].token = lease.token
    /\ Starts(w, "release", 0, 0)
    /\ UNCHANGED <<leaseRows, decisions, messageRows>>

\* ... and then releases the lane's row, whosever it is by now.
Release(w) ==
    /\ doing[w].op = "release"
    /\ lease' = [lease EXCEPT !.released = TRUE]
    /\ held' = [held EXCEPT ![w] = NoClaim]
    /\ Ends(w)
    /\ UNCHANGED <<clock, decisions, messageRows>>

----------------------------------------------------------------------------
(* Decisions.                                                                *)

DecisionIds == DOMAIN decisions
Live(d) == decisions[d].status = "DECIDED"
Decided(prev) == [status |-> "DECIDED", supersedes |-> prev, by |-> 0]

Decide(w) ==
    /\ Rests(w) /\ decisions = <<>>
    /\ decisions' = <<Decided(0)>>
    /\ UNCHANGED <<leaseRows, doing, messageRows>>

Fresh == Cardinality(DecisionIds) + 1

\* Slip: the old answer is marked before the new one is written.
SlipSupersede(w) ==
    /\ Rests(w) /\ Fresh <= MaxDecisions
    /\ \E prev \in DecisionIds :
           /\ decisions' = [decisions EXCEPT ![prev].status = "SUPERSEDED"]
           /\ Starts(w, "mark", prev, Fresh)
    /\ UNCHANGED <<leaseRows, messageRows>>

\* supersede_decision: the replacement is recorded, whatever prev's status is ...
Supersede(w) ==
    /\ Rests(w) /\ Fresh <= MaxDecisions
    /\ \E prev \in DecisionIds :
           /\ decisions' = [d \in DecisionIds \cup {Fresh} |->
                               IF d = Fresh THEN Decided(prev) ELSE decisions[d]]
           /\ Starts(w, "mark", prev, Fresh)
    /\ UNCHANGED <<leaseRows, messageRows>>

\* ... and only then is its predecessor marked.
Mark(w) ==
    /\ doing[w].op = "mark"
    /\ decisions' = [decisions EXCEPT ![doing[w].arg].status = "SUPERSEDED",
                                      ![doing[w].arg].by = doing[w].id]
    /\ Ends(w)
    /\ UNCHANGED <<leaseRows, messageRows>>

----------------------------------------------------------------------------
(* Messages.                                                                 *)

Tells(g, id, stored) == told' = told \cup {[digest |-> g, id |-> id, stored |-> stored]}

\* record_message finds the digest's row, or sees none.
LookUp(w) ==
    \E g \in Digests :
        /\ Rests(w) /\ minted < MaxMessages
        /\ minted' = minted + 1
        /\ \/ /\ messages[g] = {}
              /\ Starts(w, "insert", g, minted + 1)
              /\ UNCHANGED told
           \/ \E id \in messages[g] : Tells(g, id, FALSE) /\ UNCHANGED doing
        /\ UNCHANGED <<leaseRows, decisions, messages>>

\* Slip: without the unique index.
SlipInsert(w) ==
    /\ doing[w].op = "insert"
    /\ messages' = [messages EXCEPT ![doing[w].arg] = @ \cup {doing[w].id}]
    /\ Tells(doing[w].arg, doing[w].id, TRUE)
    /\ Ends(w)
    /\ UNCHANGED <<leaseRows, decisions, minted>>

\* The unique index lets one of them in; the loser answers with the winner's id.
Insert(w) ==
    LET g == doing[w].arg IN
    /\ doing[w].op = "insert"
    /\ IF messages[g] = {}
       THEN /\ messages' = [messages EXCEPT ![g] = {doing[w].id}]
            /\ Tells(g, doing[w].id, TRUE)
       ELSE /\ \E id \in messages[g] : Tells(g, id, FALSE)
            /\ UNCHANGED messages
    /\ Ends(w)
    /\ UNCHANGED <<leaseRows, decisions, minted>>

----------------------------------------------------------------------------
(* The clock, and a strategist that dies: its claim and its operation go.    *)

Tick ==
    /\ clock < MaxClock /\ clock' = clock + 1
    /\ UNCHANGED <<lease, held, doing, decisions, messageRows>>

Dies(w) ==
    /\ held' = [held EXCEPT ![w] = NoClaim]
    /\ Ends(w)
    /\ UNCHANGED <<clock, lease, decisions, messageRows>>

StoreNext ==
    \/ Tick
    \/ \E w \in Strategists :
           \/ Claim(w) \/ Renew(w) \/ ReadForRelease(w) \/ Release(w)
           \/ Decide(w) \/ Supersede(w) \/ Mark(w)
           \/ LookUp(w) \/ Insert(w)
           \/ Dies(w)

StoreSpec == StoreInit /\ [][StoreNext]_storeVars

----------------------------------------------------------------------------
(* Of all the claims strategists believe they hold, one at most passes the   *)
(* guard of a fenced write, through expiry, renewal, death and a release     *)
(* that lands on somebody else's lease (programs.py:189).                    *)
OneWriterPasses ==
    \A v, w \in Strategists :
        (/\ held[v] # NoClaim /\ FencePasses(held[v].fence)
         /\ held[w] # NoClaim /\ FencePasses(held[w].fence))
            => v = w

(* A question that was decided keeps an answer in force, and a replacement   *)
(* and what it replaced name each other, whoever died in between and         *)
(* whichever answers were superseded at once (decisions.py:139).             *)
AnswerStands ==
    /\ decisions # <<>> => \E d \in DecisionIds : Live(d)
    /\ \A d \in DecisionIds :
           decisions[d].by # 0 => /\ decisions[d].by \in DecisionIds
                                  /\ decisions[decisions[d].by].supersedes = d

(* A message recorded by several at once is one row, and every one of them   *)
(* was told that row's id (strategic_store.py:396).                          *)
MessageOnce ==
    \A a \in told : messages[a.digest] = {a.id}
=============================================================================
