--------------------------- MODULE ChatGptWebEnd ---------------------------
(***************************************************************************)
(* The relay's orchestrator end in the operator's browser                  *)
(* (relay/ends/chatgpt_web.py over executors/chatgpt_web_page.py): it      *)
(* types a message into a conversation, learns which turn became of it,    *)
(* waits for the answer to that turn, and after a crash asks the page      *)
(* whether a message is already there.                                     *)
(*                                                                         *)
(* The browser is the operator's, who looks at other conversations in the  *)
(* same tab and writes in them, the relay's included, between any two      *)
(* looks of the end.  The relay was started without a conversation id.     *)
(* The kernel is here as far as it uses this end; RelayKernel has the rest.*)
(* A signed-out browser, a page without its composer and a browser that is *)
(* gone are all a look that fails.                                         *)
(***************************************************************************)
EXTENDS Integers, Sequences, FiniteSets, SequencesExt

CONSTANTS Foreign,      \* the operator's own conversations
          Fresh,        \* conversations that come to be on the new page
          Messages,     \* how many messages the relay has to send
          Window,       \* how many turns of a conversation the page renders
          StablePolls,  \* equal readings before a text is believed
          Tries,        \* incomplete_retry_limit + 1
          MaxMoves,     \* bound on what the operator writes and opens
          MaxRestarts   \* bound on resumes

ASSUME ChatGptWebAssumption ==
  /\ Foreign \cap Fresh = {} /\ "new" \notin Foreign \cup Fresh
  /\ Messages \in Nat /\ Window \in Nat \ {0} /\ StablePolls \in Nat \ {0}
  /\ Tries \in Nat \ {0}

Threads == Foreign \cup Fresh
Nowhere == "new"
Sent == 1..Messages

VARIABLES ids,      \* the page attaches its own id to every turn
          echoes,   \* the page shows a message as it was typed
          thread,   \* the turns of every conversation, at the vendor
          bindable, \* conversations that have the server's id
          tab,      \* the conversation shown, Nowhere for the new page
          record,   \* the end's sidecar file
          named,    \* the conversation the kernel's row names
          ledger,   \* the kernel's ledger: what became of each message
          anchor,   \* the receipt of each delivery
          answer,   \* the turn forwarded as the answer to each message
          end,      \* the end's process
          alone,    \* messages that nobody got in the way of, nor of one before
          moves, restarts

site == <<ids, echoes, thread, bindable, tab>>
kernel == <<named, ledger, anchor, answer>>
bounds == <<moves, restarts>>
vars == <<site, record, kernel, end, alone, bounds>>

NoTurn == <<>>
NoAnchor == [conv |-> Nowhere, id |-> NoTurn]
NoReply == [turn |-> NoTurn, text |-> "none"]
NoEntry == [conv |-> Nowhere, id |-> NoTurn, made |-> FALSE]
Down == [at |-> "down", m |-> 0, bound |-> Nowhere, prior |-> NoTurn,
         last |-> NoReply, stable |-> 0, tries |-> 0]

Stages == {"down", "opening", "settling", "reconcile", "asking", "ready",
           "sending", "readying", "recording", "submitting", "naming",
           "binding", "receipt", "receiving", "polling"}
Progress == {"part", "whole", "done", "dead", "broken", "sent", "shown"}
Texts == {"none", "part", "whole"}

Turns == [by : {"user", "assistant"}, of : Sent \cup {0}, is : Progress]
TurnIds == {NoTurn} \cup (Threads \X Nat)
Places == Threads \cup {Nowhere}
Replies == [turn : TurnIds, text : Texts]

Init ==
  /\ ids \in BOOLEAN /\ echoes \in BOOLEAN
  /\ thread = [t \in Threads |-> <<>>]
  /\ bindable = Foreign /\ tab \in Foreign \cup {Nowhere}
  /\ record = [conv |-> Nowhere, deliveries |-> [m \in Sent |-> NoEntry],
               refusals |-> [m \in Sent |-> NoReply]]
  /\ named = Nowhere /\ ledger = [m \in Sent |-> "waiting"]
  /\ anchor = [m \in Sent |-> NoAnchor] /\ answer = [m \in Sent |-> NoReply]
  /\ end = Down /\ alone = Sent
  /\ moves = 0 /\ restarts = 0

-----------------------------------------------------------------------------
(* What the page shows                                                     *)

Here == IF tab \in bindable THEN tab ELSE Nowhere

(* A long conversation is rendered as a window of its last turns; a turn   *)
(* is rendered a moment after it was submitted.                            *)
Rows ==
  IF tab = Nowhere THEN {}
  ELSE {<<tab, i>> : i \in {j \in 1..Len(thread[tab]) :
          j > Len(thread[tab]) - Window /\ thread[tab][j].is # "sent"}}
Turn(row) == thread[row[1]][row[2]]
Users == {row \in Rows : Turn(row).by = "user"}
Answers == {row \in Rows : Turn(row).by = "assistant"}
Lowest(rows) == CHOOSE row \in rows : \A other \in rows : row[2] <= other[2]
Highest(rows) == CHOOSE row \in rows : \A other \in rows : row[2] >= other[2]

Streaming(turn) == turn.is \in {"part", "whole"}
Text(turn) == IF turn.is \in {"whole", "done"} THEN "whole" ELSE "part"
IdOf(row) == IF ids THEN row ELSE NoTurn

Answering(t) == thread[t] # <<>> /\ Streaming(Last(thread[t]))
Generating == tab # Nowhere /\ Answering(tab)
Alert == tab # Nowhere /\ thread[tab] # <<>> /\ Last(thread[tab]).is = "broken"

LastUserId == IF Users = {} THEN NoTurn ELSE IdOf(Highest(Users))

(* The turns that match a delivery: by the page's id where one is known,   *)
(* else by the key of the text, which the page must echo.                  *)
Matches(m, id) ==
  {row \in Users : IF id # NoTurn THEN IdOf(row) = id
                                  ELSE echoes /\ Turn(row).of = m}

\* Slip: the newest answer on the page is taken.
SlipReplyTo(m, id) == IF Answers = {} THEN {} ELSE {Highest(Answers)}

(* The first assistant turn after the last turn that matches.              *)
ReplyTo(m, id) ==
  LET own == Matches(m, id) IN
  IF own = {} THEN {}
  ELSE LET after == {row \in Answers : row[2] > Highest(own)[2]}
       IN  IF after = {} THEN {} ELSE {Lowest(after)}

-----------------------------------------------------------------------------
(* The vendor and the operator                                             *)

Write(t, turn) == thread' = [thread EXCEPT ![t] = Append(@, turn)]
Change(t, is) ==
  thread' = [thread EXCEPT ![t] = ReplaceAt(@, Len(@), [Last(@) EXCEPT !.is = is])]

Render(t) ==
  /\ \E i \in 1..Len(thread[t]) :
       /\ thread[t][i].is = "sent"
       /\ thread' = [thread EXCEPT ![t] =
                       ReplaceAt(@, i, [@[i] EXCEPT !.is = "shown"])]
  /\ UNCHANGED <<ids, echoes, bindable, tab, record, kernel, end, alone, bounds>>

AssignId(t) ==
  /\ t \notin bindable /\ thread[t] # <<>>
  /\ bindable' = bindable \cup {t}
  /\ UNCHANGED <<ids, echoes, thread, tab, record, kernel, end, alone, bounds>>

BeginAnswer(t) ==
  /\ thread[t] # <<>> /\ Last(thread[t]).is = "shown"
  /\ Write(t, [by |-> "assistant", of |-> Last(thread[t]).of, is |-> "part"])
  /\ UNCHANGED <<ids, echoes, bindable, tab, record, kernel, end, alone, bounds>>

(* A stream that dies stops like one that is done, with an alert or not.   *)
Stream(t) ==
  /\ Answering(t)
  /\ \E is \in CASE Last(thread[t]).is = "part"  -> {"whole", "dead", "broken"}
                 [] Last(thread[t]).is = "whole" -> {"done"} :
       Change(t, is)
  /\ UNCHANGED <<ids, echoes, bindable, tab, record, kernel, end, alone, bounds>>

(* The operator gets in the way of a message when he writes in its         *)
(* conversation while it is in flight, and when he writes, or opens another *)
(* one, as it is typed and named or while its own has no id on record.  A  *)
(* message that took the name of another turn may be named later, for the  *)
(* next one: so he is in the way of those after it, too.                   *)
InFlight == {m \in Sent : ledger[m] = "delivering"}
Unbound == {m \in InFlight : record.deliveries[m].conv = Nowhere}
Typing == IF end.at \in {"recording", "submitting", "naming", "binding"}
          THEN {end.m} ELSE {}
InTheWayOf(crossed) == alone' = {n \in alone : \A m \in crossed : n < m}

OperatorTypes ==
  /\ moves < MaxMoves /\ tab \in bindable /\ ~Generating
  /\ moves' = moves + 1
  /\ Write(tab, [by |-> "user", of |-> 0, is |-> "shown"])
  /\ InTheWayOf(Unbound \cup Typing \cup {m \in InFlight :
                                           record.deliveries[m].conv = tab})
  /\ UNCHANGED <<ids, echoes, bindable, tab, record, kernel, end, restarts>>

OperatorOpens(t) ==
  /\ moves < MaxMoves /\ tab # t /\ t \in bindable \cup {Nowhere}
  /\ moves' = moves + 1
  /\ tab' = t
  /\ InTheWayOf(Unbound \cup Typing)
  /\ UNCHANGED <<ids, echoes, thread, bindable, record, kernel, end, restarts>>

-----------------------------------------------------------------------------
(* The end: attaching                                                      *)

Goto(step) == end' = [end EXCEPT !.at = step]
Fails == end' = Down

(* Started, or started again over what the row and the sidecar name.  What *)
(* the last process typed is on the page long before.                      *)
Attach ==
  /\ end.at = "down" /\ restarts <= MaxRestarts
  /\ \A t \in Threads : \A i \in 1..Len(thread[t]) : thread[t][i].is # "sent"
  /\ restarts' = restarts + 1
  /\ end' = [Down EXCEPT !.at = "opening",
                         !.bound = IF named # Nowhere THEN named ELSE record.conv]
  /\ UNCHANGED <<site, record, kernel, alone, moves>>

(* open: an unbound end opens its own conversation.                        *)
OpenGoto ==
  /\ end.at = "opening"
  /\ tab' = IF end.bound = Here THEN tab ELSE end.bound
  /\ Goto("settling")
  /\ UNCHANGED <<ids, echoes, thread, bindable, record, kernel, alone, bounds>>

(* Landing somewhere else than the row names is a conversation lost.       *)
Opened ==
  /\ end.at = "settling"
  /\ \/ Fails /\ UNCHANGED <<record, named>>
     \/ /\ end.bound # Nowhere => tab = end.bound
        /\ named # Nowhere => Here = named
        /\ LET landed == IF Here # Nowhere THEN Here ELSE end.bound IN
             /\ end' = [end EXCEPT !.at = "reconcile", !.bound = landed]
             /\ record' = [record EXCEPT !.conv = landed]
             /\ named' = IF restarts = 1 THEN landed ELSE named
  /\ UNCHANGED <<site, ledger, anchor, answer, alone, bounds>>

-----------------------------------------------------------------------------
(* holds: reconciling a delivery that a crash, or a refusal, interrupted   *)

Entry(m) == record.deliveries[m]
Resolve(m, how) == ledger' = [ledger EXCEPT ![m] = how]

AskTarget(m) == IF Entry(m).conv # Nowhere THEN Entry(m).conv ELSE end.bound

AskGoto(m) ==
  /\ end.at = "reconcile" /\ ledger[m] = "delivering"
  /\ tab' = IF AskTarget(m) \in {Nowhere, Here} THEN tab ELSE AskTarget(m)
  /\ end' = [end EXCEPT !.at = "asking", !.m = m]
  /\ UNCHANGED <<ids, echoes, thread, bindable, record, kernel, alone, bounds>>

\* Slip: a key that the page may not echo counts as a look.
SlipMisses(m) ==
  /\ Matches(m, Entry(m).id) = {}
  /\ Cardinality(Users) >=
       Cardinality({n \in Sent : Entry(n).made /\ Entry(n).conv = AskTarget(m)})

(* A miss is evidence only where the page shows as many user turns as the  *)
(* relay has recorded deliveries to that conversation, and where the key   *)
(* was not all there was to match by on a page that has ids.               *)
Misses(m) ==
  /\ Matches(m, Entry(m).id) = {}
  /\ Entry(m).id # NoTurn \/ ~ids
  /\ Cardinality(Users) >=
       Cardinality({n \in Sent : Entry(n).made /\ Entry(n).conv = AskTarget(m)})

CanTell(m) ==
  /\ AskTarget(m) # Nowhere => Here = AskTarget(m)
  /\ Rows # {}

HoldsNo ==
  /\ end.at = "asking"
  /\ ~Entry(end.m).made \/ (CanTell(end.m) /\ Misses(end.m))
  /\ Resolve(end.m, "again")
  /\ Goto("reconcile")
  /\ UNCHANGED <<site, record, named, anchor, answer, alone, bounds>>

HoldsYes ==
  /\ end.at = "asking"
  /\ Entry(end.m).made /\ CanTell(end.m) /\ Matches(end.m, Entry(end.m).id) # {}
  /\ Resolve(end.m, "confirmed")
  /\ Goto("reconcile")
  /\ UNCHANGED <<site, record, named, anchor, answer, alone, bounds>>

(* It raises: the page cannot be read, or cannot tell.                     *)
HoldsRaises ==
  /\ end.at = "asking"
  /\ Resolve(end.m, "unreconcilable")
  /\ Fails
  /\ UNCHANGED <<site, record, named, anchor, answer, alone, bounds>>

Reconciled ==
  /\ end.at = "reconcile" /\ InFlight = {}
  /\ Goto("ready")
  /\ UNCHANGED <<site, record, kernel, alone, bounds>>

-----------------------------------------------------------------------------
(* send                                                                    *)

Due(m) ==
  /\ ledger[m] \in {"waiting", "again"}
  /\ \A n \in 1..(m - 1) : answer[n] # NoReply

BeginDelivery(m) ==
  /\ end.at = "ready" /\ Due(m)
  /\ Resolve(m, "delivering")
  /\ end' = [end EXCEPT !.at = "sending", !.m = m]
  /\ UNCHANGED <<site, record, named, anchor, answer, alone, bounds>>

(* An unbound end adopts the conversation it finds, a bound one goes to    *)
(* its own.                                                                *)
Adopt ==
  /\ end.at = "sending"
  /\ LET bound == IF end.bound = Nowhere THEN Here ELSE end.bound IN
       /\ end' = [end EXCEPT !.at = "readying", !.bound = bound]
       /\ record' = IF bound # end.bound THEN [record EXCEPT !.conv = bound]
                                         ELSE record
       /\ tab' = IF bound = Here THEN tab ELSE bound
  /\ UNCHANGED <<ids, echoes, thread, bindable, kernel, alone, bounds>>

Settled ==
  /\ end.at = "readying"
  /\ end.bound # Nowhere => tab = end.bound
  /\ end' = [end EXCEPT !.at = "recording", !.prior = LastUserId]
  /\ UNCHANGED <<site, record, kernel, alone, bounds>>

RecordDelivery ==
  /\ end.at = "recording"
  /\ record' = [record EXCEPT !.conv = end.bound, !.deliveries[end.m] =
                  [conv |-> end.bound, id |-> NoTurn, made |-> TRUE]]
  /\ Goto("submitting")
  /\ UNCHANGED <<site, kernel, alone, bounds>>

(* The new page becomes a conversation when something is submitted on it.  *)
Submit ==
  LET turn == [by |-> "user", of |-> end.m, is |-> "sent"] IN
  /\ end.at = "submitting" /\ ~Generating
  /\ IF tab # Nowhere
     THEN Write(tab, turn) /\ UNCHANGED tab
     ELSE \E t \in Fresh : thread[t] = <<>> /\ Write(t, turn) /\ tab' = t
  /\ Goto("naming")
  /\ UNCHANGED <<ids, echoes, bindable, record, kernel, alone, bounds>>

(* Not settled in time, no send button, the browser gone: the receipt is   *)
(* negative and the kernel stops with the message DELIVERING.              *)
SendRefused ==
  /\ end.at \in {"sending", "readying", "submitting", "naming", "binding"}
  /\ Fails
  /\ UNCHANGED <<site, record, kernel, alone, bounds>>

LearnsOwnId ==
  /\ end.at = "naming" /\ LastUserId \notin {NoTurn, end.prior}
  /\ record' = [record EXCEPT !.deliveries[end.m].id = LastUserId]
  /\ Goto("binding")
  /\ UNCHANGED <<site, kernel, alone, bounds>>

(* The page attached no id, or none in time.                               *)
LearnsNoId ==
  /\ end.at = "naming"
  /\ Goto("binding")
  /\ UNCHANGED <<site, record, kernel, alone, bounds>>

Bind ==
  /\ end.at = "binding"
  /\ LET bound == IF Here # Nowhere THEN Here ELSE end.bound IN
       /\ end' = [end EXCEPT !.at = "receipt", !.bound = bound]
       /\ record' = IF Here = Nowhere THEN record
                    ELSE [record EXCEPT !.conv = bound,
                                        !.deliveries[end.m].conv = bound]
  /\ UNCHANGED <<site, kernel, alone, bounds>>

(* The receipt names what receive has to look for, and is on the ledger.   *)
CompleteDelivery ==
  /\ end.at = "receipt"
  /\ Resolve(end.m, "delivered")
  /\ anchor' = [anchor EXCEPT ![end.m] = [conv |-> end.bound, id |-> Entry(end.m).id]]
  /\ Goto("ready")
  /\ UNCHANGED <<site, record, named, answer, alone, bounds>>

-----------------------------------------------------------------------------
(* receive                                                                 *)

Await(m) ==
  /\ end.at = "ready" /\ ledger[m] = "delivered" /\ answer[m] = NoReply
  /\ end' = [end EXCEPT !.at = "receiving", !.m = m]
  /\ UNCHANGED <<site, record, kernel, alone, bounds>>

(* An incomplete answer: the kernel looks again, or stops.                 *)
Incomplete ==
  end' = IF end.tries + 1 < Tries
         THEN [end EXCEPT !.at = "receiving", !.tries = @ + 1,
                          !.last = NoReply, !.stable = 0]
         ELSE Down

OnItsThread ==
  /\ end.at = "receiving"
  /\ anchor[end.m].conv \in {Nowhere, Here}
  /\ Goto("polling")
  /\ UNCHANGED <<site, record, kernel, alone, bounds>>

(* Another conversation is on the page, or none the end could read: nobody *)
(* is signed in, there is no composer, the browser is gone.                *)
CannotRead ==
  /\ end.at = "receiving"
  /\ Incomplete
  /\ UNCHANGED <<site, record, kernel, alone, bounds>>

Seen == ReplyTo(end.m, anchor[end.m].id)
Reading(row) == [turn |-> IdOf(row), text |-> Text(Turn(row))]

(* A reading that is equal to the one before, with nothing generated.      *)
PollAgain ==
  /\ end.at = "polling" /\ ~(Alert /\ ~Generating)
  /\ \E row \in Seen :
       end' = IF ~Generating /\ Reading(row).text = end.last.text
              THEN [end EXCEPT !.stable = @ + 1]
              ELSE [end EXCEPT !.stable = 0, !.last = Reading(row)]
  /\ end.stable < StablePolls
  /\ UNCHANGED <<site, record, kernel, alone, bounds>>

PollNothing ==
  /\ end.at = "polling" /\ ~(Alert /\ ~Generating) /\ Seen = {}
  /\ end.stable < StablePolls
  /\ end' = [end EXCEPT !.stable = 0, !.last = NoReply]
  /\ UNCHANGED <<site, record, kernel, alone, bounds>>

(* A turn refused once is not accepted with the text it was refused with.  *)
RefusedBefore(m, reading) == reading.turn # NoTurn /\ reading = record.refusals[m]

(* The time is over, or an alert stands beside the answer: what is on the  *)
(* page is refused, and remembered.                                        *)
RefusePartial ==
  /\ end.at = "polling" /\ end.stable < StablePolls
  /\ record' = IF Seen = {} THEN record
               ELSE [record EXCEPT !.refusals[end.m] = Reading(Lowest(Seen))]
  /\ Incomplete
  /\ UNCHANGED <<site, kernel, alone, bounds>>

RefuseStale ==
  /\ end.at = "polling" /\ end.stable = StablePolls
  /\ RefusedBefore(end.m, end.last)
  /\ Incomplete
  /\ UNCHANGED <<site, record, kernel, alone, bounds>>

(* The answer is forwarded: the kernel closes the turn and takes down the  *)
(* conversation's id if its row had none.                                  *)
Receive ==
  /\ end.at = "polling" /\ end.stable = StablePolls
  /\ ~RefusedBefore(end.m, end.last)
  /\ LET bound == IF Here # Nowhere THEN Here ELSE end.bound IN
       /\ record' = [record EXCEPT !.conv = bound]
       /\ named' = IF named = Nowhere THEN bound ELSE named
       /\ end' = [Down EXCEPT !.at = "ready", !.bound = bound]
  /\ answer' = [answer EXCEPT ![end.m] = end.last]
  /\ UNCHANGED <<site, ledger, anchor, alone, bounds>>

(* The process dies, anywhere.                                             *)
Crash ==
  /\ end.at # "down" /\ Fails
  /\ UNCHANGED <<site, record, kernel, alone, bounds>>

-----------------------------------------------------------------------------
SiteStep ==
  \/ \E t \in Threads : Render(t) \/ AssignId(t) \/ BeginAnswer(t) \/ Stream(t)
  \/ OperatorTypes
  \/ \E t \in Places : OperatorOpens(t)

EndStep ==
  \/ Attach \/ OpenGoto \/ Opened \/ Reconciled
  \/ \E m \in Sent : AskGoto(m) \/ BeginDelivery(m) \/ Await(m)
  \/ HoldsNo \/ HoldsYes \/ HoldsRaises
  \/ Adopt \/ Settled \/ RecordDelivery \/ Submit \/ SendRefused
  \/ LearnsOwnId \/ LearnsNoId \/ Bind \/ CompleteDelivery
  \/ OnItsThread \/ CannotRead \/ PollAgain \/ PollNothing
  \/ RefusePartial \/ RefuseStale \/ Receive
  \/ Crash

Next == SiteStep \/ EndStep

Spec == Init /\ [][Next]_vars

-----------------------------------------------------------------------------
(* What must not happen                                                    *)

(* The turns that a message has become.                                    *)
Spoken(m) == {x \in UNION {{t} \X (1..Len(thread[t])) : t \in Threads} :
                Turn(x).by = "user" /\ Turn(x).of = m}

(* A message is typed into the operator's browser at most once, whatever   *)
(* crashes, refusals and restarts come in between: unless the operator got *)
(* in its way or in that of an earlier one, and as long as the page        *)
(* attaches ids to turns or shows a message as it was typed.               *)
TypedOnce == ids \/ echoes => \A m \in alone : Cardinality(Spoken(m)) <= 1

(* What is forwarded as the answer to a message is the first answer after  *)
(* that message in the conversation it was typed in, however much is       *)
(* written in other conversations, or later in its own, however the page   *)
(* scrolls and however often the relay is restarted.                       *)
AnswersItsOwnTurn ==
  \A m \in Sent :
    LET reply == answer[m].turn  own == anchor[m].id IN
    reply # NoTurn /\ own # NoTurn /\ Turn(own).of = m =>
      /\ reply[1] = own[1] /\ reply[2] > own[2]
      /\ \A i \in (own[2] + 1)..(reply[2] - 1) : thread[own[1]][i].by = "user"

=============================================================================
