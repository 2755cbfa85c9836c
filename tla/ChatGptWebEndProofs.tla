----------------------- MODULE ChatGptWebEndProofs -----------------------
(***************************************************************************)
(* The answer that is forwarded and how often a message is typed, for any  *)
(* number of messages, conversations, restarts and moves of the operator.  *)
(* Turns are only ever added to a conversation, and what has been read     *)
(* stays where it was: so it is enough that a reading was of the right turn*)
(* when it was made, and that the receipt it was made by has not changed   *)
(* since.  A message is typed again only after the page was seen to miss   *)
(* it: one that the operator left alone is, while it is in flight, the last*)
(* turn of a user in the conversation the end comes back to, known there by*)
(* its own id or by what was typed.                                        *)
(***************************************************************************)
EXTENDS ChatGptWebEnd, WellFoundedInduction, FiniteSetTheorems, SequenceTheorems, TLAPS

Outcomes == {"waiting", "again", "delivering", "delivered", "confirmed", "unreconcilable"}
Entries == [conv : Places, id : TurnIds, made : BOOLEAN]
Anchors == [conv : Places, id : TurnIds]
Records == [conv : Places, deliveries : [Sent -> Entries], refusals : [Sent -> Replies]]
Ends == [at : Stages, m : Sent \cup {0}, bound : Places, prior : TurnIds,
         last : Replies, stable : Nat, tries : Nat]

Typed ==
  /\ ids \in BOOLEAN /\ bindable \subseteq Threads /\ tab \in Places
  /\ thread \in [Threads -> Seq(Turns)]
  /\ record \in Records
  /\ named \in Places
  /\ ledger \in [Sent -> Outcomes]
  /\ anchor \in [Sent -> Anchors]
  /\ answer \in [Sent -> Replies]
  /\ end \in Ends

(* What is known by an id is in its conversation.                          *)
IsThere(id) == id # NoTurn => id[2] \in DOMAIN thread[id[1]]

IdsAreThere ==
  /\ \A m \in Sent : /\ IsThere(Entry(m).id) /\ IsThere(anchor[m].id)
                     /\ IsThere(answer[m].turn)
  /\ IsThere(end.last.turn)

(* An answer is shown from its first word on.                              *)
AnswersAreShown ==
  \A t \in Threads : \A i \in DOMAIN thread[t] :
    thread[t][i].by = "assistant" => thread[t][i].is # "sent"

(* The end works on a message that is in flight, or waits for the answer   *)
(* to one that is delivered; what is answered was delivered.               *)
Handling == {"asking", "sending", "readying", "recording", "submitting",
             "naming", "binding", "receipt"}
InHand ==
  /\ end.at \in Handling => end.m \in Sent /\ ledger[end.m] = "delivering"
  /\ end.at \in {"receiving", "polling"} => end.m \in Sent /\ ledger[end.m] = "delivered"
  /\ end.at # "polling" => end.last.turn = NoTurn
  /\ \A m \in Sent : answer[m].turn # NoTurn => ledger[m] = "delivered"

(* A turn is the first answer after the one that a message's receipt names.*)
FirstAnswer(m, reply) ==
  LET own == anchor[m].id IN
  reply # NoTurn /\ own # NoTurn /\ Turn(own).of = m =>
    /\ reply[1] = own[1] /\ reply[2] > own[2]
    /\ \A i \in (own[2] + 1)..(reply[2] - 1) : thread[own[1]][i].by = "user"

ReadingIsRight == end.m \in Sent => FirstAnswer(end.m, end.last.turn)

IInv ==
  /\ Typed /\ IdsAreThere /\ AnswersAreShown /\ InHand
  /\ ReadingIsRight /\ AnswersItsOwnTurn

-----------------------------------------------------------------------------
(* What the page shows                                                     *)

(* A set of numbers that is not empty has a least.                         *)
LEMMA LeastIsThere ==
  ASSUME NEW S \in SUBSET Nat, S # {}
  PROVE  \E n \in S : \A i \in S : n <= i
<1>1. PICK n \in S : \A i \in S : ~(<<i, n>> \in OpToRel(<, Nat))
  BY NatLessThanWellFounded, WFMin
<1>2. \A i \in S : ~(i < n)
  BY <1>1 DEF OpToRel
<1> QED BY <1>2

(* One that is bounded has a greatest.                                     *)
LEMMA GreatestIsThere ==
  ASSUME NEW k \in Nat, NEW S \in SUBSET (0..k), S # {}
  PROVE  \E n \in S : \A i \in S : i <= n
<1> DEFINE T == {j \in Nat : \E i \in S : j = k - i}
<1>1. T \in SUBSET Nat /\ T # {}
  <2>1. PICK i \in S : TRUE
    OBVIOUS
  <2>2. i \in 0..k /\ k - i \in Nat
    OBVIOUS
  <2> QED BY <2>1, <2>2
<1>2. \A i \in S : k - i \in T
  OBVIOUS
<1>3. \A j \in T : \E i \in S : j = k - i
  OBVIOUS
<1> HIDE DEF T
<1>4. PICK low \in T : \A j \in T : low <= j
  BY <1>1, LeastIsThere
<1>5. PICK n \in S : low = k - n
  BY <1>3, <1>4
<1>6. \A i \in S : i <= n
  BY <1>2, <1>4, <1>5
<1> QED BY <1>5, <1>6

LEMMA IdsArePairs ==
  ASSUME NEW id \in TurnIds, id # NoTurn
  PROVE  id[1] \in Threads /\ id[2] \in Nat /\ id = <<id[1], id[2]>>
BY DEF TurnIds

(* A row is a turn of the conversation in the tab.                         *)
LEMMA RowsAreTurns ==
  ASSUME Typed, NEW row \in Rows
  PROVE  /\ tab \in Threads /\ row[1] = tab /\ row = <<tab, row[2]>>
         /\ row[2] \in 1..Len(thread[tab]) /\ row[2] \in DOMAIN thread[tab]
         /\ row[2] > Len(thread[tab]) - Window
         /\ row \in TurnIds /\ row # NoTurn
<1>1. tab \in Threads /\ thread[tab] \in Seq(Turns)
  BY DEF Typed, Rows, Places
<1>2. PICK i \in 1..Len(thread[tab]) :
        row = <<tab, i>> /\ i > Len(thread[tab]) - Window
  BY <1>1 DEF Rows
<1>3. row[1] = tab /\ row[2] = i
  BY <1>2
<1>4. i \in Nat /\ i \in DOMAIN thread[tab]
  BY <1>1, <1>2
<1>5. row \in Threads \X Nat /\ row # NoTurn
  BY <1>1, <1>2, <1>4 DEF NoTurn
<1> QED BY <1>1, <1>2, <1>3, <1>4, <1>5 DEF TurnIds

LEMMA LowestIsThere ==
  ASSUME Typed, NEW rows \in SUBSET Rows, rows # {}
  PROVE  Lowest(rows) \in rows /\ \A row \in rows : Lowest(rows)[2] <= row[2]
<1> DEFINE S == {row[2] : row \in rows}
<1>1. S \in SUBSET Nat /\ S # {}
  <2>1. \A row \in rows : row[2] \in Nat
    <3> TAKE row \in rows
    <3>1. tab \in Threads /\ row[2] \in 1..Len(thread[tab])
      BY RowsAreTurns
    <3> QED BY <3>1
  <2> QED BY <2>1
<1>2. PICK n \in S : \A i \in S : n <= i
  <2> HIDE DEF S
  <2> QED BY <1>1, LeastIsThere
<1>3. PICK row \in rows : row[2] = n
  BY <1>2
<1>4. \A other \in rows : row[2] <= other[2]
  BY <1>2, <1>3
<1> QED BY <1>4 DEF Lowest

LEMMA HighestIsThere ==
  ASSUME Typed, NEW rows \in SUBSET Rows, rows # {}
  PROVE  Highest(rows) \in rows /\ \A row \in rows : row[2] <= Highest(rows)[2]
<1> DEFINE S == {row[2] : row \in rows}
<1>1. PICK k \in Nat : S \in SUBSET (0..k) /\ S # {}
  <2>1. PICK row \in rows : TRUE
    OBVIOUS
  <2>2. tab \in Threads /\ Len(thread[tab]) \in Nat
    BY <2>1, RowsAreTurns DEF Typed
  <2>3. \A other \in rows : other[2] \in 0..Len(thread[tab])
    <3> TAKE other \in rows
    <3>1. other[2] \in 1..Len(thread[tab])
      BY RowsAreTurns
    <3> QED BY <2>2, <3>1
  <2> QED BY <2>2, <2>3
<1>2. PICK n \in S : \A i \in S : i <= n
  <2> HIDE DEF S
  <2> QED BY <1>1, GreatestIsThere
<1>3. PICK row \in rows : row[2] = n
  BY <1>2
<1>4. \A other \in rows : other[2] \in Nat /\ row[2] \in Nat /\ other[2] <= row[2]
  BY <1>1, <1>2, <1>3
<1>5. \A other \in rows : row[2] >= other[2]
  BY <1>4
<1> QED BY <1>5 DEF Highest

(* The id a row is known by is an id, and of a turn that is there.         *)
LEMMA RowIds ==
  ASSUME Typed, NEW row \in Rows
  PROVE  IdOf(row) \in TurnIds /\ IsThere(IdOf(row)) /\ Reading(row) \in Replies
<1>1. IdOf(row) \in TurnIds /\ IsThere(IdOf(row))
  <2>1. CASE ids
    BY <2>1, RowsAreTurns DEF IdOf, IsThere
  <2>2. CASE ~ids
    BY <2>2 DEF IdOf, IsThere, TurnIds
  <2> QED BY <2>1, <2>2
<1>2. Text(Turn(row)) \in Texts
  BY DEF Text, Texts
<1> QED BY <1>1, <1>2 DEF Reading, Replies

LEMMA UserIds ==
  ASSUME Typed
  PROVE  LastUserId \in TurnIds /\ IsThere(LastUserId)
<1>1. CASE Users = {}
  BY <1>1 DEF LastUserId, IsThere, TurnIds
<1>2. CASE Users # {}
  <2>1. Highest(Users) \in Rows
    BY <1>2, HighestIsThere DEF Users
  <2> QED BY <1>2, <2>1, RowIds DEF LastUserId
<1> QED BY <1>1, <1>2

LEMMA ReplyIsARow ==
  ASSUME Typed, NEW m, NEW id
  PROVE  ReplyTo(m, id) \in SUBSET Rows
<1> DEFINE after == {row \in Answers : row[2] > Highest(Matches(m, id))[2]}
<1>1. ReplyTo(m, id) = {} \/ (after # {} /\ ReplyTo(m, id) = {Lowest(after)})
  BY Zenon DEF ReplyTo
<1>2. after \in SUBSET Rows
  BY DEF Answers
<1> HIDE DEF after
<1> QED BY <1>1, <1>2, LowestIsThere

(* What is taken for the answer, where the page attaches ids, is the first *)
(* answer after the turn that has the id.                                  *)
LEMMA ReplyIsFirst ==
  ASSUME Typed, AnswersAreShown, NEW m \in Sent, NEW row \in ReplyTo(m, anchor[m].id)
  PROVE  FirstAnswer(m, IdOf(row))
<1> DEFINE own == anchor[m].id
           after == {r \in Answers : r[2] > Highest(Matches(m, own))[2]}
<1> SUFFICES ASSUME IdOf(row) # NoTurn, own # NoTurn
             PROVE  /\ IdOf(row)[1] = own[1] /\ IdOf(row)[2] > own[2]
                    /\ \A i \in (own[2] + 1)..(IdOf(row)[2] - 1) : thread[own[1]][i].by = "user"
  BY DEF FirstAnswer
<1>1. IdOf(row) = row /\ \A r : IdOf(r) = r
  BY DEF IdOf
<1>2. Matches(m, own) # {} /\ after # {} /\ row = Lowest(after)
  BY Zenon DEF ReplyTo
<1>3. own \in Users /\ Matches(m, own) = {own}
  BY <1>1, <1>2 DEF Matches
<1>4. Highest(Matches(m, own)) = own
  <2>1. Matches(m, own) \in SUBSET Rows
    BY DEF Matches, Users
  <2> QED BY <1>2, <1>3, <2>1, HighestIsThere
<1>5. own \in Rows /\ after \in SUBSET Rows
  BY <1>3 DEF Users, Answers
<1> PICK S : S = after
  OBVIOUS
<1>6. \A r : r \in S <=> r \in Answers /\ r[2] > own[2]
  BY <1>4
<1> HIDE DEF after
<1>7. row \in S /\ \A r \in S : row[2] <= r[2]
  BY <1>2, <1>5, LowestIsThere
<1>8. row \in Rows /\ row[2] > own[2]
  BY <1>5, <1>6, <1>7
<1>9. /\ tab \in Threads /\ own[1] = tab /\ row[1] = tab
      /\ row[2] \in 1..Len(thread[tab]) /\ own[2] \in 1..Len(thread[tab])
      /\ own[2] > Len(thread[tab]) - Window
  BY <1>5, <1>8, RowsAreTurns
<1>10. ASSUME NEW i \in (own[2] + 1)..(row[2] - 1)
       PROVE  thread[tab][i].by = "user"
  <2>1. thread[tab] \in Seq(Turns) /\ Len(thread[tab]) \in Nat
    BY <1>9 DEF Typed
  <2>2. /\ i \in 1..Len(thread[tab]) /\ i > Len(thread[tab]) - Window
        /\ i > own[2] /\ ~(row[2] <= i)
    BY <1>9, <2>1, ChatGptWebAssumption DEF ChatGptWebAssumption
  <2>3. i \in DOMAIN thread[tab] /\ thread[tab][i] \in Turns
    BY <2>1, <2>2
  <2>4. SUFFICES ASSUME thread[tab][i].by = "assistant" PROVE FALSE
    BY <2>3 DEF Turns
  <2>5. thread[tab][i].is # "sent"
    BY <1>9, <2>3, <2>4 DEF AnswersAreShown
  <2>6. <<tab, i>> \in Rows
    BY <1>9, <2>2, <2>5, ChatGptWebAssumption DEF Rows, Nowhere, Threads, ChatGptWebAssumption
  <2>7. <<tab, i>> \in Answers
    BY <2>4, <2>6 DEF Answers, Turn
  <2> QED BY <1>6, <1>7, <2>2, <2>7
<1> QED BY <1>1, <1>8, <1>9, <1>10

-----------------------------------------------------------------------------
(* Conversations only grow.                                                *)

Grows ==
  \A t \in Threads :
    /\ DOMAIN thread[t] \subseteq DOMAIN thread'[t]
    /\ \A i \in DOMAIN thread[t] :
         thread'[t][i].by = thread[t][i].by /\ thread'[t][i].of = thread[t][i].of

(* What the vendor and the operator do to the conversations.               *)
Written == thread' \in [Threads -> Seq(Turns)] /\ Grows /\ AnswersAreShown'

LEMMA WriteGrows ==
  ASSUME Typed, AnswersAreShown, NEW t \in Threads, NEW turn \in Turns, Write(t, turn),
         turn.by = "assistant" => turn.is # "sent"
  PROVE  Written
<1>1. thread[t] \in Seq(Turns) /\ Append(thread[t], turn) \in Seq(Turns)
  BY DEF Typed
<1>2. PICK q : q = Append(thread[t], turn)
  OBVIOUS
<1>3. /\ q \in Seq(Turns) /\ DOMAIN q = DOMAIN thread[t] \cup {Len(thread[t]) + 1}
      /\ \A i \in DOMAIN thread[t] : q[i] = thread[t][i]
      /\ q[Len(thread[t]) + 1] = turn
  BY <1>1, <1>2
<1>4. /\ thread' \in [Threads -> Seq(Turns)] /\ thread'[t] = q
      /\ \A u \in Threads : u # t => thread'[u] = thread[u]
  BY <1>1, <1>2 DEF Typed, Write
<1>5. Grows
  BY <1>3, <1>4 DEF Grows
<1>6. AnswersAreShown'
  <2> SUFFICES ASSUME NEW u \in Threads, NEW i \in DOMAIN thread'[u],
                      thread'[u][i].by = "assistant"
               PROVE  thread'[u][i].is # "sent"
    BY DEF AnswersAreShown
  <2>1. CASE u = t /\ i \notin DOMAIN thread[t]
    BY <1>3, <1>4, <2>1
  <2>2. CASE u = t /\ i \in DOMAIN thread[t]
    BY <1>3, <1>4, <2>2 DEF AnswersAreShown
  <2>3. CASE u # t
    BY <1>4, <2>3 DEF AnswersAreShown
  <2> QED BY <2>1, <2>2, <2>3
<1> QED BY <1>4, <1>5, <1>6 DEF Written

LEMMA ReplaceGrows ==
  ASSUME Typed, AnswersAreShown, NEW t \in Threads, NEW i \in DOMAIN thread[t],
         NEW is \in Progress \ {"sent"},
         thread' = [thread EXCEPT ![t] = ReplaceAt(@, i, [@[i] EXCEPT !.is = is])]
  PROVE  Written
<1>1. thread[t] \in Seq(Turns) /\ thread[t][i] \in Turns
  BY DEF Typed
<1>2. PICK turn : turn = [thread[t][i] EXCEPT !.is = is]
  OBVIOUS
<1>3. /\ turn \in Turns /\ turn.by = thread[t][i].by /\ turn.of = thread[t][i].of
      /\ turn.is # "sent"
  BY <1>1, <1>2 DEF Turns
<1>4. PICK q : q = [thread[t] EXCEPT ![i] = turn]
  OBVIOUS
<1>5. /\ q \in Seq(Turns) /\ DOMAIN q = DOMAIN thread[t] /\ q[i] = turn
      /\ \A j \in DOMAIN thread[t] : j # i => q[j] = thread[t][j]
  BY <1>1, <1>3, <1>4
<1>6. /\ thread' \in [Threads -> Seq(Turns)] /\ thread'[t] = q
      /\ \A u \in Threads : u # t => thread'[u] = thread[u]
  BY <1>1, <1>2, <1>4, <1>5 DEF Typed, ReplaceAt
<1>7. Grows
  BY <1>3, <1>5, <1>6 DEF Grows
<1>8. AnswersAreShown'
  <2> SUFFICES ASSUME NEW u \in Threads, NEW j \in DOMAIN thread'[u],
                      thread'[u][j].by = "assistant"
               PROVE  thread'[u][j].is # "sent"
    BY DEF AnswersAreShown
  <2>1. CASE u = t /\ j = i
    BY <1>3, <1>5, <1>6, <2>1
  <2>2. CASE u = t /\ j # i
    BY <1>5, <1>6, <2>2 DEF AnswersAreShown
  <2>3. CASE u # t
    BY <1>6, <2>3 DEF AnswersAreShown
  <2> QED BY <2>1, <2>2, <2>3
<1> QED BY <1>6, <1>7, <1>8 DEF Written

LEMMA ChangeGrows ==
  ASSUME Typed, AnswersAreShown, NEW t \in Threads, thread[t] # <<>>,
         NEW is \in Progress \ {"sent"}, Change(t, is)
  PROVE  Written
<1>1. thread[t] \in Seq(Turns)
  BY DEF Typed
<1>2. Len(thread[t]) \in DOMAIN thread[t]
  BY <1>1
<1>3. thread' = [thread EXCEPT ![t] =
                   ReplaceAt(@, Len(@), [@[Len(@)] EXCEPT !.is = is])]
  BY DEF Change, Last
<1>4. PICK i : i = Len(thread[t])
  OBVIOUS
<1>5. thread' = [thread EXCEPT ![t] = ReplaceAt(@, i, [@[i] EXCEPT !.is = is])]
  BY <1>3, <1>4
<1> QED BY <1>2, <1>4, <1>5, ReplaceGrows

LEMMA StaysWritten ==
  ASSUME Typed, AnswersAreShown, thread' = thread
  PROVE  Written
BY DEF Written, Grows, Typed, AnswersAreShown

(* What stays true of a conversation that grows.                           *)
LEMMA ThereStays ==
  ASSUME Grows, NEW CONSTANT id \in TurnIds, IsThere(id)
  PROVE  IsThere(id)'
<1> SUFFICES ASSUME id # NoTurn PROVE id[2] \in DOMAIN thread'[id[1]]
  BY DEF IsThere
<1> QED BY IdsArePairs DEF Grows, IsThere

LEMMA FirstStays ==
  ASSUME Typed, Grows, NEW CONSTANT m \in Sent, NEW CONSTANT reply \in TurnIds,
         anchor'[m] = anchor[m], IsThere(anchor[m].id), IsThere(reply),
         FirstAnswer(m, reply)
  PROVE  FirstAnswer(m, reply)'
<1> PICK own : own = anchor[m].id
  OBVIOUS
<1>1. own \in TurnIds
  BY DEF Typed, Anchors
<1> SUFFICES ASSUME reply # NoTurn, own # NoTurn, thread'[own[1]][own[2]].of = m
             PROVE  /\ reply[1] = own[1] /\ reply[2] > own[2]
                    /\ \A i \in (own[2] + 1)..(reply[2] - 1) : thread'[own[1]][i].by = "user"
  BY DEF FirstAnswer, Turn
<1>2. /\ own[1] \in Threads /\ own[2] \in Nat /\ own[2] \in DOMAIN thread[own[1]]
      /\ reply[1] \in Threads /\ reply[2] \in Nat /\ reply[2] \in DOMAIN thread[reply[1]]
  BY <1>1, IdsArePairs DEF IsThere
<1>3. thread[own[1]][own[2]].of = m
  BY <1>2 DEF Grows
<1>4. /\ reply[1] = own[1] /\ reply[2] > own[2]
      /\ \A i \in (own[2] + 1)..(reply[2] - 1) : thread[own[1]][i].by = "user"
  BY <1>3 DEF FirstAnswer, Turn
<1>5. ASSUME NEW i \in (own[2] + 1)..(reply[2] - 1)
      PROVE  thread'[own[1]][i].by = "user"
  <2>1. thread[own[1]] \in Seq(Turns)
    BY <1>2 DEF Typed
  <2>2. PICK q \in Seq(Turns) : q = thread[own[1]]
    BY <2>1
  <2>3. PICK n \in Nat : n = Len(q) /\ DOMAIN q = 1..n
    OBVIOUS
  <2>4. i \in 1..n
    <3>1. own[2] \in 1..n
      BY <1>2, <2>2, <2>3
    <3>2. reply[2] \in 1..n
      BY <1>2, <1>4, <2>2, <2>3
    <3> QED BY <3>1, <3>2
  <2>5. i \in DOMAIN thread[own[1]]
    BY <2>2, <2>3, <2>4
  <2> QED BY <1>2, <1>4, <2>5 DEF Grows
<1> QED BY <1>4, <1>5

-----------------------------------------------------------------------------
(* Steps that leave answers and receipts alone.                            *)

LEMMA Keeps ==
  ASSUME IInv, Typed', Written, InHand', answer' = answer, anchor' = anchor,
         \A m \in Sent : record'.deliveries[m].id
                           \in {record.deliveries[m].id, NoTurn, LastUserId},
         end'.last.turn = NoTurn \/ (end'.last = end.last /\ end'.m = end.m)
  PROVE  IInv'
<1> USE DEF IInv
<1>1. Grows /\ AnswersAreShown'
  BY DEF Written
<1>2. \A id \in TurnIds : IsThere(id) => IsThere(id)'
  <2> TAKE id \in TurnIds
  <2> QED BY <1>1, ThereStays
<1>3. NoTurn \in TurnIds /\ IsThere(NoTurn)
  BY DEF TurnIds, IsThere
<1>4. /\ end.last.turn \in TurnIds
      /\ \A m \in Sent : /\ Entry(m).id \in TurnIds /\ anchor[m].id \in TurnIds
                         /\ answer[m].turn \in TurnIds
  BY DEF Typed, Ends, Records, Entries, Anchors, Replies, Entry
<1>5. IdsAreThere'
  <2>1. ASSUME NEW m \in Sent
        PROVE  IsThere(Entry(m).id)' /\ IsThere(anchor[m].id)' /\ IsThere(answer[m].turn)'
    <3>1. PICK own, reply, id : /\ own = anchor[m].id /\ reply = answer[m].turn
                                /\ id = record'.deliveries[m].id
      OBVIOUS
    <3>2. own \in TurnIds /\ IsThere(own) /\ reply \in TurnIds /\ IsThere(reply)
      BY <1>4, <3>1 DEF IdsAreThere
    <3>3. id \in TurnIds /\ IsThere(id)
      BY <1>3, <1>4, <3>1, UserIds DEF IdsAreThere, Entry
    <3>4. IsThere(own)' /\ IsThere(reply)' /\ IsThere(id)'
      BY <1>2, <3>2, <3>3
    <3> QED BY <3>1, <3>4 DEF Entry, IsThere
  <2>2. IsThere(end.last.turn)'
    <3>1. PICK reply : reply = end'.last.turn
      OBVIOUS
    <3>2. reply \in TurnIds /\ IsThere(reply)
      BY <1>3, <1>4, <3>1 DEF IdsAreThere
    <3>3. IsThere(reply)'
      BY <1>2, <3>2
    <3> QED BY <3>1, <3>3 DEF IsThere
  <2> QED BY <2>1, <2>2 DEF IdsAreThere
<1>6. \A m \in Sent, reply \in TurnIds :
        IsThere(reply) /\ FirstAnswer(m, reply) => FirstAnswer(m, reply)'
  <2> TAKE m \in Sent, reply \in TurnIds
  <2>1. IsThere(anchor[m].id)
    BY DEF IdsAreThere
  <2> QED BY <1>1, <2>1, FirstStays
<1>7. AnswersItsOwnTurn'
  <2>1. ASSUME NEW m \in Sent PROVE FirstAnswer(m, answer[m].turn)'
    <3>1. PICK reply : reply = answer[m].turn
      OBVIOUS
    <3>2. reply \in TurnIds /\ IsThere(reply) /\ FirstAnswer(m, reply)
      BY <1>4, <3>1 DEF IdsAreThere, AnswersItsOwnTurn, FirstAnswer
    <3>3. FirstAnswer(m, reply)'
      BY <1>6, <3>2
    <3> QED BY <3>1, <3>3 DEF FirstAnswer
  <2> QED BY <2>1 DEF AnswersItsOwnTurn, FirstAnswer
<1>8. ReadingIsRight'
  <2>1. CASE end'.last.turn = NoTurn
    BY <2>1 DEF ReadingIsRight, FirstAnswer
  <2>2. CASE end'.last = end.last /\ end'.m = end.m
    <3> SUFFICES ASSUME end'.m \in Sent PROVE FirstAnswer(end.m, end.last.turn)'
      BY DEF ReadingIsRight
    <3>1. PICK m \in Sent, reply \in TurnIds : m = end.m /\ reply = end.last.turn
      BY <1>4, <2>2
    <3>2. IsThere(reply) /\ FirstAnswer(m, reply)
      BY <3>1 DEF IdsAreThere, ReadingIsRight
    <3>3. FirstAnswer(m, reply)'
      BY <1>6, <3>2
    <3> QED BY <2>2, <3>1, <3>3 DEF FirstAnswer
  <2> QED BY <2>1, <2>2
<1> QED BY <1>1, <1>5, <1>7, <1>8

LEMMA SiteKeeps == ASSUME IInv, SiteStep PROVE IInv'
<1> USE DEF IInv
<1>1. /\ UNCHANGED <<ids, record, kernel, end>>
      /\ Written /\ bindable' \subseteq Threads /\ tab' \in Places
  <2>0. thread \in [Threads -> Seq(Turns)] /\ bindable \subseteq Threads /\ tab \in Places
    BY DEF Typed
  <2>1. ASSUME NEW t \in Threads, Render(t) PROVE Written
    <3>1. PICK i \in 1..Len(thread[t]) :
            thread' = [thread EXCEPT ![t] = ReplaceAt(@, i, [@[i] EXCEPT !.is = "shown"])]
      BY <2>1 DEF Render
    <3>2. i \in DOMAIN thread[t] /\ "shown" \in Progress \ {"sent"}
      BY <2>0 DEF Progress
    <3> QED BY <3>1, <3>2, ReplaceGrows
  <2>2. ASSUME NEW t \in Threads, BeginAnswer(t) PROVE Written
    <3>1. PICK turn : turn = [by |-> "assistant", of |-> Last(thread[t]).of, is |-> "part"]
      OBVIOUS
    <3>2. thread[t] # <<>> /\ Write(t, turn)
      BY <2>2, <3>1 DEF BeginAnswer
    <3>3. Last(thread[t]) \in Turns
      BY <2>0, <3>2 DEF Last
    <3>4. turn \in Turns /\ turn.is # "sent"
      BY <3>1, <3>3 DEF Turns, Progress
    <3> QED BY <3>2, <3>4, WriteGrows
  <2>3. ASSUME NEW t \in Threads, Stream(t) PROVE Written
    <3>1. PICK is \in {"whole", "dead", "broken", "done"} : Change(t, is)
      BY <2>3 DEF Stream, Answering, Streaming
    <3>2. thread[t] # <<>> /\ is \in Progress \ {"sent"}
      BY <2>3 DEF Stream, Answering, Progress
    <3> QED BY <3>1, <3>2, ChangeGrows
  <2>4. ASSUME OperatorTypes PROVE Written
    <3>1. PICK turn : turn = [by |-> "user", of |-> 0, is |-> "shown"]
      OBVIOUS
    <3>2. tab \in Threads /\ Write(tab, turn)
      BY <2>0, <2>4, <3>1 DEF OperatorTypes
    <3>3. turn \in Turns /\ turn.is # "sent"
      BY <3>1 DEF Turns, Progress
    <3> QED BY <3>2, <3>3, WriteGrows
  <2>5. ASSUME NEW t \in Threads, AssignId(t)
        PROVE  Written /\ bindable' \subseteq Threads
    BY <2>0, <2>5, StaysWritten DEF AssignId
  <2>6. ASSUME NEW t \in Places, OperatorOpens(t)
        PROVE  Written /\ tab' \in Places
    BY <2>6, StaysWritten DEF OperatorOpens
  <2>7. UNCHANGED <<ids, record, kernel, end>>
    BY DEF SiteStep, Render, AssignId, BeginAnswer, Stream, OperatorTypes, OperatorOpens
  <2>8. bindable' \subseteq Threads /\ tab' \in Places
    BY <2>0, <2>5, <2>6 DEF SiteStep, Render, BeginAnswer, Stream, OperatorTypes,
       AssignId, OperatorOpens
  <2> QED BY <2>1, <2>2, <2>3, <2>4, <2>5, <2>6, <2>7, <2>8 DEF SiteStep
<1>2. Typed'
  BY <1>1 DEF Typed, Written, kernel
<1>3. InHand'
  BY <1>1 DEF InHand, kernel
<1> QED BY <1>1, <1>2, <1>3, Keeps DEF kernel

-----------------------------------------------------------------------------
(* The steps of the end.                                                   *)

(* Most of them leave the conversations alone, too.                        *)
LEMMA CalmKeeps ==
  ASSUME IInv, UNCHANGED <<ids, echoes, thread, bindable, anchor, answer>>,
         tab' \in Places, named' \in Places, record' \in Records,
         ledger' \in [Sent -> Outcomes], end' \in Ends, InHand',
         \A m \in Sent : record'.deliveries[m].id
                           \in {record.deliveries[m].id, NoTurn, LastUserId},
         end'.last.turn = NoTurn \/ (end'.last = end.last /\ end'.m = end.m)
  PROVE  IInv'
<1>1. Typed'
  BY DEF IInv, Typed
<1>2. Written
  BY StaysWritten DEF IInv
<1> QED BY <1>1, <1>2, Keeps

LEMMA EndTypes ==
  ASSUME IInv
  PROVE  /\ tab \in Places /\ Here \in Places /\ named \in Places /\ record \in Records
         /\ ledger \in [Sent -> Outcomes] /\ end \in Ends /\ Down \in Ends
         /\ Down.last.turn = NoTurn /\ NoReply.turn = NoTurn /\ NoReply \in Replies
         /\ NoTurn \in TurnIds /\ Nowhere \in Places /\ 0 \notin Sent
         /\ record.conv \in Places /\ \A m \in Sent : Entry(m) \in Entries
         /\ end.bound \in Places /\ end.stable \in Nat /\ end.tries \in Nat
         /\ end.m \in Sent \cup {0} /\ end.prior \in TurnIds /\ end.last \in Replies
<1>1. /\ tab \in Places /\ named \in Places /\ record \in Records
      /\ ledger \in [Sent -> Outcomes] /\ end \in Ends
  BY DEF IInv, Typed
<1>2. Here \in Places
  BY <1>1 DEF Here, Places
<1>3. NoTurn \in TurnIds /\ Nowhere \in Places /\ 0 \notin Sent
  BY DEF TurnIds, Places, Sent
<1>4. NoReply.turn = NoTurn /\ NoReply \in Replies
  BY <1>3 DEF NoReply, Replies, Texts
<1>5. Down \in Ends /\ Down.last.turn = NoTurn
  BY <1>3, <1>4 DEF Down, Ends, Stages
<1>6. record.conv \in Places /\ \A m \in Sent : Entry(m) \in Entries
  BY <1>1 DEF Records, Entry
<1> QED BY <1>1, <1>2, <1>3, <1>4, <1>5, <1>6 DEF Ends

(* A process that fails leaves nothing half read.                          *)
LEMMA FailsKeeps ==
  ASSUME IInv, UNCHANGED <<site, anchor, answer>>, named' \in Places,
         record' \in Records, \A m \in Sent : record'.deliveries[m].id = record.deliveries[m].id,
         ledger' \in [Sent -> Outcomes],
         \A m \in Sent : ledger[m] = "delivered" => ledger'[m] = "delivered",
         Fails
  PROVE  IInv'
<1>1. end' = Down /\ end' \in Ends /\ end'.last.turn = NoTurn /\ tab' \in Places
  BY EndTypes DEF Fails, site
<1>2. InHand'
  BY <1>1 DEF IInv, InHand, Down, Handling
<1> QED BY <1>1, <1>2, CalmKeeps DEF site

LEMMA AttachingKeeps ==
  ASSUME IInv, Attach \/ OpenGoto \/ Opened \/ Reconciled
  PROVE  IInv'
<1> USE EndTypes
<1>1. CASE Attach
  <2>1. end' \in Ends /\ end'.at = "opening" /\ end'.last.turn = NoTurn
    BY <1>1 DEF Attach, Ends, Stages, Down, NoReply
  <2>2. InHand'
    BY <1>1, <2>1 DEF Attach, IInv, InHand, Handling, kernel
  <2> QED BY <1>1, <2>1, <2>2, CalmKeeps DEF Attach, site, kernel
<1>2. CASE OpenGoto
  <2>1. /\ end' \in Ends /\ end'.at = "settling" /\ end'.last = end.last
        /\ end'.m = end.m /\ end.last.turn = NoTurn /\ tab' \in Places
    BY <1>2 DEF OpenGoto, Goto, Ends, Stages, IInv, InHand
  <2>2. InHand'
    BY <1>2, <2>1 DEF OpenGoto, IInv, InHand, Handling, kernel
  <2> QED BY <1>2, <2>1, <2>2, CalmKeeps DEF OpenGoto, kernel
<1>3. CASE Opened
  <2>1. CASE Fails /\ UNCHANGED <<record, named>>
    BY <1>3, <2>1, FailsKeeps DEF Opened
  <2>2. CASE ~(Fails /\ UNCHANGED <<record, named>>)
    <3>1. PICK landed \in Places :
            /\ end' = [end EXCEPT !.at = "reconcile", !.bound = landed]
            /\ record' = [record EXCEPT !.conv = landed]
            /\ named' = IF restarts = 1 THEN landed ELSE named
      BY <1>3, <2>2 DEF Opened
    <3>2. /\ end' \in Ends /\ end'.at = "reconcile" /\ end'.last = end.last
          /\ end'.m = end.m /\ end.last.turn = NoTurn
      BY <1>3, <3>1 DEF Opened, Ends, Stages, IInv, InHand
    <3>3. record' \in Records /\ record'.deliveries = record.deliveries /\ named' \in Places
      BY <3>1 DEF Records
    <3>4. InHand'
      BY <1>3, <3>2 DEF Opened, IInv, InHand, Handling
    <3> QED BY <1>3, <3>2, <3>3, <3>4, CalmKeeps DEF Opened, site
  <2> QED BY <2>1, <2>2
<1>4. CASE Reconciled
  <2>1. /\ end' \in Ends /\ end'.at = "ready" /\ end'.last = end.last
        /\ end'.m = end.m /\ end.last.turn = NoTurn
    BY <1>4 DEF Reconciled, Goto, Ends, Stages, IInv, InHand
  <2>2. InHand'
    BY <1>4, <2>1 DEF Reconciled, IInv, InHand, Handling, kernel
  <2> QED BY <1>4, <2>1, <2>2, CalmKeeps DEF Reconciled, site, kernel
<1> QED BY <1>1, <1>2, <1>3, <1>4

LEMMA AskingKeeps ==
  ASSUME IInv, (\E m \in Sent : AskGoto(m)) \/ HoldsNo \/ HoldsYes \/ HoldsRaises
  PROVE  IInv'
<1> USE EndTypes
<1>1. ASSUME NEW m \in Sent, AskGoto(m) PROVE IInv'
  <2>1. AskTarget(m) \in Places
    BY DEF AskTarget, Entries
  <2>2. /\ end' \in Ends /\ end'.at = "asking" /\ end'.last = end.last
        /\ end'.m = m /\ end.last.turn = NoTurn /\ tab' \in Places
    BY <1>1, <2>1 DEF AskGoto, Ends, Stages, IInv, InHand
  <2>3. InHand'
    BY <1>1, <2>2 DEF AskGoto, IInv, InHand, Handling, kernel
  <2> QED BY <1>1, <2>2, <2>3, CalmKeeps DEF AskGoto, kernel
<1>2. ASSUME NEW how \in {"again", "confirmed"}, Resolve(end.m, how), Goto("reconcile"),
             end.at = "asking", UNCHANGED <<site, record, named, anchor, answer>>
      PROVE  IInv'
  <2>1. /\ end' \in Ends /\ end'.at = "reconcile" /\ end'.last = end.last
        /\ end'.m = end.m /\ end.last.turn = NoTurn
    BY <1>2 DEF Goto, Ends, Stages, IInv, InHand
  <2>2. ledger[end.m] = "delivering" /\ ledger' \in [Sent -> Outcomes]
    BY <1>2 DEF Resolve, Outcomes, IInv, InHand, Handling
  <2>3. InHand'
    BY <1>2, <2>1, <2>2 DEF Resolve, IInv, InHand, Handling
  <2> QED BY <1>2, <2>1, <2>2, <2>3, CalmKeeps DEF site
<1>3. CASE HoldsRaises
  <2>1. ledger[end.m] = "delivering" /\ ledger' \in [Sent -> Outcomes]
    BY <1>3 DEF HoldsRaises, Resolve, Outcomes, IInv, InHand, Handling
  <2>2. \A m \in Sent : ledger[m] = "delivered" => ledger'[m] = "delivered"
    BY <1>3, <2>1 DEF HoldsRaises, Resolve
  <2> QED BY <1>3, <2>1, <2>2, FailsKeeps DEF HoldsRaises
<1> QED BY <1>1, <1>2, <1>3 DEF HoldsNo, HoldsYes

(* From one stage of a send to the next.                                   *)
LEMMA SendingKeeps ==
  ASSUME IInv, end.at \in Handling, UNCHANGED <<ids, echoes, thread, bindable, kernel>>,
         tab' \in Places, record' \in Records, end' \in Ends,
         end'.at \in Handling, end'.m = end.m, end'.last = end.last,
         \A m \in Sent : record'.deliveries[m].id
                           \in {record.deliveries[m].id, NoTurn, LastUserId}
  PROVE  IInv'
<1>1. InHand'
  BY DEF IInv, InHand, Handling, kernel
<1> QED BY <1>1, EndTypes, CalmKeeps DEF kernel

LEMMA DeliveryKeeps ==
  ASSUME IInv,
         \/ Adopt \/ Settled \/ RecordDelivery \/ SendRefused
         \/ LearnsOwnId \/ LearnsNoId \/ Bind
  PROVE  IInv'
<1> USE EndTypes
<1>1. CASE Adopt
  <2>1. PICK bound \in Places :
          /\ end' = [end EXCEPT !.at = "readying", !.bound = bound]
          /\ record' = IF bound # end.bound THEN [record EXCEPT !.conv = bound] ELSE record
          /\ tab' = IF bound = Here THEN tab ELSE bound
    BY <1>1 DEF Adopt
  <2>2. end' \in Ends /\ end'.at = "readying" /\ end'.last = end.last /\ end'.m = end.m
    BY <2>1 DEF Ends, Stages
  <2>3. record' \in Records /\ record'.deliveries = record.deliveries /\ tab' \in Places
    BY <2>1 DEF Records
  <2>4. end.at \in Handling /\ end'.at \in Handling
    BY <1>1, <2>2 DEF Adopt, Handling
  <2> QED BY <1>1, <2>2, <2>3, <2>4, SendingKeeps DEF Adopt
<1>2. CASE Settled
  <2>1. LastUserId \in TurnIds
    BY UserIds DEF IInv
  <2>2. end' \in Ends /\ end'.at = "recording" /\ end'.last = end.last /\ end'.m = end.m
    BY <1>2, <2>1 DEF Settled, Ends, Stages
  <2> QED BY <1>2, <2>2, SendingKeeps DEF Settled, Handling, site
<1>3. CASE RecordDelivery
  <2>1. PICK entry \in Entries :
          /\ entry.id = NoTurn
          /\ record' = [record EXCEPT !.conv = end.bound, !.deliveries[end.m] = entry]
    BY <1>3 DEF RecordDelivery, Entries
  <2>2. /\ record' \in Records
        /\ \A m \in Sent : record'.deliveries[m].id \in {record.deliveries[m].id, NoTurn}
    BY <2>1 DEF Records
  <2>3. end' \in Ends /\ end'.at = "submitting" /\ end'.last = end.last /\ end'.m = end.m
    BY <1>3 DEF RecordDelivery, Goto, Ends, Stages
  <2> QED BY <1>3, <2>2, <2>3, SendingKeeps DEF RecordDelivery, Handling, site
<1>4. CASE SendRefused
  BY <1>4, FailsKeeps DEF SendRefused, kernel
<1>5. CASE LearnsOwnId
  <2>1. PICK id \in TurnIds :
          id = LastUserId /\ record' = [record EXCEPT !.deliveries[end.m].id = id]
    BY <1>5, UserIds DEF LearnsOwnId, IInv
  <2>2. /\ record' \in Records
        /\ \A m \in Sent : record'.deliveries[m].id \in {record.deliveries[m].id, id}
    BY <2>1 DEF Records, Entries
  <2>3. end' \in Ends /\ end'.at = "binding" /\ end'.last = end.last /\ end'.m = end.m
    BY <1>5 DEF LearnsOwnId, Goto, Ends, Stages
  <2> QED BY <1>5, <2>1, <2>2, <2>3, SendingKeeps DEF LearnsOwnId, Handling, site
<1>6. CASE LearnsNoId
  <2>1. end' \in Ends /\ end'.at = "binding" /\ end'.last = end.last /\ end'.m = end.m
    BY <1>6 DEF LearnsNoId, Goto, Ends, Stages
  <2> QED BY <1>6, <2>1, SendingKeeps DEF LearnsNoId, Handling, site
<1>7. CASE Bind
  <2>1. end.m \in Sent
    BY <1>7 DEF Bind, IInv, InHand, Handling
  <2>2. PICK bound \in Places : bound = IF Here # Nowhere THEN Here ELSE end.bound
    BY Zenon
  <2>3. /\ end' = [end EXCEPT !.at = "receipt", !.bound = bound]
        /\ record' = IF Here = Nowhere THEN record
                     ELSE [record EXCEPT !.conv = bound, !.deliveries[end.m].conv = bound]
    BY <1>7, <2>2, Zenon DEF Bind
  <2>4. end' \in Ends /\ end'.at = "receipt" /\ end'.last = end.last /\ end'.m = end.m
    BY <2>3 DEF Ends, Stages
  <2>5. record' \in Records /\ \A m \in Sent : record'.deliveries[m].id = record.deliveries[m].id
    <3>1. PICK entry \in Entries :
            /\ entry.id = record.deliveries[end.m].id
            /\ entry = [record.deliveries[end.m] EXCEPT !.conv = bound]
      BY <2>1 DEF Records, Entries
    <3>2. CASE Here = Nowhere
      BY <2>3, <3>2
    <3>3. CASE Here # Nowhere
      <4>1. record' = [record EXCEPT !.conv = bound, !.deliveries[end.m] = entry]
        BY <2>1, <2>3, <3>1, <3>3
      <4> QED BY <2>1, <3>1, <4>1 DEF Records
    <3> QED BY <3>2, <3>3
  <2> QED BY <1>7, <2>4, <2>5, SendingKeeps DEF Bind, Handling, site
<1> QED BY <1>1, <1>2, <1>3, <1>4, <1>5, <1>6, <1>7

LEMMA BeginKeeps ==
  ASSUME IInv, NEW m \in Sent, BeginDelivery(m)
  PROVE  IInv'
<1> USE EndTypes
<1>1. /\ end' \in Ends /\ end'.at = "sending" /\ end'.last = end.last
      /\ end'.m = m /\ end.last.turn = NoTurn
  BY DEF BeginDelivery, Ends, Stages, IInv, InHand
<1>2. /\ ledger' \in [Sent -> Outcomes] /\ ledger[m] # "delivered"
      /\ ledger'[m] = "delivering" /\ \A n \in Sent : n # m => ledger'[n] = ledger[n]
  BY DEF BeginDelivery, Due, Resolve, Outcomes
<1>3. InHand'
  BY <1>1, <1>2 DEF BeginDelivery, IInv, InHand, Handling
<1> QED BY <1>1, <1>2, <1>3, CalmKeeps DEF BeginDelivery, site

LEMMA SubmitKeeps ==
  ASSUME IInv, Submit
  PROVE  IInv'
<1> USE EndTypes DEF IInv
<1>1. PICK turn : turn = [by |-> "user", of |-> end.m, is |-> "sent"]
  OBVIOUS
<1>2. turn \in Turns /\ turn.by # "assistant"
  BY <1>1 DEF Turns, Progress
<1>3. Written /\ tab' \in Places
  <2>1. CASE tab # Nowhere
    BY <1>1, <1>2, <2>1, WriteGrows DEF Submit, Places
  <2>2. CASE tab = Nowhere
    <3>1. PICK t \in Fresh : Write(t, turn) /\ tab' = t
      BY <1>1, <2>2 DEF Submit
    <3> QED BY <1>2, <3>1, WriteGrows DEF Threads, Places
  <2> QED BY <2>1, <2>2
<1>4. /\ end' \in Ends /\ end'.at = "naming" /\ end'.last = end.last /\ end'.m = end.m
      /\ end.last.turn = NoTurn
  BY DEF Submit, Goto, Ends, Stages, InHand
<1>5. Typed'
  BY <1>3, <1>4 DEF Submit, Typed, Written, kernel
<1>6. InHand'
  BY <1>4 DEF Submit, InHand, Handling, kernel
<1> QED BY <1>3, <1>4, <1>5, <1>6, Keeps DEF Submit, kernel

(* The receipt: nothing has been read by it yet.                           *)
LEMMA CompleteKeeps ==
  ASSUME IInv, CompleteDelivery
  PROVE  IInv'
<1> USE EndTypes DEF IInv
<1>1. /\ end.m \in Sent /\ ledger[end.m] = "delivering" /\ answer[end.m].turn = NoTurn
      /\ end.last.turn = NoTurn
  BY DEF CompleteDelivery, InHand, Handling
<1>2. /\ end' \in Ends /\ end'.at = "ready" /\ end'.last = end.last /\ end'.m = end.m
  BY DEF CompleteDelivery, Goto, Ends, Stages
<1>3. PICK new \in Anchors :
        /\ new.id = Entry(end.m).id
        /\ anchor' = [anchor EXCEPT ![end.m] = new]
  BY <1>1 DEF CompleteDelivery, Anchors, Entries
<1>4. /\ anchor' \in [Sent -> Anchors] /\ anchor'[end.m].id = Entry(end.m).id
      /\ \A m \in Sent : m # end.m => anchor'[m] = anchor[m]
  BY <1>1, <1>3 DEF Typed
<1>5. /\ ledger' \in [Sent -> Outcomes] /\ ledger'[end.m] = "delivered"
      /\ \A m \in Sent : m # end.m => ledger'[m] = ledger[m]
  BY <1>1 DEF CompleteDelivery, Resolve, Outcomes
<1>6. /\ UNCHANGED <<ids, thread, bindable, tab, record, named, answer>>
  BY DEF CompleteDelivery, site
<1>7. Typed'
  BY <1>2, <1>4, <1>5, <1>6 DEF Typed
<1>8. InHand'
  BY <1>1, <1>2, <1>5, <1>6 DEF InHand, Handling
<1>9. IdsAreThere'
  <2>1. \A m \in Sent : anchor'[m].id = anchor[m].id \/ anchor'[m].id = Entry(m).id
    BY <1>4
  <2> QED BY <1>2, <1>6, <2>1 DEF IdsAreThere, IsThere, Entry
<1>10. AnswersItsOwnTurn'
  <2> SUFFICES ASSUME NEW m \in Sent PROVE FirstAnswer(m, answer[m].turn)'
    BY DEF AnswersItsOwnTurn, FirstAnswer
  <2>1. CASE m = end.m
    BY <1>1, <1>6, <2>1 DEF FirstAnswer
  <2>2. CASE m # end.m
    BY <1>4, <1>6, <2>2 DEF FirstAnswer, AnswersItsOwnTurn, Turn
  <2> QED BY <2>1, <2>2
<1>11. ReadingIsRight' /\ AnswersAreShown'
  BY <1>1, <1>2, <1>6 DEF ReadingIsRight, FirstAnswer, AnswersAreShown
<1> QED BY <1>7, <1>8, <1>9, <1>10, <1>11

(* Looking again, or giving up, forgets what was read.                     *)
LEMMA IncompleteKeeps ==
  ASSUME IInv, end.at \in {"receiving", "polling"}, Incomplete,
         UNCHANGED <<site, kernel>>,
         record' \in Records, record'.deliveries = record.deliveries
  PROVE  IInv'
<1> USE EndTypes
<1>1. CASE end' = Down
  <2>1. Fails
    BY <1>1 DEF Fails
  <2> QED BY <2>1, FailsKeeps DEF kernel
<1>2. CASE end' = [end EXCEPT !.at = "receiving", !.tries = @ + 1,
                              !.last = NoReply, !.stable = 0]
  <2>0. PICK n \in Nat : n = end.tries + 1
    OBVIOUS
  <2>1. /\ end' \in Ends /\ end'.at = "receiving" /\ end'.m = end.m
        /\ end'.last.turn = NoTurn
    <3>0. end' = [end EXCEPT !.at = "receiving", !.tries = n, !.last = NoReply, !.stable = 0]
      BY <1>2, <2>0, Zenon
    <3>1. end' \in Ends
      BY <3>0 DEF Ends, Stages
    <3>2. end'.at = "receiving" /\ end'.m = end.m /\ end'.last = NoReply
      BY <3>0 DEF Ends
    <3> QED BY <3>1, <3>2
  <2>2. InHand'
    BY <2>1 DEF IInv, InHand, Handling, kernel
  <2> QED BY <2>1, <2>2, CalmKeeps DEF site, kernel
<1> QED BY <1>1, <1>2 DEF Incomplete

LEMMA AwaitingKeeps ==
  ASSUME IInv, (\E m \in Sent : Await(m)) \/ OnItsThread \/ CannotRead \/ PollNothing
  PROVE  IInv'
<1> USE EndTypes
<1>1. ASSUME NEW m \in Sent, Await(m) PROVE IInv'
  <2>1. /\ end' \in Ends /\ end'.at = "receiving" /\ end'.m = m
        /\ end'.last = end.last /\ end.last.turn = NoTurn
    BY <1>1 DEF Await, Ends, Stages, IInv, InHand
  <2>2. InHand'
    BY <1>1, <2>1 DEF Await, IInv, InHand, Handling, kernel
  <2> QED BY <1>1, <2>1, <2>2, CalmKeeps DEF Await, site, kernel
<1>2. CASE OnItsThread
  <2>1. /\ end' \in Ends /\ end'.at = "polling" /\ end'.m = end.m
        /\ end'.last = end.last /\ end.last.turn = NoTurn
    BY <1>2 DEF OnItsThread, Goto, Ends, Stages, IInv, InHand
  <2>2. InHand'
    BY <1>2, <2>1 DEF OnItsThread, IInv, InHand, Handling, kernel
  <2> QED BY <1>2, <2>1, <2>2, CalmKeeps DEF OnItsThread, site, kernel
<1>3. CASE CannotRead
  BY <1>3, IncompleteKeeps DEF CannotRead
<1>4. CASE PollNothing
  <2>1. /\ end' \in Ends /\ end'.at = "polling" /\ end'.m = end.m
        /\ end'.last.turn = NoTurn
    BY <1>4 DEF PollNothing, Ends, Stages
  <2>2. InHand'
    BY <1>4, <2>1 DEF PollNothing, IInv, InHand, Handling, kernel
  <2> QED BY <1>4, <2>1, <2>2, CalmKeeps DEF PollNothing, site, kernel
<1> QED BY <1>1, <1>2, <1>3, <1>4

LEMMA RefusingKeeps ==
  ASSUME IInv, RefusePartial \/ RefuseStale
  PROVE  IInv'
<1> USE EndTypes
<1>1. CASE RefusePartial
  <2>1. record' \in Records /\ record'.deliveries = record.deliveries
    <3>1. CASE Seen = {}
      BY <1>1, <3>1 DEF RefusePartial
    <3>2. CASE Seen # {}
      <4>1. Lowest(Seen) \in Rows
        <5>1. Seen \in SUBSET Rows
          BY ReplyIsARow DEF IInv, Seen
        <5> QED BY <3>2, <5>1, LowestIsThere DEF IInv
      <4>2. PICK reading \in Replies : reading = Reading(Lowest(Seen))
        BY <4>1, RowIds DEF IInv
      <4>3. record' = [record EXCEPT !.refusals[end.m] = reading]
        BY <1>1, <3>2, <4>2 DEF RefusePartial
      <4> QED BY <4>3 DEF Records
    <3> QED BY <3>1, <3>2
  <2> QED BY <1>1, <2>1, IncompleteKeeps DEF RefusePartial
<1>2. CASE RefuseStale
  BY <1>2, IncompleteKeeps DEF RefuseStale
<1> QED BY <1>1, <1>2

(* A new reading is of the first answer after the message.                 *)
LEMMA PollKeeps ==
  ASSUME IInv, PollAgain
  PROVE  IInv'
<1> USE EndTypes
<1>0. PICK row \in Seen :
        end' = IF ~Generating /\ Reading(row).text = end.last.text
               THEN [end EXCEPT !.stable = @ + 1]
               ELSE [end EXCEPT !.stable = 0, !.last = Reading(row)]
  BY DEF PollAgain
<1>1. CASE end' = [end EXCEPT !.stable = @ + 1]
  <2>0. PICK n \in Nat : end' = [end EXCEPT !.stable = n]
    BY <1>1
  <2>1. /\ end' \in Ends /\ end'.at = "polling" /\ end'.m = end.m /\ end'.last = end.last
    BY <2>0 DEF PollAgain, Ends, Stages
  <2>2. InHand'
    BY <2>1 DEF PollAgain, IInv, InHand, Handling, kernel
  <2> QED BY <2>1, <2>2, CalmKeeps DEF PollAgain, site, kernel
<1>2. CASE end' = [end EXCEPT !.stable = 0, !.last = Reading(row)]
  <2>1. row \in Rows
    BY ReplyIsARow DEF IInv, Seen
  <2>2. Reading(row) \in Replies /\ IsThere(IdOf(row)) /\ Reading(row).turn = IdOf(row)
    BY <2>1, RowIds DEF IInv, Reading
  <2>3. /\ end' \in Ends /\ end'.at = "polling" /\ end'.m = end.m
        /\ end'.last.turn = IdOf(row) /\ end.m \in Sent
    BY <1>2, <2>2 DEF PollAgain, Ends, Stages, IInv, InHand
  <2>4. UNCHANGED <<ids, thread, bindable, tab, record, named, ledger, anchor, answer>>
    BY DEF PollAgain, site, kernel
  <2>5. Typed' /\ InHand'
    BY <2>3, <2>4 DEF IInv, Typed, InHand, PollAgain, Handling
  <2>6. IdsAreThere'
    BY <2>2, <2>3, <2>4 DEF IInv, IdsAreThere, IsThere, Entry
  <2>7. FirstAnswer(end.m, IdOf(row))
    BY <2>3, ReplyIsFirst DEF IInv, Seen
  <2>8. ReadingIsRight'
    <3>1. PICK m, reply : m = end.m /\ reply = IdOf(row)
      OBVIOUS
    <3>2. FirstAnswer(m, reply)'
      BY <2>4, <2>7, <3>1 DEF FirstAnswer, Turn
    <3> QED BY <2>3, <3>1, <3>2 DEF ReadingIsRight
  <2>9. AnswersItsOwnTurn' /\ AnswersAreShown'
    BY <2>4 DEF IInv, AnswersItsOwnTurn, AnswersAreShown, Turn
  <2> QED BY <2>5, <2>6, <2>8, <2>9 DEF IInv
<1> QED BY <1>0, <1>1, <1>2

LEMMA ReceiveKeeps ==
  ASSUME IInv, Receive
  PROVE  IInv'
<1> USE EndTypes DEF IInv
<1>1. end.m \in Sent /\ ledger[end.m] = "delivered"
  BY DEF Receive, InHand
<1>2. PICK bound \in Places :
        /\ record' = [record EXCEPT !.conv = bound]
        /\ named' = IF named = Nowhere THEN bound ELSE named
        /\ end' = [Down EXCEPT !.at = "ready", !.bound = bound]
  BY DEF Receive
<1>3. end' \in Ends /\ end'.at = "ready" /\ end'.last.turn = NoTurn
  BY <1>2 DEF Ends, Stages, Down, NoReply
<1>4. record' \in Records /\ record'.deliveries = record.deliveries /\ named' \in Places
  BY <1>2 DEF Records
<1>5. UNCHANGED <<ids, thread, bindable, tab, ledger, anchor>>
  BY DEF Receive, site
<1>6. /\ answer' \in [Sent -> Replies] /\ answer'[end.m] = end.last
      /\ \A m \in Sent : m # end.m => answer'[m] = answer[m]
  BY <1>1 DEF Receive, Typed
<1>7. Typed'
  BY <1>3, <1>4, <1>5, <1>6 DEF Typed
<1>8. InHand'
  BY <1>1, <1>3, <1>5, <1>6 DEF InHand, Handling
<1>9. IdsAreThere'
  <2>1. \A m \in Sent : answer'[m].turn \in {answer[m].turn, end.last.turn}
    BY <1>6
  <2> QED BY <1>3, <1>4, <1>5, <2>1 DEF IdsAreThere, IsThere, Entry
<1>10. AnswersItsOwnTurn'
  <2> SUFFICES ASSUME NEW m \in Sent PROVE FirstAnswer(m, answer[m].turn)'
    BY DEF AnswersItsOwnTurn, FirstAnswer
  <2>1. CASE m = end.m
    <3>1. FirstAnswer(m, end.last.turn)
      BY <1>1, <2>1 DEF ReadingIsRight
    <3> QED BY <1>5, <1>6, <2>1, <3>1 DEF FirstAnswer, Turn
  <2>2. CASE m # end.m
    BY <1>5, <1>6, <2>2 DEF FirstAnswer, AnswersItsOwnTurn, Turn
  <2> QED BY <2>1, <2>2
<1>11. ReadingIsRight' /\ AnswersAreShown'
  BY <1>3, <1>5 DEF ReadingIsRight, FirstAnswer, AnswersAreShown
<1> QED BY <1>7, <1>8, <1>9, <1>10, <1>11

-----------------------------------------------------------------------------
LEMMA InitHolds == Init => IInv
<1> SUFFICES ASSUME Init PROVE IInv
  OBVIOUS
<1>1. NoTurn \in TurnIds /\ NoReply \in Replies /\ Nowhere \in Places
  BY DEF TurnIds, NoReply, Replies, Texts, Places
<1>2. NoEntry \in Entries /\ NoAnchor \in Anchors /\ NoEntry.id = NoTurn /\ NoAnchor.id = NoTurn
  BY <1>1 DEF NoEntry, NoAnchor, Entries, Anchors
<1>3. Down \in Ends /\ Down.last.turn = NoTurn /\ Down.at = "down" /\ NoReply.turn = NoTurn
  BY <1>1 DEF Down, Ends, Stages, NoReply
<1>4. <<>> \in Seq(Turns)
  OBVIOUS
<1>5. Typed
  BY <1>1, <1>2, <1>3, <1>4 DEF Init, Typed, Threads, Places, Records, Outcomes
<1>6. IdsAreThere /\ AnswersAreShown /\ InHand
  BY <1>2, <1>3 DEF Init, IdsAreThere, IsThere, Entry, AnswersAreShown, InHand, Handling
<1>7. ReadingIsRight /\ AnswersItsOwnTurn
  BY <1>2, <1>3 DEF Init, ReadingIsRight, FirstAnswer, AnswersItsOwnTurn
<1> QED BY <1>5, <1>6, <1>7 DEF IInv

LEMMA StepKeeps == IInv /\ [Next]_vars => IInv'
<1> SUFFICES ASSUME IInv, [Next]_vars PROVE IInv'
  OBVIOUS
<1>1. CASE SiteStep
  BY <1>1, SiteKeeps
<1>2. CASE EndStep
  <2>1. CASE Crash
    BY <2>1, EndTypes, FailsKeeps DEF Crash, kernel
  <2>2. CASE Submit
    BY <2>2, SubmitKeeps
  <2>3. CASE CompleteDelivery
    BY <2>3, CompleteKeeps
  <2>4. CASE PollAgain
    BY <2>4, PollKeeps
  <2>5. CASE Receive
    BY <2>5, ReceiveKeeps
  <2>6. CASE \E m \in Sent : BeginDelivery(m)
    BY <2>6, BeginKeeps
  <2> QED BY <1>2, <2>1, <2>2, <2>3, <2>4, <2>5, <2>6, AttachingKeeps, AskingKeeps,
             DeliveryKeeps, AwaitingKeeps, RefusingKeeps DEF EndStep
<1>3. CASE UNCHANGED vars
  <2>1. /\ UNCHANGED <<site, kernel, record, end>>
    BY <1>3 DEF vars
  <2>2. InHand'
    BY <2>1 DEF IInv, InHand, kernel
  <2> QED BY <2>1, <2>2, EndTypes, CalmKeeps DEF site, kernel
<1> QED BY <1>1, <1>2, <1>3 DEF Next

(* Whatever is typed, opened, lost or restarted, the invariant holds.      *)
THEOREM Invariant == Spec => []IInv
<1> QED BY InitHolds, StepKeeps, PTL DEF Spec

(* What the end, the page, the kernel's ledger and the sidecar hold stays  *)
(* within its types.                                                       *)
THEOREM TypeCorrect == Spec => []Typed
<1>1. IInv => Typed
  BY DEF IInv
<1> QED BY <1>1, Invariant, PTL

(* What is forwarded as the answer to a message is the first answer after  *)
(* it, in its own conversation, whatever else is written or opened.        *)
THEOREM OwnTurnIsAnswered == Spec => []AnswersItsOwnTurn
<1>1. IInv => AnswersItsOwnTurn
  BY DEF IInv
<1> QED BY <1>1, Invariant, PTL

-----------------------------------------------------------------------------
(* How often a message is typed                                            *)

AllShown(m) == \A x \in Spoken(m) : Turn(x).is = "shown"
NoneSent == \A t \in Threads : \A i \in DOMAIN thread[t] : thread[t][i].is # "sent"
Near(place, t) == place \in {t, Nowhere}

(* Only what the relay typed waits to be rendered.                         *)
Marks ==
  \A t \in Threads : \A i \in DOMAIN thread[t] :
    /\ thread[t][i].is = "sent" => thread[t][i].by = "user" /\ thread[t][i].of \in Sent
    /\ thread[t][i].by = "assistant" => thread[t][i].is \notin {"sent", "shown"}
    /\ thread[t][i].by = "user" => thread[t][i].is \in {"sent", "shown"}

IdsAreOnThePage == ids \/ \A m \in Sent : Entry(m).id = NoTurn

(* One message at a time: what comes before it has its answer.             *)
OneInFlight ==
  /\ end.at \in {"ready", "receiving", "polling"} => InFlight = {}
  /\ \A m \in Sent : ledger[m] = "delivering" \/ Spoken(m) # {} =>
       \A n \in Sent : n < m => answer[n] # NoReply
  /\ \A m \in Sent : answer[m] # NoReply => ledger[m] = "delivered"

Closed == alone \subseteq Sent /\ \A m \in alone : \A n \in Sent : n < m => n \in alone

(* What the end holds of a conversation and of an answer.                  *)
HoldsLittle ==
  /\ end.at # "down" /\ end.bound = Nowhere => named = Nowhere /\ record.conv = Nowhere
  /\ end.at # "polling" => end.last = NoReply /\ end.stable = 0
  /\ end.stable > 0 => end.last # NoReply
  /\ end.at \in {"opening", "settling", "reconcile", "asking"} => NoneSent

(* The ledger and the sidecar, of a message the operator left alone.       *)
Recorded(m) ==
  /\ ledger[m] \in {"waiting", "again"} => Spoken(m) = {}
  /\ \A x, y \in Spoken(m) : x = y
  /\ Spoken(m) # {} => Entry(m).made
  /\ Entry(m).id # NoTurn => Entry(m).id \in Spoken(m)
  /\ anchor[m].id # NoTurn => anchor[m].id \in Spoken(m)
  /\ answer[m] # NoReply => AllShown(m)

(* A message is looked for in the conversation that is on record, and where*)
(* none is, in the one the end is at or comes back to.                     *)
Found(m, t) ==
  \/ Entry(m).conv = t
  \/ /\ Entry(m).conv = Nowhere
     /\ Near(tab, t) /\ Near(record.conv, t) /\ Near(named, t)
     /\ end.at # "down" => Near(end.bound, t)

(* While it is in flight it is there, the last turn but for its answer.    *)
Placed(m) == ledger[m] = "delivering" =>
  \A x \in Spoken(m) :
    /\ Len(thread[x[1]]) <= x[2] + 1
    /\ Len(thread[x[1]]) = x[2] + 1 => thread[x[1]][x[2] + 1].by = "assistant"
    /\ Found(m, x[1])

(* The newest turn of a user that the page shows, but for the message's    *)
(* own, is the one that was the newest before it was typed.                *)
PriorIsNewest(m) ==
  ids /\ tab # Nowhere =>
    \A j \in DOMAIN thread[tab] :
      (/\ thread[tab][j].by = "user" /\ thread[tab][j].of # m
       /\ j > Len(thread[tab]) - Window) =>
      /\ end.prior # NoTurn /\ end.prior[1] = tab /\ end.prior[2] >= j
      /\ end.prior[2] \in DOMAIN thread[tab] /\ Turn(end.prior).by = "user"
      /\ Turn(end.prior).of # m /\ Turn(end.prior).is = "shown"

(* What the end knows at each stage of a delivery.                         *)
Working(m) ==
  /\ end.at \in {"sending", "readying", "recording", "submitting"} => Spoken(m) = {}
  /\ end.at = "polling" /\ end.last # NoReply => AllShown(m)
  /\ end.at \in {"recording", "submitting", "naming"} => PriorIsNewest(m)
  /\ end.at \in {"recording", "submitting"} => end.bound \in {tab, Nowhere}
  /\ end.at = "submitting" => Entry(m).conv = end.bound /\ Entry(m).made
  /\ end.at \in {"naming", "binding"} =>
       tab # Nowhere /\ end.bound \in {tab, Nowhere} /\ \A x \in Spoken(m) : x[1] = tab

OnceInv ==
  /\ Marks /\ IdsAreOnThePage /\ OneInFlight /\ Closed /\ HoldsLittle
  /\ ids \/ echoes =>
       \A m \in alone : Recorded(m) /\ Placed(m) /\ (end.m = m => Working(m))

LEMMA SpokenTurns ==
  ASSUME Typed, NEW m, NEW x
  PROVE  x \in Spoken(m) <=> /\ x \in Threads \X Nat /\ x[2] \in DOMAIN thread[x[1]]
                            /\ Turn(x).by = "user" /\ Turn(x).of = m
<1>1. \A t \in Threads : DOMAIN thread[t] = 1..Len(thread[t]) /\ Len(thread[t]) \in Nat
  BY DEF Typed
<1> QED BY <1>1 DEF Spoken

(* As it will be.                                                          *)
LEMMA SpokenNext ==
  ASSUME thread' \in [Threads -> Seq(Turns)], NEW m, NEW x
  PROVE  x \in Spoken(m)' <=> /\ x \in Threads \X Nat /\ x[2] \in DOMAIN thread'[x[1]]
                             /\ thread'[x[1]][x[2]].by = "user"
                             /\ thread'[x[1]][x[2]].of = m
<1>1. \A t \in Threads : DOMAIN thread'[t] = 1..Len(thread'[t]) /\ Len(thread'[t]) \in Nat
  OBVIOUS
<1> QED BY <1>1 DEF Spoken, Turn

-----------------------------------------------------------------------------
(* The site's steps                                                        *)

(* A turn stays what it is, but that it comes to be shown, and that an     *)
(* answer streams.                                                         *)
Kept(a, b) ==
  /\ b.by = a.by /\ b.of = a.of
  /\ \/ b.is = a.is
     \/ a.is = "sent" /\ b.is = "shown"
     \/ a.by = "assistant" /\ b.is \notin {"sent", "shown"}

(* What comes to a conversation is the answer to its last turn, or what    *)
(* the operator writes.                                                    *)
Added(t, turn) ==
  \/ /\ turn.by = "assistant" /\ turn.is \notin {"sent", "shown"}
     /\ Len(thread[t]) > 0 /\ thread[t][Len(thread[t])].by = "user"
  \/ turn.by = "user" /\ turn.is = "shown" /\ turn.of = 0 /\ t = tab /\ OperatorTypes

Continues ==
  /\ thread' \in [Threads -> Seq(Turns)]
  /\ \A t \in Threads :
       /\ DOMAIN thread[t] \subseteq DOMAIN thread'[t]
       /\ \A i \in DOMAIN thread[t] : Kept(thread[t][i], thread'[t][i])
       /\ \/ Len(thread'[t]) = Len(thread[t])
          \/ /\ Len(thread'[t]) = Len(thread[t]) + 1
             /\ Added(t, thread'[t][Len(thread[t]) + 1])

LEMMA WriteContinues ==
  ASSUME Typed, NEW t \in Threads, NEW turn \in Turns, Write(t, turn), Added(t, turn)
  PROVE  Continues
<1>1. thread[t] \in Seq(Turns) /\ Append(thread[t], turn) \in Seq(Turns)
  BY DEF Typed
<1>2. PICK q : q = Append(thread[t], turn)
  OBVIOUS
<1>3. /\ q \in Seq(Turns) /\ Len(q) = Len(thread[t]) + 1
      /\ DOMAIN q = DOMAIN thread[t] \cup {Len(thread[t]) + 1}
      /\ \A i \in DOMAIN thread[t] : q[i] = thread[t][i]
      /\ q[Len(thread[t]) + 1] = turn
  BY <1>1, <1>2
<1>4. /\ thread' \in [Threads -> Seq(Turns)] /\ thread'[t] = q
      /\ \A u \in Threads : u # t => thread'[u] = thread[u]
  BY <1>1, <1>2 DEF Typed, Write
<1> QED BY <1>3, <1>4 DEF Continues, Kept

LEMMA ReplaceContinues ==
  ASSUME Typed, NEW t \in Threads, NEW i \in DOMAIN thread[t], NEW is \in Progress,
         thread' = [thread EXCEPT ![t] = ReplaceAt(@, i, [@[i] EXCEPT !.is = is])],
         \/ thread[t][i].is = "sent" /\ is = "shown"
         \/ thread[t][i].by = "assistant" /\ is \notin {"sent", "shown"}
  PROVE  Continues
<1>1. thread[t] \in Seq(Turns) /\ thread[t][i] \in Turns
  BY DEF Typed
<1>2. PICK turn : turn = [thread[t][i] EXCEPT !.is = is]
  OBVIOUS
<1>3. turn \in Turns /\ Kept(thread[t][i], turn)
  BY <1>1, <1>2 DEF Turns, Kept
<1>4. PICK q : q = [thread[t] EXCEPT ![i] = turn]
  OBVIOUS
<1>5. /\ q \in Seq(Turns) /\ DOMAIN q = DOMAIN thread[t] /\ Len(q) = Len(thread[t]) /\ q[i] = turn
      /\ \A j \in DOMAIN thread[t] : j # i => q[j] = thread[t][j]
  BY <1>1, <1>3, <1>4
<1>6. /\ thread' \in [Threads -> Seq(Turns)] /\ thread'[t] = q
      /\ \A u \in Threads : u # t => thread'[u] = thread[u]
  BY <1>1, <1>2, <1>4, <1>5 DEF Typed, ReplaceAt
<1>7. \A a : Kept(a, a)
  BY DEF Kept
<1> QED BY <1>3, <1>5, <1>6, <1>7 DEF Continues

LEMMA SiteContinues == ASSUME Typed, Marks, SiteStep PROVE Continues
<1>0. thread \in [Threads -> Seq(Turns)] /\ bindable \subseteq Threads /\ tab \in Places
  BY DEF Typed
<1>1. ASSUME NEW t \in Threads, Render(t) PROVE Continues
  <2>1. PICK i \in 1..Len(thread[t]) :
          /\ thread[t][i].is = "sent"
          /\ thread' = [thread EXCEPT ![t] = ReplaceAt(@, i, [@[i] EXCEPT !.is = "shown"])]
    BY <1>1 DEF Render
  <2>2. i \in DOMAIN thread[t] /\ "shown" \in Progress
    BY <1>0 DEF Progress
  <2> QED BY <2>1, <2>2, ReplaceContinues
<1>2. ASSUME NEW t \in Threads, BeginAnswer(t) PROVE Continues
  <2>1. PICK turn : turn = [by |-> "assistant", of |-> Last(thread[t]).of, is |-> "part"]
    OBVIOUS
  <2>2. thread[t] # <<>> /\ Write(t, turn) /\ Last(thread[t]).is = "shown"
    BY <1>2, <2>1 DEF BeginAnswer
  <2>3. /\ Len(thread[t]) \in DOMAIN thread[t] /\ Len(thread[t]) > 0
        /\ Last(thread[t]) = thread[t][Len(thread[t])] /\ Last(thread[t]) \in Turns
    BY <1>0, <2>2 DEF Last
  <2>4. turn \in Turns /\ turn.by = "assistant" /\ turn.is = "part"
    BY <2>1, <2>3 DEF Turns, Progress
  <2>5. thread[t][Len(thread[t])].by = "user"
    BY <2>2, <2>3 DEF Marks, Turns
  <2>6. Added(t, turn)
    BY <2>3, <2>4, <2>5 DEF Added
  <2> QED BY <2>2, <2>4, <2>6, WriteContinues
<1>3. ASSUME NEW t \in Threads, Stream(t) PROVE Continues
  <2>1. PICK is \in {"whole", "dead", "broken", "done"} : Change(t, is)
    BY <1>3 DEF Stream, Answering, Streaming
  <2>2. thread[t] # <<>> /\ Last(thread[t]).is \in {"part", "whole"}
    BY <1>3 DEF Stream, Answering, Streaming
  <2>3. PICK i : i = Len(thread[t])
    OBVIOUS
  <2>4. /\ i \in DOMAIN thread[t] /\ Last(thread[t]) = thread[t][i]
        /\ thread[t][i] \in Turns
    BY <1>0, <2>2, <2>3 DEF Last
  <2>5. thread' = [thread EXCEPT ![t] = ReplaceAt(@, i, [@[i] EXCEPT !.is = is])]
    BY <2>1, <2>3 DEF Change, Last
  <2>6. thread[t][i].by = "assistant"
    BY <2>2, <2>4 DEF Marks, Turns
  <2> QED BY <2>4, <2>5, <2>6, ReplaceContinues DEF Progress
<1>4. ASSUME OperatorTypes PROVE Continues
  <2>1. PICK turn : turn = [by |-> "user", of |-> 0, is |-> "shown"]
    OBVIOUS
  <2>2. tab \in Threads /\ Write(tab, turn)
    BY <1>0, <1>4, <2>1 DEF OperatorTypes
  <2>3. turn \in Turns /\ Added(tab, turn)
    BY <1>4, <2>1 DEF Turns, Progress, Added
  <2> QED BY <2>2, <2>3, WriteContinues
<1>5. ASSUME thread' = thread PROVE Continues
  BY <1>0, <1>5 DEF Continues, Kept
<1> QED BY <1>1, <1>2, <1>3, <1>4, <1>5 DEF SiteStep, AssignId, OperatorOpens

(* What was not there before is the newest, and has been added.            *)
LEMMA NewTurn ==
  ASSUME Typed, Continues, NEW t \in Threads, NEW i \in DOMAIN thread'[t],
         i \notin DOMAIN thread[t]
  PROVE  Added(t, thread'[t][i]) /\ i = Len(thread[t]) + 1 /\ Len(thread'[t]) = i
<1>1. PICK before, now : before = Len(thread[t]) /\ now = Len(thread'[t])
  OBVIOUS
<1>2. /\ before \in Nat /\ now \in Nat
      /\ DOMAIN thread[t] = 1..before /\ DOMAIN thread'[t] = 1..now
  BY <1>1 DEF Typed, Continues
<1>3. now = before \/ (now = before + 1 /\ Added(t, thread'[t][before + 1]))
  BY <1>1 DEF Continues
<1>4. i \in 1..now /\ i \notin 1..before
  BY <1>2
<1>5. now = before + 1 /\ i = before + 1
  BY <1>2, <1>3, <1>4
<1> QED BY <1>1, <1>3, <1>5

(* A message stays where it was typed.                                     *)
LEMMA SpokenStays ==
  ASSUME Typed, Continues, NEW CONSTANT m \in Sent
  PROVE  Spoken(m)' = Spoken(m)
<1>1. ASSUME NEW CONSTANT x PROVE x \in Spoken(m)' <=> x \in Spoken(m)
  <2>1. x \in Spoken(m) => x \in Spoken(m)'
    <3>1. SUFFICES ASSUME x \in Spoken(m) PROVE x \in Spoken(m)'
      OBVIOUS
    <3>2. /\ x \in Threads \X Nat /\ x[1] \in Threads /\ x[2] \in DOMAIN thread[x[1]]
          /\ Turn(x).by = "user" /\ Turn(x).of = m
      BY <3>1, SpokenTurns
    <3>3. /\ x[2] \in DOMAIN thread'[x[1]]
          /\ thread'[x[1]][x[2]].by = "user" /\ thread'[x[1]][x[2]].of = m
      BY <3>2 DEF Continues, Kept, Turn
    <3> QED BY <3>2, <3>3, SpokenNext DEF Continues
  <2>2. x \in Spoken(m)' => x \in Spoken(m)
    <3>1. SUFFICES ASSUME x \in Spoken(m)' PROVE x \in Spoken(m)
      OBVIOUS
    <3>2. /\ x \in Threads \X Nat /\ x[1] \in Threads /\ x[2] \in DOMAIN thread'[x[1]]
          /\ thread'[x[1]][x[2]].by = "user" /\ thread'[x[1]][x[2]].of = m
      BY <3>1, SpokenNext DEF Continues
    <3>3. CASE x[2] \in DOMAIN thread[x[1]]
      <4>1. Turn(x).by = "user" /\ Turn(x).of = m
        BY <3>2, <3>3 DEF Continues, Kept, Turn
      <4> QED BY <3>2, <3>3, <4>1, SpokenTurns
    <3>4. CASE x[2] \notin DOMAIN thread[x[1]]
      <4>1. Added(x[1], thread'[x[1]][x[2]])
        BY <3>2, <3>4, NewTurn
      <4>2. m # 0
        BY DEF Sent
      <4> QED BY <3>2, <4>1, <4>2 DEF Added
    <3> QED BY <3>3, <3>4
  <2> QED BY <2>1, <2>2
<1> QED BY <1>1

(* Steps that leave the conversations alone.                               *)
LEMMA SpokenSame ==
  ASSUME thread' = thread, NEW CONSTANT m
  PROVE  Spoken(m)' = Spoken(m) /\ AllShown(m)' = AllShown(m) /\ NoneSent' = NoneSent
BY Zenon DEF Spoken, AllShown, NoneSent, Turn

LEMMA ShownStays ==
  ASSUME Typed, Marks, Continues, NEW CONSTANT m \in Sent, AllShown(m)
  PROVE  AllShown(m)'
<1> SUFFICES ASSUME NEW CONSTANT x \in Spoken(m)' PROVE thread'[x[1]][x[2]].is = "shown"
  BY DEF AllShown, Turn
<1>1. x \in Spoken(m)
  BY SpokenStays
<1>2. x[1] \in Threads /\ x[2] \in DOMAIN thread[x[1]] /\ Turn(x).by = "user" /\ Turn(x).is = "shown"
  BY <1>1, SpokenTurns DEF AllShown
<1> QED BY <1>2 DEF Continues, Kept, Turn

LEMMA MarksStay == ASSUME Typed, Marks, Continues PROVE Marks'
<1> SUFFICES ASSUME NEW t \in Threads, NEW i \in DOMAIN thread'[t]
             PROVE  /\ thread'[t][i].is = "sent" => thread'[t][i].by = "user" /\ thread'[t][i].of \in Sent
                    /\ thread'[t][i].by = "assistant" => thread'[t][i].is \notin {"sent", "shown"}
                    /\ thread'[t][i].by = "user" => thread'[t][i].is \in {"sent", "shown"}
  BY DEF Marks
<1>1. CASE i \in DOMAIN thread[t]
  BY <1>1 DEF Continues, Kept, Marks
<1>2. CASE i \notin DOMAIN thread[t]
  BY <1>2, NewTurn DEF Added
<1> QED BY <1>1, <1>2

LEMMA NoneSentStays == ASSUME Typed, Continues, NoneSent PROVE NoneSent'
<1> SUFFICES ASSUME NEW t \in Threads, NEW i \in DOMAIN thread'[t]
             PROVE  thread'[t][i].is # "sent"
  BY DEF NoneSent
<1>1. CASE i \in DOMAIN thread[t]
  BY <1>1 DEF Continues, Kept, NoneSent
<1>2. CASE i \notin DOMAIN thread[t]
  BY <1>2, NewTurn DEF Added
<1> QED BY <1>1, <1>2

(* The operator is in nobody's way who is left alone.                      *)
LEMMA WayIsClosed ==
  ASSUME Closed, NEW crossed \in SUBSET (Sent \cup {0}), InTheWayOf(crossed)
  PROVE  alone' \subseteq alone /\ Closed' /\ \A m \in alone' : m \in Sent /\ m \notin crossed
<1>1. \A n : n \in alone' <=> n \in alone /\ \A m \in crossed : n < m
  BY DEF InTheWayOf
<1>2. alone \subseteq Sent /\ \A m \in alone : \A n \in Sent : n < m => n \in alone
  BY DEF Closed
<1>3. \A m \in Sent \cup {0} : m \in Int
  BY DEF Sent
<1>4. \A m \in alone' : \A n \in Sent : n < m => n \in alone'
  <2> TAKE m \in alone'
  <2> TAKE n \in Sent
  <2> HAVE n < m
  <2>1. m \in alone /\ n \in alone /\ m \in Int /\ n \in Int
    BY <1>1, <1>2, <1>3
  <2>2. \A k \in crossed : m < k /\ k \in Int
    BY <1>1, <1>3
  <2> QED BY <1>1, <2>1, <2>2
<1>5. \A m \in alone' : m \notin crossed
  <2> SUFFICES ASSUME NEW m \in alone', m \in crossed PROVE FALSE
    OBVIOUS
  <2>1. m < m /\ m \in Int
    BY <1>1, <1>3
  <2> QED BY <2>1
<1> QED BY <1>1, <1>2, <1>4, <1>5 DEF Closed

LEMMA SiteSpares ==
  ASSUME Typed, Closed, SiteStep
  PROVE  /\ UNCHANGED <<ids, echoes, record, named, ledger, anchor, answer, end>>
         /\ alone' \subseteq alone /\ Closed'
         /\ \A m \in alone' :
              /\ ledger[m] = "delivering" /\ Entry(m).conv = Nowhere => ~OperatorTypes /\ tab' = tab
              /\ ledger[m] = "delivering" /\ Entry(m).conv = tab => ~OperatorTypes
              /\ end.m = m /\ end.at \in {"recording", "submitting", "naming", "binding"} =>
                   ~OperatorTypes /\ tab' = tab
<1>0. Typing \in SUBSET (Sent \cup {0})
  <2>1. end.m \in Sent \cup {0}
    BY DEF Typed, Ends
  <2> QED BY <2>1 DEF Typing
<1>1. UNCHANGED <<ids, echoes, record, named, ledger, anchor, answer, end>>
  BY DEF SiteStep, Render, AssignId, BeginAnswer, Stream, OperatorTypes, OperatorOpens, kernel
<1>2. CASE OperatorTypes
  <2>1. PICK crossed :
          /\ crossed = Unbound \cup Typing \cup {m \in InFlight : record.deliveries[m].conv = tab}
          /\ InTheWayOf(crossed)
    BY <1>2 DEF OperatorTypes
  <2>2. crossed \in SUBSET (Sent \cup {0})
    BY <1>0, <2>1 DEF Unbound, InFlight
  <2>3. alone' \subseteq alone /\ Closed' /\ \A m \in alone' : m \in Sent /\ m \notin crossed
    BY <2>1, <2>2, WayIsClosed
  <2>4. tab' = tab
    BY <1>2 DEF OperatorTypes
  <2>5. \A m \in alone' :
          /\ ledger[m] = "delivering" => Entry(m).conv # Nowhere /\ Entry(m).conv # tab
          /\ end.m = m => end.at \notin {"recording", "submitting", "naming", "binding"}
    BY <2>1, <2>3 DEF Unbound, InFlight, Typing, Entry
  <2> QED BY <1>1, <2>3, <2>4, <2>5
<1>3. ASSUME NEW t \in Places, OperatorOpens(t), ~OperatorTypes
      PROVE  /\ alone' \subseteq alone /\ Closed'
             /\ \A m \in alone' : /\ ledger[m] = "delivering" => Entry(m).conv # Nowhere
                                  /\ end.m = m => end.at \notin {"recording", "submitting", "naming", "binding"}
  <2>1. PICK crossed : crossed = Unbound \cup Typing /\ InTheWayOf(crossed)
    BY <1>3 DEF OperatorOpens
  <2>2. crossed \in SUBSET (Sent \cup {0})
    BY <1>0, <2>1 DEF Unbound, InFlight
  <2>3. alone' \subseteq alone /\ Closed' /\ \A m \in alone' : m \in Sent /\ m \notin crossed
    BY <2>1, <2>2, WayIsClosed
  <2> QED BY <2>1, <2>3 DEF Unbound, InFlight, Typing, Entry
<1>4. CASE ~OperatorTypes /\ ~\E t \in Places : OperatorOpens(t)
  <2>1. alone' = alone /\ tab' = tab
    BY <1>4 DEF SiteStep, Render, AssignId, BeginAnswer, Stream
  <2> QED BY <1>1, <1>4, <2>1 DEF Closed
<1> QED BY <1>1, <1>2, <1>3, <1>4

LEMMA PlacedThroughSite ==
  ASSUME Typed, Marks, Closed, Continues, SiteStep, NEW CONSTANT m \in Sent, m \in alone', Placed(m)
  PROVE  Placed(m)'
<1> SUFFICES ASSUME ledger[m] = "delivering", NEW CONSTANT x \in Spoken(m)'
             PROVE  /\ Len(thread'[x[1]]) <= x[2] + 1
                    /\ Len(thread'[x[1]]) = x[2] + 1 => thread'[x[1]][x[2] + 1].by = "assistant"
                    /\ Found(m, x[1])'
  BY SiteSpares DEF Placed
<1> PICK t, i, before, now :
      t = x[1] /\ i = x[2] /\ before = Len(thread[t]) /\ now = Len(thread'[t])
  OBVIOUS
<1>1. x \in Spoken(m)
  BY SpokenStays
<1>2. /\ t \in Threads /\ i \in Nat /\ i \in DOMAIN thread[t] /\ thread[t][i].by = "user"
  BY <1>1, SpokenTurns DEF Turn
<1>3. /\ before <= i + 1
      /\ before = i + 1 => thread[t][i + 1].by = "assistant"
      /\ Found(m, t)
  BY <1>1 DEF Placed
<1>4. /\ UNCHANGED <<record, named, end>>
      /\ Entry(m).conv = Nowhere => ~OperatorTypes /\ tab' = tab
      /\ Entry(m).conv = tab => ~OperatorTypes
  BY SiteSpares
<1>5. Found(m, t)'
  BY <1>3, <1>4 DEF Found, Entry, Near
<1>6. /\ before \in Nat /\ now \in Nat
      /\ DOMAIN thread[t] = 1..before /\ DOMAIN thread'[t] = 1..now
  BY <1>2 DEF Typed, Continues
<1>7. now = before \/ (now = before + 1 /\ Added(t, thread'[t][before + 1]))
  BY <1>2 DEF Continues
<1> SUFFICES now <= i + 1 /\ (now = i + 1 => thread'[t][i + 1].by = "assistant")
  BY <1>5 DEF Found, Near, Entry
<1>8. CASE now = before
  <2>1. now = i + 1 => i + 1 \in DOMAIN thread[t]
    BY <1>2, <1>6, <1>8
  <2>2. now = i + 1 => thread'[t][i + 1].by = "assistant"
    BY <1>2, <1>3, <1>8, <2>1 DEF Continues, Kept
  <2>3. now <= i + 1
    BY <1>3, <1>8
  <2> QED BY <2>2, <2>3
<1>9. CASE now = before + 1 /\ Added(t, thread'[t][before + 1])
  <2>1. ~(t = tab /\ OperatorTypes)
    BY <1>2, <1>3, <1>4 DEF Found
  <2>2. /\ thread'[t][before + 1].by = "assistant" /\ before > 0
        /\ thread[t][before].by = "user"
    BY <1>9, <2>1 DEF Added
  <2>3. before # i + 1
    BY <1>3, <2>2
  <2>4. i \in 1..before
    BY <1>2, <1>6
  <2>5. before = i
    BY <1>2, <1>3, <1>6, <2>3, <2>4
  <2>6. now = i + 1
    BY <1>9, <2>5
  <2> QED BY <1>2, <1>6, <2>2, <2>5, <2>6
<1> QED BY <1>7, <1>8, <1>9

LEMMA PriorThroughSite ==
  ASSUME Typed, Marks, Continues, NEW CONSTANT m \in Sent, PriorIsNewest(m),
         UNCHANGED <<ids, tab, end>>, ~OperatorTypes, tab \in Places, end.prior \in TurnIds
  PROVE  PriorIsNewest(m)'
<1> SUFFICES ASSUME ids, tab # Nowhere, NEW CONSTANT j \in DOMAIN thread'[tab],
                    thread'[tab][j].by = "user", thread'[tab][j].of # m,
                    j > Len(thread'[tab]) - Window
             PROVE  /\ end.prior # NoTurn /\ end.prior[1] = tab /\ end.prior[2] >= j
                    /\ end.prior[2] \in DOMAIN thread'[tab] /\ Turn(end.prior)'.by = "user"
                    /\ Turn(end.prior)'.of # m /\ Turn(end.prior)'.is = "shown"
  BY DEF PriorIsNewest
<1>1. tab \in Threads
  BY DEF Places
<1> PICK before, now : before = Len(thread[tab]) /\ now = Len(thread'[tab])
  OBVIOUS
<1>2. /\ before \in Nat /\ now \in Nat /\ Window \in Nat
      /\ DOMAIN thread[tab] = 1..before /\ DOMAIN thread'[tab] = 1..now
      /\ now \in {before, before + 1}
  BY <1>1, ChatGptWebAssumption DEF Typed, Continues, ChatGptWebAssumption
<1>3. j \in DOMAIN thread[tab]
  <2> SUFFICES ASSUME j \notin DOMAIN thread[tab] PROVE FALSE
    OBVIOUS
  <2>1. Added(tab, thread'[tab][j])
    BY <1>1, NewTurn
  <2> QED BY <2>1 DEF Added
<1>4. thread[tab][j].by = "user" /\ thread[tab][j].of # m
  BY <1>1, <1>3 DEF Continues, Kept
<1>5. j > before - Window
  BY <1>2, <1>3
<1>6. /\ end.prior # NoTurn /\ end.prior[1] = tab /\ end.prior[2] >= j
      /\ end.prior[2] \in DOMAIN thread[tab] /\ thread[tab][end.prior[2]].by = "user"
      /\ thread[tab][end.prior[2]].of # m /\ thread[tab][end.prior[2]].is = "shown"
  BY <1>3, <1>4, <1>5 DEF PriorIsNewest, Turn
<1>7. Kept(thread[tab][end.prior[2]], thread'[tab][end.prior[2]])
  BY <1>1, <1>6 DEF Continues
<1>8. end.prior[2] \in DOMAIN thread'[tab]
  BY <1>1, <1>6 DEF Continues
<1> QED BY <1>6, <1>7, <1>8 DEF Kept, Turn

LEMMA SiteOnce == ASSUME IInv, OnceInv, SiteStep PROVE OnceInv'
<1>0. Typed /\ Marks /\ Closed
  BY DEF IInv, OnceInv
<1>1. Continues
  BY <1>0, SiteContinues
<1>2. /\ UNCHANGED <<ids, echoes, record, named, ledger, anchor, answer, end>>
      /\ alone' \subseteq alone /\ Closed' /\ Marks'
  BY <1>0, <1>1, SiteSpares, MarksStay
<1>3. IdsAreOnThePage' /\ HoldsLittle'
  BY <1>0, <1>1, <1>2, NoneSentStays DEF OnceInv, IdsAreOnThePage, HoldsLittle, Entry
<1>4. OneInFlight'
  <2>1. \A m \in Sent : Spoken(m)' = Spoken(m)
    BY <1>0, <1>1, SpokenStays
  <2> QED BY <1>2, <2>1 DEF OnceInv, OneInFlight, InFlight
<1>5. ASSUME ids \/ echoes, NEW CONSTANT m \in Sent, m \in alone'
      PROVE  Recorded(m)' /\ Placed(m)' /\ (end'.m = m => Working(m)')
  <2>1. Spoken(m)' = Spoken(m) /\ (AllShown(m) => AllShown(m)')
    BY <1>0, <1>1, SpokenStays, ShownStays
  <2>2. Recorded(m) /\ Placed(m) /\ (end.m = m => Working(m))
    BY <1>2, <1>5 DEF OnceInv
  <2>3. Recorded(m)'
    BY <1>2, <2>1, <2>2 DEF Recorded, Entry
  <2>4. Placed(m)'
    BY <1>0, <1>1, <1>5, <2>2, PlacedThroughSite
  <2>5. ASSUME end.m = m PROVE Working(m)'
    <3>1. end.at \in {"recording", "submitting", "naming", "binding"} =>
            ~OperatorTypes /\ tab' = tab
      BY <1>0, <1>5, <2>5, SiteSpares
    <3>2. end.at \in {"recording", "submitting", "naming"} => PriorIsNewest(m)'
      <4> SUFFICES ASSUME end.at \in {"recording", "submitting", "naming"}
                   PROVE  PriorIsNewest(m)'
        OBVIOUS
      <4>1. PriorIsNewest(m) /\ ~OperatorTypes /\ UNCHANGED <<ids, tab, end>>
        BY <1>2, <2>2, <2>5, <3>1 DEF Working
      <4>2. tab \in Places /\ end.prior \in TurnIds
        BY EndTypes
      <4> QED BY <1>0, <1>1, <4>1, <4>2, PriorThroughSite
    <3> QED BY <1>2, <2>1, <2>2, <2>5, <3>1, <3>2 DEF Working, Entry
  <2> QED BY <1>2, <2>3, <2>4, <2>5
<1>6. ids' = ids /\ echoes' = echoes /\ alone' \subseteq Sent
  BY <1>2 DEF Closed
<1> QED BY <1>2, <1>3, <1>4, <1>5, <1>6 DEF OnceInv

-----------------------------------------------------------------------------
(* The steps of the end                                                    *)

LEMMA OneAtATime ==
  ASSUME OneInFlight, NEW m \in Sent, NEW n \in Sent,
         ledger[m] = "delivering", ledger[n] = "delivering"
  PROVE  m = n
<1>1. m \in Int /\ n \in Int
  BY DEF Sent
<1>2. ~(n < m) /\ ~(m < n)
  BY DEF OneInFlight
<1> QED BY <1>1, <1>2

LEMMA OneStays ==
  ASSUME OnceInv, UNCHANGED <<thread, ledger, answer>>,
         end'.at \in {"ready", "receiving", "polling"} =>
           end.at \in {"ready", "receiving", "polling"} \/ InFlight = {}
  PROVE  OneInFlight'
<1>1. \A m \in Sent : Spoken(m)' = Spoken(m)
  BY SpokenSame
<1> QED BY <1>1 DEF OnceInv, OneInFlight, InFlight

(* What is on the ledger, in the sidecar and on the receipt of a message.  *)
LEMMA RecordedStays ==
  ASSUME thread' = thread, NEW CONSTANT m, Recorded(m),
         ledger'[m] \in {"waiting", "again"} => ledger[m] \in {"waiting", "again"},
         Entry(m)'.made = Entry(m).made, Entry(m)'.id = Entry(m).id,
         anchor'[m] = anchor[m], answer'[m] = answer[m]
  PROVE  Recorded(m)'
<1>1. Spoken(m)' = Spoken(m) /\ AllShown(m)' = AllShown(m)
  BY SpokenSame
<1> QED BY <1>1 DEF Recorded, Entry

LEMMA PlacedStays ==
  ASSUME thread' = thread, NEW CONSTANT m, Placed(m),
         ledger'[m] = "delivering" => ledger[m] = "delivering",
         IInv, \A t \in Threads : Found(m, t) => Found(m, t)'
  PROVE  Placed(m)'
<1>1. Spoken(m)' = Spoken(m)
  BY SpokenSame
<1> SUFFICES ASSUME ledger[m] = "delivering", NEW CONSTANT x \in Spoken(m)
             PROVE  /\ Len(thread[x[1]]) <= x[2] + 1
                    /\ Len(thread[x[1]]) = x[2] + 1 => thread[x[1]][x[2] + 1].by = "assistant"
                    /\ Found(m, x[1])'
  BY <1>1 DEF Placed
<1>2. /\ Len(thread[x[1]]) <= x[2] + 1
      /\ Len(thread[x[1]]) = x[2] + 1 => thread[x[1]][x[2] + 1].by = "assistant"
      /\ Found(m, x[1])
  BY DEF Placed
<1>3. x[1] \in Threads
  BY SpokenTurns DEF IInv
<1>4. Found(m, x[1])'
  BY <1>2, <1>3
<1> QED BY <1>2, <1>4

(* Steps that leave the conversations alone keep the invariant when they   *)
(* keep it for each message that the operator left alone.                  *)
LEMMA CalmOnce ==
  ASSUME OnceInv, UNCHANGED <<ids, echoes, thread, alone>>,
         \A m \in Sent : Entry(m)'.id \in {Entry(m).id, NoTurn} \/ ids,
         OneInFlight', HoldsLittle',
         \A m \in Sent :
           m \in alone /\ (ids \/ echoes) /\ Recorded(m) /\ Placed(m) /\ (end.m = m => Working(m)) =>
             Recorded(m)' /\ Placed(m)' /\ (end'.m = m => Working(m)')
  PROVE  OnceInv'
<1>1. Marks' /\ Closed'
  BY DEF OnceInv, Marks, Closed
<1>2. IdsAreOnThePage'
  BY DEF OnceInv, IdsAreOnThePage
<1>3. alone \subseteq Sent
  BY DEF OnceInv, Closed
<1> QED BY <1>1, <1>2, <1>3 DEF OnceInv

(* A process that fails, and one that looks at an answer again.            *)
LEMMA FailsOnce ==
  ASSUME IInv, OnceInv, Fails,
         UNCHANGED <<ids, echoes, thread, tab, alone, named, anchor, answer>>,
         record'.deliveries = record.deliveries, record'.conv = record.conv,
         \A m \in Sent : ledger'[m] \in {ledger[m], "unreconcilable"},
         \A m \in Sent : ledger[m] = "delivered" => ledger'[m] = "delivered"
  PROVE  OnceInv'
<1>1. end'.at = "down" /\ end'.m = 0 /\ end'.last = NoReply /\ end'.stable = 0
  BY DEF Fails, Down
<1>2. OneInFlight'
  <2>1. \A m \in Sent : Spoken(m)' = Spoken(m)
    BY SpokenSame
  <2> QED BY <1>1, <2>1 DEF OnceInv, OneInFlight
<1>3. HoldsLittle'
  BY <1>1 DEF HoldsLittle
<1>4. ASSUME NEW CONSTANT m \in Sent, Recorded(m), Placed(m)
      PROVE  Recorded(m)' /\ Placed(m)' /\ end'.m # m
  <2>1. Recorded(m)'
    <3>1. ledger'[m] \in {"waiting", "again"} => ledger[m] \in {"waiting", "again"}
      OBVIOUS
    <3> QED BY <1>4, <3>1, RecordedStays DEF Entry
  <2>2. Placed(m)'
    <3>1. \A t : Found(m, t) => Found(m, t)'
      BY <1>1 DEF Found, Near, Entry
    <3>2. ledger'[m] = "delivering" => ledger[m] = "delivering"
      OBVIOUS
    <3> QED BY <1>4, <3>1, <3>2, PlacedStays
  <2> QED BY <1>1, <2>1, <2>2, EndTypes
<1>5. \A m \in Sent : Entry(m)'.id = Entry(m).id
  BY DEF Entry
<1> QED BY <1>2, <1>3, <1>4, <1>5, CalmOnce

(* Up to where a message is handed to the page, and while its answer is    *)
(* awaited, the end does little to the ledger.                             *)
LEMMA StageOnce ==
  ASSUME IInv, OnceInv, UNCHANGED <<ids, echoes, thread, alone, ledger, anchor, answer>>,
         record'.deliveries = record.deliveries, HoldsLittle',
         end'.at \in {"ready", "receiving", "polling"} =>
           end.at \in {"ready", "receiving", "polling"} \/ InFlight = {},
         \A m \in Sent, t \in Threads : ledger[m] = "delivering" /\ Found(m, t) => Found(m, t)',
         end'.at \notin {"sending", "readying", "recording", "submitting", "naming", "binding"},
         end'.at = "polling" /\ end'.last # NoReply =>
           \A m \in Sent : m \in alone /\ end'.m = m /\ (ids \/ echoes) /\ Recorded(m) => AllShown(m)
  PROVE  OnceInv'
<1>1. OneInFlight'
  BY OneStays
<1>2. \A m \in Sent : Entry(m)'.id = Entry(m).id /\ Entry(m)'.made = Entry(m).made
  BY DEF Entry
<1>3. ASSUME NEW CONSTANT m \in Sent, m \in alone, ids \/ echoes, Recorded(m), Placed(m)
      PROVE  Recorded(m)' /\ Placed(m)' /\ (end'.m = m => Working(m)')
  <2>1. Recorded(m)'
    BY <1>2, <1>3, RecordedStays
  <2>2. Placed(m)'
    <3>1. CASE ledger[m] # "delivering"
      BY <3>1 DEF Placed
    <3>2. CASE ledger[m] = "delivering"
      <4>1. \A t \in Threads : Found(m, t) => Found(m, t)'
        BY <3>2
      <4> QED BY <1>3, <3>2, <4>1, PlacedStays
    <3> QED BY <3>1, <3>2
  <2>3. ASSUME end'.m = m PROVE Working(m)'
    <3>1. AllShown(m)' = AllShown(m)
      BY SpokenSame
    <3> QED BY <1>3, <2>3, <3>1 DEF Working
  <2> QED BY <2>1, <2>2, <2>3
<1> QED BY <1>1, <1>2, <1>3, CalmOnce

LEMMA AttachOnce ==
  ASSUME IInv, OnceInv, Attach \/ OpenGoto \/ Reconciled
  PROVE  OnceInv'
<1> USE EndTypes
<1>0. NoneSent' = NoneSent
  BY SpokenSame DEF Attach, OpenGoto, Reconciled, site
<1>1. CASE Attach
  <2>1. /\ end'.at = "opening" /\ end'.m = 0 /\ end'.last = NoReply /\ end'.stable = 0
        /\ end'.bound = IF named # Nowhere THEN named ELSE record.conv
    BY <1>1 DEF Attach, Down
  <2>2. NoneSent
    <3>1. \A t \in Threads : DOMAIN thread[t] = 1..Len(thread[t])
      BY DEF IInv, Typed
    <3> QED BY <1>1, <3>1 DEF Attach, NoneSent
  <2>3. HoldsLittle'
    BY <1>0, <1>1, <2>1, <2>2 DEF HoldsLittle, Attach, kernel
  <2>4. \A m \in Sent, t \in Threads : ledger[m] = "delivering" /\ Found(m, t) => Found(m, t)'
    BY <1>1, <2>1 DEF Attach, site, kernel, Found, Near, Entry
  <2> QED BY <1>1, <2>1, <2>3, <2>4, StageOnce DEF Attach, site, kernel
<1>2. CASE OpenGoto
  <2>1. /\ end'.at = "settling" /\ end'.m = end.m /\ end'.last = end.last /\ end'.stable = end.stable
        /\ end'.bound = end.bound /\ tab' \in {tab, end.bound} /\ end.at = "opening"
    BY <1>2 DEF OpenGoto, Goto, Ends
  <2>2. HoldsLittle'
    BY <1>0, <1>2, <2>1 DEF HoldsLittle, OpenGoto, kernel, OnceInv
  <2>3. \A m \in Sent, t \in Threads : ledger[m] = "delivering" /\ Found(m, t) => Found(m, t)'
    BY <1>2, <2>1 DEF OpenGoto, kernel, Found, Near, Entry
  <2> QED BY <1>2, <2>1, <2>2, <2>3, StageOnce DEF OpenGoto, kernel
<1>3. CASE Reconciled
  <2>1. /\ end'.at = "ready" /\ end'.m = end.m /\ end'.last = end.last /\ end'.stable = end.stable
        /\ end'.bound = end.bound /\ end.at = "reconcile" /\ InFlight = {}
    BY <1>3 DEF Reconciled, Goto, Ends
  <2>2. HoldsLittle'
    BY <1>0, <1>3, <2>1 DEF HoldsLittle, Reconciled, kernel, OnceInv
  <2>3. \A m \in Sent, t \in Threads : ledger[m] = "delivering" /\ Found(m, t) => Found(m, t)'
    BY <1>3, <2>1 DEF Reconciled, site, kernel, Found, Near, Entry
  <2> QED BY <1>3, <2>1, <2>2, <2>3, StageOnce DEF Reconciled, site, kernel
<1> QED BY <1>1, <1>2, <1>3

LEMMA OpenedOnce ==
  ASSUME IInv, OnceInv, Opened
  PROVE  OnceInv'
<1> USE EndTypes
<1>1. CASE Fails /\ UNCHANGED <<record, named>>
  BY <1>1, FailsOnce DEF Opened, site
<1>2. CASE ~(Fails /\ UNCHANGED <<record, named>>)
  <2>1. PICK landed : /\ landed = IF Here # Nowhere THEN Here ELSE end.bound
                      /\ end' = [end EXCEPT !.at = "reconcile", !.bound = landed]
                      /\ record' = [record EXCEPT !.conv = landed]
                      /\ named' = IF restarts = 1 THEN landed ELSE named
    BY <1>2, Zenon DEF Opened
  <2>2. /\ end'.at = "reconcile" /\ end'.m = end.m /\ end'.last = end.last /\ end'.stable = end.stable
        /\ end'.bound = landed /\ end.at = "settling"
        /\ UNCHANGED <<ids, echoes, thread, tab, alone, ledger, anchor, answer>>
    BY <2>1 DEF Opened, Ends, site
  <2>3. record'.conv = landed /\ record'.deliveries = record.deliveries
    BY <2>1 DEF Records
  <2>4. NoneSent' = NoneSent
    BY <2>2, SpokenSame
  <2>5. Here \in {tab, Nowhere} /\ (landed = Nowhere => end.bound = Nowhere)
    BY <2>1 DEF Here
  <2>6. HoldsLittle'
    BY <2>1, <2>2, <2>3, <2>4, <2>5 DEF HoldsLittle, OnceInv
  <2>7. \A m \in Sent, t \in Threads : ledger[m] = "delivering" /\ Found(m, t) => Found(m, t)'
    BY <2>1, <2>2, <2>3, <2>5 DEF Found, Near, Entry
  <2> QED BY <2>2, <2>3, <2>6, <2>7, StageOnce
<1> QED BY <1>1, <1>2

(* The end asks about the one message that is in flight, where it should   *)
(* be.                                                                     *)
LEMMA AskOnce ==
  ASSUME IInv, OnceInv, NEW CONSTANT n \in Sent, AskGoto(n)
  PROVE  OnceInv'
<1> USE EndTypes
<1>1. /\ end'.at = "asking" /\ end'.m = n /\ end'.last = end.last /\ end'.stable = end.stable
      /\ end'.bound = end.bound /\ end.at = "reconcile" /\ ledger[n] = "delivering"
      /\ tab' \in {tab, AskTarget(n)}
      /\ UNCHANGED <<ids, echoes, thread, record, named, alone, ledger, anchor, answer>>
  BY DEF AskGoto, Ends, kernel
<1>2. NoneSent' = NoneSent
  BY <1>1, SpokenSame
<1>3. HoldsLittle'
  BY <1>1, <1>2 DEF HoldsLittle, OnceInv
<1>4. ASSUME NEW m \in Sent, NEW t, ledger[m] = "delivering", t \in Threads, Found(m, t)
      PROVE  Found(m, t)'
  <2>1. m = n
    BY <1>1, <1>4, OneAtATime DEF OnceInv
  <2> QED BY <1>1, <1>4, <2>1 DEF Found, Near, Entry, AskTarget
<1> QED BY <1>1, <1>3, <1>4, StageOnce

LEMMA AnswerOnce ==
  ASSUME IInv, OnceInv, (\E n \in Sent : Await(n)) \/ OnItsThread \/ PollNothing
  PROVE  OnceInv'
<1> USE EndTypes
<1>0. /\ end.at \in {"ready", "receiving", "polling"}
      /\ UNCHANGED <<ids, echoes, thread, tab, alone, record, named, ledger, anchor, answer>>
  BY DEF Await, OnItsThread, PollNothing, site, kernel
<1>1. /\ end'.at \in {"receiving", "polling"} /\ end'.bound = end.bound
      /\ end'.last = NoReply /\ end'.stable = 0
  <2>1. ASSUME NEW n \in Sent, Await(n)
        PROVE  /\ end'.at \in {"receiving", "polling"} /\ end'.bound = end.bound
               /\ end'.last = NoReply /\ end'.stable = 0
    BY <2>1 DEF Await, Ends, OnceInv, HoldsLittle
  <2>2. CASE OnItsThread
    BY <2>2 DEF OnItsThread, Goto, Ends, OnceInv, HoldsLittle
  <2>3. CASE PollNothing
    BY <2>3 DEF PollNothing, Ends
  <2> QED BY <2>1, <2>2, <2>3
<1>2. HoldsLittle'
  BY <1>0, <1>1 DEF HoldsLittle, OnceInv
<1>3. \A m \in Sent, t \in Threads : ledger[m] = "delivering" /\ Found(m, t) => Found(m, t)'
  BY <1>0, <1>1 DEF Found, Near, Entry
<1> QED BY <1>0, <1>1, <1>2, <1>3, StageOnce

LEMMA IncompleteOnce ==
  ASSUME IInv, OnceInv, CannotRead \/ RefusePartial \/ RefuseStale
  PROVE  OnceInv'
<1> USE EndTypes
<1>0. /\ end.at \in {"receiving", "polling"} /\ Incomplete
      /\ UNCHANGED <<ids, echoes, thread, tab, alone, named, ledger, anchor, answer>>
  BY DEF CannotRead, RefusePartial, RefuseStale, site, kernel
<1>1. record'.deliveries = record.deliveries /\ record'.conv = record.conv
  <2>1. ASSUME NEW all, record' = [record EXCEPT !.refusals = all]
        PROVE  record'.deliveries = record.deliveries /\ record'.conv = record.conv
    BY <2>1 DEF Records
  <2>2. record' = record \/ \E all : record' = [record EXCEPT !.refusals = all]
    <3>1. CASE RefusePartial /\ Seen # {}
      <4>1. record' = [record EXCEPT !.refusals =
                         [@ EXCEPT ![end.m] = Reading(Lowest(Seen))]]
        BY <3>1 DEF RefusePartial
      <4> QED BY <4>1
    <3>2. CASE ~(RefusePartial /\ Seen # {})
      BY <3>2 DEF CannotRead, RefusePartial, RefuseStale
    <3> QED BY <3>1, <3>2
  <2> QED BY <2>1, <2>2
<1>2. CASE Fails
  BY <1>0, <1>1, <1>2, FailsOnce
<1>3. CASE ~Fails
  <2>1. /\ end'.at = "receiving" /\ end'.bound = end.bound
        /\ end'.last = NoReply /\ end'.stable = 0
    <3>1. PICK n : end' = [end EXCEPT !.at = "receiving", !.tries = n,
                                      !.last = NoReply, !.stable = 0]
      <4>1. end' = [end EXCEPT !.at = "receiving", !.tries = @ + 1,
                               !.last = NoReply, !.stable = 0]
        BY <1>0, <1>3 DEF Incomplete, Fails
      <4> QED BY <4>1
    <3> QED BY <3>1 DEF Ends
  <2>2. HoldsLittle'
    BY <1>0, <1>1, <2>1 DEF HoldsLittle, OnceInv
  <2>3. \A m \in Sent, t \in Threads : ledger[m] = "delivering" /\ Found(m, t) => Found(m, t)'
    BY <1>0, <1>1, <2>1 DEF Found, Near, Entry
  <2> QED BY <1>0, <1>1, <2>1, <2>2, <2>3, StageOnce
<1> QED BY <1>2, <1>3

(* What is read of an answer is read after the message's own turn, which   *)
(* is on the page.                                                         *)
LEMMA SeenIsShown ==
  ASSUME Typed, Marks, NEW m \in Sent, Recorded(m), NEW row \in ReplyTo(m, anchor[m].id)
  PROVE  AllShown(m)
<1>1. PICK y \in Users : y \in Matches(m, anchor[m].id)
  <2>1. Matches(m, anchor[m].id) # {}
    BY Zenon DEF ReplyTo
  <2> QED BY <2>1 DEF Matches
<1>2. y \in Rows /\ Turn(y).by = "user"
  BY DEF Users
<1>3. /\ tab \in Threads /\ y = <<tab, y[2]>> /\ y[1] = tab /\ y[2] \in DOMAIN thread[tab]
      /\ y[2] \in 1..Len(thread[tab])
  BY <1>2, RowsAreTurns
<1>4. thread[tab][y[2]].is # "sent"
  BY <1>2, <1>3 DEF Rows
<1>5. Turn(y).is = "shown"
  BY <1>2, <1>3, <1>4 DEF Turn, Marks
<1>6. y \in Spoken(m)
  <2>1. CASE anchor[m].id # NoTurn
    <3>1. IdOf(y) = anchor[m].id
      BY <1>1, <2>1 DEF Matches
    <3>2. IdOf(y) = y
      BY <2>1, <3>1 DEF IdOf
    <3> QED BY <2>1, <3>1, <3>2 DEF Recorded
  <2>2. CASE anchor[m].id = NoTurn
    <3>1. Turn(y).of = m
      BY <1>1, <2>2 DEF Matches
    <3>2. y[2] \in Nat
      BY <1>3
    <3> QED BY <1>2, <1>3, <3>1, <3>2, SpokenTurns
  <2> QED BY <2>1, <2>2
<1> QED BY <1>5, <1>6 DEF Recorded, AllShown

LEMMA PollOnce ==
  ASSUME IInv, OnceInv, PollAgain
  PROVE  OnceInv'
<1> USE EndTypes
<1>0. PICK row \in Seen :
        end' = IF ~Generating /\ Reading(row).text = end.last.text
               THEN [end EXCEPT !.stable = @ + 1]
               ELSE [end EXCEPT !.stable = 0, !.last = Reading(row)]
  BY DEF PollAgain
<1>1. /\ end.at = "polling" /\ end.m \in Sent
      /\ UNCHANGED <<ids, echoes, thread, tab, alone, record, named, ledger, anchor, answer>>
  BY DEF PollAgain, site, kernel, IInv, InHand
<1>2. Reading(row).text # "none"
  BY DEF Reading, Text
<1>3. /\ end'.at = "polling" /\ end'.m = end.m /\ end'.bound = end.bound
      /\ end'.stable > 0 => end'.last # NoReply
  <2>1. CASE ~Generating /\ Reading(row).text = end.last.text
    <3>1. PICK n : end' = [end EXCEPT !.stable = n]
      BY <1>0, <2>1
    <3>2. end.last # NoReply
      BY <1>2, <2>1 DEF NoReply
    <3> QED BY <1>1, <3>1, <3>2 DEF Ends
  <2>2. CASE ~(~Generating /\ Reading(row).text = end.last.text)
    <3>1. end' = [end EXCEPT !.stable = 0, !.last = Reading(row)]
      BY <1>0, <2>2
    <3> QED BY <1>1, <3>1 DEF Ends
  <2> QED BY <2>1, <2>2
<1>4. HoldsLittle'
  BY <1>1, <1>3 DEF HoldsLittle, OnceInv
<1>5. \A m \in Sent, t \in Threads : ledger[m] = "delivering" /\ Found(m, t) => Found(m, t)'
  BY <1>1, <1>3 DEF Found, Near, Entry
<1>6. Recorded(end.m) => AllShown(end.m)
  BY <1>1, SeenIsShown DEF IInv, OnceInv, Seen
<1> QED BY <1>1, <1>3, <1>4, <1>5, <1>6, StageOnce

LEMMA ReceiveOnce ==
  ASSUME IInv, OnceInv, Receive
  PROVE  OnceInv'
<1> USE EndTypes
<1>1. PICK bound : /\ bound = IF Here # Nowhere THEN Here ELSE end.bound
                   /\ record' = [record EXCEPT !.conv = bound]
                   /\ named' = IF named = Nowhere THEN bound ELSE named
                   /\ end' = [Down EXCEPT !.at = "ready", !.bound = bound]
  BY Zenon DEF Receive
<1>2. /\ end.at = "polling" /\ end.stable = StablePolls /\ end.m \in Sent
      /\ ledger[end.m] = "delivered" /\ InFlight = {}
      /\ UNCHANGED <<ids, echoes, thread, tab, alone, ledger, anchor>>
      /\ answer' = [answer EXCEPT ![end.m] = end.last]
  BY DEF Receive, site, IInv, InHand, OnceInv, OneInFlight
<1>3. record'.conv = bound /\ record'.deliveries = record.deliveries
  BY <1>1 DEF Records
<1>4. /\ end'.at = "ready" /\ end'.m = 0 /\ end'.bound = bound
      /\ end'.last = NoReply /\ end'.stable = 0
  BY <1>1 DEF Down
<1>5. end.last # NoReply
  BY <1>2, ChatGptWebAssumption DEF OnceInv, HoldsLittle, ChatGptWebAssumption
<1>6. /\ answer \in [Sent -> Replies] /\ answer'[end.m] = end.last
      /\ \A m \in Sent : m # end.m => answer'[m] = answer[m]
  BY <1>2 DEF IInv, Typed
<1>7. OneInFlight'
  <2>1. \A m \in Sent : Spoken(m)' = Spoken(m)
    BY <1>2, SpokenSame
  <2>2. InFlight' = {}
    BY <1>2 DEF InFlight
  <2>3. \A m \in Sent : answer[m] # NoReply => answer'[m] # NoReply
    BY <1>5, <1>6
  <2>4. \A m \in Sent : answer'[m] # NoReply => ledger[m] = "delivered"
    BY <1>2, <1>6 DEF OnceInv, OneInFlight
  <2> QED BY <1>2, <2>1, <2>2, <2>3, <2>4 DEF OnceInv, OneInFlight
<1>8. HoldsLittle'
  BY <1>1, <1>2, <1>3, <1>4 DEF HoldsLittle, OnceInv
<1>9. ASSUME NEW CONSTANT m \in Sent, Recorded(m), end.m = m => Working(m)
      PROVE  Recorded(m)' /\ Placed(m)' /\ end'.m # m
  <2>1. Spoken(m)' = Spoken(m) /\ AllShown(m)' = AllShown(m)
    BY <1>2, SpokenSame
  <2>2. answer'[m] # NoReply => AllShown(m)
    BY <1>2, <1>5, <1>6, <1>9 DEF Recorded, Working
  <2>3. Recorded(m)'
    BY <1>2, <1>3, <1>9, <2>1, <2>2 DEF Recorded, Entry
  <2>4. Placed(m)'
    BY <1>2 DEF Placed, InFlight
  <2> QED BY <1>4, <2>3, <2>4
<1>10. \A m \in Sent : Entry(m)'.id = Entry(m).id
  BY <1>3 DEF Entry
<1> QED BY <1>2, <1>7, <1>8, <1>9, <1>10, CalmOnce

(* The ledger's line of the message in hand changes, and nothing else.     *)
LEMMA ResolvedOnce ==
  ASSUME IInv, OnceInv, end.at = "asking", NEW how \in {"again", "confirmed"},
         Resolve(end.m, how), Goto("reconcile"),
         UNCHANGED <<site, record, named, anchor, answer, alone>>,
         how = "again" /\ (ids \/ echoes) /\ end.m \in alone => Spoken(end.m) = {}
  PROVE  OnceInv'
<1> USE EndTypes
<1>1. end.m \in Sent /\ ledger[end.m] = "delivering"
  BY DEF IInv, InHand, Handling
<1>2. /\ end'.at = "reconcile" /\ end'.m = end.m /\ end'.last = end.last
      /\ end'.stable = end.stable /\ end'.bound = end.bound
  BY DEF Goto, Ends
<1>3. ledger'[end.m] = how /\ \A m \in Sent : m # end.m => ledger'[m] = ledger[m]
  BY <1>1 DEF Resolve
<1>4. UNCHANGED <<ids, echoes, thread, tab, record, named, anchor, answer, alone>>
  BY DEF site
<1>5. \A m : Spoken(m)' = Spoken(m) /\ AllShown(m)' = AllShown(m)
  BY <1>4, SpokenSame
<1>6. OneInFlight'
  BY <1>1, <1>2, <1>3, <1>4, <1>5 DEF OnceInv, OneInFlight
<1>7. HoldsLittle'
  <2>1. NoneSent' = NoneSent
    BY <1>4, SpokenSame
  <2> QED BY <1>2, <1>4, <2>1 DEF OnceInv, HoldsLittle
<1>8. ASSUME NEW CONSTANT m \in Sent, m \in alone, ids \/ echoes, Recorded(m), Placed(m)
      PROVE  Recorded(m)' /\ Placed(m)' /\ (end'.m = m => Working(m)')
  <2>1. Recorded(m)'
    BY <1>3, <1>4, <1>5, <1>8 DEF Recorded, Entry
  <2>2. Placed(m)'
    <3>1. \A t : Found(m, t) => Found(m, t)'
      BY <1>2, <1>4 DEF Found, Near, Entry
    <3>2. ledger'[m] = "delivering" => ledger[m] = "delivering"
      BY <1>1, <1>3
    <3> QED BY <1>4, <1>8, <3>1, <3>2, PlacedStays
  <2>3. end'.m = m => Working(m)'
    BY <1>2 DEF Working
  <2> QED BY <2>1, <2>2, <2>3
<1>9. \A m \in Sent : Entry(m)'.id = Entry(m).id
  BY <1>4 DEF Entry
<1> QED BY <1>4, <1>6, <1>7, <1>8, <1>9, CalmOnce

(* A message that is there is in the window, being the last but for its    *)
(* answer: the page that the end looks at does not miss it.                *)
LEMMA MissIsTrue ==
  ASSUME IInv, OnceInv, Window > 1, HoldsNo, ids \/ echoes, end.m \in alone
  PROVE  Spoken(end.m) = {}
<1> USE EndTypes
<1> SUFFICES ASSUME NEW x \in Spoken(end.m) PROVE FALSE
  OBVIOUS
<1> PICK m, t, i, len : m = end.m /\ t = x[1] /\ i = x[2] /\ len = Len(thread[t])
  OBVIOUS
<1>1. /\ end.at = "asking" /\ m \in Sent /\ ledger[m] = "delivering" /\ NoneSent
      /\ Recorded(m) /\ Placed(m)
  BY DEF HoldsNo, IInv, InHand, Handling, OnceInv, HoldsLittle
<1>2. CanTell(m) /\ Misses(m)
  BY <1>1 DEF HoldsNo, Recorded
<1>3. /\ t \in Threads /\ i \in Nat /\ i \in DOMAIN thread[t] /\ x = <<t, i>>
      /\ Turn(x).by = "user" /\ Turn(x).of = m
  BY SpokenTurns DEF IInv
<1>4. len <= i + 1 /\ Found(m, t)
  BY <1>1 DEF Placed
<1>5. t # Nowhere
  BY <1>3, ChatGptWebAssumption DEF Threads, Nowhere, ChatGptWebAssumption
<1>6. tab = t
  <2>1. CASE Entry(m).conv = t
    BY <1>2, <1>5, <2>1 DEF CanTell, AskTarget, Here
  <2>2. CASE Entry(m).conv # t
    BY <1>2, <1>4, <2>2 DEF Found, Near, CanTell, Rows
  <2> QED BY <2>1, <2>2
<1>7. x \in Users
  <2>1. len \in Nat /\ i \in 1..len
    BY <1>3 DEF IInv, Typed
  <2>2. i > len - Window
    BY <1>4, <2>1, ChatGptWebAssumption DEF ChatGptWebAssumption
  <2>3. thread[t][i].is # "sent"
    BY <1>1, <1>3 DEF NoneSent
  <2>4. x \in Rows
    BY <1>3, <1>5, <1>6, <2>1, <2>2, <2>3 DEF Rows
  <2> QED BY <1>3, <2>4 DEF Users
<1>8. x \in Matches(m, Entry(m).id)
  <2>1. CASE Entry(m).id # NoTurn
    <3>1. ids
      BY <1>1, <2>1 DEF OnceInv, IdsAreOnThePage
    <3>2. Entry(m).id = x
      BY <1>1, <2>1 DEF Recorded
    <3> QED BY <1>7, <2>1, <3>1, <3>2 DEF Matches, IdOf
  <2>2. CASE Entry(m).id = NoTurn
    BY <1>2, <1>3, <1>7, <2>2 DEF Matches, Misses
  <2> QED BY <2>1, <2>2
<1> QED BY <1>2, <1>8 DEF Misses

LEMMA HoldsOnce ==
  ASSUME IInv, OnceInv, Window > 1, HoldsNo \/ HoldsYes \/ HoldsRaises
  PROVE  OnceInv'
<1>1. CASE HoldsNo
  <2>1. ids \/ echoes => (end.m \in alone => Spoken(end.m) = {})
    BY <1>1, MissIsTrue
  <2> QED BY <1>1, <2>1, ResolvedOnce DEF HoldsNo
<1>2. CASE HoldsYes
  BY <1>2, ResolvedOnce DEF HoldsYes
<1>3. CASE HoldsRaises
  <2>1. end.m \in Sent /\ ledger[end.m] = "delivering" /\ ledger \in [Sent -> Outcomes]
    BY <1>3, EndTypes DEF HoldsRaises, IInv, InHand, Handling
  <2>2. /\ \A m \in Sent : ledger'[m] \in {ledger[m], "unreconcilable"}
        /\ \A m \in Sent : ledger[m] = "delivered" => ledger'[m] = "delivered"
    BY <1>3, <2>1 DEF HoldsRaises, Resolve
  <2> QED BY <1>3, <2>2, FailsOnce DEF HoldsRaises, site
<1> QED BY <1>1, <1>2, <1>3

LEMMA BeginOnce ==
  ASSUME IInv, OnceInv, NEW CONSTANT n \in Sent, BeginDelivery(n)
  PROVE  OnceInv'
<1> USE EndTypes
<1>1. /\ end'.at = "sending" /\ end'.m = n /\ end'.last = end.last
      /\ end'.stable = end.stable /\ end'.bound = end.bound /\ end.at = "ready"
      /\ ledger[n] \in {"waiting", "again"} /\ InFlight = {}
  BY DEF BeginDelivery, Due, Ends, OnceInv, OneInFlight
<1>2. ledger'[n] = "delivering" /\ \A m \in Sent : m # n => ledger'[m] = ledger[m]
  BY DEF BeginDelivery, Resolve
<1>3. UNCHANGED <<ids, echoes, thread, tab, record, named, anchor, answer, alone>>
  BY DEF BeginDelivery, site
<1>4. \A m : Spoken(m)' = Spoken(m) /\ AllShown(m)' = AllShown(m)
  BY <1>3, SpokenSame
<1>5. OneInFlight'
  <2>1. \A m \in Sent : m < n => answer[m] # NoReply
    BY DEF BeginDelivery, Due, Sent
  <2>2. answer[n] = NoReply
    BY <1>1 DEF OnceInv, OneInFlight
  <2> QED BY <1>1, <1>2, <1>3, <1>4, <2>1, <2>2 DEF OnceInv, OneInFlight, InFlight
<1>6. HoldsLittle'
  BY <1>1, <1>3 DEF OnceInv, HoldsLittle
<1>7. ASSUME NEW CONSTANT m \in Sent, m \in alone, ids \/ echoes, Recorded(m)
      PROVE  Recorded(m)' /\ Placed(m)' /\ (end'.m = m => Working(m)')
  <2>1. Recorded(m)'
    BY <1>1, <1>2, <1>3, <1>4, <1>7 DEF Recorded, Entry
  <2>2. Placed(m)'
    <3>1. CASE m = n
      <4>1. Spoken(m) = {}
        BY <1>1, <1>7, <3>1 DEF Recorded
      <4> QED BY <1>4, <4>1 DEF Placed
    <3>2. CASE m # n
      BY <1>1, <1>2, <3>2 DEF Placed, InFlight
    <3> QED BY <3>1, <3>2
  <2>3. end'.m = m => Working(m)'
    BY <1>1, <1>4, <1>7 DEF Working, Recorded
  <2> QED BY <2>1, <2>2, <2>3
<1>8. \A m \in Sent : Entry(m)'.id = Entry(m).id
  BY <1>3 DEF Entry
<1> QED BY <1>3, <1>5, <1>6, <1>7, <1>8, CalmOnce

(* From one stage of a send to the next: only the message in hand matters, *)
(* for no other is in flight.                                              *)
LEMMA SendOnce ==
  ASSUME IInv, OnceInv, UNCHANGED <<ids, echoes, thread, alone, named, ledger, anchor, answer>>,
         end.at \in Handling, end'.at \in Handling \ {"asking"},
         NEW CONSTANT n, end.m = n, end'.m = n, end'.last = end.last, end'.stable = end.stable,
         end'.bound = Nowhere => named = Nowhere /\ record'.conv = Nowhere,
         \A m \in Sent : m # n => Entry(m)' = Entry(m),
         Entry(n)'.id \in {Entry(n).id, NoTurn} \/ ids,
         n \in alone /\ (ids \/ echoes) /\ Recorded(n) /\ Placed(n) /\ Working(n) =>
           Recorded(n)' /\ Placed(n)' /\ Working(n)'
  PROVE  OnceInv'
<1>1. n \in Sent /\ ledger[n] = "delivering" /\ end.at # "polling" /\ end'.at # "polling"
  BY DEF IInv, InHand, Handling
<1>2. OneInFlight'
  BY OneStays DEF Handling
<1>3. HoldsLittle'
  BY <1>1 DEF OnceInv, HoldsLittle, Handling
<1>4. ASSUME NEW CONSTANT m \in Sent, Recorded(m), m # n
      PROVE  Recorded(m)' /\ Placed(m)'
  <2>1. Recorded(m)'
    BY <1>4, RecordedStays
  <2>2. ledger[m] # "delivering"
    BY <1>1, <1>4, OneAtATime DEF OnceInv
  <2> QED BY <2>1, <2>2 DEF Placed
<1>5. \A m \in Sent : Entry(m)'.id \in {Entry(m).id, NoTurn} \/ ids
  OBVIOUS
<1> QED BY <1>2, <1>3, <1>4, <1>5, CalmOnce

LEMMA AdoptOnce ==
  ASSUME IInv, OnceInv, Adopt
  PROVE  OnceInv'
<1> USE EndTypes
<1>1. PICK bound, n :
        /\ bound = IF end.bound = Nowhere THEN Here ELSE end.bound
        /\ n = end.m
        /\ end' = [end EXCEPT !.at = "readying", !.bound = bound]
        /\ record' = IF bound # end.bound THEN [record EXCEPT !.conv = bound] ELSE record
  BY DEF Adopt
<1>2. /\ end.at = "sending" /\ end'.at = "readying" /\ end'.m = n /\ end'.bound = bound
      /\ end'.last = end.last /\ end'.stable = end.stable
      /\ UNCHANGED <<ids, echoes, thread, alone, named, ledger, anchor, answer>>
  BY <1>1 DEF Adopt, Ends, kernel
<1>3. record'.deliveries = record.deliveries
  BY <1>1 DEF Records
<1>4. bound = Nowhere => named = Nowhere /\ record'.conv = Nowhere
  BY <1>1, <1>2 DEF OnceInv, HoldsLittle
<1>5. ASSUME Recorded(n), Working(n) PROVE Recorded(n)' /\ Placed(n)' /\ Working(n)'
  <2>1. Spoken(n) = {} /\ Spoken(n)' = {}
    BY <1>2, <1>5, SpokenSame DEF Working
  <2>2. Recorded(n)'
    BY <1>2, <1>3, <1>5, RecordedStays DEF Entry
  <2> QED BY <1>2, <2>1, <2>2 DEF Placed, Working
<1> QED BY <1>1, <1>2, <1>3, <1>4, <1>5, SendOnce DEF Handling, Entry

(* As the end turns to the page, the newest turn of a user that the page   *)
(* shows is there for good: what the relay typed before has its answer.    *)
LEMMA NewestIsPrior ==
  ASSUME IInv, OnceInv, NEW m \in Sent, m \in alone, ids \/ echoes, ledger[m] = "delivering",
         Spoken(m) = {}, ids, tab # Nowhere, NEW j \in DOMAIN thread[tab],
         thread[tab][j].by = "user", j > Len(thread[tab]) - Window
  PROVE  /\ LastUserId # NoTurn /\ LastUserId[1] = tab /\ LastUserId[2] >= j
         /\ LastUserId[2] \in DOMAIN thread[tab] /\ Turn(LastUserId).by = "user"
         /\ Turn(LastUserId).of # m /\ Turn(LastUserId).is = "shown"
<1>1. Typed /\ Marks /\ OneInFlight /\ Closed /\ tab \in Threads
  BY EndTypes DEF IInv, OnceInv, Places
<1>2. DOMAIN thread[tab] = 1..Len(thread[tab]) /\ Len(thread[tab]) \in Nat
  BY <1>1 DEF Typed
<1> PICK y : y = <<tab, j>>
  OBVIOUS
<1>3. y[1] = tab /\ y[2] = j /\ y \in Threads \X Nat /\ Turn(y) = thread[tab][j]
  BY <1>1, <1>2 DEF Turn
<1>4. Turn(y).is # "sent"
  <2> SUFFICES ASSUME Turn(y).is = "sent" PROVE FALSE
    OBVIOUS
  <2>1. PICK n \in Sent : n = Turn(y).of
    BY <1>1, <1>3 DEF Marks
  <2>2. y \in Spoken(n)
    BY <1>1, <1>3, <2>1, SpokenTurns
  <2>3. n \in Int /\ m \in Int
    BY DEF Sent
  <2>4. CASE n = m
    BY <2>2, <2>4
  <2>5. CASE n < m
    <3>1. n \in alone /\ answer[n] # NoReply
      BY <1>1, <2>5 DEF Closed, OneInFlight
    <3>2. Recorded(n)
      BY <3>1 DEF OnceInv
    <3> QED BY <2>2, <3>1, <3>2 DEF Recorded, AllShown
  <2>6. CASE m < n
    BY <1>1, <2>2, <2>6 DEF OneInFlight
  <2> QED BY <2>3, <2>4, <2>5, <2>6
<1>5. y \in Users /\ Users \in SUBSET Rows
  <2>1. y \in Rows
    BY <1>2, <1>3, <1>4 DEF Rows, Turn
  <2> QED BY <1>3, <2>1 DEF Users
<1> PICK h : h = Highest(Users)
  OBVIOUS
<1>6. h \in Users /\ j <= h[2]
  BY <1>1, <1>3, <1>5, HighestIsThere
<1>7. h \in Rows /\ Turn(h).by = "user"
  BY <1>6 DEF Users
<1>8. /\ h # NoTurn /\ h[1] = tab /\ h = <<tab, h[2]>> /\ h[2] \in DOMAIN thread[tab]
      /\ h[2] \in 1..Len(thread[tab])
  BY <1>1, <1>7, RowsAreTurns
<1>9. Turn(h).is = "shown"
  <2>1. thread[tab][h[2]].is # "sent"
    BY <1>7, <1>8 DEF Rows
  <2> QED BY <1>1, <1>7, <1>8, <2>1 DEF Marks, Turn
<1>10. Turn(h).of # m
  <2> SUFFICES ASSUME Turn(h).of = m PROVE FALSE
    OBVIOUS
  <2>1. h \in Threads \X Nat
    BY <1>1, <1>2, <1>8
  <2>2. h \in Spoken(m)
    BY <1>1, <1>7, <1>8, <2>1, SpokenTurns
  <2> QED BY <2>2
<1>11. LastUserId = h
  BY <1>6 DEF LastUserId, IdOf
<1>12. h[2] \in Nat /\ j \in Nat
  BY <1>2, <1>8
<1> QED BY <1>6, <1>7, <1>8, <1>9, <1>10, <1>11, <1>12

LEMMA SettledOnce ==
  ASSUME IInv, OnceInv, Settled
  PROVE  OnceInv'
<1> USE EndTypes
<1>1. PICK prior, n : /\ prior = LastUserId /\ n = end.m
                      /\ end' = [end EXCEPT !.at = "recording", !.prior = prior]
  BY DEF Settled
<1>2. /\ end.at = "readying" /\ end'.at = "recording" /\ end'.m = n /\ end'.bound = end.bound
      /\ end'.last = end.last /\ end'.stable = end.stable /\ end'.prior = prior
      /\ end.bound \in {tab, Nowhere}
      /\ UNCHANGED <<ids, echoes, thread, tab, record, alone, named, ledger, anchor, answer>>
  BY <1>1 DEF Settled, Ends, kernel, site
<1>3. n \in Sent /\ ledger[n] = "delivering"
  BY <1>1, <1>2 DEF IInv, InHand, Handling
<1>4. end.bound = Nowhere => named = Nowhere /\ record'.conv = Nowhere
  BY <1>2 DEF OnceInv, HoldsLittle
<1>5. ASSUME n \in alone, ids \/ echoes, Recorded(n), Working(n)
      PROVE  Recorded(n)' /\ Placed(n)' /\ Working(n)'
  <2>1. Spoken(n) = {} /\ Spoken(n)' = {}
    BY <1>2, <1>5, SpokenSame DEF Working
  <2>2. Recorded(n)'
    BY <1>2, <1>5, RecordedStays DEF Entry
  <2>3. PriorIsNewest(n)'
    <3> SUFFICES ASSUME ids, tab # Nowhere, NEW j \in DOMAIN thread[tab],
                        thread[tab][j].by = "user", j > Len(thread[tab]) - Window
                 PROVE  /\ prior # NoTurn /\ prior[1] = tab /\ prior[2] >= j
                        /\ prior[2] \in DOMAIN thread[tab] /\ Turn(prior).by = "user"
                        /\ Turn(prior).of # n /\ Turn(prior).is = "shown"
      BY <1>2 DEF PriorIsNewest, Turn
    <3> QED BY <1>1, <1>3, <1>5, <2>1, NewestIsPrior
  <2> QED BY <1>2, <2>1, <2>2, <2>3 DEF Placed, Working
<1> QED BY <1>1, <1>2, <1>4, <1>5, SendOnce DEF Handling, Entry

LEMMA RecordOnce ==
  ASSUME IInv, OnceInv, RecordDelivery
  PROVE  OnceInv'
<1> USE EndTypes
<1>1. PICK n, entry :
        /\ n = end.m /\ entry = [conv |-> end.bound, id |-> NoTurn, made |-> TRUE]
        /\ record' = [record EXCEPT !.conv = end.bound, !.deliveries[n] = entry]
  BY DEF RecordDelivery
<1>2. /\ end.at = "recording" /\ end'.at = "submitting" /\ end'.m = n /\ end'.bound = end.bound
      /\ end'.last = end.last /\ end'.stable = end.stable /\ end'.prior = end.prior
      /\ UNCHANGED <<ids, echoes, thread, tab, alone, named, ledger, anchor, answer>>
  BY <1>1 DEF RecordDelivery, Goto, Ends, kernel, site
<1>3. n \in Sent /\ ledger[n] = "delivering"
  BY <1>1, <1>2 DEF IInv, InHand, Handling
<1>4. /\ record'.conv = end.bound /\ Entry(n)' = entry
      /\ \A m \in Sent : m # n => Entry(m)' = Entry(m)
  BY <1>1, <1>3 DEF Records, Entry
<1>5. end.bound = Nowhere => named = Nowhere /\ record'.conv = Nowhere
  BY <1>2, <1>4 DEF OnceInv, HoldsLittle
<1>6. ASSUME Recorded(n), Working(n)
      PROVE  Recorded(n)' /\ Placed(n)' /\ Working(n)'
  <2>1. Spoken(n) = {} /\ Spoken(n)' = {} /\ AllShown(n)' = AllShown(n)
    BY <1>2, <1>6, SpokenSame DEF Working
  <2>2. Recorded(n)'
    BY <1>1, <1>2, <1>4, <1>6, <2>1 DEF Recorded
  <2>3. PriorIsNewest(n)'
    BY <1>2, <1>6 DEF Working, PriorIsNewest, Turn
  <2>4. end.bound \in {tab, Nowhere} /\ Entry(n)'.conv = end.bound /\ Entry(n)'.made
    BY <1>1, <1>2, <1>4, <1>6 DEF Working
  <2> QED BY <1>2, <2>1, <2>2, <2>3, <2>4 DEF Placed, Working
<1> QED BY <1>1, <1>2, <1>4, <1>5, <1>6, SendOnce DEF Handling

(* The turn after the last one of those before becomes the message's own.  *)
LEMMA LearnsOnce ==
  ASSUME IInv, OnceInv, LearnsOwnId \/ LearnsNoId
  PROVE  OnceInv'
<1> USE EndTypes
<1> PICK n : n = end.m
  OBVIOUS
<1>1. /\ end.at = "naming" /\ end'.at = "binding" /\ end'.m = n /\ end'.bound = end.bound
      /\ end'.last = end.last /\ end'.stable = end.stable
      /\ UNCHANGED <<ids, echoes, thread, tab, alone, named, ledger, anchor, answer>>
  BY DEF LearnsOwnId, LearnsNoId, Goto, Ends, kernel, site
<1>2. n \in Sent
  BY <1>1 DEF IInv, InHand, Handling
<1>3. /\ record'.conv = record.conv /\ \A m \in Sent : m # n => Entry(m)' = Entry(m)
      /\ Entry(n)'.conv = Entry(n).conv /\ Entry(n)'.made = Entry(n).made
      /\ \/ Entry(n)'.id = Entry(n).id
         \/ Entry(n)'.id = LastUserId /\ LastUserId \notin {NoTurn, end.prior}
  <2>1. CASE LearnsNoId
    BY <2>1 DEF LearnsNoId, Entry
  <2>2. CASE LearnsOwnId
    <3>1. PICK entry : entry = [record.deliveries[n] EXCEPT !.id = LastUserId]
      OBVIOUS
    <3>2. /\ entry.id = LastUserId /\ entry.conv = Entry(n).conv /\ entry.made = Entry(n).made
      BY <1>2, <3>1 DEF Entries, Entry
    <3>3. record' = [record EXCEPT !.deliveries[n] = entry] /\ LastUserId \notin {NoTurn, end.prior}
      BY <2>2, <3>1 DEF LearnsOwnId
    <3> QED BY <1>2, <3>2, <3>3 DEF Records, Entry
  <2> QED BY <2>1, <2>2
<1>4. end.bound = Nowhere => named = Nowhere /\ record'.conv = Nowhere
  BY <1>1, <1>3 DEF OnceInv, HoldsLittle
<1>5. LastUserId # NoTurn => ids
  BY DEF LastUserId, IdOf
<1>6. ASSUME Working(n), LastUserId \notin {NoTurn, end.prior}
      PROVE  LastUserId \in Spoken(n)
  <2>1. Users # {} /\ Users \in SUBSET Rows /\ Typed /\ Marks
    BY <1>6 DEF LastUserId, Users, IInv, OnceInv
  <2> PICK h : h = Highest(Users)
    OBVIOUS
  <2>2. h \in Users /\ \A row \in Users : row[2] <= h[2]
    BY <2>1, HighestIsThere
  <2>3. LastUserId = h /\ h \in Rows /\ Turn(h).by = "user"
    BY <1>5, <1>6, <2>1, <2>2 DEF LastUserId, IdOf, Users
  <2>4. /\ tab \in Threads /\ h[1] = tab /\ h = <<tab, h[2]>> /\ h[2] \in DOMAIN thread[tab]
        /\ h[2] \in 1..Len(thread[tab]) /\ h[2] > Len(thread[tab]) - Window
    BY <2>1, <2>3, RowsAreTurns
  <2>5. DOMAIN thread[tab] = 1..Len(thread[tab]) /\ Len(thread[tab]) \in Nat
    BY <2>1, <2>4 DEF Typed
  <2>6. Turn(h).of = n
    <3> SUFFICES ASSUME Turn(h).of # n PROVE FALSE
      OBVIOUS
    <3> PICK p : p = end.prior
      OBVIOUS
    <3>1. tab # Nowhere
      BY <2>4, ChatGptWebAssumption DEF Threads, Nowhere, ChatGptWebAssumption
    <3>2. PriorIsNewest(n)
      BY <1>1, <1>6 DEF Working
    <3>3. /\ p # NoTurn /\ p[1] = tab /\ p[2] >= h[2] /\ p[2] \in DOMAIN thread[tab]
          /\ Turn(p).by = "user" /\ Turn(p).is = "shown"
      BY <1>5, <1>6, <2>3, <2>4, <3>1, <3>2 DEF PriorIsNewest, Turn
    <3>4. p = <<tab, p[2]>>
      BY <3>3, IdsArePairs
    <3>5. p[2] > Len(thread[tab]) - Window
      BY <2>4, <2>5, <3>3, ChatGptWebAssumption DEF ChatGptWebAssumption
    <3>6. p \in Rows
      BY <2>5, <3>1, <3>3, <3>4, <3>5 DEF Rows, Turn
    <3>7. p[2] <= h[2]
      BY <2>2, <3>3, <3>6 DEF Users
    <3>8. p[2] = h[2]
      BY <2>4, <2>5, <3>3, <3>7
    <3> QED BY <1>6, <2>3, <2>4, <3>4, <3>8
  <2> QED BY <2>1, <2>3, <2>4, <2>5, <2>6, SpokenTurns
<1>7. ASSUME Recorded(n), Placed(n), Working(n)
      PROVE  Recorded(n)' /\ Placed(n)' /\ Working(n)'
  <2>1. Spoken(n)' = Spoken(n) /\ AllShown(n)' = AllShown(n)
    BY <1>1, SpokenSame
  <2>2. Recorded(n)'
    BY <1>1, <1>3, <1>6, <1>7, <2>1 DEF Recorded
  <2>3. Placed(n)'
    <3>1. \A t : Found(n, t) => Found(n, t)'
      BY <1>1, <1>3 DEF Found, Near
    <3> QED BY <1>1, <1>7, <3>1, PlacedStays
  <2>4. Working(n)'
    BY <1>1, <1>7, <2>1 DEF Working
  <2> QED BY <2>2, <2>3, <2>4
<1> QED BY <1>1, <1>3, <1>4, <1>5, <1>7, SendOnce DEF Handling

LEMMA BindOnce ==
  ASSUME IInv, OnceInv, Bind
  PROVE  OnceInv'
<1> USE EndTypes
<1>1. PICK bound, n :
        /\ bound = IF Here # Nowhere THEN Here ELSE end.bound
        /\ n = end.m
        /\ end' = [end EXCEPT !.at = "receipt", !.bound = bound]
        /\ record' = IF Here = Nowhere THEN record
                     ELSE [record EXCEPT !.conv = bound, !.deliveries[n].conv = bound]
  BY Zenon DEF Bind
<1>2. /\ end.at = "binding" /\ end'.at = "receipt" /\ end'.m = n /\ end'.bound = bound
      /\ end'.last = end.last /\ end'.stable = end.stable
      /\ UNCHANGED <<ids, echoes, thread, tab, alone, named, ledger, anchor, answer>>
  BY <1>1 DEF Bind, Ends, kernel, site
<1>3. n \in Sent
  BY <1>1, <1>2 DEF IInv, InHand, Handling
<1>4. /\ \A m \in Sent : m # n => Entry(m)' = Entry(m)
      /\ Entry(n)'.id = Entry(n).id /\ Entry(n)'.made = Entry(n).made
      /\ Here = Nowhere => record' = record
      /\ Here # Nowhere => Entry(n)'.conv = Here
  <2>1. CASE Here = Nowhere
    BY <1>1, <2>1 DEF Entry
  <2>2. CASE Here # Nowhere
    <3>1. PICK entry : entry = [record.deliveries[n] EXCEPT !.conv = bound]
      OBVIOUS
    <3>2. /\ entry.conv = bound /\ entry.id = Entry(n).id /\ entry.made = Entry(n).made
      BY <1>3, <3>1 DEF Entries, Entry
    <3>3. record' = [record EXCEPT !.conv = bound, !.deliveries[n] = entry] /\ bound = Here
      BY <1>1, <2>2, <3>1
    <3> QED BY <1>3, <2>2, <3>2, <3>3 DEF Records, Entry
  <2> QED BY <2>1, <2>2
<1>5. bound = Nowhere => named = Nowhere /\ record'.conv = Nowhere
  BY <1>1, <1>2, <1>4 DEF OnceInv, HoldsLittle
<1>6. ASSUME Recorded(n), Placed(n), Working(n)
      PROVE  Recorded(n)' /\ Placed(n)' /\ Working(n)'
  <2>1. Spoken(n)' = Spoken(n)
    BY <1>2, SpokenSame
  <2>2. Recorded(n)'
    BY <1>2, <1>4, <1>6, RecordedStays
  <2>3. ASSUME NEW CONSTANT x \in Spoken(n), Found(n, x[1]) PROVE Found(n, x[1])'
    <3>1. CASE Here = Nowhere
      BY <1>1, <1>2, <1>4, <2>3, <3>1 DEF Found, Near, Entry
    <3>2. CASE Here # Nowhere
      <4>1. Here = tab
        BY <3>2 DEF Here
      <4>2. x[1] = tab
        BY <1>2, <1>6 DEF Working
      <4> QED BY <1>4, <3>2, <4>1, <4>2 DEF Found
    <3> QED BY <3>1, <3>2
  <2>4. Placed(n)'
    BY <1>2, <1>6, <2>1, <2>3 DEF Placed
  <2>5. Working(n)'
    BY <1>2 DEF Working
  <2> QED BY <2>2, <2>4, <2>5
<1> QED BY <1>1, <1>2, <1>4, <1>5, <1>6, SendOnce DEF Handling

LEMMA CompleteOnce ==
  ASSUME IInv, OnceInv, CompleteDelivery
  PROVE  OnceInv'
<1> USE EndTypes
<1> PICK n : n = end.m
  OBVIOUS
<1>1. /\ end.at = "receipt" /\ end'.at = "ready" /\ end'.m = n /\ end'.bound = end.bound
      /\ end'.last = end.last /\ end'.stable = end.stable
      /\ UNCHANGED <<ids, echoes, thread, tab, record, alone, named, answer>>
  BY DEF CompleteDelivery, Goto, Ends, site
<1>2. n \in Sent /\ ledger[n] = "delivering"
  BY <1>1 DEF IInv, InHand, Handling
<1>3. ledger'[n] = "delivered" /\ \A m \in Sent : m # n => ledger'[m] = ledger[m]
  BY <1>2 DEF CompleteDelivery, Resolve
<1>4. anchor'[n].id = Entry(n).id /\ \A m \in Sent : m # n => anchor'[m] = anchor[m]
  BY <1>2 DEF CompleteDelivery, IInv, Typed
<1>5. \A m : Spoken(m)' = Spoken(m) /\ AllShown(m)' = AllShown(m)
  BY <1>1, SpokenSame
<1>6. \A m \in Sent : ledger'[m] # "delivering"
  BY <1>2, <1>3, OneAtATime DEF OnceInv
<1>7. OneInFlight'
  BY <1>1, <1>2, <1>3, <1>5, <1>6 DEF OnceInv, OneInFlight, InFlight
<1>8. HoldsLittle'
  BY <1>1 DEF OnceInv, HoldsLittle
<1>9. ASSUME NEW CONSTANT m \in Sent, Recorded(m)
      PROVE  Recorded(m)' /\ Placed(m)' /\ Working(m)'
  <2>1. Recorded(m)'
    BY <1>1, <1>3, <1>4, <1>5, <1>9 DEF Recorded, Entry
  <2> QED BY <1>1, <1>6, <2>1 DEF Placed, Working
<1>10. \A m \in Sent : Entry(m)'.id = Entry(m).id
  BY <1>1 DEF Entry
<1> QED BY <1>1, <1>7, <1>8, <1>9, <1>10, CalmOnce

(* The one step that types: a message that has been typed nowhere.         *)
LEMMA SubmitOnce ==
  ASSUME IInv, OnceInv, Submit
  PROVE  OnceInv'
<1> USE EndTypes
<1> PICK n : n = end.m
  OBVIOUS
<1>1. /\ end.at = "submitting" /\ end'.at = "naming" /\ end'.m = n /\ end'.bound = end.bound
      /\ end'.last = end.last /\ end'.stable = end.stable /\ end'.prior = end.prior
      /\ UNCHANGED <<ids, echoes, record, alone, named, ledger, anchor, answer>>
  BY DEF Submit, Goto, Ends, kernel
<1>2. /\ n \in Sent /\ ledger[n] = "delivering" /\ Typed /\ Marks /\ OneInFlight /\ Closed
      /\ HoldsLittle
  BY <1>1 DEF IInv, InHand, Handling, OnceInv
<1> PICK turn : turn = [by |-> "user", of |-> n, is |-> "sent"]
  OBVIOUS
<1>3. PICK t \in Threads :
        /\ Write(t, turn) /\ tab' = t
        /\ tab # Nowhere => t = tab
        /\ tab = Nowhere => thread[t] = <<>>
  <2>1. CASE tab # Nowhere
    BY <2>1 DEF Submit, Places
  <2>2. CASE tab = Nowhere
    BY <2>2 DEF Submit, Threads
  <2> QED BY <2>1, <2>2
<1>4. t # Nowhere
  BY ChatGptWebAssumption DEF Threads, Nowhere, ChatGptWebAssumption
<1> PICK q, len : q = Append(thread[t], turn) /\ len = Len(thread[t])
  OBVIOUS
<1>5. turn \in Turns /\ turn.by = "user" /\ turn.of = n /\ turn.is = "sent"
  BY <1>2 DEF Turns, Progress
<1>6. /\ thread[t] \in Seq(Turns) /\ len \in Nat /\ DOMAIN thread[t] = 1..len
      /\ q \in Seq(Turns) /\ Len(q) = len + 1 /\ DOMAIN q = 1..(len + 1)
      /\ q[len + 1] = turn /\ \A i \in DOMAIN thread[t] : q[i] = thread[t][i]
  BY <1>2, <1>5 DEF Typed
<1>7. /\ thread' \in [Threads -> Seq(Turns)] /\ thread'[t] = q
      /\ \A u \in Threads : u # t => thread'[u] = thread[u]
  BY <1>2, <1>3, <1>6 DEF Write, Typed
<1>8. \A u \in Threads : \A i \in DOMAIN thread[u] :
        i \in DOMAIN thread'[u] /\ thread'[u][i] = thread[u][i]
  <2>1. DOMAIN thread[t] \subseteq DOMAIN q
    BY <1>6
  <2> QED BY <1>6, <1>7, <2>1
<1>9. \A u \in Threads : \A i \in DOMAIN thread'[u] :
        i \in DOMAIN thread[u] \/ (u = t /\ i = len + 1 /\ thread'[u][i] = turn)
  BY <1>6, <1>7
<1>10. ASSUME NEW CONSTANT m \in Sent, m # n PROVE Spoken(m)' = Spoken(m)
  <2> SUFFICES ASSUME NEW CONSTANT x PROVE x \in Spoken(m)' <=> x \in Spoken(m)
    OBVIOUS
  <2>1. x \in Spoken(m)' <=> /\ x \in Threads \X Nat /\ x[2] \in DOMAIN thread'[x[1]]
                             /\ thread'[x[1]][x[2]].by = "user"
                             /\ thread'[x[1]][x[2]].of = m
    BY <1>7, SpokenNext
  <2>2. x \in Spoken(m) <=> /\ x \in Threads \X Nat /\ x[2] \in DOMAIN thread[x[1]]
                            /\ thread[x[1]][x[2]].by = "user" /\ thread[x[1]][x[2]].of = m
    BY <1>2, SpokenTurns DEF Turn
  <2> QED BY <1>5, <1>8, <1>9, <1>10, <2>1, <2>2
<1>11. Spoken(n) = {} => \A x \in Spoken(n)' : x[1] = t /\ x[2] = len + 1 /\ x = <<t, len + 1>>
  <2> SUFFICES ASSUME Spoken(n) = {}, NEW CONSTANT x \in Spoken(n)'
               PROVE  x[1] = t /\ x[2] = len + 1 /\ x = <<t, len + 1>>
    OBVIOUS
  <2>1. /\ x \in Threads \X Nat /\ x[2] \in DOMAIN thread'[x[1]]
        /\ thread'[x[1]][x[2]].by = "user" /\ thread'[x[1]][x[2]].of = n
    BY <1>7, SpokenNext
  <2>2. x[2] \notin DOMAIN thread[x[1]]
    <3> SUFFICES ASSUME x[2] \in DOMAIN thread[x[1]] PROVE FALSE
      OBVIOUS
    <3>1. x[1] \in Threads
      BY <2>1
    <3>2. Turn(x).by = "user" /\ Turn(x).of = n
      BY <1>8, <2>1, <3>1 DEF Turn
    <3>3. x \in Spoken(n)
      BY <1>2, <2>1, <3>2, SpokenTurns
    <3> QED BY <3>3
  <2> QED BY <1>9, <2>1, <2>2
<1>12. Marks'
  <2> SUFFICES ASSUME NEW u \in Threads, NEW i \in DOMAIN thread'[u]
               PROVE  /\ thread'[u][i].is = "sent" =>
                            thread'[u][i].by = "user" /\ thread'[u][i].of \in Sent
                      /\ thread'[u][i].by = "assistant" => thread'[u][i].is \notin {"sent", "shown"}
                      /\ thread'[u][i].by = "user" => thread'[u][i].is \in {"sent", "shown"}
    BY DEF Marks
  <2> QED BY <1>2, <1>5, <1>8, <1>9 DEF Marks
<1>13. Closed' /\ IdsAreOnThePage' /\ HoldsLittle'
  BY <1>1, <1>2 DEF Closed, IdsAreOnThePage, HoldsLittle, OnceInv, Entry
<1>14. OneInFlight'
  BY <1>1, <1>2, <1>10 DEF OneInFlight
<1>15. ASSUME NEW CONSTANT m \in Sent, m # n, m \in alone, ids \/ echoes, Recorded(m)
       PROVE  Recorded(m)' /\ Placed(m)'
  <2>1. Spoken(m)' = Spoken(m)
    BY <1>10, <1>15
  <2>2. AllShown(m) => AllShown(m)'
    <3> SUFFICES ASSUME AllShown(m), NEW CONSTANT x \in Spoken(m)
                 PROVE  thread'[x[1]][x[2]].is = "shown"
      BY <2>1 DEF AllShown, Turn
    <3>1. x[1] \in Threads /\ x[2] \in DOMAIN thread[x[1]] /\ thread[x[1]][x[2]].is = "shown"
      BY <1>2, SpokenTurns DEF AllShown, Turn
    <3> QED BY <1>8, <3>1
  <2>3. Recorded(m)'
    BY <1>1, <1>15, <2>1, <2>2 DEF Recorded, Entry
  <2>4. ledger[m] # "delivering"
    BY <1>2, <1>15, OneAtATime
  <2> QED BY <1>1, <2>3, <2>4 DEF Placed
<1>16. ASSUME n \in alone, ids \/ echoes, Recorded(n), Working(n)
       PROVE  Recorded(n)' /\ Placed(n)' /\ Working(n)'
  <2>1. /\ Spoken(n) = {} /\ Entry(n).conv = end.bound /\ Entry(n).made
        /\ end.bound \in {tab, Nowhere} /\ PriorIsNewest(n)
    BY <1>1, <1>16 DEF Working
  <2>2. \A x \in Spoken(n)' : x[1] = t /\ x[2] = len + 1 /\ x = <<t, len + 1>>
    BY <1>11, <2>1
  <2>3. Entry(n).id = NoTurn /\ anchor[n].id = NoTurn /\ answer[n] = NoReply
    BY <1>2, <1>16, <2>1 DEF Recorded, OneInFlight
  <2>4. Recorded(n)'
    BY <1>1, <1>2, <2>1, <2>2, <2>3 DEF Recorded, Entry
  <2>5. Found(n, t)'
    BY <1>1, <1>2, <1>3, <2>1 DEF Found, Near, Entry, HoldsLittle
  <2>6. Placed(n)'
    <3> SUFFICES ASSUME NEW CONSTANT x \in Spoken(n)'
                 PROVE  /\ Len(thread'[x[1]]) <= x[2] + 1
                        /\ Len(thread'[x[1]]) # x[2] + 1
                        /\ Found(n, x[1])'
      BY DEF Placed
    <3>1. x[1] = t /\ x[2] = len + 1
      BY <2>2
    <3>2. Len(thread'[x[1]]) = len + 1
      BY <1>6, <1>7, <3>1
    <3>3. Found(n, x[1])'
      BY <2>5, <3>1 DEF Found, Near, Entry
    <3> QED BY <1>6, <3>1, <3>2, <3>3
  <2>7. PriorIsNewest(n)'
    <3> SUFFICES ASSUME ids, NEW j \in DOMAIN q, q[j].by = "user", q[j].of # n,
                        j > Len(q) - Window
                 PROVE  /\ end.prior # NoTurn /\ end.prior[1] = t /\ end.prior[2] >= j
                        /\ end.prior[2] \in DOMAIN q /\ thread'[end.prior[1]][end.prior[2]].by = "user"
                        /\ thread'[end.prior[1]][end.prior[2]].of # n
                        /\ thread'[end.prior[1]][end.prior[2]].is = "shown"
      BY <1>1, <1>3, <1>7 DEF PriorIsNewest, Turn
    <3>1. j \in DOMAIN thread[t] /\ q[j] = thread[t][j]
      BY <1>5, <1>6
    <3>2. tab = t
      BY <1>3, <3>1
    <3>3. j > len - Window
      BY <1>6, ChatGptWebAssumption DEF ChatGptWebAssumption
    <3>4. /\ end.prior # NoTurn /\ end.prior[1] = t /\ end.prior[2] >= j
          /\ end.prior[2] \in DOMAIN thread[t] /\ thread[t][end.prior[2]].by = "user"
          /\ thread[t][end.prior[2]].of # n /\ thread[t][end.prior[2]].is = "shown"
      BY <1>4, <2>1, <3>1, <3>2, <3>3 DEF PriorIsNewest, Turn
    <3> QED BY <1>6, <1>7, <3>4
  <2>8. Working(n)'
    BY <1>1, <1>3, <1>4, <2>1, <2>2, <2>7 DEF Working
  <2> QED BY <2>4, <2>6, <2>8
<1>17. ASSUME NEW CONSTANT m \in Sent, m \in alone, ids \/ echoes
       PROVE  Recorded(m)' /\ Placed(m)' /\ (end'.m = m => Working(m)')
  <2>1. Recorded(m) /\ Placed(m) /\ (end.m = m => Working(m))
    BY <1>17 DEF OnceInv
  <2>2. CASE m = n
    BY <1>16, <1>17, <2>1, <2>2
  <2>3. CASE m # n
    BY <1>1, <1>15, <1>17, <2>1, <2>3
  <2> QED BY <2>2, <2>3
<1>18. alone' \subseteq Sent /\ ids' = ids /\ echoes' = echoes /\ alone' = alone
  BY <1>1, <1>2 DEF Closed
<1> QED BY <1>12, <1>13, <1>14, <1>17, <1>18 DEF OnceInv

-----------------------------------------------------------------------------
LEMMA OnceInit == Init => OnceInv
<1> SUFFICES ASSUME Init PROVE OnceInv
  OBVIOUS
<1>1. IInv
  BY InitHolds
<1>2. /\ \A t \in Threads : thread[t] = <<>> /\ DOMAIN thread[t] = {}
      /\ \A m \in Sent : /\ ledger[m] = "waiting" /\ answer[m] = NoReply
                         /\ anchor[m].id = NoTurn /\ Entry(m).id = NoTurn
      /\ end = Down /\ alone = Sent
  BY DEF Init, NoAnchor, Entry, NoEntry
<1>3. Marks /\ NoneSent
  BY <1>2 DEF Marks, NoneSent
<1>4. \A m : Spoken(m) = {}
  <2> SUFFICES ASSUME NEW m, NEW x \in Spoken(m) PROVE FALSE
    OBVIOUS
  <2>1. x[1] \in Threads /\ x[2] \in DOMAIN thread[x[1]]
    BY <1>1, SpokenTurns DEF IInv
  <2> QED BY <1>2, <2>1
<1>5. end.at = "down" /\ end.m = 0 /\ end.last = NoReply /\ end.stable = 0
  BY <1>2 DEF Down
<1>6. IdsAreOnThePage /\ OneInFlight /\ Closed /\ HoldsLittle
  BY <1>2, <1>4, <1>5 DEF IdsAreOnThePage, OneInFlight, Closed, HoldsLittle, InFlight
<1>7. \A m \in Sent : Recorded(m) /\ Placed(m) /\ Working(m)
  BY <1>2, <1>4, <1>5 DEF Recorded, Placed, Working
<1> QED BY <1>2, <1>3, <1>6, <1>7 DEF OnceInv

LEMMA OnceSteps ==
  ASSUME Window > 1
  PROVE  IInv /\ OnceInv /\ [Next]_vars => OnceInv'
<1> SUFFICES ASSUME IInv, OnceInv, [Next]_vars PROVE OnceInv'
  OBVIOUS
<1>1. CASE SiteStep
  BY <1>1, SiteOnce
<1>2. CASE Crash \/ SendRefused
  BY <1>2, FailsOnce DEF Crash, SendRefused, site, kernel
<1>3. CASE EndStep /\ ~(Crash \/ SendRefused)
  BY <1>3, AttachOnce, OpenedOnce, AskOnce, AnswerOnce, IncompleteOnce, PollOnce,
     ReceiveOnce, HoldsOnce, BeginOnce, AdoptOnce, SettledOnce, RecordOnce, LearnsOnce,
     BindOnce, CompleteOnce, SubmitOnce DEF EndStep
<1>4. CASE UNCHANGED vars
  <2>1. UNCHANGED <<ids, echoes, thread, tab, record, named, ledger, anchor, answer, end, alone>>
    BY <1>4 DEF vars, site, kernel
  <2>2. \A m : Spoken(m)' = Spoken(m) /\ AllShown(m)' = AllShown(m) /\ NoneSent' = NoneSent
    BY <2>1, SpokenSame
  <2>3. OneInFlight' /\ HoldsLittle'
    BY <2>1, <2>2 DEF OnceInv, OneInFlight, HoldsLittle, InFlight
  <2>4. \A m : /\ Recorded(m) => Recorded(m)'
               /\ Placed(m) => Placed(m)'
               /\ Working(m) => Working(m)'
    BY <2>1, <2>2 DEF Recorded, Placed, Working, Found, Entry, PriorIsNewest, Near, Turn
  <2>5. \A m \in Sent : Entry(m)'.id = Entry(m).id
    BY <2>1 DEF Entry
  <2> QED BY <2>1, <2>3, <2>4, <2>5, CalmOnce
<1> QED BY <1>1, <1>2, <1>3, <1>4 DEF Next

(* However often the relay is restarted, the end types no message twice,   *)
(* unless the operator got in its way or in that of an earlier one.  The   *)
(* page has to show more than the last turn, so that a message is shown    *)
(* beside its answer: it was measured to show the last three of a user.    *)
THEOREM TypedAtMostOnce == ASSUME Window > 1 PROVE Spec => []TypedOnce
<1>1. OnceInv => TypedOnce
  <2> SUFFICES ASSUME OnceInv, ids \/ echoes, NEW m \in alone
               PROVE  Cardinality(Spoken(m)) <= 1
    BY DEF TypedOnce
  <2>1. \A x, y \in Spoken(m) : x = y
    BY DEF OnceInv, Recorded
  <2>2. CASE Spoken(m) = {}
    BY <2>2, FS_EmptySet
  <2>3. CASE Spoken(m) # {}
    <3>1. PICK x : Spoken(m) = {x}
      BY <2>1, <2>3
    <3>2. Cardinality({x}) = 1
      BY FS_Singleton
    <3> QED BY <3>1, <3>2
  <2> QED BY <2>2, <2>3
<1>2. Init => IInv /\ OnceInv
  BY InitHolds, OnceInit
<1>3. IInv /\ OnceInv /\ [Next]_vars => IInv' /\ OnceInv'
  BY OnceSteps, StepKeeps
<1> QED BY <1>1, <1>2, <1>3, PTL DEF Spec

=============================================================================
