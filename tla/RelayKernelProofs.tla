--------------------------- MODULE RelayKernelProofs ---------------------------
(***************************************************************************)
(* Theorems about RelayKernel, for every value of its constants.           *)
(***************************************************************************)
EXTENDS RelayKernel, WellFoundedInduction, SequenceTheorems, TLAPS

USE LimitsAssumption, ChoicesAssumption, BoundsAssumption
    DEF LimitsAssumption, ChoicesAssumption, BoundsAssumption

\* Helpers --------------------------------------------------------------------

\* The earliest of a nonempty set of turns is one of them.
LEMMA EarliestIsMember ==
    ASSUME NEW S \in SUBSET Nat, S # {}
    PROVE  Earliest(S) \in S /\ \A n \in S : Earliest(S) <= n
<1>1. PICK m \in S : \A n \in S : ~(<<n, m>> \in OpToRel(<, Nat))
  BY NatLessThanWellFounded, WFMin
<1>2. \A n \in S : ~(n < m)
  BY <1>1 DEF OpToRel
<1>3. \A n \in S : m <= n
  BY <1>2
<1>4. QED
  BY <1>3 DEF Earliest

\* Marking a turn changes its delivery state and nothing else.
LEMMA MarkKeepsTurns ==
    ASSUME ledger \in Seq(Turns), NEW m \in Nat, NEW s \in DeliveryStates, Mark(m, s)
    PROVE  /\ ledger' \in Seq(Turns)
           /\ Len(ledger') = Len(ledger)
           /\ \A k \in 1..Len(ledger) :
                 ledger'[k] = IF k = m THEN [ledger[k] EXCEPT !.state = s] ELSE ledger[k]
           /\ \A k \in 1..Len(ledger) :
                 ledger'[k].state = IF k = m THEN s ELSE ledger[k].state
<1>1. \A k \in 1..Len(ledger) : ledger[k] \in Turns
  BY ElementOfSeq
<1>2. ledger' = [ledger EXCEPT ![m] = [ledger[m] EXCEPT !.state = s]]
  BY DEF Mark
<1>3. Len(ledger') = Len(ledger) /\ DOMAIN ledger' = 1..Len(ledger)
  BY <1>2
<1>4. \A k \in 1..Len(ledger) :
        ledger'[k] = IF k = m THEN [ledger[k] EXCEPT !.state = s] ELSE ledger[k]
  BY <1>2
<1>6. ledger' \in Seq(Turns)
  <2>1. CASE m \in 1..Len(ledger)
    BY <2>1, <1>2, <1>1, ExceptSeq DEF Turns
  <2>2. CASE m \notin 1..Len(ledger)
    <3>1. ledger = [k \in 1..Len(ledger) |-> ledger[k]]
      OBVIOUS
    <3>2. ledger' = ledger
      BY <2>2, <3>1, <1>2
    <3>3. QED
      BY <3>2
  <2>3. QED
    BY <2>1, <2>2
<1>7. \A k \in 1..Len(ledger) :
        ledger'[k].state = IF k = m THEN s ELSE ledger[k].state
  BY <1>1, <1>4 DEF Turns
<1>8. QED
  BY <1>3, <1>4, <1>6, <1>7

\* Recording a turn appends it, OBSERVED.
LEMMA RecordAppends ==
    ASSUME ledger \in Seq(Turns), NEW reply \in Replies \cup {Nothing}, Record(reply)
    PROVE  /\ ledger' \in Seq(Turns)
           /\ Len(ledger') = Len(ledger) + 1
           /\ \A k \in 1..Len(ledger) : ledger'[k] = ledger[k]
           /\ ledger'[Len(ledger) + 1].state = "OBSERVED"
<1> DEFINE e == [state |-> "OBSERVED", effect |-> reply.effect,
                 claim |-> reply.claim, text |-> reply.text]
<1>1. e \in Turns
  <2>1. CASE reply \in Replies
    BY <2>1 DEF Turns, Replies, DeliveryStates
  <2>2. CASE reply = Nothing
    BY <2>2 DEF Turns, Nothing, DeliveryStates
  <2>3. QED
    BY <2>1, <2>2
<1>2. ledger' = Append(ledger, e)
  BY DEF Record
<1>3. QED
  BY <1>1, <1>2, AppendProperties

\* A driver that has just begun, or is gone, holds what a driver can hold.
LEMMA NoMemIsMemory == NoMem \in Memories /\ NoDue \in Requirements
<1>1. NoDue \in Requirements
  BY DEF NoDue, Requirements, Gates, EffectClasses
<1>2. QED
  BY <1>1 DEF NoMem, Memories, StopReasons

\* The types of the parts the steps count with or write into.
LEMMA PartTypes ==
    ASSUME TypeOK
    PROVE  /\ row \in Rows /\ row.xno \in Nat /\ row.awaiting \in Nat
           /\ mem \in Memories /\ mem.cur \in Nat /\ mem.tries \in Nat
           /\ mem.reply \in Replies \cup {Nothing} /\ mem.due \in Requirements
           /\ ledger \in Seq(Turns) /\ Len(ledger) \in Nat
           /\ used \in Counters /\ ops \in Operator /\ ops.after \in Nat
<1>1. row \in Rows /\ mem \in Memories /\ used \in Counters /\ ops \in Operator
  BY DEF TypeOK
<1>2. row.xno \in Nat /\ row.awaiting \in Nat
  BY <1>1 DEF Rows
<1>3. /\ mem.cur \in Nat /\ mem.tries \in Nat
      /\ mem.reply \in Replies \cup {Nothing} /\ mem.due \in Requirements
  BY <1>1 DEF Memories
<1>4. ops.after \in Nat
  BY <1>1 DEF Operator
<1>5. ledger \in Seq(Turns) /\ Len(ledger) \in Nat
  BY DEF TypeOK
<1>6. QED
  BY <1>1, <1>2, <1>3, <1>4, <1>5

\* Counting one more event keeps the counters' type.
LEMMA CountersCount ==
    ASSUME used \in Counters
    PROVE  /\ [used EXCEPT !.crashes = @ + 1] \in Counters
           /\ [used EXCEPT !.resumes = @ + 1] \in Counters
           /\ [used EXCEPT !.stops = @ + 1] \in Counters
           /\ [used EXCEPT !.flips = @ + 1] \in Counters
  BY DEF Counters

\* Type correctness -----------------------------------------------------------

\* A stop with a known state and reason keeps every type.
LEMMA FinishKeepsTypes ==
    ASSUME TypeOK, NEW s \in RowStates, NEW r \in StopReasons, Finish(s, r)
    PROVE  TypeOK'
<1>1. row' \in Rows
  BY DEF TypeOK, Finish, Rows
<1>2. mem' \in Memories /\ pc' \in Places
  BY NoMemIsMemory DEF Finish, Places
<1>3. QED
  BY <1>1, <1>2 DEF TypeOK, Finish

\* Starting a relay keeps every type.
LEMMA StartingKeepsTypes == TypeOK /\ Starting => TypeOK'
<1> SUFFICES ASSUME TypeOK, Starting PROVE TypeOK'
  OBVIOUS
<1>1. CASE Create
  <2>1. row' \in Rows /\ pc' \in Places
    BY <1>1 DEF TypeOK, Create, At, Rows, RowStates, Places
  <2>2. QED
    BY <1>1, <2>1 DEF TypeOK, Create, history, Outside
<1>2. CASE StartUnreadable
  BY <1>2, FinishKeepsTypes DEF StartUnreadable, RowStates, StopReasons
<1>3. ASSUME NEW e \in Effects, GateStart(e) PROVE TypeOK'
  <2> DEFINE due == [gate |-> "start", effect |-> e, msg |-> 0]
  <2>1. due \in Requirements
    BY DEF Requirements, Gates
  <2>2. mem' \in Memories /\ owed' \subseteq Requirements /\ pc' \in Places
    <3>1. CASE Allowed(e)
      BY <1>3, <3>1 DEF TypeOK, GateStart, Places
    <3>2. CASE ~Allowed(e)
      <4>1. mem' = [mem EXCEPT !.due = due] /\ owed' = owed \cup {due} /\ pc' = "raise"
        BY <1>3, <3>2 DEF GateStart
      <4>2. QED
        BY <2>1, <4>1 DEF TypeOK, Memories, Places
    <3>3. QED
      BY <3>1, <3>2
  <2>3. QED
    BY <1>3, <2>2 DEF TypeOK, GateStart, Outside
<1>4. CASE OpenEnds
  BY <1>4 DEF TypeOK, OpenEnds, At, history, Outside, Places
<1>5. CASE OpenFails
  BY <1>5, FinishKeepsTypes DEF OpenFails, RowStates, StopReasons
<1>6. CASE Seed
  <2>1. ledger' \in Seq(Turns)
    BY <1>6, RecordAppends DEF Seed, TypeOK
  <2>2. QED
    BY <1>6, <2>1 DEF TypeOK, Seed, At, history, Outside, Places
<1>7. QED
  BY <1>1, <1>2, <1>3, <1>4, <1>5, <1>6 DEF Starting

\* Recording a hold keeps every type.
LEMMA HoldingKeepsTypes == TypeOK /\ Holding => TypeOK'
<1> SUFFICES ASSUME TypeOK, Holding PROVE TypeOK'
  OBVIOUS
<1>1. CASE RaiseNothing
  BY <1>1 DEF TypeOK, RaiseNothing, At, durable, history, Outside, Places
<1>2. CASE RaiseHold
  <2>1. mem.due \in Requirements
    BY DEF TypeOK, Memories
  <2>2. QED
    BY <1>2, <2>1 DEF TypeOK, RaiseHold, At, history, Outside, Places
<1>3. CASE HoldColumn
  <2>1. row' \in Rows /\ pc' \in Places
    BY <1>3 DEF TypeOK, HoldColumn, At, Rows, Places
  <2>2. QED
    BY <1>3, <2>1 DEF TypeOK, HoldColumn, history, Outside
<1>4. CASE HeldStop
  BY <1>4, FinishKeepsTypes DEF HeldStop, RowStates, StopReasons
<1>5. QED
  BY <1>1, <1>2, <1>3, <1>4 DEF Holding

\* Resuming keeps every type.
LEMMA ResumingKeepsTypes == TypeOK /\ Resuming => TypeOK'
<1> SUFFICES ASSUME TypeOK, Resuming PROVE TypeOK'
  OBVIOUS
<1>1. ASSUME NEW h \in mem.todo, StillRefused(h) PROVE TypeOK'
  <2>1. mem' \in Memories /\ pc' \in Places
    BY <1>1 DEF TypeOK, StillRefused, At, Memories, Places
  <2>2. QED
    BY <1>1, <2>1 DEF TypeOK, StillRefused, durable, history, Outside
<1>2. ASSUME NEW h \in mem.todo, DischargeHold(h) PROVE TypeOK'
  <2>1. h \in Requirements /\ h.msg \in Nat
    BY DEF TypeOK, Memories, Requirements
  <2>2. mem' \in Memories /\ pc' \in Places
    BY <1>2, <2>1 DEF TypeOK, DischargeHold, Memories, Places
  <2>3. QED
    BY <1>2, <2>2 DEF TypeOK, DischargeHold, Outside
<1>3. CASE Release
  <2>1. ledger' \in Seq(Turns)
    BY <1>3, MarkKeepsTurns DEF Release, TypeOK, Memories, DeliveryStates
  <2>2. mem' \in Memories /\ pc' \in Places
    BY <1>3 DEF TypeOK, Release, At, Memories, Places
  <2>3. QED
    BY <1>3, <2>1, <2>2 DEF TypeOK, Release, history, Outside
<1>4. CASE ResumeHeld
  <2>1. row' \in Rows
    BY <1>4 DEF TypeOK, ResumeHeld, Rows, RowStates, StopReasons
  <2>2. QED
    BY <1>4, <2>1, NoMemIsMemory DEF TypeOK, ResumeHeld, history, Outside, Places
<1>5. CASE HoldsCleared
  <2>1. row' \in Rows /\ pc' \in Places
    BY <1>5 DEF TypeOK, HoldsCleared, At, Rows, Places
  <2>2. QED
    BY <1>5, <2>1 DEF TypeOK, HoldsCleared, history, Outside
<1>6. CASE Attach
  BY <1>6 DEF TypeOK, Attach, At, durable, history, Outside, Places
<1>7. CASE AttachFails
  BY <1>7, FinishKeepsTypes DEF AttachFails, RowStates, StopReasons
<1>8. ASSUME NEW m \in 1..Len(ledger), Confirm(m) \/ NotHeld(m) \/ CannotSay(m)
      PROVE  TypeOK'
  <2>1. PICK s \in DeliveryStates : Mark(m, s)
    BY <1>8 DEF Confirm, NotHeld, CannotSay, DeliveryStates
  <2>2. m \in Nat /\ ledger \in Seq(Turns)
    BY DEF TypeOK
  <2>3. ledger' \in Seq(Turns)
    BY <2>1, <2>2, MarkKeepsTurns
  <2>4. QED
    BY <1>8, <2>3 DEF TypeOK, Confirm, NotHeld, CannotSay, At, history, Outside, Places
<1>9. CASE UnreconcilableStop
  BY <1>9, FinishKeepsTypes DEF UnreconcilableStop, RowStates, StopReasons
<1>10. CASE Reconciled
  BY <1>10 DEF TypeOK, Reconciled, At, durable, history, Outside, Places
<1>11. CASE ResumeAtCeiling
  BY <1>11, FinishKeepsTypes DEF ResumeAtCeiling, RowStates, StopReasons
<1>12. CASE Lift
  <2>1. row' \in Rows /\ pc' \in Places
    <3>1. PICK r \in Rows : r = row
      BY PartTypes
    <3>2. [r EXCEPT !.state = "RUNNING", !.stop = ""] \in Rows
      BY DEF Rows, RowStates, StopReasons
    <3>3. row' = r \/ row' = [r EXCEPT !.state = "RUNNING", !.stop = ""]
      BY <1>12, <3>1 DEF Lift
    <3>4. pc' \in Places
      BY <1>12 DEF Lift, Places
    <3> QED BY <3>2, <3>3, <3>4
  <2>2. QED
    BY <1>12, <2>1, NoMemIsMemory DEF TypeOK, Lift, history, Outside
<1>13. QED
  BY <1>1, <1>2, <1>3, <1>4, <1>5, <1>6, <1>7, <1>8, <1>9, <1>10, <1>11, <1>12
     DEF Resuming

\* Delivering a turn keeps every type.
LEMMA SendingKeepsTypes == TypeOK /\ Sending => TypeOK'
<1> SUFFICES ASSUME TypeOK, Sending PROVE TypeOK'
  OBVIOUS
<1>1. CASE Leave
  BY <1>1, NoMemIsMemory DEF TypeOK, Leave, At, durable, history, Outside, Places
<1>2. CASE StopAtCeiling
  BY <1>2, FinishKeepsTypes DEF StopAtCeiling, RowStates, StopReasons
<1>3. CASE Await
  <2>1. mem' \in Memories
    BY <1>3, NoMemIsMemory DEF TypeOK, Await, Rows, Memories
  <2>2. QED
    BY <1>3, <2>1 DEF TypeOK, Await, durable, history, Outside, Places
<1>4. CASE NothingToDo
  BY <1>4, FinishKeepsTypes DEF NothingToDo, RowStates, StopReasons
<1>5. CASE Pick
  <2>1. Undelivered \in SUBSET Nat /\ Undelivered # {}
    BY <1>5 DEF Pick, Undelivered, InState
  <2>2. Earliest(Undelivered) \in Nat
    BY <2>1, EarliestIsMember
  <2>3. mem' \in Memories
    BY <1>5, <2>2, NoMemIsMemory DEF Pick, Memories
  <2>4. QED
    BY <1>5, <2>3 DEF TypeOK, Pick, durable, history, Outside, Places
<1>6. CASE BeginDelivery
  <2>1. ledger' \in Seq(Turns)
    BY <1>6, MarkKeepsTurns DEF BeginDelivery, TypeOK, Memories, DeliveryStates
  <2>2. QED
    BY <1>6, <2>1 DEF TypeOK, BeginDelivery, At, history, Outside, Places
<1>7. CASE Send \/ SendUnacknowledged
  <2>1. Land
    BY <1>7 DEF Send, SendUnacknowledged
  <2>2. transcript' \in Seq(Nat) /\ ops' \in Operator
    <3>1. mem.cur \in Nat /\ ops.after + 1 \in Nat
      BY PartTypes
    <3>2. ops' \in Operator
      BY <2>1, <3>1, PartTypes DEF Land, Operator
    <3>3. QED
      BY <2>1, <3>1, <3>2, AppendProperties DEF Land, TypeOK
  <2>3. row' \in Rows /\ mem' \in Memories /\ pc' \in Places
    <3>1. CASE Send
      BY <3>1 DEF TypeOK, Send, At, durable, Places
    <3>2. CASE SendUnacknowledged
      BY <3>2, NoMemIsMemory DEF TypeOK, SendUnacknowledged, Rows, RowStates, StopReasons,
                                 Places
    <3>3. QED
      BY <1>7, <3>1, <3>2
  <2>4. QED
    BY <1>7, <2>2, <2>3 DEF TypeOK, Send, SendUnacknowledged, durable
<1>8. CASE SendFails
  BY <1>8, FinishKeepsTypes DEF SendFails, RowStates, StopReasons
<1>9. CASE CompleteDelivery
  <2>1. ledger' \in Seq(Turns)
    BY <1>9, MarkKeepsTurns DEF CompleteDelivery, TypeOK, Memories, DeliveryStates
  <2>2. QED
    BY <1>9, <2>1 DEF TypeOK, CompleteDelivery, At, history, Outside, Places
<1>10. CASE MarkAwaiting
  <2>1. row' \in Rows /\ pc' \in Places
    <3>1. row.xno + 1 \in Nat /\ mem.cur \in Nat
      BY PartTypes
    <3>2. QED
      BY <1>10, <3>1, PartTypes DEF MarkAwaiting, At, Rows, Places
  <2>2. QED
    BY <1>10, <2>1 DEF TypeOK, MarkAwaiting, history, Outside
<1>11. QED
  BY <1>1, <1>2, <1>3, <1>4, <1>5, <1>6, <1>7, <1>8, <1>9, <1>10 DEF Sending

\* Taking a reply keeps every type.
LEMMA HearingKeepsTypes == TypeOK /\ Hearing => TypeOK'
<1> SUFFICES ASSUME TypeOK, Hearing PROVE TypeOK'
  OBVIOUS
<1>1. CASE ReceiveFails \/ NoTurnArrived \/ ProviderRefuses \/ StaysIncomplete \/ StaleReplay
  BY <1>1, FinishKeepsTypes DEF ReceiveFails, NoTurnArrived, ProviderRefuses,
                                StaysIncomplete, StaleReplay, RowStates, StopReasons
<1>2. CASE Incomplete
  <2>1. mem' \in Memories /\ pc' \in Places
    <3>1. mem.tries + 1 \in Nat
      BY PartTypes
    <3>2. QED
      BY <1>2, <3>1, PartTypes DEF Incomplete, At, Memories, Places
  <2>2. QED
    BY <1>2, <2>1 DEF TypeOK, Incomplete, durable, history, Outside
<1>3. ASSUME NEW reply \in Replies, Receive(reply) PROVE TypeOK'
  <2>1. mem' \in Memories /\ pc' \in Places
    BY <1>3 DEF TypeOK, Receive, At, Memories, Places
  <2>2. QED
    BY <1>3, <2>1 DEF TypeOK, Receive, durable, history, Outside
<1>4. CASE CloseTurn
  <2>1. row' \in Rows /\ pc' \in Places
    BY <1>4 DEF TypeOK, CloseTurn, At, Rows, Places
  <2>2. QED
    BY <1>4, <2>1 DEF TypeOK, CloseTurn, history, Outside
<1>5. CASE RecordReply
  <2> DEFINE id  == Len(ledger) + 1
             due == [gate |-> IF FromOrchestrator(id) THEN "directive" ELSE "observation",
                     effect |-> mem.reply.effect, msg |-> IF FromOrchestrator(id) THEN id ELSE 0]
  <2>1. mem.reply \in Replies \cup {Nothing} /\ id \in Nat
    BY PartTypes
  <2>2. mem.reply.effect \in EffectClasses
    <3>1. CASE mem.reply \in Replies
      BY <3>1 DEF Replies
    <3>2. CASE mem.reply = Nothing
      BY <3>2 DEF Nothing, EffectClasses
    <3>3. QED
      BY <2>1, <3>1, <3>2
  <2>3. ledger' \in Seq(Turns)
    BY <1>5, <2>1, RecordAppends DEF RecordReply, TypeOK
  <2>4. due \in Requirements
    BY <2>1, <2>2 DEF Requirements, Gates
  <2>5. mem' \in Memories /\ owed' \subseteq Requirements /\ pc' \in Places
    <3>1. CASE Allowed(mem.reply.effect)
      <4>1. mem' = [mem EXCEPT !.cur = id, !.reply = Nothing, !.due = @] /\ owed' = owed
        BY <1>5, <3>1 DEF RecordReply
      <4>2. pc' = IF mem.reply.claim THEN "claim" ELSE "repeat"
        BY <1>5, <3>1 DEF RecordReply
      <4>3. QED
        BY <2>1, <4>1, <4>2 DEF TypeOK, Memories, Places
    <3>2. CASE ~Allowed(mem.reply.effect)
      <4>1. /\ mem' = [mem EXCEPT !.cur = id, !.reply = Nothing, !.due = due]
            /\ owed' = owed \/ owed' = owed \cup {due}
            /\ pc' = IF FromOrchestrator(id) THEN "park" ELSE "raise"
        BY <1>5, <3>2 DEF RecordReply
      <4>2. QED
        BY <2>1, <2>4, <4>1 DEF TypeOK, Memories, Places
    <3>3. QED
      BY <3>1, <3>2
  <2>6. QED
    BY <1>5, <2>3, <2>5 DEF TypeOK, RecordReply, Outside
<1>6. CASE ParkDirective
  <2>1. ledger' \in Seq(Turns)
    BY <1>6, MarkKeepsTurns DEF ParkDirective, TypeOK, Memories, DeliveryStates
  <2>2. QED
    BY <1>6, <2>1 DEF TypeOK, ParkDirective, At, history, Outside, Places
<1>7. CASE ClaimHolds \/ HandBack
  BY <1>7 DEF TypeOK, ClaimHolds, HandBack, At, durable, history, Outside, Places
<1>8. CASE Complete \/ StopUncorroborated \/ StopLoop
  BY <1>8, FinishKeepsTypes DEF Complete, StopUncorroborated, StopLoop, RowStates, StopReasons
<1>9. CASE ClaimRefuted
  <2>1. refusals' \in Nat
    BY <1>9 DEF TypeOK, ClaimRefuted
  <2>2. QED
    BY <1>9, <2>1 DEF TypeOK, ClaimRefuted, At, history, Outside, Places
<1>10. CASE NextStep
  BY <1>10, NoMemIsMemory DEF TypeOK, NextStep, At, durable, history, Outside, Places
<1>11. QED
  BY <1>1, <1>2, <1>3, <1>4, <1>5, <1>6, <1>7, <1>8, <1>9, <1>10 DEF Hearing

\* What happens around the driver keeps every type.
LEMMA EnvironmentKeepsTypes == TypeOK /\ Environment => TypeOK'
<1> SUFFICES ASSUME TypeOK, Environment PROVE TypeOK'
  OBVIOUS
<1>1. CASE Resume
  <2>1. mem' \in Memories
    BY <1>1, NoMemIsMemory DEF TypeOK, Resume, OutstandingOwnerHolds, Rows, Memories
  <2>2. ops' \in Operator
    BY <1>1 DEF Resume, Operator
  <2>3. used' \in Counters
    BY <1>1, PartTypes, CountersCount DEF Resume
  <2>4. QED
    BY <1>1, <2>1, <2>2, <2>3 DEF TypeOK, Resume, At, durable, Places
<1>2. CASE Crash
  <2>1. used' \in Counters
    BY <1>2, PartTypes, CountersCount DEF Crash
  <2>2. QED
    BY <1>2, <2>1, NoMemIsMemory DEF TypeOK, Crash, durable, history, Places
<1>3. ASSUME NEW from, RequestStop(from) PROVE TypeOK'
  <2>1. used' \in Counters
    BY <1>3, PartTypes, CountersCount DEF RequestStop
  <2>2. row' \in Rows /\ ops' \in Operator
    <3>1. CASE row.state \in from
      <4>1. /\ row' = [row EXCEPT !.state = "STOPPED", !.stop = "STOPPED_BY_OPERATOR"]
            /\ ops' = [stopped |-> TRUE, after |-> 0]
        BY <1>3, <3>1 DEF RequestStop
      <4>2. QED
        BY <4>1, PartTypes DEF Rows, Operator, RowStates, StopReasons
    <3>2. CASE row.state \notin from
      BY <1>3, <3>2, PartTypes DEF RequestStop
    <3>3. QED
      BY <3>1, <3>2
  <2>3. QED
    BY <1>3, <2>1, <2>2 DEF TypeOK, RequestStop
<1>4. CASE FlipGrant
  <2>1. used' \in Counters
    BY <1>4, PartTypes, CountersCount DEF FlipGrant
  <2>2. QED
    BY <1>4, <2>1 DEF TypeOK, FlipGrant, durable, history
<1>5. CASE Expire
  BY <1>5 DEF TypeOK, Expire, durable, history
<1>6. CASE Rest
  BY <1>6 DEF TypeOK, Rest, vars
<1>7. QED
  BY <1>1, <1>2, <1>3, <1>4, <1>5, <1>6 DEF Environment, CliStop, CoreStop

\* Every variable of the relay keeps its type, whatever the limits are, whatever
\* turns say and however often it crashes, resumes, is stopped or is granted.
THEOREM TypeCorrect == Spec => []TypeOK
<1>1. Init => TypeOK
  <2> SUFFICES ASSUME Init PROVE TypeOK
    OBVIOUS
  <2>1. row \in Rows /\ pc \in Places /\ mem \in Memories
    BY NoMemIsMemory DEF Init, Rows, RowStates, StopReasons, Places
  <2>2. ops \in Operator /\ used \in Counters
    BY DEF Init, Operator, Counters
  <2>3. ledger \in Seq(Turns) /\ transcript \in Seq(Nat)
    <3>1. ledger = <<>> /\ transcript = <<>>
      BY DEF Init
    <3>2. QED
      BY <3>1, EmptySeq
  <2>4. holds \subseteq Requirements /\ owed \subseteq Requirements /\ refusals \in Nat
    BY DEF Init
  <2>5. granted \in BOOLEAN /\ expired \in BOOLEAN
    BY DEF Init
  <2>6. QED
    BY <2>1, <2>2, <2>3, <2>4, <2>5 DEF TypeOK
<1>2. TypeOK /\ [Next]_vars => TypeOK'
  <2>1. ASSUME TypeOK, UNCHANGED vars PROVE TypeOK'
    BY <2>1 DEF TypeOK, vars
  <2>2. QED
    BY <2>1, StartingKeepsTypes, HoldingKeepsTypes, ResumingKeepsTypes, SendingKeepsTypes,
       HearingKeepsTypes, EnvironmentKeepsTypes DEF Next, Driver
<1>3. QED
  BY <1>1, <1>2, PTL DEF Spec

----------------------------------------------------------------------------
(* The conversation: what the ends hear, the one baton, the ceiling, the    *)
(* owner's holds, and that the relay implements RelayConversation.  All of  *)
(* it follows from ConversationInv, which is shown to be inductive.         *)

USE LimitsAssumption DEF LimitsAssumption

\* Helpers --------------------------------------------------------------------

\* Turns are counted in the naturals.
LEMMA Counting == TypeOK => Said \in Nat /\ Heard \in Nat
<1>1. TypeOK => ledger \in Seq(Turns) /\ transcript \in Seq(Nat)
  BY DEF TypeOK
<1>2. QED
  BY <1>1 DEF Said, Heard

\* A step that leaves the ledger and the ends alone leaves what they say alone.
LEMMA SameConversation ==
    ASSUME UNCHANGED <<ledger, transcript>>
    PROVE  /\ Said' = Said /\ Heard' = Heard /\ Last' = Last
           /\ Settled => Settled'
           /\ HeardInOrderOnce => HeardInOrderOnce'
           /\ CeilingHolds => CeilingHolds'
  BY DEF Said, Heard, Last, Settled, HeardInOrderOnce, CeilingHolds

\* Marking the last turn moves that turn and no other.
LEMMA MarkLast ==
    ASSUME TypeOK, Said > 0, NEW s \in DeliveryStates, Mark(Said, s), transcript' = transcript
    PROVE  /\ Said' = Said /\ Heard' = Heard /\ Last' = s
           /\ Settled => Settled'
           /\ HeardInOrderOnce => HeardInOrderOnce'
           /\ CeilingHolds => CeilingHolds'
<1>1. ledger \in Seq(Turns) /\ Said \in Nat /\ Said \in 1..Said
  BY Counting DEF TypeOK
<1>2. /\ Len(ledger') = Len(ledger)
      /\ \A k \in 1..Len(ledger) :
            ledger'[k].state = IF k = Said THEN s ELSE ledger[k].state
  BY <1>1, MarkKeepsTurns
<1>3. Said' = Said /\ Heard' = Heard /\ Last' = s
  BY <1>1, <1>2 DEF Said, Heard, Last
<1>4. Settled => Settled'
  BY <1>1, <1>2, <1>3 DEF Settled, Said
<1>5. QED
  BY <1>3, <1>4 DEF HeardInOrderOnce, CeilingHolds

\* A step that leaves the conversation, the count and the holds alone keeps the
\* invariant if the driver knows what it must where it goes.
LEMMA QuietStep ==
    ASSUME ConversationInv, UNCHANGED <<ledger, transcript, holds>>,
           row'.xno = row.xno, row'.awaiting = row.awaiting,
           DriverKnows',
           pc' \in {"down", "regate", "column", "held"} \/ holds = {}
    PROVE  ConversationInv'
<1>1. /\ Said' = Said /\ Heard' = Heard /\ Last' = Last
      /\ Settled' /\ HeardInOrderOnce' /\ CeilingHolds'
  BY SameConversation DEF ConversationInv
<1>2. InStep' /\ AwaitsTheLast'
  BY <1>1 DEF ConversationInv, InStep, AwaitsTheLast
<1>3. OneDecision'
  BY <1>1 DEF ConversationInv, OneDecision
<1>4. QED
  BY <1>1, <1>2, <1>3 DEF ConversationInv

\* A stop leaves the conversation as it is.
LEMMA FinishLeaves ==
    ASSUME TypeOK, NEW s, NEW r, Finish(s, r)
    PROVE  /\ row'.xno = row.xno /\ row'.awaiting = row.awaiting /\ row'.state = s
           /\ UNCHANGED <<ledger, transcript, holds, granted, ops>> /\ pc' = "down"
<1>1. row \in Rows
  BY DEF TypeOK
<1>2. row'.xno = row.xno /\ row'.awaiting = row.awaiting /\ row'.state = s
  BY <1>1 DEF Finish, Rows
<1>3. QED
  BY <1>2 DEF Finish

\* A driver that is gone knows nothing and needs to know nothing.
LEMMA DownKnows ==
    ASSUME pc' \in {"down", "column", "held", "attach", "reconcile", "unreconcilable", "lift",
                    "top", "claim", "complete", "refuted", "repeat"}
    PROVE  DriverKnows'
  BY DEF DriverKnows

\* A stop keeps the invariant.
LEMMA FinishKeepsConversation ==
    ASSUME TypeOK, ConversationInv, NEW s, NEW r, Finish(s, r)
    PROVE  ConversationInv'
  BY FinishLeaves, DownKnows, QuietStep

\* The invariant --------------------------------------------------------------

\* Starting a relay keeps the invariant.
LEMMA StartingKeepsConversation == TypeOK /\ ConversationInv /\ Starting => ConversationInv'
<1> SUFFICES ASSUME TypeOK, ConversationInv, Starting PROVE ConversationInv'
  OBVIOUS
<1>1. CASE Create
  <2>1. row'.xno = row.xno /\ row'.awaiting = row.awaiting
    BY <1>1, PartTypes DEF Create, Rows
  <2>2. DriverKnows'
    BY <1>1, SameConversation DEF Create, At, Outside, ConversationInv, DriverKnows
  <2>3. QED
    BY <1>1, <2>1, <2>2, QuietStep DEF Create, At, Outside, ConversationInv, OneDecision
<1>2. CASE StartUnreadable
  BY <1>2, FinishKeepsConversation DEF StartUnreadable
<1>3. ASSUME NEW e \in Effects, GateStart(e) PROVE ConversationInv'
  <2>1. holds = {} /\ UNCHANGED <<row, ledger, transcript, holds>>
    BY <1>3 DEF GateStart, Outside, ConversationInv, OneDecision
  <2>2. DriverKnows'
    <3>1. CASE Allowed(e)
      BY <1>3, <2>1, <3>1, SameConversation DEF GateStart, ConversationInv, DriverKnows
    <3>2. CASE ~Allowed(e)
      <4>1. /\ pc' = "raise"
            /\ mem' = [mem EXCEPT !.due = [gate |-> "start", effect |-> e, msg |-> 0]]
        BY <1>3, <3>2 DEF GateStart
      <4>2. mem'.due.msg = 0 /\ mem'.due.effect # "edit"
        BY <4>1, <3>2, PartTypes DEF Memories, Allowed
      <4>3. QED
        BY <4>1, <4>2 DEF DriverKnows
    <3>3. QED
      BY <3>1, <3>2
  <2>3. QED
    BY <2>1, <2>2, QuietStep
<1>4. CASE OpenEnds
  <2>1. DriverKnows'
    BY <1>4, SameConversation DEF OpenEnds, At, Outside, ConversationInv, DriverKnows
  <2>2. QED
    BY <1>4, <2>1, QuietStep DEF OpenEnds, At, Outside, ConversationInv, OneDecision
<1>5. CASE OpenFails
  BY <1>5, FinishKeepsConversation DEF OpenFails
<1>6. CASE Seed
  <2>1. Said = 0 /\ holds = {} /\ Heard = 0 /\ row.xno = 0 /\ row.awaiting = 0
    BY <1>6, PartTypes, Counting
       DEF Seed, At, ConversationInv, DriverKnows, OneDecision, InStep, AwaitsTheLast
  <2>2. Said' = 1 /\ Heard' = 0 /\ Last' = "OBSERVED"
    BY <1>6, <2>1, RecordAppends DEF Seed, Outside, TypeOK, Said, Heard, Last
  <2>3. UNCHANGED <<row, holds, transcript, mem>> /\ pc' = "top"
    BY <1>6 DEF Seed, At, Outside
  <2>4. HeardInOrderOnce' /\ CeilingHolds'
    BY <2>3 DEF ConversationInv, HeardInOrderOnce, CeilingHolds
  <2>5. InStep' /\ Settled'
    BY <2>1, <2>2, <2>3 DEF InStep, Settled, ConversationInv
  <2>6. AwaitsTheLast' /\ OneDecision' /\ DriverKnows'
    BY <2>1, <2>2, <2>3 DEF AwaitsTheLast, OneDecision, DriverKnows
  <2>7. QED
    BY <2>4, <2>5, <2>6 DEF ConversationInv
<1>7. QED
  BY <1>1, <1>2, <1>3, <1>4, <1>5, <1>6 DEF Starting

\* Recording a hold keeps the invariant: there is no other, and it is about the
\* last turn.
LEMMA HoldingKeepsConversation == TypeOK /\ ConversationInv /\ Holding => ConversationInv'
<1> SUFFICES ASSUME TypeOK, ConversationInv, Holding PROVE ConversationInv'
  OBVIOUS
<1>1. CASE RaiseNothing
  BY <1>1, DownKnows, QuietStep DEF RaiseNothing, At, durable, Outside
<1>2. CASE RaiseHold
  <2>1. /\ holds' = {mem.due} /\ mem.due.effect # "edit"
        /\ mem.due.msg # 0 => mem.due.msg = Said /\ Last = "OWNER_HELD"
    BY <1>2 DEF RaiseHold, At, ConversationInv, OneDecision, DriverKnows
  <2>2. UNCHANGED <<row, ledger, transcript, mem>> /\ pc' = "column"
    BY <1>2 DEF RaiseHold, At, Outside
  <2>3. /\ Said' = Said /\ Heard' = Heard /\ Last' = Last
        /\ Settled' /\ HeardInOrderOnce' /\ CeilingHolds'
    BY <2>2, SameConversation DEF ConversationInv
  <2>4. InStep' /\ AwaitsTheLast'
    BY <2>2, <2>3 DEF ConversationInv, InStep, AwaitsTheLast
  <2>5. OneDecision'
    BY <2>1, <2>2, <2>3 DEF OneDecision
  <2>6. QED
    BY <2>2, <2>3, <2>4, <2>5, DownKnows DEF ConversationInv
<1>3. CASE HoldColumn
  <2>1. row'.xno = row.xno /\ row'.awaiting = row.awaiting
    BY <1>3, PartTypes DEF HoldColumn, Rows
  <2>2. QED
    BY <1>3, <2>1, DownKnows, QuietStep DEF HoldColumn, At, Outside
<1>4. CASE HeldStop
  BY <1>4, FinishKeepsConversation DEF HeldStop
<1>5. QED
  BY <1>1, <1>2, <1>3, <1>4 DEF Holding

\* Resuming keeps the invariant: a requirement is dropped with its directive back
\* in the queue, and the one delivery in flight is settled by what the end holds.
LEMMA ResumingKeepsConversation == TypeOK /\ ConversationInv /\ Resuming => ConversationInv'
<1> SUFFICES ASSUME TypeOK, ConversationInv, Resuming PROVE ConversationInv'
  OBVIOUS
<1>1. ASSUME NEW h \in mem.todo, StillRefused(h) PROVE ConversationInv'
  <2>1. /\ pc = "regate" /\ pc' = "regate"
        /\ UNCHANGED <<row, ledger, transcript, holds>>
        /\ mem' = [mem EXCEPT !.todo = @ \ {h}, !.blocked = TRUE]
    BY <1>1 DEF StillRefused, At, durable, Outside
  <2>2. mem'.todo \subseteq mem.todo /\ mem'.blocked
    BY <2>1, PartTypes DEF Memories
  <2>3. DriverKnows'
    BY <2>1, <2>2, SameConversation DEF ConversationInv, DriverKnows
  <2>4. QED
    BY <2>1, <2>3, QuietStep
<1>2. ASSUME NEW h \in mem.todo, DischargeHold(h) PROVE ConversationInv'
  <2>1. /\ pc = "regate" /\ pc' = (IF h.msg = 0 THEN "regate" ELSE "release")
        /\ UNCHANGED <<row, ledger, transcript>> /\ holds' = holds \ {h}
        /\ mem' = [mem EXCEPT !.todo = @ \ {h}, !.cur = h.msg]
    BY <1>2 DEF DischargeHold, Outside
  <2>2. mem'.todo = mem.todo \ {h} /\ mem'.cur = h.msg /\ mem'.blocked = mem.blocked
    BY <2>1, PartTypes DEF Memories
  <2>3. h \in holds /\ holds' = {}
    BY <2>1 DEF ConversationInv, OneDecision, DriverKnows
  <2>4. /\ Said' = Said /\ Heard' = Heard /\ Last' = Last
        /\ Settled' /\ HeardInOrderOnce' /\ CeilingHolds'
    BY <2>1, SameConversation DEF ConversationInv
  <2>5. InStep' /\ AwaitsTheLast' /\ OneDecision'
    BY <2>1, <2>3, <2>4 DEF ConversationInv, InStep, AwaitsTheLast, OneDecision
  <2>6. mem'.todo \subseteq holds' /\ (~mem'.blocked => mem'.todo = holds')
    BY <2>1, <2>2, <2>3 DEF ConversationInv, DriverKnows
  <2>7. h.msg # 0 => h.msg = Said /\ Said > 0 /\ Last = "OWNER_HELD"
    <3>1. h.msg # 0 => h.msg = Said /\ Last = "OWNER_HELD"
      BY <2>3 DEF ConversationInv, OneDecision
    <3>2. QED
      BY <3>1, Counting
  <2>8. DriverKnows'
    <3>1. CASE h.msg = 0
      BY <2>1, <2>6, <3>1 DEF DriverKnows
    <3>2. CASE h.msg # 0
      BY <2>1, <2>2, <2>4, <2>6, <2>7, <3>2 DEF DriverKnows
    <3>3. QED
      BY <3>1, <3>2
  <2>9. QED
    BY <2>4, <2>5, <2>8 DEF ConversationInv
<1>3. CASE Release
  <2>1. /\ pc = "release" /\ pc' = "regate" /\ Mark(Said, "OBSERVED") /\ Said > 0
        /\ Last = "OWNER_HELD" /\ holds = {}
        /\ mem.todo \subseteq holds /\ (~mem.blocked => mem.todo = holds)
        /\ UNCHANGED <<row, transcript, holds>> /\ mem' = [mem EXCEPT !.cur = 0]
    BY <1>3 DEF Release, At, Outside, ConversationInv, OneDecision, DriverKnows
  <2>2. /\ Said' = Said /\ Heard' = Heard /\ Last' = "OBSERVED"
        /\ Settled' /\ HeardInOrderOnce' /\ CeilingHolds'
    BY <2>1, MarkLast DEF ConversationInv, DeliveryStates
  <2>3. mem'.todo = mem.todo /\ mem'.blocked = mem.blocked
    BY <2>1, PartTypes DEF Memories
  <2>4. InStep' /\ AwaitsTheLast' /\ OneDecision'
    BY <2>1, <2>2 DEF ConversationInv, InStep, AwaitsTheLast, OneDecision
  <2>5. DriverKnows'
    BY <2>1, <2>3 DEF DriverKnows
  <2>6. QED
    BY <2>2, <2>4, <2>5 DEF ConversationInv
<1>4. CASE ResumeHeld
  <2>1. row'.xno = row.xno /\ row'.awaiting = row.awaiting
    BY <1>4, PartTypes DEF ResumeHeld, Rows
  <2>2. QED
    BY <1>4, <2>1, DownKnows, QuietStep DEF ResumeHeld, Outside
<1>5. CASE HoldsCleared
  <2>1. row'.xno = row.xno /\ row'.awaiting = row.awaiting
    BY <1>5, PartTypes DEF HoldsCleared, Rows
  <2>2. holds = {}
    BY <1>5 DEF HoldsCleared, At, ConversationInv, DriverKnows
  <2>3. QED
    BY <1>5, <2>1, <2>2, DownKnows, QuietStep DEF HoldsCleared, At, Outside
<1>6. CASE Attach \/ Reconciled
  BY <1>6, DownKnows, QuietStep
     DEF Attach, Reconciled, At, durable, Outside, ConversationInv, OneDecision
<1>7. CASE AttachFails \/ UnreconcilableStop \/ ResumeAtCeiling
  BY <1>7, FinishKeepsConversation DEF AttachFails, UnreconcilableStop, ResumeAtCeiling
<1>8. ASSUME NEW m \in 1..Len(ledger), Confirm(m) \/ NotHeld(m) \/ CannotSay(m)
      PROVE  ConversationInv'
  <2>1. /\ m \in InFlight /\ pc = "reconcile"
        /\ UNCHANGED <<row, transcript, holds, mem>>
        /\ pc' \in {"reconcile", "unreconcilable"}
    BY <1>8 DEF Confirm, NotHeld, CannotSay, At, Outside
  <2>2. ledger[m].state = "DELIVERING"
    BY <2>1 DEF InFlight, InState
  <2>3. m = Said /\ Said > 0 /\ Said \in Nat /\ Heard \in Nat /\ Last = "DELIVERING"
    <3>1. m \in 1..Said /\ m \in Nat /\ Said \in Nat /\ Heard \in Nat
      BY Counting DEF Said
    <3>2. ~(m < Said)
      BY <2>2, <3>1 DEF ConversationInv, Settled
    <3>3. QED
      BY <2>2, <3>1, <3>2 DEF Last
  <2>4. holds = {} /\ row.xno = Said - 1 /\ row.awaiting = 0
    BY <2>1, <2>3 DEF ConversationInv, OneDecision, InStep, AwaitsTheLast
  <2>5. PICK s \in {"CONFIRMED_AFTER_CRASH", "REDELIVERABLE", "UNRECONCILABLE"} :
          /\ Mark(Said, s)
          /\ s = "CONFIRMED_AFTER_CRASH" => Heard = Said
          /\ s = "REDELIVERABLE" => Heard = Said - 1
    <3>1. CASE Confirm(m)
      <4>1. PICK k \in 1..Heard : transcript[k] = m
        BY <3>1 DEF Confirm, Heard
      <4>2. k = Said
        BY <2>3, <4>1 DEF ConversationInv, HeardInOrderOnce, Heard
      <4>3. Heard = Said
        BY <2>3, <4>1, <4>2 DEF ConversationInv, InStep
      <4>4. QED
        BY <2>3, <3>1, <4>3 DEF Confirm
    <3>2. CASE NotHeld(m)
      <4>1. Said \notin 1..Heard
        BY <2>3, <3>2 DEF NotHeld, ConversationInv, HeardInOrderOnce, Heard
      <4>2. Heard = Said - 1
        BY <2>3, <4>1 DEF ConversationInv, InStep
      <4>3. QED
        BY <2>3, <3>2, <4>2 DEF NotHeld
    <3>3. CASE CannotSay(m)
      BY <2>3, <3>3 DEF CannotSay
    <3>4. QED
      BY <1>8, <3>1, <3>2, <3>3
  <2>6. /\ Said' = Said /\ Heard' = Heard /\ Last' = s
        /\ Settled' /\ HeardInOrderOnce' /\ CeilingHolds'
    BY <2>1, <2>3, <2>5, MarkLast DEF ConversationInv, DeliveryStates
  <2>7. InStep'
    BY <2>1, <2>3, <2>4, <2>5, <2>6 DEF ConversationInv, InStep
  <2>8. AwaitsTheLast' /\ OneDecision'
    BY <2>1, <2>4 DEF AwaitsTheLast, OneDecision
  <2>9. QED
    BY <2>1, <2>6, <2>7, <2>8, DownKnows DEF ConversationInv
<1>9. CASE Lift
  <2>1. row'.xno = row.xno /\ row'.awaiting = row.awaiting
    BY <1>9, PartTypes DEF Lift, Rows
  <2>2. pc' \in {"top", "down"} /\ UNCHANGED <<ledger, transcript, holds>> /\ holds = {}
    BY <1>9 DEF Lift, Outside, ConversationInv, OneDecision
  <2>3. QED
    BY <2>1, <2>2, DownKnows, QuietStep
<1>10. QED
  BY <1>1, <1>2, <1>3, <1>4, <1>5, <1>6, <1>7, <1>8, <1>9 DEF Resuming

\* The turn the driver picks is the last one, and nobody has heard it.
LEMMA PickIsLast ==
    ASSUME TypeOK, ConversationInv, Undelivered # {}
    PROVE  /\ Earliest(Undelivered) = Said /\ Said > 0
           /\ Last \in {"OBSERVED", "REDELIVERABLE"}
<1>1. Undelivered \in SUBSET Nat /\ Said \in Nat
  BY Counting DEF Undelivered, InState
<1>2. PICK m \in Undelivered : m = Earliest(Undelivered)
  BY <1>1, EarliestIsMember
<1>3. m \in 1..Said /\ ledger[m].state \in {"OBSERVED", "REDELIVERABLE"}
  BY DEF Undelivered, InState, Said
<1>4. m = Said
  BY <1>1, <1>3 DEF ConversationInv, Settled
<1>5. QED
  BY <1>1, <1>2, <1>3, <1>4 DEF Last

\* What an end hears is the turn after the ones it has heard.
LEMMA LandIsNext ==
    ASSUME TypeOK, ConversationInv, pc = "send", Land
    PROVE  /\ transcript' = Append(transcript, Heard + 1) /\ Heard' = Said /\ Heard + 1 = Said
           /\ holds = {} /\ Heard < MaxExchanges
           /\ HeardInOrderOnce' /\ CeilingHolds'
<1>1. /\ mem.cur = Said /\ Heard + 1 = Said /\ Heard < MaxExchanges /\ holds = {}
      /\ Said \in Nat /\ Heard \in Nat
  BY Counting DEF ConversationInv, DriverKnows, OneDecision
<1>2. transcript' = Append(transcript, Heard + 1) /\ transcript \in Seq(Nat)
  BY <1>1 DEF Land, TypeOK
<1>3. /\ Len(transcript') = Heard + 1
      /\ \A k \in 1..Heard : transcript'[k] = transcript[k]
      /\ transcript'[Heard + 1] = Heard + 1
  BY <1>1, <1>2, AppendProperties DEF Heard
<1>4. HeardInOrderOnce'
  BY <1>1, <1>3 DEF ConversationInv, HeardInOrderOnce, Heard
<1>5. CeilingHolds'
  BY <1>1, <1>3 DEF CeilingHolds
<1>6. QED
  BY <1>1, <1>2, <1>3, <1>4, <1>5 DEF Heard

\* Delivering a turn keeps the invariant.
LEMMA SendingKeepsConversation == TypeOK /\ ConversationInv /\ Sending => ConversationInv'
<1> SUFFICES ASSUME TypeOK, ConversationInv, Sending PROVE ConversationInv'
  OBVIOUS
<1>1. CASE Leave
  BY <1>1, DownKnows, QuietStep DEF Leave, At, durable, Outside
<1>2. CASE StopAtCeiling \/ NothingToDo \/ SendFails
  BY <1>2, FinishKeepsConversation DEF StopAtCeiling, NothingToDo, SendFails
<1>3. CASE Await
  <2>1. /\ row.awaiting # 0 /\ pc = "top" /\ pc' = "receive" /\ mem' = [NoMem EXCEPT !.cur = row.awaiting]
        /\ UNCHANGED <<row, ledger, transcript, holds>>
    BY <1>3 DEF Await, Running, durable, Outside
  <2>2. mem'.cur = row.awaiting
    BY <2>1 DEF NoMem
  <2>3. row.awaiting = Said /\ Said > 0 /\ holds = {}
    BY <2>1, Counting DEF ConversationInv, AwaitsTheLast, OneDecision
  <2>4. DriverKnows'
    BY <2>1, <2>2, <2>3, SameConversation DEF DriverKnows
  <2>5. QED
    BY <2>1, <2>3, <2>4, QuietStep
<1>4. CASE Pick
  <2>1. /\ row.awaiting = 0 /\ pc = "top" /\ pc' = "begin" /\ row.xno < MaxExchanges
        /\ mem' = [NoMem EXCEPT !.cur = Earliest(Undelivered)] /\ Undelivered # {}
        /\ UNCHANGED <<row, ledger, transcript, holds>>
    BY <1>4, PartTypes DEF Pick, Running, AtCeiling, durable, Outside
  <2>2. mem'.cur = Said /\ Said > 0 /\ Last \in {"OBSERVED", "REDELIVERABLE"}
    BY <2>1, PickIsLast DEF NoMem
  <2>3. row.xno = Said - 1 /\ holds = {}
    BY <2>1, <2>2 DEF ConversationInv, InStep, OneDecision
  <2>4. DriverKnows'
    BY <2>1, <2>2, <2>3, SameConversation DEF DriverKnows
  <2>5. QED
    BY <2>1, <2>3, <2>4, QuietStep
<1>5. CASE BeginDelivery
  <2>1. /\ pc = "begin" /\ pc' = "send" /\ Mark(Said, "DELIVERING") /\ Said > 0
        /\ mem.cur = Said /\ holds = {} /\ Last \in {"OBSERVED", "REDELIVERABLE"}
        /\ row.awaiting = 0 /\ row.xno = Said - 1 /\ row.xno < MaxExchanges
        /\ UNCHANGED <<row, transcript, holds, mem>>
    BY <1>5 DEF BeginDelivery, At, Outside, ConversationInv, OneDecision, DriverKnows
  <2>2. /\ Said' = Said /\ Heard' = Heard /\ Last' = "DELIVERING"
        /\ Settled' /\ HeardInOrderOnce' /\ CeilingHolds'
    BY <2>1, MarkLast DEF ConversationInv, DeliveryStates
  <2>3. InStep' /\ AwaitsTheLast' /\ OneDecision'
    BY <2>1, <2>2 DEF ConversationInv, InStep, AwaitsTheLast, OneDecision
  <2>4. DriverKnows'
    BY <2>1, <2>2 DEF DriverKnows, ConversationInv, InStep
  <2>5. QED
    BY <2>2, <2>3, <2>4 DEF ConversationInv
<1>6. CASE Send \/ SendUnacknowledged
  <2>1. pc = "send" /\ Land /\ UNCHANGED <<ledger, holds>> /\ pc' \in {"ack", "down"}
    BY <1>6 DEF Send, SendUnacknowledged, At, durable
  <2>2. /\ Heard' = Said /\ Heard + 1 = Said /\ holds = {}
        /\ HeardInOrderOnce' /\ CeilingHolds'
    BY <2>1, LandIsNext
  <2>3. row'.xno = row.xno /\ row'.awaiting = row.awaiting
    BY <1>6, PartTypes DEF Send, SendUnacknowledged, durable, Rows
  <2>4. Said' = Said /\ Last' = Last /\ Settled'
    BY <2>1 DEF ConversationInv, Said, Last, Settled
  <2>5. /\ mem.cur = Said /\ Said > 0 /\ row.awaiting = 0 /\ row.xno = Said - 1
        /\ row.xno < MaxExchanges /\ Last = "DELIVERING"
    BY <2>1 DEF ConversationInv, DriverKnows
  <2>6. InStep' /\ AwaitsTheLast' /\ OneDecision'
    BY <2>1, <2>2, <2>3, <2>4, <2>5, PartTypes, Counting DEF InStep, AwaitsTheLast, OneDecision
  <2>7. DriverKnows'
    <3>1. CASE Send
      <4>1. mem' = mem /\ row' = row /\ pc' = "ack"
        BY <3>1 DEF Send, At, durable
      <4>2. QED
        BY <2>2, <2>4, <2>5, <4>1 DEF DriverKnows
    <3>2. CASE SendUnacknowledged
      BY <3>2, DownKnows DEF SendUnacknowledged
    <3>3. QED
      BY <1>6, <3>1, <3>2
  <2>8. QED
    BY <2>2, <2>4, <2>6, <2>7 DEF ConversationInv
<1>7. CASE CompleteDelivery
  <2>1. /\ pc = "ack" /\ pc' = "await" /\ Mark(Said, "DELIVERED") /\ Said > 0
        /\ mem.cur = Said /\ holds = {} /\ Heard = Said
        /\ row.awaiting = 0 /\ row.xno = Said - 1 /\ row.xno < MaxExchanges
        /\ UNCHANGED <<row, transcript, holds, mem>>
    BY <1>7 DEF CompleteDelivery, At, Outside, ConversationInv, OneDecision, DriverKnows
  <2>2. /\ Said' = Said /\ Heard' = Heard /\ Last' = "DELIVERED"
        /\ Settled' /\ HeardInOrderOnce' /\ CeilingHolds'
    BY <2>1, MarkLast DEF ConversationInv, DeliveryStates
  <2>3. InStep' /\ AwaitsTheLast' /\ OneDecision'
    BY <2>1, <2>2 DEF ConversationInv, InStep, AwaitsTheLast, OneDecision
  <2>4. DriverKnows'
    BY <2>1, <2>2 DEF DriverKnows
  <2>5. QED
    BY <2>2, <2>3, <2>4 DEF ConversationInv
<1>8. CASE MarkAwaiting
  <2>1. /\ pc = "await" /\ pc' = "receive" /\ Said > 0 /\ mem.cur = Said /\ holds = {}
        /\ row.xno = Said - 1 /\ row.xno < MaxExchanges /\ Last = "DELIVERED"
        /\ UNCHANGED <<ledger, transcript, holds, mem>>
        /\ row' = [row EXCEPT !.xno = @ + 1, !.awaiting = mem.cur]
    BY <1>8 DEF MarkAwaiting, At, Outside, ConversationInv, OneDecision, DriverKnows
  <2>2. row'.xno = row.xno + 1 /\ row'.awaiting = mem.cur
    BY <2>1, PartTypes DEF Rows
  <2>3. /\ Said' = Said /\ Heard' = Heard /\ Last' = Last
        /\ Settled' /\ HeardInOrderOnce' /\ CeilingHolds'
    BY <2>1, SameConversation DEF ConversationInv
  <2>4. Heard = Said
    BY <2>1 DEF ConversationInv, InStep
  <2>5. InStep' /\ AwaitsTheLast' /\ OneDecision'
    BY <2>1, <2>2, <2>3, <2>4, PartTypes, Counting
       DEF ConversationInv, InStep, AwaitsTheLast, OneDecision
  <2>6. DriverKnows'
    BY <2>1, <2>2, <2>3 DEF DriverKnows
  <2>7. QED
    BY <2>3, <2>5, <2>6 DEF ConversationInv
<1>9. QED
  BY <1>1, <1>2, <1>3, <1>4, <1>5, <1>6, <1>7, <1>8 DEF Sending

\* Taking a reply keeps the invariant: the turn it answers was heard and is closed.
LEMMA HearingKeepsConversation == TypeOK /\ ConversationInv /\ Hearing => ConversationInv'
<1> SUFFICES ASSUME TypeOK, ConversationInv, Hearing PROVE ConversationInv'
  OBVIOUS
<1>1. CASE ReceiveFails \/ NoTurnArrived \/ ProviderRefuses \/ StaysIncomplete \/ StaleReplay
  BY <1>1, FinishKeepsConversation
     DEF ReceiveFails, NoTurnArrived, ProviderRefuses, StaysIncomplete, StaleReplay
<1>2. CASE Incomplete \/ \E reply \in Replies : Receive(reply)
  <2>1. /\ pc = "receive" /\ pc' \in {"receive", "close"} /\ holds = {}
        /\ UNCHANGED <<row, ledger, transcript, holds>>
    BY <1>2 DEF Incomplete, Receive, At, durable, Outside, ConversationInv, OneDecision
  <2>2. mem'.cur = mem.cur
    BY <1>2, PartTypes DEF Incomplete, Receive, Memories
  <2>3. DriverKnows'
    BY <2>1, <2>2, SameConversation DEF ConversationInv, DriverKnows
  <2>4. QED
    BY <2>1, <2>3, QuietStep
<1>3. CASE CloseTurn
  <2>1. /\ pc = "close" /\ pc' = "record" /\ Said > 0 /\ row.awaiting = Said /\ holds = {}
        /\ UNCHANGED <<ledger, transcript, holds, mem>>
        /\ row' = [row EXCEPT !.awaiting = 0]
    BY <1>3 DEF CloseTurn, At, Outside, ConversationInv, OneDecision, DriverKnows
  <2>2. row'.xno = row.xno /\ row'.awaiting = 0
    BY <2>1, PartTypes DEF Rows
  <2>3. row.xno = Said /\ Last = "DELIVERED"
    BY <2>1 DEF ConversationInv, AwaitsTheLast
  <2>4. /\ Said' = Said /\ Heard' = Heard /\ Last' = Last
        /\ Settled' /\ HeardInOrderOnce' /\ CeilingHolds'
    BY <2>1, SameConversation DEF ConversationInv
  <2>5. InStep' /\ AwaitsTheLast' /\ OneDecision'
    BY <2>1, <2>2, <2>4 DEF ConversationInv, InStep, AwaitsTheLast, OneDecision
  <2>6. DriverKnows'
    BY <2>1, <2>2, <2>3, <2>4 DEF DriverKnows
  <2>7. QED
    BY <2>4, <2>5, <2>6 DEF ConversationInv
<1>4. CASE RecordReply
  <2>1. /\ pc = "record" /\ Record(mem.reply) /\ Said > 0 /\ Last = "DELIVERED" /\ holds = {}
        /\ row.awaiting = 0 /\ row.xno = Said /\ Heard = Said
        /\ UNCHANGED <<row, holds, transcript>>
        /\ pc' \in {"park", "raise", "claim", "repeat"}
    BY <1>4 DEF RecordReply, Outside, ConversationInv, OneDecision, DriverKnows, InStep
  <2>2. /\ Len(ledger') = Len(ledger) + 1
        /\ \A k \in 1..Len(ledger) : ledger'[k] = ledger[k]
        /\ ledger'[Len(ledger) + 1].state = "OBSERVED"
    BY <2>1, RecordAppends, PartTypes
  <2>3. Said' = Said + 1 /\ Heard' = Heard /\ Last' = "OBSERVED"
    BY <2>1, <2>2 DEF Said, Heard, Last
  <2>4. Settled'
    <3>1. ASSUME NEW m \in 1..Said', m < Said' PROVE ledger'[m].state = "DELIVERED"
      <4>1. m \in 1..Said /\ Said \in Nat
        BY <2>3, <3>1, Counting
      <4>2. ledger'[m] = ledger[m]
        BY <2>2, <4>1 DEF Said
      <4>3. ledger[m].state = "DELIVERED"
        BY <2>1, <4>1 DEF ConversationInv, Settled, Last
      <4>4. QED
        BY <4>2, <4>3
    <3>2. QED
      BY <3>1 DEF Settled
  <2>5. HeardInOrderOnce' /\ CeilingHolds'
    BY <2>1 DEF ConversationInv, HeardInOrderOnce, CeilingHolds
  <2>6. InStep' /\ AwaitsTheLast' /\ OneDecision'
    BY <2>1, <2>3, Counting DEF ConversationInv, InStep, AwaitsTheLast, OneDecision
  <2>7. DriverKnows'
    <3> DEFINE id  == Len(ledger) + 1
               due == [gate |-> IF FromOrchestrator(id) THEN "directive" ELSE "observation",
                       effect |-> mem.reply.effect,
                       msg |-> IF FromOrchestrator(id) THEN id ELSE 0]
    <3>1. CASE Allowed(mem.reply.effect)
      <4>1. pc' \in {"claim", "repeat"}
        BY <1>4, <3>1 DEF RecordReply
      <4>2. QED
        BY <4>1, DownKnows
    <3>2. CASE ~Allowed(mem.reply.effect)
      <4>1. /\ mem' = [mem EXCEPT !.cur = id, !.reply = Nothing, !.due = due]
            /\ pc' = IF FromOrchestrator(id) THEN "park" ELSE "raise"
        BY <1>4, <3>2 DEF RecordReply
      <4>2. mem'.cur = id /\ mem'.due = due
        BY <4>1, PartTypes DEF Memories
      <4>3. id = Said' /\ id > 0
        BY <2>3, Counting DEF Said
      <4>4. due.effect # "edit"
        BY <3>2 DEF Allowed
      <4>5. CASE FromOrchestrator(id)
        BY <2>1, <2>3, <4>1, <4>2, <4>3, <4>4, <4>5 DEF DriverKnows
      <4>6. CASE ~FromOrchestrator(id)
        BY <4>1, <4>2, <4>4, <4>6 DEF DriverKnows
      <4>7. QED
        BY <4>5, <4>6
    <3>3. QED
      BY <3>1, <3>2
  <2>8. QED
    BY <2>4, <2>5, <2>6, <2>7 DEF ConversationInv
<1>5. CASE ParkDirective
  <2>1. /\ pc = "park" /\ pc' = "raise" /\ Mark(Said, "OWNER_HELD") /\ Said > 0
        /\ mem.due.msg = Said /\ mem.due.effect # "edit" /\ holds = {} /\ Last = "OBSERVED"
        /\ UNCHANGED <<row, transcript, holds, mem>>
    BY <1>5 DEF ParkDirective, At, Outside, ConversationInv, OneDecision, DriverKnows
  <2>2. /\ Said' = Said /\ Heard' = Heard /\ Last' = "OWNER_HELD"
        /\ Settled' /\ HeardInOrderOnce' /\ CeilingHolds'
    BY <2>1, MarkLast DEF ConversationInv, DeliveryStates
  <2>3. InStep' /\ AwaitsTheLast' /\ OneDecision'
    BY <2>1, <2>2 DEF ConversationInv, InStep, AwaitsTheLast, OneDecision
  <2>4. DriverKnows'
    BY <2>1, <2>2 DEF DriverKnows
  <2>5. QED
    BY <2>2, <2>3, <2>4 DEF ConversationInv
<1>6. CASE ClaimHolds \/ ClaimRefuted \/ HandBack \/ NextStep
  BY <1>6, DownKnows, QuietStep
     DEF ClaimHolds, ClaimRefuted, HandBack, NextStep, At, durable, Outside,
         ConversationInv, OneDecision
<1>7. CASE Complete \/ StopUncorroborated \/ StopLoop
  BY <1>7, FinishKeepsConversation DEF Complete, StopUncorroborated, StopLoop
<1>8. QED
  BY <1>1, <1>2, <1>3, <1>4, <1>5, <1>6, <1>7 DEF Hearing

\* A crash, a resume, a stop or a grant keeps the invariant.
LEMMA EnvironmentKeepsConversation ==
    TypeOK /\ ConversationInv /\ Environment => ConversationInv'
<1> SUFFICES ASSUME TypeOK, ConversationInv, Environment PROVE ConversationInv'
  OBVIOUS
<1>1. CASE Resume
  <2>1. /\ pc' = "regate" /\ UNCHANGED <<row, ledger, transcript, holds>>
        /\ mem'.todo = holds
    BY <1>1 DEF Resume, At, durable, NoMem, OutstandingOwnerHolds
  <2>2. DriverKnows'
    BY <2>1 DEF DriverKnows
  <2>3. QED
    BY <2>1, <2>2, QuietStep
<1>2. CASE Crash
  BY <1>2, DownKnows, QuietStep DEF Crash, durable
<1>3. ASSUME NEW from, RequestStop(from) PROVE ConversationInv'
  <2>1. UNCHANGED <<ledger, transcript, holds, pc, mem>>
    BY <1>3 DEF RequestStop
  <2>2. row'.xno = row.xno /\ row'.awaiting = row.awaiting
    <3>1. CASE row.state \in from
      BY <1>3, <3>1, PartTypes DEF RequestStop, Rows
    <3>2. CASE row.state \notin from
      BY <1>3, <3>2 DEF RequestStop
    <3>3. QED
      BY <3>1, <3>2
  <2>3. DriverKnows'
    BY <2>1, <2>2, SameConversation DEF ConversationInv, DriverKnows
  <2>4. QED
    BY <2>1, <2>2, <2>3, QuietStep DEF ConversationInv, OneDecision
<1>4. CASE FlipGrant \/ Expire \/ Rest
  <2>1. UNCHANGED <<row, ledger, transcript, holds, pc, mem>>
    BY <1>4 DEF FlipGrant, Expire, Rest, durable, vars
  <2>2. DriverKnows'
    BY <2>1, SameConversation DEF ConversationInv, DriverKnows
  <2>3. QED
    BY <2>1, <2>2, QuietStep DEF ConversationInv, OneDecision
<1>5. QED
  BY <1>1, <1>2, <1>3, <1>4 DEF Environment, CliStop, CoreStop

\* Every step keeps the invariant, a stuttering one included.
LEMMA StepKeepsConversation == TypeOK /\ ConversationInv /\ [Next]_vars => ConversationInv'
<1>1. ASSUME TypeOK, ConversationInv, UNCHANGED vars PROVE ConversationInv'
  <2>1. UNCHANGED <<row, ledger, transcript, holds, pc, mem>>
    BY <1>1 DEF vars
  <2>2. DriverKnows'
    BY <1>1, <2>1, SameConversation DEF ConversationInv, DriverKnows
  <2>3. QED
    BY <1>1, <2>1, <2>2, QuietStep DEF ConversationInv, OneDecision
<1>2. QED
  BY <1>1, StartingKeepsConversation, HoldingKeepsConversation, ResumingKeepsConversation,
     SendingKeepsConversation, HearingKeepsConversation, EnvironmentKeepsConversation
     DEF Next, Driver

\* The ledger, the count, the holds and the driver always agree about how far the
\* conversation has come, across any number of crashes and resumes.
THEOREM ConversationInvariant == Spec => []ConversationInv
<1>1. Init => ConversationInv
  <2> SUFFICES ASSUME Init PROVE ConversationInv
    OBVIOUS
  <2>1. Said = 0 /\ Heard = 0 /\ holds = {} /\ row.xno = 0 /\ row.awaiting = 0 /\ pc = "new"
    BY DEF Init, Said, Heard
  <2>2. HeardInOrderOnce /\ CeilingHolds
    BY <2>1 DEF HeardInOrderOnce, CeilingHolds, Heard
  <2>3. InStep /\ Settled /\ AwaitsTheLast /\ OneDecision /\ DriverKnows
    BY <2>1 DEF InStep, Settled, AwaitsTheLast, OneDecision, DriverKnows
  <2>4. QED
    BY <2>2, <2>3 DEF ConversationInv
<1>2. QED
  BY <1>1, StepKeepsConversation, TypeCorrect, PTL DEF Spec

\* What follows ----------------------------------------------------------------

\* No end ever hears a turn twice or out of order (kernel.reconcile, _deliver).
THEOREM HeardInOrder == Spec => []HeardInOrderOnce
<1>1. ConversationInv => HeardInOrderOnce
  BY DEF ConversationInv
<1>2. QED
  BY <1>1, ConversationInvariant, PTL

\* No crash leaves two turns to be delivered, or one behind the conversation.
THEOREM OneBatonAlways == Spec => []OneBaton
<1>1. TypeOK /\ ConversationInv => OneBaton
  <2> SUFFICES ASSUME TypeOK, ConversationInv PROVE OneBaton
    OBVIOUS
  <2>1. ASSUME NEW m \in 1..Len(ledger), ledger[m].state # "DELIVERED" PROVE m = Len(ledger)
    BY <2>1, Counting DEF ConversationInv, Settled, Said
  <2>2. row.awaiting # 0 => row.awaiting = Len(ledger) /\ ledger[row.awaiting].state = "DELIVERED"
    BY DEF ConversationInv, AwaitsTheLast, Said, Last
  <2>3. QED
    BY <2>1, <2>2 DEF OneBaton
<1>2. QED
  BY <1>1, ConversationInvariant, TypeCorrect, PTL

\* The ends never hear more turns than max_exchanges.
THEOREM CeilingAlwaysHolds == Spec => []CeilingHolds
<1>1. ConversationInv => CeilingHolds
  BY DEF ConversationInv
<1>2. QED
  BY <1>1, ConversationInvariant, PTL

\* An end hears something only by a send.
LEMMA OnlySendsAreHeard ==
    ASSUME TypeOK, ConversationInv, [Next]_vars, transcript' # transcript
    PROVE  pc = "send" /\ Land /\ UNCHANGED <<ledger, holds, granted>>
<1>1. Send \/ SendUnacknowledged
  <2>1. ~UNCHANGED vars /\ Next
    BY DEF vars
  <2>2. ~Starting
    BY DEF Starting, Create, StartUnreadable, GateStart, OpenEnds, OpenFails, Seed, Finish,
           Outside
  <2>3. ~Holding
    BY DEF Holding, RaiseNothing, RaiseHold, HoldColumn, HeldStop, Finish, Outside
  <2>4. ~Resuming
    BY DEF Resuming, StillRefused, DischargeHold, Release, ResumeHeld, HoldsCleared, Attach,
           AttachFails, Confirm, NotHeld, CannotSay, UnreconcilableStop, Reconciled,
           ResumeAtCeiling, Lift, Finish, Outside
  <2>5. ~Hearing
    BY DEF Hearing, ReceiveFails, NoTurnArrived, ProviderRefuses, StaysIncomplete, Incomplete,
           StaleReplay, Receive, CloseTurn, RecordReply, ParkDirective, ClaimHolds, Complete,
           ClaimRefuted, StopUncorroborated, HandBack, StopLoop, NextStep, Finish, Outside
  <2>6. ~Environment
    BY DEF Environment, Resume, Crash, CliStop, CoreStop, RequestStop, FlipGrant, Expire,
           Rest, vars
  <2>7. Sending
    BY <2>1, <2>2, <2>3, <2>4, <2>5, <2>6 DEF Next, Driver
  <2>8. QED
    BY <2>7 DEF Sending, Leave, StopAtCeiling, Await, NothingToDo, Pick, BeginDelivery,
                SendFails, CompleteDelivery, MarkAwaiting, Finish, Outside
<1>2. QED
  BY <1>1 DEF Send, SendUnacknowledged, At, durable

\* No turn reaches an end while a recorded owner decision is outstanding, even
\* if the process that recorded it is long dead (kernel.resume re-gates).
THEOREM HeldMeansSilent == Spec => NothingHeardWhileHeld
<1>1. TypeOK /\ ConversationInv /\ [Next]_vars => [transcript' # transcript => holds = {}]_vars
  BY OnlySendsAreHeard, LandIsNext
<1>2. QED
  BY <1>1, ConversationInvariant, TypeCorrect, PTL DEF Spec, NothingHeardWhileHeld

\* The relay is a conversation -------------------------------------------------

\* A step that says nothing new, lets nobody hear and decides nothing stutters.
LEMMA QuietIsStutter ==
    ASSUME UNCHANGED <<transcript, holds, granted>>, Len(ledger') = Len(ledger)
    PROVE  Conversation!Next \/ UNCHANGED Conversation!vars
  BY DEF Conversation!vars

\* Recording a turn is saying it: the one before it has been heard.
LEMMA RecordSays ==
    ASSUME TypeOK, ConversationInv, Seed \/ RecordReply
    PROVE  Conversation!Say
<1>1. PICK reply \in Replies \cup {Nothing} : Record(reply)
  BY PartTypes DEF Seed, RecordReply
<1>2. Len(ledger') = Len(ledger) + 1
  BY <1>1, RecordAppends DEF TypeOK
<1>3. UNCHANGED <<transcript, holds, granted>>
  BY DEF Seed, RecordReply, Outside
<1>4. Said = Heard
  <2>1. CASE Seed
    BY <2>1, Counting DEF Seed, At, ConversationInv, DriverKnows, InStep
  <2>2. CASE RecordReply
    BY <2>2 DEF RecordReply, ConversationInv, DriverKnows, InStep
  <2>3. QED
    BY <2>1, <2>2
<1>5. QED
  BY <1>2, <1>3, <1>4 DEF Conversation!Say, Said, Heard

\* Delivering a turn is hearing it.
LEMMA SendIsHeard ==
    ASSUME TypeOK, ConversationInv, Send \/ SendUnacknowledged
    PROVE  Conversation!Hear
<1>1. pc = "send" /\ Land /\ UNCHANGED <<ledger, holds, granted>>
  BY DEF Send, SendUnacknowledged, At, durable
<1>2. /\ transcript' = Append(transcript, Heard + 1) /\ Heard + 1 = Said
      /\ holds = {} /\ Heard < MaxExchanges
  BY <1>1, LandIsNext
<1>3. Heard < Said
  BY <1>2, Counting
<1>4. QED
  BY <1>1, <1>2, <1>3 DEF Conversation!Hear, Said, Heard

\* Raising a hold asks for a decision.
LEMMA HoldIsRaised ==
    ASSUME TypeOK, RaiseHold
    PROVE  Conversation!Raise
<1>1. mem.due \in Requirements
  BY PartTypes
<1>2. /\ holds' = {h \in holds : h.gate # mem.due.gate \/ h.effect # mem.due.effect}
                     \cup {mem.due}
      /\ UNCHANGED <<ledger, transcript, granted>>
  BY DEF RaiseHold, Outside
<1>3. QED
  BY <1>1, <1>2 DEF Conversation!Raise

\* Dropping a hold settles it with a grant in force: no hold is about an effect
\* that needs none.
LEMMA HoldIsSettled ==
    ASSUME TypeOK, ConversationInv, NEW h \in mem.todo, DischargeHold(h)
    PROVE  Conversation!Discharge
<1>1. h \in holds /\ h.effect # "edit"
  BY DEF DischargeHold, ConversationInv, DriverKnows, OneDecision
<1>2. granted /\ h.effect = "gated"
  BY <1>1 DEF DischargeHold, Allowed
<1>3. holds' = holds \ {h} /\ UNCHANGED <<ledger, transcript, granted>>
  BY DEF DischargeHold, Outside
<1>4. QED
  BY <1>1, <1>2, <1>3 DEF Conversation!Discharge

\* A driver ending leaves the conversation where it is.
LEMMA FinishIsStutter ==
    ASSUME NEW s, NEW r, Finish(s, r)
    PROVE  Conversation!Next \/ UNCHANGED Conversation!vars
  BY QuietIsStutter DEF Finish

\* Marking a turn leaves the conversation where it is.
LEMMA MarkIsStutter ==
    ASSUME TypeOK, NEW m \in Nat, NEW s \in DeliveryStates, Mark(m, s),
           UNCHANGED <<transcript, holds, granted>>
    PROVE  Conversation!Next \/ UNCHANGED Conversation!vars
<1>1. Len(ledger') = Len(ledger)
  BY MarkKeepsTurns, PartTypes
<1>2. QED
  BY <1>1, QuietIsStutter

\* Every step of the relay is a step of the conversation, or none.
LEMMA StepIsConversation ==
    ASSUME TypeOK, ConversationInv, [Next]_vars
    PROVE  Conversation!Next \/ UNCHANGED Conversation!vars
<1> DEFINE Step == Conversation!Next \/ UNCHANGED Conversation!vars
<1>1. CASE UNCHANGED vars
  BY <1>1, QuietIsStutter DEF vars
<1>2. CASE Starting
  <2>1. CASE Create \/ (\E e \in Effects : GateStart(e)) \/ OpenEnds
    BY <2>1, QuietIsStutter DEF Create, GateStart, OpenEnds, Outside
  <2>2. CASE StartUnreadable \/ OpenFails
    BY <2>2, FinishIsStutter DEF StartUnreadable, OpenFails
  <2>3. CASE Seed
    BY <2>3, RecordSays DEF Conversation!Next
  <2>4. QED
    BY <1>2, <2>1, <2>2, <2>3 DEF Starting
<1>3. CASE Holding
  <2>1. CASE RaiseNothing \/ HoldColumn
    BY <2>1, QuietIsStutter DEF RaiseNothing, HoldColumn, durable, Outside
  <2>2. CASE RaiseHold
    BY <2>2, HoldIsRaised DEF Conversation!Next
  <2>3. CASE HeldStop
    BY <2>3, FinishIsStutter DEF HeldStop
  <2>4. QED
    BY <1>3, <2>1, <2>2, <2>3 DEF Holding
<1>4. CASE Resuming
  <2>1. CASE \E h \in mem.todo : DischargeHold(h)
    BY <2>1, HoldIsSettled DEF Conversation!Next
  <2>2. CASE \/ \E h \in mem.todo : StillRefused(h)
             \/ ResumeHeld \/ HoldsCleared \/ Attach \/ Reconciled \/ Lift
    BY <2>2, QuietIsStutter
       DEF StillRefused, ResumeHeld, HoldsCleared, Attach, Reconciled, Lift, durable, Outside
  <2>3. CASE AttachFails \/ UnreconcilableStop \/ ResumeAtCeiling
    BY <2>3, FinishIsStutter DEF AttachFails, UnreconcilableStop, ResumeAtCeiling
  <2>4. CASE Release
    BY <2>4, MarkIsStutter, PartTypes DEF Release, Outside, DeliveryStates
  <2>5. ASSUME NEW m \in 1..Len(ledger), Confirm(m) \/ NotHeld(m) \/ CannotSay(m)
        PROVE  Step
    <3>1. PICK s \in DeliveryStates : Mark(m, s)
      BY <2>5 DEF Confirm, NotHeld, CannotSay, DeliveryStates
    <3>2. m \in Nat /\ UNCHANGED <<transcript, holds, granted>>
      BY <2>5, PartTypes DEF Confirm, NotHeld, CannotSay, Outside
    <3>3. QED
      BY <3>1, <3>2, MarkIsStutter
  <2>6. QED
    BY <1>4, <2>1, <2>2, <2>3, <2>4, <2>5 DEF Resuming
<1>5. CASE Sending
  <2>1. CASE Leave \/ Await \/ Pick \/ MarkAwaiting
    BY <2>1, QuietIsStutter DEF Leave, Await, Pick, MarkAwaiting, durable, Outside
  <2>2. CASE StopAtCeiling \/ NothingToDo \/ SendFails
    BY <2>2, FinishIsStutter DEF StopAtCeiling, NothingToDo, SendFails
  <2>3. CASE BeginDelivery \/ CompleteDelivery
    BY <2>3, MarkIsStutter, PartTypes
       DEF BeginDelivery, CompleteDelivery, Outside, DeliveryStates
  <2>4. CASE Send \/ SendUnacknowledged
    BY <2>4, SendIsHeard DEF Conversation!Next
  <2>5. QED
    BY <1>5, <2>1, <2>2, <2>3, <2>4 DEF Sending
<1>6. CASE Hearing
  <2>1. CASE ReceiveFails \/ NoTurnArrived \/ ProviderRefuses \/ StaysIncomplete
             \/ StaleReplay \/ Complete \/ StopUncorroborated \/ StopLoop
    BY <2>1, FinishIsStutter DEF ReceiveFails, NoTurnArrived, ProviderRefuses,
       StaysIncomplete, StaleReplay, Complete, StopUncorroborated, StopLoop
  <2>2. CASE Incomplete \/ (\E reply \in Replies : Receive(reply)) \/ CloseTurn
             \/ ClaimHolds \/ ClaimRefuted \/ HandBack \/ NextStep
    BY <2>2, QuietIsStutter DEF Incomplete, Receive, CloseTurn, ClaimHolds, ClaimRefuted,
       HandBack, NextStep, durable, Outside
  <2>3. CASE RecordReply
    BY <2>3, RecordSays DEF Conversation!Next
  <2>4. CASE ParkDirective
    BY <2>4, MarkIsStutter, PartTypes DEF ParkDirective, Outside, DeliveryStates
  <2>5. QED
    BY <1>6, <2>1, <2>2, <2>3, <2>4 DEF Hearing
<1>7. CASE Environment
  <2>1. CASE FlipGrant
    BY <2>1 DEF FlipGrant, durable, Conversation!Next, Conversation!Decide
  <2>2. CASE Resume \/ Crash \/ CliStop \/ CoreStop \/ Expire \/ Rest
    BY <2>2, QuietIsStutter
       DEF Resume, Crash, CliStop, CoreStop, RequestStop, Expire, Rest, durable, vars
  <2>3. QED
    BY <1>7, <2>1, <2>2 DEF Environment
<1>8. QED
  BY <1>1, <1>2, <1>3, <1>4, <1>5, <1>6, <1>7 DEF Next, Driver

\* Behind crashes, lost receipts, resumes and the ledger, the relay is one
\* conversation: RelayConversation holds of what is said, heard and decided.
THEOREM Implementation == Spec => ImplementsConversation
<1>1. Init => Conversation!Init
  BY DEF Init, Conversation!Init
<1>2. QED
  BY <1>1, StepIsConversation, ConversationInvariant, TypeCorrect, PTL
     DEF Spec, ImplementsConversation, Conversation!Spec

----------------------------------------------------------------------------
(* The people above a relay.  The operator: no resume undoes a stop that    *)
(* took effect while it was asking the ends, and the ends hear at most one  *)
(* more turn after it.  The owner: as long as no process dies, what is      *)
(* parked is on record until he has decided it.                             *)

\* Where a driver is resuming, and where StopInv asks nothing of it.
ResumePlaces == {"regate", "release", "attach", "reconcile", "unreconcilable", "lift"}
Elsewhere == Places \ (ResumePlaces \cup {"new", "begin", "send"})

\* Helpers --------------------------------------------------------------------

\* Writing another column of the row leaves its state.
LEMMA StateStays ==
    ASSUME TypeOK
    PROVE  /\ ops.after \in Nat
           /\ HoldColumn \/ HoldsCleared \/ MarkAwaiting \/ CloseTurn => row'.state = row.state
  BY PartTypes DEF HoldColumn, HoldsCleared, MarkAwaiting, CloseTurn, Rows

\* A step that leaves the row's state and the stop alone keeps the invariant where
\* it asks nothing of the driver.
LEMMA QuietKeepsStop ==
    ASSUME StopInv, row'.state = row.state, ops' = ops, pc' \in Elsewhere
    PROVE  StopInv'
  BY DEF StopInv, Elsewhere, Places, ResumePlaces

\* So does one from one place of a resume to another that keeps what it read.
LEMMA ResumeStepKeepsStop ==
    ASSUME StopInv, row'.state = row.state, ops' = ops, mem'.state = mem.state,
           pc \in ResumePlaces, pc' \in ResumePlaces
    PROVE  StopInv'
  BY DEF StopInv, ResumePlaces

\* A stop of any other kind keeps the invariant.
LEMMA FinishKeepsStop ==
    ASSUME TypeOK, StopInv, NEW s, NEW r, s # "RUNNING", Finish(s, r)
    PROVE  StopInv'
<1>1. row'.state = s /\ ops' = ops /\ pc' = "down"
  BY PartTypes DEF Finish, Rows
<1>2. QED
  BY <1>1 DEF StopInv

\* The invariant --------------------------------------------------------------

\* Starting a relay and recording a hold keep the invariant.
LEMMA StartingKeepsStop == TypeOK /\ StopInv /\ (Starting \/ Holding) => StopInv'
<1> SUFFICES ASSUME TypeOK, StopInv, Starting \/ Holding PROVE StopInv'
  OBVIOUS
<1>1. CASE Create
  <2>1. pc = "new" /\ pc' = "gate" /\ ops' = ops
    BY <1>1 DEF Create, At, history
  <2>2. QED
    BY <2>1 DEF StopInv
<1>2. CASE StartUnreadable \/ OpenFails \/ HeldStop
  BY <1>2, FinishKeepsStop DEF StartUnreadable, OpenFails, HeldStop
<1>3. CASE (\E e \in Effects : GateStart(e)) \/ OpenEnds \/ Seed \/ RaiseNothing \/ RaiseHold
  <2>1. row' = row /\ ops' = ops /\ pc' \in {"open", "raise", "seed", "top", "held", "column"}
    BY <1>3 DEF GateStart, OpenEnds, Seed, RaiseNothing, RaiseHold, At, durable, history
  <2>2. QED
    BY <2>1, QuietKeepsStop DEF Elsewhere, Places, ResumePlaces
<1>4. CASE HoldColumn
  <2>1. ops' = ops /\ pc' = "held"
    BY <1>4 DEF HoldColumn, At, history
  <2>2. QED
    BY <1>4, <2>1, StateStays, QuietKeepsStop DEF Elsewhere, Places, ResumePlaces
<1>5. QED
  BY <1>1, <1>2, <1>3, <1>4 DEF Starting, Holding

\* A resume keeps the invariant: it lifts the row only if nobody stopped it since.
LEMMA ResumingKeepsStop == TypeOK /\ StopInv /\ Resuming => StopInv'
<1> SUFFICES ASSUME TypeOK, StopInv, Resuming PROVE StopInv'
  OBVIOUS
<1>1. ASSUME NEW h \in mem.todo, StillRefused(h) \/ DischargeHold(h) PROVE StopInv'
  <2>1. /\ row' = row /\ ops' = ops /\ pc = "regate" /\ pc' \in {"regate", "release"}
    BY <1>1 DEF StillRefused, DischargeHold, At, durable, history
  <2>2. mem'.state = mem.state
    BY <1>1, PartTypes DEF StillRefused, DischargeHold, Memories
  <2>3. QED
    BY <2>1, <2>2, ResumeStepKeepsStop DEF ResumePlaces
<1>2. CASE Release
  <2>1. row' = row /\ ops' = ops /\ pc = "release" /\ pc' = "regate"
    BY <1>2 DEF Release, At, history
  <2>2. mem'.state = mem.state
    BY <1>2, PartTypes DEF Release, Memories
  <2>3. QED
    BY <2>1, <2>2, ResumeStepKeepsStop DEF ResumePlaces
<1>3. CASE ResumeHeld
  <2>1. row'.state = "OWNER_HOLD" /\ ops' = ops /\ pc' = "down"
    BY <1>3, PartTypes DEF ResumeHeld, Rows, history
  <2>2. QED
    BY <2>1 DEF StopInv
<1>4. CASE HoldsCleared
  <2>1. ops' = ops /\ mem' = mem /\ pc = "regate" /\ pc' = "attach"
    BY <1>4 DEF HoldsCleared, At, history
  <2>2. QED
    BY <1>4, <2>1, StateStays, ResumeStepKeepsStop DEF ResumePlaces
<1>5. CASE \/ Attach \/ Reconciled
           \/ \E m \in 1..Len(ledger) : Confirm(m) \/ NotHeld(m) \/ CannotSay(m)
  <2>1. /\ row' = row /\ ops' = ops /\ mem' = mem /\ pc \in {"attach", "reconcile"}
        /\ pc' \in {"reconcile", "unreconcilable", "lift"}
    BY <1>5 DEF Attach, Reconciled, Confirm, NotHeld, CannotSay, At, durable, history
  <2>2. QED
    BY <2>1, ResumeStepKeepsStop DEF ResumePlaces
<1>6. CASE AttachFails \/ UnreconcilableStop \/ ResumeAtCeiling
  BY <1>6, FinishKeepsStop DEF AttachFails, UnreconcilableStop, ResumeAtCeiling
<1>7. CASE Lift
  <2>1. pc = "lift" /\ pc' \in {"top", "down"} /\ ops' = ops
    BY <1>7 DEF Lift, history
  <2>2. CASE row.state = mem.state /\ row.stop = mem.stop
    <3>1. ~ops.stopped
      BY <2>1, <2>2 DEF StopInv
    <3>2. QED
      BY <2>1, <3>1 DEF StopInv
  <2>3. CASE ~(row.state = mem.state /\ row.stop = mem.stop)
    <3>1. row' = row
      BY <1>7, <2>3 DEF Lift
    <3>2. QED
      BY <2>1, <3>1, QuietKeepsStop DEF Elsewhere, Places, ResumePlaces
  <2>4. QED
    BY <2>2, <2>3
<1>8. QED
  BY <1>1, <1>2, <1>3, <1>4, <1>5, <1>6, <1>7 DEF Resuming

\* Delivering a turn keeps the invariant: a turn is picked while the row runs, so
\* a stop finds at most one on its way.
LEMMA SendingKeepsStop == TypeOK /\ StopInv /\ Sending => StopInv'
<1> SUFFICES ASSUME TypeOK, StopInv, Sending PROVE StopInv'
  OBVIOUS
<1>1. CASE Leave \/ Await \/ CompleteDelivery
  <2>1. row' = row /\ ops' = ops /\ pc' \in {"down", "receive", "await"}
    BY <1>1 DEF Leave, Await, CompleteDelivery, At, durable, history
  <2>2. QED
    BY <2>1, QuietKeepsStop DEF Elsewhere, Places, ResumePlaces
<1>2. CASE StopAtCeiling \/ NothingToDo \/ SendFails
  BY <1>2, FinishKeepsStop DEF StopAtCeiling, NothingToDo, SendFails
<1>3. CASE Pick
  <2>1. row' = row /\ ops' = ops /\ pc' = "begin" /\ row.state = "RUNNING"
    BY <1>3 DEF Pick, Running, durable, history
  <2>2. ~ops.stopped /\ ops.after = 0
    BY <2>1 DEF StopInv
  <2>3. QED
    BY <2>1, <2>2 DEF StopInv
<1>4. CASE BeginDelivery
  <2>1. row' = row /\ ops' = ops /\ pc = "begin" /\ pc' = "send"
    BY <1>4 DEF BeginDelivery, At, history
  <2>2. QED
    BY <2>1 DEF StopInv
<1>5. CASE Send \/ SendUnacknowledged
  <2>1. Land /\ pc = "send" /\ pc' \in {"ack", "down"}
    BY <1>5 DEF Send, SendUnacknowledged, At
  <2>2. row'.state = row.state \/ row'.state = "FAILED"
    BY <1>5, PartTypes DEF Send, SendUnacknowledged, durable, Rows
  <2>3. ops.after = 0
    BY <2>1 DEF StopInv
  <2>4. CASE ops.stopped
    <3>1. ops' = [ops EXCEPT !.after = ops.after + 1]
      BY <2>1, <2>4 DEF Land
    <3>2. ops'.stopped /\ ops'.after = ops.after + 1
      BY <2>4, <3>1, PartTypes DEF Operator
    <3>3. row'.state # "RUNNING"
      BY <2>2, <2>4 DEF StopInv
    <3>4. QED
      BY <2>1, <2>3, <3>2, <3>3 DEF StopInv
  <2>5. CASE ~ops.stopped
    <3>1. ops' = [ops EXCEPT !.after = 0]
      BY <2>1, <2>5 DEF Land
    <3>2. ~ops'.stopped /\ ops'.after = 0
      BY <2>5, <3>1, PartTypes DEF Operator
    <3>3. QED
      BY <2>1, <3>2 DEF StopInv
  <2>6. QED
    BY <2>4, <2>5
<1>6. CASE MarkAwaiting
  <2>1. ops' = ops /\ pc' = "receive"
    BY <1>6 DEF MarkAwaiting, At, history
  <2>2. QED
    BY <1>6, <2>1, StateStays, QuietKeepsStop DEF Elsewhere, Places, ResumePlaces
<1>7. QED
  BY <1>1, <1>2, <1>3, <1>4, <1>5, <1>6 DEF Sending

\* Taking a reply keeps the invariant.
LEMMA HearingKeepsStop == TypeOK /\ StopInv /\ Hearing => StopInv'
<1> SUFFICES ASSUME TypeOK, StopInv, Hearing PROVE StopInv'
  OBVIOUS
<1>1. CASE ReceiveFails \/ NoTurnArrived \/ ProviderRefuses \/ StaysIncomplete
           \/ StaleReplay \/ Complete \/ StopUncorroborated \/ StopLoop
  BY <1>1, FinishKeepsStop DEF ReceiveFails, NoTurnArrived, ProviderRefuses,
     StaysIncomplete, StaleReplay, Complete, StopUncorroborated, StopLoop
<1>2. CASE Incomplete \/ (\E reply \in Replies : Receive(reply)) \/ RecordReply \/ ParkDirective
           \/ ClaimHolds \/ ClaimRefuted \/ HandBack \/ NextStep
  <2>1. row' = row /\ ops' = ops
    BY <1>2 DEF Incomplete, Receive, RecordReply, ParkDirective, ClaimHolds, ClaimRefuted,
                HandBack, NextStep, durable, history
  <2>2. pc' \in {"receive", "close", "park", "raise", "claim", "repeat", "complete",
                 "refuted", "top"}
    BY <1>2 DEF Incomplete, Receive, RecordReply, ParkDirective, ClaimHolds, ClaimRefuted,
                HandBack, NextStep, At
  <2>3. QED
    BY <2>1, <2>2, QuietKeepsStop DEF Elsewhere, Places, ResumePlaces
<1>3. CASE CloseTurn
  <2>1. ops' = ops /\ pc' = "record"
    BY <1>3 DEF CloseTurn, At, history
  <2>2. QED
    BY <1>3, <2>1, StateStays, QuietKeepsStop DEF Elsewhere, Places, ResumePlaces
<1>4. QED
  BY <1>1, <1>2, <1>3 DEF Hearing

\* A crash, a resume, another stop or a grant keeps the invariant.
LEMMA EnvironmentKeepsStop == TypeOK /\ StopInv /\ Environment => StopInv'
<1> SUFFICES ASSUME TypeOK, StopInv, Environment PROVE StopInv'
  OBVIOUS
<1>1. CASE Resume
  <2>1. /\ row' = row /\ ops' = [stopped |-> FALSE, after |-> 0]
        /\ pc' = "regate" /\ mem'.state = row.state
    BY <1>1 DEF Resume, At, durable, NoMem
  <2>2. QED
    BY <2>1 DEF StopInv
<1>2. CASE Crash
  <2>1. row' = row /\ ops' = ops /\ pc' = "down"
    BY <1>2 DEF Crash, durable, history
  <2>2. QED
    BY <2>1, QuietKeepsStop DEF Elsewhere, Places, ResumePlaces
<1>3. ASSUME NEW from \in SUBSET {"RUNNING", "PAUSED", "OWNER_HOLD"}, RequestStop(from)
      PROVE  StopInv'
  <2>1. pc # "new" /\ pc' = pc /\ mem' = mem
    BY <1>3 DEF RequestStop
  <2>2. CASE row.state \in from
    <3>1. row'.state = "STOPPED" /\ ops' = [stopped |-> TRUE, after |-> 0]
      BY <1>3, <2>2, PartTypes DEF RequestStop, Rows
    <3>2. row.state # "STOPPED"
      BY <2>2
    <3>3. QED
      BY <2>1, <3>1, <3>2 DEF StopInv
  <2>3. CASE row.state \notin from
    <3>1. row' = row /\ ops' = ops
      BY <1>3, <2>3 DEF RequestStop
    <3>2. QED
      BY <2>1, <3>1 DEF StopInv
  <2>4. QED
    BY <2>2, <2>3
<1>4. CASE FlipGrant \/ Expire \/ Rest
  <2>1. row' = row /\ ops' = ops /\ pc' = pc /\ mem' = mem
    BY <1>4 DEF FlipGrant, Expire, Rest, durable, history, vars
  <2>2. QED
    BY <2>1 DEF StopInv
<1>5. QED
  BY <1>1, <1>2, <1>3, <1>4 DEF Environment, CliStop, CoreStop

\* While a resume asks the ends, the row reads what it read or was stopped since.
THEOREM StopInvariant == Spec => []StopInv
<1>1. Init => StopInv
  <2> SUFFICES ASSUME Init PROVE StopInv
    OBVIOUS
  <2>1. pc = "new" /\ ops = [stopped |-> FALSE, after |-> 0]
    BY DEF Init
  <2>2. QED
    BY <2>1 DEF StopInv
<1>2. TypeOK /\ StopInv /\ [Next]_vars => StopInv'
  <2>1. ASSUME StopInv, UNCHANGED vars PROVE StopInv'
    BY <2>1 DEF StopInv, vars
  <2>2. QED
    BY <2>1, StartingKeepsStop, ResumingKeepsStop, SendingKeepsStop, HearingKeepsStop,
       EnvironmentKeepsStop DEF Next, Driver
<1>3. QED
  BY <1>1, <1>2, TypeCorrect, PTL DEF Spec

\* What follows ----------------------------------------------------------------

\* Only a resume forgets a stop, and it writes nothing.
LEMMA StopIsRemembered ==
    ASSUME TypeOK, [Next]_vars, ops.stopped, row' # row
    PROVE  ops'.stopped
<1>1. CASE Send \/ SendUnacknowledged
  BY <1>1, PartTypes DEF Send, SendUnacknowledged, Land, Operator
<1>2. CASE CliStop \/ CoreStop
  BY <1>2 DEF CliStop, CoreStop, RequestStop
<1>3. ASSUME ops' # ops, ~(Send \/ SendUnacknowledged), ~(CliStop \/ CoreStop) PROVE FALSE
  <2>1. Next
    BY <1>3 DEF vars
  <2>2. ~Starting /\ ~Holding
    BY <1>3 DEF Starting, Holding, Create, StartUnreadable, GateStart, OpenEnds, OpenFails,
       Seed, RaiseNothing, RaiseHold, HoldColumn, HeldStop, Finish, history
  <2>3. ~Resuming
    BY <1>3 DEF Resuming, StillRefused, DischargeHold, Release, ResumeHeld, HoldsCleared,
       Attach, AttachFails, Confirm, NotHeld, CannotSay, UnreconcilableStop, Reconciled,
       ResumeAtCeiling, Lift, Finish, history
  <2>4. ~Sending
    BY <1>3 DEF Sending, Leave, StopAtCeiling, Await, NothingToDo, Pick, BeginDelivery,
       SendFails, CompleteDelivery, MarkAwaiting, Finish, history
  <2>5. ~Hearing
    BY <1>3 DEF Hearing, ReceiveFails, NoTurnArrived, ProviderRefuses, StaysIncomplete,
       Incomplete, StaleReplay, Receive, CloseTurn, RecordReply, ParkDirective, ClaimHolds,
       Complete, ClaimRefuted, StopUncorroborated, HandBack, StopLoop, NextStep, Finish,
       history
  <2>6. ~Environment
    BY <1>3 DEF Environment, Resume, Crash, FlipGrant, Expire, Rest, durable, history, vars
  <2>7. QED
    BY <2>1, <2>2, <2>3, <2>4, <2>5, <2>6 DEF Next, Driver
<1>4. QED
  BY <1>1, <1>2, <1>3

\* A stop that took effect while a resume was asking the ends is not undone by it
\* (state.resume_running).
THEOREM StopStands == Spec => StopIsNotUndone
<1>1. TypeOK /\ StopInv /\ StopInv' /\ [Next]_vars
        => [row'.state = "RUNNING" => row.state = "RUNNING" \/ ~ops.stopped]_vars
  BY StopIsRemembered DEF StopInv
<1>2. QED
  BY <1>1, StopInvariant, TypeCorrect, PTL DEF Spec, StopIsNotUndone

\* After a stop took effect the ends hear at most the turn already on its way.
THEOREM AtMostOneTurnAfterStop == Spec => []OneTurnAfterStop
<1>1. StopInv => OneTurnAfterStop
  BY DEF StopInv, OneTurnAfterStop
<1>2. QED
  BY <1>1, StopInvariant, PTL

\* What the owner is owed ------------------------------------------------------

\* Between a refusal and its event, and between a discharge and the end of the resume
\* that asked again, the record is not yet complete.
Unsettled == {"park", "raise", "column", "regate", "release"}

\* Every refusal nobody has granted is on record, or in the hands of the driver.
OwedOnRecord ==
    owed = IF pc \in {"park", "raise"} /\ mem.due.effect # "unknown" THEN {mem.due} ELSE holds

\* The column says whether anything is on record; a resume that asks again keeps the
\* requirements it could not discharge.
ColumnSays ==
    /\ pc \notin {"column", "regate", "release"} => (row.hold <=> holds # {})
    /\ pc = "column" => holds # {}
    /\ pc \in {"regate", "release"} /\ mem.blocked => holds \ mem.todo # {}

\* A parked directive has its requirement on record, or a driver on its way there.
ParkedIsNamed ==
    Said > 0 /\ Last = "OWNER_HELD" /\ pc \notin {"raise", "release"} =>
        \/ ledger[Said].effect = "unknown"
        \/ \E h \in holds : h.gate = "directive" /\ h.msg = Said
ParkingIsNamed ==
    pc = "park" \/ (pc = "raise" /\ Said > 0 /\ Last = "OWNER_HELD") =>
        mem.due.gate = "directive" /\ mem.due.msg = Said /\ mem.due.effect = ledger[Said].effect

OwedInv == OwedOnRecord /\ ColumnSays /\ ParkedIsNamed /\ ParkingIsNamed

LEMMA OwedImplies == TypeOK /\ ConversationInv /\ OwedInv => HoldsAreWhatIsOwed
<1> SUFFICES ASSUME TypeOK, ConversationInv, OwedInv, pc = "down"
             PROVE  /\ holds = owed /\ (row.hold <=> holds # {})
                    /\ \A m \in InState({"OWNER_HELD"}) :
                           \/ ledger[m].effect = "unknown"
                           \/ \E h \in OutstandingOwnerHolds : h.gate = "directive" /\ h.msg = m
  BY DEF HoldsAreWhatIsOwed
<1>1. holds = owed /\ (row.hold <=> holds # {})
  BY DEF OwedInv, OwedOnRecord, ColumnSays
<1>2. ASSUME NEW m \in InState({"OWNER_HELD"}) PROVE m = Said /\ Said > 0 /\ Last = "OWNER_HELD"
  <2>1. m \in 1..Said /\ Said \in Nat /\ ledger[m].state = "OWNER_HELD"
    BY <1>2, Counting DEF InState, Said
  <2>2. ~(m < Said)
    BY <2>1 DEF ConversationInv, Settled
  <2> QED
    BY <2>1, <2>2 DEF Last
<1> QED
  BY <1>1, <1>2 DEF OwedInv, ParkedIsNamed, OutstandingOwnerHolds

\* A step that touches neither the ledger nor a decision.
LEMMA QuietOwed ==
    ASSUME OwedInv, UNCHANGED <<ledger, holds, owed>>, row'.hold = row.hold,
           pc \notin Unsettled, pc' \notin Unsettled
    PROVE  OwedInv'
<1>1. Said' = Said /\ Last' = Last
  BY DEF Said, Last
<1> QED
  BY <1>1
  DEF OwedInv, OwedOnRecord, ColumnSays, ParkedIsNamed, ParkingIsNamed, Unsettled

LEMMA FinishOwed ==
    ASSUME TypeOK, OwedInv, NEW s, NEW r, Finish(s, r), pc \notin Unsettled
    PROVE  OwedInv'
<1>1. row'.hold = row.hold
  BY PartTypes DEF Finish, Rows
<1> QED
  BY <1>1, QuietOwed DEF Finish, Unsettled

\* A delivery that moves the last turn to another state than OWNER_HELD.
LEMMA MarkOwed ==
    ASSUME TypeOK, OwedInv, Said > 0, NEW s \in DeliveryStates \ {"OWNER_HELD"}, Mark(Said, s),
           UNCHANGED <<row, transcript, holds, owed>>,
           pc \notin Unsettled, pc' \notin Unsettled
    PROVE  OwedInv'
<1>1. Last' = s
  BY MarkLast
<1> QED
  BY <1>1 DEF OwedInv, OwedOnRecord, ColumnSays, ParkedIsNamed, ParkingIsNamed, Unsettled

LEMMA StartingOwed ==
    ASSUME TypeOK, ConversationInv, OwedInv, Starting
    PROVE  OwedInv'
<1>1. CASE Create
  <2>1. row'.hold = row.hold
    BY <1>1, PartTypes DEF Create, Rows
  <2> QED
    BY <1>1, <2>1, QuietOwed DEF Create, At, history, Unsettled
<1>2. CASE StartUnreadable \/ OpenFails
  BY <1>2, FinishOwed DEF StartUnreadable, OpenFails, Unsettled
<1>3. ASSUME NEW e \in Effects, GateStart(e) PROVE OwedInv'
  <2>1. holds = {} /\ owed = {} /\ Said = 0 /\ Said' = 0 /\ ~row.hold
        /\ UNCHANGED <<row, ledger, holds>>
    BY <1>3
    DEF GateStart, Outside, ConversationInv, OneDecision, DriverKnows, Said, OwedInv, OwedOnRecord,
        ColumnSays
  <2>2. CASE Allowed(e)
    BY <1>3, <2>2, QuietOwed DEF GateStart, Unsettled
  <2>3. CASE ~Allowed(e)
    <3> DEFINE due == [gate |-> "start", effect |-> e, msg |-> 0]
    <3>1. pc' = "raise" /\ mem' = [mem EXCEPT !.due = due] /\ owed' = {due}
      BY <1>3, <2>1, <2>3 DEF GateStart
    <3>2. mem'.due = due /\ due.effect # "unknown"
      BY <1>3, <3>1, PartTypes DEF GateStart, Memories
    <3> HIDE DEF due
    <3> QED
      BY <2>1, <3>1, <3>2
      DEF OwedInv, OwedOnRecord, ColumnSays, ParkedIsNamed, ParkingIsNamed
  <2> QED
    BY <2>2, <2>3
<1>4. CASE OpenEnds
  BY <1>4, QuietOwed DEF OpenEnds, At, history, Unsettled
<1>5. CASE Seed
  <2>1. Last' = "OBSERVED"
    BY <1>5, RecordAppends DEF Seed, TypeOK, Said, Last
  <2> QED
    BY <1>5, <2>1
    DEF Seed, At, history, OwedInv, OwedOnRecord, ColumnSays, ParkedIsNamed, ParkingIsNamed
<1> QED
  BY <1>1, <1>2, <1>3, <1>4, <1>5 DEF Starting

LEMMA HoldingOwed ==
    ASSUME TypeOK, ConversationInv, OwedInv, Holding
    PROVE  OwedInv'
<1>1. CASE RaiseNothing
  <2>1. /\ holds = {} /\ owed = {} /\ pc = "raise" /\ pc' = "held" /\ ~row.hold
        /\ UNCHANGED <<row, ledger, holds, owed, mem>> /\ mem.due.effect = "unknown"
    BY <1>1
    DEF RaiseNothing, At, durable, history, ConversationInv, OneDecision, OwedInv, OwedOnRecord,
        ColumnSays
  <2>2. Said' = Said /\ Last' = Last
    BY <2>1 DEF Said, Last
  <2> QED
    BY <2>1, <2>2
    DEF OwedInv, OwedOnRecord, ColumnSays, ParkedIsNamed, ParkingIsNamed
<1>2. CASE RaiseHold
  <2>1. /\ holds = {} /\ holds' = {mem.due} /\ owed = {mem.due} /\ owed' = owed
        /\ pc = "raise" /\ pc' = "column" /\ UNCHANGED <<row, ledger, mem>>
    BY <1>2
    DEF RaiseHold, At, history, ConversationInv, OneDecision, OwedInv, OwedOnRecord
  <2>2. Said' = Said /\ Last' = Last
    BY <2>1 DEF Said, Last
  <2> QED
    BY <2>1, <2>2
    DEF OwedInv, OwedOnRecord, ColumnSays, ParkedIsNamed, ParkingIsNamed
<1>3. CASE HoldColumn
  <2>1. row'.hold = TRUE
    BY <1>3, PartTypes DEF HoldColumn, Rows
  <2>2. Said' = Said /\ Last' = Last
    BY <1>3 DEF HoldColumn, Said, Last
  <2> QED
    BY <1>3, <2>1, <2>2
    DEF HoldColumn, At, history, OwedInv, OwedOnRecord, ColumnSays, ParkedIsNamed, ParkingIsNamed
<1>4. CASE HeldStop
  BY <1>4, FinishOwed DEF HeldStop, Unsettled
<1> QED
  BY <1>1, <1>2, <1>3, <1>4 DEF Holding

LEMMA ResumingOwed ==
    ASSUME TypeOK, ConversationInv, OwedInv, Resuming
    PROVE  OwedInv'
<1>1. ASSUME NEW h \in mem.todo, StillRefused(h) PROVE OwedInv'
  <2>1. /\ pc = "regate" /\ pc' = "regate" /\ UNCHANGED <<row, ledger, holds, owed>>
        /\ mem'.todo = mem.todo \ {h}
    BY <1>1, PartTypes DEF StillRefused, At, durable, history, Memories
  <2>2. h \in holds
    BY <2>1 DEF ConversationInv, DriverKnows
  <2>3. Said' = Said /\ Last' = Last
    BY <2>1 DEF Said, Last
  <2> QED
    BY <2>1, <2>2, <2>3
    DEF OwedInv, OwedOnRecord, ColumnSays, ParkedIsNamed, ParkingIsNamed
<1>2. ASSUME NEW h \in mem.todo, DischargeHold(h) PROVE OwedInv'
  <2>1. /\ pc = "regate" /\ pc' = (IF h.msg = 0 THEN "regate" ELSE "release")
        /\ UNCHANGED <<row, ledger>> /\ holds' = holds \ {h} /\ owed' = owed \ {h}
        /\ mem'.todo = mem.todo \ {h} /\ mem'.blocked = mem.blocked
    BY <1>2, PartTypes DEF DischargeHold, Memories
  <2>2. h \in holds /\ holds = {h}
    BY <2>1 DEF ConversationInv, DriverKnows, OneDecision
  <2>3. ~mem.blocked
    BY <2>1, <2>2 DEF OwedInv, ColumnSays
  <2>4. Said' = Said /\ Last' = Last /\ Said \in Nat
    BY <2>1, Counting DEF Said, Last
  <2>5. ParkedIsNamed'
    BY <2>1, <2>2, <2>4 DEF OwedInv, ParkedIsNamed
  <2> QED
    BY <2>1, <2>2, <2>3, <2>4, <2>5 DEF OwedInv, OwedOnRecord, ColumnSays, ParkingIsNamed
<1>3. CASE Release
  <2>1. /\ pc = "release" /\ pc' = "regate" /\ Mark(Said, "OBSERVED") /\ Said > 0
        /\ UNCHANGED <<row, transcript, holds, owed>>
        /\ mem'.todo = mem.todo /\ mem'.blocked = mem.blocked
    BY <1>3, PartTypes DEF Release, At, Outside, history, ConversationInv, DriverKnows, Memories
  <2>2. Last' = "OBSERVED"
    BY <2>1, MarkLast DEF DeliveryStates
  <2> QED
    BY <2>1, <2>2
    DEF OwedInv, OwedOnRecord, ColumnSays, ParkedIsNamed, ParkingIsNamed
<1>4. CASE ResumeHeld
  <2>1. /\ pc = "regate" /\ pc' = "down" /\ UNCHANGED <<ledger, holds, owed>> /\ row'.hold = TRUE
        /\ mem.blocked
    BY <1>4, PartTypes DEF ResumeHeld, history, Rows
  <2>2. Said' = Said /\ Last' = Last
    BY <2>1 DEF Said, Last
  <2> QED
    BY <2>1, <2>2
    DEF OwedInv, OwedOnRecord, ColumnSays, ParkedIsNamed, ParkingIsNamed
<1>5. CASE HoldsCleared
  <2>1. /\ pc = "regate" /\ pc' = "attach" /\ UNCHANGED <<ledger, holds, owed>>
        /\ row'.hold = FALSE /\ holds = {}
    BY <1>5, PartTypes DEF HoldsCleared, At, history, Rows, ConversationInv, DriverKnows
  <2>2. Said' = Said /\ Last' = Last
    BY <2>1 DEF Said, Last
  <2> QED
    BY <2>1, <2>2
    DEF OwedInv, OwedOnRecord, ColumnSays, ParkedIsNamed, ParkingIsNamed
<1>6. CASE Attach \/ Reconciled
  BY <1>6, QuietOwed DEF Attach, Reconciled, At, durable, history, Unsettled
<1>7. CASE AttachFails \/ UnreconcilableStop \/ ResumeAtCeiling
  BY <1>7, FinishOwed DEF AttachFails, UnreconcilableStop, ResumeAtCeiling, Unsettled
<1>8. ASSUME NEW m \in 1..Len(ledger), Confirm(m) \/ NotHeld(m) \/ CannotSay(m)
      PROVE  OwedInv'
  <2>1. m \in 1..Said /\ Said \in Nat /\ ledger[m].state = "DELIVERING"
    BY <1>8, Counting DEF Confirm, NotHeld, CannotSay, InFlight, InState, Said
  <2>2. m = Said
    BY <2>1 DEF ConversationInv, Settled
  <2>3. PICK s \in {"CONFIRMED_AFTER_CRASH", "REDELIVERABLE", "UNRECONCILABLE"} : Mark(Said, s)
    BY <1>8, <2>2 DEF Confirm, NotHeld, CannotSay
  <2> QED
    BY <1>8, <2>1, <2>2, <2>3, MarkOwed
    DEF Confirm, NotHeld, CannotSay, At, Outside, history, Unsettled, DeliveryStates
<1>9. CASE Lift
  <2>1. row'.hold = row.hold
    BY <1>9, PartTypes DEF Lift, Rows
  <2> QED
    BY <1>9, <2>1, QuietOwed DEF Lift, history, Unsettled
<1> QED
  BY <1>1, <1>2, <1>3, <1>4, <1>5, <1>6, <1>7, <1>8, <1>9 DEF Resuming

LEMMA SendingOwed ==
    ASSUME TypeOK, ConversationInv, OwedInv, Sending
    PROVE  OwedInv'
<1>1. CASE Leave \/ Await \/ Pick \/ Send
  BY <1>1, QuietOwed DEF Leave, Await, Pick, Send, Running, At, durable, history, Unsettled
<1>2. CASE StopAtCeiling \/ NothingToDo \/ SendFails
  BY <1>2, FinishOwed DEF StopAtCeiling, NothingToDo, SendFails, Running, Unsettled
<1>3. CASE SendUnacknowledged \/ MarkAwaiting
  <2>1. row'.hold = row.hold
    BY <1>3, PartTypes DEF SendUnacknowledged, MarkAwaiting, Rows
  <2> QED
    BY <1>3, <2>1, QuietOwed DEF SendUnacknowledged, MarkAwaiting, At, history, Unsettled
<1>4. CASE BeginDelivery \/ CompleteDelivery
  <2>1. PICK s \in {"DELIVERING", "DELIVERED"} : Mark(Said, s) /\ Said > 0
    BY <1>4 DEF BeginDelivery, CompleteDelivery, At, ConversationInv, DriverKnows
  <2> QED
    BY <1>4, <2>1, MarkOwed
    DEF BeginDelivery, CompleteDelivery, At, Outside, history, Unsettled, DeliveryStates
<1> QED
  BY <1>1, <1>2, <1>3, <1>4 DEF Sending

LEMMA HearingOwed ==
    ASSUME TypeOK, ConversationInv, OwedInv, Hearing
    PROVE  OwedInv'
<1>1. CASE \/ ReceiveFails \/ NoTurnArrived \/ ProviderRefuses \/ StaysIncomplete \/ StaleReplay
           \/ Complete \/ StopUncorroborated \/ StopLoop
  BY <1>1, FinishOwed
  DEF ReceiveFails, NoTurnArrived, ProviderRefuses, StaysIncomplete, StaleReplay, Complete,
      StopUncorroborated, StopLoop, Unsettled
<1>2. CASE \/ Incomplete \/ ClaimHolds \/ ClaimRefuted \/ HandBack \/ NextStep
           \/ \E reply \in Replies : Receive(reply)
  BY <1>2, QuietOwed
  DEF Incomplete, ClaimHolds, ClaimRefuted, HandBack, NextStep, Receive, At, durable, history,
      Unsettled
<1>3. CASE CloseTurn
  <2>1. row'.hold = row.hold
    BY <1>3, PartTypes DEF CloseTurn, Rows
  <2> QED
    BY <1>3, <2>1, QuietOwed DEF CloseTurn, At, history, Unsettled
<1>4. CASE RecordReply
  <2> DEFINE id  == Len(ledger) + 1
             due == [gate |-> IF FromOrchestrator(id) THEN "directive" ELSE "observation",
                     effect |-> mem.reply.effect,
                     msg |-> IF FromOrchestrator(id) THEN id ELSE 0]
  <2>1. /\ pc = "record" /\ holds = {} /\ owed = {} /\ ~row.hold /\ Record(mem.reply)
        /\ UNCHANGED <<row, holds>>
    BY <1>4
    DEF RecordReply, ConversationInv, OneDecision, OwedInv, OwedOnRecord, ColumnSays
  <2>2. /\ Said' = id /\ Last' = "OBSERVED" /\ ledger'[Said'].effect = mem.reply.effect
    <3>1. Len(ledger') = id /\ ledger'[id].state = "OBSERVED"
      BY <2>1, RecordAppends, PartTypes
    <3>2. ledger'[id].effect = mem.reply.effect
      BY <2>1, PartTypes, AppendProperties DEF Record
    <3> QED
      BY <3>1, <3>2 DEF Said, Last
  <2>3. CASE Allowed(mem.reply.effect)
    <3>1. owed' = owed /\ pc' \in {"claim", "repeat"}
      BY <1>4, <2>3 DEF RecordReply
    <3> QED
      BY <2>1, <2>2, <3>1
      DEF OwedInv, OwedOnRecord, ColumnSays, ParkedIsNamed, ParkingIsNamed
  <2>4. CASE ~Allowed(mem.reply.effect)
    <3>1. /\ mem' = [mem EXCEPT !.cur = id, !.reply = Nothing, !.due = due]
          /\ owed' = IF due.effect # "unknown" THEN owed \cup {due} ELSE owed
          /\ pc' = IF FromOrchestrator(id) THEN "park" ELSE "raise"
      BY <1>4, <2>4 DEF RecordReply
    <3>2. mem'.due = due
      BY <3>1, PartTypes DEF Memories
    <3>3. OwedOnRecord' /\ ColumnSays' /\ ParkedIsNamed'
      BY <2>1, <2>2, <3>1, <3>2 DEF OwedOnRecord, ColumnSays, ParkedIsNamed
    <3>4. ParkingIsNamed'
      BY <2>2, <3>1, <3>2 DEF ParkingIsNamed
    <3> QED
      BY <3>3, <3>4 DEF OwedInv
  <2> QED
    BY <2>3, <2>4
<1>5. CASE ParkDirective
  <2>1. /\ pc = "park" /\ pc' = "raise" /\ Mark(Said, "OWNER_HELD") /\ Said > 0
        /\ UNCHANGED <<row, transcript, holds, owed, mem>>
    BY <1>5 DEF ParkDirective, At, Outside, history, ConversationInv, DriverKnows
  <2>2. Said' = Said /\ Last' = "OWNER_HELD"
    BY <2>1, MarkLast DEF DeliveryStates
  <2>3. ledger'[Said].effect = ledger[Said].effect
    <3>1. Said \in 1..Len(ledger) /\ ledger[Said] \in Turns /\ Said \in Nat
      BY <2>1, Counting, PartTypes, ElementOfSeq DEF Said
    <3>2. ledger'[Said] = [ledger[Said] EXCEPT !.state = "OWNER_HELD"]
      BY <2>1, <3>1 DEF Mark
    <3> QED
      BY <3>1, <3>2 DEF Turns
  <2> QED
    BY <2>1, <2>2, <2>3
    DEF OwedInv, OwedOnRecord, ColumnSays, ParkedIsNamed, ParkingIsNamed
<1> QED
  BY <1>1, <1>2, <1>3, <1>4, <1>5 DEF Hearing

\* The world around the driver, as long as the driver does not die.
LEMMA EnvironmentOwed ==
    ASSUME TypeOK, ConversationInv, OwedInv, Environment, ~Crash
    PROVE  OwedInv'
<1>1. CASE Resume
  <2>1. /\ pc = "down" /\ pc' = "regate" /\ UNCHANGED <<row, ledger, holds, owed>> /\ ~mem'.blocked
    BY <1>1 DEF Resume, At, durable, NoMem
  <2>2. Said' = Said /\ Last' = Last
    BY <2>1 DEF Said, Last
  <2> QED
    BY <2>1, <2>2
    DEF OwedInv, OwedOnRecord, ColumnSays, ParkedIsNamed, ParkingIsNamed
<1>2. ASSUME UNCHANGED <<ledger, holds, owed, pc, mem>>, row'.hold = row.hold PROVE OwedInv'
  <2>1. Said' = Said /\ Last' = Last
    BY <1>2 DEF Said, Last
  <2> QED
    BY <1>2, <2>1
    DEF OwedInv, OwedOnRecord, ColumnSays, ParkedIsNamed, ParkingIsNamed
<1>3. ASSUME NEW from, RequestStop(from) PROVE row'.hold = row.hold
  BY <1>3, PartTypes DEF RequestStop, Rows
<1>4. CASE CliStop \/ CoreStop
  BY <1>2, <1>3, <1>4 DEF CliStop, CoreStop, RequestStop
<1>5. CASE FlipGrant \/ Expire \/ Rest
  BY <1>2, <1>5 DEF FlipGrant, Expire, Rest, durable, history, vars
<1> QED
  BY <1>1, <1>4, <1>5 DEF Environment

\* Until a driver dies the record is complete.
Undisturbed == used.crashes = 0 => OwedInv

LEMMA CrashesAreCounted ==
    ASSUME TypeOK, [Next]_vars, used'.crashes = 0
    PROVE  used.crashes = 0 /\ ~Crash
<1>1. used \in Counters /\ used.crashes \in Nat
  BY PartTypes DEF Counters
<1>2. ~Crash
  <2>1. CASE Crash
    <3>1. used'.crashes = used.crashes + 1
      BY <1>1, <2>1 DEF Crash, Counters
    <3> QED
      BY <1>1, <3>1
  <2> QED
    BY <2>1
<1>3. CASE Starting \/ Holding
  BY <1>2, <1>3
  DEF Starting, Holding, Create, StartUnreadable, GateStart, OpenEnds, OpenFails, Seed,
      RaiseNothing, RaiseHold, HoldColumn, HeldStop, Finish, Outside
<1>4. CASE Resuming
  BY <1>2, <1>4
  DEF Resuming, StillRefused, DischargeHold, Release, ResumeHeld, HoldsCleared, Attach,
      AttachFails, Confirm, NotHeld, CannotSay, UnreconcilableStop, Reconciled, ResumeAtCeiling,
      Lift, Finish, Outside
<1>5. CASE Sending
  BY <1>2, <1>5
  DEF Sending, Leave, StopAtCeiling, Await, NothingToDo, Pick, BeginDelivery, Send,
      SendUnacknowledged, SendFails, CompleteDelivery, MarkAwaiting, Finish, Outside
<1>6. CASE Hearing
  BY <1>2, <1>6
  DEF Hearing, ReceiveFails, NoTurnArrived, ProviderRefuses, StaysIncomplete, Incomplete,
      StaleReplay, Receive, CloseTurn, RecordReply, ParkDirective, ClaimHolds, Complete,
      ClaimRefuted, StopUncorroborated, HandBack, StopLoop, NextStep, Finish, Outside
<1>7. CASE Resume \/ CliStop \/ CoreStop \/ FlipGrant
  <2>1. used'.crashes = used.crashes
    BY <1>1, <1>7 DEF Resume, CliStop, CoreStop, RequestStop, FlipGrant, Counters
  <2> QED
    BY <1>2, <2>1
<1>8. CASE Expire \/ Rest \/ UNCHANGED vars
  BY <1>2, <1>8 DEF Expire, Rest, vars
<1> QED
  BY <1>2, <1>3, <1>4, <1>5, <1>6, <1>7, <1>8 DEF Next, Driver, Environment

LEMMA StepKeepsOwed == TypeOK /\ ConversationInv /\ Undisturbed /\ [Next]_vars => Undisturbed'
<1> SUFFICES ASSUME TypeOK, ConversationInv, Undisturbed, [Next]_vars, used'.crashes = 0
             PROVE  OwedInv'
  BY DEF Undisturbed
<1>1. OwedInv /\ ~Crash
  BY CrashesAreCounted DEF Undisturbed
<1>2. CASE UNCHANGED vars
  <2>1. UNCHANGED <<row, ledger, holds, owed, pc, mem>>
    BY <1>2 DEF vars
  <2>2. Said' = Said /\ Last' = Last
    BY <2>1 DEF Said, Last
  <2> QED
    BY <1>1, <2>1, <2>2
    DEF OwedInv, OwedOnRecord, ColumnSays, ParkedIsNamed, ParkingIsNamed
<1>3. CASE Next
  BY <1>1, <1>3, StartingOwed, HoldingOwed, ResumingOwed, SendingOwed, HearingOwed,
     EnvironmentOwed
  DEF Next, Driver
<1> QED
  BY <1>2, <1>3

\* As long as no driver has died, whatever is refused at whichever gate and whatever
\* the owner grants or takes back: a relay at rest has on record exactly the refusals
\* nobody has granted, its owner_hold column says so, and no directive is parked
\* without a requirement that names it (kernel.py's _raise_owner_hold,
\* _release_owner_held; a crash between its writes breaks this, see the README).
THEOREM NothingOwedIsLost == Spec => []HoldsAreWhatIsOwed
<1>1. Init => Undisturbed
  <2> SUFFICES ASSUME Init PROVE OwedInv
    BY DEF Undisturbed
  <2>1. Said = 0 /\ holds = {} /\ owed = {} /\ pc = "new" /\ row.hold = FALSE
    BY DEF Init, Said
  <2> QED
    BY <2>1 DEF OwedInv, OwedOnRecord, ColumnSays, ParkedIsNamed, ParkingIsNamed
<1>2. TypeOK /\ ConversationInv /\ Undisturbed => HoldsAreWhatIsOwed
  BY OwedImplies DEF Undisturbed, HoldsAreWhatIsOwed
<1> QED
  BY <1>1, <1>2, StepKeepsOwed, TypeCorrect, ConversationInvariant, PTL DEF Spec

=================================================================================
