------------------------------ MODULE RelayKernel ------------------------------
(***************************************************************************)
(* Relay Mode's kernel (relay/kernel.py), the durable record it writes     *)
(* (relay/state.py) and the gates it consults (relay/effects.py).          *)
(*                                                                         *)
(* One process drives a relay at a time.  It carries turns between the     *)
(* orchestrator and the execution agent, writing every move to the record  *)
(* before or after making it, and may die between any two of those writes; *)
(* `relay resume` starts another driver from the record alone.             *)
(*                                                                         *)
(* Turns are numbered in ledger order: 1 is the opening packet, an even    *)
(* turn comes from the orchestrator, an odd one after the first from the   *)
(* execution agent.  A turn is delivered to the end that did not write it. *)
(***************************************************************************)
EXTENDS Integers, Sequences, FiniteSets

CONSTANTS
    MaxExchanges,          \* RelayConfig.max_exchanges
    IncompleteRetryLimit,  \* RelayConfig.incomplete_retry_limit
    RepeatLimit,           \* RelayConfig.repeat_limit
    CompletionLimit,       \* RelayConfig.completion_attempt_limit
    Texts,                 \* what a turn may say, up to its digest
    Effects,               \* the effects turns of this run ask for or show
    Claims,                \* whether the orchestrator may claim completion
    Askable,               \* the ends that can be asked what they hold
    MaxCrashes, MaxResumes, MaxStops, MaxFlips,  \* bounds on the environment
    MayExpire              \* whether max_duration_s may run out

\* An effect is within the profile ("edit"), carried by the profile but owner
\* gated ("gated"), outside the profile ("outside"), or not one this build can
\* name or measure ("unknown").
EffectClasses == {"edit", "gated", "outside", "unknown"}

ASSUME LimitsAssumption ==
    /\ MaxExchanges \in Nat /\ IncompleteRetryLimit \in Nat
    /\ RepeatLimit \in Nat /\ CompletionLimit \in Nat
ASSUME ChoicesAssumption ==
    /\ "edit" \in Effects /\ Effects \subseteq EffectClasses
    /\ FALSE \in Claims /\ Claims \subseteq BOOLEAN
    /\ Askable \subseteq {"ORCHESTRATOR", "EXECUTION"}
ASSUME BoundsAssumption ==
    /\ MaxCrashes \in Nat /\ MaxResumes \in Nat
    /\ MaxStops \in Nat /\ MaxFlips \in Nat /\ MayExpire \in BOOLEAN

VARIABLES
    row,         \* the relay's row: state, stop_reason, exchange_no, owner_hold, awaiting
    ledger,      \* the relay's messages, oldest first, with their delivery state
    holds,       \* HOLD_RAISED events not followed by their HOLD_DISCHARGED
    refusals,    \* completion claims the event log counts as refused
    transcript,  \* the turns the ends have taken in, in order (outside the relay)
    granted,     \* whether a live owner grant covers the gated effect
    expired,     \* whether max_duration_s has passed since the start
    pc, mem,     \* the driving process: where it is and what it holds in memory
    owed,        \* history: refusals for want of authority that nobody has granted since
    ops,         \* history: an operator stop that took effect, and the sends after it
    used         \* how much of each environment bound is used up

durable == <<row, ledger, holds, refusals>>
history == <<owed, ops>>
vars == <<row, ledger, holds, refusals, transcript, granted, expired, pc, mem,
          owed, ops, used>>

\* Columns and helpers -------------------------------------------------------

Replies == [effect : Effects, claim : Claims, text : Texts]
Nothing == [effect |-> "edit", claim |-> FALSE, text |-> "seed"]
NoDue   == [gate |-> "none", effect |-> "edit", msg |-> 0]
Gates   == {"none", "start", "directive", "observation"}
Requirements == [gate : Gates, effect : EffectClasses, msg : Nat]

\* A process that has just begun, or is gone, holds nothing.
NoMem == [cur |-> 0, tries |-> 0, reply |-> Nothing, due |-> NoDue,
          state |-> "", stop |-> "", todo |-> {}, blocked |-> FALSE]

FromOrchestrator(m) == m % 2 = 0
Target(m) == IF FromOrchestrator(m) THEN "EXECUTION" ELSE "ORCHESTRATOR"

InState(S)  == {m \in 1..Len(ledger) : ledger[m].state \in S}
Undelivered == InState({"OBSERVED", "REDELIVERABLE"})
Earliest(S) == CHOOSE m \in S : \A n \in S : m <= n
Mark(m, s)  == ledger' = [ledger EXCEPT ![m].state = s]

\* authority.require as the gates use it: the profile must carry the effect,
\* and a gated one needs a grant that is in force now.
Allowed(e) == e = "edit" \/ (e = "gated" /\ granted)

\* Definitions named Slip... are slips of this code that a property must catch;
\* nothing uses them.

AtCeiling == row.xno >= MaxExchanges \/ expired

\* The last RepeatLimit + 1 turns of m's direction all say the same.
Repeats(m) == \A k \in 1..RepeatLimit :
                 m - 2 * k > 1 /\ ledger[m - 2 * k].text = ledger[m].text

\* What the owner must decide before this relay may continue.  The column is a
\* second witness for rows older than the events; here it is set after one.
OutstandingOwnerHolds == holds

\* _finish: the row names the stop whatever it said before, and the driver ends.
Finish(s, r) == /\ row' = [row EXCEPT !.state = s, !.stop = r]
                /\ pc' = "down" /\ mem' = NoMem
                /\ UNCHANGED <<ledger, holds, refusals, transcript, granted, expired,
                               owed, ops, used>>

At(here, there) == pc = here /\ pc' = there

\* What the relay leaves alone in a step that writes one part of its record.
Outside == <<transcript, granted, expired, used>>

Init == /\ row = [state |-> "NONE", stop |-> "", xno |-> 0, hold |-> FALSE, awaiting |-> 0]
        /\ ledger = <<>> /\ holds = {} /\ refusals = 0 /\ transcript = <<>>
        /\ granted \in BOOLEAN /\ expired = FALSE
        /\ pc = "new" /\ mem = NoMem
        /\ owed = {} /\ ops = [stopped |-> FALSE, after |-> 0]
        /\ used = [crashes |-> 0, resumes |-> 0, stops |-> 0, flips |-> 0]

\* start ---------------------------------------------------------------------

\* The row is created RUNNING before anything is checked.
Create == /\ At("new", "gate")
          /\ row' = [row EXCEPT !.state = "RUNNING"]
          /\ UNCHANGED <<ledger, holds, refusals, mem, history, Outside>>

\* The project root is not a readable working tree.
StartUnreadable == pc = "gate" /\ Finish("FAILED", "START_REFUSED")

\* gate_start asks only for the capabilities to read and write the tree: the
\* profile carries them or it does not.
GateStart(e) ==
    /\ pc = "gate" /\ e \in Effects \cap {"edit", "outside"}
    /\ IF Allowed(e)
       THEN pc' = "open" /\ UNCHANGED <<mem, owed>>
       ELSE LET due == [gate |-> "start", effect |-> e, msg |-> 0]
            IN pc' = "raise" /\ mem' = [mem EXCEPT !.due = due] /\ owed' = owed \cup {due}
    /\ UNCHANGED <<row, ledger, holds, refusals, ops, Outside>>

\* Both ends are opened and their models probed.
OpenEnds == /\ At("open", "seed")
            /\ UNCHANGED <<row, ledger, holds, refusals, mem, history, Outside>>
OpenFails == /\ pc = "open"
             /\ \E r \in {"DISCONNECTED", "MODEL_UNUSABLE"} : Finish("FAILED", r)

Record(reply) == ledger' = Append(ledger, [state |-> "OBSERVED", effect |-> reply.effect,
                                           claim |-> reply.claim, text |-> reply.text])

Seed == /\ At("seed", "top")
        /\ Record(Nothing)
        /\ UNCHANGED <<row, holds, refusals, mem, history, Outside>>

\* _raise_owner_hold and the stop that follows it --------------------------

\* A refusal that names no capability is logged and leaves no requirement.
RaiseNothing == /\ At("raise", "held")
                /\ mem.due.effect = "unknown"
                /\ UNCHANGED <<durable, mem, history, Outside>>

\* The event first; a requirement already open under this id is renewed.
RaiseHold == /\ At("raise", "column")
             /\ mem.due.effect # "unknown"
             /\ holds' = {h \in holds : h.gate # mem.due.gate \/ h.effect # mem.due.effect}
                            \cup {mem.due}
             /\ UNCHANGED <<row, ledger, refusals, mem, history, Outside>>

HoldColumn == /\ At("column", "held")
              /\ row' = [row EXCEPT !.hold = TRUE]
              /\ UNCHANGED <<ledger, holds, refusals, mem, history, Outside>>

HeldStop == /\ pc = "held"
            /\ Finish("OWNER_HOLD",
                      IF mem.due.gate = "start" THEN "START_REFUSED" ELSE "OWNER_HOLD")

\* resume --------------------------------------------------------------------

\* A new process reads the row before it writes anything.
Resume == /\ At("down", "regate")
          /\ used.resumes < MaxResumes
          /\ mem' = [NoMem EXCEPT !.state = row.state, !.stop = row.stop,
                                  !.todo = OutstandingOwnerHolds]
          /\ ops' = [stopped |-> FALSE, after |-> 0]
          /\ used' = [used EXCEPT !.resumes = @ + 1]
          /\ UNCHANGED <<durable, transcript, granted, expired, owed>>

\* _release_owner_held: every outstanding requirement is asked again, now.
StillRefused(h) == /\ At("regate", "regate")
                   /\ h \in mem.todo /\ ~Allowed(h.effect)
                   /\ mem' = [mem EXCEPT !.todo = @ \ {h}, !.blocked = TRUE]
                   /\ UNCHANGED <<durable, history, Outside>>

SlipDischargeUngranted(h) ==
    /\ pc = "regate" /\ h \in mem.todo
    /\ holds' = holds \ {h}
    /\ owed' = owed \ {h}
    /\ mem' = [mem EXCEPT !.todo = @ \ {h}, !.cur = h.msg]
    /\ pc' = IF h.msg = 0 THEN "regate" ELSE "release"
    /\ UNCHANGED <<row, ledger, refusals, ops, Outside>>

SlipDischargeOnly(h) ==
    /\ At("regate", "regate") /\ h \in mem.todo /\ Allowed(h.effect)
    /\ holds' = holds \ {h}
    /\ owed' = owed \ {h}
    /\ mem' = [mem EXCEPT !.todo = @ \ {h}]
    /\ UNCHANGED <<row, ledger, refusals, ops, Outside>>

DischargeHold(h) ==
    /\ pc = "regate" /\ h \in mem.todo /\ Allowed(h.effect)
    /\ holds' = holds \ {h}
    /\ owed' = owed \ {h}
    /\ mem' = [mem EXCEPT !.todo = @ \ {h}, !.cur = h.msg]
    /\ pc' = IF h.msg = 0 THEN "regate" ELSE "release"
    /\ UNCHANGED <<row, ledger, refusals, ops, Outside>>

\* The directive the gate refused goes back into the delivery queue.
Release == /\ At("release", "regate")
           /\ Mark(mem.cur, "OBSERVED")
           /\ mem' = [mem EXCEPT !.cur = 0]
           /\ UNCHANGED <<row, holds, refusals, history, Outside>>

ResumeHeld == /\ pc = "regate" /\ mem.todo = {} /\ mem.blocked
              /\ row' = [row EXCEPT !.hold = TRUE, !.state = "OWNER_HOLD", !.stop = "OWNER_HOLD"]
              /\ pc' = "down" /\ mem' = NoMem
              /\ UNCHANGED <<ledger, holds, refusals, history, Outside>>

SlipHoldsIgnored == /\ At("regate", "attach")
                    /\ mem.todo = {}
                    /\ row' = [row EXCEPT !.hold = FALSE]
                    /\ UNCHANGED <<ledger, holds, refusals, mem, history, Outside>>

SlipColumnKept == /\ At("regate", "attach")
                  /\ mem.todo = {} /\ ~mem.blocked
                  /\ UNCHANGED <<durable, mem, history, Outside>>

HoldsCleared == /\ At("regate", "attach")
                /\ mem.todo = {} /\ ~mem.blocked
                /\ row' = [row EXCEPT !.hold = FALSE]
                /\ UNCHANGED <<ledger, holds, refusals, mem, history, Outside>>

Attach == /\ At("attach", "reconcile")
          /\ UNCHANGED <<durable, mem, history, Outside>>
AttachFails == pc = "attach" /\ Finish("FAILED", "DISCONNECTED")

\* reconcile: every delivery a dead process left in flight is asked about ----

InFlight == InState({"DELIVERING"})

Confirm(m) == /\ At("reconcile", "reconcile")
              /\ m \in InFlight /\ m = Earliest(InFlight)
              /\ Target(m) \in Askable
              /\ \E k \in 1..Len(transcript) : transcript[k] = m
              /\ Mark(m, "CONFIRMED_AFTER_CRASH")
              /\ UNCHANGED <<row, holds, refusals, mem, history, Outside>>

SlipAssumeNotHeld(m) == /\ At("reconcile", "reconcile")
                        /\ m \in InFlight /\ m = Earliest(InFlight)
                        /\ Mark(m, "REDELIVERABLE")
                        /\ UNCHANGED <<row, holds, refusals, mem, history, Outside>>

NotHeld(m) == /\ At("reconcile", "reconcile")
              /\ m \in InFlight /\ m = Earliest(InFlight)
              /\ Target(m) \in Askable
              /\ \A k \in 1..Len(transcript) : transcript[k] # m
              /\ Mark(m, "REDELIVERABLE")
              /\ UNCHANGED <<row, holds, refusals, mem, history, Outside>>

SlipAskAgain(m) == /\ At("reconcile", "reconcile")
                   /\ m \in InFlight /\ m = Earliest(InFlight)
                   /\ UNCHANGED <<durable, mem, history, Outside>>

\* The end cannot be asked, or asking it failed.
CannotSay(m) == /\ At("reconcile", "unreconcilable")
                /\ m \in InFlight /\ m = Earliest(InFlight)
                /\ Mark(m, "UNRECONCILABLE")
                /\ UNCHANGED <<row, holds, refusals, mem, history, Outside>>

UnreconcilableStop == pc = "unreconcilable" /\ Finish("PAUSED", "UNRECONCILABLE_DELIVERY")

Reconciled == /\ At("reconcile", "lift")
              /\ InFlight = {}
              /\ UNCHANGED <<durable, mem, history, Outside>>

ResumeAtCeiling == pc = "lift" /\ AtCeiling /\ Finish("STOPPED", "CEILING")

SlipLift == /\ At("lift", "top") /\ ~AtCeiling
            /\ row' = [row EXCEPT !.state = "RUNNING", !.stop = ""]
            /\ mem' = NoMem
            /\ UNCHANGED <<ledger, holds, refusals, history, Outside>>

\* resume_running: only while the row still reads what this resume read.
Lift == /\ pc = "lift" /\ ~AtCeiling
        /\ IF row.state = mem.state /\ row.stop = mem.stop
           THEN row' = [row EXCEPT !.state = "RUNNING", !.stop = ""] /\ pc' = "top"
           ELSE row' = row /\ pc' = "down"
        /\ mem' = NoMem
        /\ UNCHANGED <<ledger, holds, refusals, history, Outside>>

\* step: one message each way ------------------------------------------------

\* The row no longer says RUNNING, or --max-steps is spent: nothing is written.
Leave == /\ At("top", "down")
         /\ mem' = NoMem
         /\ UNCHANGED <<durable, history, Outside>>

SlipRunning == pc = "top"
Running == pc = "top" /\ row.state = "RUNNING"

StopAtCeiling == Running /\ AtCeiling /\ Finish("STOPPED", "CEILING")

\* A turn was outstanding when the last process died: take it up again.
Await == /\ Running /\ ~AtCeiling /\ row.awaiting # 0
         /\ pc' = "receive"
         /\ mem' = [NoMem EXCEPT !.cur = row.awaiting]
         /\ UNCHANGED <<durable, history, Outside>>

NothingToDo == /\ Running /\ ~AtCeiling /\ row.awaiting = 0 /\ Undelivered = {}
               /\ Finish("STOPPED", "NO_PROGRESS")

Pick == /\ Running /\ ~AtCeiling /\ row.awaiting = 0 /\ Undelivered # {}
        /\ pc' = "begin"
        /\ mem' = [NoMem EXCEPT !.cur = Earliest(Undelivered)]
        /\ UNCHANGED <<durable, history, Outside>>

BeginDelivery == /\ At("begin", "send")
                 /\ Mark(mem.cur, "DELIVERING")
                 /\ UNCHANGED <<row, holds, refusals, mem, history, Outside>>

\* The end takes the message in; the receipt may still be lost on the way back.
Land == /\ transcript' = Append(transcript, mem.cur)
        /\ ops' = [ops EXCEPT !.after = IF ops.stopped THEN @ + 1 ELSE 0]

Send == /\ At("send", "ack") /\ Land
        /\ UNCHANGED <<durable, mem, granted, expired, owed, used>>

SendUnacknowledged == /\ pc = "send" /\ Land
                      /\ row' = [row EXCEPT !.state = "FAILED", !.stop = "DISCONNECTED"]
                      /\ pc' = "down" /\ mem' = NoMem
                      /\ UNCHANGED <<ledger, holds, refusals, granted, expired, owed, used>>

SendFails == pc = "send" /\ Finish("FAILED", "DISCONNECTED")

CompleteDelivery == /\ At("ack", "await")
                    /\ Mark(mem.cur, "DELIVERED")
                    /\ UNCHANGED <<row, holds, refusals, mem, history, Outside>>

\* Written before the wait, so that the outstanding turn survives the process.
MarkAwaiting == /\ At("await", "receive")
                /\ row' = [row EXCEPT !.xno = @ + 1, !.awaiting = mem.cur]
                /\ UNCHANGED <<ledger, holds, refusals, mem, history, Outside>>

\* take the reply: only the receive is retried, never the send --------------

ReceiveFails == pc = "receive" /\ Finish("FAILED", "DISCONNECTED")

\* No turn within the timeout, or an incomplete one from an end that is gone.
NoTurnArrived == pc = "receive" /\ Finish("PAUSED", "DISCONNECTED")

\* An incomplete turn is never forwarded.  The provider refuses a probe, or the
\* attempts are spent; otherwise the end is read again.
ProviderRefuses == pc = "receive" /\ Finish("PAUSED", "MODEL_UNUSABLE")
StaysIncomplete == /\ pc = "receive" /\ mem.tries >= IncompleteRetryLimit
                   /\ Finish("PAUSED", "INCOMPLETE")
SlipCountDown == /\ At("receive", "receive")
                 /\ mem.tries < IncompleteRetryLimit
                 /\ mem' = [mem EXCEPT !.tries = @ - 1]
                 /\ UNCHANGED <<durable, history, Outside>>

Incomplete == /\ At("receive", "receive")
              /\ mem.tries < IncompleteRetryLimit
              /\ mem' = [mem EXCEPT !.tries = @ + 1]
              /\ UNCHANGED <<durable, history, Outside>>

\* The end hands back a turn the ledger already has: one of its earlier ones.
StaleReplay == /\ pc = "receive" /\ Len(ledger) >= 3
               /\ Finish("STOPPED", "NO_PROGRESS")

Receive(reply) == /\ At("receive", "close")
                  /\ FromOrchestrator(mem.cur) => ~reply.claim
                  /\ mem' = [mem EXCEPT !.reply = reply]
                  /\ UNCHANGED <<durable, history, Outside>>

\* The turn is closed once a new completed reply is in hand, and not before.
CloseTurn == /\ At("close", "record")
             /\ row' = [row EXCEPT !.awaiting = 0]
             /\ UNCHANGED <<ledger, holds, refusals, mem, history, Outside>>

\* Record first, hold second.  The gate is asked with the grants in force now:
\* what the orchestrator asks for, or what the repository shows was done.
RecordReply ==
    LET id      == Len(ledger) + 1
        said    == FromOrchestrator(id)
        refused == ~Allowed(mem.reply.effect)
        due     == [gate |-> IF said THEN "directive" ELSE "observation",
                    effect |-> mem.reply.effect, msg |-> IF said THEN id ELSE 0]
    IN /\ pc = "record"
       /\ Record(mem.reply)
       /\ mem' = [mem EXCEPT !.cur = id, !.reply = Nothing, !.due = IF refused THEN due ELSE @]
       /\ owed' = IF refused /\ due.effect # "unknown" THEN owed \cup {due} ELSE owed
       /\ pc' = CASE refused /\ said          -> "park"
                  [] refused /\ ~said         -> "raise"
                  [] ~refused /\ mem.reply.claim  -> "claim"
                  [] ~refused /\ ~mem.reply.claim -> "repeat"
       /\ UNCHANGED <<row, holds, refusals, ops, Outside>>

\* A refused directive leaves the delivery queue before the hold is recorded.
ParkDirective == /\ At("park", "raise")
                 /\ Mark(mem.cur, "OWNER_HELD")
                 /\ UNCHANGED <<row, holds, refusals, mem, history, Outside>>

\* A completion claim is measured before it is believed: the checks agree, or
\* there are none; or one disagrees or cannot be run, and that is counted.
ClaimHolds == /\ At("claim", "complete")
              /\ UNCHANGED <<durable, mem, history, Outside>>
Complete == pc = "complete" /\ Finish("STOPPED", "OBJECTIVE_COMPLETE")

ClaimRefuted == /\ At("claim", "refuted")
                /\ refusals' = refusals + 1
                /\ UNCHANGED <<row, ledger, holds, mem, history, Outside>>

TooManyRefusals == refusals >= CompletionLimit /\ refusals >= 1
StopUncorroborated == /\ pc = "refuted" /\ TooManyRefusals
                      /\ Finish("PAUSED", "COMPLETION_UNCORROBORATED")
HandBack == /\ At("refuted", "repeat") /\ ~TooManyRefusals
            /\ UNCHANGED <<durable, mem, history, Outside>>

StopLoop == pc = "repeat" /\ Repeats(mem.cur) /\ Finish("STOPPED", "LOOP")
NextStep == /\ At("repeat", "top") /\ ~Repeats(mem.cur)
            /\ mem' = NoMem
            /\ UNCHANGED <<durable, history, Outside>>

\* the world around the driver ------------------------------------------------

\* The process dies; the record and the ends stay as they are.
Crash == /\ pc \notin {"new", "down"} /\ used.crashes < MaxCrashes
         /\ pc' = "down" /\ mem' = NoMem
         /\ used' = [used EXCEPT !.crashes = @ + 1]
         /\ UNCHANGED <<durable, transcript, granted, expired, history>>

\* request_stop: one conditional write, from another process.
RequestStop(from) ==
    /\ pc # "new" /\ used.stops < MaxStops
    /\ used' = [used EXCEPT !.stops = @ + 1]
    /\ IF row.state \in from
       THEN /\ row' = [row EXCEPT !.state = "STOPPED", !.stop = "STOPPED_BY_OPERATOR"]
            /\ ops' = [stopped |-> TRUE, after |-> 0]
       ELSE UNCHANGED <<row, ops>>
    /\ UNCHANGED <<ledger, holds, refusals, transcript, granted, expired, pc, mem, owed>>

CliStop  == RequestStop({"RUNNING"})                          \* relay stop
CoreStop == RequestStop({"RUNNING", "PAUSED", "OWNER_HOLD"})  \* Core's relay.stop

\* The owner signs a grant, or it is revoked or runs out.
FlipGrant == /\ used.flips < MaxFlips
             /\ granted' = ~granted
             /\ used' = [used EXCEPT !.flips = @ + 1]
             /\ UNCHANGED <<durable, transcript, expired, pc, mem, history>>

Expire == /\ MayExpire /\ ~expired /\ pc # "new"
          /\ expired' = TRUE
          /\ UNCHANGED <<durable, transcript, granted, pc, mem, history, used>>

\* A relay at rest waits for whoever resumes it, perhaps forever.
Rest == pc = "down" /\ UNCHANGED vars

\* ---------------------------------------------------------------------------

Starting == Create \/ StartUnreadable \/ (\E e \in Effects : GateStart(e))
            \/ OpenEnds \/ OpenFails \/ Seed
Holding  == RaiseNothing \/ RaiseHold \/ HoldColumn \/ HeldStop
Resuming == \/ \E h \in mem.todo : StillRefused(h) \/ DischargeHold(h)
            \/ Release \/ ResumeHeld \/ HoldsCleared \/ Attach \/ AttachFails
            \/ \E m \in 1..Len(ledger) : Confirm(m) \/ NotHeld(m) \/ CannotSay(m)
            \/ UnreconcilableStop \/ Reconciled \/ ResumeAtCeiling \/ Lift
Sending  == \/ Leave \/ StopAtCeiling \/ Await \/ NothingToDo \/ Pick
            \/ BeginDelivery \/ Send \/ SendUnacknowledged \/ SendFails
            \/ CompleteDelivery \/ MarkAwaiting
Hearing  == \/ ReceiveFails \/ NoTurnArrived \/ ProviderRefuses \/ StaysIncomplete
            \/ Incomplete \/ StaleReplay
            \/ \E reply \in Replies : Receive(reply)
            \/ CloseTurn \/ RecordReply \/ ParkDirective \/ ClaimHolds \/ Complete
            \/ ClaimRefuted \/ StopUncorroborated \/ HandBack \/ StopLoop \/ NextStep

Driver      == Starting \/ Holding \/ Resuming \/ Sending \/ Hearing
Environment == Resume \/ Crash \/ CliStop \/ CoreStop \/ FlipGrant \/ Expire \/ Rest

Next == Driver \/ Environment
Spec == Init /\ [][Next]_vars
FairSpec == Spec /\ WF_vars(Driver)

\* Properties ----------------------------------------------------------------

RowStates == {"NONE", "RUNNING", "PAUSED", "OWNER_HOLD", "STOPPED", "FAILED"}
StopReasons == {"", "START_REFUSED", "OWNER_HOLD", "UNRECONCILABLE_DELIVERY", "NO_PROGRESS",
                "DISCONNECTED", "MODEL_UNUSABLE", "INCOMPLETE", "OBJECTIVE_COMPLETE",
                "COMPLETION_UNCORROBORATED", "CEILING", "LOOP", "STOPPED_BY_OPERATOR"}
DeliveryStates == {"OBSERVED", "DELIVERING", "DELIVERED", "REDELIVERABLE",
                   "CONFIRMED_AFTER_CRASH", "UNRECONCILABLE", "OWNER_HELD"}
Places == {"new", "gate", "open", "seed", "raise", "column", "held", "regate", "release",
           "attach", "reconcile", "unreconcilable", "lift", "top", "begin", "send", "ack",
           "await", "receive", "close", "record", "park", "claim", "complete", "refuted",
           "repeat", "down"}

Turns == [state : DeliveryStates, effect : Effects, claim : Claims, text : Texts \cup {"seed"}]

Rows == [state : RowStates, stop : StopReasons, xno : Nat, hold : BOOLEAN, awaiting : Nat]
Memories == [cur : Nat, tries : Nat, reply : Replies \cup {Nothing}, due : Requirements,
             state : RowStates \cup {""}, stop : StopReasons,
             todo : SUBSET Requirements, blocked : BOOLEAN]
Operator == [stopped : BOOLEAN, after : Nat]
Counters == [crashes : Nat, resumes : Nat, stops : Nat, flips : Nat]

\* The record, the world and the driver hold only what they can hold.
TypeOK ==
    /\ row \in Rows /\ ledger \in Seq(Turns)
    /\ holds \subseteq Requirements /\ owed \subseteq Requirements
    /\ refusals \in Nat /\ transcript \in Seq(Nat)
    /\ granted \in BOOLEAN /\ expired \in BOOLEAN
    /\ pc \in Places /\ mem \in Memories
    /\ ops \in Operator /\ used \in Counters

\* Every turn is taken in by the end it is for at most once and in the order it
\* was said, whatever crashes, lost receipts and resumes come between: the
\* three-move delivery and reconcile() never say anything twice.
HeardInOrderOnce == \A k \in 1..Len(transcript) : transcript[k] = k

\* There is one baton.  Every turn but the last is settled as DELIVERED, so no
\* queue head, in-flight delivery, hold or awaited turn is ever left behind the
\* conversation, and _deliver never has two turns to choose between.
OneBaton == /\ \A m \in 1..Len(ledger) : ledger[m].state # "DELIVERED" => m = Len(ledger)
            /\ row.awaiting # 0 => row.awaiting = Len(ledger)
                                   /\ ledger[row.awaiting].state = "DELIVERED"

\* max_exchanges bounds what the ends hear, not only what the row counts: a
\* crash between a send and its count does not buy an extra exchange.
CeilingHolds == Len(transcript) <= MaxExchanges

\* No turn reaches an end while a recorded owner decision is outstanding.
NothingHeardWhileHeld == [][transcript' # transcript => holds = {}]_vars

\* Where no process has died, the holds on record are the refusals nobody has granted,
\* once the driver that met them is gone, and the owner_hold column says the same; and a
\* directive out of the queue for want of an owner names one of them, unless no owner
\* could discharge the refusal: nothing is parked for good.
HoldsAreWhatIsOwed == used.crashes = 0 /\ pc = "down" =>
    /\ holds = owed /\ (row.hold <=> holds # {})
    /\ \A m \in InState({"OWNER_HELD"}) :
           \/ ledger[m].effect = "unknown"
           \/ \E h \in OutstandingOwnerHolds : h.gate = "directive" /\ h.msg = m

\* An operator's stop that took effect is not undone by the resume it raced:
\* resume_running is conditional on the row the resume read.
StopIsNotUndone == [][row'.state = "RUNNING" => row.state = "RUNNING" \/ ~ops.stopped]_vars

\* After a stop took effect at most the exchange in hand is finished: the ends
\* hear at most one more turn until somebody resumes the relay.
OneTurnAfterStop == ops.after <= 1

\* A driver always comes to rest: no step of it waits on anything but the ends,
\* whose calls are all bounded in time.
ComesToRest == pc # "down" ~> pc = "down"

\* What the record means to the two ends: a conversation.
Conversation == INSTANCE RelayConversation WITH said <- Len(ledger), heard <- transcript
ImplementsConversation == Conversation!Spec

\* The argument for the safety properties, as an inductive invariant ---------------

Said  == Len(ledger)
Heard == Len(transcript)
Last  == ledger[Said].state

\* The ends, the ledger and the count are never more than a turn apart, and the
\* state of the last turn says which of them is ahead.
InStep ==
    /\ Heard <= Said /\ Said <= Heard + 1
    /\ row.xno <= Heard /\ row.xno <= MaxExchanges
    /\ Said > 0 =>
         /\ Said <= row.xno + 1
         /\ Last \in {"OBSERVED", "REDELIVERABLE", "OWNER_HELD"} => Heard = Said - 1
         /\ Last \in {"DELIVERED", "CONFIRMED_AFTER_CRASH"} => Heard = Said
         /\ Last # "DELIVERED" => row.xno = Said - 1

Settled == \A m \in 1..Said : m < Said => ledger[m].state = "DELIVERED"
AwaitsTheLast ==
    row.awaiting # 0 => row.awaiting = Said /\ row.xno = Said /\ Last = "DELIVERED"

\* At most one owner decision is open, it is not about an effect that needs no
\* owner, and only a driver on its way down or asking again coexists with it.
OneDecision ==
    /\ \A g, h \in holds : g = h
    /\ \A h \in holds : /\ h.effect # "edit"
                        /\ h.msg # 0 => h.msg = Said /\ Last = "OWNER_HELD"
    /\ pc \notin {"down", "regate", "column", "held"} => holds = {}

\* What the driver may rely on where it is.
DriverKnows ==
    /\ pc \in {"new", "gate", "open", "seed"} => Said = 0
    /\ pc \in {"begin", "send", "ack", "await", "receive", "close", "park", "release"} =>
         mem.cur = Said /\ Said > 0
    /\ pc \in {"begin", "send", "ack", "await"} =>
         row.awaiting = 0 /\ row.xno = Said - 1 /\ row.xno < MaxExchanges
    /\ pc = "begin" => Last \in {"OBSERVED", "REDELIVERABLE"}
    /\ pc = "send" => Last = "DELIVERING" /\ Heard = Said - 1
    /\ pc = "ack" => Last = "DELIVERING" /\ Heard = Said
    /\ pc = "await" => Last = "DELIVERED"
    /\ pc \in {"receive", "close"} => row.awaiting = Said
    /\ pc = "record" => /\ Said > 0 /\ Last = "DELIVERED"
                        /\ row.awaiting = 0 /\ row.xno = Said
    /\ pc = "park" => Last = "OBSERVED" /\ mem.due.msg = Said
    /\ pc = "raise" /\ mem.due.msg # 0 => mem.due.msg = Said /\ Last = "OWNER_HELD"
    /\ pc \in {"park", "raise"} => mem.due.effect # "edit"
    /\ pc = "release" => Last = "OWNER_HELD"
    /\ pc \in {"regate", "release"} =>
         mem.todo \subseteq holds /\ (~mem.blocked => mem.todo = holds)

\* Together they make every step of the driver one the conversation allows,
\* whichever process takes it and whatever the last one left on record.
ConversationInv ==
    /\ HeardInOrderOnce /\ CeilingHolds
    /\ InStep /\ Settled /\ AwaitsTheLast /\ OneDecision /\ DriverKnows

\* While a resume asks the ends the row either reads what the resume read or was
\* stopped since, and a driver between two turns has not sent since a stop.
StopInv ==
    /\ pc = "new" => ~ops.stopped
    /\ ops.stopped => row.state # "RUNNING"
    /\ pc \in {"regate", "release", "attach", "reconcile", "unreconcilable", "lift"} =>
         IF ops.stopped THEN row.state = "STOPPED" /\ mem.state # "STOPPED"
                        ELSE row.state = mem.state
    /\ ~ops.stopped \/ pc \in {"begin", "send"} => ops.after = 0
    /\ ops.after <= 1

\* Stated by the repository, and not so -----------------------------------------

================================================================================
