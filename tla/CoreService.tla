---------------------------- MODULE CoreService ----------------------------
(***************************************************************************)
(* Core, the service that owns the life of relay processes                 *)
(* (transports/coreservice.py, core/corerelay.py), for one project.  Its   *)
(* HTTP server is threaded: every request is a thread, a write or a look   *)
(* of its own each step.  A relay process is a detached child that takes   *)
(* the relay's lock, builds its ends, writes its row and drives; it        *)
(* outlives the request and Core, and Core outlives nothing: it dies, it   *)
(* is started again, or its watchdog ends it when it has been idle.        *)
(*                                                                         *)
(* What a request says beyond its identity is left out: the gates that     *)
(* refuse it before anything is read are one action, and a reused identity *)
(* answers, with 200 or 409, without a change of state.                    *)
(***************************************************************************)
EXTENDS Integers, FiniteSets, TLC

CONSTANTS Threads,    \* requests Core serves at a time
          Requests,   \* request identities, each of one client and project
          Relays,     \* the relay ids that may be drawn
          Children,   \* relay processes alive, or waited for, at a time
          Nobody,     \* no relay, no request, no process
          MaxLive,    \* MAX_LIVE_RELAYS_PER_PROJECT
          MaxDeaths,  \* bound on Cores and relay processes killed
          MaxMisread  \* bound on ledgers unreadable as a failed start is reread

ASSUME CoreAssumption ==
  /\ Nobody \notin Relays \cup Requests \cup Children
  /\ MaxLive \in Nat /\ MaxDeaths \in Nat /\ MaxMisread \in Nat

VARIABLES core,      \* "down", "up", or "leaving": the watchdog has decided
          quiet,     \* no request for idle_s
          thread,    \* what each request is at
          child,     \* the relay processes
          lock,      \* which process holds relay.lock
          row,       \* the relay's state in the ledger
          reserved,  \* core-requests/<key>.json: the relay of an identity
          made,      \* the identity a relay id was drawn for
          abandoned, \* relays Core stopped watching before they had a row
          misread,   \* relays with a row, released as if they had none
          deaths     \* how many processes have been killed

serviceVars == <<core, quiet, thread, child, lock, row, reserved, made, abandoned,
          misread, deaths>>

Ops == {"start", "resume", "stop"}
StartSteps == {"recall", "reuse", "count", "reserve", "conflict", "spawn",
               "wait", "reread", "release"}
ResumeSteps == {"read", "owned", "spawn", "wait"}
StopSteps == {"read", "stop"}
RowStates == {"none", "RUNNING", "STOPPED", "OWNER_HOLD", "FINISHED"}
Stages == {"born", "locked", "driving", "leaving", "gone"}

Idle == [op |-> "none", at |-> "idle", request |-> Nobody, relay |-> Nobody,
         child |-> Nobody, seen |-> "none"]
Gone == [stage |-> "gone", verb |-> "none", relay |-> Nobody]

TypeOK ==
  /\ core \in {"down", "up", "leaving"} /\ quiet \in BOOLEAN
  /\ thread \in [Threads -> [op : Ops \cup {"none"},
                             at : {"idle"} \cup StartSteps \cup ResumeSteps
                                  \cup StopSteps,
                             request : Requests \cup {Nobody},
                             relay : Relays \cup {Nobody},
                             child : Children \cup {Nobody},
                             seen : RowStates]]
  /\ child \in [Children -> [stage : Stages, verb : {"none", "start", "resume"},
                             relay : Relays \cup {Nobody}]]
  /\ lock \in [Relays -> Children \cup {Nobody}]
  /\ row \in [Relays -> RowStates]
  /\ reserved \in [Requests -> Relays \cup {Nobody}]
  /\ made \in [Relays -> Requests \cup {Nobody}]
  /\ abandoned \subseteq Relays /\ misread \subseteq Relays
  /\ deaths \in 0..MaxDeaths

ServiceInit ==
  /\ core = "down" /\ quiet = FALSE
  /\ thread = [t \in Threads |-> Idle]
  /\ child = [c \in Children |-> Gone]
  /\ lock = [r \in Relays |-> Nobody]
  /\ row = [r \in Relays |-> "none"]
  /\ reserved = [q \in Requests |-> Nobody]
  /\ made = [r \in Relays |-> Nobody]
  /\ abandoned = {} /\ misread = {} /\ deaths = 0

-----------------------------------------------------------------------------
(* What others see of a relay                                              *)

Held(r) == lock[r] # Nobody
Known(r) == row[r] # "none"

(* A probe takes the lock for a moment and gives it back, so a free lock   *)
(* looks held to whoever looks while another does, and a lock file may not *)
(* open at all.  RUNNING and UNKNOWN may therefore be read of any relay,   *)
(* and only NOT_RUNNING tells something.                                   *)
MayLookFree(r) == ~Held(r)

Serving == core # "down"

(* The next step of a request, and its last.                               *)
At(t, step) == Serving /\ thread[t].at = step
MoveTo(t, step) == thread' = [thread EXCEPT ![t].at = step]
Answer(t) == thread' = [thread EXCEPT ![t] = Idle]

ledger == <<lock, row, reserved, made, abandoned, misread, deaths>>

-----------------------------------------------------------------------------
(* A request arrives                                                       *)

(* Refused for its credential, its project, its identity, its profile or   *)
(* its objective, it still counts as a sign of life.                       *)
Refuse ==
  /\ Serving /\ quiet
  /\ quiet' = FALSE
  /\ UNCHANGED <<core, thread, child, ledger>>

ReceiveStart(t, q) ==
  /\ At(t, "idle")
  /\ quiet' = FALSE
  /\ thread' = [thread EXCEPT ![t].op = "start", ![t].at = "recall",
                              ![t].request = q]
  /\ UNCHANGED <<core, child, ledger>>

(* One relay is named by its id; one that has no row is answered 404.      *)
ReceiveNamed(t, op, r) ==
  /\ At(t, "idle") /\ row[r] # "none"
  /\ quiet' = FALSE
  /\ thread' = [thread EXCEPT ![t].op = op, ![t].at = "read", ![t].relay = r]
  /\ UNCHANGED <<core, child, ledger>>

-----------------------------------------------------------------------------
(* relay.start                                                             *)

Recall(t) ==
  /\ At(t, "recall")
  /\ MoveTo(t, IF reserved[thread[t].request] = Nobody THEN "count" ELSE "reuse")
  /\ UNCHANGED <<core, quiet, child, ledger>>

Reuse(t) == At(t, "reuse") /\ Answer(t) /\ UNCHANGED <<core, quiet, child, ledger>>

(* 503 where the ledger cannot be read.                                    *)
Unreadable(t) ==
  /\ At(t, "count") /\ \E r \in Relays : Known(r)
  /\ Answer(t)
  /\ UNCHANGED <<core, quiet, child, ledger>>

(* 429 where as many relays with a row look held as may be live.           *)
TooMany(t) ==
  /\ At(t, "count") /\ Cardinality({r \in Relays : Known(r)}) >= MaxLive
  /\ Answer(t)
  /\ UNCHANGED <<core, quiet, child, ledger>>

Count(t) ==
  /\ At(t, "count")
  /\ Cardinality({r \in Relays : Known(r) /\ Held(r)}) < MaxLive
  /\ MoveTo(t, "reserve")
  /\ UNCHANGED <<core, quiet, child, ledger>>

\* Slip: the reservation is written over whatever is there.
SlipReserve(t, r) ==
  LET q == thread[t].request IN
  /\ At(t, "reserve") /\ made[r] = Nobody
  /\ reserved' = [reserved EXCEPT ![q] = r]
  /\ made' = [made EXCEPT ![r] = q]
  /\ thread' = [thread EXCEPT ![t].at = "spawn", ![t].relay = r]
  /\ UNCHANGED <<core, quiet, child, lock, row, abandoned, misread, deaths>>

(* The file is created exclusively: a request that comes second reads the  *)
(* relay of the first.                                                     *)
Reserve(t, r) ==
  LET q == thread[t].request IN
  /\ At(t, "reserve") /\ made[r] = Nobody /\ reserved[q] = Nobody
  /\ reserved' = [reserved EXCEPT ![q] = r]
  /\ made' = [made EXCEPT ![r] = q]
  /\ thread' = [thread EXCEPT ![t].at = "spawn", ![t].relay = r]
  /\ UNCHANGED <<core, quiet, child, lock, row, abandoned, misread, deaths>>

ReserveRefused(t) ==
  /\ At(t, "reserve") /\ reserved[thread[t].request] # Nobody
  /\ MoveTo(t, "conflict")
  /\ UNCHANGED <<core, quiet, child, ledger>>

NotRecordable(t) ==
  /\ At(t, "reserve") /\ Answer(t)
  /\ UNCHANGED <<core, quiet, child, ledger>>

(* The owner's file may have been given back in between: then 503.         *)
Conflict(t) ==
  /\ At(t, "conflict")
  /\ IF reserved[thread[t].request] = Nobody THEN Answer(t) ELSE MoveTo(t, "reuse")
  /\ UNCHANGED <<core, quiet, child, ledger>>

-----------------------------------------------------------------------------
(* spawn, shared by start and resume                                       *)

Free(c) ==
  /\ child[c] = Gone
  /\ \A t \in Threads : thread[t].child # c

Spawn(t, c) ==
  /\ At(t, "spawn") /\ Free(c)
  /\ child' = [child EXCEPT ![c] = [stage |-> "born", verb |-> thread[t].op,
                                    relay |-> thread[t].relay]]
  /\ thread' = [thread EXCEPT ![t].at = "wait", ![t].child = c]
  /\ UNCHANGED <<core, quiet, ledger>>

\* Slips: the row is not looked for again; the identity is not given back.
SlipRelease(t) ==
  IF thread[t].op = "start"
  THEN thread' = [thread EXCEPT ![t].at = "release", ![t].child = Nobody]
  ELSE Answer(t)
SlipBurn(t) == Answer(t)

AfterFailure(t) ==
  IF thread[t].op = "start"
  THEN thread' = [thread EXCEPT ![t].at = "reread", ![t].child = Nobody]
  ELSE Answer(t)

SpawnFails(t) ==
  /\ At(t, "spawn") /\ AfterFailure(t)
  /\ UNCHANGED <<core, quiet, child, ledger>>

(* What Core promised: a row for a start, a row that says RUNNING for a    *)
(* resume.                                                                 *)
Promised(t) ==
  LET state == row[thread[t].relay] IN
  IF thread[t].op = "start" THEN state # "none" ELSE state = "RUNNING"

Succeeds(t) ==
  /\ At(t, "wait") /\ Promised(t)
  /\ Answer(t)
  /\ UNCHANGED <<core, quiet, child, ledger>>

(* The child had gone when it was polled, and the look that followed did   *)
(* not find its lock held or the row as promised.                          *)
SeesExit(t) ==
  /\ At(t, "wait") /\ child[thread[t].child] = Gone
  /\ AfterFailure(t)
  /\ UNCHANGED <<core, quiet, child, ledger>>

(* SPAWN_WAIT_S is over: 202, and nobody watches the child any more.       *)
GivesUp(t) ==
  /\ At(t, "wait")
  /\ abandoned' = IF thread[t].op = "start"
                  THEN abandoned \cup {thread[t].relay} ELSE abandoned
  /\ Answer(t)
  /\ UNCHANGED <<core, quiet, child, lock, row, reserved, made, misread, deaths>>

(* A failed start looks once more for the row.  Rows that cannot be read   *)
(* are no rows to it.                                                      *)
RereadFinds(t) ==
  /\ At(t, "reread") /\ row[thread[t].relay] # "none"
  /\ Answer(t)
  /\ UNCHANGED <<core, quiet, child, ledger>>

RereadFindsNone(t) ==
  /\ At(t, "reread") /\ row[thread[t].relay] = "none"
  /\ MoveTo(t, "release")
  /\ UNCHANGED <<core, quiet, child, ledger>>

RereadUnreadable(t) ==
  /\ At(t, "reread") /\ row[thread[t].relay] # "none"
  /\ Cardinality(misread) < MaxMisread
  /\ misread' = misread \cup {thread[t].relay}
  /\ MoveTo(t, "release")
  /\ UNCHANGED <<core, quiet, child, lock, row, reserved, made, abandoned, deaths>>

Release(t) ==
  /\ At(t, "release")
  /\ reserved' = [reserved EXCEPT ![thread[t].request] = Nobody]
  /\ Answer(t)
  /\ UNCHANGED <<core, quiet, child, lock, row, made, abandoned, misread, deaths>>

-----------------------------------------------------------------------------
(* relay.resume and relay.stop                                             *)

(* The row is read before the lock is looked at, and judged after it.      *)
ReadRow(t) ==
  /\ At(t, "read")
  /\ thread' = [thread EXCEPT
       ![t].at = IF thread[t].op = "resume" THEN "owned" ELSE "stop",
       ![t].seen = row[thread[t].relay]]
  /\ UNCHANGED <<core, quiet, child, ledger>>

(* Refused where the relay looks held, has finished, or an owner hold      *)
(* stands.                                                                 *)
ResumeRefused(t) ==
  /\ At(t, "owned") /\ Answer(t)
  /\ UNCHANGED <<core, quiet, child, ledger>>

ResumeAllowed(t) ==
  /\ At(t, "owned")
  /\ MayLookFree(thread[t].relay)
  /\ thread[t].seen # "FINISHED"
  /\ MoveTo(t, "spawn")
  /\ UNCHANGED <<core, quiet, child, ledger>>

Stoppable == {"RUNNING", "OWNER_HOLD"}

StopRelay(t) ==
  LET r == thread[t].relay IN
  /\ At(t, "stop")
  /\ row' = [row EXCEPT ![r] = IF @ \in Stoppable THEN "STOPPED" ELSE @]
  /\ Answer(t)
  /\ UNCHANGED <<core, quiet, child, lock, reserved, made, abandoned, misread,
                 deaths>>

RequestStep(t) ==
  \/ \E q \in Requests : ReceiveStart(t, q)
  \/ \E op \in {"resume", "stop"}, r \in Relays : ReceiveNamed(t, op, r)
  \/ Recall(t) \/ Reuse(t) \/ Unreadable(t) \/ TooMany(t) \/ Count(t)
  \/ \E r \in Relays : Reserve(t, r)
  \/ ReserveRefused(t) \/ NotRecordable(t) \/ Conflict(t)
  \/ \E c \in Children : Spawn(t, c)
  \/ SpawnFails(t) \/ Succeeds(t) \/ SeesExit(t) \/ GivesUp(t)
  \/ RereadFinds(t) \/ RereadFindsNone(t) \/ RereadUnreadable(t) \/ Release(t)
  \/ ReadRow(t) \/ ResumeRefused(t) \/ ResumeAllowed(t) \/ StopRelay(t)

-----------------------------------------------------------------------------
(* The relay process (relay/cli.py)                                        *)

Stage(c, stage) == child' = [child EXCEPT ![c].stage = stage]
Exit(c) == child' = [child EXCEPT ![c] = Gone]
LetGo(c) == lock' = [r \in Relays |-> IF lock[r] = c THEN Nobody ELSE lock[r]]

TakeLock(c) ==
  /\ child[c].stage = "born" /\ ~Held(child[c].relay)
  /\ lock' = [lock EXCEPT ![child[c].relay] = c]
  /\ Stage(c, "locked")
  /\ UNCHANGED <<core, quiet, thread, row, reserved, made, abandoned, misread,
                 deaths>>

(* Another process holds the relay, or only looks at it: Core's own wait   *)
(* does, five times a second.                                              *)
MissLock(c) ==
  /\ child[c].stage = "born" /\ (Held(child[c].relay) \/ Serving)
  /\ Exit(c)
  /\ UNCHANGED <<core, quiet, thread, ledger>>

(* An end that cannot be built, or, on resume, an owner hold still in      *)
(* force.  Nothing is written.                                             *)
NotBuilt(c) ==
  /\ child[c].stage = "locked"
  /\ Exit(c) /\ LetGo(c)
  /\ UNCHANGED <<core, quiet, thread, row, reserved, made, abandoned, misread,
                 deaths>>

(* start creates the row, resume puts it back to RUNNING.                  *)
Drive(c) ==
  /\ child[c].stage = "locked"
  /\ row' = [row EXCEPT ![child[c].relay] = "RUNNING"]
  /\ Stage(c, "driving")
  /\ UNCHANGED <<core, quiet, thread, lock, reserved, made, abandoned, misread,
                 deaths>>

(* A resume stopped while it asked the ends.                               *)
ResumeStops(c) ==
  /\ child[c].stage = "locked" /\ child[c].verb = "resume"
  /\ \E state \in {"STOPPED", "OWNER_HOLD"} :
       row' = [row EXCEPT ![child[c].relay] = state]
  /\ Stage(c, "leaving")
  /\ UNCHANGED <<core, quiet, thread, lock, reserved, made, abandoned, misread,
                 deaths>>

(* _finish writes whatever the row says meanwhile.                         *)
Finish(c) ==
  /\ child[c].stage = "driving"
  /\ \E state \in {"STOPPED", "OWNER_HOLD", "FINISHED"} :
       row' = [row EXCEPT ![child[c].relay] = state]
  /\ Stage(c, "leaving")
  /\ UNCHANGED <<core, quiet, thread, lock, reserved, made, abandoned, misread,
                 deaths>>

SeeStop(c) ==
  /\ child[c].stage = "driving" /\ row[child[c].relay] # "RUNNING"
  /\ Stage(c, "leaving")
  /\ UNCHANGED <<core, quiet, thread, ledger>>

Leave(c) ==
  /\ child[c].stage = "leaving"
  /\ Exit(c) /\ LetGo(c)
  /\ UNCHANGED <<core, quiet, thread, row, reserved, made, abandoned, misread,
                 deaths>>

Killed(c) ==
  /\ child[c] # Gone /\ deaths < MaxDeaths
  /\ deaths' = deaths + 1
  /\ Exit(c) /\ LetGo(c)
  /\ UNCHANGED <<core, quiet, thread, row, reserved, made, abandoned, misread>>

RelayStep(c) ==
  TakeLock(c) \/ MissLock(c) \/ NotBuilt(c) \/ Drive(c) \/ ResumeStops(c)
  \/ Finish(c) \/ SeeStop(c) \/ Leave(c) \/ Killed(c)

-----------------------------------------------------------------------------
(* Core itself                                                             *)

(* core.lock admits one Core; a second is told and leaves.                 *)
CoreStarts ==
  /\ core = "down"
  /\ core' = "up" /\ quiet' = FALSE
  /\ UNCHANGED <<thread, child, ledger>>

(* The threads are daemons: they end with the process, wherever they are.  *)
CoreEnds ==
  /\ core' = "down" /\ quiet' = FALSE
  /\ thread' = [t \in Threads |-> Idle]
  /\ abandoned' = abandoned \cup
       {thread[t].relay : t \in {u \in Threads :
          thread[u].op = "start" /\ thread[u].relay # Nobody}}
  /\ UNCHANGED <<child, lock, row, reserved, made, misread>>

CoreDies ==
  /\ Serving /\ deaths < MaxDeaths
  /\ deaths' = deaths + 1
  /\ CoreEnds

(* No request for idle_s, which is longer than any request takes.          *)
IdlePasses ==
  /\ Serving /\ ~quiet /\ \A t \in Threads : thread[t].at = "idle"
  /\ quiet' = TRUE
  /\ UNCHANGED <<core, thread, child, ledger>>

(* Rows only: a relay process that has not written its row is no           *)
(* obligation.                                                             *)
Obligated(r) == Known(r) /\ (~MayLookFree(r) \/ row[r] = "OWNER_HOLD")

WatchdogLooks ==
  /\ core = "up" /\ quiet /\ \A r \in Relays : ~Obligated(r)
  /\ core' = "leaving"
  /\ UNCHANGED <<quiet, thread, child, ledger>>

WatchdogLeaves == core = "leaving" /\ CoreEnds /\ UNCHANGED deaths

CoreStep ==
  Refuse \/ CoreStarts \/ CoreDies \/ IdlePasses \/ WatchdogLooks \/ WatchdogLeaves

ServiceNext ==
  \/ \E t \in Threads : RequestStep(t)
  \/ \E c \in Children : RelayStep(c)
  \/ CoreStep

ServiceSpec == ServiceInit /\ [][ServiceNext]_serviceVars

-----------------------------------------------------------------------------
(* What must not happen                                                    *)

(* A request identity names the relay it made for ever: whoever retries is *)
(* told of that relay, however many threads, exits and deaths of Core came *)
(* in between, and it is given back only where no row exists.  Except for  *)
(* a relay whose row could not be read when it was looked for.             *)
RequestNamesItsRelay ==
  \A r \in Relays \ misread : Known(r) => reserved[made[r]] = r

(* An identity for which no relay came to be is free again, so a retry is  *)
(* not told of a relay that does not exist: unless the process that        *)
(* reserved it died, or stopped watching the relay after SPAWN_WAIT_S.     *)
FailedStartFreesItsIdentity ==
  \A q \in Requests :
    LET r == reserved[q] IN
    r # Nobody =>
      \/ Known(r) \/ r \in abandoned
      \/ \E t \in Threads : thread[t].op = "start" /\ thread[t].relay = r

(* One identity never has two processes starting relays for it, whatever   *)
(* is retried while the first is alive, slow or unanswered.                *)
OneStartPerRequest ==
  \A c, d \in Children :
    /\ c # d /\ child[c].verb = "start" /\ child[d].verb = "start"
    => made[child[c].relay] # made[child[d].relay]

Symmetry ==
  Permutations(Threads) \cup Permutations(Relays) \cup Permutations(Children)
=============================================================================
