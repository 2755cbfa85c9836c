----------------------------- MODULE FileInbox -----------------------------
(****************************************************************************)
(* The file-inbox seat (adapters/filebox.py behind executors/bridge.py).     *)
(* Each run is one turn: it writes a task envelope into the root's inbox and *)
(* polls the outbox until a complete response is there or its time is up.    *)
(* The external consumer answers in its own time.  Runs of several lanes     *)
(* share one root.                                                           *)
(****************************************************************************)
EXTENDS Naturals, FiniteSets, FiniteSetsExt

CONSTANTS
    Turns,           \* the runs that hold the seat
    MaxAnswers       \* response files written

VARIABLES
    tasks,           \* inbox: task number -> the turn whose envelope it holds
    outbox,          \* responses {[task, of, at, complete]}: of is the turn whose prompt was read
    consumed,        \* responses moved to outbox/consumed
    turn,            \* turn -> how far it is
    reply,           \* turn -> the response it was handed
    written          \* responses written so far, which is their time

inboxVars == <<tasks, outbox, consumed, turn, reply, written>>

NoReply == [task |-> 0, of |-> "nobody", at |-> 0, complete |-> FALSE]
Waiting == [pc |-> "idle", task |-> 0, listed |-> {}]

InboxInit ==
    /\ tasks = <<>>
    /\ outbox = {} /\ consumed = {}
    /\ turn = [t \in Turns |-> Waiting]
    /\ reply = [t \in Turns |-> NoReply]
    /\ written = 0

At(t, p) == turn[t].pc = p

----------------------------------------------------------------------------
(* send: number the task from the inbox and the consumed answers, publish.   *)

\* One more than the highest number the inbox or the consumed answers show.
NextTask == Max(DOMAIN tasks \cup {r.task : r \in consumed} \cup {0}) + 1

Number(t) ==
    /\ At(t, "idle")
    /\ turn' = [turn EXCEPT ![t] = [pc |-> "numbered", task |-> NextTask, listed |-> {}]]
    /\ UNCHANGED <<tasks, outbox, consumed, reply, written>>

\* An envelope of the same name is replaced.
Send(t) ==
    LET k == turn[t].task IN
    /\ At(t, "numbered")
    /\ tasks' = [j \in DOMAIN tasks \cup {k} |-> IF j = k THEN t ELSE tasks[j]]
    /\ turn' = [turn EXCEPT ![t].pc = "polling"]
    /\ UNCHANGED <<outbox, consumed, reply, written>>

----------------------------------------------------------------------------
(* The external consumer.                                                    *)

\* It answers an envelope once; a writer that does not publish whole files leaves it without
\* its marker first.  A later write of the same name replaces it.
Answer(k, complete) ==
    /\ ~\E r \in outbox \cup consumed : r.task = k /\ r.of = tasks[k] /\ r.complete
    /\ written < MaxAnswers /\ written' = written + 1
    /\ outbox' = {r \in outbox : r.task # k}
                    \cup {[task |-> k, of |-> tasks[k], at |-> written + 1,
                           complete |-> complete]}
    /\ UNCHANGED <<tasks, consumed, turn, reply>>

----------------------------------------------------------------------------
(* receive.                                                                  *)

\* The complete responses to any task the inbox or this process knows of.
CompletedResponses == {r \in outbox : r.complete /\ r.task \in DOMAIN tasks}

\* The outbox is read ...
Poll(t) ==
    /\ At(t, "polling") /\ CompletedResponses # {}
    /\ turn' = [turn EXCEPT ![t].pc = "taking", ![t].listed = CompletedResponses]
    /\ UNCHANGED <<tasks, outbox, consumed, reply, written>>

Newest(rs) == CHOOSE r \in rs : \A s \in rs : s.at <= r.at
Named(k) == {r \in outbox : r.task = k}

\* Slip: the answer is handed over and its file left where it is.
SlipTake(t) ==
    LET r == Newest(turn[t].listed) IN
    /\ At(t, "taking") /\ Named(r.task) # {}
    /\ UNCHANGED <<outbox, consumed>>
    /\ reply' = [reply EXCEPT ![t] = r]
    /\ turn' = [turn EXCEPT ![t].pc = "answered", ![t].listed = {}]
    /\ UNCHANGED <<tasks, written>>

\* ... the newest of what was read is handed over, and the file of its name moved away: by
\* now it may be a later one, which nobody has read.
Take(t) ==
    LET r == Newest(turn[t].listed) IN
    /\ At(t, "taking") /\ Named(r.task) # {}
    /\ outbox' = outbox \ Named(r.task)
    /\ consumed' = {c \in consumed : c.task # r.task} \cup Named(r.task)
    /\ reply' = [reply EXCEPT ![t] = r]
    /\ turn' = [turn EXCEPT ![t].pc = "answered", ![t].listed = {}]
    /\ UNCHANGED <<tasks, written>>

\* Another run moved it first: the move raises and the turn fails.
TakeFails(t) ==
    /\ At(t, "taking") /\ Named(Newest(turn[t].listed).task) = {}
    /\ turn' = [turn EXCEPT ![t].pc = "failed", ![t].listed = {}]
    /\ UNCHANGED <<tasks, outbox, consumed, reply, written>>

\* The deadline passes; the envelope stays in the inbox for its writer.
Timeout(t) ==
    /\ At(t, "polling") /\ CompletedResponses = {}
    /\ turn' = [turn EXCEPT ![t].pc = "timeout"]
    /\ UNCHANGED <<tasks, outbox, consumed, reply, written>>

InboxNext ==
    \/ \E t \in Turns : Number(t) \/ Send(t) \/ Poll(t) \/ Take(t) \/ TakeFails(t) \/ Timeout(t)
    \/ \E k \in DOMAIN tasks, c \in BOOLEAN : Answer(k, c)

InboxSpec == InboxInit /\ [][InboxNext]_inboxVars

----------------------------------------------------------------------------
Took(t, k) == ~At(t, "idle") /\ turn[t].task = k

(* No response is handed over before it is whole, and none to two runs,      *)
(* however they poll the root they share, unless two runs took its number    *)
(* and the second envelope replaced the first (filebox.py:100).              *)
HandedOnceAndWhole ==
    \A t \in Turns : At(t, "answered") =>
        /\ reply[t].complete
        /\ \A u \in Turns \ {t} :
               reply[u] = reply[t] =>
                   \E v, w \in Turns : v # w /\ Took(v, reply[t].task) /\ Took(w, reply[t].task)

=============================================================================
