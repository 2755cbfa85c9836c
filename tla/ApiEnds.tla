------------------------------ MODULE ApiEnds ------------------------------
(****************************************************************************)
(* The two API endpoints of a relay under its delivery loop: a strategic     *)
(* conversation kept in the relay's own transcript over a stateless          *)
(* provider (relay/ends/http_chat.py), and an agent session on a server the  *)
(* relay only attaches to (relay/ends/opencode.py).  The agent works on its  *)
(* own while the relay polls, dies and comes back.                           *)
(****************************************************************************)
EXTENDS Naturals, Sequences, FiniteSets

CONSTANTS
    MaxTurns,      \* turns the relay delivers: odd ones to the provider, even ones to the agent
    Window,        \* MESSAGE_WINDOW: messages a listing returns
    MissLimit,     \* idle polls without the anchor before the turn is given up
    RetryLimit,    \* incomplete receives before the relay stops
    MaxWork,       \* assistant messages the agent writes in all
    MaxOwn,        \* prompts the operator types into the same session
    MaxCrashes

VARIABLES
    turn, phase,   \* the ledger: the newest turn, and queued, delivering or awaiting
    chat,          \* the persisted transcript: user turns and the provider's answers
    session,       \* the server's message list, oldest first
    busy,          \* whether the agent's loop runs
    flying,        \* prompts the server has accepted and not yet stored
    pc, st, missing, retries, \* the driver: its place, its last status reading, its counts
    got,           \* the reply in hand
    recorded,      \* turn -> the reply the ledger has for it
    posted,        \* history: turn -> how often its prompt reached the server
    torn,          \* history: turns whose answer was saved in a transcript by a driver that
                   \* died before the ledger had it
    blind,         \* history: turns asked for while their prompt was still in flight
    own, crashes

vars == <<turn, phase, chat, session, busy, flying, pc, st, missing, retries, got, recorded,
          posted, torn, blind, own, crashes>>

ledger == <<turn, phase, recorded>>
server == <<session, busy, flying, posted>>
poll == <<st, missing, retries>>
history == <<torn, blind, own, crashes>>

Turns == 1..MaxTurns
ToAgent(t) == t % 2 = 0
Nothing == [of |-> 0, whole |-> FALSE, parts |-> {}]

Init ==
    /\ turn = 1 /\ phase = "queued" /\ recorded = [t \in Turns |-> Nothing]
    /\ chat = <<>> /\ session = <<>> /\ busy = FALSE /\ flying = {}
    /\ pc = "step" /\ st = "" /\ missing = 0 /\ retries = 0 /\ got = Nothing
    /\ posted = [t \in Turns |-> 0]
    /\ torn = {} /\ blind = {} /\ own = 0 /\ crashes = 0

Goto(p) == pc' = p

----------------------------------------------------------------------------
(* The agent's server.                                                      *)

\* A message is the prompt of a turn (0: the operator's), or a step of the agent's.
Prompt(t) == [role |-> "user", of |-> t, done |-> TRUE]
Step == [role |-> "assistant", of |-> 0, done |-> FALSE]
Has(t) == \E i \in DOMAIN session : session[i].role = "user" /\ session[i].of = t
Written == Cardinality({i \in DOMAIN session : session[i].role = "assistant"})
AllDone == \A i \in DOMAIN session : session[i].done

\* prompt_async returns before the message is durable.  A message id names one message.
PromptLands ==
    \E t \in flying :
        /\ flying' = flying \ {t}
        /\ session' = IF Has(t) THEN session ELSE Append(session, Prompt(t))
        /\ busy' = TRUE
        /\ UNCHANGED <<ledger, chat, pc, poll, got, posted, history>>

OperatorPrompts ==
    /\ own < MaxOwn /\ own' = own + 1
    /\ session' = Append(session, Prompt(0)) /\ busy' = TRUE
    /\ UNCHANGED <<ledger, chat, flying, posted, pc, poll, got, torn, blind, crashes>>

AgentWrites ==
    /\ busy /\ AllDone /\ Written < MaxWork
    /\ session' = Append(session, Step)
    /\ UNCHANGED <<ledger, chat, busy, flying, posted, pc, poll, got, history>>

AgentCompletes ==
    /\ busy /\ ~AllDone
    /\ session' = [i \in DOMAIN session |-> [session[i] EXCEPT !.done = TRUE]]
    /\ UNCHANGED <<ledger, chat, busy, flying, posted, pc, poll, got, history>>

AgentRests ==
    /\ busy /\ AllDone /\ session[Len(session)].role = "assistant"
    /\ busy' = FALSE
    /\ UNCHANGED <<ledger, chat, session, flying, posted, pc, poll, got, history>>

----------------------------------------------------------------------------
(* Delivery: the ledger says delivering, the end is sent to, the turn is awaited. *)

Begin ==
    /\ pc = "step" /\ phase = "queued"
    /\ phase' = "delivering" /\ Goto("send")
    /\ UNCHANGED <<turn, recorded, chat, server, poll, got, history>>

\* http_chat send: the turn is in the conversation once it is in the transcript.
SendChat ==
    /\ pc = "send" /\ ~ToAgent(turn)
    /\ chat' = Append(chat, [role |-> "user", of |-> turn, whole |-> TRUE])
    /\ Goto("sent")
    /\ UNCHANGED <<ledger, server, poll, got, history>>

\* opencode send: the server takes the prompt, or refuses it, or the answer is lost.
Posts(t) == posted' = [posted EXCEPT ![t] = @ + 1] /\ flying' = flying \cup {t}

Post ==
    /\ pc = "send" /\ ToAgent(turn)
    /\ \/ Posts(turn) /\ Goto("sent")
       \/ Posts(turn) /\ Goto("over")
       \/ Goto("over") /\ UNCHANGED <<posted, flying>>
    /\ UNCHANGED <<ledger, chat, session, busy, poll, got, history>>

Sent ==
    /\ pc = "sent"
    /\ phase' = "awaiting" /\ Goto("wait")
    /\ missing' = 0 /\ retries' = 0 /\ UNCHANGED st
    /\ UNCHANGED <<turn, recorded, chat, server, got, history>>

\* A receive that ends without a completed turn is tried again, a bounded number of times.
Incomplete ==
    /\ retries' = retries + 1
    /\ missing' = 0
    /\ Goto(IF retries < RetryLimit THEN "wait" ELSE "over")

----------------------------------------------------------------------------
(* http_chat receive: one call with the whole transcript.                   *)

\* A provider asked with a user turn last answers it; asked with its own answer last, it
\* goes on from there.
Answer(c) == [of |-> c[Len(c)].of, whole |-> c[Len(c)].role = "user", parts |-> {}]

\* Slip: what the provider cut off is kept in the transcript.
SlipProviderFails ==
    /\ pc = "wait" /\ ~ToAgent(turn)
    /\ chat' = Append(chat, [role |-> "assistant", of |-> chat[Len(chat)].of, whole |-> FALSE])
    /\ Incomplete /\ UNCHANGED st
    /\ UNCHANGED <<ledger, server, got, history>>

AskProvider ==
    /\ pc = "wait" /\ ~ToAgent(turn)
    /\ got' = Answer(chat)
    /\ chat' = Append(chat, [role |-> "assistant", of |-> got'.of, whole |-> got'.whole])
    /\ Goto("replied")
    /\ UNCHANGED <<ledger, server, poll, history>>

\* No key, a transport fault, a status that is not 200, a truncated answer: nothing is written.
ProviderFails ==
    /\ pc = "wait" /\ ~ToAgent(turn)
    /\ Incomplete /\ UNCHANGED st
    /\ UNCHANGED <<ledger, chat, server, got, history>>

----------------------------------------------------------------------------
(* opencode receive: a status reading, and then a listing.                  *)

\* status: a session absent from the status map and present in the list is idle; the list
\* may be unreadable, which reads as a lost session.
ReadStatus ==
    /\ pc = "wait" /\ ToAgent(turn)
    /\ \/ st' = (IF busy THEN "busy" ELSE "idle") /\ Goto("list")
       \/ st' = "unreachable" /\ Goto("wait")
    /\ UNCHANGED <<ledger, chat, server, missing, retries, got, history>>

SessionLooksLost ==
    /\ pc = "wait" /\ ToAgent(turn) /\ ~busy
    /\ Incomplete /\ UNCHANGED st
    /\ UNCHANGED <<ledger, chat, server, got, history>>

\* The newest messages, by their place in the session.
Listing == {i \in DOMAIN session : i + Window > Len(session)}
Anchor(t) == {i \in Listing : session[i].role = "user" /\ session[i].of = t}
\* Slip: an anchor that cannot be seen is taken to be older than everything listed.
SlipAfter(t) == {i \in Listing : session[i].role = "assistant" /\ \A a \in Anchor(t) : a < i}

After(t) == {i \in Listing : session[i].role = "assistant" /\ \E a \in Anchor(t) : a < i}
Settled(S) == S # {} /\ st # "busy" /\ \A i \in S : session[i].done

\* The answer is not there, or not finished; a listing that fails reads as empty.
KeepPolling ==
    /\ pc = "list" /\ Goto("wait")
    /\ \/ Anchor(turn) # {} /\ ~Settled(After(turn)) /\ missing' = 0
       \/ Anchor(turn) = {} /\ st = "busy" /\ missing' = 0
       \/ st = "idle" /\ missing + 1 < MissLimit /\ missing' = missing + 1
    /\ UNCHANGED <<ledger, chat, server, st, retries, got, history>>

AnchorMissing ==
    /\ pc = "list" /\ st = "idle" /\ missing + 1 >= MissLimit
    /\ Incomplete /\ UNCHANGED st
    /\ UNCHANGED <<ledger, chat, server, got, history>>

\* _compose folds the messages after the anchor into one reply.
Compose ==
    /\ pc = "list" /\ Settled(After(turn))
    /\ got' = [of |-> turn, whole |-> ~busy, parts |-> After(turn)]
    /\ Goto("replied")
    /\ UNCHANGED <<ledger, chat, server, poll, history>>

\* No completed turn within the deadline.
ReceiveTimesOut ==
    /\ pc = "wait" /\ ToAgent(turn) /\ st # ""
    /\ Incomplete /\ UNCHANGED st
    /\ UNCHANGED <<ledger, chat, server, got, history>>

\* The kernel records the reply and queues it for the other end.
Record ==
    /\ pc = "replied"
    /\ recorded' = [recorded EXCEPT ![turn] = got]
    /\ got' = Nothing /\ st' = "" /\ UNCHANGED <<missing, retries>>
    /\ IF turn = MaxTurns THEN Goto("over") /\ phase' = "answered" /\ UNCHANGED turn
       ELSE turn' = turn + 1 /\ phase' = "queued" /\ Goto("step")
    /\ UNCHANGED <<chat, server, history>>

----------------------------------------------------------------------------
(* The driver dies, or stopped; a resume re-attaches and reconciles.        *)

Crash ==
    /\ pc \notin {"over", "down"} /\ crashes < MaxCrashes
    /\ crashes' = crashes + 1 /\ Goto("down")
    /\ torn' = IF pc = "replied" /\ ~ToAgent(turn) THEN torn \cup {turn} ELSE torn
    /\ got' = Nothing /\ st' = "" /\ missing' = 0 /\ retries' = 0
    /\ UNCHANGED <<ledger, chat, server, blind, own>>

\* A relay that stopped on a failed send or receive is resumed by its operator.
Stopped == pc = "over" /\ phase # "answered" /\ crashes < MaxCrashes

Attach ==
    /\ Stopped \/ pc = "down"
    /\ crashes' = IF Stopped THEN crashes + 1 ELSE crashes
    /\ Goto(CASE phase = "delivering" -> "ask" [] phase = "awaiting" -> "wait" [] OTHER -> "step")
    /\ st' = "" /\ missing' = 0 /\ retries' = 0
    /\ UNCHANGED <<ledger, chat, server, got, torn, blind, own>>

AttachFails ==
    /\ pc = "down" /\ Goto("over")
    /\ UNCHANGED <<ledger, chat, server, poll, got, history>>

\* holds: exact for the transcript; for the session, over the newest messages.
Holds(t) == IF ToAgent(t) THEN Anchor(t) # {}
            ELSE \E i \in DOMAIN chat : chat[i].role = "user" /\ chat[i].of = t

\* Slip: an error is an empty listing.
SlipCannotAsk ==
    /\ pc = "ask" /\ ToAgent(turn) /\ Goto("step")
    /\ phase' = "queued"
    /\ UNCHANGED <<turn, recorded, chat, server, poll, got, history>>

\* A question the server cannot be asked stops the relay.
CannotAsk ==
    /\ pc = "ask" /\ ToAgent(turn) /\ Goto("over")
    /\ UNCHANGED <<ledger, chat, server, poll, got, history>>

\* Held: confirmed, and (the kernel keeps no awaiting mark) the resume makes no progress.
Confirmed ==
    /\ pc = "ask" /\ Holds(turn) /\ Goto("over")
    /\ UNCHANGED <<ledger, chat, server, poll, got, history>>

NotHeld ==
    /\ pc = "ask" /\ ~Holds(turn) /\ Goto("step")
    /\ phase' = "queued"
    /\ blind' = IF turn \in flying THEN blind \cup {turn} ELSE blind
    /\ UNCHANGED <<turn, recorded, chat, server, poll, got, torn, own, crashes>>

Next ==
    \/ PromptLands \/ OperatorPrompts \/ AgentWrites \/ AgentCompletes \/ AgentRests
    \/ Begin \/ SendChat \/ Post \/ Sent \/ AskProvider \/ ProviderFails
    \/ ReadStatus \/ SessionLooksLost \/ KeepPolling \/ AnchorMissing \/ Compose
    \/ ReceiveTimesOut \/ Record
    \/ Crash \/ Attach \/ AttachFails \/ CannotAsk \/ Confirmed \/ NotHeld

Spec == Init /\ [][Next]_vars

----------------------------------------------------------------------------
(* Properties.                                                              *)

\* No directive is given to the agent twice, through crashes, lost receipts and resumes,
\* unless a resume asked for it while the server had accepted and not yet stored it.
WorkedOnce == \A t \in Turns \ blind : posted[t] <= 1

\* A directive on record is the provider's whole answer to the packet it was asked about,
\* through failed, truncated and repeated calls, unless a driver died between saving that
\* answer and recording it.
WholeAnswers ==
    \A t \in Turns : (~ToAgent(t) /\ recorded[t] # Nothing /\ t \notin torn)
        => recorded[t].of = t /\ recorded[t].whole

\* What is recorded as the agent's turn was written after that turn's prompt, and nothing of
\* it was recorded for another turn.
AnswersFollowTheirPrompt ==
    \A t \in Turns : (ToAgent(t) /\ recorded[t] # Nothing) =>
        /\ \A i \in recorded[t].parts :
               \E a \in 1..i - 1 : session[a].role = "user" /\ session[a].of = t
        /\ \A u \in Turns \ {t} : recorded[u].parts \cap recorded[t].parts = {}
=============================================================================
