----------------------------- MODULE BrowserSeat -----------------------------
(***************************************************************************)
(* One run of the seat that holds a ChatGPT conversation                   *)
(* (executors/chatgpt_web.py), over the transport that reaches the         *)
(* operator's browser (browser_transport.py) and the websocket under it    *)
(* (websocket_client.py).  The seat attaches, goes to its conversation,    *)
(* waits until the page stands still, types the packet, and waits until    *)
(* the answer does.                                                        *)
(*                                                                         *)
(* The page, the site behind it and the operator act between any two       *)
(* frames.  Every look at the page is a command with a number of its own   *)
(* and an answer that arrives among events, control frames and fragments.  *)
(***************************************************************************)
EXTENDS Naturals, Sequences, FiniteSets, SequencesExt, TLC

CONSTANTS Own,          \* the conversation the seat may be bound to
          Other,        \* another conversation of the operator's
          LookLimit,        \* messages read for one answer (200 in the code)
          SettlePolls,  \* SETTLE_POLLS
          StablePolls,  \* STABLE_POLLS
          Lag,          \* looks the site needs at most to show what it holds
          Flicker,      \* looks in a row that miss an answer being written
          Window,       \* messages of a conversation the page renders
          MaxTroubles   \* bound on what the operator does, and on the frames
                        \* nobody asked for

(* What the timing of the site has to grant the seat: that it shows a      *)
(* conversation, and that it is writing, sooner than the seat gives up     *)
(* looking.  Nothing on the page says so.                                  *)
Granted == Lag <= SettlePolls /\ Flicker < StablePolls

Fresh == "fresh"        \* the conversation a packet on the new page begins
Nowhere == "new"        \* the page without a conversation
Conversations == {Own, Other, Fresh}
Places == Conversations \cup {Nowhere, "login", "elsewhere"}

VARIABLES bound,    \* the conversation the seat is bound to, or Nowhere
          tab,      \* the page of the browser
          thread,   \* the messages of every conversation, at the vendor
          down,     \* the frames on their way to the seat
          socket,
          seat,     \* the executor
          outcome,  \* what the run reports
          packets,  \* where the packet was typed
          alone,    \* nobody got in the way since the seat attached
          troubles

site == <<tab, thread, packets>>
wire == <<down, socket>>
vars == <<bound, site, wire, seat, outcome, alone, troubles>>

NoText == <<>>
Idle == [at |-> "attach", via |-> "auto", id |-> 0, waiting |-> FALSE,
         looks |-> 0, stable |-> 0, last |-> NoText, count |-> {},
         base |-> 0, here |-> Nowhere]
Unknown == [exit |-> "running", started |-> FALSE, text |-> NoText,
            landed |-> Nowhere]

Init ==
  /\ Granted /\ Own # Other
  /\ bound \in {Own, Nowhere}
  /\ tab \in [at : {Own, Other, Nowhere, "elsewhere"}, going : {"nowhere"},
              loaded : {TRUE}, composer : {"empty"}, lag : {0}, missed : {0}]
  /\ \E old \in {<<>>, <<"done">>} :
       thread = (Own :> old) @@ (Other :> <<"done">>) @@ (Fresh :> <<>>)
  /\ down = <<>> /\ socket = "none"
  /\ seat \in {[Idle EXCEPT !.via = prefer] : prefer \in {"auto", "cdp", "playwright"}}
  /\ outcome = Unknown /\ packets = <<>>
  /\ alone = TRUE /\ troubles = 0

-----------------------------------------------------------------------------
(* What a look at the page returns                                         *)

InThread == tab.at \in Conversations /\ tab.loaded
Rendered ==
  IF ~InThread THEN {}
  ELSE {i \in DOMAIN thread[tab.at] : i > Len(thread[tab.at]) - Window}
Answers == {i \in Rendered : thread[tab.at][i] \notin {"packet", "asked"}}
Newest == CHOOSE i \in Answers : \A j \in Answers : j <= i

Writing(t) == thread[t] # <<>> /\ Last(thread[t]) \in {"begun", "part", "whole"}
Streaming == InThread /\ Writing(tab.at)
Alert == InThread /\ thread[tab.at] # <<>> /\ Last(thread[tab.at]) = "broken"

Shows(t, i) == CASE thread[t][i] = "begun"             -> "none"
                 [] thread[t][i] \in {"whole", "done"} -> "whole"
                 [] OTHER                              -> "part"
NewestText ==
  IF Answers = {} \/ Shows(tab.at, Newest) = "none" THEN NoText
  ELSE <<tab.at, Newest, Shows(tab.at, Newest)>>

(* classify: the sign-in first, the composer, the generation before the    *)
(* error.                                                                  *)
State(stop) == CASE tab.at = "login"      -> "LOGGED_OUT"
                 [] tab.at = "elsewhere"  -> "NO_COMPOSER"
                 [] stop                  -> "GENERATING"
                 [] Alert                 -> "STREAM_ERROR"
                 [] OTHER                 -> "COMPLETE"

Snapshot(stop) == [here |-> IF tab.at \in Conversations THEN tab.at ELSE Nowhere,
                   state |-> State(stop), count |-> Cardinality(Answers),
                   text |-> NewestText]

-----------------------------------------------------------------------------
(* The site and the operator                                               *)

SiteOnly == UNCHANGED <<bound, wire, seat, outcome, packets>>

(* The navigation commits, to the page asked for or to the sign-in, and    *)
(* the messages are fetched once it has.                                   *)
Commit ==
  /\ tab.going # "nowhere"
  /\ \E to \in {tab.going, "login"} :
       tab' = [tab EXCEPT !.at = to, !.going = "nowhere", !.composer = "empty",
                          !.loaded = to \notin Conversations]
  /\ UNCHANGED <<thread, alone, troubles>> /\ SiteOnly

Load ==
  /\ ~tab.loaded /\ tab.going = "nowhere"
  /\ tab' = [tab EXCEPT !.loaded = TRUE]
  /\ UNCHANGED <<thread, alone, troubles>> /\ SiteOnly

(* An answer begins, grows and ends: whole, broken beside an alert, or     *)
(* dead with nothing to tell it from a whole one.                          *)
Stream(t) ==
  /\ thread[t] # <<>>
  /\ LET after == CASE Last(thread[t]) = "begun" -> {"part", "dead", "broken"}
                    [] Last(thread[t]) = "part"  -> {"whole", "dead", "broken"}
                    [] Last(thread[t]) = "whole" -> {"done"}
                    [] OTHER                     -> {}
     IN \/ \E is \in after :
             thread' = [thread EXCEPT ![t] = ReplaceAt(@, Len(@), is)]
        \/ /\ Last(thread[t]) \in {"packet", "asked"}
           /\ thread' = [thread EXCEPT ![t] = Append(@, "begun")]
  /\ UNCHANGED <<tab, alone, troubles>> /\ SiteOnly

OperatorOpens(to) ==
  /\ troubles < MaxTroubles /\ tab.at # to
  /\ tab' = [tab EXCEPT !.at = to, !.going = "nowhere", !.composer = "empty",
                        !.loaded = to \notin Conversations]
  /\ alone' = FALSE /\ troubles' = troubles + 1
  /\ UNCHANGED thread /\ SiteOnly

OperatorAsks ==
  /\ troubles < MaxTroubles /\ InThread /\ ~Streaming
  /\ thread' = [thread EXCEPT ![tab.at] = Append(@, "asked")]
  /\ alone' = FALSE /\ troubles' = troubles + 1
  /\ UNCHANGED tab /\ SiteOnly

-----------------------------------------------------------------------------
(* The browser's end of the wire                                           *)

Frame(op, fin, says) == [op |-> op, fin |-> fin, says |-> says]
NoMessage == [id |-> 0, of |-> "event", value |-> "none"]
Event == Frame("text", TRUE, NoMessage)
Control(op) == Frame(op, TRUE, NoMessage)

(* A long answer comes in fragments, a control frame among them.           *)
Fragmented(message) ==
  {<<Frame("text", TRUE, message)>>}
  \cup IF seat.via = "playwright" \/ message.of # "poll" THEN {}
       ELSE {<<Frame("text", FALSE, NoMessage), Control("ping"),
               Frame("continuation", TRUE, message)>>}

(* The numbers are taken modulo 2, as no two commands are ever open.  What *)
(* the page does before a command reaches it, it could have done before    *)
(* the command was sent: the page runs it at once.                         *)
Asks(step) == seat.at = step /\ ~seat.waiting
Replies(value) ==
  LET id == 1 + (seat.id % 2) IN
  /\ seat' = [seat EXCEPT !.id = id, !.waiting = TRUE, !.looks = 0]
  /\ \E frames \in Fragmented([id |-> id, of |-> seat.at, value |-> value]) :
       down' = down \o frames
  /\ UNCHANGED <<bound, socket, outcome, alone, troubles>>

(* Page.navigate is answered before the page is another one.               *)
AskGoto ==
  /\ Asks("goto")
  /\ tab' = [tab EXCEPT !.going = bound, !.lag = 0, !.missed = 0]
  /\ Replies("ok")
  /\ UNCHANGED <<thread, packets>>

Slow == tab.going # "nowhere" \/ ~tab.loaded
OnTarget(here) == bound # Nowhere => here = bound

AskLook ==
  /\ Asks("settle") \/ Asks("look") \/ Asks("poll")
  /\ LET late == Slow /\ OnTarget(Snapshot(FALSE).here) IN
       /\ late => tab.lag < Lag
       /\ \E stop \in IF Streaming THEN BOOLEAN ELSE {FALSE} :
            LET missed == IF Streaming /\ ~stop THEN tab.missed + 1 ELSE 0 IN
              /\ missed <= Flicker
              /\ tab' = [tab EXCEPT !.missed = missed,
                                    !.lag = IF late THEN @ + 1 ELSE @]
              /\ Replies(Snapshot(stop))
  /\ UNCHANGED <<thread, packets>>

CanType == tab.at \in Conversations \cup {Nowhere}

AskFill ==
  /\ Asks("fill")
  /\ tab' = IF CanType THEN [tab EXCEPT !.composer = "packet"] ELSE tab
  /\ Replies(IF CanType THEN "ok" ELSE "refused")
  /\ UNCHANGED <<thread, packets>>

(* The click sends what the composer holds; the new page becomes a         *)
(* conversation by it.  A conversation that is being answered takes no     *)
(* message, whether or not the page shows it yet.                          *)
AskPress ==
  LET to == IF tab.at = Nowhere THEN Fresh ELSE tab.at
      sends == CanType /\ tab.composer = "packet" /\ ~Writing(to)
  IN
  /\ Asks("press")
  /\ IF sends
     THEN /\ thread' = [thread EXCEPT ![to] = Append(@, "packet")]
          /\ tab' = [tab EXCEPT !.at = to, !.composer = "empty"]
          /\ packets' = Append(packets, to)
     ELSE UNCHANGED site
  /\ Replies(IF sends THEN "ok" ELSE "refused")

(* Events, control frames, a close; a frame no client can read is the same *)
(* as the last.                                                            *)
Unasked ==
  /\ troubles < MaxTroubles /\ socket = "open" /\ seat.via = "cdp"
  /\ \E frames \in {<<Event>>, <<Event, Event>>, <<Control("ping")>>,
                     <<Control("close")>>} : down' = down \o frames
  /\ troubles' = troubles + 1
  /\ UNCHANGED <<bound, site, socket, seat, outcome, alone>>

-----------------------------------------------------------------------------
(* The seat: attaching                                                     *)

AtSite == UNCHANGED <<bound, site, alone, troubles>>

(* _fail and the transport's close: stdout stays empty, and what was on    *)
(* the page is kept beside it as evidence.                                 *)
Ends(exit, started, text, landed) ==
  /\ outcome' = [exit |-> exit, started |-> started, text |-> text,
                 landed |-> landed]
  /\ seat' = [Idle EXCEPT !.at = "ended", !.id = seat.id]
  /\ socket' = IF socket = "open" THEN "closed" ELSE socket
  /\ down' = <<>>

Fails(exit, started) == Ends(exit, started, NoText, Nowhere)

Attach(via) ==
  /\ seat' = [seat EXCEPT !.at = "goto", !.via = via]
  /\ socket' = "open"
  /\ UNCHANGED <<down, outcome>>

(* Playwright, where it can be imported; where it cannot attach it is      *)
(* fallen through, unless it was asked for by name.                        *)
AttachPlaywright ==
  /\ seat.at = "attach" /\ seat.via # "cdp"
  /\ \/ Attach("playwright")
     \/ seat.via = "playwright" /\ Fails("SPAWN_FAILED", FALSE)
     \/ /\ seat.via = "auto" /\ seat' = [seat EXCEPT !.at = "discover"]
        /\ UNCHANGED <<wire, outcome>>
  /\ AtSite

(* The endpoint's list of pages, and the socket of one.                    *)
Discover ==
  /\ seat.at = "discover" \/ (seat.at = "attach" /\ seat.via = "cdp")
  /\ \/ Fails("SPAWN_FAILED", FALSE)
     \/ /\ seat' = [seat EXCEPT !.at = "handshake"] /\ socket' = "open"
        /\ UNCHANGED <<down, outcome>>
  /\ AtSite

\* Slip: the socket of a handshake that failed is left to the collector.
SlipHandshake ==
  /\ seat.at = "handshake"
  /\ \/ Attach("cdp")
     \/ /\ outcome' = [Unknown EXCEPT !.exit = "SPAWN_FAILED"]
        /\ seat' = [seat EXCEPT !.at = "ended"]
        /\ UNCHANGED wire
  /\ AtSite

(* What answers is a websocket, by its digest, or it is closed.            *)
Handshake ==
  /\ seat.at = "handshake"
  /\ Attach("cdp") \/ Fails("SPAWN_FAILED", FALSE)
  /\ AtSite

-----------------------------------------------------------------------------
(* The seat: a command and the messages read for its answer                *)

(* Every failure on the wire is the browser gone, a named outcome.  A goto *)
(* that fails in Playwright is raised as it is, past the handler.          *)
Unavailable ==
  Fails(IF seat.at = "goto" /\ seat.via = "playwright" THEN "raised"
        ELSE "NONZERO", TRUE)

(* The socket dies, or stays silent for too long; the page throws, or the  *)
(* browser refuses the command.                                            *)
Lost ==
  /\ seat.at \in {"goto", "settle", "look", "fill", "press", "poll"}
  /\ Unavailable /\ AtSite

Waiting == seat.waiting /\ down # <<>>
Rest == down' = Tail(down) /\ UNCHANGED socket
Goes(step) == [seat EXCEPT !.at = step, !.waiting = FALSE]

(* A ping is answered and skipped, a first fragment kept.                  *)
SkipFrame ==
  /\ Waiting
  /\ Head(down).op = "ping" \/ ~Head(down).fin
  /\ Rest /\ UNCHANGED <<seat, outcome>> /\ AtSite

Closed ==
  /\ Waiting /\ Head(down).op = "close"
  /\ Unavailable
  /\ AtSite

Message == Head(down).says
Whole == Waiting /\ Head(down).op \in {"text", "continuation"} /\ Head(down).fin

\* Slip: whatever comes first is the answer.
SlipIsAnswer == Whole

IsAnswer == Whole /\ Message.id = seat.id

SkipMessage ==
  /\ Whole /\ ~IsAnswer
  /\ IF seat.looks + 1 = LookLimit
     THEN Unavailable
     ELSE /\ seat' = [seat EXCEPT !.looks = @ + 1]
          /\ Rest /\ UNCHANGED outcome
  /\ AtSite

Value == Message.value
Heard(step) == IsAnswer /\ seat.at = step
Continue(next) == seat' = next /\ Rest /\ UNCHANGED outcome /\ AtSite

-----------------------------------------------------------------------------
(* The seat: what it does with the answer                                  *)

HearGoto == Heard("goto") /\ Continue(Goes("settle"))

\* Slip: the page is typed on as soon as it stands still, whichever it is.
SlipStill(look) == look.state # "NO_COMPOSER" /\ {look.count} = seat.count

Still(look) ==
  /\ OnTarget(look.here) /\ look.state # "NO_COMPOSER"
  /\ {look.count} = seat.count

(* _await_conversation: the page asked for, with as many messages as on    *)
(* the looks before.                                                       *)
HearSettle ==
  /\ Heard("settle")
  /\ IF Value.state = "LOGGED_OUT" THEN Fails("NONZERO", TRUE) /\ AtSite
     ELSE LET stable == IF Still(Value) THEN seat.stable + 1 ELSE 0
          IN Continue([Goes(IF stable = SettlePolls THEN "look" ELSE "settle")
                 EXCEPT !.stable = stable, !.count = {Value.count}])

NotReady ==
  /\ seat.at = "settle" /\ ~seat.waiting
  /\ Fails("NONZERO", TRUE)
  /\ AtSite

(* submit: the count before, the composer, the button.                     *)
HearLook ==
  /\ Heard("look")
  /\ IF Value.state \in {"LOGGED_OUT", "NO_COMPOSER"}
     THEN Fails("NONZERO", TRUE) /\ AtSite
     ELSE Continue([Goes("fill") EXCEPT !.base = Value.count, !.stable = 0,
                                        !.count = {}])

HearTyped ==
  /\ Heard("fill") \/ Heard("press")
  /\ IF Value # "ok" THEN Fails("NONZERO", TRUE) /\ AtSite
     ELSE Continue(Goes(IF seat.at = "fill" THEN "press" ELSE "poll"))

Landed(here) == IF here # Nowhere THEN here ELSE bound

(* await_completion: a new message, nothing being written, and the same    *)
(* text as on the looks before.                                            *)
PollFails ==
  /\ Heard("poll")
  /\ Value.state \in {"LOGGED_OUT", "NO_COMPOSER", "STREAM_ERROR"}
  /\ Ends("NONZERO", TRUE, NoText, Landed(Value.here))
  /\ AtSite

Reads(look) == [Goes("poll") EXCEPT !.stable = 0, !.last = look.text,
                                    !.here = look.here]

\* Slip: a text counts as stable while it is being written.
SlipPollAgain ==
  /\ Heard("poll") /\ Value.state \in {"GENERATING", "COMPLETE"}
  /\ IF Value.count <= seat.base
     THEN Continue([Reads(Value) EXCEPT !.last = NoText])
     ELSE IF Value.text = NoText \/ Value.text # seat.last
     THEN Continue(Reads(Value))
     ELSE /\ seat.stable + 1 < StablePolls
          /\ Continue([Reads(Value) EXCEPT !.stable = seat.stable + 1])

PollAgain ==
  /\ Heard("poll") /\ Value.state \in {"GENERATING", "COMPLETE"}
  /\ IF Value.count <= seat.base
     THEN Continue([Reads(Value) EXCEPT !.last = NoText])
     ELSE IF Value.state = "GENERATING" \/ Value.text = NoText
             \/ Value.text # seat.last
     THEN Continue(Reads(Value))
     ELSE /\ seat.stable + 1 < StablePolls
          /\ Continue([Reads(Value) EXCEPT !.stable = seat.stable + 1])

PollComplete ==
  /\ Heard("poll") /\ Value.state = "COMPLETE" /\ Value.count > seat.base
  /\ Value.text # NoText /\ Value.text = seat.last
  /\ seat.stable + 1 >= StablePolls
  /\ Ends("OK", TRUE, Value.text, Landed(Value.here))
  /\ AtSite

(* The time is over before the answer stood still.                         *)
PollsOver ==
  /\ seat.at = "poll" /\ ~seat.waiting
  /\ Ends("TIMEOUT", TRUE, NoText, Landed(seat.here))
  /\ AtSite

-----------------------------------------------------------------------------
PageStep ==
  \/ Commit \/ Load \/ OperatorAsks
  \/ \E t \in Conversations : Stream(t)
  \/ \E to \in {Own, Other, Nowhere} : OperatorOpens(to)
  \/ Unasked

SeatStep ==
  \/ AttachPlaywright \/ Discover \/ Handshake
  \/ AskGoto \/ AskLook \/ AskFill \/ AskPress
  \/ Lost \/ SkipFrame \/ Closed \/ SkipMessage
  \/ HearGoto \/ HearSettle \/ NotReady \/ HearLook \/ HearTyped
  \/ PollFails \/ PollAgain \/ PollComplete \/ PollsOver

BrowserNext == seat.at # "ended" /\ (PageStep \/ SeatStep)

BrowserSpec == Init /\ [][BrowserNext]_vars

-----------------------------------------------------------------------------
(* What must not happen                                                    *)

(* What the seat goes on with is the page's answer to the command it       *)
(* asked, so none is left on the wire when it does (_exchange).            *)
NoneOutstanding ==
  ~seat.waiting => \A i \in DOMAIN down : down[i].says.id = 0

(* The packet is typed once at most, into the conversation the seat is     *)
(* bound to or a new one, unless the operator turned to another page; and  *)
(* a run reported as not started asked nothing of the page.                *)
TypedWhereAsked ==
  /\ Len(packets) <= 1
  /\ alone /\ packets # <<>> =>
       packets[1] = IF bound = Nowhere THEN Fresh ELSE bound
  /\ outcome.exit = "SPAWN_FAILED" => packets = <<>> /\ ~outcome.started
                                      /\ seat.id = 0

(* A run that is OK returns an answer nothing more will be added to, and,  *)
(* unless the operator got in the way, the one to its packet, whole or     *)
(* dead without a sign, with the conversation it stands in.                *)
ResultIsTheAnswer ==
  outcome.exit = "OK" =>
    LET t == outcome.text[1]  i == outcome.text[2] IN
    /\ thread[t][i] \in {"done", "dead", "broken"}
    /\ outcome.text[3] = Shows(t, i)
    /\ alone => /\ i > 1 /\ thread[t][i] # "broken" /\ thread[t][i - 1] = "packet"
                /\ packets = <<t>> /\ outcome.landed = t

(* The connection is closed when the run is over, a handshake that failed  *)
(* included.                                                               *)
NoSocketLeaks == seat.at = "ended" => socket # "open"

=============================================================================
