--------------------------- MODULE RelayConversation ---------------------------
(***************************************************************************)
(* What a relay promises the two ends it connects, with nothing said about *)
(* processes, crashes or the ledger that keeps the promise.                *)
(*                                                                         *)
(* Turns are numbered 1, 2, 3, ... in the order they are said.  The relay  *)
(* opens with turn 1; the orchestrator says the even turns and hears the   *)
(* odd ones, the execution agent the other way round.  A turn is said only *)
(* when the one before it has been heard, every turn is heard at most once *)
(* and in order, and nothing is heard while an owner's decision is         *)
(* outstanding.  Only a grant that is in force settles a decision.         *)
(***************************************************************************)
EXTENDS Naturals, Sequences

CONSTANTS MaxExchanges,  \* RelayConfig.max_exchanges: how many turns may be heard
          Requirements   \* the owner decisions a gate can ask for

VARIABLES said,      \* how many turns have been said
          heard,     \* the turns the ends have heard, in the order they heard them
          holds,     \* the owner decisions that are outstanding
          granted    \* whether the owner grant the held effects need is in force

vars == <<said, heard, holds, granted>>

Init == said = 0 /\ heard = <<>> /\ holds = {} /\ granted \in BOOLEAN

\* A new turn answers a turn that was heard.
Say == /\ said = Len(heard)
       /\ said' = said + 1
       /\ UNCHANGED <<heard, holds, granted>>

Hear == /\ holds = {}
        /\ Len(heard) < said
        /\ Len(heard) < MaxExchanges
        /\ heard' = Append(heard, Len(heard) + 1)
        /\ UNCHANGED <<said, holds, granted>>

\* A gate asks for a decision.  Asking again for the same effect at the same
\* gate renews the request rather than adding one.
Raise == \E h \in holds' :
            /\ h \in Requirements
            /\ holds' = {g \in holds : g.gate # h.gate \/ g.effect # h.effect} \cup {h}
            /\ UNCHANGED <<said, heard, granted>>

\* A decision is settled by a grant in force for an effect a grant can cover.
Discharge == \E h \in holds :
                /\ granted /\ h.effect = "gated"
                /\ holds' = holds \ {h}
                /\ UNCHANGED <<said, heard, granted>>

\* The owner signs or withdraws a grant.
Decide == granted' = ~granted /\ UNCHANGED <<said, heard, holds>>

Next == Say \/ Hear \/ Raise \/ Discharge \/ Decide

Spec == Init /\ [][Next]_vars
================================================================================
