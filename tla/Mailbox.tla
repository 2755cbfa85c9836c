------------------------------ MODULE Mailbox ------------------------------
(****************************************************************************)
(* The durable mailbox of an adapter (adapters/mailbox.py): a spool of       *)
(* envelopes named by sequence and message id, an expired directory and an   *)
(* ack cursor.  append scans the directories, picks the next sequence and    *)
(* publishes a file; receive replays what lies after a cursor.  Producers    *)
(* share the directory, and the consumer can die between receiving, applying *)
(* and acknowledging.                                                        *)
(****************************************************************************)
EXTENDS Naturals, FiniteSets, FiniteSetsExt

CONSTANTS
    Producers,
    MessageIds,
    MaxAppends,
    MaxDeaths,
    MaxMisses        \* files an open or a parse fails on, once each

VARIABLES
    spool,           \* files {[seq, id, ttl, raced]}: raced is history
    expired,         \* the files moved out of it
    dead,            \* files whose expiry has passed
    appending,       \* producer -> the append it is in the middle of
    appends,
    cursor,          \* cursor.json
    inbox,           \* the consumer: what it received and has not acknowledged
    acked,           \* history: ids in a batch that was acknowledged
    twice,           \* history: ids delivered after they had been acknowledged
    missed,          \* history: files a receive could not read
    deaths

mailVars == <<spool, expired, dead, appending, appends, cursor, inbox, acked, twice,
              missed, deaths>>

files == <<spool, expired, dead>>
producing == <<appending, appends>>
history == <<acked, twice, missed>>

NotAppending == [pc |-> "idle", id |-> "", ttl |-> FALSE, seq |-> 0, raced |-> FALSE]
NothingReceived == [open |-> FALSE, batch |-> {}, next |-> 0]

MailInit ==
    /\ spool = {} /\ expired = {} /\ dead = {}
    /\ appending = [p \in Producers |-> NotAppending] /\ appends = 0
    /\ cursor = 0 /\ inbox = NothingReceived
    /\ acked = {} /\ twice = {} /\ missed = {} /\ deaths = 0

OnDisk == spool \cup expired
Ids(fs) == {f.id : f \in fs}

----------------------------------------------------------------------------
(* Producing.                                                                *)

\* The ids whose name lies in either directory.
KnownIds == Ids(OnDisk)

\* append of an id already there returns it and touches nothing.
AppendAgain(p, id) ==
    /\ appending[p].pc = "idle" /\ appends < MaxAppends /\ id \in KnownIds
    /\ appends' = appends + 1
    /\ UNCHANGED <<files, appending, cursor, inbox, history, deaths>>

Append1(p, id, ttl) ==
    /\ appending[p].pc = "idle" /\ appends < MaxAppends /\ id \notin KnownIds
    /\ appends' = appends + 1
    /\ appending' = [appending EXCEPT ![p] =
                        [NotAppending EXCEPT !.pc = "sequence", !.id = id, !.ttl = ttl]]
    /\ UNCHANGED <<files, cursor, inbox, history, deaths>>

\* Slip: sequences of expired traffic are used again.
SlipNextSeq == Max({f.seq : f \in spool} \cup {0}) + 1

\* One more than the highest sequence named in either directory.
NextSeq == Max({f.seq : f \in OnDisk} \cup {0}) + 1

Sequence(p) ==
    /\ appending[p].pc = "sequence"
    /\ appending' = [appending EXCEPT ![p].pc = "write", ![p].seq = NextSeq]
    /\ UNCHANGED <<files, appends, cursor, inbox, history, deaths>>

\* The file appears whole; one of the same name is replaced.
Publish(p) ==
    LET a == appending[p] IN
    /\ a.pc = "write"
    /\ spool' = {f \in spool : ~(f.seq = a.seq /\ f.id = a.id)}
                  \cup {[seq |-> a.seq, id |-> a.id, ttl |-> a.ttl, raced |-> a.raced]}
    /\ appending' = [q \in Producers |->
                        IF q = p THEN NotAppending
                        ELSE [appending[q] EXCEPT !.raced = appending[q].pc = "write"]]
    /\ UNCHANGED <<expired, dead, appends, cursor, inbox, history, deaths>>

\* A producer dies before its file is published: nothing of it is there.
ProducerDies(p) ==
    /\ appending[p].pc # "idle" /\ deaths < MaxDeaths
    /\ deaths' = deaths + 1
    /\ appending' = [appending EXCEPT ![p] = NotAppending]
    /\ UNCHANGED <<files, appends, cursor, inbox, history>>

----------------------------------------------------------------------------
(* Consuming.                                                                *)

\* The first file of an id, in the order of sequence: the others are skipped.
First(fs, f) == \A g \in fs : g.id = f.id => f.seq <= g.seq

\* Slip: duplicates are looked for among the files after the cursor only.
SlipFresh(fs) == {f \in fs : f.seq > cursor /\ First({g \in fs : g.seq > cursor}, f)}

\* What receive(cursor) has not delivered before: first of its id, after the cursor.
Fresh(fs) == {f \in fs : f.seq > cursor /\ First(fs, f)}

\* receive_report over the files that could be read.  Dead ones move to expired; the next
\* cursor is the highest sequence read, and what could not be read is not counted at all.
Receive ==
    \E unread \in {u \in SUBSET (spool \ missed) : Cardinality(u) + Cardinality(missed) <= MaxMisses} :
        LET read == spool \ unread
            gone == Fresh(read) \cap dead
            batch == Fresh(read) \ dead
        IN /\ ~inbox.open
           /\ inbox' = [open |-> TRUE, batch |-> batch,
                        next |-> Max({f.seq : f \in read} \cup {cursor})]
           /\ spool' = spool \ gone
           /\ expired' = expired \cup gone
           /\ twice' = twice \cup (Ids(batch) \cap acked)
           /\ missed' = missed \cup unread
           /\ UNCHANGED <<dead, producing, cursor, acked, deaths>>

Ack ==
    /\ inbox.open
    /\ cursor' = inbox.next
    /\ acked' = acked \cup Ids(inbox.batch)
    /\ inbox' = NothingReceived
    /\ UNCHANGED <<files, producing, twice, missed, deaths>>

\* It starts again from the cursor on disk.
ConsumerDies ==
    /\ inbox.open /\ deaths < MaxDeaths
    /\ deaths' = deaths + 1
    /\ inbox' = NothingReceived
    /\ UNCHANGED <<files, producing, cursor, history>>

----------------------------------------------------------------------------

\* The expiry of a message with a TTL passes.
Expires(f) ==
    /\ f.ttl /\ f \notin dead
    /\ dead' = dead \cup {f}
    /\ UNCHANGED <<spool, expired, producing, cursor, inbox, history, deaths>>

MailNext ==
    \/ \E p \in Producers :
           \/ \E id \in MessageIds :
                  AppendAgain(p, id) \/ \E ttl \in BOOLEAN : Append1(p, id, ttl)
           \/ Sequence(p) \/ Publish(p) \/ ProducerDies(p)
    \/ Receive \/ Ack \/ ConsumerDies
    \/ \E f \in spool : Expires(f)

MailSpec == MailInit /\ [][MailNext]_mailVars

----------------------------------------------------------------------------
(* What was acknowledged is not delivered again, whatever was appended twice *)
(* by two producers, expired, or lost with its consumer, unless the copy     *)
(* that was acknowledged could not be read (mailbox.py:14).                  *)
AckedIsNotRedelivered == twice \subseteq Ids(missed)

(* A message the acknowledged cursor has passed was delivered in a batch     *)
(* that was acknowledged, or else a file of its id was published behind      *)
(* another's sequence, was not readable when its receive went by, or had     *)
(* expired: nothing else is passed over (mailbox.py:23).                     *)
PassedIsAccounted ==
    \A f \in spool :
        (f.seq <= cursor /\ f.id \notin acked) =>
            \E g \in OnDisk : g.id = f.id /\ (g.raced \/ g \in missed \cup expired)

=============================================================================
