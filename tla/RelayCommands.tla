--------------------------- MODULE RelayCommands ---------------------------
(****************************************************************************)
(* The relay's command line over its durable record (relay/cli.py with       *)
(* core/corerelay.py's lock and argv): what a relay was started under, what  *)
(* each resume runs it under, and what is written back.  Commands are        *)
(* processes: the lock is the kernel's, a dead process's lock is free.       *)
(****************************************************************************)
EXTENDS Naturals, FiniteSets

CONSTANTS
    Commands,        \* relay start and relay resume processes
    Checks,          \* verification commands
    Unset            \* a flag that was not given

VARIABLES
    row,             \* the relay's record: its policy and where its ends are
    lock,            \* the command that holds the relay's lock
    command,         \* command -> how far it is, its flags, the row it read, what it runs
    overrides        \* endpoint overrides in the event log: {[was, used]}

commandVars == <<row, lock, command, overrides>>

Nobody == "nobody"
NoRow == [exists |-> FALSE]

----------------------------------------------------------------------------
(* Flags and policies.                                                       *)

Ceilings == {0, 2}

\* Core's resume gives none of them.
NoFlags == [checks |-> {}, ceiling |-> Unset, noProbe |-> FALSE, base |-> Unset,
            noCreate |-> FALSE]

\* What the parser fills in on a start that says nothing of the rest.
StartWith(k, n, x) ==
    [checks |-> k, ceiling |-> n, noProbe |-> x, base |-> "here", noCreate |-> FALSE]

StartFlags ==
    {StartWith(k, n, x) : k \in SUBSET Checks, n \in Ceilings, x \in BOOLEAN}

\* Core's, and one flag typed.
ResumeFlags ==
    {NoFlags, [NoFlags EXCEPT !.checks = Checks], [NoFlags EXCEPT !.noProbe = TRUE],
     [NoFlags EXCEPT !.base = "there"], [NoFlags EXCEPT !.noCreate = TRUE]}
    \cup {[NoFlags EXCEPT !.ceiling = n] : n \in Ceilings}

Shipped == 2
NoCommand == [pc |-> "idle", flags |-> NoFlags, read |-> NoRow, runs |-> NoRow]

CommandInit ==
    /\ row = NoRow /\ lock = Nobody
    /\ command = [p \in Commands |-> NoCommand]
    /\ overrides = {}

CmdAt(p, pc) == command[p].pc = pc
Goes(p, pc) == command' = [command EXCEPT ![p].pc = pc]
Leaves(p) == command' = [command EXCEPT ![p] = [NoCommand EXCEPT !.pc = "done"]]

\* relay_config and persisted_policy over the flags as they were typed; a row that says
\* nothing of its ends has placed = FALSE.
Typed(f) ==
    [exists |-> TRUE, checks |-> f.checks, ceiling |-> f.ceiling, probe |-> ~f.noProbe,
     placed |-> TRUE, base |-> f.base, creates |-> ~f.noCreate]

Unplaced(policy) == [policy EXCEPT !.placed = FALSE, !.base = Unset, !.creates = TRUE]

\* The record's verification commands, and the flags' after them.
Believes(f, r) == r.checks \cup f.checks

\* Slip: the recorded ceiling is tested for truth, so a zero is the shipped number again.
SlipResumed(f, r) ==
    [exists |-> TRUE,
     checks |-> Believes(f, r),
     ceiling |-> IF f.ceiling # Unset THEN f.ceiling
                 ELSE IF r.ceiling = 0 THEN Shipped ELSE r.ceiling,
     probe |-> r.probe /\ ~f.noProbe,
     placed |-> TRUE,
     base |-> IF f.base # Unset \/ ~r.placed THEN f.base ELSE r.base,
     creates |-> IF r.placed THEN r.creates ELSE ~f.noCreate]

\* apply_recorded_policy and apply_recorded_endpoints: checks only grow, probing is only turned
\* off, a ceiling and a place are the flag's when one was typed, else the record's, and whether a
\* session may be created is the record's whatever the flag says.
Resumed(f, r) ==
    [exists |-> TRUE,
     checks |-> Believes(f, r),
     ceiling |-> IF f.ceiling # Unset THEN f.ceiling ELSE r.ceiling,
     probe |-> r.probe /\ ~f.noProbe,
     placed |-> TRUE,
     base |-> IF f.base # Unset \/ ~r.placed THEN f.base ELSE r.base,
     creates |-> IF r.placed THEN r.creates ELSE ~f.noCreate]

----------------------------------------------------------------------------
(* relay start.                                                              *)

\* hold: the lock, or RELAY_ALREADY_RUNNING; then the ends are built.
Start(p) ==
    /\ CmdAt(p, "idle")
    /\ \E f \in StartFlags :
           IF lock = Nobody
           THEN /\ lock' = p
                /\ command' = [command EXCEPT ![p] =
                                  [pc |-> "starting", flags |-> f, read |-> NoRow,
                                   runs |-> Typed(f)]]
           ELSE Leaves(p) /\ UNCHANGED lock
    /\ UNCHANGED <<row, overrides>>

\* kernel.start writes the row, whether or not the start is then refused; a second row of the
\* same relay is an error.
Create(p) ==
    /\ CmdAt(p, "starting")
    /\ IF row = NoRow
       THEN row' = Unplaced(command[p].runs) /\ Goes(p, "created") /\ UNCHANGED lock
       ELSE Leaves(p) /\ lock' = Nobody /\ UNCHANGED row
    /\ UNCHANGED overrides

----------------------------------------------------------------------------
(* relay resume.                                                             *)

\* The row is read first ...
Resume(p) ==
    /\ CmdAt(p, "idle") /\ row # NoRow
    /\ \E f \in ResumeFlags :
           command' = [command EXCEPT ![p] = [pc |-> "read", flags |-> f, read |-> row,
                                              runs |-> NoRow]]
    /\ UNCHANGED <<row, lock, overrides>>

\* ... and only then the lock is taken.
Hold(p) ==
    /\ CmdAt(p, "read")
    /\ IF lock = Nobody
       THEN /\ lock' = p
            /\ command' = [command EXCEPT ![p].pc = "resuming",
                                          ![p].runs = Resumed(command[p].flags, command[p].read)]
       ELSE Leaves(p) /\ UNCHANGED lock
    /\ UNCHANGED <<row, overrides>>

\* An owner's decision is awaited, or an end cannot be built: nothing was written.
Refused(p) ==
    /\ CmdAt(p, "resuming")
    /\ Leaves(p) /\ lock' = Nobody
    /\ UNCHANGED <<row, overrides>>

----------------------------------------------------------------------------
(* Both write down what they run, and run it.                                *)

Overrides(p) ==
    LET c == command[p] IN
    {[was |-> c.read.base, used |-> c.runs.base] :
        x \in {y \in {1} : /\ c.read # NoRow /\ c.read.placed
                           /\ c.flags.base # Unset /\ c.flags.base # c.read.base}}

\* Slip: the policy is only written at the start.
SlipRecordShape(p) ==
    /\ CmdAt(p, "created") \/ CmdAt(p, "resuming")
    /\ row' = IF CmdAt(p, "created") THEN command[p].runs
              ELSE [row EXCEPT !.placed = TRUE, !.base = command[p].runs.base,
                               !.creates = command[p].runs.creates]
    /\ Goes(p, IF Overrides(p) = {} THEN "running" ELSE "recorded")
    /\ UNCHANGED <<lock, overrides>>

\* record_relay_shape.
RecordShape(p) ==
    /\ CmdAt(p, "created") \/ CmdAt(p, "resuming")
    /\ row' = command[p].runs
    /\ Goes(p, IF Overrides(p) = {} THEN "running" ELSE "recorded")
    /\ UNCHANGED <<lock, overrides>>

LogOverride(p) ==
    /\ CmdAt(p, "recorded")
    /\ overrides' = overrides \cup Overrides(p)
    /\ Goes(p, "running")
    /\ UNCHANGED <<row, lock>>

\* A start that is refused, a relay that stops: the process ends and its lock with it.
Stops(p) ==
    /\ CmdAt(p, "running")
    /\ Leaves(p) /\ lock' = Nobody
    /\ UNCHANGED <<row, overrides>>

CommandDies(p) ==
    /\ command[p].pc \notin {"idle", "done"}
    /\ Leaves(p)
    /\ lock' = IF lock = p THEN Nobody ELSE lock
    /\ UNCHANGED <<row, overrides>>

CommandNext ==
    \E p \in Commands :
        \/ Start(p) \/ Create(p)
        \/ Resume(p) \/ Hold(p) \/ Refused(p)
        \/ RecordShape(p) \/ LogOverride(p) \/ Stops(p) \/ CommandDies(p)

CommandSpec == CommandInit /\ [][CommandNext]_commandVars

----------------------------------------------------------------------------

(* One command at a time runs the relay, and what it runs under is what the  *)
(* record says, so that the next resume inherits it (cli.py:271).            *)
RecordIsWhatRuns ==
    \A p \in Commands : CmdAt(p, "running") =>
        /\ row = command[p].runs
        /\ \A q \in Commands \ {p} : command[q].pc \notin {"created", "resuming", "running"}

(* A resume keeps the ceiling of the relay it read unless one was typed, the *)
(* zero included, and points its ends where they were unless told otherwise  *)
(* (cli.py:396).                                                             *)
ResumeKeepsPolicy ==
    \A p \in Commands : CmdAt(p, "running") /\ command[p].read # NoRow =>
        LET c == command[p] IN
        /\ c.flags.ceiling = Unset => c.runs.ceiling = c.read.ceiling
        /\ c.flags.base = Unset /\ c.read.placed => c.runs.base = c.read.base
        /\ c.runs.base # c.read.base /\ c.read.placed =>
               [was |-> c.read.base, used |-> c.runs.base] \in overrides

=============================================================================
