---------------------------- MODULE ShellSession ----------------------------
(***************************************************************************)
(* The interactive shell behind a pseudo terminal                          *)
(* (core/tools/shell_session.cpp): a reader thread carries its bytes and   *)
(* reports its end; the owner's destructor stops the reader, then the      *)
(* child.  Both may find the child's end, and it must be reaped once.      *)
(***************************************************************************)
EXTENDS Naturals

VARIABLES
    child,    \* "alive", "deaf" (ignores SIGHUP), "zombie", "reaped"
    tty,      \* somebody holds the terminal's other side open
    reader,   \* "poll", "ended" (left the loop), "wait" (in waitpid), "done"
    owner,    \* "open", "join", "stop", "kill", "closed"
    stop,     \* mStop
    status,   \* mExitStatus is set
    exits,    \* calls of on_exit
    stray     \* signals sent after the child was reaped

vars == <<child, tty, reader, owner, stop, status, exits, stray>>

TypeOK ==
    /\ child \in {"alive", "deaf", "zombie", "reaped"} /\ tty \in BOOLEAN
    /\ reader \in {"poll", "ended", "wait", "done"}
    /\ owner \in {"open", "join", "stop", "kill", "closed"}
    /\ stop \in BOOLEAN /\ status \in BOOLEAN /\ exits \in 0 .. 2 /\ stray \in 0 .. 1

\* start() succeeded: child, master and reader exist.
Init ==
    /\ child \in {"alive", "deaf"} /\ tty = TRUE
    /\ reader = "poll" /\ owner = "open"
    /\ stop = FALSE /\ status = FALSE /\ exits = 0 /\ stray = 0

\* The shell exits on its own; a background job may keep the terminal.
ShellExits ==
    /\ child \in {"alive", "deaf"}
    /\ child' = "zombie" /\ tty' \in {tty, FALSE}
    /\ UNCHANGED <<reader, owner, stop, status, exits, stray>>

\* The last one to hold the terminal lets go: a background job, or a shell
\* that closes its own three descriptors and lives on.
LastUserLeaves ==
    /\ tty
    /\ tty' = FALSE
    /\ UNCHANGED <<child, reader, owner, stop, status, exits, stray>>

----------------------------------------------------------------------------
\* The reader polls with a limit, so it sees the stop flag or the end.
SeesStop ==
    /\ reader = "poll" /\ stop
    /\ reader' = "ended"
    /\ UNCHANGED <<child, tty, owner, stop, status, exits, stray>>

SeesEnd ==
    /\ reader = "poll" /\ ~tty
    /\ reader' = "ended"
    /\ UNCHANGED <<child, tty, owner, stop, status, exits, stray>>

\* Fault: the reader always reaps, whoever asked for the end.
AlwaysReaps ==
    /\ reader = "ended" /\ reader' = "wait"
    /\ UNCHANGED <<child, tty, owner, stop, status, exits, stray>>

\* A natural end is reaped here; on the way down stop_child() does it.
DecideWho ==
    /\ reader = "ended"
    /\ reader' = IF stop THEN "done" ELSE "wait"
    /\ UNCHANGED <<child, tty, owner, stop, status, exits, stray>>

Reap ==
    /\ reader = "wait" /\ child = "zombie"
    /\ child' = "reaped" /\ status' = TRUE /\ exits' = exits + 1
    /\ reader' = "done"
    /\ UNCHANGED <<tty, owner, stop, stray>>

----------------------------------------------------------------------------
\* The destructor: flag, join, stop the child, close the master.
Destroy ==
    /\ owner = "open"
    /\ stop' = TRUE /\ owner' = "join"
    /\ UNCHANGED <<child, tty, reader, status, exits, stray>>

Join ==
    /\ owner = "join" /\ reader = "done"
    /\ owner' = "stop"
    /\ UNCHANGED <<child, tty, reader, stop, status, exits, stray>>

\* Fault: the status the reader stored is not looked at.
StopAlways ==
    /\ owner = "stop"
    /\ owner' = "kill"
    /\ stray' = IF child = "reaped" THEN 1 ELSE stray
    /\ child' = IF child = "alive" THEN "zombie" ELSE child
    /\ UNCHANGED <<tty, reader, stop, status, exits>>

\* SIGHUP, unless the reader has reaped the child already.
StopChild ==
    /\ owner = "stop"
    /\ IF status
       THEN owner' = "closed" /\ UNCHANGED <<child, stray>>
       ELSE /\ owner' = "kill"
            /\ stray' = IF child = "reaped" THEN 1 ELSE stray
            /\ child' = IF child = "alive" THEN "zombie" ELSE child
    /\ UNCHANGED <<tty, reader, stop, status, exits>>

\* A child that is gone is reaped by a poll, one that stays by SIGKILL.
ReapOrKill ==
    /\ owner = "kill"
    /\ owner' = "closed"
    /\ child' = "reaped" /\ status' = TRUE
    /\ UNCHANGED <<tty, reader, stop, exits, stray>>

Closed == owner = "closed" /\ UNCHANGED vars

Reader == SeesStop \/ SeesEnd \/ DecideWho \/ Reap
Owner == Join \/ StopChild \/ ReapOrKill
Next == ShellExits \/ LastUserLeaves \/ Reader \/ Destroy \/ Owner \/ Closed

Spec == Init /\ [][Next]_vars /\ WF_vars(Reader) /\ WF_vars(Owner)

----------------------------------------------------------------------------
\* No signal goes to a number that is no longer the child's, and the end is
\* reported at most once (shell_session.cpp:199-229).
NoStraySignal == stray = 0 /\ exits <= 1

\* The destructor comes back with nothing left running or unreaped, except
\* that it waits for a shell that let its terminal go before and lives on:
\* the reader sits in waitpid() for that one (shell_session.cpp:59-67,
\* 199-207).
Joining == owner = "join"
Joined ==
    \/ owner = "closed" /\ child = "reaped"
    \/ reader = "wait" /\ child \in {"alive", "deaf"} /\ ~tty

\* What keeps NoStraySignal so: the child is reaped exactly once and its status kept,
\* and the owner looks at it only when the reader is done.
ReapedOnce ==
    /\ child = "reaped" <=> status
    /\ reader # "done" => exits = 0 /\ ~status
    /\ owner \in {"stop", "kill", "closed"} => reader = "done"
    /\ owner = "kill" => ~status

IInv == TypeOK /\ ReapedOnce /\ NoStraySignal
=============================================================================
