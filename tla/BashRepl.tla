------------------------------ MODULE BashRepl ------------------------------
(***************************************************************************)
(* The bash_repl tool: one bash that lives as long as the agent, spoken to *)
(* over two pipes (core/tools/bash_repl.cpp, tools_bash_repl.cpp).  A      *)
(* command goes to a file the shell sources; the line after it prints a    *)
(* marker, and the marker's arrival ends the call.  A timeout sends        *)
(* SIGINT; a shell that does not come back in the grace time is replaced.  *)
(*                                                                         *)
(* The shell is a process of its own here: it takes a step whenever it     *)
(* likes, so a command may end between the deadline and the signal.        *)
(***************************************************************************)
EXTENDS Naturals, Sequences

CONSTANTS MaxCalls,   \* calls of the tool in a behaviour
          MaxShells   \* shells started in a behaviour

\* What a command may do to its shell.
\*   "ends"    finishes after a while, and dies of SIGINT when interrupted
\*   "deaf"    ignores SIGINT and never ends
\*   "exits"   ends the shell itself
\*   "holds"   ends the shell, but a background job keeps its output open
\*   "reads"   reads the shell's input: the marker's line is gone
\*   "leaves"  ends, and a background job kills the shell later
Commands == {"ends", "deaf", "exits", "holds", "reads", "leaves"}

VARIABLES
    caller,    \* where run() is
    calls,     \* calls so far; the number of the one in hand
    timeout,   \* whether the call has a limit
    child,     \* mChild: "none", "idle", "busy", "dead"
    shell,     \* which shell it is
    stdin,     \* lines the shell has not read
    stdout,    \* markers it has printed that run() has not read
    held,      \* somebody else holds the output pipe open
    doomed,    \* a background job will kill the shell
    command,   \* what the command in hand does
    outcome,   \* what the last call returned
    believed   \* the shell whose state the agent thinks it has; 0 for none

vars == <<caller, calls, timeout, child, shell, stdin, stdout, held, doomed,
          command, outcome, believed>>

shellVars == <<child, shell, stdin, stdout, held, doomed>>

Returned(of, restarted, error) ==
    [of |-> of, restarted |-> restarted, error |-> error]

TypeOK ==
    /\ caller \in {"none", "run", "waiting", "grace"}
    /\ calls \in 0 .. MaxCalls /\ timeout \in BOOLEAN
    /\ child \in {"none", "idle", "busy", "dead"} /\ shell \in 0 .. MaxShells
    /\ stdin \in Seq({"source", "mark"}) /\ stdout \in Seq(1 .. MaxCalls)
    /\ held \in BOOLEAN /\ doomed \in BOOLEAN
    /\ command \in Commands
    /\ outcome \in [of : 0 .. MaxCalls, restarted : BOOLEAN, error : BOOLEAN]
    /\ believed \in 0 .. MaxShells

Init ==
    /\ caller = "none" /\ calls = 0 /\ timeout = FALSE
    /\ child = "none" /\ shell = 0 /\ stdin = <<>> /\ stdout = <<>>
    /\ held = FALSE /\ doomed = FALSE
    /\ command = "ends" /\ outcome = Returned(0, FALSE, FALSE) /\ believed = 0

\* stop() closes the input, asks with SIGHUP, insists with SIGKILL and reaps.
Stop ==
    /\ child' = "none" /\ stdin' = <<>> /\ stdout' = <<>>
    /\ held' = FALSE /\ doomed' = FALSE /\ UNCHANGED shell

\* An answer that says the session's state is gone leaves nothing to believe.
Return(of, restarted, error) ==
    /\ caller' = "none"
    /\ outcome' = Returned(of, restarted, error)
    /\ believed' = IF restarted \/ error THEN 0 ELSE shell
    /\ UNCHANGED <<calls, timeout, command>>

----------------------------------------------------------------------------
\* The tool is called.  "restart" throws the shell away first, and with no
\* command that is all there is.
Call ==
    /\ caller = "none" /\ calls < MaxCalls
    /\ calls' = calls + 1
    /\ command' \in Commands /\ timeout' \in BOOLEAN
    /\ caller' = "run"
    /\ UNCHANGED <<outcome, believed>>
    /\ UNCHANGED shellVars

Restart ==
    /\ caller = "none" /\ child # "none"
    /\ Stop /\ believed' = 0
    /\ UNCHANGED <<caller, calls, timeout, command, outcome>>

\* The first call, or the first after a stop, starts a shell and reads up to
\* the marker of its own startup.  Pipes, fork, exec or the five seconds may
\* fail, and nothing is left then.
Start ==
    /\ caller = "run" /\ child = "none" /\ shell < MaxShells
    /\ child' = "idle" /\ shell' = shell + 1
    /\ UNCHANGED <<stdin, stdout, held, doomed>>
    /\ UNCHANGED <<caller, calls, timeout, command, outcome, believed>>

StartFails ==
    /\ caller = "run" /\ child = "none"
    /\ Return(calls, FALSE, TRUE) /\ UNCHANGED shellVars

StageFails ==
    /\ caller = "run" /\ child # "none"
    /\ caller' = "none" /\ outcome' = Returned(calls, FALSE, TRUE)
    /\ UNCHANGED <<calls, timeout, command, believed>> /\ UNCHANGED shellVars

\* Both lines of the protocol go down the pipe at once.
Send ==
    /\ caller = "run" /\ child \in {"idle", "busy"}
    /\ stdin' = stdin \o <<"source", "mark">>
    /\ caller' = "waiting"
    /\ UNCHANGED <<calls, timeout, child, shell, stdout, held, doomed>>
    /\ UNCHANGED <<command, outcome, believed>>

\* A dead shell takes no more lines: EPIPE, and the shell is put away.
SendFails ==
    /\ caller = "run" /\ child = "dead"
    /\ Return(calls, FALSE, TRUE) /\ Stop

----------------------------------------------------------------------------
\* The shell's own steps.
Source ==
    /\ child = "idle" /\ stdin # <<>> /\ Head(stdin) = "source"
    /\ CASE command \in {"ends", "deaf"} ->
              child' = "busy" /\ stdin' = Tail(stdin) /\ UNCHANGED <<held, doomed>>
         [] command = "leaves" ->
              child' = "busy" /\ stdin' = Tail(stdin) /\ doomed' = TRUE /\ UNCHANGED held
         [] command = "reads" ->
              child' = "busy" /\ stdin' = <<>> /\ UNCHANGED <<held, doomed>>
         [] OTHER ->
              child' = "dead" /\ stdin' = <<>> /\ held' = (command = "holds") /\ UNCHANGED doomed
    /\ UNCHANGED <<shell, stdout, caller, calls, timeout, command, outcome, believed>>

Mark ==
    /\ child = "idle" /\ stdin # <<>> /\ Head(stdin) = "mark"
    /\ stdin' = Tail(stdin) /\ stdout' = Append(stdout, calls)
    /\ UNCHANGED <<child, shell, held, doomed>>
    /\ UNCHANGED <<caller, calls, timeout, command, outcome, believed>>

CommandEnds ==
    /\ child = "busy" /\ command # "deaf"
    /\ child' = "idle"
    /\ UNCHANGED <<shell, stdin, stdout, held, doomed>>
    /\ UNCHANGED <<caller, calls, timeout, command, outcome, believed>>

Killed ==
    /\ child \in {"idle", "busy"} /\ doomed
    /\ child' = "dead" /\ stdin' = <<>> /\ doomed' = FALSE
    /\ UNCHANGED <<shell, stdout, held>>
    /\ UNCHANGED <<caller, calls, timeout, command, outcome, believed>>

----------------------------------------------------------------------------
\* read_until_marker() finds a marker: in the time given, or in the grace
\* after the interrupt.  What is left in the buffer is this call's output.
Marker ==
    /\ caller \in {"waiting", "grace"} /\ stdout # <<>>
    /\ Return(Head(stdout), FALSE, FALSE)
    /\ stdout' = Tail(stdout)
    /\ UNCHANGED <<child, shell, stdin, held, doomed>>

\* Fault: an end of file returns as an ordinary result.
DiedUntold ==
    /\ caller = "waiting" /\ stdout = <<>> /\ child = "dead" /\ ~held
    /\ caller' = "none" /\ outcome' = Returned(calls, FALSE, FALSE)
    /\ UNCHANGED <<calls, timeout, command, believed>> /\ Stop

\* End of file: every writer has closed.  Reported with what was printed.
Died ==
    /\ caller = "waiting" /\ stdout = <<>> /\ child = "dead" /\ ~held
    /\ Return(calls, TRUE, FALSE) /\ Stop

\* Fault: the limit is counted anew with every interrupt.
StartOver ==
    /\ caller = "waiting" /\ timeout
    /\ child' = IF child = "busy" /\ command # "deaf" THEN "idle" ELSE child
    /\ UNCHANGED <<caller, shell, stdin, stdout, held, doomed>>
    /\ UNCHANGED <<calls, timeout, command, outcome, believed>>

\* The deadline.  SIGINT goes to the whole group: a command that takes it
\* dies, the shell runs its trap, and a shell already idle does just that.
Interrupt ==
    /\ caller = "waiting" /\ timeout
    /\ caller' = "grace"
    /\ child' = IF child = "busy" /\ command # "deaf" THEN "idle" ELSE child
    /\ UNCHANGED <<shell, stdin, stdout, held, doomed>>
    /\ UNCHANGED <<calls, timeout, command, outcome, believed>>

\* Fault: the deaf shell is left alone, to be used again.
KeepTheShell ==
    /\ caller = "grace"
    /\ Return(calls, TRUE, FALSE) /\ UNCHANGED shellVars

\* No marker in the grace time, or end of file: the shell is replaced.
GiveUp ==
    /\ caller = "grace"
    /\ Return(calls, TRUE, FALSE) /\ Stop

----------------------------------------------------------------------------
\* The behaviour ends at its bounds, or in a call without a limit whose
\* command never ends.
Idle ==
    /\ \/ calls = MaxCalls
       \/ shell = MaxShells
       \/ caller = "waiting" /\ ~timeout
    /\ UNCHANGED vars

CallerStep == \/ Start \/ StartFails \/ Send \/ SendFails \/ Marker \/ Died
              \/ Interrupt \/ GiveUp
ShellStep == Source \/ Mark \/ CommandEnds \/ Killed
Next == Call \/ Restart \/ StageFails \/ CallerStep \/ ShellStep \/ Idle

Spec == Init /\ [][Next]_vars /\ WF_vars(CallerStep) /\ WF_vars(Source \/ Mark)

----------------------------------------------------------------------------
\* Properties.

\* A call is answered by its own command's marker: one left over from a call
\* that timed out, or from a shell that was replaced, never ends a later call
\* (bash_repl.cpp:335-376).
OutcomeIsOwn ==
    caller # "none" /\ caller' = "none" => outcome'.of = calls

\* The agent never goes on believing in the state of a shell that has been
\* replaced: every way to lose it is told, by the answer or as an error
\* (bash_repl.cpp:343-376, "restarted").
LossIsTold == believed \in {0, shell}

\* A call with a limit returns, whatever its command does to the shell
\* (bash_repl.cpp:354-376).
Limited == caller = "waiting" /\ timeout
Answered == caller = "none"

\* What keeps them so: nothing is believed of no shell; and between calls the pipes
\* are empty, so that a marker is the call's in hand.
NothingIsBelievedOfNone == child = "none" => believed = 0 /\ caller \in {"none", "run"}

PipesAreTheCalls ==
    /\ caller \in {"none", "run"} => stdin = <<>> /\ stdout = <<>>
    /\ caller # "none" => calls > 0
    /\ \/ stdin \in {<<"source", "mark">>, <<"mark">>, <<>>} /\ stdout = <<>>
       \/ stdin = <<>> /\ stdout = <<calls>>

IInv == TypeOK /\ NothingIsBelievedOfNone /\ PipesAreTheCalls /\ LossIsTold
=============================================================================
