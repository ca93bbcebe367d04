----------------------------- MODULE Transcript -----------------------------
(***************************************************************************)
(* The transcript m8 and sp show: a tree of nodes the observer of every      *)
(* agent's events grows, the tables that route an agent's events to its       *)
(* block, the pointers the turn and the memory commands keep into it, the     *)
(* pane grid, /reset and leaving.  src/apps/m8/main.cpp, src/apps/sp/main.cpp *)
(* and common/transcript_view.cpp.                                            *)
(*                                                                         *)
(* Each step is one hold of the screen's mutex.  What the events show is left *)
(* out: of a list only matters which subagents' nodes are in it, and whether  *)
(* the nodes that pointers refer to still are.                               *)
(***************************************************************************)
EXTENDS Integers, FiniteSets

CONSTANTS
    Root, Subs,      \* agents
    Ops,             \* memory commands (and, in m8, ! commands)
    MaxTurns, MaxSummaries   \* bounds

Workers == Subs \cup {Root}

VARIABLES
    app,        \* which program: "m8" or "sp"
    above,      \* the lists a subagent's node lies in: none, there is no node
    marked,     \* subagents whose node says done
    containers, nodes, running,   \* agent_containers, subagent_nodes, running_agents
    turnLive,   \* turn_begin still refers to a node of the transcript
    opLive,     \* commands whose node is still in the transcript
    waiting,    \* waiting_for_reply
    act,        \* what each agent is doing
    missed,     \* subagents the save at the end of the turn does not wait for
    op,         \* what each command is doing
    posting,    \* threads of turns past their last use of the transcript
    inFlight,   \* threads_in_flight
    leaving,    \* "up", "closing", "returned" or "exited"
    turns, summaries

treeVars == <<above, marked>>
tableVars == <<containers, nodes, running>>
pointerVars == <<turnLive, opLive>>
agentVars == <<act, missed>>
threadVars == <<op, posting, inFlight>>
vars == <<app, treeVars, tableVars, pointerVars, waiting, agentVars,
          threadVars, leaving, turns, summaries>>

Init ==
    /\ app \in {"m8", "sp"}
    /\ above = [c \in Subs |-> {}] /\ marked = {}
    /\ containers = {Root} /\ nodes = {} /\ running = {}
    /\ turnLive = FALSE /\ opLive = {} /\ waiting = FALSE
    /\ act = [a \in Workers |-> "off"] /\ missed = {}
    /\ op = [o \in Ops |-> "off"] /\ posting = 0 /\ inFlight = 0
    /\ leaving = "up" /\ turns = 0 /\ summaries = 0

Up == leaving = "up"
Alive == leaving \in {"up", "closing"}

\* Where an agent's events land: an unknown agent's, in the root's list.
ListOf(a) == IF a \in containers THEN a ELSE Root

Go(a, where) == act' = [act EXCEPT ![a] = where]

----------------------------------------------------------------------------
\* A turn.

\* start_turn(): the user's node, and a thread.  In m8 the turn may have to be prepared.
StartTurn(first) ==
    /\ Up /\ ~waiting /\ turns < MaxTurns
    /\ first = "prepare" => app = "m8"
    /\ turns' = turns + 1
    /\ turnLive' = TRUE /\ waiting' = TRUE
    /\ Go(Root, first)
    /\ inFlight' = inFlight + 1
    /\ UNCHANGED <<app, treeVars, tableVars, opLive, missed, op, posting,
                   leaving, summaries>>

Prepared ==
    /\ Alive /\ act[Root] = "prepare"
    /\ Go(Root, "think")
    /\ UNCHANGED <<app, treeVars, tableVars, pointerVars, waiting, missed,
                   threadVars, leaving, turns, summaries>>

\* ToolCall, and ToolResult or Denied.
Call(a) ==
    /\ Alive /\ act[a] = "think"
    /\ Go(a, "call")
    /\ UNCHANGED <<app, treeVars, tableVars, pointerVars, waiting, missed,
                   threadVars, leaving, turns, summaries>>

Result(a) ==
    /\ Alive /\ act[a] = "call"
    /\ Go(a, "think")
    /\ UNCHANGED <<app, treeVars, tableVars, pointerVars, waiting, missed,
                   threadVars, leaving, turns, summaries>>

\* assemble_tree() copies an agent's children before it waits for the agent: those it
\* spawns from then on are missed, and those of one it missed.
Overlooked(a) ==
    IF a \in missed THEN {TRUE} ELSE IF act[Root] = "save" THEN BOOLEAN ELSE {FALSE}

\* One new id is as good as another.
Fresh == CHOOSE c \in Subs : act[c] = "off"

\* SubagentStart, emitted by the spawner; then the subagent's thread runs.
Spawn(a, c) ==
    LET list == ListOf(a) IN
    /\ Alive /\ act[a] = "call" /\ act[c] = "off" /\ c = Fresh
    /\ Go(c, "think")
    /\ \E late \in Overlooked(a) : missed' = IF late THEN missed \cup {c} ELSE missed
    /\ IF Up
       THEN /\ above' = [above EXCEPT ![c] =
                           {list} \cup IF list = Root THEN {} ELSE above[list]]
            /\ containers' = containers \cup {c} /\ nodes' = nodes \cup {c}
            /\ running' = running \cup {c}
       ELSE UNCHANGED <<above, tableVars>>
    /\ UNCHANGED <<app, marked, pointerVars, waiting, threadVars, leaving,
                   turns, summaries>>

\* set_result(): the result can be read ...
Publish(c) ==
    /\ Alive /\ act[c] = "think"
    /\ Go(c, "published")
    /\ UNCHANGED <<app, treeVars, tableVars, pointerVars, waiting, missed,
                   threadVars, leaving, turns, summaries>>

\* ... before its SubagentDone is emitted.
EmitDone(c) ==
    /\ Alive /\ act[c] = "published"
    /\ Go(c, "over")
    /\ IF Up
       THEN /\ marked' = marked \cup (nodes \cap {c})
            /\ running' = running \ {c}
       ELSE UNCHANGED <<marked, running>>
    /\ UNCHANGED <<app, above, containers, nodes, pointerVars,
                   waiting, missed, threadVars, leaving, turns, summaries>>

----------------------------------------------------------------------------
\* ContextSummarized: the agent's list is cleared.

\* Fault: the blocks are cleared with their routes left.
ForgetNothing(list) == {}

\* forget_subtree() over the list: every block under it.
Forgotten(list) == {c \in Subs : list \in above[c]}

Summarize(a) ==
    LET list == ListOf(a)
        gone == {c \in Subs : list \in above[c]}
        left == IF a = Root THEN {} ELSE nodes \ Forgotten(list) IN
    /\ Up /\ act[a] = "think" /\ summaries < MaxSummaries
    /\ summaries' = summaries + 1
    /\ above' = [c \in Subs |-> IF c \in gone THEN {} ELSE above[c]]
    /\ marked' = marked \ gone
    /\ nodes' = left
    /\ containers' = IF a = Root THEN {Root} ELSE containers \ Forgotten(list)
    /\ running' = running \cap (left \ marked)
    /\ IF list = Root THEN turnLive' = FALSE /\ opLive' = {}
                      ELSE UNCHANGED pointerVars
    /\ UNCHANGED <<app, waiting, agentVars, threadVars, leaving, turns>>

----------------------------------------------------------------------------
\* The end of a turn.

\* run_turn() ends in save() -> assemble_tree(), which starts with the children of
\* the root: all it has spawned by now are waited for, with what they had spawned.
SaveBegins ==
    /\ Alive /\ act[Root] = "think"
    /\ Go(Root, "save") /\ missed' = {}
    /\ UNCHANGED <<app, treeVars, tableVars, pointerVars, waiting,
                   threadVars, leaving, turns, summaries>>

TreeSaved ==
    /\ act[Root] = "save"
    /\ \A c \in Subs \ missed : act[c] \in {"off", "published", "over"}

\* Fault: running_agents is left to the SubagentDone events.
EndTurnTrusting ==
    /\ Alive /\ (TreeSaved \/ act[Root] = "prepare")
    /\ Go(Root, "off")
    /\ waiting' = FALSE /\ turnLive' = FALSE
    /\ UNCHANGED running
    /\ posting' = posting + 1
    /\ UNCHANGED <<app, treeVars, containers, nodes, opLive, missed, op, inFlight,
                   leaving, turns, summaries>>

\* Saved, or not to be prepared.  What follows turn_begin is folded.
EndTurn ==
    /\ Alive /\ (TreeSaved \/ act[Root] = "prepare")
    /\ Go(Root, "off")
    /\ waiting' = FALSE /\ turnLive' = FALSE
    /\ running' = {}
    /\ posting' = posting + 1
    /\ UNCHANGED <<app, treeVars, containers, nodes, opLive, missed, op, inFlight,
                   leaving, turns, summaries>>

\* PostEvent(), and then the count.
TurnThreadEnds ==
    /\ Alive /\ posting > 0
    /\ posting' = posting - 1 /\ inFlight' = inFlight - 1
    /\ UNCHANGED <<app, treeVars, tableVars, pointerVars, waiting,
                   agentVars, op, leaving, turns, summaries>>

----------------------------------------------------------------------------
\* Commands that answer later.  sp shows a node at once and keeps a pointer to
\* it; m8 adds its answer at the end.

StartOp(o) ==
    /\ Up /\ op[o] = "off"
    /\ op' = [op EXCEPT ![o] = "work"]
    /\ opLive' = IF app = "sp" THEN opLive \cup {o} ELSE opLive
    /\ inFlight' = inFlight + 1
    /\ UNCHANGED <<app, treeVars, tableVars, turnLive, waiting,
                   agentVars, posting, leaving, turns, summaries>>

\* Fault: the thread counts itself out with its last write.
AnswerAndLeave(o) ==
    /\ Alive /\ op[o] = "work"
    /\ op' = [op EXCEPT ![o] = "post"]
    /\ opLive' = opLive \ {o}
    /\ inFlight' = inFlight - 1
    /\ UNCHANGED <<app, treeVars, tableVars, turnLive, waiting,
                   agentVars, posting, leaving, turns, summaries>>

Answer(o) ==
    /\ Alive /\ op[o] = "work"
    /\ op' = [op EXCEPT ![o] = "post"]
    /\ opLive' = opLive \ {o}
    /\ UNCHANGED <<app, treeVars, tableVars, turnLive, waiting,
                   agentVars, posting, inFlight, leaving, turns, summaries>>

OpThreadEnds(o) ==
    /\ Alive /\ op[o] = "post"
    /\ op' = [op EXCEPT ![o] = "over"]
    /\ inFlight' = IF inFlight > 0 THEN inFlight - 1 ELSE 0
    /\ UNCHANGED <<app, treeVars, tableVars, pointerVars, waiting,
                   agentVars, posting, leaving, turns, summaries>>

----------------------------------------------------------------------------
\* The person, and the screen.

PendingOps == {o \in Ops : op[o] = "work"}

\* Fault: sp resets under a memory command.
ResetsOverOps == ~waiting
MayReset == ~waiting /\ (app = "sp" => PendingOps = {})

Reset ==
    /\ Up /\ MayReset
    /\ above' = [c \in Subs |-> {}] /\ marked' = {}
    /\ nodes' = {} /\ containers' = {Root} /\ running' = {}
    /\ turnLive' = FALSE /\ opLive' = {}
    /\ UNCHANGED <<app, waiting, agentVars, threadVars, leaving, turns, summaries>>

\* A frame: panes whose block is gone or done leave the grid.
Draw ==
    /\ Up
    /\ running' = running \cap (nodes \ marked)
    /\ UNCHANGED <<app, treeVars, containers, nodes, pointerVars, waiting,
                   agentVars, threadVars, leaving, turns, summaries>>

----------------------------------------------------------------------------
\* Leaving: the screen ends and the observer is dropped ...
Quit ==
    /\ Up
    /\ leaving' = "closing"
    /\ UNCHANGED <<app, treeVars, tableVars, pointerVars, waiting,
                   agentVars, threadVars, turns, summaries>>

\* ... m8 returns; sp waits for its threads, or leaves without unwinding.
Return ==
    /\ leaving = "closing"
    /\ \/ leaving' = "returned" /\ (app = "sp" => inFlight = 0)
       \/ leaving' = "exited" /\ app = "sp" /\ inFlight # 0
    /\ UNCHANGED <<app, treeVars, tableVars, pointerVars, waiting,
                   agentVars, threadVars, turns, summaries>>

AgentStep(a) ==
    \/ Call(a) \/ Result(a) \/ Summarize(a)
    \/ \E c \in Subs : Spawn(a, c)

Next ==
    \/ \E first \in {"prepare", "think"} : StartTurn(first)
    \/ Prepared \/ SaveBegins \/ EndTurn \/ TurnThreadEnds
    \/ \E a \in Workers : AgentStep(a)
    \/ \E c \in Subs : Publish(c) \/ EmitDone(c)
    \/ \E o \in Ops : StartOp(o) \/ Answer(o) \/ OpThreadEnds(o)
    \/ Reset \/ Draw \/ Quit \/ Return

Spec == Init /\ [][Next]_vars

----------------------------------------------------------------------------
TypeOK ==
    /\ above \in [Subs -> SUBSET Workers] /\ marked \subseteq Subs
    /\ containers \subseteq Workers /\ nodes \subseteq Subs
    /\ running \subseteq Subs /\ opLive \subseteq Ops /\ missed \subseteq Subs
    /\ inFlight \in Nat /\ posting \in Nat

\* A block cleared with the list it was in is in no table: no event of an agent
\* is sent to a list that is gone, and no pane is drawn of one (the comment on
\* forget_subtree()).
RoutesAreLive ==
    \A c \in Subs : c \in nodes \cup containers => above[c] # {}

\* With no turn running nothing of it is left in the grid over the transcript, also when
\* a subagent's Done event comes after it ("a missed event can't strand the grid"): only
\* a subagent the save missed can be.
GridIsNotStranded == ~waiting => running \subseteq missed

\* sp's main frame, which its threads write to, is not left while one is there.
FrameOutlivesThreads ==
    app = "sp" /\ leaving = "returned" =>
        /\ act[Root] = "off" /\ posting = 0
        /\ \A o \in Ops : op[o] \notin {"work", "post"}

\* /reset never pulls the transcript from under an agent at work, but for one the
\* save missed; nor in sp from under a memory command.
Working == {a \in Workers : act[a] \in {"prepare", "think", "call", "save"}}
ResetOnlyWhenQuiet ==
    Reset => Working \subseteq missed /\ (app = "sp" => opLive = {})

\* "Everything from here to the end of the transcript is this turn's ...
\* std::list keeps the iterator valid", "the transcript must not be cleared while
\* one [memory command] is in flight": what is used is there.
UsesAreLive ==
    [][/\ EndTurn => turnLive
       /\ \A o \in Ops : app = "sp" /\ Answer(o) => o \in opLive]_vars

\* What keeps the first three so: who works belongs to a turn that is waited for or was
\* missed, a command's pointer to one at work, and the count is of the threads there are.
InFlight(o) == op[o] \in {"work", "post"}
ThreadsAreCounted ==
    inFlight = posting + Cardinality({o \in Ops : InFlight(o)})
                 + (IF act[Root] = "off" THEN 0 ELSE 1)

TurnsAreWaitedFor ==
    /\ waiting <=> act[Root] # "off"
    /\ act[Root] \in {"off", "prepare"} => Working \cap Subs \subseteq missed
    /\ act[Root] \notin {"published", "over"}

IInv ==
    /\ TypeOK
    /\ act \in [Workers -> {"off", "prepare", "think", "call", "published", "over", "save"}]
    /\ op \in [Ops -> {"off", "work", "post", "over"}]
    /\ waiting \in BOOLEAN
    /\ ThreadsAreCounted /\ TurnsAreWaitedFor /\ opLive \subseteq PendingOps
    /\ RoutesAreLive /\ GridIsNotStranded /\ FrameOutlivesThreads
=============================================================================
