----------------------------- MODULE AgentPool -----------------------------
(***************************************************************************)
(* The registry of agents: spawning under a depth and a count limit,        *)
(* recording results, waiting for them, and the walk over the tree that the  *)
(* root makes before it saves its session.  src/core/agent/agent_pool.cpp    *)
(* and subagent_tool.cpp, with the places Agent::run_turn calls them.        *)
(*                                                                         *)
(* Each agent is a thread.  A step is what one lock covers: mMapMutex, a     *)
(* node's mutex, or the observer's; a wait on a node's condition variable is *)
(* a step enabled once the node has its result.                              *)
(***************************************************************************)
EXTENDS Integers, Sequences, FiniteSets

CONSTANTS
    Subagents,   \* ids a spawn may draw
    Root,
    MaxAgents, MaxDepth,
    MaxTurns,    \* bound: turns of the root
    MaxFailures  \* bound: threads that cannot be started

ASSUME PoolAssumption ==
    /\ IsFiniteSet(Subagents)
    /\ Root \notin Subagents
    /\ {MaxAgents, MaxDepth, MaxTurns, MaxFailures} \subseteq Nat

Nodes == Subagents \cup {Root}

VARIABLES
    registered,  \* keys of mNodes
    depth, childIds, finished, result,  \* fields of a Node; result: published?
    mLive,
    pc,          \* where each agent's thread is
    target,      \* the node its call is about
    known,       \* ids it may name: it spawned them or was told of them
    startShown, doneShown,  \* subagents whose Start, Done events were emitted
    walk,        \* assemble_tree: the node at hand, its copied child_ids, and
                 \* the nodes after it
    tree,        \* the nodes collected so far
    turns, failures

nodeVars == <<registered, depth, childIds, finished, result, mLive>>
agentVars == <<pc, target, known>>
eventVars == <<startShown, doneShown>>
walkVars == <<walk, tree>>
vars == <<nodeVars, agentVars, eventVars, walkVars, turns, failures>>

\* assemble_tree between two nodes, with these still to be visited.
WalkOver(nodes) == [at |-> Root, copied |-> FALSE, kids |-> <<>>, rest |-> nodes]

Init ==
    /\ registered = {Root}
    /\ depth = [n \in Nodes |-> 0]
    /\ childIds = [n \in Nodes |-> <<>>]
    /\ finished = [n \in Nodes |-> FALSE]
    /\ result = [n \in Nodes |-> FALSE]
    /\ mLive = 0
    /\ pc = [n \in Nodes |-> "off"]
    /\ target = [n \in Nodes |-> n]
    /\ known = [n \in Nodes |-> {}]
    /\ startShown = {} /\ doneShown = {}
    /\ walk = WalkOver(<<>>) /\ tree = {}
    /\ turns = 0 /\ failures = 0

Go(a, where) == pc' = [pc EXCEPT ![a] = where]

\* The person starts a turn of the root.
RootTurn ==
    /\ pc[Root] = "off" /\ turns < MaxTurns
    /\ turns' = turns + 1
    /\ Go(Root, "turn")
    /\ UNCHANGED <<nodeVars, target, known, eventVars, walkVars, failures>>

----------------------------------------------------------------------------
\* spawn().  Past a limit it returns an error and changes nothing.

\* Faults: one slot too many; every subagent listed under the root.
HasOneMoreSlot == mLive <= MaxAgents
EnlistUnderRoot(p, c) == childIds' = [childIds EXCEPT ![Root] = Append(@, c)]

MayNest(p) == depth[p] + 1 <= MaxDepth
HasSlot == mLive < MaxAgents
Enlist(p, c) == childIds' = [childIds EXCEPT ![p] = Append(@, c)]

Register(p, c) ==
    /\ pc[p] = "turn"
    /\ c \in Subagents \ registered
    /\ MayNest(p) /\ HasSlot
    /\ registered' = registered \cup {c}
    /\ depth' = [depth EXCEPT ![c] = depth[p] + 1]
    /\ Enlist(p, c)
    /\ mLive' = mLive + 1
    /\ target' = [target EXCEPT ![p] = c]
    /\ Go(p, "registered")
    /\ UNCHANGED <<finished, result, known, eventVars, walkVars, turns, failures>>

\* Fault: no Start event is emitted.
EmitNothing(p) ==
    /\ pc[p] = "registered"
    /\ Go(p, "start")
    /\ UNCHANGED <<nodeVars, target, known, eventVars, walkVars, turns, failures>>

EmitStart(p) ==
    /\ pc[p] = "registered"
    /\ startShown' = startShown \cup {target[p]}
    /\ Go(p, "start")
    /\ UNCHANGED <<nodeVars, target, known, doneShown, walkVars, turns, failures>>

\* Fault: the objective also tells a subagent who spawned it.
StartThreadNamesSpawner(p) ==
    LET c == target[p] IN
    /\ pc[p] = "start"
    /\ pc' = [pc EXCEPT ![p] = "turn", ![c] = "turn"]
    /\ known' = [known EXCEPT ![c] = known[p] \cup {p}, ![p] = @ \cup {c}]
    /\ UNCHANGED <<nodeVars, target, eventVars, walkVars, turns, failures>>

\* The objective may name any agent the spawner knows; the spawner learns the
\* new id from the tool's result.
StartThread(p) ==
    LET c == target[p] IN
    /\ pc[p] = "start"
    /\ pc' = [pc EXCEPT ![p] = "turn", ![c] = "turn"]
    /\ \E told \in {{}, known[p]} :
          known' = [known EXCEPT ![c] = told, ![p] = @ \cup {c}]
    /\ UNCHANGED <<nodeVars, target, eventVars, walkVars, turns, failures>>

\* Fault: a thread that cannot be started leaves no result behind.
StartFailsSilently(p) ==
    /\ pc[p] = "start" /\ failures < MaxFailures
    /\ failures' = failures + 1
    /\ Go(p, "turn")
    /\ UNCHANGED <<nodeVars, target, known, eventVars, walkVars, turns>>

\* std::thread throws: the spawner itself records a failed result for the node.
StartFails(p) ==
    /\ pc[p] = "start" /\ failures < MaxFailures
    /\ failures' = failures + 1
    /\ Go(p, "free")
    /\ UNCHANGED <<nodeVars, target, known, eventVars, walkVars, turns>>

----------------------------------------------------------------------------
\* subagent_wait: wait_for() on any id the agent can name.

WaitFor(a, n) ==
    /\ pc[a] = "turn" /\ n \in known[a]
    /\ target' = [target EXCEPT ![a] = n]
    /\ Go(a, "wait")
    /\ UNCHANGED <<nodeVars, known, eventVars, walkVars, turns, failures>>

\* The conclusion it returns may name agents too.
WaitReturns(a) ==
    /\ pc[a] = "wait" /\ result[target[a]]
    /\ \E told \in {{}, known[target[a]]} :
          known' = [known EXCEPT ![a] = @ \cup told]
    /\ Go(a, "turn")
    /\ UNCHANGED <<nodeVars, target, eventVars, walkVars, turns, failures>>

\* Fault: the result is published without the slot having been freed.
TurnEndsKeepingSlot(a) ==
    /\ pc[a] = "turn"
    /\ target' = [target EXCEPT ![a] = a]
    /\ Go(a, "publish")
    /\ UNCHANGED <<nodeVars, known, eventVars, walkVars, turns, failures>>

\* run_turn() reaches its end, whatever its children are doing.
TurnEnds(a) ==
    /\ pc[a] = "turn"
    /\ target' = [target EXCEPT ![a] = a]
    /\ Go(a, "free")
    /\ UNCHANGED <<nodeVars, known, eventVars, walkVars, turns, failures>>

----------------------------------------------------------------------------
\* set_result(): the slot, then the result, then the event.

FreeSlot(a) ==
    LET n == target[a] IN
    /\ pc[a] = "free"
    /\ IF depth[n] > 0 /\ ~finished[n]
       THEN finished' = [finished EXCEPT ![n] = TRUE] /\ mLive' = mLive - 1
       ELSE UNCHANGED <<finished, mLive>>
    /\ Go(a, "publish")
    /\ UNCHANGED <<registered, depth, childIds, result, target, known,
                   eventVars, walkVars, turns, failures>>

\* Where the thread goes after set_result(): the spawner of a failed thread back
\* to its turn, the root to save(), a subagent to its end.
AfterRecord(a) ==
    IF target[a] # a THEN "turn" ELSE IF a = Root THEN "walk" ELSE "over"

Publish(a) ==
    LET n == target[a] IN
    /\ pc[a] = "publish"
    /\ result' = [result EXCEPT ![n] = TRUE]
    /\ IF depth[n] > 0
       THEN Go(a, "announce") /\ UNCHANGED walkVars
       ELSE /\ Go(a, AfterRecord(a))
            /\ walk' = WalkOver(<<Root>>)
            /\ tree' = {}
    /\ UNCHANGED <<registered, depth, childIds, finished, mLive, target, known,
                   eventVars, turns, failures>>

EmitDone(a) ==
    /\ pc[a] = "announce"
    /\ doneShown' = doneShown \cup {target[a]}
    /\ Go(a, AfterRecord(a))
    /\ UNCHANGED <<nodeVars, target, known, startShown, walkVars, turns, failures>>

----------------------------------------------------------------------------
\* save() -> assemble_tree(), run by the root.

\* child_ids are copied under mMapMutex ...
WalkEnter ==
    /\ pc[Root] = "walk" /\ walk.rest # <<>> /\ ~walk.copied
    /\ LET n == Head(walk.rest) IN
          walk' = [at |-> n, copied |-> TRUE, kids |-> childIds[n],
                   rest |-> Tail(walk.rest)]
    /\ UNCHANGED <<nodeVars, agentVars, eventVars, tree, turns, failures>>

\* Fault: the walk takes a node without waiting for its result.
WalkCollectAtOnce ==
    /\ pc[Root] = "walk" /\ walk.copied
    /\ tree' = tree \cup {walk.at}
    /\ walk' = WalkOver(walk.kids \o walk.rest)
    /\ UNCHANGED <<nodeVars, agentVars, eventVars, turns, failures>>

\* ... before the node is waited for.
WalkCollect ==
    /\ pc[Root] = "walk" /\ walk.copied
    /\ depth[walk.at] = 0 \/ result[walk.at]
    /\ tree' = tree \cup {walk.at}
    /\ walk' = WalkOver(walk.kids \o walk.rest)
    /\ UNCHANGED <<nodeVars, agentVars, eventVars, turns, failures>>

\* The tree goes to the session file and run_turn() returns.
Save ==
    /\ pc[Root] = "walk" /\ walk.rest = <<>> /\ ~walk.copied
    /\ Go(Root, "off")
    /\ UNCHANGED <<nodeVars, target, known, eventVars, walkVars, turns, failures>>

----------------------------------------------------------------------------
AgentStep(a) ==
    \/ EmitStart(a) \/ StartThread(a) \/ StartFails(a)
    \/ WaitReturns(a)
    \/ TurnEnds(a) \/ FreeSlot(a) \/ Publish(a) \/ EmitDone(a)

RootStep == WalkEnter \/ WalkCollect \/ Save

Next ==
    \/ RootTurn \/ RootStep
    \/ \E a \in Nodes :
          AgentStep(a) \/ \E n \in Subagents : Register(a, n) \/ WaitFor(a, n)

Spec == Init /\ [][Next]_vars

\* A thread that can run does.  max_steps bounds the tool calls of one turn, so
\* a turn that keeps coming back from a call ends one day: strong fairness.
FairSpec ==
    /\ Spec
    /\ \A a \in Nodes : WF_vars(AgentStep(a)) /\ SF_vars(TurnEnds(a))
    /\ WF_vars(RootStep)

----------------------------------------------------------------------------
\* Every field has the type the code gives it, and no agent is told of the root.
TypeOK ==
    /\ registered \subseteq Nodes
    /\ depth \in [Nodes -> Nat]
    /\ childIds \in [Nodes -> Seq(Subagents)]
    /\ finished \in [Nodes -> BOOLEAN] /\ result \in [Nodes -> BOOLEAN]
    /\ mLive \in Int
    /\ pc \in [Nodes -> {"off", "turn", "registered", "start", "wait", "free",
                         "publish", "announce", "walk", "over"}]
    /\ target \in [Nodes -> Nodes]
    /\ known \in [Nodes -> SUBSET Subagents]
    /\ startShown \subseteq Subagents /\ doneShown \subseteq Subagents
    /\ walk \in [at : Nodes, copied : BOOLEAN, kids : Seq(Subagents),
                 rest : Seq(Nodes)]
    /\ tree \subseteq Nodes
    /\ turns \in Nat /\ failures \in Nat

Running == {n \in Subagents : n \in registered /\ ~finished[n]}

\* mLive, an atomic that threads without a common lock move up and down, always
\* counts the subagents not yet finished, and never passes mMaxAgents.
BudgetHolds == mLive = Cardinality(Running) /\ mLive <= MaxAgents

\* No agent is deeper than mMaxDepth.
DepthHolds == \A n \in registered : depth[n] <= MaxDepth

\* "Free the slot before publishing the result, so a caller that wakes from
\* wait_for() sees an up-to-date live_count()."
ResultFreesSlot == \A n \in Subagents : result[n] => finished[n]

\* The observer hears of a subagent's end only after its start, although two
\* threads report them, and after its result can be read.
EventsInOrder ==
    doneShown \subseteq {n \in startShown : result[n]}

Parents(n) ==
    {p \in Nodes : \E i \in DOMAIN childIds[p] : childIds[p][i] = n}

\* Every subagent is in exactly one child_ids list, its parent's, one level up.
TreeIsWellFormed ==
    \A n \in registered \ {Root} :
        \E p \in registered :
            /\ Parents(n) = {p}
            /\ depth[n] = depth[p] + 1

\* What the session file holds of the tree: every child root spawned is there
\* with its result, and no node without its parent.
SavedTreeIsSound ==
    /\ \A n \in tree : n = Root \/ result[n]
    /\ \A n \in tree \ {Root} : Parents(n) \subseteq tree
    /\ pc[Root] = "off" /\ turns > 0 =>
          \A i \in DOMAIN childIds[Root] : childIds[Root][i] \in tree

\* The agents form one tree at any time, and what is saved of it is whole.
TreesAreSound == TreeIsWellFormed /\ SavedTreeIsSound

\* "Blocks on any descendant still running": "the root's session file is never
\* written while a subagent is still running".
SaveWaitsForDescendants ==
    [][Save => \A n \in registered \ {Root} : result[n]]_vars

\* Agents that only wait for agents they were told of never wait in a circle:
\* every subagent finishes, and the root's turn returns.
EveryAgentFinishes == \A n \in Subagents : n \in registered ~> result[n]

\* No subagent, failed to start or not, keeps the root's turn from returning.
RootReturns == pc[Root] = "turn" ~> pc[Root] = "off"

EverybodyReturns == EveryAgentFinishes /\ RootReturns
=============================================================================
