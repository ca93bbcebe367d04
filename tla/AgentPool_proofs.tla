-------------------------- MODULE AgentPool_proofs --------------------------
(***************************************************************************)
(* Proofs about AgentPool, for any set of subagents and any limits.         *)
(***************************************************************************)
EXTENDS AgentPool, FiniteSetTheorems, TLAPS

\* The part of the types the proofs rest on.
TypeInv ==
    /\ registered \subseteq Nodes
    /\ depth \in [Nodes -> Nat]
    /\ finished \in [Nodes -> BOOLEAN]
    /\ result \in [Nodes -> BOOLEAN]
    /\ mLive \in Int
    /\ pc \in [Nodes -> {"off", "turn", "registered", "start", "wait", "free",
                         "publish", "announce", "walk", "over"}]
    /\ target \in [Nodes -> Nodes]
    /\ known \in [Nodes -> SUBSET Subagents]

\* Only a registered node has a depth, a thread or an end; the root has no slot.
NodeInv ==
    /\ Root \in registered /\ depth[Root] = 0
    /\ \A n \in registered \ {Root} : depth[n] > 0
    /\ \A n \in Nodes \ registered : ~finished[n]
    /\ \A a \in Nodes : pc[a] # "off" => a \in registered

\* set_result() is about a registered node, and what it publishes is freed.
RecordInv ==
    /\ \A a \in Nodes :
          pc[a] \in {"registered", "start"} => target[a] \in registered \ {Root}
    /\ \A a \in Nodes : pc[a] \in {"free", "publish"} => target[a] \in registered
    /\ \A a \in Nodes :
          pc[a] = "publish" /\ target[a] # Root => finished[target[a]]
    /\ ResultFreesSlot

IInv == TypeInv /\ NodeInv /\ RecordInv /\ DepthHolds /\ BudgetHolds

LEMMA RunningIsFinite == IsFiniteSet(Running) /\ Cardinality(Running) \in Nat
<1>1. IsFiniteSet(Running)
  BY PoolAssumption, FS_Subset DEF Running
<1> QED BY <1>1, FS_CardinalityType

LEMMA OneLessRunning ==
  ASSUME NEW n \in Running
  PROVE  Cardinality(Running \ {n}) = Cardinality(Running) - 1
  BY RunningIsFinite, FS_RemoveElement

LEMMA InitIInv == Init => IInv
<1> SUFFICES ASSUME Init PROVE IInv
  OBVIOUS
<1> USE PoolAssumption DEF Init, Nodes
<1>1. TypeInv BY DEF TypeInv
<1>2. NodeInv BY DEF NodeInv
<1>3. RecordInv BY DEF RecordInv, ResultFreesSlot
<1>4. DepthHolds BY DEF DepthHolds
<1>5. BudgetHolds
  <2>1. Running = {} BY DEF Running
  <2> QED BY <2>1, FS_EmptySet DEF BudgetHolds
<1> QED BY <1>1, <1>2, <1>3, <1>4, <1>5 DEF IInv

\* Everything but the count: one case for each action.
LEMMA NodeStep ==
    IInv /\ [Next]_vars => TypeInv' /\ NodeInv' /\ RecordInv' /\ DepthHolds'
<1> SUFFICES ASSUME IInv, [Next]_vars
             PROVE TypeInv' /\ NodeInv' /\ RecordInv' /\ DepthHolds'
  OBVIOUS
<1> USE PoolAssumption
    DEF IInv, TypeInv, NodeInv, RecordInv, ResultFreesSlot, DepthHolds, Nodes,
        Go, nodeVars, agentVars, eventVars, walkVars
<1>1. CASE RootTurn BY <1>1 DEF RootTurn
<1>2. CASE RootStep
  <2>1. CASE WalkEnter BY <2>1 DEF WalkEnter
  <2>2. CASE WalkCollect BY <2>2 DEF WalkCollect
  <2>3. CASE Save BY <2>3 DEF Save
  <2> QED BY <1>2, <2>1, <2>2, <2>3 DEF RootStep
<1>3. ASSUME NEW a \in Nodes, NEW n \in Subagents, Register(a, n)
      PROVE TypeInv' /\ NodeInv' /\ RecordInv' /\ DepthHolds'
  BY <1>3 DEF Register, MayNest, HasSlot, Enlist
<1>4. ASSUME NEW a \in Nodes, NEW n \in Subagents, WaitFor(a, n)
      PROVE TypeInv' /\ NodeInv' /\ RecordInv' /\ DepthHolds'
  BY <1>4 DEF WaitFor
<1>5. ASSUME NEW a \in Nodes, AgentStep(a)
      PROVE TypeInv' /\ NodeInv' /\ RecordInv' /\ DepthHolds'
  <2>1. CASE EmitStart(a) BY <2>1 DEF EmitStart
  <2>2. CASE StartThread(a) BY <2>2 DEF StartThread
  <2>3. CASE StartFails(a) BY <2>3 DEF StartFails
  <2>4. CASE WaitReturns(a) BY <2>4 DEF WaitReturns
  <2>5. CASE TurnEnds(a) BY <2>5 DEF TurnEnds
  <2>6. CASE FreeSlot(a)
    <3>1. finished' \in [Nodes -> BOOLEAN] /\ mLive' \in Int
      <4>1. \/ finished' = [finished EXCEPT ![target[a]] = TRUE]
               /\ mLive' = mLive - 1
            \/ finished' = finished /\ mLive' = mLive
        BY <2>6 DEF FreeSlot
      <4>2. finished' \in [Nodes -> BOOLEAN] BY <4>1, Zenon
      <4>3. mLive' \in Int BY <4>1, SMT
      <4> QED BY <4>2, <4>3
    <3>2. \A m \in Nodes : finished[m] => finished'[m]
      BY <2>6 DEF FreeSlot
    <3>3. target[a] \in registered /\ (target[a] # Root => finished'[target[a]])
      BY <2>6 DEF FreeSlot
    <3>4. \A m \in Nodes \ registered : ~finished'[m]
      BY <2>6, <3>3 DEF FreeSlot
    <3>5. UNCHANGED <<registered, depth, result, target, known>>
          /\ pc[a] = "free" /\ pc' = [pc EXCEPT ![a] = "publish"]
      BY <2>6 DEF FreeSlot
    <3>6. TypeInv'
      <4>1. pc' \in [Nodes -> {"off", "turn", "registered", "start", "wait",
                              "free", "publish", "announce", "walk", "over"}]
        BY <3>5
      <4> QED BY <3>1, <3>5, <4>1
    <3>7. NodeInv' BY <3>4, <3>5
    <3>8. RecordInv' BY <3>2, <3>3, <3>5
    <3>9. DepthHolds' BY <3>5
    <3> QED BY <3>6, <3>7, <3>8, <3>9
  <2>7. CASE Publish(a) BY <2>7 DEF Publish, AfterRecord
  <2>8. CASE EmitDone(a) BY <2>8 DEF EmitDone, AfterRecord
  <2> QED BY <1>5, <2>1, <2>2, <2>3, <2>4, <2>5, <2>6, <2>7, <2>8 DEF AgentStep
<1>6. CASE UNCHANGED vars BY <1>6 DEF vars
<1> QED BY <1>1, <1>2, <1>3, <1>4, <1>5, <1>6 DEF Next

\* Only a registration and a freed slot move the count, each by one.
LEMMA BudgetStep == IInv /\ [Next]_vars => BudgetHolds'
<1> SUFFICES ASSUME IInv, [Next]_vars PROVE BudgetHolds'
  OBVIOUS
<1> USE PoolAssumption, RunningIsFinite
    DEF IInv, TypeInv, NodeInv, BudgetHolds, Nodes
<1>1. ASSUME UNCHANGED <<registered, finished, mLive>> PROVE BudgetHolds'
  <2>1. Running' = Running BY <1>1 DEF Running
  <2> QED BY <1>1, <2>1
<1>2. ASSUME NEW a \in Nodes, NEW n \in Subagents, Register(a, n)
      PROVE BudgetHolds'
  <2>1. n \notin Running /\ Running' = Running \cup {n}
    BY <1>2 DEF Register, MayNest, HasSlot, Enlist, Running
  <2>2. Cardinality(Running') = Cardinality(Running) + 1
    BY <2>1, FS_AddElement
  <2> QED BY <1>2, <2>2 DEF Register, MayNest, HasSlot, Enlist
<1>3. ASSUME NEW a \in Nodes, FreeSlot(a) PROVE BudgetHolds'
  <2> DEFINE n == target[a]
  <2>1. n \in registered BY <1>3 DEF FreeSlot, RecordInv
  <2>2. CASE depth[n] > 0 /\ ~finished[n]
    <3>1. n \in Running /\ Running' = Running \ {n}
      BY <1>3, <2>1, <2>2 DEF FreeSlot, Running
    <3>2. Cardinality(Running') = Cardinality(Running) - 1
      BY <3>1, OneLessRunning
    <3> QED BY <1>3, <2>2, <3>2 DEF FreeSlot
  <2>3. CASE ~(depth[n] > 0 /\ ~finished[n])
    BY <1>1, <1>3, <2>3 DEF FreeSlot
  <2> QED BY <2>2, <2>3
<1>4. ASSUME NEW a \in Nodes, AgentStep(a), ~FreeSlot(a)
      PROVE UNCHANGED <<registered, finished, mLive>>
  BY <1>4 DEF AgentStep, EmitStart, StartThread, StartFails, WaitReturns,
              TurnEnds, Publish, EmitDone, nodeVars
<1>5. ASSUME NEW a \in Nodes, NEW n \in Subagents, WaitFor(a, n)
      PROVE UNCHANGED <<registered, finished, mLive>>
  BY <1>5 DEF WaitFor, nodeVars
<1>6. CASE RootTurn \/ RootStep \/ UNCHANGED vars
  BY <1>1, <1>6 DEF RootTurn, RootStep, WalkEnter, WalkCollect, Save, nodeVars,
                    vars
<1> QED BY <1>1, <1>2, <1>3, <1>4, <1>5, <1>6 DEF Next

\* The strengthened invariant holds in every reachable state.
THEOREM Invariance == Spec => []IInv
<1>1. IInv /\ [Next]_vars => IInv'
  BY NodeStep, BudgetStep DEF IInv
<1> QED BY InitIInv, <1>1, PTL DEF Spec

\* mLive counts exactly the unfinished subagents and never passes mMaxAgents.
THEOREM Budget == Spec => []BudgetHolds
<1>1. IInv => BudgetHolds BY DEF IInv
<1> QED BY Invariance, <1>1, PTL

\* No agent is deeper than mMaxDepth.
THEOREM Depth == Spec => []DepthHolds
<1>1. IInv => DepthHolds BY DEF IInv
<1> QED BY Invariance, <1>1, PTL

\* A result that can be read has given its slot back.
THEOREM SlotBeforeResult == Spec => []ResultFreesSlot
<1>1. IInv => ResultFreesSlot BY DEF IInv, RecordInv
<1> QED BY Invariance, <1>1, PTL
----------------------------------------------------------------------------
\* The order of the events.

\* A thread, and whoever records a result, is about a subagent whose start was
\* announced; an end is announced after its result.
EventInv ==
    /\ \A a \in Subagents : pc[a] # "off" => a \in startShown
    /\ \A a \in Nodes : pc[a] = "start" => target[a] \in startShown
    /\ \A a \in Nodes : pc[a] \in {"free", "publish", "announce"} =>
          target[a] = a \/ target[a] \in startShown
    /\ \A a \in Nodes : pc[a] = "announce" => target[a] # Root /\ result[target[a]]
    /\ EventsInOrder

LEMMA EventStep == IInv /\ EventInv /\ [Next]_vars => EventInv'
<1> SUFFICES ASSUME IInv, EventInv, [Next]_vars PROVE EventInv'
  OBVIOUS
<1> USE PoolAssumption
    DEF IInv, TypeInv, NodeInv, RecordInv, EventInv, EventsInOrder, Nodes, Go,
        nodeVars, agentVars, eventVars, walkVars
<1>1. CASE RootTurn BY <1>1 DEF RootTurn
<1>2. CASE RootStep
  <2>1. CASE WalkEnter BY <2>1 DEF WalkEnter
  <2>2. CASE WalkCollect BY <2>2 DEF WalkCollect
  <2>3. CASE Save BY <2>3 DEF Save
  <2> QED BY <1>2, <2>1, <2>2, <2>3 DEF RootStep
<1>3. ASSUME NEW a \in Nodes, NEW n \in Subagents, Register(a, n) PROVE EventInv'
  BY <1>3 DEF Register
<1>4. ASSUME NEW a \in Nodes, NEW n \in Subagents, WaitFor(a, n) PROVE EventInv'
  BY <1>4 DEF WaitFor
<1>5. ASSUME NEW a \in Nodes, AgentStep(a) PROVE EventInv'
  <2>1. CASE EmitStart(a) BY <2>1 DEF EmitStart
  <2>2. CASE StartThread(a) BY <2>2 DEF StartThread
  <2>3. CASE StartFails(a) BY <2>3 DEF StartFails
  <2>4. CASE WaitReturns(a) BY <2>4 DEF WaitReturns
  <2>5. CASE TurnEnds(a) BY <2>5 DEF TurnEnds
  <2>6. CASE FreeSlot(a) BY <2>6 DEF FreeSlot
  <2>7. CASE Publish(a) BY <2>7 DEF Publish, AfterRecord
  <2>8. CASE EmitDone(a) BY <2>8 DEF EmitDone, AfterRecord
  <2> QED BY <1>5, <2>1, <2>2, <2>3, <2>4, <2>5, <2>6, <2>7, <2>8 DEF AgentStep
<1>6. CASE UNCHANGED vars BY <1>6 DEF vars
<1> QED BY <1>1, <1>2, <1>3, <1>4, <1>5, <1>6 DEF Next

\* The observer hears of a subagent's end only after its start, and after its
\* result can be read, although the spawner's thread tells the one and the
\* subagent's the other.
THEOREM EventsComeInOrder == Spec => []EventsInOrder
<1>1. Init => EventInv BY PoolAssumption DEF Init, EventInv, EventsInOrder, Nodes
<1>2. EventInv => EventsInOrder BY DEF EventInv
<1> QED BY Invariance, EventStep, <1>1, <1>2, PTL DEF Spec

----------------------------------------------------------------------------
\* Types.

LEMMA InitTypeOK == Init => TypeOK
BY PoolAssumption DEF Init, TypeOK, Nodes, WalkOver

LEMMA TypeStep == IInv /\ EventInv /\ TypeOK /\ [Next]_vars => TypeOK'
<1> SUFFICES ASSUME IInv, EventInv, TypeOK, [Next]_vars PROVE TypeOK'
  OBVIOUS
<1>1. TypeInv' BY NodeStep
<1> USE PoolAssumption DEF Nodes, nodeVars, agentVars, eventVars, walkVars
<1>2. childIds' \in [Nodes -> Seq(Subagents)]
  <2>1. ASSUME NEW a \in Nodes, NEW n \in Subagents, Register(a, n)
        PROVE childIds' \in [Nodes -> Seq(Subagents)]
    BY <2>1 DEF Register, Enlist, TypeOK
  <2>2. ASSUME NEW a \in Nodes, AgentStep(a) PROVE UNCHANGED childIds
    BY <2>2 DEF AgentStep, EmitStart, StartThread, StartFails, WaitReturns,
                TurnEnds, FreeSlot, Publish, EmitDone
  <2> QED BY <2>1, <2>2 DEF Next, RootTurn, RootStep, WalkEnter, WalkCollect,
                            Save, WaitFor, vars, TypeOK
<1>3. startShown' \subseteq Subagents /\ doneShown' \subseteq Subagents
  <2>1. ASSUME NEW a \in Nodes, AgentStep(a)
        PROVE startShown' \subseteq Subagents /\ doneShown' \subseteq Subagents
    <3>1. CASE EmitStart(a) BY <3>1 DEF EmitStart, TypeOK, IInv, TypeInv, RecordInv
    <3>2. CASE EmitDone(a) BY <3>2 DEF EmitDone, TypeOK, IInv, TypeInv, RecordInv, EventInv
    <3>3. CASE UNCHANGED <<startShown, doneShown>> BY <3>3 DEF TypeOK
    <3> QED BY <2>1, <3>1, <3>2, <3>3 DEF AgentStep, StartThread, StartFails, WaitReturns,
                                         TurnEnds, FreeSlot, Publish
  <2> QED BY <2>1 DEF Next, RootTurn, RootStep, WalkEnter, WalkCollect, Save,
                      Register, WaitFor, vars, TypeOK
<1>4. /\ walk' \in [at : Nodes, copied : BOOLEAN, kids : Seq(Subagents),
                    rest : Seq(Nodes)]
      /\ tree' \subseteq Nodes
  <2> DEFINE Walks == [at : Nodes, copied : BOOLEAN, kids : Seq(Subagents),
                       rest : Seq(Nodes)]
  <2>0. ASSUME NEW s \in Seq(Nodes) PROVE WalkOver(s) \in Walks
    BY DEF WalkOver
  <2>1. CASE WalkEnter
    <3>1. Head(walk.rest) \in Nodes /\ Tail(walk.rest) \in Seq(Nodes)
      BY <2>1 DEF WalkEnter, TypeOK
    <3> QED BY <2>1, <3>1 DEF WalkEnter, TypeOK
  <2>2. CASE WalkCollect
    <3>1. walk.kids \o walk.rest \in Seq(Nodes)
      BY DEF TypeOK
    <3> QED BY <2>0, <2>2, <3>1 DEF WalkCollect, TypeOK
  <2>3. ASSUME NEW a \in Nodes, AgentStep(a)
        PROVE walk' \in Walks /\ tree' \subseteq Nodes
    <3>1. CASE Publish(a)
      <4>1. <<Root>> \in Seq(Nodes) OBVIOUS
      <4>2. WalkOver(<<Root>>) \in Walks BY <2>0, <4>1
      <4> QED BY <3>1, <4>2 DEF Publish, TypeOK
    <3> QED BY <2>3, <3>1
            DEF AgentStep, EmitStart, StartThread, StartFails, WaitReturns,
                TurnEnds, FreeSlot, EmitDone, TypeOK
  <2> QED BY <2>1, <2>2, <2>3 DEF Next, RootTurn, RootStep, Save, Register,
                                  WaitFor, vars, TypeOK
<1>5. turns' \in Nat /\ failures' \in Nat
  <2>1. turns \in Nat /\ failures \in Nat BY DEF TypeOK
  <2>2. ASSUME NEW a \in Nodes, AgentStep(a)
        PROVE turns' = turns /\ failures' \in {failures, failures + 1}
    BY <2>2 DEF AgentStep, EmitStart, StartThread, StartFails, WaitReturns,
                TurnEnds, FreeSlot, Publish, EmitDone
  <2>3. turns' \in {turns, turns + 1} /\ failures' \in {failures, failures + 1}
    BY <2>2 DEF Next, RootTurn, RootStep, WalkEnter, WalkCollect, Save,
                Register, WaitFor, vars
  <2> QED BY <2>1, <2>3
<1> QED BY <1>1, <1>2, <1>3, <1>4, <1>5 DEF TypeOK, TypeInv

\* Every variable of the pool keeps its type, for any set of agents; nobody is
\* ever told the root's id.
THEOREM TypeCorrect == Spec => []TypeOK
<1>1. Init => EventInv BY PoolAssumption DEF Init, EventInv, EventsInOrder, Nodes
<1> QED BY Invariance, EventStep, <1>1, InitTypeOK, TypeStep, PTL DEF Spec
----------------------------------------------------------------------------
\* The tree of the agents.

Elems(seq) == {seq[i] : i \in DOMAIN seq}

LEMMA ElemsOf ==
    ASSUME NEW S, NEW s \in Seq(S), NEW t \in Seq(S), NEW e \in S
    PROVE  /\ Elems(Append(s, e)) = Elems(s) \cup {e}
           /\ Elems(s \o t) = Elems(s) \cup Elems(t)
           /\ s # <<>> => Elems(s) = {Head(s)} \cup Elems(Tail(s))
           /\ s # <<>> => Head(s) \in S /\ Tail(s) \in Seq(S)
<1>1. Elems(Append(s, e)) = Elems(s) \cup {e}
  <2>1. /\ DOMAIN Append(s, e) = DOMAIN s \cup {Len(s) + 1}
        /\ Len(s) + 1 \notin DOMAIN s
        /\ \A i \in DOMAIN s : Append(s, e)[i] = s[i]
        /\ Append(s, e)[Len(s) + 1] = e
    OBVIOUS
  <2> HIDE DEF Elems
  <2> QED BY <2>1 DEF Elems
<1>2. Elems(s \o t) = Elems(s) \cup Elems(t)
  <2>1. /\ \A i \in DOMAIN s : i \in DOMAIN (s \o t) /\ (s \o t)[i] = s[i]
        /\ \A i \in DOMAIN t :
              Len(s) + i \in DOMAIN (s \o t) /\ (s \o t)[Len(s) + i] = t[i]
    OBVIOUS
  <2>2. \A j \in DOMAIN (s \o t) :
           \/ j \in DOMAIN s
           \/ j - Len(s) \in DOMAIN t /\ Len(s) + (j - Len(s)) = j
    OBVIOUS
  <2>3. Elems(s) \cup Elems(t) \subseteq Elems(s \o t) BY <2>1 DEF Elems
  <2>4. ASSUME NEW j \in DOMAIN (s \o t)
        PROVE  (s \o t)[j] \in Elems(s) \cup Elems(t)
    BY <2>1, <2>2 DEF Elems
  <2> QED BY <2>3, <2>4 DEF Elems
<1>3. ASSUME s # <<>> PROVE Elems(s) = {Head(s)} \cup Elems(Tail(s))
  <2>1. /\ Len(s) \in Nat \ {0} /\ DOMAIN s = 1 .. Len(s)
        /\ DOMAIN Tail(s) = 1 .. Len(s) - 1
        /\ s[1] = Head(s)
        /\ \A i \in 1 .. Len(s) - 1 : Tail(s)[i] = s[i + 1]
    BY <1>3
  <2>2. {Head(s)} \cup Elems(Tail(s)) \subseteq Elems(s) BY <2>1 DEF Elems
  <2>3. ASSUME NEW j \in DOMAIN s PROVE s[j] \in {Head(s)} \cup Elems(Tail(s))
    <3>1. CASE j = 1 BY <2>1, <3>1
    <3>2. CASE j # 1
      <4>1. j - 1 \in 1 .. Len(s) - 1 /\ (j - 1) + 1 = j BY <2>1, <3>2
      <4>2. Tail(s)[j - 1] = s[j] BY <2>1, <4>1
      <4> QED BY <2>1, <4>1, <4>2 DEF Elems
    <3> QED BY <3>1, <3>2
  <2> QED BY <2>2, <2>3 DEF Elems
<1>4. s # <<>> => Head(s) \in S /\ Tail(s) \in Seq(S)
  OBVIOUS
<1> QED BY <1>1, <1>2, <1>3, <1>4

\* Only registered subagents are anybody's children.
ChildInv ==
    /\ \A p \in Nodes : Elems(childIds[p]) \subseteq registered \ {Root}
    /\ TreeIsWellFormed

LEMMA ParentsAre == \A n : Parents(n) = {p \in Nodes : n \in Elems(childIds[p])}
BY DEF Parents, Elems

\* What a registration does to the tree.
LEMMA NewChild ==
    ASSUME IInv, TypeOK, ChildInv, NEW p \in Nodes, NEW c \in Subagents, Register(p, c)
    PROVE  /\ \A q \in Nodes \ {p} : childIds'[q] = childIds[q]
           /\ Elems(childIds'[p]) = Elems(childIds[p]) \cup {c}
           /\ Parents(c)' = {p}
           /\ \A n : n # c => Parents(n)' = Parents(n)
<1>1. /\ childIds' = [childIds EXCEPT ![p] = Append(childIds[p], c)]
      /\ c \in Subagents \ registered
  BY DEF Register, Enlist
<1>2. childIds \in [Nodes -> Seq(Subagents)] BY DEF TypeOK
<1>3. /\ \A q \in Nodes \ {p} : childIds'[q] = childIds[q]
      /\ childIds'[p] = Append(childIds[p], c)
  BY <1>1, <1>2
<1>4. Elems(childIds'[p]) = Elems(childIds[p]) \cup {c}
  BY <1>2, <1>3, ElemsOf
<1>5. \A n : Parents(n)' = {q \in Nodes : n \in Elems(childIds'[q])}
  BY DEF Parents, Elems
<1>6. Parents(c)' = {p}
  BY <1>1, <1>3, <1>4, <1>5 DEF ChildInv
<1>7. \A n : n # c => Parents(n)' = Parents(n)
  BY <1>3, <1>4, <1>5, ParentsAre
<1> QED BY <1>3, <1>4, <1>6, <1>7

LEMMA ChildStep == IInv /\ TypeOK /\ ChildInv /\ [Next]_vars => ChildInv'
<1> SUFFICES ASSUME IInv, TypeOK, ChildInv, [Next]_vars PROVE ChildInv'
  OBVIOUS
<1>1. ASSUME UNCHANGED <<registered, depth, childIds>> PROVE ChildInv'
  BY <1>1 DEF ChildInv, TreeIsWellFormed, Parents
<1>2. ASSUME NEW p \in Nodes, NEW c \in Subagents, Register(p, c) PROVE ChildInv'
  <2>1. /\ p \in registered /\ c \notin registered /\ c # Root
        /\ registered' = registered \cup {c}
        /\ depth' = [depth EXCEPT ![c] = depth[p] + 1]
    BY <1>2, PoolAssumption DEF Register, IInv, NodeInv
  <2>2. \A q \in Nodes : Elems(childIds'[q]) \subseteq registered' \ {Root}
    BY <1>2, <2>1, NewChild DEF ChildInv
  <2>3. depth'[c] = depth'[p] + 1 /\ \A n \in registered : depth'[n] = depth[n]
    BY <2>1 DEF TypeOK, Nodes
  <2>4. TreeIsWellFormed'
    <3> SUFFICES ASSUME NEW n \in registered' \ {Root}
                 PROVE  \E q \in registered' :
                           Parents(n)' = {q} /\ depth'[n] = depth'[q] + 1
      BY DEF TreeIsWellFormed
    <3>1. CASE n = c BY <1>2, <2>1, <2>3, <3>1, NewChild
    <3>2. CASE n # c
      <4>1. PICK q \in registered : Parents(n) = {q} /\ depth[n] = depth[q] + 1
        BY <2>1, <3>2 DEF ChildInv, TreeIsWellFormed
      <4> QED BY <1>2, <2>1, <2>3, <3>2, <4>1, NewChild
    <3> QED BY <3>1, <3>2
  <2> QED BY <2>2, <2>4 DEF ChildInv
<1>3. ASSUME NEW a \in Nodes, AgentStep(a)
      PROVE UNCHANGED <<registered, depth, childIds>>
  BY <1>3 DEF AgentStep, EmitStart, StartThread, StartFails, WaitReturns,
              TurnEnds, FreeSlot, Publish, EmitDone, nodeVars
<1> QED BY <1>1, <1>2, <1>3
        DEF Next, RootTurn, RootStep, WalkEnter, WalkCollect, Save, WaitFor,
            nodeVars, vars

----------------------------------------------------------------------------
\* The walk over it.

\* The nodes assemble_tree() has met and not collected yet.
Pending == Elems(walk.rest) \cup Elems(walk.kids)
           \cup (IF walk.copied THEN {walk.at} ELSE {})

\* The walk meets registered nodes, parents first; while the root walks, and
\* when it has saved, none of its own children is missed.
WalkInv ==
    /\ ~walk.copied => walk.kids = <<>>
    /\ Pending \cup tree \subseteq registered
    /\ \A n \in Elems(walk.rest) \cup tree : Parents(n) \subseteq tree
    /\ walk.copied =>
          /\ Parents(walk.at) \subseteq tree
          /\ \A n \in Elems(walk.kids) : Parents(n) \subseteq {walk.at}
    /\ pc[Root] = "walk" =>
          \/ walk.rest = <<Root>> /\ ~walk.copied
          \/ Elems(childIds[Root]) \subseteq tree \cup Pending
    /\ pc[Root] = "off" /\ turns > 0 => Elems(childIds[Root]) \subseteq tree
    /\ \A n \in tree : n = Root \/ result[n]
    /\ \A a \in Nodes : pc[a] \in {"free", "publish", "announce"} =>
          target[a] = a \/ target[a] # Root
    /\ \A a \in Subagents : pc[a] # "walk"

LEMMA WalkMeansSound == TypeOK /\ WalkInv => SavedTreeIsSound
BY DEF TypeOK, WalkInv, SavedTreeIsSound, Elems
\* A step that moves neither the tree nor the walk, nor the root to "off" or
\* "walk", nor anybody to record the root's result but the root.
LEMMA WalkUnmoved ==
    ASSUME WalkInv, TypeOK,
           UNCHANGED <<registered, childIds, walk, tree>>,
           pc'[Root] \in {"off", "walk"} => pc'[Root] = pc[Root] /\ turns' = turns,
           \A n \in Nodes : result[n] => result'[n],
           \A a \in Nodes : pc'[a] \in {"free", "publish", "announce"} =>
              target'[a] = a \/ target'[a] # Root,
           \A a \in Subagents : pc'[a] # "walk"
    PROVE  WalkInv'
<1>1. Pending' = Pending BY DEF Pending, Elems
<1>2. \A n : Parents(n)' = Parents(n) BY DEF Parents
<1>3. Elems(childIds[Root])' = Elems(childIds[Root]) BY DEF Elems
<1>4. Elems(walk.rest)' = Elems(walk.rest) /\ Elems(walk.kids)' = Elems(walk.kids)
  BY DEF Elems
<1>5. \A n \in tree' : n = Root \/ result'[n] BY DEF WalkInv, TypeOK
<1> QED BY <1>1, <1>2, <1>3, <1>4, <1>5 DEF WalkInv

LEMMA WalkRegister ==
    ASSUME IInv, TypeOK, ChildInv, WalkInv, NEW p \in Nodes, NEW c \in Subagents,
           Register(p, c)
    PROVE  WalkInv'
<1>1. /\ UNCHANGED <<walk, tree, result, turns>>
      /\ registered' = registered \cup {c} /\ c \notin registered
      /\ pc[p] = "turn" /\ pc' = [pc EXCEPT ![p] = "registered"]
      /\ target' = [target EXCEPT ![p] = c]
  BY DEF Register, Go, walkVars
<1>2. Pending' = Pending BY <1>1 DEF Pending, Elems
<1>3. c \notin Pending \cup tree BY <1>1 DEF WalkInv
<1>4. \A n \in Pending \cup tree : Parents(n)' = Parents(n) BY <1>3, NewChild
<1>5. p # Root => childIds'[Root] = childIds[Root]
  BY NewChild DEF Nodes
<1>6. pc'[Root] \in {"off", "walk"} =>
         pc'[Root] = pc[Root] /\ Elems(childIds'[Root]) = Elems(childIds[Root])
  BY <1>1, <1>5 DEF TypeOK, Nodes
<1>7. /\ \A a \in Nodes : pc'[a] \in {"free", "publish", "announce"} =>
             target'[a] = a \/ target'[a] # Root
      /\ \A a \in Subagents : pc'[a] # "walk"
  BY <1>1 DEF WalkInv, TypeOK, Nodes
<1>8. Elems(walk.rest) \cup Elems(walk.kids) \subseteq Pending
      /\ (walk.copied => walk.at \in Pending)
  BY DEF Pending
<1>9. Elems(childIds[Root])' = Elems(childIds'[Root])
      /\ Elems(walk.rest)' = Elems(walk.rest) /\ Elems(walk.kids)' = Elems(walk.kids)
  BY <1>1 DEF Elems
<1>10. /\ \A n \in Elems(walk.rest) \cup tree : Parents(n)' \subseteq tree
       /\ walk.copied => /\ \A n : n = walk.at => Parents(n)' \subseteq tree
                         /\ \A n \in Elems(walk.kids) : Parents(n)' \subseteq {walk.at}
  BY <1>4, <1>8 DEF WalkInv
<1>11. /\ pc'[Root] = "walk" =>
             \/ walk.rest = <<Root>> /\ ~walk.copied
             \/ Elems(childIds'[Root]) \subseteq tree \cup Pending
       /\ pc'[Root] = "off" /\ turns > 0 => Elems(childIds'[Root]) \subseteq tree
  BY <1>6 DEF WalkInv
<1> QED BY <1>1, <1>2, <1>7, <1>9, <1>10, <1>11 DEF WalkInv

LEMMA WalkEnters ==
    ASSUME IInv, TypeOK, ChildInv, WalkInv, WalkEnter PROVE WalkInv'
<1> DEFINE n == Head(walk.rest)
<1>1. /\ UNCHANGED <<registered, childIds, pc, target, result, tree, turns>>
      /\ pc[Root] = "walk" /\ walk.rest # <<>> /\ ~walk.copied
      /\ walk' = [at |-> n, copied |-> TRUE, kids |-> childIds[n],
                  rest |-> Tail(walk.rest)]
  BY DEF WalkEnter, nodeVars, agentVars
<1>2. /\ n \in Nodes
      /\ Elems(walk.rest) = {n} \cup Elems(Tail(walk.rest))
  BY <1>1, ElemsOf DEF TypeOK
<1>3. walk.kids = <<>> /\ Elems(walk.kids) = {}
  BY <1>1 DEF WalkInv, Elems
<1>4. Pending = {n} \cup Elems(Tail(walk.rest)) BY <1>1, <1>2, <1>3 DEF Pending
<1>5. Pending' = Pending \cup Elems(childIds[n])
  <2>1. Pending' = Elems(walk'.rest) \cup Elems(walk'.kids)
                   \cup (IF walk'.copied THEN {walk'.at} ELSE {})
    BY DEF Pending, Elems
  <2> QED BY <1>1, <1>4, <2>1
<1>6. Elems(childIds[n]) \subseteq registered BY <1>2 DEF ChildInv
<1>7. \A m : Parents(m)' = Parents(m) BY <1>1 DEF Parents
<1>8. \A m \in Elems(childIds[n]) : Parents(m) \subseteq {n}
  <2> SUFFICES ASSUME NEW m \in Elems(childIds[n]) PROVE Parents(m) \subseteq {n}
    OBVIOUS
  <2>1. m \in registered \ {Root} BY <1>2 DEF ChildInv
  <2>2. PICK q \in registered : Parents(m) = {q}
    BY <2>1 DEF ChildInv, TreeIsWellFormed
  <2>3. n \in Parents(m) BY <1>2, ParentsAre
  <2> QED BY <2>2, <2>3
<1>9. Parents(n) \subseteq tree BY <1>2 DEF WalkInv
<1>10. Elems(childIds[Root]) \subseteq tree \cup Pending'
  <2>1. CASE walk.rest = <<Root>>
    <3>1. n = Root BY <2>1
    <3> QED BY <1>5, <3>1
  <2>2. CASE Elems(childIds[Root]) \subseteq tree \cup Pending BY <1>5, <2>2
  <2> QED BY <1>1, <2>1, <2>2 DEF WalkInv
<1>11. /\ Elems(walk.rest)' = Elems(Tail(walk.rest))
       /\ Elems(walk.kids)' = Elems(childIds[n])
       /\ Elems(childIds[Root])' = Elems(childIds[Root])
  BY <1>1 DEF Elems
<1>12. walk'.copied /\ walk'.at = n BY <1>1
<1>13. \A m \in Elems(Tail(walk.rest)) \cup tree : Parents(m) \subseteq tree
  BY <1>2 DEF WalkInv
<1> QED BY <1>1, <1>5, <1>6, <1>7, <1>8, <1>9, <1>10, <1>11, <1>12, <1>13 DEF WalkInv

LEMMA WalkCollects ==
    ASSUME IInv, TypeOK, ChildInv, WalkInv, WalkCollect PROVE WalkInv'
<1> DEFINE n == walk.at
<1>1. /\ UNCHANGED <<registered, childIds, depth, pc, target, result, turns>>
      /\ pc[Root] = "walk" /\ walk.copied
      /\ depth[n] = 0 \/ result[n]
      /\ tree' = tree \cup {n}
      /\ walk' = WalkOver(walk.kids \o walk.rest)
  BY DEF WalkCollect, nodeVars, agentVars
<1>2. walk.kids \in Seq(Nodes) /\ walk.rest \in Seq(Nodes) /\ n \in Nodes
  <2>1. Subagents \subseteq Nodes BY DEF Nodes
  <2> QED BY <2>1 DEF TypeOK
<1>3. Elems(walk.kids \o walk.rest) = Elems(walk.kids) \cup Elems(walk.rest)
  BY <1>2, ElemsOf
<1>4. /\ walk'.rest = walk.kids \o walk.rest /\ walk'.kids = <<>> /\ ~walk'.copied
  BY <1>1 DEF WalkOver
<1>5. Elems(<<>>) = {} BY DEF Elems
<1>6. /\ Elems(walk.rest)' = Elems(walk.kids) \cup Elems(walk.rest)
      /\ Elems(walk.kids)' = {}
      /\ Elems(childIds[Root])' = Elems(childIds[Root])
  <2>1. Elems(walk.rest)' = Elems(walk'.rest) /\ Elems(walk.kids)' = Elems(walk'.kids)
    BY DEF Elems
  <2> QED BY <1>1, <1>3, <1>4, <1>5, <2>1 DEF Elems
<1>7. /\ Pending = Elems(walk.rest) \cup Elems(walk.kids) \cup {n}
      /\ Pending' = Elems(walk.rest) \cup Elems(walk.kids)
  BY <1>1, <1>4, <1>6 DEF Pending
<1>8. \A m : Parents(m)' = Parents(m) BY <1>1 DEF Parents
<1>9. n = Root \/ result[n]
  BY <1>1, <1>7 DEF WalkInv, IInv, NodeInv
<1>10. \A m \in Elems(walk.rest) \cup Elems(walk.kids) \cup tree' :
          Parents(m) \subseteq tree'
  BY <1>1 DEF WalkInv
<1>11. Elems(childIds[Root]) \subseteq tree' \cup Pending'
  <2>1. walk.copied /\ pc[Root] = "walk" BY <1>1
  <2>2. Elems(childIds[Root]) \subseteq tree \cup Pending BY <2>1 DEF WalkInv
  <2> QED BY <1>1, <1>7, <2>2
<1> QED BY <1>1, <1>4, <1>6, <1>7, <1>8, <1>9, <1>10, <1>11 DEF WalkInv

LEMMA WalkSaves ==
    ASSUME TypeOK, WalkInv, Save PROVE WalkInv'
<1>1. /\ UNCHANGED <<registered, childIds, walk, tree, result, target, turns>>
      /\ pc[Root] = "walk" /\ walk.rest = <<>> /\ ~walk.copied
      /\ pc' = [pc EXCEPT ![Root] = "off"]
  BY DEF Save, Go, nodeVars, walkVars
<1>2. Pending = {} BY <1>1 DEF Pending, WalkInv, Elems
<1>3. Elems(childIds[Root]) \subseteq tree BY <1>1, <1>2 DEF WalkInv
<1>4. pc'[Root] = "off" /\ \A a \in Nodes \ {Root} : pc'[a] = pc[a]
  BY <1>1 DEF TypeOK, Nodes
<1>5. Pending' = Pending /\ \A n : Parents(n)' = Parents(n)
  BY <1>1 DEF Pending, Parents, Elems
<1>6. /\ Elems(childIds[Root])' = Elems(childIds[Root])
      /\ Elems(walk.rest)' = Elems(walk.rest) /\ Elems(walk.kids)' = Elems(walk.kids)
  BY <1>1 DEF Elems
<1>7. Root \notin Subagents /\ Subagents \subseteq Nodes
  BY PoolAssumption DEF Nodes
<1>8. /\ \A a \in Nodes : pc'[a] \in {"free", "publish", "announce"} =>
             target'[a] = a \/ target'[a] # Root
      /\ \A a \in Subagents : pc'[a] # "walk"
  BY <1>1, <1>4, <1>7 DEF WalkInv
<1> QED BY <1>1, <1>3, <1>4, <1>5, <1>6, <1>8 DEF WalkInv

LEMMA WalkBegins ==
    ASSUME IInv, TypeOK, WalkInv, NEW a \in Nodes, Publish(a), depth[target[a]] = 0
    PROVE  WalkInv'
<1>1. target[a] = Root /\ a = Root
  <2>1. pc[a] = "publish" BY DEF Publish
  <2>2. target[a] \in registered BY <2>1 DEF IInv, RecordInv
  <2>3. target[a] = Root BY <2>2 DEF IInv, NodeInv
  <2> QED BY <2>1, <2>3 DEF WalkInv
<1>2. /\ UNCHANGED <<registered, childIds, target, turns>>
      /\ pc' = [pc EXCEPT ![Root] = "walk"]
      /\ walk' = WalkOver(<<Root>>) /\ tree' = {}
  BY <1>1 DEF Publish, Go, AfterRecord, IInv, NodeInv
<1>3. /\ walk'.rest = <<Root>> /\ walk'.kids = <<>> /\ ~walk'.copied
  BY <1>2 DEF WalkOver
<1>4. /\ Elems(walk.rest)' = {Root} /\ Elems(walk.kids)' = {} /\ Pending' = {Root}
  <2>1. Elems(<<Root>>) = {Root} /\ Elems(<<>>) = {} BY DEF Elems
  <2>2. Elems(walk.rest)' = Elems(walk'.rest) /\ Elems(walk.kids)' = Elems(walk'.kids)
    BY DEF Elems
  <2> QED BY <1>3, <2>1, <2>2 DEF Pending
<1>5. Parents(Root)' = {}
  <2>1. Parents(Root) = {}
    BY PoolAssumption DEF Parents, TypeOK
  <2> QED BY <1>2, <2>1 DEF Parents
<1>6. pc'[Root] = "walk" /\ \A b \in Nodes \ {Root} : pc'[b] = pc[b]
  BY <1>2 DEF TypeOK, Nodes
<1>7. Root \in registered' BY <1>2 DEF IInv, NodeInv
<1>8. \A b \in Nodes : pc'[b] \in {"free", "publish", "announce"} =>
         target'[b] = b \/ target'[b] # Root
  BY <1>2, <1>6 DEF WalkInv
<1>9. \A b \in Subagents : pc'[b] # "walk"
  BY <1>6, PoolAssumption DEF WalkInv, Nodes
<1> QED BY <1>2, <1>3, <1>4, <1>5, <1>6, <1>7, <1>8, <1>9 DEF WalkInv
LEMMA WalkStep ==
    IInv /\ EventInv /\ TypeOK /\ ChildInv /\ WalkInv /\ [Next]_vars => WalkInv'
<1> SUFFICES ASSUME IInv, EventInv, TypeOK, ChildInv, WalkInv, [Next]_vars PROVE WalkInv'
  OBVIOUS
<1>1. CASE RootTurn
  <2>1. UNCHANGED <<registered, childIds, walk, tree, result, target>>
        /\ pc' = [pc EXCEPT ![Root] = "turn"]
    BY <1>1 DEF RootTurn, Go, nodeVars, walkVars
  <2>2. pc'[Root] = "turn" /\ \A a \in Nodes \ {Root} : pc'[a] = pc[a]
    BY <2>1 DEF TypeOK, Nodes
  <2>3. \A a \in Subagents : a \in Nodes \ {Root} BY PoolAssumption DEF Nodes
  <2>4. \A a \in Nodes : pc'[a] \in {"free", "publish", "announce"} =>
           target'[a] = a \/ target'[a] # Root
    BY <2>1, <2>2 DEF WalkInv
  <2>5. \A a \in Subagents : pc'[a] # "walk" BY <2>2, <2>3 DEF WalkInv
  <2> QED BY <2>1, <2>2, <2>4, <2>5, WalkUnmoved
<1>2. CASE RootStep
  BY <1>2, WalkEnters, WalkCollects, WalkSaves DEF RootStep
<1>3. ASSUME NEW a \in Nodes, NEW n \in Subagents, Register(a, n) PROVE WalkInv'
  BY <1>3, WalkRegister
<1>4. ASSUME NEW a \in Nodes,
             UNCHANGED <<registered, childIds, walk, tree, result, turns>>,
             NEW where \in {"turn", "registered", "start", "wait", "free", "publish",
                            "announce", "over"},
             pc' = [pc EXCEPT ![a] = where],
             \A b \in Nodes \ {a} : target'[b] = target[b],
             where \in {"free", "publish", "announce"} =>
                target'[a] = a \/ target'[a] # Root
      PROVE  WalkInv'
  <2>1. pc'[a] = where /\ \A b \in Nodes \ {a} : pc'[b] = pc[b]
    BY <1>4 DEF TypeOK
  <2>2. \A b \in Nodes : pc'[b] \in {"free", "publish", "announce"} =>
           target'[b] = b \/ target'[b] # Root
    BY <1>4, <2>1 DEF WalkInv
  <2>3. \A b \in Subagents : pc'[b] # "walk" BY <2>1 DEF WalkInv, Nodes
  <2>4. pc'[Root] \in {"off", "walk"} => pc'[Root] = pc[Root]
    BY <2>1 DEF Nodes
  <2> QED BY <1>4, <2>2, <2>3, <2>4, WalkUnmoved
<1>5. ASSUME NEW a \in Nodes, NEW n \in Subagents, WaitFor(a, n) PROVE WalkInv'
  BY <1>4, <1>5 DEF WaitFor, Go, TypeOK, nodeVars, walkVars
<1>6. ASSUME NEW a \in Nodes, AgentStep(a) PROVE WalkInv'
  <2> USE DEF Go, nodeVars, walkVars
  <2>1. CASE EmitStart(a) BY <1>4, <2>1 DEF EmitStart
  <2>2. CASE StartThread(a)
    <3> DEFINE c == target[a]
    <3>1. /\ UNCHANGED <<registered, childIds, walk, tree, result, turns, target>>
          /\ pc' = [pc EXCEPT ![a] = "turn", ![c] = "turn"]
          /\ c \in Nodes /\ c # Root
      BY <2>2 DEF StartThread, IInv, RecordInv, TypeInv
    <3>2. \A b \in Nodes : pc'[b] = IF b \in {a, c} THEN "turn" ELSE pc[b]
      BY <3>1 DEF TypeOK
    <3>3. \A b \in Nodes : pc'[b] \in {"free", "publish", "announce"} =>
             target'[b] = b \/ target'[b] # Root
      BY <3>1, <3>2 DEF WalkInv
    <3>4. \A b \in Subagents : pc'[b] # "walk" BY <3>2 DEF WalkInv, Nodes
    <3>5. pc'[Root] \in {"off", "walk"} => pc'[Root] = pc[Root]
      BY <3>2 DEF Nodes
    <3> QED BY <3>1, <3>3, <3>4, <3>5, WalkUnmoved
  <2>3. CASE StartFails(a)
    <3>1. target[a] # Root BY <2>3 DEF StartFails, IInv, RecordInv
    <3> QED BY <1>4, <2>3, <3>1 DEF StartFails
  <2>4. CASE WaitReturns(a) BY <1>4, <2>4 DEF WaitReturns
  <2>5. CASE TurnEnds(a) BY <1>4, <2>5 DEF TurnEnds, TypeOK
  <2>6. CASE FreeSlot(a) BY <1>4, <2>6 DEF FreeSlot, WalkInv
  <2>7. CASE Publish(a)
    <3>1. CASE depth[target[a]] = 0 BY <2>7, <3>1, WalkBegins
    <3>2. CASE depth[target[a]] # 0
      <4>1. /\ UNCHANGED <<registered, childIds, walk, tree, turns, target>>
            /\ result' = [result EXCEPT ![target[a]] = TRUE]
            /\ pc[a] = "publish" /\ pc' = [pc EXCEPT ![a] = "announce"]
        BY <2>7, <3>2 DEF Publish, TypeOK
      <4>2. pc'[a] = "announce" /\ \A b \in Nodes \ {a} : pc'[b] = pc[b]
        BY <4>1 DEF TypeOK
      <4>3. \A n \in Nodes : result[n] => result'[n] BY <4>1 DEF TypeOK
      <4>4. \A b \in Nodes : pc'[b] \in {"free", "publish", "announce"} =>
               target'[b] = b \/ target'[b] # Root
        BY <4>1, <4>2 DEF WalkInv
      <4>5. \A b \in Subagents : pc'[b] # "walk" BY <4>2 DEF WalkInv, Nodes
      <4>6. pc'[Root] \in {"off", "walk"} => pc'[Root] = pc[Root]
        BY <4>2 DEF Nodes
      <4> QED BY <4>1, <4>3, <4>4, <4>5, <4>6, WalkUnmoved
    <3> QED BY <3>1, <3>2
  <2>8. CASE EmitDone(a)
    <3>1. a # Root \/ target[a] # a
      BY <2>8 DEF EmitDone, IInv, EventInv
    <3>2. AfterRecord(a) \in {"turn", "over"} BY <3>1 DEF AfterRecord
    <3> QED BY <1>4, <2>8, <3>2 DEF EmitDone
  <2> QED BY <1>6, <2>1, <2>2, <2>3, <2>4, <2>5, <2>6, <2>7, <2>8 DEF AgentStep
<1>7. CASE UNCHANGED vars
  BY <1>7, WalkUnmoved
     DEF vars, nodeVars, agentVars, walkVars, WalkInv, TypeOK
<1> QED BY <1>1, <1>2, <1>3, <1>5, <1>6, <1>7 DEF Next

LEMMA InitTree == Init => ChildInv /\ WalkInv
<1> SUFFICES ASSUME Init PROVE ChildInv /\ WalkInv
  OBVIOUS
<1>1. Elems(<<>>) = {} BY DEF Elems
<1>2. \A p \in Nodes : Elems(childIds[p]) = {} BY <1>1 DEF Init
<1>3. registered = {Root} /\ tree = {} /\ \A a \in Nodes : pc[a] = "off"
  BY DEF Init
<1>4. ChildInv BY <1>2, <1>3 DEF ChildInv, TreeIsWellFormed
<1>5. walk.kids = <<>> /\ walk.rest = <<>> /\ ~walk.copied
  BY DEF Init, WalkOver
<1>6. Pending = {} /\ Elems(walk.rest) = {} BY <1>1, <1>5 DEF Pending
<1>7. turns = 0 BY DEF Init
<1>8. Root \in Nodes /\ Subagents \subseteq Nodes BY DEF Nodes
<1> QED BY <1>3, <1>4, <1>5, <1>6, <1>7, <1>8 DEF WalkInv

\* The agents form one tree at any time, each listed once, under the agent that
\* spawned it and one level below; and what the root saves of it has every child
\* of the root, every collected node's parent and every node's result, although
\* the tree grows while it is walked.
THEOREM TreesStaySound == Spec => []TreesAreSound
<1>1. Init => EventInv BY PoolAssumption DEF Init, EventInv, EventsInOrder, Nodes
<1>2. TypeOK /\ ChildInv /\ WalkInv => TreesAreSound
  BY WalkMeansSound DEF ChildInv, TreesAreSound
<1> QED BY Invariance, EventStep, <1>1, TypeCorrect, InitTree, ChildStep,
           WalkStep, <1>2, PTL DEF Spec
=============================================================================
