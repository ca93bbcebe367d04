----------------------------- MODULE OllamaPool -----------------------------
(***************************************************************************)
(* The work pool in front of Ollama: agents queue a chat or an embedding   *)
(* and block for its result; a fixed number of workers serve both queues.  *)
(* src/core/oc/ollama_client.cpp.                                          *)
(*                                                                         *)
(* A step is what mQueueMutex covers, a notify or a move of the once flag. *)
(* A request is named by its agent in place of a ticket: no ticket is      *)
(* drawn twice, and an agent blocks on each of its requests.               *)
(***************************************************************************)
EXTENDS Integers, SequencesExt, FiniteSetTheorems, TLAPS

CONSTANTS
    Agents,     \* threads that make requests
    Jobs,       \* the concurrency set_concurrency() left at startup
    MaxWorkers, \* bound: threads ever started
    MaxRecalls  \* bound: embeddings of an agent between two of its chats

Nobody == "nobody"

ASSUME PoolAssumption ==
    /\ IsFiniteSet(Agents) /\ Nobody \notin Agents
    /\ Jobs \in Nat \ {0}
    /\ {MaxWorkers, MaxRecalls} \subseteq Nat

Kinds == {"chat", "embed"}
Workers == 1..MaxWorkers

VARIABLES
    once,     \* mWorkersOnce: idle, running, done
    started,  \* size of mWorkers
    queue,    \* mChatQueue and mEmbedQueue
    ready,    \* requests whose promise was fulfilled
    mShutdown,
    job,      \* the request a worker runs, or Nobody
    wpc,      \* off, loop, asleep, run or returned
    pc,       \* idle, ensure, start, push, notify or wait
    kind,     \* of an agent's request
    recalls   \* its embeddings since its latest chat

poolVars == <<once, started, queue, ready, mShutdown>>
workerVars == <<job, wpc>>
agentVars == <<pc, kind, recalls>>
vars == <<poolVars, workerVars, agentVars>>

Init ==
    /\ once = "idle" /\ started = 0
    /\ queue = [k \in Kinds |-> <<>>]
    /\ ready = {} /\ mShutdown = FALSE
    /\ job = [w \in Workers |-> Nobody]
    /\ wpc = [w \in Workers |-> "off"]
    /\ pc = [a \in Agents |-> "idle"]
    /\ kind = [a \in Agents |-> "chat"]
    /\ recalls = [a \in Agents |-> 0]

Go(a, where) == pc' = [pc EXCEPT ![a] = where]

----------------------------------------------------------------------------
\* enqueue_chat(), enqueue_embed()

\* An agent recalls memories only in a tool call, of which a step of its turn
\* makes finitely many; then it chats again.
Enqueue(a, k) ==
    /\ pc[a] = "idle" /\ ~mShutdown
    /\ IF k = "chat" THEN recalls' = [recalls EXCEPT ![a] = 0]
       ELSE recalls[a] < MaxRecalls /\ recalls' = [recalls EXCEPT ![a] = @ + 1]
    /\ kind' = [kind EXCEPT ![a] = k]
    /\ Go(a, "ensure")
    /\ UNCHANGED <<poolVars, workerVars>>

\* Fault: a flag tested and set in place of call_once.
EnsureWorkersUnguarded(a) ==
    /\ pc[a] = "ensure"
    /\ IF once = "done" THEN Go(a, "push") /\ UNCHANGED once
       ELSE once' = "running" /\ Go(a, "start")
    /\ UNCHANGED <<started, queue, ready, mShutdown, workerVars, kind,
                   recalls>>

\* call_once: the first caller runs the body, the others wait for it to end.
EnsureWorkers(a) ==
    /\ pc[a] = "ensure" /\ once # "running"
    /\ IF once = "done" THEN Go(a, "push") /\ UNCHANGED once
       ELSE once' = "running" /\ Go(a, "start")
    /\ UNCHANGED <<started, queue, ready, mShutdown, workerVars, kind,
                   recalls>>

StartWorkers(a) ==
    /\ pc[a] = "start" /\ started + Jobs <= MaxWorkers
    /\ started' = started + Jobs
    /\ wpc' = [w \in Workers |->
                 IF w \in started + 1 .. started + Jobs THEN "loop" ELSE wpc[w]]
    /\ once' = "done"
    /\ Go(a, "push")
    /\ UNCHANGED <<queue, ready, mShutdown, job, kind, recalls>>

\* The future is filed under the ticket first, for the agent alone to find.
Push(a) ==
    /\ pc[a] = "push"
    /\ queue' = [queue EXCEPT ![kind[a]] = Append(@, a)]
    /\ Go(a, "notify")
    /\ UNCHANGED <<once, started, ready, mShutdown, workerVars, kind,
                   recalls>>

Asleep == {w \in Workers : wpc[w] = "asleep"}

\* Fault: nobody is notified of a new request.
NotifyNobody == UNCHANGED wpc

\* notify_one, after the unlock: any one sleeper wakes, if there is any.
NotifyOne ==
    IF Asleep = {} THEN UNCHANGED wpc
    ELSE \E w \in Asleep : wpc' = [wpc EXCEPT ![w] = "loop"]

Notify(a) ==
    /\ pc[a] = "notify"
    /\ NotifyOne
    /\ Go(a, "wait")
    /\ UNCHANGED <<poolVars, job, kind, recalls>>

----------------------------------------------------------------------------
\* wait_for(), wait_for_embed(): take the future out of the map, then block on
\* it.

GetResult(a) ==
    /\ pc[a] = "wait" /\ a \in ready
    /\ ready' = ready \ {a}
    /\ Go(a, "idle")
    /\ UNCHANGED <<once, started, queue, mShutdown, workerVars, kind,
                   recalls>>

----------------------------------------------------------------------------
\* worker_loop() and the destructor

NothingQueued == \A k \in Kinds : queue[k] = <<>>

Sleep(w) ==
    /\ wpc[w] = "loop" /\ NothingQueued /\ ~mShutdown
    /\ wpc' = [wpc EXCEPT ![w] = "asleep"]
    /\ UNCHANGED <<poolVars, job, agentVars>>

\* Embeddings go first.
Chosen == IF queue["embed"] # <<>> THEN "embed" ELSE "chat"

\* Fault: a request is read off the front of its queue and left there.
TakeJobKeepsFront(w) ==
    /\ wpc[w] = "loop" /\ ~NothingQueued
    /\ job' = [job EXCEPT ![w] = Head(queue[Chosen])]
    /\ wpc' = [wpc EXCEPT ![w] = "run"]
    /\ UNCHANGED <<poolVars, agentVars>>

TakeJob(w) ==
    /\ wpc[w] = "loop" /\ ~NothingQueued
    /\ job' = [job EXCEPT ![w] = Head(queue[Chosen])]
    /\ queue' = [queue EXCEPT ![Chosen] = Tail(@)]
    /\ wpc' = [wpc EXCEPT ![w] = "run"]
    /\ UNCHANGED <<once, started, ready, mShutdown, agentVars>>

\* Fault: the job is cleared before its promise is set.
FulfilCleared(w) ==
    /\ wpc[w] = "run"
    /\ job' = [job EXCEPT ![w] = Nobody]
    /\ ready' = ready \cup {job'[w]}
    /\ wpc' = [wpc EXCEPT ![w] = "loop"]
    /\ UNCHANGED <<once, started, queue, mShutdown, agentVars>>

\* The request ends, well or badly, and its promise is set.
Fulfil(w) ==
    /\ wpc[w] = "run"
    /\ ready' = ready \cup {job[w]}
    /\ job' = [job EXCEPT ![w] = Nobody]
    /\ wpc' = [wpc EXCEPT ![w] = "loop"]
    /\ UNCHANGED <<once, started, queue, mShutdown, agentVars>>

\* Fault: a shutdown does not wait for the queues to drain.
LeaveAtOnce(w) ==
    /\ wpc[w] = "loop" /\ mShutdown
    /\ wpc' = [wpc EXCEPT ![w] = "returned"]
    /\ UNCHANGED <<poolVars, job, agentVars>>

Leave(w) ==
    /\ wpc[w] = "loop" /\ NothingQueued /\ mShutdown
    /\ wpc' = [wpc EXCEPT ![w] = "returned"]
    /\ UNCHANGED <<poolVars, job, agentVars>>

\* The process leaves main().  Agent threads are detached and may be anywhere;
\* that none is starting the pool just then is assumed.
Shutdown ==
    /\ ~mShutdown /\ once # "running"
    /\ mShutdown' = TRUE
    /\ wpc' = [w \in Workers |-> IF w \in Asleep THEN "loop" ELSE wpc[w]]
    /\ UNCHANGED <<once, started, queue, ready, job, agentVars>>

----------------------------------------------------------------------------
AgentStep(a) ==
    \/ EnsureWorkers(a) \/ StartWorkers(a) \/ Push(a)
    \/ Notify(a) \/ GetResult(a)

WorkerStep(w) == Sleep(w) \/ TakeJob(w) \/ Fulfil(w) \/ Leave(w)

Next ==
    \/ \E a \in Agents : AgentStep(a) \/ \E k \in Kinds : Enqueue(a, k)
    \/ \E w \in Workers : WorkerStep(w)
    \/ Shutdown

Spec == Init /\ [][Next]_vars

\* Threads run, and every request to Ollama ends: it has a timeout.
FairSpec ==
    /\ Spec
    /\ \A a \in Agents : WF_vars(AgentStep(a))
    /\ \A w \in Workers : WF_vars(WorkerStep(w))

----------------------------------------------------------------------------
\* Every field has the type the code gives it; only a worker fulfils a request.
TypeOK ==
    /\ once \in {"idle", "running", "done"}
    /\ started \in 0..MaxWorkers
    /\ queue \in [Kinds -> Seq(Agents)]
    /\ ready \subseteq Agents
    /\ mShutdown \in BOOLEAN
    /\ job \in [Workers -> Agents \cup {Nobody}]
    /\ wpc \in [Workers -> {"off", "loop", "asleep", "run", "returned"}]
    /\ pc \in [Agents -> {"idle", "ensure", "start", "push", "notify", "wait"}]
    /\ kind \in [Agents -> Kinds]
    /\ recalls \in [Agents -> 0..MaxRecalls]

\* "The total number of concurrent requests is capped at set_concurrency() no
\* matter how many agent threads are running", also when several of them make
\* the first request at once.
RequestsCapped == Cardinality({w \in Workers : wpc[w] = "run"}) <= Jobs

Outstanding(a) == pc[a] \in {"push", "notify", "wait"}

\* A request is in one place at a time: with its agent, in the queue of its
\* kind, with one worker, or fulfilled; no promise is set twice or lost.
OneOwner ==
    \A a \in Agents :
        LET queues  == {k \in Kinds : a \in ToSet(queue[k])}
            workers == {w \in Workers : job[w] = a}
            one(p) == IF p THEN 1 ELSE 0
        IN  /\ queues \subseteq {kind[a]}
            /\ Cardinality(queues) + Cardinality(workers)
                 + one(pc[a] = "push") + one(a \in ready) = one(Outstanding(a))

Queued(a) == \E k \in Kinds : a \in ToSet(queue[k])

\* "Returning any earlier would leave a queued job's promise broken under a
\* blocked waiter": what is queued before the pool shuts down is fulfilled.
QueuedIsFulfilled ==
    \A a \in Agents : Queued(a) /\ ~mShutdown ~> a \in ready

\* "Chat cannot starve" behind the embeddings that jump the queue, and nobody
\* waits for a worker that sleeps: every request returns while the pool is up.
EveryRequestReturns ==
    \A a \in Agents : pc[a] = "wait" ~> pc[a] = "idle" \/ mShutdown

NoRequestIsLost == QueuedIsFulfilled /\ EveryRequestReturns
-----------------------------------------------------------------------------
(* Proofs, for any number of agents and any concurrency.                   *)

\* call_once: before the flag is set one caller at most is inside, and nothing
\* has been started; afterwards Jobs workers have, and no other thread runs.
PoolInv ==
    /\ once \in {"idle", "running"} => started = 0
    /\ once = "done" => started = Jobs
    /\ \A a \in Agents : pc[a] = "start" => once = "running"
    /\ \A a, b \in Agents : pc[a] = "start" /\ pc[b] = "start" => a = b
    /\ \A w \in Workers : wpc[w] # "off" => w <= started

\* A request that was pushed, and that its agent has not collected.
Pushed(a) == pc[a] \in {"notify", "wait"}

\* Where requests are: no two places hold the same one.
QueueInv ==
    /\ \A k \in Kinds : IsInjective(queue[k])
    /\ \A k \in Kinds, a \in Agents : a \in ToSet(queue[k]) =>
          /\ Pushed(a) /\ kind[a] = k /\ a \notin ready
          /\ \A w \in Workers : job[w] # a

JobInv ==
    /\ \A w \in Workers : wpc[w] = "run" <=> job[w] # Nobody
    /\ \A w \in Workers : job[w] # Nobody => Pushed(job[w]) /\ job[w] \notin ready
    /\ \A v, w \in Workers : job[v] # Nobody /\ job[v] = job[w] => v = w
    /\ \A a \in ready : Pushed(a)

PlaceInv ==
    \A a \in Agents : Pushed(a) =>
        \/ a \in ready
        \/ \E w \in Workers : job[w] = a
        \/ a \in ToSet(queue[kind[a]])

OwnerInv == QueueInv /\ JobInv /\ PlaceInv

IInv == TypeOK /\ PoolInv /\ OwnerInv

LEMMA InitIInv == Init => IInv
<1> SUFFICES ASSUME Init PROVE IInv
  OBVIOUS
<1> USE PoolAssumption DEF Init, Kinds, Workers
<1>1. TypeOK
  <2>1. mShutdown \in BOOLEAN BY Zenon
  <2>2. queue \in [Kinds -> Seq(Agents)] BY SMT
  <2> QED BY <2>1, <2>2 DEF TypeOK
<1>2. PoolInv BY DEF PoolInv
<1>3. OwnerInv
  <2>1. \A k \in Kinds : IsInjective(queue[k]) /\ ToSet(queue[k]) = {}
    BY DEF IsInjective, ToSet
  <2> QED BY <2>1 DEF OwnerInv, QueueInv, JobInv, PlaceInv, Pushed
<1> QED BY <1>1, <1>2, <1>3 DEF IInv

\* Each step keeps the types.
LEMMA TypeStep == IInv /\ [Next]_vars => TypeOK'
<1> SUFFICES ASSUME IInv, [Next]_vars PROVE TypeOK'
  OBVIOUS
<1> USE PoolAssumption
    DEF TypeOK, IInv, Kinds, Workers, Go, poolVars, workerVars, agentVars
<1>1. ASSUME NEW a \in Agents, NEW k \in Kinds, Enqueue(a, k) PROVE TypeOK'
  <2>1. recalls' \in [Agents -> 0..MaxRecalls]
    <3>1. MaxRecalls \in Nat BY PoolAssumption
    <3>2. CASE k = "chat" BY <1>1, <3>1, <3>2 DEF Enqueue
    <3>3. CASE k # "chat"
      <4>1. recalls[a] < MaxRecalls /\ recalls' = [recalls EXCEPT ![a] = @ + 1]
        BY <1>1, <3>3 DEF Enqueue
      <4>2. recalls[a] + 1 \in 0..MaxRecalls BY <3>1, <4>1
      <4> QED BY <4>1, <4>2
    <3> QED BY <3>2, <3>3
  <2>2. pc' \in [Agents -> {"idle", "ensure", "start", "push", "notify", "wait"}]
    BY <1>1 DEF Enqueue
  <2>3. kind' \in [Agents -> Kinds] BY <1>1 DEF Enqueue
  <2>4. mShutdown' \in BOOLEAN BY <1>1, Zenon DEF Enqueue
  <2>5. UNCHANGED <<once, started, queue, ready, job, wpc>> BY <1>1 DEF Enqueue
  <2> QED BY <2>1, <2>2, <2>3, <2>4, <2>5
<1>2. ASSUME NEW a \in Agents, AgentStep(a) PROVE TypeOK'
  <2>1. CASE EnsureWorkers(a) BY <2>1 DEF EnsureWorkers
  <2>2. CASE StartWorkers(a) BY <2>2 DEF StartWorkers
  <2>3. CASE Push(a) BY <2>3 DEF Push
  <2>4. CASE Notify(a) BY <2>4 DEF Notify, NotifyOne, Asleep
  <2>5. CASE GetResult(a) BY <2>5 DEF GetResult
  <2> QED BY <1>2, <2>1, <2>2, <2>3, <2>4, <2>5 DEF AgentStep
<1>3. ASSUME NEW w \in Workers, WorkerStep(w) PROVE TypeOK'
  <2>1. CASE Sleep(w) BY <2>1 DEF Sleep
  <2>2. CASE TakeJob(w)
    <3>1. Chosen \in Kinds /\ queue[Chosen] # <<>>
      BY <2>2 DEF TakeJob, Chosen, NothingQueued
    <3>2. Head(queue[Chosen]) \in Agents /\ Tail(queue[Chosen]) \in Seq(Agents)
      BY <3>1
    <3>3. queue' \in [Kinds -> Seq(Agents)] BY <2>2, <3>1, <3>2 DEF TakeJob
    <3>4. job' \in [Workers -> Agents \cup {Nobody}] BY <2>2, <3>2 DEF TakeJob
    <3>5. wpc' \in [Workers -> {"off", "loop", "asleep", "run", "returned"}]
      BY <2>2 DEF TakeJob
    <3>6. mShutdown' \in BOOLEAN BY <2>2, Zenon DEF TakeJob
    <3>7. UNCHANGED <<once, started, ready, pc, kind, recalls>>
      BY <2>2 DEF TakeJob
    <3> QED BY <3>3, <3>4, <3>5, <3>6, <3>7
  <2>3. CASE Fulfil(w)
    <3>1. wpc[w] = "run" => job[w] # Nobody BY DEF OwnerInv, QueueInv, JobInv, PlaceInv
    <3>2. job[w] \in Agents BY <2>3, <3>1 DEF Fulfil
    <3> QED BY <2>3, <3>2 DEF Fulfil
  <2>4. CASE Leave(w) BY <2>4 DEF Leave
  <2> QED BY <1>3, <2>1, <2>2, <2>3, <2>4 DEF WorkerStep
<1>4. CASE Shutdown BY <1>4 DEF Shutdown, Asleep
<1>5. CASE UNCHANGED vars
  <2>1. mShutdown' \in BOOLEAN BY <1>5, Zenon DEF vars
  <2> QED BY <1>5, <2>1 DEF vars
<1> QED BY <1>1, <1>2, <1>3, <1>4, <1>5 DEF Next

\* Only call_once starts workers, once.
LEMMA PoolStep == IInv /\ [Next]_vars => PoolInv'
<1> SUFFICES ASSUME IInv, [Next]_vars PROVE PoolInv'
  OBVIOUS
<1> USE PoolAssumption
    DEF TypeOK, IInv, PoolInv, Workers, Go, poolVars, workerVars, agentVars
<1>1. ASSUME NEW a \in Agents, NEW k \in Kinds, Enqueue(a, k) PROVE PoolInv'
  BY <1>1 DEF Enqueue
<1>2. ASSUME NEW a \in Agents, AgentStep(a) PROVE PoolInv'
  <2>1. CASE EnsureWorkers(a) BY <2>1 DEF EnsureWorkers
  <2>2. CASE StartWorkers(a) BY <2>2 DEF StartWorkers
  <2>3. CASE Push(a) BY <2>3 DEF Push
  <2>4. CASE Notify(a) BY <2>4 DEF Notify, NotifyOne, Asleep
  <2>5. CASE GetResult(a) BY <2>5 DEF GetResult
  <2> QED BY <1>2, <2>1, <2>2, <2>3, <2>4, <2>5 DEF AgentStep
<1>3. ASSUME NEW w \in Workers, WorkerStep(w) PROVE PoolInv'
  <2>1. CASE Sleep(w) BY <2>1 DEF Sleep
  <2>2. CASE TakeJob(w)
    <3>1. wpc[w] # "off" BY <2>2 DEF TakeJob
    <3> QED BY <2>2, <3>1 DEF TakeJob
  <2>3. CASE Fulfil(w) BY <2>3 DEF Fulfil
  <2>4. CASE Leave(w) BY <2>4 DEF Leave
  <2> QED BY <1>3, <2>1, <2>2, <2>3, <2>4 DEF WorkerStep
<1>4. CASE Shutdown BY <1>4 DEF Shutdown, Asleep
<1>5. CASE UNCHANGED vars BY <1>5 DEF vars
<1> QED BY <1>1, <1>2, <1>3, <1>4, <1>5 DEF Next

\* What Append and Tail do to a queue without repetitions.
LEMMA AppendNew ==
  ASSUME NEW S, NEW s \in Seq(S), NEW a \in S, a \notin ToSet(s), IsInjective(s)
  PROVE  IsInjective(Append(s, a)) /\ ToSet(Append(s, a)) = ToSet(s) \cup {a}
<1> DEFINE n == Len(s) + 1
<1>1. /\ DOMAIN Append(s, a) = DOMAIN s \cup {n} /\ n \notin DOMAIN s
      /\ Append(s, a)[n] = a
      /\ \A i \in DOMAIN s : Append(s, a)[i] = s[i]
  OBVIOUS
<1>2. \A i \in DOMAIN s : s[i] # a BY DEF ToSet
<1> HIDE DEF n
<1>3. IsInjective(Append(s, a)) BY <1>1, <1>2 DEF IsInjective
<1>4. ToSet(Append(s, a)) = ToSet(s) \cup {a} BY <1>1 DEF ToSet
<1> QED BY <1>3, <1>4

LEMMA TailOfInjective ==
  ASSUME NEW S, NEW s \in Seq(S), s # <<>>, IsInjective(s)
  PROVE  /\ Head(s) \in ToSet(s) /\ Head(s) \in S
         /\ IsInjective(Tail(s))
         /\ ToSet(Tail(s)) = ToSet(s) \ {Head(s)}
<1>1. /\ 1 \in DOMAIN s /\ Head(s) = s[1] /\ s[1] \in S
      /\ \A i \in DOMAIN Tail(s) :
            i + 1 \in DOMAIN s /\ i + 1 # 1 /\ Tail(s)[i] = s[i + 1]
      /\ \A i \in DOMAIN s : i # 1 =>
            i - 1 \in DOMAIN Tail(s) /\ Tail(s)[i - 1] = s[i]
      /\ DOMAIN Tail(s) \subseteq Nat
  OBVIOUS
<1>2. IsInjective(Tail(s)) BY <1>1 DEF IsInjective
<1>3. ToSet(Tail(s)) \subseteq ToSet(s) \ {Head(s)}
  BY <1>1 DEF ToSet, IsInjective
<1>4. ToSet(s) \ {Head(s)} \subseteq ToSet(Tail(s))
  <2>1. SUFFICES ASSUME NEW i \in DOMAIN s, s[i] # Head(s)
                 PROVE  s[i] \in ToSet(Tail(s))
    BY DEF ToSet
  <2>2. i - 1 \in DOMAIN Tail(s) /\ Tail(s)[i - 1] = s[i] BY <1>1, <2>1
  <2> QED BY <2>2 DEF ToSet
<1> QED BY <1>1, <1>2, <1>3, <1>4 DEF ToSet

\* A step that moves no request.
LEMMA OwnerFrame ==
  ASSUME IInv, UNCHANGED <<queue, ready, job>>,
         \A a \in Agents : Pushed(a)' = Pushed(a),
         \A a \in Agents : Pushed(a) => kind'[a] = kind[a],
         \A w \in Workers : wpc'[w] = "run" <=> wpc[w] = "run"
  PROVE  OwnerInv'
<1>1. \A a \in ready : a \in Agents BY DEF IInv, TypeOK
<1>2. \A w \in Workers : job[w] # Nobody => job[w] \in Agents
  BY DEF IInv, TypeOK
<1>3. QueueInv' BY DEF IInv, OwnerInv, QueueInv
<1>4. JobInv'
  <2>1. \A w \in Workers : job[w] # Nobody => Pushed(job[w])'
    BY <1>2 DEF IInv, OwnerInv, JobInv
  <2>2. \A a \in ready : Pushed(a)' BY <1>1 DEF IInv, OwnerInv, JobInv
  <2>3. \A w \in Workers : wpc'[w] = "run" <=> job[w] # Nobody
    BY DEF IInv, OwnerInv, JobInv
  <2>4. \A w \in Workers : job[w] # Nobody => job[w] \notin ready
    BY DEF IInv, OwnerInv, JobInv
  <2>5. \A v, w \in Workers : job[v] # Nobody /\ job[v] = job[w] => v = w
    BY DEF IInv, OwnerInv, JobInv
  <2> QED BY <2>1, <2>2, <2>3, <2>4, <2>5 DEF JobInv, Pushed
<1>5. PlaceInv' BY DEF IInv, OwnerInv, PlaceInv
<1> QED BY <1>3, <1>4, <1>5 DEF OwnerInv

\* A request moves from its agent to a queue, a worker and its future, and is
\* never copied on the way.
LEMMA OwnerStep == IInv /\ [Next]_vars => OwnerInv'
<1> SUFFICES ASSUME IInv, [Next]_vars PROVE OwnerInv'
  OBVIOUS
<1> USE PoolAssumption DEF Go, poolVars, workerVars, agentVars
<1>1. /\ pc \in [Agents -> {"idle", "ensure", "start", "push", "notify", "wait"}]
      /\ wpc \in [Workers -> {"off", "loop", "asleep", "run", "returned"}]
      /\ kind \in [Agents -> Kinds] /\ queue \in [Kinds -> Seq(Agents)]
      /\ job \in [Workers -> Agents \cup {Nobody}] /\ ready \subseteq Agents
  BY DEF IInv, TypeOK
<1>2. OwnerInv BY DEF IInv
<1>3. ASSUME NEW a \in Agents, NEW k \in Kinds, Enqueue(a, k) PROVE OwnerInv'
  BY <1>1, <1>3, OwnerFrame DEF Enqueue, Pushed
<1>4. ASSUME NEW a \in Agents, AgentStep(a) PROVE OwnerInv'
  <2>1. CASE EnsureWorkers(a)
    BY <1>1, <2>1, OwnerFrame DEF EnsureWorkers, Pushed
  <2>2. CASE StartWorkers(a)
    <3>1. \A w \in Workers : wpc'[w] = "run" <=> wpc[w] = "run"
      BY <1>1, <2>2 DEF StartWorkers, IInv, PoolInv, TypeOK, Workers
    <3> QED BY <1>1, <2>2, <3>1, OwnerFrame DEF StartWorkers, Pushed
  <2>3. CASE Push(a)
    <3> DEFINE k == kind[a]
    <3>1. k \in Kinds /\ ~Pushed(a) /\ queue[k] \in Seq(Agents)
      BY <1>1, <2>3 DEF Push, Pushed
    <3>2. /\ a \notin ready /\ \A w \in Workers : job[w] # a
          /\ \A c \in Kinds : a \notin ToSet(queue[c])
      BY <1>1, <1>2, <3>1 DEF OwnerInv, QueueInv, JobInv, PlaceInv
    <3>3. /\ queue'[k] = Append(queue[k], a)
          /\ \A c \in Kinds \ {k} : queue'[c] = queue[c]
          /\ UNCHANGED <<ready, job, wpc, kind>>
      BY <1>1, <2>3 DEF Push
    <3>4. \A b \in Agents : Pushed(b)' <=> Pushed(b) \/ b = a
      BY <1>1, <2>3 DEF Push, Pushed
    <3>5. IsInjective(queue'[k]) /\ ToSet(queue'[k]) = ToSet(queue[k]) \cup {a}
      BY <1>2, <3>1, <3>2, <3>3, AppendNew DEF OwnerInv, QueueInv
    <3>6. \A c \in Kinds, b \in Agents :
             b \in ToSet(queue'[c]) <=> b \in ToSet(queue[c]) \/ (b = a /\ c = k)
      BY <3>1, <3>3, <3>5
    <3>7. \A c \in Kinds : IsInjective(queue'[c])
      BY <1>2, <3>3, <3>5 DEF OwnerInv, QueueInv
    <3> HIDE DEF k
    <3>8. QueueInv'
      BY <1>2, <3>2, <3>3, <3>4, <3>6, <3>7 DEF OwnerInv, QueueInv, k
    <3>9. JobInv'
      BY <1>1, <1>2, <3>3, <3>4 DEF OwnerInv, JobInv
    <3>10. PlaceInv'
      BY <1>1, <1>2, <3>3, <3>4, <3>6 DEF OwnerInv, PlaceInv, k
    <3> QED BY <3>8, <3>9, <3>10 DEF OwnerInv
  <2>4. CASE Notify(a)
    BY <1>1, <2>4, OwnerFrame DEF Notify, NotifyOne, Asleep, Pushed
  <2>5. CASE GetResult(a)
    <3>1. /\ ready' = ready \ {a} /\ a \in ready
          /\ UNCHANGED <<queue, job, wpc, kind>>
          /\ \A b \in Agents : Pushed(b)' <=> Pushed(b) /\ b # a
      BY <1>1, <2>5 DEF GetResult, Pushed
    <3> QED BY <1>1, <1>2, <3>1 DEF OwnerInv, QueueInv, JobInv, PlaceInv
  <2> QED BY <1>4, <2>1, <2>2, <2>3, <2>4, <2>5 DEF AgentStep
<1>5. ASSUME NEW w \in Workers, WorkerStep(w) PROVE OwnerInv'
  <2>1. CASE Sleep(w) BY <1>1, <2>1, OwnerFrame DEF Sleep, Pushed
  <2>2. CASE TakeJob(w)
    <3> DEFINE k == Chosen
               a == Head(queue[k])
    <3>1. k \in Kinds /\ queue[k] # <<>> /\ queue[k] \in Seq(Agents)
      BY <1>1, <2>2 DEF TakeJob, Chosen, NothingQueued, Kinds
    <3>2. /\ a \in Agents /\ a \in ToSet(queue[k])
          /\ IsInjective(Tail(queue[k]))
          /\ ToSet(Tail(queue[k])) = ToSet(queue[k]) \ {a}
      BY <1>2, <3>1, TailOfInjective DEF OwnerInv, QueueInv, JobInv, PlaceInv
    <3>3. /\ queue'[k] = Tail(queue[k])
          /\ \A c \in Kinds \ {k} : queue'[c] = queue[c]
          /\ job' = [job EXCEPT ![w] = a] /\ wpc' = [wpc EXCEPT ![w] = "run"]
          /\ UNCHANGED <<ready, pc, kind>> /\ wpc[w] = "loop"
      BY <1>1, <2>2, <3>1 DEF TakeJob
    <3>4. Pushed(a) /\ kind[a] = k /\ a \notin ready /\ a # Nobody
          /\ \A v \in Workers : job[v] # a
      BY <1>2, <3>1, <3>2 DEF OwnerInv, QueueInv, JobInv, PlaceInv
    <3>5. \A b \in Agents : Pushed(b)' <=> Pushed(b) BY <3>3 DEF Pushed
    <3>6. job[w] = Nobody BY <1>2, <3>3 DEF OwnerInv, QueueInv, JobInv, PlaceInv
    <3>7. /\ job'[w] = a /\ wpc'[w] = "run"
          /\ \A v \in Workers \ {w} : job'[v] = job[v] /\ wpc'[v] = wpc[v]
      BY <1>1, <3>3
    <3>8. \A c \in Kinds : a \in ToSet(queue[c]) => c = k
      BY <1>2, <3>2, <3>4 DEF OwnerInv, QueueInv
    <3> HIDE DEF k, a
    <3>9. \A c \in Kinds, b \in Agents :
             b \in ToSet(queue'[c]) <=> b \in ToSet(queue[c]) /\ b # a
      BY <3>1, <3>2, <3>3, <3>8
    <3>10. \A c \in Kinds : IsInjective(queue'[c])
      BY <1>2, <3>2, <3>3 DEF OwnerInv, QueueInv
    <3>11. QueueInv'
      BY <1>2, <3>3, <3>5, <3>7, <3>9, <3>10 DEF OwnerInv, QueueInv
    <3>12. JobInv'
      <4>1. \A v \in Workers : wpc'[v] = "run" <=> job'[v] # Nobody
        BY <1>2, <3>4, <3>7 DEF OwnerInv, JobInv
      <4>2. \A v \in Workers :
               job'[v] # Nobody => Pushed(job'[v]) /\ job'[v] \notin ready
        BY <1>2, <3>4, <3>7 DEF OwnerInv, JobInv
      <4>3. \A u, v \in Workers : job'[u] # Nobody /\ job'[u] = job'[v] => u = v
        BY <1>2, <3>4, <3>7 DEF OwnerInv, JobInv
      <4>4. \A b \in ready : Pushed(b) BY <1>2 DEF OwnerInv, JobInv
      <4> QED BY <3>3, <4>1, <4>2, <4>3, <4>4 DEF JobInv, Pushed
    <3>13. PlaceInv'
      <4>1. SUFFICES ASSUME NEW b \in Agents, Pushed(b), b \notin ready
                     PROVE  \/ \E v \in Workers : job'[v] = b
                            \/ b \in ToSet(queue'[kind[b]])
        BY <3>3, <3>5 DEF PlaceInv
      <4>2. CASE b = a BY <3>7, <4>2
      <4>3. CASE \E v \in Workers : job[v] = b
        BY <3>6, <3>7, <4>3, PoolAssumption
      <4>4. CASE b # a /\ b \in ToSet(queue[kind[b]])
        BY <1>1, <3>9, <4>4
      <4> QED BY <1>2, <4>1, <4>2, <4>3, <4>4 DEF OwnerInv, PlaceInv
    <3> QED BY <3>11, <3>12, <3>13 DEF OwnerInv
  <2>3. CASE Fulfil(w)
    <3>1. /\ wpc[w] = "run" /\ ready' = ready \cup {job[w]}
          /\ UNCHANGED <<queue, pc, kind>>
          /\ job'[w] = Nobody /\ wpc'[w] = "loop"
          /\ \A v \in Workers \ {w} : job'[v] = job[v] /\ wpc'[v] = wpc[v]
      BY <1>1, <2>3 DEF Fulfil
    <3>2. job[w] # Nobody /\ job[w] \in Agents
      BY <1>1, <1>2, <3>1 DEF OwnerInv, QueueInv, JobInv, PlaceInv
    <3>3. \A b \in Agents : Pushed(b)' <=> Pushed(b) BY <3>1 DEF Pushed
    <3>8. QueueInv'
      BY <1>1, <1>2, <3>1, <3>2, <3>3
      DEF OwnerInv, QueueInv, JobInv, PlaceInv
    <3>9. JobInv'
      <4>1. \A v \in Workers : job'[v] # Nobody =>
               /\ v # w /\ job'[v] = job[v] /\ job[v] # job[w]
               /\ Pushed(job[v]) /\ job[v] \notin ready'
        BY <1>2, <3>1, <3>2 DEF OwnerInv, JobInv
      <4>2. \A b \in ready' : Pushed(b)
        BY <1>2, <3>1, <3>2 DEF OwnerInv, JobInv
      <4>3. \A v \in Workers : wpc'[v] = "run" <=> job'[v] # Nobody
        BY <1>2, <3>1 DEF OwnerInv, JobInv
      <4>4. \A u, v \in Workers : job'[u] # Nobody /\ job'[u] = job'[v] => u = v
        BY <1>2, <4>1 DEF OwnerInv, JobInv
      <4>5. UNCHANGED pc BY <3>1
      <4> QED BY <4>1, <4>2, <4>3, <4>4, <4>5 DEF JobInv, Pushed
    <3>10. PlaceInv'
      BY <1>1, <1>2, <3>1, <3>2, <3>3
      DEF OwnerInv, QueueInv, JobInv, PlaceInv
    <3> QED BY <3>8, <3>9, <3>10 DEF OwnerInv
  <2>4. CASE Leave(w) BY <1>1, <2>4, OwnerFrame DEF Leave, Pushed
  <2> QED BY <1>5, <2>1, <2>2, <2>3, <2>4 DEF WorkerStep
<1>6. CASE Shutdown BY <1>1, <1>6, OwnerFrame DEF Shutdown, Asleep, Pushed
<1>7. CASE UNCHANGED vars BY <1>7, OwnerFrame DEF vars, Pushed
<1> QED BY <1>3, <1>4, <1>5, <1>6, <1>7 DEF Next

\* The strengthened invariant holds in every reachable state.
THEOREM Invariance == Spec => []IInv
<1>1. IInv /\ [Next]_vars => IInv'
  BY TypeStep, PoolStep, OwnerStep DEF IInv
<1> QED BY InitIInv, <1>1, PTL DEF Spec

\* Every field keeps its type.
THEOREM TypeCorrect == Spec => []TypeOK
<1>1. IInv => TypeOK BY DEF IInv
<1> QED BY Invariance, <1>1, PTL

\* Never more requests in flight than set_concurrency() allows, however many
\* threads make the first one together: only Jobs workers ever start.
THEOREM Capped == Spec => []RequestsCapped
<1>1. IInv => RequestsCapped
  <2> SUFFICES ASSUME IInv PROVE RequestsCapped
    OBVIOUS
  <2> DEFINE busy == {w \in Workers : wpc[w] = "run"}
  <2>1. busy \subseteq 1..Jobs
    BY PoolAssumption DEF IInv, TypeOK, PoolInv, Workers
  <2>2. IsFiniteSet(1..Jobs) /\ Cardinality(1..Jobs) = Jobs
    <3>1. Jobs \in Int /\ Jobs > 0 BY PoolAssumption
    <3>2. Cardinality(1..Jobs) = IF 1 > Jobs THEN 0 ELSE Jobs - 1 + 1
      BY <3>1, FS_Interval
    <3>3. IsFiniteSet(1..Jobs) BY <3>1, FS_Interval
    <3> QED BY <3>1, <3>2, <3>3
  <2>3. Cardinality(busy) <= Cardinality(1..Jobs)
    BY <2>1, <2>2, FS_Subset
  <2> QED BY <2>2, <2>3 DEF RequestsCapped
<1> QED BY Invariance, <1>1, PTL

\* A set with one member at most, counted.
LEMMA AtMostOne ==
  ASSUME NEW S, \A x, y \in S : x = y
  PROVE  IF S = {} THEN Cardinality(S) = 0 ELSE Cardinality(S) = 1
<1>1. CASE S = {} BY <1>1, FS_EmptySet
<1>2. CASE S # {}
  <2>1. PICK x \in S : TRUE BY <1>2
  <2>2. S = {x} BY <2>1
  <2> QED BY <1>2, <2>2, FS_Singleton
<1> QED BY <1>1, <1>2

\* No promise is set twice or lost: a request is in one place at a time.
THEOREM OneOwnerEach == Spec => []OneOwner
<1>1. IInv => OneOwner
  <2> SUFFICES ASSUME IInv PROVE OneOwner
    OBVIOUS
  <2> USE PoolAssumption DEF IInv, TypeOK, OwnerInv, QueueInv, JobInv, PlaceInv,
             Pushed, Outstanding
  <2>1. SUFFICES ASSUME NEW a \in Agents
        PROVE LET queues  == {k \in Kinds : a \in ToSet(queue[k])}
                  workers == {w \in Workers : job[w] = a}
                  one(p) == IF p THEN 1 ELSE 0
              IN  /\ queues \subseteq {kind[a]}
                  /\ Cardinality(queues) + Cardinality(workers)
                       + one(pc[a] = "push") + one(a \in ready)
                     = one(Outstanding(a))
    BY DEF OneOwner
  <2> DEFINE queues  == {k \in Kinds : a \in ToSet(queue[k])}
             workers == {w \in Workers : job[w] = a}
  <2>3. queues \subseteq {kind[a]} OBVIOUS
  <2>4. a # Nobody BY DEF Nobody
  <2>2. \A c, d \in queues : c = d BY <2>3
  <2> HIDE DEF queues
  <2>5. IF queues = {} THEN Cardinality(queues) = 0 ELSE Cardinality(queues) = 1
    BY <2>2, AtMostOne
  <2>6. \A v, w \in workers : v = w BY <2>4
  <2> HIDE DEF workers
  <2>7. IF workers = {} THEN Cardinality(workers) = 0
        ELSE Cardinality(workers) = 1
    BY <2>6, AtMostOne
  <2>8. kind[a] \in Kinds OBVIOUS
  <2>9. queues # {} => Pushed(a) /\ a \notin ready /\ workers = {}
    BY DEF workers, queues
  <2>10. workers # {} => Pushed(a) /\ a \notin ready
    BY <2>4 DEF workers
  <2>11. a \in ready => Pushed(a) OBVIOUS
  <2>12. Pushed(a) => a \in ready \/ workers # {} \/ queues # {}
    BY <2>8 DEF workers, queues
  <2>13. CASE pc[a] = "push"
    <3>1. queues = {} /\ workers = {} /\ a \notin ready
      BY <2>9, <2>10, <2>11, <2>13
    <3> QED BY <2>3, <2>5, <2>7, <2>13, <3>1 DEF queues, workers
  <2>14. CASE Pushed(a)
    BY <2>3, <2>5, <2>7, <2>9, <2>10, <2>12, <2>14 DEF queues, workers
  <2>15. CASE ~Outstanding(a)
    <3>1. queues = {} /\ workers = {} /\ a \notin ready
      BY <2>9, <2>10, <2>11, <2>15
    <3> QED BY <2>3, <2>5, <2>7, <2>15, <3>1 DEF queues, workers
  <2> QED BY <2>13, <2>14, <2>15
<1> QED BY Invariance, <1>1, PTL
=============================================================================
