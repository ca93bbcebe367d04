----------------------------- MODULE ToolLoading ------------------------------
(***************************************************************************)
(* Which MCP tools a model is offered: the catalog a turn pins while the     *)
(* registry's goes on changing, deferral behind tool_search, the tools       *)
(* loaded by a search or by use, and their eviction between turns.           *)
(* src/core/agent/agent.cpp (step_tools .. dispatch_call),                  *)
(* src/core/mcp/catalog.cpp (LoadedTools), src/core/mcp/tool_search.cpp.     *)
(***************************************************************************)
EXTENDS Naturals, SequencesExt, FiniteSets

CONSTANTS
    Servers,
    Tools,        \* <<server, name>>
    AlwaysLoad,   \* tools whose server is configured always_load
    MaxDirect,    \* more tools than this are deferred
    MaxLoaded,    \* kMaxLoadedMcpTools, kept between turns
    MaxSelect,    \* kMaxLimit, kMaxSelect
    MaxSearches,  \* kMaxToolSearchCalls
    MaxTurns,     \* bound: turns
    MaxSteps,     \* max_steps
    MaxChanges    \* bound: changes of the registry

VARIABLES
    live,         \* Toolbox::snapshot(): server -> its state
    pinned,       \* mTurnCatalog
    mNames,       \* LoadedTools: in load order
    lru,          \* the same names, least recently used first
    mMcpDeferred, mMcpSchemasFailed, mToolSearchCalls,
    place, step, turn,
    offered,      \* the MCP tools of the last request's tools array
    searchable,   \* tool_search was in it
    promised,     \* "callable from your next step": loaded by this step's calls
    usedIn,       \* the turn in which each tool was last loaded or called
    changes
vars == <<live, pinned, mNames, lru, mMcpDeferred, mMcpSchemasFailed,
          mToolSearchCalls, place, step, turn, offered, searchable, promised,
          usedIn, changes>>
loadedVars == <<mNames, lru>>
turnVars == <<mMcpSchemasFailed, mToolSearchCalls>>

NoCatalog == [s \in Servers |-> "none"]
InCatalog(c) == {t \in Tools : c[t[1]] = "connected"}
Connecting(c) == \E s \in Servers : c[s] = "connecting"

\* The setting "auto": too many tools, or too many tokens of them.
Defers(count) == count > MaxDirect

\* mcp_would_defer: always-loaded tools do not count.
WouldDefer(c) == Defers(Cardinality(InCatalog(c) \ AlwaysLoad))

\* What one search may load: nothing when no tool matches, a name is ambiguous or
\* unknown, or the query is empty; never more than the limit.
Loadable(c) == {T \in SUBSET InCatalog(c) : Cardinality(T) <= MaxSelect}

Init ==
    /\ live \in [Servers -> {"connecting", "connected"}]
    /\ pinned = NoCatalog /\ mNames = <<>> /\ lru = <<>>
    /\ mMcpDeferred = FALSE /\ mMcpSchemasFailed = FALSE /\ mToolSearchCalls = 0
    /\ place = "idle" /\ step = 0 /\ turn = 0
    /\ offered = {} /\ searchable = FALSE /\ promised = {}
    /\ usedIn = [t \in Tools |-> 0] /\ changes = 0

\* A server connects, fails or is connected again, at any time.
RegistryChanges ==
    /\ changes < MaxChanges /\ changes' = changes + 1
    /\ \E s \in Servers : \E st \in {"connecting", "connected", "failed"} \ {live[s]} :
          live' = [live EXCEPT ![s] = st]
    /\ UNCHANGED <<pinned, loadedVars, usedIn, mMcpDeferred, turnVars, place, step, turn,
                   offered, searchable, promised>>

\* What is of T in a list, in the list's order.
Among(list, T) ==
    FlattenSeq([i \in DOMAIN list |-> IF list[i] \in T THEN <<list[i]>> ELSE <<>>])

\* LoadedTools::add, for every tool of T in some order.
Load(T) ==
    \E order \in SetToSeqs(T) :
        /\ mNames' = mNames \o Among(order, T \ ToSet(mNames))
        /\ lru' = Among(lru, Tools \ T) \o order

\* Fault: a call does not count as a use.
TouchNothing(t) == UNCHANGED loadedVars

\* LoadedTools::touch.
Touch(t) ==
    /\ UNCHANGED mNames
    /\ lru' = IF t \in ToSet(mNames) THEN Append(Among(lru, Tools \ {t}), t) ELSE lru

Used(T) == usedIn' = [t \in Tools |-> IF t \in T THEN turn ELSE usedIn[t]]

\* Fault: what is evicted keeps its name in the list.
EvictFromTheOrder(c) ==
    /\ lru' = Among(lru, InCatalog(c))
    /\ UNCHANGED mNames

\* LoadedTools::evict: what the catalog lost, then the least recently used, until the
\* rest is few enough and, which may take more of them, small enough.
Evict(c) ==
    LET known == Among(lru, InCatalog(c))
    IN \E left \in 0..Len(known) :
          /\ left <= MaxLoaded
          /\ lru' = SubSeq(known, Len(known) - left + 1, Len(known))
          /\ mNames' = Among(mNames, ToSet(lru'))

\* begin_mcp_turn: pins the catalog; deferral is sticky.
BeginTurn ==
    /\ place = "idle" /\ turn < MaxTurns
    /\ turn' = turn + 1 /\ step' = 0 /\ place' = "step"
    /\ pinned' = live /\ Evict(live)
    /\ mMcpDeferred' = (mMcpDeferred \/ WouldDefer(live))
    /\ mMcpSchemasFailed' = FALSE /\ mToolSearchCalls' = 0
    /\ promised' = {}
    /\ UNCHANGED <<live, offered, searchable, usedIn, changes>>

\* Fault: every step takes a fresh snapshot.
LiveCatalog == live

StepCatalog == pinned

\* step_tools: one catalog serves the tools array and the system prompt.
OfferedTools ==
    LET c == StepCatalog
    IN IF mMcpSchemasFailed THEN {}
       ELSE IF mMcpDeferred \/ WouldDefer(c)
            THEN InCatalog(c) \cap (AlwaysLoad \cup ToSet(mNames))
            ELSE InCatalog(c)

OffersSearch ==
    /\ ~mMcpSchemasFailed /\ (mMcpDeferred \/ WouldDefer(StepCatalog))
    /\ \/ InCatalog(StepCatalog) \ (AlwaysLoad \cup ToSet(mNames)) # {}
       \/ Connecting(StepCatalog)

Request ==
    /\ place = "step" /\ step < MaxSteps
    /\ step' = step + 1 /\ place' = "model"
    /\ offered' = OfferedTools /\ searchable' = OffersSearch
    /\ UNCHANGED <<live, pinned, loadedVars, usedIn, mMcpDeferred, turnVars, turn,
                   promised, changes>>

\* Ollama rejects a schema: the same step again, without any of MCP's.
SchemasRejected ==
    /\ place = "model" /\ (offered # {} \/ searchable)
    /\ mMcpSchemasFailed' = TRUE /\ offered' = {} /\ searchable' = FALSE
    /\ UNCHANGED <<live, pinned, loadedVars, usedIn, mMcpDeferred, mToolSearchCalls,
                   place, step, turn, promised, changes>>

\* The turn ends with an answer, an error or at the step limit; the pin is dropped.
EndTurn ==
    /\ place = "model" \/ (place = "step" /\ step = MaxSteps)
    /\ place' = "idle" /\ pinned' = NoCatalog
    /\ UNCHANGED <<live, loadedVars, usedIn, mMcpDeferred, turnVars, step, turn, offered,
                   searchable, promised, changes>>

\* tool_search: waits for servers about to be ready and pins what it then sees, at
\* most five seconds later; loads what the query matches, or nothing.  The call is not
\* refused when the tool was not offered.
ToolSearch ==
    /\ place = "model" /\ place' = "step" /\ mToolSearchCalls' = mToolSearchCalls + 1
    /\ IF mToolSearchCalls >= MaxSearches
       THEN UNCHANGED <<pinned, loadedVars, usedIn>> /\ promised' = {}
       ELSE /\ pinned' = IF Connecting(pinned) THEN live ELSE pinned
            /\ \E T \in Loadable(pinned') : Load(T) /\ Used(T) /\ promised' = T
    /\ UNCHANGED <<live, mMcpDeferred, mMcpSchemasFailed, step, turn, offered,
                   searchable, changes>>

\* The tools a bare name may mean: run_mcp_tool only when there is exactly one.
Resolve(name) == {t \in InCatalog(pinned) : t[2] = name}

\* run_mcp_tool: a deferred tool called unloaded is loaded on first use.
RunMcpTool(t) ==
    /\ Used({t})
    /\ IF t \in InCatalog(pinned) /\ mMcpDeferred /\ t \notin AlwaysLoad
          /\ t \notin ToSet(mNames)
       THEN Load({t}) /\ promised' = {t}
       ELSE Touch(t) /\ promised' = {}

CallTool ==
    /\ place = "model" /\ place' = "step"
    /\ \/ \E t \in Tools : RunMcpTool(t)
       \/ \E name \in {t[2] : t \in Tools} :
             \/ \E t \in Tools : Resolve(name) = {t} /\ RunMcpTool(t)
             \/ Cardinality(Resolve(name)) # 1 /\ promised' = {} /\ UNCHANGED <<loadedVars, usedIn>>
    /\ UNCHANGED <<live, pinned, mMcpDeferred, turnVars, step, turn, offered,
                   searchable, changes>>

Reset ==
    /\ place = "idle" /\ mNames # <<>>
    /\ mNames' = <<>> /\ lru' = <<>> /\ mMcpDeferred' = FALSE
    /\ UNCHANGED <<live, pinned, turnVars, place, step, turn, offered, searchable,
                   promised, usedIn, changes>>

Next ==
    \/ RegistryChanges \/ BeginTurn \/ Request \/ SchemasRejected \/ EndTurn
    \/ ToolSearch \/ CallTool \/ Reset

Spec == Init /\ [][Next]_vars

TypeOK ==
    /\ ToSet(mNames) = ToSet(lru) /\ Len(mNames) = Len(lru)
    /\ lru \in Seq(Tools) /\ offered \subseteq Tools
    /\ place \in {"idle", "step", "model"} /\ step \in 0..MaxSteps
    /\ mToolSearchCalls <= MaxSearches + MaxSteps

\* A search or a first use says the tool is callable from the next step, and it is,
\* whatever the registry's servers did meanwhile: the request and the search read one
\* pinned catalog.
PromiseKept ==
    place = "model" /\ mMcpDeferred /\ ~mMcpSchemasFailed => promised \subseteq offered

\* Eviction between turns drops, of the tools still there, those unused the longest.
OldestGoFirst ==
    BeginTurn =>
        \A t \in (ToSet(mNames) \ ToSet(mNames')) \cap InCatalog(live), u \in ToSet(mNames') :
            usedIn[t] <= usedIn[u]

-----------------------------------------------------------------------------
(* Why they hold.                                                          *)

\* Both lists name each loaded tool once, and lru has them in the order of their use.
LoadedInv ==
    /\ mNames \in Seq(Tools) /\ turn \in Nat /\ usedIn \in [Tools -> 0..turn]
    /\ \A i, j \in DOMAIN mNames : i < j => mNames[i] # mNames[j]
    /\ \A i, j \in DOMAIN lru : i < j => lru[i] # lru[j] /\ usedIn[lru[i]] <= usedIn[lru[j]]

\* A step has one search at most, so their number stays below the steps'.
SearchInv == mToolSearchCalls \in 0..step /\ (place = "model" => mToolSearchCalls < step)

\* What is promised within a turn is loaded, and of the catalog the turn has pinned.
PromiseInv ==
    /\ place # "idle" => promised \subseteq InCatalog(pinned) \cap ToSet(mNames)
    /\ PromiseKept

IInv == TypeOK /\ LoadedInv /\ SearchInv /\ PromiseInv
=============================================================================
