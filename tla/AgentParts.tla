----------------------------- MODULE AgentParts -----------------------------
(***************************************************************************)
(* What the agents of m8, sp and m8trixsh keep and are seen by: the           *)
(* memories, the files of the sessions, the locks of a vector store, a turn   *)
(* and the tools it is offered, the two kinds of shell and the index of       *)
(* commands, and the screens.  A behaviour is one of a single part; the       *)
(* memories keep the variables they declare, and the others are held in       *)
(* v1 .. v17, in the order they declare them.                               *)
(***************************************************************************)
EXTENDS MemoryStore, Sequences

CONSTANTS
    Writers, SessionIds, MaxStores,             \* sessions: processes that save
    Threads, DocIds, Stripe, MaxVersion,        \* locks: documents and their key locks
    Servers, Tools, AlwaysLoad, MaxDirect, MaxLoaded, MaxSelect,     \* loading
    MaxSearches, MaxSteps, MaxToolTurns, MaxChanges,
    ServerOrder, ToolLists, Sanitized,          \* catalog: its Servers
    Words, Longer, Indexed, MaxWords,           \* and the search in one
    Skills, Within, MaxReply, MaxMessages,      \* turn: its MaxCalls
    MaxCommands, MaxShells,                     \* bash, bounds: calls, shells started
    Callers, MaxInstalls, MaxScans, Tokens, MaxTokens,   \* commands: its MaxVersion
    Askers, NoOne, MaxToggles, MaxQuestions, MaxLines,   \* m8trixsh: agents that ask
    Messages, Slashes, TurnSlashes, MaxHistory, MaxAsked, MaxSent,   \* input
    Root, Subs, MemoryOps, MaxTurns, MaxSummaries,                   \* view
    ScrollbackLimit, MaxRows, MaxPushed         \* terminal

ASSUME PartsAssumption ==
    /\ {MaxStores, MaxVersion, MaxCommands, MaxShells} \subseteq Nat
    /\ {ScrollbackLimit, MaxRows, MaxPushed} \subseteq Nat
    /\ MaxRows > 0 /\ DocIds # {} /\ NoOne \notin Askers
    /\ Root \notin Subs /\ IsFiniteSet(MemoryOps)
    /\ {MaxDocs, MaxRecalls} \subseteq Nat /\ IsFiniteSet(Agents)

ASSUME TurnsAssumption ==
    /\ {MaxLoaded, MaxSearches, MaxSteps, MaxTurns, MaxReply} \subseteq Nat
    /\ IsFiniteSet(Tools)
    /\ LET names == {Skills[i] : i \in DOMAIN Skills}
       IN Skills \in Seq(names) /\ "none" \notin names

ASSUME CatalogAssumption ==
    LET names == {ServerOrder[i] : i \in DOMAIN ServerOrder}
    IN /\ ServerOrder \in Seq(names)
       /\ \A s \in names : ToolLists[s] \subseteq Seq(DOMAIN Sanitized)

ASSUME SearchAssumption ==
    /\ IsFiniteSet(Callers) /\ Callers \cap {"rescan", "free"} = {}
    /\ MaxInstalls \in Nat \ {0}

VARIABLES part, v1, v2, v3, v4, v5, v6, v7, v8, v9, v10, v11, v12, v13, v14, v15,
          v16, v17

From16 == <<v16, v17>>
From14 == <<v14, v15, From16>>
From13 == <<v13, From14>>
From10 == <<v10, v11, v12, From13>>
From9 == <<v9, From10>>
From8 == <<v8, From9>>
From7 == <<v7, From8>>
From6 == <<v6, From7>>
From4 == <<v4, v5, From6>>
From3 == <<v3, From4>>
From1 == <<v1, v2, From3>>
all == <<part, vars, From1>>

Idle16 == v16 = 0 /\ v17 = 0
Idle14 == v14 = 0 /\ v15 = 0 /\ Idle16
Idle13 == v13 = 0 /\ Idle14
Idle10 == v10 = 0 /\ v11 = 0 /\ v12 = 0 /\ Idle13
Idle9 == v9 = 0 /\ Idle10
Idle8 == v8 = 0 /\ Idle9
Idle7 == v7 = 0 /\ Idle8
Idle6 == v6 = 0 /\ Idle7
Idle4 == v4 = 0 /\ v5 = 0 /\ Idle6
Idle3 == v3 = 0 /\ Idle4
Idle1 == v1 = 0 /\ v2 = 0 /\ Idle3

-----------------------------------------------------------------------------
(* On disk.                                                                *)

Sessions == INSTANCE SessionStore WITH
    Ids <- SessionIds,
    file <- v1, mtime <- v2, clock <- v3, writing <- v4, begun <- v5, finished <- v6,
    picked <- v7, loaded <- v8

Locks == INSTANCE VectorLocks WITH
    Ids <- DocIds,
    thread <- v1, meta <- v2, logged <- v3, dirty <- v4, live <- v5

-----------------------------------------------------------------------------
(* A turn.                                                                 *)

Turn == INSTANCE AgentTurn WITH
    MaxCalls <- MaxReply,
    mTranscript <- v1, calls <- v2, place <- v3, step <- v4, turn <- v5, mSessionId <- v6,
    files <- v7, unloaded <- v8

Loading == INSTANCE ToolLoading WITH
    MaxTurns <- MaxToolTurns,
    live <- v1, pinned <- v2, mNames <- v3, lru <- v4, mMcpDeferred <- v5,
    mMcpSchemasFailed <- v6, mToolSearchCalls <- v7, place <- v8, step <- v9, turn <- v10,
    offered <- v11, searchable <- v12, promised <- v13, usedIn <- v14, changes <- v15

Catalog == INSTANCE ToolCatalog WITH
    Servers <- ServerOrder,
    tools <- v1, snapshot <- v2, offered <- v3, ran <- v4,
    docs <- v5, query <- v6, hits <- v7, done <- v8

-----------------------------------------------------------------------------
(* The shells.                                                             *)

Repl == INSTANCE BashRepl WITH
    MaxCalls <- MaxCommands,
    caller <- v1, calls <- v2, timeout <- v3, child <- v4, shell <- v5, stdin <- v6,
    stdout <- v7, held <- v8, doomed <- v9, command <- v10, outcome <- v11, believed <- v12

Shell == INSTANCE ShellSession WITH
    child <- v1, tty <- v2, reader <- v3, owner <- v4, stop <- v5, status <- v6, exits <- v7,
    stray <- v8

\* The index of the commands a shell has.
BashIndex == INSTANCE BashSearch WITH
    MaxVersion <- MaxInstalls,
    query <- v1, result <- v2, installed <- v3, ram <- v4, loaded <- v5, mutex <- v6, at <- v7,
    fresh <- v8, files <- v9, tmp <- v10, index <- v11, out <- v12, servedAt <- v13,
    scans <- v14, ending <- v15

-----------------------------------------------------------------------------
(* The screens.                                                            *)

View == INSTANCE Transcript WITH
    Ops <- MemoryOps,
    app <- v1, above <- v2, marked <- v3, containers <- v4, nodes <- v5, running <- v6,
    turnLive <- v7, opLive <- v8, waiting <- v9, act <- v10, missed <- v11, op <- v12,
    posting <- v13, inFlight <- v14, leaving <- v15, turns <- v16, summaries <- v17

Trixsh == INSTANCE M8trixsh WITH
    mode <- v1, file <- v2, writing <- v3, redraws <- v4, tag <- v5, want_prompt_redraw <- v6,
    submitted_lines <- v7, pending_prompt <- v8, promise <- v9, parked <- v10,
    ai_turn_running <- v11, turnLive <- v12, state <- v13, toggles <- v14, questions <- v15,
    lines <- v16

Input == INSTANCE InputBox WITH
    Commands <- Slashes, TurnCommands <- TurnSlashes, MaxQuestions <- MaxAsked,
    input <- v1, history <- v2, index <- v3, draft <- v4, busy <- v5, shown <- v6,
    asked <- v7, answering <- v8, answerBox <- v9, given <- v10, live <- v11, sent <- v12

Terminal == INSTANCE TerminalView WITH
    MaxLines <- MaxPushed,
    mScrollback <- v1, mViewOffset <- v2, mRows <- v3, mGrid <- v4, mGridDirty <- v5,
    mOscAccum <- v6, command <- v7, handed <- v8, pushed <- v9

-----------------------------------------------------------------------------
PartInit ==
    /\ Init
    /\ part # "memories" => width = 0
    /\ \/ part = "memories" /\ Idle1
       \/ part = "sessions" /\ Sessions!Init /\ Idle9
       \/ part = "locks" /\ Locks!Init /\ Idle6
       \/ part = "turn" /\ Turn!Init /\ Idle9
       \/ part = "loading" /\ Loading!Init /\ Idle16
       \/ part = "catalog" /\ Catalog!CatalogInit /\ v5 = 0 /\ Idle6
       \/ part = "bash" /\ Repl!Init /\ Idle13
       \/ part = "shell" /\ Shell!Init /\ Idle9
       \/ part = "commands" /\ v1 = 0 /\ v2 = 0 /\ BashIndex!IndexInit /\ Idle16
       \/ part = "view" /\ View!Init
       \/ part = "m8trixsh" /\ Trixsh!Init /\ v17 = 0
       \/ part = "input" /\ Input!Init /\ Idle13
       \/ part = "terminal" /\ Terminal!Init /\ Idle10

\* A step of a part leaves the variables it does not use alone.
ReplIs(A) == part = "bash" /\ A /\ UNCHANGED <<part, vars, From13>>
ShellIs(A) == part = "shell" /\ A /\ UNCHANGED <<part, vars, From9>>

PartNext ==
    \/ part = "memories" /\ Next /\ UNCHANGED <<part, From1>>
    \/ ReplIs(Repl!Next) \/ ShellIs(Shell!Next)
    \/ /\ UNCHANGED <<part, vars>>
       /\ \/ part = "sessions" /\ Sessions!Next /\ UNCHANGED From9
          \/ part = "locks" /\ Locks!Next /\ UNCHANGED From6
          \/ part = "turn" /\ Turn!Next /\ UNCHANGED From9
          \/ part = "loading" /\ Loading!Next /\ UNCHANGED From16
          \/ part = "catalog" /\ Catalog!CatalogNext /\ UNCHANGED <<v5, From6>>
          \/ part = "commands" /\ BashIndex!IndexNext /\ UNCHANGED <<v1, v2, From16>>
          \/ part = "view" /\ View!Next
          \/ part = "m8trixsh" /\ Trixsh!Next /\ UNCHANGED v17
          \/ part = "input" /\ Input!Next /\ UNCHANGED From13
          \/ part = "terminal" /\ Terminal!Next /\ UNCHANGED From10

PartSpec == PartInit /\ [][PartNext]_all

-----------------------------------------------------------------------------
\* Every part keeps to its types.
Types ==
    /\ TypeOK
    /\ part = "locks" => Locks!TypeOK
    /\ part = "turn" => Turn!TypeOK
    /\ part = "loading" => Loading!TypeOK
    /\ part = "bash" => Repl!TypeOK
    /\ part = "shell" => Shell!TypeOK
    /\ part = "commands" => BashIndex!TypeOK
    /\ part = "view" => View!TypeOK
    /\ part = "m8trixsh" => Trixsh!TypeOK
    /\ part = "terminal" => Terminal!TypeOK

\* What is stored agrees with itself, whoever uses it at once: no deferred change
\* is lost and nobody waits in a circle; the last session loads as its store left it, whole
\* if that came to its end; the memories of a file are of one width, and none is
\* answered once forgotten; the index of commands is refreshed behind who was answered
\* from it, and its worker neither writes nor swaps it at the exit.
StoresAgree ==
    /\ MemoriesAreRight
    /\ part = "locks" => Locks!DeferredIsKept /\ Locks!NoCircularWait
    /\ part = "sessions" => Sessions!LatestIsTheLast
    /\ part = "commands" => BashIndex!RefreshedBehindTheCaller /\ BashIndex!ExitIsQuiet

\* A turn does what the model is told: whenever the model is asked, every call has its
\* answer and every answer its call, a skill that is unloaded leaves nothing, a tool
\* that was promised is offered, and every tool of a catalog is found by its own name.
TurnsAreRight ==
    /\ part = "turn" => Turn!CallsAreAnswered /\ Turn!UnloadForgetsAll
    /\ part = "loading" => Loading!PromiseKept
    /\ part = "catalog" => Catalog!EveryToolIsFound

\* A shell that is lost is told of, whether it dies, is replaced or is stopped; no
\* signal goes to a process that is not the child any more, and an end is reported once.
ShellsAreAccountedFor ==
    /\ part = "bash" => Repl!LossIsTold
    /\ part = "shell" => Shell!NoStraySignal

\* What the screen shows is there and is the person's: what events are shown in
\* exists, the prompt tells the mode, commands come whole, a draft survives and
\* an answer goes to the question it was typed for.
ScreenIsRight ==
    /\ part = "view" =>
          View!RoutesAreLive /\ View!GridIsNotStranded /\ View!FrameOutlivesThreads
    /\ part = "m8trixsh" => Trixsh!TagSettles
    /\ part = "terminal" => Terminal!CommandsComeWhole
    /\ part = "input" => Input!DraftIsKept /\ Input!AnswersItsQuestion

\* What a step of a part may not do: unload a tool used later than one it keeps, answer
\* a command by another's end, move what is read while output comes, or reset while
\* somebody works.
StepIsRight ==
    /\ part = "loading" => Loading!OldestGoFirst
    /\ part = "bash" => Repl!OutcomeIsOwn
    /\ part = "terminal" => Terminal!ViewStaysPut
    /\ part = "view" => View!ResetOnlyWhenQuiet
=============================================================================
