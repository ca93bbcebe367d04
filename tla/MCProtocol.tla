----------------------------- MODULE MCProtocol -----------------------------
(***************************************************************************)
(* What lies between a call of an MCP tool and the server's process or URL: *)
(* the client, the handshake, the two transports, the start of a server's  *)
(* process.  Each is a machine of its own, seen by the others through the  *)
(* few calls its module describes, so a behaviour is one of a single part; *)
(* the client keeps the variables it declares, and the others are held in  *)
(* v1 .. v17, in the order they declare them.                              *)
(***************************************************************************)
EXTENDS McpClient

CONSTANTS
    Parts,          \* those a run takes
    MaxConnects,    \* handshake, bound: calls of connect()
    Requests,       \* stdio: the requests of the callers
    Timeout, MaxLifetime, MaxResumes,   \* of both transports; of HTTP
    MaxTime, MaxAsks,                   \* bounds of both: ticks, questions
    Spawned, Others    \* servers that are started, and other children

ASSUME ProtocolAssumption ==
    /\ {MaxConnects, Timeout, MaxLifetime, MaxResumes, MaxTime, MaxAsks} \subseteq Nat
    /\ MaxConnects > 0

VARIABLES part, v1, v2, v3, v4, v5, v6, v7, v8, v9, v10, v11, v12, v13, v14, v15, v16, v17

From14 == <<v14, v15, v16, v17>>
From7 == <<v7, v8, v9, v10, v11, v12, v13, From14>>
From6 == <<v6, From7>>
From1 == <<v1, v2, v3, v4, v5, From6>>
all == <<part, vars, From1>>

Idle14 == v14 = 0 /\ v15 = 0 /\ v16 = 0 /\ v17 = 0
Idle7 == v7 = 0 /\ v8 = 0 /\ v9 = 0 /\ v10 = 0 /\ v11 = 0 /\ v12 = 0 /\ v13 = 0 /\ Idle14
Idle6 == v6 = 0 /\ Idle7
Idle1 == v1 = 0 /\ v2 = 0 /\ v3 = 0 /\ v4 = 0 /\ v5 = 0 /\ Idle6

-----------------------------------------------------------------------------
Handshake == INSTANCE McpHandshake WITH
    opts <- v1, server <- v2, attempt <- v3, phase <- v4, discover <- v5, initialize <- v6,
    turn <- v7, era <- v8, dead <- v9, expired <- v10, connects <- v11, slow <- v12,
    accident <- v13

Stdio == INSTANCE StdioTransport WITH
    mPending <- v1, mOutbox <- v2, seen <- v3, reply <- v4, mClosing <- v5, mDead <- v6,
    io <- v7, server <- v8, worker <- v9, mInbox <- v10, asked <- v11, now <- v12,
    sentAt <- v13, deadline <- v14, mInteractionStarted <- v15, active <- v16,
    progressed <- v17

Http == INSTANCE HttpTransport WITH
    era <- v1, mSessionId <- v2, mClosing <- v3, mDead <- v4, request <- v5, server <- v6,
    worker <- v7, mInbox <- v8, asked <- v9, closer <- v10, closed <- v11, now <- v12,
    clock <- v13, mPaused <- v14, mInteractionStarted <- v15, quiet <- v16, total <- v17

\* With pipe2() and without; a spawn that closes every descriptor but three.
SomeBuilds ==
    [atomic : BOOLEAN, clears : {TRUE}] \cup {[atomic |-> TRUE, clears |-> FALSE]}

Process == INSTANCE SpawnProcess WITH
    Servers <- Spawned, Builds <- SomeBuilds,
    build <- v1, fds <- v2, at <- v3, child <- v4, other <- v5, kind <- v6

-----------------------------------------------------------------------------
RunInit ==
    /\ part \in Parts /\ Init
    /\ \/ part = "client" /\ Idle1
       \/ part = "handshake" /\ Handshake!Init /\ Idle14
       \/ part = "stdio" /\ Stdio!Init
       \/ part = "http" /\ Http!Init
       \/ part = "process" /\ Process!Init /\ Idle7

\* A step of a part leaves the variables it does not use alone.
ClientIs(A) == part = "client" /\ A /\ UNCHANGED <<part, From1>>
HandshakeIs(A) == part = "handshake" /\ A /\ UNCHANGED <<part, vars, From14>>
StdioIs(A) == part = "stdio" /\ A /\ UNCHANGED <<part, vars>>
HttpIs(A) == part = "http" /\ A /\ UNCHANGED <<part, vars>>
ProcessIs(A) == part = "process" /\ A /\ UNCHANGED <<part, vars, From7>>

RunNext ==
    \/ ClientIs(Next) \/ HandshakeIs(Handshake!Next) \/ StdioIs(Stdio!Next)
    \/ HttpIs(Http!Next) \/ ProcessIs(Process!Next)

\* The fairness each module states, of its own steps.  No behaviour changes its
\* part, so a step of one part and a step of another share a condition.
RunFairness ==
    /\ \A c \in Callers : WF_all(ClientIs(CallerStep(c)))
    /\ WF_all(\/ ClientIs(ListenerStep) \/ HandshakeIs(Handshake!ClientStep)
              \/ StdioIs(Stdio!IoStep) \/ HttpIs(Http!Local))
    /\ WF_all(\/ ClientIs(ListenEnds /\ (mClosing \/ ~Up(lUsing)))
              \/ HandshakeIs(Handshake!AnswerDiscover)
              \/ StdioIs(Stdio!WorkerStep) \/ HttpIs(Http!Worker))
    /\ WF_all(HandshakeIs(Handshake!AnswerInitialize))
    /\ WF_all(HandshakeIs(Handshake!FragileExits))

RunSpec == RunInit /\ [][RunNext]_all /\ RunFairness

-----------------------------------------------------------------------------
\* Every part keeps to its types.
Types ==
    /\ TypeOK
    /\ part = "handshake" => Handshake!TypeOK
    /\ part = "stdio" => Stdio!TypeOK
    /\ part = "http" => Http!TypeOK
    /\ part = "process" => Process!TypeOK

\* What an answer means is settled once and rightly: a tool call is run by a
\* server at most once through crashes, resends and resumed streams, and a second
\* time only where a session was lost after the first, between a stream and its
\* resumption; and the era chosen is one the server speaks.
OneMeaning ==
    /\ RunsOncePerSession
    /\ part = "http" => Http!RunsOnce
    /\ part = "handshake" => Handshake!SettledEraIsRight

\* When a server has ended nothing of it is left: no request that waits, no
\* process, no thread of ours, no copy of its pipes in another child that would keep it alive.
NothingIsLeft ==
    /\ part = "stdio" => Stdio!NothingLeftBehind
    /\ part = "http" => Http!ClosedIsQuiet
    /\ part = "process" => Process!StdinEnds /\ Process!NoDescriptorLeaks

\* Over either transport, a request's timeout is time in which no person was being
\* asked.  Its lifetime, which progress cannot outlast, is such time over HTTP and
\* time on the wall clock over stdio.
PeopleStopTheClock ==
    [][/\ part = "stdio" => Stdio!TimedOutForItsOwnTime
       /\ part = "http" => Http!TimedOutForItsOwnTime]_all

Begun == \/ part = "handshake" /\ Handshake!Calling
         \/ part = "stdio" /\ Stdio!Ending
         \/ part = "http" /\ Http!Closing
Over == \/ part = "handshake" /\ Handshake!Settled
        \/ part = "stdio" /\ Stdio!Ended
        \/ part = "http" /\ Http!IsClosed

\* Every connect(), call, request and close() comes to its end.
EverythingEnds == CallsReturn /\ CloseStopsServers /\ (Begun ~> Over)
=============================================================================
