----------------------------- MODULE McpClient -----------------------------
(***************************************************************************)
(* One MCP client used by several agents at once: restarting a server that  *)
(* died, under a budget; requests, their resending, and the rounds of a call *)
(* that needs input; the listener's open stream; closing.                   *)
(* src/core/mcp/client.cpp.                                                 *)
(*                                                                         *)
(* A transport is single use; it is destroyed, and its server closed, when   *)
(* the last shared_ptr to it goes.  A step is what mMutex covers, one         *)
(* message, or a wait.  The handshake is one step here (McpHandshake).       *)
(***************************************************************************)
EXTENDS Naturals, FiniteSets

CONSTANTS
    Callers, Nobody,
    MaxRestarts,    \* max_restarts
    MaxRounds,      \* kMaxInputRounds; kMaxPages for a list
    MaxTransports,  \* bound: transports ever made
    MaxCalls,       \* bound: calls begun
    MaxAged         \* bound: restarts that leave restart_window

ASSUME ClientAssumption ==
    /\ IsFiniteSet(Callers) /\ Nobody \notin Callers
    /\ {MaxRestarts, MaxCalls, MaxAged} \subseteq Nat
    /\ {MaxRounds, MaxTransports} \subseteq Nat \ {0}

Transports == 1..MaxTransports
NoTransport == 0

VARIABLES
    transport,      \* each transport: none, up, dead (server gone), closing
    protocol,       \* mOptions.protocol: "auto" over stdio; "legacy" once
                    \* connect() fell back to it; "other", where it never will
    mTransport, mConnecting, mConnections, mClosing, mRestarts,
    connectMutex,   \* holder of mConnectMutex
    pc, using,      \* each caller, and the transport its locals hold
    call,           \* its call: resends, round, times a server ran the request,
                    \* its session was lost after that
    listener, lUsing, lSeen,  \* listen_loop: where, its transport, its connection
    calls, aged

connVars == <<transport, protocol, mTransport, mConnecting, mConnections, mRestarts>>
listenVars == <<listener, lUsing, lSeen>>
counters == <<calls, aged>>
vars == <<connVars, mClosing, connectMutex, pc, using, call, listenVars, counters>>

Up(t) == t # NoTransport /\ transport[t] = "up"
Held(t) == t \in {mTransport, mConnecting, lUsing} \cup {using[c] : c \in Callers}
Running(t) == Up(t) /\ Held(t)

NoCall == [attempt |-> 0, round |-> 0, ran |-> 0, lost |-> FALSE]

\* connect() has succeeded once: the registry lists tools before anybody calls.
\* A fallback that took is over, and counts as a protocol that is not "auto".
Init ==
    /\ transport = [t \in Transports |-> IF t = 1 THEN "up" ELSE "none"]
    /\ protocol \in {"auto", "other"}
    /\ mTransport = 1 /\ mConnecting = NoTransport /\ mConnections = 1
    /\ mClosing = FALSE /\ mRestarts = 0 /\ connectMutex = Nobody
    /\ pc = [c \in Callers |-> "idle"]
    /\ using = [c \in Callers |-> NoTransport]
    /\ call = [c \in Callers |-> NoCall]
    /\ listener = "top" /\ lUsing = NoTransport /\ lSeen = 0
    /\ calls = 0 /\ aged = 0

Go(c, where) == pc' = [pc EXCEPT ![c] = where]
Use(c, t) == using' = [using EXCEPT ![c] = t]
Return(c) == Go(c, "idle") /\ Use(c, NoTransport) /\ call' = [call EXCEPT ![c] = NoCall]

Ask(c, request) ==
    /\ call' = [call EXCEPT ![c] = request]
    /\ Go(c, "check") /\ Use(c, NoTransport)

\* A new request, of the next round.
Begin(c, round) == Ask(c, [NoCall EXCEPT !.round = round])

\* The same request once more.
Again(c, lost) == Ask(c, [call[c] EXCEPT !.attempt = 1, !.lost = lost])

Call(c) ==
    /\ pc[c] = "idle" /\ calls < MaxCalls
    /\ calls' = calls + 1
    /\ Begin(c, 1)
    /\ UNCHANGED <<connVars, mClosing, connectMutex, listenVars, aged>>

----------------------------------------------------------------------------
\* ensure_connected(), and connect() behind it.

\* request(): on the transport of the moment; a dead one answers at once.
Send(c) ==
    IF Up(mTransport) THEN Use(c, mTransport) /\ Go(c, "wait") /\ UNCHANGED call
    ELSE Return(c)

\* Fault: a server is restarted however often it stopped.
MayAlwaysRestart == TRUE
MayRestart == mRestarts < MaxRestarts

EnsureConnected(c) ==
    /\ pc[c] = "check"
    /\ CASE mClosing -> Return(c) /\ UNCHANGED mRestarts
         [] ~mClosing /\ Up(mTransport) -> Send(c) /\ UNCHANGED mRestarts
         [] ~mClosing /\ ~Up(mTransport) /\ ~MayRestart ->
              Return(c) /\ UNCHANGED mRestarts
         [] OTHER -> /\ mRestarts' = mRestarts + 1
                     /\ Go(c, "connect") /\ UNCHANGED <<using, call>>
    /\ UNCHANGED <<transport, protocol, mTransport, mConnecting, mConnections,
                   mClosing, connectMutex, listenVars, counters>>

RestartAges ==
    /\ mRestarts > 0 /\ aged < MaxAged
    /\ mRestarts' = mRestarts - 1 /\ aged' = aged + 1
    /\ UNCHANGED <<transport, protocol, mTransport, mConnecting, mConnections,
                   mClosing, connectMutex, pc, using, call, listenVars, calls>>

LockConnect(c) ==
    /\ pc[c] = "connect" /\ connectMutex = Nobody
    /\ IF mClosing THEN Return(c) /\ UNCHANGED connectMutex
       ELSE connectMutex' = c /\ Go(c, "start") /\ UNCHANGED <<using, call>>
    /\ UNCHANGED <<connVars, mClosing, listenVars, counters>>

Connecting == {"start", "shake", "startLegacy", "shakeLegacy"}

\* make_transport and start(), which may fail; then closing is looked at again.
\* The second time round the handshake is to be the legacy one, from here on.
Start(c) ==
    /\ pc[c] \in {"start", "startLegacy"}
    /\ \/ \E t \in Transports :
             /\ transport[t] = "none" /\ \A u \in 1..(t - 1) : transport[u] # "none"
             /\ IF mClosing
                THEN /\ transport' = [transport EXCEPT ![t] = "closing"]
                     /\ Return(c) /\ connectMutex' = Nobody
                     /\ UNCHANGED <<protocol, mConnecting>>
                ELSE /\ transport' = [transport EXCEPT ![t] = "up"]
                     /\ mConnecting' = t /\ Use(c, t)
                     /\ protocol' = IF pc[c] = "startLegacy" THEN "legacy" ELSE protocol
                     /\ Go(c, IF pc[c] = "start" THEN "shake" ELSE "shakeLegacy")
                     /\ UNCHANGED <<connectMutex, call>>
       \/ /\ Return(c) /\ connectMutex' = Nobody
          /\ UNCHANGED <<transport, protocol, mConnecting>>
    /\ UNCHANGED <<mTransport, mConnections, mRestarts, mClosing, listenVars, counters>>

\* The server died on the probe: it is started once more and only told initialize.
CrashedOnProbe(c) ==
    pc[c] = "shake" /\ ~mClosing /\ ~Up(using[c]) /\ protocol = "auto"

\* The handshake's result: installed unless closing began meanwhile, even where the
\* server has died since it answered.
Shaken(c) ==
    /\ pc[c] \in {"shake", "shakeLegacy"}
    /\ mConnecting' = NoTransport
    /\ \/ /\ ~mClosing
          /\ mTransport' = using[c] /\ mConnections' = mConnections + 1
          /\ connectMutex' = Nobody
          /\ Go(c, "wait") /\ UNCHANGED <<transport, call, using>>
       \/ /\ transport' = [transport EXCEPT ![using[c]] = "closing"]
          /\ IF CrashedOnProbe(c)
             THEN Go(c, "startLegacy") /\ Use(c, NoTransport)
                  /\ UNCHANGED <<connectMutex, call>>
             ELSE Return(c) /\ connectMutex' = Nobody
          /\ UNCHANGED <<mTransport, mConnections>>
    /\ UNCHANGED <<protocol, mRestarts, mClosing, listenVars, counters>>

----------------------------------------------------------------------------
ServerRuns(c) ==
    /\ pc[c] = "wait" /\ Up(using[c])
    /\ call' = [call EXCEPT ![c].ran = @ + 1]
    /\ Go(c, "ran")
    /\ UNCHANGED <<connVars, mClosing, connectMutex, using, listenVars, counters>>

\* list_all(): the next page; call_with_input(): the input it asked for.
\* Either way a new request of the same method, up to MaxRounds times.
NextPage(c) == call[c].round < MaxRounds /\ Begin(c, call[c].round + 1)
AnswerInput(c) == call[c].round < MaxRounds /\ Begin(c, call[c].round + 1)

Replied(c) ==
    /\ pc[c] = "ran" /\ Up(using[c])
    /\ Return(c) \/ NextPage(c) \/ AnswerInput(c)
    /\ UNCHANGED <<connVars, mClosing, connectMutex, listenVars, counters>>

\* Fault: a request whose server died is sent again too.
ResendsAnything(c) ==
    /\ pc[c] \in {"wait", "ran"}
    /\ IF call[c].attempt = 0 THEN Again(c, FALSE) ELSE Return(c)
    /\ UNCHANGED <<connVars, mClosing, connectMutex, listenVars, counters>>

\* The server is gone, the client closes, or the deadline passes.
NoReply(c) ==
    /\ pc[c] \in {"wait", "ran"}
    /\ Return(c)
    /\ UNCHANGED <<connVars, mClosing, connectMutex, listenVars, counters>>

\* A legacy HTTP server forgot the session: the transport is done with, and the
\* request goes again, once.  It was not run where the POST said so; where a
\* resumed stream did (HttpTransport), it was.
SessionExpired(c) ==
    /\ pc[c] \in {"wait", "ran"} /\ Up(using[c])
    /\ transport' = [transport EXCEPT ![using[c]] = "dead"]
    /\ IF call[c].attempt = 0 THEN Again(c, pc[c] = "ran") ELSE Return(c)
    /\ UNCHANGED <<protocol, mTransport, mConnecting, mConnections, mRestarts, mClosing,
                   connectMutex, listenVars, counters>>

ServerStops(t) ==
    /\ Running(t)
    /\ transport' = [transport EXCEPT ![t] = "dead"]
    /\ UNCHANGED <<protocol, mTransport, mConnecting, mConnections, mRestarts, mClosing,
                   connectMutex, pc, using, call, listenVars, counters>>

----------------------------------------------------------------------------
\* Closing, and the listener.

ClosedAtOnce == {mTransport, mConnecting}

BeginClose ==
    /\ ~mClosing /\ mClosing' = TRUE
    /\ transport' = [t \in Transports |->
                       IF t \in ClosedAtOnce /\ Up(t) THEN "closing" ELSE transport[t]]
    /\ UNCHANGED <<protocol, mTransport, mConnecting, mConnections, mRestarts, connectMutex,
                   pc, using, call, listenVars, counters>>

\* A live connection to listen on, or the end.
ListenPick ==
    /\ listener = "top" /\ (mClosing \/ Up(mTransport))
    /\ IF mClosing THEN listener' = "ended" /\ UNCHANGED <<lUsing, lSeen>>
       ELSE /\ listener' \in {"listening", "nothing"}
            /\ lUsing' = mTransport
            /\ lSeen' = mConnections
    /\ UNCHANGED <<connVars, mClosing, connectMutex, pc, using, call, counters>>

\* The open request has no deadline: it ends with its transport or when closing
\* cancels it, or when the server ends it (refusing it, or for now).
ListenEnds ==
    /\ listener = "listening"
    /\ IF mClosing THEN listener' = "ended" /\ lUsing' = NoTransport /\ lSeen' = 0
       ELSE listener' \in {"pause", "nothing"} /\ UNCHANGED <<lUsing, lSeen>>
    /\ UNCHANGED <<connVars, mClosing, connectMutex, pc, using, call, counters>>

\* Fault: a listener with nothing to listen to sleeps through the shutdown.
ListenSleeps ==
    /\ \/ listener = "pause"
       \/ listener = "nothing" /\ mConnections # lSeen
    /\ listener' = "top" /\ lUsing' = NoTransport /\ lSeen' = 0
    /\ UNCHANGED <<connVars, mClosing, connectMutex, pc, using, call, counters>>

ListenAgain ==
    /\ \/ listener = "pause"
       \/ listener = "nothing" /\ (mConnections # lSeen \/ mClosing)
    /\ listener' = IF mClosing THEN "ended" ELSE "top"
    /\ lUsing' = NoTransport /\ lSeen' = 0
    /\ UNCHANGED << connVars, mClosing, connectMutex, pc, using, call, counters>>

CallerStep(c) ==
    EnsureConnected(c) \/ LockConnect(c) \/ Start(c) \/ Shaken(c) \/ NoReply(c)
ServerStep(c) == ServerRuns(c) \/ Replied(c) \/ SessionExpired(c)
ListenerStep == ListenPick \/ ListenAgain

Next ==
    \/ \E c \in Callers : Call(c) \/ CallerStep(c) \/ ServerStep(c)
    \/ \E t \in Transports : ServerStops(t)
    \/ ListenerStep \/ ListenEnds \/ RestartAges \/ BeginClose
Spec == Init /\ [][Next]_vars

\* Threads are scheduled; a request ends by its deadline at the latest, whether
\* the server answers or not; the open stream ends once its transport is gone or the client closes.
Fairness ==
    /\ \A c \in Callers : WF_vars(CallerStep(c))
    /\ WF_vars(ListenerStep)
    /\ WF_vars(ListenEnds /\ (mClosing \/ ~Up(lUsing)))
FairSpec == Spec /\ Fairness

----------------------------------------------------------------------------
TypeOK ==
    /\ transport \in [Transports -> {"none", "up", "dead", "closing"}]
    /\ protocol \in {"auto", "legacy", "other"}
    /\ {mTransport, mConnecting, lUsing} \subseteq 0..MaxTransports
    /\ mConnections \in Nat \ {0} /\ lSeen \in Nat
    /\ mClosing \in BOOLEAN /\ mRestarts \in 0..MaxRestarts
    /\ connectMutex \in Callers \cup {Nobody}
    /\ pc \in [Callers -> {"idle", "check", "connect", "wait", "ran"} \cup Connecting]
    /\ using \in [Callers -> 0..MaxTransports]
    /\ call \in [Callers -> [attempt : 0..1, round : 0..MaxRounds, ran : Nat, lost : BOOLEAN]]
    /\ listener \in {"top", "listening", "pause", "nothing", "ended"}
    /\ calls \in 0..MaxCalls /\ aged \in 0..MaxAged

\* A request is run at most once, through crashes, restarts and resends, with one
\* exception: a legacy HTTP session lost after the request was run, for which the
\* client sends it again (client.cpp:464) and it may run a second time, no more.
RunsOncePerSession == \A c \in Callers : call[c].ran <= (IF call[c].lost THEN 2 ELSE 1)

\* However many callers meet a dead server at once, it is started no oftener than
\* the budget has restarts, and one (re)connect runs at a time.  The exception is
\* one start more in a client's life: that of the fallback to the legacy
\* handshake, which connect() does not charge.
RestartsBudgeted ==
    /\ Cardinality({t \in Transports : transport[t] # "none"})
          <= 1 + MaxRestarts + aged + (IF protocol = "legacy" \/ mClosing THEN 1 ELSE 0)
    /\ \A c \in Callers : pc[c] \in Connecting => connectMutex = c
    /\ mConnecting # NoTransport =>
          \E c \in Callers : pc[c] \in {"shake", "shakeLegacy"} /\ using[c] = mConnecting

\* Every call comes back, whatever servers die meanwhile.
CallsReturn == \A c \in Callers : pc[c] # "idle" ~> pc[c] = "idle"

\* Once closing has begun every server is stopped and the listener ends, whatever
\* handshake or stream was under way.
CloseStopsServers ==
    mClosing ~> [](listener = "ended" /\ \A t \in Transports : ~Running(t))
=============================================================================
