---------------------------- MODULE McpRegistry -----------------------------
(***************************************************************************)
(* The MCP registry's bookkeeping for one server: its state, the client      *)
(* behind it, the connect and refresh tasks that race with the /mcp          *)
(* commands, the catalog snapshot the agents read, and shutdown.             *)
(* src/core/mcp/registry.cpp.                                               *)
(*                                                                         *)
(* A step is what one hold of mMutex covers; a call of a client lies between *)
(* two steps.  A client is named by the epoch of the connect that made it.   *)
(***************************************************************************)
EXTENDS Naturals, FiniteSets

CONSTANTS
    MaxEpoch,    \* bound: connects and disables
    MaxWorkers,  \* bound: refreshes and logins at once
    MaxCalls     \* bound: tool calls

ASSUME RegistryAssumption ==
    MaxEpoch \in Nat \ {0} /\ {MaxWorkers, MaxCalls} \subseteq Nat \ {0}

VARIABLES
    state, enabled, approved,   \* ServerState; McpState, TrustStore
    epoch, client, connecting,  \* Server: 0 is no client
    tools, cached, refreshing,  \* there is a list to show; from the cache
    mShutdown, mSnapshot,
    proc,                       \* what became of each client
    pc, copy, held,             \* per thread: place, catalog copy, client
    callee,                     \* the client a tool call uses
    calls                       \* tool calls made

serverVars == <<state, enabled, approved, epoch, client, connecting, tools,
                cached, refreshing>>
threadVars == <<pc, copy, held, callee>>
vars == <<serverVars, mShutdown, mSnapshot, proc, threadVars, calls>>

Epochs == 1..MaxEpoch
Connect(e) == <<"connect", e>>
Connects == {Connect(e) : e \in Epochs}
Workers == {<<"worker", i>> : i \in 1..MaxWorkers}   \* a refresh, or a /mcp login
Ui == <<"ui", 1>>         \* the /mcp commands, and shutdown
Call == <<"call", 1>>     \* an agent's tool call
Threads == Connects \cup Workers \cup {Ui, Call}

NoCatalog == [state |-> "none", tools |-> FALSE]

\* What publish() puts into the catalog.
View == [state |-> state,
         tools |-> IF state = "Connected" \/ (state = "Connecting" /\ cached)
                   THEN tools ELSE FALSE]

\* start(): last run's list may be in the cache.
Init ==
    /\ approved \in BOOLEAN /\ enabled \in BOOLEAN
    /\ state = (IF ~enabled THEN "Disabled"
                ELSE IF ~approved THEN "NeedsApproval" ELSE "Connecting")
    /\ epoch = (IF state = "Connecting" THEN 1 ELSE 0)
    /\ client = 0 /\ connecting = 0 /\ refreshing = FALSE
    /\ cached \in (IF state = "Connecting" THEN BOOLEAN ELSE {FALSE})
    /\ tools = cached
    /\ mShutdown = FALSE /\ mSnapshot = NoCatalog
    /\ proc = [e \in Epochs |-> "none"]
    /\ pc = [t \in Threads |->
               IF t = Ui THEN "publish"
               ELSE IF t = Connect(1) /\ epoch = 1 THEN "begin" ELSE "idle"]
    /\ copy = [t \in Threads |-> NoCatalog]
    /\ held = [t \in Threads |-> 0]
    /\ callee = 0 /\ calls = 0

Go(t, place) == pc' = [pc EXCEPT ![t] = place]

----------------------------------------------------------------------------
\* publish(): the copy and the new snapshot are two holds of mMutex, both
\* under mPublishMutex.

\* Fault: no mPublishMutex.
Unordered(t) == pc[t] \in {"announce", "publish", "republish"} /\ copy[t] = NoCatalog

MayCopy(t) ==
    /\ pc[t] \in {"announce", "publish", "republish"}
    /\ \A u \in Threads : copy[u] = NoCatalog

CopyCatalog(t) ==
    /\ MayCopy(t)
    /\ copy' = [copy EXCEPT ![t] = View]
    /\ UNCHANGED <<serverVars, mShutdown, mSnapshot, proc, pc, held, callee, calls>>

InstallSnapshot(t) ==
    /\ copy[t] # NoCatalog
    /\ mSnapshot' = copy[t]
    /\ copy' = [copy EXCEPT ![t] = NoCatalog]
    /\ Go(t, CASE pc[t] = "announce" -> "make" [] pc[t] = "republish" -> "retry"
               [] OTHER -> "idle")
    /\ UNCHANGED <<serverVars, mShutdown, proc, held, callee, calls>>

----------------------------------------------------------------------------
\* A connect task.

Stale(e) == epoch # e \/ mShutdown

ConnectBegins(e) ==
    /\ pc[Connect(e)] = "begin"
    /\ Go(Connect(e), IF Stale(e) THEN "idle" ELSE "announce")
    /\ UNCHANGED <<serverVars, mShutdown, mSnapshot, proc, copy, held, callee, calls>>

\* connect()'s `fail`: only the epoch is compared.
Fail(e, why) ==
    IF epoch # e
    THEN Go(Connect(e), "idle") /\ UNCHANGED <<state, client, tools, cached>>
    ELSE /\ state' = why /\ client' = 0 /\ tools' = FALSE /\ cached' = FALSE
         /\ Go(Connect(e), "publish")

\* Fault: a client that cannot be made is not reported.
FailQuietly(e) == Go(Connect(e), "idle") /\ UNCHANGED <<state, client, tools, cached>>

\* expand_server or make_client fails: a variable or the command is missing.
CannotMake(e) == Fail(e, "Failed")

MakeClient(e) ==
    /\ pc[Connect(e)] = "make"
    /\ \/ CannotMake(e) /\ UNCHANGED <<connecting, proc>>
       \/ /\ Stale(e) /\ Go(Connect(e), "idle")
          /\ UNCHANGED <<state, client, tools, cached, connecting, proc>>
       \/ /\ ~Stale(e) /\ Go(Connect(e), "shake")
          /\ connecting' = e /\ proc' = [proc EXCEPT ![e] = "up"]
          /\ UNCHANGED <<state, client, tools, cached>>
    /\ UNCHANGED <<enabled, approved, epoch, refreshing, mShutdown, mSnapshot,
                   copy, held, callee, calls>>

NoLongerConnecting(e) == connecting' = IF connecting = e THEN 0 ELSE connecting

\* The handshake is done, and the list read: nobody can reach the client between.
\*
Shaken(e) ==
    /\ pc[Connect(e)] = "shake" /\ proc[e] = "up"
    /\ NoLongerConnecting(e) /\ Go(Connect(e), "install")
    /\ UNCHANGED <<state, enabled, approved, epoch, client, tools, cached, refreshing,
                   mShutdown, mSnapshot, proc, copy, held, callee, calls>>

\* The handshake fails, or the client was told to close while it ran.
ShakeFails(e) ==
    /\ pc[Connect(e)] = "shake" /\ NoLongerConnecting(e)
    /\ proc' = [proc EXCEPT ![e] = "closed"]
    /\ \E why \in {"Failed", "NeedsAuth"} : Fail(e, why)
    /\ UNCHANGED <<enabled, approved, epoch, refreshing, mShutdown, mSnapshot, copy,
                   held, callee, calls>>

\* Fault: a connect that was overtaken forgets its client.
DropOrphan(e) == Go(Connect(e), "idle") /\ UNCHANGED proc

\* A connect that was overtaken closes what it made.
CloseOrphan(e) ==
    Go(Connect(e), "idle") /\ proc' = [proc EXCEPT ![e] = "closed"]

InstallClient(e) ==
    /\ pc[Connect(e)] = "install"
    /\ IF Stale(e)
       THEN CloseOrphan(e) /\ UNCHANGED <<state, client, tools, cached>>
       ELSE /\ client' = e /\ state' = "Connected"
            /\ tools' \in BOOLEAN /\ cached' = FALSE
            /\ Go(Connect(e), "publish") /\ UNCHANGED proc
    /\ UNCHANGED <<enabled, approved, epoch, connecting, refreshing, mShutdown,
                   mSnapshot, copy, held, callee, calls>>

\* A client told to close (a closer task, or shutdown's wait_closed) is gone.
Closed(e) ==
    /\ proc[e] = "closing" /\ proc' = [proc EXCEPT ![e] = "closed"]
    /\ UNCHANGED <<serverVars, mShutdown, mSnapshot, threadVars, calls>>

----------------------------------------------------------------------------
\* The list of tools changes.

\* refresh_stale: a turn begins, and the list may have outlived its ttl.
MayBeStale == state = "Connected"

\* schedule_refresh, one waiting task at a time: the server announces a new list
\* to whichever client is listening, or the list is stale.
ListChanges ==
    /\ \/ \E e \in Epochs : proc[e] = "up" /\ pc[Connect(e)] # "shake"
       \/ MayBeStale
    /\ ~refreshing /\ ~mShutdown /\ refreshing' = TRUE
    /\ \E w \in Workers : pc[w] = "idle" /\ Go(w, "wait")
    /\ UNCHANGED <<state, enabled, approved, epoch, client, connecting, tools, cached,
                   mShutdown, mSnapshot, proc, copy, held, callee, calls>>

Release(t) == held' = [held EXCEPT ![t] = 0]
AfterRefresh(t) == IF t = Call THEN "retry" ELSE "idle"

RefreshBegins(t) ==
    /\ pc[t] \in {"wait", "mismatch"}
    /\ refreshing' = FALSE
    /\ IF state # "Connected" \/ mShutdown \/ client = 0
       THEN Go(t, AfterRefresh(t)) /\ UNCHANGED held
       ELSE Go(t, "relist") /\ held' = [held EXCEPT ![t] = client]
    /\ UNCHANGED <<state, enabled, approved, epoch, client, connecting, tools, cached,
                   mShutdown, mSnapshot, proc, copy, callee, calls>>

RefreshLists(t) ==
    /\ pc[t] = "relist"
    /\ \/ Go(t, AfterRefresh(t)) /\ Release(t)
       \/ /\ proc[held[t]] = "up" /\ Go(t, "store")
          /\ UNCHANGED held
    /\ UNCHANGED <<serverVars, mShutdown, mSnapshot, proc, copy, callee, calls>>

RefreshStores(t) ==
    /\ pc[t] = "store" /\ Release(t)
    /\ IF client # held[t]
       THEN Go(t, AfterRefresh(t)) /\ UNCHANGED <<tools, cached>>
       ELSE /\ tools' = TRUE /\ cached' = FALSE
            /\ Go(t, IF t = Call THEN "republish" ELSE "publish")
    /\ UNCHANGED <<state, enabled, approved, epoch, client, connecting, refreshing,
                   mShutdown, mSnapshot, proc, copy, callee, calls>>

----------------------------------------------------------------------------
\* The /mcp commands.

\* Caller holds mMutex.
StartConnect ==
    /\ epoch < MaxEpoch
    /\ state' = "Connecting" /\ epoch' = epoch + 1

\* The task of the new epoch, and the thread's own next place.
Spawned(t) == pc' = [pc EXCEPT ![t] = "publish", ![Connect(epoch')] = "begin"]

ClosingClient ==
    proc' = IF client # 0 /\ proc[client] = "up"
            THEN [proc EXCEPT ![client] = "closing"] ELSE proc

Approve ==
    /\ pc[Ui] = "idle" /\ ~mShutdown /\ ~approved /\ approved' = TRUE
    /\ IF state = "NeedsApproval" THEN StartConnect /\ Spawned(Ui)
       ELSE Go(Ui, "publish") /\ UNCHANGED <<state, epoch>>
    /\ UNCHANGED <<enabled, client, connecting, tools, cached, refreshing, mShutdown,
                   mSnapshot, proc, copy, held, callee, calls>>

Disable ==
    /\ pc[Ui] = "idle" /\ ~mShutdown /\ epoch < MaxEpoch
    /\ enabled' = FALSE /\ state' = "Disabled" /\ epoch' = epoch + 1
    /\ ClosingClient /\ client' = 0 /\ tools' = FALSE /\ cached' = FALSE
    /\ Go(Ui, "publish")
    /\ UNCHANGED <<approved, connecting, refreshing, mShutdown, mSnapshot, copy,
                   held, callee, calls>>

Enable ==
    /\ pc[Ui] = "idle" /\ ~mShutdown /\ ~enabled /\ enabled' = TRUE
    /\ \/ /\ state = "Disabled" /\ ~approved
          /\ state' = "NeedsApproval" /\ Go(Ui, "publish") /\ UNCHANGED epoch
       \/ state = "Disabled" /\ approved /\ StartConnect /\ Spawned(Ui)
       \/ state # "Disabled" /\ Go(Ui, "publish") /\ UNCHANGED <<state, epoch>>
    /\ UNCHANGED <<approved, client, connecting, tools, cached, refreshing, mShutdown,
                   mSnapshot, proc, copy, held, callee, calls>>

\* reconnect() itself; the closer is spawned with it (only an HTTP server can
\* be reconnected off the UI thread, and it leaves no process).
DoReconnect(t) ==
    IF state \in {"Disabled", "NeedsApproval"}
    THEN /\ Go(t, "publish")
         /\ UNCHANGED <<state, epoch, proc, client, tools, cached>>
    ELSE /\ ClosingClient /\ client' = 0 /\ tools' = FALSE /\ cached' = FALSE
         /\ StartConnect /\ Spawned(t)

\* /mcp reconnect and /mcp logout.
Reconnect ==
    /\ pc[Ui] = "idle" /\ ~mShutdown /\ DoReconnect(Ui)
    /\ UNCHANGED <<enabled, approved, connecting, refreshing, mShutdown, mSnapshot,
                   copy, held, callee, calls>>

\* login(): the browser comes back; a server that is not connected is.  Its thread is
\* detached and asks no more about a shutdown, begun or over: the task it starts will.
LoggedIn ==
    /\ state # "Connected"
    /\ \E w \in Workers : pc[w] = "idle" /\ DoReconnect(w)
    /\ UNCHANGED <<enabled, approved, connecting, refreshing, mShutdown, mSnapshot,
                   copy, held, callee, calls>>

----------------------------------------------------------------------------
\* call_tool.

\* The catalog names the tool; a server still starting is waited for, for
\* startup_timeout at most, and looked at again.
CallBegins ==
    /\ pc[Call] = "idle" /\ calls < MaxCalls /\ mSnapshot.tools
    /\ \/ state = "Connecting"
       \/ state = "Connected" /\ client # 0
    /\ calls' = calls + 1
    /\ IF state = "Connecting" THEN Go(Call, "await") /\ UNCHANGED callee
       ELSE Go(Call, "called") /\ callee' = client
    /\ UNCHANGED <<serverVars, mShutdown, mSnapshot, proc, copy, held>>

WaitEnds ==
    /\ pc[Call] = "await"
    /\ IF state = "Connected" /\ client # 0
       THEN Go(Call, "called") /\ callee' = client
       ELSE Go(Call, "idle") /\ UNCHANGED callee
    /\ UNCHANGED <<serverVars, mShutdown, mSnapshot, proc, copy, held, calls>>

\* The outcome of the call, or of the call made again: done, the headers were
\* out of date, or the server wants a login.
CallEnds ==
    /\ pc[Call] \in {"called", "retry"}
    /\ \E place \in {"idle"} \cup (IF proc[callee] # "up" THEN {}
                                   ELSE IF pc[Call] = "called" THEN {"mismatch", "prompt"}
                                   ELSE {"prompt"}) :
          /\ Go(Call, place)
          /\ callee' = IF place = "mismatch" THEN callee ELSE 0
    /\ UNCHANGED <<serverVars, mShutdown, mSnapshot, proc, copy, held, calls>>

\* Wherever the refusal comes from, the server is marked as it stands now.
NeedsLogin == state' = "NeedsAuth" /\ Go(Call, "publish")

\* The person is asked to log in; the call goes once more if they did.
Prompted ==
    /\ pc[Call] = "prompt"
    /\ \/ NeedsLogin /\ UNCHANGED callee
       \/ /\ state = "Connected" /\ client # 0 /\ UNCHANGED state
          /\ Go(Call, "last") /\ callee' = client
    /\ UNCHANGED <<enabled, approved, epoch, client, connecting, tools, cached,
                   refreshing, mShutdown, mSnapshot, proc, copy, held, calls>>

LastEnds ==
    /\ pc[Call] = "last" /\ callee' = 0
    /\ \/ Go(Call, "idle") /\ UNCHANGED state
       \/ proc[callee] = "up" /\ NeedsLogin
    /\ UNCHANGED <<enabled, approved, epoch, client, connecting, tools, cached,
                   refreshing, mShutdown, mSnapshot, proc, copy, held, calls>>

----------------------------------------------------------------------------
\* shutdown().

Mine == {client, connecting} \ {0}

TellAll == proc' = [e \in Epochs |->
    IF e \in Mine /\ proc[e] = "up" THEN "closing" ELSE proc[e]]

ShutdownBegins ==
    /\ pc[Ui] = "idle" /\ ~mShutdown /\ mShutdown' = TRUE
    /\ epoch' = epoch + 1 /\ TellAll /\ Go(Ui, "joining")
    /\ UNCHANGED <<state, enabled, approved, client, connecting, tools, cached,
                   refreshing, mSnapshot, copy, held, callee, calls>>

\* What a login started too late is not joined, nor is the login; it has no client to make.
TasksDone ==
    /\ \A t \in Connects : pc[t] \in {"idle", "begin"}
    /\ \A t \in Workers : pc[t] \in {"idle", "publish"}

\* wait_closed on each, join every task, close what a late connect left.
ShutdownEnds ==
    /\ pc[Ui] = "joining" /\ TasksDone /\ \A e \in Epochs : proc[e] # "closing"
    /\ Go(Ui, "over") /\ client' = 0
    /\ proc' = IF client = 0 THEN proc ELSE [proc EXCEPT ![client] = "closed"]
    /\ UNCHANGED <<state, enabled, approved, epoch, connecting, tools, cached,
                   refreshing, mShutdown, mSnapshot, copy, held, callee, calls>>

ConnectStep(e) == ConnectBegins(e) \/ MakeClient(e) \/ Shaken(e) \/ ShakeFails(e)
                  \/ InstallClient(e)
Publishing(t) == CopyCatalog(t) \/ InstallSnapshot(t)
Refreshing(t) == RefreshBegins(t) \/ RefreshLists(t) \/ RefreshStores(t)
Calling == CallBegins \/ WaitEnds \/ CallEnds \/ Prompted \/ LastEnds
HandleMcp == Approve \/ Disable \/ Enable \/ Reconnect \/ LoggedIn

Next ==
    \/ \E t \in Threads : Publishing(t) \/ Refreshing(t)
    \/ \E e \in Epochs : ConnectStep(e) \/ Closed(e)
    \/ ListChanges \/ Calling \/ HandleMcp \/ ShutdownBegins \/ ShutdownEnds
Spec == Init /\ [][Next]_vars

----------------------------------------------------------------------------
States == {"Disabled", "NeedsApproval", "Connecting", "Connected", "NeedsAuth", "Failed"}
Catalogs == [state : States, tools : BOOLEAN] \cup {NoCatalog}

TypeOK ==
    /\ state \in States /\ {enabled, approved, tools, cached, refreshing, mShutdown} \subseteq BOOLEAN
    /\ epoch \in 0..MaxEpoch + 1 /\ {client, connecting} \subseteq 0..MaxEpoch
    /\ calls \in 0..MaxCalls
    /\ mSnapshot \in Catalogs /\ copy \in [Threads -> Catalogs]
    /\ proc \in [Epochs -> {"none", "up", "closing", "closed"}]
    /\ held \in [Threads -> 0..MaxEpoch]
    /\ callee \in 0..MaxEpoch
    /\ \A t \in Threads : pc[t] \in
          {"idle", "begin", "announce", "make", "shake", "install", "publish",
           "wait", "relist", "store", "mismatch", "republish", "retry", "await",
           "called", "prompt", "last", "joining", "over"}

\* With no publish() under way or owed, the snapshot the agents read shows the
\* server as it is, whatever order the threads' changes and publishes took.
SnapshotCatchesUp ==
    (\A t \in Threads : pc[t] \notin {"announce", "publish", "republish"})
        => mSnapshot = View

\* Every running server is installed, being connected, or being closed: the
\* orphaned connects, the overtaken ones and shutdown lose none.
NoOrphanServer ==
    /\ \A e \in Epochs : proc[e] = "up" =>
          e = client \/ pc[Connect(e)] \in {"shake", "install"}
    /\ (client # 0 /\ ~mShutdown) => client = epoch
    /\ pc[Ui] = "over" => \A e \in Epochs : proc[e] \notin {"up", "closing"}

\* A server does not stay Connecting with nobody to end it: the task of its own
\* epoch is on its way, however tasks and commands overtook each other; and a
\* shutdown, once begun, is one thread's to end.
ConnectingIsOwned ==
    /\ state = "Connecting" /\ ~mShutdown => pc[Connect(epoch)] # "idle"
    /\ mShutdown => pc[Ui] \in {"joining", "over"}

\* The agents see each server as it is, no process is left to itself, and nothing
\* stays half way, whatever tasks and commands raced (registry.cpp:262-347).
RegistryIsRight == SnapshotCatchesUp /\ NoOrphanServer /\ ConnectingIsOwned
=============================================================================
