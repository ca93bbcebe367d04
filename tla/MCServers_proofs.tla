-------------------------- MODULE MCServers_proofs --------------------------
(***************************************************************************)
(* Proofs about m8 and its MCP servers: the registry's threads first, then   *)
(* tokens, logins, the login prompt, the configuration and the questions of  *)
(* a server, each from the invariant its module ends with, and at last all   *)
(* of them as the parts of MCServers.  The numbers of processes, logins,     *)
(* agents, entries and links are any.                                       *)
(***************************************************************************)
EXTENDS MCServers, FiniteSetTheorems, SequenceTheorems, WellFoundedInduction, TLAPS

----------------------------------------------------------------------------
\* Threads are told apart by their names alone.

LEMMA ThreadFacts ==
    /\ \A e \in Epochs : /\ Connect(e) \in Threads \ Workers
                         /\ Connect(e) # Ui /\ Connect(e) # Call
    /\ \A e, f \in Epochs : Connect(e) = Connect(f) => e = f
    /\ Ui \in Threads \ Workers /\ Call \in Threads \ Workers /\ Ui # Call
    /\ Workers \subseteq Threads
    /\ \A t \in Threads : \/ t \in {Ui, Call} \cup Workers
                          \/ \E e \in Epochs : t = Connect(e)
<1> USE DEF Connect, Connects, Workers, Ui, Call, Threads
<1>1. \A e \in Epochs : /\ Connect(e) \in Threads \ Workers
                        /\ Connect(e) # Ui /\ Connect(e) # Call
  OBVIOUS
<1>2. \A e, f \in Epochs : Connect(e) = Connect(f) => e = f
  OBVIOUS
<1>3. Ui \in Threads \ Workers /\ Call \in Threads \ Workers /\ Ui # Call
  OBVIOUS
<1> QED BY <1>1, <1>2, <1>3

ConnectPlaces == {"idle", "begin", "announce", "make", "shake", "install", "publish"}
WorkerPlaces == {"idle", "wait", "relist", "store", "publish"}
UiPlaces == {"idle", "publish", "joining", "over"}
CallPlaces == {"idle", "await", "called", "mismatch", "relist", "store", "republish",
               "retry", "prompt", "last", "publish"}
Places == ConnectPlaces \cup WorkerPlaces \cup UiPlaces \cup CallPlaces

\* Every thread is at a place of its own kind.
PlaceInv ==
    /\ pc \in [Threads -> Places]
    /\ \A e \in Epochs : pc[Connect(e)] \in ConnectPlaces
    /\ \A w \in Workers : pc[w] \in WorkerPlaces
    /\ pc[Ui] \in UiPlaces
    /\ pc[Call] \in CallPlaces

LEMMA Moves ==
    ASSUME PlaceInv, NEW t \in Threads, NEW place, Go(t, place)
    PROVE  pc'[t] = place /\ \A u \in Threads \ {t} : pc'[u] = pc[u]
BY DEF PlaceInv, Go

----------------------------------------------------------------------------
\* Types.

TypeInv ==
    /\ TypeOK
    /\ ~mShutdown => epoch <= MaxEpoch

\* A step of one thread that stays with its kind.
LEMMA PlaceKept ==
    ASSUME PlaceInv, NEW t \in Threads, NEW place, Go(t, place),
           \A e \in Epochs : t = Connect(e) => place \in ConnectPlaces,
           t \in Workers => place \in WorkerPlaces,
           t = Ui => place \in UiPlaces,
           t = Call => place \in CallPlaces
    PROVE  PlaceInv'
<1>1. pc' = [pc EXCEPT ![t] = place] BY DEF Go
<1>2. place \in Places BY ThreadFacts DEF Places
<1>3. pc' \in [Threads -> Places] BY <1>1, <1>2 DEF PlaceInv
<1> QED BY <1>3, Moves, ThreadFacts DEF PlaceInv

LEMMA SpawnMoves ==
    ASSUME PlaceInv, NEW t \in Threads, NEW f \in Epochs, epoch' = f, Spawned(t),
           t # Connect(f)
    PROVE  /\ pc'[t] = "publish" /\ pc'[Connect(f)] = "begin"
           /\ \A u \in Threads \ {t, Connect(f)} : pc'[u] = pc[u]
           /\ pc' \in [Threads -> Places]
<1>1. pc' = [pc EXCEPT ![t] = "publish", ![Connect(f)] = "begin"]
  BY DEF Spawned
<1>2. "publish" \in Places /\ "begin" \in Places BY DEF Places, ConnectPlaces
<1> QED BY <1>1, <1>2, ThreadFacts DEF PlaceInv

LEMMA SpawnKeepsPlaces ==
    ASSUME PlaceInv, NEW t \in Threads, NEW f \in Epochs, epoch' = f, Spawned(t),
           t \in Workers \cup {Ui}
    PROVE  PlaceInv'
<1>1. t # Connect(f) BY ThreadFacts
<1> QED BY <1>1, SpawnMoves, ThreadFacts
        DEF PlaceInv, ConnectPlaces, WorkerPlaces, UiPlaces
LEMMA PlaceStep == TypeInv /\ PlaceInv /\ [Next]_vars => PlaceInv'
<1> SUFFICES ASSUME TypeInv, PlaceInv, [Next]_vars PROVE PlaceInv'
  OBVIOUS
<1> USE ThreadFacts, PlaceKept
    DEF ConnectPlaces, WorkerPlaces, UiPlaces, CallPlaces
<1>1. ASSUME NEW t \in Threads, Publishing(t) PROVE PlaceInv'
  <2>1. CASE CopyCatalog(t) BY <2>1 DEF CopyCatalog, PlaceInv
  <2>2. CASE InstallSnapshot(t)
    <3> DEFINE place == CASE pc[t] = "announce" -> "make"
                          [] pc[t] = "republish" -> "retry"
                          [] OTHER -> "idle"
    <3>1. Go(t, place) BY <2>2 DEF InstallSnapshot
    <3>2. /\ place \in {"make", "retry", "idle"}
          /\ place = "make" => pc[t] = "announce"
          /\ place = "retry" => pc[t] = "republish"
      OBVIOUS
    <3> HIDE DEF place
    <3> QED BY <3>1, <3>2 DEF PlaceInv
  <2> QED BY <1>1, <2>1, <2>2 DEF Publishing
<1>2. ASSUME NEW t \in Threads, Refreshing(t) PROVE PlaceInv'
  <2>1. t \in Workers \cup {Call}
    BY <1>2 DEF Refreshing, RefreshBegins, RefreshLists, RefreshStores, PlaceInv
  <2>2. CASE RefreshBegins(t)
    BY <2>1, <2>2 DEF RefreshBegins, AfterRefresh
  <2>3. CASE RefreshLists(t) BY <2>1, <2>3 DEF RefreshLists, AfterRefresh
  <2>4. CASE RefreshStores(t) BY <2>1, <2>4 DEF RefreshStores, AfterRefresh
  <2> QED BY <1>2, <2>2, <2>3, <2>4 DEF Refreshing
<1>3. ASSUME NEW e \in Epochs, ConnectStep(e) \/ Closed(e) PROVE PlaceInv'
  <2>1. CASE ConnectBegins(e) BY <2>1 DEF ConnectBegins
  <2>2. CASE MakeClient(e) BY <2>2 DEF MakeClient, CannotMake, Fail
  <2>3. CASE Shaken(e) BY <2>3 DEF Shaken
  <2>4. CASE ShakeFails(e) BY <2>4 DEF ShakeFails, Fail
  <2>5. CASE InstallClient(e) BY <2>5 DEF InstallClient, CloseOrphan
  <2>6. CASE Closed(e) BY <2>6 DEF Closed, threadVars, PlaceInv
  <2> QED BY <1>3, <2>1, <2>2, <2>3, <2>4, <2>5, <2>6 DEF ConnectStep
<1>4. CASE ListChanges BY <1>4 DEF ListChanges
<1>5. CASE Calling
  <2>1. CASE CallBegins BY <2>1 DEF CallBegins
  <2>2. CASE WaitEnds BY <2>2 DEF WaitEnds
  <2>3. CASE CallEnds BY <2>3 DEF CallEnds
  <2>4. CASE Prompted BY <2>4 DEF Prompted, NeedsLogin
  <2>5. CASE LastEnds BY <2>5 DEF LastEnds, NeedsLogin
  <2> QED BY <1>5, <2>1, <2>2, <2>3, <2>4, <2>5 DEF Calling
<1>6. ASSUME NEW t \in Workers \cup {Ui}, StartConnect, Spawned(t)
      PROVE PlaceInv'
  <2>1. epoch' \in Epochs
    BY <1>6, RegistryAssumption DEF StartConnect, TypeInv, TypeOK, Epochs
  <2> QED BY <1>6, <2>1, SpawnKeepsPlaces
<1>7. ASSUME NEW t \in Workers \cup {Ui}, DoReconnect(t) PROVE PlaceInv'
  BY <1>6, <1>7 DEF DoReconnect
<1>8. CASE HandleMcp
  <2>1. CASE Approve BY <1>6, <2>1 DEF Approve
  <2>2. CASE Disable BY <2>2 DEF Disable
  <2>3. CASE Enable BY <1>6, <2>3 DEF Enable
  <2>4. CASE Reconnect BY <1>7, <2>4 DEF Reconnect
  <2>5. CASE LoggedIn BY <1>7, <2>5 DEF LoggedIn
  <2> QED BY <1>8, <2>1, <2>2, <2>3, <2>4, <2>5 DEF HandleMcp
<1>9. CASE ShutdownBegins BY <1>9 DEF ShutdownBegins
<1>10. CASE ShutdownEnds BY <1>10 DEF ShutdownEnds
<1>11. CASE UNCHANGED vars BY <1>11 DEF vars, threadVars, PlaceInv
<1> QED BY <1>1, <1>2, <1>3, <1>4, <1>5, <1>8, <1>9, <1>10, <1>11 DEF Next
LEMMA ViewType == TypeOK => View \in [state : States, tools : BOOLEAN]
<1> SUFFICES ASSUME TypeOK PROVE View \in [state : States, tools : BOOLEAN]
  OBVIOUS
<1>1. state \in States /\ tools \in BOOLEAN BY DEF TypeOK
<1> QED BY <1>1 DEF View

\* A server's state, lists and client come from what the code writes there.
LEMMA TypeStep == TypeInv /\ PlaceInv /\ [Next]_vars => TypeInv'
<1> SUFFICES ASSUME TypeInv, PlaceInv, [Next]_vars PROVE TypeInv'
  OBVIOUS
<1>p. \A t \in Threads : pc'[t] \in
        {"idle", "begin", "announce", "make", "shake", "install", "publish",
         "wait", "relist", "store", "mismatch", "republish", "retry", "await",
         "called", "prompt", "last", "joining", "over"}
  BY PlaceStep DEF PlaceInv, Places, ConnectPlaces, WorkerPlaces, UiPlaces, CallPlaces
<1> USE <1>p, RegistryAssumption DEF TypeInv, TypeOK, serverVars, threadVars
<1>s. \A x \in {"Disabled", "NeedsApproval", "Connecting", "Connected", "NeedsAuth",
                "Failed"} : x \in States
  BY DEF States
<1>e. \A e \in Epochs : e \in 0 .. MaxEpoch BY DEF Epochs
<1>n. 0 \in 0 .. MaxEpoch OBVIOUS
<1>b. TRUE \in BOOLEAN /\ FALSE \in BOOLEAN OBVIOUS
<1>h. \A t \in Threads : Release(t) => held' \in [Threads -> 0 .. MaxEpoch]
  BY <1>n DEF Release
<1>f. \A e \in Epochs : \A why \in States : Fail(e, why) =>
          /\ state' \in States /\ {tools', cached'} \subseteq BOOLEAN
          /\ client' \in 0 .. MaxEpoch
  <2> SUFFICES ASSUME NEW e \in Epochs, NEW why \in States, Fail(e, why)
               PROVE  /\ state' \in States /\ {tools', cached'} \subseteq BOOLEAN
                      /\ client' \in 0 .. MaxEpoch
    OBVIOUS
  <2>1. CASE epoch # e BY <2>1 DEF Fail
  <2>2. CASE epoch = e
    <3>1. state' = why /\ client' = 0 BY <2>2 DEF Fail
    <3>2. tools' = FALSE /\ cached' = FALSE BY <2>2 DEF Fail
    <3>3. {tools', cached'} \subseteq BOOLEAN BY <3>2
    <3> QED BY <3>1, <3>3, <1>n
  <2> QED BY <2>1, <2>2
<1>1. ASSUME NEW t \in Threads, Publishing(t) PROVE TypeInv'
  <2>1. CASE CopyCatalog(t)
    <3>1. View \in Catalogs BY ViewType DEF Catalogs
    <3> QED BY <2>1, <3>1 DEF CopyCatalog
  <2>2. CASE InstallSnapshot(t)
    <3>1. NoCatalog \in Catalogs BY DEF Catalogs
    <3> QED BY <2>2, <3>1 DEF InstallSnapshot
  <2> QED BY <1>1, <2>1, <2>2 DEF Publishing
<1>2. ASSUME NEW t \in Threads, Refreshing(t) PROVE TypeInv'
  <2>1. CASE RefreshBegins(t) BY <2>1 DEF RefreshBegins
  <2>2. CASE RefreshLists(t) BY <2>2 DEF RefreshLists, Release
  <2>3. CASE RefreshStores(t)
    <3>1. held' \in [Threads -> 0 .. MaxEpoch] BY <1>h, <2>3 DEF RefreshStores
    <3>2. (tools' = TRUE /\ cached' = FALSE) \/ UNCHANGED <<tools, cached>>
      BY <2>3 DEF RefreshStores
    <3>3. {tools', cached'} \subseteq BOOLEAN BY <3>2
    <3>4. UNCHANGED <<state, enabled, approved, epoch, client, connecting, refreshing,
                      mShutdown, mSnapshot, proc, copy, callee, calls>>
      BY <2>3 DEF RefreshStores
    <3> QED BY <3>1, <3>3, <3>4
  <2> QED BY <1>2, <2>1, <2>2, <2>3 DEF Refreshing
<1>3. ASSUME NEW e \in Epochs, ConnectStep(e) \/ Closed(e) PROVE TypeInv'
  <2>1. CASE ConnectBegins(e) BY <2>1 DEF ConnectBegins
  <2>2. CASE MakeClient(e)
    <3>1. state' \in States /\ {tools', cached'} \subseteq BOOLEAN /\ client' \in 0 .. MaxEpoch
      BY <1>s, <1>f, <2>2 DEF MakeClient, CannotMake
    <3>2. connecting' \in 0 .. MaxEpoch BY <1>e, <2>2 DEF MakeClient
    <3>3. proc' \in [Epochs -> {"none", "up", "closing", "closed"}]
      BY <2>2 DEF MakeClient
    <3>4. UNCHANGED <<enabled, approved, epoch, refreshing, mShutdown, mSnapshot,
                      copy, held, callee, calls>>
      BY <2>2 DEF MakeClient
    <3> QED BY <3>1, <3>2, <3>3, <3>4
  <2>3. CASE Shaken(e) BY <2>3 DEF Shaken, NoLongerConnecting
  <2>4. CASE ShakeFails(e)
    <3>1. state' \in States /\ {tools', cached'} \subseteq BOOLEAN /\ client' \in 0 .. MaxEpoch
      BY <1>s, <1>f, <2>4 DEF ShakeFails
    <3>2. connecting' \in 0 .. MaxEpoch BY <2>4, <1>n DEF ShakeFails, NoLongerConnecting
    <3>3. proc' \in [Epochs -> {"none", "up", "closing", "closed"}]
      BY <2>4 DEF ShakeFails
    <3>4. UNCHANGED <<enabled, approved, epoch, refreshing, mShutdown, mSnapshot,
                      copy, held, callee, calls>>
      BY <2>4 DEF ShakeFails
    <3> QED BY <3>1, <3>2, <3>3, <3>4
  <2>5. CASE InstallClient(e)
    BY <1>s, <1>e, <2>5 DEF InstallClient, CloseOrphan
  <2>6. CASE Closed(e) BY <2>6 DEF Closed
  <2> QED BY <1>3, <2>1, <2>2, <2>3, <2>4, <2>5, <2>6 DEF ConnectStep
<1>4. CASE ListChanges BY <1>4 DEF ListChanges
<1>5. CASE Calling
  <2>1. CASE CallBegins BY <2>1 DEF CallBegins
  <2>2. CASE WaitEnds BY <2>2 DEF WaitEnds
  <2>3. CASE CallEnds BY <2>3 DEF CallEnds
  <2>4. CASE Prompted BY <1>s, <2>4 DEF Prompted, NeedsLogin
  <2>5. CASE LastEnds BY <1>s, <2>5 DEF LastEnds, NeedsLogin
  <2> QED BY <1>5, <2>1, <2>2, <2>3, <2>4, <2>5 DEF Calling
<1>c. ClosingClient => proc' \in [Epochs -> {"none", "up", "closing", "closed"}]
  BY DEF ClosingClient
<1>7. ASSUME NEW t \in Threads, DoReconnect(t),
             UNCHANGED <<enabled, approved, connecting, refreshing, mShutdown,
                         mSnapshot, copy, held, callee, calls>>
      PROVE TypeInv'
  <2>1. CASE state \in {"Disabled", "NeedsApproval"} BY <1>7, <2>1 DEF DoReconnect
  <2>2. CASE state \notin {"Disabled", "NeedsApproval"}
    <3>1. ClosingClient /\ client' = 0 /\ tools' = FALSE /\ cached' = FALSE
      BY <1>7, <2>2 DEF DoReconnect
    <3>2. state' \in States /\ epoch' \in 0 .. MaxEpoch + 1 /\ epoch' <= MaxEpoch
      BY <1>7, <1>s, <2>2 DEF DoReconnect, StartConnect
    <3>3. {tools', cached'} \subseteq BOOLEAN BY <3>1
    <3> QED BY <1>7, <1>c, <1>n, <3>1, <3>2, <3>3
  <2> QED BY <2>1, <2>2
<1>8. CASE HandleMcp
  <2>1. CASE Approve BY <1>s, <2>1 DEF Approve, StartConnect
  <2>2. CASE Disable
    <3>1. /\ enabled' = FALSE /\ tools' = FALSE /\ cached' = FALSE
          /\ ClosingClient /\ client' = 0
      BY <2>2 DEF Disable
    <3>2. state' \in States /\ epoch' \in 0 .. MaxEpoch + 1 /\ epoch' <= MaxEpoch
      BY <1>s, <2>2 DEF Disable
    <3>3. {enabled', tools', cached'} \subseteq BOOLEAN BY <3>1
    <3>4. UNCHANGED <<approved, connecting, refreshing, mShutdown, mSnapshot, copy,
                      held, callee, calls>>
      BY <2>2 DEF Disable
    <3> QED BY <1>c, <1>n, <3>1, <3>2, <3>3, <3>4
  <2>3. CASE Enable BY <1>s, <2>3 DEF Enable, StartConnect
  <2>4. CASE Reconnect BY <1>7, <2>4, ThreadFacts DEF Reconnect
  <2>5. CASE LoggedIn BY <1>7, <2>5, ThreadFacts DEF LoggedIn
  <2> QED BY <1>8, <2>1, <2>2, <2>3, <2>4, <2>5 DEF HandleMcp
<1>9. CASE ShutdownBegins BY <1>9 DEF ShutdownBegins, TellAll
<1>10. CASE ShutdownEnds
  <2>1. client' \in 0 .. MaxEpoch BY <1>n, <1>10 DEF ShutdownEnds
  <2>2. proc' \in [Epochs -> {"none", "up", "closing", "closed"}]
    BY <1>10 DEF ShutdownEnds
  <2>3. UNCHANGED <<state, enabled, approved, epoch, connecting, tools, cached,
                    refreshing, mShutdown, mSnapshot, copy, held, callee, calls>>
    BY <1>10 DEF ShutdownEnds
  <2> QED BY <2>1, <2>2, <2>3
<1>11. CASE UNCHANGED vars BY <1>11 DEF vars
<1> QED BY <1>1, <1>2, <1>3, <1>4, <1>5, <1>8, <1>9, <1>10, <1>11 DEF Next
LEMMA TypeInit == Init => TypeInv /\ PlaceInv
<1> SUFFICES ASSUME Init PROVE TypeInv /\ PlaceInv
  OBVIOUS
<1> USE RegistryAssumption DEF Init
<1>1. state \in States BY DEF States
<1>2. \A t \in Threads : pc[t] \in {"publish", "begin", "idle"} OBVIOUS
<1>3. PlaceInv
  <2>1. 1 \in Epochs BY DEF Epochs
  <2>2. /\ pc \in [Threads -> {"publish", "begin", "idle"}] /\ pc[Ui] = "publish"
        /\ \A t \in Threads \ {Ui, Connect(1)} : pc[t] = "idle"
        /\ pc[Connect(1)] \in {"begin", "idle"}
    BY <2>1, ThreadFacts
  <2>3. \A w \in Workers : pc[w] = "idle" BY <2>1, <2>2, ThreadFacts
  <2>4. pc[Call] = "idle" BY <2>1, <2>2, ThreadFacts
  <2>5. \A e \in Epochs : pc[Connect(e)] \in {"begin", "idle"} BY <2>2, ThreadFacts
  <2> QED BY <2>2, <2>3, <2>4, <2>5
          DEF PlaceInv, Places, ConnectPlaces, WorkerPlaces, UiPlaces, CallPlaces
<1>4. {enabled, approved, tools, cached, refreshing, mShutdown} \subseteq BOOLEAN
  <2>1. cached \in BOOLEAN /\ tools = cached OBVIOUS
  <2>2. refreshing = FALSE /\ mShutdown = FALSE OBVIOUS
  <2>3. enabled \in BOOLEAN /\ approved \in BOOLEAN OBVIOUS
  <2>4. {refreshing, mShutdown} \subseteq BOOLEAN BY <2>2
  <2> QED BY <2>1, <2>3, <2>4
<1>5. epoch \in 0 .. MaxEpoch + 1 /\ epoch <= MaxEpoch OBVIOUS
<1>6. /\ mSnapshot \in Catalogs /\ copy \in [Threads -> Catalogs]
      /\ proc \in [Epochs -> {"none", "up", "closing", "closed"}]
  BY DEF Catalogs
<1>7. /\ {client, connecting} \subseteq 0 .. MaxEpoch /\ calls \in 0 .. MaxCalls
      /\ held \in [Threads -> 0 .. MaxEpoch] /\ callee \in 0 .. MaxEpoch
  OBVIOUS
<1> QED BY <1>1, <1>2, <1>3, <1>4, <1>5, <1>6, <1>7 DEF TypeInv, TypeOK

----------------------------------------------------------------------------
\* Epochs: a connect task runs only for an epoch that was begun, and the task of
\* the epoch in force is there as long as the server is Connecting.

EpochInv ==
    /\ \A e \in Epochs : e > epoch => pc[Connect(e)] = "idle"
    /\ mShutdown => \A e \in Epochs : e >= epoch => pc[Connect(e)] \in {"idle", "begin"}
    /\ state = "Connecting" /\ ~mShutdown => epoch \in Epochs /\ pc[Connect(epoch)] # "idle"
    /\ ~mShutdown /\ state = "Connecting" => pc[Connect(epoch)] # "publish"
    /\ mShutdown <=> pc[Ui] \in {"joining", "over"}
    /\ pc[Ui] = "over" => \A e \in Epochs : pc[Connect(e)] \in {"idle", "begin"}

\* A step that moves no connect task and starts nothing.
LEMMA EpochKept ==
    ASSUME EpochInv, UNCHANGED <<epoch, mShutdown>>,
           state' = "Connecting" => state = "Connecting",
           \A e \in Epochs : pc'[Connect(e)] = pc[Connect(e)],
           pc'[Ui] \in {"joining", "over"} <=> pc[Ui] \in {"joining", "over"},
           pc'[Ui] = "over" => pc[Ui] = "over"
    PROVE  EpochInv'
BY DEF EpochInv

\* A step of a task that is under way: it ends only where its epoch is over.
LEMMA EpochTask ==
    ASSUME TypeInv, PlaceInv, EpochInv, UNCHANGED <<epoch, mShutdown>>,
           NEW e \in Epochs, pc[Connect(e)] # "idle",
           NEW place, Go(Connect(e), place),
           mShutdown /\ pc[Connect(e)] = "begin" => place = "idle",
           \/ state' = state /\ place \notin {"idle", "publish"}
           \/ state' = state /\ Stale(e)
           \/ state' # "Connecting"
    PROVE  EpochInv'
<1>1. /\ pc'[Connect(e)] = place /\ pc'[Ui] = pc[Ui]
      /\ \A f \in Epochs \ {e} : pc'[Connect(f)] = pc[Connect(f)]
  BY Moves, ThreadFacts
<1>2. pc'[Ui] = "over" => \A f \in Epochs : pc'[Connect(f)] \in {"idle", "begin"}
  BY <1>1 DEF EpochInv
<1>3. e <= epoch BY DEF EpochInv, TypeInv, TypeOK, Epochs
<1>4. /\ \A f \in Epochs : f > epoch' => pc'[Connect(f)] = "idle"
      /\ mShutdown' => \A f \in Epochs : f >= epoch' => pc'[Connect(f)] \in {"idle", "begin"}
  <2>1. ASSUME NEW f \in Epochs, f > epoch PROVE pc'[Connect(f)] = "idle"
    <3>1. f # e BY <1>3, <2>1, RegistryAssumption DEF TypeInv, TypeOK, Epochs
    <3> QED BY <1>1, <2>1, <3>1 DEF EpochInv
  <2>2. ASSUME NEW f \in Epochs, mShutdown, f >= epoch
        PROVE  pc'[Connect(f)] \in {"idle", "begin"}
    BY <1>1, <2>2 DEF EpochInv
  <2> QED BY <2>1, <2>2
<1>5. ASSUME state' = "Connecting", ~mShutdown'
      PROVE  epoch' \in Epochs /\ pc'[Connect(epoch')] \notin {"idle", "publish"}
  BY <1>1, <1>5 DEF EpochInv, Stale
<1> QED BY <1>1, <1>2, <1>4, <1>5 DEF EpochInv

\* A task is started for a new epoch.
LEMMA EpochSpawn ==
    ASSUME TypeInv, PlaceInv, EpochInv, UNCHANGED mShutdown,
           NEW t \in Workers \cup {Ui}, pc[t] = "idle", StartConnect, Spawned(t)
    PROVE  /\ EpochInv' /\ epoch' \in Epochs /\ epoch' # epoch
           /\ pc[Connect(epoch')] = "idle" /\ pc'[Connect(epoch')] = "begin"
           /\ pc'[t] = "publish"
           /\ \A u \in Threads \ {t, Connect(epoch')} : pc'[u] = pc[u]
<1>1. epoch \in Nat /\ epoch' = epoch + 1 /\ epoch' \in Epochs
  BY RegistryAssumption DEF StartConnect, TypeInv, TypeOK, Epochs
<1>2. PICK f \in Epochs : f = epoch' BY <1>1
<1>3. t \in Threads /\ t # Connect(f) BY ThreadFacts
<1>4. /\ pc'[t] = "publish" /\ pc'[Connect(f)] = "begin"
      /\ \A u \in Threads \ {t, Connect(f)} : pc'[u] = pc[u]
  BY <1>2, <1>3, SpawnMoves
<1>5. pc[Connect(f)] = "idle" BY <1>1, <1>2 DEF EpochInv
<1>6. \A e \in Epochs \ {f} : pc'[Connect(e)] = pc[Connect(e)]
  BY <1>4, ThreadFacts
<1>7. /\ pc'[Ui] \in {"joining", "over"} <=> pc[Ui] \in {"joining", "over"}
      /\ pc'[Ui] = "over" => pc[Ui] = "over"
  BY <1>4, ThreadFacts
<1>8. /\ \A e \in Epochs : e > epoch' => pc'[Connect(e)] = "idle"
      /\ mShutdown => \A e \in Epochs : e >= epoch' => pc'[Connect(e)] \in {"idle", "begin"}
      /\ pc'[Ui] = "over" => \A e \in Epochs : pc'[Connect(e)] \in {"idle", "begin"}
  BY <1>1, <1>2, <1>4, <1>6, <1>7 DEF EpochInv, Epochs
<1>9. EpochInv' BY <1>1, <1>2, <1>4, <1>7, <1>8 DEF EpochInv
<1> QED BY <1>1, <1>2, <1>4, <1>5, <1>9
\* A thread that is neither a connect task nor leaving or entering a shutdown.
LEMMA EpochElsewhere ==
    ASSUME PlaceInv, EpochInv, UNCHANGED <<epoch, mShutdown>>,
           state' = "Connecting" => state = "Connecting",
           NEW t \in Threads, NEW place, Go(t, place),
           \A e \in Epochs : t # Connect(e),
           t = Ui => place = "publish" \/ place = "idle",
           t = Ui => pc[t] = "publish" \/ pc[t] = "idle"
    PROVE  EpochInv'
<1>1. /\ pc'[t] = place
      /\ \A e \in Epochs : pc'[Connect(e)] = pc[Connect(e)]
      /\ t # Ui => pc'[Ui] = pc[Ui]
  BY Moves, ThreadFacts
<1> QED BY <1>1, EpochKept

\* publish(): a thread with a copy is at a place that publishes, and only one
\* thread has a copy: mPublishMutex.
Owing(t) == pc[t] \in {"announce", "publish", "republish"}
CopyInv ==
    /\ \A t \in Threads : copy[t] # NoCatalog => Owing(t)
    /\ \A t, u \in Threads : copy[t] # NoCatalog /\ copy[u] # NoCatalog => t = u

LEMMA EpochStep == TypeInv /\ PlaceInv /\ EpochInv /\ CopyInv /\ [Next]_vars => EpochInv'
<1> SUFFICES ASSUME TypeInv, PlaceInv, EpochInv, CopyInv, [Next]_vars PROVE EpochInv'
  OBVIOUS
<1> USE ThreadFacts DEF serverVars, threadVars
<1>1. ASSUME NEW t \in Threads, Publishing(t) PROVE EpochInv'
  <2>1. CASE CopyCatalog(t) BY <2>1, EpochKept DEF CopyCatalog
  <2>2. CASE InstallSnapshot(t)
    <3> DEFINE place == CASE pc[t] = "announce" -> "make"
                          [] pc[t] = "republish" -> "retry"
                          [] OTHER -> "idle"
    <3>1. Go(t, place) /\ UNCHANGED <<state, epoch, mShutdown>>
      BY <2>2 DEF InstallSnapshot
    <3>2. /\ place \in {"make", "retry", "idle"}
          /\ place = "make" <=> pc[t] = "announce"
          /\ place = "retry" <=> pc[t] = "republish"
      OBVIOUS
    <3> HIDE DEF place
    <3>3. CASE t \in Workers \cup {Ui, Call}
      <4>1. t = Ui => place = "idle" /\ pc[t] \in {"idle", "publish"}
        BY <2>2, <3>2 DEF PlaceInv, UiPlaces, InstallSnapshot, CopyInv, Owing
      <4> QED BY <3>1, <3>3, <4>1, EpochElsewhere
    <3>4. ASSUME NEW e \in Epochs, t = Connect(e) PROVE EpochInv'
      <4>1. pc[t] \in {"announce", "publish"}
        BY <2>2, <3>4 DEF CopyInv, Owing, PlaceInv, ConnectPlaces, InstallSnapshot
      <4> QED BY <3>1, <3>2, <3>4, <4>1, EpochTask DEF EpochInv, Stale
    <3> QED BY <3>3, <3>4
  <2> QED BY <1>1, <2>1, <2>2 DEF Publishing
<1>2. ASSUME NEW t \in Threads, Refreshing(t) PROVE EpochInv'
  <2>1. \A e \in Epochs : t # Connect(e)
    BY <1>2 DEF Refreshing, RefreshBegins, RefreshLists, RefreshStores, PlaceInv,
                ConnectPlaces
  <2>2. t # Ui
    BY <1>2 DEF Refreshing, RefreshBegins, RefreshLists, RefreshStores, PlaceInv, UiPlaces
  <2>3. \E place : Go(t, place)
    BY <1>2 DEF Refreshing, RefreshBegins, RefreshLists, RefreshStores
  <2>4. UNCHANGED <<epoch, mShutdown, state>>
    BY <1>2 DEF Refreshing, RefreshBegins, RefreshLists, RefreshStores
  <2> QED BY <2>1, <2>2, <2>3, <2>4, EpochElsewhere
<1>f. ASSUME NEW e \in Epochs, NEW why \in {"Failed", "NeedsAuth"}, Fail(e, why),
             pc[Connect(e)] \notin {"idle", "begin"}, UNCHANGED <<epoch, mShutdown>>
      PROVE  EpochInv'
  <2>1. CASE epoch # e BY <1>f, <2>1, EpochTask DEF Fail, Stale
  <2>2. CASE epoch = e BY <1>f, <2>2, EpochTask DEF Fail
  <2> QED BY <2>1, <2>2
<1>3. ASSUME NEW e \in Epochs, ConnectStep(e) \/ Closed(e) PROVE EpochInv'
  <2>1. CASE ConnectBegins(e)
    <3>1. /\ UNCHANGED <<epoch, mShutdown, state>> /\ pc[Connect(e)] = "begin"
          /\ Go(Connect(e), IF Stale(e) THEN "idle" ELSE "announce")
      BY <2>1 DEF ConnectBegins
    <3>2. CASE Stale(e)
      <4>1. Go(Connect(e), "idle") BY <3>1, <3>2
      <4> QED BY ONLY TypeInv, PlaceInv, EpochInv, <3>1, <3>2, <4>1, EpochTask
    <3>3. CASE ~Stale(e)
      <4>1. Go(Connect(e), "announce") /\ ~mShutdown BY <3>1, <3>3 DEF Stale
      <4> QED BY ONLY TypeInv, PlaceInv, EpochInv, <3>1, <4>1, EpochTask
    <3> QED BY ONLY <3>2, <3>3
  <2>2. CASE MakeClient(e)
    <3>1. UNCHANGED <<epoch, mShutdown>> /\ pc[Connect(e)] = "make"
      BY <2>2 DEF MakeClient
    <3>2. CASE CannotMake(e) BY <1>f, <3>1, <3>2 DEF CannotMake
    <3>3. CASE Stale(e) /\ Go(Connect(e), "idle") /\ state' = state
      BY <3>1, <3>3, EpochTask
    <3>4. CASE Go(Connect(e), "shake") /\ state' = state
      BY <3>1, <3>4, EpochTask
    <3> QED BY <2>2, <3>2, <3>3, <3>4 DEF MakeClient
  <2>3. CASE Shaken(e)
    <3>1. UNCHANGED <<epoch, mShutdown, state>> BY <2>3 DEF Shaken
    <3> QED BY <2>3, <3>1, EpochTask DEF Shaken
  <2>4. CASE ShakeFails(e)
    <3>1. UNCHANGED <<epoch, mShutdown>> BY <2>4 DEF ShakeFails
    <3> QED BY <1>f, <2>4, <3>1 DEF ShakeFails
  <2>5. CASE InstallClient(e)
    <3>1. UNCHANGED <<epoch, mShutdown>> BY <2>5 DEF InstallClient
    <3> QED BY <2>5, <3>1, EpochTask DEF InstallClient, CloseOrphan
  <2>6. CASE Closed(e) BY <2>6, EpochKept DEF Closed
  <2> QED BY <1>3, <2>1, <2>2, <2>3, <2>4, <2>5, <2>6 DEF ConnectStep
<1>4. CASE ListChanges
  <2>1. PICK w \in Workers : Go(w, "wait") BY <1>4 DEF ListChanges
  <2>2. UNCHANGED <<epoch, mShutdown, state>> BY <1>4 DEF ListChanges
  <2> QED BY <2>1, <2>2, EpochElsewhere
<1>5. CASE Calling
  <2>1. /\ UNCHANGED <<epoch, mShutdown>> /\ \E place : Go(Call, place)
        /\ state' = state \/ state' = "NeedsAuth"
    BY <1>5 DEF Calling, CallBegins, WaitEnds, CallEnds, Prompted, LastEnds, NeedsLogin
  <2> QED BY <2>1, EpochElsewhere
<1>7. ASSUME NEW t \in Workers \cup {Ui}, pc[t] = "idle", DoReconnect(t),
             UNCHANGED mShutdown
      PROVE  EpochInv'
  <2>1. CASE state \in {"Disabled", "NeedsApproval"}
    <3>1. Go(t, "publish") /\ UNCHANGED <<state, epoch>>
      BY <1>7, <2>1 DEF DoReconnect
    <3> QED BY <1>7, <3>1, EpochElsewhere
  <2>2. CASE state \notin {"Disabled", "NeedsApproval"}
    BY <1>7, <2>2, EpochSpawn DEF DoReconnect
  <2> QED BY <2>1, <2>2
<1>8. CASE HandleMcp
  <2>1. CASE Approve
    <3>1. CASE StartConnect /\ Spawned(Ui) BY <2>1, <3>1, EpochSpawn DEF Approve
    <3>2. CASE Go(Ui, "publish") /\ UNCHANGED <<state, epoch>>
      BY <2>1, <3>2, EpochElsewhere DEF Approve
    <3> QED BY <2>1, <3>1, <3>2 DEF Approve
  <2>2. CASE Disable
    <3>1. /\ epoch' = epoch + 1 /\ epoch \in Nat /\ epoch' \in Epochs /\ ~mShutdown
          /\ state' = "Disabled" /\ mShutdown' = mShutdown
      BY <2>2, RegistryAssumption DEF Disable, TypeInv, TypeOK, Epochs
    <3>2. /\ \A e \in Epochs : pc'[Connect(e)] = pc[Connect(e)]
          /\ pc'[Ui] = "publish"
      BY <2>2, Moves DEF Disable
    <3>3. \A e \in Epochs : e > epoch' => pc'[Connect(e)] = "idle"
      BY <3>1, <3>2 DEF EpochInv, Epochs
    <3> QED BY <3>1, <3>2, <3>3 DEF EpochInv
  <2>3. CASE Enable
    <3>1. CASE StartConnect /\ Spawned(Ui) BY <2>3, <3>1, EpochSpawn DEF Enable
    <3>2. CASE Go(Ui, "publish") /\ UNCHANGED epoch /\ (state' = state \/ state' = "NeedsApproval")
      BY <2>3, <3>2, EpochElsewhere DEF Enable
    <3> QED BY <2>3, <3>1, <3>2 DEF Enable
  <2>4. CASE Reconnect BY <1>7, <2>4 DEF Reconnect
  <2>5. CASE LoggedIn BY <1>7, <2>5 DEF LoggedIn
  <2> QED BY <1>8, <2>1, <2>2, <2>3, <2>4, <2>5 DEF HandleMcp
<1>9. CASE ShutdownBegins
  <2>1. /\ epoch' = epoch + 1 /\ epoch \in Nat /\ ~mShutdown /\ mShutdown'
    BY <1>9, RegistryAssumption DEF ShutdownBegins, TypeInv, TypeOK
  <2>2. /\ \A e \in Epochs : pc'[Connect(e)] = pc[Connect(e)]
        /\ pc'[Ui] = "joining"
    BY <1>9, Moves DEF ShutdownBegins
  <2>3. \A e \in Epochs : e >= epoch' => pc'[Connect(e)] = "idle"
    BY <2>1, <2>2 DEF EpochInv, Epochs
  <2>4. \A e \in Epochs : e > epoch' => e >= epoch'
    BY <2>1, RegistryAssumption DEF Epochs
  <2> QED BY <2>1, <2>2, <2>3, <2>4 DEF EpochInv
<1>10. CASE ShutdownEnds
  <2>1. /\ mShutdown /\ UNCHANGED <<epoch, mShutdown>>
        /\ \A e \in Epochs : pc[Connect(e)] \in {"idle", "begin"}
    BY <1>10 DEF ShutdownEnds, TasksDone, EpochInv, Connects
  <2>2. /\ \A e \in Epochs : pc'[Connect(e)] = pc[Connect(e)]
        /\ pc'[Ui] = "over"
    BY <1>10, Moves DEF ShutdownEnds
  <2> QED BY <2>1, <2>2 DEF EpochInv
<1>11. CASE UNCHANGED vars BY <1>11, EpochKept DEF vars
<1> QED BY <1>1, <1>2, <1>3, <1>4, <1>5, <1>8, <1>9, <1>10, <1>11 DEF Next
----------------------------------------------------------------------------
\* The snapshot: while it is out of date some thread has yet to copy the catalog,
\* or has a copy of it as it is.

PublishInv ==
    /\ CopyInv
    /\ \/ \E t \in Threads : Owing(t) /\ copy[t] \in {NoCatalog, View}
       \/ mSnapshot = View /\ \A t \in Threads : copy[t] = NoCatalog

\* A step of a thread that is not publishing: what changes the view owes a publish.
LEMMA PublishKept ==
    ASSUME PublishInv, NEW t \in Threads, ~Owing(t),
           \A u \in Threads \ {t} : Owing(u) => Owing(u)',
           UNCHANGED <<copy, mSnapshot>>, View' = View \/ Owing(t)'
    PROVE  PublishInv'
<1>1. CopyInv' BY DEF PublishInv, CopyInv
<1>2. CASE Owing(t)'
  <2>1. copy'[t] = NoCatalog BY DEF PublishInv, CopyInv
  <2> QED BY <1>1, <1>2, <2>1 DEF PublishInv
<1>3. CASE View' = View
  <2>1. CASE \E u \in Threads : Owing(u) /\ copy[u] \in {NoCatalog, View}
    <3>1. PICK u \in Threads : Owing(u) /\ copy[u] \in {NoCatalog, View} BY <2>1
    <3>2. Owing(u)' BY <3>1
    <3> QED BY <1>1, <1>3, <3>1, <3>2 DEF PublishInv
  <2>2. CASE mSnapshot = View /\ \A u \in Threads : copy[u] = NoCatalog
    BY <1>1, <1>3, <2>2 DEF PublishInv
  <2> QED BY <2>1, <2>2 DEF PublishInv
<1> QED BY <1>2, <1>3

\* The same for a step that moves one thread.
LEMMA PublishGo ==
    ASSUME PlaceInv, PublishInv, NEW t \in Threads, ~Owing(t), NEW place, Go(t, place),
           UNCHANGED <<copy, mSnapshot>>,
           UNCHANGED <<state, tools, cached>> \/ place \in {"publish", "republish"}
    PROVE  PublishInv'
<1>1. \A u \in Threads \ {t} : Owing(u) => Owing(u)' BY Moves DEF Owing
<1>2. pc'[t] = place BY Moves
<1>3. View' = View \/ Owing(t)'
  <2>1. CASE UNCHANGED <<state, tools, cached>> BY <2>1 DEF View
  <2>2. CASE place \in {"publish", "republish"} BY <1>2, <2>2 DEF Owing
  <2> QED BY <2>1, <2>2
<1> QED BY <1>1, <1>3, PublishKept

LEMMA PublishSpawn ==
    ASSUME TypeInv, PlaceInv, EpochInv, PublishInv, UNCHANGED mShutdown,
           NEW t \in Workers \cup {Ui}, pc[t] = "idle", StartConnect, Spawned(t),
           UNCHANGED <<copy, mSnapshot>>
    PROVE  PublishInv'
<1>1. t \in Threads /\ ~Owing(t) BY ThreadFacts DEF Owing
<1>2. /\ pc[Connect(epoch')] = "idle" /\ pc'[t] = "publish"
      /\ \A u \in Threads \ {t, Connect(epoch')} : pc'[u] = pc[u]
  BY EpochSpawn
<1>3. Owing(t)' BY <1>2 DEF Owing
<1>4. \A u \in Threads \ {t} : Owing(u) => Owing(u)' BY <1>2 DEF Owing
<1> QED BY <1>1, <1>3, <1>4, PublishKept

LEMMA PublishCopies ==
    ASSUME TypeInv, PublishInv, NEW t \in Threads, CopyCatalog(t)
    PROVE  PublishInv'
<1>1. /\ Owing(t) /\ \A u \in Threads : copy[u] = NoCatalog
      /\ copy \in [Threads -> Catalogs]
      /\ copy' = [copy EXCEPT ![t] = View] /\ UNCHANGED <<pc, state, tools, cached>>
  BY DEF CopyCatalog, MayCopy, Owing, TypeInv, TypeOK, serverVars
<1>2. View' = View BY <1>1 DEF View
<1>3. copy'[t] = View /\ \A u \in Threads \ {t} : copy'[u] = NoCatalog BY <1>1
<1>4. \A u \in Threads : Owing(u)' <=> Owing(u) BY <1>1 DEF Owing
<1>5. CopyInv' BY <1>1, <1>3, <1>4 DEF CopyInv
<1> QED BY <1>1, <1>2, <1>3, <1>4, <1>5 DEF PublishInv

LEMMA ViewIsNotNone == TypeInv => View # NoCatalog
<1> SUFFICES ASSUME TypeInv PROVE View # NoCatalog
  OBVIOUS
<1>1. View.state = state BY DEF View
<1>2. NoCatalog.state = "none" BY DEF NoCatalog
<1>3. state # "none" BY DEF TypeInv, TypeOK, States
<1> QED BY <1>1, <1>2, <1>3

LEMMA PublishInstalls ==
    ASSUME TypeInv, PlaceInv, PublishInv, NEW t \in Threads, InstallSnapshot(t)
    PROVE  PublishInv'
<1>1. /\ copy[t] # NoCatalog /\ mSnapshot' = copy[t]
      /\ copy' = [copy EXCEPT ![t] = NoCatalog] /\ UNCHANGED <<state, tools, cached>>
      /\ copy \in [Threads -> Catalogs]
  BY DEF InstallSnapshot, TypeInv, TypeOK, serverVars
<1>2. View' = View BY <1>1 DEF View
<1>3. \A u \in Threads \ {t} : copy[u] = NoCatalog BY <1>1 DEF PublishInv, CopyInv
<1>4. \A u \in Threads : copy'[u] = NoCatalog BY <1>1, <1>3
<1>5. CopyInv' BY <1>4 DEF CopyInv
<1>6. \A u \in Threads \ {t} : Owing(u) => Owing(u)'
  BY Moves DEF InstallSnapshot, Owing
<1>7. PICK u \in Threads : Owing(u) /\ copy[u] \in {NoCatalog, View}
  BY <1>1 DEF PublishInv
<1>8. CASE u = t BY <1>1, <1>2, <1>4, <1>5, <1>7, <1>8 DEF PublishInv
<1>9. CASE u # t BY <1>4, <1>5, <1>6, <1>7, <1>9 DEF PublishInv
<1> QED BY <1>8, <1>9

LEMMA PublishStep ==
    TypeInv /\ PlaceInv /\ EpochInv /\ PublishInv /\ [Next]_vars => PublishInv'
<1> SUFFICES ASSUME TypeInv, PlaceInv, EpochInv, PublishInv, [Next]_vars
             PROVE  PublishInv'
  OBVIOUS
<1> USE ThreadFacts, PublishGo DEF serverVars, threadVars, Owing
<1>1. ASSUME NEW t \in Threads, Publishing(t) PROVE PublishInv'
  BY <1>1, PublishCopies, PublishInstalls DEF Publishing
<1>2. ASSUME NEW t \in Threads, Refreshing(t) PROVE PublishInv'
  <2>1. CASE RefreshBegins(t) BY <2>1 DEF RefreshBegins
  <2>2. CASE RefreshLists(t) BY <2>2 DEF RefreshLists
  <2>3. CASE RefreshStores(t) BY <2>3 DEF RefreshStores
  <2> QED BY <1>2, <2>1, <2>2, <2>3 DEF Refreshing
<1>3. ASSUME NEW e \in Epochs, ConnectStep(e) \/ Closed(e) PROVE PublishInv'
  <2>1. CASE ConnectBegins(e) BY <2>1 DEF ConnectBegins
  <2>2. CASE MakeClient(e) BY <2>2 DEF MakeClient, CannotMake, Fail
  <2>3. CASE Shaken(e) BY <2>3 DEF Shaken
  <2>4. CASE ShakeFails(e) BY <2>4 DEF ShakeFails, Fail
  <2>5. CASE InstallClient(e) BY <2>5 DEF InstallClient, CloseOrphan
  <2>6. CASE Closed(e)
    <3>1. UNCHANGED <<pc, copy, mSnapshot, state, tools, cached>> BY <2>6 DEF Closed
    <3> QED BY <3>1 DEF PublishInv, CopyInv, View
  <2> QED BY <1>3, <2>1, <2>2, <2>3, <2>4, <2>5, <2>6 DEF ConnectStep
<1>4. CASE ListChanges BY <1>4 DEF ListChanges
<1>5. CASE Calling
  <2>1. CASE CallBegins BY <2>1 DEF CallBegins
  <2>2. CASE WaitEnds BY <2>2 DEF WaitEnds
  <2>3. CASE CallEnds BY <2>3 DEF CallEnds
  <2>4. CASE Prompted BY <2>4 DEF Prompted, NeedsLogin
  <2>5. CASE LastEnds BY <2>5 DEF LastEnds, NeedsLogin
  <2> QED BY <1>5, <2>1, <2>2, <2>3, <2>4, <2>5 DEF Calling
<1>7. ASSUME NEW t \in Workers \cup {Ui}, pc[t] = "idle", DoReconnect(t),
             UNCHANGED <<mShutdown, copy, mSnapshot>>
      PROVE  PublishInv'
  BY <1>7, PublishSpawn DEF DoReconnect
<1>8. CASE HandleMcp
  <2>1. CASE Approve BY <2>1, PublishSpawn DEF Approve
  <2>2. CASE Disable BY <2>2 DEF Disable
  <2>3. CASE Enable BY <2>3, PublishSpawn DEF Enable
  <2>4. CASE Reconnect BY <1>7, <2>4 DEF Reconnect
  <2>5. CASE LoggedIn BY <1>7, <2>5 DEF LoggedIn
  <2> QED BY <1>8, <2>1, <2>2, <2>3, <2>4, <2>5 DEF HandleMcp
<1>9. CASE ShutdownBegins BY <1>9 DEF ShutdownBegins
<1>10. CASE ShutdownEnds BY <1>10 DEF ShutdownEnds
<1>11. CASE UNCHANGED vars
  <2>1. UNCHANGED <<pc, copy, mSnapshot, state, tools, cached>> BY <1>11 DEF vars
  <2> QED BY <2>1 DEF PublishInv, CopyInv, View
<1> QED BY <1>1, <1>2, <1>3, <1>4, <1>5, <1>8, <1>9, <1>10, <1>11 DEF Next
----------------------------------------------------------------------------
\* Clients: the client installed is that of the epoch in force and its task is
\* past the install; any other that runs is still held by its connect task.

ClientInv ==
    /\ client # 0 => pc[Connect(client)] \in {"publish", "idle"}
    /\ state \in {"NeedsApproval", "Disabled"} => client = 0
    /\ client # 0 /\ ~mShutdown => client = epoch
    /\ \A e \in Epochs : proc[e] = "up" =>
          e = client \/ pc[Connect(e)] \in {"shake", "install"}
    /\ pc[Ui] = "over" => \A e \in Epochs : proc[e] \notin {"up", "closing"}

LEMMA ClientKept ==
    ASSUME TypeInv, ClientInv, UNCHANGED <<epoch, mShutdown, client, proc>>,
           state' \in {"NeedsApproval", "Disabled"} =>
               state \in {"NeedsApproval", "Disabled"},
           \A e \in Epochs : pc'[Connect(e)] = pc[Connect(e)],
           pc'[Ui] = "over" => pc[Ui] = "over"
    PROVE  ClientInv'
<1>1. client # 0 => client \in Epochs BY DEF TypeInv, TypeOK, Epochs
<1> QED BY <1>1 DEF ClientInv

LEMMA ClientGo ==
    ASSUME TypeInv, PlaceInv, ClientInv, UNCHANGED <<epoch, mShutdown, client, proc>>,
           state' \in {"NeedsApproval", "Disabled"} =>
               state \in {"NeedsApproval", "Disabled"},
           NEW t \in Threads, \A e \in Epochs : t # Connect(e),
           NEW place, Go(t, place), t = Ui => place # "over"
    PROVE  ClientInv'
<1>1. /\ \A e \in Epochs : pc'[Connect(e)] = pc[Connect(e)]
      /\ pc'[Ui] = "over" => pc[Ui] = "over"
  BY Moves, ThreadFacts
<1> QED BY <1>1, ClientKept

\* A step of a connect task that changes no client: it holds none, or goes on
\* holding it.
LEMMA ClientTask ==
    ASSUME TypeInv, PlaceInv, ClientInv, UNCHANGED <<epoch, mShutdown, client, proc, state>>,
           NEW e \in Epochs, NEW place, Go(Connect(e), place),
           \/ /\ pc[Connect(e)] \in {"begin", "announce", "make"}
              /\ client # e
           \/ pc[Connect(e)] = "shake" /\ place = "install"
           \/ pc[Connect(e)] = "publish" /\ place = "idle"
    PROVE  ClientInv'
<1>1. /\ pc'[Connect(e)] = place /\ pc'[Ui] = pc[Ui]
      /\ \A f \in Epochs \ {e} : pc'[Connect(f)] = pc[Connect(f)]
  BY Moves, ThreadFacts
<1>2. client # 0 => client \in Epochs BY DEF TypeInv, TypeOK, Epochs
<1> QED BY <1>1, <1>2 DEF ClientInv

\* The client in force is dropped and told to close, under a new epoch or not.
LEMMA ClientDropped ==
    ASSUME TypeInv, PlaceInv, ClientInv, ClosingClient, client' = 0,
           \A e \in Epochs : pc[Connect(e)] # "idle" => pc'[Connect(e)] = pc[Connect(e)],
           pc'[Ui] = "over" => pc[Ui] = "over"
    PROVE  ClientInv'
<1>1. proc \in [Epochs -> {"none", "up", "closing", "closed"}]
  BY DEF TypeInv, TypeOK
<1>2. \A e \in Epochs : proc'[e] = "up" => proc[e] = "up" /\ e # client
  <2> SUFFICES ASSUME NEW e \in Epochs, proc'[e] = "up" PROVE proc[e] = "up" /\ e # client
    OBVIOUS
  <2>1. e # 0 BY DEF Epochs
  <2>2. CASE client # 0 /\ proc[client] = "up"
    <3>1. client \in Epochs BY <2>2 DEF TypeInv, TypeOK, Epochs
    <3>2. proc' = [proc EXCEPT ![client] = "closing"] BY <2>2 DEF ClosingClient
    <3> QED BY <1>1, <3>1, <3>2
  <2>3. CASE ~(client # 0 /\ proc[client] = "up")
    <3>1. proc' = proc BY <2>3 DEF ClosingClient
    <3> QED BY <2>1, <2>3, <3>1
  <2> QED BY <2>2, <2>3
<1>3. \A e \in Epochs : proc'[e] = "up" => pc'[Connect(e)] \in {"shake", "install"}
  <2> SUFFICES ASSUME NEW e \in Epochs, proc'[e] = "up"
               PROVE  pc'[Connect(e)] \in {"shake", "install"}
    OBVIOUS
  <2>1. pc[Connect(e)] \in {"shake", "install"} BY <1>2 DEF ClientInv
  <2> QED BY <2>1
<1>4. pc[Ui] = "over" => proc' = proc
  <2>1. client # 0 => client \in Epochs BY DEF TypeInv, TypeOK, Epochs
  <2> QED BY <2>1 DEF ClosingClient, ClientInv
<1> QED BY <1>3, <1>4 DEF ClientInv

\* A connect fails: with its epoch in force no client was installed.
LEMMA ClientFails ==
    ASSUME TypeInv, PlaceInv, EpochInv, ClientInv, UNCHANGED <<epoch, mShutdown>>,
           NEW e \in Epochs, pc[Connect(e)] \in {"make", "shake"},
           NEW why \in {"Failed", "NeedsAuth"}, Fail(e, why),
           \/ proc' = [proc EXCEPT ![e] = "closed"]
           \/ proc' = proc /\ pc[Connect(e)] = "make"
    PROVE  ClientInv'
<1>1. \E place : Go(Connect(e), place) BY DEF Fail
<1>2. pc'[Ui] = pc[Ui] /\ \A f \in Epochs \ {e} : pc'[Connect(f)] = pc[Connect(f)]
  BY <1>1, Moves, ThreadFacts
<1>3. client # e /\ pc[Ui] # "over" BY DEF ClientInv, EpochInv, Epochs
<1>4. proc \in [Epochs -> {"none", "up", "closing", "closed"}]
  BY DEF TypeInv, TypeOK
<1>5. proc'[e] # "up" /\ \A f \in Epochs \ {e} : proc'[f] = proc[f]
  BY <1>3, <1>4 DEF ClientInv
<1>6. client # 0 => client \in Epochs BY DEF TypeInv, TypeOK, Epochs
<1>7. CASE epoch # e
  <2>1. UNCHANGED <<state, client>> BY <1>7 DEF Fail
  <2> QED BY <1>2, <1>3, <1>5, <1>6, <2>1 DEF ClientInv
<1>8. CASE epoch = e
  <2>1. state' = why /\ client' = 0 BY <1>8 DEF Fail
  <2>2. ~mShutdown BY <1>8, RegistryAssumption DEF EpochInv, Epochs
  <2>3. client = 0 BY <1>3, <1>8, <2>2 DEF ClientInv
  <2> QED BY <1>2, <1>3, <1>5, <2>1, <2>3 DEF ClientInv
<1> QED BY <1>7, <1>8
LEMMA ClientInstalled ==
    ASSUME TypeInv, PlaceInv, EpochInv, ClientInv, NEW e \in Epochs, InstallClient(e)
    PROVE  ClientInv'
<1>1. /\ pc[Connect(e)] = "install" /\ UNCHANGED <<epoch, mShutdown>>
      /\ \E place : Go(Connect(e), place)
  BY DEF InstallClient, CloseOrphan
<1>2. pc'[Ui] = pc[Ui] /\ \A f \in Epochs \ {e} : pc'[Connect(f)] = pc[Connect(f)]
  BY <1>1, Moves, ThreadFacts
<1>3. client # e /\ pc[Ui] # "over" BY <1>1 DEF ClientInv, EpochInv, Epochs
<1>4. client # 0 => client \in Epochs BY DEF TypeInv, TypeOK, Epochs
<1>5. CASE Stale(e)
  <2>1. UNCHANGED <<state, client>> /\ proc' = [proc EXCEPT ![e] = "closed"]
    BY <1>5 DEF InstallClient, CloseOrphan
  <2>2. proc'[e] # "up" /\ \A f \in Epochs \ {e} : proc'[f] = proc[f]
    BY <2>1 DEF TypeInv, TypeOK
  <2> QED BY <1>1, <1>2, <1>3, <1>4, <2>1, <2>2 DEF ClientInv
<1>6. CASE ~Stale(e)
  <2>1. /\ client' = e /\ state' = "Connected" /\ proc' = proc
        /\ Go(Connect(e), "publish")
    BY <1>6 DEF InstallClient
  <2>2. pc'[Connect(e)] = "publish" BY <2>1, Moves, ThreadFacts
  <2>3. client = 0 /\ epoch = e BY <1>3, <1>6 DEF Stale, ClientInv
  <2> QED BY <1>1, <1>2, <1>3, <2>1, <2>2, <2>3 DEF ClientInv, Epochs
<1> QED BY <1>5, <1>6

\* The first connect of an epoch: no client was there to drop.
LEMMA ClientSpawn ==
    ASSUME TypeInv, PlaceInv, EpochInv, ClientInv, UNCHANGED mShutdown,
           NEW t \in Workers \cup {Ui}, pc[t] = "idle", StartConnect, Spawned(t),
           client = 0, UNCHANGED <<client, proc>>
    PROVE  ClientInv'
<1>1. /\ pc[Connect(epoch')] = "idle" /\ pc'[t] = "publish"
      /\ \A u \in Threads \ {t, Connect(epoch')} : pc'[u] = pc[u]
      /\ epoch' \in Epochs
  BY EpochSpawn
<1>2. \A e \in Epochs : pc[Connect(e)] # "idle" => pc'[Connect(e)] = pc[Connect(e)]
  BY <1>1, ThreadFacts
<1>3. pc'[Ui] = "over" => pc[Ui] = "over" BY <1>1, ThreadFacts
<1>4. ClosingClient BY DEF ClosingClient
<1> QED BY <1>2, <1>3, <1>4, ClientDropped

LEMMA ClientStep ==
    TypeInv /\ PlaceInv /\ EpochInv /\ CopyInv /\ ClientInv /\ [Next]_vars => ClientInv'
<1> SUFFICES ASSUME TypeInv, PlaceInv, EpochInv, CopyInv, ClientInv, [Next]_vars
             PROVE  ClientInv'
  OBVIOUS
<1> USE ThreadFacts DEF serverVars, threadVars
<1>1. ASSUME NEW t \in Threads, Publishing(t) PROVE ClientInv'
  <2>1. CASE CopyCatalog(t) BY <2>1, ClientKept DEF CopyCatalog
  <2>2. CASE InstallSnapshot(t)
    <3> DEFINE place == CASE pc[t] = "announce" -> "make"
                          [] pc[t] = "republish" -> "retry"
                          [] OTHER -> "idle"
    <3>1. Go(t, place) /\ UNCHANGED <<state, epoch, mShutdown, client, proc>>
      BY <2>2 DEF InstallSnapshot
    <3>2. /\ place \in {"make", "retry", "idle"}
          /\ pc[t] = "publish" => place = "idle"
      OBVIOUS
    <3> HIDE DEF place
    <3>3. CASE t \in Workers \cup {Ui, Call} BY <3>1, <3>2, <3>3, ClientGo
    <3>4. ASSUME NEW e \in Epochs, t = Connect(e) PROVE ClientInv'
      <4>1. pc[t] \in {"announce", "publish"}
        BY <2>2, <3>4 DEF CopyInv, Owing, PlaceInv, ConnectPlaces, InstallSnapshot
      <4>2. pc[t] = "announce" => client # e BY <3>4 DEF ClientInv, Epochs
      <4> QED BY <3>1, <3>2, <3>4, <4>1, <4>2, ClientTask
    <3> QED BY <3>3, <3>4
  <2> QED BY <1>1, <2>1, <2>2 DEF Publishing
<1>2. ASSUME NEW t \in Threads, Refreshing(t) PROVE ClientInv'
  <2>1. \A e \in Epochs : t # Connect(e)
    BY <1>2 DEF Refreshing, RefreshBegins, RefreshLists, RefreshStores, PlaceInv,
                ConnectPlaces
  <2>2. t # Ui
    BY <1>2 DEF Refreshing, RefreshBegins, RefreshLists, RefreshStores, PlaceInv, UiPlaces
  <2>3. \E place : Go(t, place)
    BY <1>2 DEF Refreshing, RefreshBegins, RefreshLists, RefreshStores
  <2>4. UNCHANGED <<epoch, mShutdown, state, client, proc>>
    BY <1>2 DEF Refreshing, RefreshBegins, RefreshLists, RefreshStores
  <2> QED BY <2>1, <2>2, <2>3, <2>4, ClientGo
<1>3. ASSUME NEW e \in Epochs, ConnectStep(e) \/ Closed(e) PROVE ClientInv'
  <2>e. e # 0 BY DEF Epochs
  <2>1. CASE ConnectBegins(e)
    <3>1. pc[Connect(e)] = "begin" /\ UNCHANGED <<epoch, mShutdown, state, client, proc>>
      BY <2>1 DEF ConnectBegins
    <3>2. client # e BY <2>e, <3>1 DEF ClientInv
    <3> QED BY <2>1, <3>1, <3>2, ClientTask DEF ConnectBegins
  <2>2. CASE MakeClient(e)
    <3>1. UNCHANGED <<epoch, mShutdown>> /\ pc[Connect(e)] = "make"
      BY <2>2 DEF MakeClient
    <3>2. client # e BY <2>e, <3>1 DEF ClientInv
    <3>3. CASE CannotMake(e) /\ proc' = proc
      BY <3>1, <3>3, ClientFails DEF CannotMake
    <3>4. CASE Go(Connect(e), "idle") /\ UNCHANGED <<state, client, proc>>
      BY <3>1, <3>2, <3>4, ClientTask
    <3>5. CASE /\ ~Stale(e) /\ Go(Connect(e), "shake") /\ UNCHANGED <<state, client>>
               /\ proc' = [proc EXCEPT ![e] = "up"]
      <4>1. /\ pc'[Connect(e)] = "shake" /\ pc'[Ui] = pc[Ui]
            /\ \A f \in Epochs \ {e} : pc'[Connect(f)] = pc[Connect(f)]
        BY <3>5, Moves
      <4>2. \A f \in Epochs \ {e} : proc'[f] = proc[f]
        BY <3>5 DEF TypeInv, TypeOK
      <4>3. pc[Ui] # "over" BY <3>1 DEF EpochInv
      <4>4. client # 0 => client \in Epochs BY DEF TypeInv, TypeOK, Epochs
      <4> QED BY <3>1, <3>2, <3>5, <4>1, <4>2, <4>3, <4>4 DEF ClientInv
    <3> QED BY <2>2, <3>3, <3>4, <3>5 DEF MakeClient
  <2>3. CASE Shaken(e)
    <3>1. UNCHANGED <<epoch, mShutdown, state, client, proc>> BY <2>3 DEF Shaken
    <3> QED BY <2>3, <3>1, ClientTask DEF Shaken
  <2>4. CASE ShakeFails(e)
    <3>1. /\ UNCHANGED <<epoch, mShutdown>> /\ pc[Connect(e)] = "shake"
          /\ proc' = [proc EXCEPT ![e] = "closed"]
          /\ \E why \in {"Failed", "NeedsAuth"} : Fail(e, why)
      BY <2>4 DEF ShakeFails
    <3> QED BY <3>1, ClientFails
  <2>5. CASE InstallClient(e) BY <2>5, ClientInstalled
  <2>6. CASE Closed(e)
    <3>1. /\ UNCHANGED <<epoch, mShutdown, state, client, pc>>
          /\ proc' = [proc EXCEPT ![e] = "closed"]
      BY <2>6 DEF Closed
    <3>2. proc'[e] = "closed" /\ \A f \in Epochs \ {e} : proc'[f] = proc[f]
      BY <3>1 DEF TypeInv, TypeOK
    <3> QED BY <3>1, <3>2 DEF ClientInv
  <2> QED BY <1>3, <2>1, <2>2, <2>3, <2>4, <2>5, <2>6 DEF ConnectStep
<1>4. CASE ListChanges
  <2>1. PICK w \in Workers : Go(w, "wait") BY <1>4 DEF ListChanges
  <2>2. UNCHANGED <<epoch, mShutdown, state, client, proc>> BY <1>4 DEF ListChanges
  <2> QED BY <2>1, <2>2, ClientGo
<1>5. CASE Calling
  <2>1. /\ UNCHANGED <<epoch, mShutdown, client, proc>> /\ \E place : Go(Call, place)
        /\ state' = state \/ state' = "NeedsAuth"
    BY <1>5 DEF Calling, CallBegins, WaitEnds, CallEnds, Prompted, LastEnds, NeedsLogin
  <2> QED BY <2>1, ClientGo
<1>7. ASSUME NEW t \in Workers \cup {Ui}, pc[t] = "idle", DoReconnect(t),
             UNCHANGED mShutdown
      PROVE  ClientInv'
  <2>1. CASE state \in {"Disabled", "NeedsApproval"}
    <3>1. Go(t, "publish") /\ UNCHANGED <<state, epoch, client, proc>>
      BY <1>7, <2>1 DEF DoReconnect
    <3> QED BY <1>7, <3>1, ClientGo
  <2>2. CASE state \notin {"Disabled", "NeedsApproval"}
    <3>1. ClosingClient /\ client' = 0 /\ StartConnect /\ Spawned(t)
      BY <1>7, <2>2 DEF DoReconnect
    <3>2. /\ pc[Connect(epoch')] = "idle" /\ pc'[t] = "publish" /\ epoch' \in Epochs
          /\ \A u \in Threads \ {t, Connect(epoch')} : pc'[u] = pc[u]
      BY <1>7, <3>1, EpochSpawn
    <3>3. \A e \in Epochs : pc[Connect(e)] # "idle" => pc'[Connect(e)] = pc[Connect(e)]
      BY <3>2
    <3>4. pc'[Ui] = "over" => pc[Ui] = "over" BY <1>7, <3>2
    <3> QED BY <3>1, <3>3, <3>4, ClientDropped
  <2> QED BY <2>1, <2>2
<1>8. CASE HandleMcp
  <2>1. CASE Approve
    <3>1. CASE state = "NeedsApproval" /\ StartConnect /\ Spawned(Ui)
      <4>1. client = 0 BY <3>1 DEF ClientInv
      <4> QED BY <2>1, <3>1, <4>1, ClientSpawn DEF Approve
    <3>2. CASE Go(Ui, "publish") /\ UNCHANGED <<state, epoch>>
      BY <2>1, <3>2, ClientGo DEF Approve
    <3> QED BY <2>1, <3>1, <3>2 DEF Approve
  <2>2. CASE Disable
    <3>1. ClosingClient /\ client' = 0 /\ Go(Ui, "publish") BY <2>2 DEF Disable
    <3>2. pc'[Ui] = "publish" /\ \A e \in Epochs : pc'[Connect(e)] = pc[Connect(e)]
      BY <3>1, Moves
    <3> QED BY <3>1, <3>2, ClientDropped
  <2>3. CASE Enable
    <3>1. CASE state = "Disabled" /\ StartConnect /\ Spawned(Ui)
      <4>1. client = 0 BY <3>1 DEF ClientInv
      <4> QED BY <2>3, <3>1, <4>1, ClientSpawn DEF Enable
    <3>2. CASE /\ Go(Ui, "publish") /\ UNCHANGED epoch
               /\ \/ state' = state
                  \/ state = "Disabled" /\ state' = "NeedsApproval"
      BY <2>3, <3>2, ClientGo DEF Enable
    <3> QED BY <2>3, <3>1, <3>2 DEF Enable
  <2>4. CASE Reconnect BY <1>7, <2>4 DEF Reconnect
  <2>5. CASE LoggedIn BY <1>7, <2>5 DEF LoggedIn
  <2> QED BY <1>8, <2>1, <2>2, <2>3, <2>4, <2>5 DEF HandleMcp
<1>9. CASE ShutdownBegins
  <2>1. /\ mShutdown' /\ UNCHANGED <<state, client>> /\ TellAll /\ Go(Ui, "joining")
    BY <1>9 DEF ShutdownBegins
  <2>2. pc'[Ui] = "joining" /\ \A e \in Epochs : pc'[Connect(e)] = pc[Connect(e)]
    BY <2>1, Moves
  <2>3. \A e \in Epochs : proc'[e] = "up" => proc[e] = "up" BY <2>1 DEF TellAll
  <2>4. client # 0 => client \in Epochs BY DEF TypeInv, TypeOK, Epochs
  <2> QED BY <2>1, <2>2, <2>3, <2>4 DEF ClientInv
<1>10. CASE ShutdownEnds
  <2>1. /\ \A e \in Epochs : pc[Connect(e)] \in {"idle", "begin"} /\ proc[e] # "closing"
        /\ client' = 0
        /\ proc' = IF client = 0 THEN proc ELSE [proc EXCEPT ![client] = "closed"]
    BY <1>10 DEF ShutdownEnds, TasksDone, Connects
  <2>2. \A e \in Epochs : proc[e] = "up" => e = client BY <2>1 DEF ClientInv
  <2>3. \A e \in Epochs : proc'[e] \notin {"up", "closing"}
    <3>1. CASE client = 0 BY <2>1, <2>2, <3>1 DEF Epochs
    <3>2. CASE client # 0
      <4>1. proc \in [Epochs -> {"none", "up", "closing", "closed"}]
        BY DEF TypeInv, TypeOK
      <4> QED BY <2>1, <2>2, <3>2, <4>1
    <3> QED BY <3>1, <3>2
  <2> QED BY <2>1, <2>3, <1>10 DEF ClientInv
<1>11. CASE UNCHANGED vars BY <1>11, ClientKept DEF vars
<1> QED BY <1>1, <1>2, <1>3, <1>4, <1>5, <1>8, <1>9, <1>10, <1>11 DEF Next
----------------------------------------------------------------------------
\* The inductive invariant.

IInv == TypeInv /\ PlaceInv /\ EpochInv /\ PublishInv /\ ClientInv

LEMMA RegistryStarts == Init => IInv
<1> SUFFICES ASSUME Init PROVE IInv
  OBVIOUS
<1>1. TypeInv /\ PlaceInv BY TypeInit
<1>2. /\ client = 0 /\ ~mShutdown /\ pc[Ui] = "publish"
      /\ \A t \in Threads : copy[t] = NoCatalog
      /\ \A e \in Epochs : proc[e] = "none"
  BY ThreadFacts DEF Init
<1>3. /\ epoch = IF state = "Connecting" THEN 1 ELSE 0
      /\ \A e \in Epochs : pc[Connect(e)] = IF e = 1 /\ epoch = 1 THEN "begin" ELSE "idle"
  <2>1. epoch = IF state = "Connecting" THEN 1 ELSE 0 BY DEF Init
  <2>2. 1 \in Epochs BY RegistryAssumption DEF Epochs
  <2>3. ASSUME NEW e \in Epochs
        PROVE  pc[Connect(e)] = IF e = 1 /\ epoch = 1 THEN "begin" ELSE "idle"
    BY <2>2, ThreadFacts DEF Init
  <2> QED BY <2>1, <2>3
<1>4. EpochInv
  <2>1. 1 \in Epochs BY RegistryAssumption DEF Epochs
  <2>2. \A e \in Epochs : e > epoch => ~(e = 1 /\ epoch = 1) OBVIOUS
  <2> QED BY <1>2, <1>3, <2>1, <2>2 DEF EpochInv
<1>5. PublishInv
  <2>1. Ui \in Threads /\ Owing(Ui) BY <1>2, ThreadFacts DEF Owing
  <2> QED BY <1>2, <2>1 DEF PublishInv, CopyInv
<1>6. ClientInv BY <1>2 DEF ClientInv
<1> QED BY <1>1, <1>4, <1>5, <1>6 DEF IInv

LEMMA RegistryGoesOn == IInv /\ [Next]_vars => IInv'
BY TypeStep, PlaceStep, EpochStep, PublishStep, ClientStep DEF IInv, PublishInv

\* Every variable of the registry keeps its type.
THEOREM TypeCorrect == Spec => []TypeOK
<1>1. IInv => TypeOK BY DEF IInv, TypeInv
<1> QED BY <1>1, RegistryStarts, RegistryGoesOn, PTL DEF Spec

\* Whatever order the tasks, the /mcp commands and a shutdown take: a snapshot
\* that nobody is about to replace shows the server as it is, every running server
\* is installed, being connected or being closed, and a server that is
\* Connecting has its task (Registry::publish, connect, reconnect, shutdown).
THEOREM RegistryStaysRight == Spec => []RegistryIsRight
<1>1. ASSUME IInv PROVE SnapshotCatchesUp
  BY <1>1 DEF IInv, PublishInv, Owing, SnapshotCatchesUp
<1>2. ASSUME IInv PROVE NoOrphanServer
  BY <1>2 DEF IInv, ClientInv, NoOrphanServer
<1>3. ASSUME IInv PROVE ConnectingIsOwned
  BY <1>3 DEF IInv, EpochInv, ConnectingIsOwned
<1>4. IInv => RegistryIsRight BY <1>1, <1>2, <1>3 DEF RegistryIsRight
<1> QED BY <1>4, RegistryStarts, RegistryGoesOn, PTL DEF Spec

----------------------------------------------------------------------------
(* Tokens.                                                                 *)

LEMMA TokensFresh == Tokens!Fresh \in Tokens!Copies /\ Tokens!Fresh.at = "idle"
<1>1. PICK no \in BOOLEAN : no = FALSE BY Zenon
<1>2. Tokens!Fresh = [at |-> "idle", token |-> 0, loaded |-> no, stamp |-> 0, asks |-> 0]
  BY Zenon, <1>1 DEF Tokens!Fresh
<1> QED BY <1>2, ServersAssumption DEF Tokens!Copies, Tokens!Places

LEMMA TokensInit == ASSUME Tokens!Init PROVE Tokens!IInv
<1> USE ServersAssumption DEF Tokens!Init
<1>1. v4 \in [Processes -> Tokens!Copies] /\ \A p \in Processes : v4[p].at = "idle"
  BY TokensFresh
<1>2. {v8, v9} \subseteq BOOLEAN /\ v8 = FALSE /\ v9 = FALSE BY Zenon
<1>3. Tokens!TypeOK BY <1>1, <1>2 DEF Tokens!TypeOK, Tokens!Places, Tokens!Copies
<1>4. Tokens!TokenInv BY <1>1 DEF Tokens!TokenInv, Tokens!Holding
<1>5. Tokens!NoTokenLost BY <1>1, <1>2 DEF Tokens!NoTokenLost
<1> QED BY <1>3, <1>4, <1>5 DEF Tokens!IInv

\* The copies are records, and other processes' do not move.
LEMMA TokensChange ==
    ASSUME Tokens!IInv, NEW p \in Processes, NEW r \in Tokens!Copies, v4' = [v4 EXCEPT ![p] = r]
    PROVE  /\ v4' \in [Processes -> Tokens!Copies] /\ v4'[p] = r
           /\ \A q \in Processes : q # p => v4'[q] = v4[q]
BY DEF Tokens!IInv, Tokens!TokenInv

LEMMA TokensAt ==
    ASSUME Tokens!IInv, NEW p \in Processes, NEW place \in Tokens!Places, Tokens!At(p, place)
    PROVE  \E r \in Tokens!Copies : /\ v4' = [v4 EXCEPT ![p] = r]
                                    /\ r.at = place /\ r.asks = v4[p].asks
<1>1. v4[p] \in Tokens!Copies BY DEF Tokens!IInv, Tokens!TokenInv
<1>2. [v4[p] EXCEPT !.at = place] \in Tokens!Copies BY <1>1 DEF Tokens!Copies
<1>3. v4' = [v4 EXCEPT ![p] = [v4[p] EXCEPT !.at = place]] BY DEF Tokens!At
<1> QED BY <1>1, <1>2, <1>3 DEF Tokens!Copies

\* A step of a process that asks for no token, and writes none.
LEMMA TokensQuiet ==
    ASSUME Tokens!IInv, NEW p \in Processes, NEW r \in Tokens!Copies, v4' = [v4 EXCEPT ![p] = r],
           r.at \notin {"asking", "answered", "put"},
           r.at \in {"unlock", "renewed"} => v3 = p /\ v3' = p,
           v3' = v3 \/ (v3 = p /\ v3' = NoOne),
           UNCHANGED <<v1, v2, v5, v6, v7, v9>>,
           v8' \in BOOLEAN, v8 => v8', v4[p].at = "answered" => v8'
    PROVE  Tokens!IInv'
<1> USE ServersAssumption
<1>1. /\ v4' \in [Processes -> Tokens!Copies] /\ v4'[p] = r
      /\ \A q \in Processes : q # p => v4'[q] = v4[q]
  BY TokensChange
<1>2. Tokens!TypeOK'
  BY <1>1 DEF Tokens!IInv, Tokens!TypeOK, Tokens!Copies
<1>3. Tokens!TokenInv'
  BY <1>1 DEF Tokens!IInv, Tokens!TokenInv, Tokens!Holding
<1>4. Tokens!NoTokenLost'
  <2>1. \A q \in Processes :
           v4'[q].at \in {"asking", "answered", "unlock", "renewed"} => v3' = q
    BY <1>1 DEF Tokens!IInv, Tokens!NoTokenLost
  <2>2. ~v8' => ~v9' BY DEF Tokens!IInv, Tokens!NoTokenLost
  <2>3. ASSUME ~v8', v1' # 0
        PROVE  v1' \in v6' \/ \E q \in Processes : v3' = q /\ v4'[q].at = "answered"
    <3>1. v1 \in v6 \/ \E q \in Processes : v3 = q /\ v4[q].at = "answered"
      BY <2>3 DEF Tokens!IInv, Tokens!NoTokenLost
    <3>2. ASSUME NEW q \in Processes, v3 = q, v4[q].at = "answered"
          PROVE  v3' = q /\ v4'[q].at = "answered"
      BY <1>1, <2>3, <3>2
    <3> QED BY <3>1, <3>2
  <2> QED BY <2>1, <2>2, <2>3 DEF Tokens!NoTokenLost
<1> QED BY <1>2, <1>3, <1>4 DEF Tokens!IInv

\* What is read of the file is a copy too.
LEMMA TokensReread ==
    ASSUME Tokens!IInv, NEW p \in Processes
    PROVE  /\ Tokens!Reread(p) \in Tokens!Copies /\ Tokens!Reloaded(p) \in Tokens!Copies
           /\ v4[p] \in Tokens!Copies
<1>1. v4[p] \in Tokens!Copies /\ v1 \in 0..MaxGrants /\ v2 \in Nat
  BY DEF Tokens!IInv, Tokens!TokenInv, Tokens!TypeOK
<1>2. PICK yes \in BOOLEAN : yes = TRUE BY Zenon
<1>3. Tokens!Reread(p) = [v4[p] EXCEPT !.token = v1, !.stamp = v2, !.loaded = yes]
  BY Zenon, <1>2 DEF Tokens!Reread
<1>4. [v4[p] EXCEPT !.token = v1, !.stamp = v2, !.loaded = yes] \in Tokens!Copies
  BY <1>1 DEF Tokens!Copies
<1> QED BY <1>1, <1>3, <1>4 DEF Tokens!Reloaded

LEMMA TokensPlaced ==
    ASSUME NEW r \in Tokens!Copies, NEW place \in Tokens!Places
    PROVE  /\ [r EXCEPT !.at = place] \in Tokens!Copies
           /\ [r EXCEPT !.at = place].at = place
           /\ [r EXCEPT !.at = place].asks = r.asks
BY DEF Tokens!Copies

LEMMA TokensQuietStep ==
    ASSUME Tokens!IInv, NEW p \in Processes,
           \/ Tokens!Request(p) \/ Tokens!Renew(p) \/ Tokens!Unreached(p) \/ Tokens!Unlock(p)
           \/ Tokens!Stamp(p) \/ Tokens!BeginLogin(p) \/ Tokens!LoginFails(p) \/ Tokens!Crash(p)
    PROVE  Tokens!IInv'
<1> USE DEF Tokens!file, Tokens!server
<1>0. /\ v8 \in BOOLEAN
      /\ v4[p].at \in {"asking", "answered", "unlock", "renewed"} => v3 = p
  BY Zenon DEF Tokens!IInv, Tokens!TypeOK, Tokens!NoTokenLost
<1>1. CASE Tokens!Request(p)
  <2>1. PICK place \in {"idle", "lock", "rejected"} :
           v4' = [v4 EXCEPT ![p] = [Tokens!Reloaded(p) EXCEPT !.at = place]]
    BY <1>1 DEF Tokens!Request
  <2> DEFINE r == [Tokens!Reloaded(p) EXCEPT !.at = place]
  <2>2. r \in Tokens!Copies /\ r.at = place
    <3>1. place \in Tokens!Places BY DEF Tokens!Places
    <3> QED BY <3>1, TokensReread, TokensPlaced
  <2>3. v4' = [v4 EXCEPT ![p] = r] BY <2>1
  <2>4. UNCHANGED <<v1, v2, v3, v5, v6, v7, v8, v9>> /\ v4[p].at = "idle"
    BY <1>1 DEF Tokens!Request
  <2> HIDE DEF r
  <2> QED BY <1>0, <2>1, <2>2, <2>3, <2>4, TokensQuiet
<1>2. CASE Tokens!Renew(p)
  <2>1. PICK place \in {"idle", "lock"} :
           v4' = [v4 EXCEPT ![p] = [Tokens!Reread(p) EXCEPT !.at = place]]
    BY <1>2 DEF Tokens!Renew
  <2> DEFINE r == [Tokens!Reread(p) EXCEPT !.at = place]
  <2>2. r \in Tokens!Copies /\ r.at = place
    <3>1. place \in Tokens!Places BY DEF Tokens!Places
    <3> QED BY <3>1, TokensReread, TokensPlaced
  <2>3. v4' = [v4 EXCEPT ![p] = r] BY <2>1
  <2>4. UNCHANGED <<v1, v2, v3, v5, v6, v7, v8, v9>> /\ v4[p].at = "rejected"
    BY <1>2 DEF Tokens!Renew
  <2> HIDE DEF r
  <2> QED BY <1>0, <2>1, <2>2, <2>3, <2>4, TokensQuiet
<1>3. CASE Tokens!Unreached(p)
  <2>1. PICK r \in Tokens!Copies : v4' = [v4 EXCEPT ![p] = r] /\ r.at = "unlock"
    BY <1>3, TokensAt DEF Tokens!Unreached, Tokens!Places
  <2>2. UNCHANGED <<v1, v2, v3, v5, v6, v7, v8, v9>> /\ v4[p].at = "asking"
    BY <1>3 DEF Tokens!Unreached
  <2> QED BY <1>0, <2>1, <2>2, TokensQuiet
<1>4. CASE Tokens!Unlock(p)
  <2>1. PICK place \in {"stamp", "idle"} : Tokens!At(p, place)
    BY <1>4 DEF Tokens!Unlock
  <2>2. PICK r \in Tokens!Copies : v4' = [v4 EXCEPT ![p] = r] /\ r.at = place
    BY <2>1, TokensAt DEF Tokens!Places
  <2>3. /\ UNCHANGED <<v1, v2, v5, v6, v7, v8, v9>> /\ v4[p].at \in {"unlock", "renewed"}
        /\ v3' = NoOne
    BY <1>4 DEF Tokens!Unlock
  <2> QED BY <1>0, <2>1, <2>2, <2>3, TokensQuiet
<1>5. CASE Tokens!Stamp(p)
  <2>1. v4[p] \in Tokens!Copies /\ v2 \in Nat
    BY TokensReread DEF Tokens!IInv, Tokens!TypeOK
  <2>2. PICK yes \in BOOLEAN : yes = TRUE BY Zenon
  <2> DEFINE r == [v4[p] EXCEPT !.at = "idle", !.stamp = v2, !.loaded = yes]
  <2>3. r \in Tokens!Copies /\ r.at = "idle" BY <2>1 DEF Tokens!Copies, Tokens!Places
  <2>4. v4' = [v4 EXCEPT ![p] = [v4[p] EXCEPT !.at = "idle", !.stamp = v2, !.loaded = TRUE]]
    BY <1>5 DEF Tokens!Stamp
  <2>5. v4' = [v4 EXCEPT ![p] = r] BY Zenon, <2>2, <2>4
  <2>6. UNCHANGED <<v1, v2, v3, v5, v6, v7, v8, v9>> /\ v4[p].at = "stamp"
    BY <1>5 DEF Tokens!Stamp
  <2> HIDE DEF r
  <2> QED BY <1>0, <2>3, <2>5, <2>6, TokensQuiet
<1>6. CASE Tokens!BeginLogin(p)
  <2>1. PICK r \in Tokens!Copies : v4' = [v4 EXCEPT ![p] = r] /\ r.at = "browser"
    BY <1>6, TokensAt DEF Tokens!BeginLogin, Tokens!Places
  <2>2. UNCHANGED <<v1, v2, v3, v5, v6, v7, v8, v9>> /\ v4[p].at = "idle"
    BY <1>6 DEF Tokens!BeginLogin
  <2> QED BY <1>0, <2>1, <2>2, TokensQuiet
<1>7. CASE Tokens!LoginFails(p)
  <2>1. PICK r \in Tokens!Copies : v4' = [v4 EXCEPT ![p] = r] /\ r.at = "idle"
    BY <1>7, TokensAt DEF Tokens!LoginFails, Tokens!Places
  <2>2. UNCHANGED <<v1, v2, v3, v5, v6, v7, v8, v9>> /\ v4[p].at = "browser"
    BY <1>7 DEF Tokens!LoginFails
  <2> QED BY <1>0, <2>1, <2>2, TokensQuiet
<1>8. CASE Tokens!Crash(p)
  <2>1. Tokens!Fresh \in Tokens!Copies /\ Tokens!Fresh.at = "idle" BY TokensFresh
  <2>2. UNCHANGED <<v1, v2, v5, v6, v7, v9>> /\ v4' = [v4 EXCEPT ![p] = Tokens!Fresh]
    BY <1>8 DEF Tokens!Crash
  <2>3. (v3 = p /\ v3' = NoOne) \/ v3' = v3 BY <1>8 DEF Tokens!Crash
  <2>4. v8' \in BOOLEAN /\ (v8 => v8') /\ (v4[p].at = "answered" => v8')
    BY <1>0, <1>8, Zenon DEF Tokens!Crash
  <2> QED BY <2>1, <2>2, <2>3, <2>4, TokensQuiet
<1> QED BY <1>1, <1>2, <1>3, <1>4, <1>5, <1>6, <1>7, <1>8

LEMMA TokensLock ==
    ASSUME Tokens!IInv, NEW p \in Processes, Tokens!Lock(p)
    PROVE  Tokens!IInv'
<1> USE ServersAssumption DEF Tokens!file, Tokens!server
<1>1. v4[p] \in Tokens!Copies /\ v1 \in 0..MaxGrants
  BY TokensReread DEF Tokens!IInv, Tokens!TypeOK
<1>2. /\ v3 = NoOne /\ v3' = p /\ UNCHANGED <<v1, v2, v5, v6, v7, v8, v9>>
      /\ Tokens!UnderLock(p) /\ v4[p].at = "lock"
  BY DEF Tokens!Lock
<1>3. PICK r \in Tokens!Copies :
         /\ v4' = [v4 EXCEPT ![p] = r] /\ r.at \in {"unlock", "renewed", "asking"}
         /\ r.at = "asking" => r.asks = v1 /\ v1 # 0
  <2>1. CASE v1 = 0
    <3>1. v4' = [v4 EXCEPT ![p] = [v4[p] EXCEPT !.at = "unlock"]]
      BY <1>2, <2>1 DEF Tokens!UnderLock
    <3> QED BY <1>1, <3>1, TokensPlaced DEF Tokens!Places
  <2>2. CASE v1 # 0 /\ v1 # v4[p].token
    <3>1. v4' = [v4 EXCEPT ![p] = [v4[p] EXCEPT !.token = v1, !.at = "renewed"]]
      BY <1>2, <2>2 DEF Tokens!UnderLock
    <3>2. /\ [v4[p] EXCEPT !.token = v1, !.at = "renewed"] \in Tokens!Copies
          /\ [v4[p] EXCEPT !.token = v1, !.at = "renewed"].at = "renewed"
      BY <1>1 DEF Tokens!Copies, Tokens!Places
    <3> QED BY <3>1, <3>2
  <2>3. CASE v1 # 0 /\ v1 = v4[p].token
    <3>1. v4' = [v4 EXCEPT ![p] = [v4[p] EXCEPT !.at = "asking", !.asks = v1]]
      BY <1>2, <2>3 DEF Tokens!UnderLock
    <3>2. /\ [v4[p] EXCEPT !.at = "asking", !.asks = v1] \in Tokens!Copies
          /\ [v4[p] EXCEPT !.at = "asking", !.asks = v1].at = "asking"
          /\ [v4[p] EXCEPT !.at = "asking", !.asks = v1].asks = v1
      BY <1>1 DEF Tokens!Copies, Tokens!Places
    <3> QED BY <2>3, <3>1, <3>2
  <2> QED BY <2>1, <2>2, <2>3
<1>4. /\ v4' \in [Processes -> Tokens!Copies] /\ v4'[p] = r
      /\ \A q \in Processes : q # p => v4'[q] = v4[q]
  BY <1>3, TokensChange
<1>5. Tokens!TypeOK'
  BY <1>2, <1>4 DEF Tokens!IInv, Tokens!TypeOK, Tokens!Copies
<1>6. Tokens!TokenInv'
  BY <1>2, <1>3, <1>4 DEF Tokens!IInv, Tokens!TokenInv, Tokens!Holding
<1>7. Tokens!NoTokenLost'
  BY <1>2, <1>3, <1>4 DEF Tokens!IInv, Tokens!NoTokenLost
<1> QED BY <1>5, <1>6, <1>7 DEF Tokens!IInv

\* The server issues a new token in place of one, or besides those there are.
LEMMA TokensRefreshed ==
    ASSUME Tokens!IInv, NEW p \in Processes, Tokens!Refreshed(p)
    PROVE  Tokens!IInv'
<1> USE ServersAssumption DEF Tokens!file, Tokens!server
<1>0. /\ v8 \in BOOLEAN /\ v9 \in BOOLEAN /\ v5 \in 0..MaxGrants /\ v1 \in 0..MaxGrants
      /\ v4[p] \in Tokens!Copies
  BY TokensReread DEF Tokens!IInv, Tokens!TypeOK
<1>1. /\ v4[p].at = "asking" /\ v3 = p /\ v4[p].asks = v1 /\ v1 # 0
      /\ UNCHANGED <<v1, v2, v3>>
  BY DEF Tokens!Refreshed, Tokens!IInv, Tokens!TokenInv, Tokens!NoTokenLost
<1>2. ASSUME v8' \in BOOLEAN, v9' \in BOOLEAN, v8 => v8', ~v8' => v9' = v9,
             NEW r \in Tokens!Copies, v4' = [v4 EXCEPT ![p] = r],
             (r.at = "answered" /\ r.asks = v5') \/ (r.at = "unlock" /\ v8'),
             v5' = v5 + 1, v5' <= MaxGrants,
             v6' = (v6 \ {v1}) \cup {v5'}, v7' = (v7 \ {v1}) \cup {v5'}
      PROVE  Tokens!IInv'
  <2>1. /\ v4' \in [Processes -> Tokens!Copies] /\ v4'[p] = r
        /\ \A q \in Processes : q # p => v4'[q] = v4[q]
    BY <1>2, TokensChange
  <2>2. Tokens!TypeOK'
    <3>1. v5' \in 1..MaxGrants BY <1>0, <1>2
    <3>2. v6' \subseteq 1..MaxGrants /\ v7' \subseteq 1..MaxGrants
      BY <1>2, <3>1 DEF Tokens!IInv, Tokens!TypeOK
    <3> QED BY <1>1, <1>2, <2>1, <3>1, <3>2 DEF Tokens!IInv, Tokens!TypeOK, Tokens!Copies
  <2>3. \A g \in v6 : g <= v5 BY DEF Tokens!IInv, Tokens!TokenInv
  <2>4. \A q \in Processes : q # p => v4[q].at \notin {"asking", "answered", "unlock", "renewed"}
    BY <1>1 DEF Tokens!IInv, Tokens!NoTokenLost
  <2>5. Tokens!TokenInv'
    <3>1. \A g \in v6' : g <= v5' BY <1>0, <1>2, <2>3 DEF Tokens!IInv, Tokens!TypeOK
    <3>2. v5' >= 1 /\ v1' <= v5' BY <1>0, <1>1, <1>2 DEF Tokens!IInv, Tokens!TokenInv
    <3>3. \A q \in Processes : q # p /\ v4[q].at = "put" =>
             v4[q].asks \in v6' /\ v4[q].asks # v1 /\ v4[q].asks <= v5
      BY <1>2, <2>3 DEF Tokens!IInv, Tokens!TokenInv, Tokens!Holding
    <3>4. v5' # v1 /\ \A q \in Processes : q # p /\ v4[q].at = "put" => v4[q].asks # v5'
      BY <1>0, <1>2, <2>3, <3>3 DEF Tokens!IInv, Tokens!TokenInv, Tokens!TypeOK
    <3>5. \A q \in Processes : Tokens!Holding(q)' =>
             v4'[q].asks \in v6' /\ v4'[q].asks # v1'
      BY <1>1, <1>2, <2>1, <2>4, <3>3, <3>4 DEF Tokens!Holding
    <3>6. \A q, s \in Processes : q # s /\ Tokens!Holding(q)' /\ Tokens!Holding(s)' =>
             v4'[q].asks # v4'[s].asks
      BY <1>1, <1>2, <2>1, <2>4, <3>4 DEF Tokens!Holding, Tokens!IInv, Tokens!TokenInv
    <3>7. \A q \in Processes : v4'[q].at # "asking" BY <1>2, <2>1, <2>4
    <3> QED BY <2>1, <3>1, <3>2, <3>5, <3>6, <3>7 DEF Tokens!TokenInv
  <2>6. Tokens!NoTokenLost'
    BY <1>1, <1>2, <2>1, <2>4 DEF Tokens!IInv, Tokens!NoTokenLost
  <2> QED BY <2>2, <2>5, <2>6 DEF Tokens!IInv
<1>3. CASE v4[p].asks \in v6
  <2>1. /\ v5' = v5 + 1 /\ v5' <= MaxGrants /\ v9' = v9
        /\ v6' = (v6 \ {v1}) \cup {v5'} /\ v7' = (v7 \ {v1}) \cup {v5'}
    BY <1>0, <1>1, <1>3 DEF Tokens!Refreshed
  <2>2. CASE v4' = [v4 EXCEPT ![p].at = "answered", ![p].asks = v5'] /\ v8' = v8
    <3> DEFINE r == [v4[p] EXCEPT !.at = "answered", !.asks = v5']
    <3>1. v4' = [v4 EXCEPT ![p] = r] BY <2>2
    <3>2. r \in Tokens!Copies /\ r.at = "answered" /\ r.asks = v5'
      <4>1. v5' \in 0..MaxGrants /\ "answered" \in Tokens!Places
        BY <1>0, <2>1 DEF Tokens!Places
      <4> QED BY <1>0, <4>1 DEF Tokens!Copies
    <3> HIDE DEF r
    <3> QED BY <1>0, <1>2, <2>1, <2>2, <3>1, <3>2
  <2>3. CASE Tokens!At(p, "unlock") /\ v8' = TRUE
    <3>1. PICK r \in Tokens!Copies : v4' = [v4 EXCEPT ![p] = r] /\ r.at = "unlock"
      BY <2>3, TokensAt DEF Tokens!Places
    <3>2. v8' \in BOOLEAN /\ v8' BY <2>3, Zenon
    <3> QED BY <1>0, <1>2, <2>1, <3>1, <3>2
  <2> QED BY <1>3, <2>2, <2>3 DEF Tokens!Refreshed
<1>4. CASE v4[p].asks \notin v6
  <2>1. /\ Tokens!At(p, "unlock") /\ v9' = TRUE /\ UNCHANGED <<v5, v6, v7, v8>>
    BY <1>4 DEF Tokens!Refreshed
  <2>2. v8
    BY <1>1, <1>4 DEF Tokens!IInv, Tokens!NoTokenLost
  <2>3. PICK r \in Tokens!Copies : v4' = [v4 EXCEPT ![p] = r] /\ r.at = "unlock"
    BY <2>1, TokensAt DEF Tokens!Places
  <2>4. /\ v4' \in [Processes -> Tokens!Copies] /\ v4'[p] = r
        /\ \A q \in Processes : q # p => v4'[q] = v4[q]
    BY <2>3, TokensChange
  <2>5. {v8', v9'} \subseteq BOOLEAN BY <1>0, <2>1, Zenon
  <2>6. Tokens!TypeOK'
    BY <1>1, <2>1, <2>4, <2>5 DEF Tokens!IInv, Tokens!TypeOK, Tokens!Copies
  <2>7. Tokens!TokenInv'
    BY <1>1, <2>1, <2>3, <2>4 DEF Tokens!IInv, Tokens!TokenInv, Tokens!Holding
  <2>8. Tokens!NoTokenLost'
    BY <1>1, <2>1, <2>2, <2>3, <2>4 DEF Tokens!IInv, Tokens!NoTokenLost
  <2> QED BY <2>6, <2>7, <2>8 DEF Tokens!IInv
<1> QED BY <1>3, <1>4

\* Who has a token of its own writes it: the file has one the server honours.
LEMMA TokensPut ==
    ASSUME Tokens!IInv, NEW p \in Processes, Tokens!Holding(p),
           NEW r \in Tokens!Copies, v4' = [v4 EXCEPT ![p] = r],
           v4[p].at = "answered" \/ v3 = NoOne, r.at \in {"renewed", "idle"},
           r.at = "renewed" => v3 = p,
           v1' = v4[p].asks, v2' = v2 + 1, UNCHANGED <<v3, v5, v6, v7, v8, v9>>
    PROVE  Tokens!IInv'
<1> USE ServersAssumption
<1>1. /\ v4' \in [Processes -> Tokens!Copies] /\ v4'[p] = r
      /\ \A q \in Processes : q # p => v4'[q] = v4[q]
  BY TokensChange
<1>2. v4[p] \in Tokens!Copies /\ v4[p].asks \in v6 /\ v2 \in Nat
  BY TokensReread DEF Tokens!IInv, Tokens!TokenInv, Tokens!TypeOK
<1>3. Tokens!TypeOK'
  BY <1>1, <1>2 DEF Tokens!IInv, Tokens!TypeOK, Tokens!Copies
<1>4. \A q \in Processes : q # p => v4[q].at # "asking"
  BY DEF Tokens!IInv, Tokens!NoTokenLost, Tokens!Holding
<1>5. Tokens!TokenInv'
  BY <1>1, <1>2, <1>4 DEF Tokens!IInv, Tokens!TokenInv, Tokens!Holding
<1>6. Tokens!NoTokenLost'
  BY <1>1, <1>2 DEF Tokens!IInv, Tokens!NoTokenLost
<1> QED BY <1>3, <1>5, <1>6 DEF Tokens!IInv

LEMMA TokensSave ==
    ASSUME Tokens!IInv, NEW p \in Processes, Tokens!SaveToken(p) \/ Tokens!PutToken(p)
    PROVE  Tokens!IInv'
<1> USE DEF Tokens!file, Tokens!server
<1>0. /\ v8 \in BOOLEAN /\ v4[p] \in Tokens!Copies
      /\ v4[p].at \in {"asking", "answered", "unlock", "renewed"} => v3 = p
  BY TokensReread DEF Tokens!IInv, Tokens!TypeOK, Tokens!NoTokenLost
<1>1. CASE Tokens!SaveToken(p)
  <2>1. CASE /\ Tokens!Put(v4[p].asks) /\ UNCHANGED v8
             /\ v4' = [v4 EXCEPT ![p] = [@ EXCEPT !.token = v4[p].asks, !.at = "renewed"]]
    <3> DEFINE r == [v4[p] EXCEPT !.token = v4[p].asks, !.at = "renewed"]
    <3>1. v4' = [v4 EXCEPT ![p] = r] BY <2>1
    <3>2. r \in Tokens!Copies /\ r.at = "renewed" BY <1>0 DEF Tokens!Copies, Tokens!Places
    <3>3. v4[p].at = "answered" /\ UNCHANGED <<v3, v5, v6, v7, v9>>
      BY <1>1 DEF Tokens!SaveToken
    <3> HIDE DEF r
    <3> QED BY <1>0, <2>1, <3>1, <3>2, <3>3, TokensPut DEF Tokens!Put, Tokens!Holding
  <2>2. CASE Tokens!At(p, "unlock") /\ v8' = TRUE /\ UNCHANGED <<v1, v2>>
    <3>1. PICK r \in Tokens!Copies : v4' = [v4 EXCEPT ![p] = r] /\ r.at = "unlock"
      BY <2>2, TokensAt DEF Tokens!Places
    <3>2. v8' \in BOOLEAN /\ v8' BY <2>2, Zenon
    <3>3. v4[p].at = "answered" /\ UNCHANGED <<v3, v5, v6, v7, v9>>
      BY <1>1 DEF Tokens!SaveToken
    <3> QED BY <1>0, <2>2, <3>1, <3>2, <3>3, TokensQuiet
  <2> QED BY <1>1, <2>1, <2>2 DEF Tokens!SaveToken
<1>2. CASE Tokens!PutToken(p)
  <2>1. PICK no \in BOOLEAN : no = FALSE BY Zenon
  <2> DEFINE r == [v4[p] EXCEPT !.at = "idle", !.token = v4[p].asks, !.loaded = no]
  <2>2. v4' = [v4 EXCEPT ![p] = [v4[p] EXCEPT !.at = "idle", !.token = v4[p].asks,
                                              !.loaded = FALSE]]
    BY <1>2 DEF Tokens!PutToken
  <2>3. v4' = [v4 EXCEPT ![p] = r] BY Zenon, <2>1, <2>2
  <2>4. r \in Tokens!Copies /\ r.at = "idle" BY <1>0 DEF Tokens!Copies, Tokens!Places
  <2>5. /\ v4[p].at = "put" /\ v3 = NoOne /\ Tokens!Put(v4[p].asks)
        /\ UNCHANGED <<v3, v5, v6, v7, v8, v9>>
    BY <1>2 DEF Tokens!PutToken
  <2> HIDE DEF r
  <2> QED BY <2>3, <2>4, <2>5, TokensPut DEF Tokens!Put, Tokens!Holding
<1> QED BY <1>1, <1>2

\* A login's token is one more.
LEMMA TokensExchange ==
    ASSUME Tokens!IInv, NEW p \in Processes, Tokens!Exchange(p)
    PROVE  Tokens!IInv'
<1> USE ServersAssumption DEF Tokens!file
<1>0. /\ v4[p] \in Tokens!Copies /\ v5 \in 0..MaxGrants /\ v1 \in 0..MaxGrants
      /\ v6 \subseteq 1..MaxGrants
  BY TokensReread DEF Tokens!IInv, Tokens!TypeOK
<1>1. /\ v4[p].at = "browser" /\ v5' = v5 + 1 /\ v5' <= MaxGrants
      /\ v6' = v6 \cup {v5'} /\ v7' = v7 \cup {v5'}
      /\ UNCHANGED <<v1, v2, v3, v8, v9>>
      /\ v4' = [v4 EXCEPT ![p] = [v4[p] EXCEPT !.at = "put", !.asks = v5']]
  BY <1>0 DEF Tokens!Exchange
<1> DEFINE r == [v4[p] EXCEPT !.at = "put", !.asks = v5']
<1>2. v5' \in 1..MaxGrants BY <1>0, <1>1
<1>3. r \in Tokens!Copies /\ r.at = "put" /\ r.asks = v5'
  <2>1. v5' \in 0..MaxGrants /\ "put" \in Tokens!Places BY <1>2 DEF Tokens!Places
  <2> QED BY <1>0, <2>1 DEF Tokens!Copies
<1>4. v4' = [v4 EXCEPT ![p] = r] BY <1>1
<1> HIDE DEF r
<1>5. /\ v4' \in [Processes -> Tokens!Copies] /\ v4'[p] = r
      /\ \A q \in Processes : q # p => v4'[q] = v4[q]
  BY <1>3, <1>4, TokensChange
<1>6. Tokens!TypeOK'
  <2>1. v6' \subseteq 1..MaxGrants /\ v7' \subseteq 1..MaxGrants
    BY <1>1, <1>2 DEF Tokens!IInv, Tokens!TypeOK
  <2>2. v5' \in 0..MaxGrants BY <1>2
  <2> QED BY <1>1, <1>5, <2>1, <2>2 DEF Tokens!IInv, Tokens!TypeOK, Tokens!Copies
<1>7. (\A g \in v6 : g <= v5) /\ v1 <= v5 /\ v5 >= 1 BY DEF Tokens!IInv, Tokens!TokenInv
<1>8. Tokens!TokenInv'
  <2>1. (\A g \in v6' : g <= v5') /\ v1' <= v5' /\ v5' >= 1
    BY <1>0, <1>1, <1>7
  <2>2. v5' \notin v6 /\ v5' # v1 BY <1>0, <1>1, <1>7
  <2>3. \A q \in Processes :
          /\ v4'[q].at = "asking" => v4'[q].asks = v1' /\ v1' # 0
          /\ Tokens!Holding(q)' => v4'[q].asks \in v6' /\ v4'[q].asks # v1'
    BY <1>1, <1>3, <1>5, <2>2 DEF Tokens!IInv, Tokens!TokenInv, Tokens!Holding
  <2>4. \A q, s \in Processes : q # s /\ Tokens!Holding(q)' /\ Tokens!Holding(s)' =>
          v4'[q].asks # v4'[s].asks
    BY <1>1, <1>3, <1>5, <2>2 DEF Tokens!IInv, Tokens!TokenInv, Tokens!Holding
  <2> QED BY <1>5, <2>1, <2>3, <2>4 DEF Tokens!TokenInv
<1>9. Tokens!NoTokenLost'
  BY <1>1, <1>3, <1>5 DEF Tokens!IInv, Tokens!NoTokenLost
<1> QED BY <1>6, <1>8, <1>9 DEF Tokens!IInv

LEMMA TokensLogout ==
    ASSUME Tokens!IInv, NEW p \in Processes, Tokens!Logout(p)
    PROVE  Tokens!IInv'
<1> USE ServersAssumption DEF Tokens!file, Tokens!server
<1>0. v4[p] \in Tokens!Copies /\ v2 \in Nat /\ v6 \subseteq 1..MaxGrants
  BY TokensReread DEF Tokens!IInv, Tokens!TypeOK
<1>1. /\ v4[p].at = "idle" /\ v3 = NoOne /\ v1' = 0 /\ v2' \in Nat
      /\ UNCHANGED <<v3, v5, v6, v7, v8, v9>>
      /\ v4' = [v4 EXCEPT ![p].token = 0, ![p].loaded = FALSE]
  BY <1>0 DEF Tokens!Logout, Tokens!ForgetToken, Tokens!Put
<1>2. PICK no \in BOOLEAN : no = FALSE BY Zenon
<1> DEFINE r == [v4[p] EXCEPT !.token = 0, !.loaded = no]
<1>3. v4' = [v4 EXCEPT ![p] = [v4[p] EXCEPT !.token = 0, !.loaded = FALSE]]
  BY <1>1 DEF Tokens!IInv, Tokens!TokenInv
<1>4. v4' = [v4 EXCEPT ![p] = r] BY Zenon, <1>2, <1>3
<1>5. r \in Tokens!Copies /\ r.at = "idle"
  <2>1. 0 \in 0..MaxGrants OBVIOUS
  <2> QED BY <1>0, <1>1, <2>1 DEF Tokens!Copies
<1> HIDE DEF r
<1>6. /\ v4' \in [Processes -> Tokens!Copies] /\ v4'[p] = r
      /\ \A q \in Processes : q # p => v4'[q] = v4[q]
  BY <1>4, <1>5, TokensChange
<1>7. Tokens!TypeOK'
  BY <1>1, <1>6 DEF Tokens!IInv, Tokens!TypeOK, Tokens!Copies
<1>8. \A q \in Processes : v4[q].at \notin {"asking", "answered", "unlock", "renewed"}
  BY <1>1 DEF Tokens!IInv, Tokens!NoTokenLost
<1>9. Tokens!TokenInv'
  <2>1. \A q \in Processes : v4'[q].at # "asking" BY <1>5, <1>6, <1>8
  <2>2. v1' <= v5' /\ v5' >= 1 /\ \A g \in v6' : g <= v5'
    BY <1>1 DEF Tokens!IInv, Tokens!TokenInv, Tokens!TypeOK
  <2>3. \A q \in Processes : Tokens!Holding(q)' => Tokens!Holding(q) /\ v4'[q] = v4[q]
    BY <1>5, <1>6 DEF Tokens!Holding
  <2>4. \A q \in Processes : Tokens!Holding(q)' => v4'[q].asks \in v6' /\ v4'[q].asks # v1'
    BY <1>0, <1>1, <2>3 DEF Tokens!IInv, Tokens!TokenInv
  <2>5. \A q, s \in Processes : q # s /\ Tokens!Holding(q)' /\ Tokens!Holding(s)' =>
           v4'[q].asks # v4'[s].asks
    BY <2>3 DEF Tokens!IInv, Tokens!TokenInv
  <2> QED BY <1>6, <2>1, <2>2, <2>4, <2>5 DEF Tokens!TokenInv
<1>10. Tokens!NoTokenLost'
  BY <1>1, <1>5, <1>6, <1>8 DEF Tokens!IInv, Tokens!NoTokenLost
<1> QED BY <1>7, <1>9, <1>10 DEF Tokens!IInv

LEMMA TokensStep == ASSUME Tokens!IInv, [Tokens!Next]_(Tokens!vars) PROVE Tokens!IInv'
<1>1. CASE UNCHANGED <<v1, v2, v3, v4, v5, v6, v8, v9>> /\ (v7' = v7 \/ v7' = {})
  BY <1>1 DEF Tokens!IInv, Tokens!TypeOK, Tokens!TokenInv, Tokens!NoTokenLost, Tokens!Holding
<1>2. ASSUME NEW p \in Processes,
             \/ Tokens!Request(p) \/ Tokens!Renew(p) \/ Tokens!Unreached(p) \/ Tokens!Unlock(p)
             \/ Tokens!Stamp(p) \/ Tokens!BeginLogin(p) \/ Tokens!LoginFails(p) \/ Tokens!Crash(p)
             \/ Tokens!Lock(p) \/ Tokens!Refreshed(p) \/ Tokens!SaveToken(p)
             \/ Tokens!PutToken(p) \/ Tokens!Exchange(p) \/ Tokens!Logout(p)
      PROVE  Tokens!IInv'
  <2>1. CASE Tokens!SaveToken(p) \/ Tokens!PutToken(p) BY <2>1, TokensSave
  <2>2. CASE Tokens!Exchange(p) BY <2>2, TokensExchange
  <2>3. CASE Tokens!Logout(p) BY <2>3, TokensLogout
  <2>4. CASE Tokens!Lock(p) BY <2>4, TokensLock
  <2>5. CASE Tokens!Refreshed(p) BY <2>5, TokensRefreshed
  <2> QED BY <1>2, <2>1, <2>2, <2>3, <2>4, <2>5, TokensQuietStep
<1>3. CASE Tokens!Expires BY <1>1, <1>3 DEF Tokens!Expires, Tokens!file
<1>4. CASE UNCHANGED Tokens!vars BY <1>1, <1>4 DEF Tokens!vars
<1> QED BY <1>2, <1>3, <1>4 DEF Tokens!Next

----------------------------------------------------------------------------
(* Logins.                                                                 *)

\* What a step of a login may make of it, for the others and for the server to agree.
LoginFits(l, r) ==
    /\ r.at = "who" /\ r.client # Login!None =>
          \E c \in v6' : c.id = r.client.id /\ c.port = r.client.port
    /\ r.at \in {"wait", "code"} =>
          /\ r.client # Login!None
          /\ v1.client = "registered" => \E c \in v6' : c.id = r.client.id /\ c.port = r.port
    /\ r.at \in {"who", "wait", "code"} =>
          /\ r.port \in Ports
          /\ \A k \in Logins : k # l /\ v7[k].at \in {"who", "wait", "code"} =>
                v7[k].port # r.port
    /\ r.at = "code" => r.code = l
    /\ r.at = "wait" /\ v1.scopes = {} => r.kept \subseteq r.asked

\* ... and of what the logins share.
LoginShares ==
    /\ v1' = v1 /\ v2' \subseteq Scopes /\ v3' \subseteq Login!AllScopes
    /\ v4' \in Login!Issued \cup {Login!None} /\ v5' \in Login!Clients \cup {Login!None}
    /\ v5' # Login!None => \E c \in v6' : c.id = v5'.id /\ c.port = v5'.port
    /\ v6 \subseteq v6' /\ IsFiniteSet(v6')
    /\ \A tab \in v8' : tab.login \in Logins /\ tab.port \in Ports

LEMMA LoginChange ==
    ASSUME Login!IInv, NEW l \in Logins, NEW r \in Login!Sessions, v7' = [v7 EXCEPT ![l] = r],
           LoginFits(l, r), LoginShares
    PROVE  Login!IInv'
<1> USE DEF LoginFits, LoginShares
<1> USE DEF Login!At
<1>1. /\ v7' \in [Logins -> Login!Sessions] /\ v7'[l] = r
      /\ \A k \in Logins : k # l => v7'[k] = v7[k]
  BY DEF Login!IInv, Login!ClientInv
<1>2. Login!TypeOK'
  BY <1>1 DEF Login!IInv, Login!TypeOK, Login!Sessions, Login!AllScopes
<1>3. Login!ClientInv'
  <2>1. Login!IsFiniteSet(v6') BY DEF IsFiniteSet, Login!IsFiniteSet
  <2>2. \A k \in Logins :
          /\ v7'[k].at = "who" /\ v7'[k].client # Login!None =>
                \E c \in v6' : c.id = v7'[k].client.id /\ c.port = v7'[k].client.port
          /\ v7'[k].at \in {"wait", "code"} => v7'[k].client # Login!None
          /\ v7'[k].at \in {"who", "wait", "code"} => v7'[k].port \in Ports
    BY <1>1 DEF Login!IInv, Login!ClientInv, Login!Registered
  <2> QED BY <1>1, <2>1, <2>2 DEF Login!ClientInv, Login!Registered
<1>4. Login!ClientFitsListener'
  <2>1. \A k \in Logins : v7'[k].at \in {"wait", "code"} /\ v1'.client = "registered" =>
           \E c \in v6' : c.id = v7'[k].client.id /\ c.port = v7'[k].port
    BY <1>1 DEF Login!IInv, Login!ClientFitsListener
  <2>2. \A k, m \in Logins :
           k # m /\ {v7'[k].at, v7'[m].at} \subseteq {"who", "wait", "code"} =>
              v7'[k].port # v7'[m].port
    BY <1>1 DEF Login!IInv, Login!ClientFitsListener
  <2> QED BY <2>1, <2>2 DEF Login!ClientFitsListener
<1>5. Login!CodeIsItsOwn' /\ Login!StepUpAsksForAll'
  BY <1>1 DEF Login!IInv, Login!CodeIsItsOwn, Login!StepUpAsksForAll
<1> QED BY <1>2, <1>3, <1>4, <1>5 DEF Login!IInv

\* A step that leaves the logins alone.
LEMMA LoginQuiet ==
    ASSUME Login!IInv, UNCHANGED <<v1, v6, v7>>, v2' \subseteq Scopes,
           v3' \subseteq Login!AllScopes, v4' \in Login!Issued \cup {Login!None},
           v5' \in Login!Clients \cup {Login!None},
           v5' # Login!None => \E c \in v6 : c.id = v5'.id /\ c.port = v5'.port,
           \A tab \in v8' : tab.login \in Logins /\ tab.port \in Ports
    PROVE  Login!IInv'
<1> USE DEF Login!At
<1>1. Login!TypeOK' BY DEF Login!IInv, Login!TypeOK, Login!AllScopes
<1>2. Login!ClientInv' BY DEF Login!IInv, Login!ClientInv, Login!Registered
<1>3. Login!ClientFitsListener' /\ Login!CodeIsItsOwn' /\ Login!StepUpAsksForAll'
  BY DEF Login!IInv, Login!ClientFitsListener, Login!CodeIsItsOwn, Login!StepUpAsksForAll
<1> QED BY <1>1, <1>2, <1>3 DEF Login!IInv

\* What a step starts from.
LEMMA LoginReads ==
    ASSUME Login!IInv
    PROVE  /\ v1 \in Deployments /\ v2 \subseteq Scopes /\ v3 \subseteq Login!AllScopes
           /\ v4 \in Login!Issued \cup {Login!None} /\ v5 \in Login!Clients \cup {Login!None}
           /\ v5 # Login!None => \E c \in v6 : c.id = v5.id /\ c.port = v5.port
           /\ IsFiniteSet(v6)
           /\ \A tab \in v8 : tab.login \in Logins /\ tab.port \in Ports
           /\ \A l \in Logins : v7[l] \in Login!Sessions
<1>1. IsFiniteSet(v6)
  BY DEF IsFiniteSet, Login!IsFiniteSet, Login!IInv, Login!ClientInv
<1> QED
  BY <1>1 DEF Login!IInv, Login!TypeOK, Login!ClientInv, Login!Registered, Login!AllScopes

LEMMA LoginIdle == Login!Idle \in Login!Sessions
<1>1. PICK no \in BOOLEAN : no = FALSE BY Zenon
<1>2. Login!Idle = [at |-> "idle", port |-> 0, client |-> Login!None, asked |-> {}, kept |-> {},
                    found |-> no, code |-> 0]
  BY Zenon, <1>1 DEF Login!Idle
<1> QED BY <1>2 DEF Login!Sessions

LEMMA LoginInit == ASSUME Login!Init PROVE Login!IInv
<1> USE DEF Login!Init, Login!At
<1>1. v7 \in [Logins -> Login!Sessions] /\ \A l \in Logins : v7[l].at = "idle"
  BY LoginIdle DEF Login!Idle
<1>2. Login!IsFiniteSet({})
  BY FS_EmptySet DEF IsFiniteSet, Login!IsFiniteSet
<1>3. Login!TypeOK BY <1>1 DEF Login!TypeOK
<1>4. Login!ClientInv BY <1>1, <1>2 DEF Login!ClientInv
<1>5. Login!ClientFitsListener /\ Login!CodeIsItsOwn /\ Login!StepUpAsksForAll
  BY <1>1 DEF Login!ClientFitsListener, Login!CodeIsItsOwn, Login!StepUpAsksForAll
<1> QED BY <1>3, <1>4, <1>5 DEF Login!IInv

\* A login ends, well or not.
LEMMA LoginEnd ==
    ASSUME Login!IInv, NEW l \in Logins, Login!End(l),
           UNCHANGED <<v1, v5, v6>>, v2' \subseteq Scopes, v3' \subseteq Login!AllScopes,
           v4' \in Login!Issued \cup {Login!None}, v8' \subseteq v8
    PROVE  Login!IInv'
<1> DEFINE r == [Login!Idle EXCEPT !.at = "done"]
<1>1. v7' = [v7 EXCEPT ![l] = r] BY DEF Login!End
<1>2. r \in Login!Sessions /\ r.at = "done" BY LoginIdle DEF Login!Sessions
<1> HIDE DEF r
<1>3. LoginFits(l, r) BY <1>2 DEF LoginFits
<1>4. LoginShares BY LoginReads DEF LoginShares
<1> QED BY <1>1, <1>2, <1>3, <1>4, LoginChange

\* The challenge, and the scopes kept, as they are when the login begins.
LEMMA LoginDiscover ==
    ASSUME Login!IInv, NEW l \in Logins, Login!Discover(l)
    PROVE  Login!IInv'
<1>1. PICK found \in BOOLEAN :
         v7' = [v7 EXCEPT ![l] = [Login!Idle EXCEPT !.at = "server", !.asked = v2,
                                    !.kept = v3, !.found = found]]
  BY DEF Login!Discover
<1> DEFINE r == [Login!Idle EXCEPT !.at = "server", !.asked = v2, !.kept = v3, !.found = found]
<1>2. v2 \in SUBSET Login!AllScopes /\ v3 \in SUBSET Login!AllScopes
  BY LoginReads DEF Login!AllScopes
<1>3. r \in Login!Sessions /\ r.at = "server" BY <1>2, LoginIdle DEF Login!Sessions
<1>4. v7' = [v7 EXCEPT ![l] = r] BY <1>1
<1>5. UNCHANGED <<v1, v2, v3, v4, v5, v6, v8>> BY DEF Login!Discover
<1> HIDE DEF r
<1>6. LoginShares BY <1>5, LoginReads DEF LoginShares
<1>7. LoginFits(l, r) BY <1>3 DEF LoginFits
<1> QED BY <1>3, <1>4, <1>6, <1>7, LoginChange

LEMMA LoginFindServer ==
    ASSUME Login!IInv, NEW l \in Logins, Login!FindServer(l)
    PROVE  Login!IInv'
<1>1. UNCHANGED <<v1, v2, v3, v4, v5, v6, v8>> BY DEF Login!FindServer
<1>2. LoginShares BY <1>1, LoginReads DEF LoginShares
<1>3. CASE Login!End(l) BY <1>1, <1>3, LoginReads, LoginEnd
<1>4. CASE v7' = [v7 EXCEPT ![l].at = "listen"]
  <2> DEFINE r == [v7[l] EXCEPT !.at = "listen"]
  <2>1. v7' = [v7 EXCEPT ![l] = r] BY <1>4
  <2>2. r \in Login!Sessions /\ r.at = "listen" BY LoginReads DEF Login!Sessions
  <2> HIDE DEF r
  <2>3. LoginFits(l, r) BY <2>2 DEF LoginFits
  <2> QED BY <1>2, <2>1, <2>2, <2>3, LoginChange
<1> QED BY <1>3, <1>4 DEF Login!FindServer

\* The port is of no other listener; a registration is kept for its own port alone.
LEMMA LoginListen ==
    ASSUME Login!IInv, NEW l \in Logins, Login!Listen(l)
    PROVE  Login!IInv'
<1> USE ServersAssumption
<1>1. UNCHANGED <<v1, v2, v3, v4, v5, v6, v8>> BY DEF Login!Listen
<1>2. LoginShares BY <1>1, LoginReads DEF LoginShares
<1>3. ASSUME NEW port \in Ports, port \notin Login!Listening,
             NEW party \in Login!Clients \cup {Login!None},
             party # Login!None => \E c \in v6 : c.id = party.id /\ c.port = party.port,
             v7' = [v7 EXCEPT ![l].at = "who", ![l].port = port, ![l].client = party]
      PROVE  Login!IInv'
  <2> DEFINE r == [v7[l] EXCEPT !.at = "who", !.port = port, !.client = party]
  <2>1. v7' = [v7 EXCEPT ![l] = r] BY <1>3
  <2>2. r \in Login!Sessions /\ r.at = "who" /\ r.port = port /\ r.client = party
    <3>1. "who" \in {"idle", "server", "listen", "who", "wait", "code", "done"} OBVIOUS
    <3>2. port \in {0} \cup Ports BY <1>3
    <3>3. v7[l] \in Login!Sessions BY LoginReads
    <3> QED BY <1>3, <3>1, <3>2, <3>3 DEF Login!Sessions
  <2> HIDE DEF r
  <2>3. \A k \in Logins : v7[k].at \in {"who", "wait", "code"} => v7[k].port # port
    BY <1>3 DEF Login!Listening, Login!At
  <2>4. LoginFits(l, r) BY <1>1, <1>3, <2>2, <2>3 DEF LoginFits
  <2> QED BY <1>2, <2>1, <2>2, <2>4, LoginChange
<1>4. CASE Login!WantedPort # 0 /\ Login!WantedPort \notin Login!Listening
  <2>1. v7' = [v7 EXCEPT ![l].at = "who", ![l].port = Login!WantedPort,
                         ![l].client = Login!Earlier]
    BY <1>4 DEF Login!Listen
  <2>2. /\ Login!Earlier \in Login!Clients \cup {Login!None}
        /\ Login!Earlier # Login!None =>
              \E c \in v6 : c.id = Login!Earlier.id /\ c.port = Login!Earlier.port
    BY LoginReads DEF Login!Earlier
  <2>3. v1.port \in {0} \cup Ports BY LoginReads
  <2>4. Login!WantedPort \in Ports BY <1>4, <2>2, <2>3 DEF Login!WantedPort, Login!Clients
  <2> QED BY <1>3, <1>4, <2>1, <2>2, <2>4
<1>5. CASE Login!End(l) BY <1>1, <1>5, LoginReads, LoginEnd
<1>6. CASE \E p \in Ports \ Login!Listening :
              v7' = [v7 EXCEPT ![l].at = "who", ![l].port = p, ![l].client = Login!None]
  BY <1>3, <1>6
<1> QED BY <1>4, <1>5, <1>6 DEF Login!Listen

\* A step-up asks for all that was kept.
LEMMA LoginScopes ==
    ASSUME Login!IInv, NEW l \in Logins
    PROVE  /\ Login!ChooseScope(l) \in SUBSET Login!AllScopes
           /\ v1.scopes = {} => v7[l].kept \subseteq Login!ChooseScope(l)
<1>1. /\ v1.scopes \subseteq Scopes /\ v1.resourceScopes \subseteq Scopes
      /\ v7[l].asked \subseteq Login!AllScopes /\ v7[l].kept \subseteq Login!AllScopes
  BY ServersAssumption, LoginReads DEF Login!Sessions
<1> QED BY <1>1 DEF Login!ChooseScope, Login!AllScopes

\* The browser is sent off for a client the authorization server knows.
LEMMA LoginBrowse ==
    ASSUME Login!IInv, NEW l \in Logins, NEW party \in Login!Clients, Login!At(l) = "who",
           Login!Browse(l, party), party # Login!None,
           v1.client = "registered" => \E c \in v6' : c.id = party.id /\ c.port = v7[l].port,
           UNCHANGED <<v1, v2, v3, v4>>, v5' \in Login!Clients \cup {Login!None},
           v5' # Login!None => \E c \in v6' : c.id = v5'.id /\ c.port = v5'.port,
           v6 \subseteq v6', IsFiniteSet(v6')
    PROVE  Login!IInv'
<1> USE DEF Login!At
<1> DEFINE scope == Login!ChooseScope(l)
           r == [v7[l] EXCEPT !.at = "wait", !.client = party, !.asked = scope]
<1>1. v7' = [v7 EXCEPT ![l] = r] BY DEF Login!Browse
<1>2. scope \in SUBSET Login!AllScopes /\ (v1.scopes = {} => v7[l].kept \subseteq scope)
  BY LoginScopes
<1> HIDE DEF scope
<1>3. /\ r \in Login!Sessions /\ r.at = "wait" /\ r.port = v7[l].port /\ r.client = party
      /\ r.asked = scope /\ r.kept = v7[l].kept
  <2>1. v7[l] \in Login!Sessions BY LoginReads
  <2> QED BY <1>2, <2>1 DEF Login!Sessions
<1>4. /\ v7[l].port \in Ports
      /\ \A k \in Logins : k # l /\ v7[k].at \in {"who", "wait", "code"} =>
            v7[k].port # v7[l].port
  BY DEF Login!IInv, Login!ClientInv, Login!ClientFitsListener
<1>5. \A tab \in v8' : tab.login \in Logins /\ tab.port \in Ports
  BY <1>4, LoginReads DEF Login!Browse
<1> HIDE DEF r
<1>6. LoginShares BY <1>5, LoginReads DEF LoginShares
<1>7. LoginFits(l, r) BY <1>2, <1>3, <1>4 DEF LoginFits
<1> QED BY <1>1, <1>3, <1>6, <1>7, LoginChange

LEMMA LoginWhoWeAre ==
    ASSUME Login!IInv, NEW l \in Logins, Login!WhoWeAre(l)
    PROVE  Login!IInv'
<1> USE ServersAssumption
<1>1. /\ Login!At(l) = "who" /\ UNCHANGED <<v1, v2, v3, v4>> BY DEF Login!WhoWeAre
<1>2. v7[l].port \in Ports /\ v1.secret \in BOOLEAN
  BY <1>1, LoginReads DEF Login!IInv, Login!ClientInv
<1>3. PICK yes \in BOOLEAN : yes = TRUE BY Zenon
<1>4. CASE /\ v1.client # "registered"
           /\ Login!Browse(l, [id |-> 0, port |-> v7[l].port, secret |-> v1.secret, valid |-> TRUE])
           /\ UNCHANGED <<v5, v6>>
  <2> DEFINE party == [id |-> 0, port |-> v7[l].port, secret |-> v1.secret, valid |-> yes]
  <2>1. Login!Browse(l, party) BY Zenon, <1>3, <1>4
  <2>2. party \in Login!Clients BY <1>2 DEF Login!Clients
  <2>3. party # Login!None BY DEF Login!None
  <2> HIDE DEF party
  <2> QED BY <1>1, <1>4, <2>1, <2>2, <2>3, LoginReads, LoginBrowse
<1>5. CASE /\ Login!UsableRegistration(v7[l].client, v7[l].port)
           /\ Login!Browse(l, v7[l].client)
           /\ UNCHANGED <<v5, v6>>
  <2> DEFINE party == v7[l].client
  <2>1. party \in Login!Clients /\ party # Login!None /\ party.port = v7[l].port
    BY <1>5, LoginReads DEF Login!UsableRegistration, Login!Sessions
  <2>2. \E c \in v6 : c.id = party.id /\ c.port = party.port
    BY <1>1, <2>1 DEF Login!IInv, Login!ClientInv, Login!Registered
  <2>3. Login!Browse(l, party) BY <1>5
  <2> HIDE DEF party
  <2> QED BY <1>1, <1>5, <2>1, <2>2, <2>3, LoginReads, LoginBrowse
<1>6. CASE Login!End(l) /\ UNCHANGED <<v8, v5, v6>> BY <1>1, <1>6, LoginReads, LoginEnd
<1> DEFINE id == Login!Cardinality(v6) + 1
<1>7. CASE LET party == [id |-> id, port |-> v7[l].port, secret |-> v1.secret, valid |-> TRUE]
           IN /\ v6' = v6 \cup {party}
              /\ Login!PutClient(party)
              /\ Login!Browse(l, party)
  <2>1. id \in Nat
    <3>1. Login!Cardinality(v6) = Cardinality(v6) BY DEF Cardinality, Login!Cardinality
    <3> QED BY <3>1, LoginReads, FS_CardinalityType
  <2> HIDE DEF id
  <2> DEFINE party == [id |-> id, port |-> v7[l].port, secret |-> v1.secret, valid |-> yes]
  <2>2. v6' = v6 \cup {party} /\ Login!PutClient(party) /\ Login!Browse(l, party)
    BY Zenon, <1>3, <1>7
  <2>3. party \in Login!Clients /\ party.port = v7[l].port BY <1>2, <2>1 DEF Login!Clients
  <2>4. party # Login!None BY DEF Login!None
  <2> HIDE DEF party
  <2>5. IsFiniteSet(v6') BY <2>2, LoginReads, FS_AddElement
  <2>6. v6 \subseteq v6' /\ party \in v6' BY <2>2
  <2>7. /\ v5' \in Login!Clients \cup {Login!None}
        /\ v5' # Login!None => \E c \in v6' : c.id = v5'.id /\ c.port = v5'.port
    BY <2>2, <2>3, <2>6, LoginReads DEF Login!PutClient
  <2> QED BY <1>1, <2>2, <2>3, <2>4, <2>5, <2>6, <2>7, LoginBrowse
<1> QED
  <2> HIDE DEF id
  <2> QED BY <1>4, <1>5, <1>6, <1>7 DEF Login!WhoWeAre, id

\* A code comes back on this login's port, and with its state.
LEMMA LoginComeBack ==
    ASSUME Login!IInv, NEW l \in Logins, NEW tab \in v8, Login!ComeBack(l, tab)
    PROVE  Login!IInv'
<1>1. /\ Login!At(l) = "wait" /\ v8' \subseteq v8 /\ UNCHANGED <<v1, v2, v3, v4, v5, v6>>
  BY DEF Login!ComeBack
<1>2. CASE Login!End(l) BY <1>1, <1>2, LoginReads, LoginEnd
<1>3. CASE /\ Login!SameState(l, tab)
           /\ v7' = [v7 EXCEPT ![l].at = "code", ![l].code = tab.login]
  <2> DEFINE r == [v7[l] EXCEPT !.at = "code", !.code = l]
  <2>1. v7' = [v7 EXCEPT ![l] = r] BY <1>3 DEF Login!SameState
  <2>2. /\ r \in Login!Sessions /\ r.at = "code" /\ r.code = l
        /\ r.port = v7[l].port /\ r.client = v7[l].client
    <3>1. v7[l] \in Login!Sessions /\ l \in {0} \cup Logins BY LoginReads
    <3> QED BY <3>1 DEF Login!Sessions
  <2> HIDE DEF r
  <2>3. /\ v7[l].port \in Ports /\ v7[l].client # Login!None
        /\ v1.client = "registered" =>
              \E c \in v6 : c.id = v7[l].client.id /\ c.port = v7[l].port
        /\ \A k \in Logins : k # l /\ v7[k].at \in {"who", "wait", "code"} =>
              v7[k].port # v7[l].port
    BY <1>1 DEF Login!At, Login!IInv, Login!ClientInv, Login!ClientFitsListener
  <2>4. LoginFits(l, r) BY <1>1, <2>2, <2>3 DEF LoginFits
  <2>5. LoginShares BY <1>1, LoginReads DEF LoginShares
  <2> QED BY <2>1, <2>2, <2>4, <2>5, LoginChange
<1> QED BY <1>2, <1>3 DEF Login!ComeBack

\* The token is for what was asked, or for less.
LEMMA LoginExchange ==
    ASSUME Login!IInv, NEW l \in Logins, Login!Exchange(l)
    PROVE  Login!IInv'
<1>1. /\ Login!At(l) = "code" /\ Login!End(l) /\ UNCHANGED <<v1, v5, v6, v8>>
  BY DEF Login!Exchange
<1>2. CASE UNCHANGED <<v2, v3, v4>> BY <1>1, <1>2, LoginReads, LoginEnd
<1>3. CASE /\ \E given \in SUBSET v7[l].asked :
                 v4' = [client |-> v7[l].client,
                        scope |-> IF given = {} THEN v7[l].asked ELSE given]
           /\ v2' = {} /\ v3' = {}
  <2>1. v7[l].asked \subseteq Login!AllScopes BY LoginReads DEF Login!Sessions
  <2>2. v7[l].client \in Login!Clients
    BY <1>1, LoginReads DEF Login!At, Login!Sessions, Login!IInv, Login!ClientInv
  <2>3. v4' \in Login!Issued BY <1>3, <2>1, <2>2 DEF Login!Issued
  <2> QED BY <1>1, <1>3, <2>3, LoginEnd
<1> QED BY <1>2, <1>3 DEF Login!Exchange

\* Nobody listens while m8 starts again.
LEMMA LoginRestart == ASSUME Login!IInv, Login!Restart PROVE Login!IInv'
<1>1. /\ v1' \in Deployments /\ v2' = {} /\ v3' = {} /\ UNCHANGED <<v4, v5, v6, v7, v8>>
  BY DEF Login!Restart
<1>2. \A l \in Logins : v7[l].at \notin {"who", "wait", "code"}
  BY DEF Login!Restart, Login!Listening, Login!At
<1> USE DEF Login!At
<1>3. Login!TypeOK' BY <1>1 DEF Login!IInv, Login!TypeOK
<1>4. Login!ClientInv' BY <1>1 DEF Login!IInv, Login!ClientInv, Login!Registered
<1>5. Login!ClientFitsListener' BY <1>1, <1>2 DEF Login!ClientFitsListener
<1>6. Login!CodeIsItsOwn' /\ Login!StepUpAsksForAll'
  BY <1>1, <1>2 DEF Login!CodeIsItsOwn, Login!StepUpAsksForAll
<1> QED BY <1>3, <1>4, <1>5, <1>6 DEF Login!IInv

\* What goes on besides: challenges, refreshes, a secret that is over, tabs closed.
LEMMA LoginWorld ==
    ASSUME Login!IInv,
           \/ \E scope \in SUBSET Scopes, insufficient \in BOOLEAN :
                 Login!Challenge(scope, insufficient)
           \/ \E tab \in v8 : Login!TabLost(tab)
           \/ Login!SecretExpires \/ Login!Refresh \/ Login!Logout
    PROVE  Login!IInv'
<1>1. CASE \E scope \in SUBSET Scopes, insufficient \in BOOLEAN :
              Login!Challenge(scope, insufficient)
  <2>1. PICK scope \in SUBSET Scopes, insufficient \in BOOLEAN :
               Login!Challenge(scope, insufficient)
    BY <1>1
  <2>2. v2' \subseteq Scopes /\ UNCHANGED <<v1, v4, v5, v6, v7, v8>>
    BY <2>1 DEF Login!Challenge
  <2>3. v3' \subseteq Login!AllScopes
    <3>1. CASE ~insufficient BY <2>1, <3>1, LoginReads DEF Login!Challenge
    <3>2. CASE insufficient
      <4>1. v3' = v3 \cup scope \cup v4.scope /\ v4 # Login!None
        BY <2>1, <3>2 DEF Login!Challenge
      <4>2. v4.scope \subseteq Login!AllScopes BY <4>1, LoginReads DEF Login!Issued
      <4> QED BY <4>1, <4>2, LoginReads DEF Login!AllScopes
    <3> QED BY <3>1, <3>2
  <2> QED BY <2>2, <2>3, LoginReads, LoginQuiet
<1>2. CASE \E tab \in v8 : Login!TabLost(tab)
  BY <1>2, LoginReads, LoginQuiet DEF Login!TabLost
<1>3. CASE Login!SecretExpires
  <2>1. PICK no \in BOOLEAN : no = FALSE BY Zenon
  <2>2. v5 \in Login!Clients /\ UNCHANGED <<v1, v2, v3, v4, v6, v7, v8>>
    BY <1>3, LoginReads DEF Login!SecretExpires
  <2>3. v5' = [v5 EXCEPT !.valid = no] BY Zenon, <1>3, <2>1 DEF Login!SecretExpires
  <2>4. v5' \in Login!Clients /\ v5'.id = v5.id /\ v5'.port = v5.port
    BY <2>2, <2>3 DEF Login!Clients
  <2>5. \E c \in v6 : c.id = v5'.id /\ c.port = v5'.port
    BY <1>3, <2>4, LoginReads DEF Login!SecretExpires
  <2> QED BY <2>2, <2>4, <2>5, LoginReads, LoginQuiet
<1>4. CASE Login!Refresh
  <2>1. v4 \in Login!Issued /\ UNCHANGED <<v1, v2, v3, v5, v6, v7, v8>>
    BY <1>4, LoginReads DEF Login!Refresh
  <2>2. PICK given \in SUBSET v4.scope : v4' = [v4 EXCEPT !.scope = given]
    BY <1>4 DEF Login!Refresh
  <2>3. v4' \in Login!Issued BY <2>1, <2>2 DEF Login!Issued
  <2> QED BY <2>1, <2>3, LoginReads, LoginQuiet
<1>5. CASE Login!Logout BY <1>5, LoginReads, LoginQuiet DEF Login!Logout
<1> QED BY <1>1, <1>2, <1>3, <1>4, <1>5

LEMMA LoginStep == ASSUME Login!IInv, [Login!Next]_(Login!vars) PROVE Login!IInv'
<1>1. ASSUME NEW l \in Logins, Login!Step(l) PROVE Login!IInv'
  <2>1. CASE Login!GiveUp(l)
    <3>1. Login!End(l) /\ UNCHANGED <<v1, v2, v3, v4, v5, v6, v8>> BY <2>1 DEF Login!GiveUp
    <3> QED BY <3>1, LoginReads, LoginEnd
  <2> QED BY <1>1, <2>1, LoginDiscover, LoginFindServer, LoginListen, LoginWhoWeAre,
             LoginExchange DEF Login!Step
<1>2. CASE Login!World
  BY <1>2, LoginWorld, LoginComeBack, LoginRestart DEF Login!World
<1>3. CASE UNCHANGED Login!vars
  BY <1>3 DEF Login!vars, Login!At, Login!IInv, Login!TypeOK, Login!ClientInv,
     Login!ClientFitsListener, Login!CodeIsItsOwn, Login!StepUpAsksForAll, Login!Registered
<1> QED BY <1>1, <1>2, <1>3 DEF Login!Next

----------------------------------------------------------------------------
(* The prompt.                                                             *)

LEMMA PromptInit == ASSUME Prompt!Init PROVE Prompt!IInv
BY DEF Prompt!Init, Prompt!IInv, Prompt!TypeOK, Prompt!WorkerInv, Prompt!WorkerIsJoined

\* The person's part of a prompt: the thread is started, and joined at its end.
LEMMA PromptCaller ==
    ASSUME Prompt!IInv, NEW c \in Callers, Prompt!CallerStep(c)
    PROVE  Prompt!IInv'
<1> USE DEF Prompt!IInv, Prompt!TypeOK, Prompt!WorkerInv, Prompt!WorkerIsJoined, Prompt!Go,
            Prompt!sharedVars
<1>1. CASE Prompt!Begin(c) BY <1>1 DEF Prompt!Begin
<1>2. CASE Prompt!No(c)
  <2>1. v3' \in BOOLEAN BY <1>2, Zenon DEF Prompt!No
  <2> QED BY <1>2, <2>1 DEF Prompt!No
<1>3. CASE Prompt!Yes(c) BY <1>3 DEF Prompt!Yes, Prompt!Worker
<1>4. CASE Prompt!Check(c) \/ Prompt!Block(c) \/ Prompt!Withdrawn(c)
  BY <1>4 DEF Prompt!Check, Prompt!Block, Prompt!Withdrawn
<1>5. CASE Prompt!GiveUp(c) BY <1>5 DEF Prompt!GiveUp
<1>6. CASE Prompt!Join(c) BY <1>6 DEF Prompt!Join
<1> QED BY <1>1, <1>2, <1>3, <1>4, <1>5, <1>6 DEF Prompt!CallerStep

\* The login thread's part: what it does, it does while the prompt is up.
LEMMA PromptWorker ==
    ASSUME Prompt!IInv, NEW c \in Callers, Prompt!WorkerStep(c)
    PROVE  Prompt!IInv'
<1> USE DEF Prompt!IInv, Prompt!TypeOK, Prompt!WorkerInv, Prompt!WorkerIsJoined, Prompt!Worker,
            Prompt!sharedVars, Prompt!callerVars, Prompt!Notify
<1>1. CASE Prompt!CannotBegin(c) \/ Prompt!LoginEnds(c)
  BY <1>1 DEF Prompt!CannotBegin, Prompt!LoginEnds
<1>2. CASE Prompt!ShowLink(c) BY <1>2 DEF Prompt!ShowLink
<1>3. CASE Prompt!StoreFinished(c) BY <1>3 DEF Prompt!StoreFinished
<1>4. CASE Prompt!NotifyFinished(c) BY <1>4 DEF Prompt!NotifyFinished
<1> QED BY <1>1, <1>2, <1>3, <1>4 DEF Prompt!WorkerStep

LEMMA PromptStep == ASSUME Prompt!IInv, [Prompt!Next]_(Prompt!vars) PROVE Prompt!IInv'
<1>1. CASE Prompt!Quit
  <2>1. v8' \in BOOLEAN BY <1>1, Zenon DEF Prompt!Quit
  <2> QED BY <1>1, <2>1 DEF Prompt!Quit, Prompt!callerVars, Prompt!sharedVars, Prompt!IInv,
             Prompt!TypeOK, Prompt!WorkerInv, Prompt!WorkerIsJoined
<1>2. CASE UNCHANGED Prompt!vars
  BY <1>2 DEF Prompt!vars, Prompt!callerVars, Prompt!sharedVars, Prompt!IInv, Prompt!TypeOK,
     Prompt!WorkerInv, Prompt!WorkerIsJoined
<1> QED BY <1>1, <1>2, PromptCaller, PromptWorker DEF Prompt!Next

\* Only Begin brings a caller to the question, and it looks at what was declined.
LEMMA PromptAsksOnce == ASSUME Prompt!IInv, [Prompt!Next]_(Prompt!vars) PROVE Prompt!AsksOnce
<1> SUFFICES ASSUME NEW c \in Callers, v3, v2'[c] = "ask", v2[c] # "ask" PROVE FALSE
  BY DEF Prompt!AsksOnce
<1> USE DEF Prompt!IInv, Prompt!TypeOK, Prompt!Go, Prompt!Notify, Prompt!callerVars,
            Prompt!sharedVars
<1>1. ASSUME NEW d \in Callers, Prompt!CallerStep(d) PROVE FALSE
  <2>1. CASE Prompt!Begin(d) BY <2>1 DEF Prompt!Begin
  <2>2. CASE Prompt!No(d) \/ Prompt!Yes(d) BY <2>2 DEF Prompt!No, Prompt!Yes
  <2>3. CASE Prompt!Check(d) \/ Prompt!Block(d) BY <2>3 DEF Prompt!Check, Prompt!Block
  <2>4. CASE Prompt!Withdrawn(d) \/ Prompt!GiveUp(d) \/ Prompt!Join(d)
    BY <2>4 DEF Prompt!Withdrawn, Prompt!GiveUp, Prompt!Join
  <2> QED BY <1>1, <2>1, <2>2, <2>3, <2>4 DEF Prompt!CallerStep
<1>2. ASSUME NEW d \in Callers, Prompt!WorkerStep(d) PROVE FALSE
  <2>1. CASE Prompt!CannotBegin(d) \/ Prompt!LoginEnds(d) \/ Prompt!StoreFinished(d)
    BY <2>1 DEF Prompt!CannotBegin, Prompt!LoginEnds, Prompt!StoreFinished
  <2>2. CASE Prompt!ShowLink(d) \/ Prompt!NotifyFinished(d)
    BY <2>2 DEF Prompt!ShowLink, Prompt!NotifyFinished
  <2> QED BY <1>2, <2>1, <2>2 DEF Prompt!WorkerStep
<1>3. CASE Prompt!Quit BY <1>3 DEF Prompt!Quit
<1>4. CASE UNCHANGED Prompt!vars BY <1>4 DEF Prompt!vars
<1> QED BY <1>1, <1>2, <1>3, <1>4 DEF Prompt!Next

----------------------------------------------------------------------------
(* The configuration and what was approved.                                *)

\* A copy of the approvals with one more that somebody said yes to, or with one less.
LEMMA ConfigWith ==
    ASSUME NEW A \in Config!Approvals, NEW n \in Names, NEW w \in Config!Entry, NEW S, NEW T,
           \A m \in Names : A[m] # 0 => <<m, A[m]>> \in S,
           S \subseteq T, w # 0 => <<n, w>> \in T
    PROVE  /\ Config!WithApproval(A, n, w) \in Config!Approvals
           /\ \A m \in Names : Config!WithApproval(A, n, w)[m] # 0 =>
                 <<m, Config!WithApproval(A, n, w)[m]>> \in T
BY DEF Config!WithApproval, Config!Approvals

LEMMA ConfigNone ==
    /\ Config!NoneOf \in Config!Approvals /\ \A n \in Names : Config!NoneOf[n] = 0
    /\ [n \in Names |-> Config!None] \in [Names -> Config!Entries]
BY DEF Config!NoneOf, Config!Approvals, Config!Entry, Config!None, Config!Entries

LEMMA ConfigDone ==
    /\ Config!Done \in Config!Commands /\ Config!Done.at = "done"
    /\ Config!Done.trust = Config!NoneOf
<1>1. 0 \in Config!Entry BY DEF Config!Entry
<1> QED BY <1>1, ConfigNone DEF Config!Done, Config!Commands, Config!Stages

LEMMA ConfigDown ==
    /\ Config!Down \in Config!Running /\ Config!Down.trust = Config!NoneOf
    /\ Config!Down.runs = Config!NoneOf
<1>1. PICK no \in BOOLEAN : no = FALSE BY Zenon
<1>2. Config!Down = [up |-> no, conf |-> [n \in Names |-> Config!None],
                     trust |-> Config!NoneOf, runs |-> Config!NoneOf]
  BY Zenon, <1>1 DEF Config!Down
<1> QED BY <1>2, ConfigNone DEF Config!Running

\* What load_config() makes of the three files.
LEMMA ConfigLoads == ASSUME Config!IInv PROVE Config!LoadConfig \in [Names -> Config!Entries]
<1>1. ASSUME NEW conf \in [Names -> Config!Entries], NEW s \in {"user", "shared", "project"}
      PROVE  Config!Overlay(conf, s) \in [Names -> Config!Entries]
  <2>1. \A n \in Names : v1[s][n] \in Config!Entry BY DEF Config!IInv, Config!TypeOK
  <2> QED BY <2>1 DEF Config!Overlay, Config!Entries
<1>2. Config!Overlay([n \in Names |-> Config!None], "user") \in [Names -> Config!Entries]
  BY <1>1, ConfigNone
<1>3. Config!Overlay(Config!Overlay([n \in Names |-> Config!None], "user"), "shared")
         \in [Names -> Config!Entries]
  BY <1>1, <1>2
<1> QED BY <1>1, <1>3 DEF Config!LoadConfig

LEMMA ConfigTrusts ==
    ASSUME Config!IInv
    PROVE  Config!LoadTrust \in Config!Approvals /\ Config!SaidTo(Config!LoadTrust)
BY ConfigNone DEF Config!LoadTrust, Config!IInv, Config!TypeOK, Config!ApprovalInv,
   Config!SaidTo, Config!Approvals

LEMMA ConfigInit == ASSUME Config!Init PROVE Config!IInv
<1> USE ServersAssumption DEF Config!Init
<1>0. PICK no \in BOOLEAN : v3 = no BY Zenon
<1>1. /\ v4 \in [Apps -> Config!Running]
      /\ \A a \in Apps : v4[a].trust = Config!NoneOf /\ v4[a].runs = Config!NoneOf
  BY ConfigDown
<1>2. /\ v5 \in [Clis -> Config!Commands]
      /\ \A c \in Clis : v5[c].at = "new" /\ v5[c].trust = Config!NoneOf
  <2>1. [Config!Done EXCEPT !.at = "new"] \in Config!Commands
    BY ConfigDone DEF Config!Commands, Config!Stages
  <2>2. /\ [Config!Done EXCEPT !.at = "new"].at = "new"
        /\ [Config!Done EXCEPT !.at = "new"].trust = Config!NoneOf
    BY ConfigDone DEF Config!Commands, Config!Stages
  <2> QED BY <2>1, <2>2
<1>3. Config!TypeOK
  <2>1. v1 \in [{"user", "shared", "project"} -> [Names -> Config!Entry]]
    BY ConfigNone DEF Config!Approvals
  <2>2. v2 \in [Names -> Config!Entry] BY ConfigNone DEF Config!Approvals
  <2>3. v7 \in 0..MaxEdits OBVIOUS
  <2>4. \A a \in Apps : v4[a].runs \in [Names -> Config!Entry]
    BY <1>1, ConfigNone DEF Config!Approvals
  <2> QED BY <1>0, <1>2, <2>1, <2>2, <2>3, <2>4 DEF Config!TypeOK, Config!Stages
<1>4. Config!ApprovalInv BY <1>1, <1>2, ConfigNone DEF Config!ApprovalInv, Config!SaidTo
<1>5. Config!RunsOnlyApproved BY <1>1, ConfigNone DEF Config!RunsOnlyApproved
<1> QED BY <1>3, <1>4, <1>5 DEF Config!IInv

\* An m8's step: it runs what its own approvals have, and those were said yes to.
LEMMA ConfigApp ==
    ASSUME Config!IInv, NEW a \in Apps, NEW r \in Config!Running, v4' = [v4 EXCEPT ![a] = r],
           \A n \in Names : r.trust[n] # 0 => <<n, r.trust[n]>> \in v6' \cup v8',
           \A n \in Names : r.runs[n] # 0 /\ Config!NeedsApproval(r.conf[n]) =>
              <<n, r.runs[n]>> \in v6' \cup v8',
           v6 \cup v8 \subseteq v6' \cup v8', v3' \in BOOLEAN,
           v2' \in Config!Approvals,
           \A n \in Names : v2'[n] # 0 => <<n, v2'[n]>> \in v6' \cup v8',
           UNCHANGED <<v1, v5, v7>>
    PROVE  Config!IInv'
<1>1. /\ v4' \in [Apps -> Config!Running] /\ v4'[a] = r
      /\ \A b \in Apps : b # a => v4'[b] = v4[b]
  BY DEF Config!IInv, Config!ApprovalInv
<1>2. Config!TypeOK'
  BY <1>1 DEF Config!IInv, Config!TypeOK, Config!Running, Config!Approvals
<1>3. Config!ApprovalInv' BY <1>1 DEF Config!IInv, Config!ApprovalInv, Config!SaidTo
<1>4. Config!RunsOnlyApproved'
  BY <1>1 DEF Config!IInv, Config!RunsOnlyApproved, Config!NeedsApproval
<1> QED BY <1>2, <1>3, <1>4 DEF Config!IInv

\* A command's step: what it has read of the approvals was said yes to.
LEMMA ConfigCli ==
    ASSUME Config!IInv, NEW c \in Clis, NEW r \in Config!Commands, v5' = [v5 EXCEPT ![c] = r],
           r.at \notin {"new", "done"} => r.name \in Names,
           r.at \in {"add", "remove"} => r.scope # "",
           \A n \in Names : r.trust[n] # 0 => <<n, r.trust[n]>> \in v6 \cup v8,
           v6 \cup v8 \subseteq v6' \cup v8', v3' \in BOOLEAN,
           v1' \in [{"user", "shared", "project"} -> Config!Approvals],
           v2' \in Config!Approvals,
           \A n \in Names : v2'[n] # 0 => <<n, v2'[n]>> \in v6' \cup v8',
           UNCHANGED <<v4, v7>>
    PROVE  Config!IInv'
<1>1. /\ v5' \in [Clis -> Config!Commands] /\ v5'[c] = r
      /\ \A d \in Clis : d # c => v5'[d] = v5[d]
  BY DEF Config!IInv, Config!ApprovalInv
<1>2. Config!TypeOK'
  BY <1>1 DEF Config!IInv, Config!TypeOK, Config!Commands, Config!Stages, Config!Approvals
<1>3. Config!ApprovalInv' BY <1>1 DEF Config!IInv, Config!ApprovalInv, Config!SaidTo
<1>4. Config!RunsOnlyApproved'
  BY <1>1 DEF Config!IInv, Config!RunsOnlyApproved, Config!NeedsApproval
<1> QED BY <1>2, <1>3, <1>4 DEF Config!IInv

\* A command that ends keeps nothing of what it had read.
LEMMA ConfigEnds ==
    ASSUME Config!IInv, NEW c \in Clis, Config!Ends(c),
           v6 \cup v8 \subseteq v6' \cup v8', v3' \in BOOLEAN,
           v1' \in [{"user", "shared", "project"} -> Config!Approvals],
           v2' \in Config!Approvals,
           \A n \in Names : v2'[n] # 0 => <<n, v2'[n]>> \in v6' \cup v8',
           UNCHANGED <<v4, v7>>
    PROVE  Config!IInv'
<1>1. v5' = [v5 EXCEPT ![c] = Config!Done] BY DEF Config!Ends, Config!Goes
<1> QED BY <1>1, ConfigDone, ConfigNone, ConfigCli
\* The copies a step starts from.
LEMMA ConfigReads ==
    ASSUME Config!IInv
    PROVE  /\ v1 \in [{"user", "shared", "project"} -> Config!Approvals]
           /\ v2 \in Config!Approvals /\ v3 \in BOOLEAN /\ Config!SaidTo(v2)
           /\ \A a \in Apps : v4[a] \in Config!Running /\ Config!SaidTo(v4[a].trust)
           /\ \A c \in Clis : v5[c] \in Config!Commands /\ Config!SaidTo(v5[c].trust)
BY DEF Config!IInv, Config!TypeOK, Config!ApprovalInv, Config!Approvals

LEMMA ConfigStart ==
    ASSUME Config!IInv, NEW a \in Apps, Config!StartApp(a)
    PROVE  Config!IInv'
<1>1. PICK yes \in BOOLEAN : yes = TRUE BY Zenon
<1> DEFINE conf == Config!LoadConfig
           runs == [n \in Names |-> IF Config!MayRun(conf, Config!LoadTrust, n)
                                    THEN conf[n].version ELSE 0]
           r == [up |-> yes, conf |-> conf, trust |-> Config!LoadTrust, runs |-> runs]
<1>2. v4' = [v4 EXCEPT ![a] = r] BY Zenon, <1>1 DEF Config!StartApp
<1>3. UNCHANGED <<v1, v2, v3, v5, v6, v7, v8>> BY DEF Config!StartApp
<1>4. conf \in [Names -> Config!Entries] BY ConfigLoads
<1>5. Config!LoadTrust \in Config!Approvals /\ Config!SaidTo(Config!LoadTrust) BY ConfigTrusts
<1> HIDE DEF conf
<1>6. runs \in Config!Approvals BY <1>4 DEF Config!Approvals, Config!Entries, Config!Entry
<1>7. \A n \in Names : runs[n] # 0 /\ Config!NeedsApproval(conf[n]) =>
        <<n, runs[n]>> \in v6 \cup v8
  BY <1>5 DEF Config!MayRun, Config!Approved, Config!SaidTo
<1> HIDE DEF runs
<1>8. r \in Config!Running /\ r.trust = Config!LoadTrust /\ r.runs = runs /\ r.conf = conf
  BY <1>4, <1>5, <1>6 DEF Config!Running
<1> HIDE DEF r
<1> QED BY <1>2, <1>3, <1>5, <1>7, <1>8, ConfigReads, ConfigApp DEF Config!SaidTo

LEMMA ConfigApproves ==
    ASSUME Config!IInv, NEW a \in Apps, NEW n \in Names, Config!AppApproves(a, n)
    PROVE  Config!IInv'
<1> DEFINE version == v4[a].conf[n].version
           mine == Config!WithApproval(v4[a].trust, n, version)
<1>1. /\ v6' = v6 \cup {<<n, version>>} /\ UNCHANGED <<v1, v5, v7, v8>>
      /\ \/ /\ Config!SaveTrust(mine)
            /\ v4' = [v4 EXCEPT ![a].trust = mine,
                        ![a].runs[n] = IF Config!CanRun(version) THEN version ELSE 0]
         \/ /\ v4' = [v4 EXCEPT ![a].trust = mine]
            /\ UNCHANGED <<v2, v3>>
  BY DEF Config!AppApproves
<1>2. v4[a] \in Config!Running /\ version \in Config!Entry
  BY ConfigReads DEF Config!Running, Config!Entries
<1>3. mine \in Config!Approvals /\ \A m \in Names : mine[m] # 0 => <<m, mine[m]>> \in v6' \cup v8'
  <2>1. v4[a].trust \in Config!Approvals BY <1>2 DEF Config!Running
  <2>2. \A m \in Names : v4[a].trust[m] # 0 => <<m, v4[a].trust[m]>> \in v6 \cup v8
    BY ConfigReads DEF Config!SaidTo
  <2>3. v6 \cup v8 \subseteq v6' \cup v8' /\ <<n, version>> \in v6' \cup v8' BY <1>1
  <2> HIDE DEF version
  <2> QED BY <1>2, <2>1, <2>2, <2>3, ConfigWith
<1> HIDE DEF mine
<1>4. CASE /\ Config!SaveTrust(mine)
           /\ v4' = [v4 EXCEPT ![a].trust = mine,
                       ![a].runs[n] = IF Config!CanRun(version) THEN version ELSE 0]
  <2>1. v2' = mine /\ v3' \in BOOLEAN
    <3>1. v2' = mine /\ v3' = FALSE BY <1>4 DEF Config!SaveTrust
    <3> QED BY <3>1, Zenon
  <2> DEFINE runs == [v4[a].runs EXCEPT ![n] = IF Config!CanRun(version) THEN version ELSE 0]
             r == [v4[a] EXCEPT !.trust = mine, !.runs = runs]
  <2>2. v4' = [v4 EXCEPT ![a] = r] BY <1>2, <1>4 DEF Config!Running
  <2>3. runs \in Config!Approvals /\ \A m \in Names : runs[m] # 0 /\ m # n => runs[m] = v4[a].runs[m]
    BY <1>2 DEF Config!Running, Config!Approvals, Config!Entry
  <2>4. runs[n] # 0 => <<n, runs[n]>> \in v6' \cup v8'
    BY <1>1, <1>2 DEF Config!Running, Config!Approvals, Config!CanRun
  <2> HIDE DEF runs
  <2>5. /\ r \in Config!Running /\ r.trust = mine /\ r.runs = runs /\ r.conf = v4[a].conf
    BY <1>2, <1>3, <2>3 DEF Config!Running
  <2> HIDE DEF r, version
  <2>6. \A m \in Names : r.runs[m] # 0 /\ Config!NeedsApproval(r.conf[m]) =>
           <<m, r.runs[m]>> \in v6' \cup v8'
    BY <1>1, <2>3, <2>4, <2>5 DEF Config!IInv, Config!RunsOnlyApproved
  <2> QED BY <1>1, <1>3, <2>1, <2>2, <2>5, <2>6, ConfigApp
<1>5. CASE /\ v4' = [v4 EXCEPT ![a].trust = mine]
           /\ UNCHANGED <<v2, v3>>
  <2> DEFINE r == [v4[a] EXCEPT !.trust = mine]
  <2>1. v4' = [v4 EXCEPT ![a] = r] BY <1>5
  <2>2. r \in Config!Running /\ r.trust = mine /\ r.runs = v4[a].runs /\ r.conf = v4[a].conf
    BY <1>2, <1>3 DEF Config!Running
  <2> HIDE DEF r, version
  <2>3. \A m \in Names : r.runs[m] # 0 /\ Config!NeedsApproval(r.conf[m]) =>
           <<m, r.runs[m]>> \in v6' \cup v8'
    BY <1>1, <2>2 DEF Config!IInv, Config!RunsOnlyApproved
  <2> QED BY <1>1, <1>3, <1>5, <2>1, <2>2, <2>3, ConfigReads, ConfigApp DEF Config!SaidTo
<1> QED BY <1>1, <1>4, <1>5

LEMMA ConfigToggles ==
    ASSUME Config!IInv, NEW a \in Apps, NEW n \in Names, Config!AppToggles(a, n)
    PROVE  Config!IInv'
<1> DEFINE on == IF v4[a].runs[n] # 0 THEN 0
                 ELSE IF Config!MayRun(v4[a].conf, v4[a].trust, n) THEN v4[a].conf[n].version ELSE 0
           runs == [v4[a].runs EXCEPT ![n] = on]
           r == [v4[a] EXCEPT !.runs = runs]
<1>1. v4[a] \in Config!Running /\ Config!SaidTo(v4[a].trust) BY ConfigReads
<1>2. v4' = [v4 EXCEPT ![a] = r] /\ UNCHANGED <<v1, v2, v3, v5, v6, v7, v8>>
  BY <1>1 DEF Config!AppToggles, Config!Running
<1>3. on \in Config!Entry BY <1>1 DEF Config!Running, Config!Entries, Config!Entry
<1>4. on # 0 /\ Config!NeedsApproval(v4[a].conf[n]) => <<n, on>> \in v6 \cup v8
  BY <1>1 DEF Config!MayRun, Config!Approved, Config!SaidTo
<1> HIDE DEF on
<1>5. /\ runs \in Config!Approvals /\ runs[n] = on
      /\ \A m \in Names : m # n => runs[m] = v4[a].runs[m]
  BY <1>1, <1>3 DEF Config!Running, Config!Approvals
<1> HIDE DEF runs
<1>6. r \in Config!Running /\ r.trust = v4[a].trust /\ r.runs = runs /\ r.conf = v4[a].conf
  BY <1>1, <1>5 DEF Config!Running
<1> HIDE DEF r
<1>7. \A m \in Names : r.runs[m] # 0 /\ Config!NeedsApproval(r.conf[m]) =>
        <<m, r.runs[m]>> \in v6 \cup v8
  BY <1>4, <1>5, <1>6 DEF Config!IInv, Config!RunsOnlyApproved
<1> QED BY <1>1, <1>2, <1>6, <1>7, ConfigReads, ConfigApp DEF Config!SaidTo

LEMMA ConfigQuits ==
    ASSUME Config!IInv, NEW a \in Apps, Config!QuitApp(a)
    PROVE  Config!IInv'
<1>1. v4' = [v4 EXCEPT ![a] = Config!Down] /\ UNCHANGED <<v1, v2, v3, v5, v6, v7, v8>>
  BY DEF Config!QuitApp
<1> QED BY <1>1, ConfigDown, ConfigNone, ConfigReads, ConfigApp DEF Config!SaidTo

\* Nobody's approval goes with an edit, and none comes with it.
LEMMA ConfigEdit ==
    ASSUME Config!IInv, NEW s \in {"user", "shared", "project"}, NEW n \in Names,
           NEW v \in Config!Entry, Config!Edit(s, n, v)
    PROVE  Config!IInv'
<1> USE ServersAssumption
<1>1. v7' \in 0..MaxEdits BY DEF Config!Edit, Config!IInv, Config!TypeOK
<1>2. v1' \in [{"user", "shared", "project"} -> [Names -> Config!Entry]]
  BY DEF Config!Edit, Config!IInv, Config!TypeOK
<1>3. v3' \in BOOLEAN
  <2>1. v3' = v3 \/ v3' = TRUE BY DEF Config!Edit
  <2> QED BY <2>1, ConfigReads, Zenon
<1>4. UNCHANGED <<v2, v4, v5, v6, v8>> BY DEF Config!Edit
<1>5. Config!TypeOK' BY <1>1, <1>2, <1>3, <1>4 DEF Config!IInv, Config!TypeOK
<1>6. Config!ApprovalInv' /\ Config!RunsOnlyApproved'
  BY <1>4 DEF Config!IInv, Config!ApprovalInv, Config!RunsOnlyApproved, Config!SaidTo
<1> QED BY <1>5, <1>6 DEF Config!IInv
LEMMA ConfigCliReads ==
    ASSUME Config!IInv, NEW c \in Clis, NEW s \in {"user", "shared", "project"}, NEW n \in Names,
           Config!CliRemoves(c, s, n) \/ \E v \in Versions : Config!CliAdds(c, s, n, v)
    PROVE  Config!IInv'
<1>1. /\ v1[s] \in Config!Approvals /\ Config!NoneOf \in Config!Approvals
      /\ 0 \in Config!Entry /\ Config!Done \in Config!Commands
  BY ConfigReads, ConfigNone, ConfigDone DEF Config!Entry
<1>2. UNCHANGED <<v1, v2, v3, v4, v6, v7, v8>> BY DEF Config!CliRemoves, Config!CliAdds
<1>3. CASE Config!CliRemoves(c, s, n)
  <2> DEFINE r == [Config!Done EXCEPT !.at = "remove", !.scope = s, !.name = n, !.file = v1[s]]
  <2>1. v5' = [v5 EXCEPT ![c] = r] BY <1>3 DEF Config!CliRemoves, Config!Goes
  <2>2. /\ r \in Config!Commands /\ r.name = n /\ r.scope = s /\ r.trust = Config!NoneOf
    BY <1>1, ConfigDone DEF Config!Commands, Config!Stages
  <2> HIDE DEF r
  <2> QED BY <1>2, <2>1, <2>2, ConfigReads, ConfigNone, ConfigCli DEF Config!SaidTo
<1>4. ASSUME NEW v \in Versions, Config!CliAdds(c, s, n, v) PROVE Config!IInv'
  <2> DEFINE r == [Config!Done EXCEPT !.at = "add", !.scope = s, !.name = n, !.version = v,
                     !.file = v1[s]]
  <2>1. v5' = [v5 EXCEPT ![c] = r] BY <1>4 DEF Config!CliAdds, Config!Goes
  <2>2. v \in Config!Entry BY DEF Config!Entry
  <2>3. /\ r \in Config!Commands /\ r.name = n /\ r.scope = s /\ r.trust = Config!NoneOf
    BY <1>1, <2>2, ConfigDone DEF Config!Commands, Config!Stages
  <2> HIDE DEF r
  <2> QED BY <1>2, <2>1, <2>3, ConfigReads, ConfigNone, ConfigCli DEF Config!SaidTo
<1> QED BY <1>3, <1>4

LEMMA ConfigCliWrites ==
    ASSUME Config!IInv, NEW c \in Clis, Config!CliWrites(c)
    PROVE  Config!IInv'
<1>1. v5[c] \in Config!Commands /\ Config!SaidTo(v5[c].trust) /\ v5[c].at \in {"add", "remove"}
  BY ConfigReads DEF Config!CliWrites
<1>2. v5[c].name \in Names /\ v5[c].scope \in {"user", "shared", "project"}
  BY <1>1 DEF Config!IInv, Config!ApprovalInv, Config!Commands, Config!Stages
<1>3. UNCHANGED <<v2, v3, v4, v6, v7, v8>> BY DEF Config!CliWrites
<1>4. v1' \in [{"user", "shared", "project"} -> Config!Approvals]
  <2>1. CASE UNCHANGED v1 BY <2>1, ConfigReads
  <2> DEFINE w == IF v5[c].at = "add" THEN v5[c].version ELSE 0
             new == [v5[c].file EXCEPT ![v5[c].name] = w]
  <2>2. CASE v1' = [v1 EXCEPT ![v5[c].scope] = new]
    <3>1. w \in Config!Entry BY <1>1 DEF Config!Commands, Config!Stages, Config!Entry
    <3> HIDE DEF w
    <3>2. new \in Config!Approvals BY <1>1, <3>1 DEF Config!Commands, Config!Stages, Config!Approvals
    <3> HIDE DEF new
    <3> QED BY <1>2, <2>2, <3>2, ConfigReads
  <2> QED BY <2>1, <2>2 DEF Config!CliWrites
<1>5. CASE Config!Ends(c) BY <1>3, <1>4, <1>5, ConfigReads, ConfigEnds DEF Config!SaidTo
<1>6. CASE Config!Goes(c, [v5[c] EXCEPT !.at = IF @ = "add" THEN "added" ELSE "removed"])
  <2> DEFINE r == [v5[c] EXCEPT !.at = IF v5[c].at = "add" THEN "added" ELSE "removed"]
  <2>1. v5' = [v5 EXCEPT ![c] = r] BY <1>1, <1>6 DEF Config!Goes, Config!Commands, Config!Stages
  <2>2. /\ r \in Config!Commands /\ r.at \in {"added", "removed"} /\ r.name = v5[c].name
        /\ r.trust = v5[c].trust
    BY <1>1 DEF Config!Commands, Config!Stages
  <2> HIDE DEF r
  <2> QED BY <1>1, <1>2, <1>3, <1>4, <2>1, <2>2, ConfigReads, ConfigCli DEF Config!SaidTo
<1> QED BY <1>5, <1>6 DEF Config!CliWrites

LEMMA ConfigCliLoads ==
    ASSUME Config!IInv, NEW c \in Clis,
           (\E n \in Names : Config!CliLoads(c, n)) \/ Config!CliAdded(c)
    PROVE  Config!IInv'
<1>1. UNCHANGED <<v1, v2, v3, v4, v6, v7, v8>> BY DEF Config!CliLoads, Config!CliAdded
<1>2. ASSUME NEW n \in Names, NEW place \in {"ask", "typed", "found"}, NEW r,
             r = [v5[c] EXCEPT !.at = place, !.name = n,
                    !.version = Config!LoadConfig[n].version, !.trust = v2],
             v5' = [v5 EXCEPT ![c] = r]
      PROVE  Config!IInv'
  <2> DEFINE entry == Config!LoadConfig[n]
  <2>1. entry.version \in Config!Entry BY ConfigLoads DEF Config!Entries
  <2> HIDE DEF entry
  <2>2. r \in Config!Commands /\ r.at = place /\ r.name = n /\ r.trust = v2
    BY <1>2, <2>1, ConfigReads DEF Config!Commands, Config!Stages, entry
  <2> QED BY <1>1, <1>2, <2>2, ConfigReads, ConfigCli DEF Config!SaidTo
<1>3. CASE Config!Ends(c) BY <1>1, <1>3, ConfigReads, ConfigEnds DEF Config!SaidTo
<1>4. CASE \E n \in Names : Config!CliLoads(c, n)
  BY <1>2, <1>3, <1>4 DEF Config!CliLoads, Config!Goes
<1>5. CASE Config!CliAdded(c)
  <2>1. v5[c].name \in Names /\ v5[c] \in Config!Commands
    BY <1>5 DEF Config!CliAdded, Config!IInv, Config!ApprovalInv
  <2> DEFINE entry == Config!LoadConfig[v5[c].name]
             place == IF entry.version = v5[c].version THEN "typed" ELSE "found"
             r == [v5[c] EXCEPT !.at = place, !.version = entry.version, !.trust = v2]
  <2>2. Config!Ends(c) \/ v5' = [v5 EXCEPT ![c] = r] BY <1>5 DEF Config!CliAdded, Config!Goes
  <2>3. r = [v5[c] EXCEPT !.at = place, !.name = v5[c].name, !.version = entry.version,
               !.trust = v2]
    BY <2>1 DEF Config!Commands, Config!Stages
  <2>4. place \in {"ask", "typed", "found"} OBVIOUS
  <2> HIDE DEF place, r
  <2> QED BY <1>2, <1>3, <2>1, <2>2, <2>3, <2>4
<1> QED BY <1>4, <1>5

\* The approvals as this command read them, and one the person has just said yes to.
LEMMA ConfigCliSaves ==
    ASSUME Config!IInv, NEW c \in Clis, Config!CliApproves(c) \/ Config!CliRevokes(c)
    PROVE  Config!IInv'
<1>1. v5[c] \in Config!Commands /\ Config!SaidTo(v5[c].trust) /\ v5[c].name \in Names
  BY ConfigReads DEF Config!CliApproves, Config!CliRevokes, Config!IInv, Config!ApprovalInv
<1>2. Config!Ends(c) /\ UNCHANGED <<v1, v4, v7>> BY DEF Config!CliApproves, Config!CliRevokes
<1>3. ASSUME NEW A \in Config!Approvals, Config!SaidTo(A), NEW w \in Config!Entry,
             v6 \cup v8 \subseteq v6' \cup v8', w # 0 => <<v5[c].name, w>> \in v6' \cup v8',
             Config!SaveTrust(Config!WithApproval(A, v5[c].name, w))
      PROVE  Config!IInv'
  <2>1. v2' = Config!WithApproval(A, v5[c].name, w) BY <1>3 DEF Config!SaveTrust
  <2>2. v3' \in BOOLEAN
    <3>1. v3' = FALSE BY <1>3 DEF Config!SaveTrust
    <3> QED BY <3>1, Zenon
  <2>3. v2' \in Config!Approvals /\ \A n \in Names : v2'[n] # 0 => <<n, v2'[n]>> \in v6' \cup v8'
    BY <1>1, <1>3, <2>1, ConfigWith DEF Config!SaidTo
  <2> QED BY <1>2, <1>3, <2>2, <2>3, ConfigReads, ConfigEnds
<1>4. CASE UNCHANGED <<v2, v3, v6, v8>> BY <1>2, <1>4, ConfigReads, ConfigEnds DEF Config!SaidTo
<1>5. CASE /\ v6' \cup v8' = v6 \cup v8 \cup {<<v5[c].name, v5[c].version>>}
           /\ Config!SaveTrust(Config!WithApproval(v5[c].trust, v5[c].name, v5[c].version))
  <2>1. v5[c].trust \in Config!Approvals /\ v5[c].version \in Config!Entry
    BY <1>1 DEF Config!Commands, Config!Stages
  <2>2. v6 \cup v8 \subseteq v6' \cup v8' /\ <<v5[c].name, v5[c].version>> \in v6' \cup v8' BY <1>5
  <2> QED BY <1>1, <1>3, <1>5, <2>1, <2>2
<1>6. CASE UNCHANGED <<v6, v8>> /\ Config!SaveTrust(Config!WithApproval(v2, v5[c].name, 0))
  <2>1. 0 \in Config!Entry BY DEF Config!Entry
  <2> QED BY <1>3, <1>6, <2>1, ConfigReads
<1>7. CASE Config!CliApproves(c)
  <2>1. \/ UNCHANGED <<v6, v8, v2, v3>>
        \/ /\ v6' \cup v8' = v6 \cup v8 \cup {<<v5[c].name, v5[c].version>>}
           /\ Config!SaveTrust(Config!WithApproval(v5[c].trust, v5[c].name, v5[c].version))
    BY <1>7 DEF Config!CliApproves
  <2> QED BY <1>4, <1>5, <2>1
<1>8. CASE Config!CliRevokes(c)
  <2>1. /\ UNCHANGED <<v6, v8>>
        /\ \/ Config!SaveTrust(Config!WithApproval(v2, v5[c].name, 0))
           \/ UNCHANGED <<v2, v3>>
    BY <1>8 DEF Config!CliRevokes
  <2> QED BY <1>4, <1>6, <2>1
<1> QED BY <1>7, <1>8

LEMMA ConfigStep == ASSUME Config!IInv, [Config!Next]_(Config!vars) PROVE Config!IInv'
<1>1. DOMAIN v1 = {"user", "shared", "project"} BY ConfigReads
<1>2. ASSUME NEW a \in Apps,
             \/ Config!StartApp(a) \/ Config!QuitApp(a)
             \/ \E n \in Names : Config!AppApproves(a, n) \/ Config!AppToggles(a, n)
      PROVE  Config!IInv'
  BY <1>2, ConfigStart, ConfigQuits, ConfigApproves, ConfigToggles
<1>3. ASSUME NEW c \in Clis, Config!CliStep(c) PROVE Config!IInv'
  <2>1. CASE \E s \in DOMAIN v1, n \in Names :
               Config!CliRemoves(c, s, n) \/ \E v \in Versions : Config!CliAdds(c, s, n, v)
    BY <1>1, <2>1, ConfigCliReads
  <2>2. CASE Config!CliWrites(c) BY <2>2, ConfigCliWrites
  <2>3. CASE Config!CliApproves(c) \/ Config!CliRevokes(c) BY <2>3, ConfigCliSaves
  <2>4. CASE Config!CliAdded(c) \/ \E n \in Names : Config!CliLoads(c, n)
    BY <2>4, ConfigCliLoads
  <2> QED BY <1>3, <2>1, <2>2, <2>3, <2>4 DEF Config!CliStep
<1>4. CASE \E s \in DOMAIN v1, n \in Names, v \in Config!Entry : Config!Edit(s, n, v)
  BY <1>1, <1>4, ConfigEdit
<1>5. CASE UNCHANGED Config!vars
  BY <1>5 DEF Config!vars, Config!IInv, Config!TypeOK, Config!ApprovalInv, Config!SaidTo,
     Config!RunsOnlyApproved
<1> QED BY <1>2, <1>3, <1>4, <1>5 DEF Config!Next

----------------------------------------------------------------------------
(* The questions of a server.                                              *)

LEMMA FunctionIsSeq ==
    ASSUME NEW S, NEW n \in Nat, NEW s \in [1..n -> S]
    PROVE  s \in Seq(S) /\ Len(s) = n
OBVIOUS

LEMMA Least ==
    ASSUME NEW T, T \subseteq Nat, T # {}
    PROVE  \E x \in T : \A y \in T : x <= y
<1>1. IsWellFoundedOn(OpToRel(<, Nat), Nat) BY NatLessThanWellFounded
<1>2. PICK x \in T : \A y \in T : <<y, x>> \notin OpToRel(<, Nat)
  BY <1>1, WFMin
<1>3. \A y, z \in Nat : y < z => <<y, z>> \in OpToRel(<, Nat) BY DEF OpToRel
<1>4. \A y \in T : ~(y < x) BY <1>2, <1>3
<1>5. \A y \in T : x <= y BY <1>4
<1> QED BY <1>5

LEMMA MinIsOne ==
    ASSUME NEW T, T \subseteq Nat, T # {}
    PROVE  Questions!Min(T) \in T
<1>1. \E x \in T : \A y \in T : x <= y BY Least
<1> QED BY <1>1 DEF Questions!Min

\* Sequences put one behind the other.
IsFlat(g, s) ==
    /\ g = [i \in 1..Len(s) |-> g[i]]
    /\ \A i \in 1..Len(s) : g[i] = IF i = 1 THEN s[1] ELSE g[i - 1] \o s[i]

LEMMA FlatExists ==
    ASSUME NEW s
    PROVE  \A n \in Nat : \E g : /\ g = [i \in 1..n |-> g[i]]
                                 /\ \A i \in 1..n : g[i] = IF i = 1 THEN s[1] ELSE g[i - 1] \o s[i]
<1> DEFINE Upto(g, n) == /\ g = [i \in 1..n |-> g[i]]
                         /\ \A i \in 1..n : g[i] = IF i = 1 THEN s[1] ELSE g[i - 1] \o s[i]
           T == {n \in Nat : ~ \E g : Upto(g, n)}
<1> SUFFICES ASSUME T # {} PROVE FALSE
  OBVIOUS
<1>1. PICK n \in T : \A m \in T : n <= m BY Least
<1>2. n # 0
  <2>1. Upto([i \in 1..0 |-> s[1]], 0) OBVIOUS
  <2> QED BY <2>1
<1>3. PICK g : Upto(g, n - 1) BY <1>1, <1>2
<1> DEFINE h == [i \in 1..n |-> IF i < n THEN g[i] ELSE IF n = 1 THEN s[1] ELSE g[n - 1] \o s[n]]
<1>4. \A i \in 1..n : h[i] = IF i = 1 THEN s[1] ELSE h[i - 1] \o s[i]
  <2> TAKE i \in 1..n
  <2>1. CASE i = n
    <3>1. i # 1 => i - 1 \in 1..n /\ i - 1 < n BY <2>1
    <3>2. i # 1 => h[i - 1] = g[i - 1] BY <3>1
    <3> QED BY <2>1, <3>2
  <2>2. CASE i < n
    <3>1. i \in 1..n - 1 /\ h[i] = g[i] BY <2>2
    <3>2. i # 1 => i - 1 \in 1..n - 1 /\ h[i - 1] = g[i - 1] BY <2>2
    <3> QED BY <1>3, <3>1, <3>2
  <2> QED BY <2>1, <2>2
<1>5. h = [i \in 1..n |-> h[i]] OBVIOUS
<1>6. Upto(h, n) BY <1>4, <1>5
<1> QED BY <1>6

LEMMA Flattened ==
    ASSUME NEW s, Len(s) \in Nat
    PROVE  /\ Len(s) = 0 => Questions!FlattenSeq(s) = s
           /\ Len(s) # 0 => \E g : IsFlat(g, s) /\ Questions!FlattenSeq(s) = g[Len(s)]
<1>1. ASSUME Len(s) # 0 PROVE \E g : IsFlat(g, s) /\ Questions!FlattenSeq(s) = g[Len(s)]
  <2> DEFINE P(g) == g = [i \in 1..Len(s) |->
                            IF i = 1 THEN s[i] ELSE g[i - 1] \o s[i]]
             f == CHOOSE g : P(g)
  <2>1. PICK g : IsFlat(g, s) BY FlatExists DEF IsFlat
  <2>2. P(g)
    <3>1. \A i \in 1..Len(s) : g[i] = IF i = 1 THEN s[i] ELSE g[i - 1] \o s[i]
      BY <2>1 DEF IsFlat
    <3> QED BY <2>1, <3>1 DEF IsFlat
  <2>3. P(f) BY <2>2
  <2>4. Questions!FlattenSeq(s) = f[Len(s)] BY <1>1 DEF Questions!FlattenSeq
  <2> HIDE DEF f
  <2>5. IsFlat(f, s)
    <3>1. \A i \in 1..Len(s) : f[i] = IF i = 1 THEN s[1] ELSE f[i - 1] \o s[i]
      BY <2>3
    <3>2. f = [i \in 1..Len(s) |-> f[i]] BY <2>3
    <3> QED BY <3>1, <3>2 DEF IsFlat
  <2> QED BY <2>4, <2>5
<1>2. Len(s) = 0 => Questions!FlattenSeq(s) = s BY DEF Questions!FlattenSeq
<1> QED BY <1>1, <1>2

\* A sequence of sequences makes one of their elements.
LEMMA FlatTyped ==
    ASSUME NEW X, NEW s \in Seq(Seq(X))
    PROVE  Questions!FlattenSeq(s) \in Seq(X)
<1>0. Len(s) \in Nat /\ DOMAIN s = 1..Len(s) /\ \A i \in 1..Len(s) : s[i] \in Seq(X)
  OBVIOUS
<1>1. CASE Len(s) = 0
  <2>1. s = <<>> BY <1>1
  <2>2. s \in Seq(X) BY <2>1
  <2> QED BY <1>1, <2>2, <1>0, Flattened
<1>2. CASE Len(s) # 0
  <2>1. PICK g : IsFlat(g, s) /\ Questions!FlattenSeq(s) = g[Len(s)] BY <1>0, <1>2, Flattened
  <2> DEFINE T == {i \in 1..Len(s) : g[i] \notin Seq(X)}
  <2>2. T = {}
    <3> SUFFICES ASSUME T # {} PROVE FALSE
      OBVIOUS
    <3>0. T \subseteq Nat BY <1>0
    <3>1. PICK i \in T : \A j \in T : i <= j BY <3>0, Least
    <3>2. i # 1 BY <2>1, <1>0 DEF IsFlat
    <3>3. i - 1 \in 1..Len(s) /\ i - 1 \notin T BY <3>1, <3>2, <1>0
    <3>4. g[i - 1] \in Seq(X) /\ s[i] \in Seq(X) BY <3>3, <1>0
    <3>5. g[i] = g[i - 1] \o s[i] BY <2>1, <3>2 DEF IsFlat
    <3>6. g[i] \in Seq(X) BY <3>4, <3>5, ConcatProperties
    <3> QED BY <3>6
  <2>3. Len(s) \in 1..Len(s) /\ Len(s) \notin T BY <2>2, <1>0, <1>2
  <2>4. g[Len(s)] \in Seq(X) BY <2>3
  <2> QED BY <2>1, <2>4
<1> QED BY <1>1, <1>2

AreOnes(s, X, n) ==
    /\ DOMAIN s = 1..n /\ s \in Seq(Seq(X))
    /\ \A i \in 1..n : s[i] = <<>> \/ \E x \in X : s[i] = <<x>>

OnesInOrder(flat, s, X, n) ==
    /\ flat \in Seq(X)
    /\ \A k \in 1..Len(flat) : \E j \in 1..n : s[j] = <<flat[k]>>
    /\ (\A i, j \in 1..n : s[i] # <<>> /\ s[i] = s[j] => i = j) =>
          \A k, l \in 1..Len(flat) : flat[k] = flat[l] => k = l
    /\ (\A i \in 1..n : s[i] # <<>>) =>
          Len(flat) = n /\ \A i \in 1..n : s[i] = <<flat[i]>>

\* Sequences of one element at most make one of the same elements, as different as
\* they are; and of one element each, exactly those.
LEMMA FlatOnes ==
    ASSUME NEW X, NEW n \in Nat, NEW s, AreOnes(s, X, n)
    PROVE  OnesInOrder(Questions!FlattenSeq(s), s, X, n)
<1> DEFINE flat == Questions!FlattenSeq(s)
<1> USE DEF AreOnes, OnesInOrder
<1>0. Len(s) = n /\ \A i \in 1..n : s[i] \in Seq(X) OBVIOUS
<1>1. CASE n = 0
  <2>1. flat = s /\ s = <<>> BY <1>0, <1>1, Flattened
  <2> QED BY <1>1, <2>1
<1>2. CASE n # 0
  <2>1. PICK g : IsFlat(g, s) /\ flat = g[n] BY <1>0, <1>2, Flattened
  <2> DEFINE Right(i) ==
        /\ g[i] \in Seq(X)
        /\ \A k \in 1..Len(g[i]) : \E j \in 1..i : s[j] = <<g[i][k]>>
        /\ (\A h, j \in 1..n : s[h] # <<>> /\ s[h] = s[j] => h = j) =>
              \A k, l \in 1..Len(g[i]) : g[i][k] = g[i][l] => k = l
        /\ (\A h \in 1..n : s[h] # <<>>) =>
              Len(g[i]) = i /\ \A h \in 1..i : s[h] = <<g[i][h]>>
  <2>2. Right(1)
    <3>0. 1 \in 1..n BY <1>2
    <3>1. g[1] = s[1] BY <2>1, <1>0, <3>0 DEF IsFlat
    <3>2. CASE s[1] = <<>> BY <3>0, <3>1, <3>2
    <3>3. ASSUME NEW x \in X, s[1] = <<x>> PROVE Right(1)
      <4>1. g[1] \in Seq(X) /\ Len(g[1]) = 1 /\ g[1][1] = x BY <3>1, <3>3
      <4>2. \A k \in 1..Len(g[1]) : k = 1 BY <4>1
      <4> QED BY <3>1, <3>3, <4>1, <4>2
    <3>4. s[1] = <<>> \/ \E x \in X : s[1] = <<x>> BY <3>0
    <3> HIDE DEF Right
    <3> QED BY <3>2, <3>3, <3>4
  <2>3. ASSUME NEW i \in 2..n, Right(i - 1) PROVE Right(i)
    <3>1. PICK m \in 1..n : m = i - 1 /\ i = m + 1 OBVIOUS
    <3>i. i \in 1..n /\ i # 1 /\ (s[i] = <<>> \/ \E x \in X : s[i] = <<x>>) OBVIOUS
    <3>j. \A j \in 1..m : j \in 1..i /\ j \in 1..n /\ j # i BY <3>1
    <3>2. g[i] = g[m] \o s[i] BY <2>1, <1>0, <3>1, <3>i DEF IsFlat
    <3>3. Right(m) BY <2>3, <3>1
    <3>4. g[m] \in Seq(X) /\ Len(g[m]) \in Nat BY <3>3
    <3>5. CASE s[i] = <<>>
      <4>1. g[i] = g[m] BY <3>2, <3>4, <3>5
      <4>2. \A k \in 1..Len(g[i]) : \E j \in 1..i : s[j] = <<g[i][k]>>
        BY <3>3, <3>j, <4>1
      <4> QED BY <3>3, <3>5, <3>i, <4>1, <4>2
    <3>6. ASSUME NEW x \in X, s[i] = <<x>> PROVE Right(i)
      <4>1. /\ g[i] \in Seq(X) /\ Len(g[i]) = Len(g[m]) + 1
            /\ \A k \in 1..Len(g[m]) : g[i][k] = g[m][k]
            /\ g[i][Len(g[m]) + 1] = x
        BY <3>2, <3>4, <3>6
      <4>2. \A k \in 1..Len(g[i]) : k \in 1..Len(g[m]) \/ k = Len(g[m]) + 1
        BY <4>1, <3>4
      <4> HIDE DEF Right
      <4>3. \A k \in 1..Len(g[i]) : \E j \in 1..i : s[j] = <<g[i][k]>>
        <5> TAKE k \in 1..Len(g[i])
        <5>1. CASE k \in 1..Len(g[m]) 
          <6>1. PICK j \in 1..m : s[j] = <<g[m][k]>> BY <3>3, <5>1 DEF Right
          <6> QED BY <3>j, <4>1, <5>1, <6>1
        <5>2. CASE k = Len(g[m]) + 1
          <6>1. i \in 1..i OBVIOUS
          <6> QED BY <3>6, <4>1, <5>2, <6>1
        <5> QED BY <4>2, <5>1, <5>2
      <4>4. ASSUME \A h, j \in 1..n : s[h] # <<>> /\ s[h] = s[j] => h = j
            PROVE  \A k, l \in 1..Len(g[i]) : g[i][k] = g[i][l] => k = l
        <5>1. \A k \in 1..Len(g[m]) : g[m][k] # x
          <6> SUFFICES ASSUME NEW k \in 1..Len(g[m]), g[m][k] = x PROVE FALSE
            OBVIOUS
          <6>1. PICK j \in 1..m : s[j] = <<g[m][k]>> BY <3>3 DEF Right
          <6>2. s[j] = s[i] /\ s[j] # <<>> BY <3>6, <6>1
          <6> QED BY <3>i, <3>j, <4>4, <6>1, <6>2
        <5>2. \A k, l \in 1..Len(g[m]) : g[m][k] = g[m][l] => k = l BY <3>3, <4>4 DEF Right
        <5> QED BY <4>1, <4>2, <5>1, <5>2
      <4>5. ASSUME \A h \in 1..n : s[h] # <<>>
            PROVE  Len(g[i]) = i /\ \A h \in 1..i : s[h] = <<g[i][h]>>
        <5>1. Len(g[m]) = m /\ \A h \in 1..m : s[h] = <<g[m][h]>> BY <3>3, <4>5 DEF Right
        <5>2. \A h \in 1..i : h \in 1..m \/ h = i BY <3>1
        <5>3. s[i] = <<g[i][i]>> BY <3>1, <3>6, <4>1, <5>1
        <5> QED BY <3>1, <4>1, <5>1, <5>2, <5>3
      <4> QED BY <4>1, <4>3, <4>4, <4>5 DEF Right
    <3> HIDE DEF Right
    <3> QED BY <3>5, <3>6, <3>i
  <2> DEFINE T == {i \in 1..n : ~Right(i)}
  <2>4. T = {}
    <3> HIDE DEF Right
    <3> SUFFICES ASSUME T # {} PROVE FALSE
      OBVIOUS
    <3>0. T \subseteq Nat OBVIOUS
    <3>1. PICK i \in T : \A j \in T : i <= j BY <3>0, Least
    <3>2. i \in 2..n BY <2>2
    <3>3. i - 1 \in 1..n /\ i - 1 \notin T BY <3>1, <3>2
    <3>4. Right(i - 1) BY <3>3
    <3> QED BY <2>3, <3>2, <3>4
  <2>5. Right(n)
    <3> HIDE DEF Right
    <3> QED BY <2>4, <1>2
  <2> QED BY <2>1, <2>5
<1> QED BY <1>1, <1>2

----------------------------------------------------------------------------
\* Choices and fields.

Typed == Seq(Questions!Items)

IsField(f) ==
    /\ f.choices \in Seq([value : Typed, title : Typed])
    /\ f.default \in Questions!Values

LEMMA FieldsOfForms ==
    ASSUME NEW f \in Forms
    PROVE  /\ DOMAIN f = 1..Len(f) /\ Len(f) \in 0..3
           /\ \A i \in DOMAIN f : IsField(f[i])
<1>1. f \in Seq(Questions!Fields) /\ Len(f) <= 3 BY ServersAssumption
<1>2. DOMAIN f = 1..Len(f) /\ Len(f) \in Nat BY <1>1, LenProperties
<1>3. \A i \in DOMAIN f : f[i] \in Questions!Fields BY DEF Questions!Fields
<1>4. \A x \in Questions!Fields : IsField(x)
  BY ServersAssumption DEF Questions!Described, IsField, Typed
<1> QED BY <1>1, <1>2, <1>3, <1>4

LEMMA ChoicesOfField ==
    ASSUME NEW f, IsField(f)
    PROVE  /\ DOMAIN f.choices = 1..Len(f.choices) /\ DOMAIN f.choices \subseteq Nat
           /\ f.choices = <<>> <=> DOMAIN f.choices = {}
           /\ \A i \in DOMAIN f.choices :
                 f.choices[i].value \in Typed /\ f.choices[i].title \in Typed
<1>1. f.choices \in Seq([value : Typed, title : Typed]) BY DEF IsField
<1> DEFINE C == [value : Typed, title : Typed]
<1>2. \A c \in C : c.value \in Typed /\ c.title \in Typed OBVIOUS
<1> HIDE DEF C
<1>3. PICK ch \in Seq(C) : ch = f.choices BY <1>1 DEF C
<1>a. /\ DOMAIN ch = 1..Len(ch) /\ DOMAIN ch \subseteq Nat
      /\ \A i \in DOMAIN ch : ch[i] \in C
  OBVIOUS
<1>b. ch = <<>> <=> DOMAIN ch = {} OBVIOUS
<1>4. /\ DOMAIN f.choices = 1..Len(f.choices) /\ DOMAIN f.choices \subseteq Nat
      /\ \A i \in DOMAIN f.choices : f.choices[i] \in C
      /\ f.choices = <<>> <=> DOMAIN f.choices = {}
  BY <1>3, <1>a, <1>b
<1> QED BY <1>2, <1>4

\* The four ways to name a choice, the first that names any.
ByValue(f, t) == {i \in DOMAIN f.choices : f.choices[i].value = t}
ByTitle(f, t) == {i \in DOMAIN f.choices : f.choices[i].title = t}

LEMMA MatchesFacts ==
    ASSUME NEW f, NEW t
    PROVE  /\ Questions!Matches(f, t) \subseteq DOMAIN f.choices
           /\ ByValue(f, t) # {} => Questions!Matches(f, t) = ByValue(f, t)
           /\ ByValue(f, t) = {} /\ ByTitle(f, t) # {} =>
                 Questions!Matches(f, t) = ByTitle(f, t)
<1> DEFINE C == DOMAIN f.choices
           value == ByValue(f, t)
           title == ByTitle(f, t)
           folded == {i \in C : Questions!Lower(t) \in {Questions!Lower(f.choices[i].value),
                                                        Questions!Lower(f.choices[i].title)}}
           position == IF Len(t) = 1 THEN {t[1].n} \cap C ELSE {}
           First(s) ==
              \/ s # {} /\ \/ s = value
                           \/ value = {} /\ s = title
                           \/ value = {} /\ title = {} /\ s = folded
                           \/ value = {} /\ title = {} /\ folded = {}
              \/ s = {} /\ value = {} /\ title = {} /\ folded = {} /\ position = {}
<1>1. Questions!Matches(f, t) = CHOOSE s \in {value, title, folded, position} : First(s)
  BY DEF Questions!Matches, ByValue, ByTitle
<1>2. value \subseteq C /\ title \subseteq C /\ folded \subseteq C /\ position \subseteq C
  BY DEF ByValue, ByTitle
<1> HIDE DEF C, value, title, folded, position
<1>3. \E s \in {value, title, folded, position} : First(s) OBVIOUS
<1>4. /\ Questions!Matches(f, t) \in {value, title, folded, position}
      /\ First(Questions!Matches(f, t))
  BY <1>1, <1>3
<1>5. /\ Questions!Matches(f, t) \subseteq C
      /\ value # {} => Questions!Matches(f, t) = value
      /\ value = {} /\ title # {} => Questions!Matches(f, t) = title
  BY <1>2, <1>4
<1> QED BY <1>5 DEF C, value, title

LEMMA ChosenIsAChoice ==
    ASSUME NEW f, IsField(f), NEW t, Questions!Matches(f, t) # {}
    PROVE  \E c \in Questions!Matches(f, t) : Questions!Chosen(f, t) = f.choices[c].value
<1>1. Questions!Matches(f, t) \subseteq Nat BY MatchesFacts, ChoicesOfField
<1>2. Questions!Min(Questions!Matches(f, t)) \in Questions!Matches(f, t) BY <1>1, MinIsOne
<1> QED BY <1>2 DEF Questions!Chosen

\* What a field shows for one of its choices names that choice.
LEMMA TitleNamesIt ==
    ASSUME NEW f, IsField(f), NEW value, NEW c \in DOMAIN f.choices, f.choices[c].value = value,
           \A i, j \in DOMAIN f.choices :
              i # j => f.choices[i].title \notin {f.choices[j].value, f.choices[j].title}
    PROVE  LET t == Questions!TitleOf(f, value)
           IN /\ \E h \in DOMAIN f.choices : t = f.choices[h].title
              /\ Questions!Matches(f, t) # {} /\ Questions!Chosen(f, t) = value
<1> DEFINE t == Questions!TitleOf(f, value)
           hits == {i \in DOMAIN f.choices : f.choices[i].value = value}
           h == Questions!Min(hits)
<1>1. hits # {} /\ hits \subseteq Nat BY ChoicesOfField
<1>2. h \in hits BY <1>1, MinIsOne
<1>3. t = f.choices[h].title BY <1>1 DEF Questions!TitleOf
<1> HIDE DEF t, h
<1>4. h \in DOMAIN f.choices /\ f.choices[h].value = value BY <1>2
<1>5. \A i \in ByValue(f, t) : i = h BY <1>3, <1>4 DEF ByValue
<1>6. \A i \in ByTitle(f, t) : i = h BY <1>3, <1>4 DEF ByTitle
<1>7. h \in ByTitle(f, t) BY <1>3, <1>4 DEF ByTitle
<1>8. Questions!Matches(f, t) # {} /\ \A i \in Questions!Matches(f, t) : i = h
  BY <1>5, <1>6, <1>7, MatchesFacts
<1>9. PICK m \in Questions!Matches(f, t) : Questions!Chosen(f, t) = f.choices[m].value
  BY <1>8, ChosenIsAChoice
<1>10. Questions!Chosen(f, t) = value BY <1>4, <1>8, <1>9
<1> QED BY <1>3, <1>4, <1>8, <1>10 DEF t

LEMMA TitleTyped ==
    ASSUME NEW f, IsField(f), NEW value \in Typed
    PROVE  Questions!TitleOf(f, value) \in Typed
<1> DEFINE hits == {i \in DOMAIN f.choices : f.choices[i].value = value}
<1>1. hits \subseteq Nat /\ hits \subseteq DOMAIN f.choices BY ChoicesOfField
<1>2. hits # {} => Questions!Min(hits) \in DOMAIN f.choices BY <1>1, MinIsOne
<1>3. Questions!TitleOf(f, value) = IF hits = {} THEN value
                                    ELSE f.choices[Questions!Min(hits)].title
  BY DEF Questions!TitleOf
<1> HIDE DEF hits
<1> QED BY <1>2, <1>3, ChoicesOfField

ChoiceValues(f) == {f.choices[c].value : c \in DOMAIN f.choices}

LEMMA ValueTyped ==
    ASSUME NEW kind \in Questions!Kinds, NEW v \in Seq(Typed), NEW n \in Nat,
           kind = "string" => Len(v) = 1
    PROVE  Questions!Value(kind, v, n) \in Questions!Values
BY DEF Typed, Questions!Value, Questions!Values

KeptInOrder(kept, f, t) ==
    /\ kept \in Seq(ChoiceValues(f))
    /\ \A i, j \in DOMAIN kept : kept[i] = kept[j] => i = j
    /\ (\A i, j \in DOMAIN t :
           Questions!Chosen(f, <<t[i]>>) = Questions!Chosen(f, <<t[j]>>) => i = j) =>
          Len(kept) = Len(t) /\ \A i \in DOMAIN t : kept[i] = Questions!Chosen(f, <<t[i]>>)

\* A list keeps what is picked, in order and once.
LEMMA KeptFacts ==
    ASSUME NEW f, IsField(f), NEW t \in Typed,
           \A i \in DOMAIN t : Questions!Matches(f, <<t[i]>>) # {}
    PROVE  KeptInOrder(Questions!Kept(f, t), f, t)
<1> DEFINE pick(i) == Questions!Chosen(f, <<t[i]>>)
           seen(i) == \E j \in 1..(i - 1) : pick(j) = pick(i)
           parts == [i \in DOMAIN t |-> IF seen(i) THEN <<>> ELSE <<pick(i)>>]
           n == Len(t)
           kept == Questions!Kept(f, t)
           X == ChoiceValues(f)
<1>1. n \in Nat /\ DOMAIN t = 1..n BY DEF Typed
<1>2. \A i \in 1..n : pick(i) \in X BY <1>1, ChosenIsAChoice, MatchesFacts DEF ChoiceValues
<1>3. kept = Questions!FlattenSeq(parts) BY DEF Questions!Kept
<1>4. DOMAIN parts = 1..n /\ \A i \in 1..n : parts[i] = IF seen(i) THEN <<>> ELSE <<pick(i)>>
  BY <1>1
<1> HIDE DEF parts, kept, n, X, pick
<1>5. \A i \in 1..n : parts[i] = <<>> \/ \E x \in X : parts[i] = <<x>> BY <1>2, <1>4
<1>6. \A i \in 1..n : parts[i] \in Seq(X)
  <2> TAKE i \in 1..n
  <2>1. CASE parts[i] = <<>> BY <2>1
  <2>2. ASSUME NEW x \in X, parts[i] = <<x>> PROVE parts[i] \in Seq(X) BY <2>2
  <2> QED BY <1>5, <2>1, <2>2
<1>7. parts \in Seq(Seq(X))
  <2> DEFINE Y == Seq(X)
  <2>1. \A i \in 1..n : parts[i] \in Y BY <1>6
  <2>2. parts = [i \in 1..n |-> parts[i]] BY <1>4 DEF parts
  <2> HIDE DEF Y
  <2>3. parts \in [1..n -> Y] BY <2>1, <2>2
  <2>4. parts \in Seq(Y) BY <1>1, <2>3, FunctionIsSeq
  <2> QED BY <2>4 DEF Y
<1>8. /\ kept \in Seq(X)
      /\ \A k \in 1..Len(kept) : \E j \in 1..n : parts[j] = <<kept[k]>>
      /\ (\A i, j \in 1..n : parts[i] # <<>> /\ parts[i] = parts[j] => i = j) =>
            \A k, l \in 1..Len(kept) : kept[k] = kept[l] => k = l
      /\ (\A i \in 1..n : parts[i] # <<>>) =>
            Len(kept) = n /\ \A i \in 1..n : parts[i] = <<kept[i]>>
  <2>1. AreOnes(parts, X, n) BY <1>4, <1>5, <1>7 DEF AreOnes
  <2>2. OnesInOrder(kept, parts, X, n) BY <1>1, <1>3, <2>1, FlatOnes
  <2> QED BY <2>2 DEF OnesInOrder
<1>9. \A i, j \in 1..n : parts[i] # <<>> /\ parts[i] = parts[j] => i = j
  <2> SUFFICES ASSUME NEW i \in 1..n, NEW j \in 1..n, parts[i] # <<>>, parts[i] = parts[j]
               PROVE  i = j
    OBVIOUS
  <2>1. ~seen(i) /\ ~seen(j) /\ parts[i] = <<pick(i)>> /\ parts[j] = <<pick(j)>> BY <1>4
  <2>2. pick(i) = pick(j)
    <3>1. <<pick(i)>> = <<pick(j)>> BY <2>1
    <3> QED BY <3>1
  <2>3. ~(i < j)
    <3> SUFFICES ASSUME i < j PROVE FALSE
      OBVIOUS
    <3>1. i \in 1..(j - 1) BY <1>1
    <3> QED BY <2>1, <2>2, <3>1
  <2>4. ~(j < i)
    <3> SUFFICES ASSUME j < i PROVE FALSE
      OBVIOUS
    <3>1. j \in 1..(i - 1) BY <1>1
    <3> QED BY <2>1, <2>2, <3>1
  <2> QED BY <2>3, <2>4, <1>1
<1>10. DOMAIN kept = 1..Len(kept) BY <1>8
<1>11. ASSUME \A i, j \in DOMAIN t : pick(i) = pick(j) => i = j
       PROVE  Len(kept) = n /\ \A i \in DOMAIN t : kept[i] = pick(i)
  <2>1. \A i \in 1..n : ~seen(i)
    <3> SUFFICES ASSUME NEW i \in 1..n, NEW j \in 1..(i - 1), pick(j) = pick(i) PROVE FALSE
      OBVIOUS
    <3>1. j \in 1..n /\ j # i BY <1>1
    <3> QED BY <1>1, <1>11, <3>1
  <2>2. \A i \in 1..n : parts[i] = <<pick(i)>> BY <1>4, <2>1
  <2>3. \A i \in 1..n : parts[i] # <<>> BY <2>2
  <2>4. Len(kept) = n /\ \A i \in 1..n : parts[i] = <<kept[i]>> BY <1>8, <2>3
  <2>5. \A i \in 1..n : kept[i] = pick(i) BY <2>2, <2>4
  <2> QED BY <1>1, <2>4, <2>5
<1> QED BY <1>8, <1>9, <1>10, <1>11 DEF pick, n, X, kept, KeptInOrder

\* What a typed text is taken for is of the field's kind and within its limits.
LEMMA CoercedFits ==
    ASSUME NEW f, IsField(f), NEW t \in Typed, Questions!Coerce(f, t) # Questions!Refused
    PROVE  /\ Questions!Coerce(f, t) \in Questions!Values
           /\ Questions!Fits(f, Questions!Coerce(f, t))
<1> DEFINE value == Questions!Coerce(f, t)
<1> USE DEF Questions!Refused
<1>1. CASE f.type = "boolean"
  <2>1. value \in {Questions!Bool(TRUE), Questions!Bool(FALSE)}
    BY <1>1 DEF Questions!Coerce, Questions!CoerceBool
  <2>2. value.kind = "boolean" BY <2>1 DEF Questions!Bool, Questions!Value
  <2>3. value \in Questions!Values BY <2>1, EmptySeq, ValueTyped DEF Questions!Bool, Questions!Kinds
  <2>4. Questions!OfItsType(f, value) BY <1>1, <2>1 DEF Questions!OfItsType
  <2> QED BY <2>2, <2>3, <2>4 DEF Questions!Fits
<1>2. CASE f.type \in {"number", "integer"}
  <2>1. /\ value = Questions!Number(t[1].n) /\ Len(t) = 1 /\ Questions!InRange(f, t[1].n)
    BY <1>2 DEF Questions!Coerce, Questions!CoerceNumber
  <2>2. t[1].n \in Nat
    <3>1. 1 \in 1..Len(t) BY <2>1
    <3>2. t[1] \in Questions!Items BY <3>1, ElementOfSeq DEF Typed
    <3> QED BY <3>2 DEF Questions!Items
  <2>3. value.kind = "number" /\ value.n = t[1].n BY <2>1 DEF Questions!Number, Questions!Value
  <2>4. value \in Questions!Values
    BY <2>1, <2>2, EmptySeq, ValueTyped DEF Questions!Number, Questions!Kinds
  <2>5. Questions!OfItsType(f, value) BY <1>2, <2>1, <2>3 DEF Questions!OfItsType
  <2> QED BY <2>1, <2>3, <2>4, <2>5 DEF Questions!Fits
<1>3. CASE f.type = "array"
  <2> DEFINE kept == Questions!Kept(f, t)
  <2>1. /\ value = Questions!Value("array", kept, 0) /\ Questions!InRange(f, Len(kept))
        /\ \A i \in DOMAIN t : Questions!Matches(f, <<t[i]>>) # {}
    BY <1>3 DEF Questions!Coerce, Questions!CoerceList
  <2>2. /\ kept \in Seq(ChoiceValues(f))
        /\ \A i, j \in DOMAIN kept : kept[i] = kept[j] => i = j
    <3>1. KeptInOrder(kept, f, t) BY <2>1, KeptFacts
    <3> HIDE DEF kept
    <3> QED BY <3>1 DEF KeptInOrder
  <2>3. kept \in Seq(Typed)
    <3>1. ChoiceValues(f) \subseteq Typed BY ChoicesOfField DEF ChoiceValues
    <3> HIDE DEF kept
    <3> QED BY <2>2, <3>1, SeqMonotonic
  <2> HIDE DEF kept
  <2>4. value.kind = "array" /\ value.v = kept BY <2>1 DEF Questions!Value
  <2>5. value \in Questions!Values BY <2>1, <2>3, ValueTyped DEF Questions!Kinds
  <2>6. Questions!OfItsType(f, value)
    BY <1>3, <2>1, <2>2, <2>4 DEF Questions!OfItsType, ChoiceValues
  <2> QED BY <2>1, <2>4, <2>5, <2>6 DEF Questions!Fits
<1>4. CASE f.type \notin {"boolean", "number", "integer", "array"} /\ f.choices # <<>>
  <2>1. value = Questions!String(Questions!Chosen(f, t)) /\ Questions!Matches(f, t) # {}
    BY <1>4 DEF Questions!Coerce, Questions!CoerceChoice
  <2>2. PICK c \in DOMAIN f.choices : Questions!Chosen(f, t) = f.choices[c].value
    BY <2>1, ChosenIsAChoice, MatchesFacts
  <2>3. /\ value.kind = "string" /\ value.v = <<f.choices[c].value>> /\ value.v[1] = f.choices[c].value
        /\ value.n = 0
    BY <2>1, <2>2 DEF Questions!String, Questions!Value
  <2>4. value \in Questions!Values
    <3>1. f.choices[c].value \in Typed BY ChoicesOfField
    <3>2. <<f.choices[c].value>> \in Seq(Typed) BY <3>1
    <3> QED BY <2>1, <2>2, <3>2, ValueTyped DEF Questions!String, Questions!Kinds
  <2>5. Questions!OfItsType(f, value)
    BY <1>4, <2>1, <2>2, <2>3 DEF Questions!OfItsType
  <2> QED BY <1>4, <2>3, <2>4, <2>5 DEF Questions!Fits
<1>5. CASE f.type \notin {"boolean", "number", "integer", "array"} /\ f.choices = <<>>
  <2>1. /\ value = Questions!String(t) /\ Questions!InRange(f, Len(t))
        /\ f.format = {} \/ t \in f.format
    BY <1>5 DEF Questions!Coerce, Questions!CoerceText
  <2>2. value.kind = "string" /\ value.v[1] = t BY <2>1 DEF Questions!String, Questions!Value
  <2>3. value \in Questions!Values
    <3>1. <<t>> \in Seq(Typed) OBVIOUS
    <3> QED BY <2>1, <3>1, ValueTyped DEF Questions!String, Questions!Kinds
  <2>4. Questions!OfItsType(f, value) BY <1>5, <2>1, <2>2 DEF Questions!OfItsType
  <2> QED BY <2>1, <2>2, <2>3, <2>4 DEF Questions!Fits
<1> QED BY <1>1, <1>2, <1>3, <1>4, <1>5

LEMMA TakenFits ==
    ASSUME NEW f, IsField(f), NEW t \in Typed, NEW old,
           NEW value, value = Questions!Take(f, old, t), value # Questions!Refused
    PROVE  value \in Questions!Values /\ Questions!Fits(f, value)
<1>1. CASE t = <<>>
  <2>1. value = Questions!Null /\ ~f.required BY <1>1 DEF Questions!Take
  <2>2. value \in Questions!Values
    BY <2>1, EmptySeq, ValueTyped DEF Questions!Null, Questions!Kinds
  <2> QED BY <2>1, <2>2 DEF Questions!Fits
<1>2. CASE t # <<>> BY <1>2, CoercedFits DEF Questions!Take
<1> QED BY <1>1, <1>2

LEMMA WordsOfAnswers == "yes" \in Words /\ "no" \in Words /\ "#" \in Words
BY ServersAssumption DEF Questions!Described

\* The text shown for a value is one.
LEMMA AnswerTyped ==
    ASSUME NEW f, IsField(f), NEW value \in Questions!Values
    PROVE  Questions!AnswerText(f, value) \in Typed
<1>1. /\ value.v \in Seq(Typed) /\ value.n \in Nat
      /\ value.kind = "string" => Len(value.v) = 1
  BY DEF Questions!Values, Typed
<1>2. CASE value.kind = "boolean"
  <2>1. Questions!Item("yes", "yes", 0) \in Questions!Items BY WordsOfAnswers DEF Questions!Item, Questions!Items
  <2>2. Questions!Item("no", "no", 0) \in Questions!Items BY WordsOfAnswers DEF Questions!Item, Questions!Items
  <2>3. \A x \in Questions!Items : <<x>> \in Typed BY DEF Typed
  <2> QED BY <1>2, <2>1, <2>2, <2>3 DEF Questions!AnswerText
<1>3. CASE value.kind = "number"
  <2>1. Questions!Shown(value.n) \in Nat
    <3>1. value.n % 10 \in 0..9 /\ value.n % 10 <= value.n BY <1>1
    <3>2. value.n - (value.n % 10) \in Nat BY <1>1, <3>1
    <3> QED BY <1>1, <3>2 DEF Questions!Shown
  <2>2. Questions!Numeral(Questions!Shown(value.n)) \in Questions!Items
    BY <2>1, WordsOfAnswers DEF Questions!Numeral, Questions!Item, Questions!Items
  <2>3. <<Questions!Numeral(Questions!Shown(value.n))>> \in Typed BY <2>2 DEF Typed
  <2> QED BY <1>3, <2>3 DEF Questions!AnswerText
<1>4. CASE value.kind = "array"
  <2> DEFINE n == Len(value.v)
             parts == [i \in DOMAIN value.v |-> Questions!TitleOf(f, value.v[i])]
  <2>1. n \in Nat /\ DOMAIN value.v = 1..n /\ \A i \in 1..n : value.v[i] \in Typed BY <1>1
  <2>2. parts \in [1..n -> Typed] BY <2>1, TitleTyped
  <2>3. Questions!AnswerText(f, value) = Questions!FlattenSeq(parts)
    BY <1>4 DEF Questions!AnswerText
  <2> HIDE DEF parts, n
  <2>4. parts \in Seq(Typed) BY <2>1, <2>2, FunctionIsSeq
  <2> QED BY <2>3, <2>4, FlatTyped DEF Typed
<1>5. CASE value.kind = "string"
  <2>1. value.v[1] \in Typed BY <1>1, <1>5
  <2> QED BY <1>5, <2>1, TitleTyped DEF Questions!AnswerText
<1>6. CASE value.kind \notin {"boolean", "number", "array", "string"}
  BY <1>6, EmptySeq DEF Questions!AnswerText, Typed
<1> QED BY <1>2, <1>3, <1>4, <1>5, <1>6

\* A sequence of one-item sequences makes their items.
LEMMA OneItemEach ==
    ASSUME NEW n \in Nat, NEW s \in [1..n -> Typed], \A i \in 1..n : Len(s[i]) = 1
    PROVE  LET flat == Questions!FlattenSeq(s)
           IN flat \in Typed /\ DOMAIN flat = 1..n /\ \A i \in 1..n : <<flat[i]>> = s[i]
<1> DEFINE X == Questions!Items
           flat == Questions!FlattenSeq(s)
<1>1. \A i \in 1..n : \E x \in X : s[i] = <<x>>
  <2> TAKE i \in 1..n
  <2>1. s[i] \in Seq(X) /\ Len(s[i]) = 1 BY DEF Typed
  <2> HIDE DEF X
  <2>2. PICK r \in Seq(X) : r = s[i] /\ Len(r) = 1 BY <2>1
  <2>3. 1 \in 1..Len(r) /\ DOMAIN r = 1..1 BY <2>2
  <2>4. r[1] \in X /\ r = <<r[1]>> BY <2>2, <2>3
  <2> QED BY <2>2, <2>4
<1>2. s \in Seq(Seq(X)) BY FunctionIsSeq DEF Typed
<1> HIDE DEF X
<1>3. AreOnes(s, X, n) BY <1>1, <1>2 DEF AreOnes
<1>4. OnesInOrder(flat, s, X, n) BY <1>3, FlatOnes
<1> HIDE DEF flat
<1>5. \A i \in 1..n : s[i] # <<>> BY <1>1
<1>6. flat \in Seq(X) /\ Len(flat) = n /\ \A i \in 1..n : s[i] = <<flat[i]>>
  BY <1>4, <1>5 DEF OnesInOrder
<1> QED BY <1>6 DEF X, flat, Typed

\* What is shown for a list names its choices one by one.
LEMMA ListComesBack ==
    ASSUME NEW f, IsField(f), f.type = "array", NEW value \in Questions!Values,
           Questions!OfItsType(f, value), Questions!Unambiguous(f, value)
    PROVE  /\ Questions!Coerce(f, Questions!AnswerText(f, value)) \in {value, Questions!Refused}
           /\ Questions!Fits(f, value) =>
                 Questions!Coerce(f, Questions!AnswerText(f, value)) = value
<1> DEFINE v == value.v
           n == Len(v)
           s == [i \in DOMAIN v |-> Questions!TitleOf(f, v[i])]
           t == Questions!AnswerText(f, value)
           kept == Questions!Kept(f, t)
<1>1. /\ value = Questions!Value("array", v, 0) /\ v \in Seq(ChoiceValues(f))
      /\ \A i, j \in DOMAIN v : v[i] = v[j] => i = j
  BY DEF Questions!OfItsType, ChoiceValues
<1>2. value.kind = "array" BY <1>1 DEF Questions!Value
<1>3. t = Questions!FlattenSeq(s) BY <1>2 DEF Questions!AnswerText
<1>4. n \in Nat /\ DOMAIN v = 1..n /\ \A i \in 1..n : v[i] \in ChoiceValues(f)
  BY <1>1, ElementOfSeq, LenProperties
<1> HIDE DEF v
<1>5. ASSUME NEW i \in 1..n
      PROVE  /\ s[i] \in Typed /\ Len(s[i]) = 1
             /\ Questions!Matches(f, s[i]) # {} /\ Questions!Chosen(f, s[i]) = v[i]
  <2>1. PICK c \in DOMAIN f.choices : f.choices[c].value = v[i]
    BY <1>4, <1>5 DEF ChoiceValues
  <2>2. \A k, l \in DOMAIN f.choices :
           k # l => f.choices[k].title \notin {f.choices[l].value, f.choices[l].title}
    BY DEF Questions!Unambiguous
  <2> DEFINE title == Questions!TitleOf(f, v[i])
  <2>3. /\ \E h \in DOMAIN f.choices : title = f.choices[h].title
        /\ Questions!Matches(f, title) # {} /\ Questions!Chosen(f, title) = v[i]
    BY <2>1, <2>2, TitleNamesIt
  <2>4. s[i] = title BY <1>4, <1>5
  <2> HIDE DEF title
  <2>5. title \in Typed /\ Len(title) = 1 BY <2>3, ChoicesOfField DEF Questions!Unambiguous
  <2> QED BY <2>3, <2>4, <2>5
<1>6. s \in [1..n -> Typed] BY <1>4, <1>5
<1> HIDE DEF s, n
<1>7. t \in Typed /\ DOMAIN t = 1..n /\ \A i \in 1..n : <<t[i]>> = s[i]
  BY <1>3, <1>4, <1>5, <1>6, OneItemEach
<1> HIDE DEF t
<1>8. \A i \in DOMAIN t : /\ Questions!Matches(f, <<t[i]>>) # {}
                          /\ Questions!Chosen(f, <<t[i]>>) = v[i]
  BY <1>5, <1>7
<1>9. \A i, j \in DOMAIN t :
        Questions!Chosen(f, <<t[i]>>) = Questions!Chosen(f, <<t[j]>>) => i = j
  BY <1>1, <1>4, <1>7, <1>8
<1>10. /\ kept \in Seq(ChoiceValues(f)) /\ Len(kept) = Len(t)
       /\ \A i \in DOMAIN t : kept[i] = v[i]
  <2>1. \A i \in DOMAIN t : Questions!Matches(f, <<t[i]>>) # {} BY <1>8
  <2>2. /\ kept \in Seq(ChoiceValues(f)) /\ Len(kept) = Len(t)
        /\ \A i \in DOMAIN t : kept[i] = Questions!Chosen(f, <<t[i]>>)
    <3>1. KeptInOrder(kept, f, t) BY <1>7, <2>1, KeptFacts
    <3> HIDE DEF kept
    <3> QED BY <1>9, <3>1 DEF KeptInOrder
  <2> HIDE DEF kept
  <2> QED BY <1>8, <2>2
<1>11. Questions!Coerce(f, t) = IF Questions!InRange(f, Len(kept))
                                THEN Questions!Value("array", kept, 0) ELSE Questions!Refused
  BY <1>8 DEF Questions!Coerce, Questions!CoerceList
<1> HIDE DEF kept
<1>12. kept = v
  <2>1. Len(t) = n BY <1>4, <1>7, LenProperties DEF Typed
  <2>2. DOMAIN kept = 1..n BY <1>10, <2>1, LenProperties
  <2>3. kept = [i \in 1..n |-> kept[i]] /\ v = [i \in 1..n |-> v[i]]
    BY <1>1, <1>4, <1>10, <2>2
  <2> QED BY <1>7, <1>10, <2>3
<1>13. Questions!Fits(f, value) => Questions!InRange(f, Len(kept))
  BY <1>2, <1>12 DEF Questions!Fits, Questions!Null, Questions!Value, v
<1> QED BY <1>1, <1>11, <1>12, <1>13 DEF t

\* Enter on the text a field offers: answer_text and coerce_answer undo each other.
LEMMA ComesBack ==
    ASSUME NEW f, IsField(f), NEW value \in Questions!Values,
           Questions!OfItsType(f, value), Questions!Unambiguous(f, value)
    PROVE  /\ Questions!Coerce(f, Questions!AnswerText(f, value)) \in {value, Questions!Refused}
           /\ Questions!Fits(f, value) =>
                 Questions!Coerce(f, Questions!AnswerText(f, value)) = value
<1> DEFINE t == Questions!AnswerText(f, value)
<1>1. CASE f.type = "boolean"
  <2>1. value \in {Questions!Bool(TRUE), Questions!Bool(FALSE)} BY <1>1 DEF Questions!OfItsType
  <2>2. CASE value = Questions!Bool(TRUE)
    <3>1. value.kind = "boolean" /\ value.n = 1 BY <2>2 DEF Questions!Bool, Questions!Value
    <3>2. t = <<Questions!Item("yes", "yes", 0)>> BY <3>1 DEF Questions!AnswerText
    <3>3. Questions!Lower(t) = <<"yes">> BY <3>2 DEF Questions!Lower, Questions!Item
    <3>4. <<"yes">> # <<"n">> /\ <<"yes">> # <<"no">>
      <4>1. "yes" # "n" /\ "yes" # "no" OBVIOUS
      <4>2. <<"yes">>[1] = "yes" /\ <<"n">>[1] = "n" /\ <<"no">>[1] = "no" OBVIOUS
      <4> QED BY <4>1, <4>2
    <3>5. Questions!CoerceBool(t) = value BY <2>2, <3>3, <3>4 DEF Questions!CoerceBool
    <3> QED BY <1>1, <3>5 DEF Questions!Coerce
  <2>3. CASE value = Questions!Bool(FALSE)
    <3>1. value.kind = "boolean" /\ value.n = 0 BY <2>3 DEF Questions!Bool, Questions!Value
    <3>2. t = <<Questions!Item("no", "no", 0)>> BY <3>1 DEF Questions!AnswerText
    <3>3. Questions!Lower(t) = <<"no">> BY <3>2 DEF Questions!Lower, Questions!Item
    <3>4. <<"no">> # <<"y">> /\ <<"no">> # <<"yes">>
      <4>1. "no" # "y" /\ "no" # "yes" OBVIOUS
      <4>2. <<"no">>[1] = "no" /\ <<"y">>[1] = "y" /\ <<"yes">>[1] = "yes" OBVIOUS
      <4> QED BY <4>1, <4>2
    <3>5. Questions!CoerceBool(t) = value BY <2>3, <3>3, <3>4 DEF Questions!CoerceBool
    <3> QED BY <1>1, <3>5 DEF Questions!Coerce
  <2> QED BY <2>1, <2>2, <2>3
<1>2. CASE f.type \in {"number", "integer"}
  <2>1. value = Questions!Number(value.n) BY <1>2 DEF Questions!OfItsType
  <2>2. value.kind = "number" BY <2>1 DEF Questions!Number, Questions!Value
  <2>3. Questions!Shown(value.n) = value.n
    BY <2>2 DEF Questions!Unambiguous, Questions!Shown
  <2>4. t = <<Questions!Numeral(value.n)>> BY <2>2, <2>3 DEF Questions!AnswerText
  <2>5. Len(t) = 1 /\ t[1].word = "#" /\ t[1].n = value.n
    BY <2>4 DEF Questions!Numeral, Questions!Item
  <2> HIDE DEF t
  <2>6. Questions!Coerce(f, t) = IF Questions!InRange(f, value.n) THEN value ELSE Questions!Refused
    BY <1>2, <2>1, <2>5 DEF Questions!Coerce, Questions!CoerceNumber
  <2>7. Questions!Fits(f, value) => Questions!InRange(f, value.n)
    BY <2>2 DEF Questions!Fits, Questions!Null, Questions!Value
  <2> QED BY <2>6, <2>7 DEF t
<1>3. CASE f.type = "array" BY <1>3, ListComesBack
<1>4. CASE f.type \notin {"boolean", "number", "integer", "array"}
  <2>1. /\ value.kind = "string" /\ value = Questions!String(value.v[1])
        /\ f.choices # <<>> => \E c \in DOMAIN f.choices : f.choices[c].value = value.v[1]
    BY <1>4 DEF Questions!OfItsType
  <2>2. t = Questions!TitleOf(f, value.v[1]) BY <2>1 DEF Questions!AnswerText
  <2> HIDE DEF t
  <2>3. CASE f.choices # <<>>
    <3>1. PICK c \in DOMAIN f.choices : f.choices[c].value = value.v[1] BY <2>1, <2>3
    <3>2. \A k, l \in DOMAIN f.choices :
             k # l => f.choices[k].title \notin {f.choices[l].value, f.choices[l].title}
      BY DEF Questions!Unambiguous
    <3>3. Questions!Matches(f, t) # {} /\ Questions!Chosen(f, t) = value.v[1]
      BY <2>2, <3>1, <3>2, TitleNamesIt
    <3>4. Questions!Coerce(f, t) = value
      BY <1>4, <2>1, <2>3, <3>3 DEF Questions!Coerce, Questions!CoerceChoice
    <3> QED BY <3>4 DEF t
  <2>4. CASE f.choices = <<>>
    <3>1. t = value.v[1] BY <2>2, <2>4, ChoicesOfField DEF Questions!TitleOf
    <3>2. Questions!Coerce(f, t) = IF /\ Questions!InRange(f, Len(t))
                                      /\ f.format = {} \/ t \in f.format
                                   THEN value ELSE Questions!Refused
      BY <1>4, <2>1, <2>4, <3>1 DEF Questions!Coerce, Questions!CoerceText
    <3>3. Questions!Fits(f, value) =>
             Questions!InRange(f, Len(t)) /\ (f.format = {} \/ t \in f.format)
      BY <2>1, <2>4, <3>1 DEF Questions!Fits, Questions!Null, Questions!Value
    <3> QED BY <3>2, <3>3 DEF t
  <2> QED BY <2>3, <2>4
<1> QED BY <1>1, <1>2, <1>3, <1>4
----------------------------------------------------------------------------
\* The states of a question.

LEMMA QuestionsInit == ASSUME Questions!Init PROVE Questions!IInv
<1> USE DEF Questions!Init
<1>1. v5 \in Seq(Questions!Values) /\ Len(v5) = Len(v1) BY EmptySeq
<1>2. Questions!TypeOK BY <1>1 DEF Questions!TypeOK
<1>3. Questions!LinkInv BY <1>1 DEF Questions!LinkInv
<1>4. Questions!OpenedOnce BY DEF Questions!OpenedOnce
<1>5. Questions!AnswerInv /\ Questions!SentAsReviewed
  BY DEF Questions!AnswerInv, Questions!SentAsReviewed
<1> QED BY <1>2, <1>3, <1>4, <1>5 DEF Questions!IInv

LEMMA QuestionsAsk ==
    ASSUME Questions!IInv,
           \/ \E f \in Forms : Questions!AskForm(f)
           \/ \E l \in Links : Questions!AskLink(l)
           \/ Questions!AskOther
    PROVE  Questions!IInv'
<1>1. ASSUME NEW f \in Forms, Questions!AskForm(f) PROVE Questions!IInv'
  <2>1. /\ DOMAIN f = 1..Len(f) /\ Len(f) \in Nat /\ Len(f) <= 3
        /\ \A i \in DOMAIN f : f[i].default \in Questions!Values
        /\ f # <<>> => 1 \in 1..Len(f)
    BY FieldsOfForms, ServersAssumption, LenProperties, EmptySeq DEF IsField
  <2>2. v5' \in Seq(Questions!Values) /\ Len(v5') = Len(v1')
    <3>1. v1' = f /\ v5' = [i \in 1..Len(f) |-> f[i].default]
      BY <1>1, <2>1 DEF Questions!AskForm, Questions!Defaults
    <3>2. v5' \in [1..Len(f) -> Questions!Values] BY <2>1, <3>1
    <3> QED BY <2>1, <3>1, <3>2, FunctionIsSeq
  <2>3. Questions!TypeOK'
    BY <1>1, <2>2 DEF Questions!AskForm, Questions!IInv, Questions!TypeOK
  <2>4. Questions!LinkInv'
    BY <1>1, <2>1, <2>2 DEF Questions!AskForm, Questions!IInv, Questions!LinkInv
  <2>5. Questions!OpenedOnce'
    BY <1>1 DEF Questions!AskForm, Questions!IInv, Questions!OpenedOnce
  <2>6. Questions!AnswerInv' /\ Questions!SentAsReviewed'
    <3>1. /\ v1' = f /\ v4' = 1 /\ v7' = "none" /\ v11' = 0
          /\ v3' \in {"review", "field", "dismiss"} /\ (v3' = "review" => f = <<>>)
      BY <1>1 DEF Questions!AskForm
    <3>2. \A i \in DOMAIN f : ~(i < 1) BY <2>1
    <3>3. f = <<>> => DOMAIN f = {} BY <2>1
    <3> QED BY <3>1, <3>2, <3>3 DEF Questions!AnswerInv, Questions!SentAsReviewed
  <2> QED BY <2>3, <2>4, <2>5, <2>6 DEF Questions!IInv
<1>2. v1' = <<>> /\ v5' = <<>> => v5' \in Seq(Questions!Values) /\ Len(v5') = Len(v1')
  BY EmptySeq
<1>3. ASSUME NEW l \in Links, Questions!AskLink(l) PROVE Questions!IInv'
  <2>1. Questions!TypeOK'
    BY <1>2, <1>3 DEF Questions!AskLink, Questions!IInv, Questions!TypeOK
  <2>2. Questions!LinkInv'
    BY <1>2, <1>3 DEF Questions!AskLink, Questions!IInv, Questions!LinkInv
  <2>3. Questions!OpenedOnce'
    BY <1>3 DEF Questions!AskLink, Questions!IInv, Questions!OpenedOnce
  <2>4. Questions!AnswerInv' /\ Questions!SentAsReviewed'
    BY <1>3 DEF Questions!AskLink, Questions!AnswerInv, Questions!SentAsReviewed
  <2> QED BY <2>1, <2>2, <2>3, <2>4 DEF Questions!IInv
<1>4. CASE Questions!AskOther
  <2>1. Questions!TypeOK'
    BY <1>2, <1>4 DEF Questions!AskOther, Questions!IInv, Questions!TypeOK
  <2>2. Questions!LinkInv'
    BY <1>2, <1>4 DEF Questions!AskOther, Questions!IInv, Questions!LinkInv
  <2>3. Questions!OpenedOnce'
    BY <1>4 DEF Questions!AskOther, Questions!IInv, Questions!OpenedOnce
  <2>4. Questions!AnswerInv' /\ Questions!SentAsReviewed'
    BY <1>4 DEF Questions!AskOther, Questions!AnswerInv, Questions!SentAsReviewed
  <2> QED BY <2>1, <2>2, <2>3, <2>4 DEF Questions!IInv
<1> QED BY <1>1, <1>3, <1>4

\* A field that is asked about, and the value its text is made of.
OfferedField(f, value) == IsField(f) /\ value \in Questions!Values

LEMMA OffersAField ==
    ASSUME Questions!IInv, v3 = "field"
    PROVE  v4 \in DOMAIN v1 /\ OfferedField(v1[v4], v5[v4])
<1>1. /\ v4 \in 1..Len(v1) /\ v1 \in Forms /\ v5 \in Seq(Questions!Values)
      /\ Len(v5) = Len(v1)
  BY DEF Questions!IInv, Questions!LinkInv, Questions!TypeOK
<1>2. v4 \in DOMAIN v1 /\ IsField(v1[v4]) BY <1>1, FieldsOfForms
<1>3. v5[v4] \in Questions!Values BY <1>1, ElementOfSeq
<1> QED BY <1>2, <1>3 DEF OfferedField

\* Enter keeps what the person answered, and a default of the field's kind.
LEMMA QuestionsEnter == ASSUME Questions!IInv PROVE Questions!EnterKeeps
<1> SUFFICES ASSUME v3 = "field", v5[v4] # Questions!Null,
                    Questions!Unambiguous(v1[v4], v5[v4])
             PROVE  LET back == Questions!Coerce(v1[v4], Questions!AnswerText(v1[v4], v5[v4]))
                    IN /\ v11 > 0 => back = v5[v4]
                       /\ Questions!OfItsType(v1[v4], v5[v4]) => back \in {v5[v4], Questions!Refused}
  BY DEF Questions!EnterKeeps
<1>1. v4 \in DOMAIN v1 /\ OfferedField(v1[v4], v5[v4]) BY OffersAField
<1>2. v11 > 0 => Questions!Fits(v1[v4], v5[v4]) BY <1>1 DEF Questions!IInv, Questions!AnswerInv
<1>3. Questions!Fits(v1[v4], v5[v4]) => Questions!OfItsType(v1[v4], v5[v4])
  BY DEF Questions!Fits
<1> QED BY <1>1, <1>2, <1>3, ComesBack DEF OfferedField

\* An answer to one field leaves the others as they are.
LEMMA QuestionsField ==
    ASSUME Questions!IInv, NEW t \in Typed, Questions!AnswerField(t)
    PROVE  Questions!IInv'
<1>1. PICK value : /\ value = Questions!Take(v1[v4], v5[v4], t)
                   /\ value # Questions!Refused
                   /\ v5' = [v5 EXCEPT ![v4] = value]
  BY DEF Questions!AnswerField
<1>2. /\ v3 = "field" /\ UNCHANGED <<v1, v2, v7, v8, v9, v10, v11>>
      /\ \/ v4 < Len(v1) /\ v4' = v4 + 1 /\ v3' = v3
         \/ ~(v4 < Len(v1)) /\ v4' = 1 /\ v3' = "review" /\ Questions!Review(v5')
  BY DEF Questions!AnswerField
<1>3. /\ v4 \in 1..Len(v1) /\ v2 = "none" /\ Len(v5) = Len(v1) /\ v1 # <<>> /\ v7 = "none"
      /\ v1 \in Forms /\ v5 \in Seq(Questions!Values)
  BY <1>2 DEF Questions!IInv, Questions!LinkInv, Questions!TypeOK
<1>4. /\ Len(v1) \in Nat /\ Len(v1) <= 3 /\ DOMAIN v1 = 1..Len(v1)
      /\ IsField(v1[v4])
  <2>1. DOMAIN v1 = 1..Len(v1) /\ Len(v1) \in 0..3 BY <1>3, FieldsOfForms
  <2>2. v4 \in DOMAIN v1 BY <1>3, <2>1
  <2> QED BY <1>3, <2>1, <2>2, FieldsOfForms
<1>5. value \in Questions!Values /\ Questions!Fits(v1[v4], value) BY <1>1, <1>4, TakenFits
<1>6. DOMAIN v5 = 1..Len(v1) /\ \A i \in 1..Len(v1) : v5[i] \in Questions!Values
  BY <1>3, LenProperties, ElementOfSeq
<1>7. \A i \in 1..Len(v1) : v5'[i] = IF i = v4 THEN value ELSE v5[i] BY <1>1, <1>6
<1>8. v5' \in Seq(Questions!Values) /\ Len(v5') = Len(v1')
  <2>1. v5' = [i \in 1..Len(v1) |-> v5'[i]] BY <1>1, <1>6
  <2>2. \A i \in 1..Len(v1) : v5'[i] \in Questions!Values BY <1>5, <1>6, <1>7
  <2>3. v5' \in [1..Len(v1) -> Questions!Values] BY <2>1, <2>2
  <2> QED BY <1>2, <1>4, <2>3, FunctionIsSeq
<1>9. v4' \in 1..Len(v1) BY <1>2, <1>3, <1>4
<1>10. Questions!TypeOK'
  BY <1>2, <1>4, <1>8, <1>9 DEF Questions!IInv, Questions!TypeOK
<1>11. Questions!LinkInv'
  BY <1>2, <1>3, <1>8, <1>9 DEF Questions!IInv, Questions!LinkInv
<1>12. Questions!OpenedOnce' BY <1>2 DEF Questions!IInv, Questions!OpenedOnce
<1>13. \A i \in 1..Len(v1) : i <= v4 \/ v11 > 0 => Questions!Fits(v1[i], v5'[i])
  <2>1. \A i \in 1..Len(v1) : i < v4 \/ v11 > 0 => Questions!Fits(v1[i], v5[i])
    BY <1>2, <1>4 DEF Questions!IInv, Questions!AnswerInv
  <2> QED BY <1>3, <1>4, <1>5, <1>7, <2>1
<1>14. Questions!AnswerInv'
  <2>1. CASE v4' = v4 + 1 /\ v3' = "field"
    <3>1. \A i \in 1..Len(v1) : i < v4' => i <= v4 BY <1>3, <1>4, <2>1
    <3> QED BY <1>2, <1>4, <1>13, <2>1, <3>1 DEF Questions!AnswerInv
  <2>2. CASE ~(v4 < Len(v1)) /\ v3' = "review" /\ Questions!Review(v5')
    <3>1. \A i \in 1..Len(v1) : i <= v4 BY <1>3, <1>4, <2>2
    <3>2. \A i \in 1..Len(v1) : v6'[i] = Questions!AnswerText(v1[i], v5'[i])
      BY <1>4, <2>2 DEF Questions!Review
    <3> QED BY <1>2, <1>4, <1>13, <2>2, <3>1, <3>2 DEF Questions!AnswerInv
  <2> QED BY <1>2, <2>1, <2>2
<1>15. Questions!SentAsReviewed' BY <1>2, <1>3 DEF Questions!SentAsReviewed
<1> QED BY <1>10, <1>11, <1>12, <1>14, <1>15 DEF Questions!IInv

\* What may be typed: the text offered, or another.
LEMMA QuestionsAnyField ==
    ASSUME Questions!IInv,
           \/ \E t \in Texts \cup {<<>>} : Questions!AnswerField(t)
           \/ v3 = "field" /\ Questions!AnswerField(Questions!AnswerText(v1[v4], v5[v4]))
    PROVE  Questions!IInv'
<1>1. ASSUME NEW t \in Texts \cup {<<>>}, Questions!AnswerField(t) PROVE Questions!IInv'
  <2>1. t \in Typed BY ServersAssumption, EmptySeq DEF Questions!Described, Typed
  <2> QED BY <1>1, <2>1, QuestionsField
<1>2. CASE v3 = "field" /\ Questions!AnswerField(Questions!AnswerText(v1[v4], v5[v4]))
  <2>1. OfferedField(v1[v4], v5[v4]) BY <1>2, OffersAField
  <2>2. Questions!AnswerText(v1[v4], v5[v4]) \in Typed BY <2>1, AnswerTyped DEF OfferedField
  <2> QED BY <1>2, <2>2, QuestionsField
<1> QED BY <1>1, <1>2

\* Going back to the fields, and the answers that open no link.
LEMMA QuestionsAnswer ==
    ASSUME Questions!IInv,
           \/ Questions!EditAnswers \/ Questions!SendAnswers
           \/ Questions!DoneThere \/ Questions!Refuse
    PROVE  Questions!IInv'
<1> USE DEF Questions!Finish
<1>1. CASE Questions!EditAnswers
  <2>1. v1 # <<>> => 1 \in 1..Len(v1)
    <3>1. v1 # <<>> => v1 \in Forms BY DEF Questions!IInv, Questions!TypeOK
    <3> QED BY <3>1, ServersAssumption, EmptySeq
  <2>2. Questions!TypeOK'
    BY <1>1 DEF Questions!EditAnswers, Questions!IInv, Questions!TypeOK
  <2>3. Questions!LinkInv'
    BY <1>1, <2>1 DEF Questions!EditAnswers, Questions!IInv, Questions!LinkInv
  <2>4. Questions!OpenedOnce'
    BY <1>1 DEF Questions!EditAnswers, Questions!IInv, Questions!OpenedOnce
  <2>5. Questions!AnswerInv' /\ Questions!SentAsReviewed'
    BY <1>1 DEF Questions!EditAnswers, Questions!IInv, Questions!AnswerInv,
       Questions!SentAsReviewed
  <2> QED BY <2>2, <2>3, <2>4, <2>5 DEF Questions!IInv
<1>2. ASSUME /\ v3' = "idle" /\ v7' \in {"accept", "decline", "cancel"}
             /\ UNCHANGED <<v1, v2, v4, v5, v6, v8, v9>>,
             v7' = "accept" => v3 \in {"review", "again"}
      PROVE  Questions!IInv'
  <2>1. Questions!TypeOK' BY <1>2 DEF Questions!IInv, Questions!TypeOK
  <2>2. Questions!LinkInv' BY <1>2 DEF Questions!IInv, Questions!LinkInv
  <2>3. Questions!OpenedOnce'
    BY <1>2 DEF Questions!IInv, Questions!OpenedOnce, Questions!LinkInv, Questions!TypeOK
  <2>4. Questions!AnswerInv' BY <1>2 DEF Questions!AnswerInv
  <2>5. Questions!SentAsReviewed'
    BY <1>2 DEF Questions!IInv, Questions!AnswerInv, Questions!SentAsReviewed
  <2> QED BY <2>1, <2>2, <2>3, <2>4, <2>5 DEF Questions!IInv
<1>3. CASE Questions!SendAnswers \/ Questions!DoneThere \/ Questions!Refuse
  BY <1>2, <1>3 DEF Questions!SendAnswers, Questions!DoneThere, Questions!Refuse
<1> QED BY <1>1, <1>3

\* A link is opened by who is asked about it, and remembered.
LEMMA QuestionsOpen ==
    ASSUME Questions!IInv, Questions!OpenLink \/ Questions!OpenedByHand
    PROVE  Questions!IInv'
<1> USE DEF Questions!Finish, Questions!RememberLink
<1>1. /\ v3 \in {"consent", "manual"} /\ v2 \in Links \ v8 /\ v7 = "none" /\ v1 = <<>>
      /\ UNCHANGED <<v1, v2, v4, v5>>
  BY DEF Questions!OpenLink, Questions!OpenedByHand, Questions!IInv, Questions!LinkInv,
     Questions!AnswerInv
<1>a. v3' \in {"manual", "idle"} => Questions!AnswerInv' /\ Questions!SentAsReviewed'
  BY <1>1 DEF Questions!AnswerInv, Questions!SentAsReviewed
<1>2. CASE v3' = "manual" /\ UNCHANGED <<v7, v8, v9>>
  <2>1. Questions!TypeOK' BY <1>1, <1>2 DEF Questions!IInv, Questions!TypeOK
  <2>2. Questions!LinkInv' BY <1>1, <1>2 DEF Questions!IInv, Questions!LinkInv
  <2>3. Questions!OpenedOnce' BY <1>1, <1>2 DEF Questions!IInv, Questions!OpenedOnce
  <2> QED BY <1>2, <1>a, <2>1, <2>2, <2>3 DEF Questions!IInv
<1>3. CASE /\ v9' = [v9 EXCEPT ![v2] = @ + 1] /\ v8' = v8 \cup {v2}
           /\ v3' = "idle" /\ v7' = "accept"
  <2>1. v9[v2] = 0 BY <1>1 DEF Questions!IInv, Questions!LinkInv
  <2>2. /\ v9' \in [Links -> {0, 1}] /\ v9'[v2] = 1
        /\ \A l \in Links : l # v2 => v9'[l] = v9[l]
    BY <1>1, <1>3, <2>1 DEF Questions!IInv, Questions!LinkInv
  <2>3. Questions!TypeOK' BY <1>1, <1>3 DEF Questions!IInv, Questions!TypeOK
  <2>4. Questions!LinkInv' BY <1>1, <1>3, <2>2 DEF Questions!IInv, Questions!LinkInv
  <2>5. Questions!OpenedOnce' BY <1>1, <2>2 DEF Questions!OpenedOnce
  <2> QED BY <1>3, <1>a, <2>3, <2>4, <2>5 DEF Questions!IInv
<1> QED BY <1>2, <1>3 DEF Questions!OpenLink, Questions!OpenedByHand

LEMMA QuestionsStep ==
    ASSUME Questions!IInv, [Questions!Next]_(Questions!vars)
    PROVE  Questions!IInv'
<1>1. CASE UNCHANGED Questions!vars
  BY <1>1 DEF Questions!vars, Questions!IInv, Questions!TypeOK, Questions!LinkInv,
     Questions!OpenedOnce, Questions!AnswerInv, Questions!SentAsReviewed
<1> QED BY <1>1, QuestionsAsk, QuestionsAnyField, QuestionsAnswer, QuestionsOpen DEF Questions!Next

----------------------------------------------------------------------------
(* The parts together.                                                     *)

\* The invariant of the part that runs, and the registry's.
SuiteInv ==
    /\ IInv
    /\ part = "tokens" => Tokens!IInv
    /\ part = "login" => Login!IInv
    /\ part = "prompt" => Prompt!IInv
    /\ part = "config" => Config!IInv
    /\ part = "questions" => Questions!IInv

LEMMA SuiteStarts == RunInit => SuiteInv
<1> SUFFICES ASSUME RunInit PROVE SuiteInv
  OBVIOUS
<1>1. IInv BY RegistryStarts DEF RunInit
<1>2. ASSUME part = "tokens" PROVE Tokens!IInv BY <1>2, TokensInit DEF RunInit
<1>3. ASSUME part = "login" PROVE Login!IInv BY <1>3, LoginInit DEF RunInit
<1>4. ASSUME part = "prompt" PROVE Prompt!IInv BY <1>4, PromptInit DEF RunInit
<1>5. ASSUME part = "config" PROVE Config!IInv BY <1>5, ConfigInit DEF RunInit
<1>6. ASSUME part = "questions" PROVE Questions!IInv BY <1>6, QuestionsInit DEF RunInit
<1> QED BY <1>1, <1>2, <1>3, <1>4, <1>5, <1>6 DEF SuiteInv

\* What a step of the suite is to each part.
LEMMA SuiteSteps ==
    ASSUME [RunNext]_all
    PROVE  /\ part' = part
           /\ [Next]_vars
           /\ part = "tokens" => [Tokens!Next]_(Tokens!vars)
           /\ part = "login" => [Login!Next]_(Login!vars)
           /\ part = "prompt" => [Prompt!Next]_(Prompt!vars)
           /\ part = "config" => [Config!Next]_(Config!vars)
           /\ part = "questions" => [Questions!Next]_(Questions!vars)
<1>1. CASE UNCHANGED all
  <2>1. UNCHANGED <<part, vars, v1, v2, v3, v4, v5, v6, v7, v8>>
    BY <1>1 DEF all, From1, From5
  <2>2. UNCHANGED <<v8, v9, v10, v11>>
    BY <1>1 DEF all, From1, From5, From9, From10
  <2>3. UNCHANGED Tokens!vars /\ UNCHANGED Login!vars /\ UNCHANGED Config!vars
    BY <2>1, <2>2 DEF Tokens!vars, Login!vars, Config!vars
  <2>4. UNCHANGED Prompt!vars
    BY <2>1, <2>2 DEF Prompt!vars, Prompt!callerVars, Prompt!sharedVars
  <2>5. UNCHANGED Questions!vars BY <2>1, <2>2 DEF Questions!vars
  <2> QED BY <2>1, <2>3, <2>4, <2>5
<1>2. CASE part = "registry" /\ Next /\ UNCHANGED part BY <1>2
<1>3. CASE UNCHANGED <<part, vars>> /\ RunNext /\ part # "registry"
  <2>1. /\ part = "tokens" => Tokens!Next
        /\ part = "login" => Login!Next
        /\ part = "prompt" => Prompt!Next
        /\ part = "config" => Config!Next
        /\ part = "questions" => Questions!Next
    BY <1>3 DEF RunNext
  <2> QED BY <1>3, <2>1
<1> QED BY <1>1, <1>2, <1>3 DEF RunNext

LEMMA SuiteKeepsOn == SuiteInv /\ [RunNext]_all => SuiteInv'
<1> SUFFICES ASSUME SuiteInv, [RunNext]_all PROVE SuiteInv'
  OBVIOUS
<1>1. IInv' BY SuiteSteps, RegistryGoesOn DEF SuiteInv
<1>2. ASSUME part = "tokens" PROVE Tokens!IInv' BY <1>2, SuiteSteps, TokensStep DEF SuiteInv
<1>3. ASSUME part = "login" PROVE Login!IInv' BY <1>3, SuiteSteps, LoginStep DEF SuiteInv
<1>4. ASSUME part = "prompt" PROVE Prompt!IInv' BY <1>4, SuiteSteps, PromptStep DEF SuiteInv
<1>5. ASSUME part = "config" PROVE Config!IInv' BY <1>5, SuiteSteps, ConfigStep DEF SuiteInv
<1>6. ASSUME part = "questions" PROVE Questions!IInv'
  BY <1>6, SuiteSteps, QuestionsStep DEF SuiteInv
<1> QED BY <1>1, <1>2, <1>3, <1>4, <1>5, <1>6, SuiteSteps DEF SuiteInv

LEMMA SuiteInvariant == RunSpec => []SuiteInv
BY SuiteStarts, SuiteKeepsOn, PTL DEF RunSpec

\* In every part and for any bounds, every variable keeps its type: the registry's
\* threads, what the processes share of a token, a login's sessions, the prompt's
\* threads, the entries and approvals, the fields of a form and their values.
THEOREM PartsKeepTheirTypes == RunSpec => []Types
<1>1. SuiteInv => Types
  BY DEF SuiteInv, Types, IInv, TypeInv, Tokens!IInv, Login!IInv, Prompt!IInv, Config!IInv,
     Questions!IInv
<1> QED BY <1>1, SuiteInvariant, PTL

\* However many m8s share the credential file, crash and are logged in and out, no
\* rotated refresh token is lost between them (credential_store.h:39-40); however
\* many logins and ports there are, a login's client fits its listener, its code is
\* its own, its step-up asks for all that was granted (oauth.cpp); and a login's
\* thread never outlives its prompt (apps/m8/main.cpp).
THEOREM LoginsStayKept == RunSpec => []LoginsAreKept
<1>1. SuiteInv => LoginsAreKept
  BY DEF SuiteInv, LoginsAreKept, Tokens!IInv, Login!IInv, Prompt!IInv
<1> QED BY <1>1, SuiteInvariant, PTL

\* Whoever asks for a login, and however many wait: a server somebody said no to is
\* not asked about again (login_declined, apps/m8/main.cpp).
THEOREM ANoStands == RunSpec => ChoicesStand
<1>1. SuiteInv /\ [RunNext]_all => [part = "prompt" => Prompt!AsksOnce]_all
  <2> SUFFICES ASSUME SuiteInv, RunNext, part = "prompt" PROVE Prompt!AsksOnce
    OBVIOUS
  <2> QED BY SuiteSteps, PromptAsksOnce DEF SuiteInv
<1> QED BY <1>1, SuiteInvariant, PTL DEF RunSpec, ChoicesStand

\* Whichever of several m8s and commands reads or writes the approvals last, and
\* whatever is pulled or edited in between, a server of a workspace file runs only as
\* somebody saw or typed it and said yes to it, or as an `mcp add` found it under the
\* name it had written (trust.cpp, registry.cpp, m8_mcp_cli.cpp:152-173).  For every form
\* a server may ask for, whatever its defaults, what it is sent is what the review
\* showed, each answer legal for its field; an edit round changes no answer whose text
\* is unambiguous (a rounded number's is not); and a link is opened once, and only when
\* somebody agreed (elicitation.cpp).
THEOREM ThePersonDecides == RunSpec => []PersonDecides
<1>1. ASSUME part = "questions", SuiteInv
      PROVE  Questions!SentAsReviewed /\ Questions!EnterKeeps /\ Questions!OpenedOnce
  BY <1>1, QuestionsEnter DEF SuiteInv, Questions!IInv
<1>2. SuiteInv => (part = "config" => Config!RunsOnlyApproved) BY DEF SuiteInv, Config!IInv
<1>3. SuiteInv => PersonDecides BY <1>1, <1>2 DEF PersonDecides
<1> QED BY <1>3, SuiteInvariant, PTL
=============================================================================
