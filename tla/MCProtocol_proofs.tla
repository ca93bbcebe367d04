--------------------------- MODULE MCProtocol_proofs ---------------------------
(***************************************************************************)
(* Proofs about the client (McpClient) and about the suite of what lies     *)
(* beneath it (MCProtocol): for any callers, requests, servers, timeouts   *)
(* and bounds.                                                             *)
(***************************************************************************)
EXTENDS MCProtocol, FiniteSetTheorems, TLAPS

----------------------------------------------------------------------------
(* The client.                                                             *)

Made == {t \in Transports : transport[t] # "none"}

Shaking == {"shake", "shakeLegacy"}

\* Callers that have taken a restart from the budget and made no transport yet.
Restarting == {c \in Callers : pc[c] \in {"connect", "start"}}

\* The start that is not charged may have been made: no fallback is to come.
FellBack ==
    \/ protocol = "legacy"
    \/ mClosing /\ \A c \in Callers : pc[c] # "startLegacy"

\* Every transport made, and every one about to be, was paid for, but the one of
\* the fallback.
Paid ==
    Cardinality(Made) + Cardinality(Restarting)
        <= 1 + mRestarts + aged + (IF FellBack THEN 1 ELSE 0)

\* One caller (re)connects, and what it connects is a transport that was made.
\* It falls back once.
OneConnects ==
    /\ \A c \in Callers : pc[c] \in Connecting => connectMutex = c
    /\ \A c \in Callers : pc[c] \in Shaking => using[c] \in Made
    /\ \A c \in Callers : pc[c] = "startLegacy" => protocol = "auto"
    /\ mConnecting # NoTransport =>
          \E c \in Callers : pc[c] \in Shaking /\ using[c] = mConnecting

\* Only a request the server answers was run in its session: the others may go
\* (again).  A session is lost once, by the request that is then resent.
NotRunYet ==
    \A c \in Callers :
        /\ call[c].ran <= (IF call[c].lost THEN 2 ELSE 1)
        /\ pc[c] # "ran" => call[c].ran <= (IF call[c].lost THEN 1 ELSE 0)
        /\ call[c].lost => call[c].attempt = 1

IInv == TypeOK /\ Paid /\ OneConnects /\ NotRunYet

Places == {"idle", "check", "connect", "start", "shake", "startLegacy", "shakeLegacy",
           "wait", "ran"}
CallRecords == [attempt : 0..1, round : 0..MaxRounds, ran : Nat, lost : BOOLEAN]
CallerTypes ==
    /\ pc \in [Callers -> Places] /\ using \in [Callers -> 0..MaxTransports]
    /\ call \in [Callers -> CallRecords]

LEMMA ConstantsAreNumbers ==
    /\ MaxRestarts \in Nat /\ MaxCalls \in Nat /\ MaxAged \in Nat
    /\ MaxRounds \in Nat \ {0} /\ MaxTransports \in Nat \ {0}
    /\ NoCall \in CallRecords /\ NoCall.ran = 0 /\ ~NoCall.lost
    /\ NoTransport \in 0..MaxTransports /\ Transports \subseteq 0..MaxTransports
BY ClientAssumption DEF NoCall, CallRecords, NoTransport, Transports

\* Both sets that are counted are finite.
LEMMA CountsAreNumbers ==
    /\ IsFiniteSet(Made) /\ Cardinality(Made) \in Nat
    /\ IsFiniteSet(Restarting) /\ Cardinality(Restarting) \in Nat
<1>1. IsFiniteSet(Transports)
  BY FS_Interval, ClientAssumption DEF Transports
<1>2. IsFiniteSet(Made)
  BY <1>1, FS_Subset DEF Made
<1>3. IsFiniteSet(Restarting)
  BY ClientAssumption, FS_Subset DEF Restarting
<1> QED
  BY <1>2, <1>3, FS_CardinalityType

LEMMA InitIInv == Init => IInv
<1> SUFFICES ASSUME Init PROVE IInv
  OBVIOUS
<1>1. TypeOK
  <2>1. mClosing \in BOOLEAN
    BY Zenon DEF Init
  <2>2. CallerTypes
    BY ConstantsAreNumbers DEF Init, CallerTypes, Places
  <2> QED
    BY <2>1, <2>2, ConstantsAreNumbers
    DEF Init, TypeOK, CallerTypes, CallRecords, Places, Connecting, NoTransport, Transports
<1>2. Made = {1} /\ Restarting = {}
  BY ConstantsAreNumbers DEF Init, Made, Restarting, Transports
<1>3. Cardinality(Made) = 1 /\ Cardinality(Restarting) = 0
  BY <1>2, FS_EmptySet, FS_Singleton
<1>4. Paid
  BY <1>3 DEF Paid, Init
<1>5. OneConnects /\ NotRunYet
  BY ConstantsAreNumbers DEF Init, OneConnects, NotRunYet, Connecting, Shaking
<1> QED
  BY <1>1, <1>4, <1>5 DEF IInv

\* A request sent again over a new session keeps its round and its count of runs.
LEMMA AgainRecord ==
    ASSUME NEW r \in CallRecords, NEW lost \in BOOLEAN
    PROVE  /\ [r EXCEPT !.attempt = 1, !.lost = lost] \in CallRecords
           /\ [r EXCEPT !.attempt = 1, !.lost = lost].ran = r.ran
           /\ [r EXCEPT !.attempt = 1, !.lost = lost].lost = lost
           /\ [r EXCEPT !.attempt = 1, !.lost = lost].attempt = 1
<1> DEFINE once == [r EXCEPT !.attempt = 1]
<1>1. once \in CallRecords /\ once.ran = r.ran /\ once.attempt = 1
  <2>1. 1 \in 0..1
    OBVIOUS
  <2> QED
    BY <2>1 DEF CallRecords
<1>2. [r EXCEPT !.attempt = 1, !.lost = lost] = [once EXCEPT !.lost = lost]
  OBVIOUS
<1> HIDE DEF once
<1>3. /\ [once EXCEPT !.lost = lost] \in CallRecords
      /\ [once EXCEPT !.lost = lost].ran = once.ran
      /\ [once EXCEPT !.lost = lost].lost = lost
      /\ [once EXCEPT !.lost = lost].attempt = once.attempt
  BY <1>1 DEF CallRecords
<1> QED
  BY <1>1, <1>2, <1>3

\* What a step does to the caller it is of, in terms of types.
LEMMA CallerSteps ==
    ASSUME CallerTypes, NEW c \in Callers
    PROVE  /\ \A p \in Places, t \in 0..MaxTransports :
                 Go(c, p) /\ Use(c, t) /\ UNCHANGED call => CallerTypes'
           /\ \A p \in Places : Go(c, p) /\ UNCHANGED <<using, call>> => CallerTypes'
           /\ Return(c) => CallerTypes'
           /\ \A round \in 0..MaxRounds : Begin(c, round) => CallerTypes'
           /\ \A lost \in BOOLEAN : Again(c, lost) => CallerTypes'
<1> USE ConstantsAreNumbers DEF CallerTypes, Go, Use
<1>1. ASSUME NEW p \in Places, NEW t \in 0..MaxTransports, Go(c, p), Use(c, t), UNCHANGED call
      PROVE  CallerTypes'
  BY <1>1
<1>2. ASSUME NEW p \in Places, Go(c, p), UNCHANGED <<using, call>>
      PROVE  CallerTypes'
  BY <1>2
<1>3. ASSUME Return(c) PROVE CallerTypes'
  BY <1>3 DEF Return, Places
<1>4. ASSUME NEW request \in CallRecords, Ask(c, request) PROVE CallerTypes'
  BY <1>4 DEF Ask, Places
<1>5. ASSUME NEW round \in 0..MaxRounds, Begin(c, round) PROVE CallerTypes'
  <2> DEFINE request == [NoCall EXCEPT !.round = round]
  <2>1. request \in CallRecords
    BY DEF CallRecords
  <2>2. Ask(c, request)
    BY <1>5 DEF Begin
  <2> HIDE DEF request
  <2> QED
    BY <1>4, <2>1, <2>2
<1>6. ASSUME NEW lost \in BOOLEAN, Again(c, lost) PROVE CallerTypes'
  <2>1. call[c] \in CallRecords
    OBVIOUS
  <2> DEFINE request == [call[c] EXCEPT !.attempt = 1, !.lost = lost]
  <2>2. request \in CallRecords
    BY ONLY <2>1, AgainRecord, lost \in BOOLEAN
  <2>3. Ask(c, request)
    BY <1>6 DEF Again
  <2> HIDE DEF request
  <2> QED
    BY <1>4, <2>2, <2>3
<1> QED
  BY <1>1, <1>2, <1>3, <1>5, <1>6

\* The types of what is not a caller's.
SharedTypes ==
    /\ transport \in [Transports -> {"none", "up", "dead", "closing"}]
    /\ protocol \in {"auto", "legacy", "other"}
    /\ {mTransport, mConnecting, lUsing} \subseteq 0..MaxTransports
    /\ mConnections \in Nat \ {0} /\ lSeen \in Nat
    /\ mClosing \in BOOLEAN /\ mRestarts \in 0..MaxRestarts
    /\ connectMutex \in Callers \cup {Nobody}
    /\ listener \in {"top", "listening", "pause", "nothing", "ended"}
    /\ calls \in 0..MaxCalls /\ aged \in 0..MaxAged

LEMMA TypesAreTwo == TypeOK <=> CallerTypes /\ SharedTypes
BY DEF TypeOK, CallerTypes, SharedTypes, Places, Connecting, CallRecords

\* One caller's step, by the functions of the client that it is in.
LEMMA CallerTypeStep ==
    ASSUME TypeOK, NEW c \in Callers, Call(c) \/ CallerStep(c) \/ ServerStep(c)
    PROVE  TypeOK'
<1> USE ConstantsAreNumbers
<1>1. CallerTypes /\ SharedTypes
  BY TypesAreTwo
<1> USE <1>1
<1>2. CASE Call(c)
  <2>1. CallerTypes'
    BY <1>2, CallerSteps DEF Call
  <2> QED
    BY <1>2, <2>1 DEF Call, connVars, listenVars, TypeOK, CallerTypes, SharedTypes, Places, Connecting, CallRecords
<1>3. CASE EnsureConnected(c)
  <2>1. CASE Return(c) /\ UNCHANGED mRestarts
    <3>1. CallerTypes'
      BY <2>1, CallerSteps
    <3> QED
      BY <1>3, <2>1, <3>1
      DEF EnsureConnected, listenVars, counters, TypeOK, CallerTypes, SharedTypes, Places, Connecting, CallRecords
  <2>2. CASE Send(c) /\ UNCHANGED mRestarts
    <3>1. CallerTypes'
      BY <2>2, CallerSteps DEF Send, SharedTypes, Places
    <3> QED
      BY <1>3, <2>2, <3>1
      DEF EnsureConnected, listenVars, counters, TypeOK, CallerTypes, SharedTypes, Places, Connecting, CallRecords
  <2>3. CASE MayRestart /\ mRestarts' = mRestarts + 1 /\ Go(c, "connect") /\ UNCHANGED <<using, call>>
    <3>1. CallerTypes'
      BY <2>3, CallerSteps DEF Places
    <3>2. mRestarts' \in 0..MaxRestarts
      BY <2>3 DEF MayRestart, SharedTypes
    <3> QED
      BY <1>3, <3>1, <3>2
      DEF EnsureConnected, listenVars, counters, TypeOK, CallerTypes, SharedTypes, Places, Connecting, CallRecords
  <2> QED
    BY <1>3, <2>1, <2>2, <2>3 DEF EnsureConnected
<1>4. CASE LockConnect(c)
  <2>1. CallerTypes'
    BY <1>4, CallerSteps DEF LockConnect, Places
  <2> QED
    BY <1>4, <2>1
    DEF LockConnect, connVars, listenVars, counters, TypeOK, CallerTypes, SharedTypes, Places, Connecting, CallRecords
<1>5. CASE Start(c)
  <2>1. CallerTypes'
    <3>1. CASE Return(c) BY <3>1, CallerSteps
    <3>2. ASSUME NEW t \in Transports, NEW p \in {"shake", "shakeLegacy"},
                 Go(c, p), Use(c, t), UNCHANGED call
          PROVE  CallerTypes'
      BY <3>2, CallerSteps DEF Places
    <3> QED
      BY <1>5, <3>1, <3>2 DEF Start
  <2>2. /\ transport' \in [Transports -> {"none", "up", "dead", "closing"}]
        /\ mConnecting' \in 0..MaxTransports
        /\ protocol' \in {"auto", "legacy", "other"}
        /\ connectMutex' \in Callers \cup {Nobody}
    BY <1>5 DEF Start, SharedTypes
  <2> QED
    BY <1>5, <2>1, <2>2
    DEF Start, listenVars, counters, TypeOK, CallerTypes, SharedTypes, Places, Connecting, CallRecords
<1>6. CASE Shaken(c)
  <2>1. CallerTypes'
    BY <1>6, CallerSteps DEF Shaken, Places
  <2>2. using[c] \in 0..MaxTransports
    BY DEF CallerTypes
  <2>3. /\ transport' \in [Transports -> {"none", "up", "dead", "closing"}]
        /\ mTransport' \in 0..MaxTransports /\ mConnecting' = NoTransport
        /\ mConnections' \in Nat \ {0}
        /\ connectMutex' \in Callers \cup {Nobody}
    BY <1>6, <2>2 DEF Shaken, SharedTypes
  <2> QED
    BY <1>6, <2>1, <2>3
    DEF Shaken, listenVars, counters, TypeOK, CallerTypes, SharedTypes, Places, Connecting, CallRecords
<1>7. CASE NoReply(c)
  <2>1. CallerTypes'
    BY <1>7, CallerSteps DEF NoReply
  <2> QED
    BY <1>7, <2>1
    DEF NoReply, connVars, listenVars, counters, TypeOK, CallerTypes, SharedTypes, Places, Connecting, CallRecords
<1>8. CASE ServerRuns(c)
  <2>1. call[c] \in CallRecords
    BY DEF CallerTypes
  <2>2. [call[c] EXCEPT !.ran = @ + 1] \in CallRecords
    BY <2>1 DEF CallRecords
  <2>3. CallerTypes'
    BY <1>8, <2>2 DEF ServerRuns, CallerTypes, Go, Places
  <2> QED
    BY <1>8, <2>3
    DEF ServerRuns, connVars, listenVars, counters, TypeOK, CallerTypes, SharedTypes, Places, Connecting, CallRecords
<1>9. CASE Replied(c)
  <2>1. call[c].round \in 0..MaxRounds
    BY DEF CallerTypes, CallRecords
  <2>2. CallerTypes'
    <3>1. ASSUME call[c].round < MaxRounds, Begin(c, call[c].round + 1)
          PROVE  CallerTypes'
      <4>1. call[c].round + 1 \in 0..MaxRounds
        BY <2>1, <3>1
      <4> QED
        BY <3>1, <4>1, CallerSteps
    <3> QED
      BY <1>9, <3>1, CallerSteps DEF Replied, NextPage, AnswerInput
  <2> QED
    BY <1>9, <2>2
    DEF Replied, connVars, listenVars, counters, TypeOK, CallerTypes, SharedTypes, Places, Connecting, CallRecords
<1>10. CASE SessionExpired(c)
  <2>2. CallerTypes'
    BY <1>10, CallerSteps DEF SessionExpired
  <2>3. transport' \in [Transports -> {"none", "up", "dead", "closing"}]
    BY <1>10 DEF SessionExpired, SharedTypes
  <2> QED
    BY <1>10, <2>2, <2>3
    DEF SessionExpired, listenVars, counters, TypeOK, CallerTypes, SharedTypes, Places, Connecting, CallRecords
<1> QED
  BY <1>2, <1>3, <1>4, <1>5, <1>6, <1>7, <1>8, <1>9, <1>10 DEF CallerStep, ServerStep

\* The steps of nobody's: the server, the clock, the listener, closing.
OtherStep ==
    \/ \E t \in Transports : ServerStops(t)
    \/ ListenerStep \/ ListenEnds \/ RestartAges \/ BeginClose

LEMMA OtherTypeStep ==
    ASSUME TypeOK, OtherStep
    PROVE  TypeOK'
<1> USE ConstantsAreNumbers
<1>1. CASE \E t \in Transports : ServerStops(t)
  BY <1>1 DEF ServerStops, listenVars, counters, TypeOK
<1>2. CASE ListenPick
  BY <1>2 DEF ListenPick, connVars, counters, TypeOK
<1>3. CASE ListenAgain
  BY <1>3 DEF ListenAgain, connVars, counters, TypeOK, NoTransport
<1>4. CASE ListenEnds
  BY <1>4 DEF ListenEnds, connVars, counters, TypeOK, NoTransport
<1>5. CASE RestartAges
  BY <1>5 DEF RestartAges, listenVars, TypeOK
<1>6. CASE BeginClose
  BY <1>6 DEF BeginClose, listenVars, counters, TypeOK
<1> QED
  BY <1>1, <1>2, <1>3, <1>4, <1>5, <1>6 DEF OtherStep, ListenerStep

\* A fallback is not undone, and nobody who is closing begins one.
LEMMA StaysFallen ==
    ASSUME TypeOK, Next, FellBack
    PROVE  FellBack'
<1>1. CASE protocol = "legacy"
  <2>1. protocol' = "legacy"
    BY <1>1 DEF Next, Call, CallerStep, ServerStep, EnsureConnected, LockConnect, Start,
           Shaken, NoReply, ServerRuns, Replied, SessionExpired, ServerStops, ListenerStep,
           ListenPick, ListenAgain, ListenEnds, RestartAges, BeginClose, connVars
  <2> QED
    BY <2>1 DEF FellBack
<1>2. CASE mClosing /\ \A d \in Callers : pc[d] # "startLegacy"
  <2>1. mClosing'
    BY <1>2 DEF Next, Call, CallerStep, ServerStep, EnsureConnected, LockConnect, Start,
           Shaken, NoReply, ServerRuns, Replied, SessionExpired, ServerStops, ListenerStep,
           ListenPick, ListenAgain, ListenEnds, RestartAges, BeginClose
  <2>2. UNCHANGED pc \/ \E c \in Callers, p \in Places \ {"startLegacy"} : Go(c, p)
    BY <1>2 DEF Next, Call, CallerStep, ServerStep, EnsureConnected, Send, LockConnect, Start,
           Shaken, CrashedOnProbe, NoReply, ServerRuns, Replied, NextPage, AnswerInput,
           SessionExpired, Return, Ask, Begin, Again, ServerStops, ListenerStep,
           ListenPick, ListenAgain, ListenEnds, RestartAges, BeginClose, Places
  <2>3. \A d \in Callers : pc'[d] # "startLegacy"
    BY <1>2, <2>2 DEF Go, TypeOK
  <2> QED
    BY <2>1, <2>3 DEF FellBack
<1> QED
  BY <1>1, <1>2 DEF FellBack

\* Nothing is made and nobody asks for a restart: what was paid still is.
LEMMA StillPaid ==
    ASSUME TypeOK, TypeOK', Paid, Next, Made' \subseteq Made,
           Restarting' \subseteq Restarting, mRestarts + aged <= mRestarts' + aged'
    PROVE  Paid'
<1>1. /\ Cardinality(Made') \in Nat /\ Cardinality(Made') <= Cardinality(Made)
      /\ Cardinality(Restarting') \in Nat
      /\ Cardinality(Restarting') <= Cardinality(Restarting)
  BY CountsAreNumbers, FS_Subset, FS_CardinalityType
<1>2. /\ mRestarts \in Nat /\ aged \in Nat /\ mRestarts' \in Nat /\ aged' \in Nat
  BY ConstantsAreNumbers DEF TypeOK
<1>3. FellBack => FellBack'
  BY StaysFallen
<1>4. ASSUME NEW m \in Nat, NEW n \in Nat, NEW k \in Nat, NEW l \in Nat, NEW p \in Nat,
             NEW q \in Nat, NEW r \in Nat, NEW s \in Nat, NEW u \in 0..1, NEW v \in 0..1,
             m <= k, n <= l, k + l <= 1 + p + q + u, p + q <= r + s, u <= v
      PROVE  m + n <= 1 + r + s + v
  BY <1>4
<1> DEFINE u == IF FellBack THEN 1 ELSE 0
           v == IF FellBack' THEN 1 ELSE 0
<1>5. u \in 0..1 /\ v \in 0..1 /\ u <= v
  BY <1>3
<1>6. Cardinality(Made) + Cardinality(Restarting) <= 1 + mRestarts + aged + u
  BY DEF Paid
<1>7. Paid' <=> Cardinality(Made') + Cardinality(Restarting') <= 1 + mRestarts' + aged' + v
  BY DEF Paid
<1> HIDE DEF u, v
<1> QED
  BY <1>1, <1>2, <1>4, <1>5, <1>6, <1>7, CountsAreNumbers

\* Whoever leaves for a place other than these two is restarting no more.
LEMMA RestartingShrinks ==
    ASSUME TypeOK, NEW c \in Callers, NEW p \in Places \ {"connect", "start"}, Go(c, p)
    PROVE  Restarting' \subseteq Restarting
BY DEF TypeOK, Go, Restarting

LEMMA PaidCallerStep ==
    ASSUME IInv, TypeOK', NEW c \in Callers, Call(c) \/ CallerStep(c) \/ ServerStep(c)
    PROVE  Paid'
<1> USE DEF IInv
<1>1. UNCHANGED transport => Made' = Made
  BY DEF Made
<1>0. Next /\ (FellBack => FellBack')
  BY StaysFallen DEF Next
<1>2. pc \in [Callers -> Places] /\ aged \in Nat /\ mRestarts \in Nat
  BY ConstantsAreNumbers DEF TypeOK, Places, Connecting
<1>3. Return(c) => Restarting' \subseteq Restarting
  BY RestartingShrinks DEF Return, Places
<1>4. \A request : Ask(c, request) => Restarting' \subseteq Restarting
  BY RestartingShrinks DEF Ask, Places
<1>5. CASE Call(c)
  BY <1>1, <1>2, <1>4, <1>5, StillPaid, <1>0 DEF Call, Begin, connVars
<1>6. CASE EnsureConnected(c)
  <2>1. CASE (Return(c) \/ Send(c)) /\ UNCHANGED mRestarts
    <3>1. Restarting' \subseteq Restarting
      BY <1>3, <2>1, RestartingShrinks DEF Send, Places
    <3> QED
      BY <1>1, <1>2, <1>6, <2>1, <3>1, <1>0, StillPaid DEF EnsureConnected, counters
  <2>2. CASE mRestarts' = mRestarts + 1 /\ Go(c, "connect")
    <3>1. Restarting' = Restarting \cup {c} /\ c \notin Restarting
      BY <1>2, <1>6, <2>2 DEF EnsureConnected, Go, Restarting
    <3>2. Cardinality(Restarting') = Cardinality(Restarting) + 1
      BY <3>1, CountsAreNumbers, FS_AddElement
    <3>3. Made' = Made /\ aged' = aged
      BY <1>1, <1>6 DEF EnsureConnected, counters
    <3> QED
      BY <1>0, <1>2, <2>2, <3>2, <3>3, CountsAreNumbers DEF Paid
  <2> QED
    BY <1>6, <2>1, <2>2 DEF EnsureConnected
<1>7. CASE LockConnect(c)
  <2>1. Restarting' \subseteq Restarting
    BY <1>2, <1>3, <1>7 DEF LockConnect, Go, Restarting
  <2> QED
    BY <1>1, <1>2, <1>7, <2>1, <1>0, StillPaid DEF LockConnect, connVars, counters
<1>8. CASE Start(c)
  <2>1. CASE Return(c) /\ UNCHANGED transport
    BY <1>1, <1>2, <1>3, <1>8, <2>1, <1>0, StillPaid DEF Start, counters
  <2>2. ASSUME NEW t \in Transports, transport[t] = "none",
               NEW s \in {"up", "closing"}, transport' = [transport EXCEPT ![t] = s]
        PROVE  Paid'
    <3>1. Made' = Made \cup {t} /\ t \notin Made
      BY <2>2 DEF Made, TypeOK
    <3>2. Cardinality(Made') = Cardinality(Made) + 1
      BY <3>1, CountsAreNumbers, FS_AddElement
    <3>3. UNCHANGED <<mRestarts, aged>>
      BY <1>8 DEF Start, counters
    <3>4. \E p \in Places \ {"connect", "start", "startLegacy"} : Go(c, p)
      BY <1>8, <2>2 DEF Start, Return, Places
    <3>5. CASE pc[c] = "start"
      <4>1. Restarting' = Restarting \ {c} /\ c \in Restarting
        BY <1>2, <3>4, <3>5 DEF Go, Restarting
      <4>2. Cardinality(Restarting') = Cardinality(Restarting) - 1
        BY <4>1, CountsAreNumbers, FS_RemoveElement
      <4> QED
        BY <1>0, <1>2, <3>2, <3>3, <4>2, CountsAreNumbers DEF Paid
    <3>6. CASE pc[c] = "startLegacy"
      <4>1. Restarting' = Restarting
        BY <1>2, <3>4, <3>6 DEF Go, Restarting
      <4>2. ~FellBack
        BY <3>6 DEF FellBack, OneConnects
      <4>3. FellBack'
        <5>1. CASE ~mClosing
          <6>1. transport' # transport
            BY <2>2 DEF TypeOK
          <6> QED
            BY <1>8, <3>6, <5>1, <6>1 DEF Start, FellBack
        <5>2. CASE mClosing
          <6>1. \A d \in Callers \ {c} : pc[d] # "startLegacy"
            BY <3>6 DEF OneConnects, Connecting
          <6>2. \A d \in Callers : pc'[d] # "startLegacy"
            BY <1>2, <3>4, <6>1 DEF Go
          <6> QED
            BY <1>8, <5>2, <6>2 DEF Start, FellBack
        <5> QED
          BY <5>1, <5>2
      <4> QED
        BY <1>2, <3>2, <3>3, <4>1, <4>2, <4>3, CountsAreNumbers DEF Paid
    <3> QED
      BY <1>8, <3>5, <3>6 DEF Start
  <2> QED
    BY <1>8, <2>1, <2>2 DEF Start
<1>9. CASE Shaken(c)
  <2>1. Restarting' \subseteq Restarting
    BY <1>3, <1>9, RestartingShrinks DEF Shaken, Places
  <2>2. Made' \subseteq Made
    BY <1>9 DEF Shaken, Made, OneConnects, Shaking, TypeOK
  <2> QED
    BY <1>2, <1>9, <2>1, <2>2, <1>0, StillPaid DEF Shaken, counters
<1>10. CASE NoReply(c)
  BY <1>1, <1>2, <1>3, <1>10, <1>0, StillPaid DEF NoReply, connVars, counters
<1>11. CASE ServerRuns(c)
  <2>1. Restarting' \subseteq Restarting
    BY <1>11, RestartingShrinks DEF ServerRuns, Places
  <2> QED
    BY <1>1, <1>2, <1>11, <2>1, <1>0, StillPaid DEF ServerRuns, connVars, counters
<1>12. CASE Replied(c)
  <2>1. Restarting' \subseteq Restarting
    BY <1>3, <1>4, <1>12 DEF Replied, NextPage, AnswerInput, Begin
  <2> QED
    BY <1>1, <1>2, <1>12, <2>1, <1>0, StillPaid DEF Replied, connVars, counters
<1>13. CASE SessionExpired(c)
  <2>1. Restarting' \subseteq Restarting
    BY <1>3, <1>4, <1>13 DEF SessionExpired, Again
  <2>2. Made' \subseteq Made
    BY <1>13 DEF SessionExpired, Made, Up, TypeOK
  <2> QED
    BY <1>2, <1>13, <2>1, <2>2, <1>0, StillPaid DEF SessionExpired, counters
<1> QED
  BY <1>5, <1>6, <1>7, <1>8, <1>9, <1>10, <1>11, <1>12, <1>13 DEF CallerStep, ServerStep

LEMMA PaidOtherStep ==
    ASSUME IInv, TypeOK', OtherStep
    PROVE  Paid'
<1>1. UNCHANGED pc
  BY DEF OtherStep, ListenerStep, ServerStops, ListenPick, ListenAgain, ListenEnds,
         RestartAges, BeginClose
<1>2. Restarting' = Restarting
  BY <1>1 DEF Restarting
<1>3. Made' \subseteq Made
  BY DEF OtherStep, ListenerStep, ServerStops, ListenPick, ListenAgain, ListenEnds,
         RestartAges, BeginClose, connVars, Made, Up, Running, IInv, TypeOK
<1>4. mRestarts + aged <= mRestarts' + aged'
  <2>1. mRestarts \in Nat /\ aged \in Nat
    BY ConstantsAreNumbers DEF IInv, TypeOK
  <2>2. \/ UNCHANGED <<mRestarts, aged>>
        \/ mRestarts' = mRestarts - 1 /\ aged' = aged + 1
    BY DEF OtherStep, ListenerStep, ServerStops, ListenPick, ListenAgain, ListenEnds,
           RestartAges, BeginClose, connVars, counters
  <2> QED
    BY <2>1, <2>2
<1> QED
  BY <1>2, <1>3, <1>4, StillPaid DEF IInv, Next, OtherStep

\* A caller's step elsewhere disturbs nobody's connect().
LEMMA NotConnecting ==
    ASSUME IInv, NEW c \in Callers, pc[c] \notin Connecting,
           NEW p \in Places \ Connecting, Go(c, p),
           UNCHANGED <<mConnecting, connectMutex, protocol>>,
           Made \subseteq Made', \A d \in Callers \ {c} : using'[d] = using[d]
    PROVE  OneConnects'
<1>1. \A d \in Callers : pc'[d] = IF d = c THEN p ELSE pc[d]
  BY DEF Go, IInv, TypeOK
<1>2. OneConnects
  BY DEF IInv
<1> QED
  BY <1>1, <1>2 DEF OneConnects, Connecting, Shaking

LEMMA ConnectsCallerStep ==
    ASSUME IInv, TypeOK', NEW c \in Callers, Call(c) \/ CallerStep(c) \/ ServerStep(c)
    PROVE  OneConnects'
<1>1. /\ pc \in [Callers -> Places] /\ using \in [Callers -> 0..MaxTransports]
      /\ OneConnects /\ Nobody \notin Callers
  BY ClientAssumption DEF IInv, TypeOK, Places, Connecting
<1>2. UNCHANGED transport => Made' = Made
  BY DEF Made
<1>3. /\ \A t : Use(c, t) => \A d \in Callers \ {c} : using'[d] = using[d]
      /\ Return(c) => /\ \A d \in Callers \ {c} : using'[d] = using[d]
                      /\ Go(c, "idle")
      /\ \A request : Ask(c, request) =>
            /\ \A d \in Callers \ {c} : using'[d] = using[d]
            /\ Go(c, "check")
  BY <1>1 DEF Use, Return, Ask
<1>4. CASE Call(c)
  BY <1>2, <1>3, <1>4, NotConnecting DEF Call, Begin, connVars, Places, Connecting
<1>5. CASE EnsureConnected(c)
  <2>1. \E p \in {"idle", "wait", "connect"} : Go(c, p)
    BY <1>3, <1>5 DEF EnsureConnected, Send
  <2>2. \A d \in Callers \ {c} : using'[d] = using[d]
    BY <1>3, <1>5 DEF EnsureConnected, Send
  <2> QED
    BY <1>2, <1>5, <2>1, <2>2, NotConnecting DEF EnsureConnected, Places, Connecting
<1>6. CASE LockConnect(c)
  <2>1. CASE Return(c) /\ UNCHANGED connectMutex
    BY <1>2, <1>3, <1>6, <2>1, NotConnecting DEF LockConnect, connVars, Places, Connecting
  <2>2. CASE connectMutex' = c /\ Go(c, "start") /\ UNCHANGED using
    <3>1. \A d \in Callers : pc[d] \notin Connecting
      BY <1>1, <1>6 DEF LockConnect, OneConnects
    <3>2. \A d \in Callers : pc'[d] = IF d = c THEN "start" ELSE pc[d]
      BY <1>1, <2>2 DEF Go
    <3>3. mConnecting' = NoTransport
      BY <1>1, <1>6, <3>1 DEF LockConnect, connVars, OneConnects, Connecting, Shaking
    <3> QED
      BY <2>2, <3>1, <3>2, <3>3 DEF OneConnects, Connecting, Shaking
  <2> QED
    BY <1>6, <2>1, <2>2 DEF LockConnect
<1>7. CASE Start(c)
  <2>1. \A d \in Callers \ {c} : pc[d] \notin Connecting
    BY <1>1, <1>7 DEF Start, OneConnects, Connecting
  <2>2. CASE Return(c) /\ connectMutex' = Nobody /\ UNCHANGED mConnecting
    <3>1. \A d \in Callers : pc'[d] \notin Connecting
      BY <1>1, <2>1, <2>2 DEF Return, Go, Connecting
    <3>2. mConnecting' = NoTransport
      BY <1>1, <1>7, <2>1, <2>2 DEF Start, OneConnects, Connecting, Shaking
    <3> QED
      BY <3>1, <3>2 DEF OneConnects, Connecting, Shaking
  <2>3. ASSUME NEW p \in Shaking, Go(c, p), UNCHANGED connectMutex,
               NEW t \in Transports, transport' = [transport EXCEPT ![t] = "up"],
               mConnecting' = t, Use(c, t)
        PROVE  OneConnects'
    <3>1. \A d \in Callers : pc'[d] = IF d = c THEN p ELSE pc[d]
      BY <1>1, <2>3 DEF Go
    <3>2. using'[c] = t /\ t \in Made'
      BY <1>1, <2>3 DEF Use, Made, IInv, TypeOK
    <3>3. connectMutex' = c
      BY <1>1, <1>7, <2>3 DEF Start, OneConnects, Connecting
    <3> QED
      BY <2>1, <2>3, <3>1, <3>2, <3>3 DEF OneConnects, Connecting, Shaking
  <2> QED
    BY <1>7, <2>2, <2>3 DEF Start, Shaking
<1>8. CASE Shaken(c)
  <2>1. \A d \in Callers \ {c} : pc[d] \notin Connecting
    BY <1>1, <1>8 DEF Shaken, OneConnects, Connecting
  <2>2. CASE Go(c, "wait") \/ Go(c, "idle")
    <3>1. \A d \in Callers : pc'[d] \notin Connecting
      BY <1>1, <2>1, <2>2 DEF Go, Connecting
    <3> QED
      BY <1>8, <3>1 DEF Shaken, OneConnects, Connecting, Shaking
  <2>3. CASE CrashedOnProbe(c) /\ Go(c, "startLegacy") /\ UNCHANGED connectMutex
    <3>1. \A d \in Callers : pc'[d] = IF d = c THEN "startLegacy" ELSE pc[d]
      BY <1>1, <2>3 DEF Go
    <3>2. protocol' = "auto" /\ mConnecting' = NoTransport /\ connectMutex' = c
      BY <1>1, <1>8, <2>3 DEF Shaken, CrashedOnProbe, OneConnects, Connecting
    <3> QED
      BY <2>1, <3>1, <3>2 DEF OneConnects, Connecting, Shaking
  <2> QED
    BY <1>8, <2>2, <2>3 DEF Shaken, Return
<1>9. CASE NoReply(c)
  BY <1>2, <1>3, <1>9, NotConnecting DEF NoReply, connVars, Places, Connecting
<1>10. CASE ServerRuns(c)
  BY <1>2, <1>10, NotConnecting DEF ServerRuns, connVars, Places, Connecting
<1>11. CASE Replied(c)
  <2>1. (Go(c, "idle") \/ Go(c, "check")) /\ \A d \in Callers \ {c} : using'[d] = using[d]
    BY <1>3, <1>11 DEF Replied, NextPage, AnswerInput, Begin
  <2> QED
    BY <1>2, <1>11, <2>1, NotConnecting DEF Replied, connVars, Places, Connecting
<1>12. CASE SessionExpired(c)
  <2>1. (Go(c, "idle") \/ Go(c, "check")) /\ \A d \in Callers \ {c} : using'[d] = using[d]
    BY <1>3, <1>12 DEF SessionExpired, Again
  <2>2. Made \subseteq Made'
    BY <1>12 DEF SessionExpired, Made, IInv, TypeOK
  <2> QED
    BY <1>12, <2>1, <2>2, NotConnecting DEF SessionExpired, Places, Connecting
<1> QED
  BY <1>4, <1>5, <1>6, <1>7, <1>8, <1>9, <1>10, <1>11, <1>12 DEF CallerStep, ServerStep

LEMMA ConnectsOtherStep ==
    ASSUME IInv, TypeOK', OtherStep
    PROVE  OneConnects'
<1>1. UNCHANGED <<pc, using, connectMutex, mConnecting, protocol>>
  BY DEF OtherStep, ListenerStep, ServerStops, ListenPick, ListenAgain, ListenEnds,
         RestartAges, BeginClose, connVars
<1>2. Made \subseteq Made'
  BY DEF OtherStep, ListenerStep, ServerStops, ListenPick, ListenAgain, ListenEnds,
         RestartAges, BeginClose, connVars, Made, IInv, TypeOK
<1> QED
  BY <1>1, <1>2 DEF IInv, OneConnects, Connecting, Shaking

\* Where a request may be sent again, it has not been run in its session: a new
\* round starts from none, and a resend comes from "wait", or loses the session.
LEMMA NotRunStep ==
    ASSUME IInv, [Next]_vars
    PROVE  NotRunYet'
<1>1. /\ pc \in [Callers -> Places] /\ call \in [Callers -> CallRecords] /\ NotRunYet
  BY DEF IInv, TypeOK, Places, Connecting, CallRecords
<1>2. CASE UNCHANGED <<pc, call>>
  BY <1>1, <1>2 DEF NotRunYet
<1>3. OtherStep => UNCHANGED <<pc, call>>
  BY DEF OtherStep, ListenerStep, ServerStops, ListenPick, ListenAgain, ListenEnds,
         RestartAges, BeginClose
<1>4. ASSUME NEW c \in Callers, Call(c) \/ CallerStep(c) \/ ServerStep(c)
      PROVE  NotRunYet'
  <2>1. CASE Return(c)
    BY <1>1, <2>1, ConstantsAreNumbers DEF Return, Go, NotRunYet
  <2>0. call[c] \in CallRecords
    BY <1>1
  <2>2. ASSUME NEW request \in CallRecords, Ask(c, request),
               request.ran <= (IF request.lost THEN 1 ELSE 0),
               request.lost => request.attempt = 1
        PROVE  NotRunYet'
    <3>1. /\ \A d \in Callers \ {c} : pc'[d] = pc[d] /\ call'[d] = call[d]
          /\ call'[c] = request
      BY <1>1, <2>2 DEF Ask, Go
    <3>2. request.ran \in Nat /\ request.lost \in BOOLEAN
      BY DEF CallRecords
    <3>3. request.ran <= (IF request.lost THEN 2 ELSE 1)
      BY <2>2, <3>2
    <3> QED
      BY <1>1, <2>2, <3>1, <3>3 DEF NotRunYet
  <2>3. ASSUME UNCHANGED call, NEW p \in Places, Go(c, p), pc[c] # "ran"
        PROVE  NotRunYet'
    BY <1>1, <2>3 DEF Go, NotRunYet
  <2>4. ASSUME NEW round \in 0..MaxRounds, Begin(c, round) PROVE NotRunYet'
    <3> DEFINE request == [NoCall EXCEPT !.round = round]
    <3>1. request \in CallRecords /\ request.ran = 0 /\ ~request.lost
      BY ConstantsAreNumbers DEF CallRecords, NoCall
    <3>2. Ask(c, request)
      BY <2>4 DEF Begin
    <3> HIDE DEF request
    <3> QED
      BY <2>2, <3>1, <3>2
  <2>5. CASE Call(c)
    BY <2>4, <2>5, ConstantsAreNumbers DEF Call
  <2>6. CASE EnsureConnected(c) \/ LockConnect(c) \/ Start(c) \/ Shaken(c)
    <3>1. pc[c] # "ran"
      BY <2>6 DEF EnsureConnected, LockConnect, Start, Shaken
    <3>2. Return(c) \/ (UNCHANGED call /\ \E p \in Places : Go(c, p))
      BY <2>6 DEF EnsureConnected, Send, LockConnect, Start, Shaken, Places
    <3> QED
      BY <2>1, <2>3, <3>1, <3>2
  <2>7. CASE NoReply(c)
    BY <2>1, <2>7 DEF NoReply
  <2>8. CASE ServerRuns(c)
    <3> DEFINE run == [call[c] EXCEPT !.ran = @ + 1]
    <3>1. call[c].ran <= (IF call[c].lost THEN 1 ELSE 0) /\ (call[c].lost => call[c].attempt = 1)
      BY <1>1, <2>8 DEF ServerRuns, NotRunYet
    <3>2. /\ run.ran = call[c].ran + 1 /\ run.lost = call[c].lost
          /\ run.attempt = call[c].attempt /\ call[c].ran \in Nat /\ call[c].lost \in BOOLEAN
      BY <2>0 DEF CallRecords
    <3>3. run.ran <= (IF run.lost THEN 2 ELSE 1) /\ (run.lost => run.attempt = 1)
      BY <3>1, <3>2
    <3>4. \A d \in Callers \ {c} : pc'[d] = pc[d] /\ call'[d] = call[d]
      BY <1>1, <2>8 DEF ServerRuns, Go
    <3>5. pc'[c] = "ran" /\ call'[c] = run
      BY <1>1, <2>8 DEF ServerRuns, Go
    <3> HIDE DEF run
    <3> QED
      BY <1>1, <3>3, <3>4, <3>5 DEF NotRunYet
  <2>9. CASE Replied(c)
    <3>1. call[c].round < MaxRounds => call[c].round + 1 \in 0..MaxRounds
      BY <2>0, ConstantsAreNumbers DEF CallRecords
    <3> QED
      BY <2>1, <2>4, <2>9, <3>1 DEF Replied, NextPage, AnswerInput
  <2>10. CASE SessionExpired(c)
    <3>1. ASSUME call[c].attempt = 0, NEW lost \in BOOLEAN, lost <=> pc[c] = "ran", Again(c, lost)
          PROVE  NotRunYet'
      <4> DEFINE request == [call[c] EXCEPT !.attempt = 1, !.lost = lost]
      <4>0. ~call[c].lost
        BY <1>1, <3>1 DEF NotRunYet
      <4>1. call[c].ran <= 1 /\ (pc[c] # "ran" => call[c].ran <= 0)
        BY <1>1, <4>0 DEF NotRunYet
      <4>2. /\ request \in CallRecords /\ request.ran = call[c].ran
            /\ request.lost = lost /\ request.attempt = 1
        BY ONLY <2>0, AgainRecord, lost \in BOOLEAN
      <4>3. Ask(c, request)
        BY <3>1 DEF Again
      <4>4. request.ran <= (IF request.lost THEN 1 ELSE 0)
        BY <3>1, <4>1, <4>2
      <4> HIDE DEF request
      <4> QED
        BY <2>2, <4>2, <4>3, <4>4
    <3> QED
      BY <2>1, <2>10, <3>1 DEF SessionExpired
  <2> QED
    BY <1>4, <2>5, <2>6, <2>7, <2>8, <2>9, <2>10 DEF CallerStep, ServerStep
<1> QED
  BY <1>2, <1>3, <1>4 DEF Next, OtherStep, vars

LEMMA NextIInv == IInv /\ [Next]_vars => IInv'
<1> SUFFICES ASSUME IInv, [Next]_vars PROVE IInv'
  OBVIOUS
<1>1. CASE UNCHANGED vars
  <2>1. TypeOK'
    BY <1>1 DEF vars, connVars, listenVars, counters, IInv, TypeOK
  <2>2. Paid' /\ OneConnects'
    BY <1>1 DEF vars, connVars, counters, IInv, Paid, FellBack, Made, Restarting, OneConnects
  <2> QED
    BY <2>1, <2>2, NotRunStep DEF IInv
<1>2. CASE \E c \in Callers : Call(c) \/ CallerStep(c) \/ ServerStep(c)
  <2>1. TypeOK'
    BY <1>2, CallerTypeStep DEF IInv
  <2> QED
    BY <1>2, <2>1, PaidCallerStep, ConnectsCallerStep, NotRunStep DEF IInv
<1>3. CASE OtherStep
  <2>1. TypeOK'
    BY <1>3, OtherTypeStep DEF IInv
  <2> QED
    BY <1>3, <2>1, PaidOtherStep, ConnectsOtherStep, NotRunStep DEF IInv
<1> QED
  BY <1>1, <1>2, <1>3 DEF Next, OtherStep

LEMMA Invariant == Spec => []IInv
BY InitIInv, NextIInv, PTL DEF Spec

\* For any callers and any bounds, every variable keeps its type: in particular
\* mRestarts never passes the budget (client.cpp:390-418).
THEOREM ClientTypes == Spec => []TypeOK
<1>1. IInv => TypeOK
  BY DEF IInv
<1> QED
  BY <1>1, Invariant, PTL

\* However many callers find the server dead at once, the transports made stay
\* within the budget, but for the one start of the fallback, which connect() does
\* not charge, and one connect() runs at a time (client.cpp:308-418).
THEOREM RestartsStayBudgeted == Spec => []RestartsBudgeted
<1>1. IInv => RestartsBudgeted
  <2> SUFFICES ASSUME IInv PROVE RestartsBudgeted
    OBVIOUS
  <2> DEFINE more == IF protocol = "legacy" \/ mClosing THEN 1 ELSE 0
  <2>1. Cardinality(Made) <= 1 + mRestarts + aged + (IF FellBack THEN 1 ELSE 0)
    BY CountsAreNumbers, ConstantsAreNumbers DEF IInv, TypeOK, Paid
  <2>2. FellBack => protocol = "legacy" \/ mClosing
    BY DEF FellBack
  <2>3. Cardinality(Made) <= 1 + MaxRestarts + aged + more
    BY <2>1, <2>2, CountsAreNumbers, ConstantsAreNumbers DEF IInv, TypeOK
  <2> QED
    BY <2>3 DEF IInv, OneConnects, RestartsBudgeted, Made, Shaking
<1> QED
  BY <1>1, Invariant, PTL

\* A request is run at most once in a session, and a second time only where the
\* session was lost after it had run, whatever crashes, restarts, resends and rounds
\* the call went through (client.cpp:424-466).
THEOREM CallsRunOncePerSession == Spec => []RunsOncePerSession
<1>1. IInv => RunsOncePerSession
  BY DEF IInv, NotRunYet, RunsOncePerSession
<1> QED
  BY <1>1, Invariant, PTL

----------------------------------------------------------------------------
(* The handshake.                                                          *)

LEMMA HandshakeInit == ASSUME Handshake!Init PROVE Handshake!IInv
<1> USE ProtocolAssumption DEF Handshake!Init, Handshake!Servers, Handshake!Eras
<1>1. v9 \in BOOLEAN /\ v10 \in BOOLEAN /\ v12 \in BOOLEAN /\ v13 \in BOOLEAN BY Zenon
<1>2. Handshake!TypeOK BY <1>1 DEF Handshake!TypeOK, Handshake!Ends
<1>3. Handshake!ReplyInv BY DEF Handshake!ReplyInv
<1>4. Handshake!PhaseInv BY DEF Handshake!PhaseInv, Handshake!SettledEraIsRight
<1> QED BY <1>2, <1>3, <1>4 DEF Handshake!IInv

\* What a server may be like.
LEMMA HandshakeServers ==
    ASSUME Handshake!TypeOK
    PROVE  /\ v2.eras \subseteq {"modern", "legacy"}
           /\ v2.manner = "future" => "modern" \notin v2.eras
           /\ v2.manner \in {"locked", "down"} => v2.eras = {"modern", "legacy"}
BY DEF Handshake!TypeOK, Handshake!Servers, Handshake!Eras

\* What it replies, and what a request is when it is sent.
LEMMA HandshakeReplies ==
    ASSUME Handshake!IInv
    PROVE  /\ Handshake!DiscoverReply \in Handshake!Ends
           /\ Handshake!DiscoverReply = "result" => "modern" \in v2.eras
           /\ Handshake!DiscoverReply \in {"error", "offersLegacy"} => "modern" \notin v2.eras
           /\ Handshake!DiscoverReply \in {"auth", "down"} => v2.manner \in {"locked", "down"}
           /\ Handshake!DiscoverReply # "late"
           /\ Handshake!InitializeReply \in Handshake!Ends
           /\ Handshake!InitializeReply = "result" => "legacy" \in v2.eras
           /\ Handshake!Sent \in {"asked", "late", "exited"}
           /\ v10 => Handshake!Sent \in {"late", "exited"}
           /\ Handshake!Sent = "late" => v10
BY HandshakeServers
DEF Handshake!IInv, Handshake!DiscoverReply, Handshake!InitializeReply, Handshake!Gate,
    Handshake!Sent, Handshake!Ends

HandshakeFlags == v9 \in BOOLEAN /\ v10 \in BOOLEAN /\ v12 \in BOOLEAN /\ v13 \in BOOLEAN

LEMMA HandshakeFlagStep == ASSUME HandshakeFlags, Handshake!Next PROVE HandshakeFlags'
<1> USE DEF HandshakeFlags, Handshake!asks
<1>1. CASE Handshake!ServerStep
  BY Zenon, <1>1 DEF Handshake!ServerStep, Handshake!AnswerDiscover, Handshake!AnswerInitialize,
     Handshake!ServerExits
<1>2. CASE Handshake!DeadlinePasses \/ Handshake!Reconnect \/ Handshake!AttemptFailed
  BY Zenon, <1>2 DEF Handshake!DeadlinePasses, Handshake!Reconnect, Handshake!AttemptFailed,
     Handshake!Fresh
<1>3. CASE Handshake!ClientStep /\ ~Handshake!AttemptFailed
  BY Zenon, <1>3 DEF Handshake!ClientStep, Handshake!Begin, Handshake!RememberedAnswered,
     Handshake!HttpProbed, Handshake!StdioProbed, Handshake!ProbeTimesOut,
     Handshake!ModernAnswered, Handshake!Race, Handshake!LegacyAnswered
<1> QED BY <1>1, <1>2, <1>3 DEF Handshake!Next

LEMMA HandshakeTypes == ASSUME Handshake!IInv, Handshake!Next PROVE Handshake!TypeOK'
<1>0. HandshakeFlags' BY HandshakeFlagStep DEF HandshakeFlags, Handshake!IInv, Handshake!TypeOK
<1> USE <1>0, ProtocolAssumption, HandshakeReplies
    DEF Handshake!IInv, Handshake!TypeOK, Handshake!asks, Handshake!Ends, HandshakeFlags
<1>1. CASE Handshake!ServerStep
  BY <1>1 DEF Handshake!ServerStep, Handshake!AnswerDiscover, Handshake!AnswerInitialize,
     Handshake!ServerExits, Handshake!Exited
<1>2. CASE Handshake!DeadlinePasses BY <1>2 DEF Handshake!DeadlinePasses, Handshake!Late
<1>3. CASE Handshake!Reconnect BY <1>3 DEF Handshake!Reconnect, Handshake!Fresh
<1>4. CASE Handshake!AttemptFailed
  <2>1. [v1 EXCEPT !.protocol = "legacy"] \in [http : BOOLEAN,
           protocol : {"auto"} \cup Handshake!Eras, remembered : {"unknown"} \cup Handshake!Eras]
    BY DEF Handshake!Eras
  <2> QED BY <1>4, <2>1 DEF Handshake!AttemptFailed, Handshake!Fresh
<1> USE DEF Handshake!Settle, Handshake!Fail, Handshake!AcceptDiscover, Handshake!AcceptInitialize,
            Handshake!LegacyInitialize, Handshake!ModernError, Handshake!Probe, Handshake!Eras
<1>5. CASE Handshake!Begin \/ Handshake!RememberedAnswered
  BY <1>5 DEF Handshake!Begin, Handshake!RememberedAnswered
<1>6. CASE Handshake!HttpProbed BY <1>6 DEF Handshake!HttpProbed
<1>7. CASE Handshake!StdioProbed BY <1>7 DEF Handshake!StdioProbed
<1>8. CASE Handshake!ProbeTimesOut \/ Handshake!ModernAnswered \/ Handshake!LegacyAnswered
  BY <1>8 DEF Handshake!ProbeTimesOut, Handshake!ModernAnswered, Handshake!LegacyAnswered
<1>9. CASE Handshake!Race BY <1>9 DEF Handshake!Race, Handshake!PassedOver
<1> QED
  BY <1>1, <1>2, <1>3, <1>4, <1>5, <1>6, <1>7, <1>8, <1>9 DEF Handshake!Next, Handshake!ClientStep

LEMMA HandshakeReplyStep == ASSUME Handshake!IInv, Handshake!Next PROVE Handshake!ReplyInv'
<1> USE HandshakeReplies DEF Handshake!IInv, Handshake!ReplyInv, Handshake!asks
<1>0. /\ [v1 EXCEPT !.protocol = "legacy"].http = v1.http
  BY DEF Handshake!TypeOK
<1>1. CASE Handshake!ServerStep
  BY <1>1 DEF Handshake!ServerStep, Handshake!AnswerDiscover, Handshake!AnswerInitialize,
     Handshake!ServerExits, Handshake!Exited
<1>2. CASE Handshake!DeadlinePasses BY <1>2 DEF Handshake!DeadlinePasses, Handshake!Late
<1>3. CASE Handshake!Reconnect BY <1>3 DEF Handshake!Reconnect, Handshake!Fresh
<1>4. CASE Handshake!AttemptFailed BY <1>0, <1>4 DEF Handshake!AttemptFailed, Handshake!Fresh
<1> USE DEF Handshake!Settle, Handshake!Fail, Handshake!AcceptDiscover, Handshake!AcceptInitialize,
            Handshake!LegacyInitialize, Handshake!ModernError, Handshake!Probe
<1>5. CASE Handshake!Begin \/ Handshake!RememberedAnswered
  BY <1>5 DEF Handshake!Begin, Handshake!RememberedAnswered
<1>6. CASE Handshake!HttpProbed BY <1>6 DEF Handshake!HttpProbed
<1>7. CASE Handshake!StdioProbed BY <1>7 DEF Handshake!StdioProbed
<1>8. CASE Handshake!ProbeTimesOut \/ Handshake!ModernAnswered \/ Handshake!LegacyAnswered
  BY <1>8 DEF Handshake!ProbeTimesOut, Handshake!ModernAnswered, Handshake!LegacyAnswered
<1>9. CASE Handshake!Race BY <1>9 DEF Handshake!Race, Handshake!PassedOver
<1> QED
  BY <1>1, <1>2, <1>3, <1>4, <1>5, <1>6, <1>7, <1>8, <1>9 DEF Handshake!Next, Handshake!ClientStep

LEMMA HandshakePhaseStep == ASSUME Handshake!IInv, Handshake!Next PROVE Handshake!PhaseInv'
<1> USE HandshakeReplies
    DEF Handshake!IInv, Handshake!ReplyInv, Handshake!PhaseInv, Handshake!SettledEraIsRight,
        Handshake!MayBeLegacy, Handshake!asks
<1>1. CASE Handshake!ServerStep
  BY <1>1 DEF Handshake!ServerStep, Handshake!AnswerDiscover, Handshake!AnswerInitialize,
     Handshake!ServerExits, Handshake!Exited
<1>2. CASE Handshake!DeadlinePasses BY <1>2 DEF Handshake!DeadlinePasses, Handshake!Late
<1>3. CASE Handshake!Reconnect BY <1>3 DEF Handshake!Reconnect, Handshake!Fresh
<1>4. CASE Handshake!AttemptFailed BY <1>4 DEF Handshake!AttemptFailed, Handshake!Fresh
<1> USE DEF Handshake!Settle, Handshake!Fail, Handshake!AcceptDiscover, Handshake!AcceptInitialize,
            Handshake!LegacyInitialize, Handshake!ModernError, Handshake!Probe
<1>5. CASE Handshake!Begin \/ Handshake!RememberedAnswered
  BY <1>5 DEF Handshake!Begin, Handshake!RememberedAnswered, Handshake!ForceLegacy
<1>6. CASE Handshake!HttpProbed BY <1>6 DEF Handshake!HttpProbed
<1>7. CASE Handshake!StdioProbed
  BY <1>7 DEF Handshake!StdioProbed, Handshake!TypeOK, Handshake!Ends
<1>8. CASE Handshake!ProbeTimesOut \/ Handshake!ModernAnswered \/ Handshake!LegacyAnswered
  BY <1>8 DEF Handshake!ProbeTimesOut, Handshake!ModernAnswered, Handshake!LegacyAnswered
<1>9. CASE Handshake!Race BY <1>9 DEF Handshake!Race, Handshake!PassedOver
<1> QED
  BY <1>1, <1>2, <1>3, <1>4, <1>5, <1>6, <1>7, <1>8, <1>9 DEF Handshake!Next, Handshake!ClientStep

LEMMA HandshakeStep ==
    ASSUME Handshake!IInv, [Handshake!Next]_(Handshake!vars) PROVE Handshake!IInv'
<1>1. CASE Handshake!Next
  BY <1>1, HandshakeTypes, HandshakeReplyStep, HandshakePhaseStep DEF Handshake!IInv
<1>2. CASE UNCHANGED Handshake!vars
  BY <1>2 DEF Handshake!IInv, Handshake!vars, Handshake!asks, Handshake!TypeOK,
     Handshake!ReplyInv, Handshake!PhaseInv, Handshake!SettledEraIsRight, Handshake!MayBeLegacy
<1> QED BY <1>1, <1>2

----------------------------------------------------------------------------
(* Over stdio.                                                             *)

LEMMA StdioInit == ASSUME Stdio!Init PROVE Stdio!IInv
<1> USE ProtocolAssumption DEF Stdio!Init
<1>1. v5 \in BOOLEAN /\ v6 \in BOOLEAN BY Zenon
<1>2. Stdio!TypeOK BY <1>1 DEF Stdio!TypeOK
<1>3. Stdio!EndInv BY DEF Stdio!EndInv, Stdio!NothingLeftBehind
<1>4. Stdio!ClockInv BY DEF Stdio!ClockInv, Stdio!Asking
<1> QED BY <1>2, <1>3, <1>4 DEF Stdio!IInv

LEMMA StdioTypes == ASSUME Stdio!IInv, Stdio!Next PROVE Stdio!TypeOK'
<1> USE ProtocolAssumption
    DEF Stdio!IInv, Stdio!TypeOK, Stdio!requestVars, Stdio!workerVars, Stdio!timeVars, Stdio!Settle
<1>1. CASE Stdio!Tick BY <1>1 DEF Stdio!Tick
<1>2. ASSUME NEW r \in Requests, Stdio!Send(r) PROVE Stdio!TypeOK' BY <1>2 DEF Stdio!Send
<1>3. ASSUME NEW r \in Requests, Stdio!HandleReply(r) PROVE Stdio!TypeOK'
  BY <1>3 DEF Stdio!HandleReply
<1>4. ASSUME NEW r \in Requests, Stdio!HandleProgress(r) PROVE Stdio!TypeOK'
  <2>1. Stdio!Lesser(v12 + Timeout, v13[r] + MaxLifetime) \in Nat BY DEF Stdio!Lesser
  <2> QED BY <1>4, <2>1 DEF Stdio!HandleProgress
<1>5. ASSUME NEW r \in Requests, Stdio!Expire(r) PROVE Stdio!TypeOK' BY <1>5 DEF Stdio!Expire
<1>6. CASE Stdio!BeginClose \/ Stdio!WriteLine \/ Stdio!DropLine \/ Stdio!ServerExits
  BY <1>6 DEF Stdio!BeginClose, Stdio!WriteLine, Stdio!Discarded, Stdio!DropLine, Stdio!ServerExits
<1>7. CASE Stdio!HandleAsk BY <1>7 DEF Stdio!HandleAsk, Stdio!ClockInv
<1>8. CASE Stdio!IoStep
  BY <1>8 DEF Stdio!IoStep, Stdio!SeeExit, Stdio!CloseStdin, Stdio!Signal, Stdio!LadderEnds,
     Stdio!IoEnds
<1>9. CASE Stdio!WorkerTakes \/ Stdio!WorkerEnds BY <1>9 DEF Stdio!WorkerTakes, Stdio!WorkerEnds
<1>10. CASE Stdio!WorkerDone
  <2>1. \A r \in Requests : v14[r] + (v12 - v15) \in Nat BY DEF Stdio!ClockInv
  <2> QED BY <1>10, <2>1 DEF Stdio!WorkerDone
<1> QED
  BY <1>1, <1>2, <1>3, <1>4, <1>5, <1>6, <1>7, <1>8, <1>9, <1>10 DEF Stdio!Next, Stdio!WorkerStep

LEMMA StdioEnds == ASSUME Stdio!IInv, Stdio!Next PROVE Stdio!EndInv'
<1> USE DEF Stdio!IInv, Stdio!TypeOK, Stdio!requestVars, Stdio!EndInv, Stdio!NothingLeftBehind,
            Stdio!Settle
<1>1. ASSUME NEW r \in Requests,
             Stdio!Send(r) \/ Stdio!HandleReply(r) \/ Stdio!HandleProgress(r) \/ Stdio!Expire(r)
      PROVE  Stdio!EndInv'
  BY <1>1 DEF Stdio!Send, Stdio!HandleReply, Stdio!HandleProgress, Stdio!Expire
<1>2. CASE Stdio!IoStep
  BY <1>2 DEF Stdio!IoStep, Stdio!SeeExit, Stdio!CloseStdin, Stdio!Signal, Stdio!LadderEnds,
     Stdio!IoEnds
<1>3. CASE Stdio!Tick \/ Stdio!BeginClose \/ Stdio!WriteLine \/ Stdio!HandleAsk \/ Stdio!DropLine
  BY <1>3 DEF Stdio!Tick, Stdio!BeginClose, Stdio!WriteLine, Stdio!HandleAsk, Stdio!DropLine
<1>4. CASE Stdio!ServerExits \/ Stdio!WorkerStep
  BY <1>4 DEF Stdio!ServerExits, Stdio!WorkerStep, Stdio!WorkerTakes, Stdio!WorkerDone,
     Stdio!WorkerEnds
<1> QED BY <1>1, <1>2, <1>3, <1>4 DEF Stdio!Next

LEMMA StdioClock == ASSUME Stdio!IInv, Stdio!Next PROVE Stdio!ClockInv'
<1> USE ProtocolAssumption
    DEF Stdio!IInv, Stdio!TypeOK, Stdio!ClockInv, Stdio!Asking,
        Stdio!Interacting, Stdio!requestVars, Stdio!workerVars, Stdio!timeVars, Stdio!Settle
<1>1. CASE Stdio!Tick BY <1>1 DEF Stdio!Tick
<1>2. ASSUME NEW r \in Requests, Stdio!Send(r) PROVE Stdio!ClockInv'
  BY <1>2 DEF Stdio!Send, Stdio!Unsent
<1>3. ASSUME NEW r \in Requests, Stdio!HandleReply(r) PROVE Stdio!ClockInv'
  BY <1>3 DEF Stdio!HandleReply
<1>4. ASSUME NEW r \in Requests, Stdio!HandleProgress(r) PROVE Stdio!ClockInv'
  BY <1>4 DEF Stdio!HandleProgress, Stdio!Lesser
<1>5. ASSUME NEW r \in Requests, Stdio!Expire(r) PROVE Stdio!ClockInv'
  BY <1>5 DEF Stdio!Expire, Stdio!Late
<1>6. CASE Stdio!BeginClose \/ Stdio!WriteLine \/ Stdio!DropLine \/ Stdio!ServerExits
  BY <1>6 DEF Stdio!BeginClose, Stdio!WriteLine, Stdio!Discarded, Stdio!DropLine, Stdio!ServerExits
<1>7. CASE Stdio!HandleAsk BY <1>7 DEF Stdio!HandleAsk
<1>8. CASE Stdio!IoStep
  BY <1>8 DEF Stdio!IoStep, Stdio!SeeExit, Stdio!CloseStdin, Stdio!Signal, Stdio!LadderEnds,
     Stdio!IoEnds
<1>9. CASE Stdio!WorkerTakes \/ Stdio!WorkerEnds BY <1>9 DEF Stdio!WorkerTakes, Stdio!WorkerEnds
<1>10. CASE Stdio!WorkerDone BY <1>10 DEF Stdio!WorkerDone
<1> QED
  BY <1>1, <1>2, <1>3, <1>4, <1>5, <1>6, <1>7, <1>8, <1>9, <1>10 DEF Stdio!Next, Stdio!WorkerStep

LEMMA StdioStep == ASSUME Stdio!IInv, [Stdio!Next]_(Stdio!vars) PROVE Stdio!IInv'
<1>1. CASE Stdio!Next BY <1>1, StdioTypes, StdioEnds, StdioClock DEF Stdio!IInv
<1>2. CASE UNCHANGED Stdio!vars
  BY <1>2 DEF Stdio!IInv, Stdio!vars, Stdio!requestVars, Stdio!workerVars, Stdio!timeVars,
     Stdio!TypeOK, Stdio!EndInv, Stdio!NothingLeftBehind, Stdio!ClockInv,
     Stdio!Asking, Stdio!Interacting
<1> QED BY <1>1, <1>2

\* A request that times out had its time, while nobody was asked.
LEMMA StdioTimedOut == ASSUME Stdio!IInv, Stdio!Next PROVE Stdio!TimedOutForItsOwnTime
<1> USE ProtocolAssumption
    DEF Stdio!IInv, Stdio!TypeOK, Stdio!TimedOutForItsOwnTime, Stdio!Settle, Stdio!requestVars
<1>1. ASSUME NEW r \in Requests, Stdio!Expire(r) PROVE Stdio!TimedOutForItsOwnTime
  BY <1>1 DEF Stdio!Expire, Stdio!Late, Stdio!ClockInv, Stdio!Asking
<1>2. ASSUME NEW r \in Requests,
             Stdio!Send(r) \/ Stdio!HandleReply(r) \/ Stdio!HandleProgress(r)
      PROVE  Stdio!TimedOutForItsOwnTime
  BY <1>2 DEF Stdio!Send, Stdio!HandleReply, Stdio!HandleProgress
<1>3. CASE Stdio!DropLine \/ Stdio!CloseStdin \/ Stdio!IoEnds
  BY <1>3 DEF Stdio!DropLine, Stdio!CloseStdin, Stdio!IoEnds
<1>4. CASE UNCHANGED v4 BY <1>4
<1> QED
  BY <1>1, <1>2, <1>3, <1>4
  DEF Stdio!Next, Stdio!Tick, Stdio!BeginClose, Stdio!WriteLine, Stdio!HandleAsk,
      Stdio!ServerExits, Stdio!IoStep, Stdio!SeeExit, Stdio!Signal, Stdio!LadderEnds,
      Stdio!WorkerStep, Stdio!WorkerTakes, Stdio!WorkerDone, Stdio!WorkerEnds

----------------------------------------------------------------------------
(* Over HTTP.                                                              *)

LEMMA HttpBounds ==
    /\ Timeout \in Nat /\ MaxLifetime \in Nat /\ MaxResumes \in Nat
    /\ MaxTime \in Nat /\ MaxAsks \in Nat
BY ProtocolAssumption

LEMMA HttpInit == ASSUME Http!Init PROVE Http!IInv
<1> USE HttpBounds DEF Http!Init
<1>1. v2 \in BOOLEAN /\ v3 \in BOOLEAN /\ v4 \in BOOLEAN /\ v11 \in BOOLEAN BY Zenon
<1>2. Http!TypeOK BY <1>1 DEF Http!TypeOK, Http!Replies
<1>3. Http!RunInv /\ Http!CloseInv
  BY DEF Http!RunInv, Http!RunsOnce, Http!CloseInv, Http!ClosedIsQuiet
<1>4. Http!ClockInv BY DEF Http!ClockInv, Http!Asking, Http!Waiting
<1> QED BY <1>2, <1>3, <1>4 DEF Http!IInv

HttpRequests ==
    [at : {"idle", "post", "get", "pause", "telling", "done"}, reply : Http!Replies,
     renewed : BOOLEAN, resumes : 0..MaxResumes, eventId : BOOLEAN]

HttpServers == [runs : Nat, running : BOOLEAN, heard : BOOLEAN]

\* What becomes of the request in any step keeps its type.
LEMMA HttpRequestType ==
    ASSUME Http!IInv, Http!Next PROVE v5' \in HttpRequests
<1> USE HttpBounds DEF Http!IInv, Http!TypeOK, HttpRequests
<1>1. ASSUME NEW reply \in Http!Replies
      PROVE  /\ Http!Finish(reply) => v5' \in HttpRequests
             /\ Http!GiveUp(reply) => v5' \in HttpRequests
  BY DEF Http!Finish, Http!GiveUp
<1>2. {"ok", "exited", "auth", "expired", "failed", "ended", "late", "cancelled"} \subseteq Http!Replies
  BY DEF Http!Replies
<1>3. CASE Http!Send BY <1>1, <1>2, <1>3 DEF Http!Send
<1>4. CASE Http!Unauthorized BY <1>1, <1>2, <1>4 DEF Http!Unauthorized
<1>5. CASE Http!Progress BY <1>5 DEF Http!Progress
<1>6. CASE Http!StreamEnds BY <1>1, <1>2, <1>6 DEF Http!StreamEnds
<1>7. CASE Http!RetryDue
  <2>1. v5.resumes < MaxResumes BY <1>7 DEF Http!RetryDue, Http!RunInv
  <2>2. v5' = [v5 EXCEPT !.at = "get", !.resumes = v5.resumes + 1]
    BY <1>7 DEF Http!RetryDue, Http!Resume
  <2>3. v5.resumes + 1 \in 0..MaxResumes BY <2>1
  <2> QED BY <2>2, <2>3
<1>8. CASE Http!Answered \/ Http!SessionGone \/ Http!Failed \/ Http!StopsForClose
  BY <1>1, <1>2, <1>8 DEF Http!Answered, Http!SessionGone, Http!Failed, Http!StopsForClose
<1>9. CASE Http!Expires \/ Http!Cancelled BY <1>1, <1>2, <1>9 DEF Http!Expires, Http!Cancelled
<1>10. CASE Http!CancelOnWire BY <1>10 DEF Http!CancelOnWire
<1>11. CASE UNCHANGED v5 BY <1>11
<1> QED
  BY <1>3, <1>4, <1>5, <1>6, <1>7, <1>8, <1>9, <1>10, <1>11
  DEF Http!Next, Http!ServerStep, Http!Local, Http!Worker, Http!Tick, Http!ServerRuns,
      Http!ServerAsks, Http!ListenEnds, Http!DeleteSession, Http!WaitClosed,
      Http!WorkerTakes, Http!PersonAnswers, Http!WorkerPosted, Http!WorkerEnds, Http!Listen,
      Http!BeginClose

LEMMA HttpTypeKept ==
    ASSUME Http!TypeOK, v4' \in BOOLEAN, v5' \in HttpRequests, v6' \in HttpServers,
           UNCHANGED <<v1, v2, Http!closing, Http!working, Http!timing>>
    PROVE  Http!TypeOK'
BY DEF Http!TypeOK, HttpRequests, HttpServers, Http!closing, Http!working, Http!timing

LEMMA HttpTypes == ASSUME Http!IInv, Http!Next PROVE Http!TypeOK'
<1>1. v5' \in HttpRequests BY HttpRequestType
<1> USE HttpBounds DEF Http!IInv, Http!TypeOK, Http!closing, Http!working, Http!timing
<1>2. CASE Http!Tick BY <1>1, <1>2 DEF HttpRequests, Http!Tick, Http!ClockInv
<1>3. CASE Http!Send BY <1>1, <1>3 DEF HttpRequests, Http!Send
<1>4. CASE Http!ServerStep
  <2>1. CASE Http!ServerRuns
    <3>1. v6' = [v6 EXCEPT !.runs = v6.runs + 1, !.running = TRUE] BY <2>1 DEF Http!ServerRuns
    <3>2. v6 \in HttpServers /\ v6.runs + 1 \in Nat BY DEF HttpServers
    <3>3. v6' \in HttpServers BY ONLY <3>1, <3>2 DEF HttpServers
    <3>4. v4' \in BOOLEAN /\ UNCHANGED <<v1, v2, Http!closing, Http!working, Http!timing>>
      BY <2>1 DEF Http!ServerRuns
    <3> QED BY <1>1, <3>3, <3>4, HttpTypeKept
  <2>2. CASE Http!Progress BY <1>1, <2>2 DEF HttpRequests, Http!Progress, Http!ClockInv
  <2>3. CASE Http!ServerAsks BY <1>1, <2>3 DEF HttpRequests, Http!ServerAsks, Http!ClockInv
  <2>4. CASE Http!Answered \/ Http!ListenEnds
    <3>1. v6 \in HttpServers BY DEF HttpServers
    <3>2. \/ v6' = [v6 EXCEPT !.running = FALSE]
          \/ v6' = [v6 EXCEPT !.heard = FALSE]
      BY <2>4 DEF Http!Answered, Http!ListenEnds
    <3>3. v6' \in HttpServers BY ONLY <3>1, <3>2 DEF HttpServers
    <3>4. v4' \in BOOLEAN /\ UNCHANGED <<v1, v2, Http!closing, Http!working, Http!timing>>
      BY <2>4 DEF Http!Answered, Http!ListenEnds
    <3> QED BY <1>1, <3>3, <3>4, HttpTypeKept
  <2>5. CASE Http!Unauthorized \/ Http!SessionGone \/ Http!Failed \/ Http!StreamEnds
    <3>1. UNCHANGED <<v1, v2, v6, Http!closing, Http!working, Http!timing>>
      BY <2>5 DEF Http!Unauthorized, Http!SessionGone, Http!Failed, Http!StreamEnds
    <3>2. v4' \in BOOLEAN
      BY <2>5 DEF Http!Unauthorized, Http!SessionGone, Http!Failed, Http!StreamEnds
    <3>3. v6' \in HttpServers BY <3>1 DEF HttpServers
    <3> QED BY <1>1, <3>1, <3>2, <3>3, HttpTypeKept
  <2> QED BY <1>4, <2>1, <2>2, <2>3, <2>4, <2>5 DEF Http!ServerStep
<1>5. CASE Http!Local
  BY <1>1, <1>5 DEF HttpRequests, Http!Local, Http!StopsForClose, Http!ListenEnds,
     Http!CancelOnWire, Http!DeleteSession, Http!WaitClosed
<1>6. CASE Http!Worker
  BY <1>1, <1>6 DEF HttpRequests, Http!Worker, Http!WorkerTakes, Http!PersonAnswers,
     Http!WorkerPosted, Http!WorkerEnds, Http!Asking, Http!ClockInv
<1>7. CASE Http!Listen \/ Http!RetryDue \/ Http!Expires \/ Http!Cancelled \/ Http!BeginClose
  BY <1>1, <1>7 DEF HttpRequests, Http!Listen, Http!RetryDue, Http!Resume, Http!Expires,
     Http!Cancelled, Http!GiveUp, Http!BeginClose
<1> QED BY <1>2, <1>3, <1>4, <1>5, <1>6, <1>7 DEF Http!Next

LEMMA HttpRun == ASSUME Http!IInv, Http!Next PROVE Http!RunInv'
<1> USE HttpBounds DEF Http!IInv, Http!TypeOK, Http!RunInv, Http!RunsOnce, Http!Finish, Http!OnWire,
            Http!Waiting
<1>1. CASE Http!ServerStep
  <2>1. CASE Http!ServerRuns BY <2>1 DEF Http!ServerRuns
  <2>2. CASE Http!Answered \/ Http!SessionGone \/ Http!Failed
    BY <2>2 DEF Http!Answered, Http!SessionGone, Http!Failed
  <2>3. CASE Http!Unauthorized BY <2>3 DEF Http!Unauthorized
  <2>4. CASE Http!Progress BY <2>4 DEF Http!Progress
  <2>5. CASE Http!StreamEnds BY <2>5 DEF Http!StreamEnds
  <2>6. CASE Http!ServerAsks \/ Http!ListenEnds BY <2>6 DEF Http!ServerAsks, Http!ListenEnds
  <2> QED BY <1>1, <2>1, <2>2, <2>3, <2>4, <2>5, <2>6 DEF Http!ServerStep
<1>2. CASE Http!Local
  BY <1>2 DEF Http!Local, Http!StopsForClose, Http!ListenEnds, Http!CancelOnWire,
     Http!DeleteSession, Http!WaitClosed
<1>3. CASE Http!Send \/ Http!RetryDue \/ Http!Expires \/ Http!Cancelled
  <2>1. CASE Http!Send BY <2>1 DEF Http!Send
  <2>2. CASE Http!RetryDue BY <2>2 DEF Http!RetryDue, Http!Resume
  <2>3. CASE Http!Expires BY <2>3 DEF Http!Expires, Http!GiveUp
  <2>4. CASE Http!Cancelled BY <2>4 DEF Http!Cancelled, Http!GiveUp
  <2> QED BY <1>3, <2>1, <2>2, <2>3, <2>4
<1>4. CASE Http!Tick \/ Http!Listen \/ Http!Worker \/ Http!BeginClose
  BY <1>4 DEF Http!Tick, Http!Listen, Http!Worker, Http!WorkerTakes, Http!PersonAnswers,
     Http!WorkerPosted, Http!WorkerEnds, Http!BeginClose
<1> QED BY <1>1, <1>2, <1>3, <1>4 DEF Http!Next

LEMMA HttpClose == ASSUME Http!IInv, Http!Next PROVE Http!CloseInv'
<1> USE DEF Http!IInv, Http!TypeOK, Http!CloseInv, Http!ClosedIsQuiet, Http!InFlight, Http!Finish,
            Http!OnWire, Http!Waiting, Http!Alive, Http!closing, Http!working
<1>1. CASE Http!ServerStep
  BY <1>1 DEF Http!ServerStep, Http!ServerRuns, Http!Answered, Http!Unauthorized, Http!SessionGone,
     Http!Failed, Http!Progress, Http!ServerAsks, Http!StreamEnds, Http!ListenEnds
<1>2. CASE Http!Local
  BY <1>2 DEF Http!Local, Http!StopsForClose, Http!ListenEnds, Http!CancelOnWire,
     Http!DeleteSession, Http!WaitClosed
<1>3. CASE Http!Send BY <1>3 DEF Http!Send
<1>4. CASE Http!RetryDue \/ Http!Expires \/ Http!Cancelled
  BY <1>4 DEF Http!RetryDue, Http!Resume, Http!Expires, Http!Cancelled, Http!GiveUp
<1>5. CASE Http!Tick \/ Http!Listen \/ Http!Worker \/ Http!BeginClose
  BY <1>5 DEF Http!Tick, Http!Listen, Http!Worker, Http!WorkerTakes, Http!PersonAnswers,
     Http!WorkerPosted, Http!WorkerEnds, Http!BeginClose
<1> QED BY <1>1, <1>2, <1>3, <1>4, <1>5 DEF Http!Next

LEMMA HttpClock == ASSUME Http!IInv, Http!Next PROVE Http!ClockInv'
<1> USE HttpBounds DEF Http!IInv, Http!TypeOK, Http!ClockInv, Http!Asking, Http!Credit, Http!OnWire,
            Http!Waiting, Http!Finish, Http!timing, Http!working
<1>1. CASE Http!Tick BY <1>1 DEF Http!Tick
<1>2. CASE Http!Send
  <2>1. CASE Http!Alive
    <3>1. v13' = [started |-> v12, deadline |-> v12 + Timeout, pausedAtStart |-> v14]
      BY <1>2, <2>1 DEF Http!Send
    <3>2. UNCHANGED <<v7, v8, v9, v12, v14, v15, v16, v17>> BY <1>2 DEF Http!Send
    <3>3. v13'.started = v12 /\ v13'.deadline = v12 + Timeout /\ v13'.pausedAtStart = v14
      BY <3>1
    <3>4. v13' \in [started : Nat, deadline : Nat, pausedAtStart : Nat] BY <3>1
    <3> QED BY <3>2, <3>3, <3>4
  <2>2. CASE ~Http!Alive BY <1>2, <2>2 DEF Http!Send
  <2> QED BY <2>1, <2>2
<1>3. CASE Http!Progress BY <1>3 DEF Http!Progress, Http!Lesser
<1>4. CASE Http!ServerStep /\ ~Http!Progress
  BY <1>4 DEF Http!ServerStep, Http!ServerRuns, Http!Answered, Http!Unauthorized, Http!SessionGone,
     Http!Failed, Http!ServerAsks, Http!StreamEnds, Http!ListenEnds
<1>5. CASE Http!Local
  BY <1>5 DEF Http!Local, Http!StopsForClose, Http!ListenEnds, Http!CancelOnWire,
     Http!DeleteSession, Http!WaitClosed
<1>6. CASE Http!Worker
  BY <1>6 DEF Http!Worker, Http!WorkerTakes, Http!PersonAnswers, Http!WorkerPosted, Http!WorkerEnds
<1>7. CASE Http!Listen \/ Http!RetryDue \/ Http!Expires \/ Http!Cancelled \/ Http!BeginClose
  BY <1>7 DEF Http!Listen, Http!RetryDue, Http!Resume, Http!Expires, Http!Cancelled, Http!GiveUp,
     Http!BeginClose
<1> QED BY <1>1, <1>2, <1>3, <1>4, <1>5, <1>6, <1>7 DEF Http!Next

LEMMA HttpStep == ASSUME Http!IInv, [Http!Next]_(Http!vars) PROVE Http!IInv'
<1>1. CASE Http!Next
  BY <1>1, HttpTypes, HttpRun, HttpClose, HttpClock DEF Http!IInv
<1>2. CASE UNCHANGED Http!vars
  <2> USE <1>2 DEF Http!IInv, Http!vars, Http!closing, Http!working, Http!timing
  <2>1. Http!TypeOK' BY DEF Http!TypeOK
  <2>2. Http!RunInv' BY DEF Http!RunInv, Http!RunsOnce
  <2>3. Http!CloseInv' BY DEF Http!CloseInv, Http!ClosedIsQuiet, Http!InFlight
  <2>4. Http!ClockInv' BY DEF Http!ClockInv, Http!Asking, Http!Credit, Http!Waiting
  <2> QED BY <2>1, <2>2, <2>3, <2>4
<1> QED BY <1>1, <1>2

\* A request that times out had its time: what it was credited was not its own.
LEMMA HttpTimedOut == ASSUME Http!IInv, Http!Next PROVE Http!TimedOutForItsOwnTime
<1> USE HttpBounds DEF Http!IInv, Http!TypeOK, Http!TimedOutForItsOwnTime, Http!Finish
<1>1. CASE Http!Expires
  BY <1>1 DEF Http!Expires, Http!GiveUp, Http!Late, Http!ClockInv, Http!Credit, Http!Asking
<1>2. CASE Http!Send \/ Http!RetryDue \/ Http!Cancelled \/ Http!CancelOnWire \/ Http!StopsForClose
  BY <1>2 DEF Http!Send, Http!RetryDue, Http!Resume, Http!Cancelled, Http!GiveUp,
     Http!CancelOnWire, Http!StopsForClose
<1>3. CASE Http!Answered \/ Http!Unauthorized \/ Http!SessionGone \/ Http!Failed
  BY <1>3 DEF Http!Answered, Http!Unauthorized, Http!SessionGone, Http!Failed
<1>4. CASE Http!Progress \/ Http!StreamEnds BY <1>4 DEF Http!Progress, Http!StreamEnds
<1>5. CASE UNCHANGED v5 BY <1>5
<1> QED
  BY <1>1, <1>2, <1>3, <1>4, <1>5
  DEF Http!Next, Http!ServerStep, Http!Local, Http!Worker, Http!Tick, Http!ServerRuns,
      Http!ServerAsks, Http!ListenEnds, Http!DeleteSession, Http!WaitClosed,
      Http!WorkerTakes, Http!PersonAnswers, Http!WorkerPosted, Http!WorkerEnds, Http!Listen,
      Http!BeginClose

----------------------------------------------------------------------------
(* The start of a server's process.                                        *)

LEMMA ProcessInit == ASSUME Process!Init PROVE Process!IInv
<1> USE DEF Process!Init
<1>1. \A s \in Spawned : v3[s][1] = "pipe" /\ v3[s][2] = 1 OBVIOUS
<1>2. Process!TypeOK BY <1>1 DEF Process!TypeOK
<1>3. \A fd \in Process!Fds, marked \in BOOLEAN : ~Process!IsOpen(fd, marked)
  BY <1>1 DEF Process!IsOpen, Process!Fds, Process!Pipes
<1>4. Process!FdInv BY <1>3 DEF Process!FdInv
<1>5. v3 \in [Spawned -> Process!Places \X (0..3)] BY DEF Process!Places
<1>6. Process!ChildInv BY <1>1, <1>5 DEF Process!ChildInv, Process!Pipes
<1> QED BY <1>2, <1>4, <1>6 DEF Process!IInv

\* Of all descriptors, those m8 has.
LEMMA ProcessHas ==
    ASSUME Process!IInv
    PROVE  /\ \A f \in v2 : f.fd \in Process!Fds /\ f.cloexec \in BOOLEAN
                            /\ f = [fd |-> f.fd, cloexec |-> f.cloexec]
           /\ \A fd \in Process!Fds, marked \in BOOLEAN :
                 [fd |-> fd, cloexec |-> marked] \in v2 <=> Process!IsOpen(fd, marked)
           /\ \A f \in v2 : Process!IsOpen(f.fd, f.cloexec)
BY DEF Process!IInv, Process!FdInv

\* How far a start is.
LEMMA ProcessPlaces ==
    ASSUME Process!IInv, NEW s \in Spawned
    PROVE  /\ v3[s] = <<v3[s][1], v3[s][2]>>
           /\ v3[s][1] \in Process!Places /\ v3[s][2] \in 0..3
           /\ v3[s][1] \in {"pipe", "mark"} => v3[s][2] \in 1..3
BY DEF Process!IInv, Process!ChildInv, Process!Pipes

\* Where nothing is open unmarked, a child inherits nothing.
LEMMA ProcessInherits ==
    ASSUME Process!IInv
    PROVE  /\ Process!Inherited \subseteq Process!Fds
           /\ v1.atomic => Process!Inherited = {}
<1>1. Process!Inherited \subseteq Process!Fds
  BY ProcessHas DEF Process!Inherited, Process!Bare
<1>2. ASSUME v1.atomic, NEW f \in v2 PROVE f.cloexec
  <2>1. f.fd \in Process!Fds /\ Process!IsOpen(f.fd, f.cloexec) /\ f.cloexec \in BOOLEAN BY ProcessHas
  <2>2. f.fd.of \in Spawned BY <2>1 DEF Process!Fds
  <2>3. v3[f.fd.of][1] # "mark" BY <1>2, <2>2 DEF Process!IInv, Process!ChildInv
  <2> QED BY <2>1, <2>3 DEF Process!IsOpen
<1> QED BY <1>1, <1>2 DEF Process!Inherited, Process!Bare

\* The files m8 has follow the places, step by step.
LEMMA ProcessFiles ==
    ASSUME Process!IInv,
           NEW s \in Spawned, v3' \in [Spawned -> Process!Places \X (0..3)],
           \A t \in Spawned : t # s => v3'[t] = v3[t],
           \A f \in v2' : f \in [fd : Process!Fds, cloexec : BOOLEAN],
           \A fd \in Process!Fds, marked \in BOOLEAN :
              IF fd.of = s
              THEN [fd |-> fd, cloexec |-> marked] \in v2' <=> Process!IsOpen(fd, marked)'
              ELSE [fd |-> fd, cloexec |-> marked] \in v2' <=> [fd |-> fd, cloexec |-> marked] \in v2
    PROVE  Process!FdInv'
<1>1. \A fd \in Process!Fds, marked \in BOOLEAN :
         [fd |-> fd, cloexec |-> marked] \in v2' <=> Process!IsOpen(fd, marked)'
  <2> SUFFICES ASSUME NEW fd \in Process!Fds, NEW marked \in BOOLEAN, fd.of # s
               PROVE  [fd |-> fd, cloexec |-> marked] \in v2 <=> Process!IsOpen(fd, marked)'
    OBVIOUS
  <2>1. fd.of \in Spawned BY DEF Process!Fds
  <2>2. v3'[fd.of] = v3[fd.of] BY <2>1
  <2>3. Process!IsOpen(fd, marked)' <=> Process!IsOpen(fd, marked) BY <2>2 DEF Process!IsOpen
  <2> QED BY <2>3, ProcessHas
<1>2. ASSUME NEW f \in [fd : Process!Fds, cloexec : BOOLEAN]
      PROVE  f \in v2' <=> Process!IsOpen(f.fd, f.cloexec)'
  BY <1>1
<1> QED BY <1>2 DEF Process!FdInv

\* Two descriptors of one server differ in pipe or end.
LEMMA ProcessFd ==
    /\ \A s \in Spawned, p \in 1..3, e \in {"read", "write"} :
          /\ Process!Fd(s, p, e) \in Process!Fds
          /\ Process!Fd(s, p, e).of = s /\ Process!Fd(s, p, e).pipe = p
          /\ Process!Fd(s, p, e).end = e
    /\ \A fd \in Process!Fds : /\ fd = Process!Fd(fd.of, fd.pipe, fd.end)
                               /\ fd.of \in Spawned /\ fd.pipe \in 1..3
                               /\ fd.end \in {"read", "write"}
BY DEF Process!Fd, Process!Fds, Process!Pipes, Process!Ends

LEMMA ProcessBuild == ASSUME Process!IInv PROVE v1.atomic \in BOOLEAN
<1>1. v1 \in SomeBuilds BY DEF Process!IInv, Process!TypeOK
<1>2. CASE v1 \in [atomic : BOOLEAN, clears : {TRUE}] BY <1>2
<1>3. CASE v1 = [atomic |-> TRUE, clears |-> FALSE] BY Zenon, <1>3
<1> QED BY <1>1, <1>2, <1>3 DEF SomeBuilds

LEMMA ProcessMakesPipe ==
    ASSUME Process!IInv, NEW s \in Spawned, Process!MakePipe(s) PROVE Process!FdInv' /\ Process!ChildInv'
<1>1. PICK n \in 1..3 : v3[s] = <<"pipe", n>>
  BY ProcessPlaces DEF Process!MakePipe
<1>2. PICK at \in Process!Places \X (0..3) :
         /\ at = IF ~v1.atomic THEN <<"mark", n>>
                 ELSE IF n = 3 THEN <<"spawn", 0>> ELSE <<"pipe", n + 1>>
         /\ v3' = [v3 EXCEPT ![s] = at]
  <2> DEFINE at == IF ~v1.atomic THEN <<"mark", n>>
                   ELSE IF n = 3 THEN <<"spawn", 0>> ELSE <<"pipe", n + 1>>
  <2>1. at \in Process!Places \X (0..3) BY DEF Process!Places
  <2>2. v3' = [v3 EXCEPT ![s] = at] BY <1>1 DEF Process!MakePipe
  <2> QED BY <2>1, <2>2
<1>3. v3 \in [Spawned -> Process!Places \X (0..3)] BY DEF Process!IInv, Process!ChildInv
<1>4. v3' \in [Spawned -> Process!Places \X (0..3)] /\ v3'[s] = at
      /\ \A t \in Spawned : t # s => v3'[t] = v3[t]
  BY <1>2, <1>3
<1>5. v2' = v2 \cup {[fd |-> Process!Fd(s, n, e), cloexec |-> v1.atomic] : e \in {"read", "write"}}
      /\ v1' = v1
  BY <1>1 DEF Process!MakePipe, Process!Ends
<1>6. v1.atomic \in BOOLEAN BY ProcessBuild
<1>7. ASSUME NEW fd \in Process!Fds, NEW marked \in BOOLEAN, fd.of = s
      PROVE  [fd |-> fd, cloexec |-> marked] \in v2' <=> Process!IsOpen(fd, marked)'
  <2>1. [fd |-> fd, cloexec |-> marked] \in v2 <=> marked /\ fd.pipe < n
    BY <1>1, <1>7, ProcessHas DEF Process!IsOpen
  <2>2. [fd |-> fd, cloexec |-> marked] \in v2'
           <=> (marked /\ fd.pipe < n) \/ (fd.pipe = n /\ marked = v1.atomic)
    BY <1>5, <1>7, <2>1, ProcessFd
  <2>3. Process!IsOpen(fd, marked)' <=> (marked /\ fd.pipe < n) \/ (fd.pipe = n /\ marked = v1.atomic)
    <3>1. fd.pipe \in 1..3 BY ProcessFd
    <3> QED BY <1>2, <1>4, <1>6, <1>7, <3>1 DEF Process!IsOpen
  <2> QED BY <2>2, <2>3
<1>8. \A f \in v2' : f \in [fd : Process!Fds, cloexec : BOOLEAN] BY <1>5, <1>6, ProcessHas, ProcessFd
<1>9. Process!FdInv'
  <2>1. ASSUME NEW fd \in Process!Fds, NEW marked \in BOOLEAN, fd.of # s
        PROVE  [fd |-> fd, cloexec |-> marked] \in v2' <=> [fd |-> fd, cloexec |-> marked] \in v2
    BY <1>5, <2>1, ProcessFd
  <2> QED BY <1>4, <1>7, <1>8, <2>1, ProcessFiles
<1>10. Process!ChildInv'
  BY <1>2, <1>4, <1>5 DEF Process!IInv, Process!ChildInv, Process!MakePipe, Process!Pipes
<1> QED BY <1>9, <1>10

LEMMA ProcessMarks ==
    ASSUME Process!IInv, NEW s \in Spawned, Process!SetCloexec(s) PROVE Process!FdInv' /\ Process!ChildInv'
<1>1. PICK n \in 1..3 : v3[s] = <<"mark", n>>
  BY ProcessPlaces DEF Process!SetCloexec
<1>2. PICK at \in Process!Places \X (0..3) :
         /\ at = IF n = 3 THEN <<"spawn", 0>> ELSE <<"pipe", n + 1>>
         /\ v3' = [v3 EXCEPT ![s] = at]
  <2> DEFINE at == IF n = 3 THEN <<"spawn", 0>> ELSE <<"pipe", n + 1>>
  <2>1. at \in Process!Places \X (0..3) BY DEF Process!Places
  <2>2. v3' = [v3 EXCEPT ![s] = at] BY <1>1 DEF Process!SetCloexec
  <2> QED BY <2>1, <2>2
<1>3. v3 \in [Spawned -> Process!Places \X (0..3)] BY DEF Process!IInv, Process!ChildInv
<1>4. v3' \in [Spawned -> Process!Places \X (0..3)] /\ v3'[s] = at
      /\ \A t \in Spawned : t # s => v3'[t] = v3[t]
  BY <1>2, <1>3
<1> DEFINE Marked(f) == IF f.fd.of = s THEN [f EXCEPT !.cloexec = TRUE] ELSE f
<1>5. v1' = v1 /\ v2' = {Marked(f) : f \in v2}
  BY DEF Process!SetCloexec
<1>6. ASSUME NEW f \in v2
      PROVE  /\ f.fd.of = s => Marked(f) = [fd |-> f.fd, cloexec |-> TRUE]
             /\ f.fd.of # s => Marked(f) = f
             /\ Marked(f) \in [fd : Process!Fds, cloexec : BOOLEAN]
             /\ Marked(f).fd = f.fd
  <2>1. f.fd \in Process!Fds /\ f.cloexec \in BOOLEAN /\ f = [fd |-> f.fd, cloexec |-> f.cloexec]
    BY ProcessHas
  <2>2. f \in [fd : Process!Fds, cloexec : BOOLEAN] BY <2>1
  <2>3. \A t : [f EXCEPT !.cloexec = t] = [fd |-> f.fd, cloexec |-> t] BY <2>2
  <2>4. [f EXCEPT !.cloexec = TRUE] = [fd |-> f.fd, cloexec |-> TRUE] BY Zenon, <2>3
  <2> QED BY <2>1, <2>2, <2>4
<1> HIDE DEF Marked
<1>7. /\ \A f \in v2 : Marked(f) \in v2'
      /\ \A g \in v2' : \E f \in v2 : g = Marked(f)
  BY <1>5
<1>8. \A f \in v2' : f \in [fd : Process!Fds, cloexec : BOOLEAN]
  BY <1>6, <1>7
<1>9. ASSUME NEW fd \in Process!Fds, NEW marked \in BOOLEAN, fd.of = s
      PROVE  [fd |-> fd, cloexec |-> marked] \in v2' <=> Process!IsOpen(fd, marked)'
  <2>1. \A m \in BOOLEAN : [fd |-> fd, cloexec |-> m] \in v2
                           <=> IF m THEN fd.pipe < n ELSE fd.pipe = n
    BY <1>1, <1>9, ProcessHas DEF Process!IsOpen
  <2>2. ASSUME [fd |-> fd, cloexec |-> marked] \in v2'
        PROVE  marked /\ \E m \in BOOLEAN : [fd |-> fd, cloexec |-> m] \in v2
    <3>1. PICK f \in v2 : [fd |-> fd, cloexec |-> marked] = Marked(f) BY <1>7, <2>2
    <3>2. fd = f.fd BY <1>6, <3>1
    <3>3. Marked(f) = [fd |-> f.fd, cloexec |-> TRUE] BY <1>6, <1>9, <3>2
    <3>4. marked BY <3>1, <3>3
    <3>5. f.cloexec \in BOOLEAN /\ [fd |-> fd, cloexec |-> f.cloexec] \in v2 BY <3>2, ProcessHas
    <3> QED BY <3>4, <3>5
  <2>3. ASSUME marked, NEW m \in BOOLEAN, [fd |-> fd, cloexec |-> m] \in v2
        PROVE  [fd |-> fd, cloexec |-> marked] \in v2'
    BY <1>6, <1>7, <1>9, <2>3
  <2>4. fd.pipe \in 1..3 BY ProcessFd
  <2>5. Process!IsOpen(fd, marked)' <=> marked /\ fd.pipe <= n
    BY <1>2, <1>4, <1>9, <2>4 DEF Process!IsOpen
  <2>6. fd.pipe <= n <=> \E m \in BOOLEAN : [fd |-> fd, cloexec |-> m] \in v2
    <3>1. (\E t \in BOOLEAN : t) /\ (\E u \in BOOLEAN : ~u) BY Zenon
    <3>2. PICK t \in BOOLEAN, u \in BOOLEAN : t /\ ~u BY <3>1
    <3>3. fd.pipe < n => [fd |-> fd, cloexec |-> t] \in v2 BY <2>1, <3>2
    <3>4. fd.pipe = n => [fd |-> fd, cloexec |-> u] \in v2 BY <2>1, <3>2
    <3>5. ASSUME NEW m \in BOOLEAN, [fd |-> fd, cloexec |-> m] \in v2 PROVE fd.pipe <= n
      BY <2>1, <2>4, <3>5
    <3>6. fd.pipe <= n => fd.pipe < n \/ fd.pipe = n BY <2>4
    <3> QED BY <3>3, <3>4, <3>5, <3>6
  <2> QED BY <2>2, <2>3, <2>5, <2>6
<1>10. Process!FdInv'
  <2>1. ASSUME NEW fd \in Process!Fds, NEW marked \in BOOLEAN, fd.of # s
        PROVE  [fd |-> fd, cloexec |-> marked] \in v2' <=> [fd |-> fd, cloexec |-> marked] \in v2
    BY <1>6, <1>7, <2>1
  <2> QED BY <1>4, <1>8, <1>9, <2>1, ProcessFiles
<1>11. Process!ChildInv'
  BY <1>2, <1>4, <1>5 DEF Process!IInv, Process!ChildInv, Process!SetCloexec, Process!Pipes
<1> QED BY <1>10, <1>11

\* A step that closes descriptors of one server, and opens none.
LEMMA ProcessCloses ==
    ASSUME Process!IInv, NEW s \in Spawned, NEW at \in Process!Places \X (0..3),
           at[1] \notin {"pipe", "mark"}, v3' = [v3 EXCEPT ![s] = at], v1' = v1,
           \A f \in v2' : f \in v2,
           \A f \in v2 : f.fd.of # s => f \in v2',
           \A fd \in Process!Fds, marked \in BOOLEAN : fd.of = s =>
              ([fd |-> fd, cloexec |-> marked] \in v2' <=> Process!IsOpen(fd, marked)'),
           v4' \in [Spawned -> SUBSET Process!Fds], v5' \in [Others -> SUBSET Process!Fds],
           v1.atomic => \A u \in Spawned :
              /\ \A t \in Spawned : Process!Fd(u, 1, "write") \notin v4'[t]
              /\ \A o \in Others : Process!Fd(u, 1, "write") \notin v5'[o]
    PROVE  Process!FdInv' /\ Process!ChildInv'
<1>1. v3 \in [Spawned -> Process!Places \X (0..3)] BY DEF Process!IInv, Process!ChildInv
<1>2. v3' \in [Spawned -> Process!Places \X (0..3)] /\ v3'[s] = at
      /\ \A t \in Spawned : t # s => v3'[t] = v3[t]
  BY <1>1
<1>3. \A f \in v2' : f \in [fd : Process!Fds, cloexec : BOOLEAN] BY ProcessHas
<1>4. Process!FdInv'
  <2>1. ASSUME NEW fd \in Process!Fds, NEW marked \in BOOLEAN, fd.of # s
        PROVE  [fd |-> fd, cloexec |-> marked] \in v2' <=> [fd |-> fd, cloexec |-> marked] \in v2
    BY <2>1
  <2> QED BY <1>2, <1>3, <2>1, ProcessFiles
<1>5. Process!ChildInv' BY <1>2 DEF Process!IInv, Process!ChildInv
<1> QED BY <1>4, <1>5

\* Nothing of a server is left open: its start failed, or it has ended.
LEMMA ProcessDrops ==
    ASSUME Process!IInv, NEW s \in Spawned,
           v3' = [v3 EXCEPT ![s] = <<"failed", 0>>], v2' = v2 \ Process!Open(s), v1' = v1,
           UNCHANGED v4 \/ v4' = [v4 EXCEPT ![s] = {}], UNCHANGED v5
    PROVE  Process!FdInv' /\ Process!ChildInv'
<1>1. PICK at \in Process!Places \X (0..3) : at[1] = "failed" /\ v3' = [v3 EXCEPT ![s] = at]
  <2>1. <<"failed", 0>> \in Process!Places \X (0..3) /\ <<"failed", 0>>[1] = "failed"
    BY DEF Process!Places
  <2> QED BY <2>1
<1>2. v3' \in [Spawned -> Process!Places \X (0..3)] /\ v3'[s] = at
  BY <1>1 DEF Process!IInv, Process!ChildInv
<1>3. ASSUME NEW fd \in Process!Fds, NEW marked \in BOOLEAN, fd.of = s
      PROVE  [fd |-> fd, cloexec |-> marked] \in v2' <=> Process!IsOpen(fd, marked)'
  <2>1. ~Process!IsOpen(fd, marked)' BY <1>1, <1>2, <1>3 DEF Process!IsOpen
  <2>2. [fd |-> fd, cloexec |-> marked] \notin v2' BY <1>3 DEF Process!Open
  <2> QED BY <2>1, <2>2
<1>4. \A f \in v2 : f.fd.of # s => f \in v2' BY DEF Process!Open
<1>5. /\ v4' \in [Spawned -> SUBSET Process!Fds] /\ v5' \in [Others -> SUBSET Process!Fds]
      /\ v1.atomic => \A u \in Spawned :
           /\ \A t \in Spawned : Process!Fd(u, 1, "write") \notin v4'[t]
           /\ \A o \in Others : Process!Fd(u, 1, "write") \notin v5'[o]
  BY DEF Process!IInv, Process!ChildInv
<1> QED BY <1>1, <1>3, <1>4, <1>5, ProcessCloses

LEMMA ProcessServerFds ==
    ASSUME Process!IInv, NEW s \in Spawned
    PROVE  /\ Process!ServerFds(s) \subseteq Process!Fds
           /\ v1.atomic => \A u \in Spawned : Process!Fd(u, 1, "write") \notin Process!ServerFds(s)
<1>1. \A p \in 1..3 : /\ Process!Ours(p) \in {"read", "write"}
                      /\ p = 1 => Process!Ours(p) = "write"
  BY DEF Process!Ours
<1>2. Process!Stdio(s) \subseteq Process!Fds
  BY <1>1, ProcessFd DEF Process!Stdio, Process!Pipes
<1>3. \A u \in Spawned : Process!Fd(u, 1, "write") \notin Process!Stdio(s)
  BY <1>1, ProcessFd DEF Process!Stdio, Process!Pipes
<1>4. Process!ServerFds(s) \subseteq Process!Stdio(s) \cup Process!Inherited
  BY DEF Process!ServerFds
<1> QED BY <1>2, <1>3, <1>4, ProcessInherits

LEMMA ProcessSpawns ==
    ASSUME Process!IInv, NEW s \in Spawned, Process!Spawn(s) PROVE Process!FdInv' /\ Process!ChildInv'
<1>1. CASE v2' = v2 \ Process!Open(s) /\ v3' = [v3 EXCEPT ![s] = <<"failed", 0>>] /\ v4' = v4
  BY <1>1, ProcessDrops DEF Process!Spawn
<1>2. CASE /\ v4' = [v4 EXCEPT ![s] = Process!ServerFds(s)]
           /\ v2' = {f \in v2 : f.fd.of = s => f.fd.end = Process!Ours(f.fd.pipe)}
           /\ v3' = [v3 EXCEPT ![s] = <<"running", 0>>]
  <2>1. PICK at \in Process!Places \X (0..3) : at[1] = "running" /\ v3' = [v3 EXCEPT ![s] = at]
    <3>1. <<"running", 0>> \in Process!Places \X (0..3) /\ <<"running", 0>>[1] = "running"
      BY DEF Process!Places
    <3> QED BY <1>2, <3>1
  <2>2. v3' \in [Spawned -> Process!Places \X (0..3)] /\ v3'[s] = at
    BY <2>1 DEF Process!IInv, Process!ChildInv
  <2>3. ASSUME NEW fd \in Process!Fds, NEW marked \in BOOLEAN, fd.of = s
        PROVE  [fd |-> fd, cloexec |-> marked] \in v2' <=> Process!IsOpen(fd, marked)'
    <3>1. Process!IsOpen(fd, marked)' <=> marked /\ fd.end = Process!Ours(fd.pipe)
      BY <2>1, <2>2, <2>3 DEF Process!IsOpen
    <3>2. [fd |-> fd, cloexec |-> marked] \in v2 <=> marked
      BY <2>3, ProcessHas DEF Process!IsOpen, Process!Spawn
    <3> QED BY <1>2, <2>3, <3>1, <3>2
  <2>4. UNCHANGED <<v1, v5>> BY DEF Process!Spawn
  <2>5. /\ v4' \in [Spawned -> SUBSET Process!Fds] /\ v5' \in [Others -> SUBSET Process!Fds]
        /\ v1.atomic => \A u \in Spawned :
             /\ \A t \in Spawned : Process!Fd(u, 1, "write") \notin v4'[t]
             /\ \A o \in Others : Process!Fd(u, 1, "write") \notin v5'[o]
    BY <1>2, <2>4, ProcessServerFds DEF Process!IInv, Process!ChildInv
  <2> HIDE <1>2
  <2>6. (\A f \in v2' : f \in v2) /\ (\A f \in v2 : f.fd.of # s => f \in v2') BY <1>2
  <2> QED BY <2>1, <2>3, <2>4, <2>5, <2>6, ProcessCloses
<1> QED BY <1>1, <1>2 DEF Process!Spawn

LEMMA ProcessClosesStdin ==
    ASSUME Process!IInv, NEW s \in Spawned, Process!CloseStdin(s)
    PROVE  Process!FdInv' /\ Process!ChildInv'
<1>1. PICK at \in Process!Places \X (0..3) : at[1] = "closing" /\ v3' = [v3 EXCEPT ![s] = at]
  <2>1. <<"closing", 0>> \in Process!Places \X (0..3) /\ <<"closing", 0>>[1] = "closing"
    BY DEF Process!Places
  <2> QED BY <2>1 DEF Process!CloseStdin
<1>2. v3' \in [Spawned -> Process!Places \X (0..3)] /\ v3'[s] = at
  BY <1>1 DEF Process!IInv, Process!ChildInv
<1>3. v2' = {f \in v2 : f.fd # Process!Fd(s, 1, "write")} /\ UNCHANGED <<v1, v4, v5>>
  BY DEF Process!CloseStdin
<1>4. ASSUME NEW fd \in Process!Fds, NEW marked \in BOOLEAN, fd.of = s
      PROVE  [fd |-> fd, cloexec |-> marked] \in v2' <=> Process!IsOpen(fd, marked)'
  <2>1. Process!IsOpen(fd, marked)' <=> marked /\ fd.end = Process!Ours(fd.pipe) /\ fd.pipe # 1
    BY <1>1, <1>2, <1>4 DEF Process!IsOpen
  <2>2. [fd |-> fd, cloexec |-> marked] \in v2 <=> marked /\ fd.end = Process!Ours(fd.pipe)
    BY <1>4, ProcessHas DEF Process!IsOpen, Process!CloseStdin
  <2>3. fd = Process!Fd(s, 1, "write") <=> fd.pipe = 1 /\ fd.end = "write" BY <1>4, ProcessFd
  <2>4. Process!Ours(1) = "write" BY DEF Process!Ours
  <2> QED BY <1>3, <2>1, <2>2, <2>3, <2>4
<1>5. (\A f \in v2' : f \in v2) /\ (\A f \in v2 : f.fd.of # s => f \in v2')
  BY <1>3, ProcessFd
<1>6. /\ v4' \in [Spawned -> SUBSET Process!Fds] /\ v5' \in [Others -> SUBSET Process!Fds]
      /\ v1.atomic => \A u \in Spawned :
           /\ \A t \in Spawned : Process!Fd(u, 1, "write") \notin v4'[t]
           /\ \A o \in Others : Process!Fd(u, 1, "write") \notin v5'[o]
  BY <1>3 DEF Process!IInv, Process!ChildInv
<1> QED BY <1>1, <1>3, <1>4, <1>5, <1>6, ProcessCloses

LEMMA ProcessStep == ASSUME Process!IInv, [Process!Next]_(Process!vars) PROVE Process!IInv'
<1>1. ASSUME NEW s \in Spawned, Process!NoPipe(s) \/ Process!Reap(s)
      PROVE  Process!FdInv' /\ Process!ChildInv'
  BY <1>1, ProcessDrops DEF Process!NoPipe, Process!Reap, Process!ClosePairs
<1>2. ASSUME NEW o \in Others, NEW k \in {"shell", "popen"}, Process!StartOther(o, k)
      PROVE  Process!FdInv' /\ Process!ChildInv'
  <2>1. UNCHANGED <<v1, v2, v3, v4>> BY <1>2 DEF Process!StartOther
  <2>2. Process!FdInv' BY <2>1 DEF Process!IInv, Process!FdInv, Process!IsOpen
  <2>3. Process!ChildInv'
    BY <1>2, <2>1, ProcessInherits DEF Process!IInv, Process!ChildInv, Process!StartOther
  <2> QED BY <2>2, <2>3
<1>3. ASSUME UNCHANGED Process!vars
      PROVE Process!FdInv' /\ Process!ChildInv'
  <2>1. v1' = v1 /\ v2' = v2 /\ v3' = v3 /\ v4' = v4 /\ v5' = v5
    BY <1>3 DEF Process!vars
  <2>2. \A fd, marked : Process!IsOpen(fd, marked)' <=> Process!IsOpen(fd, marked)
    BY <2>1 DEF Process!IsOpen
  <2>3. Process!FdInv' BY <2>1, <2>2 DEF Process!IInv, Process!FdInv
  <2>4. Process!ChildInv' BY <2>1 DEF Process!IInv, Process!ChildInv
  <2> QED BY <2>3, <2>4
<1>4. Process!FdInv' /\ Process!ChildInv'
  <2>1. ASSUME NEW s \in Spawned,
               \/ Process!MakePipe(s) \/ Process!SetCloexec(s) \/ Process!NoPipe(s)
               \/ Process!Spawn(s) \/ Process!CloseStdin(s) \/ Process!Reap(s)
        PROVE  Process!FdInv' /\ Process!ChildInv'
    <3>1. CASE Process!MakePipe(s) BY <3>1, ProcessMakesPipe
    <3>2. CASE Process!SetCloexec(s) BY <3>2, ProcessMarks
    <3>3. CASE Process!Spawn(s) BY <3>3, ProcessSpawns
    <3>4. CASE Process!CloseStdin(s) BY <3>4, ProcessClosesStdin
    <3> QED BY <1>1, <2>1, <3>1, <3>2, <3>3, <3>4
  <2> QED BY <1>2, <1>3, <2>1 DEF Process!Next
<1>5. Process!TypeOK'
  <2>1. v1' = v1
    BY DEF Process!Next, Process!vars, Process!MakePipe, Process!SetCloexec, Process!NoPipe,
       Process!Spawn, Process!CloseStdin, Process!Reap, Process!StartOther
  <2>2. \A f \in v2' : f.fd.of \in Spawned /\ f.fd.pipe \in Process!Pipes
    BY <1>4 DEF Process!FdInv, Process!Fds
  <2>3. \A s \in Spawned : v3'[s][1] \in Process!Places BY <1>4 DEF Process!ChildInv
  <2> QED BY <2>1, <2>2, <2>3 DEF Process!IInv, Process!TypeOK, Process!Places
<1> QED BY <1>4, <1>5 DEF Process!IInv

\* Once m8 has closed its end, nobody has one.
LEMMA ProcessStdin == ASSUME Process!IInv PROVE Process!StdinEnds
<1> SUFFICES ASSUME v1.atomic, NEW s \in Spawned, v3[s][1] = "closing"
             PROVE  Process!EndOfStdin(s)
  BY DEF Process!StdinEnds
<1>1. Process!Ours(1) = "write" BY DEF Process!Ours
<1>2. ASSUME NEW f \in v2 PROVE f.fd # Process!Fd(s, 1, "write")
  <2>1. f.fd \in Process!Fds /\ Process!IsOpen(f.fd, f.cloexec) BY ProcessHas
  <2> QED BY <2>1, ProcessFd DEF Process!IsOpen
<1>3. Process!Fd(s, 1, "write") \notin Process!Bare(v2) BY <1>2 DEF Process!Bare
<1>4. \A t \in Spawned : Process!Fd(s, 1, "write") \notin v4[t]
  BY DEF Process!IInv, Process!ChildInv
<1>5. \A o \in Others : Process!Fd(s, 1, "write") \notin v5[o]
  BY DEF Process!IInv, Process!ChildInv
<1>6. Process!Fd(s, 1, "write") \notin UNION {v4[t] : t \in Spawned} BY <1>4
<1>7. Process!Fd(s, 1, "write") \notin UNION {v5[o] : o \in Others} BY <1>5
<1> QED BY <1>3, <1>6, <1>7 DEF Process!EndOfStdin

LEMMA ProcessLeaks == ASSUME Process!IInv PROVE Process!NoDescriptorLeaks
<1>1. ASSUME NEW s \in Spawned, v3[s][1] = "failed" PROVE Process!Open(s) = {}
  BY <1>1, ProcessHas DEF Process!Open, Process!IsOpen
<1>2. ASSUME NEW s \in Spawned, v3[s][1] = "running" PROVE Cardinality(Process!Open(s)) = 3
  <2> DEFINE its(p) == [fd |-> Process!Fd(s, p, Process!Ours(p)), cloexec |-> TRUE]
  <2>1. \A p \in 1..3 : Process!Ours(p) \in {"read", "write"} BY DEF Process!Ours
  <2>2. PICK yes \in BOOLEAN : yes = TRUE BY Zenon
  <2>3. \A p \in 1..3 : its(p) = [fd |-> Process!Fd(s, p, Process!Ours(p)), cloexec |-> yes]
    BY Zenon, <2>2
  <2> HIDE DEF its
  <2>4. ASSUME NEW p \in 1..3 PROVE its(p) \in Process!Open(s) /\ its(p).fd.pipe = p
    <3> DEFINE fd == Process!Fd(s, p, Process!Ours(p))
    <3>1. fd \in Process!Fds /\ fd.of = s /\ fd.pipe = p /\ fd.end = Process!Ours(p)
      BY <2>1, ProcessFd
    <3> HIDE DEF fd
    <3>2. Process!IsOpen(fd, yes) BY <1>2, <2>2, <3>1 DEF Process!IsOpen
    <3>3. [fd |-> fd, cloexec |-> yes] \in v2 BY <3>1, <3>2, ProcessHas
    <3>4. its(p) = [fd |-> fd, cloexec |-> yes] BY <2>3 DEF fd
    <3> QED BY <3>1, <3>3, <3>4 DEF Process!Open
  <2>5. ASSUME NEW f \in Process!Open(s) PROVE \E p \in 1..3 : f = its(p)
    <3>1. f \in v2 /\ f.fd.of = s BY DEF Process!Open
    <3>2. /\ f.fd \in Process!Fds /\ f.cloexec \in BOOLEAN
          /\ f = [fd |-> f.fd, cloexec |-> f.cloexec] /\ Process!IsOpen(f.fd, f.cloexec)
      BY <3>1, ProcessHas
    <3>3. f.cloexec = yes /\ f.fd.end = Process!Ours(f.fd.pipe)
      BY <1>2, <2>2, <3>1, <3>2 DEF Process!IsOpen
    <3>4. f.fd = Process!Fd(s, f.fd.pipe, Process!Ours(f.fd.pipe)) /\ f.fd.pipe \in 1..3
      BY <3>1, <3>2, <3>3, ProcessFd
    <3>5. f = its(f.fd.pipe) BY <2>3, <3>2, <3>3, <3>4
    <3> QED BY <3>4, <3>5
  <2>6. Process!Open(s) = ({its(1)} \cup {its(2)}) \cup {its(3)} BY <2>4, <2>5
  <2>7. its(1) # its(2) /\ its(1) # its(3) /\ its(2) # its(3)
    <3>1. its(1).fd.pipe = 1 /\ its(2).fd.pipe = 2 /\ its(3).fd.pipe = 3 BY <2>4
    <3> QED BY <3>1
  <2>8. PICK a, b, c : a = its(1) /\ b = its(2) /\ c = its(3) OBVIOUS
  <2>9. IsFiniteSet({a}) /\ Cardinality({a}) = 1 BY FS_Singleton
  <2>10. b \notin {a} /\ c \notin {a} \cup {b} BY <2>7, <2>8
  <2>11. IsFiniteSet({a} \cup {b}) /\ Cardinality({a} \cup {b}) = Cardinality({a}) + 1
    BY ONLY <2>9, <2>10, FS_AddElement
  <2>12. Cardinality(({a} \cup {b}) \cup {c}) = Cardinality({a} \cup {b}) + 1
    BY ONLY <2>10, <2>11, FS_AddElement
  <2> QED BY <2>6, <2>8, <2>9, <2>11, <2>12
<1>3. \A s \in Spawned : Process!Cardinality(Process!Open(s)) = Cardinality(Process!Open(s))
  BY DEF Cardinality, Process!Cardinality
<1> QED BY <1>1, <1>2, <1>3 DEF Process!NoDescriptorLeaks

----------------------------------------------------------------------------
(* The parts together.                                                     *)

\* The invariant of the part that runs, and the client's.
SuiteInv ==
    /\ IInv
    /\ part = "handshake" => Handshake!IInv
    /\ part = "stdio" => Stdio!IInv
    /\ part = "http" => Http!IInv
    /\ part = "process" => Process!IInv

LEMMA SuiteStarts == RunInit => SuiteInv
<1> SUFFICES ASSUME RunInit PROVE SuiteInv
  OBVIOUS
<1>1. IInv BY InitIInv DEF RunInit
<1>2. ASSUME part = "handshake" PROVE Handshake!IInv BY <1>2, HandshakeInit DEF RunInit
<1>3. ASSUME part = "stdio" PROVE Stdio!IInv BY <1>3, StdioInit DEF RunInit
<1>4. ASSUME part = "http" PROVE Http!IInv BY <1>4, HttpInit DEF RunInit
<1>5. ASSUME part = "process" PROVE Process!IInv BY <1>5, ProcessInit DEF RunInit
<1> QED BY <1>1, <1>2, <1>3, <1>4, <1>5 DEF SuiteInv

\* What a step of the suite is to each part.
LEMMA SuiteSteps ==
    ASSUME [RunNext]_all
    PROVE  /\ part' = part
           /\ [Next]_vars
           /\ part = "handshake" => [Handshake!Next]_(Handshake!vars)
           /\ part = "stdio" => [Stdio!Next]_(Stdio!vars)
           /\ part = "http" => [Http!Next]_(Http!vars)
           /\ part = "process" => [Process!Next]_(Process!vars)
<1>1. CASE UNCHANGED all
  <2>1. UNCHANGED <<part, vars, v1, v2, v3, v4, v5, v6, v7, v8, v9, v10, v11, v12, v13>>
    BY <1>1 DEF all, From1, From6, From7
  <2>2. UNCHANGED <<v14, v15, v16, v17>>
    BY <1>1 DEF all, From1, From6, From7, From14
  <2>3. UNCHANGED Handshake!vars /\ UNCHANGED Process!vars
    BY <2>1 DEF Handshake!vars, Handshake!asks, Process!vars
  <2>4. UNCHANGED Stdio!vars BY <2>1, <2>2 DEF Stdio!vars, Stdio!requestVars, Stdio!workerVars, Stdio!timeVars
  <2>5. UNCHANGED Http!vars BY <2>1, <2>2 DEF Http!vars, Http!closing, Http!working, Http!timing
  <2> QED BY <2>1, <2>3, <2>4, <2>5
<1>2. CASE ClientIs(Next) BY <1>2 DEF ClientIs
<1>3. CASE HandshakeIs(Handshake!Next) BY <1>3 DEF HandshakeIs
<1>4. CASE StdioIs(Stdio!Next) BY <1>4 DEF StdioIs
<1>5. CASE HttpIs(Http!Next) BY <1>5 DEF HttpIs
<1>6. CASE ProcessIs(Process!Next) BY <1>6 DEF ProcessIs
<1> QED BY <1>1, <1>2, <1>3, <1>4, <1>5, <1>6 DEF RunNext

LEMMA SuiteKeepsOn == SuiteInv /\ [RunNext]_all => SuiteInv'
<1> SUFFICES ASSUME SuiteInv, [RunNext]_all PROVE SuiteInv'
  OBVIOUS
<1>1. IInv' BY SuiteSteps, NextIInv DEF SuiteInv
<1>2. ASSUME part = "handshake" PROVE Handshake!IInv'
  BY <1>2, SuiteSteps, HandshakeStep DEF SuiteInv
<1>3. ASSUME part = "stdio" PROVE Stdio!IInv' BY <1>3, SuiteSteps, StdioStep DEF SuiteInv
<1>4. ASSUME part = "http" PROVE Http!IInv' BY <1>4, SuiteSteps, HttpStep DEF SuiteInv
<1>5. ASSUME part = "process" PROVE Process!IInv' BY <1>5, SuiteSteps, ProcessStep DEF SuiteInv
<1> QED BY <1>1, <1>2, <1>3, <1>4, <1>5, SuiteSteps DEF SuiteInv

LEMMA SuiteInvariant == RunSpec => []SuiteInv
BY SuiteStarts, SuiteKeepsOn, PTL DEF RunSpec

\* In every part and for any bounds, every variable keeps its type: the era and
\* the replies of the handshake (client.cpp), the requests, clocks and threads
\* of both transports, the descriptors of a start (util/process.cpp).
THEOREM PartsKeepTheirTypes == RunSpec => []Types
<1>1. SuiteInv => Types
  BY DEF SuiteInv, Types, IInv, Handshake!IInv, Stdio!IInv, Http!IInv, Process!IInv
<1> QED BY <1>1, SuiteInvariant, PTL

\* A call is run at most once in a session through restarts, renewed logins and
\* resumed streams, and again only when the session it ran in was lost while its
\* stream was being resumed (client.cpp:462-466); and the era connect() settles on is
\* one the server speaks, the older only with a reason.
THEOREM OneMeaningOfAnswers == RunSpec => []OneMeaning
<1>1. SuiteInv => OneMeaning
  BY DEF SuiteInv, OneMeaning, IInv, NotRunYet, RunsOncePerSession, Http!IInv, Http!RunInv,
     Http!RunsOnce, Handshake!IInv, Handshake!PhaseInv
<1> QED BY <1>1, SuiteInvariant, PTL

\* However many requests, servers and children there are, nothing is left of a
\* server that ended: no caller waits on the I/O thread that is gone, no thread
\* works for a transport whose close() is back, and with pipe2() no child holds
\* the write end of another's stdin open.
THEOREM EndLeavesNothing == RunSpec => []NothingIsLeft
<1>1. ASSUME SuiteInv PROVE NothingIsLeft
  <2>1. ASSUME part = "stdio" PROVE Stdio!NothingLeftBehind
    BY <2>1, <1>1 DEF SuiteInv, Stdio!IInv, Stdio!EndInv
  <2>2. ASSUME part = "http" PROVE Http!ClosedIsQuiet
    BY <2>2, <1>1 DEF SuiteInv, Http!IInv, Http!CloseInv
  <2>3. ASSUME part = "process" PROVE Process!StdinEnds /\ Process!NoDescriptorLeaks
    BY <2>3, <1>1, ProcessStdin, ProcessLeaks DEF SuiteInv
  <2> QED BY <2>1, <2>2, <2>3 DEF NothingIsLeft
<1> QED BY <1>1, SuiteInvariant, PTL

\* For any timeout, lifetime and number of questions: the time a person takes is not
\* in the timeout of a request (http_transport.h:138-139, stdio_transport.h:102-103).
\* Over stdio it is in the lifetime of one that got progress
\* (stdio_transport.cpp:318-321).
THEOREM TimeOfPeopleIsGivenBack == RunSpec => PeopleStopTheClock
<1>1. SuiteInv /\ [RunNext]_all =>
        [/\ part = "stdio" => Stdio!TimedOutForItsOwnTime
         /\ part = "http" => Http!TimedOutForItsOwnTime]_all
  <2> SUFFICES ASSUME SuiteInv, RunNext
               PROVE  /\ part = "stdio" => Stdio!TimedOutForItsOwnTime
                      /\ part = "http" => Http!TimedOutForItsOwnTime
    OBVIOUS
  <2>1. ASSUME part = "stdio" PROVE Stdio!TimedOutForItsOwnTime
    <3>1. Stdio!Next
      BY <2>1 DEF RunNext, ClientIs, HandshakeIs, StdioIs, HttpIs, ProcessIs
    <3> QED BY <2>1, <3>1, StdioTimedOut DEF SuiteInv
  <2>2. ASSUME part = "http" PROVE Http!TimedOutForItsOwnTime
    <3>1. Http!Next
      BY <2>2 DEF RunNext, ClientIs, HandshakeIs, StdioIs, HttpIs, ProcessIs
    <3> QED BY <2>2, <3>1, HttpTimedOut DEF SuiteInv
  <2> QED BY <2>1, <2>2
<1> QED BY <1>1, SuiteInvariant, PTL DEF RunSpec, PeopleStopTheClock
=============================================================================
