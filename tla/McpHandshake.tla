---------------------------- MODULE McpHandshake ----------------------------
(***************************************************************************)
(* How an MCP client finds out which protocol era its server speaks:        *)
(* Client::handshake and the two attempts of Client::connect                *)
(* (src/core/mcp/client.cpp).                                               *)
(*                                                                         *)
(* The server is one of the kinds the code was written for.  It answers, or *)
(* says nothing, or dies, at any moment relative to the client's timeouts.  *)
(* Versions inside an era, capabilities and server facts are left out.      *)
(***************************************************************************)
EXTENDS Naturals

CONSTANT MaxConnects   \* bound: calls of connect()

VARIABLES
    opts,        \* ClientOptions: http, protocol, remembered
    server,      \* what the server is like: its eras and its manner
    attempt, phase,
    discover, initialize,  \* the two requests: idle, asked, or how they ended
    turn,        \* whose reply the race looks at next
    era,         \* mEra
    dead,        \* the (stdio) server process is gone
    expired,     \* startup_timeout has passed
    connects, slow, accident

asks == <<discover, initialize, turn>>
vars == <<opts, server, attempt, phase, asks, era, dead, expired,
          connects, slow, accident>>

Eras == {"modern", "legacy"}

\* silent: ignores server/discover; fragile: exits on it; future: speaks a
\* newer version; lister: says so in a DiscoverResult; odd: answers initialize
\* with a version of its own; locked: 401; down: no network, or a 5xx.
Servers ==
    [eras : (SUBSET Eras) \ {{}}, manner : {"plain"}]
    \cup [eras : {{"legacy"}}, manner : {"silent", "fragile"}]
    \cup [eras : {{}, {"legacy"}}, manner : {"future", "lister"}]
    \cup [eras : {{}}, manner : {"odd"}]
    \cup [eras : {Eras}, manner : {"locked", "down"}]

Init ==
    /\ opts \in [http : BOOLEAN, protocol : {"auto"} \cup Eras,
                 remembered : {"unknown"} \cup Eras]
    /\ server \in {s \in Servers :
                     IF opts.http THEN s.manner \notin {"silent", "fragile"}
                                  ELSE s.manner \notin {"locked", "down"}}
    /\ attempt = 0 /\ phase = "start" /\ turn = "discover"
    /\ discover = "idle" /\ initialize = "idle"
    /\ era = "unknown"
    /\ dead = FALSE /\ expired = FALSE
    /\ connects = 1 /\ slow = FALSE /\ accident = FALSE

----------------------------------------------------------------------------
\* The server and the clock.

Gate == IF server.manner = "locked" THEN "auth" ELSE "down"

DiscoverReply ==
    CASE server.manner \in {"locked", "down"} -> Gate
      [] server.manner = "lister" -> "foreign"
      [] server.manner = "future" ->
            IF "legacy" \in server.eras THEN "offersLegacy" ELSE "offersNothing"
      [] "modern" \in server.eras -> "result"
      [] OTHER -> "error"

InitializeReply ==
    CASE server.manner \in {"locked", "down"} -> Gate
      [] server.manner = "odd" -> "foreign"
      [] "legacy" \in server.eras -> "result"
      [] OTHER -> "error"

AnswerDiscover ==
    /\ discover = "asked" /\ server.manner \notin {"silent", "fragile"}
    /\ discover' = DiscoverReply
    /\ UNCHANGED <<opts, server, attempt, phase, initialize, turn, era, dead,
                   expired, connects, slow, accident>>

AnswerInitialize ==
    /\ initialize = "asked" /\ ~dead
    /\ initialize' = InitializeReply
    /\ UNCHANGED <<opts, server, attempt, phase, discover, turn, era, dead,
                   expired, connects, slow, accident>>

\* Every request the process still owes an answer fails with `exited`.
Exited(reply) == IF reply = "asked" THEN "exited" ELSE reply

ServerExits ==
    /\ ~opts.http /\ ~dead /\ phase \notin {"failed", "down"}
    /\ \/ server.manner = "fragile" /\ discover = "asked" /\ UNCHANGED accident
       \/ ~accident /\ accident' = TRUE
    /\ dead' = TRUE
    /\ discover' = Exited(discover) /\ initialize' = Exited(initialize)
    /\ UNCHANGED <<opts, server, attempt, phase, turn, era, expired,
                   connects, slow>>

Late(reply) == IF reply = "asked" THEN "late" ELSE reply

DeadlinePasses ==
    /\ ~expired /\ phase \notin {"ok", "failed", "down"}
    /\ expired' = TRUE
    /\ discover' = Late(discover) /\ initialize' = Late(initialize)
    /\ UNCHANGED <<opts, server, attempt, phase, turn, era, dead,
                   connects, slow, accident>>

----------------------------------------------------------------------------
\* The client.

Sent == IF dead THEN "exited" ELSE IF expired THEN "late" ELSE "asked"

Settle(e) == phase' = "ok" /\ era' = e
Fail == phase' = "failed" /\ UNCHANGED era

\* Faults: any DiscoverResult will do; a failed initialize ends the race.
AcceptAnyDiscover(reply) == Settle("modern")

\* accept_discover, on a result: a server that lists other versions only is
\* refused.
AcceptDiscover(reply) == IF reply = "result" THEN Settle("modern") ELSE Fail

\* accept_initialize, on a result.
AcceptInitialize(reply) == IF reply = "result" THEN Settle("legacy") ELSE Fail

\* legacy_initialize: the request; LegacyAnswered is what becomes of it.
LegacyInitialize ==
    phase' = "legacy" /\ initialize' = Sent /\ UNCHANGED <<discover, turn, era>>

\* A modern-only answer: the server rejected our version.
ModernError(reply) ==
    IF reply = "offersLegacy" THEN LegacyInitialize
    ELSE Fail /\ UNCHANGED asks

Probe ==
    phase' = "probe" /\ discover' = Sent /\ UNCHANGED <<initialize, turn, era>>

ForceLegacy ==
    opts.protocol = "legacy" \/ (opts.protocol = "auto" /\ opts.remembered = "legacy")

Begin ==
    /\ phase = "start"
    /\ IF ForceLegacy
       THEN /\ phase' = "remembered" /\ initialize' = Sent
            /\ UNCHANGED <<discover, turn, era>>
       ELSE Probe
    /\ UNCHANGED <<opts, server, attempt, dead, expired, connects, slow, accident>>

\* Fault: a remembered era is believed for ever.
RememberedIsForced ==
    /\ phase = "remembered" /\ initialize \notin {"idle", "asked"}
    /\ AcceptInitialize(initialize) /\ UNCHANGED asks
    /\ UNCHANGED <<opts, server, attempt, dead, expired, connects, slow, accident>>

\* A remembered answer that has stopped being true is re-probed.
RememberedAnswered ==
    /\ phase = "remembered" /\ initialize \notin {"idle", "asked"}
    /\ IF initialize = "result" \/ opts.protocol = "legacy" \/ initialize = "auth"
       THEN AcceptInitialize(initialize) /\ UNCHANGED asks
       ELSE Probe
    /\ UNCHANGED <<opts, server, attempt, dead, expired, connects, slow, accident>>

\* Over HTTP the first modern request is the probe.
HttpProbed ==
    /\ phase = "probe" /\ opts.http /\ discover \notin {"idle", "asked"}
    /\ CASE discover \in {"result", "foreign"} -> AcceptDiscover(discover) /\ UNCHANGED asks
         [] discover \in {"offersLegacy", "offersNothing"} -> ModernError(discover)
         [] discover = "error" /\ opts.protocol # "modern" -> LegacyInitialize
         [] OTHER -> Fail /\ UNCHANGED asks
    /\ UNCHANGED <<opts, server, attempt, dead, expired, connects, slow, accident>>

\* Over stdio, an answer within probe_timeout (the process may be gone too).
StdioProbed ==
    /\ phase = "probe" /\ ~opts.http /\ discover \notin {"idle", "asked"}
    /\ CASE discover \in {"result", "foreign"} -> AcceptDiscover(discover) /\ UNCHANGED asks
         [] discover \in {"offersLegacy", "offersNothing"} -> ModernError(discover)
         [] discover = "exited" \/ opts.protocol = "modern" -> Fail /\ UNCHANGED asks
         [] OTHER -> LegacyInitialize
    /\ UNCHANGED <<opts, server, attempt, dead, expired, connects, slow, accident>>

\* No answer within probe_timeout: ask the legacy question too.
ProbeTimesOut ==
    /\ phase = "probe" /\ ~opts.http /\ discover = "asked"
    /\ slow' = TRUE
    /\ IF opts.protocol = "modern"
       THEN phase' = "waiting" /\ UNCHANGED asks
       ELSE phase' = "race" /\ initialize' = Sent /\ UNCHANGED <<discover, turn>>
    /\ UNCHANGED <<opts, server, attempt, era, dead, expired, connects, accident>>

ModernAnswered ==
    /\ phase = "waiting" /\ discover \notin {"idle", "asked"}
    /\ IF discover \in {"result", "foreign"} THEN AcceptDiscover(discover) ELSE Fail
    /\ UNCHANGED <<asks, opts, server, attempt, dead, expired, connects, slow, accident>>

\* The race looks at the two replies in turn, a failed one only once.
PassedOver(reply) == IF reply = "asked" THEN reply ELSE "idle"

Race ==
    /\ phase = "race"
    /\ turn' = IF turn = "discover" THEN "initialize" ELSE "discover"
    /\ CASE turn = "discover" /\ {discover, initialize} = {"idle"} ->
              Fail /\ UNCHANGED <<discover, initialize>>
         [] turn = "discover" /\ discover \in {"result", "foreign"} ->
              AcceptDiscover(discover) /\ UNCHANGED <<discover, initialize>>
         [] turn = "initialize" /\ initialize \in {"result", "foreign"} ->
              AcceptInitialize(initialize) /\ UNCHANGED <<discover, initialize>>
         [] OTHER ->
              /\ IF turn = "discover"
                 THEN discover' = PassedOver(discover) /\ UNCHANGED initialize
                 ELSE initialize' = PassedOver(initialize) /\ UNCHANGED discover
              /\ UNCHANGED <<phase, era>>
    /\ UNCHANGED <<opts, server, attempt, dead, expired, connects, slow, accident>>

LegacyAnswered ==
    /\ phase = "legacy" /\ initialize \notin {"idle", "asked"}
    /\ AcceptInitialize(initialize)
    /\ UNCHANGED <<asks, opts, server, attempt, dead, expired, connects, slow, accident>>

\* connect() again on a fresh transport.
Fresh ==
    /\ phase' = "start" /\ dead' = FALSE /\ expired' = FALSE
    /\ discover' = "idle" /\ initialize' = "idle" /\ turn' = "discover"
    /\ slow' = FALSE

\* A process that died on the probe is run again and only told initialize;
\* the option stays changed.
AttemptFailed ==
    /\ phase = "failed"
    /\ IF attempt = 0 /\ dead /\ opts.protocol = "auto"
       THEN /\ attempt' = 1 /\ opts' = [opts EXCEPT !.protocol = "legacy"]
            /\ Fresh
       ELSE /\ phase' = "down"
            /\ UNCHANGED <<opts, attempt, asks, dead, expired, slow>>
    /\ UNCHANGED <<server, era, connects, accident>>

\* The server died, or somebody asks again: ensure_connected() connects.
Reconnect ==
    /\ phase = "down" \/ (phase = "ok" /\ dead)
    /\ connects < MaxConnects
    /\ connects' = connects + 1 /\ attempt' = 0 /\ Fresh
    /\ UNCHANGED <<opts, server, era, accident>>

ClientStep == Begin \/ RememberedAnswered \/ HttpProbed \/ StdioProbed \/ ProbeTimesOut
              \/ ModernAnswered \/ Race \/ LegacyAnswered \/ AttemptFailed
ServerStep == AnswerDiscover \/ AnswerInitialize \/ ServerExits
Next == ClientStep \/ ServerStep \/ DeadlinePasses \/ Reconnect
Spec == Init /\ [][Next]_vars

FragileExits == ServerExits /\ server.manner = "fragile"

\* A server the code can wait for does answer, or dies as its manner says;
\* Reconnect, accidents and the deadline happen or not.
Fairness ==
    /\ WF_vars(ClientStep) /\ WF_vars(AnswerDiscover) /\ WF_vars(AnswerInitialize)
    /\ WF_vars(FragileExits)
FairSpec == Spec /\ Fairness

----------------------------------------------------------------------------
Ends == {"idle", "asked", "result", "error", "foreign", "offersLegacy",
         "offersNothing", "auth", "down", "late", "exited"}

TypeOK ==
    /\ opts \in [http : BOOLEAN, protocol : {"auto"} \cup Eras,
                 remembered : {"unknown"} \cup Eras]
    /\ server \in Servers
    /\ attempt \in 0..1 /\ connects \in 1..MaxConnects
    /\ phase \in {"start", "remembered", "probe", "waiting", "race", "legacy",
                  "ok", "failed", "down"}
    /\ discover \in Ends /\ initialize \in Ends
    /\ turn \in {"discover", "initialize"}
    /\ era \in {"unknown"} \cup Eras
    /\ {dead, expired, slow, accident} \subseteq BOOLEAN

\* The era settled on is one the server speaks, and the older one is taken from
\* a server that speaks both only with a reason: it was asked for, remembered,
\* or the probe went unanswered for probe_timeout or ended with the process.
SettledEraIsRight ==
    phase = "ok" =>
        /\ era \in server.eras
        /\ (era = "legacy" /\ "modern" \in server.eras) =>
              opts.protocol = "legacy" \/ opts.remembered = "legacy" \/ slow

\* A server that can be spoken to is spoken to: with the protocol on auto, and
\* unless the process dies by accident, every connect() to a server that
\* answers one of its eras before the deadline succeeds -- the wrongly
\* remembered, the silent, the fragile and the newer servers included.
Willing ==
    /\ opts.protocol = "auto" /\ server.eras # {}
    /\ server.manner \notin {"locked", "down", "lister"}

Calling == phase = "start" /\ Willing
Settled == phase = "ok" \/ expired \/ accident

----------------------------------------------------------------------------
\* Why the era is right: an invariant that every step keeps.

\* What the replies say of the server.
ReplyInv ==
    /\ server.manner \in {"locked", "down"} => opts.http
    /\ discover = "result" => "modern" \in server.eras
    /\ discover \in {"error", "offersLegacy"} => "modern" \notin server.eras
    /\ discover \in {"auth", "down"} => opts.http
    /\ discover = "late" => expired
    /\ initialize = "result" => "legacy" \in server.eras

MayBeLegacy ==
    \/ "modern" \notin server.eras
    \/ opts.protocol = "legacy" \/ opts.remembered = "legacy" \/ slow

\* Who asks the older question has a reason to, or comes too late for an answer.
PhaseInv ==
    /\ phase = "remembered" => opts.protocol = "legacy" \/ opts.remembered = "legacy"
    /\ phase = "race" => slow
    /\ phase = "legacy" /\ initialize \in {"asked", "result"} => MayBeLegacy
    /\ SettledEraIsRight

IInv == TypeOK /\ ReplyInv /\ PhaseInv

=============================================================================
