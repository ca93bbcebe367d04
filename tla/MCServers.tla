------------------------------ MODULE MCServers -----------------------------
(***************************************************************************)
(* What m8 does with its MCP servers as a whole: the registry and its      *)
(* threads, logins and their tokens, the configuration and what was        *)
(* approved, the questions a server may ask.  A behaviour is one of a      *)
(* single part; the registry keeps the variables it declares, and the      *)
(* others are held in v1 .. v11, in the order they declare them.           *)
(***************************************************************************)
EXTENDS McpRegistry, Sequences

CONSTANTS
    Parts,                       \* those a run takes
    Processes, MaxGrants,        \* tokens: the m8s that share the file
    Logins, Ports, Scopes, Deployments,     \* login
    Callers, NoOne,              \* prompt: the agents whose calls need a login
    Apps, Clis, Names, Versions, Broken, Unset, MaxEdits,   \* config
    Forms, Words, Texts, Links, BadLinks, Exact, MaxRequests, MaxReviews   \* questions

VARIABLES part, v1, v2, v3, v4, v5, v6, v7, v8, v9, v10, v11

From10 == <<v10, v11>>
From9 == <<v9, From10>>
From5 == <<v5, v6, v7, v8, From9>>
From1 == <<v1, v2, v3, v4, From5>>
all == <<part, vars, From1>>

Idle10 == v10 = 0 /\ v11 = 0
Idle9 == v9 = 0 /\ Idle10
Idle5 == v5 = 0 /\ v6 = 0 /\ v7 = 0 /\ v8 = 0 /\ Idle9
Idle1to4 == v1 = 0 /\ v2 = 0 /\ v3 = 0 /\ v4 = 0
Idle1 == Idle1to4 /\ Idle5

-----------------------------------------------------------------------------
(* Logins, tokens, approvals.                                              *)

Tokens == INSTANCE OAuthTokens WITH
    None <- NoOne,
    store <- v1, written <- v2, flock <- v3, m8 <- v4, issued <- v5, live <- v6,
    valid <- v7, lost <- v8, replayed <- v9

\* A client from the configuration with its port, one registered for any port
\* or for a fixed one, and a client metadata document.
Deployment(how, secret, port, iss, scopes) ==
    [client |-> how, secret |-> secret, port |-> port, iss |-> iss, offline |-> FALSE,
     scopes |-> scopes, resourceScopes |-> {"a"}]
SomeDeployments ==
    {Deployment("configured", TRUE, 1, TRUE, {}), Deployment("registered", TRUE, 0, FALSE, {}),
     Deployment("registered", TRUE, 2, FALSE, {}), Deployment("document", FALSE, 0, FALSE, {"a"})}

Login == INSTANCE OAuthLogin WITH
    at <- v1, challenge <- v2, stepUp <- v3, token <- v4, stored <- v5, granted <- v6,
    login <- v7, tabs <- v8

Prompt == INSTANCE LoginPrompt WITH
    holder <- v1, at <- v2, declined <- v3, worker <- v4, link <- v5, finished <- v6,
    cancel <- v7, quitting <- v8

Config == INSTANCE ServerConfig WITH
    entries <- v1, trust <- v2, garbled <- v3, app <- v4, cli <- v5, said <- v6, edits <- v7,
    found <- v8

-----------------------------------------------------------------------------
(* The questions of a server.                                              *)

Said(w, l) == <<[word |-> w, low |-> l, n |-> 0]>>
Spelled(w) == Said(w, w)
Figure(n) == <<[word |-> "#", low |-> "#", n |-> n]>>
Value(kind, v, n) == [kind |-> kind, v |-> v, n |-> n]
Field(type, required, choices, low, high, default, format) ==
    [type |-> type, required |-> required, choices |-> choices, lo |-> low, hi |-> high,
     default |-> default, format |-> format]
Choice(value, title) == [value |-> value, title |-> title]
NoDefault == Value("null", <<>>, 0)

\* The default of Amount is beyond its maximum and is shown rounded; the choices
\* of Pick are numbers, the first the position of the second; those of Many
\* differ in case; Odd is of no type the form has.
Amount == Field("number", TRUE, <<>>, 1, 12, Value("number", <<>>, 13), {})
Pick == Field("string", FALSE,
              <<Choice(Figure(2), Figure(2)), Choice(Figure(1), Spelled("one"))>>,
              0, 9, NoDefault, {})
Many == Field("array", TRUE,
              <<Choice(Spelled("r"), Said("Red", "red")), Choice(Spelled("g"), Spelled("green"))>>,
              1, 2, Value("array", <<Spelled("r")>>, 0), {})
Yes == Field("boolean", TRUE, <<>>, 0, 1, NoDefault, {})
Odd == Field("object", TRUE, <<>>, 0, 0, NoDefault, {})
Format == Field("string", TRUE, <<>>, 1, 1, Value("string", <<Spelled("green")>>, 0),
                {Spelled("green"), Spelled("r")})

SomeForms == {<<>>, <<Amount, Pick>>, <<Many, Yes>>, <<Odd>>, <<Pick, Format>>}
SomeTexts == {Spelled("y"), Spelled("no"), Figure(1), Figure(2), Figure(12),
              Spelled("green"), Spelled("r") \o Spelled("red")}

Questions == INSTANCE Elicitation WITH
    MaxEdits <- MaxReviews,
    form <- v1, link <- v2, place <- v3, at <- v4, values <- v5, review <- v6, result <- v7,
    opened <- v8, browser <- v9, requests <- v10, edits <- v11

ASSUME ServersAssumption ==
    /\ NoOne \notin Processes \cup Callers /\ MaxGrants \in Nat \ {0}
    /\ Ports \subseteq Nat \ {0}
    /\ Deployments \subseteq
         [client : {"configured", "registered", "document"}, secret : BOOLEAN,
          port : {0} \cup Ports, iss : BOOLEAN, offline : BOOLEAN,
          scopes : SUBSET Scopes, resourceScopes : SUBSET Scopes]
    /\ Versions \subseteq Nat \ {0} /\ MaxEdits \in Nat
    /\ Forms \subseteq Seq(Questions!Fields) /\ \A f \in Forms : Len(f) <= 3
    /\ "none" \notin Links /\ Questions!Described

-----------------------------------------------------------------------------
RunInit ==
    /\ part \in Parts /\ Init
    /\ part # "registry" => ~approved /\ ~enabled /\ ~cached
    /\ \/ part = "registry" /\ Idle1
       \/ part = "tokens" /\ Tokens!Init /\ Idle10
       \/ part = "login" /\ Login!Init /\ Idle9
       \/ part = "prompt" /\ Prompt!Init /\ Idle9
       \/ part = "config" /\ Config!Init /\ Idle9
       \/ part = "questions" /\ Questions!Init

\* A step of a part leaves the variables it does not use alone.
RunNext ==
    \/ part = "registry" /\ Next /\ UNCHANGED <<part, From1>>
    \/ /\ UNCHANGED <<part, vars>>
       /\ \/ part = "tokens" /\ Tokens!Next /\ UNCHANGED From10
          \/ part = "login" /\ Login!Next /\ UNCHANGED From9
          \/ part = "prompt" /\ Prompt!Next /\ UNCHANGED From9
          \/ part = "config" /\ Config!Next /\ UNCHANGED From9
          \/ part = "questions" /\ Questions!Next

RunSpec == RunInit /\ [][RunNext]_all

-----------------------------------------------------------------------------
\* Every part keeps to its types.
Types ==
    /\ TypeOK
    /\ part = "tokens" => Tokens!TypeOK
    /\ part = "login" => Login!TypeOK
    /\ part = "prompt" => Prompt!TypeOK
    /\ part = "config" => Config!TypeOK
    /\ part = "questions" => Questions!TypeOK

\* Several m8s, several logins: no rotated token is lost between them; a login's
\* client fits its listener, its code is its own, its step-up asks for all that
\* was needed, and its thread is joined.
LoginsAreKept ==
    /\ part = "tokens" => Tokens!NoTokenLost
    /\ part = "login" =>
          Login!ClientFitsListener /\ Login!CodeIsItsOwn /\ Login!StepUpAsksForAll
    /\ part = "prompt" => Prompt!WorkerIsJoined

\* The person decides: what is run was seen and approved, or was found by an `mcp
\* add` under its name; what a server is sent is what the review showed, a link is
\* opened once and never unasked.
PersonDecides ==
    /\ part = "config" => Config!RunsOnlyApproved
    /\ part = "questions" =>
          Questions!SentAsReviewed /\ Questions!EnterKeeps /\ Questions!OpenedOnce

\* Nobody is asked again who said no.
ChoicesStand == [][part = "prompt" => Prompt!AsksOnce]_all
=============================================================================
