----------------------------- MODULE OAuthLogin ------------------------------
(***************************************************************************)
(* Logging in to a remote MCP server (core/mcp/oauth.cpp): the challenge   *)
(* that asks for it, discovery of the authorization server, the loopback   *)
(* listener and its port, who m8 is to that server, the browser's way back *)
(* and the exchange of its code.  Two logins of one OAuthSession may run   *)
(* at once (/mcp login and the prompt of a call), and a browser tab of a   *)
(* login given up may still come back: to the port it was told.            *)
(***************************************************************************)
EXTENDS Naturals, FiniteSets

CONSTANTS Logins,        \* begin_login() calls, in time
          Ports,         \* loopback ports; 0 is none
          Scopes,        \* without offline_access
          Deployments    \* who m8 is there, and what the authorization server offers

VARIABLES at,         \* the deployment
          challenge,  \* mChallenge: the scope it names
          stepUp,     \* mStepUpScope
          token,      \* mToken: the client it was issued to and its scope, or None
          stored,     \* the client the credential store has for the issuer, or None
          granted,    \* the authorization server's registrations
          login,      \* per login, where it is and what it has gathered
          tabs        \* browser tabs: the login and the port each comes back for

vars == <<at, challenge, stepUp, token, stored, granted, login, tabs>>

None == [none |-> TRUE]
Idle == [at |-> "idle", port |-> 0, client |-> None, asked |-> {}, kept |-> {},
         found |-> FALSE, code |-> 0]
At(l) == login[l].at
Listening == {login[l].port : l \in {k \in Logins : At(k) \in {"who", "wait", "code"}}}

Init ==
    /\ at \in Deployments
    /\ challenge = {} /\ stepUp = {} /\ token = None /\ stored = None
    /\ granted = {} /\ tabs = {}
    /\ login = [l \in Logins |-> Idle]

----------------------------------------------------------------------------
\* A request came back 401, or 403 for want of scope: the challenge is kept, and on
\* a step-up what was granted, asked before and needed now is joined.
Challenge(scope, insufficient) ==
    /\ insufficient => token # None
    /\ challenge' = scope
    /\ stepUp' = IF insufficient THEN stepUp \cup scope \cup token.scope ELSE stepUp
    /\ UNCHANGED <<at, token, stored, granted, login, tabs>>

End(l) == login' = [login EXCEPT ![l] = [Idle EXCEPT !.at = "done"]]

\* The challenge and the scopes as they are now; then the protected resource metadata:
\* of the challenge's URL, the path's and the root's, the first that is about this server.
\* Without any the server is its own authorization server.
Discover(l) ==
    /\ At(l) = "idle"
    /\ \E found \in BOOLEAN :
         login' = [login EXCEPT ![l] = [Idle EXCEPT !.at = "server", !.asked = challenge,
                                          !.kept = stepUp, !.found = found]]
    /\ UNCHANGED <<at, challenge, stepUp, token, stored, granted, tabs>>

\* The authorization server's metadata: the first document that names the issuer,
\* has its endpoints safe and does S256; one that does not do S256 ends the search.
FindServer(l) ==
    /\ At(l) = "server"
    /\ \E telling \in {"none", "no S256", "good"} :
         IF telling = "good" THEN login' = [login EXCEPT ![l].at = "listen"] ELSE End(l)
    /\ UNCHANGED <<at, challenge, stepUp, token, stored, granted, tabs>>

Earlier == IF at.client = "registered" THEN stored ELSE None
\* The configured port, else the one of an earlier registration, else a free one.
WantedPort == IF at.port # 0 THEN at.port ELSE IF Earlier # None THEN Earlier.port ELSE 0

\* A registered port that is taken: register again, on a free one.
Listen(l) ==
    /\ At(l) = "listen"
    /\ IF WantedPort # 0 /\ WantedPort \notin Listening
       THEN login' = [login EXCEPT ![l].at = "who", ![l].port = WantedPort, ![l].client = Earlier]
       ELSE IF at.port # 0
       THEN End(l)
       ELSE \E p \in Ports \ Listening :
              login' = [login EXCEPT ![l].at = "who", ![l].port = p, ![l].client = None]
    /\ UNCHANGED <<at, challenge, stepUp, token, stored, granted, tabs>>

\* Fault: an earlier registration does for any port.
AnyRegistration(client, port) == client # None
UsableRegistration(client, port) == client # None /\ client.port = port /\ client.valid

\* Fault: what the challenge asks for, alone.
AskedAlone(l) == IF login[l].asked # {} THEN login[l].asked ELSE login[l].kept
\* choose_scope().
ChooseScope(l) ==
    LET asked == login[l].asked  kept == login[l].kept
        wanted == IF asked # {} THEN kept \cup asked
                  ELSE IF kept # {} THEN kept
                  ELSE IF login[l].found THEN at.resourceScopes ELSE {}
    IN IF at.scopes # {} THEN at.scopes
       ELSE IF wanted # {} /\ at.offline THEN wanted \cup {"offline_access"} ELSE wanted

Browse(l, client) ==
    /\ login' = [login EXCEPT ![l].at = "wait", ![l].client = client, ![l].asked = ChooseScope(l)]
    /\ tabs' = tabs \cup {[login |-> l, port |-> login[l].port]}

\* Kept for the next login; a save that fails is ignored.
PutClient(client) == stored' \in {stored, client}

\* Configured, a metadata document, an earlier registration, or a new one.
WhoWeAre(l) ==
    /\ At(l) = "who"
    /\ \/ /\ at.client # "registered"
          /\ Browse(l, [id |-> 0, port |-> login[l].port, secret |-> at.secret, valid |-> TRUE])
          /\ UNCHANGED <<stored, granted>>
       \/ /\ at.client = "registered" /\ UsableRegistration(login[l].client, login[l].port)
          /\ Browse(l, login[l].client)
          /\ UNCHANGED <<stored, granted>>
       \/ /\ at.client = "registered" /\ ~UsableRegistration(login[l].client, login[l].port)
          /\ \/ End(l) /\ UNCHANGED <<tabs, stored, granted>>
             \/ LET client == [id |-> Cardinality(granted) + 1, port |-> login[l].port,
                               secret |-> at.secret, valid |-> TRUE]
                IN /\ granted' = granted \cup {client}
                   /\ PutClient(client)
                   /\ Browse(l, client)
    /\ UNCHANGED <<at, challenge, stepUp, token>>

SecretExpires ==
    /\ stored # None /\ stored.secret /\ stored' = [stored EXCEPT !.valid = FALSE]
    /\ UNCHANGED <<at, challenge, stepUp, token, granted, login, tabs>>

\* Fault: whatever comes back on the port is this login's.
AnyTab(l, tab) == TRUE
SameState(l, tab) == tab.login = l

\* The first GET /callback the listener gets.  The issuer is compared, then the state;
\* then the server may have said no.
ComeBack(l, tab) ==
    /\ At(l) = "wait" /\ tab.port = login[l].port
    /\ tabs' = tabs \ {tab}
    /\ \E iss \in {"absent", "issuer", "other"}, ok \in BOOLEAN :
         IF /\ iss # "other" /\ (iss = "absent" => ~at.iss)
            /\ SameState(l, tab) /\ ok
         THEN login' = [login EXCEPT ![l].at = "code", ![l].code = tab.login]
         ELSE End(l)
    /\ UNCHANGED <<at, challenge, stepUp, token, stored, granted>>

\* Cancelled (the wake pipe), or the browser did not come back in time.
GiveUp(l) ==
    /\ At(l) = "wait" /\ End(l)
    /\ UNCHANGED <<at, challenge, stepUp, token, stored, granted, tabs>>

\* A tab that finds nobody on its port shows an error and is closed.
TabLost(tab) ==
    /\ \A l \in Logins : ~(At(l) = "wait" /\ login[l].port = tab.port)
    /\ tab.port \notin Listening
    /\ tabs' = tabs \ {tab}
    /\ UNCHANGED <<at, challenge, stepUp, token, stored, granted, login>>

\* finish(): the code for a token; the server may answer with less than was asked.
Exchange(l) ==
    /\ At(l) = "code" /\ End(l)
    /\ \/ UNCHANGED <<challenge, stepUp, token>>
       \/ /\ \E given \in SUBSET login[l].asked :
               token' = [client |-> login[l].client,
                         scope |-> IF given = {} THEN login[l].asked ELSE given]
          /\ challenge' = {} /\ stepUp' = {}
    /\ UNCHANGED <<at, stored, granted, tabs>>

\* refresh_locked(): a secret is sent only when the client is the configured one, and
\* without it a client that has one is refused.  The new token may be for less.
Refresh ==
    /\ token # None
    /\ LET sends == at.client = "configured" /\ at.secret IN token.client.secret => sends
    /\ \E given \in (SUBSET token.scope) \ {{}} : token' = [token EXCEPT !.scope = given]
    /\ UNCHANGED <<at, challenge, stepUp, stored, granted, login, tabs>>

Logout ==
    /\ token # None /\ token' = None /\ stepUp' = {}
    /\ UNCHANGED <<at, challenge, stored, granted, login, tabs>>

\* m8 starts again, with another callbackPort in its configuration.
Restart ==
    /\ Listening = {} /\ at' \in Deployments /\ at' = [at EXCEPT !.port = at'.port]
    /\ challenge' = {} /\ stepUp' = {}
    /\ UNCHANGED <<token, stored, granted, login, tabs>>

Step(l) ==
    Discover(l) \/ FindServer(l) \/ Listen(l) \/ WhoWeAre(l) \/ GiveUp(l) \/ Exchange(l)
World ==
    \/ \E scope \in SUBSET Scopes, insufficient \in BOOLEAN : Challenge(scope, insufficient)
    \/ \E tab \in tabs : TabLost(tab) \/ \E l \in Logins : ComeBack(l, tab)
    \/ SecretExpires \/ Refresh \/ Logout \/ Restart
Next == World \/ \E l \in Logins : Step(l)

Spec == Init /\ [][Next]_vars

----------------------------------------------------------------------------
TypeOK ==
    /\ at \in Deployments /\ challenge \subseteq Scopes
    /\ stepUp \subseteq Scopes \cup {"offline_access"}
    /\ \A tab \in tabs : tab.login \in Logins /\ tab.port \in Ports
    /\ \A l \in Logins : At(l) \in {"idle", "server", "listen", "who", "wait", "code", "done"}

\* A browser is sent off only with a client the authorization server knows for the very
\* redirect URI this listener has, whatever ports were free for this login and earlier
\* ones, and no two logins listen on one port.
ClientFitsListener ==
    /\ \A l \in Logins : At(l) \in {"wait", "code"} /\ at.client = "registered" =>
         \E c \in granted : c.id = login[l].client.id /\ c.port = login[l].port
    /\ \A l, k \in Logins :
         l # k /\ {At(l), At(k)} \subseteq {"who", "wait", "code"} => login[l].port # login[k].port

\* A code is exchanged only by the login whose authorization URL obtained it, though the
\* tab of a login given up comes back to a port that has been taken again.
CodeIsItsOwn == \A l \in Logins : At(l) = "code" => login[l].code = l

\* "A step-up keeps what was granted before": once a call was refused for want of a scope,
\* the next login to begin asks for it and for all the token had.
StepUpAsksForAll ==
    \A l \in Logins : At(l) = "wait" /\ at.scopes = {} =>
        login[l].kept \subseteq login[l].asked

----------------------------------------------------------------------------
\* Why these hold: an invariant that every step keeps.

AllScopes == Scopes \cup {"offline_access"}

Clients == [id : Nat, port : Ports, secret : BOOLEAN, valid : BOOLEAN]
Issued == [client : Clients, scope : SUBSET AllScopes]
Sessions ==
    [at : {"idle", "server", "listen", "who", "wait", "code", "done"}, port : {0} \cup Ports,
     client : Clients \cup {None}, asked : SUBSET AllScopes, kept : SUBSET AllScopes,
     found : BOOLEAN, code : {0} \cup Logins]

\* The authorization server knows the client, for the redirect URI of its port.
Registered(client) == \E c \in granted : c.id = client.id /\ c.port = client.port

ClientInv ==
    /\ login \in [Logins -> Sessions] /\ token \in Issued \cup {None}
    /\ stored \in Clients \cup {None} /\ IsFiniteSet(granted)
    /\ stored # None => Registered(stored)
    /\ \A l \in Logins :
          /\ At(l) = "who" /\ login[l].client # None => Registered(login[l].client)
          /\ At(l) \in {"wait", "code"} => login[l].client # None
          /\ At(l) \in {"who", "wait", "code"} => login[l].port \in Ports

IInv == TypeOK /\ ClientInv /\ ClientFitsListener /\ CodeIsItsOwn /\ StepUpAsksForAll
=============================================================================
