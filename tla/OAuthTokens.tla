---------------------------- MODULE OAuthTokens -----------------------------
(***************************************************************************)
(* Several m8 processes share one credential file: each keeps a copy of the  *)
(* token and a stamp of the file, refreshes it before it expires or after a   *)
(* 401, logs in through the browser, and logs out.  The authorization server  *)
(* rotates refresh tokens: one that was used is spent.                        *)
(* src/core/mcp/oauth.cpp, credential_store.cpp.                              *)
(*                                                                         *)
(* A token is named by the grant that issued it.  mMutex serialises what one  *)
(* process does, so a process is one thread; flock serialises the processes.  *)
(* PKCE, scopes and the documents' wording are left out.                      *)
(***************************************************************************)
EXTENDS Naturals

CONSTANTS
    Processes,   \* the m8s
    None,
    MaxGrants    \* bound: tokens ever issued

VARIABLES
    store, written,   \* the file: a token or 0, and how often it was written
    flock,            \* who holds the lock file
    m8,               \* per process: place, mToken, mLoaded, mStoreStamp, ...
    issued, live, valid,  \* the server: grants; refresh and access tokens it honours
    lost, replayed    \* an answer or a save was lost; a spent token was shown

vars == <<store, written, flock, m8, issued, live, valid, lost, replayed>>
server == <<issued, live, valid>>
file == <<store, written>>

Fresh == [at |-> "idle", token |-> 0, loaded |-> FALSE, stamp |-> 0, asks |-> 0]

Init ==
    /\ store = 1 /\ written = 1 /\ flock = None
    /\ m8 = [p \in Processes |-> Fresh]
    /\ issued = 1 /\ live = {1} /\ valid = {1}
    /\ lost = FALSE /\ replayed = FALSE

At(p, place) == m8' = [m8 EXCEPT ![p].at = place]

\* CredentialStore::token(): what the file holds now.
Reread(p) == [m8[p] EXCEPT !.token = store, !.stamp = written, !.loaded = TRUE]

\* reload_locked: the file is read again when its stamp moved.
Reloaded(p) ==
    IF m8[p].loaded /\ m8[p].stamp = written THEN m8[p] ELSE Reread(p)

\* The file is replaced by one with this token.
Put(token) == store' = token /\ written' = written + 1

----------------------------------------------------------------------------
\* authorization(), and the request it is for: a token about to expire is
\* refreshed first; one the server refuses is renewed.
Request(p) ==
    LET now == Reloaded(p) IN
    /\ m8[p].at = "idle"
    /\ \E about \in BOOLEAN :
          m8' = [m8 EXCEPT ![p] = [now EXCEPT !.at =
                    IF now.token = 0 THEN "idle"
                    ELSE IF about THEN "lock"
                    ELSE IF now.token \in valid THEN "idle" ELSE "rejected"]]
    /\ UNCHANGED <<file, flock, server, lost, replayed>>

\* renew_after_rejection: first what another m8 may have stored.
Renew(p) ==
    /\ m8[p].at = "rejected"
    /\ m8' = [m8 EXCEPT ![p] = [Reread(p) EXCEPT
                !.at = IF store = 0 \/ store # m8[p].token THEN "idle" ELSE "lock"]]
    /\ UNCHANGED <<file, flock, server, lost, replayed>>

\* Fault: the token in memory is refreshed, whatever the file says by now.
AskWithOurs(p) == m8' = [m8 EXCEPT ![p] = [@ EXCEPT !.at = "asking", !.asks = m8[p].token]]

\* refresh_locked, under the file lock: another m8 may have done it already.
UnderLock(p) ==
    m8' = [m8 EXCEPT ![p] =
             IF store = 0 THEN [@ EXCEPT !.at = "unlock"]
             ELSE IF store # m8[p].token THEN [@ EXCEPT !.token = store, !.at = "renewed"]
             ELSE [@ EXCEPT !.at = "asking", !.asks = store]]

Lock(p) ==
    /\ m8[p].at = "lock" /\ flock = None /\ flock' = p
    /\ UnderLock(p)
    /\ UNCHANGED <<file, server, lost, replayed>>

\* The server takes the refresh token, spends it and issues a pair.
Refreshed(p) ==
    /\ m8[p].at = "asking"
    /\ IF m8[p].asks \in live
       THEN /\ issued < MaxGrants /\ issued' = issued + 1
            /\ live' = (live \ {m8[p].asks}) \cup {issued'}
            /\ valid' = (valid \ {m8[p].asks}) \cup {issued'}
            /\ UNCHANGED replayed
            /\ \/ m8' = [m8 EXCEPT ![p].at = "answered", ![p].asks = issued'] /\ UNCHANGED lost
               \/ At(p, "unlock") /\ lost' = TRUE
       ELSE /\ At(p, "unlock") /\ replayed' = TRUE /\ UNCHANGED <<server, lost>>
    /\ UNCHANGED <<file, flock>>

\* The server is not reached.
Unreached(p) ==
    /\ m8[p].at = "asking" /\ At(p, "unlock")
    /\ UNCHANGED <<file, flock, server, lost, replayed>>

\* Saved before it is used; a save that fails keeps the old token.
SaveToken(p) ==
    /\ m8[p].at = "answered"
    /\ \/ /\ Put(m8[p].asks) /\ UNCHANGED lost
          /\ m8' = [m8 EXCEPT ![p] = [@ EXCEPT !.token = m8[p].asks, !.at = "renewed"]]
       \/ At(p, "unlock") /\ lost' = TRUE /\ UNCHANGED file
    /\ UNCHANGED <<flock, server, replayed>>

Unlock(p) ==
    /\ m8[p].at \in {"unlock", "renewed"} /\ flock' = None
    /\ At(p, IF m8[p].at = "renewed" THEN "stamp" ELSE "idle")
    /\ UNCHANGED <<file, server, lost, replayed>>

\* The stamp is read after the lock was given back.
Stamp(p) ==
    /\ m8[p].at = "stamp"
    /\ m8' = [m8 EXCEPT ![p] = [@ EXCEPT !.at = "idle", !.stamp = written, !.loaded = TRUE]]
    /\ UNCHANGED <<file, flock, server, lost, replayed>>

----------------------------------------------------------------------------
\* A login, as far as the token it ends with (OAuthLogin has the rest).

BeginLogin(p) ==
    /\ m8[p].at = "idle" /\ issued < MaxGrants
    /\ At(p, "browser")
    /\ UNCHANGED <<file, flock, server, lost, replayed>>

\* Another issuer, another state, an error, no code, cancelled, or too late.
LoginFails(p) ==
    /\ m8[p].at = "browser"
    /\ At(p, "idle")
    /\ UNCHANGED <<file, flock, server, lost, replayed>>

\* The code is exchanged for a grant of its own.
Exchange(p) ==
    /\ m8[p].at = "browser" /\ issued < MaxGrants /\ issued' = issued + 1
    /\ live' = live \cup {issued'} /\ valid' = valid \cup {issued'}
    /\ m8' = [m8 EXCEPT ![p] = [@ EXCEPT !.at = "put", !.asks = issued']]
    /\ UNCHANGED <<file, flock, lost, replayed>>

\* put_token and what finish() then sets; the file is read again next time.
PutToken(p) ==
    /\ m8[p].at = "put" /\ flock = None
    /\ Put(m8[p].asks)
    /\ m8' = [m8 EXCEPT ![p] = [@ EXCEPT !.at = "idle", !.token = m8[p].asks, !.loaded = FALSE]]
    /\ UNCHANGED <<flock, server, lost, replayed>>

\* A file without the token is not written.
ForgetToken == IF store = 0 THEN UNCHANGED file ELSE Put(0)

Logout(p) ==
    /\ m8[p].at = "idle" /\ flock = None
    /\ ForgetToken
    /\ m8' = [m8 EXCEPT ![p].token = 0, ![p].loaded = FALSE]
    /\ UNCHANGED <<flock, server, lost, replayed>>

\* A process dies anywhere; its lock goes with it.
Crash(p) ==
    /\ m8[p].at # "idle" /\ m8' = [m8 EXCEPT ![p] = Fresh]
    /\ flock' = IF flock = p THEN None ELSE flock
    /\ lost' = (lost \/ m8[p].at = "answered")
    /\ UNCHANGED <<file, server, replayed>>

Expires == valid # {} /\ valid' = {} /\ UNCHANGED <<file, flock, m8, issued, live, lost, replayed>>

Next ==
    \/ \E p \in Processes :
          \/ Request(p) \/ Renew(p) \/ Lock(p) \/ Refreshed(p) \/ Unreached(p)
          \/ SaveToken(p) \/ Unlock(p) \/ Stamp(p) \/ BeginLogin(p) \/ LoginFails(p)
          \/ Exchange(p) \/ PutToken(p) \/ Logout(p) \/ Crash(p)
    \/ Expires
Spec == Init /\ [][Next]_vars

----------------------------------------------------------------------------
Places == {"idle", "rejected", "lock", "asking", "answered", "unlock", "renewed", "stamp",
           "browser", "put"}

TypeOK ==
    /\ {store, issued} \subseteq 0..MaxGrants /\ written \in Nat
    /\ flock \in Processes \cup {None}
    /\ \A p \in Processes : m8[p].at \in Places /\ {m8[p].token, m8[p].asks} \subseteq 0..MaxGrants
    /\ live \subseteq 1..MaxGrants /\ valid \subseteq 1..MaxGrants
    /\ {lost, replayed} \subseteq BOOLEAN

\* credential_store.h:39-40: "two m8 processes refreshing the same token cannot
\* lose a rotated refresh token between them".  Unless an answer or a save is
\* lost outright, the file holds a token the server still honours (or one m8,
\* under the lock, has its successor in hand), and no m8 ever shows the server
\* one that is spent -- crashes, logins and logouts in between included; only the
\* holder of the lock is at it.
NoTokenLost ==
    /\ \A p \in Processes :
          m8[p].at \in {"asking", "answered", "unlock", "renewed"} => flock = p
    /\ ~lost => /\ ~replayed
                /\ store # 0 => \/ store \in live
                                \/ \E p \in Processes : flock = p /\ m8[p].at = "answered"

----------------------------------------------------------------------------
\* Why it holds: an invariant that every step keeps.

\* Who is about to write a token of its own: the server honours it, the file has
\* not got it, and no other m8 has.
Holding(p) == m8[p].at \in {"answered", "put"}

Copies == [at : Places, token : 0..MaxGrants, loaded : BOOLEAN, stamp : Nat,
           asks : 0..MaxGrants]

TokenInv ==
    /\ m8 \in [Processes -> Copies]
    /\ issued >= 1 /\ store <= issued /\ \A g \in live : g <= issued
    /\ \A p \in Processes :
          /\ m8[p].at = "asking" => m8[p].asks = store /\ store # 0
          /\ Holding(p) => m8[p].asks \in live /\ m8[p].asks # store
          /\ \A q \in Processes :
                p # q /\ Holding(p) /\ Holding(q) => m8[p].asks # m8[q].asks

IInv == TypeOK /\ TokenInv /\ NoTokenLost
=============================================================================
