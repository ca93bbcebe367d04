---------------------------- MODULE LoginPrompt ----------------------------
(***************************************************************************)
(* m8's question whether to log in to a server an agent's call found it may   *)
(* not use: the prompt holds the question queue, a thread logs in, and a      *)
(* condition variable brings the link back.  The login prompt of              *)
(* src/apps/m8/main.cpp and Registry::login (core/mcp/registry.cpp).          *)
(***************************************************************************)
EXTENDS Integers, FiniteSets

CONSTANTS Callers,   \* agent threads whose calls need a login to one server
          NoOne      \* not a caller

VARIABLES
    holder,     \* who has the question queue's session
    at,         \* where each caller is
    declined,   \* login_declined has the server
    worker,     \* what each caller's login thread is doing
    link, finished, cancel,   \* the caller's locals the two threads share
    quitting    \* shutting_down, with every question cancelled

callerVars == <<holder, at, declined>>
sharedVars == <<link, finished, cancel>>
vars == <<callerVars, worker, sharedVars, quitting>>

Init ==
    /\ holder = NoOne /\ declined = FALSE /\ quitting = FALSE
    /\ at = [c \in Callers |-> "call"]
    /\ worker = [c \in Callers |-> "none"]
    /\ link = [c \in Callers |-> FALSE]
    /\ finished = [c \in Callers |-> FALSE]
    /\ cancel = [c \in Callers |-> FALSE]

Go(c, where) == at' = [at EXCEPT ![c] = where]
Worker(c, what) == worker' = [worker EXCEPT ![c] = what]

----------------------------------------------------------------------------
\* The prompt.

\* Fault: the person's no is not looked up again once the queue is free.
BeginThenAsk(c) ==
    /\ at[c] = "call" /\ holder = NoOne
    /\ IF quitting
       THEN Go(c, "over") /\ UNCHANGED holder
       ELSE Go(c, "ask") /\ holder' = c
    /\ UNCHANGED <<declined, worker, sharedVars, quitting>>

\* interactions.begin(), and then the reasons not to ask.
Begin(c) ==
    /\ at[c] = "call" /\ holder = NoOne
    /\ IF quitting \/ declined
       THEN Go(c, "over") /\ UNCHANGED holder
       ELSE Go(c, "ask") /\ holder' = c
    /\ UNCHANGED <<declined, worker, sharedVars, quitting>>

\* No, Esc, or the end of the program: the server is not asked about again.
No(c) ==
    /\ at[c] = "ask"
    /\ declined' = TRUE
    /\ holder' = NoOne /\ Go(c, "over")
    /\ UNCHANGED <<worker, sharedVars, quitting>>

\* Yes: the worker starts.
Yes(c) ==
    /\ at[c] = "ask" /\ ~quitting
    /\ Worker(c, "begin")
    /\ Go(c, "check")
    /\ UNCHANGED <<holder, declined, sharedVars, quitting>>

\* link_ready.wait(): the predicate is looked at with link_mutex held ...
Check(c) ==
    /\ at[c] = "check"
    /\ Go(c, IF link[c] THEN "show" ELSE IF finished[c] THEN "join" ELSE "block")
    /\ UNCHANGED <<holder, declined, worker, sharedVars, quitting>>

\* ... which block() gives back in the same step; only a notify gets it out.
Block(c) ==
    /\ at[c] = "block"
    /\ Go(c, "blocked")
    /\ UNCHANGED <<holder, declined, worker, sharedVars, quitting>>

\* ask_until(): the link is shown until the login is finished ...
Withdrawn(c) ==
    /\ at[c] = "show" /\ finished[c]
    /\ Go(c, "join")
    /\ UNCHANGED <<holder, declined, worker, sharedVars, quitting>>

\* ... or the person, or the end of the program, gives it up.
GiveUp(c) ==
    /\ at[c] = "show"
    /\ cancel' = [cancel EXCEPT ![c] = TRUE]
    /\ Go(c, "join")
    /\ UNCHANGED <<holder, declined, worker, link, finished, quitting>>

\* Fault: the prompt does not wait for a login it gave up.
LeaveWorker(c) ==
    /\ at[c] = "join" /\ (cancel[c] \/ worker[c] = "over")
    /\ Go(c, "over") /\ holder' = NoOne
    /\ UNCHANGED <<declined, worker, sharedVars, quitting>>

\* worker.join().
Join(c) ==
    /\ at[c] = "join" /\ worker[c] = "over"
    /\ Go(c, "over") /\ holder' = NoOne
    /\ UNCHANGED <<declined, worker, sharedVars, quitting>>

----------------------------------------------------------------------------
\* The login thread.  notify_all() wakes a caller that is blocked, no other.

Notify(c) == at' = [at EXCEPT ![c] = IF @ = "blocked" THEN "check" ELSE @]

\* Registry::login() finds it cannot begin: no session, no server to ask.
CannotBegin(c) ==
    /\ worker[c] = "begin"
    /\ Worker(c, "ended")
    /\ UNCHANGED <<callerVars, sharedVars, quitting>>

\* show(): the link is stored with link_mutex held, not between the predicate
\* and the wait.
ShowLink(c) ==
    /\ worker[c] = "begin" /\ at[c] # "block"
    /\ link' = [link EXCEPT ![c] = TRUE]
    /\ Worker(c, "browser") /\ Notify(c)
    /\ UNCHANGED <<holder, declined, finished, cancel, quitting>>

\* The browser comes back, the person gives up, or five minutes are over.
LoginEnds(c) ==
    /\ worker[c] = "browser"
    /\ Worker(c, "ended")
    /\ UNCHANGED <<callerVars, sharedVars, quitting>>

\* finished.store(): an atomic, without link_mutex.
StoreFinished(c) ==
    /\ worker[c] = "ended"
    /\ finished' = [finished EXCEPT ![c] = TRUE]
    /\ Worker(c, "notify")
    /\ UNCHANGED <<callerVars, link, cancel, quitting>>

NotifyFinished(c) ==
    /\ worker[c] = "notify"
    /\ Worker(c, "over") /\ Notify(c)
    /\ UNCHANGED <<holder, declined, sharedVars, quitting>>

\* The screen ends: cancel_all() answers what is asked.
Quit ==
    /\ ~quitting /\ quitting' = TRUE
    /\ UNCHANGED <<callerVars, worker, sharedVars>>

CallerStep(c) ==
    \/ Begin(c) \/ No(c) \/ Yes(c) \/ Check(c) \/ Block(c)
    \/ Withdrawn(c) \/ GiveUp(c) \/ Join(c)

WorkerStep(c) ==
    \/ CannotBegin(c) \/ ShowLink(c) \/ LoginEnds(c) \/ StoreFinished(c)
    \/ NotifyFinished(c)

Next == Quit \/ \E c \in Callers : CallerStep(c) \/ WorkerStep(c)

Spec == Init /\ [][Next]_vars

\* Threads run; the person, and the end of the program, answer a question.
FairSpec ==
    /\ Spec
    /\ \A c \in Callers : WF_vars(CallerStep(c)) /\ WF_vars(WorkerStep(c))

----------------------------------------------------------------------------
TypeOK ==
    /\ holder \in Callers \cup {NoOne} /\ {declined, quitting} \subseteq BOOLEAN
    /\ at \in [Callers -> {"call", "wait", "ask", "check", "block", "blocked",
                           "show", "join", "over"}]
    /\ worker \in [Callers -> {"none", "begin", "browser", "ended", "notify", "over"}]
    /\ {link, finished, cancel} \subseteq [Callers -> BOOLEAN]

\* A login thread never outlives the locals of the prompt it was given by
\* reference.
WorkerIsJoined == \A c \in Callers : at[c] = "over" => worker[c] \in {"none", "over"}

\* "A server the person says no to is not asked about again this run", also by a
\* call that was already waiting for its turn to ask.
AsksOnce == \A c \in Callers : declined /\ at'[c] = "ask" => at[c] = "ask"

\* "ask, and log in while the answer box waits with the link (Esc gives up)":
\* a prompt that was begun comes to its end.
PromptEnds == \A c \in Callers : at[c] = "check" ~> at[c] = "over"

----------------------------------------------------------------------------
\* Why it is joined: an invariant that every step keeps.

\* There is a login thread only once the person said yes.
WorkerInv == \A c \in Callers : at[c] \in {"call", "ask"} => worker[c] = "none"

IInv == TypeOK /\ WorkerInv /\ WorkerIsJoined
=============================================================================
