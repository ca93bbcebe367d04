--------------------------- MODULE StdioTransport ---------------------------
(***************************************************************************)
(* MCP over a child's stdin and stdout: requests waiting for their replies,  *)
(* deadlines, the pause while the server's own request is with a human, the  *)
(* server's exit, and the shutdown ladder.                                   *)
(* src/core/mcp/stdio_transport.cpp.                                        *)
(*                                                                         *)
(* Callers, the I/O thread, the worker and the server take steps; a step is  *)
(* what mMutex covers.  A line is written and handled in one step: the pipes  *)
(* are in order, so a line under way is a line not yet sent.                 *)
(***************************************************************************)
EXTENDS Naturals, FiniteSets

CONSTANTS
    Requests,
    Timeout,      \* a request's timeout, in ticks
    MaxLifetime,  \* kMaxRequestLifetime
    MaxTime,      \* bound: ticks
    MaxAsks       \* bound: requests of the server

VARIABLES
    mPending, mOutbox,   \* requests waiting for a reply; lines to be written
    seen,                \* requests the server has read
    reply,               \* what each promise was given
    mClosing, mDead,
    io,                  \* the I/O thread: loop, the ladder's rungs, dead, ended
    server,              \* running, exited, reaped
    worker, mInbox, asked,  \* worker_loop, requests waiting for it, all of them
    now, sentAt, deadline,
    mInteractionStarted,
    active, progressed   \* ticks since it was last heard of with no human
                         \* asked; whether it saw progress

requestVars == <<mPending, mOutbox, seen, reply>>
timeVars == <<now, sentAt, deadline, mInteractionStarted, active, progressed>>
workerVars == <<worker, mInbox, asked>>
vars == <<requestVars, mClosing, mDead, io, server, workerVars, timeVars>>

Init ==
    /\ mPending = {} /\ mOutbox = {} /\ seen = {}
    /\ reply = [r \in Requests |-> "none"]
    /\ mClosing = FALSE /\ mDead = FALSE
    /\ io = "loop" /\ server = "running"
    /\ worker = "waiting" /\ mInbox = 0 /\ asked = 0
    /\ now = 0 /\ mInteractionStarted = 0
    /\ sentAt = [r \in Requests |-> 0]
    /\ deadline = [r \in Requests |-> 0]
    /\ active = [r \in Requests |-> 0]
    /\ progressed = {}

Unsent(r) == reply[r] = "none" /\ r \notin mPending
Settle(rs, how) ==
    /\ reply' = [r \in Requests |-> IF r \in rs THEN how ELSE reply[r]]
    /\ mPending' = mPending \ rs
Lesser(a, b) == IF a < b THEN a ELSE b
Interacting == worker = "asking"

Tick ==
    /\ now < MaxTime /\ now' = now + 1
    /\ active' = [r \in Requests |->
                    active[r] + (IF r \in mPending /\ ~Interacting THEN 1 ELSE 0)]
    /\ UNCHANGED <<requestVars, mClosing, mDead, io, server, workerVars, sentAt,
                   deadline, mInteractionStarted, progressed>>

----------------------------------------------------------------------------
\* Callers.

Send(r) ==
    /\ Unsent(r)
    /\ IF mDead \/ mClosing
       THEN reply' = [reply EXCEPT ![r] = "refused"]
            /\ UNCHANGED <<mPending, mOutbox, sentAt, deadline>>
       ELSE /\ mPending' = mPending \cup {r} /\ mOutbox' = mOutbox \cup {r}
            /\ sentAt' = [sentAt EXCEPT ![r] = now]
            /\ deadline' = [deadline EXCEPT ![r] = now + Timeout]
            /\ UNCHANGED reply
    /\ UNCHANGED <<seen, mClosing, mDead, io, server, workerVars, now,
                   mInteractionStarted, active, progressed>>

BeginClose ==
    /\ ~mClosing /\ mClosing' = TRUE
    /\ UNCHANGED <<requestVars, mDead, io, server, workerVars, timeVars>>

----------------------------------------------------------------------------
\* The I/O thread: lines out and in, deadlines.

Reading == io = "loop" /\ server = "running"

\* A server that stopped reading (EPIPE) loses what was queued, not what it has read.
Discarded == mOutbox' = {} /\ UNCHANGED seen

WriteLine ==
    /\ io = "loop" /\ mOutbox # {}
    /\ \/ /\ server = "running"
          /\ \E r \in mOutbox : mOutbox' = mOutbox \ {r} /\ seen' = seen \cup {r}
       \/ Discarded
    /\ UNCHANGED <<mPending, reply, mClosing, mDead, io, server, workerVars, timeVars>>

\* handle_line: a reply; one to something given up on is dropped.
HandleReply(r) ==
    /\ Reading /\ r \in seen
    /\ seen' = seen \ {r}
    /\ Settle({r} \cap mPending, "answered")
    /\ UNCHANGED <<mOutbox, mClosing, mDead, io, server, workerVars, timeVars>>

\* handle_line: progress extends the deadline, up to a ceiling by the clock on the
\* wall: what a person took before it is not given back.
HandleProgress(r) ==
    /\ Reading /\ r \in seen \cap mPending
    /\ deadline' = [deadline EXCEPT ![r] = Lesser(now + Timeout, sentAt[r] + MaxLifetime)]
    /\ progressed' = progressed \cup {r} /\ active' = [active EXCEPT ![r] = 0]
    /\ UNCHANGED <<requestVars, mClosing, mDead, io, server, workerVars, now, sentAt,
                   mInteractionStarted>>

\* handle_line: a request of the server, for the worker.
HandleAsk ==
    /\ Reading /\ asked < MaxAsks
    /\ asked' = asked + 1 /\ mInbox' = mInbox + 1
    /\ UNCHANGED <<requestVars, mClosing, mDead, io, server, worker, timeVars>>

\* read_stdout: a line too large may have been any request's reply.
DropLine ==
    /\ Reading /\ seen # {}
    /\ Settle(mPending, "dropped")
    /\ UNCHANGED <<mOutbox, seen, mClosing, mDead, io, server, workerVars, timeVars>>

Late(r) == ~Interacting /\ now >= deadline[r]

\* expire(): the caller's cancel flag, or the deadline.
Expire(r) ==
    /\ io \in {"loop", "stdin", "term", "kill"} /\ r \in mPending
    /\ \/ Late(r) /\ Settle({r}, "late")
       \/ Settle({r}, "cancelled")
    /\ UNCHANGED <<mOutbox, seen, mClosing, mDead, io, server, workerVars, timeVars>>

----------------------------------------------------------------------------
\* The server's end, and ours.

ServerExits ==
    /\ server = "running" /\ server' = "exited"
    /\ UNCHANGED <<requestVars, mClosing, mDead, io, workerVars, timeVars>>

\* Fault: the exit is not recorded for the callers to see.
SeeExitUnmarked ==
    /\ io = "loop" /\ ~mClosing /\ server = "exited"
    /\ server' = "reaped" /\ io' = "dead"
    /\ UNCHANGED <<requestVars, mClosing, mDead, workerVars, timeVars>>

\* stdout is at its end: the process is reaped (killed if it must be) and from
\* here on nothing is accepted.
SeeExit ==
    /\ io = "loop" /\ ~mClosing /\ server = "exited"
    /\ server' = "reaped" /\ mDead' = TRUE /\ io' = "dead"
    /\ UNCHANGED <<requestVars, mClosing, workerVars, timeVars>>

\* Closing: stdin is closed, what waits is failed.
CloseStdin ==
    /\ io = "loop" /\ mClosing
    /\ io' = "stdin" /\ mOutbox' = {}
    /\ Settle(mPending, "closed")
    /\ UNCHANGED <<seen, mClosing, mDead, server, workerVars, timeVars>>

\* Fault: the ladder has no last rung.
SignalPolitely ==
    /\ io = "stdin" /\ io' = "term"
    /\ UNCHANGED <<requestVars, mClosing, mDead, server, workerVars, timeVars>>

\* The ladder waits after each rung; SIGKILL cannot be refused.
Signal ==
    /\ io \in {"stdin", "term"}
    /\ io' = IF io = "stdin" THEN "term" ELSE "kill"
    /\ server' = IF io = "term" /\ server = "running" THEN "exited" ELSE server
    /\ UNCHANGED <<requestVars, mClosing, mDead, workerVars, timeVars>>

LadderEnds ==
    /\ io \in {"stdin", "term", "kill"} /\ server = "exited"
    /\ server' = "reaped" /\ mDead' = TRUE /\ io' = "dead"
    /\ UNCHANGED <<requestVars, mClosing, workerVars, timeVars>>

\* fail_all(), once mDead is set.
IoEnds ==
    /\ io = "dead" /\ io' = "ended"
    /\ Settle(mPending, "exited")
    /\ UNCHANGED <<mOutbox, seen, mClosing, mDead, server, workerVars, timeVars>>

----------------------------------------------------------------------------
\* The worker: one request of the server at a time, with a human perhaps.

WorkerTakes ==
    /\ worker = "waiting" /\ mInbox > 0
    /\ worker' = "asking" /\ mInbox' = mInbox - 1
    /\ mInteractionStarted' = now
    /\ UNCHANGED <<requestVars, mClosing, mDead, io, server, asked, now, sentAt,
                   deadline, active, progressed>>

\* Fault: the time the human took is not given back.
WorkerForgetsPause ==
    /\ worker = "asking" /\ worker' = "waiting"
    /\ mInteractionStarted' = 0
    /\ UNCHANGED <<requestVars, mClosing, mDead, io, server, mInbox, asked, now,
                   sentAt, deadline, active, progressed>>

WorkerDone ==
    /\ worker = "asking" /\ worker' = "waiting"
    /\ deadline' = [r \in Requests |->
                      IF r \in mPending THEN deadline[r] + (now - mInteractionStarted)
                                        ELSE deadline[r]]
    /\ mInteractionStarted' = 0
    /\ UNCHANGED <<requestVars, mClosing, mDead, io, server, mInbox, asked, now,
                   sentAt, active, progressed>>

WorkerEnds ==
    /\ worker = "waiting" /\ mInbox = 0 /\ (mDead \/ mClosing)
    /\ worker' = "ended"
    /\ UNCHANGED <<requestVars, mClosing, mDead, io, server, mInbox, asked, timeVars>>

IoStep == SeeExit \/ CloseStdin \/ Signal \/ LadderEnds \/ IoEnds
WorkerStep == WorkerTakes \/ WorkerDone \/ WorkerEnds

Next ==
    \/ \E r \in Requests : Send(r) \/ HandleReply(r) \/ HandleProgress(r) \/ Expire(r)
    \/ Tick \/ BeginClose \/ WriteLine \/ HandleAsk \/ DropLine \/ ServerExits
    \/ IoStep \/ WorkerStep
Spec == Init /\ [][Next]_vars

\* Both threads are scheduled, and a human asked answers in the end.
FairSpec == Spec /\ WF_vars(IoStep) /\ WF_vars(WorkerStep)

----------------------------------------------------------------------------
TypeOK ==
    /\ mPending \cup progressed \subseteq Requests /\ mOutbox \subseteq Requests /\ seen \subseteq Requests
    /\ reply \in [Requests -> {"none", "answered", "late", "cancelled", "dropped",
                               "closed", "exited", "refused"}]
    /\ {mClosing, mDead} \subseteq BOOLEAN
    /\ io \in {"loop", "stdin", "term", "kill", "dead", "ended"}
    /\ server \in {"running", "exited", "reaped"}
    /\ worker \in {"waiting", "asking", "ended"}
    /\ mInbox \in 0..MaxAsks /\ asked \in 0..MaxAsks
    /\ now \in 0..MaxTime /\ mInteractionStarted \in 0..MaxTime
    /\ \A f \in {sentAt, deadline, active} : f \in [Requests -> Nat]

\* Once the I/O thread is gone nobody waits for it: a request sent while the
\* server's exit was being dealt with is failed or refused; and no process is
\* left behind.
NothingLeftBehind ==
    io = "ended" => mPending = {} /\ server = "reaped"

\* A request times out only while nobody is asked, and only for its whole timeout,
\* since it was sent or last heard of, of time in which nobody was.  The exception
\* is a request that got progress: it also ends with its lifetime on the wall
\* clock, whoever was asked meanwhile (stdio_transport.cpp:320).
TimedOutForItsOwnTime ==
    \A r \in Requests :
        reply'[r] = "late" /\ reply[r] # "late" =>
            /\ ~Interacting
            /\ \/ active[r] >= Timeout
               \/ r \in progressed /\ now >= sentAt[r] + MaxLifetime

\* Closing, and the server's own end, finish: both threads end, and every
\* request that waited has come back.
Ending == mClosing \/ server = "exited"
Ended == io = "ended" /\ worker = "ended" /\ mPending = {}

----------------------------------------------------------------------------
\* Why these hold: an invariant that every step keeps.

\* A request can only be sent while the I/O thread is there to fail it.
EndInv ==
    /\ io \in {"dead", "ended"} => mDead /\ server = "reaped"
    /\ NothingLeftBehind

\* What the worker will add to the deadline of a request that waits.
Asking == IF Interacting THEN now - mInteractionStarted ELSE 0

\* A waiting request has its timeout still before it, but for the time it waited
\* with nobody asked, or, once it got progress, its lifetime.
ClockInv ==
    /\ mInteractionStarted <= now /\ mInbox <= asked
    /\ \A r \in mPending :
          \/ now + Timeout <= deadline[r] + active[r] + Asking
          \/ r \in progressed /\ sentAt[r] + MaxLifetime <= deadline[r]

IInv == TypeOK /\ EndInv /\ ClockInv
=============================================================================
