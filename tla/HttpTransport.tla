--------------------------- MODULE HttpTransport ----------------------------
(***************************************************************************)
(* One request over streamable HTTP: the POST, a renewed login, the stream    *)
(* that ends early and is resumed, the deadline that stands still while a     *)
(* person answers the server; the stream of notifications beside it; and      *)
(* close(), which ends the session and waits for everything in flight.        *)
(* src/core/mcp/http_transport.cpp.                                          *)
(*                                                                         *)
(* libcurl, headers and bodies are left out: what is kept of an exchange is   *)
(* how it ended.                                                            *)
(***************************************************************************)
EXTENDS Naturals

CONSTANTS
    Timeout, MaxLifetime,   \* a request's timeout, kMaxRequestLifetime (ticks)
    MaxResumes,             \* kMaxResumes
    MaxTime, MaxAsks        \* bounds: ticks, requests of the server

VARIABLES
    era, mSessionId,           \* legacy or modern; whether there is a session
    mClosing, mDead,
    request,                   \* exchange(): place, reply, renewed, resumes, stream id
    server,                    \* how often it ran the request, listen()'s stream
    worker, mInbox, asked,     \* worker_loop; the server's requests
    closer, closed,            \* delete_session; wait_closed has returned
    now, clock,                \* clock: started, deadline, paused_at_start
    mPaused, mInteractionStarted,
    quiet, total               \* ticks no human was asked: since progress, in all

closing == <<mClosing, closer, closed>>
working == <<worker, mInbox, asked>>
timing == <<now, clock, mPaused, mInteractionStarted, quiet, total>>
vars == <<era, mSessionId, mDead, request, server, closing, working, timing>>

Init ==
    /\ era \in {"legacy", "modern"} /\ mSessionId \in {FALSE, era = "legacy"}
    /\ mClosing = FALSE /\ mDead = FALSE
    /\ request = [at |-> "idle", reply |-> "none", renewed |-> FALSE, resumes |-> 0,
                  eventId |-> FALSE]
    /\ server = [runs |-> 0, running |-> FALSE, heard |-> FALSE]
    /\ worker = "waiting" /\ mInbox = 0 /\ asked = 0
    /\ closer = "none" /\ closed = FALSE
    /\ now = 0 /\ clock = [started |-> 0, deadline |-> 0, pausedAtStart |-> 0]
    /\ mPaused = 0 /\ mInteractionStarted = 0 /\ quiet = 0 /\ total = 0

Alive == ~mClosing /\ ~mDead
InFlight == request.at \notin {"idle", "done"} \/ worker = "posting" \/ server.heard
OnWire == request.at \in {"post", "get"}
Waiting == request.at \in {"post", "get", "pause"}
Finish(reply) == request' = [request EXCEPT !.at = "done", !.reply = reply]
Lesser(a, b) == IF a < b THEN a ELSE b

Tick ==
    /\ now < MaxTime /\ now' = now + 1
    /\ IF Waiting /\ worker # "asking" THEN quiet' = quiet + 1 /\ total' = total + 1
       ELSE UNCHANGED <<quiet, total>>
    /\ UNCHANGED <<era, mSessionId, mDead, request, server, closing, working,
                   clock, mPaused, mInteractionStarted>>

----------------------------------------------------------------------------
\* exchange(), on the calling thread.

Send ==
    /\ request.at = "idle"
    /\ IF Alive
       THEN /\ request' = [request EXCEPT !.at = "post"]
            /\ clock' = [started |-> now, deadline |-> now + Timeout,
                         pausedAtStart |-> mPaused]
       ELSE Finish("exited") /\ UNCHANGED clock
    /\ UNCHANGED <<era, mSessionId, mDead, server, closing, working, now, mPaused,
                   mInteractionStarted, quiet, total>>

\* The server takes the request up: what it answers comes later.
ServerRuns ==
    /\ request.at = "post" /\ ~server.running
    /\ server' = [server EXCEPT !.runs = @ + 1, !.running = TRUE]
    /\ UNCHANGED <<era, mSessionId, mDead, request, closing, working, timing>>

Answered ==
    /\ OnWire /\ server.running /\ Finish("ok")
    /\ server' = [server EXCEPT !.running = FALSE]
    /\ UNCHANGED <<era, mSessionId, mDead, closing, working, timing>>

\* HTTP 401: a POST that was refused, not run, goes once more after a renewal.
Unauthorized ==
    /\ OnWire /\ (request.at = "post" => ~server.running)
    /\ \/ /\ ~request.renewed /\ request.at = "post"
          /\ request' = [request EXCEPT !.renewed = TRUE]
       \/ Finish("auth")
    /\ UNCHANGED <<era, mSessionId, mDead, server, closing, working, timing>>

\* HTTP 404 with a session, to a POST not yet taken up or to a GET that would
\* resume: the server forgot the session, at any time before, and the transport is
\* done with.
SessionGone ==
    /\ OnWire /\ (request.at = "post" => ~server.running)
    /\ mSessionId /\ mDead' = TRUE /\ Finish("expired")
    /\ UNCHANGED <<era, mSessionId, server, closing, working, timing>>

\* No network, a status that is none of these, too large a body.
Failed ==
    /\ OnWire /\ Finish("failed")
    /\ UNCHANGED <<era, mSessionId, mDead, server, closing, working, timing>>

\* An event: its id is where a resumed stream would go on.
Progress ==
    /\ OnWire /\ server.running
    /\ clock' = [clock EXCEPT !.deadline =
                   Lesser(now + Timeout, clock.started + MaxLifetime)]
    /\ quiet' = 0
    /\ \E id \in BOOLEAN : request' = [request EXCEPT !.eventId = @ \/ id]
    /\ UNCHANGED <<era, mSessionId, mDead, server, closing, working, now,
                   mPaused, mInteractionStarted, total>>

\* A legacy server's own request, on the stream of ours or of its notifications.
ServerAsks ==
    /\ (OnWire /\ server.running) \/ server.heard
    /\ asked < MaxAsks /\ asked' = asked + 1
    /\ mInbox' = IF mClosing \/ era = "modern" THEN mInbox ELSE mInbox + 1
    /\ UNCHANGED <<era, mSessionId, mDead, request, server, closing, worker,
                   timing>>

\* Fault: the request is posted again where its stream should be resumed.
ResumeByPost ==
    request' = [request EXCEPT !.at = "post", !.resumes = @ + 1]
    /\ server' = [server EXCEPT !.running = FALSE]

\* The stream is asked for again with a GET.
Resume == request' = [request EXCEPT !.at = "get", !.resumes = @ + 1] /\ UNCHANGED server

\* The stream ends before the answer: a legacy one that gave ids is resumed.
StreamEnds ==
    /\ OnWire /\ server.running
    /\ IF era = "legacy" /\ request.eventId /\ request.resumes < MaxResumes
       THEN request' = [request EXCEPT !.at = "pause"]
       ELSE Finish("ended")
    /\ UNCHANGED <<era, mSessionId, mDead, server, closing, working, timing>>

RetryDue ==
    /\ request.at = "pause" /\ Resume
    /\ UNCHANGED <<era, mSessionId, mDead, closing, working, timing>>

\* Fault: the pause is not given back.
LateByTheClock == now >= clock.deadline

Late == worker # "asking" /\ now >= clock.deadline + (mPaused - clock.pausedAtStart)

\* transfer()'s checks, a slice at a time: the deadline, the caller's cancel.
\* A legacy server is told.
GiveUp(reply) ==
    /\ Waiting
    /\ request' = [request EXCEPT !.reply = reply,
                     !.at = IF era = "legacy" THEN "telling" ELSE "done"]
    /\ UNCHANGED <<era, mSessionId, mDead, server, closing, working, timing>>

Expires == Late /\ GiveUp("late")
Cancelled == GiveUp("cancelled")

\* Fault: close() does not end a transfer.
OnlyBetweenStreams ==
    /\ mClosing /\ request.at = "pause" /\ Finish("cancelled")
    /\ UNCHANGED <<era, mSessionId, mDead, server, closing, working, timing>>

StopsForClose ==
    /\ mClosing /\ Waiting /\ Finish("cancelled")
    /\ UNCHANGED <<era, mSessionId, mDead, server, closing, working, timing>>

\* cancel_on_wire: a POST of its own, timed; none once closing.
CancelOnWire ==
    /\ request.at = "telling" /\ request' = [request EXCEPT !.at = "done"]
    /\ UNCHANGED <<era, mSessionId, mDead, server, closing, working, timing>>

----------------------------------------------------------------------------
\* listen(), on the client's listener thread: a GET of the notifications of a legacy
\* server, in flight like a request, for as long as it lasts.

Listen ==
    /\ Alive /\ era = "legacy" /\ ~server.heard /\ server' = [server EXCEPT !.heard = TRUE]
    /\ UNCHANGED <<era, mSessionId, mDead, request, closing, working, timing>>

\* There is none, it breaks, the listener is told to stop.
ListenEnds ==
    /\ server.heard /\ server' = [server EXCEPT !.heard = FALSE]
    /\ UNCHANGED <<era, mSessionId, mDead, request, closing, working, timing>>

----------------------------------------------------------------------------
\* The worker answers the server's requests, one at a time.

WorkerTakes ==
    /\ worker = "waiting" /\ ~mClosing /\ mInbox > 0
    /\ worker' = "asking" /\ mInbox' = mInbox - 1 /\ mInteractionStarted' = now
    /\ UNCHANGED <<era, mSessionId, mDead, request, server, closing, asked, now,
                   clock, mPaused, quiet, total>>

PersonAnswers ==
    /\ worker = "asking" /\ mPaused' = mPaused + (now - mInteractionStarted)
    /\ worker' = IF Alive THEN "posting" ELSE "waiting"
    /\ UNCHANGED <<era, mSessionId, mDead, request, server, closing, mInbox, asked,
                   now, clock, mInteractionStarted, quiet, total>>

WorkerPosted ==
    /\ worker = "posting" /\ worker' = "waiting"
    /\ UNCHANGED <<era, mSessionId, mDead, request, server, closing, mInbox, asked,
                   timing>>

WorkerEnds ==
    /\ worker = "waiting" /\ mClosing /\ worker' = "ended"
    /\ UNCHANGED <<era, mSessionId, mDead, request, server, closing, mInbox, asked,
                   timing>>

----------------------------------------------------------------------------
EndSession == mSessionId /\ ~mDead /\ era # "modern"

BeginClose ==
    /\ ~mClosing /\ mClosing' = TRUE
    /\ closer' = IF EndSession THEN "deleting" ELSE "none"
    /\ UNCHANGED <<era, mSessionId, mDead, request, server, closed, working, timing>>

\* delete_session: the server may refuse (405), or not be reached in time.
DeleteSession ==
    /\ closer = "deleting" /\ closer' = "done"
    /\ UNCHANGED <<era, mSessionId, mDead, request, server, mClosing, closed, working, timing>>

WaitClosed ==
    /\ mClosing /\ ~closed /\ closer # "deleting" /\ ~InFlight /\ worker = "ended"
    /\ closed' = TRUE
    /\ UNCHANGED <<era, mSessionId, mDead, request, server, mClosing, closer,
                   working, timing>>

ServerStep == ServerRuns \/ Answered \/ Unauthorized \/ SessionGone \/ Failed \/ Progress
              \/ ServerAsks \/ StreamEnds \/ ListenEnds
Local == StopsForClose \/ (mClosing /\ ListenEnds) \/ CancelOnWire \/ DeleteSession \/ WaitClosed
Worker == WorkerTakes \/ PersonAnswers \/ WorkerPosted \/ WorkerEnds
Next == Tick \/ Send \/ Listen \/ RetryDue \/ Expires \/ Cancelled \/ ServerStep \/ Local
        \/ Worker \/ BeginClose
Spec == Init /\ [][Next]_vars

\* Threads run and posts are timed; a person answers, or the app cancels the
\* question.  Nothing is assumed of the server or of the clock.
FairSpec == Spec /\ WF_vars(Local) /\ WF_vars(Worker)

----------------------------------------------------------------------------
Replies == {"none", "ok", "exited", "auth", "expired", "failed", "ended", "late", "cancelled"}

TypeOK ==
    /\ era \in {"legacy", "modern"}
    /\ {mSessionId, mClosing, mDead, closed} \subseteq BOOLEAN
    /\ request \in [at : {"idle", "post", "get", "pause", "telling", "done"},
                    reply : Replies, renewed : BOOLEAN, resumes : 0..MaxResumes,
                    eventId : BOOLEAN]
    /\ server \in [runs : Nat, running : BOOLEAN, heard : BOOLEAN]
    /\ worker \in {"waiting", "asking", "posting", "ended"} /\ {mInbox, asked} \subseteq 0..MaxAsks
    /\ closer \in {"none", "deleting", "done"}
    /\ {now, mInteractionStarted, mPaused, quiet, total} \subseteq 0..MaxTime
    /\ clock.pausedAtStart <= mPaused

\* However often a login is renewed or the stream resumed, one request() has the
\* server run it at most once; and where it is reported back as one whose session
\* expired, which the client sends again, it was not run, unless the session went
\* between a stream that ended early and the GET that resumed it.
RunsOnce ==
    /\ server.runs <= 1
    /\ request.reply = "expired" /\ server.runs = 1 => request.resumes > 0

\* http_transport.h:138-139: "While a person answers a server's request, nothing
\* times out; the pause is credited to every request that was waiting through
\* it."  A request times out only for time nobody was being asked: its timeout
\* since it began or was last heard of, or its whole lifetime.
TimedOutForItsOwnTime ==
    request'.reply = "late" /\ request.reply # "late" =>
        worker # "asking" /\ (quiet >= Timeout \/ total >= MaxLifetime)

\* close() ends, whatever the server does.
Closing == mClosing
IsClosed == closed

\* Once close() is back no request, stream or thread of the transport is on its way.
ClosedIsQuiet == closed => ~InFlight /\ worker = "ended" /\ closer # "deleting"

----------------------------------------------------------------------------
\* Why these hold: an invariant that every step keeps.

\* The server has the request at most once, and while it has not run it, the
\* request may still be posted; a GET is always a stream resumed.
RunInv ==
    /\ server.runs \in {0, 1}
    /\ server.runs = 1 => request.at # "idle" /\ (request.at = "post" => server.running)
    /\ request.at = "pause" => request.resumes < MaxResumes
    /\ request.at = "get" => request.resumes > 0
    /\ request.reply = "expired" => request.at = "done"
    /\ RunsOnce

CloseInv ==
    /\ ClosedIsQuiet
    /\ closed => mClosing

\* What a request that waits has been or will be given back of the time it waited.
Asking == IF worker = "asking" THEN now - mInteractionStarted ELSE 0
Credit == mPaused - clock.pausedAtStart + Asking

\* A waiting request had its timeout since it was last heard of, or its whole
\* lifetime, in time of its own and in time it is credited.
ClockInv ==
    /\ clock \in [started : Nat, deadline : Nat, pausedAtStart : Nat]
    /\ mInteractionStarted <= now /\ mPaused + Asking <= now
    /\ quiet <= now /\ total <= now /\ mInbox <= asked
    /\ Waiting =>
          /\ now <= clock.started + total + Credit
          /\ \/ now + Timeout <= clock.deadline + quiet + Credit
             \/ now + MaxLifetime <= clock.deadline + total + Credit

IInv == TypeOK /\ RunInv /\ CloseInv /\ ClockInv
=============================================================================
