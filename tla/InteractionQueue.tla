-------------------------- MODULE InteractionQueue --------------------------
(***************************************************************************)
(* Questions from background threads for a screen that shows one at a time. *)
(* src/common/interaction_queue.cpp, with the screen's side of it from       *)
(* src/apps/m8/main.cpp.                                                     *)
(*                                                                         *)
(* Every method body runs under mMutex, so it is one step; a wait on the     *)
(* condition variable ends the step and the thread sleeps until a            *)
(* notify_all.  A notify_all or a call of the listener follows the unlock at *)
(* once and is folded into the step before it.                               *)
(***************************************************************************)
EXTENDS Integers, FiniteSets, TLAPS

CONSTANTS
    Threads,     \* the threads that open sessions, one at a time each
    MaxTickets,  \* bound: sessions begun
    MaxIds       \* bound: questions asked

ASSUME QueueAssumption == MaxTickets \in Nat /\ MaxIds \in Nat

VARIABLES
    mNextTicket, mServing, mCancelled, mNextId,
    mShown,   \* id of the question on the screen, 0 for none
    mAnswer,  \* the answer to it: the id the person meant, 0 for none
    pc,       \* idle, begin, session, ask, poll or done()
    ticket,   \* the session's ticket
    asked,    \* id of the thread's latest question
    got,      \* what that call returned: an id answered, or one of the below
    asleep,   \* threads inside mChanged.wait
    drawn,    \* the id on the screen the person looks at
    posted,   \* an event is out that ends in the screen being drawn
    replying  \* the id the key handler read and is about to answer

queueVars == <<mNextTicket, mServing, mCancelled, mNextId, mShown, mAnswer>>
threadVars == <<pc, ticket, asked, got, asleep>>
screenVars == <<drawn, posted, replying>>
vars == <<queueVars, threadVars, screenVars>>

\* What a call returns without an answer, and while it has not returned.
Cancelled == -1
Withdrawn == -2
Waiting == -3

Active(t) == pc[t] # "idle"
InSession(t) == pc[t] \in {"session", "ask", "poll", "done"}
Asking(t) == pc[t] \in {"ask", "poll", "done"}

Init ==
    /\ mNextTicket = 0 /\ mServing = 0 /\ mCancelled = FALSE
    /\ mNextId = 1 /\ mShown = 0 /\ mAnswer = 0
    /\ pc = [t \in Threads |-> "idle"]
    /\ ticket = [t \in Threads |-> 0]
    /\ asked = [t \in Threads |-> 0]
    /\ got = [t \in Threads |-> Cancelled]
    /\ asleep = {}
    /\ drawn = 0 /\ posted = FALSE /\ replying = 0

\* Fault: notify_one() in place of notify_all().
NotifyOne ==
    IF asleep = {} THEN asleep' = {}
    ELSE \E t \in asleep : asleep' = asleep \ {t}

\* Fault: the listener is not called.
NoListener == UNCHANGED posted

NotifyAll == asleep' = {}
Listener == posted' = TRUE

Go(t, where) == pc' = [pc EXCEPT ![t] = where]

----------------------------------------------------------------------------
\* begin(), the destructor

Begin(t) ==
    /\ pc[t] = "idle" /\ mNextTicket < MaxTickets
    /\ ticket' = [ticket EXCEPT ![t] = mNextTicket]
    /\ mNextTicket' = mNextTicket + 1
    /\ Go(t, "begin")
    /\ UNCHANGED <<mServing, mCancelled, mNextId, mShown, mAnswer, asked, got,
                   asleep, screenVars>>

\* Fault: a session is let in one ticket early.
ServedEarly(t) == mServing + 1 >= ticket[t] \/ mCancelled

Served(t) == mServing = ticket[t] \/ mCancelled

Admit(t) ==
    /\ pc[t] = "begin" /\ t \notin asleep /\ Served(t)
    /\ Go(t, "session")
    /\ UNCHANGED <<queueVars, ticket, asked, got, asleep, screenVars>>

\* The predicate is false: back into mChanged.wait.
Sleep(t) ==
    /\ t \notin asleep
    /\ \/ pc[t] = "begin" /\ ~Served(t)
       \/ pc[t] = "ask" /\ mAnswer = 0 /\ ~mCancelled
    /\ asleep' = asleep \cup {t}
    /\ UNCHANGED <<queueVars, pc, ticket, asked, got, screenVars>>

End(t) ==
    /\ pc[t] = "session"
    /\ mServing' = IF mServing = ticket[t] THEN mServing + 1 ELSE mServing
    /\ NotifyAll
    /\ Go(t, "idle")
    /\ UNCHANGED <<mNextTicket, mCancelled, mNextId, mShown, mAnswer, ticket,
                   asked, got, screenVars>>

----------------------------------------------------------------------------
\* ask(), ask_until()

Return(t, what) ==
    /\ got' = [got EXCEPT ![t] = what]
    /\ Go(t, "session")

\* Either call on a cancelled queue.
AskCancelled(t) ==
    /\ pc[t] = "session" /\ mCancelled
    /\ asked' = [asked EXCEPT ![t] = 0]
    /\ Return(t, Cancelled)
    /\ UNCHANGED <<queueVars, ticket, asleep, screenVars>>

Show(t, how) ==
    /\ pc[t] = "session" /\ ~mCancelled /\ mNextId <= MaxIds
    /\ mShown' = mNextId
    /\ mNextId' = mNextId + 1
    /\ mAnswer' = 0
    /\ asked' = [asked EXCEPT ![t] = mNextId]
    /\ got' = [got EXCEPT ![t] = Waiting]
    /\ Go(t, how)
    /\ Listener
    /\ UNCHANGED <<mNextTicket, mServing, mCancelled, ticket, asleep, drawn, replying>>

\* Fault: the question stays on the screen after its call returned.
CollectLeavesShown(t, what) ==
    /\ Return(t, what)
    /\ mAnswer' = 0
    /\ Listener
    /\ UNCHANGED <<mNextTicket, mServing, mCancelled, mNextId, mShown, ticket,
                   asked, asleep, drawn, replying>>

\* Fault: what the call returned is left in mAnswer.
CollectLeavesAnswer(t, what) ==
    /\ Return(t, what)
    /\ mShown' = 0 /\ mAnswer' = what
    /\ Listener
    /\ UNCHANGED <<mNextTicket, mServing, mCancelled, mNextId, ticket, asked,
                   asleep, drawn, replying>>

\* The question leaves the screen and the call returns.
Collect(t, what) ==
    /\ Return(t, what)
    /\ mShown' = 0 /\ mAnswer' = 0
    /\ Listener
    /\ UNCHANGED <<mNextTicket, mServing, mCancelled, mNextId, ticket, asked,
                   asleep, drawn, replying>>

\* Fault: a cancelled queue drops the answer it already has.
CancelledFirst == IF mCancelled THEN Cancelled ELSE mAnswer

AnswerOrCancelled == IF mAnswer # 0 THEN mAnswer ELSE Cancelled

AskReturns(t) ==
    /\ pc[t] = "ask" /\ t \notin asleep
    /\ mAnswer # 0 \/ mCancelled
    /\ Collect(t, AnswerOrCancelled)

PollReturns(t) ==
    /\ pc[t] = "poll"
    /\ mAnswer # 0 \/ mCancelled
    /\ Collect(t, AnswerOrCancelled)

\* done() runs with the queue unlocked.
PollUnlocks(t) ==
    /\ pc[t] = "poll" /\ mAnswer = 0 /\ ~mCancelled
    /\ Go(t, "done")
    /\ UNCHANGED <<queueVars, ticket, asked, got, asleep, screenVars>>

\* done() said no, or an answer overtook it: around again after at most 100 ms.
DoneKeepsWaiting(t) ==
    /\ pc[t] = "done"
    /\ Go(t, "poll")
    /\ UNCHANGED <<queueVars, ticket, asked, got, asleep, screenVars>>

DoneWithdraws(t) ==
    /\ pc[t] = "done" /\ mAnswer = 0
    /\ Collect(t, Withdrawn)

----------------------------------------------------------------------------
\* The screen, one thread: it draws, handles keys, and cancels when it leaves.

Current == IF mShown = 0 \/ mAnswer # 0 \/ mCancelled THEN 0 ELSE mShown

Draw ==
    /\ ~mCancelled /\ replying = 0
    /\ drawn' = Current
    /\ posted' = FALSE
    /\ UNCHANGED <<queueVars, threadVars, replying>>

\* Return, Ctrl+D or Esc while a question waits: the handler asks the queue
\* which one it is, not the screen.
Key ==
    /\ replying = 0 /\ Current # 0
    /\ replying' = Current
    /\ UNCHANGED <<queueVars, threadVars, drawn, posted>>

\* Fault: answer() does not compare the id with the one shown.
AnswerAnything ==
    /\ replying # 0
    /\ IF mShown # 0 /\ mAnswer = 0
       THEN mAnswer' = replying /\ NotifyAll
       ELSE UNCHANGED <<mAnswer, asleep>>
    /\ replying' = 0 /\ posted' = TRUE
    /\ UNCHANGED <<mNextTicket, mServing, mCancelled, mNextId, mShown, pc,
                   ticket, asked, got, drawn>>

\* The reply, declining and cancelling among them, to a question that may be
\* gone by now; the screen is drawn after every event handled.
AnswerRead ==
    /\ replying # 0
    /\ IF mShown = replying /\ mAnswer = 0
       THEN mAnswer' = replying /\ NotifyAll
       ELSE UNCHANGED <<mAnswer, asleep>>
    /\ replying' = 0 /\ posted' = TRUE
    /\ UNCHANGED <<mNextTicket, mServing, mCancelled, mNextId, mShown, pc,
                   ticket, asked, got, drawn>>

\* Fault: cancel_all() wakes nobody.
CancelQuietly ==
    /\ ~mCancelled /\ replying = 0
    /\ mCancelled' = TRUE
    /\ Listener
    /\ UNCHANGED <<mNextTicket, mServing, mNextId, mShown, mAnswer, threadVars,
                   drawn, replying>>

CancelAll ==
    /\ ~mCancelled /\ replying = 0
    /\ mCancelled' = TRUE
    /\ NotifyAll
    /\ Listener
    /\ UNCHANGED <<mNextTicket, mServing, mNextId, mShown, mAnswer, pc, ticket,
                   asked, got, drawn, replying>>

----------------------------------------------------------------------------
ThreadStep(t) ==
    \/ Begin(t) \/ Admit(t) \/ Sleep(t) \/ End(t)
    \/ AskCancelled(t) \/ Show(t, "ask") \/ Show(t, "poll")
    \/ AskReturns(t) \/ PollReturns(t) \/ PollUnlocks(t)
    \/ DoneKeepsWaiting(t) \/ DoneWithdraws(t)

Next == (\E t \in Threads : ThreadStep(t)) \/ Draw \/ Key \/ AnswerRead \/ CancelAll

Spec == Init /\ [][Next]_vars

\* A thread that can run does, and its session ends; the screen handles
\* what it is sent.
Progress(t) ==
    \/ Admit(t) \/ Sleep(t) \/ AskReturns(t) \/ PollReturns(t)
    \/ PollUnlocks(t) \/ DoneKeepsWaiting(t)

Fairness ==
    /\ \A t \in Threads : WF_vars(Progress(t)) /\ WF_vars(End(t))
    /\ WF_vars(Draw /\ posted) /\ WF_vars(AnswerRead)

FairSpec == Spec /\ Fairness

\* The person answers whatever stays on the screen: some do.
Attended == WF_vars(Key)

----------------------------------------------------------------------------
\* Every field has the type the code gives it; mAnswer is a reply or empty.
TypeOK ==
    /\ {mNextTicket, mServing} \subseteq Nat
    /\ mNextId \in Nat \ {0}
    /\ mShown \in Nat /\ mAnswer \in Nat
    /\ mCancelled \in BOOLEAN
    /\ pc \in [Threads -> {"idle", "begin", "session", "ask", "poll", "done"}]
    /\ ticket \in [Threads -> Nat]
    /\ asked \in [Threads -> Nat]
    /\ got \in [Threads -> Nat \cup {Cancelled, Withdrawn, Waiting}]
    /\ asleep \subseteq Threads
    /\ drawn \in Nat /\ posted \in BOOLEAN /\ replying \in Nat

\* "A session holds the queue from its first question to its end, so two
\* servers' forms never interleave": never two sessions between admission and
\* end, but for those cancel_all() lets through to hear that they are cancelled.
OneSession ==
    mCancelled \/ \A s, t \in Threads : InSession(s) /\ InSession(t) => s = t

\* The question on the screen belongs to exactly one thread, which is waiting
\* for it, cancelled or not.
ShownHasOneAsker ==
    /\ \A t \in Threads : Asking(t) => mShown = asked[t]
    /\ \A s, t \in Threads : Asking(s) /\ Asking(t) => s = t
    /\ mShown # 0 => \E t \in Threads : Asking(t)

\* answer() names its question: the reply a call returns was given to the very
\* question it asked, however late it comes.
AnswerIsForItsQuestion ==
    \A t \in Threads : got[t] > 0 => got[t] = asked[t]

\* "Sessions are served in the order they began".
FirstComeFirstServed ==
    [][\A s, t \in Threads :
          ~mCancelled /\ pc[s] = "begin" /\ pc[t] = "begin"
          /\ ticket[s] < ticket[t] => pc'[t] # "session"]_vars

\* An answer the queue took is the one its asker gets: neither a login that
\* finishes just then nor cancel_all() throws it away.
TakenAnswerIsDelivered ==
    [][\A t \in Threads :
          Asking(t) /\ mAnswer # 0 /\ pc'[t] = "session" => got'[t] = mAnswer]_vars

\* "For shutdown: nothing may stay blocked on a person who has left."
CancelFreesEveryone ==
    \A t \in Threads : mCancelled /\ Active(t) ~> pc[t] \in {"idle", "session"}

\* Every session that begins is served, as long as somebody answers what is on
\* the screen.
EverySessionServed ==
    Attended => \A t \in Threads : pc[t] = "begin" ~> InSession(t)

\* Every question put gets its reply, under the same condition.
EveryQuestionReturns ==
    Attended => \A t \in Threads : Asking(t) ~> ~Asking(t)

\* The screen catches up with the queue although answer() itself tells nobody.
ScreenCatchesUp == []<>(drawn = Current \/ mCancelled)

\* Every thread gets what it waits for, and the screen what it shows.
NobodyWaitsForever ==
    CancelFreesEveryone /\ EverySessionServed /\ EveryQuestionReturns /\ ScreenCatchesUp
-----------------------------------------------------------------------------
(* Proofs, for any number of threads, sessions and questions.              *)

\* Tickets: distinct, handed out below mNextTicket, never behind mServing, and
\* before a cancellation only the one being served is inside.
TicketInv ==
    /\ mServing <= mNextTicket
    /\ \A t \in Threads :
          Active(t) => mServing <= ticket[t] /\ ticket[t] < mNextTicket
    /\ \A s, t \in Threads :
          Active(s) /\ Active(t) /\ ticket[s] = ticket[t] => s = t
    /\ ~mCancelled => \A t \in Threads : InSession(t) => ticket[t] = mServing

\* Questions: the one shown is its asker's, and the answer is to the one shown.
QuestionInv ==
    /\ ShownHasOneAsker
    /\ \A t \in Threads : Asking(t) => asked[t] # 0
    /\ mAnswer # 0 => mAnswer = mShown
    /\ AnswerIsForItsQuestion

IInv == TypeOK /\ TicketInv /\ QuestionInv

LEMMA InitIInv == Init => IInv
<1> SUFFICES ASSUME Init PROVE IInv
  OBVIOUS
<1> USE DEF Init, Cancelled, Withdrawn, Waiting
<1>1. TypeOK
  <2>1. mCancelled \in BOOLEAN /\ posted \in BOOLEAN BY Zenon
  <2> QED BY <2>1 DEF TypeOK
<1>2. TicketInv BY DEF TicketInv, Active, InSession
<1>3. QuestionInv
  BY DEF QuestionInv, ShownHasOneAsker, AnswerIsForItsQuestion, Asking
<1> QED BY <1>1, <1>2, <1>3 DEF IInv

\* Each step of a thread keeps the types.
LEMMA TypeStep == TypeOK /\ [Next]_vars => TypeOK'
<1> SUFFICES ASSUME TypeOK, [Next]_vars PROVE TypeOK'
  OBVIOUS
<1> USE DEF TypeOK, queueVars, threadVars, screenVars, Go, Cancelled, Withdrawn, Waiting
<1>1. ASSUME NEW t \in Threads, ThreadStep(t) PROVE TypeOK'
  <2>1. CASE Begin(t) BY <2>1 DEF Begin
  <2>2. CASE Admit(t) BY <2>2 DEF Admit
  <2>3. CASE Sleep(t) BY <2>3 DEF Sleep
  <2>4. CASE End(t) BY <2>4 DEF End, NotifyAll
  <2>5. CASE AskCancelled(t) BY <2>5 DEF AskCancelled, Return
  <2>6. CASE Show(t, "ask") BY <2>6 DEF Show, Listener
  <2>7. CASE Show(t, "poll") BY <2>7 DEF Show, Listener
  <2>8. CASE AskReturns(t)
    BY <2>8 DEF AskReturns, Collect, Return, AnswerOrCancelled, Listener
  <2>9. CASE PollReturns(t)
    BY <2>9 DEF PollReturns, Collect, Return, AnswerOrCancelled, Listener
  <2>10. CASE PollUnlocks(t) BY <2>10 DEF PollUnlocks
  <2>11. CASE DoneKeepsWaiting(t) BY <2>11 DEF DoneKeepsWaiting
  <2>12. CASE DoneWithdraws(t)
    BY <2>12 DEF DoneWithdraws, Collect, Return, Listener
  <2> QED BY <1>1, <2>1, <2>2, <2>3, <2>4, <2>5, <2>6, <2>7, <2>8, <2>9,
            <2>10, <2>11, <2>12 DEF ThreadStep
<1>2. CASE Draw \/ Key BY <1>2 DEF Draw, Key, Current
<1>3. CASE AnswerRead BY <1>3 DEF AnswerRead, NotifyAll
<1>4. CASE CancelAll BY <1>4 DEF CancelAll, NotifyAll, Listener
<1>5. CASE UNCHANGED vars
  <2>1. mCancelled' \in BOOLEAN /\ posted' \in BOOLEAN
    BY <1>5, Zenon DEF vars
  <2> QED BY <1>5, <2>1 DEF vars
<1> QED BY <1>1, <1>2, <1>3, <1>4, <1>5 DEF Next

LEMMA TicketStep == IInv /\ [Next]_vars => TicketInv'
<1> SUFFICES ASSUME IInv, [Next]_vars PROVE TicketInv'
  OBVIOUS
<1> USE DEF IInv, TypeOK, TicketInv, Active, InSession, queueVars, threadVars, screenVars, Go
<1>1. ASSUME NEW t \in Threads, ThreadStep(t) PROVE TicketInv'
  <2>1. CASE Begin(t) BY <2>1 DEF Begin
  <2>2. CASE Admit(t) BY <2>2 DEF Admit, Served
  <2>3. CASE Sleep(t) BY <2>3 DEF Sleep
  <2>4. CASE End(t) BY <2>4 DEF End
  <2>5. CASE AskCancelled(t) BY <2>5 DEF AskCancelled, Return
  <2>6. CASE Show(t, "ask") BY <2>6 DEF Show
  <2>7. CASE Show(t, "poll") BY <2>7 DEF Show
  <2>8. CASE AskReturns(t) BY <2>8 DEF AskReturns, Collect, Return
  <2>9. CASE PollReturns(t) BY <2>9 DEF PollReturns, Collect, Return
  <2>10. CASE PollUnlocks(t) BY <2>10 DEF PollUnlocks
  <2>11. CASE DoneKeepsWaiting(t) BY <2>11 DEF DoneKeepsWaiting
  <2>12. CASE DoneWithdraws(t) BY <2>12 DEF DoneWithdraws, Collect, Return
  <2> QED BY <1>1, <2>1, <2>2, <2>3, <2>4, <2>5, <2>6, <2>7, <2>8, <2>9,
            <2>10, <2>11, <2>12 DEF ThreadStep
<1>2. CASE Draw \/ Key BY <1>2 DEF Draw, Key
<1>3. CASE AnswerRead BY <1>3 DEF AnswerRead
<1>4. CASE CancelAll BY <1>4 DEF CancelAll
<1>5. CASE UNCHANGED vars BY <1>5 DEF vars
<1> QED BY <1>1, <1>2, <1>3, <1>4, <1>5 DEF Next

LEMMA QuestionStep == IInv /\ [Next]_vars => QuestionInv'
<1> SUFFICES ASSUME IInv, [Next]_vars PROVE QuestionInv'
  OBVIOUS
<1> USE DEF IInv, TypeOK, QuestionInv, ShownHasOneAsker, AnswerIsForItsQuestion,
            Asking, queueVars, threadVars, screenVars, Go, Cancelled, Withdrawn, Waiting
<1>1. ASSUME NEW t \in Threads, ThreadStep(t) PROVE QuestionInv'
  <2>1. CASE Begin(t) BY <2>1 DEF Begin
  <2>2. CASE Admit(t) BY <2>2 DEF Admit
  <2>3. CASE Sleep(t) BY <2>3 DEF Sleep
  <2>4. CASE End(t) BY <2>4 DEF End
  <2>5. CASE AskCancelled(t) BY <2>5 DEF AskCancelled, Return
  <2>6. ASSUME NEW how \in {"ask", "poll"}, Show(t, how) PROVE QuestionInv'
    \* Nobody else is asking: it would hold the same ticket.
    <3>1. \A s \in Threads : ~Asking(s)
      BY <2>6 DEF Show, TicketInv, Active, InSession
    <3> QED BY <2>6, <3>1 DEF Show
  <2>7. ASSUME NEW what \in {AnswerOrCancelled, Withdrawn}, Asking(t),
               Collect(t, what)
        PROVE QuestionInv'
    <3>1. \A s \in Threads : Asking(s) => s = t
      BY <2>7
    <3>2. what > 0 => what = asked[t]
      BY <2>7 DEF AnswerOrCancelled
    <3> QED BY <2>7, <3>1, <3>2 DEF Collect, Return
  <2>8. CASE AskReturns(t) BY <2>7, <2>8 DEF AskReturns
  <2>9. CASE PollReturns(t) BY <2>7, <2>9 DEF PollReturns
  <2>10. CASE PollUnlocks(t) BY <2>10 DEF PollUnlocks
  <2>11. CASE DoneKeepsWaiting(t) BY <2>11 DEF DoneKeepsWaiting
  <2>12. CASE DoneWithdraws(t) BY <2>7, <2>12 DEF DoneWithdraws
  <2> QED BY <1>1, <2>1, <2>2, <2>3, <2>4, <2>5, <2>6, <2>8, <2>9,
            <2>10, <2>11, <2>12 DEF ThreadStep
<1>2. CASE Draw \/ Key BY <1>2 DEF Draw, Key
<1>3. CASE AnswerRead BY <1>3 DEF AnswerRead
<1>4. CASE CancelAll BY <1>4 DEF CancelAll
<1>5. CASE UNCHANGED vars BY <1>5 DEF vars
<1> QED BY <1>1, <1>2, <1>3, <1>4, <1>5 DEF Next

\* The strengthened invariant holds in every reachable state.
THEOREM Invariance == Spec => []IInv
<1>1. IInv /\ [Next]_vars => IInv'
  BY TypeStep, TicketStep, QuestionStep DEF IInv
<1> QED BY InitIInv, <1>1, PTL DEF Spec

\* Every variable keeps its type.
THEOREM TypeCorrect == Spec => []TypeOK
<1>1. IInv => TypeOK BY DEF IInv
<1> QED BY Invariance, <1>1, PTL

\* At most one session is inside until cancel_all(): two servers' forms never
\* interleave, however many threads there are.
THEOREM SessionsExclude == Spec => []OneSession
<1>1. IInv => OneSession
  BY DEF IInv, TicketInv, OneSession, InSession, Active
<1> QED BY Invariance, <1>1, PTL

\* The question shown has exactly one asker.
THEOREM ShownQuestionHasItsAsker == Spec => []ShownHasOneAsker
<1>1. IInv => ShownHasOneAsker BY DEF IInv, QuestionInv
<1> QED BY Invariance, <1>1, PTL

\* No call returns an answer that was meant for another question.
THEOREM AnswersMatchQuestions == Spec => []AnswerIsForItsQuestion
<1>1. IInv => AnswerIsForItsQuestion BY DEF IInv, QuestionInv
<1> QED BY Invariance, <1>1, PTL

\* A session is admitted only when no session that began earlier still waits:
\* the ticket being served is behind none of the active ones.
THEOREM ServedInOrder == Spec => FirstComeFirstServed
<1> DEFINE Ordered ==
      \A s, t \in Threads :
         ~mCancelled /\ pc[s] = "begin" /\ pc[t] = "begin"
         /\ ticket[s] < ticket[t] => pc'[t] # "session"
<1>1. ASSUME IInv, Next PROVE Ordered
  <2>1. SUFFICES ASSUME NEW s \in Threads, NEW t \in Threads, ~mCancelled,
                        pc[s] = "begin", pc[t] = "begin",
                        ticket[s] < ticket[t], pc'[t] = "session"
                 PROVE FALSE
    OBVIOUS
  <2> USE <1>1, <2>1 DEF IInv, TypeOK, Go, queueVars, threadVars, screenVars
  <2>2. ASSUME NEW u \in Threads, ThreadStep(u) PROVE Admit(t)
    <3>1. u = t
      BY <2>2 DEF ThreadStep, Begin, Admit, Sleep, End, AskCancelled, Show,
                  AskReturns, PollReturns, PollUnlocks, DoneKeepsWaiting,
                  DoneWithdraws, Collect, Return
    <3> QED
      BY <2>2, <3>1 DEF ThreadStep, Begin, Sleep, End, AskCancelled, Show,
                  AskReturns, PollReturns, PollUnlocks, DoneKeepsWaiting,
                  DoneWithdraws, Collect, Return
  <2>3. Admit(t)
    BY <2>2 DEF Next, Draw, Key, AnswerRead, CancelAll
  <2>4. mServing = ticket[t]
    BY <2>3 DEF Admit, Served
  <2>5. mServing <= ticket[s]
    BY DEF TicketInv, Active
  <2> QED BY <2>4, <2>5
<1>2. ASSUME IInv, [Next]_vars PROVE [Ordered]_vars
  BY <1>1, <1>2
<1> QED BY Invariance, <1>2, PTL DEF Spec, FirstComeFirstServed

\* However an answer, the end of a login and cancel_all() cross: an answer the queue
\* has taken is what the call it was given to returns (interaction_queue.cpp:75-114).
THEOREM AnswersAreDelivered == Spec => TakenAnswerIsDelivered
<1> DEFINE Delivered ==
      \A t \in Threads :
         Asking(t) /\ mAnswer # 0 /\ pc'[t] = "session" => got'[t] = mAnswer
<1>1. ASSUME IInv, Next PROVE Delivered
  <2>1. SUFFICES ASSUME NEW t \in Threads, pc[t] \in {"ask", "poll", "done"}, mAnswer # 0,
                        pc'[t] = "session"
                 PROVE  got'[t] = mAnswer
    BY DEF Asking
  <2> USE <1>1, <2>1 DEF IInv, TypeOK, Go, queueVars, threadVars, screenVars
  <2>2. PICK u \in Threads : ThreadStep(u)
    BY DEF Next, Draw, Key, AnswerRead, CancelAll
  <2>3. u = t
    BY <2>2 DEF ThreadStep, Begin, Admit, Sleep, End, AskCancelled, Show, AskReturns,
                PollReturns, PollUnlocks, DoneKeepsWaiting, DoneWithdraws, Collect, Return
  <2>4. AskReturns(t) \/ PollReturns(t)
    BY <2>2, <2>3
       DEF ThreadStep, Begin, Admit, Sleep, End, AskCancelled, Show, PollUnlocks,
           DoneKeepsWaiting, DoneWithdraws
  <2> QED BY <2>4 DEF AskReturns, PollReturns, Collect, Return, AnswerOrCancelled
<1>2. ASSUME IInv, [Next]_vars PROVE [Delivered]_vars
  BY <1>1, <1>2
<1> QED BY Invariance, <1>2, PTL DEF Spec, TakenAnswerIsDelivered
=============================================================================
