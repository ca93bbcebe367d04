------------------------------ MODULE InputBox ------------------------------
(***************************************************************************)
(* The keyboard of m8's screen (apps/m8/main.cpp): the message box with    *)
(* its history and its draft, and the answer box that takes the keyboard   *)
(* while an agent's question waits.  All of it runs on the UI thread; the  *)
(* turn's thread and the interaction queue change busy() and the question  *)
(* shown under it.                                                         *)
(*                                                                         *)
(* A text is a value; typing replaces the text of the box that has the     *)
(* keyboard.  Commands are the texts send_message() deals with on its own, *)
(* TurnCommands those it makes a turn of (a skill's, a server's prompt).    *)
(***************************************************************************)
EXTENDS Naturals, Sequences

CONSTANTS
  Messages, Commands, TurnCommands,  \* what can be typed and sent
  MaxHistory,          \* kMaxInputHistory
  MaxQuestions,        \* bound: questions asked
  MaxSent              \* bound: texts sent

VARIABLES
  input,       \* input_value
  history,     \* input_history
  index,       \* history_index, from 1; Len(history) + 1 is the live draft
  draft,       \* history_draft
  busy,        \* a turn is running
  shown,       \* the question the queue shows, 0 for none
  asked,       \* questions asked so far
  answering,   \* the question in the answer box
  answerBox,   \* answer_value, and the question it was typed or set for
  given,       \* per question: the question whose text answered it, 0 for none
  live,        \* the last text of the message box that was not a recalled one
  sent         \* texts sent

messageVars == <<input, history, index, draft, live>>
vars == <<messageVars, busy, shown, asked, answering, answerBox, given, sent>>

Texts == Messages \cup Commands \cup TurnCommands
Empty == ""          \* a box with nothing in it
AtDraft == index = Len(history) + 1

Init ==
  /\ input = Empty /\ history = <<>> /\ index = 1 /\ draft = Empty
  /\ busy = FALSE
  /\ shown = 0 /\ asked = 0 /\ answering = 0
  /\ answerBox = [of |-> 0, text |-> Empty]
  /\ given = [q \in 1 .. MaxQuestions |-> 0]
  /\ live = Empty /\ sent = 0

-----------------------------------------------------------------------------
(* The message box.                                                        *)

\* Fault: every step up the history saves the box as the draft.
DraftSavedAtEveryStep == draft' = input

DraftSaved == draft' = IF AtDraft THEN input ELSE draft

RecallPrevious ==
  /\ history # <<>>
  /\ DraftSaved
  /\ IF index = 1 THEN UNCHANGED <<input, index>>
     ELSE index' = index - 1 /\ input' = history[index - 1]
  /\ UNCHANGED <<history, live>>

RecallNext ==
  /\ ~AtDraft
  /\ index' = index + 1
  /\ input' = IF index' = Len(history) + 1 THEN draft ELSE history[index']
  /\ UNCHANGED <<history, draft, live>>

\* The oldest entry goes when there are too many.
Remember(text) ==
  LET all == Append(history, text)
  IN history' = IF Len(all) > MaxHistory THEN Tail(all) ELSE all

\* The box is emptied and the history left, whatever is sent.
Submit == Remember(input) /\ index' = Len(history') + 1 /\ draft' = Empty

\* Dealt with at once, busy or not.
RunCommand == input \in Commands /\ input' = Empty /\ UNCHANGED busy

\* While the agent is working it is refused and is in the history only.
StartFromCommand == input \in TurnCommands /\ input' = Empty /\ busy' = TRUE

\* While the agent is working the message is put back into the box.
StartFromMessage ==
  input \in Messages /\ input' = (IF busy THEN input ELSE Empty) /\ busy' = TRUE

SendMessage ==
  /\ input # Empty /\ sent < MaxSent /\ sent' = sent + 1
  /\ Submit
  /\ RunCommand \/ StartFromCommand \/ StartFromMessage
  /\ live' = input'

TypeMessage(text) ==
  /\ input' = text
  /\ live' = IF AtDraft THEN text ELSE live
  /\ UNCHANGED <<history, index, draft>>

-----------------------------------------------------------------------------
(* The answer box.                                                         *)

\* Fault: the next question finds the text of the last one.
SyncKeepsText ==
  /\ answering' = shown
  /\ UNCHANGED answerBox

\* sync_answer_mode(): a new question resets the box to its starting text.
Sync ==
  /\ answering' = shown
  /\ answerBox' = IF shown # answering THEN [of |-> shown, text |-> Empty] ELSE answerBox

\* An event the question takes: it follows the queue first.
AnswerMode == shown # 0 /\ Sync /\ UNCHANGED <<messageVars, busy, asked, sent>>

TypeAnswer(text) ==
  /\ shown # 0 /\ answering = shown
  /\ answerBox' = [of |-> shown, text |-> text]
  /\ UNCHANGED <<messageVars, busy, shown, asked, answering, given, sent>>

\* Return, Ctrl+D and Esc: the queue takes the answer, whichever it is.
Return ==
  /\ AnswerMode
  /\ given' = [given EXCEPT ![shown] = answerBox'.of]
  /\ shown' = 0
Dismiss == AnswerMode /\ shown' = 0 /\ UNCHANGED given

\* The screen is drawn, or a key that no box takes arrives.
Draw == Sync /\ UNCHANGED <<messageVars, busy, shown, asked, given, sent>>

-----------------------------------------------------------------------------
MessageMode == shown = 0 /\ Sync /\ UNCHANGED <<shown, asked, given>>

MessageKey ==
  /\ MessageMode
  /\ \/ (RecallPrevious \/ RecallNext) /\ UNCHANGED <<busy, sent>>
     \/ SendMessage
     \/ \E text \in Texts \cup {Empty} : TypeMessage(text) /\ UNCHANGED <<busy, sent>>

\* What other threads do.
TurnEnds ==
  busy /\ busy' = FALSE /\ UNCHANGED <<messageVars, shown, asked, answering, answerBox, given, sent>>
Ask ==
  /\ shown = 0 /\ asked < MaxQuestions
  /\ asked' = asked + 1 /\ shown' = asked'
  /\ UNCHANGED <<messageVars, busy, answering, answerBox, given, sent>>
Withdraw ==
  shown # 0 /\ shown' = 0 /\ UNCHANGED <<messageVars, busy, asked, answering, answerBox, given, sent>>

Next ==
  \/ MessageKey
  \/ \E text \in Texts : TypeAnswer(text)
  \/ Return \/ Dismiss \/ Draw
  \/ TurnEnds \/ Ask \/ Withdraw

Spec == Init /\ [][Next]_vars

-----------------------------------------------------------------------------
\* Up and Down walk away from the message being written and back to it; it is
\* kept through questions, answers and a refused send ("the draft stays in the
\* input, to send when the agent is done", m8/main.cpp:1225-1226).
DraftIsKept == IF AtDraft THEN input = live ELSE draft = live

\* The text a question is answered with was typed, or put there, for it
\* (m8/main.cpp:1305-1317): never what was left from the question before.
AnswersItsQuestion == \A q \in DOMAIN given : given[q] \in {0, q}

\* What keeps them so: the place in the history is one, and the answer box is of the
\* question it was last set for.
Contents == Texts \cup {Empty}
Shape ==
  /\ {input, draft} \subseteq Contents /\ history \in Seq(Contents)
  /\ index \in 1 .. Len(history) + 1
  /\ DOMAIN given = 1 .. MaxQuestions

IInv == Shape /\ answerBox.of = answering /\ DraftIsKept /\ AnswersItsQuestion
=============================================================================
