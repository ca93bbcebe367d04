----------------------------- MODULE M8trixsh -----------------------------
(***************************************************************************)
(* m8trixsh: a shell at whose prompt the agent is also typed to.  The mode    *)
(* file tells zsh where Enter goes; a line for the agent comes back through   *)
(* the terminal and is an answer, a command or a turn; an agent thread parks   *)
(* on a promise for its answer.  src/apps/m8trixsh/main.cpp and              *)
(* shell_integration.cpp.                                                    *)
(*                                                                         *)
(* Steps are what ui_mutex covers, but for set_mode(): it truncates the file  *)
(* and then writes it, with ui_mutex held, and zsh reads with no lock at all.  *)
(***************************************************************************)
EXTENDS Integers, Sequences

CONSTANTS Askers,    \* agents with ask_user: the root, and its subagents
          NoOne,
          MaxToggles, MaxQuestions, MaxLines   \* bounds

VARIABLES
    mode,      \* "Shell" or "Ai"
    file,      \* what the mode file holds; "empty" while it is truncated
    writing,   \* what set_mode() has still to write, and whether its caller
               \* sends a redraw then
    redraws,   \* a redraw sequence is in the pty
    tag,       \* __m8sh_mode: what the prompt shows
    want_prompt_redraw,
    submitted_lines,       \* what they say: "text", "/reset", "/quit"
    pending_prompt,
    promise,   \* answer_promise: "none", "open" or "kept"
    parked,    \* the agent it belongs to
    ai_turn_running, turnLive,   \* a turn, and its turn_begin
    state,     \* "up", "left", or "terminated" by an exception
    toggles, questions, lines

promptVars == <<file, writing, redraws, tag>>
askVars == <<pending_prompt, promise, parked>>
turnVars == <<ai_turn_running, turnLive>>
counters == <<toggles, questions, lines>>
vars == <<mode, promptVars, want_prompt_redraw, submitted_lines, askVars, turnVars,
          state, counters>>

NoWrite == [mode |-> "none", redraw |-> FALSE]

Init ==
    /\ mode = "Shell" /\ file = "shell" /\ writing = NoWrite /\ redraws = FALSE
    /\ tag = "shell" /\ want_prompt_redraw = FALSE /\ submitted_lines = <<>>
    /\ pending_prompt = FALSE /\ promise = "none" /\ parked = NoOne
    /\ ai_turn_running = FALSE /\ turnLive = FALSE
    /\ state = "up" /\ toggles = 0 /\ questions = 0 /\ lines = 0

Free == state = "up" /\ writing = NoWrite    \* ui_mutex can be taken

SetMode(m, redraw) == writing' = [mode |-> m, redraw |-> redraw] /\ file' = "empty"

\* The rest of set_mode(), and the redraw the key handler sends after it.
WriteMode ==
    /\ state = "up" /\ writing # NoWrite
    /\ file' = writing.mode /\ writing' = NoWrite
    /\ redraws' = (redraws \/ writing.redraw)
    /\ UNCHANGED <<mode, tag, want_prompt_redraw, submitted_lines, askVars,
                   turnVars, state, counters>>

\* Fault: back in ai mode, a waiting question is forgotten.
TagOfAi == "ai"
AiTag == IF pending_prompt THEN "ai-ask" ELSE "ai"

\* The switch key.
Toggle ==
    /\ Free /\ toggles < MaxToggles
    /\ toggles' = toggles + 1
    /\ mode' = IF mode = "Shell" THEN "Ai" ELSE "Shell"
    /\ SetMode(IF mode = "Shell" THEN AiTag ELSE "shell", TRUE)
    /\ UNCHANGED <<redraws, tag, want_prompt_redraw, submitted_lines, askVars,
                   turnVars, state, questions, lines>>

----------------------------------------------------------------------------
\* ask_user, on the thread of an agent of the running turn.

\* A second agent's question replaces the promise the first waits on: its
\* future throws, and nothing catches it.
Ask(a) ==
    /\ Free /\ ai_turn_running /\ parked # a /\ questions < MaxQuestions
    /\ questions' = questions + 1
    /\ IF promise = "open" THEN state' = "terminated" ELSE UNCHANGED state
    /\ promise' = "open" /\ parked' = a /\ pending_prompt' = TRUE
    /\ IF mode = "Ai" THEN SetMode("ai-ask", FALSE) ELSE UNCHANGED <<file, writing>>
    /\ want_prompt_redraw' = (want_prompt_redraw \/ mode = "Ai")
    /\ UNCHANGED <<mode, redraws, tag, submitted_lines, turnVars, toggles, lines>>

\* The agent's thread wakes with the answer.
Reply ==
    /\ Free /\ promise = "kept"
    /\ pending_prompt' = FALSE /\ promise' = "none" /\ parked' = NoOne
    /\ IF mode = "Ai" THEN SetMode("ai", FALSE) ELSE UNCHANGED <<file, writing>>
    /\ want_prompt_redraw' = (want_prompt_redraw \/ mode = "Ai")
    /\ UNCHANGED <<mode, redraws, tag, submitted_lines, turnVars, state, counters>>

\* run_turn() is back; the turn's nodes are folded.
EndTurn ==
    /\ Free /\ ai_turn_running /\ parked = NoOne
    /\ ai_turn_running' = FALSE /\ turnLive' = FALSE
    /\ UNCHANGED <<mode, promptVars, want_prompt_redraw, submitted_lines, askVars,
                   state, counters>>

----------------------------------------------------------------------------
\* A frame of the screen: the lines the shell handed over, one after the other.

\* set_value(), which throws when the promise was kept already.
SetValue(p) == IF p = "open" THEN "kept" ELSE p

\* An answer, whatever it says; then a command; then a turn.
HandleLine ==
    LET line == Head(submitted_lines) IN
    /\ Free /\ submitted_lines # <<>>
    /\ submitted_lines' = Tail(submitted_lines)
    /\ IF pending_prompt /\ promise # "none"
       THEN /\ promise' = SetValue(promise)
            /\ state' = IF promise = "kept" THEN "terminated" ELSE state
            /\ UNCHANGED turnVars
       ELSE /\ state' = IF line = "/quit" THEN "left" ELSE state
            /\ ai_turn_running' = (ai_turn_running \/ line = "text")
            /\ turnLive' = CASE line = "text" -> IF ai_turn_running THEN turnLive ELSE TRUE
                             [] line = "/reset" -> FALSE
                             [] OTHER -> turnLive
            /\ UNCHANGED promise
    /\ UNCHANGED <<mode, promptVars, want_prompt_redraw, pending_prompt, parked,
                   counters>>

SendRedraw ==
    /\ Free /\ want_prompt_redraw
    /\ want_prompt_redraw' = FALSE /\ redraws' = TRUE
    /\ UNCHANGED <<mode, file, writing, tag, submitted_lines, askVars, turnVars,
                   state, counters>>

\* The screen ends: whoever waits gets an empty answer.
Leave ==
    /\ Free
    /\ state' = IF promise = "kept" THEN "terminated" ELSE "left"
    /\ promise' = "none"
    /\ UNCHANGED <<mode, promptVars, want_prompt_redraw, submitted_lines,
                   pending_prompt, parked, turnVars, counters>>

----------------------------------------------------------------------------
\* zsh.

\* __m8sh_read_mode: an empty file reads as the shell's mode.
ReadMode == IF file = "empty" THEN "shell" ELSE file

\* __m8sh_redraw, __m8sh_precmd.
Redraw ==
    /\ state = "up" /\ redraws
    /\ redraws' = FALSE /\ tag' = ReadMode
    /\ UNCHANGED <<mode, file, writing, want_prompt_redraw, submitted_lines,
                   askVars, turnVars, state, counters>>

\* __m8sh_accept: Enter, on a line that is not empty.
Enter(line) ==
    /\ state = "up" /\ lines < MaxLines
    /\ lines' = lines + 1
    /\ tag' = ReadMode
    /\ submitted_lines' = IF ReadMode = "shell" THEN submitted_lines
                          ELSE Append(submitted_lines, line)
    /\ UNCHANGED <<mode, file, writing, redraws, want_prompt_redraw, askVars,
                   turnVars, state, toggles, questions>>

Next ==
    \/ Toggle \/ WriteMode \/ Reply \/ EndTurn
    \/ \E a \in Askers : Ask(a)
    \/ HandleLine \/ SendRedraw \/ Leave \/ Redraw
    \/ \E line \in {"text", "/reset", "/quit"} : Enter(line)

Spec == Init /\ [][Next]_vars

----------------------------------------------------------------------------
TypeOK ==
    /\ mode \in {"Shell", "Ai"}
    /\ file \in {"empty", "shell", "ai", "ai-ask"}
    /\ writing \in [mode : {"none", "shell", "ai", "ai-ask"}, redraw : BOOLEAN]
    /\ tag \in {"shell", "ai", "ai-ask"}
    /\ submitted_lines \in Seq({"text", "/reset", "/quit"})
    /\ promise \in {"none", "open", "kept"} /\ parked \in Askers \cup {NoOne}
    /\ state \in {"up", "left", "terminated"}

\* "The [shell] / [m8trx] tag on the prompt shows where Enter goes": whoever
\* changed the mode, the question or both last, once nothing is on its way to
\* zsh the prompt shows what a line would be.
TagSettles ==
    Free /\ ~redraws /\ ~want_prompt_redraw =>
        tag = IF mode = "Shell" THEN "shell" ELSE AiTag

\* What keeps it so: a file being written is written with the mode and the question of
\* now; one that is written has them; and zsh has read it or will be told to.
Shown == IF mode = "Shell" THEN "shell" ELSE AiTag
FileIsCurrent ==
    state = "up" =>
        /\ IF writing = NoWrite THEN file = Shown ELSE writing.mode = Shown /\ file = "empty"
        /\ writing # NoWrite => writing.redraw \/ want_prompt_redraw
        /\ writing = NoWrite /\ ~redraws /\ ~want_prompt_redraw => tag = file

IInv ==
    /\ TypeOK /\ FileIsCurrent
    /\ want_prompt_redraw \in BOOLEAN /\ redraws \in BOOLEAN
    /\ (promise = "none" => parked = NoOne) \/ state # "up"
=============================================================================
