------------------------------ MODULE AgentTurn -------------------------------
(***************************************************************************)
(* One agent's turns: the loop of model calls and tool calls, the           *)
(* transcript it grows, the skills loaded into and unloaded from it, the    *)
(* summary that replaces it, and the session file.                          *)
(* src/core/agent/agent.cpp (run_turn), src/core/agent/skills.cpp.          *)
(***************************************************************************)
EXTENDS Naturals, Sequences

CONSTANTS
    Skills,      \* the skills of the catalog, in its (alphabetical) order
    Within,      \* {<<s, t>>: the text of t's directory contains that of s}
    MaxSteps,    \* max_steps
    MaxCalls,    \* bound: tool calls in one reply
    MaxMessages, \* bound: messages of the transcript when a reply asks for tools
    MaxTurns     \* bound: turns

VARIABLES
    mTranscript, calls,   \* calls: those of the reply being run
    place, step, turn,
    mSessionId, files,    \* SessionStore: 0 is no id yet
    unloaded              \* the skill the last call unloaded
vars == <<mTranscript, calls, place, step, turn, mSessionId, files, unloaded>>

Names == {Skills[i] : i \in DOMAIN Skills}
None == "none"

Call(tool, skill) == [tool |-> tool, skill |-> skill]
\* A shell reads a skill's files by the name of its directory, or from inside it.
Reads == {"read", "inside"}
ToolCalls == {Call(t, s) : t \in {"load", "unload"} \cup Reads, s \in Names}
                \cup {Call("other", None)}

\* `of` is the skill whose content the message really holds.
Message(role, cs, call, label, of, content) ==
    [role |-> role, tool_calls |-> cs, call |-> call, skill_label |-> label,
     of |-> of, content |-> content]
User == Message("user", <<>>, Call(None, None), None, None, TRUE)
Assistant(cs, says) == Message("assistant", cs, Call(None, None), None, None, says)
ToolResult(c, label, of) == Message("tool", <<>>, c, label, of, TRUE)

Init ==
    /\ mTranscript = <<>> /\ calls = <<>> /\ place = "idle"
    /\ step = 0 /\ turn = 0 /\ mSessionId = 0 /\ files = 0 /\ unloaded = None

\* label_for_text: the first skill whose directory occurs in the command, or none.
\* `named` are the skills whose directories the command spells out.
LabelForText(named) ==
    LET occurring == {i \in DOMAIN Skills :
                        Skills[i] \in named \/ \E s \in named : <<Skills[i], s>> \in Within}
    IN IF occurring = {} THEN None
       ELSE Skills[CHOOSE i \in occurring : \A j \in occurring : i <= j]

\* Fault: what the shell read is not tagged.
LabelLoadsOnly(c) == IF c.tool = "load" THEN c.skill ELSE None

SkillLabelFor(c) ==
    CASE c.tool = "load" -> c.skill
      [] c.tool = "read" -> LabelForText({c.skill})
      [] c.tool = "inside" -> LabelForText({})
      [] OTHER -> None

\* The message that owns the tool result at i: past its siblings.
Owner(T, i) ==
    CHOOSE j \in 0..(i - 1) : /\ j # 0 => T[j].role # "tool"
                              /\ \A k \in (j + 1)..(i - 1) : T[k].role = "tool"

\* std::vector::erase of one element.
Erase(s, i) == SubSeq(s, 1, i - 1) \o SubSeq(s, i + 1, Len(s))

\* Fault: the owner keeps the call.
KeepCall(T, j, i) == T

DropCall(T, j, i) ==
    LET sibling == i - j
    IN IF sibling <= Len(T[j].tool_calls)
       THEN [T EXCEPT ![j].tool_calls = Erase(@, sibling)] ELSE T

\* One step of SkillTool::unload's walk, at position i.
Forget(T, i) ==
    LET j == Owner(T, i)
        D == DropCall(T, j, i)
        R == Erase(D, i)
    IN IF T[i].role # "tool" \/ j = 0 THEN Erase(T, i)
       ELSE IF T[j].role # "assistant" \/ T[j].tool_calls = <<>> THEN Erase(T, i)
       ELSE IF D[j].tool_calls = <<>> /\ ~D[j].content THEN Erase(R, j)
       ELSE R

\* Back to front, so erasing keeps the remaining indices valid.
Unload(T, s) ==
    LET Walk[k \in 0..Len(T)] ==
            IF k = 0 THEN T
            ELSE LET i == Len(T) + 1 - k
                 IN IF Walk[k - 1][i].skill_label = s THEN Forget(Walk[k - 1], i)
                    ELSE Walk[k - 1]
    IN Walk[Len(T)]

RunTurn ==
    /\ place = "idle" /\ turn < MaxTurns
    /\ turn' = turn + 1 /\ step' = 0 /\ place' = "step"
    /\ mTranscript' = Append(mTranscript, User)
    /\ UNCHANGED <<calls, mSessionId, files, unloaded>>

\* maybe_summarize_context: over the threshold, one message takes the transcript's
\* place; when the summary fails nothing changes.
Summarize ==
    /\ place = "step" /\ step < MaxSteps
    /\ \/ Len(mTranscript) >= 2 /\ mTranscript' = <<User>>
       \/ UNCHANGED mTranscript
    /\ place' = "model"
    /\ step' = step + 1
    /\ UNCHANGED <<calls, turn, mSessionId, files, unloaded>>

\* save(): an empty id writes a new file; `keep` says whether its id is remembered.
Save(keep) ==
    \/ UNCHANGED <<mSessionId, files>>     \* it could not be written
    \/ /\ files' = IF mSessionId = 0 THEN files + 1 ELSE files
       /\ mSessionId' = IF mSessionId = 0 /\ keep THEN files + 1 ELSE mSessionId

\* Ollama fails the request; the id of the file written is dropped.
ModelFails ==
    /\ place = "model" /\ place' = "idle" /\ Save(FALSE)
    /\ UNCHANGED <<mTranscript, calls, step, turn, unloaded>>

Answers ==
    /\ place = "model" /\ place' = "idle" /\ Save(TRUE)
    /\ mTranscript' = Append(mTranscript, Assistant(<<>>, TRUE))
    /\ UNCHANGED <<calls, step, turn, unloaded>>

AsksForTools ==
    /\ place = "model" /\ place' = "tools"
    /\ \E n \in 1..MaxCalls : \E cs \in [1..n -> ToolCalls] : \E says \in BOOLEAN :
          /\ Len(mTranscript) + n < MaxMessages
          /\ calls' = cs
          /\ mTranscript' = Append(mTranscript, Assistant(cs, says))
    /\ UNCHANGED <<step, turn, mSessionId, files, unloaded>>

\* After the call at the head: the next one, or the next step.
Advance ==
    /\ calls' = Tail(calls)
    /\ place' = IF Len(calls) = 1 THEN "step" ELSE "tools"
    /\ UNCHANGED <<step, turn, mSessionId, files>>

\* Unreadable arguments, or a refusal by the policy: the message is the result.
Refused ==
    /\ place = "tools" /\ Advance
    /\ mTranscript' = Append(mTranscript, ToolResult(Head(calls), None, None))
    /\ unloaded' = None

\* The tool runs; a load or a read may fail and then holds nothing of the skill, but
\* what a shell was asked for is labelled all the same.
Executed ==
    /\ place = "tools" /\ Advance
    /\ LET c == Head(calls)
           T == IF c.tool = "unload" THEN Unload(mTranscript, c.skill) ELSE mTranscript
           of == IF c.tool \in {"load"} \cup Reads THEN c.skill ELSE None
       IN /\ unloaded' = IF c.tool = "unload" THEN c.skill ELSE None
          /\ \/ mTranscript' = Append(T, ToolResult(c, SkillLabelFor(c), of))
             \/ c.tool = "load" /\ mTranscript' = Append(T, ToolResult(c, None, None))
             \/ /\ c.tool \in Reads
                /\ mTranscript' = Append(T, ToolResult(c, SkillLabelFor(c), None))

StepLimit ==
    /\ place = "step" /\ step = MaxSteps /\ place' = "idle" /\ Save(TRUE)
    /\ UNCHANGED <<mTranscript, calls, step, turn, unloaded>>

Reset ==
    /\ place = "idle" /\ mTranscript # <<>>
    /\ mTranscript' = <<>> /\ mSessionId' = 0 /\ unloaded' = None
    /\ UNCHANGED <<calls, place, step, turn, files>>

Next ==
    \/ RunTurn \/ Summarize \/ ModelFails \/ Answers \/ AsksForTools
    \/ Refused \/ Executed \/ StepLimit \/ Reset

Spec == Init /\ [][Next]_vars

TypeOK ==
    /\ place \in {"idle", "step", "model", "tools"}
    /\ step \in 0..MaxSteps /\ turn \in 0..MaxTurns
    /\ mSessionId \in 0..files /\ Len(calls) <= MaxCalls
    /\ (calls # <<>>) = (place = "tools")

\* Whatever was loaded and unloaded, every request to the model pairs its messages: an
\* assistant's calls are followed by exactly their results, in order, and no result
\* stands alone (SkillTool::unload edits both sides, mid-turn included).
CallsAreAnswered ==
    place = "model" =>
        \A i \in DOMAIN mTranscript :
            LET j == Owner(mTranscript, i)
            IN /\ mTranscript[i].role = "tool" =>
                    /\ j > 0 /\ i - j <= Len(mTranscript[j].tool_calls)
                    /\ mTranscript[j].tool_calls[i - j] = mTranscript[i].call
               /\ \A k \in 1..Len(mTranscript[i].tool_calls) :
                    i + k <= Len(mTranscript) /\ mTranscript[i + k].role = "tool"

\* What a message holds of a skill can be told from its call: the skill tool loaded it,
\* or the shell's command spelt out a directory that has no other one's in it before it.
Plain(s) == \A i \in DOMAIN Skills : <<Skills[i], s>> \in Within => Skills[i] = s
Tellable(m) ==
    m.of # None /\ (m.call.tool = "load" \/ (m.call.tool = "read" /\ Plain(m.of)))

\* "removes everything you loaded for that skill from the conversation" (the skill
\* tool's description): its SKILL.md and what the shell read by its directory's name.
\* What was read from inside the directory, or of a skill whose directory has another's
\* name in its own, is not found again, and stays.
UnloadForgetsAll ==
    unloaded # None =>
        \A i \in DOMAIN mTranscript :
            mTranscript[i].of = unloaded => ~Tellable(mTranscript[i])

-----------------------------------------------------------------------------
(* Why they hold.                                                          *)

Entries ==
    [role : {"user", "assistant", "tool"}, tool_calls : Seq(ToolCalls),
     call : ToolCalls \cup {Call(None, None)}, skill_label : Names \cup {None},
     of : Names \cup {None}, content : BOOLEAN]

\* The results of a message's calls are right behind it, in order, and there are no
\* others; but for `open`, the calls the last such message still waits for.
Paired(T, open) ==
    /\ \A j \in DOMAIN T :
          LET cs == T[j].tool_calls
          IN /\ cs # <<>> => T[j].role = "assistant"
             /\ \A m \in DOMAIN cs :
                   j + m <= Len(T) => T[j + m].role = "tool" /\ T[j + m].call = cs[m]
             /\ j + Len(cs) > Len(T) => j + Len(cs) = Len(T) + Len(open)
    /\ \A i \in DOMAIN T :
          T[i].role = "tool" => \E j \in 1..(i - 1) : i - j <= Len(T[j].tool_calls)
    /\ open # <<>> =>
          \E j \in DOMAIN T :
             LET cs == T[j].tool_calls
             IN /\ j + Len(cs) = Len(T) + Len(open)
                /\ \A m \in DOMAIN open : cs[Len(cs) - Len(open) + m] = open[m]

\* What tellably holds a skill's text carries its label; only results do either.
Labelled(T) ==
    \A i \in DOMAIN T : /\ Tellable(T[i]) => T[i].of = T[i].skill_label
                        /\ T[i].of # None \/ T[i].skill_label # None => T[i].role = "tool"

IInv ==
    /\ TypeOK /\ files \in Nat /\ unloaded \in Names \cup {None}
    /\ calls \in Seq(ToolCalls) /\ mTranscript \in Seq(Entries)
    /\ Paired(mTranscript, calls) /\ Labelled(mTranscript) /\ UnloadForgetsAll
=============================================================================
