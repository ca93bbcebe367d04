----------------------------- MODULE FileTools -----------------------------
(***************************************************************************)
(* The read, write and edit tools on one file (core/tools/tools_file.cpp)  *)
(* and the cut that keeps their output small (tools_util.cpp).  Several    *)
(* agents may be in a call at once: nothing locks the file, so an edit     *)
(* writes back what it made of the text it read.                           *)
(*                                                                         *)
(* A text is a sequence of characters, "lf" among them.  Arguments that    *)
(* are missing, protected paths, images, binary files and directories end  *)
(* a call before it touches anything and are one action, Refuse.           *)
(***************************************************************************)
EXTENDS Naturals, FiniteSets, Sequences, SequencesExt, FiniteSetsExt, TLC

CONSTANTS
  Agents,
  Texts,        \* what the file may hold at the start, and what write puts in it
  EditLists,    \* the lists of <<oldText, newText>> an edit may ask for
  MaxLines,     \* max_lines of truncate_output
  MaxBytes,     \* max_bytes of truncate_output
  MaxCalls      \* bound: calls made

VARIABLES
  exists, file, \* the file
  pc,           \* per agent: "idle", "edit" (it has the text), "open" (truncated)
  task,         \* per agent: [edits, saw, wrote]; edits is <<>> for a write
  shown,        \* the last read: [offset, of, text]
  calls

vars == <<exists, file, pc, task, shown, calls>>

-----------------------------------------------------------------------------
(* The cut, and a slice of lines.                                          *)

LineEnds(text) == {i \in 1 .. Len(text) : text[i] = "lf"}

\* Fault: the cut takes every byte there is room for.
CutAnywhere(text) == Min({Len(text), MaxBytes})

\* The end of the last line that fits in both limits.
CutOffset(text) ==
  LET kept == {e \in LineEnds(text) :
                 e <= MaxBytes /\ Cardinality({f \in LineEnds(text) : f <= e}) <= MaxLines}
      whole == Len(text) <= MaxBytes /\ Cardinality(LineEnds(text)) < MaxLines
  IN IF whole THEN Len(text) ELSE Max(kept \cup {0})

TruncateOutput(text) == SubSeq(text, 1, CutOffset(text))

\* The lines of a text, each ended as getline() and the "\n" added leave them.
Lines(text) ==
  LET ends == SelectSeq([n \in DOMAIN text |-> n], LAMBDA n : n \in LineEnds(text))
      tail == IF text # <<>> /\ Last(text) # "lf" THEN <<Len(text) + 1>> ELSE <<>>
      stops == ends \o tail
  IN [n \in 1 .. Len(stops) |->
        SubSeq(text, IF n = 1 THEN 1 ELSE stops[n - 1] + 1, stops[n] - 1) \o <<"lf">>]

Concat(texts) == FoldLeft(\o, <<>>, texts)

\* With no limit given, as when the model pages through a file.
LineSlice(text, offset) ==
  IF offset <= 1 THEN text ELSE Concat(SubSeq(Lines(text), offset, Len(Lines(text))))

-----------------------------------------------------------------------------
(* place_edits() and the copy that applies them.                           *)

Find(text, old) ==
  {p \in 1 .. Len(text) + 1 - Len(old) : SubSeq(text, p, p + Len(old) - 1) = old}

\* Every old text occurs exactly once.
Unique(text, edits) ==
  \A n \in DOMAIN edits : edits[n][1] # <<>> /\ Cardinality(Find(text, edits[n][1])) = 1

Placements(text, edits) ==
  SortSeq([n \in DOMAIN edits |-> [at |-> Min(Find(text, edits[n][1])),
                                   len |-> Len(edits[n][1]), new |-> edits[n][2]]],
          LAMBDA e, f : e.at < f.at)

\* Fault: edits may overlap each other.
PlacedEvenOverlapping(text, edits) == Unique(text, edits)

Placed(text, edits) ==
  /\ Unique(text, edits)
  /\ LET ps == Placements(text, edits)
     IN \A n \in 2 .. Len(ps) : ps[n].at >= ps[n - 1].at + ps[n - 1].len

Edited(text, edits) ==
  LET Copy(acc, p) == [out |-> acc.out \o SubSeq(text, acc.copied, p.at - 1) \o p.new,
                       copied |-> p.at + p.len]
      done == FoldLeft(Copy, [out |-> <<>>, copied |-> 1], Placements(text, edits))
  IN done.out \o SubSeq(text, done.copied, Len(text))

-----------------------------------------------------------------------------
NoTask == [edits |-> <<>>, saw |-> <<>>, wrote |-> <<>>]

Init ==
  /\ exists \in BOOLEAN
  /\ IF exists THEN file \in Texts ELSE file = <<>>
  /\ pc = [a \in Agents |-> "idle"]
  /\ task = [a \in Agents |-> NoTask]
  /\ shown = [offset |-> 1, of |-> <<>>, text |-> <<>>]
  /\ calls = 0

Call == calls < MaxCalls /\ calls' = calls + 1

\* A call whose arguments or path the tool does not take.
Refuse(a) == pc[a] = "idle" /\ Call /\ UNCHANGED <<exists, file, pc, task, shown>>

Read(a, offset) ==
  /\ pc[a] = "idle" /\ exists /\ Call
  /\ shown' = [offset |-> offset, of |-> file,
               text |-> TruncateOutput(LineSlice(file, offset))]
  /\ UNCHANGED <<exists, file, pc, task>>

\* An edit reads the whole file and places every edit before it opens it again.
Edit(a, edits) ==
  /\ pc[a] = "idle" /\ exists /\ Call
  /\ IF Placed(file, edits)
     THEN /\ pc' = [pc EXCEPT ![a] = "edit"]
          /\ task' = [task EXCEPT ![a] = [edits |-> edits, saw |-> file,
                                          wrote |-> Edited(file, edits)]]
     ELSE UNCHANGED <<pc, task>>
  /\ UNCHANGED <<exists, file, shown>>

\* The stream that writes it back empties the file.
OpenEdited(a) ==
  /\ pc[a] = "edit"
  /\ pc' = [pc EXCEPT ![a] = "open"]
  /\ exists' = TRUE /\ file' = <<>>
  /\ UNCHANGED <<task, shown, calls>>

Write(a, text) ==
  /\ pc[a] = "idle" /\ Call
  /\ pc' = [pc EXCEPT ![a] = "open"]
  /\ task' = [task EXCEPT ![a] = [NoTask EXCEPT !.wrote = text]]
  /\ exists' = TRUE /\ file' = <<>>
  /\ UNCHANGED shown

\* Each stream writes from the start of the file, over what is there.
Put(a, count) ==
  /\ pc[a] = "open" /\ count \in 0 .. Len(task[a].wrote)
  /\ pc' = [pc EXCEPT ![a] = "idle"]
  /\ file' = SubSeq(task[a].wrote, 1, count) \o SubSeq(file, count + 1, Len(file))
  /\ UNCHANGED <<exists, task, shown, calls>>

\* The whole text reaches the disk, or a disk that fills up takes part of it.
PutAll(a) == Put(a, Len(task[a].wrote))
PutPart(a) == \E count \in 0 .. Len(task[a].wrote) - 1 : Put(a, count)

Next ==
  \E a \in Agents :
    \/ Refuse(a)
    \/ \E n \in 1 .. Len(Lines(file)) : Read(a, n)
    \/ \E edits \in EditLists : Edit(a, edits)
    \/ \E text \in Texts : Write(a, text)
    \/ OpenEdited(a)
    \/ PutAll(a) \/ PutPart(a)

Spec == Init /\ [][Next]_vars

-----------------------------------------------------------------------------
\* Where an edit's old text lies, and what each place of the text becomes.
Span(text, e) == LET p == Min(Find(text, e[1])) IN p .. p + Len(e[1]) - 1

Becomes(text, edits, i) ==
  LET over == {n \in DOMAIN edits : i \in Span(text, edits[n])}
  IN IF over = {} THEN <<text[i]>>
     ELSE IF \E n \in over : i = Min(Span(text, edits[n]))
          THEN edits[CHOOSE n \in over : TRUE][2] ELSE <<>>

\* An edit that goes through asked for texts that occur once each and do not
\* touch one another, and what it writes is the text it read with exactly
\* those places replaced, in whatever order they were asked for
\* (tools_file.cpp:101-137, 303-318).
EditsAreExact ==
  \A a \in Agents :
    LET t == task[a]
        Ours(n) == Span(t.saw, t.edits[n])
    IN t.edits # <<>> =>
         /\ \A m, n \in DOMAIN t.edits : m # n => Ours(m) \cap Ours(n) = {}
         /\ t.wrote = Concat([i \in DOMAIN t.saw |-> Becomes(t.saw, t.edits, i)])

\* The description of read tells the model to "use offset to continue"
\* (tools_file.cpp:144): in a file whose lines all fit, every page is the
\* whole lines from its offset on, and at least one of them, so that paging
\* through shows the file without a gap.
PagingShowsItAll ==
  LET ls == Lines(shown.of)
      rest == LineSlice(shown.of, shown.offset)
      page == Len(Lines(shown.text))
  IN (shown.of # <<>> /\ \A n \in DOMAIN ls : Len(ls[n]) <= MaxBytes) =>
       /\ page > 0
       /\ Concat(SubSeq(ls, shown.offset, shown.offset + page - 1)) = Concat(Lines(shown.text))
       /\ shown.text = rest \/ Last(shown.text) = "lf"
=============================================================================
