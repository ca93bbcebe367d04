------------------------------ MODULE HtmlText ------------------------------
(***************************************************************************)
(* The page-to-markdown converter of the webfetch tool (HtmlConverter in   *)
(* core/tools/tools_web.cpp): one forward scan over text and tags, lenient *)
(* to tags that are never closed or never opened.                          *)
(*                                                                         *)
(* The page is what the scan meets, one piece per step: words, white       *)
(* space, and open and close tags, one of each kind the converter tells    *)
(* apart.  The output is a sequence of words and of the characters "sp",   *)
(* "nl" and "gt" (the quote prefix "> "); markup is one "mark" each.       *)
(* Comments and doctypes produce nothing and are left out.                 *)
(***************************************************************************)
EXTENDS Naturals, Sequences, SequencesExt, FiniteSetsExt

CONSTANTS
  MaxWords,     \* bound: words of the page
  MaxTags       \* bound: tags of it

VARIABLES
  out,          \* mOut
  label,        \* mLinkText
  inLink,       \* mInLink
  lists,        \* mLists, its depth
  quote,        \* mQuoteDepth
  pre,          \* mPreDepth
  rowHasCell,   \* mRowHasCell
  skipping,     \* the element whose content is dropped, or ""
  page,         \* "scan", then "done"
  text,         \* the cleaned text convert() returns
  words,        \* the words a reader of the page sees, so far
  tags          \* tags met so far

vars == <<out, label, inLink, lists, quote, pre, rowHasCell, skipping, page, text, words, tags>>

layout == <<inLink, lists, quote, pre, rowHasCell, skipping>>

Word == {"w1", "w2"}
Skipped == {"script", "style"}
Tag == {"p", "br", "hr", "ul", "li", "blockquote", "pre", "code", "tr", "td", "a"}

WordsOf(s) == SelectSeq(s, LAMBDA c : c \in Word)

-----------------------------------------------------------------------------
(* What the tags do to the text they are met in.                           *)

\* Where text lands: the pending label while an <a> is open.
Sink == IF inLink THEN label ELSE out
PutIn(target) ==
  IF inLink THEN label' = target /\ UNCHANGED out ELSE out' = target /\ UNCHANGED label

LinePrefix(depth) == FoldLeft(\o, <<>>, [n \in 1 .. depth |-> <<"gt", "sp">>])

EnsureNewline(target) ==
  IF target = <<>> THEN target
  ELSE (IF Last(target) = "nl" THEN target ELSE Append(target, "nl")) \o LinePrefix(quote)

\* A sequence without the members of S at its end.
Strip(s, S) == SubSeq(s, 1, Max({n \in DOMAIN s : s[n] \notin S} \cup {0}))

\* A blank line, first taking back a prefix written for an empty line.
EnsureBlockAt(target, depth) ==
  LET kept == Strip(target, {"sp", "gt"})
  IN IF kept = <<>> THEN kept
     ELSE Strip(kept, {"nl"}) \o <<"nl", "nl">>
            \o SubSeq(kept, Len(Strip(kept, {"nl"})) + 3, Len(kept)) \o LinePrefix(depth)
EnsureBlock(target) == EnsureBlockAt(target, quote)

\* White space collapses, and disappears at the start of a line.
Space(target) ==
  IF pre > 0 THEN Append(target, "sp")
  ELSE IF target = <<>> \/ Last(target) \in {"sp", "nl"} THEN target ELSE Append(target, "sp")

\* What an open tag adds to the text.
Opened(tag, target) ==
  CASE tag \in {"p", "ul"} -> EnsureBlock(target)
    [] tag \in {"br", "tr"} -> EnsureNewline(target)
    [] tag = "hr" -> EnsureBlock(Append(EnsureBlock(target), "mark"))
    [] tag = "li" -> EnsureNewline(target)
                       \o [n \in 1 .. 2 * (IF lists = 0 THEN 0 ELSE lists - 1) |-> "sp"]
                       \o <<"mark", "sp">>
    [] tag = "blockquote" -> EnsureBlock(target) \o LinePrefix(quote + 1)
    [] tag = "pre" -> EnsureBlock(target) \o <<"mark", "nl">>
    [] tag = "code" -> IF pre = 0 THEN Append(target, "mark") ELSE target
    [] tag = "td" -> IF rowHasCell THEN target \o <<"sp", "mark", "sp">> ELSE target
    [] OTHER -> target

\* What a close tag adds to it.
Closed(tag, target) ==
  CASE tag \in {"p", "ul"} -> EnsureBlock(target)
    [] tag = "blockquote" -> EnsureBlockAt(target, IF quote > 0 THEN quote - 1 ELSE 0)
    [] tag = "pre" -> EnsureBlock(Append(EnsureNewline(target), "mark"))
    [] tag = "code" -> IF pre = 0 THEN Append(target, "mark") ELSE target
    [] OTHER -> target

-----------------------------------------------------------------------------
(* The closing of a link, and the clean-up at the end.                     *)

Trim(s) == LET front == Strip(s, {"sp", "nl"})
               from == Min({n \in DOMAIN front : front[n] \notin {"sp", "nl"}}
                             \cup {Len(front) + 1})
           IN SubSeq(front, from, Len(front))

LinkClosed(target, name) ==
  IF Trim(name) = <<>> THEN target ELSE target \o <<"mark">> \o Trim(name) \o <<"mark">>

\* Lines without the space at their end; runs of blank ones become one.
Cleaned(s) ==
  LET stops == SelectSeq([n \in DOMAIN s |-> n], LAMBDA n : s[n] = "nl") \o <<Len(s) + 1>>
      line(n) == Strip(SubSeq(s, IF n = 1 THEN 1 ELSE stops[n - 1] + 1, stops[n] - 1), {"sp"})
      Add(acc, n) ==
        IF line(n) \in {<<>>, <<"gt">>} THEN [acc EXCEPT !.blank = TRUE]
        ELSE [done |-> acc.done \o (IF acc.done = <<>> THEN <<>>
                                    ELSE IF acc.blank THEN <<"nl", "nl">> ELSE <<"nl">>) \o line(n),
              blank |-> FALSE]
  IN FoldLeft(Add, [done |-> <<>>, blank |-> FALSE], [n \in DOMAIN stops |-> n]).done

-----------------------------------------------------------------------------
Init ==
  /\ out = <<>> /\ label = <<>>
  /\ inLink = FALSE /\ lists = 0 /\ quote = 0 /\ pre = 0
  /\ rowHasCell = FALSE /\ skipping = ""
  /\ page = "scan" /\ text = <<>> /\ words = <<>> /\ tags = 0

Scanning == page = "scan" /\ UNCHANGED <<page, text>>

TextWord(w) ==
  /\ Scanning /\ Len(words) < MaxWords
  /\ IF skipping = "" THEN PutIn(Append(Sink, w)) /\ words' = Append(words, w)
     ELSE UNCHANGED <<out, label, words>>
  /\ UNCHANGED <<layout, tags>>

\* One space in a row; more of them say no more than one.
TextSpace ==
  /\ Scanning /\ skipping = ""
  /\ Space(Sink) # Sink /\ ~IsSuffix(<<"sp">>, Sink)
  /\ PutIn(Space(Sink))
  /\ UNCHANGED <<layout, words, tags>>

NextTag == Scanning /\ tags < MaxTags /\ tags' = tags + 1

OpenSkipped(tag) ==
  /\ NextTag
  /\ skipping' = IF skipping = "" THEN tag ELSE skipping
  /\ UNCHANGED <<out, label, inLink, lists, quote, pre, rowHasCell, words>>

CloseSkipped(tag) ==
  /\ NextTag
  /\ skipping' = IF skipping = tag THEN "" ELSE skipping
  /\ UNCHANGED <<out, label, inLink, lists, quote, pre, rowHasCell, words>>

\* A link that opens inside another takes the place of its label; what the
\* reader loses with it is no longer counted (the README lists the finding).
Open(tag) ==
  /\ NextTag /\ skipping = ""
  /\ IF tag = "a" THEN label' = <<>> /\ UNCHANGED out ELSE PutIn(Opened(tag, Sink))
  /\ words' = IF tag = "a" /\ inLink THEN WordsOf(out) ELSE words
  /\ inLink' = (inLink \/ tag = "a")
  /\ lists' = IF tag = "ul" THEN lists + 1 ELSE lists
  /\ quote' = IF tag = "blockquote" THEN quote + 1 ELSE quote
  /\ pre' = IF tag = "pre" THEN pre + 1 ELSE pre
  /\ rowHasCell' = (tag = "td" \/ (tag # "tr" /\ rowHasCell))
  /\ UNCHANGED skipping

Close(tag) ==
  /\ NextTag /\ skipping = ""
  /\ IF tag # "a" THEN PutIn(Closed(tag, Sink))
     ELSE out' = (IF inLink THEN LinkClosed(out, label) ELSE out) /\ UNCHANGED label
  /\ inLink' = (inLink /\ tag # "a")
  /\ lists' = IF tag = "ul" /\ lists > 0 THEN lists - 1 ELSE lists
  /\ quote' = IF tag = "blockquote" /\ quote > 0 THEN quote - 1 ELSE quote
  /\ pre' = IF tag = "pre" /\ pre > 0 THEN pre - 1 ELSE pre
  /\ UNCHANGED <<rowHasCell, skipping, words>>

\* Fault: a link still open at the end of the page is forgotten.
EndForgetsLink ==
  /\ page = "scan" /\ page' = "done"
  /\ text' = Cleaned(out)
  /\ UNCHANGED <<out, label, layout, words, tags>>

\* The end of the page: an unclosed link is closed, and the text cleaned.
End ==
  /\ page = "scan" /\ page' = "done"
  /\ out' = IF inLink THEN LinkClosed(out, label) ELSE out
  /\ inLink' = FALSE
  /\ text' = Cleaned(out')
  /\ UNCHANGED <<label, lists, quote, pre, rowHasCell, skipping, words, tags>>

Next ==
  \/ \E w \in Word : TextWord(w)
  \/ TextSpace
  \/ \E tag \in Skipped : OpenSkipped(tag) \/ CloseSkipped(tag)
  \/ \E tag \in Tag : Open(tag) \/ Close(tag)
  \/ End

Spec == Init /\ [][Next]_vars

-----------------------------------------------------------------------------
\* "An unknown tag is dropped and its text kept, and unbalanced tags don't
\* derail the rest of the document" (tools_web.cpp:272-275): whatever tags are
\* left open or closed twice, the text that comes out holds the words of the
\* page in their order, those inside dropped elements excepted.
NoWordIsLost ==
  page = "done" => WordsOf(text) = words
=============================================================================
