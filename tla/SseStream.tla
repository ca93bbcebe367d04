----------------------------- MODULE SseStream -----------------------------
(***************************************************************************)
(* The incremental parser of a text/event-stream body (core/mcp/sse.h and  *)
(* sse.cpp) fed by the chunks in which the network happens to deliver it.  *)
(*                                                                         *)
(* The stream is a sequence of pieces: the two line ends, and the pieces   *)
(* lines are made of.  A line's first piece is its field - a comment, an   *)
(* id, data, or a field the parser does not know - and what follows is     *)
(* more of its value; every piece counts one against the limit.  A byte    *)
(* order mark is left out (see the README for the case of one split over   *)
(* two chunks).                                                            *)
(***************************************************************************)
EXTENDS Naturals, Sequences, SequencesExt

CONSTANTS
  MaxBytes,     \* mMaxEventBytes: the pieces an event's data may have
  MaxStream     \* bound: the pieces of the stream

VARIABLES
  stream,       \* what the server sends
  fed,          \* how many pieces of it have been fed
  parser,       \* the parser's members
  events,       \* what on_event was called with
  over          \* finish() was called

vars == <<stream, fed, parser, events, over>>

Pieces == {"cr", "lf", "data", "id", ":"}

\* The parser as constructed, and as each dispatch leaves it.
Empty == [line |-> <<>>, data |-> <<>>, has |-> FALSE, dropping |-> FALSE,
          sawCr |-> FALSE, id |-> 0, lastId |-> 0, out |-> <<>>]

-----------------------------------------------------------------------------
(* line() and dispatch().  An id's value is the number of its pieces.      *)

Dispatch(p) ==
  [p EXCEPT !.lastId = p.id, !.data = <<>>, !.has = FALSE, !.dropping = FALSE,
            !.out = IF p.has /\ ~p.dropping THEN Append(@, p.data) ELSE @]

DataLine(p, value) ==
  IF p.dropping THEN p
  ELSE IF Len(p.data) + Len(value) + 1 > MaxBytes THEN [p EXCEPT !.dropping = TRUE]
  ELSE [p EXCEPT !.data = (IF p.has THEN Append(@, "lf") ELSE @) \o value, !.has = TRUE]

Line(p, text) ==
  CASE text = <<>> -> Dispatch(p)
    [] text # <<>> /\ text[1] = "data" -> DataLine(p, Tail(text))
    [] text # <<>> /\ text[1] = "id" -> [p EXCEPT !.id = Len(text)]
    [] OTHER -> p

EndLine(p, piece) == [Line(p, p.line) EXCEPT !.line = <<>>, !.sawCr = (piece = "cr")]

\* One byte of feed().
Byte(p, piece) ==
  IF p.sawCr /\ piece = "lf" THEN [p EXCEPT !.sawCr = FALSE]
  ELSE IF piece \in {"cr", "lf"} THEN EndLine(p, piece)
  ELSE IF Len(p.line) < MaxBytes
       THEN [p EXCEPT !.sawCr = FALSE, !.line = Append(@, piece)]
       ELSE [p EXCEPT !.sawCr = FALSE, !.dropping = TRUE]

\* Fault: a chunk starts with no memory of the CR that ended the last one.
FeedAfresh(p, chunk) == FoldLeft(Byte, [p EXCEPT !.sawCr = FALSE], chunk)

FeedBytes(p, chunk) == FoldLeft(Byte, p, chunk)

-----------------------------------------------------------------------------
Init ==
  /\ stream \in SeqOf(Pieces, MaxStream)
  /\ fed = 0
  /\ parser = Empty
  /\ events = <<>>
  /\ over = FALSE

\* The next chunk, of any length, arrives.
Feed(n) ==
  /\ ~over /\ n \in 1 .. Len(stream) - fed
  /\ fed' = fed + n
  /\ parser' = FeedBytes(parser, SubSeq(stream, fed + 1, fed + n))
  /\ events' = parser'.out
  /\ UNCHANGED <<stream, over>>

\* finish(): the last line, then the event it belongs to.
Finish ==
  /\ ~over /\ fed = Len(stream)
  /\ over' = TRUE
  /\ parser' = Dispatch(IF parser.line # <<>> THEN Line(parser, parser.line) ELSE parser)
  /\ events' = parser'.out
  /\ UNCHANGED <<stream, fed>>

Next == (\E n \in 1 .. MaxStream : Feed(n)) \/ Finish

Spec == Init /\ [][Next]_vars

-----------------------------------------------------------------------------
(* What the stream means, read as a whole.                                 *)

\* A line ends before the i-th piece when that is a CR, or an LF that is not
\* the second half of a CRLF; the LF of a CRLF belongs to no line.
SecondHalf(s, i) == s[i] = "lf" /\ i > 1 /\ s[i - 1] = "cr"
Ends(s) == {i \in 1 .. Len(s) : s[i] \in {"cr", "lf"} /\ ~SecondHalf(s, i)}

\* The line that ends before i, as the pieces since the line end before it.
LineEndingAt(s, i) ==
  LET from == {j + 1 : j \in {k \in Ends(s) : k < i}} \cup {1}
      start == CHOOSE j \in from : \A k \in from : k <= j
  IN SelectSeq(SubSeq(s, start, i - 1), LAMBDA c : c \notin {"cr", "lf"})

\* The lines of the whole stream, the unfinished last one included.
WholeLines(s) ==
  LET ends == SelectSeq([n \in DOMAIN s |-> n], LAMBDA n : n \in Ends(s)) \o <<Len(s) + 1>>
  IN [n \in 1 .. Len(ends) |-> LineEndingAt(s, ends[n])]

\* The groups of lines between blank ones: their first and last line numbers.
Groups(ls) ==
  {g \in (1 .. Len(ls)) \X (1 .. Len(ls)) :
     /\ g[1] <= g[2] /\ \A n \in g[1] .. g[2] : ls[n] # <<>>
     /\ g[1] > 1 => ls[g[1] - 1] = <<>>
     /\ g[2] < Len(ls) => ls[g[2] + 1] = <<>>}

\* What a group's data lines say; none of them may be lost.
DataOf(ls, a, b) ==
  LET datas == SelectSeq(SubSeq(ls, a, b), LAMBDA l : l[1] = "data")
  IN [n \in 1 .. Len(datas) |-> Tail(datas[n])]

Joined(values) ==
  FoldLeft(LAMBDA acc, v : acc \o <<"lf">> \o v, values[1], Tail(values))

\* A group is dropped when a line of it, or its data as a whole, is too long;
\* a single data line is charged for the line end it has no use for.
TooLong(ls, a, b) ==
  LET datas == DataOf(ls, a, b)
  IN \/ \E n \in a .. b : Len(ls[n]) > MaxBytes
     \/ datas # <<>> /\ Len(Joined(datas)) + (IF Len(datas) = 1 THEN 1 ELSE 0) > MaxBytes

Meaning(s) ==
  LET ls == WholeLines(s)
      kept == {g \in Groups(ls) : DataOf(ls, g[1], g[2]) # <<>> /\ ~TooLong(ls, g[1], g[2])}
      order == SetToSortSeq(kept, LAMBDA g, h : g[1] < h[1])
  IN [n \in 1 .. Len(order) |-> Joined(DataOf(ls, order[n][1], order[n][2]))]

\* The last id sent, a line cut at the limit like any other; 0 for none.
LastId(ls) ==
  FoldLeft(LAMBDA id, l : IF l = <<>> \/ l[1] # "id" THEN id
                          ELSE IF Len(l) > MaxBytes THEN MaxBytes ELSE Len(l), 0, ls)

\* The events that come out are those of the stream read as a whole, however
\* the network cut it - in the middle of a line, or between a CR and its LF
\* (sse.cpp:14-35, sse.h:20-26) - and the point a client reconnects from is
\* the last id sent, even by an event without data (sse.cpp:86-89).
ChunksDoNotMatter ==
  over => events = Meaning(stream) /\ parser.lastId = LastId(WholeLines(stream))
=============================================================================
