----------------------------- MODULE Elicitation ------------------------------
(***************************************************************************)
(* A server asks the person at the keyboard for something during a call: a  *)
(* form, one question per field and then a review, or a consent to open a   *)
(* link.  src/core/mcp/elicitation.cpp.                                     *)
(*                                                                         *)
(* A typed text is a sequence of items, the parts its commas separate; an   *)
(* item is its word, the word in lower case, and its number when it is one. *)
(***************************************************************************)
EXTENDS Naturals, Sequences, SequencesExt, FiniteSetsExt

CONSTANTS
    Forms,       \* the forms a server may ask for: sequences of fields
    Words,       \* the words of a text, "#" for a figure
    Texts,       \* what a person may type besides the text offered
    Links,       \* links a server may ask to open
    BadLinks,    \* those m8 does not open at all
    Exact,       \* whole numbers from here on are shown rounded
    MaxRequests, \* bound: requests
    MaxEdits     \* bound: reviews sent back for a change

Fields == UNION {{f[i] : i \in DOMAIN f} : f \in Forms}

VARIABLES
    form,        \* the fields of the form, or <<>>
    link,        \* the link of a url request
    place,       \* which question is on the screen
    at,          \* the field asked about
    values,      \* the answers so far
    review,      \* what the review shows
    result,      \* the last answer to the server
    opened,      \* the links the person agreed to open
    browser,     \* how often each link was opened, by hand or not
    requests, edits
vars == <<form, link, place, at, values, review, result, opened, browser,
          requests, edits>>

Item(word, low, n) == [word |-> word, low |-> low, n |-> n]
Numeral(n) == Item("#", "#", n)

\* A JSON value; `v` holds its texts, `n` its number.
Value(kind, v, n) == [kind |-> kind, v |-> v, n |-> n]
Items == [word : Words, low : Words, n : Nat]
Kinds == {"null", "boolean", "number", "string", "array", "object"}
Values == {x \in [kind : Kinds, v : Seq(Seq(Items)), n : Nat] :
             x.kind = "string" => Len(x.v) = 1}
Null == Value("null", <<>>, 0)
Refused == Value("refused", <<>>, 0)
Bool(b) == Value("boolean", <<>>, IF b THEN 1 ELSE 0)
Number(n) == Value("number", <<>>, n)
String(t) == Value("string", <<t>>, 0)

Lower(t) == [i \in DOMAIN t |-> t[i].low]

\* Fault: a number is a position before it is a value.
PositionFirst(f, t) ==
    LET C == DOMAIN f.choices
        position == IF Len(t) = 1 THEN {t[1].n} \cap C ELSE {}
        value == {i \in C : t \in {f.choices[i].value, f.choices[i].title}}
    IN IF position # {} THEN position ELSE value

\* The choices a text may mean, by value, title, either in another case, position.
Matches(f, t) ==
    LET C == DOMAIN f.choices
        value == {i \in C : f.choices[i].value = t}
        title == {i \in C : f.choices[i].title = t}
        folded == {i \in C : Lower(t) \in {Lower(f.choices[i].value),
                                           Lower(f.choices[i].title)}}
        position == IF Len(t) = 1 THEN {t[1].n} \cap C ELSE {}
    IN CHOOSE s \in {value, title, folded, position} :
          \/ s # {} /\ \/ s = value
                       \/ value = {} /\ s = title
                       \/ value = {} /\ title = {} /\ s = folded
                       \/ value = {} /\ title = {} /\ folded = {}
          \/ s = {} /\ value = {} /\ title = {} /\ folded = {} /\ position = {}

Chosen(f, t) == f.choices[Min(Matches(f, t))].value

InRange(f, n) == f.lo <= n /\ n <= f.hi

\* A multi-select: every part is a choice, none is taken twice.
Kept(f, t) ==
    LET pick(i) == Chosen(f, <<t[i]>>)
        seen(i) == \E j \in 1..(i - 1) : pick(j) = pick(i)
    IN FlattenSeq([i \in DOMAIN t |-> IF seen(i) THEN <<>> ELSE <<pick(i)>>])

CoerceList(f, t) ==
    IF \E i \in DOMAIN t : Matches(f, <<t[i]>>) = {} THEN Refused
    ELSE IF InRange(f, Len(Kept(f, t))) THEN Value("array", Kept(f, t), 0)
    ELSE Refused

CoerceChoice(f, t) == IF Matches(f, t) = {} THEN Refused ELSE String(Chosen(f, t))

CoerceNumber(f, t) ==
    IF Len(t) = 1 /\ t[1].word = "#" /\ InRange(f, t[1].n) THEN Number(t[1].n)
    ELSE Refused

CoerceBool(t) ==
    CASE Lower(t) \in {<<"y">>, <<"yes">>} -> Bool(TRUE)
      [] Lower(t) \in {<<"n">>, <<"no">>} -> Bool(FALSE)
      [] OTHER -> Refused

\* Plain text: its length limits; which words pass the format is the field's.
CoerceText(f, t) ==
    IF InRange(f, Len(t)) /\ (f.format = {} \/ t \in f.format) THEN String(t) ELSE Refused

Coerce(f, t) ==
    CASE f.type = "boolean" -> CoerceBool(t)
      [] f.type \in {"number", "integer"} -> CoerceNumber(f, t)
      [] f.type = "array" -> CoerceList(f, t)
      [] OTHER -> IF f.choices # <<>> THEN CoerceChoice(f, t) ELSE CoerceText(f, t)

TitleOf(f, value) ==
    LET hits == {i \in DOMAIN f.choices : f.choices[i].value = value}
    IN IF hits = {} THEN value ELSE f.choices[Min(hits)].title

\* number_text: six digits, when the number is not a moderate whole one.
Shown(n) == IF n < Exact THEN n ELSE n - (n % 10)

\* A value as it would be typed back in.
AnswerText(f, value) ==
    CASE value.kind = "boolean" ->
            IF value.n = 1 THEN <<Item("yes", "yes", 0)>> ELSE <<Item("no", "no", 0)>>
      [] value.kind = "number" -> <<Numeral(Shown(value.n))>>
      [] value.kind = "array" ->
            FlattenSeq([i \in DOMAIN value.v |-> TitleOf(f, value.v[i])])
      [] value.kind = "string" -> TitleOf(f, value.v[1])
      [] OTHER -> <<>>

\* What a form and a person are made of.
Described ==
    /\ {"yes", "no", "#"} \subseteq Words /\ Texts \subseteq Seq(Items)
    /\ \A f \in Fields :
          /\ f.choices \in Seq([value : Seq(Items), title : Seq(Items)])
          /\ f.default \in Values

Init ==
    /\ form = <<>> /\ link = "none" /\ place = "idle" /\ at = 0
    /\ values = <<>> /\ review = <<>> /\ result = "none"
    /\ opened = {} /\ browser = [l \in Links |-> 0]
    /\ requests = 0 /\ edits = 0

Finish(action) ==
    /\ place' = "idle" /\ result' = action
    /\ UNCHANGED <<form, link, at, values, review, requests, edits>>

Review(vs) == review' = [i \in DOMAIN form |-> AnswerText(form[i], vs[i])]

\* form_fields: flat fields of known types; a multi-select names its choices.
Readable(f) ==
    /\ f.type \in {"string", "number", "integer", "boolean", "array"}
    /\ f.type = "array" => f.choices # <<>>

\* Fault: a field without a default has no place among the answers.
DefaultsGiven(f) ==
    LET given == SelectSeq(f, LAMBDA x : x.default # Null)
    IN [i \in DOMAIN given |-> given[i].default]

Defaults(f) == [i \in DOMAIN f |-> f[i].default]

\* Every field starts at its default.  A schema m8 cannot show is only dismissed.
AskForm(f) ==
    /\ place = "idle" /\ requests < MaxRequests
    /\ requests' = requests + 1 /\ edits' = 0
    /\ form' = f /\ link' = "none" /\ result' = "none"
    /\ values' = Defaults(f)
    /\ review' = <<>> /\ at' = 1
    /\ place' = IF f = <<>> THEN "review"
                ELSE IF \A i \in DOMAIN f : Readable(f[i]) THEN "field" ELSE "dismiss"
    /\ UNCHANGED <<opened, browser>>

AskLink(l) ==
    /\ place = "idle" /\ requests < MaxRequests
    /\ requests' = requests + 1 /\ edits' = 0
    /\ form' = <<>> /\ link' = l /\ result' = "none" /\ values' = <<>>
    /\ review' = <<>> /\ at' = 1
    /\ place' = IF l \in BadLinks THEN "dismiss" ELSE IF l \in opened THEN "again" ELSE "consent"
    /\ UNCHANGED <<opened, browser>>

\* A mode m8 never declared.
AskOther ==
    /\ place = "idle" /\ requests < MaxRequests
    /\ requests' = requests + 1 /\ result' = "decline"
    /\ form' = <<>> /\ link' = "none" /\ values' = <<>> /\ review' = <<>>
    /\ UNCHANGED <<place, at, opened, browser, edits>>

\* What a typed text makes of the answer to a field; Null leaves it out.
\* Fault: Enter on the offered text keeps the value it came from, unchecked.
TakeOffered(f, old, t) ==
    IF old # Null /\ t = AnswerText(f, old) THEN old
    ELSE IF t = <<>> THEN IF f.required THEN Refused ELSE Null ELSE Coerce(f, t)

Take(f, old, t) ==
    IF t = <<>> THEN IF f.required THEN Refused ELSE Null ELSE Coerce(f, t)

AnswerField(t) ==
    /\ place = "field"
    /\ LET value == Take(form[at], values[at], t)
       IN /\ value # Refused
          /\ values' = [values EXCEPT ![at] = value]
          /\ IF at < Len(form)
             THEN at' = at + 1 /\ UNCHANGED <<place, review>>
             ELSE at' = 1 /\ place' = "review" /\ Review(values')
    /\ UNCHANGED <<form, link, result, opened, browser, requests, edits>>

EditAnswers ==
    /\ place = "review" /\ edits < MaxEdits
    /\ edits' = edits + 1
    /\ place' = IF form = <<>> THEN "review" ELSE "field"
    /\ at' = 1
    /\ UNCHANGED <<form, link, values, review, result, opened, browser, requests>>

SendAnswers ==
    /\ place = "review" /\ Finish("accept") /\ UNCHANGED <<opened, browser>>

\* Fault: a link opened by the browser is not remembered.
ForgetLink == UNCHANGED opened

RememberLink == opened' = opened \cup {link}

\* A yes: the browser opens, or the person does it.
OpenLink ==
    /\ place = "consent"
    /\ \/ /\ browser' = [browser EXCEPT ![link] = @ + 1]
          /\ RememberLink /\ Finish("accept")
       \/ /\ place' = "manual"
          /\ UNCHANGED <<form, link, at, values, review, result, opened, browser,
                         requests, edits>>

OpenedByHand ==
    /\ place = "manual"
    /\ browser' = [browser EXCEPT ![link] = @ + 1]
    /\ RememberLink /\ Finish("accept")

DoneThere == place = "again" /\ Finish("accept") /\ UNCHANGED <<opened, browser>>

\* Every question may be declined or cancelled; dismissing declines.
Refuse ==
    /\ place # "idle"
    /\ \E action \in {"decline", "cancel"} : Finish(action)
    /\ UNCHANGED <<opened, browser>>

Next ==
    \/ \E f \in Forms : AskForm(f)
    \/ \E l \in Links : AskLink(l)
    \/ AskOther
    \/ \E t \in Texts \cup {<<>>} : AnswerField(t)
    \/ place = "field" /\ AnswerField(AnswerText(form[at], values[at]))
    \/ EditAnswers \/ SendAnswers \/ OpenLink \/ OpenedByHand \/ DoneThere \/ Refuse

Spec == Init /\ [][Next]_vars

TypeOK ==
    /\ form \in Forms \cup {<<>>} /\ link \in Links \cup {"none"}
    /\ place \in {"idle", "field", "review", "dismiss", "consent", "manual", "again"}
    /\ at \in 0..3 /\ Len(values) = Len(form) /\ opened \subseteq Links
    /\ result \in {"none", "accept", "decline", "cancel"}

\* A value of the kind a field is answered with; a default may be of any.
OfItsType(f, value) ==
    CASE f.type = "boolean" -> value \in {Bool(TRUE), Bool(FALSE)}
      [] f.type \in {"number", "integer"} -> value = Number(value.n)
      [] f.type = "array" ->
            /\ value = Value("array", value.v, 0)
            /\ value.v \in Seq({f.choices[c].value : c \in DOMAIN f.choices})
            /\ \A i, j \in DOMAIN value.v : value.v[i] = value.v[j] => i = j
      [] OTHER ->
            /\ value.kind = "string" /\ value = String(value.v[1])
            /\ f.choices # <<>> => \E c \in DOMAIN f.choices : f.choices[c].value = value.v[1]

\* What a field may hold, by its description.
Fits(f, value) ==
    \/ value = Null /\ ~f.required
    \/ /\ OfItsType(f, value)
       /\ value.kind = "number" => InRange(f, value.n)
       /\ value.kind = "array" => InRange(f, Len(value.v))
       /\ value.kind = "string" /\ f.choices = <<>> =>
             InRange(f, Len(value.v[1])) /\ (f.format = {} \/ value.v[1] \in f.format)

\* An accepted form carries the answers the last review showed, every required field
\* among them and each one legal for its field, whatever default the server proposed
\* and however often the answers went back for a change (run_form).
SentAsReviewed ==
    (result = "accept" /\ form # <<>>) =>
        \A i \in DOMAIN form :
            /\ review[i] = AnswerText(form[i], values[i])
            /\ Fits(form[i], values[i])

\* What answer_text shows unambiguously: a number it does not round, titles that are
\* no other choice's value and, in a list, have no comma.
Unambiguous(f, value) ==
    /\ value.kind = "number" => value.n < Exact
    /\ f.type = "array" => \A i \in DOMAIN f.choices : Len(f.choices[i].title) = 1
    /\ \A i, j \in DOMAIN f.choices :
          i # j => f.choices[i].title \notin {f.choices[j].value, f.choices[j].title}

\* Enter on the text a field offers keeps the value it came from (answer_text and
\* coerce_answer are each other's inverse) where that text is unambiguous, so there an
\* edit round changes nothing by itself; a default of the right kind is kept too, or
\* refused.  Elsewhere Enter may change an answer: number_text rounds, a title may say
\* what another choice's value says (elicitation.cpp:52-60).
EnterKeeps ==
    place = "field" /\ values[at] # Null /\ Unambiguous(form[at], values[at]) =>
        LET back == Coerce(form[at], AnswerText(form[at], values[at]))
        IN /\ edits > 0 => back = values[at]
           /\ OfItsType(form[at], values[at]) => back \in {values[at], Refused}

\* A link is opened at most once and reported accepted only when it was: the server's
\* later requests about the same link only wait (run_url, `opened`).
OpenedOnce ==
    /\ \A l \in Links : browser[l] <= 1
    /\ result = "accept" /\ link # "none" => browser[link] = 1

\* Why it is opened once: whoever is asked about a link has not opened it.
LinkInv ==
    /\ values \in Seq(Values)
    /\ browser \in [Links -> {0, 1}]
    /\ \A l \in Links : browser[l] = 1 <=> l \in opened
    /\ place \in {"consent", "manual"} => link \in Links \ opened
    /\ place = "again" => link \in opened
    /\ place \in {"field", "review"} => link = "none"
    /\ place = "field" => form # <<>>  /\ at \in 1..Len(form)
    /\ place # "idle" => result = "none"

\* Why the answers are right: those already asked for are, and after a review all are.
AnswerInv ==
    /\ place \in {"consent", "manual", "again"} => form = <<>>
    /\ place = "field" =>
          \A i \in DOMAIN form : i < at \/ edits > 0 => Fits(form[i], values[i])
    /\ place = "review" =>
          \A i \in DOMAIN form :
              review[i] = AnswerText(form[i], values[i]) /\ Fits(form[i], values[i])

IInv == TypeOK /\ LinkInv /\ OpenedOnce /\ AnswerInv /\ SentAsReviewed
=============================================================================
