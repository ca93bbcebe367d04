------------------------------- MODULE MCAgent -------------------------------
(***************************************************************************)
(* What an agent of m8 works with: the parts of AgentParts, and with them its *)
(* other tools, and the algorithms that each have a definition they are       *)
(* held against.  These too are in v1 .. v17, in the order they declare them. *)
(***************************************************************************)
EXTENDS AgentParts, SequencesExt

CONSTANT Parts   \* those a run takes

OneStripe == [i \in {"a", "b"} |-> 1]   \* two documents that share a lock
TwoSkills == <<"git", "git-review">>
InGit == {<<"git", "git-review">>}
ThreeTools == {<<"s", "x">>, <<"s", "y">>, <<"r", "x">>}   \* two of one name

-----------------------------------------------------------------------------
(* The searches of a store.                                                *)

V(t, v) == [t |-> t, v |-> v]
Cond(op, list) == [op |-> op, list |-> list]
On(f, conds) == {[key |-> f, conds |-> conds]}
Branches == {On("w", {Cond("$gte", {V("int", <<2>>)}), Cond("$lt", {V("double", <<3>>)})}),
             On("s", {Cond("$in", {V("string", <<1>>), V("int", <<2>>)})})}

Filter == INSTANCE VectorFilter WITH
    Fields <- [w |-> "double", n |-> "int", s |-> "string", g |-> "array"],
    Values <- {V("int", <<2>>), V("double", <<2>>), V("double", <<3>>), V("string", <<1>>),
               V("array", <<1, 2>>), V("null", <<>>)},
    Filters <-
        {On(f, {Cond(op, {a})}) :
            f \in {"w", "n", "s", "g"}, op \in {"$eq", "$ne", "$gt", "$lte", "$in", "$nin"},
            a \in {V("int", <<2>>), V("double", <<2>>), V("string", <<1>>)}}
          \cup {{[key |-> k, branches |-> Branches]} : k \in {"$and", "$or"}}
          \cup {On("w", {Cond("$near", {V("int", <<2>>)})}), {[key |-> "$unknown"]}, {}},
    doc <- v1, filter <- v2, reopened <- v3

Index == INSTANCE VectorIndex WITH
    Points <- {0, 2, 3}, Inserts <- {<<1, 0, 3, 1>>, <<2, 1, 0, 4>>, <<0, 4, 2, 3>>},
    M <- 1, EfConstruction <- 2, EfSearch <- 2, MaxLevel <- 1, MaxDeleted <- 1,
    BruteForceBelow <- 1,
    vectors <- v1, size <- v2, links <- v3, entry <- v4, top <- v5, snapshot <- v6,
    deleted <- v7

-----------------------------------------------------------------------------
(* The tools of the servers: their names, the search among them, their      *)
(* schemas, and the stream their answers come in.                            *)

\* Two servers, and two tools of each, whose cleaned-up names are one.
Cleaned == [n \in {"a-b", "a_b", "c", "t", "t-u", "t_u"} |->
              CASE n = "a-b" -> "a_b" [] n = "t-u" -> "t_u" [] OTHER -> n]
Lists == [s \in {"a-b", "a_b", "c"} |->
            IF s = "c" THEN {<<>>, <<"t-u", "t_u">>} ELSE {<<>>, <<"t">>, <<"t", "t_u">>}]

\* "file" is a prefix of "files"; some tools are named by a word, some mention it.
Names == <<"a-b", "a_b", "c">>
FilesIsLonger == {<<"file", "files">>}
SomeTools == [server : {"a_b", "c"}, name : {{"get"}, {"get", "file"}, {"files"}},
              mentions : {{}, {"file", "get"}}]
TwoTools == {<<a, b>> : a \in SomeTools, b \in SomeTools}

\* Schemas of one property p: of a type, of either or of both of two, a list;
\* of two alternatives or two parts that are objects; and no schema at all.
Type(name) == [type |-> {name}]
Simple == {Type("integer"), Type("string"), Type("boolean"), Type("null"),
           [type |-> {"string", "null"}], [bool |-> TRUE], [bool |-> FALSE], [ref |-> "d"]}
Nodes ==
    Simple
      \cup {[anyOf |-> <<a, b>>] : a, b \in Simple}
      \cup {[allOf |-> <<a, b>>] :
               a, b \in {Type("integer"), Type("string"), [bool |-> FALSE], [ref |-> "d"]}}
      \cup {[type |-> {"array"}, items |-> a] : a \in Simple}
      \cup {[type |-> {"array"}, prefixItems |-> <<a, b>>] :
               a, b \in {Type("integer"), Type("string")}}
Object(p, a) == [type |-> {"object"}, properties |-> [x \in {p} |-> a], required |-> {p}]
SomeSchemas ==
    {[type |-> {"object"}, defs |-> d, properties |-> [p |-> n], required |-> {"p"}] :
        n \in Nodes,
        d \in {[d |-> Type("integer")],
               [d |-> [properties |-> [q |-> Type("boolean")], required |-> {"q"}]]}}
      \cup {[anyOf |-> <<Object("p", a), Object(k, b)>>] :
               a, b \in {Type("integer"), Type("string"), [bool |-> FALSE]}, k \in {"p", "q"}}
      \cup {[type |-> {"object"}, allOf |-> <<Object("p", a), Object("q", b)>>] :
               a, b \in {Type("integer"), [bool |-> FALSE]}}
      \cup {[bool |-> TRUE], [bool |-> FALSE]}

Json(type, value) == [t |-> type, v |-> value]
Five == Json("number", 5)
Quoted(value) == Json("string", value)
Word == Quoted([t |-> "word"])
List == Json("array", <<Five, Quoted(Five)>>)
With(p, value) == Json("object", [k \in {p} |-> value])
SomeArguments ==
    {With(p, x) : p \in {"p", "q"},
                  x \in {Five, Quoted(Five), Word, List, Quoted(List), Json("boolean", TRUE),
                         Json("null", 0)}}
      \cup {Quoted(With("p", Five)), Json("null", 0), Word, With("p", With("q", Word))}

Schema == INSTANCE SchemaLowering WITH
    Schemas <- SomeSchemas, Arguments <- SomeArguments, MaxDepth <- 3, MaxRefDepth <- 2,
    tool <- v1, lowered <- v2, problem <- v3, call <- v4

Sse == INSTANCE SseStream WITH
    MaxBytes <- 3, MaxStream <- 4,
    stream <- v1, fed <- v2, parser <- v3, events <- v4, over <- v5

-----------------------------------------------------------------------------
(* The other tools.                                                        *)

\* "lf" ends a line; the texts of two edits overlap in some of the files.
Files == INSTANCE FileTools WITH
    Agents <- {"a"},
    Texts <- SeqOf({"x", "y", "lf"}, 3)
               \cup {<<"x", "lf", "y", "lf", "x">>, <<"x", "y", "y", "x">>},
    EditLists <-
        {<<<<o, n>>>> : o \in {<<"x">>, <<"y", "x">>}, n \in {<<>>, <<"y", "y">>}}
          \cup {<<<<o, n>>, <<p, m>>>> : o, p \in {<<"x">>, <<"x", "y">>, <<"y", "x">>},
                                         n, m \in {<<>>, <<"lf">>}},
    MaxLines <- 2, MaxBytes <- 3, MaxCalls <- 1,
    exists <- v1, file <- v2, pc <- v3, task <- v4, shown <- v5, calls <- v6

Html == INSTANCE HtmlText WITH
    MaxWords <- 2, MaxTags <- 2,
    out <- v1, label <- v2, inLink <- v3, lists <- v4, quote <- v5, pre <- v6,
    rowHasCell <- v7, skipping <- v8, page <- v9, text <- v10, words <- v11, tags <- v12

-----------------------------------------------------------------------------
OtherInit ==
    /\ Init /\ width = 0
    /\ \/ part = "filter" /\ Filter!Init /\ Idle4
       \/ part = "index" /\ Index!Init /\ Idle8
       \/ part = "search" /\ v1 = 0 /\ v2 = 0 /\ v3 = 0 /\ v4 = 0 /\ Catalog!SearchInit /\ Idle9
       \/ part = "schema" /\ Schema!Init /\ v5 = 0 /\ Idle6
       \/ part = "sse" /\ Sse!Init /\ Idle6
       \/ part = "tags" /\ BashIndex!QueryInit /\ Idle3
       \/ part = "files" /\ Files!Init /\ Idle7
       \/ part = "html" /\ Html!Init /\ Idle13

OtherNext ==
    /\ UNCHANGED <<part, vars>>
    /\ \/ part = "filter" /\ Filter!Next /\ UNCHANGED From4
       \/ part = "index" /\ Index!Next /\ UNCHANGED From8
       \/ part = "search" /\ Catalog!Search /\ UNCHANGED <<v1, v2, v3, v4, From9>>
       \/ part = "schema" /\ Schema!Next /\ UNCHANGED <<v5, From6>>
       \/ part = "sse" /\ Sse!Next /\ UNCHANGED From6
       \/ part = "tags" /\ BashIndex!Parse /\ UNCHANGED From3
       \/ part = "files" /\ Files!Next /\ UNCHANGED From7
       \/ part = "html" /\ Html!Next /\ UNCHANGED From13

RunInit == part \in Parts /\ (PartInit \/ OtherInit)
RunNext == PartNext \/ OtherNext

\* The fairness the modules state, of their own steps.
RunFairness ==
    /\ WF_all(ReplIs(Repl!CallerStep)) /\ WF_all(ReplIs(Repl!Source \/ Repl!Mark))
    /\ WF_all(ShellIs(Shell!Reader)) /\ WF_all(ShellIs(Shell!Owner))

RunSpec == RunInit /\ [][RunNext]_all /\ RunFairness

-----------------------------------------------------------------------------
\* A search finds what it must: a filter still fits after JSON, the graph of a store
\* is one, a tool is found by what it is and a command by its tags.
SearchesFind ==
    /\ part = "filter" => Filter!StillValid
    /\ part = "index" =>
          Index!TypeOK /\ Index!GraphIsWellFormed /\ Index!FilterStarvesNothing /\ Index!WideWalkIsExact
    /\ part = "search" => Catalog!RanksWhatIsAskedFor
    /\ part = "tags" => BashIndex!FindsWhatItMeans

\* A tool does what the model is told: an edit is exact, paging, pages and the chunks
\* of a stream lose nothing; a tool's schema keeps its meaning when it is made to fit
\* Ollama, and arguments move towards it; and what is searched for is found.
ToolsKeepFaith ==
    /\ SearchesFind
    /\ part = "files" => Files!EditsAreExact /\ Files!PagingShowsItAll
    /\ part = "html" => Html!NoWordIsLost
    /\ part = "sse" => Sse!ChunksDoNotMatter
    /\ part = "schema" =>
          Schema!FitsOllama /\ Schema!CoercedTowards /\ Schema!NothingMoreIsAsked

\* A command is answered by its own end, and with a limit it is answered at all; a
\* shell's destructor ends, unless the shell gave its terminal away and lives on; a
\* filter selects the same after JSON, what is read stays put while output comes,
\* and /reset waits for who works.
StepsKeepFaith ==
    /\ [][/\ StepIsRight
          /\ part = "filter" => Filter!SelectionSurvives]_all
    /\ (part = "bash" /\ Repl!Limited) ~> (part = "bash" /\ Repl!Answered)
    /\ (part = "shell" /\ Shell!Joining) ~> (part = "shell" /\ Shell!Joined)
=============================================================================
