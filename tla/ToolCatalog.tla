----------------------------- MODULE ToolCatalog -----------------------------
(***************************************************************************)
(* The names the model calls MCP tools by: made from the server's and the  *)
(* tool's, made unique in each catalog published (core/mcp/catalog.cpp),   *)
(* offered for a step of a turn and looked up again when the call runs     *)
(* (Registry::call_tool).  Which tool a name is, is decided twice.         *)
(*                                                                         *)
(* And the search an agent finds deferred tools with (SearchIndex and      *)
(* parse_query in core/mcp/tool_search.cpp).  A tool has the words of its  *)
(* name and those its texts mention; a query has keywords, required words  *)
(* ("+word") and a server ("server:x").  The compact form of a name or of  *)
(* a query is the set of its words.  The BM25 sum is stood in for by an    *)
(* integer that, like it, grows with a word's weight in the tool and with  *)
(* its rarity in the catalog, and stays below what being asked for by name *)
(* adds.                                                                   *)
(***************************************************************************)
EXTENDS Naturals, FiniteSets, Sequences

CONSTANTS Servers,     \* server names, in the order of the configuration
          ToolLists,   \* per server, the lists of tools it may have
          Sanitized,   \* per name, what is left of it: letters, digits and '_'
          Words,       \* the words texts are made of, servers' names among them
          Longer,      \* the pairs <<w, v>> in which w is a proper prefix of v
          Indexed,     \* what SearchIndex is built of: sequences of [server, name, mentions]
          MaxWords     \* bound: words of a query

VARIABLES tools,       \* per server, what it lists; <<>> while it is not connected
          snapshot,    \* the catalog published last: a sequence of tools
          offered,     \* the catalog of the turn's step
          ran,         \* the last call: the tool offered, and the tool called if any
          docs,        \* the tools a search ranks
          query,
          hits,
          done

catalogVars == <<tools, snapshot, offered, ran>>
searchVars == <<docs, query, hits, done>>
vars == <<catalogVars, searchVars>>

ServerNames == {Servers[i] : i \in DOMAIN Servers}

\* mcp__<server>__<tool>.
ExposedToolName(server, tool) == <<Sanitized[server], Sanitized[tool], <<>>>>

Tool(server, tool) == [server |-> server, tool |-> tool]
\* Every tool of the connected servers, in server order.
Listed(of) ==
    LET upTo[n \in 0 .. Len(Servers)] ==
            IF n = 0 THEN <<>>
            ELSE upTo[n - 1] \o [j \in 1 .. Len(of[Servers[n]]) |->
                                    Tool(Servers[n], of[Servers[n]][j])]
    IN upTo[Len(Servers)]

\* Fault: the later one keeps the name.
KeepName(server, tool, taken) == ExposedToolName(server, tool)
\* The later of two tools with one name gets a suffix of its original names.
UniqueName(server, tool, taken) ==
    LET name == ExposedToolName(server, tool)
    IN IF name \in taken THEN <<name[1], name[2], <<server, tool>>>> ELSE name

Exposed(catalog) == {catalog[i].exposed : i \in DOMAIN catalog}
Named(tool, taken) ==
    [server |-> tool.server, tool |-> tool.tool,
     exposed |-> UniqueName(tool.server, tool.tool, taken)]
\* finalize_catalog(): one after the other, each with the name it is exposed by.
Finalize(list) ==
    LET upTo[n \in 0 .. Len(list)] ==
            IF n = 0 THEN <<>>
            ELSE Append(upTo[n - 1], Named(list[n], Exposed(upTo[n - 1])))
    IN upTo[Len(list)]

\* Catalog::find(): by_exposed keeps the last tool with a name.
Find(catalog, name) ==
    catalog[CHOOSE i \in DOMAIN catalog : /\ catalog[i].exposed = name
                                          /\ \A j \in i + 1 .. Len(catalog) : catalog[j].exposed # name]

CatalogInit ==
    /\ tools = [s \in ServerNames |-> <<>>] /\ snapshot = <<>> /\ offered = <<>>
    /\ ran = <<>>

\* A server connects, lists its tools anew, or goes; then a catalog is published.
ServerLists(s, list) ==
    /\ list # tools[s]
    /\ tools' = [tools EXCEPT ![s] = list]
    /\ snapshot' = Finalize(Listed(tools'))
    /\ UNCHANGED <<offered, ran>>

\* A step of the agent offers the tools of the catalog as it is.
Step ==
    /\ offered' = snapshot /\ ran' = <<>>
    /\ UNCHANGED <<tools, snapshot>>

\* The model calls what the step offered it; the registry looks the name up in
\* the catalog of now.
Call(name) ==
    /\ name \in Exposed(offered)
    /\ ran' = <<Find(offered, name),
                IF name \in Exposed(snapshot) THEN <<Find(snapshot, name)>> ELSE <<>>>>
    /\ UNCHANGED <<tools, snapshot, offered>>

CatalogNext ==
    \/ Step
    \/ \E s \in ServerNames : \E list \in ToolLists[s] : ServerLists(s, list)
    \/ \E name \in Exposed(offered) : Call(name)

-----------------------------------------------------------------------------
Queries == [server : ServerNames \cup {""}, required : SUBSET Words, words : SUBSET Words]

-----------------------------------------------------------------------------
\* The index: a name weighs three times what a description does, and the
\* server's name half as much as the tool's.
Weight(d, w) == (IF w \in docs[d].name THEN 6 ELSE 0)
                  + (IF w = docs[d].server THEN 3 ELSE 0)
                  + (IF w \in docs[d].mentions THEN 2 ELSE 0)
DocFreq(w) == Cardinality({d \in DOMAIN docs : Weight(d, w) > 0})

\* A required word also ranks; it must be a word of the name or the server.
Terms(q) == q.words \cup q.required
Allowed(q) ==
  {d \in DOMAIN docs : /\ q.server \in {"", docs[d].server}
                          /\ q.required \subseteq docs[d].name \cup {docs[d].server}}
IsNamed(q, d) == q.words # {} /\ q.words = docs[d].name

Bm25(terms, d) ==
  LET sum[T \in SUBSET terms] ==
        IF T = {} THEN 0
        ELSE LET w == CHOOSE w \in T : TRUE
             IN Weight(d, w) * (Len(docs) - DocFreq(w) + 1) + sum[T \ {w}]
  IN sum[terms]

\* Fault: being asked for by name adds nothing.
ScoreOfMentions(terms, q, d) ==
  IF terms = {} /\ q.server # "" THEN 1 ELSE Bm25(terms, d)

Score(terms, q, d) ==
  IF terms = {} /\ q.server # "" THEN 1
  ELSE Bm25(terms, d) + (IF IsNamed(q, d) THEN 100 ELSE 0)

\* The tools that score at all, the best first, else in the catalog's order.
Ranked(terms, q) ==
  LET found == {d \in Allowed(q) : Score(terms, q, d) > 0}
      Before(d, e) == \/ Score(terms, q, d) > Score(terms, q, e)
                      \/ Score(terms, q, d) = Score(terms, q, e) /\ d < e
  IN [n \in 1 .. Cardinality(found) |->
        CHOOSE d \in found : Cardinality({e \in found : Before(e, d)}) = n - 1]

\* When no whole word matched: the words of the catalog they are prefixes of.
Expanded(q) ==
  {v \in Words : DocFreq(v) > 0 /\ \E w \in Terms(q) : <<w, v>> \in Longer}

Results(q) ==
  IF Ranked(Terms(q), q) # <<>> \/ Expanded(q) = {} THEN Ranked(Terms(q), q)
  ELSE Ranked(Expanded(q), q)

-----------------------------------------------------------------------------
SearchInit ==
  /\ docs \in Indexed
  /\ query \in {q \in Queries : Cardinality(q.required) + Cardinality(q.words) <= MaxWords}
  /\ hits = <<>> /\ done = FALSE

Search ==
  /\ ~done /\ done' = TRUE
  /\ hits' = Results(query)
  /\ UNCHANGED <<docs, query>>

Init == CatalogInit /\ SearchInit
Next ==
    \/ CatalogNext /\ UNCHANGED searchVars
    \/ Search /\ UNCHANGED catalogVars

Spec == Init /\ [][Next]_vars

----------------------------------------------------------------------------
\* Whatever their names come to when they are cleaned up: every tool of a catalog
\* is found by its exposed name, and by no other's.
EveryToolIsFound ==
    \A i \in DOMAIN snapshot : Find(snapshot, snapshot[i].exposed) = snapshot[i]

\* A tool asked for by name comes "ahead of anything that merely mentions it"
\* (tool_search.cpp:367-370) and is always among the hits; nothing outside the
\* server or the required words asked for is; and a prefix counts only where
\* no tool in reach has a whole word of the query.
RanksWhatIsAskedFor ==
  LET reach == Allowed(query)
      Whole(d) == \E w \in Terms(query) : Weight(d, w) > 0
      Hit(d) == \E n \in DOMAIN hits : hits[n] = d
  IN done =>
       /\ \A d \in DOMAIN docs : Hit(d) => d \in reach
       /\ \A d \in reach : IsNamed(query, d) => Hit(d)
       /\ \A m, n \in DOMAIN hits : m < n /\ IsNamed(query, hits[n]) => IsNamed(query, hits[m])
       /\ \A d \in reach : (Terms(query) # {} /\ \E e \in reach : Whole(e))
                             => (Hit(d) <=> Whole(d))

----------------------------------------------------------------------------
(* Why a tool is found: a name without a suffix is the first with it, and    *)
(* one with a suffix tells whose it is.                                      *)

Entry(server, tool, name) == [server |-> server, tool |-> tool, exposed |-> name]
IsPlain(entry) ==
    entry = Entry(entry.server, entry.tool, ExposedToolName(entry.server, entry.tool))
IsSuffixed(entry) ==
    entry = Entry(entry.server, entry.tool,
                  <<Sanitized[entry.server], Sanitized[entry.tool], <<entry.server, entry.tool>>>>)

NamesTell(catalog) ==
    /\ \A i \in DOMAIN catalog : IsPlain(catalog[i]) \/ IsSuffixed(catalog[i])
    /\ \A i, j \in DOMAIN catalog :
          i < j /\ IsPlain(catalog[j]) => catalog[i].exposed # catalog[j].exposed

IInv ==
    /\ tools \in [ServerNames -> Seq(DOMAIN Sanitized)]
    /\ snapshot \in Seq({snapshot[i] : i \in DOMAIN snapshot})
    /\ NamesTell(snapshot)
=============================================================================
