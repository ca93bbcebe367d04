---------------------------- MODULE MemoryStore -----------------------------
(***************************************************************************)
(* The agents' memories (core/vdb/memory_store.cpp): remember, recall and  *)
(* forget over one vector store, called by several agents' threads.  The   *)
(* slow embedding is done before the lock is taken; the store's file is    *)
(* made by the first memory, with the width its embedding happens to have. *)
(* Every call of the vector store is one step here (VectorLocks shows what *)
(* happens inside); a recall is the search and one bump per hit.           *)
(***************************************************************************)
EXTENDS Naturals, FiniteSets

CONSTANTS Agents,
          Widths,      \* widths the embedding models may return
          MaxDocs,     \* memories remembered in a behaviour
          MaxRecalls   \* recalls in a behaviour

ASSUME WidthsAssumption == Widths \subseteq Nat \ {0}

VARIABLES
    width,     \* the file's width; 0 while there is no file
    docs,      \* [ids -> record of the memory], ids from 1
    gone,      \* ids forgotten
    agent,     \* [Agents -> what it is doing]
    recalls    \* recalls begun

vars == <<width, docs, gone, agent, recalls>>

Idle == [at |-> "idle", width |-> 0, hits |-> {}, seen |-> {}]

TypeOK ==
    /\ width \in Widths \cup {0}
    /\ DOMAIN docs \subseteq 1 .. MaxDocs
    /\ \A i \in DOMAIN docs : docs[i] \in [width : Widths, count : 0 .. MaxRecalls, answers : 0 .. MaxRecalls]
    /\ gone \subseteq DOMAIN docs
    /\ agent \in [Agents -> [at : {"idle", "remember", "recall", "bump"},
                             width : Widths \cup {0},
                             hits : SUBSET [id : 1 .. MaxDocs, count : 0 .. MaxRecalls],
                             seen : SUBSET (1 .. MaxDocs)]]
    /\ recalls \in 0 .. MaxRecalls

\* open(): no file, or one some earlier run left, whose width counts.
Init ==
    /\ width \in Widths \cup {0}
    /\ docs = <<>> /\ gone = {} /\ recalls = 0
    /\ agent = [a \in Agents |-> Idle]

Live == DOMAIN docs \ gone
Sharing == {a \in Agents : agent[a].at = "bump"}

\* remember(): embed first.  The call ends there when the model fails.
Embed(a) ==
    /\ agent[a].at = "idle"
    /\ \E w \in Widths : agent' = [agent EXCEPT ![a] = [Idle EXCEPT !.at = "remember", !.width = w]]
    /\ UNCHANGED <<width, docs, gone, recalls>>

\* Fault: a store that exists is taken as it is.
EnsureAny(w) == width' = IF width = 0 THEN w ELSE width

\* ensure_store_locked(): the file as it is, or a new one of this width.
EnsureStore(w) == width \in {0, w} /\ width' = w

\* Under the lock, exclusively: make the file if there is none, and add.
Remember(a) ==
    /\ agent[a].at = "remember" /\ Sharing = {}
    /\ Cardinality(DOMAIN docs) < MaxDocs
    /\ EnsureStore(agent[a].width)
    /\ LET i == Cardinality(DOMAIN docs) + 1
       IN  docs' = [j \in DOMAIN docs \cup {i} |->
                      IF j = i THEN [width |-> agent[a].width, count |-> 0, answers |-> 0]
                      ELSE docs[j]]
    /\ agent' = [agent EXCEPT ![a] = Idle]
    /\ UNCHANGED <<gone, recalls>>

\* The widths differ: refused, and nothing was written.
RememberRefused(a) ==
    /\ agent[a].at = "remember" /\ Sharing = {} /\ width \notin {0, agent[a].width}
    /\ agent' = [agent EXCEPT ![a] = Idle]
    /\ UNCHANGED <<width, docs, gone, recalls>>

\* recall(): no file means nothing was ever remembered, an empty answer.
\* Otherwise the lock is given back while the query is embedded.
RecallBegins(a) ==
    /\ agent[a].at = "idle" /\ width # 0 /\ recalls < MaxRecalls
    /\ \E w \in Widths : agent' = [agent EXCEPT ![a] = [Idle EXCEPT !.at = "recall", !.width = w]]
    /\ recalls' = recalls + 1
    /\ UNCHANGED <<width, docs, gone>>

RecallRefused(a) ==
    /\ agent[a].at = "recall" /\ agent[a].width # width
    /\ agent' = [agent EXCEPT ![a] = Idle]
    /\ UNCHANGED <<width, docs, gone, recalls>>

\* Search under the shared lock, rank, and keep the best k; the counts are
\* copies from here on.
Search(a) ==
    /\ agent[a].at = "recall" /\ agent[a].width = width
    /\ \E best \in SUBSET Live :
        agent' = [agent EXCEPT ![a].at = "bump",
                               ![a].hits = {[id |-> i, count |-> docs[i].count] : i \in best},
                               ![a].seen = best]
    /\ UNCHANGED <<width, docs, gone, recalls>>

\* Fault: what was read is added to what is there.
BumpAdds(a) ==
    /\ agent[a].at = "bump"
    /\ \E h \in agent[a].hits :
        /\ docs' = IF h.id \in Live
                   THEN [docs EXCEPT ![h.id].count = @ + h.count + 1, ![h.id].answers = @ + 1]
                   ELSE docs
        /\ agent' = [agent EXCEPT ![a].hits = @ \ {h}]
    /\ UNCHANGED <<width, gone, recalls>>

\* Each hit's count goes back one higher than it was read, deferred.
Bump(a) ==
    /\ agent[a].at = "bump"
    /\ \E h \in agent[a].hits :
        /\ docs' = IF h.id \in Live
                   THEN [docs EXCEPT ![h.id].count = h.count + 1, ![h.id].answers = @ + 1]
                   ELSE docs
        /\ agent' = [agent EXCEPT ![a].hits = @ \ {h}]
    /\ UNCHANGED <<width, gone, recalls>>

RecallReturns(a) ==
    /\ agent[a].at = "bump" /\ agent[a].hits = {}
    /\ agent' = [agent EXCEPT ![a] = Idle]
    /\ UNCHANGED <<width, docs, gone, recalls>>

\* Fault: forgetting only shares the lock.
ForgetShared(a) ==
    /\ agent[a].at = "idle" /\ width # 0
    /\ \E i \in Live : gone' = gone \cup {i}
    /\ UNCHANGED <<width, docs, agent, recalls>>

\* forget(): exclusively, so no recall is between its search and its bumps.
Forget(a) ==
    /\ agent[a].at = "idle" /\ width # 0 /\ Sharing = {}
    /\ \E i \in Live : gone' = gone \cup {i}
    /\ UNCHANGED <<width, docs, agent, recalls>>

Next == \E a \in Agents :
    \/ Embed(a) \/ Remember(a) \/ RememberRefused(a)
    \/ RecallBegins(a) \/ RecallRefused(a) \/ Search(a) \/ Bump(a) \/ RecallReturns(a)
    \/ Forget(a)

Spec == Init /\ [][Next]_vars

----------------------------------------------------------------------------
\* All vectors of the file have one width, whoever's first memory made it,
\* and however many embeddings were under way (memory_store.cpp:218-274).
OneWidth == \A i \in DOMAIN docs : docs[i].width = width

\* What a recall is about to answer has not been forgotten under it
\* (memory_store.cpp:397-455, 457-465).
AnswersAreLive == \A a \in Agents : agent[a].seen \cap gone = {}

\* Two recalls may write the same count, so bumps are lost, but a memory is
\* never counted as recalled more often than it was, and never uncounted once
\* it was (memory_store.cpp:436-449).
CountsAreBounded == \A i \in DOMAIN docs : /\ docs[i].count <= docs[i].answers
                                           /\ docs[i].answers > 0 => docs[i].count > 0

\* The three together: one width in a file, no forgotten answer, no count beyond
\* the recalls (memory_store.cpp:218-274, 397-465).
MemoriesAreRight == OneWidth /\ AnswersAreLive /\ CountsAreBounded
=============================================================================
