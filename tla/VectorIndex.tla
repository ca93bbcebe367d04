----------------------------- MODULE VectorIndex -----------------------------
(***************************************************************************)
(* The proximity graph of a vector store (core/vdb/vector_index.cpp) and   *)
(* the search over it (VectorStore::search_locked): nodes are linked in    *)
(* layers, a search descends greedily and widens on the lowest one.        *)
(* Vectors are points on a line.  Labels count from 1 here, from 0 in the  *)
(* code, and candidates at the same distance are taken lowest label first. *)
(***************************************************************************)
EXTENDS Integers, Sequences, FiniteSets, SequencesExt

CONSTANTS Points,      \* vectors a search may be for
          Inserts,     \* the sequences of points that may be added
          M,           \* links of a node on an upper layer; 2 * M on the lowest
          EfConstruction, EfSearch,
          MaxLevel,    \* the highest level random_level() draws here
          MaxDeleted,
          BruteForceBelow   \* stores of so few documents are scanned

VARIABLES vectors,    \* the points that are added, by the label they get: mVectors
          size,       \* vectors held, linked or not
          links,      \* by label, by layer: the neighbours, in order: mAdjacency
          entry, top, \* mEntryPoint and mMaxLevel
          snapshot,   \* the graph as flush() wrote it; <<>> before
          deleted     \* labels of removed documents

vars == <<vectors, size, links, entry, top, snapshot, deleted>>

CapacityAt(layer) == IF layer = 1 THEN 2 * M ELSE M
Distance(p, q) == IF p < q THEN q - p ELSE p - q
Nearer(q, a, b) ==
    LET da == Distance(q, vectors[a]) db == Distance(q, vectors[b])
    IN da < db \/ (da = db /\ a < b)
Sorted(q, labels) == SetToSortSeq(labels, LAMBDA a, b : Nearer(q, a, b))
Nearest(q, labels) == CHOOSE a \in labels : \A b \in labels \ {a} : Nearer(q, a, b)
Farthest(q, labels) == CHOOSE a \in labels : \A b \in labels \ {a} : Nearer(q, b, a)

\* greedy_descend(): to the neighbour nearest to the query while one is nearer.
RECURSIVE GreedyDescend(_, _, _, _)
GreedyDescend(adj, q, current, layer) ==
    LET next == Nearest(q, {current} \cup ToSet(adj[current][layer])) IN
    IF Distance(q, vectors[next]) < Distance(q, vectors[current])
    THEN GreedyDescend(adj, q, next, layer) ELSE current

RECURSIVE Descend(_, _, _, _, _)
Descend(adj, q, current, layer, to) ==
    IF layer <= to THEN current
    ELSE Descend(adj, q, GreedyDescend(adj, q, current, layer), layer - 1, to)

\* search_layer() stops when its beam is full and the next candidate is farther.
Full(q, ef, nearest, results) ==
    /\ Cardinality(results) >= ef
    /\ Distance(q, vectors[nearest]) > Distance(q, vectors[Farthest(q, results)])

RECURSIVE Widen(_, _, _, _, _, _, _)
Widen(adj, q, ef, layer, candidates, results, visited) ==
    IF candidates = {} THEN results
    ELSE LET nearest == Nearest(q, candidates)
             look(st, next) ==
                IF next \in st.visited THEN st
                ELSE LET full == Cardinality(st.results) >= ef
                         better == Distance(q, vectors[next]) <
                                   Distance(q, vectors[Farthest(q, st.results)])
                         more == st.results \cup {next} IN
                     [visited |-> st.visited \cup {next},
                      candidates |-> IF ~full \/ better THEN st.candidates \cup {next}
                                     ELSE st.candidates,
                      results |-> IF ~full THEN more
                                  ELSE IF better THEN more \ {Farthest(q, more)}
                                  ELSE st.results]
             st == FoldLeft(look, [visited |-> visited, results |-> results,
                                   candidates |-> candidates \ {nearest}],
                            adj[nearest][layer])
         IN IF Full(q, ef, nearest, results) THEN results
            ELSE Widen(adj, q, ef, layer, st.candidates, st.results, st.visited)

\* Fault: the beam holds one too few.
NarrowBeam(adj, q, from, ef, layer) ==
    Widen(adj, q, IF ef > 1 THEN ef - 1 ELSE ef, layer, {from}, {from}, {from})
SearchLayer(adj, q, from, ef, layer) == Widen(adj, q, ef, layer, {from}, {from}, {from})

\* select_neighbors(): a candidate nearer to one already chosen than to the query
\* adds no direction.
SelectNeighbors(q, candidates, limit) ==
    LET choose(chosen, c) ==
            IF Len(chosen) >= limit
               \/ \E o \in ToSet(chosen) :
                    Distance(vectors[c], vectors[o]) < Distance(q, vectors[c])
            THEN chosen ELSE Append(chosen, c)
    IN FoldLeft(choose, <<>>, Sorted(q, candidates))

\* Fault: a full neighbour takes one more link.
TakeOneMore(adj, label, other, layer) ==
    IF Len(adj[other][layer]) <= CapacityAt(layer)
    THEN Append(adj[other][layer], label)
    ELSE SelectNeighbors(vectors[other], ToSet(adj[other][layer]) \cup {label},
                         CapacityAt(layer))
\* The link back; a full neighbour drops its most redundant one.
LinkBack(adj, label, other, layer) ==
    IF Len(adj[other][layer]) < CapacityAt(layer)
    THEN Append(adj[other][layer], label)
    ELSE SelectNeighbors(vectors[other], ToSet(adj[other][layer]) \cup {label},
                         CapacityAt(layer))

Connect(adj, label, selected, layer) ==
    FoldLeft(LAMBDA a, other : [a EXCEPT ![other][layer] = LinkBack(a, label, other, layer)],
             [adj EXCEPT ![label][layer] = selected], selected)

\* link() from the layer given down to the lowest.
RECURSIVE LinkLayers(_, _, _, _)
LinkLayers(adj, label, current, layer) ==
    LET q == vectors[label]
        selected == SelectNeighbors(q, SearchLayer(adj, q, current, EfConstruction, layer),
                                    CapacityAt(layer))
        linked == Connect(adj, label, selected, layer)
        next == IF selected # <<>> THEN selected[1] ELSE current
    IN IF layer = 1 THEN linked ELSE LinkLayers(linked, label, next, layer - 1)

Lower(a, b) == IF a < b THEN a ELSE b

\* The highest node is where a search comes in.
Enter(label, level) ==
    /\ entry' = IF level > top THEN label ELSE entry
    /\ top' = IF level > top THEN level ELSE top

Link(label, level) ==
    LET adj == Append(links, [layer \in 1 .. level |-> <<>>])
        q == vectors[label] IN
    /\ links' = IF links = <<>> THEN adj
                ELSE LinkLayers(adj, label, Descend(adj, q, entry, top, level),
                                Lower(level, top))
    /\ Enter(label, level)

Init ==
    /\ vectors \in Inserts /\ size = 0 /\ links = <<>> /\ entry = 0 /\ top = 0
    /\ snapshot = <<>> /\ deleted = {}

\* add(): loaded, and linked.
Add(level) ==
    /\ Len(links) = size /\ size < Len(vectors)
    /\ size' = size + 1
    /\ Link(size + 1, level)
    /\ UNCHANGED <<vectors, snapshot, deleted>>

\* remove() leaves the node in the graph.
Delete(label) ==
    /\ label \notin deleted /\ Len(links) = size /\ Cardinality(deleted) < MaxDeleted
    /\ deleted' = deleted \cup {label}
    /\ UNCHANGED <<vectors, size, links, entry, top, snapshot>>

\* flush() ends with serialize_graph().
Flush ==
    /\ links # <<>> /\ Len(links) = size
    /\ snapshot' = <<links, entry, top>>
    /\ UNCHANGED <<vectors, size, links, entry, top, deleted>>

\* open(): the vectors are loaded; the graph is the snapshot's, or, without a
\* usable one, starts again.
Reopen(usable) ==
    /\ size > 0 /\ Len(links) = size
    /\ usable => snapshot # <<>>
    /\ links' = IF usable THEN snapshot[1] ELSE <<>>
    /\ entry' = IF usable THEN snapshot[2] ELSE 0
    /\ top' = IF usable THEN snapshot[3] ELSE 0
    /\ snapshot' = IF usable THEN snapshot ELSE <<>>
    /\ UNCHANGED <<vectors, size, deleted>>

\* ... and what it does not hold is linked in the order of the labels.
Relink(level) ==
    /\ Len(links) < size
    /\ Link(Len(links) + 1, level)
    /\ UNCHANGED <<vectors, size, snapshot, deleted>>

Next ==
    \/ \E level \in 1 .. MaxLevel : Add(level)
    \/ \E label \in 1 .. Len(links) : Delete(label)
    \/ Flush
    \/ \E usable \in BOOLEAN : Reopen(usable)
    \/ \E level \in 1 .. MaxLevel : Relink(level)

Spec == Init /\ [][Next]_vars

----------------------------------------------------------------------------
\* search(): the nearest of the beam that are accepted.
Search(q, k, ef, accepted) ==
    LET beam == SearchLayer(links, q, Descend(links, q, entry, top, 1), ef, 1)
        kept == Sorted(q, beam \cap accepted)
    IN SubSeq(kept, 1, Lower(k, Len(kept)))

\* scan(): the nearest of all that are accepted.
Scan(q, k, accepted) ==
    LET kept == Sorted(q, accepted) IN SubSeq(kept, 1, Lower(k, Len(kept)))

\* Fault: only a walk that found nothing is done over.
ScanWhenEmpty(q, k, accepted) ==
    LET hits == Search(q, k, IF k > EfSearch THEN k ELSE EfSearch, accepted)
    IN IF size - Cardinality(deleted) <= BruteForceBelow \/ hits = <<>>
       THEN Scan(q, k, accepted) ELSE hits

\* search_locked(): small stores are scanned, and so is any that the walk found
\* too few in.
SearchLocked(q, k, accepted) ==
    LET hits == Search(q, k, IF k > EfSearch THEN k ELSE EfSearch, accepted)
    IN IF size - Cardinality(deleted) <= BruteForceBelow \/ Len(hits) < k
       THEN Scan(q, k, accepted) ELSE hits

----------------------------------------------------------------------------
TypeOK ==
    /\ vectors \in Inserts /\ size \in 0 .. Len(vectors)
    /\ Len(links) <= size /\ entry \in 0 .. Len(links) /\ top \in 0 .. MaxLevel
    /\ deleted \subseteq 1 .. size

\* Whatever is linked, pruned, restored and linked again: a node has at most the
\* links its block has room for, once each and none to itself, a link on a layer
\* leads to a node that has that layer, and the entry point has the highest one.
GraphIsWellFormed ==
    /\ links # <<>> => Len(links[entry]) = top
    /\ \A label \in DOMAIN links :
         /\ Len(links[label]) <= top
         /\ \A layer \in DOMAIN links[label] :
              LET of == links[label][layer] IN
              /\ Len(of) <= CapacityAt(layer) /\ IsInjective(of)
              /\ \A other \in ToSet(of) :
                   /\ other \in DOMAIN links \ {label}
                   /\ layer \in DOMAIN links[other]

RECURSIVE Reach(_)
Reach(set) ==
    LET more == set \cup UNION {ToSet(links[label][1]) : label \in set}
    IN IF more = set THEN set ELSE Reach(more)

Ready == links # <<>> /\ Len(links) = size
Live == 1 .. size \ deleted

\* A filter that leaves few documents starves the walk but not the answer: a
\* search returns k hits wherever there are k, all of them accepted, nearest
\* first.
FilterStarvesNothing ==
    Ready => \A q \in Points, k \in 1 .. 2, accepted \in SUBSET Live :
        LET hits == SearchLocked(q, k, accepted) IN
        /\ Len(hits) = Lower(k, Cardinality(accepted))
        /\ ToSet(hits) \subseteq accepted
        /\ \A i \in 1 .. Len(hits) - 1 : Nearer(q, hits[i], hits[i + 1])

\* The walk passes through rejected nodes, and with a beam as wide as the graph
\* misses none of the nearest that links lead to.
WideWalkIsExact ==
    Ready => \A q \in Points, accepted \in SUBSET Live :
        Search(q, 2, size, accepted) =
        Scan(q, 2, accepted \cap Reach({Descend(links, q, entry, top, 1)}))
=============================================================================
