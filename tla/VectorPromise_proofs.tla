-------------------------- MODULE VectorPromise_proofs -------------------------
(***************************************************************************)
(* VectorLog keeps the promise of DurableStore: every step of the file and  *)
(* its handle is a step of the abstract store, or none, for any documents,   *)
(* metadata and sizes, through failed writes, deaths of the process and      *)
(* power losses.                                                             *)
(*                                                                          *)
(* First, what a record does to the documents a handle serves, and what the  *)
(* moments of a log are that a power loss can go back to.  Then PromiseInv,  *)
(* what LogInv does not say and the promise needs: what a file holds before  *)
(* its size is on disk, and what compact() may rely on around its rename.    *)
(* Last, each action of VectorLog and the abstract step it takes.            *)
(***************************************************************************)
EXTENDS VectorLog_proofs, MCVectorLog

----------------------------------------------------------------------------
\* The documents a handle serves, and what a record does to them.

With(docs, id, m) == Abstract!With(docs, id, m)
Without(docs, id) == Abstract!Without(docs, id)

LEMMA ContentsIs ==
    ASSUME NEW st, HandleOK(st)
    PROVE  LET docs == Contents(st) IN
           /\ docs = [id \in DOMAIN docs |-> docs[id]]
           /\ \A l \in Alive(st.entries) :
                 /\ st.entries[l].id \in DOMAIN docs
                 /\ docs[st.entries[l].id] = st.entries[l].meta
           /\ \A id \in DOMAIN docs : \E l \in Alive(st.entries) : st.entries[l].id = id
<1> DEFINE live == {l \in DOMAIN st.entries : ~st.entries[l].deleted}
           ids == {st.entries[l].id : l \in live}
           said(id) == st.entries[Label(st.entries, id)].meta
<1>1. Contents(st) = [id \in ids |-> said(id)] BY DEF Contents
<1>2. live = Alive(st.entries) BY HandleTypes DEF Alive
<1>3. \A l \in Alive(st.entries) : said(st.entries[l].id) = st.entries[l].meta
  BY LabelOf DEF Alive
<1> HIDE DEF live, said
<1> QED BY <1>1, <1>2, <1>3

\* Which documents those are is told by the entries that are not deleted.
LEMMA ContentsAre ==
    ASSUME NEW st, HandleOK(st), NEW docs, docs = [id \in DOMAIN docs |-> docs[id]],
           \A l \in Alive(st.entries) :
              /\ st.entries[l].id \in DOMAIN docs
              /\ docs[st.entries[l].id] = st.entries[l].meta,
           \A id \in DOMAIN docs : \E l \in Alive(st.entries) : st.entries[l].id = id
    PROVE  Contents(st) = docs
<1> DEFINE mine == Contents(st)
<1>1. /\ mine = [id \in DOMAIN mine |-> mine[id]]
      /\ \A l \in Alive(st.entries) :
            /\ st.entries[l].id \in DOMAIN mine
            /\ mine[st.entries[l].id] = st.entries[l].meta
      /\ \A id \in DOMAIN mine : \E l \in Alive(st.entries) : st.entries[l].id = id
  BY ContentsIs
<1> HIDE DEF mine
<1>2. \A id : id \in DOMAIN mine <=> id \in DOMAIN docs BY <1>1
<1>3. DOMAIN mine = DOMAIN docs BY <1>2
<1>4. \A id \in DOMAIN docs : mine[id] = docs[id] BY <1>1, <1>2
<1>5. mine = docs BY <1>1, <1>3, <1>4
<1> QED BY <1>5 DEF mine

\* Two handles with the same documents, whatever else their entries say.
LEMMA ContentsSame ==
    ASSUME NEW st, HandleOK(st), NEW st2, HandleOK(st2),
           Len(st2.entries) = Len(st.entries),
           \A l \in 1..Len(st.entries) :
              /\ st2.entries[l].id = st.entries[l].id
              /\ st2.entries[l].deleted = st.entries[l].deleted
              /\ st.entries[l].deleted \/ st2.entries[l].meta = st.entries[l].meta
    PROVE  Contents(st2) = Contents(st)
<1> DEFINE docs == Contents(st)
<1>1. /\ docs = [id \in DOMAIN docs |-> docs[id]]
      /\ \A l \in Alive(st.entries) :
            /\ st.entries[l].id \in DOMAIN docs
            /\ docs[st.entries[l].id] = st.entries[l].meta
      /\ \A id \in DOMAIN docs : \E l \in Alive(st.entries) : st.entries[l].id = id
  BY ContentsIs
<1> HIDE DEF docs
<1>2. Alive(st2.entries) = Alive(st.entries) BY DEF Alive
<1>3. \A l \in Alive(st.entries) :
        st2.entries[l].id = st.entries[l].id /\ st2.entries[l].meta = st.entries[l].meta
  BY DEF Alive
<1>4. Contents(st2) = docs BY <1>1, <1>2, <1>3, ContentsAre
<1> QED BY <1>4 DEF docs

LEMMA EmptyContents ==
    ASSUME NEW st, HandleOK(st), Len(st.entries) = 0
    PROVE  Contents(st) = <<>>
<1>1. Alive(st.entries) = {} BY DEF Alive
<1>2. PICK docs : docs = [id \in {} |-> id] OBVIOUS
<1>3. DOMAIN docs = {} /\ docs = [id \in DOMAIN docs |-> docs[id]] BY <1>2
<1>4. Contents(st) = docs BY <1>1, <1>3, ContentsAre
<1>5. docs = <<>> BY <1>2
<1> QED BY <1>4, <1>5

\* A document added.
LEMMA GrowsShows ==
    ASSUME NEW st, HandleOK(st), NEW id \in Nat, id >= st.nextId, NEW m,
           NEW st2, HandleOK(st2), Grows(st, id, m, st2)
    PROVE  id \notin DOMAIN Contents(st) /\ Contents(st2) = With(Contents(st), id, m)
<1> DEFINE docs == Contents(st)
           d == With(docs, id, m)
           n == Len(st.entries)
<1>1. /\ \A l \in Alive(st.entries) :
            /\ st.entries[l].id \in DOMAIN docs
            /\ docs[st.entries[l].id] = st.entries[l].meta
      /\ \A i \in DOMAIN docs : \E l \in Alive(st.entries) : st.entries[l].id = i
  BY ContentsIs
<1>2. /\ d = [i \in DOMAIN d |-> d[i]] /\ DOMAIN d = DOMAIN docs \cup {id} /\ d[id] = m
      /\ \A i \in DOMAIN docs : i # id => d[i] = docs[i]
  BY DEF With, Abstract!With
<1>3. n \in Nat /\ st.nextId \in Nat /\ \A l \in 1..n : st.entries[l].id \in Nat
  BY HandleTypes
<1>4. \A l \in 1..n : st.entries[l].id # id BY <1>3 DEF HandleOK
<1>5. /\ Len(st2.entries) = n + 1
      /\ \A l \in 1..n : st2.entries[l] = st.entries[l]
      /\ st2.entries[n + 1] = NewEntry(id, m)
  BY HandleTypes, AppendProperties DEF Grows
<1>6. NewEntry(id, m).id = id /\ NewEntry(id, m).meta = m /\ ~NewEntry(id, m).deleted
  BY DEF NewEntry
<1> HIDE DEF docs, d, n
<1>n. n = Len(st.entries) BY DEF n
<1>7. \A l : l \in Alive(st2.entries) <=> l \in Alive(st.entries) \/ l = n + 1
  BY <1>3, <1>5, <1>6, <1>n DEF Alive
<1>8. \A l \in Alive(st.entries) : l \in 1..n BY <1>n DEF Alive
<1>9. id \notin DOMAIN docs BY <1>1, <1>4, <1>8
<1>10. \A l \in Alive(st2.entries) :
         st2.entries[l].id \in DOMAIN d /\ d[st2.entries[l].id] = st2.entries[l].meta
  <2> TAKE l \in Alive(st2.entries)
  <2>1. CASE l = n + 1 BY <1>2, <1>5, <1>6, <2>1
  <2>2. CASE l \in Alive(st.entries)
    <3>1. st2.entries[l] = st.entries[l] /\ st.entries[l].id # id
      BY <1>4, <1>5, <1>8, <2>2
    <3> QED BY <1>1, <1>2, <2>2, <3>1
  <2> QED BY <1>7, <2>1, <2>2
<1>11. \A i \in DOMAIN d : \E l \in Alive(st2.entries) : st2.entries[l].id = i
  <2> TAKE i \in DOMAIN d
  <2>1. CASE i = id BY <1>5, <1>6, <1>7, <2>1
  <2>2. CASE i \in DOMAIN docs
    <3>1. PICK l \in Alive(st.entries) : st.entries[l].id = i BY <1>1, <2>2
    <3>2. l \in Alive(st2.entries) /\ st2.entries[l].id = i BY <1>5, <1>7, <1>8, <3>1
    <3> QED BY <3>2
  <2> QED BY <1>2, <2>1, <2>2
<1>12. Contents(st2) = d BY <1>2, <1>10, <1>11, ContentsAre
<1> QED BY <1>9, <1>12 DEF docs, d

\* One that has other metadata.
LEMMA RewritesShows ==
    ASSUME NEW st, HandleOK(st), NEW l \in Alive(st.entries), NEW m, NEW st2, HandleOK(st2),
           Len(st2.entries) = Len(st.entries),
           \A k \in 1..Len(st.entries) : k # l => st2.entries[k] = st.entries[k],
           st2.entries[l].id = st.entries[l].id, ~st2.entries[l].deleted,
           st2.entries[l].meta = m
    PROVE  /\ st.entries[l].id \in DOMAIN Contents(st)
           /\ Contents(st2) = With(Contents(st), st.entries[l].id, m)
<1> DEFINE docs == Contents(st)
           id == st.entries[l].id
           d == With(docs, id, m)
<1>1. /\ \A k \in Alive(st.entries) :
            /\ st.entries[k].id \in DOMAIN docs
            /\ docs[st.entries[k].id] = st.entries[k].meta
      /\ \A i \in DOMAIN docs : \E k \in Alive(st.entries) : st.entries[k].id = i
  BY ContentsIs
<1>2. /\ d = [i \in DOMAIN d |-> d[i]] /\ DOMAIN d = DOMAIN docs \cup {id} /\ d[id] = m
      /\ \A i \in DOMAIN docs : i # id => d[i] = docs[i]
  BY DEF With, Abstract!With
<1>3. l \in 1..Len(st.entries) BY DEF Alive
<1>4. \A k \in 1..Len(st.entries) : st.entries[k].id = id => k = l
  <2> TAKE k \in 1..Len(st.entries)
  <2>1. Label(st.entries, st.entries[k].id) = k /\ Label(st.entries, id) = l
    BY <1>3, LabelOf
  <2> QED BY <2>1
<1>5. Alive(st2.entries) = Alive(st.entries) BY <1>3 DEF Alive
<1> HIDE DEF docs, d
<1>6. \A k \in Alive(st.entries) : k \in 1..Len(st.entries) BY DEF Alive
<1>7. \A k \in Alive(st2.entries) :
        st2.entries[k].id \in DOMAIN d /\ d[st2.entries[k].id] = st2.entries[k].meta
  <2> TAKE k \in Alive(st2.entries)
  <2>1. CASE k = l BY <1>2, <2>1
  <2>2. CASE k # l
    <3>1. st2.entries[k] = st.entries[k] /\ st.entries[k].id # id
      BY <1>4, <1>5, <1>6, <2>2
    <3> QED BY <1>1, <1>2, <1>5, <3>1
  <2> QED BY <2>1, <2>2
<1>8. \A i \in DOMAIN d : \E k \in Alive(st2.entries) : st2.entries[k].id = i
  <2> TAKE i \in DOMAIN d
  <2>1. CASE i = id BY <1>5, <2>1
  <2>2. CASE i # id /\ i \in DOMAIN docs
    <3>1. PICK k \in Alive(st.entries) : st.entries[k].id = i BY <1>1, <2>2
    <3>2. st2.entries[k] = st.entries[k] BY <1>6, <2>2, <3>1
    <3> QED BY <1>5, <3>1, <3>2
  <2> QED BY <1>2, <2>1, <2>2
<1>9. Contents(st2) = d BY <1>2, <1>7, <1>8, ContentsAre
<1>10. id \in DOMAIN docs BY <1>1
<1> QED BY <1>9, <1>10 DEF docs, d

\* One removed.
LEMMA BuriesShows ==
    ASSUME NEW st, HandleOK(st), NEW l \in Alive(st.entries), NEW st2, HandleOK(st2),
           Buries(st, l, st2)
    PROVE  /\ st.entries[l].id \in DOMAIN Contents(st)
           /\ Contents(st2) = Without(Contents(st), st.entries[l].id)
<1> DEFINE docs == Contents(st)
           id == st.entries[l].id
           d == Without(docs, id)
<1>1. /\ \A k \in Alive(st.entries) :
            /\ st.entries[k].id \in DOMAIN docs
            /\ docs[st.entries[k].id] = st.entries[k].meta
      /\ \A i \in DOMAIN docs : \E k \in Alive(st.entries) : st.entries[k].id = i
  BY ContentsIs
<1>2. /\ d = [i \in DOMAIN d |-> d[i]] /\ DOMAIN d = DOMAIN docs \ {id}
      /\ \A i \in DOMAIN d : d[i] = docs[i]
  BY DEF Without, Abstract!Without
<1>3. l \in 1..Len(st.entries) BY DEF Alive
<1>4. \A k \in 1..Len(st.entries) : st.entries[k].id = id => k = l
  <2> TAKE k \in 1..Len(st.entries)
  <2>1. Label(st.entries, st.entries[k].id) = k /\ Label(st.entries, id) = l
    BY <1>3, LabelOf
  <2> QED BY <2>1
<1>5. /\ Len(st2.entries) = Len(st.entries)
      /\ \A k \in 1..Len(st.entries) : k # l => st2.entries[k] = st.entries[k]
      /\ st2.entries[l].deleted
  BY <1>3, HandleTypes DEF Buries, Buried
<1>6. \A k : k \in Alive(st2.entries) <=> k \in Alive(st.entries) /\ k # l
  BY <1>3, <1>5 DEF Alive
<1> HIDE DEF docs, d
<1>7. \A k \in Alive(st2.entries) : st2.entries[k] = st.entries[k] /\ st.entries[k].id # id
  BY <1>4, <1>5, <1>6 DEF Alive
<1>8. \A k \in Alive(st2.entries) :
        st2.entries[k].id \in DOMAIN d /\ d[st2.entries[k].id] = st2.entries[k].meta
  BY <1>1, <1>2, <1>6, <1>7
<1>9. \A i \in DOMAIN d : \E k \in Alive(st2.entries) : st2.entries[k].id = i
  <2> TAKE i \in DOMAIN d
  <2>1. PICK k \in Alive(st.entries) : st.entries[k].id = i BY <1>1, <1>2
  <2>2. k \in Alive(st2.entries) BY <1>2, <1>6, <2>1
  <2> QED BY <1>7, <2>1, <2>2
<1>10. Contents(st2) = d BY <1>2, <1>8, <1>9, ContentsAre
<1>11. id \in DOMAIN docs BY <1>1
<1> QED BY <1>10, <1>11 DEF docs, d

----------------------------------------------------------------------------
\* Compaction keeps the documents: all of them, and nothing else.

KeptHolds(k, entries, n) ==
    /\ \A i \in 1..Len(k) : \E l \in Alive(entries) : entries[l] = k[i]
    /\ \A l \in Alive(entries) : l <= n => \E i \in 1..Len(k) : k[i] = entries[l]

LEMMA KeptHoldsMore ==
    ASSUME NEW entries, NEW n \in Nat, n + 1 <= Len(entries), Len(entries) \in Nat,
           NEW k \in Seq(Entries), KeptHolds(k, entries, n),
           entries[n + 1] \in Entries, ~entries[n + 1].deleted
    PROVE  KeptHolds(Append(k, entries[n + 1]), entries, n + 1)
<1> DEFINE x == Append(k, entries[n + 1])
<1>1. /\ Len(k) \in Nat /\ Len(x) = Len(k) + 1 /\ x[Len(k) + 1] = entries[n + 1]
      /\ \A i \in 1..Len(k) : x[i] = k[i]
  BY AppendProperties
<1>2. n + 1 \in Alive(entries) BY DEF Alive
<1>3. \A l \in Alive(entries) : l \in Nat BY DEF Alive
<1> HIDE DEF x
<1>4. \A i \in 1..Len(x) : \E l \in Alive(entries) : entries[l] = x[i]
  <2> TAKE i \in 1..Len(x)
  <2>1. CASE i = Len(k) + 1 BY <1>1, <1>2, <2>1
  <2>2. CASE i \in 1..Len(k) BY <1>1, <2>2 DEF KeptHolds
  <2> QED BY <1>1, <2>1, <2>2
<1>5. ASSUME NEW l \in Alive(entries), l <= n + 1
      PROVE  \E i \in 1..Len(x) : x[i] = entries[l]
  <2>1. CASE l = n + 1
    <3>1. Len(k) + 1 \in 1..Len(x) BY <1>1
    <3> QED BY <1>1, <2>1, <3>1
  <2>2. CASE l # n + 1
    <3>1. l <= n BY <1>3, <1>5, <2>2
    <3>2. PICK i \in 1..Len(k) : k[i] = entries[l] BY <3>1 DEF KeptHolds
    <3>3. i \in 1..Len(x) BY <1>1
    <3> QED BY <1>1, <3>2, <3>3
  <2> QED BY <2>1, <2>2
<1>6. KeptHolds(x, entries, n + 1) BY <1>4, <1>5 DEF KeptHolds
<1> QED BY <1>6 DEF x

LEMMA KeptAll ==
    ASSUME HandleOK(ram)
    PROVE  KeptHolds(Kept, ram.entries, Len(ram.entries))
<1> DEFINE es == ram.entries
           P(n) == KeptOf(es, n) \in Seq(Entries) /\ KeptHolds(KeptOf(es, n), es, n)
           T == {n \in 0..Len(es) : ~P(n)}
<1>0. Len(es) \in Nat /\ \A l \in 1..Len(es) : es[l] \in Entries BY HandleTypes
<1> SUFFICES ASSUME T # {} PROVE FALSE
  <2>1. Len(es) \in 0..Len(es) BY <1>0
  <2> QED BY <2>1 DEF Kept
<1>1. T \subseteq Nat OBVIOUS
<1>2. PICK n \in T : \A m \in T : n <= m BY <1>1, Least
<1>3. n # 0
  <2>1. KeptOf(es, 0) = <<>> BY KeptStep
  <2>2. <<>> \in Seq(Entries) /\ Len(<<>>) = 0 OBVIOUS
  <2>3. \A l \in Alive(es) : ~(l <= 0) BY DEF Alive
  <2>4. KeptHolds(<<>>, es, 0) BY <2>2, <2>3 DEF KeptHolds
  <2> QED BY <2>1, <2>2, <2>4
<1>4. PICK m \in Nat : n = m + 1 BY <1>3
<1>5. m \in 0..Len(es) /\ m + 1 \in 1..Len(es) /\ m + 1 <= Len(es) BY <1>0, <1>4
<1>6. P(m) BY <1>2, <1>4, <1>5
<1>7. P(m + 1)
  <2>1. KeptOf(es, m + 1) = IF es[m + 1].deleted THEN KeptOf(es, m)
                            ELSE Append(KeptOf(es, m), es[m + 1])
    BY KeptStep
  <2>2. CASE es[m + 1].deleted
    <3>1. \A l \in Alive(es) : l <= m + 1 => l <= m BY <1>5, <2>2 DEF Alive
    <3> QED BY <1>6, <2>1, <2>2, <3>1 DEF KeptHolds
  <2>3. CASE ~es[m + 1].deleted
    <3>1. KeptHolds(Append(KeptOf(es, m), es[m + 1]), es, m + 1)
      BY <1>0, <1>5, <1>6, <2>3, KeptHoldsMore
    <3>2. Append(KeptOf(es, m), es[m + 1]) \in Seq(Entries)
      BY <1>0, <1>5, <1>6, AppendProperties
    <3> QED BY <2>1, <2>3, <3>1, <3>2
  <2> QED BY <2>2, <2>3
<1> QED BY <1>4, <1>7

LEMMA KeptShows ==
    ASSUME HandleOK(ram), NEW st, HandleOK(st), Len(st.entries) = Len(Kept),
           \A i \in 1..Len(Kept) :
              /\ st.entries[i].id = Kept[i].id /\ st.entries[i].meta = Kept[i].meta
              /\ ~st.entries[i].deleted
    PROVE  Contents(st) = Contents(ram)
<1> DEFINE docs == Contents(ram)
           k == Kept
<1>1. /\ docs = [id \in DOMAIN docs |-> docs[id]]
      /\ \A l \in Alive(ram.entries) :
            /\ ram.entries[l].id \in DOMAIN docs
            /\ docs[ram.entries[l].id] = ram.entries[l].meta
      /\ \A id \in DOMAIN docs : \E l \in Alive(ram.entries) : ram.entries[l].id = id
  BY ContentsIs
<1>2. KeptHolds(k, ram.entries, Len(ram.entries)) BY KeptAll
<1>3. Alive(st.entries) = 1..Len(k) BY DEF Alive
<1>4. \A l \in Alive(ram.entries) : l <= Len(ram.entries) BY HandleTypes DEF Alive
<1>5. \A i \in 1..Len(k) : /\ st.entries[i].id = k[i].id
                           /\ st.entries[i].meta = k[i].meta
  OBVIOUS
<1> HIDE DEF docs, k
<1>6. ASSUME NEW i \in Alive(st.entries)
      PROVE  st.entries[i].id \in DOMAIN docs /\ docs[st.entries[i].id] = st.entries[i].meta
  <2>1. PICK l \in Alive(ram.entries) : ram.entries[l] = k[i]
    BY <1>2, <1>3 DEF KeptHolds
  <2> QED BY <1>1, <1>3, <1>5, <2>1
<1>7. ASSUME NEW id \in DOMAIN docs
      PROVE  \E i \in Alive(st.entries) : st.entries[i].id = id
  <2>1. PICK l \in Alive(ram.entries) : ram.entries[l].id = id BY <1>1
  <2>2. PICK i \in 1..Len(k) : k[i] = ram.entries[l] BY <1>2, <1>4 DEF KeptHolds
  <2> QED BY <1>3, <1>5, <2>1, <2>2
<1>8. Contents(st) = docs BY <1>1, <1>6, <1>7, ContentsAre
<1> QED BY <1>8 DEF docs

\* The handle compaction leaves serves what it served before ...
LEMMA CompactedServes ==
    ASSUME HandleOK(ram)
    PROVE  Contents(CompactedRam) = Contents(ram)
<1> DEFINE k == Kept
           x == [l \in DOMAIN k |-> [k[l] EXCEPT !.metaBytes = 0]]
<1>1. k \in Seq(Entries) /\ Len(k) \in Nat /\ KeptFine(k, ram, Len(ram.entries))
  BY CompactedLogIs
<1>2. DOMAIN ram = HandleFields BY DEF HandleOK, Handle, HandleFields
<1>3. CompactedRam.entries = x BY <1>2 DEF CompactedRam, HandleFields
<1>4. \A i \in 1..Len(k) : ~k[i].deleted BY <1>1 DEF KeptFine
<1> HIDE DEF k
<1>5. DOMAIN k = 1..Len(k) /\ \A l \in 1..Len(k) : k[l] \in Entries BY <1>1
<1>6. \A l \in 1..Len(k) :
        LET f == [k[l] EXCEPT !.metaBytes = 0] IN
        /\ f \in Entries /\ f.id = k[l].id /\ f.meta = k[l].meta
        /\ f.deleted = k[l].deleted
  BY <1>5 DEF Entries
<1>7. x \in [1..Len(k) -> Entries] BY <1>5, <1>6
<1>8. \A l \in 1..Len(k) : /\ x[l].id = k[l].id /\ x[l].meta = k[l].meta
                           /\ x[l].deleted = k[l].deleted
  BY <1>5, <1>6
<1> HIDE DEF x
<1>9. Len(x) = Len(k) BY <1>1, <1>7, SeqDef
<1>10. HandleOK(CompactedRam) BY CompactedOK
<1> QED BY <1>3, <1>4, <1>8, <1>9, <1>10, KeptShows DEF k

\* ... and the log it wrote, read again, holds just that.
LEMMA CompactedReads ==
    ASSUME HandleOK(ram)
    PROVE  Contents(Replayed(CompactedLog, Len(Kept) + 1)) = Contents(ram)
<1> DEFINE n == Len(Kept)
           st == Replayed(CompactedLog, n)
           st2 == Replayed(CompactedLog, n + 1)
<1>1. n \in Nat /\ CompactedLog[n + 1] = Snap(Ids(Kept)) BY CompactedLogIs
<1>2. Rebuilt(st, n) BY CompactedReplay
<1>3. HandleOK(st) /\ Len(st.entries) = n BY <1>2 DEF Rebuilt
<1>4. st2 = ReplayRecord(st, CompactedLog[n + 1]) BY <1>1, ReplayedStep
<1>5. CompactedLog[n + 1].type = "Snap" BY <1>1 DEF Snap
<1> HIDE DEF st, st2
<1>6. st2.entries = st.entries BY <1>3, <1>4, <1>5, ReplaysSnap
<1>7. HandleOK(st2)
  <2>1. Good(CompactedLog, n + 1) BY CompactedOK
  <2>2. PICK m \in Nat : m = n + 1 BY <1>1
  <2>3. m \in 0..m OBVIOUS
  <2>4. HandleOK(Replayed(CompactedLog, m)) BY <2>1, <2>2, <2>3, GoodHandle
  <2> QED BY <2>2, <2>4 DEF st2
<1>8. \A id, m : /\ NewEntry(id, m).id = id /\ NewEntry(id, m).meta = m
                 /\ ~NewEntry(id, m).deleted
  BY DEF NewEntry
<1>9. ASSUME NEW i \in 1..n
      PROVE  /\ st2.entries[i].id = Kept[i].id /\ st2.entries[i].meta = Kept[i].meta
             /\ ~st2.entries[i].deleted
  <2>1. PICK e : e = NewEntry(Kept[i].id, Kept[i].meta) OBVIOUS
  <2>2. e.id = Kept[i].id /\ e.meta = Kept[i].meta /\ ~e.deleted BY <1>8, <2>1
  <2>3. st2.entries[i] = e BY <1>2, <1>6, <2>1 DEF Rebuilt
  <2> QED BY <2>2, <2>3
<1>10. Contents(st2) = Contents(ram) BY <1>3, <1>6, <1>7, <1>9, KeptShows
<1> QED BY <1>10 DEF st2

----------------------------------------------------------------------------
\* What a file holds, and what a crash could make of it: moments of its log.

Moment(log, n) == Contents(Replayed(log, n))
Holds(f) == Docs(ValidRecords(f.log))
Moments(f) == {Moment(f.log, k) : k \in f.synced..ValidEnd(f.log)}

LEMMA MomentRead ==
    ASSUME NEW f, FileOK(f), NEW k \in 0..ValidEnd(f.log)
    PROVE  Docs(SubSeq(f.log, 1, k)) = Moment(f.log, k)
<1> DEFINE log == SubSeq(f.log, 1, k)
<1>1. /\ f.log \in Seq(Cells) /\ Len(f.log) \in Nat /\ ValidEnd(f.log) \in 0..Len(f.log)
      /\ ValidEnd(f.log) \in Nat /\ Good(f.log, ValidEnd(f.log))
  BY FileTypes
<1>2. k \in Nat /\ k \in 0..Len(f.log) BY <1>1
<1>3. DOMAIN log = 1..k /\ Len(log) = k /\ \A i \in 1..k : log[i] = f.log[i]
  BY <1>1, <1>2, SubSeqProperties
<1> HIDE DEF log
<1>4. Good(f.log, k) BY <1>1, GoodLess
<1>5. Good(log, k) /\ Replayed(log, k) = Replayed(f.log, k)
  <2>1. \A i \in 1..k : f.log[i] = log[i] BY <1>3
  <2> QED BY <1>2, <1>4, <2>1, GoodSame
<1>6. Docs(log) = Contents(Replayed(log, k)) BY <1>2, <1>3, <1>5, DocsRead
<1> QED BY <1>5, <1>6 DEF log, Moment

LEMMA MomentsRead ==
    ASSUME NEW f, FileOK(f)
    PROVE  Recoverable(f) = Moments(f) /\ Holds(f) = Moment(f.log, ValidEnd(f.log))
<1>1. ValidEnd(f.log) \in Nat /\ f.synced \in 0..ValidEnd(f.log) BY FileTypes
<1>2. \A k \in f.synced..ValidEnd(f.log) :
        Docs(SubSeq(f.log, 1, k)) = Moment(f.log, k)
  <2>1. \A k \in f.synced..ValidEnd(f.log) : k \in 0..ValidEnd(f.log) BY <1>1
  <2> QED BY <2>1, MomentRead
<1>3. Recoverable(f) = Moments(f) BY <1>2 DEF Recoverable, Moments
<1>4. ValidEnd(f.log) \in 0..ValidEnd(f.log) BY <1>1
<1>5. Docs(SubSeq(f.log, 1, ValidEnd(f.log))) = Moment(f.log, ValidEnd(f.log))
  BY <1>4, MomentRead
<1> QED BY <1>3, <1>5 DEF Holds, ValidRecords

\* What a log held is held by any other that begins the same.
LEMMA MomentSame ==
    ASSUME NEW log, NEW other, NEW n \in Nat, \A i \in 1..n : log[i] = other[i],
           NEW k \in 0..n
    PROVE  Moment(other, k) = Moment(log, k)
<1>1. k \in Nat /\ \A i \in 1..k : log[i] = other[i] OBVIOUS
<1>2. Replayed(log, k) = Replayed(other, k) BY <1>1, ReplayedSame
<1> QED BY <1>2 DEF Moment

\* A file whose log begins and ends the same holds the same, and so does whatever
\* a crash makes of it.
LEMMA FileSame ==
    ASSUME NEW f, FileOK(f), NEW g, FileOK(g), g.synced = f.synced,
           ValidEnd(g.log) = ValidEnd(f.log),
           \A i \in 1..ValidEnd(f.log) : g.log[i] = f.log[i]
    PROVE  Holds(g) = Holds(f) /\ Recoverable(g) = Recoverable(f)
<1> DEFINE n == ValidEnd(f.log)
<1>1. n \in Nat /\ f.synced \in 0..n BY FileTypes
<1>2. \A i \in 1..n : f.log[i] = g.log[i] OBVIOUS
<1>3. ValidEnd(g.log) = n OBVIOUS
<1>n. n = ValidEnd(f.log) OBVIOUS
<1> HIDE DEF n
<1>4. \A k \in 0..n : Moment(g.log, k) = Moment(f.log, k) BY <1>1, <1>2, MomentSame
<1>5. \A k \in f.synced..n : k \in 0..n BY <1>1
<1>6. Moments(g) = {Moment(g.log, k) : k \in f.synced..n} BY <1>3 DEF Moments
<1>7. Moments(f) = {Moment(f.log, k) : k \in f.synced..n} BY <1>n DEF Moments
<1>8. Moments(g) = Moments(f) BY <1>4, <1>5, <1>6, <1>7
<1>9. Moment(g.log, n) = Moment(f.log, n) BY <1>1, <1>4
<1> QED BY <1>3, <1>n, <1>8, <1>9, MomentsRead

\* One record more: one moment more.
LEMMA FileMore ==
    ASSUME NEW f, FileOK(f), NEW g, FileOK(g), g.synced = f.synced,
           ValidEnd(g.log) = ValidEnd(f.log) + 1,
           \A i \in 1..ValidEnd(f.log) : g.log[i] = f.log[i]
    PROVE  Recoverable(g) = Recoverable(f) \cup {Holds(g)}
<1> DEFINE n == ValidEnd(f.log)
<1>1. n \in Nat /\ f.synced \in 0..n BY FileTypes
<1>2. \A i \in 1..n : f.log[i] = g.log[i] OBVIOUS
<1>3. ValidEnd(g.log) = n + 1 OBVIOUS
<1>n. n = ValidEnd(f.log) OBVIOUS
<1> HIDE DEF n
<1>4. \A k \in 0..n : Moment(g.log, k) = Moment(f.log, k) BY <1>1, <1>2, MomentSame
<1>5. \A k : k \in f.synced..n + 1 <=> k \in f.synced..n \/ k = n + 1 BY <1>1
<1>6. Moments(g) = {Moment(g.log, k) : k \in f.synced..n + 1} BY <1>3 DEF Moments
<1>7. Moments(f) = {Moment(f.log, k) : k \in f.synced..n} BY <1>n DEF Moments
<1>8. \A k \in f.synced..n : Moment(g.log, k) = Moment(f.log, k) BY <1>1, <1>4
<1>9. Moments(g) = Moments(f) \cup {Moment(g.log, n + 1)} BY <1>5, <1>6, <1>7, <1>8
<1> QED BY <1>3, <1>9, MomentsRead

\* A file all of which fsync has settled.
LEMMA FileSettled ==
    ASSUME NEW f, FileOK(f), f.synced = ValidEnd(f.log)
    PROVE  Recoverable(f) = {Holds(f)}
<1> DEFINE n == ValidEnd(f.log)
<1>1. n \in Nat BY FileTypes
<1>2. Moments(f) = {Moment(f.log, k) : k \in n..n} BY DEF Moments
<1>3. Recoverable(f) = Moments(f) /\ Holds(f) = Moment(f.log, n) BY MomentsRead
<1> HIDE DEF n
<1>4. n..n = {n} BY <1>1
<1> QED BY <1>2, <1>3, <1>4

LEMMA SyncedHolds ==
    ASSUME NEW f, FileOK(f)
    PROVE  /\ FileOK(Synced(f)) /\ Holds(Synced(f)) = Holds(f)
           /\ Recoverable(Synced(f)) = {Holds(f)}
<1>1. FileOK(Synced(f)) /\ Synced(f).log = f.log BY SyncedOK
<1>2. Synced(f).synced = ValidEnd(f.log)
  BY FileTypes DEF Synced, FileFields
<1>3. Recoverable(Synced(f)) = {Holds(Synced(f))} BY <1>1, <1>2, FileSettled
<1> QED BY <1>1, <1>3 DEF Holds

\* A power loss goes back to a moment the last fsync had not made sure of, and
\* stays there.
LEMMA PowerLossHolds ==
    ASSUME NEW f, FileOK(f), NEW g \in AfterPowerLoss(f)
    PROVE  /\ Holds(Settled(g)) \in Recoverable(f)
           /\ Recoverable(Settled(g)) = {Holds(Settled(g))}
<1>1. PICK s : s = Settled(g) OBVIOUS
<1>2. /\ FileOK(s) /\ ValidEnd(s.log) \in f.synced..ValidEnd(f.log)
      /\ s.synced = ValidEnd(s.log)
      /\ \A i \in 1..ValidEnd(s.log) : s.log[i] = f.log[i]
  BY <1>1, AfterPowerLossOK
<1>3. PICK v \in Nat : v = ValidEnd(s.log) BY <1>2, FileTypes
<1>4. v \in 0..v /\ \A i \in 1..v : f.log[i] = s.log[i] BY <1>2, <1>3
<1>5. Moment(s.log, v) = Moment(f.log, v) BY <1>4, MomentSame
<1>6. Moment(f.log, v) \in Moments(f) BY <1>2, <1>3 DEF Moments
<1>7. Holds(s) = Moment(s.log, v) BY <1>2, <1>3, MomentsRead
<1>8. Recoverable(s) = {Holds(s)} BY <1>2, FileSettled
<1>9. Recoverable(f) = Moments(f) BY MomentsRead
<1> QED BY <1>1, <1>5, <1>6, <1>7, <1>8, <1>9

----------------------------------------------------------------------------
\* What each operation shows its caller, writes out, and leaves to a crash.

LEMMA AppendShows ==
    ASSUME SteadyOK(file, ram), NEW r, Fits(Replayed(file.log, ram.end), r),
           NEW log \in Overwritten(r), NEW g, g = [file EXCEPT !.log = log]
    PROVE  LET st == Replayed(file.log, ram.end) IN
           /\ Holds(file) = Contents(st) /\ Holds(g) = Contents(ReplayRecord(st, r))
           /\ HandleOK(st) /\ HandleOK(ReplayRecord(st, r))
           /\ Recoverable(g) = Recoverable(file) \cup {Holds(g)}
<1> DEFINE n == ram.end
           st == Replayed(file.log, n)
<1>1. /\ FileOK(file) /\ n = ValidEnd(file.log) /\ n \in Nat
      /\ file.log \in Seq(Cells) /\ Good(file.log, n) /\ file.synced \in 0..n
  BY FileTypes DEF SteadyOK
<1>2. /\ log \in Seq(Cells) /\ ValidEnd(log) = n + 1 /\ Good(log, n + 1)
      /\ Replayed(log, n + 1) = ReplayRecord(st, r)
      /\ \A i \in 1..n : log[i] = file.log[i]
  BY <1>1, Appended
<1>3. HandleOK(st) BY SteadyHandle
<1>4. HandleOK(ReplayRecord(st, r)) BY <1>3, ReplayRecordOK
<1> HIDE DEF n, st
<1>5. PICK v \in Nat : v = n + 1 BY <1>1
<1>6. file.synced \in 0..ValidEnd(log) BY <1>1, <1>2
<1>7. FileOK(g) /\ g.log = log /\ g.synced = file.synced
  <2>1. Good(log, ValidEnd(log)) BY <1>2
  <2> QED BY <1>1, <1>2, <1>6, <2>1, WithLog
<1>8. Holds(file) = Contents(st) BY <1>1, MomentsRead DEF Moment, st
<1>9. Holds(g) = Contents(ReplayRecord(st, r)) BY <1>2, <1>7, MomentsRead DEF Moment
<1>10. Recoverable(g) = Recoverable(file) \cup {Holds(g)}
  BY <1>1, <1>2, <1>7, FileMore
<1> QED BY <1>3, <1>4, <1>8, <1>9, <1>10 DEF n, st

LEMMA NoAppendShows ==
    ASSUME SteadyOK(file, ram), NEW log \in Overwritten(Torn) \cup {file.log},
           NEW g, g = [file EXCEPT !.log = log]
    PROVE  Holds(g) = Holds(file) /\ Recoverable(g) = Recoverable(file)
<1> DEFINE n == ram.end
<1>1. /\ FileOK(file) /\ n = ValidEnd(file.log) /\ n \in Nat
      /\ file.log \in Seq(Cells) /\ Good(file.log, n) /\ file.synced \in 0..n
  BY FileTypes DEF SteadyOK
<1>2. /\ log \in Seq(Cells) /\ ValidEnd(log) = n /\ Good(log, n)
      /\ \A i \in 1..n : log[i] = file.log[i]
  BY <1>1, NotAppended
<1> HIDE DEF n
<1>3. FileOK(g) /\ g.log = log /\ g.synced = file.synced BY <1>1, <1>2, WithLog
<1> QED BY <1>1, <1>2, <1>3, FileSame

\* What the handle serves and the log lacks is marked dirty.
LEMMA CleanShows ==
    ASSUME NEW f, NEW r, SteadyOK(f, r),
           \A l \in 1..Len(r.entries) : r.entries[l].deleted \/ ~r.entries[l].dirty
    PROVE  Holds(f) = Contents(r)
<1> DEFINE st == Replayed(f.log, r.end)
<1>1. /\ FileOK(f) /\ HandleOK(r) /\ r.end = ValidEnd(f.log) /\ Matches(st, r)
  BY DEF SteadyOK
<1>2. HandleOK(st)
  <2>1. r.end \in Nat /\ r.end \in 0..r.end /\ Good(f.log, r.end) BY <1>1, FileTypes
  <2> QED BY <2>1, GoodHandle
<1>3. Holds(f) = Contents(st) BY <1>1, MomentsRead DEF Moment
<1> HIDE DEF st
<1>4. \A l \in 1..Len(r.entries) :
        /\ st.entries[l].id = r.entries[l].id
        /\ st.entries[l].deleted = r.entries[l].deleted
        /\ r.entries[l].deleted \/ st.entries[l].meta = r.entries[l].meta
  BY <1>1 DEF Matches, SameDoc
<1>5. Contents(st) = Contents(r) BY <1>1, <1>2, <1>4, ContentsSame DEF Matches
<1> QED BY <1>3, <1>5

LEMMA AddShows ==
    ASSUME SteadyOK(file, ram), NEW m \in Metas, ram.nextId <= MaxId,
           NEW log \in Overwritten(Put(ram.nextId, m)), NEW g, g = [file EXCEPT !.log = log]
    PROVE  LET s == [ram EXCEPT !.entries = Append(@, NewEntry(ram.nextId, m)),
                                !.nextId = @ + 1, !.live = @ + 1, !.end = @ + 1] IN
           /\ ram.nextId \in 1..MaxId /\ ram.nextId \notin DOMAIN Contents(ram)
           /\ Contents(s) = With(Contents(ram), ram.nextId, m)
           /\ Holds(g) = With(Holds(file), ram.nextId, m)
           /\ Recoverable(g) = Recoverable(file) \cup {Holds(g)}
<1> DEFINE st == Replayed(file.log, ram.end)
           id == ram.nextId
           r == Put(id, m)
           s == [ram EXCEPT !.entries = Append(@, NewEntry(ram.nextId, m)),
                            !.nextId = @ + 1, !.live = @ + 1, !.end = @ + 1]
<1>1. HandleOK(st) /\ HandleOK(ram) /\ st.nextId <= id BY SteadyHandle
<1> HIDE DEF st
<1>2. id \in 1..MaxId /\ id \in Nat BY <1>1, HandleTypes, ByteFacts
<1>3. Grows(ram, id, m, s) BY <1>1, AddGrows
<1>4. r \in Records /\ r.type = "Put" /\ r.id = id /\ r.meta = m
  BY <1>2 DEF Put, Records
<1>i. id = ram.nextId OBVIOUS
<1> HIDE DEF s, id, r
<1>5. Fits(st, r) BY <1>1, <1>2, <1>4, HandleTypes DEF Fits
<1>6. Grows(st, id, m, ReplayRecord(st, r)) BY <1>1, <1>4, <1>5, ReplaysPut
<1>7. id >= ram.nextId /\ id >= st.nextId BY <1>1, <1>2, <1>i, HandleTypes
<1>8. HandleOK(s) BY <1>1, <1>2, <1>3, <1>7, GrowsOK
<1>9. /\ Holds(file) = Contents(st) /\ Holds(g) = Contents(ReplayRecord(st, r))
      /\ HandleOK(ReplayRecord(st, r))
      /\ Recoverable(g) = Recoverable(file) \cup {Holds(g)}
  BY <1>5, AppendShows DEF st, r, id
<1>10. id \notin DOMAIN Contents(ram) /\ Contents(s) = With(Contents(ram), id, m)
  BY <1>1, <1>2, <1>3, <1>7, <1>8, GrowsShows
<1>11. Contents(ReplayRecord(st, r)) = With(Contents(st), id, m)
  BY <1>1, <1>2, <1>6, <1>7, <1>9, GrowsShows
<1> QED BY <1>2, <1>9, <1>10, <1>11 DEF s, id

LEMMA RemoveShows ==
    ASSUME SteadyOK(file, ram), NEW l \in 1..Len(ram.entries), ~ram.entries[l].deleted,
           NEW log \in Overwritten(Del(ram.entries[l].id)),
           NEW g, g = [file EXCEPT !.log = log]
    PROVE  LET s == [Bury(ram, l) EXCEPT !.garbage = @ + Bytes["Del"], !.end = @ + 1]
               id == ram.entries[l].id
           IN  /\ id \in 1..MaxId /\ id \in DOMAIN Contents(ram)
               /\ Contents(s) = Without(Contents(ram), id)
               /\ Holds(g) = Without(Holds(file), id)
               /\ Recoverable(g) = Recoverable(file) \cup {Holds(g)}
<1> DEFINE st == Replayed(file.log, ram.end)
           id == ram.entries[l].id
           r == Del(id)
           s == [Bury(ram, l) EXCEPT !.garbage = @ + Bytes["Del"], !.end = @ + 1]
<1>1. /\ HandleOK(st) /\ HandleOK(ram)
      /\ l \in 1..Len(st.entries) /\ st.entries[l].id = id /\ ~st.entries[l].deleted
  BY SteadyHandle
<1> HIDE DEF st
<1>2. id \in 1..MaxId
  <2>1. ram.entries[l] \in Entries BY <1>1, HandleTypes
  <2> QED BY <2>1, EntryTypes
<1>3. Buries(ram, l, s) BY <1>1, BuryBuries
<1>4. r \in Records /\ r.type = "Del" /\ r.id = id BY <1>2 DEF Del, Records
<1>5. l \in Alive(ram.entries) /\ l \in Alive(st.entries) BY <1>1 DEF Alive
<1>a. ~ram.entries[l].deleted OBVIOUS
<1> HIDE DEF s, r
<1>6. Fits(st, r) BY <1>1, <1>4 DEF Fits
<1>7. Buries(st, l, ReplayRecord(st, r)) BY <1>1, <1>4, <1>6, ReplaysDel
<1>8. HandleOK(s) BY <1>1, <1>3, <1>a, BuriesOK
<1>9. /\ Holds(file) = Contents(st) /\ Holds(g) = Contents(ReplayRecord(st, r))
      /\ HandleOK(ReplayRecord(st, r))
      /\ Recoverable(g) = Recoverable(file) \cup {Holds(g)}
  BY <1>6, AppendShows DEF st, r
<1>10. /\ ram.entries[l].id \in DOMAIN Contents(ram)
       /\ Contents(s) = Without(Contents(ram), ram.entries[l].id)
  BY <1>1, <1>3, <1>5, <1>8, BuriesShows
<1>11. Contents(ReplayRecord(st, r)) = Without(Contents(st), st.entries[l].id)
  BY <1>1, <1>5, <1>7, <1>9, BuriesShows
<1> QED BY <1>1, <1>2, <1>9, <1>10, <1>11 DEF s

LEMMA SetWith ==
    ASSUME NEW st, HandleOK(st), NEW l \in Alive(st.entries), NEW m, NEW d, NEW st2,
           HandleOK(st2), Rewrites(st, l, m, d, st2)
    PROVE  /\ st.entries[l].id \in DOMAIN Contents(st)
           /\ Contents(st2) = With(Contents(st), st.entries[l].id, m)
<1>1. l \in 1..Len(st.entries) /\ ~st.entries[l].deleted BY DEF Alive
<1>2. PICK w : w = Written(st.entries[l], m, d) OBVIOUS
<1>3. w.id = st.entries[l].id /\ w.meta = m /\ w.deleted = st.entries[l].deleted
  BY <1>2 DEF Written
<1>4. st2.entries = [st.entries EXCEPT ![l] = w] BY <1>2 DEF Rewrites
<1>5. /\ Len(st2.entries) = Len(st.entries) /\ st2.entries[l] = w
      /\ \A k \in 1..Len(st.entries) : k # l => st2.entries[k] = st.entries[k]
  BY <1>1, <1>4, HandleTypes
<1> QED BY <1>1, <1>3, <1>5, RewritesShows

\* update_metadata(), and flush() writing out what was deferred.
LEMMA SetShows ==
    ASSUME SteadyOK(file, ram), NEW l \in 1..Len(ram.entries), ~ram.entries[l].deleted,
           NEW m \in Metas, NEW log \in Overwritten(Set(ram.entries[l].id, m)),
           NEW g, g = [file EXCEPT !.log = log]
    PROVE  LET id == ram.entries[l].id IN
           /\ id \in 1..MaxId /\ id \in DOMAIN Contents(ram)
           /\ Contents(WithSet(ram, l, m)) = With(Contents(ram), id, m)
           /\ Holds(g) = With(Holds(file), id, m)
           /\ Recoverable(g) = Recoverable(file) \cup {Holds(g)}
<1> DEFINE st == Replayed(file.log, ram.end)
           id == ram.entries[l].id
           r == Set(id, m)
           s == WithSet(ram, l, m)
           st2 == ReplayRecord(st, r)
<1>1. /\ HandleOK(st) /\ HandleOK(ram) /\ ram.entries[l] \in Entries
      /\ l \in 1..Len(st.entries) /\ st.entries[l].id = id /\ ~st.entries[l].deleted
  BY SteadyHandle, HandleTypes
<1> HIDE DEF st
<1>2. id \in 1..MaxId BY <1>1, EntryTypes
<1>3. PICK d \in BOOLEAN : Rewrites(ram, l, m, d, s) BY <1>1, SetRewrites
<1>4. r \in Records /\ r.type = "Set" /\ r.id = id /\ r.meta = m
  BY <1>2 DEF Set, Records
<1>5. l \in Alive(ram.entries) /\ l \in Alive(st.entries) BY <1>1 DEF Alive
<1>a. ~ram.entries[l].deleted OBVIOUS
<1> HIDE DEF s, r
<1>6. Fits(st, r) BY <1>1, <1>4 DEF Fits
<1>7. Rewrites(st, l, m, st.entries[l].dirty, st2) BY <1>1, <1>4, <1>6, ReplaysSet
<1>8. HandleOK(s) BY <1>1, <1>3, RewritesOK
<1>9. /\ Holds(file) = Contents(st) /\ Holds(g) = Contents(st2)
      /\ HandleOK(st2)
      /\ Recoverable(g) = Recoverable(file) \cup {Holds(g)}
  BY <1>6, AppendShows DEF st, r
<1> HIDE DEF st2
<1>10. Contents(s) = With(Contents(ram), id, m) /\ id \in DOMAIN Contents(ram)
  BY <1>1, <1>3, <1>5, <1>8, SetWith
<1>11. Contents(st2) = With(Contents(st), st.entries[l].id, m)
  BY <1>1, <1>5, <1>7, <1>9, SetWith
<1> QED BY <1>1, <1>2, <1>9, <1>10, <1>11 DEF s

\* A snapshot shows nowhere.
LEMMA SnapShows ==
    ASSUME SteadyOK(file, ram), NEW log \in Overwritten(Snap(Ids(ram.entries))),
           NEW g, g = [file EXCEPT !.log = log]
    PROVE  /\ Contents(Flushed) = Contents(ram) /\ Holds(g) = Holds(file)
           /\ Recoverable(g) = Recoverable(file)
<1> DEFINE st == Replayed(file.log, ram.end)
           r == Snap(Ids(ram.entries))
           st2 == ReplayRecord(st, r)
<1>1. /\ HandleOK(st) /\ HandleOK(ram) /\ FileOK(file)
      /\ Len(st.entries) = Len(ram.entries)
      /\ \A l \in 1..Len(ram.entries) : st.entries[l].id = ram.entries[l].id
  BY SteadyHandle DEF SteadyOK
<1> HIDE DEF st
<1>2. Fits(st, r) BY <1>1, SnapFits
<1>3. r.type = "Snap" BY DEF Snap
<1> HIDE DEF r
<1>4. st2.entries = st.entries BY <1>1, <1>3, ReplaysSnap
<1>5. /\ Holds(file) = Contents(st) /\ Holds(g) = Contents(st2) /\ HandleOK(st2)
      /\ Recoverable(g) = Recoverable(file) \cup {Holds(g)}
  BY <1>2, AppendShows DEF st, r
<1> HIDE DEF st2
<1>6. Contents(st2) = Contents(st) BY <1>1, <1>4, <1>5, ContentsSame
<1>7. Contents(Flushed) = Contents(ram) BY <1>1, SnapHandle, ContentsSame
<1>8. Holds(file) \in Recoverable(file)
  <2>1. ValidEnd(file.log) \in Nat /\ file.synced \in 0..ValidEnd(file.log)
    BY <1>1, FileTypes
  <2>2. ValidEnd(file.log) \in file.synced..ValidEnd(file.log) BY <2>1
  <2> QED BY <1>1, <2>2, MomentsRead DEF Moments
<1> QED BY <1>5, <1>6, <1>7, <1>8

\* A deferred update shows, and is not written out.
LEMMA DirtyShows ==
    ASSUME SteadyOK(file, ram), NEW l \in Alive(ram.entries), NEW m \in Metas
    PROVE  LET s == [ram EXCEPT !.entries[l].meta = m, !.entries[l].dirty = TRUE]
               id == ram.entries[l].id
           IN  /\ id \in 1..MaxId /\ id \in DOMAIN Contents(ram)
               /\ Contents(s) = With(Contents(ram), id, m)
<1> DEFINE e == [ram.entries[l] EXCEPT !.meta = m, !.dirty = TRUE]
           s == [ram EXCEPT !.entries[l].meta = m, !.entries[l].dirty = TRUE]
<1>l. l \in 1..Len(ram.entries) /\ ~ram.entries[l].deleted BY DEF Alive
<1>0. /\ HandleOK(ram) /\ DOMAIN ram = HandleFields
      /\ ram.entries \in Seq(Entries) /\ DOMAIN ram.entries = 1..Len(ram.entries)
      /\ ram.entries[l] \in Entries /\ ram.entries[l].id \in 1..MaxId
  BY <1>l, HandleTypes, EntryTypes DEF SteadyOK, HandleOK, Handle, HandleFields
<1>1. e.id = ram.entries[l].id /\ e.meta = m /\ e.deleted = ram.entries[l].deleted
  BY <1>0 DEF Entries
<1>2. [ram.entries EXCEPT ![l].meta = m, ![l].dirty = TRUE] = [ram.entries EXCEPT ![l] = e]
  BY <1>0, <1>l
<1>3. s.entries = [ram.entries EXCEPT ![l] = e] BY <1>0, <1>2 DEF HandleFields
<1>4. HandleOK(s) BY <1>l, SteadyDirty DEF SteadyOK
<1> HIDE DEF e, s
<1>5. /\ Len(s.entries) = Len(ram.entries) /\ s.entries[l] = e
      /\ \A k \in 1..Len(ram.entries) : k # l => s.entries[k] = ram.entries[k]
  BY <1>0, <1>l, <1>3
<1>6. /\ ram.entries[l].id \in DOMAIN Contents(ram)
      /\ Contents(s) = With(Contents(ram), ram.entries[l].id, m)
  BY <1>0, <1>1, <1>4, <1>5, <1>l, RewritesShows
<1> QED BY <1>0, <1>6 DEF s

----------------------------------------------------------------------------
\* What the promise needs beyond the invariant of the log: a store that was never
\* sized has no log, what a flush syncs leaves nothing deferred, and a file that was
\* renamed had been synced.

Sealed == {"flushHeader", "flushSync"}

Clean(r) == \A l \in 1..Len(r.entries) : r.entries[l].deleted \/ ~r.entries[l].dirty

PromiseInv ==
    /\ Running => file.sized
    /\ \A f \in {file} \cup previous : ~f.sized => f.log = <<>>
    /\ pc \in Sealed => Clean(ram)
    /\ pc \in Renamed => file.synced = ValidEnd(file.log)

LEMMA DirtyIs == ASSUME LogInv, DirtyLive = {} PROVE Clean(ram)
<1>1. DOMAIN ram.entries = 1..Len(ram.entries) BY Kept0, HandleTypes
<1> QED BY <1>1 DEF DirtyLive, LiveLabels, Clean

\* Only flush() seals a handle, and only compact() renames a file.
LEMMA Seals ==
    ASSUME Next, pc' \in Sealed
    PROVE  \/ FlushHeader
           \/ FlushSnapshot /\ DirtyLive = {} /\ ram' = Flushed
<1>1. CASE FlushSnapshot
  BY <1>1 DEF FlushSnapshot, FlushEnds, Flushed, Sealed
<1>2. CASE ~FlushSnapshot /\ ~FlushHeader
  BY <1>2 DEF Next, Sealed, CreateFile, CreateHeader, CreateSync, OpenRefused,
         OpenExisting, AddDocs, AddDoc, RemoveDocs, RemoveDoc, UpdateMetadata,
         UpdateMetadataDeferred, UpdateMetadataFails, Flush, FlushMeta, FlushSync,
         FlushEnds, Compact, CompactOnOpenFails, CompactReopen, Reopened, NotReopened,
         CloseDead, Kill, PowerLoss
<1> QED BY <1>1, <1>2

LEMMA Renames ==
    ASSUME Next, pc' \in Renamed
    PROVE  Compact
BY DEF Next, Renamed, CreateFile, CreateHeader, CreateSync, OpenRefused,
       OpenExisting, AddDocs, AddDoc, RemoveDocs, RemoveDoc, UpdateMetadata,
       UpdateMetadataDeferred, UpdateMetadataFails, Flush, FlushMeta, FlushSnapshot,
       FlushHeader, FlushSync, FlushEnds, CompactOnOpenFails, CompactReopen, Reopened,
       NotReopened, CloseDead, Kill, PowerLoss

\* A file is sized once, before anything is written to it.
LEMMA StaysSized ==
    ASSUME LogInv, Next
    PROVE  CreateFile \/ PowerLoss \/ file'.sized = file.sized
<1>0. FileOK(file) /\ DOMAIN file = FileFields BY Kept0, FileTypes
<1>1. ASSUME NEW log, file' = [file EXCEPT !.log = log] PROVE file'.sized = file.sized
  BY <1>0, <1>1 DEF FileFields
<1>2. CASE \/ OpenRefused \/ AddDocs \/ RemoveDocs \/ Flush \/ CompactOnOpenFails
           \/ CompactReopen \/ CloseDead \/ Kill
           \/ \E l \in LiveLabels, m \in Metas : UpdateMetadataDeferred(l, m)
  BY <1>2 DEF OpenRefused, AddDocs, RemoveDocs, Flush, CompactOnOpenFails, CompactReopen,
              CloseDead, Kill, UpdateMetadataDeferred
<1>3. ASSUME NEW r, AppendRecord(r) PROVE file'.sized = file.sized
  BY <1>1, <1>3 DEF AppendRecord
<1>4. ASSUME AppendFails PROVE file'.sized = file.sized BY <1>1, <1>4 DEF AppendFails
<1>5. CASE \/ AddDoc \/ RemoveDoc \/ UpdateMetadataFails \/ FlushMeta \/ FlushSnapshot
           \/ \E l \in LiveLabels, m \in Metas : UpdateMetadata(l, m)
  BY <1>3, <1>4, <1>5 DEF AddDoc, RemoveDoc, UpdateMetadataFails, FlushMeta, FlushSnapshot,
                          UpdateMetadata
<1>6. CASE OpenExisting BY <1>1, <1>6 DEF OpenExisting
<1>7. CASE CreateHeader \/ FlushHeader
  BY <1>7, HeaderWritten, HeaderFailed DEF CreateHeader, FlushHeader
<1>8. CASE CreateSync \/ FlushSync BY <1>0, <1>8, SyncedOK DEF CreateSync, FlushSync
<1>9. CASE Compact
  <2>1. file' = CompactedFile BY <1>9 DEF Compact
  <2>2. SteadyOK(file, ram)
    BY <1>9, SteadyAt, OpenAt DEF Compact, Working
  <2> QED BY <2>1, <2>2, SteadyCompacted DEF SteadyOK
<1> QED BY <1>2, <1>5, <1>6, <1>7, <1>8, <1>9 DEF Next

\* Where no call is in progress, the next one opens the store.
LEMMA Opens ==
    ASSUME Next, ~Running
    PROVE  CreateFile \/ OpenRefused \/ OpenExisting
BY DEF Next, Running, CreateHeader, CreateSync, AddDocs, AddDoc, RemoveDocs, RemoveDoc,
       UpdateMetadata, UpdateMetadataDeferred, UpdateMetadataFails, Flush, FlushMeta,
       FlushSnapshot, FlushHeader, FlushSync, Compact, CompactOnOpenFails, CompactReopen,
       CloseDead, Kill, PowerLoss, MayStop

LEMMA OldFiles == ASSUME Next PROVE previous' \subseteq previous \cup {file}
BY DEF Next, CreateFile, CreateHeader, CreateSync, OpenRefused, OpenExisting, AddDocs,
       AddDoc, RemoveDocs, RemoveDoc, UpdateMetadata, UpdateMetadataDeferred,
       UpdateMetadataFails, Flush, FlushMeta, FlushSnapshot, FlushHeader, FlushSync,
       Compact, CompactOnOpenFails, CompactReopen, CloseDead, Kill, PowerLoss

LEMMA NextSized ==
    ASSUME LogInv, PromiseInv, Next
    PROVE  /\ (Running => file.sized)'
           /\ (\A f \in {file} \cup previous : ~f.sized => f.log = <<>>)'
<1>0. /\ Running => file.sized
      /\ \A f \in {file} \cup previous : ~f.sized => f.log = <<>>
  BY DEF PromiseInv
<1>1. CASE CreateFile
  <2>1. file'.sized BY <1>1 DEF CreateFile, NoFile
  <2>2. previous' = previous BY <1>1 DEF CreateFile
  <2> QED BY <1>0, <2>1, <2>2
<1>2. CASE PowerLoss
  <2>1. pc' = "closed" /\ previous' = {} BY <1>2 DEF PowerLoss
  <2>2. PICK f \in {file} \cup previous : \E g \in AfterPowerLoss(f) : file' = Settled(g)
    BY <1>2 DEF PowerLoss
  <2>3. PICK g \in AfterPowerLoss(f) : file' = Settled(g) BY <2>2
  <2>4. FileOK(f) BY Kept0
  <2>5. FileOK(file') /\ file'.sized = f.sized /\ Len(file'.log) = Len(f.log)
    BY <2>3, <2>4, AfterPowerLossOK
  <2>6. file'.log \in Seq(Cells) BY <2>5, FileTypes
  <2>7. f.log = <<>> => file'.log = <<>> BY <2>5, <2>6
  <2> QED BY <1>0, <2>1, <2>5, <2>7 DEF Running
<1>3. CASE ~CreateFile /\ ~PowerLoss
  <2>1. file'.sized = file.sized BY <1>3, StaysSized
  <2>2. CASE Running BY <1>0, <2>1, <2>2, OldFiles
  <2>3. CASE ~Running
    <3>1. CASE OpenExisting
      <4>1. file.sized /\ previous' = previous BY <3>1 DEF OpenExisting
      <4> QED BY <1>0, <2>1, <4>1
    <3>2. CASE OpenRefused
      <4>1. file' = file /\ previous' = previous /\ pc' = "refused"
        BY <3>2 DEF OpenRefused
      <4> QED BY <1>0, <4>1 DEF Running
    <3> QED BY <1>3, <2>3, <3>1, <3>2, Opens
  <2> QED BY <2>2, <2>3
<1> QED BY <1>1, <1>2, <1>3

LEMMA NextPromise == ASSUME LogInv, PromiseInv, [Next]_vars PROVE PromiseInv'
<1>1. CASE Next
  <2>1. (pc \in Sealed => Clean(ram))'
    <3> SUFFICES ASSUME pc' \in Sealed PROVE Clean(ram')
      OBVIOUS
    <3>1. CASE FlushHeader
      <4>1. pc \in Sealed BY <3>1 DEF FlushHeader, Sealed
      <4>2. Clean(ram) BY <4>1 DEF PromiseInv
      <4>3. ram'.entries = ram.entries
        <5>1. WriteHeader BY <3>1 DEF FlushHeader, FlushEnds, Sealed
        <5>2. ram' = [ram EXCEPT !.gen = @ + 1] BY <5>1 DEF WriteHeader
        <5> QED BY <5>2, Kept0, WithGen
      <4> QED BY <4>2, <4>3 DEF Clean
    <3>2. CASE ram' = Flushed /\ DirtyLive = {}
      BY <3>2, Kept0, SnapHandle DEF Clean
    <3> QED BY <1>1, <3>1, <3>2, Seals
  <2>2. (pc \in Renamed => file.synced = ValidEnd(file.log))'
    <3> SUFFICES ASSUME pc' \in Renamed PROVE file'.synced = ValidEnd(file'.log)
      OBVIOUS
    <3>1. Compact BY <1>1, Renames
    <3>2. file' = CompactedFile BY <3>1 DEF Compact
    <3>3. SteadyOK(file, ram)
      BY <3>1, SteadyAt, OpenAt DEF Compact, Working
    <3>4. /\ CompactedFile.log = CompactedLog
          /\ CompactedFile.synced = ValidEnd(CompactedLog)
      BY <3>3, SteadyCompacted DEF SteadyOK
    <3> QED BY <3>2, <3>4
  <2> QED BY <1>1, <2>1, <2>2, NextSized DEF PromiseInv
<1>2. CASE UNCHANGED vars
  <2>1. file' = file /\ previous' = previous /\ ram' = ram /\ pc' = pc BY <1>2 DEF vars
  <2> QED BY <2>1 DEF PromiseInv, Running
<1> QED BY <1>1, <1>2

LEMMA InitPromise == ASSUME Init PROVE PromiseInv
<1>1. file = NoFile /\ previous = {} /\ pc = "closed" BY DEF Init
<1>2. NoFile.log = <<>> BY DEF NoFile
<1>3. ~Running /\ pc \notin Sealed /\ pc \notin Renamed
  BY <1>1 DEF Running, Sealed, Renamed
<1> QED BY <1>1, <1>2, <1>3 DEF PromiseInv

----------------------------------------------------------------------------
\* What a step shows: the promise's variables are what the log and the handle say.

Seen ==
    /\ view = View /\ logged = Logged
    /\ recoverable = Recoverable(file) /\ replaced = Replaced

Watched == LogInv /\ PromiseInv /\ LogInv' /\ Seen /\ Seen' /\ told' = Returns

Hushed == pc \notin {"flushSync", "renamed", "renamedOnOpen"}

LEMMA WatchedFacts ==
    ASSUME Watched
    PROVE  /\ LogInv /\ PromiseInv /\ LogInv'
           /\ view = View /\ view' = View'
           /\ logged = Holds(file) /\ logged' = Holds(file')
           /\ recoverable = Recoverable(file) /\ recoverable' = Recoverable(file')
           /\ replaced = Replaced /\ replaced' = Replaced'
           /\ FileOK(file) /\ FileOK(file') /\ HandleOK(ram) /\ HandleOK(ram')
           /\ Hushed => told' = FALSE
           /\ UNCHANGED previous => replaced' = replaced
<1>1. LogInv /\ PromiseInv /\ LogInv' /\ Seen /\ Seen' /\ told' = Returns BY DEF Watched
<1>2. FileOK(file) /\ HandleOK(ram) BY <1>1, Kept0
<1>3. FileOK(file') /\ HandleOK(ram') BY <1>1 DEF LogInv, TypeInv
<1>4. Logged = Holds(file) /\ Logged' = Holds(file') BY DEF Logged, Holds
<1>5. /\ view = View /\ view' = View' /\ logged = Logged /\ logged' = Logged'
      /\ recoverable = Recoverable(file) /\ recoverable' = Recoverable(file)'
      /\ replaced = Replaced /\ replaced' = Replaced'
  BY <1>1 DEF Seen
<1>6. Hushed => told' = FALSE BY <1>1 DEF Hushed, Returns
<1>7. Recoverable(file)' = Recoverable(file') BY DEF Recoverable
<1>8. UNCHANGED previous => Replaced' = Replaced BY DEF Replaced, Recoverable
<1> QED BY <1>1, <1>2, <1>3, <1>4, <1>5, <1>6, <1>7, <1>8

LEMMA FaultHeard ==
    ASSUME Watched, WriteFails, pc \notin Renamed
    PROVE  told' = FALSE
<1>1. faults \in Nat /\ faults' = faults + 1 BY Kept0 DEF Watched, WriteFails
<1>2. told' = Returns BY DEF Watched
<1>3. ~Returns BY <1>1 DEF Returns, Renamed
<1> QED BY <1>2, <1>3 DEF Returns

\* A handle at work serves what it holds; any other, what the log holds.
LEMMA InHand ==
    ASSUME Watched
    PROVE  /\ pc \in Working /\ ram.fd => view = Contents(ram)
           /\ pc' \in Working /\ ram'.fd => view' = Contents(ram')
           /\ pc \in {"closed", "refused"} \cup Renamed \/ ~ram.fd => view = logged
           /\ pc' \in {"closed", "refused"} \cup Renamed \/ ~ram'.fd => view' = logged'
<1>1. view = View /\ view' = View' /\ logged = Logged /\ logged' = Logged'
  BY DEF Watched, Seen
<1>2. View = IF Steady THEN Contents(ram) ELSE Logged BY DEF View
<1>3. View' = IF Steady' THEN Contents(ram') ELSE Logged' BY DEF View, Contents
<1>4. /\ pc \in Working /\ ram.fd => Steady
      /\ pc \in {"closed", "refused"} \cup Renamed \/ ~ram.fd => ~Steady
  BY DEF Steady, Running, Working, Flushing, Renamed
<1>5. /\ pc' \in Working /\ ram'.fd => Steady'
      /\ pc' \in {"closed", "refused"} \cup Renamed \/ ~ram'.fd => ~Steady'
  BY DEF Steady, Running, Working, Flushing, Renamed
<1> QED BY <1>1, <1>2, <1>3, <1>4, <1>5

\* Work that shows nowhere, and a store that closes.
LEMMA Quiet ==
    ASSUME UNCHANGED <<view, logged, recoverable, replaced>>, told' = FALSE
    PROVE  Abstract!Next
<1>1. Abstract!Work BY DEF Abstract!Work
<1> QED BY <1>1 DEF Abstract!Next

LEMMA Ends ==
    ASSUME view' = logged, UNCHANGED <<logged, recoverable, replaced>>, told' = FALSE
    PROVE  Abstract!Next
<1>1. Abstract!Stop BY DEF Abstract!Stop
<1> QED BY <1>1 DEF Abstract!Next

\* A store that closes or dies without writing.
LEMMA EndsHere ==
    ASSUME Watched, pc' \in {"closed", "refused"}, file' = file, previous' = previous,
           told' = FALSE
    PROVE  Abstract!Next
<1>1. logged' = logged /\ recoverable' = recoverable /\ replaced' = replaced
  BY WatchedFacts
<1>2. view' = logged' BY InHand
<1> QED BY <1>1, <1>2, Ends

----------------------------------------------------------------------------
\* open()

LEMMA CreateFileKeeps == ASSUME Watched, CreateFile PROVE Abstract!Next
<1>1. /\ pc = "closed" /\ pc' = "create" /\ ~file.sized /\ previous' = previous
      /\ file' = [NoFile EXCEPT !.sized = TRUE] /\ ram' = EmptyRam
  BY DEF CreateFile
<1>2. file.log = <<>> BY <1>1, WatchedFacts DEF PromiseInv
<1>3. file'.log = <<>> BY <1>1 DEF NoFile
<1>4. FileOK(file) /\ FileOK(file') BY WatchedFacts
<1>5. ValidEnd(<<>>) = 0
  <2>1. <<>> \in Seq(Cells) /\ Len(<<>>) = 0 OBVIOUS
  <2>2. ValidEnd(<<>>) \in 0..Len(<<>>) BY <2>1, ValidEndIs
  <2> QED BY <2>1, <2>2
<1>6. file.synced = 0 /\ file'.synced = 0 BY <1>2, <1>3, <1>4, <1>5, FileTypes
<1>7. Holds(file') = Holds(file) /\ Recoverable(file') = Recoverable(file)
  BY <1>2, <1>3, <1>4, <1>5, <1>6, FileSame
<1>8. logged' = logged /\ recoverable' = recoverable /\ replaced' = replaced
  BY <1>1, <1>7, WatchedFacts
<1>9. ~ram'.fd BY <1>1 DEF EmptyRam
<1>10. view = logged /\ view' = logged' BY <1>1, <1>9, InHand
<1>11. told' = FALSE BY <1>1, WatchedFacts DEF Hushed
<1> QED BY <1>8, <1>10, <1>11, Quiet

\* A header is no part of the log.
LEMMA HeaderKeeps ==
    ASSUME Watched, WriteHeader \/ WriteHeaderFails, previous' = previous,
           pc \notin Renamed
    PROVE  /\ logged' = logged /\ recoverable' = recoverable /\ replaced' = replaced
           /\ WriteHeader => Contents(ram') = Contents(ram) /\ ram'.fd = ram.fd
           /\ WriteHeaderFails => told' = FALSE
<1>1. /\ FileOK(file) /\ FileOK(file') /\ HandleOK(ram) /\ HandleOK(ram') /\ LogInv
  BY WatchedFacts
<1>2. file'.log = file.log /\ file'.synced = file.synced
  BY <1>1, HeaderWritten, HeaderFailed
<1>3. Holds(file') = Holds(file) /\ Recoverable(file') = Recoverable(file)
  BY <1>1, <1>2, FileSame
<1>4. logged' = logged /\ recoverable' = recoverable /\ replaced' = replaced
  BY <1>3, WatchedFacts
<1>5. WriteHeader => ram'.entries = ram.entries /\ ram'.fd = ram.fd
  <2> SUFFICES ASSUME WriteHeader PROVE ram'.entries = ram.entries /\ ram'.fd = ram.fd
    OBVIOUS
  <2>1. ram' = [ram EXCEPT !.gen = @ + 1] BY DEF WriteHeader
  <2> QED BY <1>1, <2>1, WithGen
<1>6. WriteHeader => Contents(ram') = Contents(ram) BY <1>1, <1>5, ContentsSame
<1>7. WriteHeaderFails => told' = FALSE BY FaultHeard DEF WriteHeaderFails
<1> QED BY <1>4, <1>5, <1>6, <1>7

LEMMA CreateHeaderKeeps == ASSUME Watched, CreateHeader PROVE Abstract!Next
<1>1. /\ pc = "create" /\ previous' = previous
      /\ \/ WriteHeader /\ pc' = pc
         \/ WriteHeaderFails /\ pc' = "closed" /\ ram' = EmptyRam
  BY DEF CreateHeader
<1>2. ~ram.fd /\ pc \notin Renamed BY <1>1, WatchedFacts DEF LogInv, Renamed
<1>3. logged' = logged /\ recoverable' = recoverable /\ replaced' = replaced
  BY <1>1, <1>2, HeaderKeeps
<1>4. ~ram'.fd \/ pc' = "closed" BY <1>1, <1>2, HeaderKeeps
<1>5. view = logged /\ view' = logged' BY <1>2, <1>4, InHand
<1>6. told' = FALSE BY <1>1, WatchedFacts DEF Hushed
<1> QED BY <1>3, <1>5, <1>6, Quiet

LEMMA CreateSyncKeeps == ASSUME Watched, CreateSync PROVE Abstract!Next
<1>1. /\ pc = "create" /\ previous' = previous BY DEF CreateSync
<1>2. file.log = <<>> /\ ~ram.fd /\ Matches(EmptyRam, ram)
  BY <1>1, WatchedFacts DEF LogInv
<1>3. view = logged /\ replaced' = replaced /\ told' = FALSE
  BY <1>1, <1>2, InHand, WatchedFacts DEF Hushed
<1>4. CASE /\ file' = Synced(file) /\ ram' = [ram EXCEPT !.fd = TRUE] /\ pc' = "open"
  <2>1. FileOK(file) /\ FileOK(file') /\ HandleOK(ram) /\ LogInv' BY WatchedFacts
  <2>2. ValidEnd(<<>>) = 0
    <3>1. <<>> \in Seq(Cells) /\ Len(<<>>) = 0 OBVIOUS
    <3>2. ValidEnd(<<>>) \in 0..Len(<<>>) BY <3>1, ValidEndIs
    <3> QED BY <3>1, <3>2
  <2>3. file'.log = <<>> BY <1>2, <1>4, <2>1, SyncedOK
  <2>4. file.synced = 0 /\ file'.synced = 0 BY <1>2, <2>1, <2>2, <2>3, FileTypes
  <2>5. Holds(file') = Holds(file) /\ Recoverable(file') = Recoverable(file)
    BY <1>2, <2>1, <2>2, <2>3, <2>4, FileSame
  <2>6. ram'.fd /\ ram'.entries = ram.entries
    <3>1. PICK open \in BOOLEAN : open OBVIOUS
    <3>2. ram' = [ram EXCEPT !.fd = open] BY <1>4, <3>1
    <3> QED BY <2>1, <3>1, <3>2, WithFd
  <2>7. Len(ram'.entries) = 0 BY <1>2, <2>6 DEF Matches, EmptyRam
  <2>8. Steady' BY <1>4, <2>6 DEF Steady, Running, Renamed
  <2>9. SteadyOK(file', ram') BY <2>1, <2>8 DEF LogInv
  <2>10. Holds(file') = Contents(ram') BY <2>7, <2>9, CleanShows
  <2>11. view' = Contents(ram')
    <3>1. pc' \in Working BY <1>4 DEF Working
    <3> QED BY <2>6, <3>1, InHand
  <2>12. view' = logged' /\ logged' = logged /\ recoverable' = recoverable
    BY <2>5, <2>10, <2>11, WatchedFacts
  <2> QED BY <1>3, <2>12, Quiet
<1>5. CASE pc' = "closed" /\ file' = file BY <1>1, <1>3, <1>5, EndsHere
<1> QED BY <1>4, <1>5 DEF CreateSync

LEMMA OpenRefusedKeeps == ASSUME Watched, OpenRefused PROVE Abstract!Next
<1>1. pc = "closed" /\ pc' = "refused" /\ file' = file /\ previous' = previous
  BY DEF OpenRefused
<1>2. told' = FALSE BY <1>1, WatchedFacts DEF Hushed
<1> QED BY <1>1, <1>2, EndsHere

LEMMA OpenExistingKeeps == ASSUME Watched, OpenExisting PROVE Abstract!Next
<1>1. /\ pc = "closed" /\ previous' = previous /\ pc' \in {"open", "compactOnOpen"}
      /\ ram' = [Replay(ValidRecords(file.log)) EXCEPT !.gen = Newest(file.hdr), !.fd = TRUE]
      /\ file' = [file EXCEPT !.log = ValidRecords(file.log)]
  BY DEF OpenExisting
<1>2. FileOK(file) /\ FileOK(file') /\ HandleOK(ram') BY WatchedFacts
<1> DEFINE n == ValidEnd(file.log)
           valid == ValidRecords(file.log)
           st == Replayed(file.log, n)
<1>3. /\ n \in Nat /\ n \in 0..n /\ n \in 0..Len(file.log) /\ file.log \in Seq(Cells)
      /\ Good(file.log, n) /\ DOMAIN file = FileFields /\ Len(file.log) \in Nat
  BY <1>2, FileTypes
<1>4. valid \in Seq(Cells) /\ ValidEnd(valid) = n /\ Replay(valid) = st
  BY <1>2, ReadBack
<1>5. \A i \in 1..n : valid[i] = file.log[i]
  BY <1>3, SubSeqProperties DEF ValidRecords
<1>6. HandleOK(st) BY <1>3, GoodHandle
<1>n. n = ValidEnd(file.log) OBVIOUS
<1>7. file'.log = valid /\ file'.synced = file.synced BY <1>1, <1>3 DEF FileFields
<1> HIDE DEF n, valid
<1>8. Holds(file') = Holds(file) /\ Recoverable(file') = Recoverable(file)
  BY <1>2, <1>4, <1>5, <1>7, <1>n, FileSame
<1>9. Holds(file) = Contents(st) BY <1>2, <1>n, MomentsRead DEF Moment
<1>10. ram' = [st EXCEPT !.gen = Newest(file.hdr), !.fd = TRUE] BY <1>1, <1>4 DEF valid
<1> HIDE DEF st
<1>11. DOMAIN st = HandleFields BY <1>6 DEF HandleOK, Handle, HandleFields
<1>12. ram'.entries = st.entries /\ ram'.fd BY <1>10, <1>11 DEF HandleFields
<1>13. Contents(ram') = Contents(st) BY <1>2, <1>6, <1>12, ContentsSame
<1>14. pc' \in Working BY <1>1 DEF Working
<1>15. view = logged /\ view' = Contents(ram') BY <1>1, <1>12, <1>14, InHand
<1>16. /\ logged' = logged /\ recoverable' = recoverable /\ replaced' = replaced
       /\ logged = Contents(st) /\ told' = FALSE
  BY <1>1, <1>8, <1>9, WatchedFacts DEF Hushed
<1> QED BY <1>13, <1>15, <1>16, Quiet

----------------------------------------------------------------------------
\* add(), remove() and the updates

\* A call that has only begun.
LEMMA Begins ==
    ASSUME Watched, pc = "open", ram.fd, pc' \in Working,
           file' = file, previous' = previous, ram' = ram
    PROVE  Abstract!Next
<1>1. pc \in Working BY DEF Working
<1>2. view = Contents(ram) /\ view' = Contents(ram') BY <1>1, InHand
<1>3. Contents(ram') = Contents(ram) OBVIOUS
<1>4. /\ logged' = logged /\ recoverable' = recoverable /\ replaced' = replaced
      /\ told' = FALSE
  BY WatchedFacts DEF Hushed
<1> QED BY <1>2, <1>3, <1>4, Quiet

\* A write that failed leaves no record behind.
LEMMA FailKeeps ==
    ASSUME Watched, pc \in Working, ram.fd, AppendFails, previous' = previous
    PROVE  UNCHANGED <<logged, recoverable, replaced>> /\ told' = FALSE
<1>1. SteadyOK(file, ram) BY SteadyAt, WatchedFacts
<1>2. PICK log \in Overwritten(Torn) \cup {file.log} : file' = [file EXCEPT !.log = log]
  BY DEF AppendFails
<1>3. Holds(file') = Holds(file) /\ Recoverable(file') = Recoverable(file)
  BY <1>1, <1>2, NoAppendShows
<1>4. told' = FALSE BY FaultHeard DEF AppendFails, Working, Flushing, Renamed
<1> QED BY <1>3, <1>4, WatchedFacts

LEMMA FailedEdit ==
    ASSUME Watched, pc \in {"open", "add", "remove"}, ram.fd, pc' = "open", ram' = ram,
           AppendFails, previous' = previous
    PROVE  Abstract!Next
<1>1. pc \in Working /\ pc' \in Working BY DEF Working
<1>2. view = Contents(ram) /\ view' = Contents(ram') BY <1>1, InHand
<1>3. Contents(ram') = Contents(ram) OBVIOUS
<1>4. UNCHANGED <<logged, recoverable, replaced>> /\ told' = FALSE BY <1>1, FailKeeps
<1> QED BY <1>2, <1>3, <1>4, Quiet

\* A record that was written.
LEMMA WrittenDown ==
    ASSUME Watched, pc \in Working \ {"flushSync"}, previous' = previous,
           NEW docs, Holds(file') = docs,
           Recoverable(file') = Recoverable(file) \cup {Holds(file')}
    PROVE  Abstract!Write(docs)
<1>1. told' = FALSE /\ replaced' = replaced
  BY WatchedFacts DEF Hushed, Working, Flushing
<1>2. logged' = docs /\ recoverable' = recoverable \cup {docs} BY WatchedFacts
<1> QED BY <1>1, <1>2 DEF Abstract!Write

LEMMA AddDocsKeeps == ASSUME Watched, AddDocs PROVE Abstract!Next
BY Begins DEF AddDocs, Working

LEMMA RemoveDocsKeeps == ASSUME Watched, RemoveDocs PROVE Abstract!Next
BY Begins DEF RemoveDocs, Working

LEMMA FlushKeeps == ASSUME Watched, Flush PROVE Abstract!Next
BY Begins DEF Flush, Working, Flushing

LEMMA AddDocKeeps == ASSUME Watched, AddDoc PROVE Abstract!Next
<1>0. pc = "add" /\ previous' = previous BY DEF AddDoc
<1>1. SteadyOK(file, ram) /\ ram.fd /\ LogInv BY <1>0, OpenAt, WatchedFacts DEF Working
<1>2. Head(todo) \in Metas /\ ram.nextId <= MaxId
  <2>1. todo \in Seq(Metas) /\ Len(todo) >= 1 /\ ram.nextId + Len(todo) <= MaxId + 1
    BY <1>0, <1>1 DEF LogInv, TodoOK
  <2>2. /\ Len(todo) \in Nat /\ ram.nextId \in Nat /\ MaxId \in Nat
        /\ todo # <<>>
    BY <1>1, <2>1, ByteFacts, Kept0, HandleTypes
  <2> QED BY <2>1, <2>2
<1>3. CASE /\ AppendRecord(Put(ram.nextId, Head(todo)))
           /\ ram' = [ram EXCEPT
                        !.entries = Append(@, NewEntry(ram.nextId, Head(todo))),
                        !.nextId = @ + 1, !.live = @ + 1, !.end = @ + 1]
           /\ pc' \in {"open", "add"}
  <2>1. PICK m \in Metas : m = Head(todo) BY <1>2
  <2>2. PICK log \in Overwritten(Put(ram.nextId, m)) : file' = [file EXCEPT !.log = log]
    BY <1>3, <2>1 DEF AppendRecord
  <2>3. ram' = [ram EXCEPT !.entries = Append(@, NewEntry(ram.nextId, m)),
                           !.nextId = @ + 1, !.live = @ + 1, !.end = @ + 1]
    BY <1>3, <2>1
  <2>4. PICK id : id = ram.nextId OBVIOUS
  <2>5. /\ id \in 1..MaxId /\ id \notin DOMAIN Contents(ram)
        /\ Contents(ram') = With(Contents(ram), id, m)
        /\ Holds(file') = With(Holds(file), id, m)
        /\ Recoverable(file') = Recoverable(file) \cup {Holds(file')}
    BY <1>1, <1>2, <2>2, <2>3, <2>4, AddShows
  <2>6. SteadyOK(file', ram')
    <3>1. SteadyOK([file EXCEPT !.log = log],
                   [ram EXCEPT !.entries = Append(@, NewEntry(ram.nextId, m)),
                               !.nextId = @ + 1, !.live = @ + 1, !.end = @ + 1])
      BY <1>1, <1>2, SteadyAdd
    <3> QED BY <2>2, <2>3, <3>1
  <2>7. ram'.fd /\ pc \in Working /\ pc' \in Working BY <1>0, <1>3, <2>6 DEF SteadyOK, Working
  <2>8. view = Contents(ram) /\ view' = Contents(ram') BY <1>1, <2>7, InHand
  <2>9. Abstract!Write(With(Holds(file), id, m))
    BY <1>0, <2>5, <2>7, WrittenDown
  <2>10. Abstract!Add(id, m)
    BY <2>5, <2>8, <2>9, WatchedFacts DEF Abstract!Add, With
  <2> QED BY <2>5, <2>10 DEF Abstract!Next
<1>4. CASE AppendFails /\ pc' = "open" /\ ram' = ram BY <1>0, <1>1, <1>4, FailedEdit
<1> QED BY <1>3, <1>4 DEF AddDoc

LEMMA RemoveDocKeeps == ASSUME Watched, RemoveDoc PROVE Abstract!Next
<1>0. pc = "remove" /\ previous' = previous BY DEF RemoveDoc
<1>1. SteadyOK(file, ram) /\ ram.fd /\ LogInv BY <1>0, OpenAt, WatchedFacts DEF Working
<1>2. PICK l \in 1..Len(ram.entries) : l = Head(todo) /\ ~ram.entries[l].deleted
  <2>1. todo \in Seq(Alive(ram.entries)) /\ Len(todo) >= 1
    BY <1>0, <1>1 DEF LogInv, TodoOK
  <2>2. todo # <<>> BY <2>1
  <2>3. Head(todo) \in Alive(ram.entries) BY <2>1, <2>2
  <2> QED BY <2>3 DEF Alive
<1>3. \/ /\ AppendRecord(Del(ram.entries[l].id))
         /\ ram' = [Bury(ram, l) EXCEPT !.garbage = @ + Bytes["Del"], !.end = @ + 1]
         /\ pc' \in {"open", "remove"}
      \/ AppendFails /\ pc' = "open" /\ ram' = ram
  BY <1>2 DEF RemoveDoc
<1>4. CASE /\ AppendRecord(Del(ram.entries[l].id))
           /\ ram' = [Bury(ram, l) EXCEPT !.garbage = @ + Bytes["Del"], !.end = @ + 1]
           /\ pc' \in {"open", "remove"}
  <2>1. PICK log \in Overwritten(Del(ram.entries[l].id)) : file' = [file EXCEPT !.log = log]
    BY <1>4 DEF AppendRecord
  <2>2. PICK id : id = ram.entries[l].id OBVIOUS
  <2>3. /\ id \in 1..MaxId /\ id \in DOMAIN Contents(ram)
        /\ Contents(ram') = Without(Contents(ram), id)
        /\ Holds(file') = Without(Holds(file), id)
        /\ Recoverable(file') = Recoverable(file) \cup {Holds(file')}
    BY <1>1, <1>2, <1>4, <2>1, <2>2, RemoveShows
  <2>4. SteadyOK(file', ram')
    <3>1. SteadyOK([file EXCEPT !.log = log],
                   [Bury(ram, l) EXCEPT !.garbage = @ + Bytes["Del"], !.end = @ + 1])
      BY <1>1, <1>2, SteadyRemove
    <3> QED BY <1>4, <2>1, <3>1
  <2>5. ram'.fd /\ pc \in Working \ {"flushSync"} /\ pc' \in Working
    BY <1>0, <1>4, <2>4 DEF SteadyOK, Working
  <2>6. view = Contents(ram) /\ view' = Contents(ram') BY <1>1, <2>5, InHand
  <2>7. Abstract!Write(Without(Holds(file), id)) BY <1>0, <2>3, <2>5, WrittenDown
  <2>8. Abstract!RemoveId(id)
    BY <2>3, <2>6, <2>7, WatchedFacts DEF Abstract!RemoveId, Without
  <2> QED BY <2>3, <2>8 DEF Abstract!Next
<1>5. CASE AppendFails /\ pc' = "open" /\ ram' = ram BY <1>0, <1>1, <1>5, FailedEdit
<1> QED BY <1>3, <1>4, <1>5

\* New metadata reaches the log: what update_metadata() and flush() share.
LEMMA SetKeeps ==
    ASSUME Watched, pc \in {"open", "flushMeta"}, ram.fd, pc' = pc, previous' = previous,
           NEW l \in 1..Len(ram.entries), ~ram.entries[l].deleted, NEW m \in Metas,
           AppendRecord(Set(ram.entries[l].id, m)), ram' = WithSet(ram, l, m)
    PROVE  LET id == ram.entries[l].id IN
           /\ id \in 1..MaxId /\ id \in DOMAIN view /\ view = Contents(ram)
           /\ view' = With(view, id, m) /\ Abstract!Write(With(logged, id, m))
<1>0. pc \in Working \ {"flushSync"} /\ pc' \in Working BY DEF Working, Flushing
<1>1. SteadyOK(file, ram) BY <1>0, SteadyAt, WatchedFacts
<1>2. PICK log \in Overwritten(Set(ram.entries[l].id, m)) : file' = [file EXCEPT !.log = log]
  BY DEF AppendRecord
<1>3. PICK id : id = ram.entries[l].id OBVIOUS
<1>4. /\ id \in 1..MaxId /\ id \in DOMAIN Contents(ram)
      /\ Contents(ram') = With(Contents(ram), id, m)
      /\ Holds(file') = With(Holds(file), id, m)
      /\ Recoverable(file') = Recoverable(file) \cup {Holds(file')}
  BY <1>1, <1>2, <1>3, SetShows
<1>5. SteadyOK(file', ram')
  <2>1. SteadyOK([file EXCEPT !.log = log], WithSet(ram, l, m)) BY <1>1, SteadySet
  <2> QED BY <1>2, <2>1
<1>6. ram'.fd BY <1>5 DEF SteadyOK
<1>7. view = Contents(ram) /\ view' = Contents(ram') BY <1>0, <1>6, InHand
<1>8. Abstract!Write(With(Holds(file), id, m)) BY <1>0, <1>4, WrittenDown
<1>9. logged = Holds(file) BY WatchedFacts
<1> QED BY <1>3, <1>4, <1>7, <1>8, <1>9

LEMMA UpdateMetadataKeeps ==
    ASSUME Watched, NEW l \in LiveLabels, NEW m \in Metas, UpdateMetadata(l, m)
    PROVE  Abstract!Next
<1>1. /\ pc = "open" /\ ram.fd /\ pc' = pc /\ previous' = previous
      /\ AppendRecord(Set(ram.entries[l].id, m)) /\ ram' = WithSet(ram, l, m)
  BY DEF UpdateMetadata
<1>2. l \in 1..Len(ram.entries) /\ ~ram.entries[l].deleted BY LiveIs, WatchedFacts
<1>3. PICK id : id = ram.entries[l].id OBVIOUS
<1>4. /\ id \in 1..MaxId /\ id \in DOMAIN view
      /\ view' = With(view, id, m) /\ Abstract!Write(With(logged, id, m))
  BY <1>1, <1>2, <1>3, SetKeeps
<1>5. Abstract!Update(id, m) BY <1>4 DEF Abstract!Update, With
<1> QED BY <1>4, <1>5 DEF Abstract!Next

LEMMA UpdateMetadataFailsKeeps == ASSUME Watched, UpdateMetadataFails PROVE Abstract!Next
BY FailedEdit DEF UpdateMetadataFails

LEMMA UpdateMetadataDeferredKeeps ==
    ASSUME Watched, NEW l \in LiveLabels, NEW m \in Metas, UpdateMetadataDeferred(l, m)
    PROVE  Abstract!Next
<1>1. /\ pc = "open" /\ ram.fd /\ pc' = "open" /\ previous' = previous /\ file' = file
      /\ ram' = [ram EXCEPT !.entries[l].meta = m, !.entries[l].dirty = TRUE]
  BY DEF UpdateMetadataDeferred
<1>2. pc \in Working /\ pc' \in Working BY <1>1 DEF Working
<1>3. SteadyOK(file, ram) BY <1>1, <1>2, SteadyAt, WatchedFacts
<1>4. l \in Alive(ram.entries) /\ l \in 1..Len(ram.entries) BY LiveIs, WatchedFacts
<1>5. PICK id : id = ram.entries[l].id OBVIOUS
<1>6. /\ id \in 1..MaxId /\ id \in DOMAIN Contents(ram)
      /\ Contents(ram') = With(Contents(ram), id, m)
  BY <1>1, <1>3, <1>4, <1>5, DirtyShows
<1>7. ram'.fd
  <2>1. SteadyOK(file, ram') BY <1>1, <1>3, <1>4, SteadyDirty
  <2> QED BY <2>1 DEF SteadyOK
<1>8. view = Contents(ram) /\ view' = Contents(ram') BY <1>1, <1>2, <1>7, InHand
<1>9. /\ logged' = logged /\ recoverable' = recoverable /\ replaced' = replaced
      /\ told' = FALSE
  BY <1>1, WatchedFacts DEF Hushed
<1>10. Abstract!Defer(id, m) BY <1>6, <1>8, <1>9 DEF Abstract!Defer, With
<1> QED BY <1>6, <1>10 DEF Abstract!Next

----------------------------------------------------------------------------
\* flush() and the destructor

\* A flush that failed: the handle stands as it was, or is gone.
LEMMA FailedFlush ==
    ASSUME Watched, pc \in Flushing, ram.fd, NEW st, st.fd, Contents(st) = Contents(ram),
           FlushEnds(st), UNCHANGED <<logged, recoverable, replaced>>, told' = FALSE
    PROVE  Abstract!Next
<1>1. PICK closing \in BOOLEAN : todo = <<closing>>
  BY WatchedFacts DEF LogInv, TodoOK
<1>2. Head(todo) = closing BY <1>1
<1>3. CASE closing
  <2>1. pc' = "closed" BY <1>2, <1>3 DEF FlushEnds
  <2>2. view' = logged' BY <2>1, InHand
  <2> QED BY <2>2, Ends
<1>4. CASE ~closing
  <2>1. pc' = "open" /\ ram' = st BY <1>2, <1>4 DEF FlushEnds
  <2>2. pc \in Working /\ pc' \in Working BY <2>1 DEF Working
  <2>3. view = Contents(ram) /\ view' = Contents(ram') BY <2>1, <2>2, InHand
  <2>4. Contents(ram') = Contents(ram) BY <2>1
  <2> QED BY <2>3, <2>4, Quiet
<1> QED BY <1>3, <1>4

LEMMA FlushMetaKeeps == ASSUME Watched, FlushMeta PROVE Abstract!Next
<1>0. pc = "flushMeta" /\ DirtyLive # {} /\ previous' = previous BY DEF FlushMeta
<1>1. /\ SteadyOK(file, ram) /\ ram.fd /\ LogInv /\ pc \in Flushing /\ pc \in Working
  BY <1>0, OpenAt, WatchedFacts DEF Working, Flushing
<1>2. PICK l : l = Min(DirtyLive) OBVIOUS
<1>3. PICK m : m = ram.entries[l].meta OBVIOUS
<1>4. l \in 1..Len(ram.entries) /\ ~ram.entries[l].deleted /\ m \in Metas
  BY <1>0, <1>1, <1>2, <1>3, FirstDirty
<1>5. \/ /\ AppendRecord(Set(ram.entries[l].id, m)) /\ ram' = WithSet(ram, l, m) /\ pc' = pc
      \/ AppendFails /\ FlushEnds(ram)
  BY <1>2, <1>3 DEF FlushMeta
<1>6. CASE AppendRecord(Set(ram.entries[l].id, m)) /\ ram' = WithSet(ram, l, m) /\ pc' = pc
  <2>1. PICK id : id = ram.entries[l].id OBVIOUS
  <2>2. /\ id \in 1..MaxId /\ id \in DOMAIN view /\ view = Contents(ram)
        /\ view' = With(view, id, m) /\ Abstract!Write(With(logged, id, m))
    BY <1>0, <1>1, <1>4, <1>6, <2>1, SetKeeps
  <2>3. /\ view = [i \in DOMAIN view |-> view[i]]
        /\ view[id] = m
    <3>1. HandleOK(ram) /\ l \in Alive(ram.entries) BY <1>1, <1>4 DEF SteadyOK, Alive
    <3> QED BY <1>3, <2>1, <2>2, <3>1, ContentsIs
  <2>4. view' = view
    <3>1. With(view, id, m) = [i \in DOMAIN view \cup {id} |-> IF i = id THEN m ELSE view[i]]
      BY DEF With, Abstract!With
    <3>2. DOMAIN view \cup {id} = DOMAIN view BY <2>2
    <3>3. \A i \in DOMAIN view : (IF i = id THEN m ELSE view[i]) = view[i] BY <2>3
    <3> QED BY <2>2, <2>3, <3>1, <3>2, <3>3
  <2>5. Abstract!Persist(id)
    BY <2>2, <2>3, <2>4 DEF Abstract!Persist, With
  <2> QED BY <2>2, <2>5 DEF Abstract!Next
<1>7. CASE AppendFails /\ FlushEnds(ram)
  <2>1. UNCHANGED <<logged, recoverable, replaced>> /\ told' = FALSE
    BY <1>0, <1>1, <1>7, FailKeeps
  <2> QED BY <1>1, <1>7, <2>1, FailedFlush
<1> QED BY <1>5, <1>6, <1>7

LEMMA FlushSnapshotKeeps == ASSUME Watched, FlushSnapshot PROVE Abstract!Next
<1>0. pc = "flushMeta" /\ DirtyLive = {} /\ previous' = previous BY DEF FlushSnapshot
<1>1. /\ SteadyOK(file, ram) /\ ram.fd /\ HandleOK(ram) /\ LogInv
      /\ pc \in Flushing /\ pc \in Working
  BY <1>0, OpenAt, WatchedFacts DEF Working, Flushing
<1>2. \/ AppendRecord(Snap(Ids(ram.entries))) /\ ram' = Flushed /\ pc' = "flushHeader"
      \/ AppendFails /\ FlushEnds(ram)
  BY DEF FlushSnapshot, Flushed
<1>3. CASE AppendRecord(Snap(Ids(ram.entries))) /\ ram' = Flushed /\ pc' = "flushHeader"
  <2>1. PICK log \in Overwritten(Snap(Ids(ram.entries))) : file' = [file EXCEPT !.log = log]
    BY <1>3 DEF AppendRecord
  <2>2. /\ Contents(ram') = Contents(ram) /\ Holds(file') = Holds(file)
        /\ Recoverable(file') = Recoverable(file)
    BY <1>1, <1>3, <2>1, SnapShows
  <2>3. ram'.fd /\ pc' \in Working BY <1>1, <1>3, SnapHandle DEF Snaps, Working, Flushing
  <2>4. view = Contents(ram) /\ view' = Contents(ram') BY <1>1, <2>3, InHand
  <2>5. /\ logged' = logged /\ recoverable' = recoverable /\ replaced' = replaced
        /\ told' = FALSE
    BY <1>0, <2>2, WatchedFacts DEF Hushed
  <2> QED BY <2>2, <2>4, <2>5, Quiet
<1>4. CASE AppendFails /\ FlushEnds(ram)
  <2>1. UNCHANGED <<logged, recoverable, replaced>> /\ told' = FALSE
    BY <1>0, <1>1, <1>4, FailKeeps
  <2> QED BY <1>1, <1>4, <2>1, FailedFlush
<1> QED BY <1>2, <1>3, <1>4

LEMMA FlushHeaderKeeps == ASSUME Watched, FlushHeader PROVE Abstract!Next
<1>0. pc = "flushHeader" /\ previous' = previous BY DEF FlushHeader
<1>1. /\ ram.fd /\ HandleOK(ram) /\ pc \in Flushing /\ pc \in Working
  BY <1>0, OpenAt, WatchedFacts DEF Working, Flushing
<1>2. told' = FALSE /\ pc \notin Renamed BY <1>0, WatchedFacts DEF Hushed, Renamed
<1>3. CASE WriteHeader /\ pc' = "flushSync"
  <2>1. /\ logged' = logged /\ recoverable' = recoverable /\ replaced' = replaced
        /\ Contents(ram') = Contents(ram) /\ ram'.fd
    BY <1>0, <1>1, <1>2, <1>3, HeaderKeeps
  <2>2. pc' \in Working BY <1>3 DEF Working, Flushing
  <2>3. view = Contents(ram) /\ view' = Contents(ram') BY <1>1, <2>1, <2>2, InHand
  <2> QED BY <1>2, <2>1, <2>3, Quiet
<1>4. CASE WriteHeaderFails /\ FlushEnds([ram EXCEPT !.gen = @ + 1])
  <2>1. logged' = logged /\ recoverable' = recoverable /\ replaced' = replaced
    BY <1>0, <1>2, <1>4, HeaderKeeps
  <2>2. PICK s : s = [ram EXCEPT !.gen = @ + 1] OBVIOUS
  <2>3. HandleOK(s) /\ s.entries = ram.entries /\ s.fd = ram.fd BY <1>1, <2>2, WithGen
  <2>4. Contents(s) = Contents(ram) BY <1>1, <2>3, ContentsSame
  <2>5. FlushEnds(s) BY <1>4, <2>2
  <2> QED BY <1>1, <1>2, <2>1, <2>3, <2>4, <2>5, FailedFlush
<1> QED BY <1>3, <1>4 DEF FlushHeader

\* What was sealed is now out of a crash's reach, and the caller hears of it.
LEMMA FlushSyncKeeps == ASSUME Watched, FlushSync PROVE Abstract!Next
<1>0. pc = "flushSync" /\ previous' = previous /\ FlushEnds(ram) BY DEF FlushSync
<1>1. /\ SteadyOK(file, ram) /\ ram.fd /\ LogInv /\ pc \in Flushing /\ pc \in Working
  BY <1>0, OpenAt, WatchedFacts DEF Working, Flushing
<1>2. CASE file' = Synced(file) /\ UNCHANGED faults
  <2>1. FileOK(file) BY WatchedFacts
  <2>2. Holds(file') = Holds(file) /\ Recoverable(file') = {Holds(file)}
    BY <1>2, <2>1, SyncedHolds
  <2>3. Clean(ram)
    <3>1. pc \in Sealed BY <1>0 DEF Sealed
    <3> QED BY <3>1, WatchedFacts DEF PromiseInv
  <2>4. Holds(file) = Contents(ram) BY <1>1, <2>3, CleanShows DEF Clean
  <2>5. view = Contents(ram) BY <1>1, InHand
  <2>6. told' = TRUE
    <3>1. UNCHANGED <<faults, kills, power>> BY <1>2 DEF FlushSync
    <3>2. Returns BY <1>0, <3>1 DEF Returns
    <3>3. told' = Returns BY DEF Watched
    <3> QED BY <3>2, <3>3
  <2>7. logged' = logged /\ recoverable' = {logged} /\ replaced' = replaced
    BY <1>0, <2>2, WatchedFacts
  <2>8. logged = view BY <2>4, <2>5, WatchedFacts
  <2>9. view' = view
    <3>1. PICK closing \in BOOLEAN : todo = <<closing>> BY <1>1 DEF LogInv, TodoOK
    <3>2. Head(todo) = closing BY <3>1
    <3>3. CASE closing
      <4>1. pc' = "closed" BY <1>0, <3>2, <3>3 DEF FlushEnds
      <4>2. view' = logged' BY <4>1, InHand
      <4> QED BY <2>7, <2>8, <4>2
    <3>4. CASE ~closing
      <4>1. pc' = "open" /\ ram' = ram BY <1>0, <3>2, <3>4 DEF FlushEnds
      <4>2. pc' \in Working BY <4>1 DEF Working
      <4>3. view' = Contents(ram') BY <1>1, <4>1, <4>2, InHand
      <4> QED BY <2>5, <4>1, <4>3
    <3> QED BY <3>3, <3>4
  <2>10. Abstract!Sync BY <2>6, <2>7, <2>9 DEF Abstract!Sync
  <2> QED BY <2>10 DEF Abstract!Next
<1>3. CASE WriteFails /\ UNCHANGED file
  <2>1. told' = FALSE BY <1>0, <1>3, FaultHeard DEF Renamed
  <2>2. logged' = logged /\ recoverable' = recoverable /\ replaced' = replaced
    BY <1>0, <1>3, WatchedFacts
  <2> QED BY <1>0, <1>1, <2>1, <2>2, FailedFlush
<1> QED BY <1>2, <1>3 DEF FlushSync

----------------------------------------------------------------------------
\* compact()

LEMMA CompactKeeps == ASSUME Watched, Compact PROVE Abstract!Next
<1>1. /\ pc \in {"open", "compactOnOpen"} /\ pc' \in Renamed /\ file' = CompactedFile
      /\ previous' \in {previous \cup {file}, {}}
  BY DEF Compact, Renamed
<1>2. pc \in Working /\ LogInv BY <1>1, WatchedFacts DEF Working
<1>3. SteadyOK(file, ram) /\ ram.fd
  BY <1>2, SteadyAt, OpenAt DEF Compact
<1>4. FileOK(file) /\ file.sized /\ HandleOK(ram) BY <1>3 DEF SteadyOK
<1>5. /\ FileOK(file') /\ file'.log = CompactedLog
      /\ file'.synced = ValidEnd(file'.log)
  BY <1>1, <1>3, <1>4, SteadyCompacted
<1>6. Holds(file') = Contents(ram)
  <2>1. ValidEnd(CompactedLog) = Len(Kept) + 1 BY <1>4, CompactedOK
  <2>2. Holds(file') = Moment(file'.log, ValidEnd(file'.log)) BY <1>5, MomentsRead
  <2>3. Holds(file') = Contents(Replayed(CompactedLog, Len(Kept) + 1))
    BY <1>5, <2>1, <2>2 DEF Moment
  <2> QED BY <1>4, <2>3, CompactedReads
<1>7. Recoverable(file') = {Contents(ram)} BY <1>5, <1>6, FileSettled
<1>8. view = Contents(ram) BY <1>2, <1>3, InHand
<1>9. view' = logged' BY <1>1, InHand
<1>10. logged' = view /\ recoverable' = {view} BY <1>6, <1>7, <1>8, WatchedFacts
<1>11. replaced' \in {replaced \cup recoverable, {}}
  <2>1. replaced = Replaced /\ replaced' = Replaced' /\ recoverable = Recoverable(file)
    BY WatchedFacts
  <2>2. CASE previous' = previous \cup {file}
    <3>1. Replaced' = UNION {Recoverable(f) : f \in previous'}
      BY DEF Replaced, Recoverable
    <3>2. Replaced' = Replaced \cup Recoverable(file) BY <2>2, <3>1 DEF Replaced
    <3> QED BY <2>1, <3>2
  <2>3. CASE previous' = {}
    <3>1. Replaced' = {} BY <2>3 DEF Replaced
    <3> QED BY <2>1, <3>1
  <2> QED BY <1>1, <2>2, <2>3
<1>12. told' = FALSE BY <1>1, WatchedFacts DEF Hushed
<1>13. Abstract!Rewrite BY <1>9, <1>10, <1>11, <1>12 DEF Abstract!Rewrite
<1> QED BY <1>13 DEF Abstract!Next

LEMMA CompactOnOpenFailsKeeps == ASSUME Watched, CompactOnOpenFails PROVE Abstract!Next
<1>1. /\ pc' = "closed" /\ file' = file /\ previous' = previous /\ WriteFails
      /\ pc \notin Renamed
  BY DEF CompactOnOpenFails, Renamed
<1>2. told' = FALSE BY <1>1, FaultHeard
<1> QED BY <1>1, <1>2, EndsHere

LEMMA CompactReopenKeeps == ASSUME Watched, CompactReopen PROVE Abstract!Next
<1>1. pc \in Renamed /\ previous' \in {{}, previous} /\ file' = file
  BY DEF CompactReopen, Renamed
<1>2. /\ file.log = CompactedLog /\ ram.fd /\ HandleOK(ram) /\ FileOK(file)
      /\ file.synced = ValidEnd(file.log)
  BY <1>1, WatchedFacts DEF LogInv, PromiseInv
<1>3. logged' = logged /\ recoverable' = recoverable /\ recoverable = {logged}
  BY <1>1, <1>2, FileSettled, WatchedFacts
<1>4. replaced' \in {{}, replaced}
  <2>1. CASE previous' = {}
    <3>1. Replaced' = {} BY <2>1 DEF Replaced
    <3> QED BY <3>1, WatchedFacts
  <2>2. CASE previous' = previous BY <2>2, WatchedFacts
  <2> QED BY <1>1, <2>1, <2>2
<1>5. told' \in BOOLEAN BY DEF Watched, Returns
<1>6. view = logged BY <1>1, InHand
<1>7. view' = logged'
  <2>1. CASE ram' = CompactedRam /\ pc' = "open"
    <3>1. CompactedRam.fd /\ ValidEnd(CompactedLog) = Len(Kept) + 1 BY <1>2, CompactedOK
    <3>2. pc' \in Working BY <2>1 DEF Working
    <3>3. view' = Contents(ram') BY <2>1, <3>1, <3>2, InHand
    <3>4. Contents(ram') = Contents(ram) BY <1>2, <2>1, CompactedServes
    <3>5. Holds(file) = Moment(file.log, ValidEnd(file.log)) BY <1>2, MomentsRead
    <3>6. Holds(file) = Contents(Replayed(CompactedLog, Len(Kept) + 1))
      BY <1>2, <3>1, <3>5 DEF Moment
    <3>7. Holds(file) = Contents(ram) BY <1>2, <3>6, CompactedReads
    <3>8. logged = Holds(file) BY WatchedFacts
    <3> QED BY <1>3, <3>3, <3>4, <3>7, <3>8
  <2>2. CASE ram' = [ram EXCEPT !.fd = FALSE]
    <3>1. PICK open \in BOOLEAN : ~open OBVIOUS
    <3>2. ram' = [ram EXCEPT !.fd = open] BY <2>2, <3>1
    <3>3. ~ram'.fd BY <1>2, <3>1, <3>2, WithFd
    <3> QED BY <3>3, InHand
  <2>3. CASE pc' = "closed" BY <2>3, InHand
  <2> QED BY <2>1, <2>2, <2>3 DEF CompactReopen, Reopened, NotReopened
<1>8. Abstract!Settle BY <1>3, <1>4, <1>5, <1>6, <1>7 DEF Abstract!Settle
<1> QED BY <1>8 DEF Abstract!Next

LEMMA CloseDeadKeeps == ASSUME Watched, CloseDead PROVE Abstract!Next
<1>1. pc = "open" /\ pc' = "closed" /\ file' = file /\ previous' = previous
  BY DEF CloseDead
<1>2. told' = FALSE BY <1>1, WatchedFacts DEF Hushed
<1> QED BY <1>1, <1>2, EndsHere

----------------------------------------------------------------------------
\* The environment, and the promise.

LEMMA KillKeeps == ASSUME Watched, Kill PROVE Abstract!Next
<1>1. /\ pc' = "closed" /\ file' = file /\ previous' = previous /\ kills' = kills + 1
      /\ ~ram'.fd
  BY DEF Kill, EmptyRam
<1>2. told' = FALSE
  <2>1. kills \in Nat BY Kept0 DEF Watched
  <2>2. ~Returns BY <1>1, <2>1 DEF Returns
  <2> QED BY <2>2 DEF Watched, Returns
<1> QED BY <1>1, <1>2, EndsHere

LEMMA PowerLossKeeps == ASSUME Watched, PowerLoss PROVE Abstract!Next
<1>1. pc' = "closed" /\ previous' = {} /\ power' = power + 1 /\ ~ram'.fd
  BY DEF PowerLoss, EmptyRam
<1>2. told' = FALSE
  <2>1. power \in Nat BY Kept0 DEF Watched
  <2>2. ~Returns BY <1>1, <2>1 DEF Returns
  <2> QED BY <2>2 DEF Watched, Returns
<1>3. PICK f \in {file} \cup previous : \E g \in AfterPowerLoss(f) : file' = Settled(g)
  BY DEF PowerLoss
<1>4. PICK g \in AfterPowerLoss(f) : file' = Settled(g) BY <1>3
<1>5. FileOK(f) BY Kept0 DEF Watched
<1>6. Holds(file') \in Recoverable(f) /\ Recoverable(file') = {Holds(file')}
  BY <1>4, <1>5, PowerLossHolds
<1>7. Recoverable(f) \subseteq recoverable \cup replaced
  <2>1. recoverable = Recoverable(file) /\ replaced = Replaced BY WatchedFacts
  <2> QED BY <2>1 DEF Replaced
<1>8. replaced' = {}
  <2>1. Replaced' = {} BY <1>1 DEF Replaced
  <2> QED BY <2>1, WatchedFacts
<1>9. view' = logged' BY <1>1, InHand
<1>10. PICK docs \in recoverable \cup replaced : docs = Holds(file') BY <1>6, <1>7
<1>11. logged' = docs /\ recoverable' = {docs} BY <1>6, <1>10, WatchedFacts
<1>12. Abstract!Crash BY <1>2, <1>8, <1>9, <1>10, <1>11 DEF Abstract!Crash
<1> QED BY <1>12 DEF Abstract!Next

LEMMA StepKeeps == ASSUME Watched, Next PROVE Abstract!Next
BY CreateFileKeeps, CreateHeaderKeeps, CreateSyncKeeps, OpenRefusedKeeps, OpenExistingKeeps,
   AddDocsKeeps, AddDocKeeps, RemoveDocsKeeps, RemoveDocKeeps, UpdateMetadataKeeps,
   UpdateMetadataFailsKeeps, UpdateMetadataDeferredKeeps, FlushKeeps, FlushMetaKeeps,
   FlushSnapshotKeeps, FlushHeaderKeeps, FlushSyncKeeps, CompactKeeps,
   CompactOnOpenFailsKeeps, CompactReopenKeeps, CloseDeadKeeps, KillKeeps, PowerLossKeeps
   DEF Next

LEMMA InitKeeps == ASSUME DurableInit PROVE Abstract!Init /\ Seen
<1>1. Seen /\ told = FALSE BY DEF DurableInit, Seen
<1>2. Init BY DEF DurableInit
<1>3. file = NoFile /\ previous = {} /\ ram = EmptyRam /\ pc = "closed" BY <1>2 DEF Init
<1>4. FileOK(file) BY <1>2, InitLog, Kept0
<1>5. file.log = <<>> /\ file.synced = 0 BY <1>3 DEF NoFile
<1>6. ValidEnd(<<>>) = 0
  <2>1. <<>> \in Seq(Cells) /\ Len(<<>>) = 0 OBVIOUS
  <2>2. ValidEnd(<<>>) \in 0..Len(<<>>) BY <2>1, ValidEndIs
  <2> QED BY <2>1, <2>2
<1>7. Holds(file) = <<>>
  <2>1. Holds(file) = Contents(Replayed(<<>>, 0)) BY <1>4, <1>5, <1>6, MomentsRead DEF Moment
  <2>2. Replayed(<<>>, 0) = EmptyRam
    <3>1. 0 \in Nat OBVIOUS
    <3> QED BY <3>1, ReplayedStep
  <2>3. Len(EmptyRam.entries) = 0 BY DEF EmptyRam
  <2>4. Contents(EmptyRam) = <<>> BY <2>3, EmptyHandle, EmptyContents
  <2> QED BY <2>1, <2>2, <2>4
<1>8. Recoverable(file) = {Holds(file)} BY <1>4, <1>5, <1>6, FileSettled
<1>9. Logged = Holds(file) BY DEF Logged, Holds
<1>10. View = Logged BY <1>3 DEF View, Steady, Running
<1>11. Replaced = {} BY <1>3 DEF Replaced
<1>12. view = <<>> /\ logged = <<>> /\ recoverable = {<<>>} /\ replaced = {}
  BY <1>1, <1>7, <1>8, <1>9, <1>10, <1>11 DEF Seen
<1> QED BY <1>1, <1>12 DEF Abstract!Init

\* Everything the promise needs, in every state.
DurableInv == LogInv /\ PromiseInv /\ Seen

LEMMA DurableStep ==
    ASSUME DurableInv, [DurableNext]_allVars
    PROVE  DurableInv' /\ [Abstract!Next]_(Abstract!vars)
<1>0. LogInv /\ PromiseInv /\ Seen BY DEF DurableInv
<1>1. CASE DurableNext
  <2>1. Next /\ told' = Returns BY <1>1 DEF DurableNext
  <2>2. Seen' BY <1>1 DEF DurableNext, Seen
  <2>3. LogInv' /\ PromiseInv' BY <1>0, <2>1, NextLog, NextPromise
  <2>4. Watched BY <1>0, <2>1, <2>2, <2>3 DEF Watched
  <2>5. Abstract!Next BY <2>1, <2>4, StepKeeps
  <2> QED BY <2>2, <2>3, <2>5 DEF DurableInv
<1>2. CASE UNCHANGED allVars
  <2>1. UNCHANGED vars /\ UNCHANGED <<view, logged, recoverable, replaced, told>>
    BY <1>2 DEF allVars
  <2>2. LogInv' /\ PromiseInv' BY <1>0, <2>1, NextLog, NextPromise
  <2>3. Seen'
    <3>1. file' = file /\ previous' = previous /\ ram' = ram /\ pc' = pc
      BY <2>1 DEF vars
    <3>2. /\ View' = View /\ Logged' = Logged /\ Recoverable(file)' = Recoverable(file)
          /\ Replaced' = Replaced
      BY <3>1 DEF View, Logged, Recoverable, Replaced, Steady, Running, Contents
    <3> QED BY <1>0, <2>1, <3>2 DEF Seen
  <2>4. UNCHANGED Abstract!vars BY <2>1 DEF Abstract!vars
  <2> QED BY <2>2, <2>3, <2>4 DEF DurableInv
<1> QED BY <1>1, <1>2

\* The log keeps the promise of a durable store: every step of the file, the handle
\* and the machine under them is one a caller was promised, or shows nothing.  The
\* promise holds good for one file: those compact() renamed over may come back until
\* a sync of the directory got through, which no caller is told of.
THEOREM PromiseKept == DurableSpec => KeepsThePromise
<1>1. DurableInit => DurableInv /\ Abstract!Init
  BY InitKeeps, InitLog, InitPromise DEF DurableInit, DurableInv
<1>2. DurableInv /\ [DurableNext]_allVars => DurableInv' /\ [Abstract!Next]_(Abstract!vars)
  BY DurableStep
<1> QED BY <1>1, <1>2, PTL DEF DurableSpec, KeepsThePromise, Abstract!Spec
===============================================================================
