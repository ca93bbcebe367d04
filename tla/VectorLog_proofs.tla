--------------------------- MODULE VectorLog_proofs ---------------------------
(***************************************************************************)
(* The log and the handle of a vector store agree in every state any run of *)
(* VectorLog can reach, through failed writes, deaths of the process and    *)
(* power losses; and power losses alone always leave a file that opens.     *)
(*                                                                          *)
(* The first half is about VectorLog's operators, for logs of any length.   *)
(* Replay is defined by recursion over the log; each induction over it is   *)
(* the argument that no record is the first at which the claim fails.  The  *)
(* second half is about the states.                                         *)
(***************************************************************************)
EXTENDS VectorLog, FiniteSetTheorems, SequenceTheorems,
        WellFoundedInduction, TLAPS

----------------------------------------------------------------------------
\* Numbers.

LEMMA Least ==
    ASSUME NEW T, T \subseteq Nat, T # {}
    PROVE  \E x \in T : \A y \in T : x <= y
<1>1. IsWellFoundedOn(OpToRel(<, Nat), Nat) BY NatLessThanWellFounded
<1>2. PICK x \in T : \A y \in T : <<y, x>> \notin OpToRel(<, Nat)
  BY <1>1, WFMin
<1>3. \A y, z \in Nat : y < z => <<y, z>> \in OpToRel(<, Nat) BY DEF OpToRel
<1>4. \A y \in T : ~(y < x) BY <1>2, <1>3
<1>5. \A y \in T : x <= y BY <1>4
<1> QED BY <1>5

LEMMA Greatest ==
    ASSUME NEW n \in Nat, NEW T, T \subseteq 0..n, T # {}
    PROVE  \E x \in T : \A y \in T : x >= y
<1> DEFINE Gaps == {n - x : x \in T}
<1>1. Gaps \subseteq Nat /\ Gaps # {}
  <2>1. \A x \in T : x \in 0..n OBVIOUS
  <2>2. \A x \in T : n - x \in Nat BY <2>1
  <2>3. PICK x \in T : TRUE OBVIOUS
  <2>4. n - x \in Gaps OBVIOUS
  <2> QED BY <2>2, <2>4
<1>2. PICK g \in Gaps : \A h \in Gaps : g <= h BY <1>1, Least
<1>3. PICK x \in T : g = n - x OBVIOUS
<1>4. \A y \in T : n - x <= n - y BY <1>2, <1>3
<1> QED BY <1>4

----------------------------------------------------------------------------
\* The scan.

IsScan(g, log, n) ==
    /\ g = [i \in 0..n |-> g[i]]
    /\ \A i \in 0..n : g[i] = IF i = 0 THEN EmptyRam ELSE ReplayRecord(g[i - 1], log[i])

LEMMA ScanExists == ASSUME NEW log PROVE \A n \in Nat : \E g : IsScan(g, log, n)
<1> DEFINE T == {n \in Nat : ~ \E g : IsScan(g, log, n)}
<1> SUFFICES ASSUME T # {} PROVE FALSE
  OBVIOUS
<1>1. PICK n \in T : \A m \in T : n <= m BY Least
<1>2. n # 0
  <2>1. IsScan([i \in 0..0 |-> EmptyRam], log, 0) BY DEF IsScan
  <2> QED BY <2>1
<1>3. PICK g : IsScan(g, log, n - 1) BY <1>1, <1>2
<1> DEFINE h == [i \in 0..n |-> IF i = n THEN ReplayRecord(g[n - 1], log[n]) ELSE g[i]]
<1>4. \A i \in 0..n : h[i] = IF i = 0 THEN EmptyRam ELSE ReplayRecord(h[i - 1], log[i])
  <2> TAKE i \in 0..n
  <2>1. CASE i = n BY <1>2, <2>1
  <2>2. CASE i < n
    <3>1. i \in 0..n - 1 /\ h[i] = g[i] BY <2>2
    <3>2. i # 0 => i - 1 \in 0..n - 1 /\ h[i - 1] = g[i - 1] BY <2>2
    <3> QED BY <1>3, <3>1, <3>2 DEF IsScan
  <2> QED BY <2>1, <2>2
<1>5. IsScan(h, log, n) BY <1>4 DEF IsScan
<1> QED BY <1>5

\* Two scans agree as far as their logs do.
LEMMA ScansAgree ==
    ASSUME NEW log, NEW other, NEW m \in Nat, NEW n \in Nat, NEW k \in 0..m, k <= n,
           NEW g, NEW h, IsScan(g, log, m), IsScan(h, other, n),
           \A i \in 1..k : log[i] = other[i]
    PROVE  g[k] = h[k]
<1> DEFINE T == {i \in 0..k : g[i] # h[i]}
<1> SUFFICES ASSUME T # {} PROVE FALSE
  OBVIOUS
<1>0. T \subseteq Nat OBVIOUS
<1>1. PICK i \in T : \A j \in T : i <= j BY <1>0, Least
<1>i. i \in 0..m /\ i \in 0..n /\ i \in 0..k OBVIOUS
<1>2. i # 0 BY <1>i DEF IsScan
<1>3. i - 1 \in 0..k /\ i - 1 \notin T BY <1>1, <1>2, <1>i
<1>4. g[i - 1] = h[i - 1] BY <1>3
<1>5. g[i] = ReplayRecord(g[i - 1], log[i]) BY <1>2, <1>i DEF IsScan
<1>6. h[i] = ReplayRecord(h[i - 1], other[i]) BY <1>2, <1>i DEF IsScan
<1>7. log[i] = other[i] BY <1>2, <1>i
<1> QED BY <1>4, <1>5, <1>6, <1>7

LEMMA ReplayedIsScan ==
    ASSUME NEW log, NEW n \in Nat
    PROVE  \E g : IsScan(g, log, n) /\ Replayed(log, n) = g[n]
<1> DEFINE P(g) == g = [i \in 0..n |->
                          IF i = 0 THEN EmptyRam ELSE ReplayRecord(g[i - 1], log[i])]
           f == CHOOSE g : P(g)
<1>1. PICK g : IsScan(g, log, n) BY ScanExists
<1>2. P(g) BY <1>1 DEF IsScan
<1>3. P(f) BY <1>2
<1>4. Replayed(log, n) = f[n] BY DEF Replayed
<1> HIDE DEF f
<1>5. IsScan(f, log, n) BY <1>3 DEF IsScan
<1> QED BY <1>4, <1>5

\* Replay goes record by record and looks at no record behind the last.
LEMMA ReplayedStep ==
    ASSUME NEW log, NEW n \in Nat
    PROVE  /\ Replayed(log, 0) = EmptyRam
           /\ Replayed(log, n + 1) = ReplayRecord(Replayed(log, n), log[n + 1])
<1>1. PICK z : IsScan(z, log, 0) /\ Replayed(log, 0) = z[0] BY ReplayedIsScan
<1>2. PICK g : IsScan(g, log, n) /\ Replayed(log, n) = g[n] BY ReplayedIsScan
<1>3. PICK h : IsScan(h, log, n + 1) /\ Replayed(log, n + 1) = h[n + 1]
  BY ReplayedIsScan
<1>4. g[n] = h[n]
  <2>1. PICK m \in Nat : m = n + 1 OBVIOUS
  <2>2. n \in 0..n /\ n <= m BY <2>1
  <2>3. IsScan(h, log, m) BY <1>3, <2>1
  <2> QED BY <1>2, <2>2, <2>3, ScansAgree
<1>5. h[n + 1] = ReplayRecord(h[n], log[n + 1]) BY <1>3 DEF IsScan
<1> QED BY <1>1, <1>2, <1>3, <1>4, <1>5 DEF IsScan

LEMMA ReplayedSame ==
    ASSUME NEW log, NEW other, NEW n \in Nat, \A i \in 1..n : log[i] = other[i]
    PROVE  Replayed(log, n) = Replayed(other, n)
<1>1. PICK g : IsScan(g, log, n) /\ Replayed(log, n) = g[n] BY ReplayedIsScan
<1>2. PICK h : IsScan(h, other, n) /\ Replayed(other, n) = h[n] BY ReplayedIsScan
<1>3. n \in 0..n /\ n <= n OBVIOUS
<1> QED BY <1>1, <1>2, <1>3, ScansAgree

----------------------------------------------------------------------------
\* Labels: document ids grow along the entries, so an id has one label.

Handle == [entries : Seq(Entries), nextId : 1..MaxId + 1, live : Nat, garbage : Nat,
           gen : Nat, snap : Nat, end : Nat, fd : BOOLEAN]

HandleFields == {"entries", "nextId", "live", "garbage", "gen", "snap", "end", "fd"}

Alive(entries) == {l \in 1..Len(entries) : ~entries[l].deleted}

\* A handle's fields have their types, its ids grow, and live counts what is live.
HandleOK(st) ==
    /\ st \in Handle
    /\ \A l \in 1..Len(st.entries) : st.entries[l].id < st.nextId
    /\ \A k, l \in 1..Len(st.entries) : k < l => st.entries[k].id < st.entries[l].id
    /\ st.live = Cardinality(Alive(st.entries))

LEMMA EntryTypes ==
    ASSUME NEW e \in Entries
    PROVE  /\ e.id \in 1..MaxId /\ e.id \in Nat /\ e.meta \in Metas
           /\ e.deleted \in BOOLEAN /\ e.dirty \in BOOLEAN
           /\ e.metaBytes \in {0, Bytes["Set"]} /\ e.metaBytes \in Nat
<1>1. /\ e.id \in 1..MaxId /\ e.meta \in Metas
      /\ e.deleted \in BOOLEAN /\ e.dirty \in BOOLEAN
      /\ e.metaBytes \in {0, Bytes["Set"]}
  BY DEF Entries
<1>2. Bytes["Set"] \in Nat BY VectorLogAssumption DEF RecordTypes
<1>3. e.id \in Nat BY <1>1, VectorLogAssumption
<1>4. e.metaBytes \in Nat BY <1>1, <1>2
<1> QED BY <1>1, <1>3, <1>4

LEMMA HandleTypes ==
    ASSUME NEW st, HandleOK(st)
    PROVE  /\ st.entries \in Seq(Entries) /\ Len(st.entries) \in Nat
           /\ DOMAIN st.entries = 1..Len(st.entries)
           /\ st.nextId \in 1..MaxId + 1 /\ st.nextId \in Nat
           /\ st.live \in Nat /\ st.garbage \in Nat /\ st.gen \in Nat
           /\ st.snap \in Nat /\ st.end \in Nat /\ st.fd \in BOOLEAN
           /\ \A l \in 1..Len(st.entries) :
                 st.entries[l] \in Entries /\ st.entries[l].id \in Nat
<1>1. st \in Handle BY DEF HandleOK
<1>2. /\ st.entries \in Seq(Entries) /\ st.nextId \in 1..MaxId + 1
      /\ st.live \in Nat /\ st.garbage \in Nat /\ st.gen \in Nat
      /\ st.snap \in Nat /\ st.end \in Nat /\ st.fd \in BOOLEAN
  BY <1>1 DEF Handle
<1>3. st.nextId \in Nat BY <1>2, VectorLogAssumption
<1>4. /\ Len(st.entries) \in Nat /\ DOMAIN st.entries = 1..Len(st.entries)
      /\ \A l \in 1..Len(st.entries) : st.entries[l] \in Entries
  BY <1>2
<1> QED BY <1>2, <1>3, <1>4, EntryTypes

LEMMA LabelFinds ==
    ASSUME NEW entries \in Seq(Entries), NEW id
    PROVE  LET l == Label(entries, id) IN
           \/ l = 0 /\ \A k \in 1..Len(entries) : entries[k].id # id
           \/ l \in 1..Len(entries) /\ entries[l].id = id
<1> DEFINE I == {k \in 1..Len(entries) : entries[k].id = id}
<1>1. Label(entries, id) = IF I # {} THEN Max(I) ELSE 0
  BY DEF Label, SelectLastInSeq
<1>2. CASE I = {} BY <1>1, <1>2
<1>3. CASE I # {}
  <2>1. Len(entries) \in Nat /\ I \subseteq 0..Len(entries) OBVIOUS
  <2>2. \E x \in I : \A y \in I : x >= y BY <1>3, <2>1, Greatest
  <2>3. Max(I) \in I BY <2>2 DEF Max
  <2> QED BY <1>1, <1>3, <2>3
<1> QED BY <1>2, <1>3

LEMMA LabelOf ==
    ASSUME NEW st, HandleOK(st), NEW l \in 1..Len(st.entries)
    PROVE  Label(st.entries, st.entries[l].id) = l
<1>1. /\ st.entries \in Seq(Entries)
      /\ \A k \in 1..Len(st.entries) : st.entries[k].id \in Nat
  BY HandleTypes
<1>2. PICK k \in 0..Len(st.entries) :
        /\ k = Label(st.entries, st.entries[l].id)
        /\ k # 0 /\ st.entries[k].id = st.entries[l].id
  BY <1>1, LabelFinds
<1>3. ~(k < l) /\ ~(l < k) BY <1>1, <1>2 DEF HandleOK
<1> QED BY <1>2, <1>3

LEMMA LabelOfNew ==
    ASSUME NEW st, HandleOK(st), NEW id \in Nat, id >= st.nextId
    PROVE  Label(st.entries, id) = 0
<1>1. /\ st.entries \in Seq(Entries) /\ st.nextId \in Nat
      /\ \A k \in 1..Len(st.entries) : st.entries[k].id \in Nat
  BY HandleTypes
<1>2. \A k \in 1..Len(st.entries) : st.entries[k].id # id BY <1>1 DEF HandleOK
<1> QED BY <1>1, <1>2, LabelFinds

LEMMA EmptyHandle == HandleOK(EmptyRam)
<1>1. EmptyRam \in Handle
  <2>1. <<>> \in Seq(Entries) OBVIOUS
  <2>2. 1 \in 1..MaxId + 1 BY VectorLogAssumption
  <2>3. FALSE \in BOOLEAN OBVIOUS
  <2> QED BY <2>1, <2>2, <2>3 DEF EmptyRam, Handle
<1>2. EmptyRam.entries = <<>> /\ EmptyRam.live = 0 BY DEF EmptyRam
<1>3. Len(EmptyRam.entries) = 0 BY <1>2
<1>4. 1..Len(EmptyRam.entries) = {} BY <1>3
<1>5. Alive(EmptyRam.entries) = {} BY <1>4 DEF Alive
<1>6. Cardinality({}) = 0 BY FS_EmptySet
<1>7. EmptyRam.live = Cardinality(Alive(EmptyRam.entries)) BY <1>2, <1>5, <1>6
<1> QED BY <1>1, <1>4, <1>7 DEF HandleOK

----------------------------------------------------------------------------
\* What a record does to the fields of a handle.

\* One more document.
Grows(st, id, m, st2) ==
    /\ st2 \in Handle
    /\ st2.entries = Append(st.entries, NewEntry(id, m))
    /\ st2.nextId = id + 1 /\ st2.live = st.live + 1
    /\ st2.garbage = st.garbage /\ st2.snap = st.snap /\ st2.end = st.end + 1
    /\ st2.gen = st.gen /\ st2.fd = st.fd

\* New metadata for a document.
Written(e, m, dirty) ==
    [id |-> e.id, meta |-> m, deleted |-> e.deleted, metaBytes |-> Bytes["Set"],
     dirty |-> dirty]
Rewrites(st, l, m, dirty, st2) ==
    /\ st2 \in Handle
    /\ st2.entries = [st.entries EXCEPT ![l] = Written(@, m, dirty)]
    /\ st2.garbage = st.garbage + st.entries[l].metaBytes
    /\ st2.end = st.end + 1
    /\ st2.nextId = st.nextId /\ st2.live = st.live /\ st2.snap = st.snap
    /\ st2.gen = st.gen /\ st2.fd = st.fd

\* A document is buried.
Buried(e) ==
    [id |-> e.id, meta |-> e.meta, deleted |-> TRUE, metaBytes |-> e.metaBytes,
     dirty |-> e.dirty]
Buries(st, l, st2) ==
    /\ st2 \in Handle
    /\ st2.entries = [st.entries EXCEPT ![l] = Buried(@)]
    /\ st2.live = st.live - 1
    /\ st2.garbage = st.garbage + Bytes["Put"] + st.entries[l].metaBytes + Bytes["Del"]
    /\ st2.end = st.end + 1
    /\ st2.nextId = st.nextId /\ st2.snap = st.snap
    /\ st2.gen = st.gen /\ st2.fd = st.fd

LEMMA ByteFacts ==
    /\ Bytes["Put"] \in Nat /\ Bytes["Set"] \in Nat /\ Bytes["Del"] \in Nat
    /\ Bytes["Snap"] \in Nat /\ MaxId \in Nat
BY VectorLogAssumption DEF RecordTypes

LEMMA NewEntryType ==
    ASSUME NEW id \in 1..MaxId, NEW m \in Metas
    PROVE  NewEntry(id, m) \in Entries
BY DEF NewEntry, Entries

LEMMA AddGrows ==
    ASSUME NEW st, HandleOK(st), st.nextId <= MaxId, NEW m \in Metas
    PROVE  Grows(st, st.nextId, m,
                 [st EXCEPT !.entries = Append(@, NewEntry(st.nextId, m)),
                            !.nextId = @ + 1, !.live = @ + 1, !.end = @ + 1])
<1>0. st \in Handle BY DEF HandleOK
<1>1. NewEntry(st.nextId, m) \in Entries BY HandleTypes, ByteFacts, NewEntryType
<1>2. PICK x : x = Append(st.entries, NewEntry(st.nextId, m)) /\ x \in Seq(Entries)
  <2>1. Append(st.entries, NewEntry(st.nextId, m)) \in Seq(Entries)
    BY <1>1, HandleTypes, AppendProperties
  <2> QED BY <2>1
<1>3. PICK n \in 1..MaxId + 1 : n = st.nextId + 1 BY HandleTypes, ByteFacts
<1>4. PICK v \in Nat, e \in Nat : v = st.live + 1 /\ e = st.end + 1 BY HandleTypes
<1> DEFINE s == [st EXCEPT !.entries = x, !.nextId = n, !.live = v, !.end = e]
<1>d. DOMAIN st = HandleFields BY <1>0 DEF Handle, HandleFields
<1>t. s \in Handle BY <1>0, <1>2 DEF Handle
<1>5. /\ s.entries = x /\ s.nextId = n /\ s.live = v /\ s.end = e
      /\ s.garbage = st.garbage /\ s.snap = st.snap /\ s.gen = st.gen /\ s.fd = st.fd
  BY <1>d DEF HandleFields
<1>6. s = [st EXCEPT !.entries = Append(@, NewEntry(st.nextId, m)),
                     !.nextId = @ + 1, !.live = @ + 1, !.end = @ + 1]
  BY <1>2, <1>3, <1>4
<1> HIDE DEF s
<1> QED BY <1>2, <1>3, <1>4, <1>t, <1>5, <1>6 DEF Grows

LEMMA LiveOne ==
    ASSUME NEW st, HandleOK(st), NEW l \in 1..Len(st.entries), ~st.entries[l].deleted
    PROVE  st.live - 1 \in Nat
<1>1. Alive(st.entries) \subseteq 1..Len(st.entries) /\ l \in Alive(st.entries)
  BY DEF Alive
<1>2. IsFiniteSet(1..Len(st.entries)) BY HandleTypes, FS_Interval
<1>3. IsFiniteSet(Alive(st.entries)) BY <1>1, <1>2, FS_Subset
<1>4. Cardinality(Alive(st.entries)) # 0 BY <1>1, <1>3, FS_EmptySet
<1> QED BY <1>4, HandleTypes DEF HandleOK

LEMMA SameEntry ==
    ASSUME NEW e \in Entries, NEW f \in Entries, e.id = f.id, e.meta = f.meta,
           e.deleted = f.deleted, e.metaBytes = f.metaBytes, e.dirty = f.dirty
    PROVE  e = f
BY DEF Entries

LEMMA BuriedType ==
    ASSUME NEW e \in Entries
    PROVE  Buried(e) \in Entries /\ [e EXCEPT !.deleted = TRUE] = Buried(e)
<1>1. Buried(e) \in Entries BY EntryTypes DEF Buried, Entries
<1> DEFINE f == [e EXCEPT !.deleted = TRUE]
<1>2. f \in Entries BY DEF Entries
<1>3. f.id = e.id /\ f.meta = e.meta /\ f.metaBytes = e.metaBytes /\ f.dirty = e.dirty
  BY DEF Entries
<1>4. f.deleted = Buried(e).deleted BY DEF Entries, Buried
<1> HIDE DEF f
<1>5. f = Buried(e)
  <2>1. /\ Buried(e).id = e.id /\ Buried(e).meta = e.meta
        /\ Buried(e).metaBytes = e.metaBytes /\ Buried(e).dirty = e.dirty
    BY DEF Buried
  <2> QED BY <1>1, <1>2, <1>3, <1>4, <2>1, SameEntry
<1> QED BY <1>1, <1>5 DEF f

LEMMA WrittenType ==
    ASSUME NEW e \in Entries, NEW m \in Metas
    PROVE  /\ \A d \in BOOLEAN : Written(e, m, d) \in Entries
           /\ [e EXCEPT !.metaBytes = Bytes["Set"], !.meta = m, !.dirty = FALSE]
                 = Written(e, m, FALSE)
           /\ [e EXCEPT !.metaBytes = Bytes["Set"], !.meta = m] = Written(e, m, e.dirty)
<1>1. \A d \in BOOLEAN : Written(e, m, d) \in Entries
  BY EntryTypes DEF Written, Entries
<1> DEFINE f == [e EXCEPT !.metaBytes = Bytes["Set"], !.meta = m, !.dirty = FALSE]
           g == [e EXCEPT !.metaBytes = Bytes["Set"], !.meta = m]
<1>2. f \in Entries /\ g \in Entries BY DEF Entries
<1>3. /\ f.id = e.id /\ f.meta = m /\ f.metaBytes = Bytes["Set"]
      /\ f.deleted = e.deleted
      /\ g.id = e.id /\ g.meta = m /\ g.metaBytes = Bytes["Set"]
      /\ g.deleted = e.deleted /\ g.dirty = e.dirty
  BY DEF Entries
<1>4. f.dirty = Written(e, m, FALSE).dirty BY DEF Entries, Written
<1> HIDE DEF f, g
<1>5. \A d \in BOOLEAN :
        /\ Written(e, m, d).id = e.id /\ Written(e, m, d).meta = m
        /\ Written(e, m, d).metaBytes = Bytes["Set"] /\ Written(e, m, d).deleted = e.deleted
        /\ Written(e, m, d).dirty = d
  BY DEF Written
<1>6. FALSE \in BOOLEAN /\ e.dirty \in BOOLEAN BY EntryTypes
<1>7. f = Written(e, m, FALSE)
  <2>1. PICK d \in BOOLEAN : d = FALSE BY <1>6
  <2>2. f.dirty = Written(e, m, d).dirty BY <1>4, <2>1
  <2>3. Written(e, m, d) \in Entries BY <1>1
  <2>4. f = Written(e, m, d) BY <1>2, <1>3, <1>5, <2>2, <2>3, SameEntry
  <2> QED BY <2>1, <2>4
<1>8. g = Written(e, m, e.dirty) BY <1>1, <1>2, <1>3, <1>5, <1>6, SameEntry
<1> QED BY <1>1, <1>7, <1>8 DEF f, g

LEMMA BuryBuries ==
    ASSUME NEW st, HandleOK(st), NEW l \in 1..Len(st.entries), ~st.entries[l].deleted
    PROVE  Buries(st, l, [Bury(st, l) EXCEPT !.garbage = @ + Bytes["Del"], !.end = @ + 1])
<1>0. st \in Handle /\ st.entries[l] \in Entries BY HandleTypes DEF HandleOK
<1>1. PICK x : x = [st.entries EXCEPT ![l] = Buried(@)] /\ x \in Seq(Entries)
  <2>1. Buried(st.entries[l]) \in Entries BY <1>0, BuriedType
  <2>2. [st.entries EXCEPT ![l] = Buried(@)] \in Seq(Entries)
    BY <2>1, HandleTypes, ExceptSeq
  <2> QED BY <2>2
<1>2. PICK v \in Nat, g \in Nat, h \in Nat, e \in Nat :
        /\ v = st.live - 1 /\ e = st.end + 1
        /\ g = st.garbage + Bytes["Put"] + st.entries[l].metaBytes
        /\ h = g + Bytes["Del"]
  <2>1. st.live - 1 \in Nat /\ st.end + 1 \in Nat BY HandleTypes, LiveOne
  <2>2. st.entries[l].metaBytes \in Nat BY <1>0, EntryTypes
  <2>3. st.garbage + Bytes["Put"] + st.entries[l].metaBytes \in Nat
    BY <2>2, HandleTypes, ByteFacts
  <2>4. st.garbage + Bytes["Put"] + st.entries[l].metaBytes + Bytes["Del"] \in Nat
    BY <2>3, ByteFacts
  <2> QED BY <2>1, <2>3, <2>4
<1> DEFINE b == [st EXCEPT !.entries = x, !.live = v, !.garbage = g]
           s == [b EXCEPT !.garbage = h, !.end = e]
<1>d. DOMAIN st = HandleFields BY <1>0 DEF Handle, HandleFields
<1>t. b \in Handle BY <1>0, <1>1 DEF Handle
<1>3. /\ b.entries = x /\ b.nextId = st.nextId /\ b.live = v
      /\ b.end = st.end /\ b.garbage = g /\ b.snap = st.snap /\ b.gen = st.gen
      /\ b.fd = st.fd
  BY <1>d DEF HandleFields
<1>4. Bury(st, l) = b
  <2>1. [st.entries EXCEPT ![l].deleted = TRUE] = x
    BY <1>0, <1>1, BuriedType
  <2> QED BY <1>2, <2>1 DEF Bury
<1> HIDE DEF b
<1>e. DOMAIN b = HandleFields BY <1>t DEF Handle, HandleFields
<1>u. s \in Handle BY <1>t DEF Handle
<1>5. /\ s.entries = b.entries /\ s.nextId = b.nextId /\ s.live = b.live
      /\ s.end = e /\ s.garbage = h /\ s.snap = b.snap /\ s.gen = b.gen
      /\ s.fd = b.fd
  BY <1>e DEF HandleFields
<1>6. s = [Bury(st, l) EXCEPT !.garbage = @ + Bytes["Del"], !.end = @ + 1]
  BY <1>2, <1>3, <1>4
<1> HIDE DEF s
<1> QED BY <1>1, <1>2, <1>3, <1>u, <1>5, <1>6 DEF Buries

LEMMA SetRewrites ==
    ASSUME NEW st, HandleOK(st), NEW l \in 1..Len(st.entries), NEW m \in Metas
    PROVE  Rewrites(st, l, m, FALSE, WithSet(st, l, m))
<1>0. st \in Handle /\ st.entries[l] \in Entries BY HandleTypes DEF HandleOK
<1>1. PICK x : x = [st.entries EXCEPT ![l] = Written(@, m, FALSE)] /\ x \in Seq(Entries)
  <2>1. Written(st.entries[l], m, FALSE) \in Entries BY <1>0, WrittenType
  <2>2. [st.entries EXCEPT ![l] = Written(@, m, FALSE)] \in Seq(Entries)
    BY <2>1, HandleTypes, ExceptSeq
  <2> QED BY <2>2
<1>2. PICK g \in Nat, e \in Nat :
        /\ e = st.end + 1
        /\ g = st.garbage + st.entries[l].metaBytes
  <2>1. st.entries[l].metaBytes \in Nat BY <1>0, EntryTypes
  <2>2. st.garbage \in Nat /\ st.end \in Nat BY HandleTypes
  <2>3. st.garbage + st.entries[l].metaBytes \in Nat /\ st.end + 1 \in Nat
    BY <2>1, <2>2
  <2> QED BY <2>3
<1> DEFINE s == [st EXCEPT !.garbage = g, !.end = e, !.entries = x]
<1>d. DOMAIN st = HandleFields BY <1>0 DEF Handle, HandleFields
<1>t. s \in Handle BY <1>0, <1>1 DEF Handle
<1>3. /\ s.entries = x /\ s.nextId = st.nextId /\ s.live = st.live
      /\ s.end = e /\ s.garbage = g /\ s.snap = st.snap /\ s.gen = st.gen
      /\ s.fd = st.fd
  BY <1>d DEF HandleFields
<1>4. WithSet(st, l, m) = s
  <2>1. x = [st.entries EXCEPT ![l] = [@ EXCEPT !.metaBytes = Bytes["Set"], !.meta = m,
                                                !.dirty = FALSE]]
    BY <1>0, <1>1, WrittenType
  <2> QED BY <1>2, <2>1 DEF WithSet
<1> HIDE DEF s
<1> QED BY <1>1, <1>2, <1>t, <1>3, <1>4 DEF Rewrites
\* A new snapshot.
Snaps(st, st2) ==
    /\ st2 \in Handle
    /\ st2.garbage = st.garbage + (IF st.snap = 0 THEN 0 ELSE Bytes["Snap"])
    /\ st2.snap = st.end + 1 /\ st2.end = st.end + 1
    /\ st2.nextId = st.nextId /\ st2.live = st.live
    /\ st2.gen = st.gen /\ st2.fd = st.fd

----------------------------------------------------------------------------
\* The records of a log this program wrote: every one fits what replay has made
\* of those before it.

Fits(st, r) ==
    /\ r \in Records
    /\ r.type = "Put" => r.id >= st.nextId
    /\ r.type \in {"Set", "Del"} =>
          \E l \in 1..Len(st.entries) : st.entries[l].id = r.id /\ ~st.entries[l].deleted
    /\ r.type = "Snap" => r.graph = Ids(st.entries)

LEMMA RecordTypesOf ==
    ASSUME NEW r \in Records
    PROVE  /\ r.type \in {"Put", "Set", "Del", "Snap"}
           /\ r.type \in {"Put", "Set"} => r.id \in 1..MaxId /\ r.meta \in Metas
           /\ r.type = "Del" => r.id \in 1..MaxId
           /\ r.type = "Snap" => r.graph \in Seq(1..MaxId)
           /\ r # Torn
<1>1. CASE r \in [type : {"Put"}, id : 1..MaxId, meta : Metas] BY <1>1 DEF Torn
<1>2. CASE r \in [type : {"Set"}, id : 1..MaxId, meta : Metas] BY <1>2 DEF Torn
<1>3. CASE r \in [type : {"Del"}, id : 1..MaxId] BY <1>3 DEF Torn
<1>4. CASE r \in [type : {"Snap"}, graph : Seq(1..MaxId)] BY <1>4 DEF Torn
<1> QED BY <1>1, <1>2, <1>3, <1>4 DEF Records

LEMMA ReplaysPut ==
    ASSUME NEW st, HandleOK(st), NEW r, Fits(st, r), r.type = "Put"
    PROVE  Grows(st, r.id, r.meta, ReplayRecord(st, r))
<1>0. /\ st \in Handle /\ DOMAIN st = HandleFields
      /\ r.id \in 1..MaxId /\ r.meta \in Metas /\ r.id >= st.nextId
  BY RecordTypesOf DEF HandleOK, Handle, HandleFields, Fits
<1>1. Label(st.entries, r.id) = 0 BY <1>0, LabelOfNew, ByteFacts
<1>2. PICK x : x = Append(st.entries, NewEntry(r.id, r.meta)) /\ x \in Seq(Entries)
  <2>1. NewEntry(r.id, r.meta) \in Entries BY <1>0, NewEntryType
  <2>2. Append(st.entries, NewEntry(r.id, r.meta)) \in Seq(Entries)
    BY <2>1, HandleTypes, AppendProperties
  <2> QED BY <2>2
<1>3. PICK n \in 1..MaxId + 1 : n = r.id + 1 BY <1>0, ByteFacts
<1>4. PICK v \in Nat, e \in Nat : v = st.live + 1 /\ e = st.end + 1 BY HandleTypes
<1> DEFINE p == [st EXCEPT !.entries = x, !.live = v, !.nextId = n]
           s == [p EXCEPT !.end = e]
<1>5. ReplayPut(st, r) = p
  BY <1>0, <1>1, <1>2, <1>3, <1>4 DEF ReplayPut
<1>6. p \in Handle BY <1>0, <1>2 DEF Handle
<1>7. /\ p.entries = x /\ p.nextId = n /\ p.live = v /\ p.end = st.end
      /\ p.garbage = st.garbage /\ p.snap = st.snap /\ p.gen = st.gen /\ p.fd = st.fd
  BY <1>0 DEF HandleFields
<1> HIDE DEF p
<1>8. s = ReplayRecord(st, r) BY <1>4, <1>5, <1>7 DEF ReplayRecord
<1>9. s \in Handle /\ DOMAIN p = HandleFields BY <1>6 DEF Handle, HandleFields
<1>10. /\ s.entries = p.entries /\ s.nextId = p.nextId /\ s.live = p.live /\ s.end = e
       /\ s.garbage = p.garbage /\ s.snap = p.snap /\ s.gen = p.gen /\ s.fd = p.fd
  BY <1>9 DEF HandleFields
<1> HIDE DEF s
<1> QED BY <1>2, <1>3, <1>4, <1>7, <1>8, <1>9, <1>10 DEF Grows

LEMMA ReplaysSet ==
    ASSUME NEW st, HandleOK(st), NEW r, Fits(st, r), r.type = "Set",
           NEW l \in 1..Len(st.entries), st.entries[l].id = r.id
    PROVE  Rewrites(st, l, r.meta, st.entries[l].dirty, ReplayRecord(st, r))
<1>0. /\ st \in Handle /\ DOMAIN st = HandleFields /\ st.entries[l] \in Entries
      /\ r.meta \in Metas
  BY RecordTypesOf, HandleTypes DEF HandleOK, Handle, HandleFields, Fits
<1>1. Label(st.entries, r.id) = l /\ l # 0 BY LabelOf
<1>2. PICK x : /\ x = [st.entries EXCEPT ![l] = Written(@, r.meta, st.entries[l].dirty)]
               /\ x \in Seq(Entries)
  <2>1. Written(st.entries[l], r.meta, st.entries[l].dirty) \in Entries
    BY <1>0, WrittenType, EntryTypes
  <2>2. [st.entries EXCEPT ![l] = Written(@, r.meta, st.entries[l].dirty)] \in Seq(Entries)
    BY <2>1, HandleTypes, ExceptSeq
  <2> QED BY <2>2
<1>3. PICK g \in Nat, e \in Nat :
        /\ e = st.end + 1
        /\ g = st.garbage + st.entries[l].metaBytes
  <2>1. st.entries[l].metaBytes \in Nat BY <1>0, EntryTypes
  <2>2. st.garbage \in Nat /\ st.end \in Nat BY HandleTypes
  <2>3. st.garbage + st.entries[l].metaBytes \in Nat /\ st.end + 1 \in Nat
    BY <2>1, <2>2
  <2> QED BY <2>3
<1> DEFINE p == [st EXCEPT !.garbage = g, !.entries = x]
           s == [p EXCEPT !.end = e]
<1>5. ReplaySet(st, r) = p
  <2>1. x = [st.entries EXCEPT ![l] = [@ EXCEPT !.metaBytes = Bytes["Set"], !.meta = r.meta]]
    BY <1>0, <1>2, WrittenType
  <2> QED BY <1>1, <1>3, <2>1 DEF ReplaySet
<1>6. p \in Handle BY <1>0, <1>2 DEF Handle
<1>7. /\ p.entries = x /\ p.nextId = st.nextId /\ p.live = st.live /\ p.end = st.end
      /\ p.garbage = g /\ p.snap = st.snap /\ p.gen = st.gen /\ p.fd = st.fd
  BY <1>0 DEF HandleFields
<1> HIDE DEF p
<1>8. s = ReplayRecord(st, r) BY <1>3, <1>5, <1>7 DEF ReplayRecord
<1>9. s \in Handle /\ DOMAIN p = HandleFields BY <1>6 DEF Handle, HandleFields
<1>10. /\ s.entries = p.entries /\ s.nextId = p.nextId /\ s.live = p.live /\ s.end = e
       /\ s.garbage = p.garbage /\ s.snap = p.snap /\ s.gen = p.gen /\ s.fd = p.fd
  BY <1>9 DEF HandleFields
<1> HIDE DEF s
<1> QED BY <1>2, <1>3, <1>7, <1>8, <1>9, <1>10 DEF Rewrites

LEMMA ReplaysDel ==
    ASSUME NEW st, HandleOK(st), NEW r, Fits(st, r), r.type = "Del",
           NEW l \in 1..Len(st.entries), st.entries[l].id = r.id, ~st.entries[l].deleted
    PROVE  Buries(st, l, ReplayRecord(st, r))
<1>1. Label(st.entries, r.id) = l /\ l # 0 BY LabelOf
<1> DEFINE b == Bury(st, l)
           d == [b EXCEPT !.garbage = @ + Bytes["Del"]]
<1>2. ReplayDel(st, r) = d BY <1>1 DEF ReplayDel
<1>3. d.end = st.end
  <2>1. DOMAIN st = HandleFields BY DEF HandleOK, Handle, HandleFields
  <2>2. DOMAIN b = HandleFields /\ b.end = st.end BY <2>1 DEF Bury, HandleFields
  <2> HIDE DEF b
  <2> QED BY <2>2 DEF HandleFields
<1>4. ReplayRecord(st, r) = [b EXCEPT !.garbage = @ + Bytes["Del"], !.end = @ + 1]
  <2>1. ReplayRecord(st, r) = [d EXCEPT !.end = @ + 1] BY <1>2 DEF ReplayRecord
  <2>2. DOMAIN b = HandleFields /\ b.end = st.end
    <3>1. DOMAIN st = HandleFields BY DEF HandleOK, Handle, HandleFields
    <3> QED BY <3>1 DEF Bury, HandleFields
  <2> HIDE DEF b
  <2> QED BY <2>1, <2>2, <1>3
<1>5. Buries(st, l, [b EXCEPT !.garbage = @ + Bytes["Del"], !.end = @ + 1])
  BY BuryBuries
<1> HIDE DEF b, d
<1> QED BY <1>4, <1>5

LEMMA ReplaysSnap ==
    ASSUME NEW st, HandleOK(st), NEW r, r.type = "Snap"
    PROVE  /\ Snaps(st, ReplayRecord(st, r))
           /\ ReplayRecord(st, r).entries = st.entries
<1>0. st \in Handle /\ DOMAIN st = HandleFields
  BY DEF HandleOK, Handle, HandleFields
<1>1. PICK g \in Nat, e \in Nat :
        /\ e = st.end + 1
        /\ g = st.garbage + (IF st.snap = 0 THEN 0 ELSE Bytes["Snap"])
  <2>1. PICK c \in Nat : c = IF st.snap = 0 THEN 0 ELSE Bytes["Snap"] BY ByteFacts
  <2>2. st.garbage + c \in Nat /\ st.end + 1 \in Nat BY HandleTypes
  <2> QED BY <2>1, <2>2
<1> DEFINE p == [st EXCEPT !.garbage = g, !.snap = e]
           s == [p EXCEPT !.end = e]
<1>2. ReplaySnap(st) = p BY <1>1 DEF ReplaySnap
<1>3. p \in Handle /\ p.end = st.end BY <1>0 DEF Handle, HandleFields
<1>4. /\ p.entries = st.entries /\ p.nextId = st.nextId /\ p.live = st.live
      /\ p.garbage = g /\ p.snap = e /\ p.gen = st.gen /\ p.fd = st.fd
  BY <1>0 DEF HandleFields
<1> HIDE DEF p
<1>5. s = ReplayRecord(st, r) BY <1>1, <1>2, <1>3 DEF ReplayRecord
<1>6. s \in Handle /\ DOMAIN p = HandleFields BY <1>3 DEF Handle, HandleFields
<1>7. /\ s.entries = p.entries /\ s.nextId = p.nextId /\ s.live = p.live /\ s.end = e
      /\ s.garbage = p.garbage /\ s.snap = p.snap /\ s.gen = p.gen /\ s.fd = p.fd
  BY <1>6 DEF HandleFields
<1> HIDE DEF s
<1> QED BY <1>1, <1>4, <1>5, <1>6, <1>7 DEF Snaps

----------------------------------------------------------------------------
\* Each of them leaves a well-formed handle.

SameDocs(entries, other) ==
    /\ Len(other) = Len(entries)
    /\ \A l \in 1..Len(entries) :
          other[l].id = entries[l].id /\ other[l].deleted = entries[l].deleted

LEMMA SameDocsOK ==
    ASSUME NEW st, HandleOK(st), NEW st2 \in Handle, SameDocs(st.entries, st2.entries),
           st2.nextId = st.nextId, st2.live = st.live
    PROVE  HandleOK(st2)
<1>1. Alive(st2.entries) = Alive(st.entries) BY DEF SameDocs, Alive
<1>2. \A l \in 1..Len(st2.entries) : st2.entries[l].id < st2.nextId
  BY DEF SameDocs, HandleOK
<1>3. \A k, l \in 1..Len(st2.entries) : k < l => st2.entries[k].id < st2.entries[l].id
  BY DEF SameDocs, HandleOK
<1>4. st.live = Cardinality(Alive(st.entries)) BY DEF HandleOK
<1> QED BY <1>1, <1>2, <1>3, <1>4 DEF HandleOK

LEMMA GrowsOK ==
    ASSUME NEW st, HandleOK(st), NEW id \in 1..MaxId, id >= st.nextId, NEW m,
           NEW st2, Grows(st, id, m, st2)
    PROVE  HandleOK(st2)
<1> DEFINE n == Len(st.entries)
           a == st.entries
           b == st2.entries
<1>0. /\ n \in Nat /\ id \in Nat /\ st.nextId \in Nat /\ a \in Seq(Entries)
      /\ \A l \in 1..n : a[l].id \in Nat
  BY HandleTypes, ByteFacts
<1>1. /\ Len(b) = n + 1 /\ b[n + 1] = NewEntry(id, m)
      /\ \A l \in 1..n : b[l] = a[l]
  BY <1>0, AppendProperties DEF Grows
<1>2. b[n + 1].id = id /\ b[n + 1].deleted = FALSE BY <1>1 DEF NewEntry
<1>3. \A l \in 1..n : b[l].id = a[l].id /\ b[l].id < id /\ b[l].deleted = a[l].deleted
  BY <1>0, <1>1 DEF HandleOK
<1>4. st2.nextId = id + 1 /\ st2.live = st.live + 1 /\ st2 \in Handle BY DEF Grows
<1>5. \A l \in 1..Len(b) : b[l].id < st2.nextId
  <2> TAKE l \in 1..Len(b)
  <2>1. l \in 1..n \/ l = n + 1 BY <1>0, <1>1
  <2> QED BY <2>1, <1>0, <1>2, <1>3, <1>4
<1>6. \A k, l \in 1..Len(b) : k < l => b[k].id < b[l].id
  <2> SUFFICES ASSUME NEW k \in 1..Len(b), NEW l \in 1..Len(b), k < l
               PROVE  b[k].id < b[l].id
    OBVIOUS
  <2>1. k \in 1..n /\ (l \in 1..n \/ l = n + 1) BY <1>0, <1>1
  <2> QED BY <2>1, <1>2, <1>3 DEF HandleOK
<1>7. Cardinality(Alive(b)) = Cardinality(Alive(a)) + 1
  <2>1. Alive(b) = Alive(a) \cup {n + 1} BY <1>0, <1>1, <1>2, <1>3 DEF Alive
  <2>2. n + 1 \notin Alive(a) BY <1>0 DEF Alive
  <2>3. IsFiniteSet(1..n) BY <1>0, FS_Interval
  <2>4. Alive(a) \subseteq 1..n BY DEF Alive
  <2>5. IsFiniteSet(Alive(a)) BY <2>3, <2>4, FS_Subset
  <2> QED BY <2>1, <2>2, <2>5, FS_AddElement
<1> QED BY <1>4, <1>5, <1>6, <1>7 DEF HandleOK

LEMMA RewritesOK ==
    ASSUME NEW st, HandleOK(st), NEW l \in 1..Len(st.entries), NEW m, NEW d,
           NEW st2, Rewrites(st, l, m, d, st2)
    PROVE  HandleOK(st2)
<1>0. st.entries \in Seq(Entries) BY HandleTypes
<1>1. /\ Len(st2.entries) = Len(st.entries)
      /\ \A k \in 1..Len(st.entries) :
            st2.entries[k] = IF k = l THEN Written(st.entries[l], m, d) ELSE st.entries[k]
  BY <1>0 DEF Rewrites
<1>2. SameDocs(st.entries, st2.entries) BY <1>1 DEF SameDocs, Written
<1> QED BY <1>2, SameDocsOK DEF Rewrites

LEMMA BuriesOK ==
    ASSUME NEW st, HandleOK(st), NEW l \in 1..Len(st.entries), ~st.entries[l].deleted,
           NEW st2, Buries(st, l, st2)
    PROVE  HandleOK(st2)
<1> DEFINE n == Len(st.entries)
           a == st.entries
           b == st2.entries
<1>0. n \in Nat /\ a \in Seq(Entries) BY HandleTypes
<1>1. /\ Len(b) = n /\ b[l] = Buried(a[l])
      /\ \A k \in 1..n : k # l => b[k] = a[k]
  BY <1>0 DEF Buries
<1>2. b[l].deleted = TRUE /\ b[l].id = a[l].id BY <1>1 DEF Buried
<1>3. \A k \in 1..n : b[k].id = a[k].id BY <1>1, <1>2
<1>4. st2.nextId = st.nextId /\ st2.live = st.live - 1 /\ st2 \in Handle BY DEF Buries
<1>5. \A k \in 1..Len(b) : b[k].id < st2.nextId BY <1>1, <1>3, <1>4 DEF HandleOK
<1>6. \A k, j \in 1..Len(b) : k < j => b[k].id < b[j].id BY <1>1, <1>3 DEF HandleOK
<1>7. Cardinality(Alive(b)) = Cardinality(Alive(a)) - 1
  <2>1. Alive(b) = Alive(a) \ {l} BY <1>1, <1>2 DEF Alive
  <2>2. l \in Alive(a) /\ Alive(a) \subseteq 1..n BY DEF Alive
  <2>3. IsFiniteSet(1..n) BY <1>0, FS_Interval
  <2>5. IsFiniteSet(Alive(a)) BY <2>2, <2>3, FS_Subset
  <2> QED BY <2>1, <2>2, <2>5, FS_RemoveElement
<1>8. st.live = Cardinality(Alive(a)) BY DEF HandleOK
<1> QED BY <1>4, <1>5, <1>6, <1>7, <1>8 DEF HandleOK

\* Replaying a record that fits leaves a well-formed handle, one record further.
LEMMA ReplayRecordOK ==
    ASSUME NEW st, HandleOK(st), NEW r, Fits(st, r)
    PROVE  LET st2 == ReplayRecord(st, r) IN
           /\ HandleOK(st2) /\ st2.end = st.end + 1
           /\ st2.gen = st.gen /\ st2.fd = st.fd
<1> DEFINE st2 == ReplayRecord(st, r)
<1>0. r \in Records BY DEF Fits
<1>1. CASE r.type = "Put"
  <2>1. r.id \in 1..MaxId /\ r.id >= st.nextId BY <1>0, <1>1, RecordTypesOf DEF Fits
  <2>2. Grows(st, r.id, r.meta, st2) BY <1>1, ReplaysPut
  <2> HIDE DEF st2
  <2>3. HandleOK(st2) BY <2>1, <2>2, GrowsOK
  <2> QED BY <2>2, <2>3 DEF Grows, st2
<1>2. CASE r.type = "Set"
  <2>1. PICK l \in 1..Len(st.entries) : st.entries[l].id = r.id BY <1>2 DEF Fits
  <2>2. Rewrites(st, l, r.meta, st.entries[l].dirty, st2) BY <1>2, <2>1, ReplaysSet
  <2> HIDE DEF st2
  <2>3. HandleOK(st2) BY <2>2, RewritesOK
  <2> QED BY <2>2, <2>3 DEF Rewrites, st2
<1>3. CASE r.type = "Del"
  <2>1. PICK l \in 1..Len(st.entries) : st.entries[l].id = r.id /\ ~st.entries[l].deleted
    BY <1>3 DEF Fits
  <2>2. Buries(st, l, st2) BY <1>3, <2>1, ReplaysDel
  <2> HIDE DEF st2
  <2>3. HandleOK(st2) BY <2>1, <2>2, BuriesOK
  <2> QED BY <2>2, <2>3 DEF Buries, st2
<1>4. CASE r.type = "Snap"
  <2>1. Snaps(st, st2) /\ st2.entries = st.entries BY <1>4, ReplaysSnap
  <2> HIDE DEF st2
  <2>2. SameDocs(st.entries, st2.entries) BY <2>1 DEF SameDocs
  <2>3. HandleOK(st2) BY <2>1, <2>2, SameDocsOK DEF Snaps
  <2> QED BY <2>1, <2>3 DEF Snaps, st2
<1> QED BY <1>0, <1>1, <1>2, <1>3, <1>4, RecordTypesOf

Good(log, n) == \A i \in 1..n : Fits(Replayed(log, i - 1), log[i])

\* Replay of a good log: a well-formed handle after every record.
LEMMA GoodHandle ==
    ASSUME NEW log, NEW n \in Nat, Good(log, n), NEW i \in 0..n
    PROVE  LET st == Replayed(log, i) IN
           HandleOK(st) /\ st.end = i /\ st.gen = 0 /\ st.fd = FALSE
<1> DEFINE P(k) == LET st == Replayed(log, k) IN
                   HandleOK(st) /\ st.end = k /\ st.gen = 0 /\ st.fd = FALSE
           T == {k \in 0..n : ~P(k)}
<1> SUFFICES ASSUME T # {} PROVE FALSE
  OBVIOUS
<1>0. T \subseteq Nat OBVIOUS
<1>1. PICK k \in T : \A j \in T : k <= j BY <1>0, Least
<1>2. k # 0
  <2>1. Replayed(log, 0) = EmptyRam BY ReplayedStep
  <2>2. EmptyRam.end = 0 /\ EmptyRam.gen = 0 /\ EmptyRam.fd = FALSE BY DEF EmptyRam
  <2>3. P(0) BY <2>1, <2>2, EmptyHandle
  <2> QED BY <2>3
<1>3. PICK j \in 0..n : j = k - 1 BY <1>2
<1>4. P(j) BY <1>1, <1>3
<1>5. Replayed(log, j + 1) = ReplayRecord(Replayed(log, j), log[j + 1])
  BY <1>3, ReplayedStep
<1>6. j + 1 = k /\ k \in 1..n /\ k - 1 = j BY <1>3
<1>7. Fits(Replayed(log, j), log[k]) BY <1>6 DEF Good
<1>8. P(k) BY <1>4, <1>5, <1>6, <1>7, ReplayRecordOK
<1> QED BY <1>8

----------------------------------------------------------------------------
\* What replay would rebuild and what the handle holds.

SameDoc(theirs, mine) ==
    /\ theirs.id = mine.id
    /\ theirs.deleted = mine.deleted
    /\ theirs.metaBytes = mine.metaBytes
    /\ mine.dirty \/ mine.deleted \/ theirs.meta = mine.meta

Matches(st, mine) ==
    /\ Len(st.entries) = Len(mine.entries)
    /\ \A l \in 1..Len(mine.entries) : SameDoc(st.entries[l], mine.entries[l])
    /\ st.live = mine.live /\ st.garbage = mine.garbage
    /\ st.snap = mine.snap /\ st.end = mine.end
    /\ st.nextId <= mine.nextId

LEMMA MatchSelf == ASSUME NEW st, HandleOK(st) PROVE Matches(st, st)
BY HandleTypes DEF Matches, SameDoc

\* gen and fd are none of replay's business.
LEMMA MatchFields ==
    ASSUME NEW st, NEW mine, Matches(st, mine), NEW other,
           other.entries = mine.entries, other.nextId = mine.nextId,
           other.live = mine.live, other.garbage = mine.garbage,
           other.snap = mine.snap, other.end = mine.end
    PROVE  Matches(st, other)
BY DEF Matches

LEMMA MatchGrow ==
    ASSUME NEW st, HandleOK(st), NEW mine, HandleOK(mine), Matches(st, mine),
           NEW id \in 1..MaxId, NEW m, NEW st2, NEW mine2,
           Grows(st, id, m, st2), Grows(mine, id, m, mine2)
    PROVE  Matches(st2, mine2)
<1> DEFINE n == Len(mine.entries)
<1>0. /\ st.entries \in Seq(Entries) /\ mine.entries \in Seq(Entries) /\ n \in Nat
      /\ Len(st.entries) = n /\ id \in Nat
  BY HandleTypes, ByteFacts DEF Matches
<1>1. /\ Len(st2.entries) = n + 1 /\ st2.entries[n + 1] = NewEntry(id, m)
      /\ \A l \in 1..n : st2.entries[l] = st.entries[l]
  BY <1>0, AppendProperties DEF Grows
<1>2. /\ Len(mine2.entries) = n + 1 /\ mine2.entries[n + 1] = NewEntry(id, m)
      /\ \A l \in 1..n : mine2.entries[l] = mine.entries[l]
  BY <1>0, AppendProperties DEF Grows
<1>3. \A l \in 1..Len(mine2.entries) : SameDoc(st2.entries[l], mine2.entries[l])
  <2> TAKE l \in 1..Len(mine2.entries)
  <2>1. CASE l = n + 1 BY <2>1, <1>1, <1>2 DEF SameDoc
  <2>2. CASE l \in 1..n BY <2>2, <1>1, <1>2 DEF Matches
  <2> QED BY <1>0, <1>2, <2>1, <2>2
<1>4. st2.nextId <= mine2.nextId BY <1>0 DEF Grows
<1> QED BY <1>1, <1>2, <1>3, <1>4 DEF Matches, Grows

LEMMA MatchRewrite ==
    ASSUME NEW st, HandleOK(st), NEW mine, HandleOK(mine), Matches(st, mine),
           NEW k \in 1..Len(mine.entries), NEW m, NEW d, NEW c, NEW st2, NEW mine2,
           Rewrites(st, k, m, d, st2), Rewrites(mine, k, m, c, mine2)
    PROVE  Matches(st2, mine2)
<1> DEFINE n == Len(mine.entries)
<1>0. /\ st.entries \in Seq(Entries) /\ mine.entries \in Seq(Entries)
      /\ Len(st.entries) = n
  BY HandleTypes DEF Matches
<1>1. /\ Len(st2.entries) = n /\ st2.entries[k] = Written(st.entries[k], m, d)
      /\ \A l \in 1..n : l # k => st2.entries[l] = st.entries[l]
  BY <1>0 DEF Rewrites
<1>2. /\ Len(mine2.entries) = n /\ mine2.entries[k] = Written(mine.entries[k], m, c)
      /\ \A l \in 1..n : l # k => mine2.entries[l] = mine.entries[l]
  BY <1>0 DEF Rewrites
<1>3. SameDoc(st.entries[k], mine.entries[k]) BY DEF Matches
<1>4. \A l \in 1..Len(mine2.entries) : SameDoc(st2.entries[l], mine2.entries[l])
  <2> TAKE l \in 1..Len(mine2.entries)
  <2>1. CASE l = k BY <2>1, <1>1, <1>2, <1>3 DEF SameDoc, Written
  <2>2. CASE l # k BY <2>2, <1>1, <1>2 DEF Matches
  <2> QED BY <2>1, <2>2
<1> QED BY <1>1, <1>2, <1>3, <1>4 DEF Matches, Rewrites, SameDoc

LEMMA MatchBury ==
    ASSUME NEW st, HandleOK(st), NEW mine, HandleOK(mine), Matches(st, mine),
           NEW k \in 1..Len(mine.entries), NEW st2, NEW mine2,
           Buries(st, k, st2), Buries(mine, k, mine2)
    PROVE  Matches(st2, mine2)
<1> DEFINE n == Len(mine.entries)
<1>0. /\ st.entries \in Seq(Entries) /\ mine.entries \in Seq(Entries)
      /\ Len(st.entries) = n
  BY HandleTypes DEF Matches
<1>1. /\ Len(st2.entries) = n /\ st2.entries[k] = Buried(st.entries[k])
      /\ \A l \in 1..n : l # k => st2.entries[l] = st.entries[l]
  BY <1>0 DEF Buries
<1>2. /\ Len(mine2.entries) = n /\ mine2.entries[k] = Buried(mine.entries[k])
      /\ \A l \in 1..n : l # k => mine2.entries[l] = mine.entries[l]
  BY <1>0 DEF Buries
<1>3. SameDoc(st.entries[k], mine.entries[k]) BY DEF Matches
<1>4. \A l \in 1..Len(mine2.entries) : SameDoc(st2.entries[l], mine2.entries[l])
  <2> TAKE l \in 1..Len(mine2.entries)
  <2>1. CASE l = k BY <2>1, <1>1, <1>2, <1>3 DEF SameDoc, Buried
  <2>2. CASE l # k BY <2>2, <1>1, <1>2 DEF Matches
  <2> QED BY <2>1, <2>2
<1> QED BY <1>1, <1>2, <1>3, <1>4 DEF Matches, Buries, SameDoc

\* A snapshot leaves nothing dirty; what was dirty before it is flushed or deleted.
LEMMA MatchSnap ==
    ASSUME NEW st, HandleOK(st), NEW mine, HandleOK(mine), Matches(st, mine),
           \A l \in 1..Len(mine.entries) :
              mine.entries[l].deleted \/ ~mine.entries[l].dirty,
           NEW st2, Snaps(st, st2), st2.entries = st.entries,
           NEW mine2, Snaps(mine, mine2), Len(mine2.entries) = Len(mine.entries),
           \A l \in 1..Len(mine.entries) :
              /\ mine2.entries[l].id = mine.entries[l].id
              /\ mine2.entries[l].meta = mine.entries[l].meta
              /\ mine2.entries[l].deleted = mine.entries[l].deleted
              /\ mine2.entries[l].metaBytes = mine.entries[l].metaBytes
    PROVE  Matches(st2, mine2)
<1>1. \A l \in 1..Len(mine2.entries) : SameDoc(st2.entries[l], mine2.entries[l])
  BY DEF Matches, SameDoc
<1> QED BY <1>1 DEF Matches, Snaps

\* A deferred update marks what it changes.
LEMMA MatchDirty ==
    ASSUME NEW st, NEW mine, Matches(st, mine), NEW mine2,
           Len(mine2.entries) = Len(mine.entries),
           \A l \in 1..Len(mine.entries) :
              /\ mine2.entries[l].id = mine.entries[l].id
              /\ mine2.entries[l].deleted = mine.entries[l].deleted
              /\ mine2.entries[l].metaBytes = mine.entries[l].metaBytes
              /\ \/ mine2.entries[l].dirty
                 \/ /\ mine2.entries[l].meta = mine.entries[l].meta
                    /\ mine2.entries[l].dirty = mine.entries[l].dirty,
           mine2.nextId = mine.nextId, mine2.live = mine.live,
           mine2.garbage = mine.garbage, mine2.snap = mine.snap, mine2.end = mine.end
    PROVE  Matches(st, mine2)
<1>1. \A l \in 1..Len(mine2.entries) : SameDoc(st.entries[l], mine2.entries[l])
  <2> TAKE l \in 1..Len(mine2.entries)
  <2>1. SameDoc(st.entries[l], mine.entries[l]) BY DEF Matches
  <2>2. /\ mine2.entries[l].id = mine.entries[l].id
        /\ mine2.entries[l].deleted = mine.entries[l].deleted
        /\ mine2.entries[l].metaBytes = mine.entries[l].metaBytes
        /\ \/ mine2.entries[l].dirty
           \/ /\ mine2.entries[l].meta = mine.entries[l].meta
              /\ mine2.entries[l].dirty = mine.entries[l].dirty
    OBVIOUS
  <2> QED BY <2>1, <2>2 DEF SameDoc
<1> QED BY <1>1 DEF Matches

----------------------------------------------------------------------------
\* Where a log ends.

LEMMA ValidEndIs ==
    ASSUME NEW S, NEW log \in Seq(S)
    PROVE  /\ ValidEnd(log) \in 0..Len(log)
           /\ \A i \in 1..ValidEnd(log) : log[i] # Torn
           /\ ValidEnd(log) < Len(log) => log[ValidEnd(log) + 1] = Torn
<1> DEFINE I == {i \in 1..Len(log) : log[i] = Torn}
           torn == SelectInSeq(log, LAMBDA r : r = Torn)
<1>0. Len(log) \in Nat OBVIOUS
<1>1. torn = IF I # {} THEN Min(I) ELSE 0 BY DEF SelectInSeq
<1>2. ValidEnd(log) = IF torn = 0 THEN Len(log) ELSE torn - 1 BY DEF ValidEnd
<1>3. CASE I = {}
  <2>1. ValidEnd(log) = Len(log) BY <1>1, <1>2, <1>3
  <2>2. \A i \in 1..Len(log) : log[i] # Torn BY <1>3
  <2>3. Len(log) \in 0..Len(log) /\ ~(Len(log) < Len(log)) BY <1>0
  <2> QED BY <2>1, <2>2, <2>3
<1>4. CASE I # {}
  <2>1. I \subseteq Nat BY <1>0
  <2>2. \E x \in I : \A y \in I : x <= y BY <1>4, <2>1, Least
  <2>3. Min(I) \in I /\ \A y \in I : Min(I) <= y BY <2>2 DEF Min
  <2>4. PICK t \in 1..Len(log) : t = torn /\ log[t] = Torn /\ \A y \in I : t <= y
    BY <1>1, <1>4, <2>3
  <2>5. ValidEnd(log) = t - 1 BY <1>2, <2>4
  <2>6. \A i \in 1..t - 1 : log[i] # Torn
    <3> SUFFICES ASSUME NEW i \in 1..t - 1, log[i] = Torn PROVE FALSE
      OBVIOUS
    <3>1. i \in 1..Len(log) /\ ~(t <= i) BY <1>0
    <3>2. i \in I BY <3>1
    <3> QED BY <2>4, <3>1, <3>2
  <2>7. t - 1 \in 0..Len(log) /\ t - 1 + 1 = t BY <1>0
  <2>8. log[t] = Torn BY <2>4
  <2> QED BY <2>5, <2>6, <2>7, <2>8
<1> QED BY <1>3, <1>4

LEMMA ValidEndAt ==
    ASSUME NEW S, NEW log \in Seq(S), NEW n \in 0..Len(log),
           \A i \in 1..n : log[i] # Torn, n < Len(log) => log[n + 1] = Torn
    PROVE  ValidEnd(log) = n
<1>1. PICK v \in 0..Len(log) :
        /\ v = ValidEnd(log) /\ \A i \in 1..v : log[i] # Torn
        /\ v < Len(log) => log[v + 1] = Torn
  BY ValidEndIs
<1>0. Len(log) \in Nat /\ n \in Nat /\ v \in Nat OBVIOUS
<1>2. ~(v < n)
  <2>1. v < n => v + 1 \in 1..n /\ v < Len(log) BY <1>0
  <2> QED BY <1>1, <2>1
<1>3. ~(n < v)
  <2>1. n < v => n + 1 \in 1..v /\ n < Len(log) BY <1>0, <1>1
  <2> QED BY <1>1, <2>1
<1> QED BY <1>0, <1>1, <1>2, <1>3

\* Whether a log is good up to n is a matter of its first n records.
LEMMA GoodSame ==
    ASSUME NEW log, NEW other, NEW n \in Nat, Good(log, n),
           \A i \in 1..n : log[i] = other[i]
    PROVE  Good(other, n) /\ Replayed(other, n) = Replayed(log, n)
<1>1. \A i \in 0..n : Replayed(other, i) = Replayed(log, i)
  <2> TAKE i \in 0..n
  <2>1. \A j \in 1..i : log[j] = other[j] OBVIOUS
  <2> QED BY <2>1, ReplayedSame
<1>2. \A i \in 1..n : i - 1 \in 0..n OBVIOUS
<1> QED BY <1>1, <1>2 DEF Good

\* One record more.
LEMMA GoodMore ==
    ASSUME NEW log, NEW n \in Nat, Good(log, n), Fits(Replayed(log, n), log[n + 1])
    PROVE  /\ Good(log, n + 1)
           /\ Replayed(log, n + 1) = ReplayRecord(Replayed(log, n), log[n + 1])
<1>1. \A i \in 1..n + 1 : i \in 1..n \/ (i = n + 1 /\ i - 1 = n) OBVIOUS
<1>2. Good(log, n + 1) BY <1>1 DEF Good
<1> QED BY <1>2, ReplayedStep

LEMMA GoodLess ==
    ASSUME NEW log, NEW n \in Nat, Good(log, n), NEW k \in 0..n
    PROVE  Good(log, k)
BY DEF Good

----------------------------------------------------------------------------
\* What a write behind the last record leaves of the log.

Cells == Records \cup {Torn}

LEMMA OverwrittenIs ==
    ASSUME file.log \in Seq(Cells), ram.end \in 0..Len(file.log), NEW cell \in Cells,
           NEW log \in Overwritten(cell)
    PROVE  /\ log \in Seq(Cells)
           /\ \A i \in 1..ram.end : log[i] = file.log[i]
           /\ ram.end + 1 \in 1..Len(log) /\ log[ram.end + 1] = cell
           /\ ram.end + 1 < Len(log) => log[ram.end + 2] = Torn
<1>0. Len(file.log) \in Nat /\ Torn \in Cells BY DEF Cells
<1> DEFINE kept == SubSeq(file.log, 1, ram.end)
<1>1. /\ kept \in Seq(Cells) /\ Len(kept) = ram.end /\ ram.end \in Nat
      /\ \A i \in 1..ram.end : kept[i] = file.log[i]
  BY <1>0, SubSeqProperties
<1>2. log = Append(kept, cell) \/ log = kept \o <<cell, Torn>> BY DEF Overwritten
<1> HIDE DEF kept
<1>3. CASE log = Append(kept, cell)
  <2>1. /\ log \in Seq(Cells) /\ Len(log) = Len(kept) + 1
        /\ \A i \in 1..Len(kept) : log[i] = kept[i]
        /\ log[Len(kept) + 1] = cell
    BY <1>1, <1>3, AppendProperties
  <2> QED BY <1>1, <2>1
<1>4. CASE log = kept \o <<cell, Torn>>
  <2> DEFINE two == <<cell, Torn>>
  <2>1. two \in Seq(Cells) /\ Len(two) = 2 /\ two[1] = cell /\ two[2] = Torn BY <1>0
  <2> HIDE DEF two
  <2>2. log = kept \o two BY <1>4 DEF two
  <2>3. log \in Seq(Cells) BY <1>1, <2>1, <2>2
  <2>8. kept \in Seq(Cells) /\ two \in Seq(Cells) BY <1>1, <2>1
  <2> HIDE DEF Cells
  <2>9. Len(log) = Len(kept) + Len(two) BY <2>2, <2>8
  <2>4. Len(log) = ram.end + 2 BY <1>1, <2>1, <2>9
  <2>5. \A i \in 1..ram.end : log[i] = kept[i] BY <1>1, <2>1, <2>2
  <2>6. log[ram.end + 1] = two[1] /\ log[ram.end + 2] = two[2]
    <3>1. PICK n \in Nat : n = Len(kept) BY <1>1
    <3>2. n + 1 \in 1..n + Len(two) /\ n + 2 \in 1..n + Len(two) BY <2>1
    <3>3. \A i \in n + 1..n + Len(two) : log[i] = two[i - n]
      BY <2>2, <2>8, <3>1
    <3>4. n + 1 - n = 1 /\ n + 2 - n = 2 OBVIOUS
    <3>5. n + 1 \in n + 1..n + Len(two) /\ n + 2 \in n + 1..n + Len(two) BY <2>1
    <3>6. log[n + 1] = two[1] BY <3>3, <3>4, <3>5
    <3>7. log[n + 2] = two[2] BY <3>3, <3>4, <3>5
    <3> QED BY <1>1, <3>1, <3>6, <3>7
  <2>7. ram.end + 1 \in 1..Len(log) BY <1>1, <2>4
  <2> QED BY <1>1, <2>1, <2>3, <2>5, <2>6, <2>7
<1> QED BY <1>2, <1>3, <1>4

\* The write succeeds: the log is good one record further.
LEMMA Appended ==
    ASSUME file.log \in Seq(Cells), ram.end = ValidEnd(file.log),
           Good(file.log, ram.end), NEW r, Fits(Replayed(file.log, ram.end), r),
           NEW log \in Overwritten(r)
    PROVE  /\ log \in Seq(Cells) /\ ValidEnd(log) = ram.end + 1
           /\ Good(log, ram.end + 1)
           /\ Replayed(log, ram.end + 1) = ReplayRecord(Replayed(file.log, ram.end), r)
           /\ \A i \in 1..ram.end : log[i] = file.log[i]
<1>1. /\ ram.end \in 0..Len(file.log) /\ ram.end \in Nat
      /\ \A i \in 1..ram.end : file.log[i] # Torn
  BY ValidEndIs
<1>2. r \in Records /\ r \in Cells /\ r # Torn BY RecordTypesOf DEF Fits, Cells
<1>3. /\ log \in Seq(Cells)
      /\ \A i \in 1..ram.end : log[i] = file.log[i]
      /\ ram.end + 1 \in 1..Len(log) /\ log[ram.end + 1] = r
      /\ ram.end + 1 < Len(log) => log[ram.end + 2] = Torn
  BY <1>1, <1>2, OverwrittenIs
<1>4. ValidEnd(log) = ram.end + 1
  <2>1. PICK n \in 0..Len(log) : n = ram.end + 1 BY <1>3
  <2>2. \A i \in 1..n : log[i] # Torn
    <3> TAKE i \in 1..n
    <3>1. i \in 1..ram.end \/ i = ram.end + 1 BY <1>1, <2>1
    <3> QED BY <1>1, <1>2, <1>3, <3>1
  <2>3. n < Len(log) => log[n + 1] = Torn
    <3>1. n + 1 = ram.end + 2 BY <1>1, <2>1
    <3> QED BY <1>3, <2>1, <3>1
  <2>4. ValidEnd(log) = n BY <1>3, <2>2, <2>3, ValidEndAt
  <2> QED BY <2>1, <2>4
<1>5. Good(log, ram.end) /\ Replayed(log, ram.end) = Replayed(file.log, ram.end)
  <2>1. \A i \in 1..ram.end : file.log[i] = log[i] BY <1>3
  <2> QED BY <1>1, <2>1, GoodSame
<1>6. Fits(Replayed(log, ram.end), log[ram.end + 1]) BY <1>3, <1>5
<1> QED BY <1>1, <1>3, <1>4, <1>5, <1>6, GoodMore

\* The write fails: what had been read back is read back still.
LEMMA NotAppended ==
    ASSUME file.log \in Seq(Cells), ram.end = ValidEnd(file.log),
           Good(file.log, ram.end), NEW log \in Overwritten(Torn) \cup {file.log}
    PROVE  /\ log \in Seq(Cells) /\ ValidEnd(log) = ram.end
           /\ Good(log, ram.end)
           /\ Replayed(log, ram.end) = Replayed(file.log, ram.end)
           /\ \A i \in 1..ram.end : log[i] = file.log[i]
<1>1. /\ ram.end \in 0..Len(file.log) /\ ram.end \in Nat
      /\ \A i \in 1..ram.end : file.log[i] # Torn
  BY ValidEndIs
<1>2. CASE log = file.log BY <1>2
<1>3. CASE log \in Overwritten(Torn)
  <2>0. Torn \in Cells BY DEF Cells
  <2>1. /\ log \in Seq(Cells)
        /\ \A i \in 1..ram.end : log[i] = file.log[i]
        /\ ram.end + 1 \in 1..Len(log) /\ log[ram.end + 1] = Torn
    BY <1>1, <1>3, <2>0, OverwrittenIs
  <2>2. ram.end \in 0..Len(log) BY <1>1, <2>1
  <2>3. ValidEnd(log) = ram.end
    <3>1. \A i \in 1..ram.end : log[i] # Torn BY <1>1, <2>1
    <3> QED BY <2>1, <2>2, <3>1, ValidEndAt
  <2>4. \A i \in 1..ram.end : file.log[i] = log[i] BY <2>1
  <2> QED BY <1>1, <2>1, <2>3, <2>4, GoodSame
<1> QED BY <1>2, <1>3

----------------------------------------------------------------------------
\* The documents compaction keeps.

IsKept(g, entries, n) ==
    /\ g = [i \in 0..n |-> g[i]]
    /\ \A i \in 0..n : g[i] = IF i = 0 THEN <<>>
                              ELSE IF entries[i].deleted THEN g[i - 1]
                              ELSE Append(g[i - 1], entries[i])

LEMMA KeptExists == ASSUME NEW entries PROVE \A n \in Nat : \E g : IsKept(g, entries, n)
<1> DEFINE T == {n \in Nat : ~ \E g : IsKept(g, entries, n)}
<1> SUFFICES ASSUME T # {} PROVE FALSE
  OBVIOUS
<1>1. PICK n \in T : \A m \in T : n <= m BY Least
<1>2. n # 0
  <2>1. IsKept([i \in 0..0 |-> <<>>], entries, 0) BY DEF IsKept
  <2> QED BY <2>1
<1>3. PICK g : IsKept(g, entries, n - 1) BY <1>1, <1>2
<1> DEFINE last == IF entries[n].deleted THEN g[n - 1] ELSE Append(g[n - 1], entries[n])
           h == [i \in 0..n |-> IF i = n THEN last ELSE g[i]]
<1>4. \A i \in 0..n : h[i] = IF i = 0 THEN <<>>
                             ELSE IF entries[i].deleted THEN h[i - 1]
                             ELSE Append(h[i - 1], entries[i])
  <2> TAKE i \in 0..n
  <2>1. CASE i = n BY <1>2, <2>1
  <2>2. CASE i < n
    <3>1. i \in 0..n - 1 /\ h[i] = g[i] BY <2>2
    <3>2. i # 0 => i - 1 \in 0..n - 1 /\ h[i - 1] = g[i - 1] BY <2>2
    <3> QED BY <1>3, <3>1, <3>2 DEF IsKept
  <2> QED BY <2>1, <2>2
<1>5. IsKept(h, entries, n) BY <1>4 DEF IsKept
<1> QED BY <1>5

LEMMA KeptAgree ==
    ASSUME NEW entries, NEW m \in Nat, NEW n \in Nat, m <= n,
           NEW g, NEW h, IsKept(g, entries, m), IsKept(h, entries, n)
    PROVE  g[m] = h[m]
<1> DEFINE T == {i \in 0..m : g[i] # h[i]}
<1> SUFFICES ASSUME T # {} PROVE FALSE
  OBVIOUS
<1>0. T \subseteq Nat OBVIOUS
<1>1. PICK i \in T : \A j \in T : i <= j BY <1>0, Least
<1>i. i \in 0..m /\ i \in 0..n OBVIOUS
<1>2. i # 0 BY <1>i DEF IsKept
<1>3. i - 1 \in 0..m /\ i - 1 \notin T BY <1>1, <1>2, <1>i
<1>4. g[i - 1] = h[i - 1] BY <1>3
<1>5. g[i] = IF entries[i].deleted THEN g[i - 1] ELSE Append(g[i - 1], entries[i])
  BY <1>2, <1>i DEF IsKept
<1>6. h[i] = IF entries[i].deleted THEN h[i - 1] ELSE Append(h[i - 1], entries[i])
  BY <1>2, <1>i DEF IsKept
<1> QED BY <1>4, <1>5, <1>6

LEMMA KeptOfIsKept ==
    ASSUME NEW entries, NEW n \in Nat
    PROVE  \E g : IsKept(g, entries, n) /\ KeptOf(entries, n) = g[n]
<1> DEFINE P(g) == g = [i \in 0..n |->
                          IF i = 0 THEN <<>>
                          ELSE IF entries[i].deleted THEN g[i - 1]
                          ELSE Append(g[i - 1], entries[i])]
           f == CHOOSE g : P(g)
<1>1. PICK g : IsKept(g, entries, n) BY KeptExists
<1>2. P(g) BY <1>1 DEF IsKept
<1>3. P(f) BY <1>2
<1>4. KeptOf(entries, n) = f[n] BY DEF KeptOf
<1> HIDE DEF f
<1>5. IsKept(f, entries, n) BY <1>3 DEF IsKept
<1> QED BY <1>4, <1>5

LEMMA KeptStep ==
    ASSUME NEW entries, NEW n \in Nat
    PROVE  /\ KeptOf(entries, 0) = <<>>
           /\ KeptOf(entries, n + 1) =
                 IF entries[n + 1].deleted THEN KeptOf(entries, n)
                 ELSE Append(KeptOf(entries, n), entries[n + 1])
<1>1. PICK z : IsKept(z, entries, 0) /\ KeptOf(entries, 0) = z[0] BY KeptOfIsKept
<1>2. PICK g : IsKept(g, entries, n) /\ KeptOf(entries, n) = g[n] BY KeptOfIsKept
<1>3. PICK m \in Nat : m = n + 1 OBVIOUS
<1>4. PICK h : IsKept(h, entries, m) /\ KeptOf(entries, m) = h[m] BY KeptOfIsKept
<1>5. g[n] = h[n] BY <1>2, <1>3, <1>4, KeptAgree
<1>6. h[m] = IF entries[m].deleted THEN h[m - 1] ELSE Append(h[m - 1], entries[m])
  <2>1. m \in 0..m /\ m # 0 BY <1>3
  <2> QED BY <1>4, <2>1 DEF IsKept
<1>7. KeptOf(entries, 0) = <<>> BY <1>1 DEF IsKept
<1>8. m - 1 = n BY <1>3
<1> QED BY <1>2, <1>3, <1>4, <1>5, <1>6, <1>7, <1>8
KeptFine(k, st, n) ==
    /\ k \in Seq(Entries)
    /\ \A i \in 1..Len(k) : ~k[i].deleted /\ k[i].id < st.nextId
    /\ \A i, j \in 1..Len(k) : i < j => k[i].id < k[j].id
    /\ \A i \in 1..Len(k), l \in n + 1 .. Len(st.entries) : k[i].id < st.entries[l].id

LEMMA KeptMore ==
    ASSUME NEW st, HandleOK(st), NEW n \in Nat, n + 1 <= Len(st.entries),
           NEW k, KeptFine(k, st, n), ~st.entries[n + 1].deleted
    PROVE  KeptFine(Append(k, st.entries[n + 1]), st, n + 1)
<1> DEFINE e == st.entries[n + 1]
           x == Append(k, e)
<1>0. /\ st.entries \in Seq(Entries) /\ Len(st.entries) \in Nat /\ k \in Seq(Entries)
      /\ Len(k) \in Nat
  BY HandleTypes DEF KeptFine
<1>1. n + 1 \in 1..Len(st.entries) /\ n + 1 \in n + 1 .. Len(st.entries) BY <1>0
<1>2. e \in Entries /\ e.id < st.nextId BY <1>0, <1>1 DEF HandleOK
<1>3. /\ x \in Seq(Entries) /\ Len(x) = Len(k) + 1 /\ x[Len(k) + 1] = e
      /\ \A i \in 1..Len(k) : x[i] = k[i]
  BY <1>0, <1>2, AppendProperties
<1>4. \A i \in 1..Len(k) : k[i].id < e.id BY <1>1 DEF KeptFine
<1>e. ~e.deleted OBVIOUS
<1>6. \A l \in n + 2 .. Len(st.entries) : e.id < st.entries[l].id
  <2> TAKE l \in n + 2 .. Len(st.entries)
  <2>1. l \in 1..Len(st.entries) /\ n + 1 < l BY <1>0
  <2> QED BY <1>1, <2>1 DEF HandleOK
<1>7. \A i \in 1..Len(k), l \in n + 2 .. Len(st.entries) : k[i].id < st.entries[l].id
  <2> TAKE i \in 1..Len(k), l \in n + 2 .. Len(st.entries)
  <2>1. l \in n + 1 .. Len(st.entries) BY <1>0
  <2> QED BY <2>1 DEF KeptFine
<1>8. \A i \in 1..Len(x) : i \in 1..Len(k) \/ i = Len(k) + 1 BY <1>0, <1>3
<1> HIDE DEF e, x
<1>9. \A i \in 1..Len(x) : ~x[i].deleted /\ x[i].id < st.nextId
  BY <1>2, <1>3, <1>e, <1>8 DEF KeptFine
<1>10. \A i, j \in 1..Len(x) : i < j => x[i].id < x[j].id
  <2> SUFFICES ASSUME NEW i \in 1..Len(x), NEW j \in 1..Len(x), i < j
               PROVE  x[i].id < x[j].id
    OBVIOUS
  <2>1. i \in 1..Len(k) BY <1>0, <1>3
  <2>2. CASE j \in 1..Len(k) BY <1>3, <2>1, <2>2 DEF KeptFine
  <2>3. CASE j = Len(k) + 1 BY <1>3, <1>4, <2>1, <2>3
  <2> QED BY <1>8, <2>2, <2>3
<1>11. \A i \in 1..Len(x), l \in n + 2 .. Len(st.entries) : x[i].id < st.entries[l].id
  BY <1>3, <1>6, <1>7, <1>8
<1>12. n + 1 + 1 = n + 2 OBVIOUS
<1> QED BY <1>3, <1>9, <1>10, <1>11, <1>12 DEF KeptFine, x, e

LEMMA KeptFacts ==
    ASSUME NEW st, HandleOK(st)
    PROVE  KeptFine(KeptOf(st.entries, Len(st.entries)), st, Len(st.entries))
<1> DEFINE es == st.entries
           P(n) == KeptFine(KeptOf(es, n), st, n)
           T == {n \in 0..Len(es) : ~P(n)}
<1>0. Len(es) \in Nat BY HandleTypes
<1> SUFFICES ASSUME T # {} PROVE FALSE
  <2>1. Len(es) \in 0..Len(es) BY <1>0
  <2> QED BY <2>1
<1>1. T \subseteq Nat OBVIOUS
<1>2. PICK n \in T : \A m \in T : n <= m BY <1>1, Least
<1>3. n # 0
  <2>1. KeptOf(es, 0) = <<>> BY KeptStep
  <2>2. KeptFine(<<>>, st, 0)
    <3>1. <<>> \in Seq(Entries) /\ Len(<<>>) = 0 OBVIOUS
    <3>2. 1..0 = {} OBVIOUS
    <3> QED BY <3>1, <3>2 DEF KeptFine
  <2> QED BY <2>1, <2>2
<1>4. PICK m \in Nat : n = m + 1 BY <1>3
<1>5. m \in 0..Len(es) /\ m + 1 <= Len(es) BY <1>0, <1>4
<1>6. P(m) BY <1>2, <1>4, <1>5
<1>7. P(m + 1)
  <2>1. KeptOf(es, m + 1) = IF es[m + 1].deleted THEN KeptOf(es, m)
                            ELSE Append(KeptOf(es, m), es[m + 1])
    BY KeptStep
  <2>2. CASE es[m + 1].deleted
    <3>1. \A l \in m + 1 + 1 .. Len(es) : l \in m + 1 .. Len(es) BY <1>0
    <3> QED BY <1>6, <2>1, <2>2, <3>1 DEF KeptFine
  <2>3. CASE ~es[m + 1].deleted BY <1>5, <1>6, <2>1, <2>3, KeptMore
  <2> QED BY <2>2, <2>3
<1> QED BY <1>4, <1>7

----------------------------------------------------------------------------
\* The log a compaction writes.

LEMMA CompactedLogIs ==
    ASSUME HandleOK(ram)
    PROVE  /\ Kept \in Seq(Entries) /\ Len(Kept) \in Nat /\ KeptFine(Kept, ram, Len(ram.entries))
           /\ Ids(Kept) \in Seq(1..MaxId)
           /\ CompactedLog \in Seq(Records) /\ Len(CompactedLog) = Len(Kept) + 1
           /\ \A i \in 1..Len(Kept) : CompactedLog[i] = Put(Kept[i].id, Kept[i].meta)
           /\ CompactedLog[Len(Kept) + 1] = Snap(Ids(Kept))
<1>1. KeptFine(Kept, ram, Len(ram.entries)) BY KeptFacts DEF Kept
<1>2. Kept \in Seq(Entries) BY <1>1 DEF KeptFine
<1> DEFINE k == Kept
           puts == [l \in DOMAIN k |-> Put(k[l].id, k[l].meta)]
<1>d. CompactedLog = Append(puts, Snap(Ids(k))) BY DEF CompactedLog
<1> HIDE DEF k
<1>3. /\ k \in Seq(Entries) /\ Len(k) \in Nat /\ DOMAIN k = 1..Len(k)
      /\ \A l \in 1..Len(k) : k[l] \in Entries
  BY <1>2 DEF k
<1>4. \A l \in 1..Len(k) : k[l].id \in 1..MaxId /\ k[l].meta \in Metas
  BY <1>3, EntryTypes
<1>5. \A l \in 1..Len(k) : Put(k[l].id, k[l].meta) \in Records
  BY <1>4 DEF Put, Records
<1>6. puts \in Seq(Records) /\ Len(puts) = Len(k)
  <2>1. puts \in [1..Len(k) -> Records] BY <1>3, <1>5
  <2> HIDE DEF puts
  <2> QED BY <1>3, <2>1, SeqDef
<1>7. Ids(k) \in Seq(1..MaxId)
  <2> DEFINE S == 1..MaxId
             ids == Ids(k)
  <2>1. ids \in [1..Len(k) -> S] BY <1>3, <1>4 DEF Ids
  <2> HIDE DEF S, ids
  <2>2. ids \in Seq(S) BY <1>3, <2>1, SeqDef
  <2> QED BY <2>2 DEF S, ids
<1>8. Snap(Ids(k)) \in Records BY <1>7 DEF Snap, Records
<1>9. \A i \in 1..Len(k) : puts[i] = Put(k[i].id, k[i].meta) BY <1>3
<1> HIDE DEF puts
<1>10. /\ CompactedLog \in Seq(Records) /\ Len(CompactedLog) = Len(k) + 1
       /\ \A i \in 1..Len(k) : CompactedLog[i] = puts[i]
       /\ CompactedLog[Len(k) + 1] = Snap(Ids(k))
  BY <1>d, <1>6, <1>8, AppendProperties
<1> QED BY <1>1, <1>3, <1>7, <1>9, <1>10 DEF k

\* After i of its records.
Rebuilt(st, i) ==
    /\ HandleOK(st)
    /\ Len(st.entries) = i
    /\ \A j \in 1..i : st.entries[j] = NewEntry(Kept[j].id, Kept[j].meta)
    /\ st.nextId = IF i = 0 THEN 1 ELSE Kept[i].id + 1
    /\ st.live = i /\ st.garbage = 0 /\ st.snap = 0 /\ st.end = i

LEMMA RebuiltMore ==
    ASSUME HandleOK(ram), NEW i \in Nat, i + 1 <= Len(Kept), NEW st, Rebuilt(st, i)
    PROVE  LET r == CompactedLog[i + 1] IN
           Fits(st, r) /\ Rebuilt(ReplayRecord(st, r), i + 1)
<1> DEFINE r == CompactedLog[i + 1]
           k == Kept[i + 1]
<1>0. /\ i + 1 \in 1..Len(Kept) /\ HandleOK(st)
      /\ i # 0 => i \in 1..Len(Kept)
  BY CompactedLogIs DEF Rebuilt
<1>1. r = Put(k.id, k.meta) BY <1>0, CompactedLogIs
<1>2. k \in Entries BY <1>0, CompactedLogIs
<1>3. k.id \in 1..MaxId /\ k.id \in Nat /\ k.meta \in Metas BY <1>2, EntryTypes
<1>4. k.id >= st.nextId
  <2>1. CASE i = 0 BY <1>3, <2>1 DEF Rebuilt
  <2>2. CASE i # 0
    <3>1. i < i + 1 /\ i \in 1..Len(Kept) BY <1>0, <2>2
    <3>2. Kept[i].id < k.id BY <1>0, <3>1, CompactedLogIs DEF KeptFine
    <3>3. Kept[i] \in Entries BY <3>1, CompactedLogIs
    <3>4. Kept[i].id \in Nat BY <3>3, EntryTypes
    <3>5. st.nextId = Kept[i].id + 1 BY <2>2 DEF Rebuilt
    <3> QED BY <1>3, <3>2, <3>4, <3>5
  <2> QED BY <2>1, <2>2
<1>5. r.type = "Put" /\ r.id = k.id /\ r.meta = k.meta BY <1>1 DEF Put
<1>6. r \in Records BY <1>1, <1>3 DEF Put, Records
<1>7. Fits(st, r) BY <1>4, <1>5, <1>6 DEF Fits
<1> DEFINE st2 == ReplayRecord(st, r)
<1>8. Grows(st, k.id, k.meta, st2) /\ HandleOK(st2)
  <2>1. Grows(st, r.id, r.meta, st2) BY <1>0, <1>5, <1>7, ReplaysPut
  <2> QED BY <1>0, <1>7, <2>1, <1>5, ReplayRecordOK
<1> HIDE DEF r, k, st2
<1>9. st.entries \in Seq(Entries) /\ Len(st.entries) = i BY <1>0, HandleTypes DEF Rebuilt
<1>10. /\ Len(st2.entries) = i + 1 /\ st2.entries[i + 1] = NewEntry(k.id, k.meta)
       /\ \A j \in 1..i : st2.entries[j] = st.entries[j]
  BY <1>8, <1>9, AppendProperties DEF Grows
<1>11. \A j \in 1..i + 1 : st2.entries[j] = NewEntry(Kept[j].id, Kept[j].meta)
  <2> TAKE j \in 1..i + 1
  <2>1. j \in 1..i \/ j = i + 1 OBVIOUS
  <2> QED BY <2>1, <1>10 DEF Rebuilt, k
<1>12. st2.nextId = Kept[i + 1].id + 1 BY <1>8 DEF Grows, k
<1>13. st2.live = i + 1 /\ st2.garbage = 0 /\ st2.snap = 0 /\ st2.end = i + 1
  BY <1>8 DEF Grows, Rebuilt
<1>14. i + 1 # 0 OBVIOUS
<1>15. Rebuilt(st2, i + 1) BY <1>8, <1>10, <1>11, <1>12, <1>13, <1>14 DEF Rebuilt
<1> QED BY <1>7, <1>15 DEF r, st2

LEMMA CompactedReplay ==
    ASSUME HandleOK(ram)
    PROVE  Good(CompactedLog, Len(Kept)) /\ Rebuilt(Replayed(CompactedLog, Len(Kept)), Len(Kept))
<1> DEFINE c == CompactedLog
           P(i) == Good(c, i) /\ Rebuilt(Replayed(c, i), i)
           T == {i \in 0..Len(Kept) : ~P(i)}
<1>0. Len(Kept) \in Nat BY CompactedLogIs
<1> SUFFICES ASSUME T # {} PROVE FALSE
  <2>1. Len(Kept) \in 0..Len(Kept) BY <1>0
  <2> QED BY <2>1
<1>1. T \subseteq Nat OBVIOUS
<1>2. PICK n \in T : \A m \in T : n <= m BY <1>1, Least
<1>3. n # 0
  <2>1. Replayed(c, 0) = EmptyRam BY ReplayedStep
  <2>2. Rebuilt(EmptyRam, 0)
    <3>1. /\ EmptyRam.entries = <<>> /\ EmptyRam.nextId = 1 /\ EmptyRam.live = 0
          /\ EmptyRam.garbage = 0 /\ EmptyRam.snap = 0 /\ EmptyRam.end = 0
      BY DEF EmptyRam
    <3>2. Len(EmptyRam.entries) = 0 BY <3>1
    <3>3. 1..0 = {} OBVIOUS
    <3> QED BY <3>1, <3>2, <3>3, EmptyHandle DEF Rebuilt
  <2>3. Good(c, 0)
    <3>1. 1..0 = {} OBVIOUS
    <3> QED BY <3>1 DEF Good
  <2> QED BY <2>1, <2>2, <2>3
<1>4. PICK m \in Nat : n = m + 1 BY <1>3
<1>5. m \in 0..Len(Kept) /\ m + 1 <= Len(Kept) BY <1>0, <1>4
<1>6. P(m) BY <1>2, <1>4, <1>5
<1>7. /\ Fits(Replayed(c, m), c[m + 1])
      /\ Rebuilt(ReplayRecord(Replayed(c, m), c[m + 1]), m + 1)
  BY <1>5, <1>6, RebuiltMore
<1>8. Good(c, m + 1) /\ Replayed(c, m + 1) = ReplayRecord(Replayed(c, m), c[m + 1])
  BY <1>6, <1>7, GoodMore
<1> QED BY <1>4, <1>7, <1>8
LEMMA SnapFits ==
    ASSUME NEW st, HandleOK(st), NEW mine, HandleOK(mine),
           Len(st.entries) = Len(mine.entries),
           \A l \in 1..Len(mine.entries) : st.entries[l].id = mine.entries[l].id
    PROVE  /\ Ids(st.entries) = Ids(mine.entries)
           /\ Fits(st, Snap(Ids(mine.entries)))
<1>1. /\ DOMAIN st.entries = 1..Len(mine.entries)
      /\ DOMAIN mine.entries = 1..Len(mine.entries)
      /\ Len(mine.entries) \in Nat
      /\ \A l \in 1..Len(mine.entries) : mine.entries[l].id \in 1..MaxId
  <2>1. mine.entries \in Seq(Entries) /\ st.entries \in Seq(Entries) BY HandleTypes
  <2>2. \A l \in 1..Len(mine.entries) : mine.entries[l] \in Entries BY HandleTypes
  <2> QED BY <2>1, <2>2, EntryTypes
<1>2. Ids(st.entries) = Ids(mine.entries) BY <1>1 DEF Ids
<1>3. Ids(mine.entries) \in Seq(1..MaxId)
  <2> DEFINE S == 1..MaxId
             ids == Ids(mine.entries)
  <2>1. ids \in [1..Len(mine.entries) -> S] BY <1>1 DEF Ids
  <2> HIDE DEF S, ids
  <2>2. ids \in Seq(S) BY <1>1, <2>1, SeqDef
  <2> QED BY <2>2 DEF S, ids
<1>4. Snap(Ids(mine.entries)) \in Records BY <1>3 DEF Snap, Records
<1>5. /\ Snap(Ids(mine.entries)).type = "Snap"
      /\ Snap(Ids(mine.entries)).graph = Ids(mine.entries)
  BY DEF Snap
<1> QED BY <1>2, <1>4, <1>5 DEF Fits

\* The handle compaction leaves is well formed, and the log it wrote explains it.
LEMMA CompactedOK ==
    ASSUME HandleOK(ram)
    PROVE  /\ HandleOK(CompactedRam) /\ CompactedRam.end = Len(Kept) + 1
           /\ CompactedRam.gen = 2 /\ CompactedRam.fd = ram.fd
           /\ ValidEnd(CompactedLog) = Len(Kept) + 1
           /\ Good(CompactedLog, Len(Kept) + 1)
           /\ Matches(Replayed(CompactedLog, Len(Kept) + 1), CompactedRam)
<1> DEFINE k == Kept
           n == Len(Kept)
           x == [l \in DOMAIN k |-> [k[l] EXCEPT !.metaBytes = 0]]
<1>0. /\ k \in Seq(Entries) /\ n \in Nat /\ KeptFine(k, ram, Len(ram.entries))
      /\ DOMAIN k = 1..n /\ ram \in Handle /\ ram.nextId \in Nat
  BY CompactedLogIs, HandleTypes DEF HandleOK
<1>k. \A l \in 1..n : k[l] \in Entries BY <1>0
<1>1. \A l \in 1..n :
        LET f == [k[l] EXCEPT !.metaBytes = 0] IN
        /\ f \in Entries /\ f.id = k[l].id /\ f.meta = k[l].meta
        /\ f.deleted = k[l].deleted /\ f.metaBytes = 0 /\ f.dirty = k[l].dirty
  BY <1>k DEF Entries
<1>2. x \in [1..n -> Entries] BY <1>0, <1>1
<1>3. \A l \in 1..n : /\ x[l].id = k[l].id /\ x[l].meta = k[l].meta
                      /\ x[l].deleted = k[l].deleted /\ x[l].metaBytes = 0
  BY <1>0, <1>1
<1>d. CompactedRam = [ram EXCEPT !.entries = x, !.live = n, !.garbage = 0, !.gen = 2,
                                 !.snap = n + 1, !.end = n + 1]
  BY DEF CompactedRam
<1> HIDE DEF x
<1>4. x \in Seq(Entries) /\ Len(x) = n BY <1>0, <1>2, SeqDef
<1> HIDE DEF k, n
<1>5. PICK m \in Nat : m = n + 1 BY <1>0
<1> DEFINE s == CompactedRam
<1>6. s \in Handle
  <2>1. CompactedRam = [ram EXCEPT !.entries = x, !.live = n, !.garbage = 0, !.gen = 2,
                                   !.snap = m, !.end = m]
    BY <1>d, <1>5
  <2> QED BY <1>0, <1>4, <2>1 DEF Handle
<1>7. /\ s.entries = x /\ s.live = n /\ s.garbage = 0 /\ s.gen = 2 /\ s.snap = n + 1
      /\ s.end = n + 1 /\ s.nextId = ram.nextId /\ s.fd = ram.fd
  <2>1. DOMAIN ram = HandleFields BY <1>0 DEF Handle, HandleFields
  <2> QED BY <2>1, <1>d DEF HandleFields
<1> HIDE DEF s
<1>8. HandleOK(s)
  <2>1. \A l \in 1..Len(x) : x[l].id < s.nextId /\ ~x[l].deleted
    BY <1>0, <1>3, <1>4, <1>7 DEF KeptFine, k, n
  <2>2. \A i, j \in 1..Len(x) : i < j => x[i].id < x[j].id
    BY <1>0, <1>3, <1>4 DEF KeptFine, k, n
  <2>3. Alive(x) = 1..n BY <1>4, <2>1 DEF Alive
  <2>4. Cardinality(1..n) = n BY <1>0, FS_Interval
  <2> QED BY <1>6, <1>7, <2>1, <2>2, <2>3, <2>4 DEF HandleOK
<1> DEFINE c == CompactedLog
           st == Replayed(c, n)
           r == Snap(Ids(k))
<1>9. Good(c, n) /\ Rebuilt(st, n) BY CompactedReplay DEF n
<1>10. c \in Seq(Records) /\ Len(c) = n + 1 /\ c[n + 1] = r
  BY CompactedLogIs DEF n, k
<1> HIDE DEF c, st
<1>11. HandleOK(st) /\ Len(st.entries) = n BY <1>9 DEF Rebuilt
<1>12. \A l \in 1..n : st.entries[l] = NewEntry(k[l].id, k[l].meta)
  BY <1>9 DEF Rebuilt, k
<1>13. \A l \in 1..n : /\ st.entries[l].id = k[l].id /\ st.entries[l].meta = k[l].meta
                       /\ ~st.entries[l].deleted /\ st.entries[l].metaBytes = 0
  <2>1. \A id, w : /\ NewEntry(id, w).id = id /\ NewEntry(id, w).meta = w
                    /\ NewEntry(id, w).deleted = FALSE /\ NewEntry(id, w).metaBytes = 0
    BY DEF NewEntry
  <2> TAKE l \in 1..n
  <2> DEFINE e == NewEntry(k[l].id, k[l].meta)
  <2>2. e.id = k[l].id /\ e.meta = k[l].meta /\ e.deleted = FALSE /\ e.metaBytes = 0
    BY <2>1
  <2>3. st.entries[l] = e BY <1>12
  <2> HIDE DEF e
  <2> QED BY <2>2, <2>3
<1>14. r = Snap(Ids(s.entries))
  <2>1. DOMAIN x = 1..n BY <1>4, <1>0
  <2>2. Ids(k) = Ids(x) BY <1>0, <1>3, <2>1 DEF Ids
  <2> QED BY <1>7, <2>2
<1>15. Fits(st, r)
  <2>1. Len(st.entries) = Len(s.entries) BY <1>4, <1>7, <1>11
  <2>2. \A l \in 1..Len(s.entries) : st.entries[l].id = s.entries[l].id
    BY <1>3, <1>4, <1>7, <1>13
  <2> QED BY <1>8, <1>11, <1>14, <2>1, <2>2, SnapFits
<1>16. Good(c, n + 1) /\ Replayed(c, n + 1) = ReplayRecord(st, r)
  BY <1>0, <1>9, <1>10, <1>15, GoodMore DEF st
<1>17. ValidEnd(c) = n + 1
  <2>1. c \in Seq(Cells) BY <1>10 DEF Cells
  <2>2. \A i \in 1..n + 1 : c[i] \in Records BY <1>0, <1>10
  <2>3. \A i \in 1..n + 1 : c[i] # Torn BY <2>2, RecordTypesOf
  <2>4. m \in 0..Len(c) /\ ~(m < Len(c)) BY <1>0, <1>5, <1>10
  <2>5. \A i \in 1..m : c[i] # Torn BY <1>5, <2>3
  <2>6. ValidEnd(c) = m BY <2>1, <2>4, <2>5, ValidEndAt
  <2> QED BY <1>5, <2>6
<1> DEFINE st2 == ReplayRecord(st, r)
<1>18. Snaps(st, st2) /\ st2.entries = st.entries
  <2>1. r.type = "Snap" BY DEF Snap
  <2> QED BY <1>11, <2>1, ReplaysSnap
<1> HIDE DEF r, st2
<1>19. Matches(st2, s)
  <2>1. Len(st2.entries) = Len(s.entries) BY <1>4, <1>7, <1>11, <1>18
  <2>2. \A l \in 1..Len(s.entries) : SameDoc(st2.entries[l], s.entries[l])
    <3>1. \A l \in 1..n : ~k[l].deleted BY <1>0 DEF KeptFine, n, k
    <3>2. \A l \in 1..n : ~x[l].deleted /\ x[l].deleted \in BOOLEAN
                          /\ st.entries[l].deleted \in BOOLEAN
      BY <3>1, <1>3, <1>2, <1>11, HandleTypes, EntryTypes
    <3> QED BY <3>2, <1>3, <1>4, <1>7, <1>13, <1>18 DEF SameDoc
  <2>3. st2.live = n /\ st2.garbage = 0 /\ st2.snap = n + 1 /\ st2.end = n + 1
    BY <1>9, <1>18, <1>0 DEF Snaps, Rebuilt
  <2>4. st2.nextId <= ram.nextId
    <3>1. st2.nextId = IF n = 0 THEN 1 ELSE k[n].id + 1
      BY <1>9, <1>18 DEF Snaps, Rebuilt, k
    <3>2. CASE n = 0 BY <3>1, <3>2, HandleTypes
    <3>3. CASE n # 0
      <4>1. n \in 1..n BY <1>0, <3>3
      <4>2. k[n].id < ram.nextId BY <1>0, <4>1 DEF KeptFine, n, k
      <4>3. k[n] \in Entries BY <1>k, <4>1 DEF n, k
      <4>4. k[n].id \in Nat BY <4>3, EntryTypes
      <4> QED BY <3>1, <3>3, <4>2, <4>4, <1>0
    <3> QED BY <3>2, <3>3
  <2> QED BY <1>7, <2>1, <2>2, <2>3, <2>4 DEF Matches
<1> QED BY <1>7, <1>8, <1>16, <1>17, <1>19 DEF s, n, c, st2

----------------------------------------------------------------------------
\* The files.

Pages == [1..2 -> Nat \cup {Bad}]

Files == [log : Seq(Cells), synced : Nat, hdr : Pages, stable : Pages, sized : BOOLEAN]

FileFields == {"log", "synced", "hdr", "stable", "sized"}

\* What replay would read is a good log, and holds all that fsync settled.
FileOK(f) ==
    /\ f \in Files
    /\ f.synced \in 0..ValidEnd(f.log)
    /\ Good(f.log, ValidEnd(f.log))

\* A handle on its file: the log explains the handle, to the last record.
SteadyOK(f, r) ==
    /\ FileOK(f) /\ f.sized
    /\ HandleOK(r) /\ r.fd
    /\ r.end = ValidEnd(f.log)
    /\ Matches(Replayed(f.log, r.end), r)

LEMMA FileTypes ==
    ASSUME NEW f, FileOK(f)
    PROVE  /\ f \in Files /\ DOMAIN f = FileFields
           /\ f.log \in Seq(Cells) /\ Len(f.log) \in Nat
           /\ f.synced \in Nat /\ f.hdr \in Pages /\ f.stable \in Pages
           /\ f.sized \in BOOLEAN
           /\ ValidEnd(f.log) \in 0..Len(f.log) /\ ValidEnd(f.log) \in Nat
           /\ f.synced \in 0..ValidEnd(f.log) /\ Good(f.log, ValidEnd(f.log))
<1>1. /\ f \in Files /\ f.synced \in 0..ValidEnd(f.log)
      /\ Good(f.log, ValidEnd(f.log))
  BY DEF FileOK
<1>2. /\ DOMAIN f = FileFields
      /\ f.log \in Seq(Cells) /\ f.synced \in Nat /\ f.hdr \in Pages /\ f.stable \in Pages
      /\ f.sized \in BOOLEAN
  BY <1>1 DEF Files, FileFields
<1>3. Len(f.log) \in Nat BY <1>2
<1>4. ValidEnd(f.log) \in 0..Len(f.log) BY <1>2, ValidEndIs
<1> QED BY <1>1, <1>2, <1>3, <1>4

LEMMA WithLog ==
    ASSUME NEW f, FileOK(f), NEW log \in Seq(Cells),
           f.synced \in 0..ValidEnd(log), Good(log, ValidEnd(log))
    PROVE  LET g == [f EXCEPT !.log = log] IN
           /\ FileOK(g) /\ g.log = log /\ g.synced = f.synced
           /\ g.hdr = f.hdr /\ g.stable = f.stable /\ g.sized = f.sized
<1> DEFINE g == [f EXCEPT !.log = log]
<1>1. f \in Files /\ DOMAIN f = FileFields BY FileTypes
<1>2. g \in Files BY <1>1 DEF Files
<1>3. /\ g.log = log /\ g.synced = f.synced /\ g.hdr = f.hdr
      /\ g.stable = f.stable /\ g.sized = f.sized
  BY <1>1 DEF FileFields
<1> HIDE DEF g
<1>4. FileOK(g) BY <1>2, <1>3 DEF FileOK
<1> QED BY <1>3, <1>4 DEF g

LEMMA WithHeader ==
    ASSUME NEW f, FileOK(f), NEW p \in 1..2, NEW page \in Nat \cup {Bad}
    PROVE  LET g == [f EXCEPT !.hdr[p] = page] IN
           /\ FileOK(g) /\ g.log = f.log /\ g.synced = f.synced
           /\ g.hdr = [f.hdr EXCEPT ![p] = page]
           /\ g.stable = f.stable /\ g.sized = f.sized
<1> DEFINE g == [f EXCEPT !.hdr[p] = page]
<1>1. f \in Files /\ DOMAIN f = FileFields /\ f.hdr \in Pages BY FileTypes
<1>2. [f.hdr EXCEPT ![p] = page] \in Pages BY <1>1 DEF Pages
<1>3. PICK h \in Pages : h = [f.hdr EXCEPT ![p] = page] BY <1>2
<1>4. g = [f EXCEPT !.hdr = h] BY <1>3
<1>5. g \in Files BY <1>1, <1>4 DEF Files
<1>6. /\ g.log = f.log /\ g.synced = f.synced /\ g.hdr = h
      /\ g.stable = f.stable /\ g.sized = f.sized
  BY <1>1, <1>4 DEF FileFields
<1> HIDE DEF g
<1>7. FileOK(g) BY <1>5, <1>6 DEF FileOK
<1> QED BY <1>3, <1>6, <1>7 DEF g

LEMMA SyncedOK ==
    ASSUME NEW f, FileOK(f)
    PROVE  LET g == Synced(f) IN
           /\ FileOK(g) /\ g.log = f.log /\ g.hdr = f.hdr /\ g.stable = f.hdr
           /\ g.sized = f.sized /\ g.synced = ValidEnd(f.log)
<1> DEFINE g == Synced(f)
<1>1. f \in Files /\ DOMAIN f = FileFields /\ f.hdr \in Pages BY FileTypes
<1>2. PICK v \in Nat : v = ValidEnd(f.log) /\ v \in 0..v BY FileTypes
<1>3. g = [f EXCEPT !.synced = v, !.stable = f.hdr] BY <1>2 DEF Synced
<1>4. g \in Files BY <1>1, <1>3 DEF Files
<1>5. /\ g.log = f.log /\ g.synced = v /\ g.hdr = f.hdr
      /\ g.stable = f.hdr /\ g.sized = f.sized
  BY <1>1, <1>3 DEF FileFields
<1> HIDE DEF g
<1>6. FileOK(g) BY <1>2, <1>4, <1>5, FileTypes DEF FileOK
<1> QED BY <1>2, <1>5, <1>6 DEF g

\* Only the log matters to the handle.
LEMMA SteadySame ==
    ASSUME NEW f, NEW r, SteadyOK(f, r), NEW g, FileOK(g), g.log = f.log, g.sized = f.sized
    PROVE  SteadyOK(g, r)
BY DEF SteadyOK

\* The generation is none of the log's business.
LEMMA WithGen ==
    ASSUME NEW r, HandleOK(r)
    PROVE  LET s == [r EXCEPT !.gen = @ + 1] IN
           /\ HandleOK(s) /\ s.entries = r.entries /\ s.end = r.end /\ s.gen = r.gen + 1
           /\ s.fd = r.fd /\ s.nextId = r.nextId
           /\ \A st : Matches(st, r) => Matches(st, s)
<1> DEFINE s == [r EXCEPT !.gen = @ + 1]
<1>1. r \in Handle /\ DOMAIN r = HandleFields BY DEF HandleOK, Handle, HandleFields
<1>2. PICK n \in Nat : n = r.gen + 1 BY HandleTypes
<1>3. s = [r EXCEPT !.gen = n] BY <1>2
<1>4. s \in Handle BY <1>1, <1>3 DEF Handle
<1>5. /\ s.entries = r.entries /\ s.nextId = r.nextId /\ s.live = r.live
      /\ s.garbage = r.garbage /\ s.snap = r.snap /\ s.end = r.end /\ s.fd = r.fd
      /\ s.gen = n
  BY <1>1, <1>3 DEF HandleFields
<1> HIDE DEF s
<1>6. HandleOK(s)
  <2>1. SameDocs(r.entries, s.entries) BY <1>5 DEF SameDocs
  <2> QED BY <1>4, <1>5, <2>1, SameDocsOK
<1>7. \A st : Matches(st, r) => Matches(st, s) BY <1>5 DEF Matches
<1> QED BY <1>2, <1>5, <1>6, <1>7 DEF s

LEMMA WithFd ==
    ASSUME NEW r, HandleOK(r), NEW open \in BOOLEAN
    PROVE  LET s == [r EXCEPT !.fd = open] IN
           /\ HandleOK(s) /\ s.fd = open /\ s.gen = r.gen /\ s.end = r.end
           /\ s.entries = r.entries
           /\ \A st : Matches(st, r) => Matches(st, s)
<1> DEFINE s == [r EXCEPT !.fd = open]
<1>1. r \in Handle /\ DOMAIN r = HandleFields BY DEF HandleOK, Handle, HandleFields
<1>4. s \in Handle BY <1>1 DEF Handle
<1>5. /\ s.entries = r.entries /\ s.nextId = r.nextId /\ s.live = r.live
      /\ s.garbage = r.garbage /\ s.snap = r.snap /\ s.end = r.end /\ s.fd = open
      /\ s.gen = r.gen
  BY <1>1 DEF HandleFields
<1> HIDE DEF s
<1>6. HandleOK(s)
  <2>1. SameDocs(r.entries, s.entries) BY <1>5 DEF SameDocs
  <2> QED BY <1>4, <1>5, <2>1, SameDocsOK
<1>7. \A st : Matches(st, r) => Matches(st, s) BY <1>5 DEF Matches
<1> QED BY <1>5, <1>6, <1>7 DEF s

----------------------------------------------------------------------------
\* Writes behind the last record of a steady handle.

\* A record that fits, and a handle brought up to date as replay would be.
LEMMA SteadyAppend ==
    ASSUME SteadyOK(file, ram), NEW r, Fits(Replayed(file.log, ram.end), r),
           NEW log \in Overwritten(r), NEW s, HandleOK(s), s.fd, s.end = ram.end + 1,
           Matches(ReplayRecord(Replayed(file.log, ram.end), r), s)
    PROVE  SteadyOK([file EXCEPT !.log = log], s)
<1>1. /\ FileOK(file) /\ file.sized /\ ram.end = ValidEnd(file.log) /\ ram.end \in Nat
      /\ file.log \in Seq(Cells) /\ Good(file.log, ram.end)
      /\ file.synced \in 0..ram.end
  BY FileTypes DEF SteadyOK
<1>2. /\ log \in Seq(Cells) /\ ValidEnd(log) = ram.end + 1
      /\ Good(log, ram.end + 1)
      /\ Replayed(log, ram.end + 1) = ReplayRecord(Replayed(file.log, ram.end), r)
  BY <1>1, Appended
<1>3. file.synced \in 0..ValidEnd(log) BY <1>1, <1>2
<1> DEFINE g == [file EXCEPT !.log = log]
<1>4. FileOK(g) /\ g.log = log /\ g.sized BY <1>1, <1>2, <1>3, WithLog
<1> HIDE DEF g
<1>5. SteadyOK(g, s) BY <1>2, <1>4 DEF SteadyOK
<1> QED BY <1>5 DEF g

LEMMA SteadyNoAppend ==
    ASSUME SteadyOK(file, ram), NEW log \in Overwritten(Torn) \cup {file.log}
    PROVE  SteadyOK([file EXCEPT !.log = log], ram)
<1>1. /\ FileOK(file) /\ file.sized /\ ram.end = ValidEnd(file.log) /\ ram.end \in Nat
      /\ file.log \in Seq(Cells) /\ Good(file.log, ram.end)
      /\ file.synced \in 0..ram.end
  BY FileTypes DEF SteadyOK
<1>2. /\ log \in Seq(Cells) /\ ValidEnd(log) = ram.end
      /\ Good(log, ram.end)
      /\ Replayed(log, ram.end) = Replayed(file.log, ram.end)
  BY <1>1, NotAppended
<1> DEFINE g == [file EXCEPT !.log = log]
<1>4. FileOK(g) /\ g.log = log /\ g.sized BY <1>1, <1>2, WithLog
<1> HIDE DEF g
<1>5. SteadyOK(g, ram) BY <1>2, <1>4 DEF SteadyOK
<1> QED BY <1>5 DEF g

\* What replay has made of the log so far.
LEMMA SteadyHandle ==
    ASSUME SteadyOK(file, ram)
    PROVE  LET st == Replayed(file.log, ram.end) IN
           /\ HandleOK(st) /\ Matches(st, ram) /\ HandleOK(ram)
           /\ Len(st.entries) = Len(ram.entries)
           /\ \A l \in 1..Len(ram.entries) :
                 /\ st.entries[l].id = ram.entries[l].id
                 /\ st.entries[l].deleted = ram.entries[l].deleted
           /\ st.nextId <= ram.nextId
<1>1. FileOK(file) /\ HandleOK(ram) /\ ram.end = ValidEnd(file.log)
  BY DEF SteadyOK
<1>2. Good(file.log, ram.end) /\ ram.end \in Nat BY <1>1, FileTypes
<1>3. ram.end \in 0..ram.end BY <1>2
<1>4. HandleOK(Replayed(file.log, ram.end)) BY <1>2, <1>3, GoodHandle
<1>5. Matches(Replayed(file.log, ram.end), ram) BY DEF SteadyOK
<1> QED BY <1>1, <1>4, <1>5 DEF Matches, SameDoc

LEMMA SteadyAdd ==
    ASSUME SteadyOK(file, ram), NEW m \in Metas, ram.nextId <= MaxId,
           NEW log \in Overwritten(Put(ram.nextId, m))
    PROVE  LET s == [ram EXCEPT !.entries = Append(@, NewEntry(ram.nextId, m)),
                                !.nextId = @ + 1, !.live = @ + 1, !.end = @ + 1] IN
           /\ SteadyOK([file EXCEPT !.log = log], s)
           /\ s.nextId = ram.nextId + 1 /\ s.gen = ram.gen
<1> DEFINE st == Replayed(file.log, ram.end)
           id == ram.nextId
           r == Put(id, m)
           s == [ram EXCEPT !.entries = Append(@, NewEntry(ram.nextId, m)),
                            !.nextId = @ + 1, !.live = @ + 1, !.end = @ + 1]
<1>1. /\ HandleOK(st) /\ Matches(st, ram) /\ HandleOK(ram) /\ st.nextId <= id
      /\ ram.fd
  BY SteadyHandle DEF SteadyOK
<1> HIDE DEF st
<1>2. id \in 1..MaxId /\ id \in Nat BY <1>1, HandleTypes, ByteFacts
<1>3. Grows(ram, id, m, s) BY <1>1, AddGrows
<1>4. r \in Records /\ r.type = "Put" /\ r.id = id /\ r.meta = m
  BY <1>2 DEF Put, Records
<1> HIDE DEF s, id, r
<1>5. Fits(st, r) BY <1>1, <1>2, <1>4, HandleTypes DEF Fits
<1>6. Grows(st, id, m, ReplayRecord(st, r)) BY <1>1, <1>4, <1>5, ReplaysPut
<1>7. Matches(ReplayRecord(st, r), s) BY <1>1, <1>2, <1>3, <1>6, MatchGrow
<1>8. id >= ram.nextId BY <1>2 DEF id
<1>9. HandleOK(s) BY <1>1, <1>2, <1>3, <1>8, GrowsOK
<1>10. s.end = ram.end + 1 /\ s.fd /\ s.nextId = id + 1 /\ s.gen = ram.gen
  BY <1>1, <1>3 DEF Grows
<1>11. SteadyOK([file EXCEPT !.log = log], s)
  BY <1>5, <1>7, <1>9, <1>10, SteadyAppend DEF st, r, id
<1> QED BY <1>10, <1>11 DEF s, id

LEMMA SteadyRemove ==
    ASSUME SteadyOK(file, ram), NEW l \in 1..Len(ram.entries), ~ram.entries[l].deleted,
           NEW log \in Overwritten(Del(ram.entries[l].id))
    PROVE  LET s == [Bury(ram, l) EXCEPT !.garbage = @ + Bytes["Del"], !.end = @ + 1] IN
           /\ SteadyOK([file EXCEPT !.log = log], s)
           /\ Alive(s.entries) = Alive(ram.entries) \ {l} /\ s.gen = ram.gen
<1> DEFINE st == Replayed(file.log, ram.end)
           id == ram.entries[l].id
           r == Del(id)
           s == [Bury(ram, l) EXCEPT !.garbage = @ + Bytes["Del"], !.end = @ + 1]
<1>1. /\ HandleOK(st) /\ Matches(st, ram) /\ HandleOK(ram) /\ ram.fd
      /\ l \in 1..Len(st.entries) /\ st.entries[l].id = id /\ ~st.entries[l].deleted
  BY SteadyHandle DEF SteadyOK
<1> HIDE DEF st
<1>2. id \in 1..MaxId
  <2>1. ram.entries[l] \in Entries BY <1>1, HandleTypes
  <2> QED BY <2>1, EntryTypes
<1>3. Buries(ram, l, s) BY <1>1, BuryBuries
<1>4. r \in Records /\ r.type = "Del" /\ r.id = id BY <1>2 DEF Del, Records
<1>a. ~ram.entries[l].deleted OBVIOUS
<1> HIDE DEF s, r
<1>5. Fits(st, r) BY <1>1, <1>4 DEF Fits
<1>6. Buries(st, l, ReplayRecord(st, r)) BY <1>1, <1>4, <1>5, ReplaysDel
<1>7. Matches(ReplayRecord(st, r), s) BY <1>1, <1>3, <1>6, MatchBury
<1>9. HandleOK(s) BY <1>1, <1>3, <1>a, BuriesOK
<1>10. s.end = ram.end + 1 /\ s.fd /\ s.gen = ram.gen BY <1>1, <1>3 DEF Buries
<1>11. SteadyOK([file EXCEPT !.log = log], s)
  BY <1>5, <1>7, <1>9, <1>10, SteadyAppend DEF st, r
<1>12. Alive(s.entries) = Alive(ram.entries) \ {l}
  <2>1. ram.entries \in Seq(Entries) BY <1>1, HandleTypes
  <2>2. /\ Len(s.entries) = Len(ram.entries) /\ s.entries[l] = Buried(ram.entries[l])
        /\ \A k \in 1..Len(ram.entries) : k # l => s.entries[k] = ram.entries[k]
    BY <1>3, <2>1 DEF Buries
  <2>3. s.entries[l].deleted = TRUE BY <2>2 DEF Buried
  <2> QED BY <2>2, <2>3 DEF Alive
<1> QED BY <1>10, <1>11, <1>12 DEF s

LEMMA SteadySet ==
    ASSUME SteadyOK(file, ram), NEW l \in 1..Len(ram.entries), ~ram.entries[l].deleted,
           NEW m \in Metas, NEW log \in Overwritten(Set(ram.entries[l].id, m))
    PROVE  /\ SteadyOK([file EXCEPT !.log = log], WithSet(ram, l, m))
           /\ WithSet(ram, l, m).gen = ram.gen
<1> DEFINE st == Replayed(file.log, ram.end)
           id == ram.entries[l].id
           r == Set(id, m)
           s == WithSet(ram, l, m)
<1>1. /\ HandleOK(st) /\ Matches(st, ram) /\ HandleOK(ram) /\ ram.fd
      /\ l \in 1..Len(st.entries) /\ st.entries[l].id = id /\ ~st.entries[l].deleted
  BY SteadyHandle DEF SteadyOK
<1> HIDE DEF st
<1>2. id \in 1..MaxId
  <2>1. ram.entries[l] \in Entries BY <1>1, HandleTypes
  <2> QED BY <2>1, EntryTypes
<1>3. Rewrites(ram, l, m, FALSE, s) BY <1>1, SetRewrites
<1>4. r \in Records /\ r.type = "Set" /\ r.id = id /\ r.meta = m
  BY <1>2 DEF Set, Records
<1> HIDE DEF s, r
<1>5. Fits(st, r) BY <1>1, <1>4 DEF Fits
<1>6. Rewrites(st, l, m, st.entries[l].dirty, ReplayRecord(st, r))
  BY <1>1, <1>4, <1>5, ReplaysSet
<1>7. Matches(ReplayRecord(st, r), s) BY <1>1, <1>3, <1>6, MatchRewrite
<1>9. HandleOK(s) BY <1>1, <1>3, RewritesOK
<1>10. s.end = ram.end + 1 /\ s.fd /\ s.gen = ram.gen BY <1>1, <1>3 DEF Rewrites
<1>11. SteadyOK([file EXCEPT !.log = log], s)
  BY <1>5, <1>7, <1>9, <1>10, SteadyAppend DEF st, r
<1> QED BY <1>10, <1>11 DEF s

Flushed == [ReplaySnap(ram) EXCEPT
              !.entries = [l \in DOMAIN @ |-> [@[l] EXCEPT !.dirty = FALSE]],
              !.end = @ + 1]

LEMMA SnapHandle ==
    ASSUME HandleOK(ram)
    PROVE  /\ Snaps(ram, Flushed) /\ HandleOK(Flushed)
           /\ Len(Flushed.entries) = Len(ram.entries)
           /\ \A l \in 1..Len(ram.entries) :
                 /\ Flushed.entries[l].id = ram.entries[l].id
                 /\ Flushed.entries[l].meta = ram.entries[l].meta
                 /\ Flushed.entries[l].deleted = ram.entries[l].deleted
                 /\ Flushed.entries[l].metaBytes = ram.entries[l].metaBytes
                 /\ ~Flushed.entries[l].dirty
<1> DEFINE n == Len(ram.entries)
           x == [l \in DOMAIN ram.entries |-> [ram.entries[l] EXCEPT !.dirty = FALSE]]
<1>0. /\ ram \in Handle /\ DOMAIN ram = HandleFields
      /\ ram.entries \in Seq(Entries) /\ n \in Nat /\ DOMAIN ram.entries = 1..n
      /\ \A l \in 1..n : ram.entries[l] \in Entries
  BY HandleTypes DEF HandleOK, Handle, HandleFields
<1>1. \A l \in 1..n :
        LET f == [ram.entries[l] EXCEPT !.dirty = FALSE] IN
        /\ f \in Entries /\ f.id = ram.entries[l].id /\ f.meta = ram.entries[l].meta
        /\ f.deleted = ram.entries[l].deleted
        /\ f.metaBytes = ram.entries[l].metaBytes /\ ~f.dirty
  BY <1>0 DEF Entries
<1>2. x \in [1..n -> Entries] BY <1>0, <1>1
<1>3. \A l \in 1..n :
        /\ x[l].id = ram.entries[l].id /\ x[l].meta = ram.entries[l].meta
        /\ x[l].deleted = ram.entries[l].deleted
        /\ x[l].metaBytes = ram.entries[l].metaBytes /\ ~x[l].dirty
  BY <1>0, <1>1
<1>4. PICK y : y = x /\ y \in Seq(Entries) /\ Len(y) = n
  <2> HIDE DEF x
  <2>1. x \in Seq(Entries) /\ Len(x) = n BY <1>0, <1>2, SeqDef
  <2> QED BY <2>1
<1>5. PICK g \in Nat, e \in Nat :
        /\ e = ram.end + 1
        /\ g = ram.garbage + (IF ram.snap = 0 THEN 0 ELSE Bytes["Snap"])
  <2>1. PICK c \in Nat : c = IF ram.snap = 0 THEN 0 ELSE Bytes["Snap"] BY ByteFacts
  <2>2. ram.garbage + c \in Nat /\ ram.end + 1 \in Nat BY HandleTypes
  <2> QED BY <2>1, <2>2
<1> DEFINE p == [ram EXCEPT !.garbage = g, !.snap = e]
           s == [p EXCEPT !.entries = y, !.end = e]
<1>6. ReplaySnap(ram) = p BY <1>5 DEF ReplaySnap
<1>7. p \in Handle BY <1>0 DEF Handle
<1>8. /\ p.entries = ram.entries /\ p.nextId = ram.nextId /\ p.live = ram.live
      /\ p.garbage = g /\ p.snap = e /\ p.gen = ram.gen /\ p.fd = ram.fd
      /\ p.end = ram.end
  BY <1>0 DEF HandleFields
<1> HIDE DEF p
<1>9. Flushed = s
  <2>1. [l \in DOMAIN p.entries |-> [p.entries[l] EXCEPT !.dirty = FALSE]] = y
    BY <1>4, <1>8
  <2> QED BY <1>5, <1>6, <1>8, <2>1 DEF Flushed
<1>10. s \in Handle /\ DOMAIN p = HandleFields BY <1>4, <1>7 DEF Handle, HandleFields
<1>11. /\ s.entries = y /\ s.nextId = p.nextId /\ s.live = p.live /\ s.end = e
       /\ s.garbage = p.garbage /\ s.snap = p.snap /\ s.gen = p.gen /\ s.fd = p.fd
  BY <1>10 DEF HandleFields
<1> HIDE DEF s, x
<1>12. Snaps(ram, s) BY <1>5, <1>8, <1>10, <1>11 DEF Snaps
<1>13. SameDocs(ram.entries, s.entries) BY <1>3, <1>4, <1>11 DEF SameDocs
<1>14. HandleOK(s) BY <1>8, <1>10, <1>11, <1>13, SameDocsOK
<1> QED BY <1>3, <1>4, <1>9, <1>11, <1>12, <1>14

LEMMA SteadySnap ==
    ASSUME SteadyOK(file, ram), DirtyLive = {},
           NEW log \in Overwritten(Snap(Ids(ram.entries)))
    PROVE  SteadyOK([file EXCEPT !.log = log], Flushed) /\ Flushed.gen = ram.gen
<1> DEFINE st == Replayed(file.log, ram.end)
           r == Snap(Ids(ram.entries))
<1>1. /\ HandleOK(st) /\ Matches(st, ram) /\ HandleOK(ram) /\ ram.fd
      /\ Len(st.entries) = Len(ram.entries)
      /\ \A l \in 1..Len(ram.entries) : st.entries[l].id = ram.entries[l].id
  BY SteadyHandle DEF SteadyOK
<1> HIDE DEF st
<1>2. Fits(st, r) BY <1>1, SnapFits
<1>3. r.type = "Snap" BY DEF Snap
<1> HIDE DEF r
<1>4. Snaps(st, ReplayRecord(st, r)) /\ ReplayRecord(st, r).entries = st.entries
  BY <1>1, <1>3, ReplaysSnap
<1>5. \A l \in 1..Len(ram.entries) : ram.entries[l].deleted \/ ~ram.entries[l].dirty
  <2>1. DOMAIN ram.entries = 1..Len(ram.entries) BY <1>1, HandleTypes
  <2> QED BY <2>1 DEF DirtyLive, LiveLabels
<1>6. Matches(ReplayRecord(st, r), Flushed) BY <1>1, <1>4, <1>5, SnapHandle, MatchSnap
<1>7. Flushed.end = ram.end + 1 /\ Flushed.fd /\ HandleOK(Flushed) /\ Flushed.gen = ram.gen
  BY <1>1, SnapHandle DEF Snaps
<1> QED BY <1>2, <1>6, <1>7, SteadyAppend DEF st, r

LEMMA SteadyDirty ==
    ASSUME SteadyOK(file, ram), NEW l \in 1..Len(ram.entries), NEW m \in Metas
    PROVE  LET s == [ram EXCEPT !.entries[l].meta = m, !.entries[l].dirty = TRUE] IN
           SteadyOK(file, s) /\ s.gen = ram.gen
<1>0. /\ HandleOK(ram) /\ ram \in Handle /\ DOMAIN ram = HandleFields /\ ram.fd
      /\ ram.entries \in Seq(Entries) /\ DOMAIN ram.entries = 1..Len(ram.entries)
      /\ ram.entries[l] \in Entries
  BY HandleTypes DEF SteadyOK, HandleOK, Handle, HandleFields
<1> DEFINE e == [ram.entries[l] EXCEPT !.meta = m, !.dirty = TRUE]
           s == [ram EXCEPT !.entries[l].meta = m, !.entries[l].dirty = TRUE]
<1>1. /\ e \in Entries /\ e.id = ram.entries[l].id /\ e.dirty
      /\ e.deleted = ram.entries[l].deleted /\ e.metaBytes = ram.entries[l].metaBytes
  BY <1>0 DEF Entries
<1>2. PICK x : x = [ram.entries EXCEPT ![l] = e] /\ x \in Seq(Entries)
  <2> HIDE DEF e
  <2>1. [ram.entries EXCEPT ![l] = e] \in Seq(Entries) BY <1>0, <1>1, ExceptSeq
  <2> QED BY <2>1
<1>3. s = [ram EXCEPT !.entries = x]
  <2>1. [ram.entries EXCEPT ![l].meta = m, ![l].dirty = TRUE] = x BY <1>0, <1>2
  <2> QED BY <1>0, <2>1 DEF HandleFields
<1> HIDE DEF e
<1>4. /\ Len(x) = Len(ram.entries) /\ x[l] = e
      /\ \A k \in 1..Len(ram.entries) : k # l => x[k] = ram.entries[k]
  BY <1>0, <1>2
<1>5. s \in Handle BY <1>0, <1>2, <1>3 DEF Handle
<1>6. /\ s.entries = x /\ s.nextId = ram.nextId /\ s.live = ram.live
      /\ s.garbage = ram.garbage /\ s.snap = ram.snap /\ s.end = ram.end
      /\ s.gen = ram.gen /\ s.fd = ram.fd
  BY <1>0, <1>3 DEF HandleFields
<1> HIDE DEF s
<1>7. SameDocs(ram.entries, s.entries) BY <1>1, <1>4, <1>6 DEF SameDocs
<1>8. HandleOK(s) BY <1>0, <1>5, <1>6, <1>7, SameDocsOK
<1>9. \A k \in 1..Len(ram.entries) :
        /\ s.entries[k].id = ram.entries[k].id
        /\ s.entries[k].deleted = ram.entries[k].deleted
        /\ s.entries[k].metaBytes = ram.entries[k].metaBytes
        /\ \/ s.entries[k].dirty
           \/ /\ s.entries[k].meta = ram.entries[k].meta
              /\ s.entries[k].dirty = ram.entries[k].dirty
  BY <1>1, <1>4, <1>6
<1>10. Matches(Replayed(file.log, ram.end), s)
  BY <1>4, <1>6, <1>9, SteadyHandle, MatchDirty
<1>11. SteadyOK(file, s) BY <1>0, <1>6, <1>8, <1>10 DEF SteadyOK
<1> QED BY <1>6, <1>11 DEF s

----------------------------------------------------------------------------
\* Files that are opened, compacted, or left by a power loss.

LEMMA ReadBack ==
    ASSUME NEW f, FileOK(f)
    PROVE  LET valid == ValidRecords(f.log) IN
           /\ valid \in Seq(Cells) /\ Len(valid) = ValidEnd(f.log)
           /\ ValidEnd(valid) = ValidEnd(f.log) /\ Good(valid, ValidEnd(f.log))
           /\ Replay(valid) = Replayed(f.log, ValidEnd(f.log))
           /\ Replayed(valid, ValidEnd(f.log)) = Replayed(f.log, ValidEnd(f.log))
<1> DEFINE valid == ValidRecords(f.log)
           n == ValidEnd(f.log)
<1>1. /\ f.log \in Seq(Cells) /\ n \in 0..Len(f.log) /\ n \in Nat
      /\ Len(f.log) \in Nat /\ Good(f.log, n)
  BY FileTypes
<1>2. \A i \in 1..n : f.log[i] # Torn BY <1>1, ValidEndIs
<1>v. valid = SubSeq(f.log, 1, n) BY DEF ValidRecords
<1> HIDE DEF n, valid
<1>3. /\ valid \in Seq(Cells) /\ Len(valid) = n
      /\ \A i \in 1..n : valid[i] = f.log[i]
  BY <1>1, <1>v, SubSeqProperties
<1>4. ValidEnd(valid) = n
  <2>1. n \in 0..Len(valid) /\ ~(n < Len(valid)) BY <1>1, <1>3
  <2>2. \A i \in 1..n : valid[i] # Torn BY <1>2, <1>3
  <2> QED BY <1>3, <2>1, <2>2, ValidEndAt
<1>5. Good(valid, n) /\ Replayed(valid, n) = Replayed(f.log, n)
  <2>1. \A i \in 1..n : f.log[i] = valid[i] BY <1>3
  <2> QED BY <1>1, <2>1, GoodSame
<1>6. Replay(valid) = Replayed(valid, n) BY <1>3 DEF Replay
<1> QED BY <1>3, <1>4, <1>5, <1>6 DEF n, valid

LEMMA SteadyOpened ==
    ASSUME FileOK(file), file.sized, NEW gen \in Nat
    PROVE  LET s == [Replay(ValidRecords(file.log)) EXCEPT !.gen = gen, !.fd = TRUE] IN
           /\ SteadyOK([file EXCEPT !.log = ValidRecords(file.log)], s)
           /\ s.gen = gen
<1> DEFINE n == ValidEnd(file.log)
           valid == ValidRecords(file.log)
           st == Replayed(file.log, n)
           s == [Replay(valid) EXCEPT !.gen = gen, !.fd = TRUE]
           f == [file EXCEPT !.log = valid]
<1>1. n \in Nat /\ n \in 0..n /\ Good(file.log, n) /\ file.synced \in 0..n BY FileTypes
<1>2. HandleOK(st) /\ st.end = n BY <1>1, GoodHandle
<1>3. /\ valid \in Seq(Cells) /\ ValidEnd(valid) = n /\ Good(valid, n)
      /\ Replay(valid) = st /\ Replayed(valid, n) = st
  BY ReadBack
<1> HIDE DEF n, valid, st
<1>4. FileOK(f) /\ f.log = valid /\ f.sized = file.sized BY <1>1, <1>3, WithLog
<1>5. st \in Handle /\ DOMAIN st = HandleFields BY <1>2 DEF HandleOK, Handle, HandleFields
<1>6. s = [st EXCEPT !.gen = gen, !.fd = TRUE] BY <1>3
<1>t. TRUE \in BOOLEAN OBVIOUS
<1>7. s \in Handle BY <1>5, <1>6, <1>t DEF Handle
<1>8. /\ s.entries = st.entries /\ s.nextId = st.nextId /\ s.live = st.live
      /\ s.garbage = st.garbage /\ s.snap = st.snap /\ s.end = st.end
      /\ s.gen = gen /\ s.fd = TRUE
  BY <1>5, <1>6 DEF HandleFields
<1> HIDE DEF s, f
<1>9. SameDocs(st.entries, s.entries) BY <1>8 DEF SameDocs
<1>10. HandleOK(s) BY <1>2, <1>7, <1>8, <1>9, SameDocsOK
<1>11. Matches(st, s) BY <1>2, <1>8, MatchSelf, MatchFields
<1>12. SteadyOK(f, s) BY <1>2, <1>3, <1>4, <1>8, <1>10, <1>11 DEF SteadyOK
<1> QED BY <1>8, <1>12 DEF s, f, valid

LEMMA SteadyCompacted ==
    ASSUME FileOK(file), file.sized, HandleOK(ram), ram.fd
    PROVE  /\ FileOK(CompactedFile) /\ CompactedFile.log = CompactedLog
           /\ CompactedFile.sized /\ CompactedFile.hdr = <<2, 1>>
           /\ CompactedFile.stable = <<2, 1>>
           /\ CompactedFile.synced = ValidEnd(CompactedLog)
<1> DEFINE c == CompactedLog
           f == [file EXCEPT !.log = CompactedLog, !.hdr = <<2, 1>>]
           g == Synced(f)
<1>1. c \in Seq(Cells) /\ ValidEnd(c) \in Nat /\ Good(c, ValidEnd(c))
  <2>1. c \in Seq(Records) BY CompactedLogIs
  <2>2. c \in Seq(Cells) BY <2>1 DEF Cells
  <2>3. Len(c) \in Nat /\ ValidEnd(c) \in 0..Len(c) BY <2>2, ValidEndIs
  <2>4. ValidEnd(c) \in Nat BY <2>3
  <2>5. Good(c, ValidEnd(c)) BY CompactedOK
  <2> QED BY <2>2, <2>4, <2>5
<1> HIDE DEF c
<1>2. PICK h \in Pages : h = <<2, 1>>
  <2>1. <<2, 1>> \in Pages
    <3>1. DOMAIN <<2, 1>> = 1..2 OBVIOUS
    <3>2. <<2, 1>>[1] = 2 /\ <<2, 1>>[2] = 1 OBVIOUS
    <3>3. <<2, 1>> = [p \in 1..2 |-> IF p = 1 THEN 2 ELSE 1] OBVIOUS
    <3> QED BY <3>3 DEF Pages
  <2> QED BY <2>1
<1>3. file \in Files /\ DOMAIN file = FileFields BY FileTypes
<1>4. f = [file EXCEPT !.log = c, !.hdr = h] BY <1>2 DEF c
<1>5. f \in Files BY <1>1, <1>3, <1>4 DEF Files
<1>6. f.log = c /\ f.hdr = h /\ f.sized = file.sized BY <1>3, <1>4 DEF FileFields
<1> HIDE DEF f
<1>7. PICK v \in Nat : v = ValidEnd(c) /\ v \in 0..v BY <1>1
<1>8. g = [f EXCEPT !.synced = v, !.stable = h] BY <1>6, <1>7 DEF Synced
<1>9. DOMAIN f = FileFields BY <1>5 DEF Files, FileFields
<1>10. g \in Files BY <1>5, <1>8 DEF Files
<1>11. /\ g.log = c /\ g.synced = v /\ g.hdr = h /\ g.stable = h /\ g.sized = file.sized
  BY <1>6, <1>8, <1>9 DEF FileFields
<1>12. CompactedFile = g BY DEF CompactedFile, f
<1> HIDE DEF g
<1>13. FileOK(g) BY <1>1, <1>7, <1>10, <1>11 DEF FileOK
<1> QED BY <1>2, <1>7, <1>11, <1>12, <1>13 DEF c

\* The handle compaction leaves fits the log it wrote.
LEMMA SteadyReopened ==
    ASSUME FileOK(file), file.sized, HandleOK(ram), ram.fd, file.log = CompactedLog
    PROVE  SteadyOK(file, CompactedRam) /\ CompactedRam.gen = 2
<1>1. /\ HandleOK(CompactedRam) /\ CompactedRam.end = ValidEnd(CompactedLog)
      /\ CompactedRam.gen = 2 /\ CompactedRam.fd
      /\ Matches(Replayed(CompactedLog, CompactedRam.end), CompactedRam)
  BY CompactedOK
<1> QED BY <1>1 DEF SteadyOK

\* A power loss tears records, and what lies behind the first it tore is lost; it
\* adds none.
LEMMA AfterPowerLossOK ==
    ASSUME NEW f, FileOK(f), NEW g \in AfterPowerLoss(f)
    PROVE  /\ FileOK(Settled(g)) /\ Settled(g).sized = f.sized
           /\ Settled(g).hdr \in PagesAfterPowerLoss(f)
           /\ Settled(g).stable = Settled(g).hdr
           /\ Len(Settled(g).log) = Len(f.log)
           /\ ValidEnd(Settled(g).log) \in f.synced..ValidEnd(f.log)
           /\ Settled(g).synced = ValidEnd(Settled(g).log)
           /\ \A i \in 1..ValidEnd(Settled(g).log) : Settled(g).log[i] = f.log[i]
<1>a. PICK left \in LogsAfterPowerLoss(f) \X PagesAfterPowerLoss(f) :
        g = [f EXCEPT !.log = left[1], !.hdr = left[2], !.stable = left[2]]
  BY DEF AfterPowerLoss
<1>b. PICK h \in PagesAfterPowerLoss(f) : h = left[2] OBVIOUS
<1>c. PICK x \in LogsAfterPowerLoss(f) : x = left[1] OBVIOUS
<1>d. PICK lost \in SUBSET (f.synced + 1 .. Len(f.log)) :
        x = [i \in DOMAIN f.log |-> IF i \in lost THEN Torn ELSE f.log[i]]
  BY DEF LogsAfterPowerLoss
<1>1. /\ h \in PagesAfterPowerLoss(f)
      /\ g = [f EXCEPT !.log = [i \in DOMAIN f.log |->
                                   IF i \in lost THEN Torn ELSE f.log[i]],
                       !.hdr = h, !.stable = h]
  BY <1>a, <1>b, <1>c, <1>d
<1> DEFINE c == [i \in DOMAIN f.log |-> IF i \in lost THEN Torn ELSE f.log[i]]
           n == ValidEnd(f.log)
<1>2. /\ f \in Files /\ DOMAIN f = FileFields /\ f.log \in Seq(Cells)
      /\ Len(f.log) \in Nat /\ DOMAIN f.log = 1..Len(f.log)
      /\ \A i \in 1..Len(f.log) : f.log[i] \in Cells
      /\ n \in 0..Len(f.log) /\ n \in Nat /\ Good(f.log, n)
      /\ f.hdr \in Pages /\ f.stable \in Pages
  BY FileTypes
<1>3. n < Len(f.log) => f.log[n + 1] = Torn BY <1>2, ValidEndIs
<1>4. c \in [1..Len(f.log) -> Cells] BY <1>2 DEF Cells
<1>5. \A i \in 1..Len(f.log) : c[i] = Torn \/ c[i] = f.log[i] BY <1>2
<1> HIDE DEF c, n
<1>6. c \in Seq(Cells) /\ Len(c) = Len(f.log)
  <2>1. PICK k \in Nat : k = Len(f.log) BY <1>2
  <2>2. c \in [1..k -> Cells] BY <1>4, <2>1
  <2>3. c \in Seq(Cells) /\ Len(c) = k BY <2>2, SeqDef
  <2> QED BY <2>1, <2>3
<1>7. PICK v \in 0..Len(f.log) : v = ValidEnd(c) /\ \A i \in 1..v : c[i] # Torn
  BY <1>6, ValidEndIs
<1>8. v <= n
  <2>1. SUFFICES ASSUME n < v PROVE FALSE
    BY <1>2
  <2>2. n + 1 \in 1..v /\ n < Len(f.log) /\ n + 1 \in 1..Len(f.log) BY <1>2, <2>1
  <2>3. f.log[n + 1] = Torn BY <1>3, <2>2
  <2>4. c[n + 1] = Torn BY <1>5, <2>2, <2>3
  <2> QED BY <1>7, <2>2, <2>4
<1>9. Good(c, v)
  <2>1. \A i \in 1..v : f.log[i] = c[i] BY <1>2, <1>5, <1>7
  <2>2. Good(f.log, v) BY <1>2, <1>8, GoodLess
  <2>3. v \in Nat BY <1>2
  <2> QED BY <2>1, <2>2, <2>3, GoodSame
<1>10. h \in Pages
  <2> DEFINE page(p) == IF f.hdr[p] = f.stable[p] THEN {f.hdr[p]}
                        ELSE {f.hdr[p], f.stable[p], Bad}
  <2>1. PagesAfterPowerLoss(f) = page(1) \X page(2) BY DEF PagesAfterPowerLoss
  <2>2. \A p \in 1..2 : page(p) \subseteq Nat \cup {Bad} BY <1>2 DEF Pages
  <2> HIDE DEF page
  <2>3. PICK a \in page(1), b \in page(2) : h = <<a, b>> BY <2>1
  <2>4. a \in Nat \cup {Bad} /\ b \in Nat \cup {Bad} BY <2>2, <2>3
  <2>5. h = [p \in 1..2 |-> IF p = 1 THEN a ELSE b] BY <2>3
  <2> QED BY <2>4, <2>5 DEF Pages
<1>11. PICK w \in Nat : w = v /\ w \in 0..w BY <1>2
<1>12. g = [f EXCEPT !.log = c, !.hdr = h, !.stable = h] BY <1>1 DEF c
<1>13. g \in Files BY <1>2, <1>6, <1>10, <1>12 DEF Files
<1>14. g.log = c /\ g.hdr = h /\ g.stable = h /\ g.sized = f.sized
  BY <1>2, <1>12 DEF FileFields
<1>15. DOMAIN g = FileFields BY <1>13 DEF Files, FileFields
<1> DEFINE s == [g EXCEPT !.synced = w]
<1>16. Settled(g) = s BY <1>7, <1>11, <1>14 DEF Settled
<1>17. s \in Files BY <1>13 DEF Files
<1>18. s.log = c /\ s.synced = w /\ s.hdr = h /\ s.stable = h /\ s.sized = f.sized
  BY <1>14, <1>15 DEF FileFields
<1> HIDE DEF s
<1>19. FileOK(s) BY <1>7, <1>9, <1>11, <1>17, <1>18 DEF FileOK
<1>20. v >= f.synced
  <2>1. f.synced \in 0..n BY FileTypes DEF n
  <2>2. SUFFICES ASSUME v < f.synced PROVE FALSE
    BY <1>2, <2>1
  <2>l. n \in Nat /\ Len(f.log) \in Nat /\ n <= Len(f.log) /\ Len(c) = Len(f.log)
    BY <1>2, <1>6
  <2>3. v + 1 \in 1..n /\ v + 1 \in 1..Len(f.log) /\ v + 1 <= f.synced /\ v < Len(c)
    BY <2>l, <2>1, <2>2
  <2>4. f.log[v + 1] # Torn BY <1>2, <2>3, ValidEndIs DEF n
  <2>5. v + 1 \notin f.synced + 1 .. Len(f.log) BY <1>2, <2>1, <2>3
  <2>6. c[v + 1] = f.log[v + 1] BY <1>2, <2>3, <2>5 DEF c
  <2>7. c[v + 1] = Torn BY <1>6, <1>7, <2>3, ValidEndIs
  <2> QED BY <2>4, <2>6, <2>7
<1>21. /\ ValidEnd(s.log) \in f.synced..ValidEnd(f.log)
       /\ s.synced = ValidEnd(s.log) /\ Len(s.log) = Len(f.log)
  <2>1. f.synced \in Nat BY FileTypes
  <2> QED BY <1>2, <1>6, <1>7, <1>8, <1>11, <1>18, <1>20, <2>1 DEF n
<1>22. \A i \in 1..ValidEnd(s.log) : s.log[i] = f.log[i]
  BY <1>2, <1>5, <1>7, <1>18
<1>23. /\ FileOK(Settled(g)) /\ Settled(g).sized = f.sized
       /\ Settled(g).hdr \in PagesAfterPowerLoss(f)
       /\ Settled(g).stable = Settled(g).hdr
  BY <1>1, <1>16, <1>18, <1>19
<1>24. /\ Len(Settled(g).log) = Len(f.log)
       /\ ValidEnd(Settled(g).log) \in f.synced..ValidEnd(f.log)
       /\ Settled(g).synced = ValidEnd(Settled(g).log)
       /\ \A i \in 1..ValidEnd(Settled(g).log) : Settled(g).log[i] = f.log[i]
  BY <1>16, <1>21, <1>22
<1> QED BY <1>23, <1>24

----------------------------------------------------------------------------
\* The inductive invariant of the log.

Pcs == {"closed", "refused", "create", "open", "add", "remove",
        "flushMeta", "flushHeader", "flushSync", "compactOnOpen",
        "renamed", "renamedOnOpen"}

Flushing == {"flushMeta", "flushHeader", "flushSync"}
Renamed == {"renamed", "renamedOnOpen"}
Working == {"open", "add", "remove", "compactOnOpen"} \cup Flushing

\* What the call in progress still has to write can be written.
TodoOK(p, t, r) ==
    /\ p = "add" => /\ t \in Seq(Metas) /\ Len(t) >= 1
                    /\ r.nextId + Len(t) <= MaxId + 1
    /\ p = "remove" => /\ t \in Seq(Alive(r.entries)) /\ Len(t) >= 1
                       /\ \A i, j \in 1..Len(t) : t[i] = t[j] => i = j
    /\ p \in Flushing => \E closing \in BOOLEAN : t = <<closing>>

TypeInv ==
    /\ FileOK(file) /\ \A f \in previous : FileOK(f)
    /\ HandleOK(ram)
    /\ pc \in Pcs
    /\ faults \in Nat /\ kills \in Nat /\ power \in Nat

LogInv ==
    /\ TypeInv
    /\ ~Running => ram = EmptyRam
    /\ pc = "create" => file.log = <<>> /\ file.sized /\ Matches(EmptyRam, ram) /\ ~ram.fd
    /\ Steady => SteadyOK(file, ram)
    /\ pc \in Renamed => file.log = CompactedLog /\ file.sized /\ ram.fd
    /\ Running /\ ~ram.fd => pc \in {"create", "open"}
    /\ TodoOK(pc, todo, ram)

CountersOK == faults' \in Nat /\ kills' \in Nat /\ power' \in Nat

\* The two places most steps lead to: no handle, or a steady one.
LEMMA Stops ==
    ASSUME FileOK(file'), \A f \in previous' : FileOK(f), CountersOK,
           pc' \in {"closed", "refused"}, ram' = EmptyRam
    PROVE  LogInv'
<1>1. HandleOK(ram') BY EmptyHandle
<1>2. TypeInv' BY <1>1 DEF TypeInv, CountersOK, Pcs
<1>3. ~Running' /\ ~Steady' BY DEF Running, Steady
<1>4. pc' # "create" /\ pc' \notin Renamed /\ pc' # "add" /\ pc' # "remove"
      /\ pc' \notin Flushing
  BY DEF Renamed, Flushing
<1>5. TodoOK(pc', todo', ram') BY <1>4 DEF TodoOK
<1> QED BY <1>2, <1>3, <1>4, <1>5 DEF LogInv

LEMMA Works ==
    ASSUME SteadyOK(file', ram'), \A f \in previous' : FileOK(f), CountersOK,
           pc' \in Working, TodoOK(pc', todo', ram')
    PROVE  LogInv'
<1>1. FileOK(file') /\ HandleOK(ram') /\ ram'.fd BY DEF SteadyOK
<1>2. TypeInv' BY <1>1 DEF TypeInv, CountersOK, Pcs, Working, Flushing
<1>3. Running' /\ pc' # "create" /\ pc' \notin Renamed
  BY DEF Running, Working, Flushing, Renamed
<1> QED BY <1>1, <1>2, <1>3 DEF LogInv

LEMMA TodoFree ==
    ASSUME NEW p, p \notin {"add", "remove"} \cup Flushing, NEW t, NEW r
    PROVE  TodoOK(p, t, r)
BY DEF TodoOK

LEMMA SteadyAt ==
    ASSUME LogInv, pc \in Working, ram.fd
    PROVE  SteadyOK(file, ram)
<1>1. Steady BY DEF Steady, Running, Working, Flushing
<1> QED BY <1>1 DEF LogInv

LEMMA OpenAt ==
    ASSUME LogInv, pc \in Working, pc # "open"
    PROVE  SteadyOK(file, ram) /\ ram.fd
<1>1. Running /\ pc # "create" BY DEF Running, Working, Flushing
<1>2. ram.fd BY <1>1 DEF LogInv
<1> QED BY <1>2, SteadyAt

LEMMA Kept0 ==
    ASSUME LogInv
    PROVE  /\ FileOK(file) /\ \A f \in previous : FileOK(f)
           /\ HandleOK(ram) /\ pc \in Pcs
           /\ faults \in Nat /\ kills \in Nat /\ power \in Nat
BY DEF LogInv, TypeInv

----------------------------------------------------------------------------
\* open()

LEMMA CreateFileLog == ASSUME LogInv, CreateFile PROVE LogInv'
<1> DEFINE f == [NoFile EXCEPT !.sized = TRUE]
<1>0. <<>> \in Seq(Cells) /\ Len(<<>>) = 0 /\ 1..0 = {} OBVIOUS
<1>1. ValidEnd(<<>>) = 0
  <2>1. ValidEnd(<<>>) \in 0..Len(<<>>) BY <1>0, ValidEndIs
  <2> QED BY <1>0, <2>1
<1>2. PICK h \in Pages : h = <<Bad, Bad>>
  <2>1. <<Bad, Bad>> = [p \in 1..2 |-> Bad] OBVIOUS
  <2>2. [p \in 1..2 |-> Bad] \in Pages BY DEF Pages
  <2> QED BY <2>1, <2>2
<1>3. /\ NoFile.log = <<>> /\ NoFile.synced = 0 /\ NoFile.hdr = h
      /\ NoFile.stable = h
  BY <1>2 DEF NoFile
<1>d. DOMAIN NoFile = FileFields BY DEF NoFile, FileFields
<1>4. TRUE \in BOOLEAN /\ FALSE \in BOOLEAN /\ 0 \in Nat /\ 0 \in 0..0 OBVIOUS
<1>n. NoFile \in Files BY <1>0, <1>2, <1>4 DEF Files, NoFile
<1>5. f \in Files BY <1>n, <1>4 DEF Files
<1>6. f.log = <<>> /\ f.synced = 0 /\ f.sized = TRUE /\ f.hdr = h /\ f.stable = h
  BY <1>3, <1>d DEF FileFields
<1>7. file' = f /\ ram' = EmptyRam /\ pc' = "create"
      /\ previous' = previous /\ faults' = faults /\ kills' = kills /\ power' = power
  BY DEF CreateFile
<1> HIDE DEF f
<1>8. Good(<<>>, 0) BY <1>0 DEF Good
<1>9. FileOK(f) BY <1>1, <1>4, <1>5, <1>6, <1>8 DEF FileOK
<1>10. HandleOK(ram') /\ Matches(EmptyRam, ram') /\ ~ram'.fd
  BY <1>7, EmptyHandle, MatchSelf DEF EmptyRam
<1>11. TypeInv' BY <1>7, <1>9, <1>10, Kept0 DEF TypeInv, Pcs
<1>12. Running' /\ ~Steady' BY <1>7, <1>10 DEF Running, Steady
<1>13. TodoOK(pc', todo', ram') BY <1>7, TodoFree DEF Flushing
<1>14. pc' \notin Renamed BY <1>7 DEF Renamed
<1> QED BY <1>6, <1>7, <1>10, <1>11, <1>12, <1>13, <1>14 DEF LogInv

LEMMA HeaderWritten ==
    ASSUME LogInv, WriteHeader
    PROVE  /\ FileOK(file') /\ file'.log = file.log /\ file'.sized = file.sized
           /\ file'.hdr = [file.hdr EXCEPT ![PageOf(ram.gen + 1)] = ram.gen + 1]
           /\ file'.stable = file.stable /\ file'.synced = file.synced
           /\ HandleOK(ram') /\ ram'.gen = ram.gen + 1 /\ ram'.fd = ram.fd
           /\ ram'.end = ram.end /\ \A st : Matches(st, ram) => Matches(st, ram')
<1>1. PICK n \in Nat : n = ram.gen + 1 BY Kept0, HandleTypes
<1>2. PageOf(n) \in 1..2 BY DEF PageOf
<1>3. file' = [file EXCEPT !.hdr[PageOf(n)] = n] /\ ram' = [ram EXCEPT !.gen = n]
  BY <1>1 DEF WriteHeader
<1>4. ram' = [ram EXCEPT !.gen = @ + 1] BY <1>1, <1>3
<1>5. n \in Nat \cup {Bad} /\ FileOK(file) /\ HandleOK(ram) BY Kept0
<1>6. /\ FileOK(file') /\ file'.log = file.log /\ file'.sized = file.sized
      /\ file'.hdr = [file.hdr EXCEPT ![PageOf(n)] = n] /\ file'.stable = file.stable
      /\ file'.synced = file.synced
  BY <1>2, <1>3, <1>5, WithHeader
<1>7. /\ HandleOK(ram') /\ ram'.gen = ram.gen + 1 /\ ram'.fd = ram.fd
      /\ ram'.end = ram.end /\ \A st : Matches(st, ram) => Matches(st, ram')
  BY <1>4, <1>5, WithGen
<1> QED BY <1>1, <1>6, <1>7

LEMMA HeaderFailed ==
    ASSUME LogInv, WriteHeaderFails
    PROVE  /\ FileOK(file') /\ file'.log = file.log /\ file'.sized = file.sized
           /\ file'.synced = file.synced
           /\ faults' \in Nat /\ faults' = faults + 1
<1>1. PICK n \in Nat : n = ram.gen + 1 BY Kept0, HandleTypes
<1>2. PageOf(n) \in 1..2 BY DEF PageOf
<1>3. PICK left \in {Bad, file.hdr[PageOf(n)]} : file' = [file EXCEPT !.hdr[PageOf(n)] = left]
  BY <1>1 DEF WriteHeaderFails
<1>4. FileOK(file) /\ file.hdr \in Pages BY Kept0, FileTypes
<1>5. left \in Nat \cup {Bad} BY <1>2, <1>4 DEF Pages
<1>6. faults' = faults + 1 /\ faults \in Nat BY Kept0 DEF WriteHeaderFails, WriteFails
<1> QED BY <1>2, <1>3, <1>4, <1>5, <1>6, WithHeader

LEMMA CreateHeaderLog == ASSUME LogInv, CreateHeader PROVE LogInv'
<1>0. /\ pc = "create" /\ previous' = previous /\ todo' = todo
      /\ kills' = kills /\ power' = power
  BY DEF CreateHeader
<1>c. file.log = <<>> /\ file.sized /\ Matches(EmptyRam, ram) /\ ~ram.fd
  BY <1>0 DEF LogInv
<1>1. CASE WriteHeader /\ UNCHANGED <<pc, faults>>
  <2>1. /\ FileOK(file') /\ file'.log = file.log /\ file'.sized = file.sized
        /\ HandleOK(ram') /\ ram'.fd = ram.fd
        /\ Matches(EmptyRam, ram')
    BY <1>1, <1>c, HeaderWritten
  <2>2. pc' = "create" /\ faults' = faults BY <1>0, <1>1
  <2>3. TypeInv' BY <1>0, <2>1, <2>2, Kept0 DEF TypeInv
  <2>4. Running' /\ ~Steady' /\ pc' \notin Renamed
    BY <1>c, <2>1, <2>2 DEF Running, Steady, Renamed
  <2>5. TodoOK(pc', todo', ram') BY <2>2, TodoFree DEF Flushing
  <2> QED BY <1>c, <2>1, <2>2, <2>3, <2>4, <2>5 DEF LogInv
<1>2. CASE WriteHeaderFails /\ pc' = "closed" /\ ram' = EmptyRam
  <2>1. CountersOK BY <1>0, <1>2, HeaderFailed, Kept0 DEF CountersOK
  <2>2. FileOK(file') BY <1>2, HeaderFailed
  <2> QED BY <1>0, <1>2, <2>1, <2>2, Kept0, Stops
<1> QED BY <1>1, <1>2 DEF CreateHeader

LEMMA FaultCounted ==
    ASSUME LogInv, WriteFails, kills' = kills, power' = power
    PROVE  CountersOK
BY Kept0 DEF WriteFails, CountersOK

LEMMA SameCounters ==
    ASSUME LogInv, faults' = faults, kills' = kills, power' = power
    PROVE  CountersOK
BY Kept0 DEF CountersOK

LEMMA CreateSyncLog == ASSUME LogInv, CreateSync PROVE LogInv'
<1>0. /\ pc = "create" /\ previous' = previous /\ todo' = todo
      /\ kills' = kills /\ power' = power
  BY DEF CreateSync
<1>c. file.log = <<>> /\ file.sized /\ Matches(EmptyRam, ram) /\ ~ram.fd
  BY <1>0 DEF LogInv
<1>1. CASE /\ file' = Synced(file) /\ ram' = [ram EXCEPT !.fd = TRUE]
           /\ pc' = "open" /\ UNCHANGED faults
  <2>1. FileOK(file') /\ file'.log = <<>> /\ file'.sized
    BY <1>1, <1>c, Kept0, SyncedOK
  <2>2. HandleOK(ram') /\ ram'.fd /\ Matches(EmptyRam, ram') /\ ram'.end = ram.end
    <3>1. PICK open \in BOOLEAN : open OBVIOUS
    <3>2. ram' = [ram EXCEPT !.fd = open] BY <1>1, <3>1
    <3> QED BY <1>c, <3>1, <3>2, Kept0, WithFd
  <2>3. ValidEnd(<<>>) = 0
    <3>1. <<>> \in Seq(Cells) /\ Len(<<>>) = 0 OBVIOUS
    <3>2. ValidEnd(<<>>) \in 0..Len(<<>>) BY <3>1, ValidEndIs
    <3> QED BY <3>1, <3>2
  <2>4. ram.end = 0 BY <1>c DEF Matches, EmptyRam
  <2>5. Replayed(<<>>, 0) = EmptyRam BY ReplayedStep
  <2>6. SteadyOK(file', ram') BY <2>1, <2>2, <2>3, <2>4, <2>5 DEF SteadyOK
  <2>7. pc' \in Working /\ TodoOK(pc', todo', ram')
    BY <1>1, TodoFree DEF Working, Flushing
  <2>8. CountersOK BY <1>0, <1>1, SameCounters
  <2> QED BY <1>0, <2>6, <2>7, <2>8, Kept0, Works
<1>2. CASE WriteFails /\ pc' = "closed" /\ ram' = EmptyRam /\ UNCHANGED file
  <2>1. CountersOK BY <1>0, <1>2, FaultCounted
  <2> QED BY <1>0, <1>2, <2>1, Kept0, Stops
<1> QED BY <1>1, <1>2 DEF CreateSync

LEMMA OpenRefusedLog == ASSUME LogInv, OpenRefused PROVE LogInv'
<1>1. /\ pc = "closed" /\ pc' = "refused" /\ file' = file /\ previous' = previous
      /\ ram' = ram
  BY DEF OpenRefused
<1>2. ram = EmptyRam BY <1>1 DEF LogInv, Running
<1>3. CountersOK BY SameCounters DEF OpenRefused
<1> QED BY <1>1, <1>2, <1>3, Kept0, Stops

LEMMA OpenExistingLog == ASSUME LogInv, OpenExisting PROVE LogInv'
<1>1. /\ file.sized /\ Newest(file.hdr) # Bad
      /\ ram' = [Replay(ValidRecords(file.log)) EXCEPT !.gen = Newest(file.hdr), !.fd = TRUE]
      /\ file' = [file EXCEPT !.log = ValidRecords(file.log)]
      /\ pc' \in {"open", "compactOnOpen"} /\ previous' = previous
  BY DEF OpenExisting
<1>2. PICK gen \in Nat : gen = Newest(file.hdr)
  <2>1. file.hdr \in Pages BY Kept0, FileTypes
  <2> QED BY <1>1, <2>1 DEF Newest, Pages
<1>3. SteadyOK(file', ram') BY <1>1, <1>2, Kept0, SteadyOpened
<1>4. CountersOK BY SameCounters DEF OpenExisting
<1>5. pc' \in Working /\ TodoOK(pc', todo', ram') BY <1>1, TodoFree DEF Working, Flushing
<1> QED BY <1>1, <1>3, <1>4, <1>5, Kept0, Works

----------------------------------------------------------------------------
\* add() and remove()

\* A write that failed leaves the handle on its file.
LEMMA AppendFailed ==
    ASSUME LogInv, SteadyOK(file, ram), AppendFails
    PROVE  SteadyOK(file', ram) /\ faults' \in Nat /\ faults' = faults + 1
<1>1. PICK log \in Overwritten(Torn) \cup {file.log} : file' = [file EXCEPT !.log = log]
  BY DEF AppendFails
<1>2. faults' = faults + 1 BY DEF AppendFails, WriteFails
<1> QED BY <1>1, <1>2, SteadyNoAppend, Kept0

LEMMA AddDocsLog == ASSUME LogInv, AddDocs PROVE LogInv'
<1>1. /\ pc = "open" /\ ram.fd /\ pc' = "add" /\ file' = file /\ previous' = previous
      /\ ram' = ram
  BY DEF AddDocs
<1>n. PICK n \in 1..MaxBatch : \E metas \in [1..n -> Metas] :
        ram.nextId + n - 1 <= MaxId /\ todo' = metas
  BY DEF AddDocs
<1>2. PICK metas \in [1..n -> Metas] : ram.nextId + n - 1 <= MaxId /\ todo' = metas
  BY <1>n
<1>3. SteadyOK(file, ram) BY <1>1, SteadyAt DEF Working
<1>4. n \in Nat /\ n >= 1 /\ ram.nextId \in Nat /\ MaxId \in Nat
  BY VectorLogAssumption, ByteFacts, Kept0, HandleTypes
<1>5. todo' \in Seq(Metas) /\ Len(todo') = n BY <1>2, <1>4, SeqDef
<1>6. TodoOK(pc', todo', ram') BY <1>1, <1>2, <1>4, <1>5 DEF TodoOK, Flushing
<1>7. CountersOK BY SameCounters DEF AddDocs
<1> QED BY <1>1, <1>3, <1>6, <1>7, Kept0, Works DEF Working

LEMMA AddDocLog == ASSUME LogInv, AddDoc PROVE LogInv'
<1>0. pc = "add" /\ previous' = previous /\ kills' = kills /\ power' = power
  BY DEF AddDoc
<1>1. SteadyOK(file, ram) BY <1>0, OpenAt DEF Working
<1>2. /\ todo \in Seq(Metas) /\ Len(todo) >= 1 /\ ram.nextId + Len(todo) <= MaxId + 1
      /\ Len(todo) \in Nat /\ ram.nextId \in Nat /\ MaxId \in Nat
  <2>1. todo \in Seq(Metas) /\ Len(todo) >= 1 /\ ram.nextId + Len(todo) <= MaxId + 1
    BY <1>0 DEF LogInv, TodoOK
  <2>2. Len(todo) \in Nat BY <2>1
  <2> QED BY <2>1, <2>2, ByteFacts, Kept0, HandleTypes
<1>3. Head(todo) \in Metas /\ ram.nextId <= MaxId
  <2>1. todo # <<>> BY <1>2
  <2> QED BY <1>2, <2>1
<1>4. CASE /\ AppendRecord(Put(ram.nextId, Head(todo)))
           /\ ram' = [ram EXCEPT
                        !.entries = Append(@, NewEntry(ram.nextId, Head(todo))),
                        !.nextId = @ + 1, !.live = @ + 1, !.end = @ + 1]
           /\ todo' = Tail(todo)
           /\ pc' = IF Len(todo) = 1 THEN "open" ELSE "add"
           /\ UNCHANGED faults
  <2>1. PICK log \in Overwritten(Put(ram.nextId, Head(todo))) :
          file' = [file EXCEPT !.log = log]
    BY <1>4 DEF AppendRecord
  <2>2. SteadyOK(file', ram') /\ ram'.nextId = ram.nextId + 1
    BY <1>1, <1>3, <1>4, <2>1, SteadyAdd
  <2>3. todo' \in Seq(Metas) /\ Len(todo') = Len(todo) - 1
    BY <1>2, <1>4
  <2>4. TodoOK(pc', todo', ram')
    <3>1. CASE Len(todo) = 1 BY <1>4, <3>1, TodoFree DEF Flushing
    <3>2. CASE Len(todo) # 1
      <4>1. pc' = "add" /\ Len(todo') >= 1 BY <1>2, <1>4, <2>3, <3>2
      <4>2. ram'.nextId + Len(todo') <= MaxId + 1 BY <1>2, <2>2, <2>3
      <4> QED BY <2>3, <4>1, <4>2 DEF TodoOK, Flushing
    <3> QED BY <3>1, <3>2
  <2>5. pc' \in Working BY <1>4 DEF Working
  <2>6. CountersOK BY <1>0, <1>4, SameCounters
  <2> QED BY <1>0, <2>2, <2>4, <2>5, <2>6, Kept0, Works
<1>5. CASE AppendFails /\ todo' = <<>> /\ pc' = "open" /\ UNCHANGED ram
  <2>1. SteadyOK(file', ram') BY <1>1, <1>5, AppendFailed
  <2>2. CountersOK BY <1>0, <1>5, FaultCounted DEF AppendFails
  <2>3. pc' \in Working /\ TodoOK(pc', todo', ram')
    BY <1>5, TodoFree DEF Working, Flushing
  <2> QED BY <1>0, <2>1, <2>2, <2>3, Kept0, Works
<1> QED BY <1>4, <1>5 DEF AddDoc

LEMMA SetToSeqIs ==
    ASSUME NEW S, IsFiniteSet(S), S # {}
    PROVE  LET q == SetToSeq(S) IN
           /\ q \in Seq(S) /\ Len(q) >= 1
           /\ \A i, j \in 1..Len(q) : q[i] = q[j] => i = j
<1> DEFINE n == Cardinality(S)
           q == SetToSeq(S)
<1>1. n \in Nat /\ ExistsBijection(1..n, S) BY FS_CardinalityType
<1>2. n # 0 BY FS_EmptySet
<1>3. \E f \in [1..n -> S] : IsInjective(f)
  BY <1>1 DEF ExistsBijection, Bijection, Injection
<1>4. q \in [1..n -> S] /\ IsInjective(q) BY <1>3 DEF SetToSeq
<1> HIDE DEF q, n
<1>5. q \in Seq(S) /\ Len(q) = n /\ DOMAIN q = 1..n BY <1>1, <1>4, SeqDef
<1>6. \A i, j \in 1..Len(q) : q[i] = q[j] => i = j BY <1>4, <1>5 DEF IsInjective
<1> QED BY <1>1, <1>2, <1>5, <1>6 DEF q, n

LEMMA LiveIs ==
    ASSUME LogInv
    PROVE  /\ LiveLabels = Alive(ram.entries) /\ IsFiniteSet(LiveLabels)
           /\ \A l \in LiveLabels : l \in 1..Len(ram.entries) /\ ~ram.entries[l].deleted
<1>1. DOMAIN ram.entries = 1..Len(ram.entries) /\ Len(ram.entries) \in Nat
  BY Kept0, HandleTypes
<1>2. LiveLabels = Alive(ram.entries) BY <1>1 DEF LiveLabels, Alive
<1>3. IsFiniteSet(1..Len(ram.entries)) BY <1>1, FS_Interval
<1>4. Alive(ram.entries) \subseteq 1..Len(ram.entries) BY DEF Alive
<1>5. IsFiniteSet(LiveLabels) BY <1>2, <1>3, <1>4, FS_Subset
<1> QED BY <1>2, <1>5 DEF Alive

LEMMA RemoveDocsLog == ASSUME LogInv, RemoveDocs PROVE LogInv'
<1>1. /\ pc = "open" /\ ram.fd /\ pc' = "remove" /\ file' = file /\ previous' = previous
      /\ ram' = ram
  BY DEF RemoveDocs
<1>2. PICK gone \in SUBSET LiveLabels : gone # {} /\ todo' = SetToSeq(gone)
  BY DEF RemoveDocs
<1>3. SteadyOK(file, ram) BY <1>1, SteadyAt DEF Working
<1>4. IsFiniteSet(gone) /\ gone \subseteq Alive(ram.entries) BY LiveIs, FS_Subset
<1>5. /\ todo' \in Seq(gone) /\ Len(todo') >= 1
      /\ \A i, j \in 1..Len(todo') : todo'[i] = todo'[j] => i = j
  BY <1>2, <1>4, SetToSeqIs
<1>6. todo' \in Seq(Alive(ram.entries)) BY <1>4, <1>5
<1>7. TodoOK(pc', todo', ram') BY <1>1, <1>5, <1>6 DEF TodoOK, Flushing
<1>8. CountersOK BY SameCounters DEF RemoveDocs
<1> QED BY <1>1, <1>3, <1>7, <1>8, Kept0, Works DEF Working

LEMMA TailWithout ==
    ASSUME NEW S, NEW q \in Seq(S), Len(q) >= 1,
           \A i, j \in 1..Len(q) : q[i] = q[j] => i = j
    PROVE  /\ Tail(q) \in Seq(S \ {Head(q)}) /\ Len(Tail(q)) = Len(q) - 1
           /\ \A i, j \in 1..Len(Tail(q)) : Tail(q)[i] = Tail(q)[j] => i = j
<1> DEFINE t == Tail(q)
<1>0. Len(q) \in Nat /\ q # <<>> /\ Head(q) = q[1] OBVIOUS
<1>1. /\ t \in Seq(S) /\ Len(t) = Len(q) - 1
      /\ \A i \in 1..Len(t) : t[i] = q[i + 1]
  BY <1>0
<1> HIDE DEF t
<1>2. \A i \in 1..Len(t) : i + 1 \in 1..Len(q) /\ i + 1 # 1 BY <1>0, <1>1
<1>3. \A i \in 1..Len(t) : t[i] \in S \ {Head(q)}
  <2> TAKE i \in 1..Len(t)
  <2>1. t[i] \in S BY <1>1
  <2>2. 1 \in 1..Len(q) BY <1>0
  <2>3. t[i] # q[1] BY <1>1, <1>2, <2>2
  <2> QED BY <1>0, <2>1, <2>3
<1>4. t \in Seq(S \ {Head(q)})
  <2> DEFINE R == S \ {Head(q)}
  <2>1. PICK n \in Nat : n = Len(t) BY <1>1
  <2>2. t = [i \in 1..n |-> t[i]] BY <1>1, <2>1
  <2> HIDE DEF R
  <2>3. \A i \in 1..n : t[i] \in R BY <1>3, <2>1 DEF R
  <2>4. t \in [1..n -> R] BY <2>2, <2>3
  <2>5. t \in Seq(R) BY <2>4, SeqDef
  <2> QED BY <2>5 DEF R
<1>5. \A i, j \in 1..Len(t) : t[i] = t[j] => i = j
  <2> SUFFICES ASSUME NEW i \in 1..Len(t), NEW j \in 1..Len(t), t[i] = t[j]
               PROVE  i = j
    OBVIOUS
  <2>1. q[i + 1] = q[j + 1] BY <1>1
  <2>2. i + 1 = j + 1 BY <1>2, <2>1
  <2> QED BY <2>2, <1>0, <1>1
<1> QED BY <1>1, <1>4, <1>5 DEF t

LEMMA RemoveDocLog == ASSUME LogInv, RemoveDoc PROVE LogInv'
<1>0. pc = "remove" /\ previous' = previous /\ kills' = kills /\ power' = power
  BY DEF RemoveDoc
<1>1. SteadyOK(file, ram) BY <1>0, OpenAt DEF Working
<1> DEFINE l == Head(todo)
<1>2. /\ todo \in Seq(Alive(ram.entries)) /\ Len(todo) >= 1 /\ Len(todo) \in Nat
      /\ \A i, j \in 1..Len(todo) : todo[i] = todo[j] => i = j
  <2>1. /\ todo \in Seq(Alive(ram.entries)) /\ Len(todo) >= 1
        /\ \A i, j \in 1..Len(todo) : todo[i] = todo[j] => i = j
    BY <1>0 DEF LogInv, TodoOK
  <2> QED BY <2>1
<1>3. l \in 1..Len(ram.entries) /\ ~ram.entries[l].deleted
  <2>1. todo # <<>> BY <1>2
  <2>2. l \in Alive(ram.entries) BY <1>2, <2>1
  <2> QED BY <2>2 DEF Alive
<1>4. CASE /\ AppendRecord(Del(ram.entries[l].id))
           /\ ram' = [Bury(ram, l) EXCEPT !.garbage = @ + Bytes["Del"],
                                          !.end = @ + 1]
           /\ todo' = Tail(todo)
           /\ pc' = IF Len(todo) = 1 THEN "open" ELSE "remove"
           /\ UNCHANGED faults
  <2>1. PICK log \in Overwritten(Del(ram.entries[l].id)) :
          file' = [file EXCEPT !.log = log]
    BY <1>4 DEF AppendRecord
  <2>2. SteadyOK(file', ram') /\ Alive(ram'.entries) = Alive(ram.entries) \ {l}
    BY <1>1, <1>3, <1>4, <2>1, SteadyRemove
  <2>3. /\ todo' \in Seq(Alive(ram'.entries)) /\ Len(todo') = Len(todo) - 1
        /\ \A i, j \in 1..Len(todo') : todo'[i] = todo'[j] => i = j
    BY <1>2, <1>4, <2>2, TailWithout
  <2>4. TodoOK(pc', todo', ram')
    <3>1. CASE Len(todo) = 1 BY <1>4, <3>1, TodoFree DEF Flushing
    <3>2. CASE Len(todo) # 1
      <4>1. pc' = "remove" /\ Len(todo') >= 1 BY <1>2, <1>4, <2>3, <3>2
      <4> QED BY <2>3, <4>1 DEF TodoOK, Flushing
    <3> QED BY <3>1, <3>2
  <2>5. pc' \in Working BY <1>4 DEF Working
  <2>6. CountersOK BY <1>0, <1>4, SameCounters
  <2> QED BY <1>0, <2>2, <2>4, <2>5, <2>6, Kept0, Works
<1>5. CASE AppendFails /\ todo' = <<>> /\ pc' = "open" /\ UNCHANGED ram
  <2>1. SteadyOK(file', ram') BY <1>1, <1>5, AppendFailed
  <2>2. CountersOK BY <1>0, <1>5, FaultCounted DEF AppendFails
  <2>3. pc' \in Working /\ TodoOK(pc', todo', ram')
    BY <1>5, TodoFree DEF Working, Flushing
  <2> QED BY <1>0, <2>1, <2>2, <2>3, Kept0, Works
<1> QED BY <1>4, <1>5 DEF RemoveDoc

----------------------------------------------------------------------------
\* update_metadata() and update_metadata_deferred()

LEMMA UpdateMetadataLog ==
    ASSUME LogInv, NEW l \in LiveLabels, NEW m \in Metas, UpdateMetadata(l, m)
    PROVE  LogInv'
<1>1. /\ pc = "open" /\ ram.fd /\ pc' = "open" /\ previous' = previous
      /\ ram' = WithSet(ram, l, m) /\ AppendRecord(Set(ram.entries[l].id, m))
  BY DEF UpdateMetadata
<1>2. SteadyOK(file, ram) BY <1>1, SteadyAt DEF Working
<1>3. l \in 1..Len(ram.entries) /\ ~ram.entries[l].deleted BY LiveIs
<1>4. PICK log \in Overwritten(Set(ram.entries[l].id, m)) :
        file' = [file EXCEPT !.log = log]
  BY <1>1 DEF AppendRecord
<1>5. SteadyOK(file', ram') BY <1>1, <1>2, <1>3, <1>4, SteadySet
<1>6. pc' \in Working /\ TodoOK(pc', todo', ram') BY <1>1, TodoFree DEF Working, Flushing
<1>7. CountersOK BY SameCounters DEF UpdateMetadata
<1> QED BY <1>1, <1>5, <1>6, <1>7, Kept0, Works

LEMMA UpdateMetadataFailsLog == ASSUME LogInv, UpdateMetadataFails PROVE LogInv'
<1>1. /\ pc = "open" /\ ram.fd /\ pc' = "open" /\ previous' = previous
      /\ ram' = ram /\ AppendFails /\ kills' = kills /\ power' = power
  BY DEF UpdateMetadataFails
<1>2. SteadyOK(file, ram) BY <1>1, SteadyAt DEF Working
<1>3. SteadyOK(file', ram') BY <1>1, <1>2, AppendFailed
<1>4. pc' \in Working /\ TodoOK(pc', todo', ram') BY <1>1, TodoFree DEF Working, Flushing
<1>5. CountersOK BY <1>1, FaultCounted DEF AppendFails
<1> QED BY <1>1, <1>3, <1>4, <1>5, Kept0, Works

LEMMA UpdateMetadataDeferredLog ==
    ASSUME LogInv, NEW l \in LiveLabels, NEW m \in Metas, UpdateMetadataDeferred(l, m)
    PROVE  LogInv'
<1>1. /\ pc = "open" /\ ram.fd /\ pc' = "open" /\ previous' = previous /\ file' = file
      /\ ram' = [ram EXCEPT !.entries[l].meta = m, !.entries[l].dirty = TRUE]
  BY DEF UpdateMetadataDeferred
<1>2. SteadyOK(file, ram) BY <1>1, SteadyAt DEF Working
<1>3. l \in 1..Len(ram.entries) BY LiveIs
<1>5. SteadyOK(file', ram') BY <1>1, <1>2, <1>3, SteadyDirty
<1>6. pc' \in Working /\ TodoOK(pc', todo', ram') BY <1>1, TodoFree DEF Working, Flushing
<1>7. CountersOK BY SameCounters DEF UpdateMetadataDeferred
<1> QED BY <1>1, <1>5, <1>6, <1>7, Kept0, Works

----------------------------------------------------------------------------
\* flush() and the destructor

LEMMA FlushLog == ASSUME LogInv, Flush PROVE LogInv'
<1>1. /\ pc = "open" /\ ram.fd /\ pc' = "flushMeta" /\ file' = file
      /\ previous' = previous /\ ram' = ram
      /\ \E closing \in BOOLEAN : todo' = <<closing>>
  BY DEF Flush
<1>2. SteadyOK(file, ram) BY <1>1, SteadyAt DEF Working
<1>3. TodoOK(pc', todo', ram') BY <1>1 DEF TodoOK
<1>4. CountersOK BY SameCounters DEF Flush
<1>5. pc' \in Working BY <1>1 DEF Working, Flushing
<1> QED BY <1>1, <1>2, <1>3, <1>4, <1>5, Kept0, Works

\* A flush that ends leaves the handle as it stands, or closes it.
LEMMA FlushEndsLog ==
    ASSUME LogInv, pc \in Flushing, NEW st, SteadyOK(file', st), FlushEnds(st),
           previous' = previous, CountersOK
    PROVE  LogInv'
<1>1. PICK closing \in BOOLEAN : todo = <<closing>> BY DEF LogInv, TodoOK
<1>2. Head(todo) = closing BY <1>1
<1>3. CASE closing
  <2>1. pc' = "closed" /\ ram' = EmptyRam BY <1>2, <1>3 DEF FlushEnds
  <2>2. FileOK(file') BY DEF SteadyOK
  <2> QED BY <2>1, <2>2, Kept0, Stops
<1>4. CASE ~closing
  <2>1. pc' = "open" /\ ram' = st BY <1>2, <1>4 DEF FlushEnds
  <2>2. pc' \in Working /\ TodoOK(pc', todo', ram')
    BY <2>1, TodoFree DEF Working, Flushing
  <2> QED BY <2>1, <2>2, Kept0, Works
<1> QED BY <1>3, <1>4

LEMMA FirstDirty ==
    ASSUME LogInv, DirtyLive # {}
    PROVE  LET l == Min(DirtyLive) IN
           /\ l \in 1..Len(ram.entries) /\ ~ram.entries[l].deleted
           /\ ram.entries[l].meta \in Metas
<1>1. DirtyLive \subseteq LiveLabels BY DEF DirtyLive
<1>2. \A l \in LiveLabels : l \in 1..Len(ram.entries) /\ ~ram.entries[l].deleted
  BY LiveIs
<1>3. Len(ram.entries) \in Nat /\ \A l \in 1..Len(ram.entries) : ram.entries[l] \in Entries
  BY Kept0, HandleTypes
<1>4. DirtyLive \subseteq Nat BY <1>1, <1>2, <1>3
<1>5. \E x \in DirtyLive : \A y \in DirtyLive : x <= y BY <1>4, Least
<1>6. Min(DirtyLive) \in DirtyLive BY <1>5 DEF Min
<1> QED BY <1>1, <1>2, <1>3, <1>6, EntryTypes

LEMMA FlushMetaLog == ASSUME LogInv, FlushMeta PROVE LogInv'
<1>0. /\ pc = "flushMeta" /\ DirtyLive # {} /\ previous' = previous
      /\ kills' = kills /\ power' = power
  BY DEF FlushMeta
<1>1. SteadyOK(file, ram) /\ pc \in Flushing BY <1>0, OpenAt DEF Working, Flushing
<1> DEFINE l == Min(DirtyLive)
           e == ram.entries[l]
<1>2. l \in 1..Len(ram.entries) /\ ~e.deleted /\ e.meta \in Metas BY <1>0, FirstDirty
<1>3. \/ AppendRecord(Set(e.id, e.meta)) /\ ram' = WithSet(ram, l, e.meta)
         /\ UNCHANGED <<pc, todo, faults>>
      \/ AppendFails /\ FlushEnds(ram)
  BY DEF FlushMeta
<1> HIDE DEF l
<1>4. CASE AppendRecord(Set(e.id, e.meta)) /\ ram' = WithSet(ram, l, e.meta)
           /\ UNCHANGED <<pc, todo, faults>>
  <2>1. PICK log \in Overwritten(Set(e.id, e.meta)) : file' = [file EXCEPT !.log = log]
    BY <1>4 DEF AppendRecord
  <2>2. SteadyOK(file', ram') BY <1>1, <1>2, <1>4, <2>1, SteadySet
  <2>3. pc' = pc /\ todo' = todo /\ faults' = faults BY <1>4
  <2>4. TodoOK(pc', todo', ram') BY <1>0, <2>3 DEF LogInv, TodoOK
  <2>5. CountersOK BY <1>0, <2>3, SameCounters
  <2>6. pc' \in Working BY <1>0, <2>3 DEF Working, Flushing
  <2> QED BY <1>0, <2>2, <2>4, <2>5, <2>6, Kept0, Works
<1>5. CASE AppendFails /\ FlushEnds(ram)
  <2>1. SteadyOK(file', ram) BY <1>1, <1>5, AppendFailed
  <2>2. CountersOK BY <1>0, <1>5, FaultCounted DEF AppendFails
  <2> QED BY <1>0, <1>1, <1>5, <2>1, <2>2, FlushEndsLog
<1> QED BY <1>3, <1>4, <1>5

LEMMA FlushSnapshotLog == ASSUME LogInv, FlushSnapshot PROVE LogInv'
<1>0. /\ pc = "flushMeta" /\ DirtyLive = {} /\ previous' = previous
      /\ kills' = kills /\ power' = power
  BY DEF FlushSnapshot
<1>1. SteadyOK(file, ram) /\ pc \in Flushing BY <1>0, OpenAt DEF Working, Flushing
<1>2. \/ AppendRecord(Snap(Ids(ram.entries))) /\ ram' = Flushed
         /\ pc' = "flushHeader" /\ UNCHANGED <<todo, faults>>
      \/ AppendFails /\ FlushEnds(ram)
  BY DEF FlushSnapshot, Flushed
<1>3. CASE AppendRecord(Snap(Ids(ram.entries))) /\ ram' = Flushed
           /\ pc' = "flushHeader" /\ UNCHANGED <<todo, faults>>
  <2>1. PICK log \in Overwritten(Snap(Ids(ram.entries))) : file' = [file EXCEPT !.log = log]
    BY <1>3 DEF AppendRecord
  <2>2. SteadyOK(file', ram') BY <1>0, <1>1, <1>3, <2>1, SteadySnap
  <2>3. pc' = "flushHeader" /\ todo' = todo /\ faults' = faults BY <1>3
  <2>4. TodoOK(pc', todo', ram') BY <1>0, <2>3 DEF LogInv, TodoOK, Flushing
  <2>5. CountersOK BY <1>0, <2>3, SameCounters
  <2>6. pc' \in Working BY <2>3 DEF Working, Flushing
  <2> QED BY <1>0, <2>2, <2>4, <2>5, <2>6, Kept0, Works
<1>4. CASE AppendFails /\ FlushEnds(ram)
  <2>1. SteadyOK(file', ram) BY <1>1, <1>4, AppendFailed
  <2>2. CountersOK BY <1>0, <1>4, FaultCounted DEF AppendFails
  <2> QED BY <1>0, <1>1, <1>4, <2>1, <2>2, FlushEndsLog
<1> QED BY <1>2, <1>3, <1>4

LEMMA FlushHeaderLog == ASSUME LogInv, FlushHeader PROVE LogInv'
<1>0. /\ pc = "flushHeader" /\ previous' = previous /\ kills' = kills /\ power' = power
  BY DEF FlushHeader
<1>1. SteadyOK(file, ram) /\ pc \in Flushing BY <1>0, OpenAt DEF Working, Flushing
<1>2. FileOK(file) /\ file.sized BY <1>1 DEF SteadyOK
<1>3. CASE WriteHeader /\ pc' = "flushSync" /\ UNCHANGED <<todo, faults>>
  <2>1. /\ FileOK(file') /\ file'.log = file.log /\ file'.sized = file.sized
        /\ HandleOK(ram') /\ ram'.fd = ram.fd /\ ram'.end = ram.end
        /\ \A st : Matches(st, ram) => Matches(st, ram')
    BY <1>3, HeaderWritten
  <2>2. SteadyOK(file', ram') BY <1>1, <2>1 DEF SteadyOK
  <2>3. pc' = "flushSync" /\ todo' = todo /\ faults' = faults BY <1>3
  <2>4. TodoOK(pc', todo', ram') BY <1>0, <2>3 DEF LogInv, TodoOK, Flushing
  <2>5. CountersOK BY <1>0, <2>3, SameCounters
  <2>6. pc' \in Working BY <2>3 DEF Working, Flushing
  <2> QED BY <1>0, <2>2, <2>4, <2>5, <2>6, Kept0, Works
<1>4. CASE WriteHeaderFails /\ FlushEnds([ram EXCEPT !.gen = @ + 1])
  <2> DEFINE s == [ram EXCEPT !.gen = @ + 1]
  <2>1. FileOK(file') /\ file'.log = file.log /\ file'.sized = file.sized
    BY <1>4, HeaderFailed
  <2>2. /\ HandleOK(s) /\ s.fd = ram.fd /\ s.end = ram.end
        /\ \A st : Matches(st, ram) => Matches(st, s)
    BY Kept0, WithGen
  <2>3. FlushEnds(s) BY <1>4
  <2> HIDE DEF s
  <2>4. SteadyOK(file', s) BY <1>1, <2>1, <2>2 DEF SteadyOK
  <2>5. CountersOK BY <1>0, <1>4, FaultCounted DEF WriteHeaderFails
  <2> QED BY <1>0, <1>1, <2>3, <2>4, <2>5, FlushEndsLog
<1> QED BY <1>3, <1>4 DEF FlushHeader

LEMMA FlushSyncLog == ASSUME LogInv, FlushSync PROVE LogInv'
<1>0. /\ pc = "flushSync" /\ previous' = previous /\ kills' = kills /\ power' = power
      /\ FlushEnds(ram)
  BY DEF FlushSync
<1>1. SteadyOK(file, ram) /\ pc \in Flushing BY <1>0, OpenAt DEF Working, Flushing
<1>2. SteadyOK(file', ram) /\ CountersOK
  <2>1. CASE file' = Synced(file) /\ UNCHANGED faults
    <3>1. FileOK(file') /\ file'.log = file.log /\ file'.sized = file.sized
      BY <2>1, Kept0, SyncedOK
    <3>2. CountersOK BY <1>0, <2>1, SameCounters
    <3> QED BY <1>1, <3>1, <3>2, SteadySame
  <2>2. CASE WriteFails /\ UNCHANGED file
    <3>1. CountersOK BY <1>0, <2>2, FaultCounted
    <3> QED BY <1>1, <2>2, <3>1
  <2> QED BY <2>1, <2>2 DEF FlushSync
<1> QED BY <1>0, <1>1, <1>2, FlushEndsLog

----------------------------------------------------------------------------
\* compact()

LEMMA CompactLog == ASSUME LogInv, Compact PROVE LogInv'
<1>1. /\ pc \in {"open", "compactOnOpen"} /\ ram.fd
      /\ pc' \in Renamed /\ file' = CompactedFile
      /\ previous' \subseteq previous \cup {file} /\ ram' = ram /\ todo' = todo
      /\ faults' = faults /\ kills' = kills /\ power' = power
  <2>1. /\ file' = CompactedFile /\ previous' \subseteq previous \cup {file}
        /\ ram' = ram /\ todo' = todo
        /\ faults' = faults /\ kills' = kills /\ power' = power
    BY DEF Compact
  <2>2. CASE pc = "open" /\ ram.fd /\ pc' = "renamed" BY <2>1, <2>2 DEF Renamed
  <2>3. CASE pc = "compactOnOpen" /\ pc' = "renamedOnOpen"
    BY <2>1, <2>3, OpenAt DEF Renamed, Working
  <2> QED BY <2>2, <2>3 DEF Compact
<1>2. FileOK(file) /\ file.sized /\ HandleOK(ram)
  BY <1>1, SteadyAt DEF Working, SteadyOK
<1>3. FileOK(file') /\ file'.log = CompactedLog /\ file'.sized
  BY <1>1, <1>2, SteadyCompacted
<1>4. CompactedLog' = CompactedLog BY <1>1 DEF CompactedLog, Kept
<1>5. TypeInv' BY <1>1, <1>2, <1>3, Kept0 DEF TypeInv, Pcs, Renamed
<1>6. Running' /\ ~Steady' /\ pc' # "create" BY <1>1 DEF Running, Steady, Renamed
<1>7. TodoOK(pc', todo', ram') BY <1>1, TodoFree DEF Renamed, Flushing
<1> QED BY <1>1, <1>3, <1>4, <1>5, <1>6, <1>7 DEF LogInv

LEMMA CompactOnOpenFailsLog == ASSUME LogInv, CompactOnOpenFails PROVE LogInv'
<1>1. /\ pc' = "closed" /\ ram' = EmptyRam /\ file' = file /\ previous' = previous
      /\ WriteFails /\ kills' = kills /\ power' = power
  BY DEF CompactOnOpenFails
<1>2. CountersOK BY <1>1, FaultCounted
<1> QED BY <1>1, <1>2, Kept0, Stops

LEMMA CompactReopenLog == ASSUME LogInv, CompactReopen PROVE LogInv'
<1>1. /\ pc \in Renamed /\ previous' \in {{}, previous} /\ file' = file /\ todo' = todo
      /\ kills' = kills /\ power' = power
  BY DEF CompactReopen, Renamed
<1>0. \A f \in previous' : FileOK(f) BY <1>1, Kept0
<1>2. /\ FileOK(file) /\ file.sized /\ HandleOK(ram) /\ ram.fd
      /\ file.log = CompactedLog
  BY <1>1, Kept0 DEF LogInv
<1>3. CASE ram' = CompactedRam /\ pc' = "open" /\ (UNCHANGED faults \/ WriteFails)
  <2>1. SteadyOK(file', ram') BY <1>1, <1>2, <1>3, SteadyReopened
  <2>2. CountersOK BY <1>1, <1>3, SameCounters, FaultCounted
  <2>3. pc' \in Working /\ TodoOK(pc', todo', ram')
    BY <1>3, TodoFree DEF Working, Flushing
  <2> QED BY <1>0, <2>1, <2>2, <2>3, Works
<1>4. CASE WriteFails /\ pc' = "open" /\ ram' = [ram EXCEPT !.fd = FALSE]
  <2>1. HandleOK(ram') /\ ~ram'.fd
    <3>1. PICK open \in BOOLEAN : ~open OBVIOUS
    <3>2. ram' = [ram EXCEPT !.fd = open] BY <1>4, <3>1
    <3> QED BY <1>2, <3>1, <3>2, WithFd
  <2>2. CountersOK BY <1>1, <1>4, FaultCounted
  <2>3. TypeInv' BY <1>0, <1>1, <1>2, <1>4, <2>1, <2>2 DEF TypeInv, CountersOK, Pcs
  <2>4. Running' /\ ~Steady' /\ pc' \notin Renamed
    BY <1>4, <2>1 DEF Running, Steady, Renamed
  <2>5. TodoOK(pc', todo', ram') BY <1>4, TodoFree DEF Flushing
  <2> QED BY <1>4, <2>3, <2>4, <2>5 DEF LogInv
<1>5. CASE WriteFails /\ pc' = "closed" /\ ram' = EmptyRam
  <2>1. CountersOK BY <1>1, <1>5, FaultCounted
  <2> QED BY <1>0, <1>1, <1>2, <1>5, <2>1, Stops
<1> QED BY <1>3, <1>4, <1>5 DEF CompactReopen, Reopened, NotReopened

LEMMA CloseDeadLog == ASSUME LogInv, CloseDead PROVE LogInv'
<1>1. pc' = "closed" /\ ram' = EmptyRam /\ file' = file /\ previous' = previous
  BY DEF CloseDead
<1>2. CountersOK BY SameCounters DEF CloseDead
<1> QED BY <1>1, <1>2, Kept0, Stops

----------------------------------------------------------------------------
\* The environment.

LEMMA KillLog == ASSUME LogInv, Kill PROVE LogInv'
<1>1. /\ pc' = "closed" /\ ram' = EmptyRam /\ file' = file /\ previous' = previous
      /\ kills' = kills + 1 /\ faults' = faults /\ power' = power
  BY DEF Kill
<1>2. CountersOK BY <1>1, Kept0 DEF CountersOK
<1> QED BY <1>1, <1>2, Kept0, Stops

LEMMA PowerLossLog == ASSUME LogInv, PowerLoss PROVE LogInv'
<1>1. /\ pc' = "closed" /\ ram' = EmptyRam /\ previous' = {}
      /\ power' = power + 1 /\ faults' = faults /\ kills' = kills
  BY DEF PowerLoss
<1>2. PICK f \in {file} \cup previous : \E g \in AfterPowerLoss(f) : file' = Settled(g)
  BY DEF PowerLoss
<1>3. PICK g \in AfterPowerLoss(f) : file' = Settled(g) BY <1>2
<1>4. FileOK(f) BY Kept0
<1>5. FileOK(file') BY <1>3, <1>4, AfterPowerLossOK
<1>6. CountersOK BY <1>1, Kept0 DEF CountersOK
<1> QED BY <1>1, <1>5, <1>6, Stops

----------------------------------------------------------------------------
LEMMA InitLog == ASSUME Init PROVE LogInv
<1>0. /\ file = NoFile /\ previous = {} /\ ram = EmptyRam /\ pc = "closed"
      /\ faults = 0 /\ kills = 0 /\ power = 0
  BY DEF Init
<1>1. FileOK(NoFile)
  <2>0. <<>> \in Seq(Cells) /\ Len(<<>>) = 0 /\ 1..0 = {} OBVIOUS
  <2>1. ValidEnd(<<>>) = 0
    <3>1. ValidEnd(<<>>) \in 0..Len(<<>>) BY <2>0, ValidEndIs
    <3> QED BY <2>0, <3>1
  <2>2. PICK h \in Pages : h = <<Bad, Bad>>
    <3>1. <<Bad, Bad>> = [p \in 1..2 |-> Bad] OBVIOUS
    <3>2. [p \in 1..2 |-> Bad] \in Pages BY DEF Pages
    <3> QED BY <3>1, <3>2
  <2>3. NoFile.log = <<>> /\ NoFile.synced = 0 BY DEF NoFile
  <2>4. FALSE \in BOOLEAN /\ 0 \in Nat /\ 0 \in 0..0 OBVIOUS
  <2>5. NoFile \in Files BY <2>0, <2>2, <2>4 DEF Files, NoFile
  <2>6. Good(<<>>, 0) BY <2>0 DEF Good
  <2> QED BY <2>1, <2>3, <2>4, <2>5, <2>6 DEF FileOK
<1>2. TypeInv BY <1>0, <1>1, EmptyHandle DEF TypeInv, Pcs
<1>3. ~Running /\ ~Steady /\ pc \notin Renamed BY <1>0 DEF Running, Steady, Renamed
<1>4. TodoOK(pc, todo, ram) BY <1>0, TodoFree DEF Flushing
<1> QED BY <1>0, <1>2, <1>3, <1>4 DEF LogInv

LEMMA SameLog == ASSUME LogInv, UNCHANGED vars PROVE LogInv'
<1>1. /\ file' = file /\ previous' = previous /\ ram' = ram /\ pc' = pc
      /\ todo' = todo /\ faults' = faults /\ kills' = kills /\ power' = power
  BY DEF vars
<1>2. CompactedLog' = CompactedLog BY <1>1 DEF CompactedLog, Kept
<1>3. Running' = Running /\ Steady' = Steady BY <1>1 DEF Running, Steady
<1>4. TypeInv' BY <1>1, Kept0 DEF TypeInv
<1> QED BY <1>1, <1>2, <1>3, <1>4 DEF LogInv

LEMMA NextLog == ASSUME LogInv, [Next]_vars PROVE LogInv'
BY CreateFileLog, CreateHeaderLog, CreateSyncLog, OpenRefusedLog, OpenExistingLog,
   AddDocsLog, AddDocLog, RemoveDocsLog, RemoveDocLog, UpdateMetadataLog,
   UpdateMetadataFailsLog, UpdateMetadataDeferredLog, FlushLog, FlushMetaLog,
   FlushSnapshotLog, FlushHeaderLog, FlushSyncLog, CompactLog, CompactOnOpenFailsLog,
   CompactReopenLog, CloseDeadLog, KillLog, PowerLossLog, SameLog
   DEF Next

LEMMA LogAlways == Spec => []LogInv
<1>1. Init => LogInv BY InitLog
<1>2. LogInv /\ [Next]_vars => LogInv' BY NextLog
<1> QED BY <1>1, <1>2, PTL DEF Spec

----------------------------------------------------------------------------
\* The bytes of some of a log's records.

Weight(log, S, i) == IF i \in S THEN Bytes[log[i].type] ELSE 0

IsSum(g, log, S, n) ==
    /\ g = [i \in 0..n |-> g[i]]
    /\ \A i \in 0..n : g[i] = IF i = 0 THEN 0 ELSE g[i - 1] + Weight(log, S, i)

LEMMA SumExists == ASSUME NEW log, NEW S PROVE \A n \in Nat : \E g : IsSum(g, log, S, n)
<1> DEFINE T == {n \in Nat : ~ \E g : IsSum(g, log, S, n)}
<1> SUFFICES ASSUME T # {} PROVE FALSE
  OBVIOUS
<1>1. PICK n \in T : \A m \in T : n <= m BY Least
<1>2. n # 0
  <2>1. IsSum([i \in 0..0 |-> 0], log, S, 0) BY DEF IsSum
  <2> QED BY <2>1
<1>3. PICK g : IsSum(g, log, S, n - 1) BY <1>1, <1>2
<1> DEFINE w(i) == Weight(log, S, i)
           h == [i \in 0..n |-> IF i = n THEN g[n - 1] + w(n) ELSE g[i]]
<1> HIDE DEF w
<1>4. \A i \in 0..n : h[i] = IF i = 0 THEN 0 ELSE h[i - 1] + w(i)
  <2> TAKE i \in 0..n
  <2>1. CASE i = n BY <1>2, <2>1
  <2>2. CASE i < n
    <3>1. i \in 0..n - 1 /\ h[i] = g[i] BY <2>2
    <3>2. i # 0 => i - 1 \in 0..n - 1 /\ h[i - 1] = g[i - 1] BY <2>2
    <3>3. g[i] = IF i = 0 THEN 0 ELSE g[i - 1] + w(i) BY <1>3, <3>1 DEF IsSum, w
    <3> QED BY <3>1, <3>2, <3>3
  <2> QED BY <2>1, <2>2
<1>5. IsSum(h, log, S, n) BY <1>4 DEF IsSum, w
<1> QED BY <1>5

\* Two sums agree as far as their records and their positions do.
LEMMA SumsAgree ==
    ASSUME NEW log, NEW other, NEW S, NEW T, NEW m \in Nat, NEW n \in Nat, m <= n,
           NEW g, NEW h, IsSum(g, log, S, m), IsSum(h, other, T, n),
           \A i \in 1..m : log[i] = other[i] /\ (i \in S <=> i \in T)
    PROVE  g[m] = h[m]
<1> DEFINE Q == {i \in 0..m : g[i] # h[i]}
<1> SUFFICES ASSUME Q # {} PROVE FALSE
  OBVIOUS
<1>0. Q \subseteq Nat OBVIOUS
<1>1. PICK i \in Q : \A j \in Q : i <= j BY <1>0, Least
<1>i. i \in 0..m /\ i \in 0..n OBVIOUS
<1>2. i # 0 BY <1>i DEF IsSum
<1>3. i - 1 \in 0..m /\ i - 1 \notin Q BY <1>1, <1>2, <1>i
<1>4. g[i - 1] = h[i - 1] BY <1>3
<1>5. g[i] = g[i - 1] + Weight(log, S, i) BY <1>2, <1>i DEF IsSum
<1>6. h[i] = h[i - 1] + Weight(other, T, i) BY <1>2, <1>i DEF IsSum
<1>7. Weight(log, S, i) = Weight(other, T, i) BY <1>2, <1>i DEF Weight
<1> QED BY <1>4, <1>5, <1>6, <1>7

LEMMA BytesAmongIsSum ==
    ASSUME NEW log, NEW S, NEW n \in Nat
    PROVE  \E g : IsSum(g, log, S, n) /\ BytesAmong(log, S, n) = g[n]
<1> DEFINE P(g) == g = [i \in 0..n |->
                          IF i = 0 THEN 0
                          ELSE g[i - 1] + (IF i \in S THEN Bytes[log[i].type] ELSE 0)]
           f == CHOOSE g : P(g)
<1>1. PICK g : IsSum(g, log, S, n) BY SumExists
<1>2. P(g) BY <1>1 DEF IsSum, Weight
<1>3. P(f) BY <1>2
<1>4. BytesAmong(log, S, n) = f[n] BY DEF BytesAmong
<1> HIDE DEF f
<1>5. IsSum(f, log, S, n) BY <1>3 DEF IsSum, Weight
<1> QED BY <1>4, <1>5

LEMMA SumSame ==
    ASSUME NEW log, NEW other, NEW S, NEW T, NEW n \in Nat,
           \A i \in 1..n : log[i] = other[i] /\ (i \in S <=> i \in T)
    PROVE  BytesAmong(log, S, n) = BytesAmong(other, T, n)
<1>1. PICK g : IsSum(g, log, S, n) /\ BytesAmong(log, S, n) = g[n] BY BytesAmongIsSum
<1>2. PICK h : IsSum(h, other, T, n) /\ BytesAmong(other, T, n) = h[n] BY BytesAmongIsSum
<1>3. g[n] = h[n] BY <1>1, <1>2, SumsAgree
<1> QED BY <1>1, <1>2, <1>3

LEMMA SumStep ==
    ASSUME NEW log, NEW S, NEW n \in Nat
    PROVE  /\ BytesAmong(log, S, 0) = 0
           /\ BytesAmong(log, S, n + 1) = BytesAmong(log, S, n) + Weight(log, S, n + 1)
<1>1. PICK z : IsSum(z, log, S, 0) /\ BytesAmong(log, S, 0) = z[0] BY BytesAmongIsSum
<1>2. PICK g : IsSum(g, log, S, n) /\ BytesAmong(log, S, n) = g[n] BY BytesAmongIsSum
<1>3. PICK m \in Nat : m = n + 1 OBVIOUS
<1>4. PICK h : IsSum(h, log, S, m) /\ BytesAmong(log, S, m) = h[m] BY BytesAmongIsSum
<1>5. g[n] = h[n]
  <2>1. n <= m BY <1>3
  <2> QED BY <1>2, <1>4, <2>1, SumsAgree
<1>6. h[m] = h[m - 1] + Weight(log, S, m)
  <2>1. m \in 0..m /\ m # 0 BY <1>3
  <2> QED BY <1>4, <2>1 DEF IsSum
<1>7. BytesAmong(log, S, 0) = 0 BY <1>1 DEF IsSum
<1>8. m - 1 = n BY <1>3
<1> QED BY <1>2, <1>3, <1>4, <1>5, <1>6, <1>7, <1>8

\* Records have sizes.
LEMMA WeightNat ==
    ASSUME NEW log, NEW i, log[i].type \in RecordTypes, NEW S
    PROVE  Weight(log, S, i) \in Nat
BY VectorLogAssumption DEF Weight

LEMMA SumNat ==
    ASSUME NEW log, NEW S, NEW n \in Nat, \A i \in 1..n : log[i].type \in RecordTypes
    PROVE  BytesAmong(log, S, n) \in Nat
<1> DEFINE Q == {k \in 0..n : BytesAmong(log, S, k) \notin Nat}
<1> SUFFICES ASSUME Q # {} PROVE FALSE
  OBVIOUS
<1>0. Q \subseteq Nat OBVIOUS
<1>1. PICK k \in Q : \A j \in Q : k <= j BY <1>0, Least
<1>2. k # 0 BY SumStep
<1>3. PICK j \in 0..n : j = k - 1 BY <1>2
<1>4. BytesAmong(log, S, j) \in Nat BY <1>1, <1>3
<1>5. j + 1 = k /\ k \in 1..n BY <1>3
<1>6. BytesAmong(log, S, k) = BytesAmong(log, S, j) + Weight(log, S, k)
  BY <1>3, <1>5, SumStep
<1>7. Weight(log, S, k) \in Nat BY <1>5, WeightNat
<1> QED BY <1>4, <1>6, <1>7

\* One more position adds its record's bytes.
LEMMA SumMore ==
    ASSUME NEW log, NEW S, NEW n \in Nat, \A i \in 1..n : log[i].type \in RecordTypes,
           NEW p \in 1..n, p \notin S
    PROVE  BytesAmong(log, S \cup {p}, n) = BytesAmong(log, S, n) + Bytes[log[p].type]
<1> DEFINE A(k) == BytesAmong(log, S, k)
           B(k) == BytesAmong(log, S \cup {p}, k)
           Q == {k \in p..n : B(k) # A(k) + Bytes[log[p].type]}
<1> SUFFICES ASSUME Q # {} PROVE FALSE
  OBVIOUS
<1>0. Q \subseteq Nat OBVIOUS
<1>1. PICK k \in Q : \A j \in Q : k <= j BY <1>0, Least
<1>2. PICK j \in 0..n : j = k - 1 OBVIOUS
<1>3. j + 1 = k /\ k \in 1..n BY <1>2
<1>4. A(k) = A(j) + Weight(log, S, k) BY <1>2, <1>3, SumStep
<1>5. B(k) = B(j) + Weight(log, S \cup {p}, k) BY <1>2, <1>3, SumStep
<1>6. A(j) \in Nat /\ B(j) \in Nat
  <2>1. \A i \in 1..j : log[i].type \in RecordTypes BY <1>2
  <2> QED BY <2>1, SumNat
<1>7. Weight(log, S, k) \in Nat BY <1>3, WeightNat
<1>8. Bytes[log[p].type] \in Nat BY VectorLogAssumption
<1> HIDE DEF A, B
<1>9. CASE k = p
  <2>1. B(j) = A(j)
    <3>1. \A i \in 1..j : i \in S <=> i \in S \cup {p} BY <1>2, <1>9
    <3> QED BY <3>1, SumSame DEF A, B
  <2>2. Weight(log, S, k) = 0 /\ Weight(log, S \cup {p}, k) = Bytes[log[p].type]
    BY <1>9 DEF Weight
  <2>3. B(k) = A(k) + Bytes[log[p].type] BY <1>4, <1>5, <1>6, <1>8, <2>1, <2>2
  <2> QED BY <2>3
<1>10. CASE k # p
  <2>1. j \in p..n /\ j \notin Q BY <1>1, <1>2, <1>10
  <2>2. B(j) = A(j) + Bytes[log[p].type] BY <2>1
  <2>3. Weight(log, S \cup {p}, k) = Weight(log, S, k) BY <1>10 DEF Weight
  <2>4. B(k) = A(k) + Bytes[log[p].type] BY <1>4, <1>5, <1>6, <1>7, <1>8, <2>2, <2>3
  <2> QED BY <2>4
<1> QED BY <1>9, <1>10

----------------------------------------------------------------------------
\* What a log says of a document, and which of its records are dead, position by
\* position.

Of(log, i, types, id) == log[i].type \in types /\ log[i].id = id

\* The document was put once, is deleted when a Del says so, has the metadata of
\* the last record that gives it any, and is charged for the last Set.
DocReads(log, n, e) ==
    /\ \E i \in 1..n : /\ Of(log, i, {"Put"}, e.id)
                       /\ \A k \in 1..n : Of(log, k, {"Put"}, e.id) => k = i
    /\ e.deleted <=> \E i \in 1..n : Of(log, i, {"Del"}, e.id)
    /\ \E i \in 1..n : /\ Of(log, i, {"Put", "Set"}, e.id) /\ log[i].meta = e.meta
                       /\ \A k \in i + 1 .. n : ~Of(log, k, {"Put", "Set"}, e.id)
    /\ \/ e.metaBytes = 0 /\ \A k \in 1..n : ~Of(log, k, {"Set"}, e.id)
       \/ /\ e.metaBytes = Bytes["Set"]
          /\ \E i \in 1..n : /\ Of(log, i, {"Set"}, e.id)
                             /\ \A k \in i + 1 .. n : ~Of(log, k, {"Set"}, e.id)

LEMMA ReadsOther ==
    ASSUME NEW log, NEW n \in Nat, NEW m \in Nat, m = n + 1, NEW e, DocReads(log, n, e),
           ~Of(log, m, {"Put", "Set", "Del"}, e.id)
    PROVE  DocReads(log, m, e)
<1>1. /\ ~Of(log, m, {"Put"}, e.id) /\ ~Of(log, m, {"Del"}, e.id)
      /\ ~Of(log, m, {"Set"}, e.id) /\ ~Of(log, m, {"Put", "Set"}, e.id)
  BY DEF Of
<1>2. \A i \in 1..m : i \in 1..n \/ i = m OBVIOUS
<1>3. \A i \in 1..n : i \in 1..m /\ \A k \in i + 1 .. m : k \in i + 1 .. n \/ k = m
  OBVIOUS
<1>4. PICK i \in 1..n : /\ Of(log, i, {"Put"}, e.id)
                        /\ \A k \in 1..n : Of(log, k, {"Put"}, e.id) => k = i
  BY DEF DocReads
<1>5. \E j \in 1..m : /\ Of(log, j, {"Put"}, e.id)
                      /\ \A k \in 1..m : Of(log, k, {"Put"}, e.id) => k = j
  BY <1>1, <1>2, <1>3, <1>4
<1>6. e.deleted <=> \E j \in 1..m : Of(log, j, {"Del"}, e.id)
  BY <1>1, <1>2, <1>3 DEF DocReads
<1>7. PICK j \in 1..n : /\ Of(log, j, {"Put", "Set"}, e.id) /\ log[j].meta = e.meta
                        /\ \A k \in j + 1 .. n : ~Of(log, k, {"Put", "Set"}, e.id)
  BY DEF DocReads
<1>8. /\ j \in 1..m /\ Of(log, j, {"Put", "Set"}, e.id) /\ log[j].meta = e.meta
      /\ \A k \in j + 1 .. m : ~Of(log, k, {"Put", "Set"}, e.id)
  BY <1>1, <1>3, <1>7
<1>9. \/ e.metaBytes = 0 /\ \A k \in 1..m : ~Of(log, k, {"Set"}, e.id)
      \/ /\ e.metaBytes = Bytes["Set"]
         /\ \E x \in 1..m : /\ Of(log, x, {"Set"}, e.id)
                            /\ \A k \in x + 1 .. m : ~Of(log, k, {"Set"}, e.id)
  <2>1. CASE e.metaBytes = 0 /\ \A k \in 1..n : ~Of(log, k, {"Set"}, e.id)
    BY <2>1, <1>1, <1>2
  <2>2. CASE /\ e.metaBytes = Bytes["Set"]
             /\ \E x \in 1..n : /\ Of(log, x, {"Set"}, e.id)
                                /\ \A k \in x + 1 .. n : ~Of(log, k, {"Set"}, e.id)
    <3>1. PICK x \in 1..n : /\ Of(log, x, {"Set"}, e.id)
                            /\ \A k \in x + 1 .. n : ~Of(log, k, {"Set"}, e.id)
      BY <2>2
    <3>2. /\ x \in 1..m /\ Of(log, x, {"Set"}, e.id)
          /\ \A k \in x + 1 .. m : ~Of(log, k, {"Set"}, e.id)
      BY <1>1, <1>3, <3>1
    <3> QED BY <2>2, <3>2
  <2> QED BY <2>1, <2>2 DEF DocReads
<1> QED BY <1>5, <1>6, <1>8, <1>9 DEF DocReads

LEMMA ReadsPut ==
    ASSUME NEW log, NEW n \in Nat, NEW m \in Nat, m = n + 1, NEW id, NEW v,
           Of(log, m, {"Put"}, id), log[m].meta = v,
           \A i \in 1..n : ~Of(log, i, {"Put", "Set", "Del"}, id)
    PROVE  DocReads(log, m, NewEntry(id, v))
<1> DEFINE e == NewEntry(id, v)
<1>1. e.id = id /\ e.meta = v /\ e.deleted = FALSE /\ e.metaBytes = 0 BY DEF NewEntry
<1>2. m \in 1..m /\ \A i \in 1..m : i \in 1..n \/ i = m OBVIOUS
<1>3. \A i \in 1..m : /\ Of(log, i, {"Put"}, id) => i = m
                      /\ ~Of(log, i, {"Del"}, id) /\ ~Of(log, i, {"Set"}, id)
  BY <1>2 DEF Of
<1>4. Of(log, m, {"Put", "Set"}, id) /\ m + 1 .. m = {} BY DEF Of
<1> HIDE DEF e
<1>5. \E i \in 1..m : /\ Of(log, i, {"Put"}, e.id)
                      /\ \A k \in 1..m : Of(log, k, {"Put"}, e.id) => k = i
  BY <1>1, <1>2, <1>3
<1>6. e.deleted <=> \E i \in 1..m : Of(log, i, {"Del"}, e.id) BY <1>1, <1>3
<1>7. \E i \in 1..m : /\ Of(log, i, {"Put", "Set"}, e.id) /\ log[i].meta = e.meta
                      /\ \A k \in i + 1 .. m : ~Of(log, k, {"Put", "Set"}, e.id)
  BY <1>1, <1>2, <1>4
<1>8. e.metaBytes = 0 /\ \A k \in 1..m : ~Of(log, k, {"Set"}, e.id) BY <1>1, <1>3
<1>9. DocReads(log, m, e) BY <1>5, <1>6, <1>7, <1>8 DEF DocReads
<1> QED BY <1>9 DEF e

LEMMA ReadsSet ==
    ASSUME NEW log, NEW n \in Nat, NEW m \in Nat, m = n + 1, NEW e, DocReads(log, n, e),
           NEW v, Of(log, m, {"Set"}, e.id), log[m].meta = v, NEW d
    PROVE  DocReads(log, m, Written(e, v, d))
<1> DEFINE w == Written(e, v, d)
<1>1. w.id = e.id /\ w.meta = v /\ w.deleted = e.deleted /\ w.metaBytes = Bytes["Set"]
  BY DEF Written
<1>2. m \in 1..m /\ \A i \in 1..m : i \in 1..n \/ i = m OBVIOUS
<1>3. /\ ~Of(log, m, {"Put"}, e.id) /\ ~Of(log, m, {"Del"}, e.id)
      /\ Of(log, m, {"Put", "Set"}, e.id) /\ m + 1 .. m = {}
  BY DEF Of
<1>4. \A i \in 1..n : i \in 1..m OBVIOUS
<1>5. \E i \in 1..m : /\ Of(log, i, {"Put"}, e.id)
                      /\ \A k \in 1..m : Of(log, k, {"Put"}, e.id) => k = i
  <2>1. PICK i \in 1..n : /\ Of(log, i, {"Put"}, e.id)
                          /\ \A k \in 1..n : Of(log, k, {"Put"}, e.id) => k = i
    BY DEF DocReads
  <2> QED BY <1>2, <1>3, <1>4, <2>1
<1>6. e.deleted <=> \E i \in 1..m : Of(log, i, {"Del"}, e.id)
  BY <1>2, <1>3, <1>4 DEF DocReads
<1> HIDE DEF w
<1>7. \E i \in 1..m : /\ Of(log, i, {"Put", "Set"}, w.id) /\ log[i].meta = w.meta
                      /\ \A k \in i + 1 .. m : ~Of(log, k, {"Put", "Set"}, w.id)
  BY <1>1, <1>2, <1>3
<1>8. \E i \in 1..m : /\ Of(log, i, {"Set"}, w.id)
                      /\ \A k \in i + 1 .. m : ~Of(log, k, {"Set"}, w.id)
  BY <1>1, <1>2, <1>3
<1>9. DocReads(log, m, w) BY <1>1, <1>5, <1>6, <1>7, <1>8 DEF DocReads
<1> QED BY <1>9 DEF w

LEMMA ReadsDel ==
    ASSUME NEW log, NEW n \in Nat, NEW m \in Nat, m = n + 1, NEW e, DocReads(log, n, e),
           Of(log, m, {"Del"}, e.id)
    PROVE  DocReads(log, m, Buried(e))
<1> DEFINE b == Buried(e)
<1>1. b.id = e.id /\ b.meta = e.meta /\ b.deleted = TRUE /\ b.metaBytes = e.metaBytes
  BY DEF Buried
<1>2. m \in 1..m /\ \A i \in 1..m : i \in 1..n \/ i = m OBVIOUS
<1>3. /\ ~Of(log, m, {"Put"}, e.id) /\ ~Of(log, m, {"Set"}, e.id)
      /\ ~Of(log, m, {"Put", "Set"}, e.id)
  BY DEF Of
<1>4. \A i \in 1..n : i \in 1..m /\ \A k \in i + 1 .. m : k \in i + 1 .. n \/ k = m
  OBVIOUS
<1> HIDE DEF b
<1>5. \E i \in 1..m : /\ Of(log, i, {"Put"}, b.id)
                      /\ \A k \in 1..m : Of(log, k, {"Put"}, b.id) => k = i
  <2>1. PICK i \in 1..n : /\ Of(log, i, {"Put"}, e.id)
                          /\ \A k \in 1..n : Of(log, k, {"Put"}, e.id) => k = i
    BY DEF DocReads
  <2> QED BY <1>1, <1>2, <1>3, <1>4, <2>1
<1>6. b.deleted <=> \E i \in 1..m : Of(log, i, {"Del"}, b.id) BY <1>1, <1>2
<1>7. \E i \in 1..m : /\ Of(log, i, {"Put", "Set"}, b.id) /\ log[i].meta = b.meta
                      /\ \A k \in i + 1 .. m : ~Of(log, k, {"Put", "Set"}, b.id)
  <2>1. PICK i \in 1..n : /\ Of(log, i, {"Put", "Set"}, e.id) /\ log[i].meta = e.meta
                          /\ \A k \in i + 1 .. n : ~Of(log, k, {"Put", "Set"}, e.id)
    BY DEF DocReads
  <2>2. \A k \in i + 1 .. m : ~Of(log, k, {"Put", "Set"}, e.id) BY <1>3, <1>4, <2>1
  <2> QED BY <1>1, <1>4, <2>1, <2>2
<1>8. \/ b.metaBytes = 0 /\ \A k \in 1..m : ~Of(log, k, {"Set"}, b.id)
      \/ /\ b.metaBytes = Bytes["Set"]
         /\ \E i \in 1..m : /\ Of(log, i, {"Set"}, b.id)
                            /\ \A k \in i + 1 .. m : ~Of(log, k, {"Set"}, b.id)
  <2>1. CASE e.metaBytes = 0 /\ \A k \in 1..n : ~Of(log, k, {"Set"}, e.id)
    BY <2>1, <1>1, <1>2, <1>3
  <2>2. CASE /\ e.metaBytes = Bytes["Set"]
             /\ \E i \in 1..n : /\ Of(log, i, {"Set"}, e.id)
                                /\ \A k \in i + 1 .. n : ~Of(log, k, {"Set"}, e.id)
    <3>1. PICK i \in 1..n : /\ Of(log, i, {"Set"}, e.id)
                            /\ \A k \in i + 1 .. n : ~Of(log, k, {"Set"}, e.id)
      BY <2>2
    <3>2. \A k \in i + 1 .. m : ~Of(log, k, {"Set"}, e.id) BY <1>3, <1>4, <3>1
    <3> QED BY <1>1, <1>4, <2>2, <3>1, <3>2
  <2> QED BY <2>1, <2>2 DEF DocReads
<1>9. DocReads(log, m, b) BY <1>5, <1>6, <1>7, <1>8 DEF DocReads
<1> QED BY <1>9 DEF b

\* What makes a record dead: its document is deleted, or another takes its place.
Dead(log, n, i) ==
    \/ log[i].type = "Del"
    \/ /\ log[i].type \in {"Put", "Set"}
       /\ \E j \in i + 1 .. n : Of(log, j, {"Del"}, log[i].id)
    \/ /\ log[i].type = "Set"
       /\ \E j \in i + 1 .. n : Of(log, j, {"Set"}, log[i].id)
    \/ /\ log[i].type = "Snap"
       /\ \E j \in i + 1 .. n : log[j].type = "Snap"

DeadAmong(log, n) == {i \in 1..n : Dead(log, n, i)}

\* The log explains the handle: its documents, its snapshot and its garbage.
LogReads(log, n, st) ==
    /\ \A i \in 1..n : log[i].type \in {"Put", "Set", "Del"} =>
          \E l \in 1..Len(st.entries) : st.entries[l].id = log[i].id
    /\ \A i, j \in 1..n :
          log[i].type \in {"Put", "Set"} /\ Of(log, j, {"Del"}, log[i].id) => i < j
    /\ \A l \in 1..Len(st.entries) : DocReads(log, n, st.entries[l])
    /\ \/ st.snap = 0 /\ \A i \in 1..n : log[i].type # "Snap"
       \/ /\ st.snap \in 1..n /\ log[st.snap].type = "Snap"
          /\ \A k \in st.snap + 1 .. n : log[k].type # "Snap"
    /\ st.garbage = BytesAmong(log, DeadAmong(log, n), n)

\* What a record is charged for as soon as it is written.
OwnBytes(r) == IF r.type = "Del" THEN Bytes["Del"] ELSE 0

LEMMA DeadGrows ==
    ASSUME NEW log, NEW n \in Nat, NEW m \in Nat, m = n + 1, NEW D,
           \A i \in 1..n : Dead(log, m, i) <=> i \in D
    PROVE  BytesAmong(log, DeadAmong(log, m), m) = BytesAmong(log, D, n) + OwnBytes(log[m])
<1>1. BytesAmong(log, DeadAmong(log, m), m) =
         BytesAmong(log, DeadAmong(log, m), n) + Weight(log, DeadAmong(log, m), m)
  BY SumStep
<1>2. BytesAmong(log, DeadAmong(log, m), n) = BytesAmong(log, D, n)
  <2>1. \A i \in 1..n : i \in DeadAmong(log, m) <=> i \in D
    BY DEF DeadAmong
  <2> QED BY <2>1, SumSame
<1>3. m \in DeadAmong(log, m) <=> log[m].type = "Del"
  <2>1. m + 1 .. m = {} /\ m \in 1..m OBVIOUS
  <2> QED BY <2>1 DEF DeadAmong, Dead
<1>4. Weight(log, DeadAmong(log, m), m) = OwnBytes(log[m])
  BY <1>3 DEF Weight, OwnBytes
<1> QED BY <1>1, <1>2, <1>4

LEMMA DeadSame ==
    ASSUME NEW log, NEW n \in Nat, NEW m \in Nat, m = n + 1,
           \A i \in 1..n : Dead(log, m, i) <=> Dead(log, n, i)
    PROVE  BytesAmong(log, DeadAmong(log, m), m) =
              BytesAmong(log, DeadAmong(log, n), n) + OwnBytes(log[m])
<1>1. \A i \in 1..n : Dead(log, m, i) <=> i \in DeadAmong(log, n) BY DEF DeadAmong
<1> QED BY <1>1, DeadGrows

LEMMA GoodTypes ==
    ASSUME NEW log, NEW n \in Nat, Good(log, n)
    PROVE  \A i \in 1..n : log[i] \in Records /\ log[i].type \in RecordTypes
<1>1. \A i \in 1..n : log[i] \in Records BY DEF Good, Fits
<1> QED BY <1>1, RecordTypesOf DEF RecordTypes

LEMMA DeadOneMore ==
    ASSUME NEW log, NEW n \in Nat, NEW m \in Nat, m = n + 1,
           \A i \in 1..n : log[i].type \in RecordTypes,
           NEW s \in 1..n, ~Dead(log, n, s),
           \A i \in 1..n : Dead(log, m, i) <=> Dead(log, n, i) \/ i = s
    PROVE  BytesAmong(log, DeadAmong(log, m), m) =
              BytesAmong(log, DeadAmong(log, n), n) + Bytes[log[s].type] + OwnBytes(log[m])
<1>1. PICK D : D = DeadAmong(log, n) \cup {s} OBVIOUS
<1>2. \A i \in 1..n : Dead(log, m, i) <=> i \in D BY <1>1 DEF DeadAmong
<1>3. BytesAmong(log, DeadAmong(log, m), m) = BytesAmong(log, D, n) + OwnBytes(log[m])
  BY <1>2, DeadGrows
<1>4. s \notin DeadAmong(log, n) BY DEF DeadAmong
<1>5. BytesAmong(log, DeadAmong(log, n) \cup {s}, n) =
         BytesAmong(log, DeadAmong(log, n), n) + Bytes[log[s].type]
  BY <1>4, SumMore
<1> QED BY <1>1, <1>3, <1>5

LEMMA DeadTwoMore ==
    ASSUME NEW log, NEW n \in Nat, NEW m \in Nat, m = n + 1,
           \A i \in 1..n : log[i].type \in RecordTypes,
           NEW s \in 1..n, ~Dead(log, n, s), NEW p \in 1..n, ~Dead(log, n, p), p # s,
           \A i \in 1..n : Dead(log, m, i) <=> Dead(log, n, i) \/ i = s \/ i = p
    PROVE  BytesAmong(log, DeadAmong(log, m), m) =
              BytesAmong(log, DeadAmong(log, n), n) + Bytes[log[s].type]
                + Bytes[log[p].type] + OwnBytes(log[m])
<1>1. PICK C : C = DeadAmong(log, n) \cup {s} OBVIOUS
<1>2. PICK D : D = C \cup {p} OBVIOUS
<1>3. \A i \in 1..n : Dead(log, m, i) <=> i \in D BY <1>1, <1>2 DEF DeadAmong
<1>4. BytesAmong(log, DeadAmong(log, m), m) = BytesAmong(log, D, n) + OwnBytes(log[m])
  BY <1>3, DeadGrows
<1>5. s \notin DeadAmong(log, n) /\ p \notin C BY <1>1 DEF DeadAmong
<1>6. BytesAmong(log, DeadAmong(log, n) \cup {s}, n) =
         BytesAmong(log, DeadAmong(log, n), n) + Bytes[log[s].type]
  BY <1>5, SumMore
<1>7. BytesAmong(log, C \cup {p}, n) = BytesAmong(log, C, n) + Bytes[log[p].type]
  BY <1>5, SumMore
<1> QED BY <1>1, <1>2, <1>4, <1>6, <1>7

\* A record behind the others kills none unless it is of their document, or a
\* snapshot.
LEMMA DeadStays ==
    ASSUME NEW log, NEW n \in Nat, NEW m \in Nat, m = n + 1, NEW i \in 1..n
    PROVE  Dead(log, m, i) <=>
              \/ Dead(log, n, i)
              \/ log[i].type \in {"Put", "Set"} /\ Of(log, m, {"Del"}, log[i].id)
              \/ log[i].type = "Set" /\ Of(log, m, {"Set"}, log[i].id)
              \/ log[i].type = "Snap" /\ log[m].type = "Snap"
<1>1. /\ m \in i + 1 .. m
      /\ \A j \in i + 1 .. m : j \in i + 1 .. n \/ j = m
      /\ \A j \in i + 1 .. n : j \in i + 1 .. m
  OBVIOUS
<1> QED BY <1>1 DEF Dead

LEMMA EmptyReads == ASSUME NEW log PROVE LogReads(log, 0, EmptyRam)
<1>1. EmptyRam.entries = <<>> /\ EmptyRam.snap = 0 /\ EmptyRam.garbage = 0
  BY DEF EmptyRam
<1>2. BytesAmong(log, DeadAmong(log, 0), 0) = 0 BY SumStep
<1>3. 1..0 = {} /\ Len(<<>>) = 0 OBVIOUS
<1> HIDE DEF EmptyRam
<1> QED BY <1>1, <1>2, <1>3 DEF LogReads

\* Snapshots.
LEMMA SnapStays ==
    ASSUME NEW log, NEW n \in Nat, NEW m \in Nat, m = n + 1, log[m].type # "Snap",
           NEW s,
           \/ s = 0 /\ \A i \in 1..n : log[i].type # "Snap"
           \/ /\ s \in 1..n /\ log[s].type = "Snap"
              /\ \A k \in s + 1 .. n : log[k].type # "Snap"
    PROVE  \/ s = 0 /\ \A i \in 1..m : log[i].type # "Snap"
           \/ /\ s \in 1..m /\ log[s].type = "Snap"
              /\ \A k \in s + 1 .. m : log[k].type # "Snap"
OBVIOUS

LEMMA PutReads ==
    ASSUME NEW log, NEW n \in Nat, NEW m \in Nat, m = n + 1, NEW st, HandleOK(st),
           LogReads(log, n, st), Good(log, n), NEW r, r = log[m], Fits(st, r), r.type = "Put",
           NEW st2, Grows(st, r.id, r.meta, st2)
    PROVE  LogReads(log, m, st2)
<1> DEFINE a == st.entries
           b == st2.entries
<1>0. a \in Seq(Entries) /\ Len(a) \in Nat BY HandleTypes
<1>1. r.id \in 1..MaxId /\ r.id >= st.nextId /\ r.meta \in Metas
  BY RecordTypesOf DEF Fits
<1>2. /\ b = Append(a, NewEntry(r.id, r.meta)) /\ st2.garbage = st.garbage
      /\ st2.snap = st.snap
  BY DEF Grows
<1>3. \A l \in 1..Len(a) : a[l].id # r.id
  BY <1>1, HandleTypes, ByteFacts DEF HandleOK
<1>4. /\ Len(b) = Len(a) + 1 /\ \A l \in 1..Len(a) : b[l] = a[l]
      /\ b[Len(a) + 1] = NewEntry(r.id, r.meta)
  BY <1>0, <1>2
<1>5. NewEntry(r.id, r.meta).id = r.id BY DEF NewEntry
<1> HIDE DEF a, b
<1>6. \A l \in 1..Len(b) : l \in 1..Len(a) \/ l = Len(a) + 1 BY <1>0, <1>4
<1>7. \A i \in 1..m : i \in 1..n \/ i = m OBVIOUS
<1>8. \A i \in 1..m : log[i].type \in {"Put", "Set", "Del"} =>
         \E l \in 1..Len(b) : b[l].id = log[i].id
  <2> SUFFICES ASSUME NEW i \in 1..m, log[i].type \in {"Put", "Set", "Del"}
               PROVE  \E l \in 1..Len(b) : b[l].id = log[i].id
    OBVIOUS
  <2>1. CASE i = m
    <3>1. Len(a) + 1 \in 1..Len(b) BY <1>0, <1>4
    <3> QED BY <2>1, <3>1, <1>4, <1>5
  <2>2. CASE i \in 1..n
    <3>1. PICK l \in 1..Len(a) : a[l].id = log[i].id BY <2>2 DEF LogReads, a
    <3>2. l \in 1..Len(b) BY <1>0, <1>4
    <3> QED BY <3>1, <3>2, <1>4
  <2> QED BY <2>1, <2>2, <1>7
<1>9. \A i \in 1..n : ~Of(log, i, {"Put", "Set", "Del"}, r.id)
  BY <1>3 DEF LogReads, Of, a
<1>10. \A i, j \in 1..m :
          log[i].type \in {"Put", "Set"} /\ Of(log, j, {"Del"}, log[i].id) => i < j
  <2> SUFFICES ASSUME NEW i \in 1..m, NEW j \in 1..m, log[i].type \in {"Put", "Set"},
                      Of(log, j, {"Del"}, log[i].id)
               PROVE  i < j
    OBVIOUS
  <2>1. j # m BY DEF Of
  <2>2. j \in 1..n BY <2>1
  <2>3. i # m BY <1>9, <2>2 DEF Of
  <2>4. i \in 1..n BY <2>3
  <2> QED BY <2>2, <2>4 DEF LogReads
<1>11. \A l \in 1..Len(b) : DocReads(log, m, b[l])
  <2> SUFFICES ASSUME NEW l \in 1..Len(b) PROVE DocReads(log, m, b[l])
    OBVIOUS
  <2>1. CASE l \in 1..Len(a)
    <3>1. DocReads(log, n, a[l]) BY <2>1 DEF LogReads, a
    <3>2. ~Of(log, m, {"Put", "Set", "Del"}, a[l].id) BY <2>1, <1>3 DEF Of
    <3>3. DocReads(log, m, a[l]) BY <3>1, <3>2, ReadsOther
    <3> QED BY <3>3, <2>1, <1>4
  <2>2. CASE l = Len(a) + 1
    <3>1. Of(log, m, {"Put"}, r.id) BY DEF Of
    <3>2. DocReads(log, m, NewEntry(r.id, r.meta)) BY <3>1, <1>9, ReadsPut
    <3> QED BY <3>2, <2>2, <1>4
  <2> QED BY <2>1, <2>2, <1>6
<1>12. \/ st2.snap = 0 /\ \A i \in 1..m : log[i].type # "Snap"
       \/ /\ st2.snap \in 1..m /\ log[st2.snap].type = "Snap"
          /\ \A k \in st2.snap + 1 .. m : log[k].type # "Snap"
  <2>1. log[m].type # "Snap" OBVIOUS
  <2>2. \/ st.snap = 0 /\ \A i \in 1..n : log[i].type # "Snap"
        \/ /\ st.snap \in 1..n /\ log[st.snap].type = "Snap"
           /\ \A k \in st.snap + 1 .. n : log[k].type # "Snap"
    BY DEF LogReads
  <2>3. \/ st.snap = 0 /\ \A i \in 1..m : log[i].type # "Snap"
        \/ /\ st.snap \in 1..m /\ log[st.snap].type = "Snap"
           /\ \A k \in st.snap + 1 .. m : log[k].type # "Snap"
    BY <2>1, <2>2, SnapStays
  <2> QED BY <1>2, <2>3
<1>13. st2.garbage = BytesAmong(log, DeadAmong(log, m), m)
  <2>1. \A i \in 1..n : Dead(log, m, i) <=> Dead(log, n, i)
    BY DeadStays DEF Of
  <2>2. log[m].type \in RecordTypes BY DEF RecordTypes
  <2>3. BytesAmong(log, DeadAmong(log, m), m) = BytesAmong(log, DeadAmong(log, n), n) + 0
    BY <2>1, <2>2, DeadSame DEF OwnBytes
  <2>4. st.garbage = BytesAmong(log, DeadAmong(log, n), n) /\ st.garbage \in Nat
    BY HandleTypes DEF LogReads
  <2> QED BY <1>2, <2>3, <2>4
<1> QED BY <1>8, <1>10, <1>11, <1>12, <1>13 DEF LogReads, b

\* What is in the log before the next record, as the cases below need it.
LEMMA LogReadsParts ==
    ASSUME NEW log, NEW n \in Nat, NEW st, HandleOK(st), LogReads(log, n, st)
    PROVE  /\ \A l \in 1..Len(st.entries) : DocReads(log, n, st.entries[l])
           /\ \/ st.snap = 0 /\ \A i \in 1..n : log[i].type # "Snap"
              \/ /\ st.snap \in 1..n /\ log[st.snap].type = "Snap"
                 /\ \A k \in st.snap + 1 .. n : log[k].type # "Snap"
           /\ st.garbage = BytesAmong(log, DeadAmong(log, n), n)
           /\ st.garbage \in Nat
BY HandleTypes DEF LogReads

\* The documents stay those there are, when one of them is rewritten.
LEMMA IdsRead ==
    ASSUME NEW log, NEW n \in Nat, NEW m \in Nat, m = n + 1, NEW st, HandleOK(st),
           LogReads(log, n, st), NEW l \in 1..Len(st.entries),
           log[m].type \in {"Set", "Del"}, log[m].id = st.entries[l].id,
           ~st.entries[l].deleted, NEW b, Len(b) = Len(st.entries),
           \A k \in 1..Len(b) : b[k].id = st.entries[k].id
    PROVE  /\ \A i \in 1..m : log[i].type \in {"Put", "Set", "Del"} =>
                 \E k \in 1..Len(b) : b[k].id = log[i].id
           /\ \A i, j \in 1..m :
                 log[i].type \in {"Put", "Set"} /\ Of(log, j, {"Del"}, log[i].id) => i < j
<1>1. \A i \in 1..m : i \in 1..n \/ i = m OBVIOUS
<1>2. \A i \in 1..n : log[i].type \in {"Put", "Set", "Del"} =>
         \E k \in 1..Len(b) : b[k].id = log[i].id
  BY DEF LogReads
<1>3. \E k \in 1..Len(b) : b[k].id = log[m].id OBVIOUS
<1>4. \A i \in 1..n : ~Of(log, i, {"Del"}, log[m].id) BY DEF LogReads, DocReads
<1>5. \A i, j \in 1..m :
         log[i].type \in {"Put", "Set"} /\ Of(log, j, {"Del"}, log[i].id) => i < j
  <2> SUFFICES ASSUME NEW i \in 1..m, NEW j \in 1..m, log[i].type \in {"Put", "Set"},
                      Of(log, j, {"Del"}, log[i].id)
               PROVE  i < j
    OBVIOUS
  <2>1. CASE i \in 1..n /\ j \in 1..n BY <2>1 DEF LogReads
  <2>2. CASE i \in 1..n /\ j = m BY <2>2
  <2>3. CASE i = m /\ j \in 1..n BY <2>3, <1>4
  <2>4. CASE i = m /\ j = m BY <2>4 DEF Of
  <2> QED BY <2>1, <2>2, <2>3, <2>4, <1>1
<1> QED BY <1>1, <1>2, <1>3, <1>5

\* The other documents read as they did.
LEMMA OthersRead ==
    ASSUME NEW log, NEW n \in Nat, NEW m \in Nat, m = n + 1, NEW st, HandleOK(st),
           LogReads(log, n, st), NEW l \in 1..Len(st.entries), log[m].id = st.entries[l].id,
           NEW k \in 1..Len(st.entries), k # l
    PROVE  DocReads(log, m, st.entries[k])
<1>1. st.entries[k].id # st.entries[l].id BY HandleTypes DEF HandleOK
<1>2. ~Of(log, m, {"Put", "Set", "Del"}, st.entries[k].id) BY <1>1 DEF Of
<1>3. DocReads(log, n, st.entries[k]) BY DEF LogReads
<1> QED BY <1>2, <1>3, ReadsOther

LEMMA SetReads ==
    ASSUME NEW log, NEW n \in Nat, NEW m \in Nat, m = n + 1, NEW st, HandleOK(st),
           LogReads(log, n, st), Good(log, n), NEW r, r = log[m], Fits(st, r), r.type = "Set",
           NEW l \in 1..Len(st.entries), st.entries[l].id = r.id, ~st.entries[l].deleted,
           NEW d, NEW st2, Rewrites(st, l, r.meta, d, st2)
    PROVE  LogReads(log, m, st2)
<1> DEFINE a == st.entries
           b == st2.entries
           e == a[l]
<1>0. a \in Seq(Entries) /\ Len(a) \in Nat BY HandleTypes
<1>1. /\ b = [a EXCEPT ![l] = Written(@, r.meta, d)]
      /\ st2.garbage = st.garbage + a[l].metaBytes /\ st2.snap = st.snap
  BY DEF Rewrites
<1>2. /\ Len(b) = Len(a) /\ b[l] = Written(e, r.meta, d)
      /\ \A k \in 1..Len(a) : k # l => b[k] = a[k]
  BY <1>0, <1>1
<1>3. Written(e, r.meta, d).id = e.id BY DEF Written
<1>4. \A k \in 1..Len(b) : b[k].id = a[k].id BY <1>2, <1>3
<1>5. DocReads(log, n, e) BY DEF LogReads
<1>6. Of(log, m, {"Set"}, e.id) /\ log[m].meta = r.meta BY DEF Of
<1>7. DocReads(log, m, b[l]) BY <1>2, <1>5, <1>6, ReadsSet
<1>8. \A k \in 1..Len(b) : DocReads(log, m, b[k]) BY <1>2, <1>7, OthersRead
<1>9. /\ \A i \in 1..m : log[i].type \in {"Put", "Set", "Del"} =>
            \E k \in 1..Len(b) : b[k].id = log[i].id
      /\ \A i, j \in 1..m :
            log[i].type \in {"Put", "Set"} /\ Of(log, j, {"Del"}, log[i].id) => i < j
  BY <1>2, <1>4, IdsRead
<1>10. \/ st2.snap = 0 /\ \A i \in 1..m : log[i].type # "Snap"
       \/ /\ st2.snap \in 1..m /\ log[st2.snap].type = "Snap"
          /\ \A k \in st2.snap + 1 .. m : log[k].type # "Snap"
  <2>1. log[m].type # "Snap" OBVIOUS
  <2>3. \/ st.snap = 0 /\ \A i \in 1..n : log[i].type # "Snap"
        \/ /\ st.snap \in 1..n /\ log[st.snap].type = "Snap"
           /\ \A k \in st.snap + 1 .. n : log[k].type # "Snap"
    BY LogReadsParts
  <2>2. \/ st.snap = 0 /\ \A i \in 1..m : log[i].type # "Snap"
        \/ /\ st.snap \in 1..m /\ log[st.snap].type = "Snap"
           /\ \A k \in st.snap + 1 .. m : log[k].type # "Snap"
    BY <2>1, <2>3, SnapStays
  <2> QED BY <1>1, <2>2
<1>11. st2.garbage = BytesAmong(log, DeadAmong(log, m), m)
  <2>0. log[m].type \in RecordTypes /\ log[m].type # "Del" BY DEF RecordTypes
  <2>1. st.garbage = BytesAmong(log, DeadAmong(log, n), n) /\ st.garbage \in Nat
    BY LogReadsParts
  <2>2. \A i \in 1..n : Dead(log, m, i) <=> Dead(log, n, i) \/ Of(log, i, {"Set"}, e.id)
    BY DeadStays DEF Of
  <2>3. CASE e.metaBytes = 0 /\ \A k \in 1..n : ~Of(log, k, {"Set"}, e.id)
    <3>1. \A i \in 1..n : Dead(log, m, i) <=> Dead(log, n, i) BY <2>2, <2>3
    <3>2. BytesAmong(log, DeadAmong(log, m), m) = BytesAmong(log, DeadAmong(log, n), n) + 0
      BY <2>0, <3>1, DeadSame DEF OwnBytes
    <3> QED BY <1>1, <2>1, <2>3, <3>2
  <2>4. CASE /\ e.metaBytes = Bytes["Set"]
             /\ \E s \in 1..n : /\ Of(log, s, {"Set"}, e.id)
                                /\ \A k \in s + 1 .. n : ~Of(log, k, {"Set"}, e.id)
    <3>1. PICK s \in 1..n : /\ Of(log, s, {"Set"}, e.id)
                            /\ \A k \in s + 1 .. n : ~Of(log, k, {"Set"}, e.id)
      BY <2>4
    <3>2. \A i \in 1..n : Of(log, i, {"Set"}, e.id) => i = s \/ Dead(log, n, i)
      <4> SUFFICES ASSUME NEW i \in 1..n, Of(log, i, {"Set"}, e.id), i # s
                   PROVE  Dead(log, n, i)
        OBVIOUS
      <4>1. s \in i + 1 .. n BY <3>1
      <4>2. log[i].type = "Set" /\ Of(log, s, {"Set"}, log[i].id) BY <3>1 DEF Of
      <4> QED BY <4>1, <4>2 DEF Dead
    <3>3. \A i \in 1..n : Dead(log, m, i) <=> Dead(log, n, i) \/ i = s
      BY <2>2, <3>1, <3>2
    <3>4. log[s].type = "Set" BY <3>1 DEF Of
    <3>5. ~Dead(log, n, s)
      <4>1. log[s].type = "Set" /\ log[s].id = e.id BY <3>1 DEF Of
      <4>2. \A i \in 1..n : ~Of(log, i, {"Del"}, e.id) BY <1>5 DEF DocReads
      <4>3. \A j \in s + 1 .. n : j \in 1..n OBVIOUS
      <4> QED BY <3>1, <4>1, <4>2, <4>3 DEF Dead
    <3>6. BytesAmong(log, DeadAmong(log, m), m) =
             BytesAmong(log, DeadAmong(log, n), n) + Bytes[log[s].type] + OwnBytes(log[m])
      BY <2>0, <3>3, <3>5, GoodTypes, DeadOneMore
    <3> QED BY <1>1, <2>0, <2>1, <2>4, <3>4, <3>6, ByteFacts DEF OwnBytes
  <2> QED BY <1>5, <2>3, <2>4 DEF DocReads
<1> QED BY <1>8, <1>9, <1>10, <1>11 DEF LogReads

LEMMA DelReads ==
    ASSUME NEW log, NEW n \in Nat, NEW m \in Nat, m = n + 1, NEW st, HandleOK(st),
           LogReads(log, n, st), Good(log, n), NEW r, r = log[m], Fits(st, r), r.type = "Del",
           NEW l \in 1..Len(st.entries), st.entries[l].id = r.id, ~st.entries[l].deleted,
           NEW st2, Buries(st, l, st2)
    PROVE  LogReads(log, m, st2)
<1> DEFINE a == st.entries
           b == st2.entries
           e == a[l]
<1>0. a \in Seq(Entries) /\ Len(a) \in Nat BY HandleTypes
<1>1. /\ b = [a EXCEPT ![l] = Buried(@)]
      /\ st2.garbage = st.garbage + Bytes["Put"] + a[l].metaBytes + Bytes["Del"]
      /\ st2.snap = st.snap
  BY DEF Buries
<1>2. /\ Len(b) = Len(a) /\ b[l] = Buried(e)
      /\ \A k \in 1..Len(a) : k # l => b[k] = a[k]
  BY <1>0, <1>1
<1>3. Buried(e).id = e.id BY DEF Buried
<1>4. \A k \in 1..Len(b) : b[k].id = a[k].id BY <1>2, <1>3
<1>5. DocReads(log, n, e) BY DEF LogReads
<1>6. Of(log, m, {"Del"}, e.id) BY DEF Of
<1>7. DocReads(log, m, b[l]) BY <1>2, <1>5, <1>6, ReadsDel
<1>8. \A k \in 1..Len(b) : DocReads(log, m, b[k]) BY <1>2, <1>7, OthersRead
<1>9. /\ \A i \in 1..m : log[i].type \in {"Put", "Set", "Del"} =>
            \E k \in 1..Len(b) : b[k].id = log[i].id
      /\ \A i, j \in 1..m :
            log[i].type \in {"Put", "Set"} /\ Of(log, j, {"Del"}, log[i].id) => i < j
  <2>1. /\ log[m].type \in {"Set", "Del"} /\ log[m].id = st.entries[l].id
        /\ Len(b) = Len(st.entries) /\ \A k \in 1..Len(b) : b[k].id = st.entries[k].id
    BY <1>2, <1>4
  <2> HIDE DEF b
  <2> QED BY <2>1, IdsRead
<1>10. \/ st2.snap = 0 /\ \A i \in 1..m : log[i].type # "Snap"
       \/ /\ st2.snap \in 1..m /\ log[st2.snap].type = "Snap"
          /\ \A k \in st2.snap + 1 .. m : log[k].type # "Snap"
  <2>1. log[m].type # "Snap" OBVIOUS
  <2>2. \/ st.snap = 0 /\ \A i \in 1..n : log[i].type # "Snap"
        \/ /\ st.snap \in 1..n /\ log[st.snap].type = "Snap"
           /\ \A k \in st.snap + 1 .. n : log[k].type # "Snap"
    BY LogReadsParts
  <2>3. \/ st.snap = 0 /\ \A i \in 1..m : log[i].type # "Snap"
        \/ /\ st.snap \in 1..m /\ log[st.snap].type = "Snap"
           /\ \A k \in st.snap + 1 .. m : log[k].type # "Snap"
    BY <2>1, <2>2, SnapStays
  <2> QED BY <1>1, <2>3
<1>11. st2.garbage = BytesAmong(log, DeadAmong(log, m), m)
  <2>0. log[m].type \in RecordTypes /\ log[m].type = "Del" BY DEF RecordTypes
  <2>1. st.garbage = BytesAmong(log, DeadAmong(log, n), n) /\ st.garbage \in Nat
    BY LogReadsParts
  <2>2. \A i \in 1..n :
           Dead(log, m, i) <=> Dead(log, n, i) \/ Of(log, i, {"Put", "Set"}, e.id)
    BY DeadStays DEF Of
  <2>3. PICK p \in 1..n : /\ Of(log, p, {"Put"}, e.id)
                          /\ \A k \in 1..n : Of(log, k, {"Put"}, e.id) => k = p
    BY <1>5 DEF DocReads
  <2>4. \A i \in 1..n : ~Of(log, i, {"Del"}, e.id) BY <1>5 DEF DocReads
  <2>5. \A i \in 1..n : Of(log, i, {"Put", "Set"}, e.id) =>
                           i = p \/ Of(log, i, {"Set"}, e.id)
    BY <2>3 DEF Of
  <2>6. log[p].type = "Put" /\ ~Dead(log, n, p)
    <3>1. \A j \in p + 1 .. n : j \in 1..n OBVIOUS
    <3> QED BY <2>3, <2>4, <3>1 DEF Of, Dead
  <2>7. Of(log, p, {"Put", "Set"}, e.id) BY <2>3 DEF Of
  <2>8. CASE e.metaBytes = 0 /\ \A k \in 1..n : ~Of(log, k, {"Set"}, e.id)
    <3>1. \A i \in 1..n : Dead(log, m, i) <=> Dead(log, n, i) \/ i = p
      BY <2>2, <2>5, <2>7, <2>8
    <3>2. BytesAmong(log, DeadAmong(log, m), m) =
             BytesAmong(log, DeadAmong(log, n), n) + Bytes[log[p].type] + OwnBytes(log[m])
      BY <2>0, <2>6, <3>1, GoodTypes, DeadOneMore
    <3> QED BY <1>1, <2>0, <2>1, <2>6, <2>8, <3>2, ByteFacts DEF OwnBytes
  <2>9. CASE /\ e.metaBytes = Bytes["Set"]
             /\ \E s \in 1..n : /\ Of(log, s, {"Set"}, e.id)
                                /\ \A k \in s + 1 .. n : ~Of(log, k, {"Set"}, e.id)
    <3>1. PICK s \in 1..n : /\ Of(log, s, {"Set"}, e.id)
                            /\ \A k \in s + 1 .. n : ~Of(log, k, {"Set"}, e.id)
      BY <2>9
    <3>2. \A i \in 1..n : Of(log, i, {"Set"}, e.id) => i = s \/ Dead(log, n, i)
      <4> SUFFICES ASSUME NEW i \in 1..n, Of(log, i, {"Set"}, e.id), i # s
                   PROVE  Dead(log, n, i)
        OBVIOUS
      <4>1. s \in i + 1 .. n BY <3>1
      <4>2. log[i].type = "Set" /\ Of(log, s, {"Set"}, log[i].id) BY <3>1 DEF Of
      <4> QED BY <4>1, <4>2 DEF Dead
    <3>3. Of(log, s, {"Put", "Set"}, e.id) BY <3>1 DEF Of
    <3>4. \A i \in 1..n : Dead(log, m, i) <=> Dead(log, n, i) \/ i = s \/ i = p
      BY <2>2, <2>5, <2>7, <3>2, <3>3
    <3>5. log[s].type = "Set" /\ ~Dead(log, n, s) /\ p # s
      <4>1. log[s].type = "Set" /\ log[s].id = e.id BY <3>1 DEF Of
      <4>2. \A j \in s + 1 .. n : j \in 1..n OBVIOUS
      <4> QED BY <2>4, <2>6, <3>1, <4>1, <4>2 DEF Dead
    <3>6. BytesAmong(log, DeadAmong(log, m), m) =
             BytesAmong(log, DeadAmong(log, n), n) + Bytes[log[s].type]
               + Bytes[log[p].type] + OwnBytes(log[m])
      BY <2>0, <2>6, <3>4, <3>5, GoodTypes, DeadTwoMore
    <3> QED BY <1>1, <2>0, <2>1, <2>6, <2>9, <3>5, <3>6, ByteFacts DEF OwnBytes
  <2> QED BY <1>5, <2>8, <2>9 DEF DocReads
<1> QED BY <1>8, <1>9, <1>10, <1>11 DEF LogReads

LEMMA SnapReads ==
    ASSUME NEW log, NEW n \in Nat, NEW m \in Nat, m = n + 1, NEW st, HandleOK(st),
           st.end = n, LogReads(log, n, st), Good(log, n), NEW r, r = log[m], r.type = "Snap",
           NEW st2, Snaps(st, st2), st2.entries = st.entries
    PROVE  LogReads(log, m, st2)
<1>1. /\ st2.garbage = st.garbage + (IF st.snap = 0 THEN 0 ELSE Bytes["Snap"])
      /\ st2.snap = m
  BY DEF Snaps
<1>2. \A i \in 1..m : i \in 1..n \/ i = m OBVIOUS
<1>3. \A id : ~Of(log, m, {"Put", "Set", "Del"}, id) BY DEF Of
<1>4. \A k \in 1..Len(st.entries) : DocReads(log, m, st.entries[k]) BY <1>3, ReadsOther DEF LogReads
<1>5. \A i \in 1..m : log[i].type \in {"Put", "Set", "Del"} =>
         \E k \in 1..Len(st.entries) : st.entries[k].id = log[i].id
  BY <1>2 DEF LogReads
<1>6. \A i, j \in 1..m :
         log[i].type \in {"Put", "Set"} /\ Of(log, j, {"Del"}, log[i].id) => i < j
  <2> SUFFICES ASSUME NEW i \in 1..m, NEW j \in 1..m, log[i].type \in {"Put", "Set"},
                      Of(log, j, {"Del"}, log[i].id)
               PROVE  i < j
    OBVIOUS
  <2>1. i # m /\ j # m BY DEF Of
  <2>2. i \in 1..n /\ j \in 1..n BY <2>1
  <2> QED BY <2>2 DEF LogReads
<1>7. /\ st2.snap \in 1..m /\ log[st2.snap].type = "Snap"
      /\ \A k \in st2.snap + 1 .. m : log[k].type # "Snap"
  BY <1>1
<1>8. st2.garbage = BytesAmong(log, DeadAmong(log, m), m)
  <2>0. log[m].type \in RecordTypes /\ log[m].type # "Del" BY DEF RecordTypes
  <2>1. st.garbage = BytesAmong(log, DeadAmong(log, n), n) /\ st.garbage \in Nat
    BY HandleTypes DEF LogReads
  <2>2. \A i \in 1..n : Dead(log, m, i) <=> Dead(log, n, i) \/ log[i].type = "Snap"
    BY DeadStays DEF Of
  <2>3. CASE st.snap = 0 /\ \A i \in 1..n : log[i].type # "Snap"
    <3>1. \A i \in 1..n : Dead(log, m, i) <=> Dead(log, n, i) BY <2>2, <2>3
    <3>2. BytesAmong(log, DeadAmong(log, m), m) = BytesAmong(log, DeadAmong(log, n), n) + 0
      BY <2>0, <3>1, DeadSame DEF OwnBytes
    <3> QED BY <1>1, <2>1, <2>3, <3>2
  <2>4. CASE /\ st.snap \in 1..n /\ log[st.snap].type = "Snap"
             /\ \A k \in st.snap + 1 .. n : log[k].type # "Snap"
    <3>1. PICK s \in 1..n : s = st.snap BY <2>4
    <3>2. \A i \in 1..n : log[i].type = "Snap" => i = s \/ Dead(log, n, i)
      <4> SUFFICES ASSUME NEW i \in 1..n, log[i].type = "Snap", i # s
                   PROVE  Dead(log, n, i)
        OBVIOUS
      <4>1. s \in i + 1 .. n BY <2>4, <3>1
      <4> QED BY <2>4, <3>1, <4>1 DEF Dead
    <3>3. \A i \in 1..n : Dead(log, m, i) <=> Dead(log, n, i) \/ i = s
      BY <2>2, <2>4, <3>1, <3>2
    <3>4. ~Dead(log, n, s) BY <2>4, <3>1 DEF Dead
    <3>5. BytesAmong(log, DeadAmong(log, m), m) =
             BytesAmong(log, DeadAmong(log, n), n) + Bytes[log[s].type] + OwnBytes(log[m])
      BY <2>0, <3>3, <3>4, GoodTypes, DeadOneMore
    <3> QED BY <1>1, <2>0, <2>1, <2>4, <3>1, <3>5, ByteFacts DEF OwnBytes
  <2> QED BY <2>3, <2>4, HandleTypes DEF LogReads
<1> QED BY <1>4, <1>5, <1>6, <1>7, <1>8 DEF LogReads

\* What replay has made of a good log is what the log says.
LEMMA GoodReads ==
    ASSUME NEW log, NEW n \in Nat, Good(log, n)
    PROVE  LogReads(log, n, Replayed(log, n))
<1> DEFINE T == {k \in 0..n : ~LogReads(log, k, Replayed(log, k))}
<1> SUFFICES ASSUME T # {} PROVE FALSE
  BY DEF T
<1>0. T \subseteq Nat OBVIOUS
<1>1. PICK k \in T : \A j \in T : k <= j BY <1>0, Least
<1>2. k # 0 BY EmptyReads, ReplayedStep
<1>3. PICK j \in 0..n : j = k - 1 BY <1>2
<1>4. k = j + 1 /\ k \in 1..n /\ k \in Nat /\ j \in Nat BY <1>3
<1>5. LogReads(log, j, Replayed(log, j)) BY <1>1, <1>3
<1>6. Replayed(log, k) = ReplayRecord(Replayed(log, j), log[k]) BY <1>4, ReplayedStep
<1>7. Good(log, j) BY <1>4, GoodLess
<1>8. HandleOK(Replayed(log, j)) /\ Replayed(log, j).end = j BY <1>3, GoodHandle
<1>9. Fits(Replayed(log, j), log[k]) BY <1>3, <1>4 DEF Good
<1>10. PICK st : st = Replayed(log, j) OBVIOUS
<1>11. PICK r : r = log[k] OBVIOUS
<1>12. PICK st2 : st2 = ReplayRecord(st, r) OBVIOUS
<1>13. /\ HandleOK(st) /\ st.end = j /\ Fits(st, r) /\ LogReads(log, j, st) /\ r \in Records
  BY <1>5, <1>8, <1>9, <1>10, <1>11 DEF Fits
<1>14. LogReads(log, k, st2)
  <2>1. CASE r.type = "Put"
    <3>1. Grows(st, r.id, r.meta, st2) BY <1>12, <1>13, <2>1, ReplaysPut
    <3> QED BY <1>4, <1>7, <1>11, <1>13, <2>1, <3>1, PutReads
  <2>2. CASE r.type = "Set"
    <3>1. PICK l \in 1..Len(st.entries) : st.entries[l].id = r.id /\ ~st.entries[l].deleted
      BY <1>13, <2>2 DEF Fits
    <3>2. Rewrites(st, l, r.meta, st.entries[l].dirty, st2)
      BY <1>12, <1>13, <2>2, <3>1, ReplaysSet
    <3> QED BY <1>4, <1>7, <1>11, <1>13, <2>2, <3>1, <3>2, SetReads
  <2>3. CASE r.type = "Del"
    <3>1. PICK l \in 1..Len(st.entries) : st.entries[l].id = r.id /\ ~st.entries[l].deleted
      BY <1>13, <2>3 DEF Fits
    <3>2. Buries(st, l, st2) BY <1>12, <1>13, <2>3, <3>1, ReplaysDel
    <3> QED BY <1>4, <1>7, <1>11, <1>13, <2>3, <3>1, <3>2, DelReads
  <2>4. CASE r.type = "Snap"
    <3>1. Snaps(st, st2) /\ st2.entries = st.entries BY <1>12, <1>13, <2>4, ReplaysSnap
    <3> QED BY <1>4, <1>7, <1>11, <1>13, <2>4, <3>1, SnapReads
  <2> QED BY <1>13, <2>1, <2>2, <2>3, <2>4, RecordTypesOf
<1> QED BY <1>6, <1>10, <1>11, <1>12, <1>14

----------------------------------------------------------------------------
\* What the log promises.

LEMMA LogTypes == ASSUME LogInv PROVE TypeOK
<1>1. /\ file.log \in Seq(Cells) /\ Len(file.log) \in Nat
      /\ file.hdr \in Pages /\ file.stable \in Pages
      /\ file.sized \in BOOLEAN /\ file.synced \in 0..ValidEnd(file.log)
      /\ ValidEnd(file.log) \in 0..Len(file.log)
  BY Kept0, FileTypes
<1>2. /\ ram.entries \in Seq(Entries) /\ ram.nextId \in 1..MaxId + 1
      /\ ram.live \in Nat /\ ram.garbage \in Nat /\ ram.gen \in Nat
      /\ ram.snap \in Nat /\ ram.end \in Nat /\ ram.fd \in BOOLEAN
  BY Kept0, HandleTypes
<1>3. file.log \in Seq(Records \cup {Torn}) BY <1>1 DEF Cells
<1>4. file.synced \in 0..Len(file.log) BY <1>1
<1>5. \A p \in {1, 2} : {file.hdr[p], file.stable[p]} \subseteq Nat \cup {Bad}
  BY <1>1 DEF Pages
<1>6. pc \in Pcs /\ {faults, kills, power} \subseteq Nat BY Kept0
<1> QED BY <1>1, <1>2, <1>3, <1>4, <1>5, <1>6 DEF TypeOK, Pcs

\* The fields of the handle and of the file keep their types, for every number
\* of documents, records, failures and power losses.
THEOREM TypeCorrect == Spec => []TypeOK
<1>1. LogInv => TypeOK BY LogTypes
<1> QED BY <1>1, LogAlways, PTL

LEMMA LogExplains == ASSUME LogInv PROVE ReplayMatchesRam
<1> SUFFICES ASSUME Steady
             PROVE  LET st == Replay(OnDisk) IN
                    /\ \A r \in ToSet(OnDisk) : r # Torn
                    /\ Ids(st.entries) = Ids(ram.entries)
                    /\ \A l \in DOMAIN ram.entries :
                          LET mine == ram.entries[l]  theirs == st.entries[l] IN
                          /\ theirs.deleted = mine.deleted
                          /\ theirs.metaBytes = mine.metaBytes
                          /\ mine.dirty \/ mine.deleted \/ theirs.meta = mine.meta
                    /\ st.live = ram.live
                    /\ st.garbage = ram.garbage
                    /\ st.snap = ram.snap
                    /\ st.nextId <= ram.nextId
  BY DEF ReplayMatchesRam
<1> DEFINE n == ram.end
           st == Replay(OnDisk)
<1>1. SteadyOK(file, ram) BY DEF LogInv
<1>2. n = ValidEnd(file.log) /\ FileOK(file) /\ HandleOK(ram) BY <1>1 DEF SteadyOK
<1>3. /\ n \in 0..Len(file.log) /\ n \in Nat /\ file.log \in Seq(Cells)
      /\ Len(file.log) \in Nat
  BY <1>2, FileTypes
<1>4. /\ OnDisk \in Seq(Cells) /\ Len(OnDisk) = n
      /\ \A i \in 1..n : OnDisk[i] = file.log[i]
  BY <1>3, SubSeqProperties DEF OnDisk
<1>5. st = Replayed(file.log, n)
  <2>1. st = Replayed(OnDisk, n) BY <1>4 DEF Replay
  <2>2. Replayed(OnDisk, n) = Replayed(file.log, n) BY <1>3, <1>4, ReplayedSame
  <2> QED BY <2>1, <2>2
<1>6. Matches(st, ram) BY <1>1, <1>5 DEF SteadyOK
<1>7. HandleOK(st) /\ Len(st.entries) = Len(ram.entries) BY <1>1, <1>5, SteadyHandle
<1> HIDE DEF st
<1>8. \A r \in ToSet(OnDisk) : r # Torn
  <2>1. \A i \in 1..n : file.log[i] # Torn BY <1>2, <1>3, ValidEndIs
  <2>2. DOMAIN OnDisk = 1..n BY <1>4
  <2> QED BY <1>4, <2>1, <2>2 DEF ToSet
<1>9. Ids(st.entries) = Ids(ram.entries)
  <2>1. \A l \in 1..Len(ram.entries) : st.entries[l].id = ram.entries[l].id
    BY <1>6 DEF Matches, SameDoc
  <2> QED BY <1>2, <1>7, <2>1, SnapFits
<1>10. \A l \in DOMAIN ram.entries : SameDoc(st.entries[l], ram.entries[l])
  BY <1>2, <1>6, HandleTypes DEF Matches
<1> QED BY <1>6, <1>8, <1>9, <1>10 DEF Matches, SameDoc, st

\* The handle serves the documents the log holds.
LEMMA DocsRead ==
    ASSUME NEW log, NEW n \in Nat, DOMAIN log = 1..n, Len(log) = n, Good(log, n)
    PROVE  Contents(Replayed(log, n)) = Docs(log)
<1> DEFINE puts == {i \in DOMAIN log :
                      /\ log[i].type = "Put"
                      /\ \A j \in i + 1 .. Len(log) : ~Of(log, j, {"Del"}, log[i].id)}
           Final(id, i) == /\ Of(log, i, {"Put", "Set"}, id)
                           /\ \A j \in i + 1 .. Len(log) : ~Of(log, j, {"Put", "Set"}, id)
           last(id) == CHOOSE i \in DOMAIN log : Final(id, i)
           ids == {log[i].id : i \in puts}
           said(id) == log[last(id)].meta
<1>1. Docs(log) = [id \in ids |-> said(id)] BY DEF Docs, Of
<1>2. PICK st : st = Replayed(log, n) OBVIOUS
<1> DEFINE live == {l \in DOMAIN st.entries : ~st.entries[l].deleted}
           served == {st.entries[l].id : l \in live}
           serves(id) == st.entries[Label(st.entries, id)].meta
<1>3. Contents(st) = [id \in served |-> serves(id)] BY DEF Contents
<1>4. LogReads(log, n, st) BY <1>2, GoodReads
<1>5. HandleOK(st)
  <2>1. n \in 0..n OBVIOUS
  <2> QED BY <2>1, <1>2, GoodHandle
<1>6. DOMAIN st.entries = 1..Len(st.entries) BY <1>5, HandleTypes
<1>7. ids = served
  <2>1. ASSUME NEW i \in puts PROVE log[i].id \in served
    <3>1. i \in 1..n /\ log[i].type = "Put" OBVIOUS
    <3>2. PICK l \in 1..Len(st.entries) : st.entries[l].id = log[i].id
      BY <1>4, <3>1 DEF LogReads
    <3>3. ~ \E j \in 1..n : Of(log, j, {"Del"}, log[i].id)
      <4> SUFFICES ASSUME NEW j \in 1..n, Of(log, j, {"Del"}, log[i].id) PROVE FALSE
        OBVIOUS
      <4>1. i < j BY <1>4, <3>1 DEF LogReads
      <4>2. j \in i + 1 .. Len(log) BY <3>1, <4>1
      <4> QED BY <4>2
    <3>4. DocReads(log, n, st.entries[l]) BY <1>4 DEF LogReads
    <3>5. ~st.entries[l].deleted BY <3>2, <3>3, <3>4 DEF DocReads
    <3>6. l \in live BY <1>6, <3>5
    <3> QED BY <3>2, <3>6
  <2>2. ASSUME NEW l \in live PROVE st.entries[l].id \in ids
    <3>1. l \in 1..Len(st.entries) /\ ~st.entries[l].deleted BY <1>6
    <3>2. DocReads(log, n, st.entries[l]) BY <1>4, <3>1 DEF LogReads
    <3>3. PICK i \in 1..n : Of(log, i, {"Put"}, st.entries[l].id) BY <3>2 DEF DocReads
    <3>4. log[i].type = "Put" /\ log[i].id = st.entries[l].id BY <3>3 DEF Of
    <3>5. \A j \in 1..n : ~Of(log, j, {"Del"}, st.entries[l].id)
      BY <3>1, <3>2 DEF DocReads
    <3>6. \A j \in i + 1 .. Len(log) : j \in 1..n OBVIOUS
    <3>7. i \in puts BY <3>4, <3>5, <3>6
    <3> QED BY <3>4, <3>7
  <2> HIDE DEF puts, live
  <2> QED BY <2>1, <2>2
<1>8. ASSUME NEW id \in served PROVE said(id) = serves(id)
  <2>1. PICK l \in live : st.entries[l].id = id OBVIOUS
  <2>2. l \in 1..Len(st.entries) BY <1>6
  <2>3. Label(st.entries, id) = l BY <1>5, <2>1, <2>2, LabelOf
  <2>4. DocReads(log, n, st.entries[l]) BY <1>4, <2>2 DEF LogReads
  <2>5. PICK i \in 1..n : /\ Of(log, i, {"Put", "Set"}, id)
                          /\ log[i].meta = st.entries[l].meta
                          /\ \A k \in i + 1 .. n : ~Of(log, k, {"Put", "Set"}, id)
    BY <2>1, <2>4 DEF DocReads
  <2>6. i \in DOMAIN log /\ Final(id, i) BY <2>5
  <2>7. \A j \in DOMAIN log : Final(id, j) => j = i
    <3> SUFFICES ASSUME NEW j \in 1..n, Final(id, j), j # i PROVE FALSE
      OBVIOUS
    <3>1. j \in i + 1 .. n \/ i \in j + 1 .. n OBVIOUS
    <3> QED BY <2>5, <3>1
  <2> HIDE DEF Final
  <2>8. last(id) = i BY <2>6, <2>7
  <2> QED BY <2>3, <2>5, <2>8
<1> HIDE DEF ids, served, said, serves
<1>9. [id \in ids |-> said(id)] = [id \in served |-> serves(id)] BY <1>7, <1>8
<1> QED BY <1>1, <1>2, <1>3, <1>9

LEMMA LogDocs == ASSUME LogInv PROVE ReplayReadsTheLog
<1> DEFINE n == ValidEnd(file.log)
           valid == ValidRecords(file.log)
<1>1. FileOK(file) BY Kept0
<1>2. n \in Nat BY <1>1, FileTypes
<1>3. valid \in Seq(Cells) /\ Len(valid) = n /\ Good(valid, n) BY <1>1, ReadBack
<1>4. DOMAIN valid = 1..n BY <1>3
<1> HIDE DEF n, valid
<1>5. Contents(Replayed(valid, n)) = Docs(valid) BY <1>2, <1>3, <1>4, DocsRead
<1> QED BY <1>3, <1>5 DEF ReplayReadsTheLog, Replay, valid

\* What the code counts as garbage is what no later open() will need.
LEMMA DeadIs ==
    ASSUME NEW log, NEW n \in Nat, Len(log) = n, NEW i \in 1..n,
           log[i].type \in {"Put", "Set", "Del", "Snap"}
    PROVE  ~IsLive(log, i) <=> Dead(log, n, i)
<1> DEFINE later == {log[j] : j \in i + 1 .. Len(log)}
           gone == \E r \in later : r.type = "Del" /\ r.id = log[i].id
<1>1. gone <=> \E j \in i + 1 .. n : Of(log, j, {"Del"}, log[i].id) BY DEF Of
<1>2. CASE log[i].type = "Put" BY <1>1, <1>2 DEF IsLive, Dead
<1>3. CASE log[i].type = "Set"
  <2>1. (\E r \in later : r.type = "Set" /\ r.id = log[i].id)
           <=> \E j \in i + 1 .. n : Of(log, j, {"Set"}, log[i].id)
    BY DEF Of
  <2> QED BY <1>1, <1>3, <2>1 DEF IsLive, Dead
<1>4. CASE log[i].type = "Snap"
  <2>1. (\E r \in later : r.type = "Snap") <=> \E j \in i + 1 .. n : log[j].type = "Snap"
    OBVIOUS
  <2> QED BY <1>4, <2>1 DEF IsLive, Dead
<1>5. CASE log[i].type = "Del" BY <1>5 DEF IsLive, Dead
<1> QED BY <1>2, <1>3, <1>4, <1>5

LEMMA LogGarbage == ASSUME LogInv PROVE GarbageIsDeadBytes
<1> SUFFICES ASSUME Steady
             PROVE  ram.garbage =
                       BytesAmong(OnDisk, {i \in DOMAIN OnDisk : ~IsLive(OnDisk, i)},
                                  Len(OnDisk))
  BY DEF GarbageIsDeadBytes
<1> DEFINE n == ram.end
           S == {i \in DOMAIN OnDisk : ~IsLive(OnDisk, i)}
<1>1. SteadyOK(file, ram) BY DEF LogInv
<1>2. n = ValidEnd(file.log) /\ FileOK(file) BY <1>1 DEF SteadyOK
<1>3. /\ n \in 0..Len(file.log) /\ n \in Nat /\ file.log \in Seq(Cells)
      /\ Len(file.log) \in Nat /\ Good(file.log, n)
  BY <1>2, FileTypes
<1>4. /\ OnDisk \in Seq(Cells) /\ Len(OnDisk) = n
      /\ \A i \in 1..n : OnDisk[i] = file.log[i]
  BY <1>3, SubSeqProperties DEF OnDisk
<1>5. DOMAIN OnDisk = 1..n BY <1>4
<1>6. Good(OnDisk, n) /\ Replayed(OnDisk, n) = Replayed(file.log, n)
  <2>1. \A i \in 1..n : file.log[i] = OnDisk[i] BY <1>4
  <2> HIDE DEF n
  <2> QED BY <1>3, <2>1, GoodSame
<1>7. ram.garbage = Replayed(OnDisk, n).garbage BY <1>1, <1>6 DEF SteadyOK, Matches
<1>8. LogReads(OnDisk, n, Replayed(OnDisk, n)) BY <1>3, <1>6, GoodReads
<1>9. ram.garbage = BytesAmong(OnDisk, DeadAmong(OnDisk, n), n)
  BY <1>7, <1>8 DEF LogReads
<1>10. \A i \in 1..n : i \in DeadAmong(OnDisk, n) <=> i \in S
  <2> SUFFICES ASSUME NEW i \in 1..n PROVE Dead(OnDisk, n, i) <=> ~IsLive(OnDisk, i)
    BY <1>5 DEF DeadAmong
  <2>1. OnDisk[i].type \in {"Put", "Set", "Del", "Snap"}
    BY <1>3, <1>6, GoodTypes DEF RecordTypes
  <2> QED BY <1>3, <1>4, <2>1, DeadIs
<1> HIDE DEF S, n
<1>11. BytesAmong(OnDisk, DeadAmong(OnDisk, n), n) = BytesAmong(OnDisk, S, n)
  BY <1>3, <1>10, SumSame
<1> QED BY <1>4, <1>9, <1>11 DEF S

\* What open() rebuilds is what the handle held and what the log says, read all
\* at once, and the garbage counted is that of the records no open() will need:
\* the store's bookkeeping, replay's, and the meaning of the log agree, whatever
\* was added, removed, updated, flushed and compacted, and whatever failed.
THEOREM ReplayStaysFaithful == Spec => []ReplayIsFaithful
<1>1. LogInv => ReplayIsFaithful
  BY LogExplains, LogDocs, LogGarbage DEF ReplayIsFaithful
<1> QED BY <1>1, LogAlways, PTL

LEMMA LogLabels == ASSUME LogInv PROVE SnapshotLabelsMatch
<1> SUFFICES ASSUME NEW i \in 1..ValidEnd(file.log), file.log[i].type = "Snap"
             PROVE  file.log[i].graph = Ids(Replay(SubSeq(file.log, 1, i)).entries)
  BY DEF SnapshotLabelsMatch
<1> DEFINE n == ValidEnd(file.log)
           st == Replayed(file.log, i - 1)
           r == file.log[i]
           some == SubSeq(file.log, 1, i)
<1>1. /\ n \in 0..Len(file.log) /\ n \in Nat /\ file.log \in Seq(Cells)
      /\ Len(file.log) \in Nat /\ Good(file.log, n)
  BY Kept0, FileTypes
<1>2. i \in 0..Len(file.log) /\ i \in Nat /\ i - 1 \in 0..n /\ i - 1 \in Nat
      /\ i - 1 + 1 = i /\ i \in 1..n
  BY <1>1
<1>3. Fits(st, r) BY <1>1, <1>2 DEF Good
<1>4. HandleOK(st) BY <1>1, <1>2, GoodHandle
<1>5. r.graph = Ids(st.entries) BY <1>3 DEF Fits
<1>6. ReplayRecord(st, r).entries = st.entries BY <1>4, ReplaysSnap
<1>7. Replayed(file.log, i) = ReplayRecord(st, r)
  <2>1. PICK k \in Nat : k = i - 1 /\ k + 1 = i BY <1>2
  <2>2. Replayed(file.log, k + 1) = ReplayRecord(Replayed(file.log, k), file.log[k + 1])
    BY ReplayedStep
  <2> QED BY <2>1, <2>2
<1>8. Replay(some) = Replayed(file.log, i)
  <2>1. Len(some) = i /\ \A j \in 1..i : some[j] = file.log[j]
    BY <1>1, <1>2, SubSeqProperties
  <2>2. Replay(some) = Replayed(some, i) BY <2>1 DEF Replay
  <2> HIDE DEF some
  <2>3. Replayed(some, i) = Replayed(file.log, i) BY <1>2, <2>1, ReplayedSame
  <2> QED BY <2>2, <2>3
<1> QED BY <1>5, <1>6, <1>7, <1>8

\* A snapshot in the log was taken over the very labels replay hands out, after
\* any compaction, crash or failed write.
THEOREM SnapshotsFit == Spec => []SnapshotLabelsMatch
<1>1. LogInv => SnapshotLabelsMatch BY LogLabels
<1> QED BY <1>1, LogAlways, PTL

----------------------------------------------------------------------------
\* The header pages.  As long as nothing but power fails, one page is on the disk
\* as it was last written, and the next header goes to the other one.

Safe(f) ==
    /\ f.sized
    /\ \A p \in 1..2 : f.hdr[p] = Bad \/ PageOf(f.hdr[p]) = p
    /\ \A p \in 1..2 : f.stable[p] = Bad \/ PageOf(f.stable[p]) = p
    /\ \E p \in 1..2 : f.hdr[p] = f.stable[p] /\ f.hdr[p] # Bad

HdrOK ==
    /\ pc # "refused"
    /\ file.sized /\ pc # "create" => Safe(file)
    /\ file.sized /\ pc \notin {"create", "flushSync"} => file.hdr = file.stable
    /\ Running /\ pc # "create" => file.sized /\ ram.fd
    /\ pc \in Working => ram.gen = Newest(file.hdr)
    /\ pc = "create" => /\ ram.gen = 0 => file.hdr = <<Bad, Bad>>
                        /\ ram.gen = 1 => file.hdr = <<Bad, 1>>
                        /\ ram.gen = 2 => file.hdr = <<2, 1>>
    /\ pc \in Renamed => file.hdr = <<2, 1>>
    /\ \A f \in previous : Safe(f)

HdrInv == kills = 0 /\ faults = 0 => HdrOK

LEMMA PageFacts ==
    /\ \A n \in Nat : PageOf(n) \in 1..2 /\ PageOf(n) # PageOf(n + 1)
    /\ PageOf(1) = 2 /\ PageOf(2) = 1 /\ Bad \notin Nat /\ Bad = -1
<1>1. \A n \in Nat : n % 2 = 0 \/ n % 2 = 1 OBVIOUS
<1>2. \A n \in Nat : (n % 2 = 0) <=> ((n + 1) % 2 = 1) OBVIOUS
<1>3. \A n \in Nat : PageOf(n) \in 1..2 BY DEF PageOf
<1>4. \A n \in Nat : PageOf(n) # PageOf(n + 1)
  <2> TAKE n \in Nat
  <2>1. n + 1 \in Nat OBVIOUS
  <2>2. (n + 1) % 2 = 0 \/ (n + 1) % 2 = 1 BY <2>1, <1>1
  <2> QED BY <1>1, <1>2, <2>2 DEF PageOf
<1>5. PageOf(1) = 2 /\ PageOf(2) = 1 BY DEF PageOf
<1>6. Bad \notin Nat /\ Bad = -1 BY DEF Bad
<1> QED BY <1>3, <1>4, <1>5, <1>6

\* Two pages of which one decodes have a newest generation.
LEMMA NewestFacts ==
    ASSUME NEW h \in Pages, NEW p \in 1..2, h[p] # Bad
    PROVE  /\ Newest(h) \in Nat /\ Newest(h) # Bad
           /\ \E q \in 1..2 : Newest(h) = h[q]
<1>1. h[1] \in Nat \cup {Bad} /\ h[2] \in Nat \cup {Bad} BY DEF Pages
<1>2. p = 1 \/ p = 2 OBVIOUS
<1>3. Newest(h) \in Nat BY <1>1, <1>2, PageFacts DEF Newest
<1>4. Newest(h) = h[1] \/ Newest(h) = h[2] BY DEF Newest
<1>5. 1 \in 1..2 /\ 2 \in 1..2 OBVIOUS
<1> QED BY <1>3, <1>4, <1>5, PageFacts

LEMMA SafeNewest ==
    ASSUME NEW f, FileOK(f), Safe(f)
    PROVE  Newest(f.hdr) \in Nat /\ Newest(f.hdr) # Bad
<1>1. f.hdr \in Pages BY FileTypes
<1>2. PICK p \in 1..2 : f.hdr[p] # Bad BY DEF Safe
<1> QED BY <1>1, <1>2, NewestFacts

LEMMA SafeSame ==
    ASSUME NEW f, Safe(f), NEW g, g.hdr = f.hdr, g.stable = f.stable, g.sized = f.sized
    PROVE  Safe(g)
BY DEF Safe

LEMMA FirstHeadersSafe ==
    ASSUME NEW f, f.sized, f.hdr = <<2, 1>>, f.stable = <<2, 1>>
    PROVE  Safe(f) /\ Newest(f.hdr) = 2
<1>1. f.hdr[1] = 2 /\ f.hdr[2] = 1 /\ f.stable[1] = 2 /\ f.stable[2] = 1 OBVIOUS
<1>2. \A p \in 1..2 : p = 1 \/ p = 2 OBVIOUS
<1>3. 2 # Bad /\ 1 \in 1..2 BY PageFacts
<1>4. Safe(f) BY <1>1, <1>2, <1>3, PageFacts DEF Safe
<1>5. Newest(f.hdr) = 2 BY <1>1 DEF Newest
<1> QED BY <1>4, <1>5

\* Nothing about the pages changes.
LEMMA HdrKept ==
    ASSUME HdrOK, pc \in Working \ {"flushSync"}, pc' \in Working \ {"flushSync"},
           file'.hdr = file.hdr, file'.stable = file.stable, file'.sized = file.sized,
           ram'.gen = ram.gen, ram'.fd = ram.fd, previous' = previous
    PROVE  HdrOK'
<1>1. /\ Running /\ pc # "create" /\ pc # "flushSync" /\ pc' # "refused"
      /\ pc' # "create" /\ pc' \notin Renamed /\ pc' # "flushSync"
  BY DEF Running, Working, Flushing, Renamed
<1>2. /\ file.sized /\ ram.fd /\ Safe(file) /\ file.hdr = file.stable
      /\ ram.gen = Newest(file.hdr) /\ \A f \in previous : Safe(f)
  BY <1>1 DEF HdrOK
<1>3. Safe(file') BY <1>2, SafeSame
<1>4. Newest(file'.hdr) = Newest(file.hdr) OBVIOUS
<1> QED BY <1>1, <1>2, <1>3, <1>4 DEF HdrOK

\* The handle is gone, and what is left is on the disk.
LEMMA HdrClosed ==
    ASSUME pc' = "closed", file'.sized => Safe(file'), file'.hdr = file'.stable,
           \A f \in previous' : Safe(f)
    PROVE  HdrOK'
<1>1. ~Running' /\ pc' \notin Working /\ pc' \notin Renamed
  BY DEF Running, Working, Flushing, Renamed
<1> QED BY <1>1 DEF HdrOK

LEMMA OnlyLog ==
    ASSUME LogInv, NEW log, file' = [file EXCEPT !.log = log]
    PROVE  file'.hdr = file.hdr /\ file'.stable = file.stable /\ file'.sized = file.sized
<1>1. DOMAIN file = FileFields BY Kept0, FileTypes
<1> QED BY <1>1 DEF FileFields

----------------------------------------------------------------------------
\* A power loss leaves a page that was on the disk.

LEMMA PagesLeft ==
    ASSUME NEW f, NEW h \in PagesAfterPowerLoss(f), NEW p \in 1..2
    PROVE  /\ h[p] \in {f.hdr[p], f.stable[p], Bad}
           /\ f.hdr[p] = f.stable[p] => h[p] = f.hdr[p]
<1> DEFINE page(q) == IF f.hdr[q] = f.stable[q] THEN {f.hdr[q]}
                      ELSE {f.hdr[q], f.stable[q], Bad}
<1>1. PagesAfterPowerLoss(f) = page(1) \X page(2) BY DEF PagesAfterPowerLoss
<1>2. \A q \in 1..2 : \A x \in page(q) :
        /\ x \in {f.hdr[q], f.stable[q], Bad}
        /\ f.hdr[q] = f.stable[q] => x = f.hdr[q]
  OBVIOUS
<1> HIDE DEF page
<1>3. h[1] \in page(1) /\ h[2] \in page(2) BY <1>1
<1>4. p = 1 \/ p = 2 OBVIOUS
<1>5. h[p] \in page(p) BY <1>3, <1>4
<1> QED BY <1>2, <1>5

LEMMA PowerSafe ==
    ASSUME NEW f, FileOK(f), Safe(f), NEW g, FileOK(g), g.sized = f.sized,
           g.hdr \in PagesAfterPowerLoss(f), g.stable = g.hdr
    PROVE  Safe(g)
<1>1. \A p \in 1..2 : g.hdr[p] = Bad \/ PageOf(g.hdr[p]) = p BY PagesLeft DEF Safe
<1>2. PICK p \in 1..2 : f.hdr[p] = f.stable[p] /\ f.hdr[p] # Bad BY DEF Safe
<1>3. g.hdr[p] # Bad BY <1>2, PagesLeft
<1> QED BY <1>1, <1>3 DEF Safe

LEMMA SafeSurvives ==
    ASSUME NEW f, FileOK(f), Safe(f), NEW h \in PagesAfterPowerLoss(f)
    PROVE  Newest(h) # Bad
<1>1. f.hdr \in Pages /\ f.stable \in Pages BY FileTypes
<1>2. \A p \in 1..2 : h[p] \in Nat \cup {Bad}
  <2> TAKE p \in 1..2
  <2>1. f.hdr[p] \in Nat \cup {Bad} /\ f.stable[p] \in Nat \cup {Bad} BY <1>1 DEF Pages
  <2> QED BY <2>1, PagesLeft
<1>3. PICK p \in 1..2 : f.hdr[p] = f.stable[p] /\ f.hdr[p] # Bad BY DEF Safe
<1>4. h[p] # Bad BY <1>3, PagesLeft
<1>5. p = 1 \/ p = 2 OBVIOUS
<1>6. h[1] \in Nat \cup {Bad} /\ h[2] \in Nat \cup {Bad} BY <1>2
<1>7. (h[1] \in Nat \/ h[2] \in Nat) BY <1>4, <1>5, <1>6
<1> QED BY <1>6, <1>7, PageFacts DEF Newest

----------------------------------------------------------------------------
\* Every step that neither fails nor kills keeps the pages in order.

Unharmed == kills = 0 /\ faults = 0 /\ kills' = 0 /\ faults' = 0

LEMMA NoFailure == ASSUME LogInv, Unharmed, WriteFails PROVE FALSE
BY Kept0 DEF Unharmed, WriteFails

LEMMA NoAppendFails == ASSUME LogInv, Unharmed, AppendFails PROVE FALSE
BY NoFailure DEF AppendFails

LEMMA NoHeaderFails == ASSUME LogInv, Unharmed, WriteHeaderFails PROVE FALSE
BY NoFailure DEF WriteHeaderFails

LEMMA OpenHdr ==
    ASSUME LogInv, HdrOK, Unharmed,
           \/ CreateFile \/ CreateHeader \/ CreateSync \/ OpenRefused \/ OpenExisting
    PROVE  HdrOK'
<1>1. CASE CreateFile
  <2>1. /\ file' = [NoFile EXCEPT !.sized = TRUE] /\ ram' = EmptyRam /\ pc' = "create"
        /\ previous' = previous
    BY <1>1 DEF CreateFile
  <2>2. file'.hdr = <<Bad, Bad>> /\ ram'.gen = 0 BY <2>1 DEF NoFile, EmptyRam
  <2>3. pc' \notin Working /\ pc' \notin Renamed BY <2>1 DEF Working, Flushing, Renamed
  <2> QED BY <2>1, <2>2, <2>3 DEF HdrOK
<1>2. CASE CreateHeader
  <2>1. /\ pc = "create" /\ ram.gen < 2 /\ WriteHeader /\ pc' = "create"
        /\ previous' = previous
    BY <1>2, NoHeaderFails DEF CreateHeader
  <2>2. /\ file'.hdr = [file.hdr EXCEPT ![PageOf(ram.gen + 1)] = ram.gen + 1]
        /\ ram'.gen = ram.gen + 1 /\ ram.gen \in Nat
    BY <2>1, HeaderWritten, Kept0, HandleTypes
  <2>3. ram.gen = 0 \/ ram.gen = 1 BY <2>1, <2>2
  <2>4. pc' \notin Working /\ pc' \notin Renamed BY <2>1 DEF Working, Flushing, Renamed
  <2>5. /\ ram'.gen = 0 => file'.hdr = <<Bad, Bad>>
        /\ ram'.gen = 1 => file'.hdr = <<Bad, 1>>
        /\ ram'.gen = 2 => file'.hdr = <<2, 1>>
    <3>1. CASE ram.gen = 0
      <4>1. file.hdr = <<Bad, Bad>> BY <2>1, <3>1 DEF HdrOK
      <4>2. file'.hdr = [file.hdr EXCEPT ![2] = 1] /\ ram'.gen = 1
        BY <2>2, <3>1, PageFacts
      <4>3. file'.hdr = <<Bad, 1>> BY <4>1, <4>2
      <4> QED BY <4>2, <4>3
    <3>2. CASE ram.gen = 1
      <4>1. file.hdr = <<Bad, 1>> BY <2>1, <3>2 DEF HdrOK
      <4>2. file'.hdr = [file.hdr EXCEPT ![1] = 2] /\ ram'.gen = 2
        BY <2>2, <3>2, PageFacts
      <4>3. file'.hdr = <<2, 1>> BY <4>1, <4>2
      <4> QED BY <4>2, <4>3
    <3> QED BY <2>3, <3>1, <3>2
  <2> QED BY <2>1, <2>4, <2>5 DEF HdrOK
<1>3. CASE CreateSync
  <2>1. /\ pc = "create" /\ ram.gen = 2 /\ file' = Synced(file)
        /\ ram' = [ram EXCEPT !.fd = TRUE] /\ pc' = "open" /\ previous' = previous
    BY <1>3, NoFailure DEF CreateSync
  <2>2. file.hdr = <<2, 1>> /\ file.sized BY <2>1 DEF HdrOK, LogInv
  <2>3. file'.hdr = <<2, 1>> /\ file'.stable = <<2, 1>> /\ file'.sized
    BY <2>1, <2>2, Kept0, SyncedOK
  <2>4. Safe(file') /\ Newest(file'.hdr) = 2 BY <2>3, FirstHeadersSafe
  <2>5. ram'.gen = 2 /\ ram'.fd
    <3>1. DOMAIN ram = HandleFields BY Kept0 DEF HandleOK, Handle, HandleFields
    <3> QED BY <2>1, <3>1 DEF HandleFields
  <2>6. pc' \notin Renamed BY <2>1 DEF Renamed
  <2> QED BY <2>1, <2>3, <2>4, <2>5, <2>6 DEF HdrOK
<1>4. CASE OpenRefused
  <2>1. pc = "closed" /\ file.sized /\ Newest(file.hdr) = Bad BY <1>4 DEF OpenRefused
  <2>2. Safe(file) BY <2>1 DEF HdrOK
  <2> QED BY <2>1, <2>2, Kept0, SafeNewest
<1>5. CASE OpenExisting
  <2>1. /\ pc = "closed" /\ file.sized
        /\ ram' = [Replay(ValidRecords(file.log)) EXCEPT !.gen = Newest(file.hdr),
                                                         !.fd = TRUE]
        /\ file' = [file EXCEPT !.log = ValidRecords(file.log)]
        /\ pc' \in {"open", "compactOnOpen"} /\ previous' = previous
    BY <1>5 DEF OpenExisting
  <2>2. Safe(file) /\ file.hdr = file.stable /\ \A f \in previous : Safe(f)
    BY <2>1 DEF HdrOK
  <2>3. file'.hdr = file.hdr /\ file'.stable = file.stable /\ file'.sized = file.sized
    BY <2>1, OnlyLog
  <2>4. Newest(file.hdr) \in Nat BY <2>2, Kept0, SafeNewest
  <2>5. SteadyOK(file', ram') /\ ram'.gen = Newest(file.hdr)
    BY <2>1, <2>4, Kept0, SteadyOpened
  <2>6. Safe(file') BY <2>2, <2>3, SafeSame
  <2>7. pc' # "refused" /\ pc' # "create" /\ pc' \notin Renamed
    BY <2>1 DEF Renamed
  <2>8. ram'.fd BY <2>5 DEF SteadyOK
  <2> QED BY <2>1, <2>2, <2>3, <2>5, <2>6, <2>7, <2>8 DEF HdrOK
<1> QED BY <1>1, <1>2, <1>3, <1>4, <1>5

LEMMA EditHdr ==
    ASSUME LogInv, HdrOK, Unharmed,
           \/ AddDocs \/ AddDoc \/ RemoveDocs \/ RemoveDoc \/ UpdateMetadataFails \/ Flush
           \/ \E l \in LiveLabels, m \in Metas :
                 UpdateMetadata(l, m) \/ UpdateMetadataDeferred(l, m)
    PROVE  HdrOK'
<1>1. CASE AddDocs \/ RemoveDocs \/ Flush
  <2>1. /\ pc = "open" /\ pc' \in {"add", "remove", "flushMeta"} /\ file' = file
        /\ ram' = ram /\ previous' = previous
    BY <1>1 DEF AddDocs, RemoveDocs, Flush
  <2>2. pc \in Working \ {"flushSync"} /\ pc' \in Working \ {"flushSync"}
    BY <2>1 DEF Working, Flushing
  <2> QED BY <2>1, <2>2, HdrKept
<1>2. CASE AddDoc
  <2>1. /\ pc = "add" /\ previous' = previous /\ pc' \in {"open", "add"}
        /\ AppendRecord(Put(ram.nextId, Head(todo)))
        /\ ram' = [ram EXCEPT
                     !.entries = Append(@, NewEntry(ram.nextId, Head(todo))),
                     !.nextId = @ + 1, !.live = @ + 1, !.end = @ + 1]
    BY <1>2, NoAppendFails DEF AddDoc
  <2>2. PICK log : file' = [file EXCEPT !.log = log] BY <2>1 DEF AppendRecord
  <2>3. pc \in Working \ {"flushSync"} /\ pc' \in Working \ {"flushSync"}
    BY <2>1 DEF Working, Flushing
  <2>4. DOMAIN ram = HandleFields BY Kept0 DEF HandleOK, Handle, HandleFields
  <2>5. ram'.gen = ram.gen /\ ram'.fd = ram.fd BY <2>1, <2>4 DEF HandleFields
  <2> QED BY <2>1, <2>2, <2>3, <2>5, OnlyLog, HdrKept
<1>3. CASE RemoveDoc
  <2> DEFINE l == Head(todo)
  <2>1. /\ pc = "remove" /\ previous' = previous /\ pc' \in {"open", "remove"}
        /\ AppendRecord(Del(ram.entries[l].id))
        /\ ram' = [Bury(ram, l) EXCEPT !.garbage = @ + Bytes["Del"], !.end = @ + 1]
    BY <1>3, NoAppendFails DEF RemoveDoc
  <2>2. PICK log : file' = [file EXCEPT !.log = log] BY <2>1 DEF AppendRecord
  <2>3. pc \in Working \ {"flushSync"} /\ pc' \in Working \ {"flushSync"}
    BY <2>1 DEF Working, Flushing
  <2>4. DOMAIN ram = HandleFields BY Kept0 DEF HandleOK, Handle, HandleFields
  <2>5. /\ DOMAIN Bury(ram, l) = HandleFields
        /\ Bury(ram, l).gen = ram.gen /\ Bury(ram, l).fd = ram.fd
    BY <2>4 DEF Bury, HandleFields
  <2>6. ram'.gen = ram.gen /\ ram'.fd = ram.fd BY <2>1, <2>5 DEF HandleFields
  <2> QED BY <2>1, <2>2, <2>3, <2>6, OnlyLog, HdrKept
<1>4. CASE UpdateMetadataFails BY <1>4, NoAppendFails DEF UpdateMetadataFails
<1>5. ASSUME NEW l \in LiveLabels, NEW m \in Metas, UpdateMetadata(l, m)
      PROVE  HdrOK'
  <2>1. /\ pc = "open" /\ pc' = "open" /\ previous' = previous
        /\ ram' = WithSet(ram, l, m) /\ AppendRecord(Set(ram.entries[l].id, m))
    BY <1>5 DEF UpdateMetadata
  <2>2. PICK log : file' = [file EXCEPT !.log = log] BY <2>1 DEF AppendRecord
  <2>3. pc \in Working \ {"flushSync"} /\ pc' \in Working \ {"flushSync"}
    BY <2>1 DEF Working, Flushing
  <2>4. DOMAIN ram = HandleFields BY Kept0 DEF HandleOK, Handle, HandleFields
  <2>5. ram'.gen = ram.gen /\ ram'.fd = ram.fd BY <2>1, <2>4 DEF HandleFields, WithSet
  <2> QED BY <2>1, <2>2, <2>3, <2>5, OnlyLog, HdrKept
<1>6. ASSUME NEW l \in LiveLabels, NEW m \in Metas, UpdateMetadataDeferred(l, m)
      PROVE  HdrOK'
  <2>1. /\ pc = "open" /\ pc' = "open" /\ previous' = previous /\ file' = file
        /\ ram' = [ram EXCEPT !.entries[l].meta = m, !.entries[l].dirty = TRUE]
    BY <1>6 DEF UpdateMetadataDeferred
  <2>3. pc \in Working \ {"flushSync"} /\ pc' \in Working \ {"flushSync"}
    BY <2>1 DEF Working, Flushing
  <2>4. DOMAIN ram = HandleFields BY Kept0 DEF HandleOK, Handle, HandleFields
  <2>5. ram'.gen = ram.gen /\ ram'.fd = ram.fd BY <2>1, <2>4 DEF HandleFields
  <2> QED BY <2>1, <2>3, <2>5, HdrKept
<1> QED BY <1>1, <1>2, <1>3, <1>4, <1>5, <1>6

LEMMA FlushHdr ==
    ASSUME LogInv, HdrOK, Unharmed,
           FlushMeta \/ FlushSnapshot \/ FlushHeader \/ FlushSync
    PROVE  HdrOK'
<1>d. DOMAIN ram = HandleFields BY Kept0 DEF HandleOK, Handle, HandleFields
<1>1. CASE FlushMeta
  <2>1. PICK l : /\ pc = "flushMeta" /\ previous' = previous /\ pc' = pc
                 /\ AppendRecord(Set(ram.entries[l].id, ram.entries[l].meta))
                 /\ ram' = WithSet(ram, l, ram.entries[l].meta)
    BY <1>1, NoAppendFails DEF FlushMeta
  <2>2. PICK log : file' = [file EXCEPT !.log = log] BY <2>1 DEF AppendRecord
  <2>3. pc \in Working \ {"flushSync"} /\ pc' \in Working \ {"flushSync"}
    BY <2>1 DEF Working, Flushing
  <2>5. ram'.gen = ram.gen /\ ram'.fd = ram.fd BY <2>1, <1>d DEF HandleFields, WithSet
  <2> QED BY <2>1, <2>2, <2>3, <2>5, OnlyLog, HdrKept
<1>2. CASE FlushSnapshot
  <2>1. /\ pc = "flushMeta" /\ previous' = previous /\ pc' = "flushHeader"
        /\ AppendRecord(Snap(Ids(ram.entries))) /\ ram' = Flushed
    BY <1>2, NoAppendFails DEF FlushSnapshot, Flushed
  <2>2. PICK log : file' = [file EXCEPT !.log = log] BY <2>1 DEF AppendRecord
  <2>3. pc \in Working \ {"flushSync"} /\ pc' \in Working \ {"flushSync"}
    BY <2>1 DEF Working, Flushing
  <2>5. ram'.gen = ram.gen /\ ram'.fd = ram.fd BY <2>1, Kept0, SnapHandle DEF Snaps
  <2> QED BY <2>1, <2>2, <2>3, <2>5, OnlyLog, HdrKept
<1>3. CASE FlushHeader
  <2>1. /\ pc = "flushHeader" /\ previous' = previous /\ pc' = "flushSync" /\ WriteHeader
    BY <1>3, NoHeaderFails DEF FlushHeader
  <2>2. /\ Running /\ pc # "create" /\ pc # "flushSync" /\ pc \in Working
    BY <2>1 DEF Running, Working, Flushing
  <2>3. /\ file.sized /\ ram.fd /\ Safe(file) /\ file.hdr = file.stable
        /\ ram.gen = Newest(file.hdr) /\ \A f \in previous : Safe(f)
    BY <2>2 DEF HdrOK
  <2>4. /\ FileOK(file') /\ file'.sized = file.sized
        /\ file'.hdr = [file.hdr EXCEPT ![PageOf(ram.gen + 1)] = ram.gen + 1]
        /\ file'.stable = file.stable /\ ram'.gen = ram.gen + 1 /\ ram'.fd = ram.fd
    BY <2>1, HeaderWritten
  <2>5. PICK n \in Nat, q \in 1..2 :
          n = ram.gen /\ n = Newest(file.hdr) /\ n = file.hdr[q] /\ n # Bad
    <3>1. file.hdr \in Pages BY Kept0, FileTypes
    <3>2. PICK p \in 1..2 : file.hdr[p] # Bad BY <2>3 DEF Safe
    <3> QED BY <2>3, <3>1, <3>2, NewestFacts
  <2>6. PICK k \in Nat : k = n + 1 OBVIOUS
  <2> DEFINE p == PageOf(k)
  <2>7. p \in 1..2 /\ PageOf(n) = q /\ p # q
    <3>1. PageOf(n) = q BY <2>3, <2>5 DEF Safe
    <3> QED BY <3>1, <2>6, PageFacts
  <2>8. file.hdr \in Pages BY Kept0, FileTypes
  <2>9. file'.hdr = [file.hdr EXCEPT ![p] = k] BY <2>4, <2>5, <2>6
  <2>10. file'.hdr[p] = k /\ file'.hdr[q] = n
    BY <2>5, <2>7, <2>8, <2>9 DEF Pages
  <2>11. \A x \in 1..2 : x = p \/ x = q BY <2>7
  <2>12. PageOf(k) = p OBVIOUS
  <2> HIDE DEF p
  <2>13. Safe(file')
    <3>1. \A x \in 1..2 : file'.hdr[x] = Bad \/ PageOf(file'.hdr[x]) = x
      BY <2>7, <2>10, <2>11, <2>12
    <3>2. \A x \in 1..2 : file'.stable[x] = Bad \/ PageOf(file'.stable[x]) = x
      BY <2>3, <2>4 DEF Safe
    <3>3. file'.hdr[q] = file'.stable[q] /\ file'.hdr[q] # Bad
      BY <2>3, <2>4, <2>5, <2>10
    <3> QED BY <2>3, <2>4, <3>1, <3>2, <3>3 DEF Safe
  <2>14. Newest(file'.hdr) = k
    <3>1. (p = 1 /\ q = 2) \/ (p = 2 /\ q = 1) BY <2>7
    <3>2. k >= n /\ ~(n >= k) BY <2>6
    <3> QED BY <2>10, <3>1, <3>2 DEF Newest
  <2>15. ram'.gen = k BY <2>4, <2>5, <2>6
  <2>16. pc' # "refused" /\ pc' # "create" /\ pc' \notin Renamed BY <2>1 DEF Renamed
  <2> QED BY <2>1, <2>3, <2>4, <2>13, <2>14, <2>15, <2>16 DEF HdrOK
<1>4. CASE FlushSync
  <2>1. /\ pc = "flushSync" /\ previous' = previous /\ file' = Synced(file)
        /\ FlushEnds(ram)
    BY <1>4, NoFailure DEF FlushSync
  <2>2. Running /\ pc # "create" /\ pc \in Working BY <2>1 DEF Running, Working, Flushing
  <2>3. /\ file.sized /\ ram.fd /\ Safe(file)
        /\ ram.gen = Newest(file.hdr) /\ \A f \in previous : Safe(f)
    BY <2>2 DEF HdrOK
  <2>4. file'.hdr = file.hdr /\ file'.stable = file.hdr /\ file'.sized
    BY <2>1, <2>3, Kept0, SyncedOK
  <2>5. Safe(file') BY <2>3, <2>4 DEF Safe
  <2>6. CASE Head(todo)
    <3>1. pc' = "closed" BY <2>1, <2>6 DEF FlushEnds
    <3> QED BY <2>1, <2>3, <2>4, <2>5, <3>1, HdrClosed
  <2>7. CASE ~Head(todo)
    <3>1. pc' = "open" /\ ram' = ram BY <2>1, <2>7 DEF FlushEnds
    <3>2. pc' \notin Renamed BY <3>1 DEF Renamed
    <3> QED BY <2>1, <2>3, <2>4, <2>5, <3>1, <3>2 DEF HdrOK
  <2> QED BY <2>6, <2>7
<1> QED BY <1>1, <1>2, <1>3, <1>4

LEMMA CompactHdr ==
    ASSUME LogInv, HdrOK, Unharmed,
           Compact \/ CompactOnOpenFails \/ CompactReopen \/ CloseDead
    PROVE  HdrOK'
<1>1. CASE Compact
  <2>1. /\ pc \in {"open", "compactOnOpen"} /\ pc' \in Renamed /\ file' = CompactedFile
        /\ previous' \subseteq previous \cup {file} /\ ram' = ram
    BY <1>1 DEF Compact, Renamed
  <2>2. /\ Running /\ pc # "create" /\ pc # "flushSync" BY <2>1 DEF Running
  <2>3. file.sized /\ ram.fd /\ Safe(file) /\ \A f \in previous : Safe(f)
    BY <2>2 DEF HdrOK
  <2>4. file'.sized /\ file'.hdr = <<2, 1>> /\ file'.stable = <<2, 1>>
    BY <2>1, <2>3, Kept0, SteadyCompacted
  <2>5. Safe(file') BY <2>4, FirstHeadersSafe
  <2>6. pc' # "refused" /\ pc' # "create" /\ pc' \notin Working
    BY <2>1 DEF Renamed, Working, Flushing
  <2> QED BY <2>1, <2>3, <2>4, <2>5, <2>6 DEF HdrOK
<1>2. CASE CompactOnOpenFails BY <1>2, NoFailure DEF CompactOnOpenFails
<1>3. CASE CompactReopen
  <2>1. /\ pc \in Renamed /\ previous' = {} /\ ram' = CompactedRam /\ pc' = "open"
        /\ file' = file
    BY <1>3, NoFailure DEF CompactReopen, Reopened, Renamed
  <2>2. Running /\ pc # "create" /\ pc # "flushSync" BY <2>1 DEF Running, Renamed
  <2>3. file.sized /\ ram.fd /\ Safe(file) /\ file.hdr = <<2, 1>> /\ file.stable = <<2, 1>>
    BY <2>1, <2>2 DEF HdrOK
  <2>4. CompactedRam.gen = 2 /\ CompactedRam.fd BY <2>3, Kept0, CompactedOK
  <2>5. Newest(file.hdr) = 2 BY <2>3, FirstHeadersSafe
  <2>6. pc' \notin Renamed BY <2>1 DEF Renamed
  <2> QED BY <2>1, <2>3, <2>4, <2>5, <2>6 DEF HdrOK
<1>4. CASE CloseDead
  <2>1. pc = "open" /\ ~ram.fd BY <1>4 DEF CloseDead
  <2>2. Running /\ pc # "create" BY <2>1 DEF Running
  <2> QED BY <2>1, <2>2 DEF HdrOK
<1> QED BY <1>1, <1>2, <1>3, <1>4

\* Power is lost only where the very first open() is over.
LEMMA EndHdr ==
    ASSUME FirstOpenSafe, LogInv, HdrOK, Unharmed, Kill \/ PowerLoss
    PROVE  HdrOK'
<1>1. CASE Kill BY <1>1, Kept0 DEF Kill, Unharmed
<1>2. CASE PowerLoss
  <2>1. Running /\ pc # "create" BY <1>2 DEF PowerLoss, MayStop
  <2>2. file.sized /\ Safe(file) /\ \A f \in previous : Safe(f) BY <2>1 DEF HdrOK
  <2>3. pc' = "closed" /\ previous' = {} BY <1>2 DEF PowerLoss
  <2>4. PICK f \in {file} \cup previous : \E g \in AfterPowerLoss(f) : file' = Settled(g)
    BY <1>2 DEF PowerLoss
  <2>5. PICK g \in AfterPowerLoss(f) : file' = Settled(g) BY <2>4
  <2>6. FileOK(f) /\ Safe(f) BY <2>2, Kept0
  <2>7. /\ FileOK(file') /\ file'.sized = f.sized
        /\ file'.hdr \in PagesAfterPowerLoss(f) /\ file'.stable = file'.hdr
    BY <2>5, <2>6, AfterPowerLossOK
  <2>8. Safe(file') BY <2>6, <2>7, PowerSafe
  <2> QED BY <2>3, <2>7, <2>8, HdrClosed
<1> QED BY <1>1, <1>2

\* Neither count ever goes down.
LEMMA Harmed ==
    ASSUME LogInv, [Next]_vars, kills' = 0, faults' = 0
    PROVE  kills = 0 /\ faults = 0
<1>0. kills \in Nat /\ faults \in Nat BY Kept0
<1>1. kills' = kills \/ kills' = kills + 1
  BY DEF Next, vars, CreateFile, CreateHeader, CreateSync, OpenRefused, OpenExisting,
         AddDocs, AddDoc, RemoveDocs, RemoveDoc, UpdateMetadata, UpdateMetadataDeferred,
         UpdateMetadataFails, Flush, FlushMeta, FlushSnapshot, FlushHeader, FlushSync,
         Compact, CompactOnOpenFails, CompactReopen, CloseDead, Kill, PowerLoss
<1>2. faults' = faults \/ faults' = faults + 1
  BY DEF Next, vars, CreateFile, CreateHeader, CreateSync, OpenRefused, OpenExisting,
         AddDocs, AddDoc, RemoveDocs, RemoveDoc, UpdateMetadata, UpdateMetadataDeferred,
         UpdateMetadataFails, Flush, FlushMeta, FlushSnapshot, FlushHeader, FlushSync,
         Compact, CompactOnOpenFails, CompactReopen, CloseDead, Kill, PowerLoss,
         WriteFails, AppendFails, WriteHeaderFails
<1> QED BY <1>0, <1>1, <1>2

LEMMA NextHdr ==
    ASSUME FirstOpenSafe, LogInv, HdrInv, [Next]_vars
    PROVE  HdrInv'
<1> SUFFICES ASSUME kills' = 0, faults' = 0 PROVE HdrOK'
  BY DEF HdrInv
<1>1. HdrOK /\ Unharmed BY Harmed DEF HdrInv, Unharmed
<1>2. CASE Next
  BY <1>1, <1>2, OpenHdr, EditHdr, FlushHdr, CompactHdr, EndHdr DEF Next
<1>3. CASE UNCHANGED vars
  <2>1. file' = file /\ previous' = previous /\ ram' = ram /\ pc' = pc BY <1>3 DEF vars
  <2>2. Running' = Running BY <2>1 DEF Running
  <2> QED BY <1>1, <2>1, <2>2 DEF HdrOK
<1> QED BY <1>2, <1>3

LEMMA InitHdr == ASSUME Init PROVE HdrInv
<1>1. file = NoFile /\ previous = {} /\ pc = "closed" BY DEF Init
<1>2. ~file.sized BY <1>1 DEF NoFile
<1>3. ~Running /\ pc \notin Working /\ pc \notin Renamed
  BY <1>1 DEF Running, Working, Flushing, Renamed
<1> QED BY <1>1, <1>2, <1>3 DEF HdrInv, HdrOK

LEMMA HdrSurvives == ASSUME LogInv, HdrInv PROVE OpensAfterPowerLoss
<1> SUFFICES ASSUME kills = 0, faults = 0 PROVE HeaderSurvives /\ NeverRefused
  BY DEF OpensAfterPowerLoss
<1>1. HdrOK BY DEF HdrInv
<1>2. NeverRefused BY <1>1 DEF NeverRefused, HdrOK
<1>3. ASSUME pc \notin {"create", "refused"}, file.sized,
             NEW hdr \in PagesAfterPowerLoss(file)
      PROVE  Newest(hdr) # Bad
  <2>1. Safe(file) BY <1>1, <1>3 DEF HdrOK
  <2> QED BY <2>1, Kept0, SafeSurvives
<1> QED BY <1>2, <1>3 DEF HeaderSurvives

\* A store whose first open() went through can be opened after any number of
\* power losses, at any moment, as long as no write failed and no process was
\* killed: the two header pages are never both at risk.
THEOREM OpensAgain ==
    ASSUME FirstOpenSafe
    PROVE  Spec => []OpensAfterPowerLoss
<1>1. Init => HdrInv BY InitHdr
<1>2. LogInv /\ HdrInv /\ [Next]_vars => HdrInv' BY NextHdr
<1>3. LogInv /\ HdrInv => OpensAfterPowerLoss BY HdrSurvives
<1> QED BY <1>1, <1>2, <1>3, LogAlways, PTL DEF Spec
=============================================================================
