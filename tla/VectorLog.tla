----------------------------- MODULE VectorLog -----------------------------
(***************************************************************************)
(* The file of a vdb::VectorStore: an append-only log of records behind    *)
(* two alternating header pages, the RAM state an open handle keeps beside  *)
(* it, and what a killed process, a power loss or a failed write can leave  *)
(* behind.  src/core/vdb/vector_store.cpp.                                  *)
(*                                                                         *)
(* add(), remove(), flush() and compact() hold mStructure exclusively and   *)
(* an update holds mLog while it appends, so the file sees one writer; the  *)
(* locks themselves are the subject of VectorLocks.                         *)
(***************************************************************************)
EXTENDS Integers, Sequences, FiniteSets, SequencesExt

CONSTANTS
    Metas,          \* the metadata values a caller may store
    Bytes,          \* Bytes[t]: framed size of a record of type t
    DataStart,      \* kDataStart: the two header pages ahead of the log
    CompactOnOpen,  \* StoreOptions::compact_on_open
    MaxBatch,       \* documents in one add()
    MaxId,          \* bound: document ids handed out
    MaxLog,         \* bound: records in the file
    MaxFaults,      \* bound: failed writes
    MaxKills,       \* bound: deaths of the process
    MaxPower,       \* bound: power losses
    MaxMishaps,     \* bound: all of these together
    FirstOpenSafe   \* TRUE: nothing stops the very first open() half way

RecordTypes == {"Put", "Set", "Del", "Snap"}

ASSUME VectorLogAssumption ==
    /\ Bytes \in [RecordTypes -> Nat \ {0}]
    /\ DataStart \in Nat
    /\ {MaxBatch, MaxId, MaxLog, MaxFaults, MaxKills, MaxPower, MaxMishaps} \subseteq Nat
    /\ {CompactOnOpen, FirstOpenSafe} \subseteq BOOLEAN

VARIABLES
    file,     \* what read() returns: log, both header pages, what fsync settled
    previous, \* the file a rename replaced, until the directory is synced
              \* (kept only where a power loss may still come)
    ram,      \* the handle's fields
    pc,       \* where the call in progress is
    todo,     \* what that call still has to write
    faults, kills, power

vars == <<file, previous, ram, pc, todo, faults, kills, power>>

----------------------------------------------------------------------------
\* Records, pages and the RAM they are replayed into.

Torn == [type |-> "Torn"]           \* a frame whose checksum fails
Put(id, m) == [type |-> "Put", id |-> id, meta |-> m]
Set(id, m) == [type |-> "Set", id |-> id, meta |-> m]
Del(id)    == [type |-> "Del", id |-> id]
Snap(ids)  == [type |-> "Snap", graph |-> ids]

\* A page no header can be decoded from; a good page is its generation.
Bad == -1

NoFile == [log |-> <<>>, synced |-> 0, hdr |-> <<Bad, Bad>>,
           stable |-> <<Bad, Bad>>, sized |-> FALSE]

\* mEntries by label; snap is the position of the newest snapshot record, 0
\* for none; end is mLogEnd, in records.
EmptyRam == [entries |-> <<>>, nextId |-> 1, live |-> 0, garbage |-> 0,
             gen |-> 0, snap |-> 0, end |-> 0, fd |-> FALSE]

NewEntry(id, m) ==
    [id |-> id, meta |-> m, deleted |-> FALSE, metaBytes |-> 0, dirty |-> FALSE]

\* mIdToLabel: the newest label that carries the id, 0 for none.
Label(entries, id) == SelectLastInSeq(entries, LAMBDA e : e.id = id)

Ids(entries) == [l \in DOMAIN entries |-> entries[l].id]

----------------------------------------------------------------------------
\* open()'s replay of one record.

Bury(st, l) ==
    [st EXCEPT !.entries[l].deleted = TRUE, !.live = @ - 1,
               !.garbage = @ + Bytes["Put"] + st.entries[l].metaBytes]

ReplayPut(st, r) ==
    LET old  == Label(st.entries, r.id)
        dead == old # 0 /\ ~st.entries[old].deleted
        kept == IF dead THEN Bury(st, old) ELSE st
    IN  [kept EXCEPT !.entries = Append(@, NewEntry(r.id, r.meta)),
                     !.live = @ + 1,
                     !.nextId = IF r.id >= @ THEN r.id + 1 ELSE @]

\* Fault: the new record is charged in place of the one it supersedes.
ReplaySetChargesNew(st, r) ==
    LET l == Label(st.entries, r.id)
    IN  IF l = 0 THEN [st EXCEPT !.garbage = @ + Bytes["Set"]]
        ELSE [st EXCEPT !.garbage = @ + Bytes["Set"],
                        !.entries[l] = [@ EXCEPT !.metaBytes = Bytes["Set"],
                                                 !.meta = r.meta]]

ReplaySet(st, r) ==
    LET l == Label(st.entries, r.id)
    IN  IF l = 0 THEN [st EXCEPT !.garbage = @ + Bytes["Set"]]
        ELSE [st EXCEPT !.garbage = @ + st.entries[l].metaBytes,
                        !.entries[l] = [@ EXCEPT !.metaBytes = Bytes["Set"],
                                                 !.meta = r.meta]]

\* Fault: replay counts a deletion but does not carry it out.
ReplayDelCountsOnly(st, r) == [st EXCEPT !.garbage = @ + Bytes["Del"]]

ReplayDel(st, r) ==
    LET l == Label(st.entries, r.id)
        buried == IF l # 0 /\ ~st.entries[l].deleted THEN Bury(st, l) ELSE st
    IN  [buried EXCEPT !.garbage = @ + Bytes["Del"]]

\* Fault: the first snapshot is charged although it supersedes none.
ReplaySnapChargesFirst(st) ==
    [st EXCEPT !.garbage = @ + Bytes["Snap"], !.snap = st.end + 1]

ReplaySnap(st) ==
    [st EXCEPT !.garbage = @ + (IF st.snap = 0 THEN 0 ELSE Bytes["Snap"]),
               !.snap = st.end + 1]

ReplayRecord(st, r) ==
    LET read == CASE r.type = "Put"  -> ReplayPut(st, r)
                  [] r.type = "Set"  -> ReplaySet(st, r)
                  [] r.type = "Del"  -> ReplayDel(st, r)
                  [] r.type = "Snap" -> ReplaySnap(st)
    IN  [read EXCEPT !.end = @ + 1]

\* What the scan has made of the first n records.
Replayed(log, n) ==
    LET scan[i \in 0..n] ==
          IF i = 0 THEN EmptyRam ELSE ReplayRecord(scan[i - 1], log[i])
    IN  scan[n]

Replay(records) == Replayed(records, Len(records))

\* The scan stops at the first frame that does not check out, however many
\* whole records lie behind it.
ValidEnd(log) ==
    LET torn == SelectInSeq(log, LAMBDA r : r = Torn)
    IN  IF torn = 0 THEN Len(log) ELSE torn - 1

ValidRecords(log) == SubSeq(log, 1, ValidEnd(log))

\* The newest generation a page still carries.
Newest(hdr) == IF hdr[1] >= hdr[2] THEN hdr[1] ELSE hdr[2]

----------------------------------------------------------------------------
\* The three writes everything else is made of.

\* pwrite() at mLogEnd.  The record replaces whatever a failed write had left
\* there and may be shorter than it.
Overwritten(cell) ==
    LET kept == SubSeq(file.log, 1, ram.end)
    IN  {Append(kept, cell)} \cup
        (IF Len(file.log) > ram.end THEN {kept \o <<cell, Torn>>} ELSE {})

AppendRecord(r) ==
    /\ ram.end < MaxLog
    /\ \E log \in Overwritten(r) : file' = [file EXCEPT !.log = log]

MayMishap == faults + kills + power < MaxMishaps
PowerMayGo == MayMishap /\ power < MaxPower

WriteFails ==
    /\ MayMishap /\ faults < MaxFaults
    /\ faults' = faults + 1

AppendFails ==
    /\ WriteFails
    /\ ram.end < MaxLog
    /\ \E log \in Overwritten(Torn) \cup {file.log} :
          file' = [file EXCEPT !.log = log]

\* Fault: every header goes to the same page.
SamePage(gen) == 1

\* The generation moves on before the page is written, whatever comes of it.
PageOf(gen) == IF gen % 2 = 0 THEN 1 ELSE 2

WriteHeader ==
    LET gen == ram.gen + 1
    IN  /\ ram' = [ram EXCEPT !.gen = gen]
        /\ file' = [file EXCEPT !.hdr[PageOf(gen)] = gen]

WriteHeaderFails ==
    LET gen == ram.gen + 1
    IN  /\ WriteFails
        /\ \E left \in {Bad, file.hdr[PageOf(gen)]} :
              file' = [file EXCEPT !.hdr[PageOf(gen)] = left]

Synced(f) == [f EXCEPT !.synced = ValidEnd(f.log), !.stable = f.hdr]

----------------------------------------------------------------------------
\* open()

Init ==
    /\ file = NoFile
    /\ previous = {}
    /\ ram = EmptyRam
    /\ pc = "closed"
    /\ todo = <<>>
    /\ faults = 0 /\ kills = 0 /\ power = 0

\* A file too short for two headers is a new store: size it, write both
\* headers, sync.
CreateFile ==
    /\ pc = "closed" /\ ~file.sized
    /\ file' = [NoFile EXCEPT !.sized = TRUE]
    /\ ram' = EmptyRam
    /\ pc' = "create"
    /\ UNCHANGED <<previous, todo, faults, kills, power>>

CreateHeader ==
    /\ pc = "create" /\ ram.gen < 2
    /\ \/ WriteHeader /\ UNCHANGED <<pc, faults>>
       \/ WriteHeaderFails /\ pc' = "closed" /\ ram' = EmptyRam
    /\ UNCHANGED <<previous, todo, kills, power>>

\* Fault: a new file is not synced before open() returns.
CreateWithoutSync ==
    /\ pc = "create" /\ ram.gen = 2
    /\ ram' = [ram EXCEPT !.fd = TRUE]
    /\ pc' = "open"
    /\ UNCHANGED <<file, previous, todo, faults, kills, power>>

CreateSync ==
    /\ pc = "create" /\ ram.gen = 2
    /\ \/ /\ file' = Synced(file)
          /\ ram' = [ram EXCEPT !.fd = TRUE]
          /\ pc' = "open"
          /\ UNCHANGED faults
       \/ WriteFails /\ pc' = "closed" /\ ram' = EmptyRam /\ UNCHANGED file
    /\ UNCHANGED <<previous, todo, kills, power>>

\* Neither page decodes: the file is refused, now and at every later open.
OpenRefused ==
    /\ pc = "closed" /\ file.sized
    /\ Newest(file.hdr) = Bad
    /\ pc' = "refused"
    /\ UNCHANGED <<file, previous, ram, todo, faults, kills, power>>

\* What the records at some positions of a log, up to the n-th, weigh.
BytesAmong(log, positions, n) ==
    LET sum[i \in 0..n] ==
          IF i = 0 THEN 0
          ELSE sum[i - 1] + (IF i \in positions THEN Bytes[log[i].type] ELSE 0)
    IN  sum[n]

\* mLogEnd, in bytes past the headers.
LogBytes(records) == BytesAmong(records, DOMAIN records, Len(records))

OpenExisting ==
    LET valid == ValidRecords(file.log)
        st == [Replay(valid) EXCEPT !.gen = Newest(file.hdr), !.fd = TRUE]
        dead == st.garbage > 0
                /\ st.garbage > DataStart + LogBytes(valid) - st.garbage
    IN  /\ pc = "closed" /\ file.sized
        /\ Newest(file.hdr) # Bad
        /\ ram' = st
        /\ file' = [file EXCEPT !.log = valid]
        /\ pc' = IF CompactOnOpen /\ dead THEN "compactOnOpen" ELSE "open"
        /\ UNCHANGED <<previous, todo, faults, kills, power>>

----------------------------------------------------------------------------
\* add(), remove(), update_metadata(), update_metadata_deferred()

AddDocs ==
    /\ pc = "open" /\ ram.fd
    /\ \E n \in 1..MaxBatch : \E metas \in [1..n -> Metas] :
          /\ ram.nextId + n - 1 <= MaxId
          /\ todo' = metas
    /\ pc' = "add"
    /\ UNCHANGED <<file, previous, ram, faults, kills, power>>

\* One iteration of add()'s loop.
AddDoc ==
    /\ pc = "add"
    /\ \/ /\ AppendRecord(Put(ram.nextId, Head(todo)))
          /\ ram' = [ram EXCEPT
                       !.entries = Append(@, NewEntry(ram.nextId, Head(todo))),
                       !.nextId = @ + 1, !.live = @ + 1, !.end = @ + 1]
          /\ todo' = Tail(todo)
          /\ pc' = IF Len(todo) = 1 THEN "open" ELSE "add"
          /\ UNCHANGED faults
       \/ AppendFails /\ todo' = <<>> /\ pc' = "open" /\ UNCHANGED ram
    /\ UNCHANGED <<previous, kills, power>>

\* Fault: a tombstoned document can be found and removed again.
AnyLabels == DOMAIN ram.entries

LiveLabels == {l \in DOMAIN ram.entries : ~ram.entries[l].deleted}

RemoveDocs ==
    /\ pc = "open" /\ ram.fd
    /\ \E gone \in SUBSET LiveLabels :
          gone # {} /\ todo' = SetToSeq(gone)
    /\ pc' = "remove"
    /\ UNCHANGED <<file, previous, ram, faults, kills, power>>

\* One iteration of remove()'s loop.
RemoveDoc ==
    LET l == Head(todo) IN
    /\ pc = "remove"
    /\ \/ /\ AppendRecord(Del(ram.entries[l].id))
          /\ ram' = [Bury(ram, l) EXCEPT !.garbage = @ + Bytes["Del"],
                                         !.end = @ + 1]
          /\ todo' = Tail(todo)
          /\ pc' = IF Len(todo) = 1 THEN "open" ELSE "remove"
          /\ UNCHANGED faults
       \/ AppendFails /\ todo' = <<>> /\ pc' = "open" /\ UNCHANGED ram
    /\ UNCHANGED <<previous, kills, power>>

\* The SetMeta bookkeeping update_metadata() and flush() share.
WithSet(st, l, m) ==
    [st EXCEPT !.garbage = @ + st.entries[l].metaBytes, !.end = @ + 1,
               !.entries[l] = [@ EXCEPT !.metaBytes = Bytes["Set"], !.meta = m,
                                        !.dirty = FALSE]]

UpdateMetadata(l, m) ==
    /\ pc = "open" /\ ram.fd
    /\ AppendRecord(Set(ram.entries[l].id, m))
    /\ ram' = WithSet(ram, l, m)
    /\ UNCHANGED <<previous, pc, todo, faults, kills, power>>

UpdateMetadataFails ==
    /\ pc = "open" /\ ram.fd /\ LiveLabels # {}
    /\ AppendFails
    /\ UNCHANGED <<previous, ram, pc, todo, kills, power>>

UpdateMetadataDeferred(l, m) ==
    /\ pc = "open" /\ ram.fd
    /\ ram' = [ram EXCEPT !.entries[l].meta = m, !.entries[l].dirty = TRUE]
    /\ UNCHANGED <<file, previous, pc, todo, faults, kills, power>>

----------------------------------------------------------------------------
\* flush() and the destructor, which flushes and closes

Flush ==
    /\ pc = "open" /\ ram.fd
    /\ \E closing \in BOOLEAN : todo' = <<closing>>
    /\ pc' = "flushMeta"
    /\ UNCHANGED <<file, previous, ram, faults, kills, power>>

\* Where a flush ends, well or badly; the destructor closes either way.
FlushEnds(st) ==
    /\ todo' = <<>>
    /\ pc' = IF Head(todo) THEN "closed" ELSE "open"
    /\ ram' = IF Head(todo) THEN EmptyRam ELSE st

DirtyLive == {l \in LiveLabels : ram.entries[l].dirty}

FlushMeta ==
    /\ pc = "flushMeta" /\ DirtyLive # {}
    /\ LET l == Min(DirtyLive)
           e == ram.entries[l]
       IN \/ /\ AppendRecord(Set(e.id, e.meta))
             /\ ram' = WithSet(ram, l, e.meta)
             /\ UNCHANGED <<pc, todo, faults>>
          \/ AppendFails /\ FlushEnds(ram)
    /\ UNCHANGED <<previous, kills, power>>

FlushSnapshot ==
    /\ pc = "flushMeta" /\ DirtyLive = {}
    /\ \/ /\ AppendRecord(Snap(Ids(ram.entries)))
          /\ ram' = [ReplaySnap(ram) EXCEPT
                       !.entries = [l \in DOMAIN @ |->
                                      [@[l] EXCEPT !.dirty = FALSE]],
                       !.end = @ + 1]
          /\ pc' = "flushHeader"
          /\ UNCHANGED <<todo, faults>>
       \/ AppendFails /\ FlushEnds(ram)
    /\ UNCHANGED <<previous, kills, power>>

FlushHeader ==
    /\ pc = "flushHeader"
    /\ \/ WriteHeader /\ pc' = "flushSync" /\ UNCHANGED <<todo, faults>>
       \/ WriteHeaderFails /\ FlushEnds([ram EXCEPT !.gen = @ + 1])
    /\ UNCHANGED <<previous, kills, power>>

FlushSync ==
    /\ pc = "flushSync"
    /\ \/ file' = Synced(file) /\ UNCHANGED faults
       \/ WriteFails /\ UNCHANGED file
    /\ FlushEnds(ram)
    /\ UNCHANGED <<previous, kills, power>>

----------------------------------------------------------------------------
\* compact(): a temp file with the live documents, then a rename.  A failure
\* before the rename changes nothing but a temp file nobody reads.

\* The documents still live among the first n.
KeptOf(entries, n) ==
    LET kept[i \in 0..n] ==
          IF i = 0 THEN <<>>
          ELSE IF entries[i].deleted THEN kept[i - 1]
          ELSE Append(kept[i - 1], entries[i])
    IN  kept[n]

Kept == KeptOf(ram.entries, Len(ram.entries))

\* Fault: the snapshot is taken with the labels of before the compaction.
CompactedLogOldLabels ==
    Append([l \in DOMAIN Kept |-> Put(Kept[l].id, Kept[l].meta)],
           Snap(Ids(ram.entries)))

CompactedLog ==
    Append([l \in DOMAIN Kept |-> Put(Kept[l].id, Kept[l].meta)],
           Snap(Ids(Kept)))

\* Fault: the temp file is renamed without having been synced.
CompactedUnsynced ==
    [file EXCEPT !.log = CompactedLog, !.synced = 0, !.hdr = <<2, 1>>]

CompactedFile ==
    Synced([file EXCEPT !.log = CompactedLog, !.hdr = <<2, 1>>])

Compact ==
    /\ \/ pc = "open" /\ ram.fd /\ pc' = "renamed"
       \/ pc = "compactOnOpen" /\ pc' = "renamedOnOpen"
    /\ file' = CompactedFile
    /\ previous' = IF PowerMayGo THEN previous \cup {file} ELSE {}
    /\ UNCHANGED <<ram, todo, faults, kills, power>>

\* compact_on_open that cannot write its temp file fails the whole open().
CompactOnOpenFails ==
    /\ pc = "compactOnOpen"
    /\ WriteFails
    /\ pc' = "closed"
    /\ ram' = EmptyRam
    /\ UNCHANGED <<file, previous, todo, kills, power>>

CompactedRam ==
    [ram EXCEPT !.entries = [l \in DOMAIN Kept |->
                               [Kept[l] EXCEPT !.metaBytes = 0]],
                !.live = Len(Kept), !.garbage = 0, !.gen = 2,
                !.snap = Len(Kept) + 1, !.end = Len(Kept) + 1]

Reopened == ram' = CompactedRam /\ pc' = "open"

\* The handle, or the open() that compacted, is left without a descriptor.
NotReopened ==
    \/ pc = "renamed" /\ pc' = "open" /\ ram' = [ram EXCEPT !.fd = FALSE]
    \/ pc = "renamedOnOpen" /\ pc' = "closed" /\ ram' = EmptyRam

\* The directory is synced, then the renamed file is opened in place of the
\* old descriptor.  Nobody looks at what the sync returned: where it failed,
\* the call still returns well and the old file may still come back.
CompactReopen ==
    /\ pc \in {"renamed", "renamedOnOpen"}
    /\ UNCHANGED <<file, todo, kills, power>>
    /\ \/ previous' = {} /\ Reopened /\ UNCHANGED faults
       \/ WriteFails /\ previous' = previous /\ Reopened
       \/ WriteFails /\ previous' \in {{}, previous} /\ NotReopened

\* The destructor of a handle that lost its descriptor does nothing.
CloseDead ==
    /\ pc = "open" /\ ~ram.fd
    /\ pc' = "closed"
    /\ ram' = EmptyRam
    /\ UNCHANGED <<file, previous, todo, faults, kills, power>>

----------------------------------------------------------------------------
\* The environment.

Running == pc \notin {"closed", "refused"}
MayStop == Running /\ (FirstOpenSafe => pc # "create")

\* The process dies; the page cache survives it.
Kill ==
    /\ MayStop /\ MayMishap /\ kills < MaxKills
    /\ kills' = kills + 1
    /\ ram' = EmptyRam /\ pc' = "closed" /\ todo' = <<>>
    /\ UNCHANGED <<file, previous, faults, power>>

\* What a power loss may leave of a file: every record the last fsync covered,
\* any subset of the later ones, and of a page written since either version
\* or a torn mixture of the two.
PagesAfterPowerLoss(f) ==
    LET page(p) == IF f.hdr[p] = f.stable[p] THEN {f.hdr[p]}
                   ELSE {f.hdr[p], f.stable[p], Bad}
    IN  page(1) \X page(2)

LogsAfterPowerLoss(f) ==
    {[i \in DOMAIN f.log |-> IF i \in lost THEN Torn ELSE f.log[i]]
        : lost \in SUBSET (f.synced + 1 .. Len(f.log))}

AfterPowerLoss(f) ==
    {[f EXCEPT !.log = left[1], !.hdr = left[2], !.stable = left[2]]
        : left \in LogsAfterPowerLoss(f) \X PagesAfterPowerLoss(f)}

\* What was read back is what the disk now holds.
Settled(f) == [f EXCEPT !.synced = ValidEnd(f.log)]

PowerLoss ==
    /\ MayStop /\ PowerMayGo
    /\ power' = power + 1
    /\ \E f \in {file} \cup previous : \E g \in AfterPowerLoss(f) :
          file' = Settled(g)
    /\ previous' = {}
    /\ ram' = EmptyRam /\ pc' = "closed" /\ todo' = <<>>
    /\ UNCHANGED <<faults, kills>>

Next ==
    \/ CreateFile \/ CreateHeader \/ CreateSync
    \/ OpenRefused \/ OpenExisting
    \/ AddDocs \/ AddDoc \/ RemoveDocs \/ RemoveDoc
    \/ \E l \in LiveLabels, m \in Metas :
          UpdateMetadata(l, m) \/ UpdateMetadataDeferred(l, m)
    \/ UpdateMetadataFails
    \/ Flush \/ FlushMeta \/ FlushSnapshot \/ FlushHeader \/ FlushSync
    \/ Compact \/ CompactOnOpenFails \/ CompactReopen \/ CloseDead
    \/ Kill \/ PowerLoss

Spec == Init /\ [][Next]_vars

----------------------------------------------------------------------------
Records == [type : {"Put"}, id : 1..MaxId, meta : Metas]
           \cup [type : {"Set"}, id : 1..MaxId, meta : Metas]
           \cup [type : {"Del"}, id : 1..MaxId]
           \cup [type : {"Snap"}, graph : Seq(1..MaxId)]

Entries == [id : 1..MaxId, meta : Metas, deleted : BOOLEAN,
            metaBytes : {0, Bytes["Set"]}, dirty : BOOLEAN]

\* Every field of the handle and of the file has the type the code gives it.
TypeOK ==
    /\ file.log \in Seq(Records \cup {Torn})
    /\ file.synced \in 0..Len(file.log)
    /\ \A p \in {1, 2} : {file.hdr[p], file.stable[p]} \subseteq Nat \cup {Bad}
    /\ file.sized \in BOOLEAN
    /\ ram.entries \in Seq(Entries)
    /\ ram.nextId \in 1..MaxId + 1
    /\ {ram.live, ram.garbage, ram.gen, ram.snap, ram.end} \subseteq Nat
    /\ ram.fd \in BOOLEAN
    /\ pc \in {"closed", "refused", "create", "open", "add", "remove",
              "flushMeta", "flushHeader", "flushSync", "compactOnOpen",
              "renamed", "renamedOnOpen"}
    /\ {faults, kills, power} \subseteq Nat

\* The documents a handle serves, and those a file holds.
Contents(st) ==
    LET live == {l \in DOMAIN st.entries : ~st.entries[l].deleted}
    IN  [id \in {st.entries[l].id : l \in live} |->
            st.entries[Label(st.entries, id)].meta]

\* The handle whose fields the log must explain: not while the directory entry
\* still waits for compaction to swap the fields over, and not one without a
\* descriptor.
Steady == Running /\ ram.fd /\ pc \notin {"renamed", "renamedOnOpen"}

OnDisk == SubSeq(file.log, 1, ram.end)

\* What open() would rebuild from the log is what the handle holds, entry by
\* entry and counter by counter, but for the metadata still marked dirty; ids
\* alone may differ, since compaction keeps mNextId in RAM.  The bookkeeping of
\* add, remove, update, flush and compact and that of replay are two separate
\* pieces of code.
ReplayMatchesRam ==
    Steady =>
        LET st == Replay(OnDisk) IN
        /\ \A r \in ToSet(OnDisk) : r # Torn
        /\ Ids(st.entries) = Ids(ram.entries)
        /\ \A l \in DOMAIN ram.entries :
              LET mine == ram.entries[l]  theirs == st.entries[l] IN
              /\ theirs.deleted = mine.deleted
              /\ theirs.metaBytes = mine.metaBytes
              /\ mine.dirty \/ mine.deleted \/ theirs.meta = mine.meta
        /\ st.live = ram.live
        /\ st.garbage = ram.garbage
        /\ st.snap = ram.snap
        /\ st.nextId <= ram.nextId

\* A record is live when recovery still needs it.
IsLive(log, i) ==
    LET later == {log[j] : j \in i + 1 .. Len(log)}
        gone(id) == \E r \in later : r.type = "Del" /\ r.id = id
    IN  CASE log[i].type = "Put"  -> ~gone(log[i].id)
          [] log[i].type = "Set"  ->
                /\ ~gone(log[i].id)
                /\ ~ \E r \in later : r.type = "Set" /\ r.id = log[i].id
          [] log[i].type = "Snap" -> ~ \E r \in later : r.type = "Snap"
          [] log[i].type = "Del"  -> FALSE

\* What a log says, read all at once: the last metadata written for every
\* document that was put and never deleted.
Docs(log) ==
    LET of(id, types, i) == log[i].type \in types /\ log[i].id = id
        puts == {i \in DOMAIN log :
                   /\ log[i].type = "Put"
                   /\ \A j \in i + 1 .. Len(log) : ~of(log[i].id, {"Del"}, j)}
        last(id) == CHOOSE i \in DOMAIN log :
                       /\ of(id, {"Put", "Set"}, i)
                       /\ \A j \in i + 1 .. Len(log) : ~of(id, {"Put", "Set"}, j)
    IN  [id \in {log[i].id : i \in puts} |-> log[last(id)].meta]

\* Replay, one record at a time, arrives at just that, from any file a crash or
\* a failed write left.
ReplayReadsTheLog ==
    LET valid == ValidRecords(file.log) IN
    Contents(Replay(valid)) = Docs(valid)

\* mGarbage, kept by increments all over the store and rebuilt by replay, is
\* exactly the bytes of the records nothing needs any more: what decides
\* whether compact_on_open rewrites the file.
GarbageIsDeadBytes ==
    Steady =>
        ram.garbage =
            BytesAmong(OnDisk, {i \in DOMAIN OnDisk : ~IsLive(OnDisk, i)}, Len(OnDisk))

\* A snapshot names documents only by label, so the labels it was taken over
\* must be those replay hands out: otherwise the graph links the wrong vectors.
SnapshotLabelsMatch ==
    \A i \in 1..ValidEnd(file.log) :
        file.log[i].type = "Snap" =>
            file.log[i].graph =
                Ids(Replay(SubSeq(file.log, 1, i)).entries)

ReplayIsFaithful == ReplayMatchesRam /\ ReplayReadsTheLog /\ GarbageIsDeadBytes

\* A file this program made can always be opened again.
NeverRefused == pc # "refused"

\* "A torn header write always leaves a whole copy of the previous one": in
\* any state of a store that has been opened once, a power loss leaves a page
\* that decodes.
HeaderSurvives ==
    pc \notin {"create", "refused"} /\ file.sized =>
        \A hdr \in PagesAfterPowerLoss(file) : Newest(hdr) # Bad

\* Power losses alone always leave a file that opens.  A write that failed or a
\* process killed before it had synced a header makes the difference: then the next
\* header may be torn while the one before it is not on the disk.
OpensAfterPowerLoss == kills = 0 /\ faults = 0 => HeaderSurvives /\ NeverRefused
=============================================================================
