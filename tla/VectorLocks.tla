---------------------------- MODULE VectorLocks -----------------------------
(***************************************************************************)
(* The three locks of a vector store (core/vdb/vector_store.cpp) and the   *)
(* threads that meet there: mStructure (shared by readers and by metadata  *)
(* updates, exclusive for everything that moves entries), the striped key  *)
(* locks over one document's metadata, and mLog over the append position.  *)
(* The file itself is VectorLog's; here a document has the version of its  *)
(* metadata in memory, the one in the log, and the flag of a deferred one. *)
(***************************************************************************)
EXTENDS Naturals, FiniteSets

CONSTANTS Threads, Ids,
          Stripe,        \* [Ids -> stripes]: key_lock()
          MaxVersion     \* metadata changes of a document in a behaviour

Ops == {"read", "update", "defer", "flush", "remove"}
\* Operations that share mStructure; the others have the store to themselves.
Shared == {"read", "update", "defer"}

VARIABLES
    thread,    \* [Threads -> where it is, the operation, its document, and
               \*  the documents a flush has still to walk]
    meta,      \* [Ids -> version in memory]
    logged,    \* [Ids -> version in the log]
    dirty,     \* [Ids -> meta_dirty]
    live       \* documents not deleted

vars == <<thread, meta, logged, dirty, live>>

Locks == {"structure", "key", "log"}

TypeOK ==
    /\ thread \in [Threads -> [at : Locks \cup {"idle", "work", "clear"},
                                held : SUBSET Locks, op : Ops, id : Ids,
                                todo : SUBSET Ids]]
    /\ meta \in [Ids -> 0 .. MaxVersion] /\ logged \in [Ids -> 0 .. MaxVersion]
    /\ dirty \in [Ids -> BOOLEAN] /\ live \subseteq Ids

Idle == [at |-> "idle", held |-> {}, op |-> "read",
         id |-> CHOOSE i \in Ids : TRUE, todo |-> {}]

Init ==
    /\ thread = [t \in Threads |-> Idle]
    /\ meta = [i \in Ids |-> 0] /\ logged = [i \in Ids |-> 0]
    /\ dirty = [i \in Ids |-> FALSE] /\ live = Ids

----------------------------------------------------------------------------
\* Fault: flush() shares mStructure with the metadata updates.
FlushShares(lock, t, u) ==
    CASE lock = "structure" -> {thread[t].op, thread[u].op} \subseteq Shared \cup {"flush"}
      [] lock = "key" -> \/ Stripe[thread[t].id] # Stripe[thread[u].id]
                         \/ {thread[t].op, thread[u].op} = {"read"}
      [] OTHER -> FALSE

\* Two holders of a lock get on when both only share it; keys are shared by
\* readers alone, and only within a stripe is there anything to share.
Compatible(lock, t, u) ==
    CASE lock = "structure" -> {thread[t].op, thread[u].op} \subseteq Shared
      [] lock = "key" -> \/ Stripe[thread[t].id] # Stripe[thread[u].id]
                         \/ {thread[t].op, thread[u].op} = {"read"}
      [] OTHER -> FALSE

\* The threads that keep t from the lock it wants; no lock is recursive.
Blocks(t) ==
    {u \in Threads : /\ thread[t].at \in thread[u].held
                     /\ ~Compatible(thread[t].at, t, u)}

Goto(t, place) == thread' = [thread EXCEPT ![t].at = place]
Leave(t) == thread' = [thread EXCEPT ![t] = Idle]
data == <<meta, logged, dirty, live>>

Call(t) ==
    /\ thread[t].at = "idle"
    /\ \E o \in Ops, i \in Ids :
        thread' = [thread EXCEPT ![t] = [at |-> "structure", held |-> {}, op |-> o, id |-> i,
                                         todo |-> IF o = "flush" THEN Ids ELSE {}]]
    /\ UNCHANGED data

\* Fault: flush() is called where flush_locked() is meant.
LocksAgain(t, lock) ==
    CASE lock = "structure" -> IF thread[t].op \in Shared THEN "key" ELSE "log"
      [] lock = "key" -> IF thread[t].op = "update" THEN "log" ELSE "work"
      [] OTHER -> IF thread[t].op = "flush" THEN "structure" ELSE "work"

\* Which lock comes next: a shared operation takes its document's key, and an
\* update then the log; an exclusive one needs no key, for nobody else is
\* inside.
NextLock(t, lock) ==
    CASE lock = "structure" -> IF thread[t].op \in Shared THEN "key" ELSE "log"
      [] lock = "key" -> IF thread[t].op = "update" THEN "log" ELSE "work"
      [] OTHER -> "work"

Take(t) ==
    /\ thread[t].at \in Locks /\ Blocks(t) = {}
    /\ thread' = [thread EXCEPT ![t].held = @ \cup {thread[t].at},
                                ![t].at = NextLock(t, thread[t].at)]
    /\ UNCHANGED data

\* A copy of the document under its key; done.
Read(t) ==
    /\ thread[t].at = "work" /\ thread[t].op = "read"
    /\ Leave(t) /\ UNCHANGED data

\* update_metadata_deferred(): memory only, and the flag.
Defer(t) ==
    /\ thread[t].at = "work" /\ thread[t].op = "defer"
    /\ IF thread[t].id \in live /\ meta[thread[t].id] < MaxVersion
       THEN /\ meta' = [meta EXCEPT ![thread[t].id] = @ + 1]
            /\ dirty' = [dirty EXCEPT ![thread[t].id] = TRUE]
       ELSE UNCHANGED <<meta, dirty>>
    /\ Leave(t) /\ UNCHANGED <<logged, live>>

\* update_metadata() appends the merged metadata; then, the log given back,
\* it becomes what memory holds.
Append(t) ==
    /\ thread[t].at = "work" /\ thread[t].op = "update"
    /\ IF thread[t].id \in live /\ meta[thread[t].id] < MaxVersion
       THEN /\ logged' = [logged EXCEPT ![thread[t].id] = meta[thread[t].id] + 1]
            /\ thread' = [thread EXCEPT ![t].at = "clear", ![t].held = @ \ {"log"}]
       ELSE UNCHANGED logged /\ Leave(t)
    /\ UNCHANGED <<meta, dirty, live>>

Publish(t) ==
    /\ thread[t].at = "clear" /\ thread[t].op = "update"
    /\ meta' = [meta EXCEPT ![thread[t].id] = logged[thread[t].id]]
    /\ dirty' = [dirty EXCEPT ![thread[t].id] = FALSE]
    /\ Leave(t) /\ UNCHANGED <<logged, live>>

\* remove() tombstones the document.
Remove(t) ==
    /\ thread[t].at = "work" /\ thread[t].op = "remove"
    /\ live' = live \ {thread[t].id}
    /\ Leave(t) /\ UNCHANGED <<meta, logged, dirty>>

\* flush_locked() walks the entries: one that is dirty is written, then its
\* flag is cleared; a deleted one only loses the flag.
FlushWrite(t) ==
    /\ thread[t].at = "work" /\ thread[t].op = "flush"
    /\ \E i \in thread[t].todo :
        /\ thread' = [thread EXCEPT ![t].at = IF dirty[i] THEN "clear" ELSE "work",
                                    ![t].id = i, ![t].todo = @ \ {i}]
        /\ logged' = IF dirty[i] /\ i \in live THEN [logged EXCEPT ![i] = meta[i]] ELSE logged
    /\ UNCHANGED <<meta, dirty, live>>

FlushClear(t) ==
    /\ thread[t].at = "clear" /\ thread[t].op = "flush"
    /\ dirty' = [dirty EXCEPT ![thread[t].id] = FALSE]
    /\ Goto(t, "work") /\ UNCHANGED <<meta, logged, live>>

\* Snapshot, header and sync end it.
FlushEnd(t) ==
    /\ thread[t].at = "work" /\ thread[t].op = "flush" /\ thread[t].todo = {}
    /\ Leave(t) /\ UNCHANGED data

Step(t) ==
    \/ Take(t) \/ Read(t) \/ Defer(t) \/ Append(t) \/ Publish(t) \/ Remove(t)
    \/ FlushWrite(t) \/ FlushClear(t) \/ FlushEnd(t)

Next == \E t \in Threads : Call(t) \/ Step(t)
Spec == Init /\ [][Next]_vars

----------------------------------------------------------------------------
\* A change that is not in the log is marked, unless its update is just
\* publishing it: no flush passes over a deferred change and leaves it to
\* nobody (vector_store.cpp:813-856, 1006-1041).
DeferredIsKept ==
    \A i \in live : meta[i] = logged[i] \/ dirty[i]
        \/ \E t \in Threads : thread[t].at = "clear" /\ thread[t].op = "update" /\ thread[t].id = i

\* Every operation takes mStructure, then a key, then mLog, so no threads
\* wait for one another in a circle, two documents on one stripe included
\* (vector_store.cpp:957-1041, 1088-1092).
NoCircularWait ==
    ~\E ts \in (SUBSET Threads) \ {{}} : \A t \in ts : Blocks(t) \cap ts # {}

----------------------------------------------------------------------------

\* What keeps them so: what a thread holds follows from where it is and what it
\* does; two who hold a lock get on; and a flush about to clear a flag has written
\* what it clears it for.
PlaceInv ==
    \A t \in Threads :
        LET at == thread[t].at
            op == thread[t].op
            held == thread[t].held
        IN /\ "structure" \in held <=> at \in {"key", "log", "work", "clear"}
           /\ "key" \in held <=> at \in {"log", "work", "clear"} /\ op \in Shared
           /\ "log" \in held <=> \/ at = "work" /\ op \in {"update", "flush", "remove"}
                                 \/ at = "clear" /\ op = "flush"
           /\ at = "key" => op \in Shared
           /\ at = "log" => op \in {"update", "flush", "remove"}
           /\ at = "clear" => op \in {"update", "flush"}

HoldersGetOn ==
    \A t, u \in Threads :
        t # u => \A lock \in thread[t].held \cap thread[u].held : Compatible(lock, t, u)

ClearsWhatIsWritten ==
    \A t \in Threads :
        thread[t].at = "clear" /\ thread[t].op = "flush" /\ thread[t].id \in live =>
            meta[thread[t].id] = logged[thread[t].id]

IInv == TypeOK /\ PlaceInv /\ HoldersGetOn /\ ClearsWhatIsWritten /\ DeferredIsKept
=============================================================================
