---------------------------- MODULE DurableStore ----------------------------
(***************************************************************************)
(* What a document store owes its callers about crashes, whatever its file  *)
(* looks like: every change shows at once, none is ever half there, and     *)
(* after a crash the store holds the documents of one moment no older than  *)
(* the last sync of the file it is in.  A rewrite puts it in a new file; the *)
(* files replaced since the directory was last settled may come back whole,  *)
(* as they could have been left, however many good syncs came after.         *)
(***************************************************************************)
EXTENDS Integers, FiniteSets

CONSTANTS DocIds, Metas

VARIABLES
    view,        \* the documents the store serves now
    logged,      \* those written out; deferred changes are in view alone
    recoverable, \* every set of documents a crash could leave
    replaced,    \* those of earlier files a crash could bring back
    told         \* a sync or a rewrite has just returned well

vars == <<view, logged, recoverable, replaced, told>>

With(docs, id, m) ==
    [i \in DOMAIN docs \cup {id} |-> IF i = id THEN m ELSE docs[i]]

Without(docs, id) == [i \in DOMAIN docs \ {id} |-> docs[i]]

Write(docs) ==
    /\ logged' = docs
    /\ recoverable' = recoverable \cup {docs}
    /\ UNCHANGED replaced
    /\ told' = FALSE

Init ==
    /\ view = <<>>
    /\ logged = <<>>
    /\ recoverable = {<<>>}
    /\ replaced = {}
    /\ told = FALSE

Add(id, m) ==
    /\ id \notin DOMAIN view
    /\ view' = With(view, id, m)
    /\ Write(With(logged, id, m))

RemoveId(id) ==
    /\ id \in DOMAIN view
    /\ view' = Without(view, id)
    /\ Write(Without(logged, id))

Update(id, m) ==
    /\ id \in DOMAIN view
    /\ view' = With(view, id, m)
    /\ Write(With(logged, id, m))

Defer(id, m) ==
    /\ id \in DOMAIN view
    /\ view' = With(view, id, m)
    /\ told' = FALSE
    /\ UNCHANGED <<logged, recoverable, replaced>>

\* One deferred change reaches the log.
Persist(id) ==
    /\ id \in DOMAIN view
    /\ Write(With(logged, id, view[id]))
    /\ UNCHANGED view

\* Every change so far is settled in this file, and the caller hears of it.
Sync ==
    /\ recoverable' = {logged}
    /\ told' = TRUE
    /\ UNCHANGED <<view, logged, replaced>>

\* A fresh copy of what is served takes the store's place at one stroke; a
\* crash may still bring the old one back, or not.
Rewrite ==
    /\ logged' = view
    /\ recoverable' = {view}
    /\ replaced' \in {replaced \cup recoverable, {}}
    /\ told' = FALSE
    /\ UNCHANGED view

\* The copy is served, or the caller hears that it could not be.  Whether it is
\* there to stay nobody is told.
Settle ==
    /\ recoverable = {logged}
    /\ replaced' \in {{}, replaced}
    /\ told' \in BOOLEAN
    /\ UNCHANGED <<view, logged, recoverable>>

\* The store closes, or its process dies: deferred changes are forgotten.
Stop ==
    /\ view' = logged
    /\ told' = FALSE
    /\ UNCHANGED <<logged, recoverable, replaced>>

Crash ==
    \E docs \in recoverable \cup replaced :
        /\ view' = docs
        /\ logged' = docs
        /\ recoverable' = {docs}
        /\ replaced' = {}
        /\ told' = FALSE

\* Work that shows nowhere: a header, a snapshot, a write that failed.
Work ==
    /\ told' = FALSE
    /\ UNCHANGED <<view, logged, recoverable, replaced>>

Next ==
    \/ \E id \in DocIds, m \in Metas : Add(id, m) \/ Update(id, m) \/ Defer(id, m)
    \/ \E id \in DocIds : RemoveId(id) \/ Persist(id)
    \/ Sync \/ Rewrite \/ Settle \/ Stop \/ Crash \/ Work

Spec == Init /\ [][Next]_vars
=============================================================================
