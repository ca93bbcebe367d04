---------------------------- MODULE SessionStore ----------------------------
(***************************************************************************)
(* The session files of m8 (core/agent/session_store.cpp): one file per    *)
(* session id, written in place by store() and found again by load() and   *)
(* latest().  Several m8 processes share the directory, and each may stop  *)
(* between the steps of a store.                                           *)
(*                                                                         *)
(* A file holds nothing, or what one store has written of its text: none    *)
(* yet ("empty"), a part, or the whole; a store is known by the time it      *)
(* began, and the time of a file's last change is a count.                  *)
(***************************************************************************)
EXTENDS Naturals, FiniteSets

CONSTANTS
  Writers,      \* processes that save
  Ids,          \* session ids
  MaxStores     \* bound: stores begun

VARIABLES
  file,         \* per id
  mtime,        \* per id: when its file last changed
  clock,        \* changes so far
  writing,      \* per writer: <<>>, or the store it is at, as <<id, began>>
  begun,        \* the stores begun
  finished,     \* the stores whose file was closed whole
  picked,       \* what the reader took: "none", or an id
  loaded        \* the last load: what of, whether whole, and the clock at the pick

vars == <<file, mtime, clock, writing, begun, finished, picked, loaded>>

Nothing == [ok |-> FALSE, id |-> "none", store |-> 0, whole |-> FALSE, at |-> 0]

Init ==
  /\ file = [i \in Ids |-> [state |-> "none", store |-> 0]]
  /\ mtime = [i \in Ids |-> 0]
  /\ clock = 0
  /\ writing = [w \in Writers |-> <<>>]
  /\ begun = {} /\ finished = {}
  /\ picked = "none" /\ loaded = Nothing

Change(i, state, store) ==
  /\ clock' = clock + 1
  /\ file' = [file EXCEPT ![i] = [state |-> state, store |-> store]]
  /\ mtime' = [mtime EXCEPT ![i] = clock']

-----------------------------------------------------------------------------
\* store(): opening the stream empties the file.  An id is made up at random
\* for a session's first store and is that session's from then on, so no two
\* processes write one file.
Open(w, i) ==
  /\ writing[w] = <<>> /\ Cardinality(begun) < MaxStores
  /\ \A v \in Writers : writing[v] # <<>> => writing[v][1] # i
  /\ Change(i, "empty", clock')
  /\ writing' = [writing EXCEPT ![w] = <<i, clock'>>]
  /\ begun' = begun \cup {<<i, clock'>>}
  /\ UNCHANGED <<finished, picked, loaded>>

\* An id or a directory that is no good: nothing is touched.
Reject(w) == writing[w] = <<>> /\ UNCHANGED vars

\* A first part of the text goes to the file.
Fill(w) ==
  /\ writing[w] # <<>> /\ file[writing[w][1]].state = "empty"
  /\ Change(writing[w][1], "part", writing[w][2])
  /\ UNCHANGED <<writing, begun, finished, picked, loaded>>

\* The rest does, and the stream is closed.
Write(w) ==
  /\ writing[w] # <<>>
  /\ Change(writing[w][1], "whole", writing[w][2])
  /\ finished' = finished \cup {writing[w]}
  /\ writing' = [writing EXCEPT ![w] = <<>>]
  /\ UNCHANGED <<begun, picked, loaded>>

\* The process stops, or the disk takes no more: while the text is written, which
\* store() tells, or when it is flushed and closed, which store() no longer looks at
\* and reports as a success.
Break(w) ==
  /\ writing[w] # <<>> /\ writing' = [writing EXCEPT ![w] = <<>>]
  /\ UNCHANGED <<file, mtime, clock, begun, finished, picked, loaded>>

\* Fault: any file will do.
PickAny ==
  /\ picked = "none"
  /\ \E i \in Ids : file[i].state # "none" /\ picked' = i
  /\ loaded' = [Nothing EXCEPT !.at = clock]
  /\ UNCHANGED <<file, mtime, clock, writing, begun, finished>>

\* latest(): the file changed last.
PickLatest ==
  /\ picked = "none"
  /\ \E i \in Ids : file[i].state # "none" /\ (\A j \in Ids : mtime[j] <= mtime[i]) /\ picked' = i
  /\ loaded' = [Nothing EXCEPT !.at = clock]
  /\ UNCHANGED <<file, mtime, clock, writing, begun, finished>>

\* load(): an empty file is refused; a part, unless it ends behind some inner brace: then
\* what is there of the tree is taken for the tree.
Load ==
  /\ picked # "none"
  /\ LET held == file[picked]
     IN \/ /\ held.state # "whole"
           /\ loaded' = [Nothing EXCEPT !.at = loaded.at]
        \/ /\ held.state \in {"part", "whole"}
           /\ loaded' = [ok |-> TRUE, id |-> picked, store |-> held.store,
                         whole |-> held.state = "whole", at |-> loaded.at]
  /\ picked' = "none"
  /\ UNCHANGED <<file, mtime, clock, writing, begun, finished>>

Next ==
  \/ \E w \in Writers :
       \/ \E i \in Ids : Open(w, i)
       \/ Reject(w) \/ Fill(w) \/ Write(w) \/ Break(w)
  \/ PickLatest \/ Load

Spec == Init /\ [][Next]_vars

-----------------------------------------------------------------------------
\* What latest() shows is of one store, begun under that id, and never of two
\* (session_store.cpp:118-192).  When no file has changed since it looked, nothing was
\* written after it, and the tree is whole just when its store came to its end: of one
\* that broke off it may be a part, and the tree before is lost.
LatestIsTheLast ==
  loaded.ok =>
    /\ <<loaded.id, loaded.store>> \in begun
    /\ loaded.whole => <<loaded.id, loaded.store>> \in finished
    /\ clock = loaded.at =>
         /\ mtime[loaded.id] = clock
         /\ <<loaded.id, loaded.store>> \in finished => loaded.whole

\* What keeps it so: a file holds what a store wrote under its id, the whole if that
\* was finished; a file was changed last when the clock says so; and what the reader
\* has picked was then the last, and has not vanished.
Shape ==
  /\ file \in [Ids -> [state : {"none", "empty", "part", "whole"}, store : Nat]]
  /\ mtime \in [Ids -> Nat] /\ clock \in Nat
  /\ finished \subseteq begun /\ begun \subseteq Ids \X (1 .. clock)
  /\ writing \in [Writers -> {<<>>} \cup begun]

FilesAreStores ==
  /\ \A i \in Ids :
       \/ file[i].state = "none"
       \/ /\ <<i, file[i].store>> \in begun
          /\ file[i].state = "whole" <=> <<i, file[i].store>> \in finished

\* A file that is written to has no other store in it, and nobody else at it.
WritersApart ==
  \A w \in Writers :
    writing[w] # <<>> =>
      /\ file[writing[w][1]].store = writing[w][2] /\ writing[w] \notin finished
      /\ \A v \in Writers : v # w /\ writing[v] # <<>> => writing[v][1] # writing[w][1]

ClockIsLast ==
  /\ \A i \in Ids : mtime[i] <= clock
  /\ clock = 0 => \A i \in Ids : file[i].state = "none"
  /\ clock > 0 => \E i \in Ids : mtime[i] = clock

PickWasLast ==
  /\ loaded.at \in Nat /\ loaded.at <= clock
  /\ picked # "none" =>
       /\ picked \in Ids /\ file[picked].state # "none"
       /\ clock = loaded.at => mtime[picked] = clock

IInv ==
  Shape /\ FilesAreStores /\ WritersApart /\ ClockIsLast /\ PickWasLast /\ LatestIsTheLast
=============================================================================
