------------------------------ MODULE BashSearch -----------------------------
(***************************************************************************)
(* The command index behind the bash_search tool                           *)
(* (core/tools/tools_bash_search.cpp): served from a cache file and        *)
(* refreshed by a worker thread behind the caller, rebuilt at once by      *)
(* action='scan', written by whoever built it to one temporary file that   *)
(* is then renamed.  An index is the version of the system it was built    *)
(* from.  And its query language: tags, AND, OR and parentheses, read by   *)
(* recursive descent into a tree that is then evaluated per command; here   *)
(* a tree is the sets of tags it is true of.  The parser is compared with  *)
(* the grammar itself.                                                     *)
(***************************************************************************)
EXTENDS Naturals, FiniteSets, Sequences

CONSTANTS Callers,      \* agent threads calling the tool
          MaxVersion,   \* changes of what is installed: a bound
          MaxScans,     \* scans asked for: a bound
          Tokens,       \* words of a query: "AND", "OR", "(", ")" and tags
          MaxTokens     \* length of a query: a bound

VARIABLES query,      \* the tokens of a query
          result,     \* of parse_tag_query(): at is 0 before it ran, 99 on an error;
                      \* what it selects
          installed,  \* the version of what PATH holds
          ram,        \* mIndex
          loaded,     \* mLoaded
          mutex,      \* who holds mMutex across steps, or "free"
          at,         \* per caller and for the worker, where it is
          fresh,      \* what each has built
          files,      \* what the inodes in use hold
          tmp, index, \* the inodes the two names lead to, or 0
          out,        \* the inode each has open for writing, or 0
          servedAt,   \* what was installed when the cache was served
          scans,
          ending      \* "no"; the destructor: "signalled" mStop, "joins" the worker or
                      \* found none ("alone"), has "exited"

queryVars == <<query, result>>
indexVars == <<installed, ram, loaded, mutex, at, fresh, files, tmp, index, out, servedAt, scans, ending>>
vars == <<queryVars, indexVars>>
fileVars == <<files, tmp, index, out>>

Worker == "rescan"
Actors == Callers \cup {Worker}
Inodes == 1 .. Cardinality(Actors) + 2
Nothing == 0               \* an empty index; an empty file
Mixed == MaxVersion + 1    \* a file two wrote to

IndexInit ==
    /\ installed = 1 /\ ram = Nothing /\ loaded = FALSE /\ mutex = "free"
    /\ at = [t \in Actors |-> "idle"] /\ fresh = [t \in Actors |-> Nothing]
    /\ tmp = 0 /\ out = [t \in Actors |-> 0] /\ servedAt = 0 /\ scans = 0 /\ ending = "no"
    /\ \/ index = 0 /\ files = [i \in Inodes |-> Nothing]
       \/ index = 1 /\ files = [i \in Inodes |-> IF i = 1 THEN 1 ELSE Nothing]

Install ==
    /\ installed < MaxVersion /\ installed' = installed + 1
    /\ UNCHANGED <<ram, loaded, mutex, at, fresh, files, tmp, index, out, servedAt, scans, ending>>

----------------------------------------------------------------------------
Go(t, place) == at' = [at EXCEPT ![t] = place]
CacheReads == index # 0 /\ files[index] \notin {Nothing, Mixed}

\* Fault: what the cache says is enough.
ServeOnly(t) == Go(t, "idle") /\ UNCHANGED <<fresh, out>>
\* start_rescan_locked(): once; the thread object stays joinable after its end.
StartRescan(t) ==
    /\ at' = [at EXCEPT ![t] = "idle", ![Worker] = IF @ = "idle" THEN "started" ELSE @]
    /\ UNCHANGED <<fresh, out>>

\* build_index(): of the executables PATH holds now, or of none.
BuildIndex(t) == \E build \in {installed, Nothing} : fresh' = [fresh EXCEPT ![t] = build]
mStop == ending # "no"

\* list_tags and search: ensure_loaded() serves the cache and refreshes it behind the
\* caller; without a usable one it builds here, holding the lock until it is written.
Search(t) ==
    /\ t \in Callers /\ at[t] = "idle" /\ mutex = "free" /\ ~loaded
    /\ ending # "exited"
    /\ IF CacheReads
       THEN /\ ram' = files[index] /\ loaded' = TRUE /\ servedAt' = installed
            /\ StartRescan(t) /\ UNCHANGED mutex
       ELSE /\ mutex' = t /\ BuildIndex(t) /\ ram' = fresh'[t]
            /\ Go(t, "open") /\ UNCHANGED <<loaded, servedAt, out>>
    /\ UNCHANGED <<installed, files, tmp, index, scans, ending>>

\* scan(): built and written with no lock held.
Scan(t) ==
    /\ t \in Callers /\ at[t] = "idle" /\ ending # "exited"
    /\ scans < MaxScans /\ scans' = scans + 1
    /\ BuildIndex(t) /\ Go(t, "open")
    /\ UNCHANGED <<installed, ram, loaded, mutex, files, tmp, index, out, servedAt, ending>>

\* The worker looks at mStop ...
Rescan ==
    /\ at[Worker] = "started" /\ Go(Worker, IF mStop THEN "ended" ELSE "build")
    /\ UNCHANGED <<installed, ram, loaded, mutex, fresh, fileVars, servedAt, scans, ending>>

\* ... before it builds and after, and gives up on an index of nothing.
Build ==
    /\ at[Worker] = "build" /\ BuildIndex(Worker)
    /\ Go(Worker, IF mStop \/ fresh'[Worker] = Nothing THEN "ended" ELSE "open")
    /\ UNCHANGED <<installed, ram, loaded, mutex, fileVars, servedAt, scans, ending>>

\* write_index(): the temporary file is opened empty, ...
Open(t) ==
    /\ at[t] = "open"
    /\ \E i \in Inodes :
         /\ i = tmp \/ (tmp = 0 /\ i # index /\ \A u \in Actors : out[u] # i)
         /\ tmp' = i /\ files' = [files EXCEPT ![i] = Nothing] /\ out' = [out EXCEPT ![t] = i]
    /\ Go(t, "write")
    /\ UNCHANGED <<installed, ram, loaded, mutex, fresh, index, servedAt, scans, ending>>

\* ... written, from its start, ...
Write(t) ==
    /\ at[t] = "write"
    /\ files' = [files EXCEPT ![out[t]] = IF @ \in {Nothing, fresh[t]} THEN fresh[t] ELSE Mixed]
    /\ out' = [out EXCEPT ![t] = 0] /\ Go(t, "rename")
    /\ UNCHANGED <<installed, ram, loaded, mutex, fresh, tmp, index, servedAt, scans, ending>>

\* ... and renamed, if it is still there.
Rename(t) ==
    /\ at[t] = "rename" /\ Go(t, "swap")
    /\ IF tmp # 0 THEN index' = tmp /\ tmp' = 0 ELSE UNCHANGED <<index, tmp>>
    /\ UNCHANGED <<installed, ram, loaded, mutex, fresh, files, out, servedAt, scans, ending>>

\* The locked step.
Swap(t) ==
    /\ at[t] = "swap" /\ mutex \in {"free", t} /\ ending # "exited"
    /\ ram' = fresh[t] /\ mutex' = "free"
    /\ loaded' = (loaded \/ t # Worker)
    /\ Go(t, IF t = Worker THEN "ended" ELSE "idle")
    /\ UNCHANGED <<installed, fresh, files, tmp, index, out, servedAt, scans, ending>>

\* main() has returned, whatever the detached threads of turns and subagents are at:
\* the destructor signals ...
Stop ==
    /\ ending = "no" /\ ending' = "signalled"
    /\ UNCHANGED <<installed, ram, loaded, mutex, at, fresh, fileVars, servedAt, scans>>

\* ... takes the worker, under the lock ...
TakeRescan ==
    /\ ending = "signalled" /\ mutex = "free"
    /\ ending' = IF at[Worker] = "idle" THEN "alone" ELSE "joins"
    /\ UNCHANGED <<installed, ram, loaded, mutex, at, fresh, fileVars, servedAt, scans>>

\* Fault: the destructor does not wait.
LeaveRescan == ending = "joins"
Joined == ending = "joins" /\ at[Worker] = "ended"
\* ... and joins it.  What a caller still in flight then does to the members is
\* undefined and left out; what it does to the file is not.
Exit ==
    /\ ending = "alone" \/ Joined
    /\ ending' = "exited"
    /\ UNCHANGED <<installed, ram, loaded, mutex, at, fresh, fileVars, servedAt, scans>>

IndexNext ==
    \/ Install \/ Rescan \/ Build \/ Stop \/ TakeRescan \/ Exit
    \/ \E t \in Callers : Search(t) \/ Scan(t)
    \/ \E t \in Actors : Open(t) \/ Write(t) \/ Rename(t) \/ Swap(t)

----------------------------------------------------------------------------
Queries == UNION {[1 .. n -> Tokens] : n \in 0 .. MaxTokens}

\* What a level reads: the tree, and the token after it; at = 0 when it fails.
Failed == [at |-> 0, tree |-> {}]
QueryInit == query \in Queries /\ result = Failed

Tags == Tokens \ {"(", ")", "AND", "OR"}
\* What TagExpr::eval() is true of, of a tag and of a node.
Tag(t) == {tags \in SUBSET Tags : t \in tags}
Node(kind, left, right) == IF kind = "AND" THEN left \cap right ELSE left \cup right
TokenIs(q, i, t) == i <= Len(q) /\ q[i] = t

\* parse_or() is made of parse_and()s, which is made of atoms.
Operand(level) == IF level = "or" THEN "and" ELSE "atom"
\* Fault: OR binds tighter.
TighterOr(level) == IF level = "or" THEN "AND" ELSE "OR"
Operator(level) == IF level = "or" THEN "OR" ELSE "AND"

\* parse_run(): an operand, and more as long as the operator follows; the operands of
\* a run make one node, here nested to the right.
Read(q) ==
    LET run[level \in {"or", "and", "atom"}, i \in 1 .. Len(q)] ==
            IF level = "atom"
            THEN IF TokenIs(q, i, ")") THEN Failed
                 ELSE IF q[i] # "(" THEN [at |-> i + 1, tree |-> Tag(q[i])]
                 ELSE IF i = Len(q) THEN Failed
                 ELSE LET inner == run["or", i + 1]
                      IN IF inner.at # 0 /\ TokenIs(q, inner.at, ")")
                         THEN [inner EXCEPT !.at = @ + 1] ELSE Failed
            ELSE LET left == run[Operand(level), i]
                 IN IF left.at = 0 \/ ~TokenIs(q, left.at, Operator(level)) THEN left
                    ELSE IF left.at = Len(q) THEN Failed
                    ELSE LET right == run[level, left.at + 1]
                         IN IF right.at = 0 THEN Failed
                            ELSE [at |-> right.at,
                                  tree |-> Node(Operator(level), left.tree, right.tree)]
    IN IF q = <<>> THEN Failed ELSE run["or", 1]

\* parse_tag_query(): all of it, or an error.
Parse == /\ result.at = 0
         /\ LET read == Read(query)
            IN result' = IF read.at = Len(query) + 1 THEN read ELSE [Failed EXCEPT !.at = 99]
         /\ UNCHANGED query

Init == IndexInit /\ QueryInit
Next ==
    \/ IndexNext /\ UNCHANGED queryVars
    \/ Parse /\ UNCHANGED indexVars

Spec == Init /\ [][Next]_vars

----------------------------------------------------------------------------
TypeOK ==
    /\ {ram, installed} \subseteq 0 .. MaxVersion /\ files \in [Inodes -> 0 .. Mixed]
    /\ {tmp, index} \subseteq Inodes \cup {0} /\ mutex \in Callers \cup {"free"}
    /\ at \in [Actors -> {"idle", "started", "build", "open", "write", "rename", "swap", "ended"}]

\* What is served from the cache "may be stale, so refresh it behind the caller": when the
\* worker has ended and no scan has crossed it, the index is no older than the search
\* that was answered from the cache, unless the worker found nothing at all or was
\* stopped.
RefreshedBehindTheCaller ==
    at[Worker] = "ended" /\ scans = 0 /\ ~mStop /\ fresh[Worker] # Nothing => ram >= servedAt

\* "A detached thread would race its own destruction": once the destructor is through,
\* the worker writes no file and swaps no map, though a detached caller may have
\* started it behind the join; a caller caught in a scan is not waited for.
ExitIsQuiet == ending = "exited" => at[Worker] \in {"idle", "started", "ended"}

\* The grammar of the comment above the parser: the values that the derivations of all
\* the tokens give for a command with these tags, {} when there is none.
Derived(tags) ==
    LET Ends == 1 .. Len(query) + 1
        from[level \in {"or", "and", "atom"}, i \in Ends, j \in Ends] ==
            IF level = "atom"
            THEN IF j = i + 1 /\ query[i] \notin {"(", ")"} THEN {query[i] \in tags}
                 ELSE IF j > i + 2 /\ query[i] = "(" /\ query[j - 1] = ")"
                 THEN from["or", i + 1, j - 1] ELSE {}
            ELSE LET part == IF level = "or" THEN "and" ELSE "atom"
                     word == IF level = "or" THEN "OR" ELSE "AND"
                 IN from[part, i, j]
                    \cup UNION {{IF level = "or" THEN v \/ w ELSE v /\ w :
                                   v \in from[part, i, k], w \in from[level, k + 1, j]} :
                                k \in {n \in i + 1 .. j - 2 : query[n] = word}}
    IN from["or", 1, Len(query) + 1]

\* Whatever the words, the parser takes the queries of its grammar and no others, reads
\* each to its end, and finds just the commands the query means.
FindsWhatItMeans ==
    result.at # 0 =>
        \A tags \in SUBSET Tags :
            Derived(tags) = IF result.at = 99 THEN {} ELSE {tags \in result.tree}

----------------------------------------------------------------------------
(* Why the index is refreshed and the exit quiet: the worker runs from the   *)
(* first search the cache answers, and once, and what starts behind the      *)
(* signal looks at it first; and while nobody scans, only who holds the lock *)
(* builds besides it.                                                       *)

WorkerInv ==
    /\ fresh \in [Actors -> 0 .. MaxVersion] /\ scans \in Nat /\ loaded \in BOOLEAN
    /\ ending \in {"no", "signalled", "joins", "alone", "exited"}
    /\ servedAt \in 0 .. installed /\ installed > 0 /\ (servedAt # 0 => loaded)
    /\ at[Worker] = "idle" <=> servedAt = 0
    /\ ending = "joins" => at[Worker] # "idle"
    /\ ending \in {"alone", "exited"} => at[Worker] \in {"idle", "started", "ended"}

\* What the worker built after a search was served is not older.
RefreshInv ==
    scans = 0 =>
        /\ \A t \in Callers : at[t] # "idle" => mutex = t
        /\ servedAt # 0 =>
              /\ \A t \in Callers : at[t] = "idle"
              /\ at[Worker] \in {"open", "write", "rename", "swap"} => fresh[Worker] >= servedAt
              /\ at[Worker] = "ended" =>
                    mStop \/ fresh[Worker] = Nothing \/ ram >= servedAt

IInv == TypeOK /\ WorkerInv /\ RefreshInv
=============================================================================
