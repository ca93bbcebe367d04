----------------------------- MODULE SpawnProcess ----------------------------
(***************************************************************************)
(* Starting an MCP server with three pipes (core/util/process.cpp), while  *)
(* other threads start children of their own: shells that close what they  *)
(* inherit, and popen()ed commands that do not.  A server sees the end of  *)
(* its stdin only once every copy of the write end is closed.              *)
(***************************************************************************)
EXTENDS Naturals, Sequences, FiniteSets

CONSTANTS Servers,   \* spawn_process() calls, each on a thread of its own
          Others,    \* children other threads start meanwhile
          Builds     \* [atomic |-> pipe2() is there, clears |-> the spawn closes all but three]

VARIABLES build,
          fds,      \* m8's descriptors: [of, pipe, end, cloexec]
          at,       \* per server: how far the spawn is
          child,    \* per server: the descriptors its process has, {} when there is none
          other,    \* per other child: what it has; and its kind once it runs
          kind

vars == <<build, fds, at, child, other, kind>>

Pipes == 1 .. 3                      \* stdin, stdout, stderr
Ends == {"read", "write"}
\* Which end of a pipe is m8's and which the server's.
Ours(p) == IF p = 1 THEN "write" ELSE "read"
Fd(s, p, e) == [of |-> s, pipe |-> p, end |-> e]
Open(s) == {f \in fds : f.fd.of = s}
Bare(table) == {f.fd : f \in table}

Init ==
    /\ build \in Builds /\ fds = {}
    /\ at = [s \in Servers |-> <<"pipe", 1>>]
    /\ child = [s \in Servers |-> {}] /\ other = [o \in Others |-> {}]
    /\ kind = [o \in Others |-> "none"]

----------------------------------------------------------------------------
\* make_pipe(): with pipe2() the ends are close-on-exec at once; else fcntl() follows.
MakePipe(s) ==
    /\ at[s][1] = "pipe"
    /\ fds' = fds \cup {[fd |-> Fd(s, at[s][2], e), cloexec |-> build.atomic] : e \in Ends}
    /\ at' = [at EXCEPT ![s] = IF ~build.atomic THEN <<"mark", @[2]>>
                               ELSE IF @[2] = 3 THEN <<"spawn", 0>> ELSE <<"pipe", @[2] + 1>>]
    /\ UNCHANGED <<build, child, other, kind>>

SetCloexec(s) ==
    /\ at[s][1] = "mark"
    /\ fds' = {IF f.fd.of = s THEN [f EXCEPT !.cloexec = TRUE] ELSE f : f \in fds}
    /\ at' = [at EXCEPT ![s] = IF @[2] = 3 THEN <<"spawn", 0>> ELSE <<"pipe", @[2] + 1>>]
    /\ UNCHANGED <<build, child, other, kind>>

\* Fault: the pairs made before the one that failed stay open.
CloseNothing(s) == {}
\* close_pair() of all three.
ClosePairs(s) == Open(s)
\* A pipe cannot be made: no descriptors left.
NoPipe(s) ==
    /\ at[s][1] = "pipe" /\ fds' = fds \ ClosePairs(s)
    /\ at' = [at EXCEPT ![s] = <<"failed", 0>>]
    /\ UNCHANGED <<build, child, other, kind>>

\* What a child that closes nothing itself is left with.
Inherited == Bare({f \in fds : ~f.cloexec})
Stdio(s) == {Fd(s, p, IF Ours(p) = "write" THEN "read" ELSE "write") : p \in Pipes}
\* Fault: the server keeps what it inherits.
KeepInherited(s) == Stdio(s) \cup Bare(fds)
\* Its three pipes, and no other descriptor of ours where the spawn can see to that.
ServerFds(s) == Stdio(s) \cup (IF build.clears THEN {} ELSE Inherited)

\* posix_spawn(); then m8 closes the server's ends, and when it failed its own as well.
Spawn(s) ==
    /\ at[s][1] = "spawn"
    /\ \/ /\ child' = [child EXCEPT ![s] = ServerFds(s)]
          /\ fds' = {f \in fds : f.fd.of = s => f.fd.end = Ours(f.fd.pipe)}
          /\ at' = [at EXCEPT ![s] = <<"running", 0>>]
       \/ /\ fds' = fds \ Open(s) /\ at' = [at EXCEPT ![s] = <<"failed", 0>>]
          /\ UNCHANGED child
    /\ UNCHANGED <<build, other, kind>>

\* The transport is closed: the server's stdin first.
CloseStdin(s) ==
    /\ at[s][1] = "running" /\ at' = [at EXCEPT ![s] = <<"closing", 0>>]
    /\ fds' = {f \in fds : f.fd # Fd(s, 1, "write")}
    /\ UNCHANGED <<build, child, other, kind>>

\* Every copy of the write end of its stdin is closed.
EndOfStdin(s) ==
    Fd(s, 1, "write") \notin
        Bare(fds) \cup (UNION {child[t] : t \in Servers}) \cup (UNION {other[o] : o \in Others})

\* The server sees the end of its stdin and exits, or dies; it is reaped.
Reap(s) ==
    /\ at[s][1] = "closing" /\ EndOfStdin(s)
    /\ child' = [child EXCEPT ![s] = {}] /\ fds' = fds \ Open(s)
    /\ at' = [at EXCEPT ![s] = <<"failed", 0>>]
    /\ UNCHANGED <<build, other, kind>>

\* Another thread starts a child: a shell closes everything above stderr
\* (close_fds_from()), a popen()ed command keeps what is not close-on-exec.
StartOther(o, k) ==
    /\ kind[o] = "none" /\ kind' = [kind EXCEPT ![o] = k]
    /\ other' = [other EXCEPT ![o] = IF k = "shell" THEN {} ELSE Inherited]
    /\ UNCHANGED <<build, fds, at, child>>

Next ==
    \/ \E s \in Servers :
         MakePipe(s) \/ SetCloexec(s) \/ NoPipe(s) \/ Spawn(s) \/ CloseStdin(s) \/ Reap(s)
    \/ \E o \in Others, k \in {"shell", "popen"} : StartOther(o, k)

Spec == Init /\ [][Next]_vars

----------------------------------------------------------------------------
TypeOK ==
    /\ build \in Builds /\ \A f \in fds : f.fd.of \in Servers /\ f.fd.pipe \in Pipes
    /\ \A s \in Servers : at[s][1] \in {"pipe", "mark", "spawn", "running", "closing", "failed"}

\* However the starts of servers cross, and with pipe2() those of commands too: when m8
\* closes its end, a server's stdin ends, for nobody else has a copy of it.
StdinEnds == build.atomic => \A s \in Servers : at[s][1] = "closing" => EndOfStdin(s)

\* A start that failed leaves no descriptor behind, a server that runs m8's three.
NoDescriptorLeaks ==
    \A s \in Servers : /\ at[s][1] = "failed" => Open(s) = {}
                       /\ at[s][1] = "running" => Cardinality(Open(s)) = 3

----------------------------------------------------------------------------
\* Why these hold: an invariant that every step keeps.

Fds == [of : Servers, pipe : Pipes, end : Ends]
Places == {"pipe", "mark", "spawn", "running", "closing", "failed"}

\* Which descriptors m8 has, by how far the start of their server is.
IsOpen(fd, marked) ==
    LET place == at[fd.of][1]
        n == at[fd.of][2]
    IN \/ place = "pipe" /\ marked /\ fd.pipe < n
       \/ place = "mark" /\ (IF marked THEN fd.pipe < n ELSE fd.pipe = n)
       \/ place = "spawn" /\ marked
       \/ place = "running" /\ marked /\ fd.end = Ours(fd.pipe)
       \/ place = "closing" /\ marked /\ fd.end = Ours(fd.pipe) /\ fd.pipe # 1

FdInv == fds = {f \in [fd : Fds, cloexec : BOOLEAN] : IsOpen(f.fd, f.cloexec)}

\* With pipe2() no child ever has another's end.
ChildInv ==
    /\ at \in [Servers -> Places \X (0 .. 3)]
    /\ \A s \in Servers :
          /\ at[s][1] \in {"pipe", "mark"} => at[s][2] \in Pipes
          /\ at[s][1] = "mark" => ~build.atomic
    /\ child \in [Servers -> SUBSET Fds] /\ other \in [Others -> SUBSET Fds]
    /\ build.atomic =>
          \A s \in Servers :
             /\ \A t \in Servers : Fd(s, 1, "write") \notin child[t]
             /\ \A o \in Others : Fd(s, 1, "write") \notin other[o]

IInv == TypeOK /\ FdInv /\ ChildInv
=============================================================================
