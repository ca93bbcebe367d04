---------------------------- MODULE MCVectorLog ----------------------------
(***************************************************************************)
(* Small instances of VectorLog, and that they keep the promise of          *)
(* DurableStore.  The variables of the abstract store are functions of the  *)
(* file, the handle and the call that returned; they are written out as      *)
(* variables so that each is computed once a step.                          *)
(***************************************************************************)
EXTENDS VectorLog

\* Four different sizes, so that charging one record for another shows.
MCBytes == [t \in RecordTypes |->
              CASE t = "Put" -> 7 [] t = "Set" -> 3 [] t = "Del" -> 2
                [] t = "Snap" -> 5]

\* The metadata values are interchangeable.
MetaSymmetry == Permutations(Metas)

\* A file that was renamed over can only come back by a power loss.  Where none is
\* to come any more it makes no difference, and the run goes on only from the state
\* with the same file and handle in which compact() got its directory synced.
OldFileMatters == previous # {} => PowerMayGo

VARIABLES view, logged, recoverable, replaced, told

allVars == <<vars, view, logged, recoverable, replaced, told>>

\* Every set of documents a power loss could leave in one file.
Recoverable(f) ==
    {Docs(SubSeq(f.log, 1, k)) : k \in f.synced..ValidEnd(f.log)}

Logged == Docs(ValidRecords(file.log))

View == IF Steady THEN Contents(ram) ELSE Logged

Replaced == UNION {Recoverable(f) : f \in previous}

\* flush() got through its fsync, or compact() reopened the file it renamed.
Returns ==
    \/ pc = "flushSync" /\ UNCHANGED <<faults, kills, power>>
    \/ pc \in {"renamed", "renamedOnOpen"} /\ ram'.fd

DurableInit ==
    /\ Init
    /\ view = View /\ logged = Logged
    /\ recoverable = Recoverable(file) /\ replaced = Replaced
    /\ told = FALSE

DurableNext ==
    /\ Next
    /\ view' = View' /\ logged' = Logged'
    /\ recoverable' = Recoverable(file)' /\ replaced' = Replaced'
    /\ told' = Returns

DurableSpec == DurableInit /\ [][DurableNext]_allVars

Abstract == INSTANCE DurableStore WITH DocIds <- 1..MaxId

\* Whatever the file goes through, a caller sees a store whose changes show at
\* once and whose crashes go back to one earlier moment, never to a mixture of
\* moments: a moment of the present file no older than the last flush() that
\* returned well, or one of a file compact() renamed over since the directory
\* was last synced.  The exception is the code's: compact() returns well
\* whatever became of that sync, and a process killed before it leaves it undone.
KeepsThePromise == Abstract!Spec
=============================================================================
