------------------------------ MODULE RunLock -------------------------------
(***************************************************************************)
(* One lock of the run manager, that of the identifier Watched, seen as    *)
(* the abstract mutex: the waiters of its FIFOLock are the line, the runs  *)
(* that own it are inside.                                                 *)
(***************************************************************************)
EXTENDS RunManager

CONSTANT Watched
ASSUME WatchedAssumption == Watched \in Identifiers

Owners == {r \in holding : Identifier(r) = Watched}

Lock == INSTANCE FIFOMutex
          WITH Callers <- Runs, line <- line[Watched], inside <- Owners

(* The runs of an identifier use its lock as the abstract mutex allows:    *)
(* they get it in the order in which they asked, one at a time, and give   *)
(* it back on every path of executeRun (lock.go, manager.go:201-211).      *)
LockIsFIFOMutex == Lock!Spec
=============================================================================
