------------------------------ MODULE RunLoop -------------------------------
(***************************************************************************)
(* One run of the run manager, WatchedRun, seen as the command loop that   *)
(* it is to be: other runs, the lock, the stream, the eviction and the     *)
(* artifacts are not seen.                                                 *)
(***************************************************************************)
EXTENDS RunManager

CONSTANT WatchedRun
ASSUME WatchedRunAssumption == WatchedRun \in Runs

Preparing == {"absent", "spawned", "locking", "ensuring", "ready"}

LoopPhase ==
  CASE handler[WatchedRun] = "idle" -> "absent"
    [] handler[WatchedRun] # "idle" /\ exec[WatchedRun] \in Preparing -> "before"
    [] exec[WatchedRun] = "command" -> "loop"
    [] exec[WatchedRun] = "executing" -> "executing"
    [] OTHER -> "past"

Promise == INSTANCE CommandLoop
             WITH request <- args[WatchedRun],
                  phase   <- LoopPhase,
                  status  <- run[WatchedRun].commands,
                  failed  <- failure[WatchedRun],
                  state   <- run[WatchedRun].state

(* A run executes its commands as promised, whatever other runs and their  *)
(* requests do meanwhile: in order, each once, none after a failure that   *)
(* stops the run, with the verdict that they justify (manager.go:216-393). *)
LoopAsPromised == Promise!Spec
=============================================================================
