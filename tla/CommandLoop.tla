---------------------------- MODULE CommandLoop -----------------------------
(***************************************************************************)
(* What a run promises about its commands (executeRun, manager.go:213-394),*)
(* whoever executes them: they take their turns, one at a time and each    *)
(* once; a result is given once; a denied command is not executed; nothing *)
(* follows a failure that is to stop the run; and the run fails exactly if *)
(* something spoiled it.                                                   *)
(*                                                                         *)
(* RunManager implements it with a command in one step (RunLoop), and      *)
(* Execution with the many steps of one.                                   *)
(***************************************************************************)
EXTENDS Naturals, Sequences

CONSTANTS Requests, None

VARIABLES
  request,   \* what was asked for: its commands, and whether to go on
  phase,     \* before the loop, in it, executing, or past it
  status,    \* of each command
  failed,    \* there is an error to report
  state      \* the state of the run
vars == <<request, phase, status, failed, state>>

AllQueued(q) == [i \in 1 .. Len(q.commands) |-> "queued"]

Unasked == phase = "absent" /\ request = None /\ status = <<>>
Asked(q) == phase = "before" /\ request = q /\ status = AllQueued(q)

Init == /\ Unasked \/ \E q \in Requests : Asked(q)
        /\ failed = FALSE
        /\ state = "queued"

Accept(q) ==
  /\ phase = "absent" /\ phase' = "before"
  /\ request' = q
  /\ status' = AllQueued(q)
  /\ state' = "queued"
  /\ UNCHANGED failed

(* There is a sandbox, or none can be had; the state may tell so at once.  *)
Begin ==
  /\ phase = "before" /\ phase' = "loop"
  /\ state' = "running"
  /\ UNCHANGED <<request, status, failed>>

CannotBegin ==
  /\ phase = "before" /\ phase' = "past"
  /\ failed' = TRUE
  /\ state' \in {state, "failed"}
  /\ UNCHANGED <<request, status>>

(* The first command without a result is the next one.                     *)
Turn(i) == /\ i \in DOMAIN status
           /\ status[i] = "queued"
           /\ \A j \in 1 .. i - 1 : status[j] # "queued"

Denied(i) == request.commands[i].denied

Execute(i) ==
  /\ phase = "loop" /\ phase' = "executing"
  /\ Turn(i) /\ ~Denied(i)
  /\ UNCHANGED <<request, status, failed, state>>

Refuse(i) ==
  /\ phase = "loop" /\ phase' = "past"
  /\ Turn(i) /\ Denied(i)
  /\ status' = [status EXCEPT ![i] = "failed"]
  /\ failed' = TRUE
  /\ UNCHANGED <<request, state>>

Spoils(i, s) == s # "completed" /\ ~request.commands[i].allowFailure

Return(i, s) ==
  /\ phase = "executing" /\ Turn(i)
  /\ status' = [status EXCEPT ![i] = s]
  /\ failed' = (failed \/ Spoils(i, s))
  /\ phase' = IF Spoils(i, s) /\ ~request.continueOnError
              THEN "past" ELSE "loop"
  /\ UNCHANGED <<request, state>>

EndLoop ==
  /\ phase = "loop" /\ phase' = "past"
  /\ \A i \in DOMAIN status : status[i] # "queued"
  /\ UNCHANGED <<request, status, failed, state>>

(* The verdict, which nothing changes any more.                            *)
Settle ==
  /\ phase = "past"
  /\ state' = IF failed THEN "failed" ELSE "completed"
  /\ UNCHANGED <<request, phase, status, failed>>

Next ==
  \/ \E q \in Requests : Accept(q)
  \/ Begin \/ CannotBegin
  \/ \E i \in DOMAIN status :
       \/ Execute(i) \/ Refuse(i)
       \/ \E s \in {"completed", "failed", "timed_out"} : Return(i, s)
  \/ EndLoop \/ Settle

Spec == Init /\ [][Next]_vars
=============================================================================
