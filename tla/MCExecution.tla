---------------------------- MODULE MCExecution -----------------------------
(* Small instances of Execution. *)
EXTENDS Execution

Of(output, timeout, allowFailure) ==
  [output |-> output, timeout |-> timeout, allowFailure |-> allowFailure,
   denied |-> FALSE]

OnList == [Of(0, 0, FALSE) EXCEPT !.denied = TRUE]

(* A run that goes on after a failure, with a command that exceeds the     *)
(* limit of its output and has more time than Docker's executor waits for; *)
(* one that stops at the first failure, with less than a second; both can  *)
(* outlast their TTL. And one with a denied command, which ends it.        *)
MCRequests ==
  { [commands |-> <<Of(3, 3, FALSE), Of(0, 1, FALSE)>>,
     continueOnError |-> TRUE, ttl |-> 2],
    [commands |-> <<Of(1, 1, TRUE), Of(2, 0, FALSE)>>,
     continueOnError |-> FALSE, ttl |-> 1],
    [commands |-> <<Of(0, 1, FALSE), OnList, Of(0, 0, FALSE)>>,
     continueOnError |-> TRUE, ttl |-> 1] }
=============================================================================
