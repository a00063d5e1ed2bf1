---------------------------- MODULE MCRunManager ----------------------------
(***************************************************************************)
(* RunManager for TLC: the requests that tell its code paths apart.        *)
(***************************************************************************)
EXTENDS RunLock, RunLoop, TLC

CONSTANTS r1, r2, r3, i1

MCRuns2 == {r1, r2}
MCRuns3 == {r1, r2, r3}
MCIdentifiers1 == {i1}

plain == [denied |-> FALSE, allowFailure |-> FALSE]
lenient == [denied |-> FALSE, allowFailure |-> TRUE]
forbidden == [denied |-> TRUE, allowFailure |-> TRUE]

Request(i, commands, continueOnError, lockSandbox, await) ==
  [identifier |-> i, commands |-> commands, continueOnError |-> continueOnError,
   lockSandbox |-> lockSandbox, await |-> await]

(* Two commands, which the loop treats differently: go on after a failure  *)
(* that is allowed, and after any; stop at a failure, and at a command     *)
(* that the deny list forbids. And a short run that a client waits for.    *)
MCLoopRequests ==
  { Request(i1, <<lenient, plain>>, FALSE, TRUE, FALSE),
    Request(i1, <<plain, plain>>, TRUE, FALSE, FALSE),
    Request(i1, <<forbidden, plain>>, FALSE, FALSE, TRUE) }

(* One command each, stop or go on at its failure, and a client that waits. *)
MCEvictRequests ==
  { Request(i1, <<plain>>, cont, FALSE, TRUE) : cont \in BOOLEAN }

(* The shortest run, which ends before it is extracted, with and without   *)
(* the lock of its sandbox.                                                *)
MCShortRequests ==
  { Request(i1, <<forbidden>>, FALSE, lock, FALSE) : lock \in BOOLEAN }

RunSymmetry == Permutations(Runs)
=============================================================================
