---------------------------- MODULE MCToolCalls -----------------------------
(* Small instances of ToolCalls. *)
EXTENDS ToolCalls

Cmd(shell, argv, timeoutMs) ==
  [shell |-> shell, argv |-> argv, cwd |-> "none", timeoutMs |-> timeoutMs]

Runs(commands, ttl, await, awaitMs) ==
  [notification |-> FALSE, tool |-> "run_sandbox", wellFormed |-> TRUE,
   identifier |-> "valid", commands |-> commands, ttl |-> ttl,
   await |-> await, awaitMs |-> awaitMs]
Plain == <<Cmd("text", FALSE, 0)>>

(* A wait that is longer than 30 s, one that wraps, and the default;       *)
(* commands that are refused or put right; other tools; a notification.    *)
MCRequests ==
  { Runs(Plain, 9, TRUE, 2), Runs(Plain, -1, TRUE, 4), Runs(Plain, 0, None, None),
    Runs(<<Cmd("blank", TRUE, 1), Cmd("text", TRUE, 0)>>, 1, FALSE, 0),
    Runs(<<Cmd("blank", FALSE, 0)>>, 0, FALSE, None),
    [Runs(Plain, 0, FALSE, None) EXCEPT !.notification = TRUE],
    [Runs(<<>>, 0, FALSE, None) EXCEPT !.tool = "delete_sandbox"] }

(* The second call is a short one.                                         *)
MCAsks == [c \in {1, 2} |-> IF c = 1 THEN MCRequests ELSE
             {[Runs(<<>>, 0, FALSE, None) EXCEPT !.tool = "delete_sandbox"]}]

Unset == [k \in Integral |-> None]
MCDefaults ==
  [number |-> [k \in Integral |-> IF k \in InMs THEN 1 ELSE 2], awaitMs |-> 1]
(* Some of it is unset, some not positive, or wraps.                       *)
MCEnvironments ==
  { [number |-> [Unset EXCEPT !["reaperMs"] = 4, !["commandMs"] = 8, !["ttl"] = 5,
                              !["maxTTL"] = 3, !["stdout"] = 0],
     awaitMs |-> -1, await |-> TRUE] }
=============================================================================
