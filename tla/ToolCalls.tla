----------------------------- MODULE ToolCalls ------------------------------
(***************************************************************************)
(* How a tool call passes through the server: the configuration it meets   *)
(* (config.go), the HTTP handler and its deadline (mcp/handler.go,         *)
(* timeouts.go), the checks and the wait of RunSandbox (runs/manager.go),  *)
(* and the life of the process around it: the reaper's goroutine, and the  *)
(* orderly end that a signal asks for (main.go, app.go, reaper.go).        *)
(*                                                                         *)
(* What a run and what the sandbox managers do is the subject of the other *)
(* modules; here a run works for some time, and an operation on a sandbox  *)
(* takes some time and succeeds or not.                                    *)
(*                                                                         *)
(* Durations are Go's: signed words, in units of time, whose arithmetic    *)
(* wraps around. An int is taken to be as wide.                            *)
(***************************************************************************)
EXTENDS Integers, Sequences, FiniteSets

CONSTANTS
  Calls,           \* the tool calls
  Requests,        \* what they may ask for
  Asks,            \* ... each of them
  Environments,    \* the settings the process may be started with
  Defaults,        \* the defaults of config.go
  Backends,        \* some of "docker", "kubernetes"
  MaxDuration,     \* the largest word
  Millisecond,     \* a millisecond in units of time
  Half,            \* 15 s, the cushion; the other times are given in terms
  Grace,           \* 10 s: what Shutdown waits for
  DayMs,           \* 24 hours in milliseconds
  None             \* not set

(* A command as it comes in: its shell is absent, blank or a text; timeout *)
(* in milliseconds.                                                        *)
Command == [ shell     : {"none", "blank", "text"},
             argv      : BOOLEAN,
             cwd       : {"none", "absolute", "relative"},
             timeoutMs : Int ]

Tools == {"run_sandbox", "delete_sandbox", "restart_sandbox", "unknown"}

ASSUME RequestsAssumption ==
  Requests \subseteq [ notification : BOOLEAN,
                       tool         : Tools,
                       wellFormed   : BOOLEAN,     \* the arguments parse
                       identifier   : {"valid", "invalid", "empty"},
                       commands     : Seq(Command),
                       ttl          : Int,
                       await        : BOOLEAN \cup {None},
                       awaitMs      : Int \cup {None} ]
ASSUME BackendsAssumption == Backends \subseteq {"docker", "kubernetes"}
ASSUME AsksAssumption == Asks \in [Calls -> SUBSET Requests]

(* What of the environment is an integer, and whether runs are awaited.    *)
Integral == {"maxTTL", "ttl", "reaperMs", "commandMs", "stdout", "maxRuns"}
ASSUME EnvironmentsAssumption ==
  /\ \A e \in Environments :
       /\ e.number \in [Integral -> Int \cup {None}]
       /\ e.awaitMs \in Int \cup {None} /\ e.await \in BOOLEAN
  /\ Defaults.number \in [Integral -> Nat \ {0}]
  /\ Defaults.awaitMs \in Nat \ {0}
ASSUME TimesAssumption ==
  /\ {MaxDuration, Millisecond, Half, DayMs} \subseteq Nat \ {0}
  /\ Grace \in Nat
  /\ 2 * Half <= MaxDuration
  /\ \A k \in {"reaperMs", "commandMs"} :
       Defaults.number[k] * Millisecond <= MaxDuration
ASSUME ValuesAssumption == None \notin Int /\ None \notin BOOLEAN

VARIABLES
  config,      \* config.Load's result, and the backend
  server,      \* main: serving, draining (Shutdown), closing, or exited
  grace,       \* what is left for Shutdown
  reaper,      \* its goroutine: resting, in a pass, or gone
  at,          \* where the handler of each call is
  request,     \* what the call asks for
  left,        \* what is left of the time of its context
  waitLeft,    \* ... of waitCtx
  run,         \* its run: none, working, or done
  answer,      \* what the client is sent
  hungUp,      \* the client does not wait any more
  waited,      \* how long the call has waited for its run
  prepared,    \* how long it took until then
  late         \* where its handler still was when its deadline had passed

life == <<config, server, grace, reaper>>
context == <<left, waitLeft, hungUp, waited, prepared, late>>
vars == <<life, context, at, request, run, answer>>
-----------------------------------------------------------------------------
(***************************************************************************)
(* Words, and config.Load.                                                 *)
(***************************************************************************)
Words == 2 * (MaxDuration + 1)
Wrap(n) == ((n + MaxDuration + 1) % Words) - (MaxDuration + 1)

Cushion == Half
Usual == 2 * Half        \* 30 s
ToDuration(ms) == Wrap(ms * Millisecond)

Positive(n, default) == IF n > 0 THEN n ELSE default

(* envInt: what is not set, or no number, is the default.                  *)
Setting(value, default) == IF value = None THEN default ELSE value

InMs == {"reaperMs", "commandMs"}

(* A number of the configuration; what is not positive is replaced by its  *)
(* default, after the multiplication.                                      *)
LoadNumber(e, k) ==
  LET n == Setting(e.number[k], Defaults.number[k])
      d == Defaults.number[k]
  IN  IF k \in InMs THEN Positive(ToDuration(n), ToDuration(d)) ELSE Positive(n, d)

Load(e, backend) ==
  [ number  |-> [k \in Integral |-> LoadNumber(e, k)],
    await   |-> e.await,
    timeout |-> ToDuration(Setting(e.awaitMs, Defaults.awaitMs)),  \* unchecked
    backend |-> backend ]
-----------------------------------------------------------------------------
(***************************************************************************)
(* What is decided about a call.                                           *)
(***************************************************************************)
Awaits(r) == IF r.await = None THEN config.await ELSE r.await

(* int(DefaultAwaitTimeout.Milliseconds()) truncates.                      *)
WaitMs(r) ==
  Positive(IF r.awaitMs # None THEN r.awaitMs
           ELSE IF config.timeout > 0 THEN config.timeout \div Millisecond ELSE 0,
           Usual \div Millisecond)

(* A mistake: the deadline of other tool calls for those that wait, too.   *)
NoToolCallTimeout(r) == 0

(* toolCallTimeout.                                                        *)
ToolCallTimeout(r) ==
  IF r.tool = "run_sandbox" /\ r.wellFormed /\ Awaits(r)
  THEN Wrap(ToDuration(WaitMs(r)) + Cushion)
  ELSE 0

Deadline(r) == IF ToolCallTimeout(r) > Usual THEN ToolCallTimeout(r) ELSE Usual

(* normalizeRunArgs: of shell and argv, argv remains, as a shell command.  *)
Normalized(c) ==
  [c EXCEPT !.shell = IF @ = "text" THEN "text" ELSE "none",
            !.argv = @ /\ c.shell # "text"]

Valid(c) ==
  /\ (c.shell = "text") # c.argv
  /\ c.cwd # "relative"
  /\ c.timeoutMs \in 0 .. DayMs

(* validateRunArgs, of what has been normalised.                           *)
Admitted(r) ==
  /\ r.identifier = "valid"
  /\ r.commands # <<>>
  /\ \A i \in DOMAIN r.commands : Valid(Normalized(r.commands[i]))

(* RunSandbox and Ensure.                                                  *)
EffectiveTTL(n) ==
  LET t == Positive(n, config.number["ttl"])
  IN  IF t > config.number["maxTTL"] THEN config.number["maxTTL"] ELSE t
-----------------------------------------------------------------------------
Init ==
  /\ \E e \in Environments, b \in Backends : config = Load(e, b)
  /\ server = "serving" /\ grace = 0
  /\ reaper = "resting"
  /\ at = [c \in Calls |-> "new"]
  /\ request \in {f \in [Calls -> Requests] : \A c \in Calls : f[c] \in Asks[c]}
  /\ left = [c \in Calls |-> 0] /\ waitLeft = [c \in Calls |-> 0]
  /\ run = [c \in Calls |-> "none"]
  /\ answer = [c \in Calls |-> "none"]
  /\ hungUp = [c \in Calls |-> FALSE]
  /\ waited = [c \in Calls |-> 0] /\ prepared = [c \in Calls |-> 0]
  /\ late = [c \in Calls |-> {}]

InFlight(c) == at[c] \notin {"new", "answered"}
Alive == server # "exited"

(* A step of the handler of c, in a process that lives.                    *)
Goto(c, from, to) == Alive /\ at[c] = from /\ at' = [at EXCEPT ![c] = to]

(* cancel(), deferred.                                                     *)
Cancel(c) == /\ left' = [left EXCEPT ![c] = 0]
             /\ waitLeft' = [waitLeft EXCEPT ![c] = 0]

(* What serveHTTP writes: a notification is not answered, whatever came    *)
(* of it.                                                                  *)
Answer(c, from, what) ==
  /\ Goto(c, from, "answered")
  /\ answer' = [answer EXCEPT ![c] =
                  IF request[c].notification THEN "nothing" ELSE what]
  /\ Cancel(c)
  /\ UNCHANGED <<life, hungUp, waited, prepared, late, request, run>>
-----------------------------------------------------------------------------
(***************************************************************************)
(* serveHTTP and toolsCall.                                                *)
(***************************************************************************)

(* The call is accepted, and gets a context with its deadline.             *)
Accept(c) ==
  /\ server = "serving"
  /\ Goto(c, "new", "pinging")
  /\ left' = [left EXCEPT ![c] = Deadline(request[c])]
  /\ UNCHANGED <<life, waitLeft, hungUp, waited, prepared, late, request, run,
                 answer>>

(* Ping answers, or not.                                                   *)
Ping(c) ==
  /\ Goto(c, "pinging", "dispatching")
  /\ UNCHANGED <<life, context, request, run, answer>>
PingFails(c) == Answer(c, "pinging", "error")

Accepts(r) == /\ r.tool # "unknown"
              /\ r.wellFormed
              /\ r.tool = "run_sandbox" => Admitted(r)
              /\ r.tool # "run_sandbox" => r.identifier # "empty"

Refuse(c) == ~Accepts(request[c]) /\ Answer(c, "dispatching", "error")

(* RunSandbox calls Ensure; the other tools, Delete or Restart.            *)
Operate(c) ==
  /\ Accepts(request[c])
  /\ Goto(c, "dispatching", "operating")
  /\ UNCHANGED <<life, context, request, run, answer>>

(* A mistake: the run is started before its sandbox is known to be there.  *)
FailAfterSpawn(c) ==
  /\ Goto(c, "operating", "answered")
  /\ answer' = [answer EXCEPT ![c] =
                  IF request[c].notification THEN "nothing" ELSE "error"]
  /\ run' = [run EXCEPT ![c] = "working"]
  /\ Cancel(c)
  /\ UNCHANGED <<life, hungUp, waited, prepared, late, request>>

(* An operation on the sandbox fails, in the end because time is over.     *)
OperationFails(c) == Answer(c, "operating", "error")

OperationSucceeds(c) ==
  /\ request[c].tool # "run_sandbox"
  /\ Answer(c, "operating", "result")

(* The run is registered and its goroutine started. waitCtx ends with the  *)
(* context of the call, or before it.                                      *)
Spawn(c) ==
  /\ request[c].tool = "run_sandbox"
  /\ Goto(c, "operating", IF Awaits(request[c]) THEN "awaiting" ELSE "spawned")
  /\ run' = [run EXCEPT ![c] = "working"]
  /\ waitLeft' = [waitLeft EXCEPT ![c] =
                    IF Awaits(request[c]) THEN ToDuration(WaitMs(request[c])) ELSE 0]
  /\ UNCHANGED <<life, left, hungUp, waited, prepared, late, request, answer>>

AnswerSpawned(c) == Answer(c, "spawned", "result")

(* A mistake: waitCtx is not derived from the context of the call.         *)
WaitOverAlone(c) == waitLeft[c] <= 0

WaitOver(c) == left[c] <= 0 \/ waitLeft[c] <= 0

(* The select at the end of RunSandbox: both may be ready.                 *)
AnswerFinal(c) == run[c] = "done" /\ Answer(c, "awaiting", "final")

(* A mistake: only the end of the run is waited for.                       *)
AnswerWithTheRun(c) == run[c] = "done" /\ Answer(c, "awaiting", "null")

AnswerNull(c) == WaitOver(c) /\ Answer(c, "awaiting", "null")

(* The goroutine of the run comes to its end; nobody's context limits it.  *)
RunEnds(c) ==
  /\ Alive
  /\ run[c] = "working"
  /\ run' = [run EXCEPT ![c] = "done"]
  /\ UNCHANGED <<life, context, at, request, answer>>

(* The client closes its connection: the request's context is cancelled.   *)
HangUp(c) ==
  /\ Alive /\ InFlight(c) /\ ~hungUp[c]
  /\ hungUp' = [hungUp EXCEPT ![c] = TRUE]
  /\ left' = [left EXCEPT ![c] = 0]
  /\ UNCHANGED <<life, waitLeft, waited, prepared, late, at, request, run,
                 answer>>
-----------------------------------------------------------------------------
(***************************************************************************)
(* reaper.go.                                                              *)
(***************************************************************************)
callVars == <<context, at, request, run, answer>>

(* The ticker fires; so it may when it is to stop, since select takes any. *)
PassBegins ==
  /\ Alive /\ reaper = "resting"
  /\ reaper' = "passing"
  /\ UNCHANGED <<config, server, grace, callVars>>

PassEnds ==
  /\ Alive /\ reaper = "passing"
  /\ reaper' = "resting"
  /\ UNCHANGED <<config, server, grace, callVars>>

(* A mistake: Stop waits for doneCh before it closes stopCh.               *)
StopNeverTold ==
  /\ server = "exited" /\ reaper = "resting"
  /\ reaper' = "gone"
  /\ UNCHANGED <<config, server, grace, callVars>>

ReaperStops ==
  /\ server = "closing" /\ reaper = "resting"
  /\ reaper' = "gone"
  /\ UNCHANGED <<config, server, grace, callVars>>
-----------------------------------------------------------------------------
(***************************************************************************)
(* main and Close.                                                         *)
(***************************************************************************)
Signal ==
  /\ server = "serving"
  /\ server' = "draining" /\ grace' = Grace
  /\ UNCHANGED <<config, reaper, callVars>>

(* Shutdown returns: all calls are answered, or its time is over.          *)
ShutdownEnds ==
  /\ server = "draining"
  /\ grace = 0 \/ \A c \in Calls : ~InFlight(c)
  /\ server' = "closing"
  /\ UNCHANGED <<config, grace, reaper, callVars>>

(* Stop has returned: main ends, and what is still at work with it.        *)
Exit ==
  /\ server = "closing" /\ reaper = "gone"
  /\ server' = "exited"
  /\ UNCHANGED <<config, grace, reaper, callVars>>

(* What waits for a context, or a timer, does not wait any longer. (The    *)
(* clients of Docker and Kubernetes are taken to return when the context   *)
(* that they are given ends; Ping of the Kubernetes client gives none.)    *)
Bounded(c) ==
  \/ at[c] \in {"dispatching", "spawned"}
  \/ at[c] = "operating" /\ left[c] <= 0
  \/ at[c] = "pinging" /\ left[c] <= 0 /\ config.backend = "docker"
  \/ at[c] = "awaiting" /\ (WaitOver(c) \/ run[c] = "done")

Less(n) == IF n <= 0 THEN n ELSE n - 1

(* A unit of time passes, when nobody's time is over.                      *)
Tick ==
  /\ Alive
  /\ \A c \in Calls : ~Bounded(c)
  /\ server = "draining" => grace > 0
  /\ server = "draining" \/ \E c \in Calls : InFlight(c)
  /\ left' = [c \in Calls |-> Less(left[c])]
  /\ waitLeft' = [c \in Calls |-> IF at[c] = "awaiting" THEN Less(waitLeft[c])
                                  ELSE waitLeft[c]]
  /\ waited' = [c \in Calls |-> IF at[c] = "awaiting" THEN waited[c] + 1
                                ELSE waited[c]]
  /\ prepared' = [c \in Calls |->
                    IF at[c] \in {"pinging", "operating"} /\ prepared[c] <= Cushion
                    THEN prepared[c] + 1 ELSE prepared[c]]
  /\ late' = [c \in Calls |-> late[c] \cup
                {stage \in {at[c]} : InFlight(c) /\ left[c] <= 0}]
  /\ grace' = IF server = "draining" THEN grace - 1 ELSE grace
  /\ UNCHANGED <<config, server, reaper, hungUp, at, request, run, answer>>
-----------------------------------------------------------------------------
Handle(c) ==
  \/ Ping(c) \/ PingFails(c) \/ Refuse(c) \/ Operate(c)
  \/ OperationFails(c) \/ OperationSucceeds(c) \/ Spawn(c)
  \/ AnswerSpawned(c) \/ AnswerFinal(c) \/ AnswerNull(c)

Process == ShutdownEnds \/ Exit

Next ==
  \/ \E c \in Calls : Accept(c) \/ Handle(c) \/ RunEnds(c) \/ HangUp(c)
  \/ PassBegins \/ PassEnds \/ ReaperStops
  \/ Signal \/ Process \/ Tick

(* What need not wait goes on, and time passes. A pass of the reaper comes *)
(* to its end, after 30 s at the latest, and a select that finds the same  *)
(* channel ready again and again takes it at last (the runtime chooses at  *)
(* random).                                                                *)
Fairness ==
  /\ \A c \in Calls : WF_vars(Bounded(c) /\ Handle(c))
  /\ WF_vars(Process)
  /\ WF_vars(PassEnds)
  /\ SF_vars(ReaperStops)
  /\ WF_vars(Tick)

Spec == Init /\ [][Next]_vars /\ Fairness
-----------------------------------------------------------------------------
Stages == {"new", "pinging", "dispatching", "operating", "spawned", "awaiting",
           "answered"}

TypeOK ==
  /\ config \in [ number : [Integral -> Int], await : BOOLEAN, timeout : Int,
                  backend : Backends ]
  /\ server \in {"serving", "draining", "closing", "exited"}
  /\ grace \in Nat
  /\ reaper \in {"resting", "passing", "gone"}
  /\ at \in [Calls -> Stages]
  /\ request \in [Calls -> Requests]
  /\ left \in [Calls -> Nat] /\ waitLeft \in [Calls -> Int]
  /\ run \in [Calls -> {"none", "working", "done"}]
  /\ answer \in [Calls -> {"none", "nothing", "error", "result", "final", "null"}]
  /\ hungUp \in [Calls -> BOOLEAN] /\ late \in [Calls -> SUBSET Stages]
  /\ waited \in [Calls -> Nat] /\ prepared \in [Calls -> Nat]

(* Whatever the environment says, the numbers of the configuration are     *)
(* what the rest of the program needs them to be: positive, also where a   *)
(* multiplication wraps (NewTicker panics otherwise, and timeout(1) takes  *)
(* 0 for no limit).                                                        *)
ConfigIsSane == \A k \in Integral : config.number[k] > 0

(* A run is executed only of commands that its goroutine can execute:      *)
(* each has exactly one of shell and argv, the time limit fits a duration, *)
(* and the sandbox gets a TTL within the configured maximum.               *)
SpawnedIsExecutable ==
  \A c \in Calls : run[c] # "none" =>
    /\ request[c].commands # <<>>
    /\ \A i \in DOMAIN request[c].commands :
         LET cmd == Normalized(request[c].commands[i])
         IN  (cmd.shell = "text" <=> ~cmd.argv) /\ cmd.timeoutMs >= 0
    /\ EffectiveTTL(request[c].ttl) \in 1 .. config.number["maxTTL"]

(* An error tells the client that nothing was started, so that it may call *)
(* again; a run is behind every other answer to run_sandbox.               *)
ErrorMeansNoRun ==
  \A c \in Calls : at[c] = "answered" /\ answer[c] # "nothing" =>
    (run[c] # "none" <=> answer[c] # "error" /\ request[c].tool = "run_sandbox")

(* What a client asks to wait for, before it is told null.                 *)
Requested(r) == WaitMs(r) * Millisecond

(* A client that awaits its run is told null only after the time that it   *)
(* has asked for. The exceptions: it has hung up; the sandbox has taken    *)
(* longer than the cushion (timeouts.go:41); or the time that it has asked *)
(* for does not fit a duration.                                            *)
AwaitHonoured ==
  \A c \in Calls : at[c] = "answered" /\ answer[c] = "null" =>
    \/ waited[c] >= Requested(request[c])
    \/ hungUp[c]
    \/ prepared[c] >= Cushion
    \/ Requested(request[c]) + Cushion > MaxDuration

(* The deadline of a call passes in one place only: in Ping on Kubernetes, *)
(* which does not heed it (client/kubernetes/client.go:19-23). Wherever    *)
(* else it finds a call, and with Docker everywhere, the call is answered. *)
AnsweredInTime ==
  \A c \in Calls :
    late[c] \subseteq IF config.backend = "kubernetes" THEN {"pinging"} ELSE {}

(* When the process ends, a call is cut only after it was given the whole  *)
(* time of Shutdown, and nothing of the reaper is cut.                     *)
CutOnlyAfterGrace ==
  server = "exited" =>
    /\ reaper = "gone"
    /\ (\E c \in Calls : InFlight(c)) => grace = 0

(* A run is behind a call that was accepted, once its sandbox is there.    *)
RunsAreBehindCalls ==
  \A c \in Calls :
    /\ at[c] \in {"operating", "spawned", "awaiting"} => Accepts(request[c])
    /\ run[c] # "none" =>
         /\ at[c] \in {"spawned", "awaiting", "answered"}
         /\ request[c].tool = "run_sandbox" /\ Accepts(request[c])
    /\ at[c] \in {"spawned", "awaiting"} => run[c] # "none"
    /\ at[c] = "awaiting" => Awaits(request[c])

(* Until it waits for its run, a call has what is left of its deadline     *)
(* after its sandbox was prepared; from then on it also has its own time.  *)
TimeAccounted ==
  \A c \in Calls :
    /\ at[c] \notin {"awaiting", "answered"} => waited[c] = 0
    /\ InFlight(c) /\ ~hungUp[c] /\ prepared[c] <= Cushion =>
         left[c] + prepared[c] + waited[c] >= Deadline(request[c])
    /\ at[c] = "awaiting" =>
         waitLeft[c] + waited[c] >= ToDuration(WaitMs(request[c]))

(* Where no call is accepted any more, none is in flight after its time.   *)
ClosedForCause ==
  server \in {"closing", "exited"} /\ (\E c \in Calls : InFlight(c)) => grace = 0

(* What every state satisfies, besides the types.                          *)
IInv == /\ TypeOK
        /\ ConfigIsSane /\ SpawnedIsExecutable
        /\ ErrorMeansNoRun /\ CutOnlyAfterGrace
        /\ RunsAreBehindCalls /\ TimeAccounted /\ ClosedForCause

(* The signal ends the process, although the reaper may begin another pass *)
(* after it was told to stop. (There is no way back from draining.)        *)
SignalEnds == []<>(server \in {"serving", "exited"})

(* Every call is answered or cut, except where Ping hangs. (Each call is   *)
(* accepted once; so if all are over again and again, each one is.)        *)
CallsAreAnswered ==
  []<>( \/ server = "exited"
        \/ \A c \in Calls : InFlight(c) => at[c] = "pinging" /\ "pinging" \in late[c] )
=============================================================================
