----------------------------- MODULE RunManager -----------------------------
(***************************************************************************)
(* internal/runs/manager.go: run_sandbox requests, the goroutine that      *)
(* executes each of them, the map of retained runs and its eviction.       *)
(*                                                                         *)
(* A run has two threads of control. The handler (RunSandbox) registers    *)
(* the run, evicts, starts the goroutine and may await its end; the        *)
(* goroutine (executeRun) takes the identifier's lock if asked to, makes   *)
(* sure of the sandbox, executes the commands, extracts the artifacts and  *)
(* settles the run. A step ends wherever m.mu is released or another       *)
(* goroutine or a container can act. The Run structs outlive their entry   *)
(* in m.runs, because the goroutines keep pointers to them: `run' is the   *)
(* structs, `runs' the keys of the map.                                    *)
(***************************************************************************)
EXTENDS Naturals, Sequences, FiniteSets, SequencesExt

CONSTANTS
  Runs,          \* the run ids, one per admitted request
  Identifiers,   \* the sandbox identifiers
  Requests,      \* the arguments of run_sandbox after normalisation
  MaxRuns,       \* cfg.MaxRuns, at least 1 (config.go:174-177)
  None,          \* what is not there yet
  Nil            \* Go's nil

Command == [denied : BOOLEAN, allowFailure : BOOLEAN]

ASSUME RequestsAssumption ==
  Requests \subseteq [ identifier      : Identifiers,
                       commands        : Seq(Command) \ {<<>>},
                       continueOnError : BOOLEAN,
                       lockSandbox     : BOOLEAN,
                       await           : BOOLEAN ]
ASSUME MaxRunsAssumption == MaxRuns \in Nat \ {0}

ASSUME NoneAssumption == /\ None # Nil
                         /\ {None, Nil} \cap (Requests \cup Runs) = {}

VARIABLES
  \* shared: the Manager and what it points to
  alive,         \* FALSE once a goroutine has panicked: the process is gone
  runs,          \* the keys of m.runs
  run,           \* the Run struct of each run
  broker,        \* the run's event broker: none yet, open, or closed
  log,           \* the events the run's broker has accepted
  latest,        \* m.latestRunByIdentifier
  line,          \* per identifier, the queue of its FIFOLock
  holding,       \* the runs whose Acquire succeeded and that did not release
  runsTotal,     \* the runs_total metric, by label
  clock,         \* readings of time.Now so far; no two are equal
  \* the handler of each run
  handler,       \* where RunSandbox is
  args,          \* its arguments
  final,         \* result["final"]: none, nil, or the Run it copied
  \* the goroutine of each run
  exec,          \* where executeRun is
  next,          \* the index of its command loop
  failure,       \* it has an error to report
  runFailed,     \* failRun was called
  ended,         \* its local `ended', read before m.mu is taken
  done           \* the runs whose Done channel is closed

retained == <<runs, broker>>
locks == <<line, holding>>
managerVars == <<alive, retained, run, log, latest, locks, runsTotal, clock>>
handlerVars == <<handler, args, final>>
locals == <<next, failure, runFailed, ended, done>>
vars == <<managerVars, handlerVars, exec, locals>>

CommandStatus == {"queued", "completed", "failed", "timed_out"}
RunStates == {"queued", "running", "completed", "failed"}
Settled == {"completed", "failed"}
Events == {"run_started", "command_started", "command_finished",
           "artifacts_extracted", "run_finished", "run_failed"}

RunStruct == [ state     : RunStates,
               endedAt   : Nat,          \* 0 is the zero time
               commands  : Seq(CommandStatus),
               artifacts : {"none", "listed", "error"} ]

HandlerStages == {"idle", "registered", "awaiting", "returned"}
ExecStages == {"absent", "spawned", "locking", "ensuring", "ready", "command",
               "executing", "failing", "extracting", "copying", "publishing",
               "settling", "counting", "announcing", "closing", "unlocking",
               "gone"}

NoRun == [state |-> "queued", endedAt |-> 0, commands |-> <<>>,
          artifacts |-> "none"]

Init ==
  /\ alive = TRUE
  /\ runs = {}
  /\ run = [r \in Runs |-> NoRun]
  /\ broker = [r \in Runs |-> "none"]
  /\ log = [r \in Runs |-> <<>>]
  /\ latest = [i \in Identifiers |-> None]
  /\ line = [i \in Identifiers |-> <<>>]
  /\ holding = {}
  /\ runsTotal = [s \in Settled |-> 0]
  /\ clock = 0
  /\ handler = [r \in Runs |-> "idle"]
  /\ args = [r \in Runs |-> None]
  /\ final = [r \in Runs |-> None]
  /\ exec = [r \in Runs |-> "absent"]
  /\ next = [r \in Runs |-> 1]
  /\ failure = [r \in Runs |-> FALSE]
  /\ runFailed = [r \in Runs |-> FALSE]
  /\ ended = [r \in Runs |-> 0]
  /\ done = {}
-----------------------------------------------------------------------------
(***************************************************************************)
(* What the steps are built from.                                          *)
(***************************************************************************)

(* The goroutine of r moves from one place of executeRun to the next. In a *)
(* process that has died nothing moves.                                    *)
Goto(r, from, to) == /\ alive
                     /\ exec[r] = from
                     /\ exec' = [exec EXCEPT ![r] = to]

(* b.Publish: a closed broker drops the event.                             *)
Publish(r, event) ==
  log' = IF broker[r] = "open" THEN [log EXCEPT ![r] = Append(@, event)] ELSE log

(* ended := time.Now().UTC(), outside of m.mu.                             *)
ReadClock(r) ==
  /\ clock' = clock + 1
  /\ ended' = [ended EXCEPT ![r] = clock + 1]

(* Under m.mu: the run's final state and end.                              *)
Conclude(r, state) ==
  run' = [run EXCEPT ![r].state = state, ![r].endedAt = ended[r]]

EndedRuns == {r \in runs : run[r].endedAt # 0}

(* The runs that the age limit removes, when it is at reading t.           *)
EndedBefore(t) == {r \in EndedRuns : run[r].endedAt < t}

(* A mistake: the comparison of the selection sort the wrong way round.     *)
LastEnded(S, n) ==
  {r \in S : Cardinality({s \in S : run[s].endedAt > run[r].endedAt}) < n}

(* The n runs of S that ended first; none when n is not positive.          *)
FirstEnded(S, n) ==
  {r \in S : Cardinality({s \in S : run[s].endedAt < run[r].endedAt}) < n}

(***************************************************************************)
(* evictIfNeeded, one critical section: drop what is older than seven      *)
(* days, then the runs that ended first until the map is within the limit  *)
(* or only runs that have not ended are left. A run whose goroutine is     *)
(* still at work never is that old: after `ended' it has two minutes of    *)
(* extraction left.                                                        *)
(***************************************************************************)
Evict ==
  \E t \in 0..(clock + 1) :
    LET aged    == EndedBefore(t)
        kept    == runs \ aged
        excess  == Cardinality(kept) - MaxRuns
        dropped == aged \cup FirstEnded(EndedRuns \ aged, excess)
    IN /\ \A r \in aged : exec[r] = "gone"
       /\ runs' = runs \ dropped
       /\ broker' = [r \in Runs |-> IF r \in dropped THEN "closed" ELSE broker[r]]
-----------------------------------------------------------------------------
(***************************************************************************)
(* The handler: RunSandbox.                                                *)
(***************************************************************************)

(* The request is valid and its sandbox is there: make the run and its     *)
(* broker and put it into the map. (A rejected request changes nothing.)   *)
Submit(r, q) ==
  /\ alive
  /\ handler[r] = "idle"
  /\ handler' = [handler EXCEPT ![r] = "registered"]
  /\ args' = [args EXCEPT ![r] = q]
  /\ run' = [run EXCEPT ![r] =
       [NoRun EXCEPT !.commands = [c \in 1..Len(q.commands) |-> "queued"]]]
  /\ broker' = [broker EXCEPT ![r] = "open"]
  /\ runs' = runs \cup {r}
  /\ UNCHANGED <<alive, log, latest, locks, runsTotal, clock, final, exec,
                 locals>>

(* Evict, start the goroutine, and return or wait for it.                  *)
EvictAndSpawn(r) ==
  /\ handler[r] = "registered"
  /\ Evict
  /\ Goto(r, "absent", "spawned")
  /\ handler' = [handler EXCEPT
                   ![r] = IF args[r].await THEN "awaiting" ELSE "returned"]
  /\ UNCHANGED <<alive, run, log, latest, locks, runsTotal, clock, args, final,
                 locals>>

(* Done is closed: look the run up again, and copy it if it is there.      *)
AwaitDone(r) ==
  /\ alive
  /\ handler[r] = "awaiting"
  /\ r \in done
  /\ handler' = [handler EXCEPT ![r] = "returned"]
  /\ final' = [final EXCEPT ![r] = IF r \in runs THEN run[r] ELSE Nil]
  /\ UNCHANGED <<managerVars, args, exec, locals>>

(* The await timeout, or the end of the request, comes first.              *)
AwaitTimeout(r) ==
  /\ alive
  /\ handler[r] = "awaiting"
  /\ handler' = [handler EXCEPT ![r] = "returned"]
  /\ final' = [final EXCEPT ![r] = Nil]
  /\ UNCHANGED <<managerVars, args, exec, locals>>

Handler(r) == \/ EvictAndSpawn(r)
              \/ AwaitDone(r)
              \/ AwaitTimeout(r)
-----------------------------------------------------------------------------
(***************************************************************************)
(* The goroutine: executeRun.                                              *)
(***************************************************************************)
Identifier(r) == args[r].identifier

(***************************************************************************)
(* Plausible mistakes in executeRun. No specification uses them: each      *)
(* stands in for the action it varies when a property is tested.           *)
(***************************************************************************)

(* The waiter of a lock that timed out stays in its queue.                 *)
LockTimeoutStaysQueued(r) ==
  /\ Goto(r, "locking", "ensuring")
  /\ UNCHANGED <<managerVars, handlerVars, locals>>

(* The lock is granted to anybody in its queue.                            *)
LockGrantedOutOfTurn(r) ==
  /\ Goto(r, "locking", "ensuring")
  /\ \A s \in holding : Identifier(s) # Identifier(r)
  /\ holding' = holding \cup {r}
  /\ UNCHANGED <<alive, retained, run, log, latest, line, runsTotal, clock,
                 handlerVars, locals>>

(* The loop leaves for the end of the run and skips the extraction.        *)
LastCommandSettles(r) ==
  /\ Goto(r, "command", "settling")
  /\ next[r] > Len(args[r].commands)
  /\ ReadClock(r)
  /\ UNCHANGED <<alive, retained, run, log, latest, locks, runsTotal,
                 handlerVars, next, failure, runFailed, done>>

(* A later command that goes well makes up for an earlier failure.         *)
CommandReturnsForgets(r, status) ==
  LET bad  == status # "completed" /\ ~args[r].commands[next[r]].allowFailure
      stop == bad /\ ~args[r].continueOnError
  IN /\ Goto(r, "executing", IF stop THEN "failing" ELSE "command")
     /\ run' = [run EXCEPT ![r].commands[next[r]] = status]
     /\ Publish(r, "command_finished")
     /\ failure' = [failure EXCEPT ![r] = bad]
     /\ next' = [next EXCEPT ![r] = @ + 1]
     /\ runFailed' = [runFailed EXCEPT ![r] = @ \/ stop]
     /\ IF stop THEN ReadClock(r) ELSE UNCHANGED <<clock, ended>>
     /\ UNCHANGED <<alive, retained, latest, locks, runsTotal, handlerVars,
                    done>>

(* A run that fails early tells nobody.                                    *)
FailSilently(r) ==
  /\ Goto(r, "failing", IF runFailed[r] THEN "extracting" ELSE "closing")
  /\ Conclude(r, "failed")
  /\ UNCHANGED <<alive, retained, log, latest, locks, runsTotal, clock,
                 handlerVars, locals>>

(* failRun closes Done.                                                    *)
FailAndCloseDone(r) ==
  /\ Goto(r, "failing", "counting")
  /\ Conclude(r, "failed")
  /\ done' = done \cup {r}
  /\ UNCHANGED <<alive, retained, log, latest, locks, runsTotal, clock,
                 handlerVars, next, failure, runFailed, ended>>

(* The early return of a failed Ensure forgets Done.                       *)
FailLeavesDoneOpen(r) ==
  /\ Goto(r, "failing", IF runFailed[r] THEN "counting" ELSE "unlocking")
  /\ Conclude(r, "failed")
  /\ UNCHANGED <<alive, retained, log, latest, locks, runsTotal, clock,
                 handlerVars, locals>>

(* The command loop goes on after failRun.                                 *)
AnnounceWithoutBreak(r) ==
  /\ Goto(r, "announcing", IF runFailed[r] THEN "command" ELSE "closing")
  /\ Publish(r, IF failure[r] THEN "run_failed" ELSE "run_finished")
  /\ UNCHANGED <<alive, retained, run, latest, locks, runsTotal, clock,
                 handlerVars, locals>>

(* A run that failed early is settled a second time.                       *)
AfterExtractAlwaysSettles(r, from) == Goto(r, from, "settling") /\ ReadClock(r)

(* An extraction that fails moves the alias all the same.                  *)
ExtractFailsMovesLatest(r) ==
  /\ Goto(r, "copying", IF runFailed[r] THEN "closing" ELSE "settling")
  /\ IF runFailed[r] THEN UNCHANGED <<clock, ended>> ELSE ReadClock(r)
  /\ run' = [run EXCEPT ![r].artifacts = "error"]
  /\ latest' = [latest EXCEPT ![Identifier(r)] = r]
  /\ UNCHANGED <<alive, retained, log, locks, runsTotal, handlerVars, next,
                 failure, runFailed, done>>

-----------------------------------------------------------------------------

(* Join the queue of the identifier's lock, if the run wants it.           *)
EnterLock(r) ==
  /\ Goto(r, "spawned", IF args[r].lockSandbox THEN "locking" ELSE "ensuring")
  /\ line' = IF args[r].lockSandbox
             THEN [line EXCEPT ![Identifier(r)] = Append(@, r)]
             ELSE line
  /\ UNCHANGED <<alive, retained, run, log, latest, holding, runsTotal, clock,
                 handlerVars, locals>>

(* Acquire returns a release function; only the front of the queue is ever *)
(* granted (FIFOLock refines FIFOMutex).                                   *)
LockGranted(r) ==
  /\ Goto(r, "locking", "ensuring")
  /\ Head(line[Identifier(r)]) = r
  /\ holding' = holding \cup {r}
  /\ UNCHANGED <<alive, retained, run, log, latest, line, runsTotal, clock,
                 handlerVars, locals>>

(* Acquire returns the error of its 24 hours: the run goes on all the same. *)
LockTimeout(r) ==
  /\ Goto(r, "locking", "ensuring")
  /\ \E i \in 1..Len(line[Identifier(r)]) :
        /\ line[Identifier(r)][i] = r
        /\ line' = [line EXCEPT ![Identifier(r)] = RemoveAt(@, i)]
  /\ UNCHANGED <<alive, retained, run, log, latest, holding, runsTotal, clock,
                 handlerVars, locals>>

EnsureOk(r) ==
  /\ Goto(r, "ensuring", "ready")
  /\ UNCHANGED <<managerVars, handlerVars, locals>>

(* The sandbox cannot be had. A run that is no longer in the map is left   *)
(* as it is, its Done channel open.                                        *)
EnsureFails(r) ==
  /\ Goto(r, "ensuring", IF r \in runs THEN "failing" ELSE "unlocking")
  /\ IF r \in runs
     THEN failure' = [failure EXCEPT ![r] = TRUE] /\ ReadClock(r)
     ELSE UNCHANGED <<failure, clock, ended>>
  /\ UNCHANGED <<alive, retained, run, log, latest, locks, runsTotal,
                 handlerVars, next, runFailed, done>>

(* Look the run up once more and dereference what was found.               *)
Start(r) ==
  /\ Goto(r, "ready", "command")
  /\ IF r \in runs
     THEN /\ run' = [run EXCEPT ![r].state = "running"]
          /\ Publish(r, "run_started")
          /\ UNCHANGED alive
     ELSE alive' = FALSE /\ UNCHANGED <<run, log>>
  /\ UNCHANGED <<retained, latest, locks, runsTotal, clock, handlerVars,
                 locals>>

(* The head of the command loop: stop at a denied command, hand the next   *)
(* one to the container, or leave the loop after the last.                 *)
Denied(r) ==
  /\ Goto(r, "command", "failing")
  /\ next[r] <= Len(args[r].commands)
  /\ args[r].commands[next[r]].denied
  /\ run' = [run EXCEPT ![r].commands[next[r]] = "failed"]
  /\ failure' = [failure EXCEPT ![r] = TRUE]
  /\ runFailed' = [runFailed EXCEPT ![r] = TRUE]
  /\ ReadClock(r)
  /\ UNCHANGED <<alive, retained, log, latest, locks, runsTotal, handlerVars,
                 next, done>>

ExecCommand(r) ==
  /\ Goto(r, "command", "executing")
  /\ next[r] <= Len(args[r].commands)
  /\ ~args[r].commands[next[r]].denied
  /\ Publish(r, "command_started")
  /\ UNCHANGED <<alive, retained, run, latest, locks, runsTotal, clock,
                 handlerVars, locals>>

LastCommand(r) ==
  /\ Goto(r, "command", "extracting")
  /\ next[r] > Len(args[r].commands)
  /\ UNCHANGED <<managerVars, handlerVars, locals>>

(* The container answers. A failure that is not allowed is remembered, and *)
(* ends the run at once unless it is to continue on errors.                *)
CommandReturns(r, status) ==
  LET bad  == status # "completed" /\ ~args[r].commands[next[r]].allowFailure
      stop == bad /\ ~args[r].continueOnError
  IN /\ Goto(r, "executing", IF stop THEN "failing" ELSE "command")
     /\ run' = [run EXCEPT ![r].commands[next[r]] = status]
     /\ Publish(r, "command_finished")
     /\ failure' = [failure EXCEPT ![r] = @ \/ bad]
     /\ next' = [next EXCEPT ![r] = @ + 1]
     /\ runFailed' = [runFailed EXCEPT ![r] = @ \/ stop]
     /\ IF stop THEN ReadClock(r) ELSE UNCHANGED <<clock, ended>>
     /\ UNCHANGED <<alive, retained, latest, locks, runsTotal, handlerVars,
                    done>>

(* The critical section of failRun, or of a failed Ensure.                 *)
Fail(r) ==
  /\ Goto(r, "failing", "counting")
  /\ Conclude(r, "failed")
  /\ UNCHANGED <<alive, retained, log, latest, locks, runsTotal, clock,
                 handlerVars, locals>>

(* extractArtifacts looks the run up and dereferences what it found.       *)
Extract(r) ==
  /\ Goto(r, "extracting", "copying")
  /\ alive' = (r \in runs)
  /\ UNCHANGED <<retained, run, log, latest, locks, runsTotal, clock,
                 handlerVars, locals>>

(* After the extraction: a run that failed early is settled already.       *)
AfterExtract(r, from) ==
  /\ Goto(r, from, IF runFailed[r] THEN "closing" ELSE "settling")
  /\ IF runFailed[r] THEN UNCHANGED <<clock, ended>> ELSE ReadClock(r)

ExtractFails(r) ==
  /\ AfterExtract(r, "copying")
  /\ run' = [run EXCEPT ![r].artifacts = "error"]
  /\ UNCHANGED <<alive, retained, log, latest, locks, runsTotal, handlerVars,
                 next, failure, runFailed, done>>

ExtractOk(r) ==
  /\ Goto(r, "copying", "publishing")
  /\ run' = [run EXCEPT ![r].artifacts = "listed"]
  /\ latest' = [latest EXCEPT ![Identifier(r)] = r]
  /\ UNCHANGED <<alive, retained, log, locks, runsTotal, clock, handlerVars,
                 locals>>

PublishArtifacts(r) ==
  /\ AfterExtract(r, "publishing")
  /\ Publish(r, "artifacts_extracted")
  /\ UNCHANGED <<alive, retained, run, latest, locks, runsTotal, handlerVars,
                 next, failure, runFailed, done>>

(* The final critical section of a run that did not fail early.            *)
Settle(r) ==
  /\ Goto(r, "settling", "counting")
  /\ Conclude(r, IF failure[r] THEN "failed" ELSE "completed")
  /\ UNCHANGED <<alive, retained, log, latest, locks, runsTotal, clock,
                 handlerVars, locals>>

(* The metric, after m.mu is released: the run has ended and is not yet    *)
(* counted. Each of the three places names the label of its own branch.    *)
Count(r) ==
  /\ Goto(r, "counting", "announcing")
  /\ runsTotal' =
       [runsTotal EXCEPT ![IF failure[r] THEN "failed" ELSE "completed"] = @ + 1]
  /\ UNCHANGED <<alive, retained, run, log, latest, locks, clock, handlerVars,
                 locals>>

(* Then the terminal event. failRun returns to the extraction, the other   *)
(* two are at the end.                                                     *)
Announce(r) ==
  /\ Goto(r, "announcing", IF runFailed[r] THEN "extracting" ELSE "closing")
  /\ Publish(r, IF failure[r] THEN "run_failed" ELSE "run_finished")
  /\ UNCHANGED <<alive, retained, run, latest, locks, runsTotal, clock,
                 handlerVars, locals>>

CloseDone(r) ==
  /\ Goto(r, "closing", "unlocking")
  /\ done' = done \cup {r}
  /\ UNCHANGED <<managerVars, handlerVars, next, failure, runFailed, ended>>

(* The deferred release: nothing without a lock, else pop the queue.       *)
Unlock(r) ==
  /\ Goto(r, "unlocking", "gone")
  /\ IF r \in holding
     THEN /\ line' = [line EXCEPT ![Identifier(r)] = Tail(@)]
          /\ holding' = holding \ {r}
     ELSE UNCHANGED locks
  /\ UNCHANGED <<alive, retained, run, log, latest, runsTotal, clock,
                 handlerVars, locals>>

Execute(r) ==
  \/ EnterLock(r) \/ LockGranted(r) \/ LockTimeout(r)
  \/ EnsureOk(r) \/ EnsureFails(r) \/ Start(r)
  \/ Denied(r) \/ ExecCommand(r) \/ LastCommand(r)
  \/ \E status \in CommandStatus \ {"queued"} : CommandReturns(r, status)
  \/ Fail(r)
  \/ Extract(r) \/ ExtractFails(r) \/ ExtractOk(r) \/ PublishArtifacts(r)
  \/ Settle(r) \/ Count(r) \/ Announce(r) \/ CloseDone(r) \/ Unlock(r)

Next == \E r \in Runs : \/ \E q \in Requests : Submit(r, q)
                       \/ Handler(r)
                       \/ Execute(r)

(***************************************************************************)
(* A goroutine that can take its next step takes it: the scheduler is      *)
(* fair, and Ensure, the extraction and the wait for the lock have         *)
(* deadlines: nothing forces a grant, but grant or timeout must come. That *)
(* a command returns is an assumption: it is executed without a deadline   *)
(* (manager.go:313), and Execution says (CommandsReturn) when it does      *)
(* return. Nobody has to submit a request.                                 *)
(***************************************************************************)
Fairness == \A r \in Runs : WF_vars(Handler(r)) /\ WF_vars(Execute(r))

SafetySpec == Init /\ [][Next]_vars
Spec == SafetySpec /\ Fairness
-----------------------------------------------------------------------------
(***************************************************************************)
(* Properties.                                                             *)
(***************************************************************************)

(* Every field and local has a value of its Go type; a state is one of the *)
(* four that the code assigns (types.go:9-24; "canceled" never is).        *)
TypeOK ==
  /\ alive \in BOOLEAN
  /\ runs \subseteq Runs
  /\ run \in [Runs -> RunStruct]
  /\ broker \in [Runs -> {"none", "open", "closed"}]
  /\ log \in [Runs -> Seq(Events)]
  /\ latest \in [Identifiers -> Runs \cup {None}]
  /\ line \in [Identifiers -> Seq(Runs)]
  /\ holding \subseteq Runs
  /\ runsTotal \in [Settled -> Nat]
  /\ clock \in Nat
  /\ handler \in [Runs -> HandlerStages]
  /\ args \in [Runs -> Requests \cup {None}]
  /\ final \in [Runs -> RunStruct \cup {None, Nil}]
  /\ exec \in [Runs -> ExecStages]
  /\ next \in [Runs -> Nat \ {0}]
  /\ failure \in [Runs -> BOOLEAN]
  /\ runFailed \in [Runs -> BOOLEAN]
  /\ ended \in [Runs -> Nat]
  /\ done \subseteq Runs

(* A run that was admitted and has not ended is in the map, whatever other *)
(* requests evict meanwhile: status polls find it, and executeRun does     *)
(* when it looks it up a second and third time (manager.go:219-225, 253).  *)
RetainedUntilEnded ==
  \A r \in Runs : handler[r] # "idle" /\ run[r].endedAt = 0 => r \in runs

(* The process only ever dies in one way: a run that failed early was      *)
(* evicted before its goroutine looked it up for the extraction            *)
(* (manager.go:675-678). The lookup at line 253 always finds its run.      *)
CrashOnlyByEviction ==
  ~alive => \E r \in Runs : /\ exec[r] = "copying"
                            /\ runFailed[r]
                            /\ r \notin runs

(* Once EndedAt is set, by any of the three places that set it, the        *)
(* outcome, the end and every command of the run never change again, so a  *)
(* copy that Get makes is no torn one. The comment at manager.go:568       *)
(* relies on it.                                                           *)
FrozenAfterEnd ==
  [][\A r \in Runs :
       run[r].endedAt # 0 =>
         run' [r] = [run[r] EXCEPT !.artifacts = run'[r].artifacts]]_vars

(* The goroutine of r has ended its run, and is past the metric.           *)
Counted(r) == run[r].endedAt # 0 /\ exec[r] # "counting"

(* The runs_total metric counts every run that ended exactly once, under   *)
(* its final state, although three code paths count: at any moment it lags *)
(* behind by the runs whose goroutines have released m.mu and are about to *)
(* count, and by nothing else (manager.go:229-230, 276-278, 375-385).      *)
AccountedOnce ==
  \A s \in Settled :
    runsTotal[s] =
      Cardinality({r \in Runs : Counted(r) /\ run[r].state = s})

Terminal == {"run_finished", "run_failed"}

(* run_started comes first, unless the sandbox could not be had; each      *)
(* command is finished before the next one starts; nothing comes after     *)
(* run_finished and only the artifacts after run_failed.                   *)
WellFormed(e) ==
  \A i \in 1..Len(e) :
    /\ e[i] = "run_started" <=> i = 1 /\ e # <<"run_failed">>
    /\ e[i] = "command_finished" => e[i - 1] = "command_started"
    /\ e[i] = "command_started" /\ i < Len(e) => e[i + 1] = "command_finished"
    /\ e[i] = "run_finished" => i = Len(e)
    /\ e[i] = "run_failed" =>
         \A j \in (i + 1)..Len(e) : e[j] = "artifacts_extracted"

(* The stream of a run is well formed on every path, and run_finished says *)
(* that the artifacts are decided. Clients read until the terminal event   *)
(* (tools.go:9), smoke fetches artifacts once it has seen run_finished.    *)
StreamOrder ==
  \A r \in Runs :
    /\ WellFormed(log[r])
    /\ \A i \in 1..Len(log[r]) :
          log[r][i] = "run_finished" => run[r].artifacts # "none"

(* When the goroutine is past its announcement, subscribers of a run that  *)
(* was not evicted have been told its outcome, and the outcome that they   *)
(* were told is the one that the status reports (manager.go:231, 279,      *)
(* 379-386).                                                               *)
OutcomeAnnounced ==
  \A r \in Runs :
    /\ exec[r] \in {"closing", "unlocking", "gone"} /\ broker[r] = "open" =>
         \E i \in 1..Len(log[r]) : log[r][i] \in Terminal
    /\ \A i \in 1..Len(log[r]) :
         /\ log[r][i] = "run_finished" => run[r].state = "completed"
         /\ log[r][i] = "run_failed" => run[r].state = "failed"

(* Whoever reads the stream of a run to its end has been told what it was, *)
(* in order, and can go on to ask for its artifacts (manager.go:219-394).  *)
StreamTellsOutcome == StreamOrder /\ OutcomeAnnounced

(* Command c of the run failed, and not with its leave.                    *)
Spoils(r, c) == /\ run[r].commands[c] \in {"failed", "timed_out"}
                /\ \/ args[r].commands[c].denied
                   \/ ~args[r].commands[c].allowFailure

(* The final state is earned: completed means that every command ran and   *)
(* none spoiled the run, whatever allow_failure and continue_on_error say; *)
(* and a command that never ran is one behind a denied command, behind the *)
(* failure that stopped the run, or in a run whose sandbox could not be    *)
(* had (manager.go:288-361).                                               *)
OutcomeJustified ==
  \A r \in Runs : run[r].endedAt # 0 =>
    LET C == DOMAIN run[r].commands
        NeverRan(c) == run[r].commands[c] = "queued"
    IN /\ run[r].state = "completed" <=>
             \A c \in C : ~NeverRan(c) /\ ~Spoils(r, c)
       /\ \A c \in C : NeverRan(c) =>
            \/ \A d \in C : NeverRan(d)
            \/ \E d \in C : /\ d < c
                            /\ Spoils(r, d)
                            /\ args[r].commands[d].denied \/ ~args[r].continueOnError
                            /\ \A e \in C : e > d => NeverRan(e)

(* Done is closed only for a run that ended and whose artifacts, if a      *)
(* command was tried, are decided; what an awaiting client gets is that    *)
(* final run, and stays equal to it (manager.go:186-188, 238, 393).        *)
AwaitedRunIsWhole ==
  \A r \in Runs :
    /\ r \in done => /\ run[r].endedAt # 0
                     /\ \/ run[r].artifacts # "none"
                        \/ \A c \in DOMAIN run[r].commands :
                              run[r].commands[c] = "queued"
    /\ final[r] \notin {None, Nil} => r \in done /\ final[r] = run[r]

(* The `latest' alias of an identifier leads to a run of that identifier   *)
(* whose artifacts were extracted (manager.go:651-659, 730).               *)
LatestHasArtifacts ==
  \A i \in Identifiers :
    latest[i] # None => /\ run[latest[i]].artifacts = "listed"
                        /\ Identifier(latest[i]) = i

(* Both ways to a run's results, the awaited answer and the alias, lead to *)
(* what will not change (manager.go:183-194, 651-659).                     *)
ResultsMayBeUsed == AwaitedRunIsWhole /\ LatestHasArtifacts

(* Two runs that were granted the lock of one sandbox never overlap, from  *)
(* before its Ensure to after its Done (manager.go:201-211).               *)
Serialized ==
  \A r, s \in holding : Identifier(r) = Identifier(s) => r = s

(* A run is in the queue of a lock exactly while it waits for it or owns   *)
(* it: every return of executeRun gives it back, a timeout leaves nothing  *)
(* behind (manager.go:201-211).                                            *)
QueueIsWhoNeedsTheLock ==
  \A i \in Identifiers, r \in Runs :
    (\E n \in 1..Len(line[i]) : line[i][n] = r)
      <=> /\ exec[r] = "locking" \/ r \in holding
          /\ Identifier(r) = i

(* Eviction keeps the newest: no run that stays ended before one that goes. *)
(* And it goes on until the map is within MAX_RUNS or nothing that ended is *)
(* left (manager.go:752-786).                                              *)
OldestEvictedFirst ==
  [][ /\ \A r \in runs \ runs', s \in runs \cap runs' :
            run[s].endedAt # 0 => run[r].endedAt < run[s].endedAt
      /\ (\E r \in Runs : EvictAndSpawn(r)) =>
            \/ Cardinality(runs') <= MaxRuns
            \/ \A s \in runs' : run[s].endedAt = 0 ]_vars

(* Every admitted run comes to its end: Done is closed and the goroutine,  *)
(* its lock with it, is gone, unless the process has died (manager.go:160, *)
(* 197-394).                                                               *)
RunsEnd ==
  []<>(\A r \in Runs :
         handler[r] # "idle" => (r \in done /\ exec[r] = "gone") \/ ~alive)
-----------------------------------------------------------------------------
(***************************************************************************)
(* The inductive invariant.                                                *)
(***************************************************************************)
Unended == {"absent", "spawned", "locking", "ensuring", "ready", "command",
            "executing", "failing", "settling"}
Extraction == {"extracting", "copying", "publishing"}

Phase(r) ==
  /\ handler[r] \in {"idle", "registered"} <=> exec[r] = "absent"
  /\ handler[r] # "idle" => args[r] \in Requests
  /\ exec[r] \in Unended => run[r].endedAt = 0
  /\ exec[r] \in Extraction => (run[r].endedAt # 0 <=> runFailed[r])
  /\ exec[r] \notin Unended \cup Extraction => run[r].endedAt # 0
  /\ exec[r] \in {"failing", "settling"} => ended[r] # 0
  /\ runFailed[r] => exec[r] \notin Unended \ {"failing"}

(* The place of the goroutine tells whether its run has ended: it has not  *)
(* while commands are executed, and it has during the extraction exactly   *)
(* when failRun was called.                                                *)
PhasesAgree == \A r \in Runs : Phase(r)

QueuesHaveNoDuplicates ==
  \A i \in Identifiers : \A m, n \in 1..Len(line[i]) :
    line[i][m] = line[i][n] => m = n

(* The owner of a lock is the front of its queue, and is past the wait.    *)
HoldersAreFirst ==
  \A r \in holding : /\ exec[r] \notin {"absent", "spawned", "locking", "gone"}
                     /\ line[Identifier(r)] # <<>>
                     /\ line[Identifier(r)][1] = r

(* What ties handlers, goroutines, map and locks together: the facts that  *)
(* the proofs of the properties above rest on (manager.go:91-394).         *)
IInv ==
  /\ TypeOK
  /\ PhasesAgree
  /\ RetainedUntilEnded
  /\ CrashOnlyByEviction
  /\ QueueIsWhoNeedsTheLock
  /\ QueuesHaveNoDuplicates
  /\ HoldersAreFirst

(* The goroutine is past its extraction, if its run has one at all.        *)
Behind(r) == \/ exec[r] \in {"publishing", "settling", "closing", "unlocking", "gone"}
             \/ exec[r] \in {"counting", "announcing"} /\ ~runFailed[r]

NothingRan(r) ==
  \A c \in DOMAIN run[r].commands : run[r].commands[c] = "queued"

(* No command has run before the sandbox is there, nor in a run that ends  *)
(* without one; behind the extraction the artifacts are decided; Done is   *)
(* closed last, and the copy that a client was given is of the Run as it   *)
(* is from then on (manager.go:171-189, 216-239, 363-394).                 *)
Whole(r) ==
  /\ \/ exec[r] \in {"absent", "spawned", "locking", "ensuring"}
     \/ exec[r] = "failing" /\ ~runFailed[r]
     => NothingRan(r)
  /\ Behind(r) => run[r].artifacts # "none" \/ NothingRan(r)
  /\ r \in done => exec[r] \in {"unlocking", "gone"}
  /\ final[r] \notin {None, Nil} => r \in done /\ final[r] = run[r]

(* The `latest' alias leads to a run whose one extraction succeeded and is *)
(* behind it, so nothing takes its artifacts back (manager.go:651-659).    *)
LatestIsBehind ==
  \A i \in Identifiers :
    LET r == latest[i]
    IN r # None => /\ Behind(r)
                   /\ run[r].artifacts = "listed"
                   /\ Identifier(r) = i

(* What a client is given: the second inductive invariant, relative to     *)
(* IInv.                                                                   *)
ResultsInv == (\A r \in Runs : Whole(r)) /\ LatestIsBehind

(* The commands before the n-th have run, and no other.                    *)
RanBefore(r, n) ==
  \A c \in DOMAIN run[r].commands : run[r].commands[c] # "queued" <=> c < n

Spoiled(r) == \E c \in DOMAIN run[r].commands : Spoils(r, c)

(* Command d ends the loop.                                                *)
Stops(r, d) == /\ Spoils(r, d)
               /\ args[r].commands[d].denied \/ ~args[r].continueOnError

(* Why the loop is over, or never began: no sandbox, every command has     *)
(* run, or one of them ended it.                                           *)
LoopOver(r) ==
  /\ failure[r] <=> NothingRan(r) \/ Spoiled(r)
  /\ \/ NothingRan(r)
     \/ RanBefore(r, Len(run[r].commands) + 1)
     \/ \E d \in DOMAIN run[r].commands : Stops(r, d) /\ RanBefore(r, d + 1)

(* The loop of executeRun: `next' separates what ran from what did not,    *)
(* `failure' remembers that a command spoiled the run, and the final state *)
(* is decided by it (manager.go:288-386).                                  *)
Loop(r) ==
  /\ handler[r] # "idle" => Len(run[r].commands) = Len(args[r].commands)
  /\ exec[r] \in {"absent", "spawned", "locking", "ensuring", "ready"} =>
       next[r] = 1 /\ NothingRan(r) /\ ~failure[r]
  /\ exec[r] \in {"command", "executing"} =>
       RanBefore(r, next[r]) /\ (failure[r] <=> Spoiled(r))
  /\ exec[r] = "executing" => /\ next[r] <= Len(args[r].commands)
                              /\ ~args[r].commands[next[r]].denied
  /\ exec[r] = "failing" => failure[r]
  /\ exec[r] \notin Unended \ {"failing", "settling"} => LoopOver(r)
  /\ run[r].endedAt # 0 =>
       run[r].state = IF failure[r] THEN "failed" ELSE "completed"

(* The third inductive invariant, relative to IInv.                        *)
LoopInv == \A r \in Runs : Loop(r)

(* The goroutine is past its announcement. A run that failed early is      *)
(* announced before its extraction, another one after it.                  *)
Announced(r) == \/ exec[r] \in {"closing", "unlocking", "gone"}
                \/ exec[r] \in Extraction /\ runFailed[r]

(* run_started has been published, unless it never will be.                *)
Begun(r) == \/ exec[r] \in {"command", "executing", "settling"} \cup Extraction
            \/ exec[r] = "failing" /\ runFailed[r]
            \/ /\ exec[r] \in {"counting", "announcing"}
               /\ runFailed[r] \/ ~failure[r]

(* What the place of the goroutine says of the stream: its last event      *)
(* while commands are executed, no terminal event before the announcement, *)
(* one after it unless the run was evicted first, and that the broker is   *)
(* open until the run has ended (manager.go:219-394, 768).                 *)
Stream(r) ==
  LET e == log[r]
  IN /\ WellFormed(e)
     /\ exec[r] \in {"absent", "spawned", "locking", "ensuring", "ready"} => e = <<>>
     /\ Begun(r) => e # <<>> /\ e[1] = "run_started"
     /\ e # <<>> => (e[Len(e)] = "command_started" <=> exec[r] = "executing")
     /\ \A i \in 1..Len(e) : e[i] \in Terminal =>
          Announced(r) /\ e[i] = IF failure[r] THEN "run_failed" ELSE "run_finished"
     /\ Announced(r) /\ broker[r] = "open" =>
          \E i \in 1..Len(e) : e[i] \in Terminal
     /\ handler[r] # "idle" /\ run[r].endedAt = 0 => broker[r] = "open"
     /\ runFailed[r] => failure[r]

(* The fourth inductive invariant, relative to IInv.                       *)
StreamInv == \A r \in Runs : Stream(r)
-----------------------------------------------------------------------------
(***************************************************************************)
(* What documentation says of the program and the code does not do.        *)
(***************************************************************************)

(* manager.go:756 says that eviction removes completed runs: a run that is *)
(* gone from the map needs nothing from it any more.                       *)
OnlyCompletedRunsEvicted ==
  \A r \in Runs : handler[r] # "idle" /\ r \notin runs =>
    exec[r] \notin {"extracting", "copying", "publishing"}
=============================================================================
