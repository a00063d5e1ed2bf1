----------------------------- MODULE Execution ------------------------------
(***************************************************************************)
(* internal/runs: how the commands of one run execute in its sandbox.      *)
(*                                                                         *)
(* RunManager takes a command for one step. Here the step is opened: the   *)
(* process in the sandbox, the stream that carries its output, the writer  *)
(* that cuts it (eventWriter), the time limit, the two executors, and the  *)
(* record of the result, which a client may read meanwhile (StatusHandler).*)
(* Around it are those who may take the sandbox away: the reaper, and      *)
(* other requests for the same identifier.                                 *)
(*                                                                         *)
(* One stream stands for stdout and stderr, whose writers do not interact. *)
(* Output is the sequence of the positions 1, 2, ... of its bytes, so that *)
(* a gap would show. Times are kept as what has passed or is left of them, *)
(* so that time itself needs no bound.                                     *)
(***************************************************************************)
EXTENDS Naturals, Sequences, FiniteSets

CONSTANTS
  Requests,        \* the runs that may be executed
  Backends,        \* cfg.SandboxBackend: some of "docker", "kubernetes"
  OtherTTLs,       \* the TTLs of other requests for the identifier
  MaxBytes,        \* cfg.DefaultStdoutMaxBytes
  DefaultTimeout,  \* cfg.DefaultCommandTimeout
  Second,          \* a second, in units of time
  MaxWait,         \* the ten minutes of waitDockerExec
  Chunks,          \* the sizes of what one Write is given
  Trouble,         \* bound: what the backend and other requests may do wrong
  None,            \* not known yet
  Torn             \* a value that is being written: neither old nor new

(* output: what the command prints, with all that it starts, unless it is  *)
(* killed. timeout: its timeout_ms, 0 if it gives none. denied: the deny   *)
(* list has a pattern that its text contains.                              *)
Command == [ output : Nat, timeout : Nat,
             allowFailure : BOOLEAN, denied : BOOLEAN ]

ASSUME RequestsAssumption ==
  Requests \subseteq [ commands        : Seq(Command) \ {<<>>},
                       continueOnError : BOOLEAN,
                       ttl             : Nat \ {0} ]
ASSUME BackendsAssumption == Backends \subseteq {"docker", "kubernetes"}
ASSUME ConfigAssumption ==    \* config.go:117-122, 157-172
  /\ {MaxBytes, DefaultTimeout, Second} \subseteq Nat \ {0}
  /\ MaxWait \in Nat
ASSUME WorldAssumption ==
  /\ Chunks \subseteq Nat \ {0}
  /\ OtherTTLs \subseteq Nat \ {0}
  /\ Trouble \in Nat
ASSUME ValuesAssumption == None \notin Nat /\ Torn \notin Seq(Nat)

VARIABLES
  \* what is executed, and where
  request,     \* the arguments of the run
  backend,     \* the backend that serves it
  \* the sandbox of the identifier
  sandbox,     \* the container that exists, 0 if there is none
  created,     \* how many were created so far
  stopped,     \* it is stopped, and not removed yet
  remaining,   \* what is left until its expiry
  deleter,     \* a deletion under way: what it does next
  victim,      \* the container that it removes
  \* the goroutine of the run
  at,          \* where executeRun is
  sbx,         \* its `sbx': the container that it was given
  next,        \* the index of its command loop
  deadline,    \* what is left of waitDockerExec's patience
  outcome,     \* what Exec returned
  failure,     \* firstFailure # nil
  state,       \* run.State
  result,      \* run.Commands
  \* the command that executes
  process,     \* per command, its process in the sandbox
  taken,       \* how many bytes of output the stream has delivered
  buf,         \* eventWriter.buf
  truncated,   \* eventWriter.truncated
  \* around it
  owed,        \* what is left of the time that the run was given
  disturbed,   \* somebody else has shortened it, or deletes the sandbox
  trouble      \* what has gone wrong so far

input == <<request, backend>>
place == <<sandbox, created, stopped>>
deletion == <<deleter, victim>>
lease == <<remaining, owed, disturbed>>
loop == <<at, next>>
writer == <<taken, buf, truncated>>
record == <<failure, state, result>>
vars == <<input, place, deletion, lease, loop, sbx, deadline, outcome, record,
          process, writer, trouble>>

Stages == {"none", "running", "exited", "expired", "killed"}
Statuses == {"queued", "completed", "failed", "timed_out"}
Places == {"locked", "loop", "streaming", "waiting", "returned", "storing",
           "stored", "refusing", "refused", "failing", "extracting", "over"}
Settled == {"completed", "failed"}

NoProcess == [stage |-> "none", ran |-> 0, code |-> 0, printed |-> None,
              inside |-> 0, hung |-> FALSE, cut |-> FALSE, left |-> "no"]
NoOutcome == [code |-> 0, err |-> FALSE]
NoResult == [status |-> "queued", code |-> 0, text |-> <<>>,
             truncated |-> FALSE, endedAt |-> "unset"]

(* The handler has made sure of a sandbox and started the goroutine, which *)
(* first waits for the lock of the identifier, if it is to.                *)
Init ==
  /\ request \in Requests /\ backend \in Backends
  /\ sandbox = 1 /\ created = 1 /\ stopped = FALSE
  /\ remaining = request.ttl
  /\ deleter = "none" /\ victim = 0
  /\ at = "locked" /\ sbx = 1 /\ next = 1
  /\ deadline = 0
  /\ outcome = NoOutcome
  /\ failure = FALSE /\ state = "queued"
  /\ result = [i \in DOMAIN request.commands |-> NoResult]
  /\ process = [i \in DOMAIN request.commands |-> NoProcess]
  /\ taken = 0 /\ buf = <<>> /\ truncated = FALSE
  /\ owed = 0 /\ disturbed = FALSE /\ trouble = 0
-----------------------------------------------------------------------------
Commands == DOMAIN request.commands
Running(i) == process[i].stage = "running"
Denied(i) == request.commands[i].denied

Less(n) == IF n = 0 THEN 0 ELSE n - 1

Fault == trouble < Trouble /\ trouble' = trouble + 1

(* The time that a command is given: its own, or the configured one.       *)
Asked(i) == LET own == request.commands[i].timeout
            IN  IF own > 0 THEN own ELSE DefaultTimeout

(* A mistake: the fraction of a second is dropped.                         *)
LimitRoundedDown(i) == (Asked(i) \div Second) * Second

(* What is passed to timeout(1): whole seconds, rounded up.                *)
Limit(i) == ((Asked(i) + Second - 1) \div Second) * Second

(* timeout(1) takes 0 for no limit.                                        *)
Due(i) == Limit(i) # 0 /\ process[i].ran >= Limit(i)

(* It has ended, and something that it has started holds its output open.  *)
Lingers(i) == /\ process[i].stage \notin {"none", "running"}
              /\ process[i].printed = None

(* A process ends. What a killed one has printed by then is anything       *)
(* between what was delivered and all of it.                               *)
Ended(i, stage, code, printed) ==
  [process[i] EXCEPT !.stage = stage, !.code = code,
                     !.printed = IF @ = None THEN printed ELSE @,
                     !.ran = IF stage = "expired" THEN @ ELSE 0]

CanPrint(i) == IF i = next /\ process[i].printed = None
               THEN taken .. request.commands[i].output
               ELSE {request.commands[i].output}

(* Everything in container c is killed, with what commands that have ended *)
(* left behind.                                                            *)
KillAll(c) ==
  \E printed \in [Commands -> UNION {CanPrint(i) : i \in Commands}] :
     /\ \A i \in Commands : printed[i] \in CanPrint(i)
     /\ process' = [i \in Commands |->
          IF process[i].inside # c THEN process[i]
          ELSE IF Running(i) THEN Ended(i, "killed", 137, printed[i])
          ELSE IF Lingers(i) THEN [process[i] EXCEPT !.printed = printed[i]]
          ELSE process[i]]
-----------------------------------------------------------------------------
(***************************************************************************)
(* The sandbox, its expiry, and who takes it away.                         *)
(***************************************************************************)

(* A mistake: an existing sandbox keeps the expiry that it has.            *)
EnsuredWithoutExtend(ttl) ==
  /\ stopped' = FALSE
  /\ IF sandbox # 0
     THEN UNCHANGED <<sandbox, created, remaining>>
     ELSE /\ created' = created + 1 /\ sandbox' = created + 1
          /\ remaining' = ttl

(* Ensure: a sandbox that exists is started if it does not run, and its    *)
(* expiry is set anew, whatever it was; otherwise one is created.          *)
Ensured(ttl) ==
  /\ stopped' = FALSE
  /\ remaining' = ttl
  /\ IF sandbox # 0
     THEN UNCHANGED <<sandbox, created>>
     ELSE created' = created + 1 /\ sandbox' = created + 1

(* RunSandbox or Restart of another request for the same identifier.       *)
OtherEnsure ==
  /\ Fault
  /\ \E ttl \in OtherTTLs : /\ Ensured(ttl)
                            /\ disturbed' = (disturbed \/ ttl < owed)
  /\ UNCHANGED <<input, deletion, owed, loop, sbx, deadline, outcome, record,
                 process, writer>>

(* ReapOnce reads that the expiry has passed. It deletes later.            *)
Look ==
  /\ deleter = "none"
  /\ sandbox # 0 /\ remaining = 0
  /\ deleter' = "stop"
  /\ UNCHANGED <<input, place, victim, lease, loop, sbx, deadline, outcome,
                 record, process, writer, trouble>>

(* delete_sandbox or restart_sandbox of a client.                          *)
OtherDelete ==
  /\ Fault
  /\ deleter = "none"
  /\ deleter' = "stop"
  /\ disturbed' = TRUE
  /\ UNCHANGED <<input, place, victim, remaining, owed, loop, sbx, deadline,
                 outcome, record, process, writer>>

(* Delete: whatever serves the identifier now is stopped ...               *)
Stop ==
  /\ deleter = "stop"
  /\ IF sandbox = 0
     THEN deleter' = "none" /\ UNCHANGED <<victim, stopped, process>>
     ELSE /\ deleter' = "remove" /\ victim' = sandbox
          /\ stopped' = TRUE
          /\ KillAll(sandbox)
  /\ UNCHANGED <<input, sandbox, created, lease, loop, sbx, deadline, outcome,
                 record, writer, trouble>>

(* ... and removed, even if somebody has started it again.                 *)
Remove ==
  /\ deleter = "remove"
  /\ deleter' = "none" /\ victim' = 0
  /\ KillAll(victim)
  /\ sandbox' = IF sandbox = victim THEN 0 ELSE sandbox
  /\ stopped' = (stopped /\ sandbox # victim)
  /\ UNCHANGED <<input, created, lease, loop, sbx, deadline, outcome, record,
                 writer, trouble>>

(* A unit of time passes, but not past the end of a time limit.            *)
Tick ==
  /\ \A i \in Commands : Running(i) => ~Due(i)
  /\ process' = [i \in Commands |->
                   IF Running(i) /\ Limit(i) # 0
                   THEN [process[i] EXCEPT !.ran = @ + 1] ELSE process[i]]
  /\ remaining' = Less(remaining)
  /\ owed' = Less(owed)
  /\ deadline' = Less(deadline)
  /\ UNCHANGED <<input, place, deletion, disturbed, loop, sbx, outcome,
                 record, writer, trouble>>
-----------------------------------------------------------------------------
(***************************************************************************)
(* The processes in the sandbox.                                           *)
(***************************************************************************)

ProcessStep(i, p) ==
  /\ process' = [process EXCEPT ![i] = p]
  /\ UNCHANGED <<input, place, deletion, lease, loop, sbx, deadline, outcome,
                 record, writer, trouble>>

(* A command ends by itself, well or not. (124 and 137 are codes like      *)
(* others to it, and one of them will do.) What it has started in the      *)
(* background may go on, and keep the output open: None.                   *)
Exit(i) ==
  /\ Running(i)
  /\ \E code \in {0, 1, 124}, n \in {request.commands[i].output, None} :
       ProcessStep(i, Ended(i, "exited", code, n))

(* Its time is over: timeout(1) kills it and passes on 128 + SIGKILL. What *)
(* has left its process group survives.                                    *)
Expire(i) ==
  /\ Running(i) /\ Due(i)
  /\ \E n \in CanPrint(i) \cup {None} :
       ProcessStep(i, Ended(i, "expired", 137, n))

(* The output is closed, by a command that goes on working, or by the last *)
(* of those that a command has left behind. Nothing limits their time.     *)
FallSilent(i) ==
  /\ Running(i) \/ Lingers(i)
  /\ process[i].printed = None
  /\ ProcessStep(i, [process[i] EXCEPT !.printed = request.commands[i].output])
-----------------------------------------------------------------------------
(***************************************************************************)
(* eventWriter.                                                            *)
(***************************************************************************)

(* A mistake: a chunk that does not fit is dropped as a whole, and a later *)
(* one that fits is not.                                                   *)
WriteWhatFits(n) ==
  /\ buf' = IF Len(buf) + n <= MaxBytes
            THEN buf \o [k \in 1 .. n |-> taken + k] ELSE buf
  /\ truncated' = (truncated \/ Len(buf) + n > MaxBytes)

(* A mistake: what comes once the limit is reached is not marked.          *)
WriteUnmarked(n) ==
  LET room == MaxBytes - Len(buf)
      kept == IF n > room THEN room ELSE n
  IN  /\ buf' = buf \o [k \in 1 .. kept |-> taken + k]
      /\ truncated' = (truncated \/ (room > 0 /\ n > room))

(* Write is given the n bytes that follow those taken.                     *)
Write(n) ==
  LET room == MaxBytes - Len(buf)
      kept == IF n > room THEN room ELSE n
  IN  /\ buf' = buf \o [k \in 1 .. kept |-> taken + k]
      /\ truncated' = (truncated \/ n > room)

(* The executor's stream delivers a chunk of the command's output.         *)
Deliver ==
  /\ at = "streaming" /\ ~process[next].hung
  /\ \E n \in Chunks :
       /\ taken + n <= IF process[next].printed = None
                       THEN request.commands[next].output
                       ELSE process[next].printed
       /\ Write(n)
       /\ taken' = taken + n
  /\ UNCHANGED <<input, place, deletion, lease, loop, sbx, deadline, outcome,
                 record, process, trouble>>
-----------------------------------------------------------------------------
(***************************************************************************)
(* executeRun, execCommand and Exec.                                       *)
(***************************************************************************)

(* The second Ensure, once the lock is held or given up: the sandbox of    *)
(* the first one may be gone.                                              *)
Prepare ==
  /\ at = "locked"
  /\ Ensured(request.ttl)
  /\ sbx' = sandbox'
  /\ owed' = request.ttl
  /\ disturbed' = (deleter # "none")
  /\ state' = "running"
  /\ at' = "loop"
  /\ UNCHANGED <<input, deletion, next, deadline, outcome, failure, result,
                 process, writer, trouble>>

PrepareFails ==
  /\ at = "locked"
  /\ Fault
  /\ state' = "failed"
  /\ at' = "over"
  /\ UNCHANGED <<input, place, deletion, lease, next, sbx, deadline, outcome,
                 failure, result, process, writer>>

FreshWriter == taken' = 0 /\ buf' = <<>> /\ truncated' = FALSE

(* Docker is asked for the container itself, Kubernetes for whatever pod   *)
(* has the name.                                                           *)
Reachable == /\ sandbox # 0
             /\ ~stopped
             /\ backend = "docker" => sandbox = sbx

Return(code, err) == /\ outcome' = [code |-> code, err |-> err]
                     /\ deadline' = 0
                     /\ at' = "returned"

(* The process starts, with new writers.                                   *)
StartCommand ==
  /\ at = "loop" /\ next \in Commands /\ ~Denied(next)
  /\ Reachable
  /\ process' = [process EXCEPT ![next].stage = "running",
                                ![next].inside = sandbox]
  /\ FreshWriter
  /\ at' = "streaming"
  /\ UNCHANGED <<input, place, deletion, lease, next, sbx, deadline, outcome,
                 record, trouble>>

(* Neither created nor attached to: nothing has been executed.             *)
StartFails ==
  /\ at = "loop" /\ next \in Commands /\ ~Denied(next)
  /\ IF Reachable THEN Fault ELSE UNCHANGED trouble
  /\ Return(0, TRUE)
  /\ FreshWriter
  /\ UNCHANGED <<input, place, deletion, lease, next, sbx, record,
                 process>>

(* A fault: the connection does not end, and delivers nothing more. Nobody *)
(* puts an end to that: the context is context.Background().               *)
StreamHangs ==
  /\ Fault
  /\ at = "streaming" /\ ~process[next].hung
  /\ process' = [process EXCEPT ![next].hung = TRUE]
  /\ UNCHANGED <<input, place, deletion, lease, loop, sbx, deadline, outcome,
                 record, writer>>

(* The end of the output: nobody has it open any more, and what was        *)
(* printed has come.                                                       *)
AllDelivered == taken = process[next].printed /\ ~process[next].hung

(* Docker: the output has ended, or the connection has; StdCopy's error is *)
(* dropped either way. The process may still run. The deadline is exceeded *)
(* when more than MaxWait has passed.                                      *)
DockerStreamEnds ==
  /\ backend = "docker"
  /\ at = "streaming"
  /\ \/ AllDelivered /\ UNCHANGED <<process, trouble>>
     \/ Fault /\ process' = [process EXCEPT ![next].cut = TRUE]
  /\ at' = "waiting"
  /\ deadline' = MaxWait + 1
  /\ UNCHANGED <<input, place, deletion, lease, next, sbx, outcome, record,
                 writer>>

(* A mistake: what happened until then is not asked for.                   *)
InspectOnce ==
  /\ at = "waiting"
  /\ Return(process[next].code, FALSE)
  /\ UNCHANGED <<input, place, deletion, lease, next, sbx, record,
                 process, writer, trouble>>

(* A mistake: to run out of patience is not an error.                      *)
InspectForgivesDelay ==
  /\ at = "waiting"
  /\ \/ ~Running(next)
     \/ Running(next) /\ deadline = 0
  /\ Return(process[next].code, FALSE)
  /\ UNCHANGED <<input, place, deletion, lease, next, sbx, record,
                 process, writer, trouble>>

(* waitDockerExec polls: until the process has ended, until the inspection *)
(* fails, as it does once the container is removed, or for MaxWait.        *)
Inspect ==
  /\ at = "waiting"
  /\ \/ /\ ~Running(next)
        /\ sandbox = process[next].inside
        /\ Return(process[next].code, FALSE)
        /\ UNCHANGED <<process, trouble>>
     \/ /\ IF sandbox = process[next].inside THEN Fault ELSE UNCHANGED trouble
        /\ Return(0, TRUE)
        /\ process' = [process EXCEPT ![next].left = "uninspected"]
     \/ /\ Running(next) /\ deadline = 0
        /\ Return(0, TRUE)
        /\ process' = [process EXCEPT ![next].left = "overdue"]
        /\ UNCHANGED trouble
  /\ UNCHANGED <<input, place, deletion, lease, next, sbx, record,
                 writer>>

(* Kubernetes: the stream ends with the process and carries its exit code, *)
(* which is read from the error; any other error is returned.              *)
KubernetesStreamEnds ==
  /\ backend = "kubernetes"
  /\ at = "streaming"
  /\ \/ /\ ~Running(next) /\ AllDelivered
        /\ Return(process[next].code, FALSE)
        /\ UNCHANGED <<process, trouble>>
     \/ /\ Fault
        /\ Return(0, TRUE)
        /\ process' = [process EXCEPT ![next].cut = TRUE]
  /\ UNCHANGED <<input, place, deletion, lease, next, sbx, record,
                 writer>>
-----------------------------------------------------------------------------
(***************************************************************************)
(* The result is recorded field by field, without m.mu.                    *)
(***************************************************************************)

RecordStep(r) ==
  /\ result' = [result EXCEPT ![next] = r]
  /\ UNCHANGED <<input, place, deletion, lease, sbx, deadline, state, process,
                 trouble>>

TimedOut == ~outcome.err /\ outcome.code \in {124, 137}

Status == IF TimedOut THEN "timed_out"
          ELSE IF outcome.err \/ outcome.code # 0 THEN "failed" ELSE "completed"

(* A mistake: the status is stored before the text is.                     *)
RecordFlagsAndStatus ==
  /\ at = "returned" /\ at' = "storing"
  /\ RecordStep([result[next] EXCEPT !.code = outcome.code,
                                     !.truncated = truncated, !.text = Torn,
                                     !.endedAt = Torn, !.status = Status])
  /\ UNCHANGED <<next, failure, outcome, writer>>

(* First numbers and flags; then the text and the time of the end, which   *)
(* are more than one word.                                                 *)
RecordFlags ==
  /\ at = "returned" /\ at' = "storing"
  /\ RecordStep([result[next] EXCEPT !.code = outcome.code,
                                     !.truncated = truncated, !.text = Torn,
                                     !.endedAt = Torn])
  /\ UNCHANGED <<next, failure, outcome, writer>>

RecordText ==
  /\ at = "storing" /\ at' = "stored"
  /\ RecordStep([result[next] EXCEPT !.text = buf, !.endedAt = "set"])
  /\ UNCHANGED <<next, failure, outcome, writer>>

(* A mistake: the loop goes on behind a failure that is to stop the run.   *)
RecordStatusGoesOn ==
  LET fails == Status # "completed" /\ ~request.commands[next].allowFailure
  IN  /\ at = "stored" /\ at' = "loop" /\ next' = next + 1
      /\ RecordStep([result[next] EXCEPT !.status = Status])
      /\ failure' = (failure \/ fails)
      /\ outcome' = NoOutcome /\ FreshWriter

(* Then the status, and whether the loop goes on. What execCommand has     *)
(* returned is forgotten.                                                  *)
RecordStatus ==
  LET fails == Status # "completed" /\ ~request.commands[next].allowFailure
  IN  /\ at = "stored"
      /\ RecordStep([result[next] EXCEPT !.status = Status])
      /\ failure' = (failure \/ fails)
      /\ outcome' = NoOutcome /\ FreshWriter
      /\ IF fails /\ ~request.continueOnError
         THEN at' = "failing" /\ UNCHANGED next
         ELSE at' = "loop" /\ next' = next + 1

(* A denied command is not executed, and ends the run. Its status comes    *)
(* first: then the time of its end, and then its exit code.                *)
Deny ==
  /\ at = "loop" /\ at' = "refusing"
  /\ next \in Commands /\ Denied(next)
  /\ RecordStep([result[next] EXCEPT !.status = "failed", !.endedAt = Torn])
  /\ UNCHANGED <<next, failure, outcome, writer>>

RefusalEnds ==
  /\ at = "refusing" /\ at' = "refused"
  /\ RecordStep([result[next] EXCEPT !.endedAt = "set"])
  /\ UNCHANGED <<next, failure, outcome, writer>>

RefusalCoded ==
  /\ at = "refused" /\ at' = "failing"
  /\ RecordStep([result[next] EXCEPT !.code = 1])
  /\ UNCHANGED <<next, failure, outcome, writer>>

Conclude(from, to, s) ==
  /\ at = from /\ at' = to
  /\ state' = s
  /\ UNCHANGED <<input, place, deletion, lease, next, sbx, deadline, outcome,
                 failure, result, process, writer, trouble>>

(* failRun, under m.mu: the run has ended, its artifacts are still to come.*)
FailRun == Conclude("failing", "extracting", "failed")

LoopEnds == next \notin Commands /\ Conclude("loop", "extracting", state)

(* After the artifacts: the end of a run that did not fail before.         *)
Settle == Conclude("extracting", "over",
            IF state = "failed" \/ failure THEN "failed" ELSE "completed")
-----------------------------------------------------------------------------
Goroutine ==
  \/ Prepare \/ StartCommand \/ StartFails \/ DockerStreamEnds \/ Inspect
  \/ KubernetesStreamEnds \/ RecordFlags \/ RecordText \/ RecordStatus
  \/ Deny \/ RefusalEnds \/ RefusalCoded
  \/ FailRun \/ LoopEnds \/ Settle

Deletion == Stop \/ Remove

Sandbox == OtherEnsure \/ OtherDelete \/ Look \/ Deletion \/ Tick
Process == \E i \in Commands : Exit(i) \/ Expire(i) \/ FallSilent(i)

(* While executeRun records a result, what happens in the sandbox commutes *)
(* with its steps: it is enough to let it happen before or afterwards.     *)
Recording ==
  at \in {"returned", "storing", "stored", "refusing", "refused", "failing",
          "extracting", "over"}

Next ==
  \/ ~Recording /\ \/ Sandbox \/ Process \/ Deliver \/ StreamHangs
                   \/ PrepareFails
  \/ Goroutine

(* The goroutine is scheduled; time passes, and time limits are kept; what *)
(* a stream has is delivered, unless it hangs; a deletion that was begun   *)
(* goes on. Nobody has to exit, to close its output, to poll, to reap, or  *)
(* to make trouble. That the other calls of the runtime return is assumed: *)
(* those that prepare a run have a deadline, the inspections have none.    *)
Fairness ==
  /\ WF_vars(Goroutine)
  /\ WF_vars(Tick)
  /\ WF_vars(\E i \in Commands : Expire(i))
  /\ WF_vars(Deliver)
  /\ WF_vars(Deletion)

Spec == Init /\ [][Next]_vars /\ Fairness
-----------------------------------------------------------------------------
TypeOK ==
  /\ request \in Requests /\ backend \in Backends
  /\ {sandbox, created, remaining, victim, sbx, deadline, taken, owed, trouble}
       \subseteq Nat
  /\ {stopped, failure, truncated, disturbed} \subseteq BOOLEAN
  /\ deleter \in {"none", "stop", "remove"}
  /\ at \in Places
  /\ next \in 1 .. Len(request.commands) + 1
  /\ outcome \in [code : Nat, err : BOOLEAN]
  /\ state \in {"queued", "running"} \cup Settled
  /\ result \in [Commands -> [ status    : Statuses,
                               code      : Nat,
                               text      : Seq(Nat) \cup {Torn},
                               truncated : BOOLEAN,
                               endedAt   : {"unset", "set", Torn} ]]
  /\ process \in [Commands ->
       [ stage : Stages, ran : Nat, code : Nat, printed : Nat \cup {None},
         inside : Nat, hung : BOOLEAN, cut : BOOLEAN,
         left : {"no", "uninspected", "overdue"} ]]
  /\ buf \in Seq(Nat)

Least(m, n) == IF m < n THEN m ELSE n

(* What is captured of an output is its first bytes, without a gap, as     *)
(* many as the limit admits, and it is marked if and only if some came     *)
(* that are not in it (eventWriter.Write).                                 *)
CapturedPrefix ==
  /\ buf = [k \in 1 .. Least(taken, MaxBytes) |-> k]
  /\ truncated <=> taken > MaxBytes

(* The status of a command says what has become of its process: completed, *)
(* it has ended well; timed out, it was killed, after all the time that it *)
(* was given or together with its sandbox, or it has ended by itself with  *)
(* a code that timeout(1) uses (manager.go:436); failed, it has ended      *)
(* badly, or was denied, or could not be started or followed to its end.   *)
(* The exit code beside it is that of the process.                         *)
StatusTrue(i) ==
  LET p == process[i]
      status == result[i].status
  IN  /\ status = "completed" => p.stage = "exited" /\ p.code = 0
      /\ status = "timed_out" =>
           \/ p.stage = "killed"
           \/ p.stage = "expired" /\ p.ran >= Asked(i)
           \/ p.stage = "exited" /\ p.code \in {124, 137}
      /\ status \in {"completed", "timed_out"} => result[i].code = p.code
      /\ status = "failed" =>
           \/ p.stage = "none"
           \/ p.stage = "exited" /\ p.code # 0
           \/ p.left # "no"
           \/ p.cut /\ backend = "kubernetes"

(* A status tells what became of the process: StatusTrue for each command. *)
StatusIsTrue == \A i \in Commands : StatusTrue(i)

Whole(i) ==
  result[i].status = "completed" /\ ~process[i].cut =>
    Len(result[i].text) = IF result[i].truncated
                          THEN MaxBytes ELSE process[i].printed

(* The result of a command that completed has all of its output, or is     *)
(* marked as truncated and has as much as the limit admits. The exception: *)
(* Docker's stream broke off; its error is dropped (docker_executor.go:53).*)
WholeOrMarked == \A i \in Commands : Whole(i)

\* Kubernetes loses the connection, Docker cannot be asked, or the command
\* was given more time than waitDockerExec has (docker_executor.go:55).
Excused(i) ==
  \/ backend = "kubernetes" /\ process[i].cut
  \/ process[i].left = "uninspected"
  \/ process[i].left = "overdue" /\ Limit(i) > MaxWait

(* A command is started when the one before has ended, but for the three   *)
(* ways to lose sight of it in Excused (manager.go:288-329). (What it has  *)
(* left behind may go on once it has closed the output.)                   *)
OneAtATime ==
  \A i, j \in Commands :
    i < j /\ Running(i) /\ process[j].stage # "none" => Excused(i)

(* All commands of a run execute in the container that it was given, or,   *)
(* on Kubernetes, in one that has taken its name later. (SandboxIds and    *)
(* OnlyStarted say why: containers are numbered, and a process is started  *)
(* by the iteration of the loop that it belongs to.)                       *)
Started(i) == process[i].stage # "none"

OneSandbox ==
  \A i, j \in Commands :
    i <= j /\ Started(i) /\ Started(j) =>
      /\ sbx <= process[i].inside /\ process[i].inside <= process[j].inside
      /\ backend = "docker" => process[j].inside = sbx

SandboxIds == /\ sandbox \in {0, created}
              /\ sbx <= created
              /\ \A i \in Commands : process[i].inside <= created

Executing == {"streaming", "waiting", "returned", "storing", "stored"}

OnlyStarted ==
  /\ at = "locked" => next = 1
  /\ at \in Executing => next \in Commands
  /\ at \in {"locked", "loop"} => \A i \in Commands : Started(i) => i < next
  /\ \A i \in Commands : Started(i) => i <= next

(* Get copies run.State under m.mu and then encodes, without it, the       *)
(* structures that executeRun writes: of each command first the status,    *)
(* then the rest. So once the run has ended, or a command has a status,    *)
(* the rest must be there, and stay (manager.go:568; tools.go:9: poll      *)
(* until the state is completed or failed). ResultsInOrder says why it is  *)
(* so: nothing is recorded but by the loop, before the status.             *)
(*                                                                         *)
(* The exception is a denied command, whose status is stored first         *)
(* (manager.go:297-299): until the run has ended too, a client that reads  *)
(* `failed' may read no exit code, and no end or half of one, beside it.   *)
Told(i) == state \in Settled \/ result[i].status # "queued"

MayBeRevised(i) == Denied(i) /\ state \notin Settled

(* A command has the time of its end if and only if it has a status.       *)
Timed(i) ==
  result[i].endedAt = IF result[i].status = "queued" THEN "unset" ELSE "set"

ToldIsWhole ==
  \A i \in Commands : Told(i) =>
    /\ result[i].text # Torn
    /\ MayBeRevised(i) \/ Timed(i)

ToldIsFinal ==
  [][\A i \in Commands : Told(i) =>
       \/ result'[i] = result[i]
       \/ /\ MayBeRevised(i)
          /\ result'[i] = [result[i] EXCEPT !.code    = result'[i].code,
                                           !.endedAt = result'[i].endedAt]]_vars

Refusing == {"refusing", "refused"}

ResultsInOrder ==
  /\ state \in Settled => at \in {"extracting", "over"}
  /\ at \in {"locked", "loop"} \cup Executing =>
       \A i \in Commands : i >= next => result[i].status = "queued"
  /\ at \in Refusing => /\ next \in Commands /\ Denied(next)
                        /\ result[next].status = "failed"
  /\ at = "stored" => result[next].endedAt = "set"
  /\ \A i \in Commands :
       /\ result[i].text = Torn => at = "storing" /\ i = next
       /\ ~Timed(i) => at \in {"storing", "stored", "refusing"} /\ i = next

(* The inductive invariant.                                                *)
IInv == /\ TypeOK
        /\ CapturedPrefix
        /\ ResultsInOrder /\ ToldIsWhole
        /\ SandboxIds /\ OnlyStarted /\ OneSandbox

(* The sandbox of a run that executes is there until the time is over that *)
(* the run has asked for, unless another request has asked for less or for *)
(* its deletion, or a deletion was under way when the run got it.          *)
TakenForCause ==
  at \in {"loop", "streaming", "waiting"} /\ ~disturbed /\ owed > 0 =>
    sandbox = sbx /\ ~stopped

(* The run as the command loop that it is to be. (The request has been     *)
(* accepted.)                                                              *)
AsPromised(q) ==
  [ commands |-> [i \in DOMAIN q.commands |->
                    [denied       |-> q.commands[i].denied,
                     allowFailure |-> q.commands[i].allowFailure]],
    continueOnError |-> q.continueOnError ]

LoopPhase == CASE at = "locked" -> "before"
               [] at = "loop" -> "loop"
               [] at \in Executing -> "executing"
               [] OTHER -> "past"

Promise == INSTANCE CommandLoop
             WITH Requests <- {AsPromised(q) : q \in Requests},
                  request  <- AsPromised(request),
                  phase    <- LoopPhase,
                  status   <- [i \in Commands |-> result[i].status],
                  failed   <- (\/ failure \/ state = "failed"
                               \/ at \in Refusing \cup {"failing"}),
                  state    <- state

(* The executors keep what the loop promises (CommandLoop), although a     *)
(* command has many steps here: a result comes once, in turn, after the    *)
(* command was handed to the sandbox, and the verdict follows from the     *)
(* results (manager.go:288-386).                                           *)
LoopAsPromised == Promise!Spec

(* The stream is waited for, and nobody ends it: the command is over, but  *)
(* something that it has left behind has its output open, which timeout(1) *)
(* does not watch any more; or the connection hangs.                       *)
Stuck == /\ at = "streaming"
         /\ Lingers(next) \/ process[next].hung

(* The commands of a run come to an end since their time is limited        *)
(* (manager.go:417), and so does the run, unless it is Stuck for ever: a   *)
(* stream is read to its end without a deadline (docker_executor.go:53,    *)
(* kubernetes_executor.go:53; the context is context.Background()).        *)
CommandsReturn == <>(at = "over") \/ <>[]Stuck
=============================================================================
