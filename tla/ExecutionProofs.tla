-------------------------- MODULE ExecutionProofs ---------------------------
(***************************************************************************)
(* For every request, every limit and every behaviour of backend, reaper   *)
(* and other requests: what is captured of an output is its beginning,     *)
(* what a client was told of a command is complete and final, and the      *)
(* commands of a run execute in one sandbox; further, what is told of a    *)
(* command is true of its process, commands do not overlap without excuse, *)
(* and nobody takes the sandbox away without cause.                        *)
(***************************************************************************)
EXTENDS Execution, SequenceTheorems, TLAPS

SafetySpec == Init /\ [][Next]_vars

ProcessType ==
  [ stage : Stages, ran : Nat, code : Nat, printed : Nat \cup {None},
    inside : Nat, hung : BOOLEAN, cut : BOOLEAN,
    left : {"no", "uninspected", "overdue"} ]

ResultType ==
  [ status : Statuses, code : Nat, text : Seq(Nat) \cup {Torn},
    truncated : BOOLEAN, endedAt : {"unset", "set", Torn} ]

(* A request has at least one command, and their outputs and time limits   *)
(* are numbers (types.go:80-88).                                           *)
LEMMA RequestTypes ==
  ASSUME TypeOK
  PROVE  /\ request.commands \in Seq(Command)
         /\ Len(request.commands) \in Nat \ {0}
         /\ Commands = 1 .. Len(request.commands)
         /\ \A i \in Commands : /\ request.commands[i].output \in Nat
                                /\ request.commands[i].timeout \in Nat
                                /\ request.commands[i].allowFailure \in BOOLEAN
         /\ request.ttl \in Nat
<1>1. request \in [ commands : Seq(Command) \ {<<>>},
                    continueOnError : BOOLEAN, ttl : Nat \ {0} ]
  BY RequestsAssumption DEF TypeOK
<1>2. /\ request.commands \in Seq(Command) /\ request.commands # <<>>
      /\ request.ttl \in Nat
  BY <1>1
<1>3. Len(request.commands) \in Nat \ {0} /\ Commands = 1 .. Len(request.commands)
  BY <1>2, LenProperties, EmptySeq DEF Commands
<1>4. \A i \in Commands : request.commands[i] \in Command
  BY <1>2, <1>3, ElementOfSeq
<1> QED
  BY <1>2, <1>3, <1>4 DEF Command

(* What may have been printed is a number (docker_executor.go:53-80).      *)
LEMMA CanPrintTypes ==
  ASSUME TypeOK, NEW i \in Commands
  PROVE  CanPrint(i) \subseteq Nat
<1>1. request.commands[i].output \in Nat
  BY RequestTypes
<1>2. taken \in Nat
  BY DEF TypeOK
<1>3. CASE i = next /\ process[i].printed = None
  <2>1. CanPrint(i) = taken .. request.commands[i].output
    BY <1>3 DEF CanPrint
  <2> QED
    BY <1>1, <1>2, <2>1
<1>4. CASE ~(i = next /\ process[i].printed = None)
  BY <1>1, <1>4 DEF CanPrint
<1> QED
  BY <1>3, <1>4

(* A process that ends is a process, in the sandbox in which it was        *)
(* started.                                                                *)
LEMMA EndedTypes ==
  ASSUME TypeOK, NEW i \in Commands, NEW stage \in Stages \ {"none"},
         NEW code \in Nat, NEW printed \in Nat \cup {None}
  PROVE  /\ Ended(i, stage, code, printed) \in ProcessType
         /\ Ended(i, stage, code, printed).stage = stage
         /\ Ended(i, stage, code, printed).inside = process[i].inside
<1>1. process[i] \in ProcessType
  BY DEF TypeOK, ProcessType, Commands
<1> QED
  BY <1>1 DEF Ended, ProcessType

(* No process is in another sandbox than before, and none is new.          *)
SameProcesses ==
  \A i \in Commands : /\ Started(i)' <=> Started(i)
                      /\ process'[i].inside = process[i].inside

ProcessesOK == process \in [Commands -> ProcessType]

(* To kill everything in a container neither starts nor moves a process    *)
(* (sandbox/manager.go:156-161).                                           *)
LEMMA KillAllTypes ==
  ASSUME TypeOK, request' = request, NEW c, KillAll(c)
  PROVE  ProcessesOK' /\ SameProcesses
<1>1. Commands' = Commands
  BY DEF Commands
<1>2. PICK printed \in [Commands -> UNION {CanPrint(i) : i \in Commands}] :
        /\ \A i \in Commands : printed[i] \in CanPrint(i)
        /\ process' = [i \in Commands |->
             IF process[i].inside # c THEN process[i]
             ELSE IF Running(i) THEN Ended(i, "killed", 137, printed[i])
             ELSE IF Lingers(i) THEN [process[i] EXCEPT !.printed = printed[i]]
             ELSE process[i]]
  BY DEF KillAll
<1>3. \A i \in Commands : process[i] \in ProcessType
  BY DEF TypeOK, ProcessType, Commands
<1>4. ASSUME NEW i \in Commands
      PROVE  /\ process'[i] \in ProcessType
             /\ process'[i].stage # "none" <=> process[i].stage # "none"
             /\ process'[i].inside = process[i].inside
  <2>1. PICK n \in Nat : n = printed[i]
    BY <1>2, CanPrintTypes
  <2>2. PICK p \in ProcessType : p = process[i]
    BY <1>3
  <2>3. CASE process'[i] = process[i]
    BY <2>2, <2>3 DEF Started
  <2>4. CASE Running(i) /\ process'[i] = Ended(i, "killed", 137, printed[i])
    <3>1. "killed" \in Stages \ {"none"} /\ 137 \in Nat
      BY DEF Stages
    <3>2. /\ Ended(i, "killed", 137, n) \in ProcessType
          /\ Ended(i, "killed", 137, n).stage = "killed"
          /\ Ended(i, "killed", 137, n).inside = process[i].inside
      BY <3>1, EndedTypes
    <3> QED
      BY <2>1, <2>4, <3>2 DEF Started, Running
  <2>5. CASE process'[i] = [process[i] EXCEPT !.printed = printed[i]]
    <3>1. process'[i] = [p EXCEPT !.printed = n]
      BY <2>1, <2>2, <2>5
    <3>2. /\ process'[i] \in ProcessType
          /\ process'[i].stage = p.stage /\ process'[i].inside = p.inside
      BY <3>1 DEF ProcessType
    <3> QED
      BY <2>2, <3>2 DEF Started
  <2> QED
    BY <1>2, <2>3, <2>4, <2>5
<1>5. process' = [i \in Commands |-> process'[i]]
  BY <1>2
<1>6. \A i \in Commands : process'[i] \in ProcessType
  BY <1>4
<1>7. ProcessesOK'
  <2> DEFINE P == ProcessType
  <2>1. \A i \in Commands : process'[i] \in P
    BY <1>6
  <2> HIDE DEF P
  <2>2. process' \in [Commands -> P]
    BY <1>5, <2>1
  <2> QED
    BY <1>1, <2>2 DEF ProcessesOK, P
<1>8. \A i \in Commands : process'[i].inside = process[i].inside
  BY <1>4
<1>9. \A i \in Commands :
        process'[i].stage # "none" <=> process[i].stage # "none"
  BY <1>4
<1>10. SameProcesses
  BY <1>8, <1>9 DEF SameProcesses, Started
<1> QED
  BY <1>7, <1>10

(* The types of everything but the processes, the results and the buffer.  *)
Scalars ==
  /\ request \in Requests /\ backend \in Backends
  /\ sandbox \in Nat /\ created \in Nat /\ remaining \in Nat /\ victim \in Nat
  /\ sbx \in Nat /\ deadline \in Nat /\ taken \in Nat /\ owed \in Nat
  /\ trouble \in Nat
  /\ stopped \in BOOLEAN /\ failure \in BOOLEAN /\ truncated \in BOOLEAN
  /\ disturbed \in BOOLEAN
  /\ deleter \in {"none", "stop", "remove"}
  /\ at \in Places
  /\ next \in 1 .. Len(request.commands) + 1
  /\ outcome \in [code : Nat, err : BOOLEAN]
  /\ state \in {"queued", "running"} \cup Settled

ResultsOK == result \in [Commands -> ResultType]

(* TypeOK, in parts.                                                       *)
LEMMA TypesInParts ==
  TypeOK <=> Scalars /\ ProcessesOK /\ ResultsOK /\ buf \in Seq(Nat)
  BY DEF TypeOK, Scalars, ProcessesOK, ResultsOK, ProcessType, ResultType

(* ... and after a step.                                                   *)
LEMMA NewTypesInParts ==
  TypeOK' <=> Scalars' /\ ProcessesOK' /\ ResultsOK' /\ buf' \in Seq(Nat)
<1>1. TypeOK' <=> (Scalars /\ ProcessesOK /\ ResultsOK /\ buf \in Seq(Nat))'
  BY TypesInParts, PTL
<1> QED
  BY <1>1

(* What Ensure leaves behind is well typed (sandbox/manager.go:90-130).    *)
LEMMA EnsuredTypes ==
  ASSUME TypeOK, NEW ttl \in Nat, Ensured(ttl)
  PROVE  /\ stopped' = FALSE /\ remaining' = ttl
         /\ sandbox' \in Nat /\ created' \in Nat
         /\ sandbox \in {0, created} => sandbox' = created'
         /\ created <= created'
  BY SMTT(20) DEF Ensured, TypeOK

(* The environment of the goroutine keeps the types, and does not touch    *)
(* what the goroutine records.                                             *)
LEMMA SandboxTypes ==
  ASSUME TypeOK, Sandbox
  PROVE  /\ TypeOK' /\ SameProcesses
         /\ UNCHANGED <<input, created>> \/ OtherEnsure
         /\ UNCHANGED <<input, loop, sbx, record, outcome, writer>>
<1> USE DEF input, place, deletion, lease, loop, record, writer
<1>0. Scalars /\ ProcessesOK /\ ResultsOK /\ buf \in Seq(Nat)
  BY TypesInParts
<1>1. CASE OtherEnsure
  <2>1. PICK ttl \in OtherTTLs :
          Ensured(ttl) /\ disturbed' = (disturbed \/ ttl < owed)
    BY <1>1 DEF OtherEnsure
  <2>2. ttl \in Nat
    BY WorldAssumption
  <2>3. /\ stopped' \in BOOLEAN /\ remaining' \in Nat
        /\ sandbox' \in Nat /\ created' \in Nat /\ disturbed' \in BOOLEAN
    BY <2>1, <2>2, EnsuredTypes
  <2>4. /\ UNCHANGED <<input, deletion, owed, loop, sbx, deadline, outcome,
                       record, process, writer>>
        /\ trouble' = trouble + 1
    BY <1>1 DEF OtherEnsure, Fault
  <2>5. Scalars'
    BY <1>0, <2>3, <2>4 DEF Scalars
  <2>6. ProcessesOK' /\ ResultsOK' /\ buf' \in Seq(Nat)
    BY <1>0, <2>4 DEF ProcessesOK, ResultsOK, Commands
  <2>7. SameProcesses
    BY <2>4 DEF SameProcesses, Started
  <2> QED
    BY <1>1, <2>4, <2>5, <2>6, <2>7, NewTypesInParts
<1>2. CASE OtherDelete \/ Look
  <2>1. /\ UNCHANGED <<input, place, victim, remaining, owed, loop, sbx,
                       deadline, outcome, record, process, writer>>
        /\ deleter' = "stop" /\ disturbed' \in BOOLEAN /\ trouble' \in Nat
    <3>1. disturbed \in BOOLEAN /\ trouble \in Nat
      BY <1>0 DEF Scalars
    <3>2. CASE OtherDelete
      BY <3>1, <3>2 DEF OtherDelete, Fault
    <3>3. CASE Look
      BY <3>1, <3>3 DEF Look
    <3> QED
      BY <1>2, <3>2, <3>3
  <2>2. Scalars'
    BY <1>0, <2>1 DEF Scalars
  <2>3. ProcessesOK' /\ ResultsOK' /\ buf' \in Seq(Nat)
    BY <1>0, <2>1 DEF ProcessesOK, ResultsOK, Commands
  <2>4. SameProcesses
    BY <2>1 DEF SameProcesses, Started
  <2> QED
    BY <2>1, <2>2, <2>3, <2>4, NewTypesInParts
<1>3. CASE Deletion
  <2>1. ProcessesOK' /\ SameProcesses
    <3>1. CASE \E c : KillAll(c)
      BY <1>3, <3>1, KillAllTypes DEF Deletion, Stop, Remove
    <3>2. CASE process' = process
      BY <1>0, <1>3, <3>2
         DEF Deletion, Stop, Remove, ProcessesOK, SameProcesses, Started, Commands
    <3> QED
      BY <1>3, <3>1, <3>2 DEF Deletion, Stop, Remove
  <2>2. /\ UNCHANGED <<input, created, lease, loop, sbx, deadline, outcome,
                       record, writer, trouble>>
        /\ deleter' \in {"none", "remove"} /\ victim' \in {victim, sandbox, 0}
        /\ sandbox' \in {sandbox, 0}
        /\ stopped' \in BOOLEAN
    BY <1>0, <1>3 DEF Deletion, Stop, Remove, Scalars
  <2>3. Scalars'
    BY <1>0, <2>2 DEF Scalars
  <2>4. ResultsOK' /\ buf' \in Seq(Nat)
    BY <1>0, <2>2 DEF ResultsOK, Commands
  <2> QED
    BY <2>1, <2>2, <2>3, <2>4, NewTypesInParts
<1>4. CASE Tick
  <2>1. \A i \in Commands : process[i] \in ProcessType
    BY <1>0 DEF ProcessesOK
  <2>2. \A i \in Commands : [process[i] EXCEPT !.ran = @ + 1] \in ProcessType
    BY <2>1 DEF ProcessType
  <2>3. ProcessesOK' /\ SameProcesses
    BY <1>4, <2>1, <2>2
       DEF Tick, ProcessesOK, SameProcesses, Started, Commands, ProcessType
  <2>a. {Less(remaining), Less(owed), Less(deadline)} \subseteq Nat
    BY <1>0 DEF Less, Scalars
  <2>b. Scalars'
    BY <1>0, <1>4, <2>a DEF Tick, Scalars
  <2>4. Scalars' /\ ResultsOK' /\ buf' \in Seq(Nat)
    BY <1>0, <1>4, <2>b DEF Tick, ResultsOK, Commands
  <2> QED
    BY <1>4, <2>3, <2>4, NewTypesInParts DEF Tick
<1> QED
  BY <1>1, <1>2, <1>3, <1>4 DEF Sandbox, Deletion

(* So do the processes (docker_executor.go:33-51).                         *)
LEMMA ProcessTypes ==
  ASSUME TypeOK, Process
  PROVE  /\ TypeOK' /\ SameProcesses
         /\ UNCHANGED <<input, place, loop, sbx, record, outcome, writer>>
<1> USE DEF input, place, deletion, lease, loop, record, writer
<1>0. Scalars /\ ProcessesOK /\ ResultsOK /\ buf \in Seq(Nat)
  BY TypesInParts
<1>1. PICK i \in Commands : Exit(i) \/ Expire(i) \/ FallSilent(i)
  BY DEF Process
<1>2. PICK p \in ProcessType :
        /\ p.stage # "none" /\ p.inside = process[i].inside
        /\ process[i].stage # "none"
        /\ ProcessStep(i, p)
  <2>1. CASE Exit(i)
    <3>1. PICK code \in {0, 1, 124}, n \in {request.commands[i].output, None} :
            ProcessStep(i, Ended(i, "exited", code, n))
      BY <2>1 DEF Exit
    <3>2. /\ "exited" \in Stages \ {"none"} /\ code \in Nat
          /\ n \in Nat \cup {None}
      BY <3>1, RequestTypes DEF Stages
    <3> DEFINE q == Ended(i, "exited", code, n)
    <3>3. q \in ProcessType /\ q.stage = "exited" /\ q.inside = process[i].inside
      BY <3>2, EndedTypes
    <3>4. process[i].stage # "none"
      BY <2>1 DEF Exit, Running
    <3> HIDE DEF q
    <3> QED
      BY <3>1, <3>3, <3>4 DEF q
  <2>2. CASE Expire(i)
    <3>1. PICK n \in CanPrint(i) \cup {None} :
            ProcessStep(i, Ended(i, "expired", 137, n))
      BY <2>2 DEF Expire
    <3>2. "expired" \in Stages \ {"none"} /\ 137 \in Nat /\ n \in Nat \cup {None}
      BY CanPrintTypes DEF Stages
    <3>3. process[i].stage # "none"
      BY <2>2 DEF Expire, Running
    <3> QED
      BY <3>1, <3>2, <3>3, EndedTypes
  <2>3. CASE FallSilent(i)
    <3> DEFINE q == [process[i] EXCEPT !.printed = request.commands[i].output]
    <3>1. process[i] \in ProcessType
      BY <1>0 DEF ProcessesOK
    <3>2. q \in ProcessType /\ q.stage = process[i].stage
          /\ q.inside = process[i].inside
      BY <3>1, RequestTypes DEF ProcessType
    <3>3. ProcessStep(i, q) /\ process[i].stage # "none"
      BY <2>3 DEF FallSilent, Running, Lingers
    <3> QED
      BY <3>2, <3>3
  <2> QED
    BY <1>1, <2>1, <2>2, <2>3
<1>3. process[i].stage # "none" /\ process' = [process EXCEPT ![i] = p]
  BY <1>2 DEF ProcessStep
<1>4. ProcessesOK'
  BY <1>0, <1>2, <1>3 DEF ProcessStep, ProcessesOK, Commands
<1>5. SameProcesses
  BY <1>0, <1>2, <1>3 DEF ProcessStep, ProcessesOK, SameProcesses, Started, Commands
<1>6. Scalars' /\ ResultsOK' /\ buf' \in Seq(Nat)
  BY <1>0, <1>2 DEF ProcessStep, Scalars, ResultsOK, Commands
<1> QED
  BY <1>2, <1>4, <1>5, <1>6, NewTypesInParts DEF ProcessStep

(* A number of ascending numbers is a sequence of numbers.                 *)
LEMMA Ascending ==
  ASSUME NEW m \in Nat, NEW n \in Nat
  PROVE  /\ [k \in 1 .. n |-> m + k] \in Seq(Nat)
         /\ Len([k \in 1 .. n |-> m + k]) = n
         /\ [k \in 1 .. n |-> k] \in Seq(Nat)
         /\ Len([k \in 1 .. n |-> k]) = n
<1>1. [k \in 1 .. n |-> m + k] \in [1 .. n -> Nat]
  OBVIOUS
<1>2. [k \in 1 .. n |-> k] \in [1 .. n -> Nat]
  OBVIOUS
<1> QED
  BY <1>1, <1>2

(* A Write keeps the captured bytes the beginning of the output, and marks *)
(* them exactly when one was left out (manager.go:464-493).                *)
LEMMA WriteKeepsPrefix ==
  ASSUME Scalars, buf \in Seq(Nat), CapturedPrefix, NEW n \in Nat \ {0},
         Write(n), taken' = taken + n
  PROVE  /\ buf' \in Seq(Nat) /\ truncated' \in BOOLEAN
         /\ CapturedPrefix'
<1> DEFINE L == Least(taken, MaxBytes)
           room == MaxBytes - Len(buf)
           kept == IF n > room THEN room ELSE n
           more == [k \in 1 .. kept |-> taken + k]
           M == Least(taken + n, MaxBytes)
<1>1. taken \in Nat /\ MaxBytes \in Nat /\ L \in Nat /\ M \in Nat
  BY ConfigAssumption DEF Scalars, Least
<1>2. buf = [k \in 1 .. L |-> k] /\ Len(buf) = L
  BY <1>1, Ascending DEF CapturedPrefix
<1>3. kept \in Nat /\ L + kept = M /\ (kept # 0 => L = taken)
  BY <1>1, <1>2 DEF Least
<1>4. more \in Seq(Nat) /\ Len(more) = kept
  <2> HIDE DEF kept
  <2> QED
    BY <1>1, <1>3, Ascending
<1>5. buf' = buf \o more /\ truncated' = (truncated \/ n > room)
  BY DEF Write
<1>6. /\ buf' \in Seq(Nat) /\ Len(buf') = M
      /\ \A i \in 1 .. M : buf'[i] = IF i <= L THEN buf[i] ELSE more[i - L]
  <2> HIDE DEF more, kept, L, M
  <2>1. /\ buf \o more \in Seq(Nat)
        /\ Len(buf \o more) = Len(buf) + Len(more)
        /\ \A i \in 1 .. Len(buf) + Len(more) :
             (buf \o more)[i] = IF i <= Len(buf) THEN buf[i] ELSE more[i - Len(buf)]
    BY <1>4, ConcatProperties
  <2>2. Len(buf) = L /\ Len(more) = kept /\ L + kept = M /\ buf' = buf \o more
    BY <1>2, <1>3, <1>4, <1>5
  <2> QED
    BY <2>1, <2>2
<1>7. \A i \in 1 .. M : buf'[i] = i
  <2> SUFFICES ASSUME NEW i \in 1 .. M PROVE buf'[i] = i
    OBVIOUS
  <2>1. CASE i <= L
    <3> HIDE DEF L, M, room, kept, more
    <3>1. i \in 1 .. L /\ buf'[i] = buf[i]
      BY <1>1, <1>6, <2>1
    <3>2. buf[i] = i
      BY <1>2, <3>1
    <3> QED
      BY <3>1, <3>2
  <2>2. CASE i > L
    <3>1. i - L \in 1 .. kept /\ L = taken
      BY <1>1, <1>3, <2>2
    <3>2. more[i - L] = taken + (i - L)
      BY <3>1
    <3> HIDE DEF more, kept, L, M
    <3> QED
      BY <1>1, <1>6, <2>2, <3>1, <3>2
  <2> QED
    BY <1>1, <2>1, <2>2
<1>8. buf' = [k \in 1 .. M |-> k]
  <2> DEFINE p == [k \in 1 .. M |-> k]
  <2>1. p \in Seq(Nat) /\ Len(p) = M
    BY <1>1, Ascending
  <2>2. \A i \in 1 .. M : p[i] = i
    OBVIOUS
  <2> HIDE DEF p, M
  <2>3. \A i \in 1 .. Len(buf') : buf'[i] = p[i]
    BY <1>6, <1>7, <2>2
  <2>4. buf' = p
    BY <1>6, <2>1, <2>3, SeqEqual
  <2> QED
    BY <2>4 DEF p
<1>9. truncated' <=> taken + n > MaxBytes
  <2>1. truncated <=> taken > MaxBytes
    BY DEF CapturedPrefix
  <2>2. n > room <=> taken + n > MaxBytes
    BY <1>1, <1>2 DEF Least
  <2>3. taken > MaxBytes => taken + n > MaxBytes
    BY <1>1
  <2> HIDE DEF room
  <2> QED
    BY <1>5, <2>1, <2>2, <2>3
<1>10. truncated' \in BOOLEAN
  BY <1>5
<1>11. CapturedPrefix'
  BY <1>8, <1>9 DEF CapturedPrefix, Least
<1> QED
  BY <1>6, <1>10, <1>11

(* A new writer has captured nothing of nothing (manager.go:405-412).      *)
LEMMA FreshWriterKeepsPrefix ==
  ASSUME FreshWriter
  PROVE  /\ buf' \in Seq(Nat) /\ taken' \in Nat /\ truncated' \in BOOLEAN
         /\ CapturedPrefix'
<1>1. Least(0, MaxBytes) = 0 /\ ~(0 > MaxBytes)
  BY ConfigAssumption DEF Least
<1>2. <<>> = [k \in 1 .. 0 |-> k] /\ <<>> \in Seq(Nat)
  BY Ascending, EmptySeq
<1>3. buf' = [k \in 1 .. Least(taken', MaxBytes) |-> k]
  BY <1>1, <1>2 DEF FreshWriter
<1>4. truncated' <=> taken' > MaxBytes
  BY <1>1 DEF FreshWriter
<1> QED
  BY <1>2, <1>3, <1>4 DEF FreshWriter, CapturedPrefix

(* Where the steps of the goroutine lead to (manager.go:197-394).          *)
Moves ==
  \/ at = "locked" /\ at' = "loop" /\ next' = next
  \/ at = "loop" /\ at' = "returned" /\ next' = next /\ next \in Commands
  \/ at = "locked" /\ at' = "over" /\ next' = next
  \/ at = "loop" /\ at' = "extracting" /\ next' = next
  \/ at \in {"streaming", "waiting"} /\ at' \in {"streaming", "waiting", "returned"}
       /\ next' = next
  \/ at = "failing" /\ at' = "extracting" /\ next' = next
  \/ at = "extracting" /\ at' = "over" /\ next' = next

(* A step that starts nothing and records nothing: the rest of the         *)
(* invariant only asks where it leads to.                                  *)
LEMMA MovesKeepOrder ==
  ASSUME IInv, TypeOK', Moves, UNCHANGED <<request, result>>, SameProcesses,
         state' \in Settled => at' \in {"extracting", "over"}
  PROVE  ResultsInOrder' /\ OnlyStarted'
<1>1. Commands' = Commands
  BY DEF Commands
<1>2. next \in Nat
  BY DEF IInv, TypeOK
<1>3. OnlyStarted'
  BY <1>1, <1>2 DEF IInv, OnlyStarted, Moves, SameProcesses, Executing
<1>4. ResultsInOrder'
  <2>1. \A i \in Commands : Timed(i)' <=> Timed(i)
    BY DEF Timed
  <2> QED
    BY <1>1, <1>2, <2>1 DEF IInv, ResultsInOrder, Moves, Executing, Refusing
<1> QED
  BY <1>3, <1>4

(* While nothing starts and the run keeps its container, commands are      *)
(* where they were.                                                        *)
LEMMA PlacesKept ==
  ASSUME IInv, SameProcesses, UNCHANGED <<request, backend, sbx>>,
         sandbox' \in {0, created'}, created \in Nat, created' \in Nat,
         created <= created'
  PROVE  SandboxIds' /\ OneSandbox'
<1>1. Commands' = Commands /\ Commands \subseteq Nat
  BY RequestTypes DEF Commands, IInv
<1>2. sbx \in Nat /\ \A i \in Commands : process[i].inside \in Nat
  BY TypesInParts DEF IInv, Scalars, ProcessesOK, ProcessType
<1>3. SandboxIds'
  <2>1. sbx <= created /\ sbx' = sbx
    BY DEF IInv, SandboxIds
  <2>2. sbx' <= created'
    BY <1>2, <2>1
  <2>3. ASSUME NEW i \in Commands PROVE process'[i].inside <= created'
    <3>1. process[i].inside <= created /\ process[i].inside \in Nat
      BY <1>2 DEF IInv, SandboxIds
    <3>2. process'[i].inside = process[i].inside
      BY DEF SameProcesses
    <3> QED
      BY <3>1, <3>2
  <2> QED
    BY <1>1, <2>2, <2>3 DEF SandboxIds
<1>4. OneSandbox'
  BY <1>1 DEF IInv, OneSandbox, SameProcesses
<1> QED
  BY <1>3, <1>4

(* What is recorded in order is whole when it is told (manager.go:314-337). *)
LEMMA OrderMakesWhole == ResultsInOrder /\ next \in Nat => ToldIsWhole
<1> SUFFICES ASSUME ResultsInOrder, next \in Nat, NEW i \in Commands, Told(i)
             PROVE  /\ result[i].text # Torn
                    /\ MayBeRevised(i) \/ Timed(i)
  BY DEF ToldIsWhole
<1>1. ASSUME at \in {"storing", "stored"}, i = next PROVE FALSE
  <2>1. state \notin Settled
    BY <1>1 DEF ResultsInOrder
  <2>2. result[i].status = "queued"
    BY <1>1 DEF ResultsInOrder, Executing
  <2> QED
    BY <2>1, <2>2 DEF Told
<1>2. at = "refusing" /\ i = next => MayBeRevised(i)
  BY DEF ResultsInOrder, MayBeRevised, Refusing
<1> QED
  BY <1>1, <1>2 DEF ResultsInOrder

(* ... after a step as before it.                                          *)
LEMMA OrderMakesWholeNext == ResultsInOrder' /\ TypeOK' => ToldIsWhole'
<1>1. ResultsInOrder /\ TypeOK => ToldIsWhole
  BY OrderMakesWhole DEF TypeOK
<1> QED
  BY <1>1, PTL

(* What the goroutine does to the process of its command, other than       *)
(* starting it, is to note how it lost sight of it.                        *)
Noted ==
  \/ process' = process
  \/ process' = [process EXCEPT ![next].hung = TRUE]
  \/ process' = [process EXCEPT ![next].cut = TRUE]
  \/ process' = [process EXCEPT ![next].left = "uninspected"]
  \/ process' = [process EXCEPT ![next].left = "overdue"]

(* That neither starts nor moves it (docker_executor.go:53-80).            *)
LEMMA NotedTypes ==
  ASSUME TypeOK, request' = request, Noted
  PROVE  ProcessesOK' /\ SameProcesses
<1>1. Commands' = Commands
  BY DEF Commands
<1>2. process \in [Commands -> ProcessType]
  BY TypesInParts DEF ProcessesOK
<1>3. CASE process' = process
  BY <1>1, <1>2, <1>3 DEF ProcessesOK, SameProcesses, Started
<1>4. CASE process' = [process EXCEPT ![next].cut = TRUE]
  BY ZenonT(60), <1>1, <1>2, <1>4
     DEF ProcessesOK, ProcessType, SameProcesses, Started
<1>5. CASE process' = [process EXCEPT ![next].left = "uninspected"]
  BY ZenonT(60), <1>1, <1>2, <1>5
     DEF ProcessesOK, ProcessType, SameProcesses, Started
<1>6. CASE process' = [process EXCEPT ![next].left = "overdue"]
  BY ZenonT(60), <1>1, <1>2, <1>6
     DEF ProcessesOK, ProcessType, SameProcesses, Started
<1>7. CASE process' = [process EXCEPT ![next].hung = TRUE]
  BY ZenonT(60), <1>1, <1>2, <1>7
     DEF ProcessesOK, ProcessType, SameProcesses, Started
<1> QED
  BY <1>3, <1>4, <1>5, <1>6, <1>7 DEF Noted

(* A writer that is not written to keeps its prefix.                       *)
LEMMA WriterKept ==
  ASSUME IInv, UNCHANGED writer
  PROVE  /\ buf' \in Seq(Nat) /\ taken' \in Nat /\ truncated' \in BOOLEAN
         /\ CapturedPrefix'
<1>1. taken' = taken /\ buf' = buf
  BY DEF writer
<1>2. truncated' = truncated
  BY DEF writer
<1>3. truncated \in BOOLEAN /\ taken \in Nat /\ buf \in Seq(Nat)
  BY TypesInParts DEF IInv, Scalars
<1>4. CapturedPrefix
  BY DEF IInv
<1>5. CapturedPrefix'
  BY <1>1, <1>2, <1>4 DEF CapturedPrefix, Least
<1> QED
  BY <1>1, <1>2, <1>3, <1>5

(* The steps of the loop that lead on without starting or recording        *)
(* anything (manager.go:265-284, 363-394; docker_executor.go:53-80;        *)
(* kubernetes_executor.go:53-61).                                          *)
LEMMA QuietSteps ==
  ASSUME IInv,
         \/ PrepareFails \/ StartFails \/ StreamHangs \/ DockerStreamEnds
         \/ Inspect \/ KubernetesStreamEnds \/ FailRun \/ LoopEnds \/ Settle
  PROVE  IInv'
<1>0. Scalars /\ ProcessesOK /\ ResultsOK /\ buf \in Seq(Nat)
  BY TypesInParts DEF IInv
<1>1. UNCHANGED <<input, place, deletion, lease, next, sbx, failure, result>>
  BY DEF PrepareFails, StartFails, StreamHangs, DockerStreamEnds, Inspect,
         KubernetesStreamEnds, FailRun, LoopEnds, Settle, Conclude, loop, record
<1>2. Noted
  BY DEF PrepareFails, StartFails, StreamHangs, DockerStreamEnds, Inspect,
         KubernetesStreamEnds, FailRun, LoopEnds, Settle, Conclude, Noted
<1>3. UNCHANGED writer \/ FreshWriter
  BY DEF PrepareFails, StartFails, StreamHangs, DockerStreamEnds, Inspect,
         KubernetesStreamEnds, FailRun, LoopEnds, Settle, Conclude
<1>4. /\ trouble' \in {trouble, trouble + 1}
      /\ deadline' \in {deadline, 0, MaxWait + 1}
  BY DEF PrepareFails, StartFails, StreamHangs, DockerStreamEnds, Inspect,
         Fault, Return,
         KubernetesStreamEnds, FailRun, LoopEnds, Settle, Conclude
<1>5. /\ Moves
      /\ state' \in {state, "completed", "failed"}
      /\ state' \in Settled => at' \in {"extracting", "over"}
  <2>1. CASE PrepareFails
    BY <1>1, <2>1 DEF PrepareFails, Moves
  <2>2. CASE FailRun \/ Settle
    BY <1>1, <2>2 DEF FailRun, Settle, Conclude, Moves
  <2>3. CASE LoopEnds
    BY <1>1, <2>3 DEF LoopEnds, Conclude, Moves
  <2>4. CASE \/ StartFails \/ StreamHangs \/ DockerStreamEnds \/ Inspect
             \/ KubernetesStreamEnds
    <3>1. state' = state
      BY <2>4 DEF StartFails, StreamHangs, DockerStreamEnds, Inspect,
                  KubernetesStreamEnds, record
    <3>2. at \in {"loop", "streaming", "waiting"}
      BY <2>4 DEF StartFails, StreamHangs, DockerStreamEnds, Inspect,
                  KubernetesStreamEnds
    <3>3. state \notin Settled
      BY <3>2 DEF IInv, ResultsInOrder
    <3>4. Moves
      BY <1>1, <2>4 DEF StartFails, StreamHangs, DockerStreamEnds, Inspect,
                        Return, KubernetesStreamEnds, Moves, loop
    <3> QED
      BY <3>1, <3>3, <3>4
  <2> QED
    BY <2>1, <2>2, <2>3, <2>4
<1>6. outcome' \in [code : Nat, err : BOOLEAN]
  <2>1. CASE outcome' = outcome
    BY <1>0, <2>1 DEF Scalars
  <2>2. CASE \E code \in Nat, err \in BOOLEAN : Return(code, err)
    BY <2>2 DEF Return
  <2>3. CASE (Inspect \/ KubernetesStreamEnds) /\ next \in Commands
    <3>1. process[next].code \in Nat
      BY <1>0, <2>3 DEF ProcessesOK, ProcessType
    <3> QED
      BY <2>2, <2>3, <3>1 DEF Inspect, KubernetesStreamEnds
  <2>4. Inspect \/ KubernetesStreamEnds => next \in Commands
    BY DEF Inspect, KubernetesStreamEnds, IInv, OnlyStarted, Executing
  <2> QED
    BY <2>1, <2>2, <2>3, <2>4
       DEF PrepareFails, StartFails, StreamHangs, DockerStreamEnds, FailRun,
           LoopEnds, Settle, Conclude
<1>7. /\ buf' \in Seq(Nat) /\ taken' \in Nat /\ truncated' \in BOOLEAN
      /\ CapturedPrefix'
  BY <1>3, WriterKept, FreshWriterKeepsPrefix
<1>8. at' \in Places
  BY <1>5 DEF Moves, Places
<1>9. UNCHANGED <<stopped, failure, disturbed>>
  BY <1>1 DEF place, lease
<1>10. UNCHANGED <<request, backend, sandbox, created, deleter, victim,
                   remaining, owed, next, sbx, result>>
  BY <1>1 DEF input, place, deletion, lease
<1>11. trouble' \in Nat /\ deadline' \in Nat
  BY <1>0, <1>4, ConfigAssumption DEF Scalars
<1>12. state' \in {"queued", "running"} \cup Settled
  BY <1>0, <1>5 DEF Scalars, Settled
<1>13. Scalars'
  BY <1>0, <1>6, <1>7, <1>8, <1>9, <1>10, <1>11, <1>12 DEF Scalars
<1>14. ProcessesOK' /\ SameProcesses
  BY <1>2, <1>10, NotedTypes DEF IInv
<1>15. ResultsOK'
  BY <1>0, <1>10 DEF ResultsOK, Commands
<1>16. TypeOK'
  BY <1>7, <1>13, <1>14, <1>15, NewTypesInParts
<1>17. ResultsInOrder' /\ OnlyStarted'
  BY <1>5, <1>10, <1>14, <1>16, MovesKeepOrder
<1>18. SandboxIds' /\ OneSandbox'
  <2>1. sandbox' \in {0, created'} /\ created \in Nat /\ created' \in Nat
        /\ created <= created'
    BY <1>0, <1>10 DEF Scalars, IInv, SandboxIds
  <2> QED
    BY <1>10, <1>14, <2>1, PlacesKept
<1> QED
  BY <1>7, <1>16, <1>17, <1>18, OrderMakesWholeNext DEF IInv

(* The run gets its container, in which nothing of it executes yet         *)
(* (manager.go:213-263).                                                   *)
LEMMA PrepareStep ==
  ASSUME IInv, Prepare
  PROVE  IInv'
<1>0. Scalars /\ ProcessesOK /\ ResultsOK /\ buf \in Seq(Nat)
  BY TypesInParts DEF IInv
<1>1. /\ UNCHANGED <<request, backend, deleter, victim, next, deadline, outcome,
                     result, process, trouble>>
      /\ UNCHANGED failure
      /\ UNCHANGED writer
  BY DEF Prepare, input, deletion
<1>2. /\ at = "locked" /\ at' = "loop" /\ state' = "running"
      /\ sbx' = sandbox' /\ owed' = request.ttl
      /\ disturbed' = (deleter # "none")
  BY DEF Prepare
<1>3. /\ request.ttl \in Nat /\ stopped' = FALSE /\ remaining' = request.ttl
      /\ sandbox' \in Nat /\ created' \in Nat
      /\ sandbox' = created' /\ created <= created'
  <2>1. request.ttl \in Nat
    BY RequestTypes DEF IInv
  <2>2. Ensured(request.ttl) /\ sandbox \in {0, created}
    BY DEF Prepare, IInv, SandboxIds
  <2> QED
    BY <2>1, <2>2, EnsuredTypes DEF IInv
<1>4. /\ buf' \in Seq(Nat) /\ taken' \in Nat /\ truncated' \in BOOLEAN
      /\ CapturedPrefix'
  BY <1>1, WriterKept
<1>5. disturbed' \in BOOLEAN
  BY <1>2
<1>6. failure' \in BOOLEAN
  BY <1>0, <1>1 DEF Scalars
<1>7. stopped' \in BOOLEAN
  BY <1>3
<1>8. at' \in Places /\ state' \in {"queued", "running"} \cup Settled
  BY <1>2 DEF Places
<1>9. Scalars'
  BY <1>0, <1>1, <1>2, <1>3, <1>4, <1>5, <1>6, <1>7, <1>8 DEF Scalars
<1>10. ProcessesOK' /\ ResultsOK' /\ SameProcesses
  BY <1>0, <1>1 DEF ProcessesOK, ResultsOK, SameProcesses, Started, Commands
<1>11. TypeOK'
  BY <1>4, <1>9, <1>10, NewTypesInParts
<1>12. ResultsInOrder' /\ OnlyStarted'
  <2>1. Moves
    BY <1>1, <1>2 DEF Moves
  <2> QED
    BY <1>1, <1>2, <1>10, <1>11, <2>1, MovesKeepOrder DEF Settled
<1>13. \A i \in Commands : ~Started(i)
  <2>1. next = 1 /\ \A i \in Commands : Started(i) => i < next
    BY <1>2 DEF IInv, OnlyStarted
  <2>2. Commands = 1 .. Len(request.commands)
    BY RequestTypes DEF IInv
  <2> QED
    BY <2>1, <2>2
<1>14. Commands' = Commands /\ \A i \in Commands : ~Started(i)'
  BY <1>1, <1>10, <1>13 DEF Commands, SameProcesses
<1>15. OneSandbox'
  BY <1>14 DEF OneSandbox
<1>16. SandboxIds'
  <2>1. \A i \in Commands : process[i].inside \in Nat
    BY <1>0 DEF ProcessesOK, ProcessType
  <2>2. created \in Nat /\ \A i \in Commands : process[i].inside <= created
    BY <1>0 DEF Scalars, IInv, SandboxIds
  <2>3. \A i \in Commands : process'[i].inside <= created'
    BY <1>1, <1>3, <2>1, <2>2
  <2> QED
    BY <1>2, <1>3, <1>14, <2>3 DEF SandboxIds
<1> QED
  BY <1>4, <1>11, <1>12, <1>15, <1>16, OrderMakesWholeNext DEF IInv

(* A command starts where the run is, and those before it are not          *)
(* elsewhere, or in an older container (docker_executor.go:33-51;          *)
(* kubernetes_executor.go:33-53).                                          *)
LEMMA StartCommandStep ==
  ASSUME IInv, StartCommand
  PROVE  IInv'
<1>0. Scalars /\ ProcessesOK /\ ResultsOK /\ buf \in Seq(Nat)
  BY TypesInParts DEF IInv
<1>1. /\ UNCHANGED <<request, backend, sandbox, created, deleter, victim,
                     remaining, owed, next, sbx, deadline, outcome, state,
                     result, trouble>>
      /\ UNCHANGED <<stopped, disturbed, failure>>
  BY DEF StartCommand, input, place, deletion, lease, record
<1>2. /\ at = "loop" /\ next \in Commands /\ at' = "streaming"
      /\ Reachable /\ FreshWriter
      /\ process' = [process EXCEPT ![next].stage = "running",
                                    ![next].inside = sandbox]
  BY DEF StartCommand
<1>3. /\ buf' \in Seq(Nat) /\ taken' \in Nat /\ truncated' \in BOOLEAN
      /\ CapturedPrefix'
  BY <1>2, FreshWriterKeepsPrefix
<1>4. Scalars'
  BY <1>0, <1>1, <1>2, <1>3 DEF Scalars, Places
<1>5. Commands' = Commands /\ Commands \subseteq Nat
  BY <1>1, RequestTypes DEF Commands, IInv
<1>6. sandbox = created /\ created \in Nat /\ sbx \in Nat
      /\ (backend = "docker" => sandbox = sbx)
  BY <1>0, <1>2 DEF Scalars, Reachable, IInv, SandboxIds
<1>7. /\ process' \in [Commands -> ProcessType]
      /\ process'[next].stage = "running" /\ process'[next].inside = sandbox
      /\ \A i \in Commands \ {next} : process'[i] = process[i]
  <2>1. process \in [Commands -> ProcessType] /\ sandbox \in Nat
    BY <1>0, <1>6 DEF ProcessesOK
  <2>2. PICK p \in ProcessType : p = process[next]
    BY <1>2, <2>1
  <2>3. PICK n \in Nat : n = sandbox
    BY <2>1
  <2> DEFINE q == [p EXCEPT !.stage = "running", !.inside = n]
  <2>4. q \in ProcessType /\ q.stage = "running" /\ q.inside = n
    BY DEF ProcessType, Stages
  <2>5. process' = [process EXCEPT ![next] = q]
    BY <1>2, <2>1, <2>2, <2>3
  <2> HIDE DEF q
  <2> QED
    BY <1>2, <2>1, <2>3, <2>4, <2>5
<1>8. ProcessesOK' /\ ResultsOK'
  BY <1>0, <1>1, <1>5, <1>7 DEF ProcessesOK, ResultsOK
<1>9. TypeOK'
  BY <1>3, <1>4, <1>8, NewTypesInParts
<1>10. \A i \in Commands : Started(i) => i < next
  BY <1>2 DEF IInv, OnlyStarted
<1>11. next \in Nat /\ \A i \in Commands : Started(i)' => Started(i) \/ i = next
  BY <1>2, <1>5, <1>7 DEF Started
<1>12. OnlyStarted'
  BY <1>1, <1>2, <1>5, <1>10, <1>11 DEF OnlyStarted, Executing
<1>13. ResultsInOrder'
  <2>1. \A i \in Commands : Timed(i)' <=> Timed(i)
    BY <1>1 DEF Timed
  <2> QED
    BY <1>1, <1>2, <1>5, <2>1 DEF IInv, ResultsInOrder, Executing, Refusing
<1>14. \A i \in Commands : /\ process[i].inside \in Nat
                            /\ process[i].inside <= created
  BY <1>0 DEF ProcessesOK, ProcessType, IInv, SandboxIds
<1>15. SandboxIds'
  BY <1>1, <1>5, <1>6, <1>7, <1>14 DEF IInv, SandboxIds
<1>16. OneSandbox'
  <2> SUFFICES ASSUME NEW i \in Commands, NEW j \in Commands,
                      i <= j, Started(i)', Started(j)'
               PROVE  /\ sbx <= process'[i].inside
                      /\ process'[i].inside <= process'[j].inside
                      /\ backend = "docker" => process'[j].inside = sbx
    BY <1>1, <1>5 DEF OneSandbox
  <2>1. sbx <= created
    BY DEF IInv, SandboxIds
  <2>2. CASE i = next /\ j = next
    BY <1>6, <1>7, <2>1, <2>2
  <2>3. CASE i = next /\ j # next
    <3>1. Started(j)
      BY <1>11, <2>3
    <3>2. j < next /\ i <= j /\ i \in Nat /\ j \in Nat
      BY <1>5, <1>10, <3>1
    <3> QED
      BY <2>3, <3>2
  <2>4. CASE i # next /\ j = next
    <3>1. Started(i)
      BY <1>11, <2>4
    <3>2. sbx <= process[i].inside
      BY <1>5, <3>1 DEF IInv, OneSandbox
    <3> QED
      BY <1>6, <1>7, <1>14, <2>4, <3>2
  <2>5. CASE i # next /\ j # next
    BY <1>7, <1>11, <2>5 DEF IInv, OneSandbox
  <2> QED
    BY <2>2, <2>3, <2>4, <2>5
<1> QED
  BY <1>3, <1>9, <1>12, <1>13, <1>15, <1>16, OrderMakesWholeNext DEF IInv

(* A chunk of output (docker_executor.go:53; manager.go:464-493).          *)
LEMMA DeliverStep ==
  ASSUME IInv, Deliver
  PROVE  IInv'
<1>0. Scalars /\ ProcessesOK /\ ResultsOK /\ buf \in Seq(Nat)
  BY TypesInParts DEF IInv
<1>1. /\ UNCHANGED <<request, backend, sandbox, created, deleter, victim,
                     remaining, owed, at, next, sbx, deadline, outcome, state,
                     result, process, trouble>>
      /\ UNCHANGED <<stopped, disturbed, failure>>
  BY DEF Deliver, input, place, deletion, lease, loop, record
<1>2. PICK n \in Chunks : Write(n) /\ taken' = taken + n
  BY DEF Deliver
<1>3. n \in Nat \ {0} /\ taken \in Nat
  BY <1>0, WorldAssumption DEF Scalars
<1>4. buf' \in Seq(Nat) /\ truncated' \in BOOLEAN /\ CapturedPrefix'
  BY <1>0, <1>2, <1>3, WriteKeepsPrefix DEF IInv
<1>5. taken' \in Nat
  BY <1>2, <1>3
<1>6. Scalars'
  BY <1>0, <1>1, <1>4, <1>5 DEF Scalars
<1>7. ProcessesOK' /\ ResultsOK' /\ SameProcesses /\ Commands' = Commands
  BY <1>0, <1>1 DEF ProcessesOK, ResultsOK, SameProcesses, Started, Commands
<1>8. TypeOK'
  BY <1>4, <1>6, <1>7, NewTypesInParts
<1>9. ResultsInOrder' /\ OnlyStarted'
  BY <1>1, <1>7
     DEF IInv, ResultsInOrder, Timed, Denied, OnlyStarted, Started, Executing
<1>10. SandboxIds' /\ OneSandbox'
  BY <1>1, <1>7 DEF IInv, SandboxIds, OneSandbox, Started
<1> QED
  BY <1>4, <1>8, <1>9, <1>10, OrderMakesWholeNext DEF IInv

(* A part of a result is recorded while nobody is told of it               *)
(* (manager.go:314-330).                                                   *)
LEMMA RecordPartStep ==
  ASSUME IInv, RecordFlags \/ RecordText
  PROVE  IInv'
<1>0. Scalars /\ ProcessesOK /\ ResultsOK /\ buf \in Seq(Nat)
  BY TypesInParts DEF IInv
<1>1. /\ UNCHANGED <<request, backend, sandbox, created, deleter, victim,
                     remaining, owed, next, sbx, deadline, outcome, state,
                     process, trouble>>
      /\ UNCHANGED <<stopped, disturbed, failure>>
      /\ UNCHANGED writer
  BY DEF RecordFlags, RecordText, RecordStep, input, place, deletion, lease
<1>2. /\ at \in {"returned", "storing"} /\ at' \in {"storing", "stored"}
      /\ next \in Commands
  BY DEF RecordFlags, RecordText, IInv, OnlyStarted, Executing
<1>3. result[next] \in ResultType /\ result \in [Commands -> ResultType]
  BY <1>0, <1>2 DEF ResultsOK
<1>4. PICK r \in ResultType :
        /\ result' = [result EXCEPT ![next] = r]
        /\ r.status = result[next].status
        /\ r.text = Torn => at' = "storing"
        /\ at' = "stored" => r.endedAt = "set"
  <2>1. truncated \in BOOLEAN /\ outcome.code \in Nat
    BY <1>0 DEF Scalars
  <2>2. CASE RecordFlags
    <3> DEFINE q == [result[next] EXCEPT !.code = outcome.code,
                                      !.truncated = truncated, !.text = Torn,
                                      !.endedAt = Torn]
    <3>1. q \in ResultType /\ q.status = result[next].status
      BY <1>3, <2>1 DEF ResultType
    <3>2. result' = [result EXCEPT ![next] = q] /\ at' = "storing"
      BY <2>2 DEF RecordFlags, RecordStep
    <3> HIDE DEF q
    <3> QED
      BY <3>1, <3>2
  <2>3. CASE RecordText
    <3> DEFINE q == [result[next] EXCEPT !.text = buf, !.endedAt = "set"]
    <3>1. /\ q \in ResultType /\ q.status = result[next].status
          /\ q.text = buf /\ q.endedAt = "set"
      BY <1>0, <1>3 DEF ResultType
    <3>2. result' = [result EXCEPT ![next] = q] /\ buf # Torn
      BY <1>0, <2>3, ValuesAssumption DEF RecordText, RecordStep
    <3> HIDE DEF q
    <3> QED
      BY <3>1, <3>2
  <2> QED
    BY <2>2, <2>3
<1>5. Commands' = Commands /\ Commands \subseteq Nat /\ next \in Nat
  BY <1>1, <1>2, RequestTypes DEF Commands, IInv
<1>6. /\ result'[next] = r
      /\ \A i \in Commands \ {next} : result'[i] = result[i]
  BY <1>2, <1>3, <1>4
<1>7. /\ buf' \in Seq(Nat) /\ taken' \in Nat /\ truncated' \in BOOLEAN
      /\ CapturedPrefix'
  BY <1>1, WriterKept
<1>8. Scalars'
  BY <1>0, <1>1, <1>2, <1>7 DEF Scalars, Places
<1>9. ProcessesOK' /\ ResultsOK' /\ SameProcesses
  BY <1>0, <1>1, <1>3, <1>4, <1>5
     DEF ProcessesOK, ResultsOK, SameProcesses, Started
<1>10. TypeOK'
  BY <1>7, <1>8, <1>9, NewTypesInParts
<1>11. ResultsInOrder'
  <2>1. state' \notin Settled
    BY <1>1, <1>2 DEF IInv, ResultsInOrder
  <2>2. \A i \in Commands : i >= next => result[i].status = "queued"
    BY <1>2 DEF IInv, ResultsInOrder, Executing
  <2>3. \A i \in Commands : i >= next => result'[i].status = "queued"
    BY <1>2, <1>4, <1>5, <1>6, <2>2
  <2>4. \A i \in Commands : result'[i].text = Torn => at' = "storing" /\ i = next
    <3> SUFFICES ASSUME NEW i \in Commands, result'[i].text = Torn
                 PROVE  at' = "storing" /\ i = next
      OBVIOUS
    <3>1. CASE i = next
      BY <1>4, <1>6, <3>1
    <3>2. CASE i # next
      BY <1>6, <3>2 DEF IInv, ResultsInOrder
    <3> QED
      BY <3>1, <3>2
  <2>5. \A i \in Commands : Timed(i)' \/ i = next
    <3> SUFFICES ASSUME NEW i \in Commands, i # next PROVE Timed(i)'
      OBVIOUS
    <3>1. Timed(i) /\ result'[i] = result[i]
      BY <1>2, <1>6 DEF IInv, ResultsInOrder
    <3> QED
      BY <3>1 DEF Timed
  <2>6. at' = "stored" => result'[next].endedAt = "set"
    BY <1>4, <1>6
  <2> QED
    BY <1>1, <1>2, <1>5, <2>1, <2>3, <2>4, <2>5, <2>6 DEF ResultsInOrder, Refusing
<1>12. OnlyStarted'
  BY <1>1, <1>2, <1>5 DEF IInv, OnlyStarted, Started, Executing
<1>13. SandboxIds' /\ OneSandbox'
  BY <1>1, <1>5 DEF IInv, SandboxIds, OneSandbox, Started
<1> QED
  BY <1>7, <1>10, <1>11, <1>12, <1>13, OrderMakesWholeNext DEF IInv

(* The status is recorded last, and the loop leaves the command behind     *)
(* (manager.go:323-361).                                                   *)
LEMMA RecordStatusStep ==
  ASSUME IInv, RecordStatus
  PROVE  IInv'
<1>0. Scalars /\ ProcessesOK /\ ResultsOK /\ buf \in Seq(Nat)
  BY TypesInParts DEF IInv
<1>1. /\ UNCHANGED <<request, backend, sandbox, created, deleter, victim,
                     remaining, owed, sbx, deadline, state, process, trouble>>
      /\ UNCHANGED <<stopped, disturbed>>
      /\ FreshWriter
  BY DEF RecordStatus, RecordStep, input, place, deletion, lease
<1>2. /\ at = "stored" /\ next \in Commands
      /\ \/ at' = "failing" /\ next' = next
         \/ at' = "loop" /\ next' = next + 1
  BY DEF RecordStatus, IInv, OnlyStarted, Executing
<1>3. failure' \in BOOLEAN
  <2>1. failure' = (failure \/ (/\ Status # "completed"
                                /\ ~request.commands[next].allowFailure))
    BY DEF RecordStatus
  <2> QED
    BY <2>1
<1>4. outcome' \in [code : Nat, err : BOOLEAN]
  BY DEF RecordStatus, NoOutcome
<1>5. result[next] \in ResultType /\ result \in [Commands -> ResultType]
  BY <1>0, <1>2 DEF ResultsOK
<1>6. PICK r \in ResultType :
        /\ result' = [result EXCEPT ![next] = r]
        /\ r.text = result[next].text /\ r.endedAt = result[next].endedAt
        /\ r.status # "queued"
  <2>1. Status \in Statuses \ {"queued"}
    BY DEF Status, Statuses
  <2> DEFINE q == [result[next] EXCEPT !.status = Status]
  <2>2. /\ q \in ResultType /\ q.text = result[next].text
        /\ q.endedAt = result[next].endedAt /\ q.status # "queued"
    BY <1>5, <2>1 DEF ResultType
  <2>3. result' = [result EXCEPT ![next] = q]
    BY DEF RecordStatus, RecordStep
  <2> HIDE DEF q
  <2> QED
    BY <2>2, <2>3
<1>7. /\ Commands' = Commands /\ Commands = 1 .. Len(request.commands)
      /\ Len(request.commands) \in Nat /\ next \in Nat
  BY <1>1, <1>2, RequestTypes DEF Commands, IInv
<1>8. /\ result'[next] = r
      /\ \A i \in Commands \ {next} : result'[i] = result[i]
  BY <1>2, <1>5, <1>6
<1>9. /\ buf' \in Seq(Nat) /\ taken' \in Nat /\ truncated' \in BOOLEAN
      /\ CapturedPrefix'
  BY <1>1, FreshWriterKeepsPrefix
<1>10. next' \in 1 .. Len(request.commands) + 1
  BY <1>2, <1>7
<1>11. Scalars'
  BY <1>0, <1>1, <1>2, <1>3, <1>4, <1>9, <1>10 DEF Scalars, Places
<1>12. ProcessesOK' /\ ResultsOK'
  BY <1>0, <1>1, <1>5, <1>6, <1>7 DEF ProcessesOK, ResultsOK
<1>13. TypeOK'
  BY <1>9, <1>11, <1>12, NewTypesInParts
<1>14. /\ state \notin Settled
       /\ \A i \in Commands : i >= next => result[i].status = "queued"
       /\ \A i \in Commands : result[i].text # Torn
       /\ \A i \in Commands : Timed(i) \/ i = next
       /\ result[next].endedAt = "set"
  BY <1>2 DEF IInv, ResultsInOrder, Executing
<1>15. ResultsInOrder'
  <2>1. \A i \in Commands : result'[i].text # Torn
    BY <1>2, <1>6, <1>8, <1>14
  <2>2. at' = "loop" =>
          \A i \in Commands : i >= next' => result'[i].status = "queued"
    BY <1>2, <1>7, <1>8, <1>14
  <2>3. \A i \in Commands : Timed(i)'
    <3> SUFFICES ASSUME NEW i \in Commands PROVE Timed(i)'
      OBVIOUS
    <3>1. CASE i = next
      BY <1>6, <1>8, <1>14, <3>1 DEF Timed
    <3>2. CASE i # next
      BY <1>8, <1>14, <3>2 DEF Timed
    <3> QED
      BY <3>1, <3>2
  <2> QED
    BY <1>1, <1>2, <1>7, <1>14, <2>1, <2>2, <2>3
       DEF ResultsInOrder, Executing, Refusing
<1>16. OnlyStarted'
  <2>1. \A i \in Commands : Started(i) => i <= next
    BY DEF IInv, OnlyStarted
  <2> QED
    BY <1>1, <1>2, <1>7, <2>1 DEF OnlyStarted, Started, Executing
<1>17. SandboxIds' /\ OneSandbox'
  BY <1>1, <1>7 DEF IInv, SandboxIds, OneSandbox, Started
<1> QED
  BY <1>9, <1>13, <1>15, <1>16, <1>17, OrderMakesWholeNext DEF IInv

(* A denied command gets its status, then the time of its end, then its    *)
(* exit code, and the run is about to end (manager.go:296-302).            *)
LEMMA RefusalStep ==
  ASSUME IInv, Deny \/ RefusalEnds \/ RefusalCoded
  PROVE  IInv'
<1>0. Scalars /\ ProcessesOK /\ ResultsOK /\ buf \in Seq(Nat)
  BY TypesInParts DEF IInv
<1>1. /\ UNCHANGED <<request, backend, sandbox, created, deleter, victim,
                     remaining, owed, next, sbx, deadline, outcome, state,
                     process, trouble>>
      /\ UNCHANGED <<stopped, disturbed, failure>>
      /\ UNCHANGED writer
  BY DEF Deny, RefusalEnds, RefusalCoded, RecordStep, input, place, deletion,
         lease
<1>2. /\ next \in Commands /\ Denied(next)
      /\ \/ at = "loop" /\ at' = "refusing"
         \/ at = "refusing" /\ at' = "refused"
         \/ at = "refused" /\ at' = "failing"
  BY DEF Deny, RefusalEnds, RefusalCoded, IInv, ResultsInOrder, Refusing
<1>3. result[next] \in ResultType /\ result \in [Commands -> ResultType]
  BY <1>0, <1>2 DEF ResultsOK
<1>4. PICK r \in ResultType :
        /\ result' = [result EXCEPT ![next] = r]
        /\ r.status = "failed" /\ r.text = result[next].text
        /\ at' = "refusing" \/ r.endedAt = "set"
  <2>1. CASE Deny
    <3> DEFINE q == [result[next] EXCEPT !.status = "failed", !.endedAt = Torn]
    <3>1. q \in ResultType /\ q.status = "failed" /\ q.text = result[next].text
      BY <1>3 DEF ResultType, Statuses
    <3>2. result' = [result EXCEPT ![next] = q] /\ at' = "refusing"
      BY <2>1 DEF Deny, RecordStep
    <3> HIDE DEF q
    <3> QED
      BY <3>1, <3>2
  <2>2. CASE RefusalEnds
    <3> DEFINE q == [result[next] EXCEPT !.endedAt = "set"]
    <3>1. result[next].status = "failed"
      BY <2>2 DEF RefusalEnds, IInv, ResultsInOrder, Refusing
    <3>2. /\ q \in ResultType /\ q.status = "failed"
          /\ q.text = result[next].text /\ q.endedAt = "set"
      BY <1>3, <3>1 DEF ResultType
    <3>3. result' = [result EXCEPT ![next] = q]
      BY <2>2 DEF RefusalEnds, RecordStep
    <3> HIDE DEF q
    <3> QED
      BY <3>2, <3>3
  <2>3. CASE RefusalCoded
    <3> DEFINE q == [result[next] EXCEPT !.code = 1]
    <3>1. result[next].status = "failed" /\ Timed(next)
      BY <1>2, <2>3 DEF RefusalCoded, IInv, ResultsInOrder, Refusing
    <3>2. /\ q \in ResultType /\ q.status = "failed"
          /\ q.text = result[next].text /\ q.endedAt = "set"
      BY <1>3, <3>1 DEF ResultType, Timed
    <3>3. result' = [result EXCEPT ![next] = q]
      BY <2>3 DEF RefusalCoded, RecordStep
    <3> HIDE DEF q
    <3> QED
      BY <3>2, <3>3
  <2> QED
    BY <2>1, <2>2, <2>3
<1>5. Commands' = Commands /\ Commands \subseteq Nat /\ next \in Nat
  BY <1>1, <1>2, RequestTypes DEF Commands, IInv
<1>6. /\ result'[next] = r
      /\ \A i \in Commands \ {next} : result'[i] = result[i]
  BY <1>2, <1>3, <1>4
<1>7. /\ buf' \in Seq(Nat) /\ taken' \in Nat /\ truncated' \in BOOLEAN
      /\ CapturedPrefix'
  BY <1>1, WriterKept
<1>8. Scalars'
  BY <1>0, <1>1, <1>2, <1>7 DEF Scalars, Places
<1>9. ProcessesOK' /\ ResultsOK' /\ SameProcesses
  BY <1>0, <1>1, <1>3, <1>4, <1>5
     DEF ProcessesOK, ResultsOK, SameProcesses, Started
<1>10. TypeOK'
  BY <1>7, <1>8, <1>9, NewTypesInParts
<1>11. ResultsInOrder'
  <2>1. state' \notin Settled
    BY <1>1, <1>2 DEF IInv, ResultsInOrder
  <2>2. /\ \A i \in Commands : result[i].text # Torn
        /\ \A i \in Commands : Timed(i) \/ i = next
    BY <1>2 DEF IInv, ResultsInOrder
  <2>3. \A i \in Commands : result'[i].text # Torn
    BY <1>2, <1>4, <1>6, <2>2
  <2>4. \A i \in Commands : Timed(i)' \/ (i = next /\ at' = "refusing")
    <3> SUFFICES ASSUME NEW i \in Commands, ~(i = next /\ at' = "refusing")
                 PROVE  Timed(i)'
      OBVIOUS
    <3>1. CASE i = next
      BY <1>4, <1>6, <3>1 DEF Timed
    <3>2. CASE i # next
      BY <1>6, <2>2, <3>2 DEF Timed
    <3> QED
      BY <3>1, <3>2
  <2>5. Denied(next)' /\ result'[next].status = "failed"
    BY <1>1, <1>2, <1>4, <1>6 DEF Denied
  <2> QED
    BY <1>1, <1>2, <1>5, <2>1, <2>3, <2>4, <2>5
       DEF ResultsInOrder, Executing, Refusing
<1>12. OnlyStarted'
  <2>1. \A i \in Commands : Started(i) => i <= next
    BY DEF IInv, OnlyStarted
  <2> QED
    BY <1>1, <1>2, <1>5, <2>1 DEF OnlyStarted, Started, Executing
<1>13. SandboxIds' /\ OneSandbox'
  BY <1>1, <1>5 DEF IInv, SandboxIds, OneSandbox, Started
<1> QED
  BY <1>7, <1>10, <1>11, <1>12, <1>13, OrderMakesWholeNext DEF IInv

(* What happens to the sandbox and in it (sandbox/manager.go:90-178).      *)
LEMMA EnvironmentStep ==
  ASSUME IInv, Sandbox \/ Process
  PROVE  IInv'
<1>1. /\ TypeOK' /\ SameProcesses
      /\ UNCHANGED <<input, loop, sbx, record, outcome, writer>>
  BY SandboxTypes, ProcessTypes DEF IInv
<1>2. /\ UNCHANGED <<request, backend, at, next, sbx, state, result>>
      /\ UNCHANGED writer
  BY <1>1 DEF input, loop, record
<1>3. CapturedPrefix'
  BY <1>2, WriterKept
<1>4. Commands' = Commands /\ \A i \in Commands : Started(i)' <=> Started(i)
  BY <1>1, <1>2 DEF Commands, SameProcesses
<1>5. ResultsInOrder' /\ OnlyStarted'
  BY <1>2, <1>4
     DEF IInv, ResultsInOrder, Timed, Denied, OnlyStarted, Executing
<1>6. /\ created \in Nat /\ created' \in Nat /\ sandbox \in {0, created}
      /\ sandbox' \in {0, created'} /\ created <= created'
  <2>1. created \in Nat /\ created' \in Nat /\ sandbox \in {0, created}
    BY <1>1, TypesInParts, NewTypesInParts DEF IInv, SandboxIds, Scalars
  <2>2. CASE OtherEnsure
    <3>1. PICK ttl \in OtherTTLs : Ensured(ttl)
      BY <2>2 DEF OtherEnsure
    <3>2. ttl \in Nat
      BY WorldAssumption
    <3>3. sandbox' = created' /\ created <= created'
      BY <2>1, <3>1, <3>2, EnsuredTypes DEF IInv
    <3> QED
      BY <2>1, <3>3
  <2>3. CASE OtherDelete \/ Look \/ Tick \/ Process
    BY <2>1, <2>3 DEF OtherDelete, Look, Tick, Process, Exit, Expire, FallSilent,
                      ProcessStep, place
  <2>4. CASE Deletion
    BY <2>1, <2>4 DEF Deletion, Stop, Remove
  <2> QED
    BY <2>2, <2>3, <2>4 DEF Sandbox
<1>7. SandboxIds' /\ OneSandbox'
  BY <1>1, <1>2, <1>6, PlacesKept
<1> QED
  BY <1>1, <1>3, <1>5, <1>7, OrderMakesWholeNext DEF IInv

(* The run is submitted in a state of the invariant (manager.go:107-148).  *)
LEMMA InitEstablishes == Init => IInv
<1> SUFFICES ASSUME Init PROVE IInv
  OBVIOUS
<1> USE DEF Init
<1>1. request.commands \in Seq(Command) \ {<<>>} /\ request.ttl \in Nat
  BY RequestsAssumption
<1>2. /\ Commands = 1 .. Len(request.commands)
      /\ Len(request.commands) \in Nat \ {0}
  BY <1>1, LenProperties, EmptySeq DEF Commands
<1>3. ProcessesOK /\ ResultsOK
  <2>1. NoProcess \in ProcessType
    BY DEF NoProcess, ProcessType, Stages
  <2>2. NoResult \in ResultType
    BY EmptySeq DEF NoResult, ResultType, Statuses
  <2> QED
    BY <2>1, <2>2 DEF ProcessesOK, ResultsOK, Commands
<1>4. Scalars
  <2>1. stopped \in BOOLEAN /\ failure \in BOOLEAN /\ truncated \in BOOLEAN
        /\ disturbed \in BOOLEAN
    OBVIOUS
  <2>2. outcome \in [code : Nat, err : BOOLEAN]
    BY DEF NoOutcome
  <2>3. 1 \in 1 .. Len(request.commands) + 1
    BY <1>2
  <2> QED
    BY <1>1, <2>1, <2>2, <2>3 DEF Scalars, Places
<1>5. TypeOK
  BY <1>3, <1>4, TypesInParts, EmptySeq
<1>6. CapturedPrefix
  <2>1. Least(0, MaxBytes) = 0 /\ ~(0 > MaxBytes)
    BY ConfigAssumption DEF Least
  <2>2. <<>> = [k \in 1 .. 0 |-> k]
    BY Ascending, EmptySeq
  <2> QED
    BY <2>1, <2>2 DEF CapturedPrefix
<1>7. \A i \in Commands : /\ ~Started(i) /\ process[i].inside = 0
                           /\ result[i].status = "queued"
                           /\ result[i].text # Torn /\ Timed(i)
  BY ValuesAssumption, EmptySeq
     DEF Started, Timed, NoProcess, NoResult, Commands
<1>8. ResultsInOrder /\ ToldIsWhole
  BY <1>7 DEF ResultsInOrder, ToldIsWhole, Settled, Refusing
<1>9. SandboxIds /\ OnlyStarted /\ OneSandbox
  BY <1>7 DEF SandboxIds, OnlyStarted, OneSandbox, Executing
<1> QED
  BY <1>5, <1>6, <1>8, <1>9 DEF IInv

(* ... and every step keeps it, whoever takes it (manager.go:197-394).     *)
LEMMA StepPreserves == IInv /\ [Next]_vars => IInv'
<1> SUFFICES ASSUME IInv, [Next]_vars PROVE IInv'
  OBVIOUS
<1>1. CASE Sandbox \/ Process
  BY <1>1, EnvironmentStep
<1>2. CASE Deliver
  BY <1>2, DeliverStep
<1>3. CASE Prepare
  BY <1>3, PrepareStep
<1>4. CASE StartCommand
  BY <1>4, StartCommandStep
<1>5. CASE \/ PrepareFails \/ StartFails \/ StreamHangs \/ DockerStreamEnds
           \/ Inspect \/ KubernetesStreamEnds \/ FailRun \/ LoopEnds \/ Settle
  BY <1>5, QuietSteps
<1>6. CASE RecordFlags \/ RecordText
  BY <1>6, RecordPartStep
<1>7. CASE RecordStatus
  BY <1>7, RecordStatusStep
<1>8. CASE Deny \/ RefusalEnds \/ RefusalCoded
  BY <1>8, RefusalStep
<1>9. CASE UNCHANGED vars
  <2>1. /\ UNCHANGED <<request, backend, sandbox, created, deleter, victim,
                       remaining, owed, at, next, sbx, deadline, outcome, state,
                       result, process, trouble>>
        /\ UNCHANGED <<stopped, disturbed, failure>>
        /\ UNCHANGED writer
    BY <1>9 DEF vars, input, place, deletion, lease, loop, record
  <2>2. Commands' = Commands
    BY <2>1 DEF Commands
  <2>3. /\ buf' \in Seq(Nat) /\ taken' \in Nat /\ truncated' \in BOOLEAN
        /\ CapturedPrefix'
    BY <2>1, WriterKept
  <2>4. TypeOK'
    <3>1. Scalars /\ ProcessesOK /\ ResultsOK
      BY TypesInParts DEF IInv
    <3>2. Scalars' /\ ProcessesOK' /\ ResultsOK'
      BY <2>1, <2>2, <2>3, <3>1 DEF Scalars, ProcessesOK, ResultsOK
    <3> QED
      BY <2>3, <3>2, NewTypesInParts
  <2>5. ResultsInOrder' /\ OnlyStarted'
    BY <2>1, <2>2
       DEF IInv, ResultsInOrder, Timed, Denied, OnlyStarted, Started, Executing
  <2>6. SandboxIds' /\ OneSandbox'
    BY <2>1, <2>2 DEF IInv, SandboxIds, OneSandbox, Started
  <2> QED
    BY <2>3, <2>4, <2>5, <2>6, OrderMakesWholeNext DEF IInv
<1> QED
  BY <1>1, <1>2, <1>3, <1>4, <1>5, <1>6, <1>7, <1>8, <1>9
     DEF Next, Goroutine

(* The invariant holds for every request, every configuration, every other *)
(* request's TTL, and any amount of trouble (manager.go:197-394).          *)
THEOREM InvariantHolds == SafetySpec => []IInv
<1>1. Init => IInv
  BY InitEstablishes
<1>2. IInv /\ [Next]_vars => IInv'
  BY StepPreserves
<1> QED
  BY <1>1, <1>2, PTL DEF SafetySpec

(* However the output is cut into chunks: what is captured of it is its    *)
(* first bytes, as many as the limit admits, and it is marked exactly when *)
(* some are missing (manager.go:464-493).                                  *)
THEOREM CapturedPrefixHolds == SafetySpec => []CapturedPrefix
<1>1. IInv => CapturedPrefix
  BY DEF IInv
<1> QED
  BY <1>1, InvariantHolds, PTL

(* All commands of a run execute in the container that the run was given,  *)
(* or, on Kubernetes, in one that took its name later, and never in an     *)
(* older one than the command before (manager.go:213-310).                 *)
THEOREM OneSandboxHolds == SafetySpec => []OneSandbox
<1>1. IInv => OneSandbox
  BY DEF IInv
<1> QED
  BY <1>1, InvariantHolds, PTL

(* What ToldIsFinal asks of a command that was told of.                    *)
Kept(i) ==
  \/ result'[i] = result[i]
  \/ /\ MayBeRevised(i)
     /\ result'[i] = [result[i] EXCEPT !.code    = result'[i].code,
                                      !.endedAt = result'[i].endedAt]

(* The step that it forbids is none of the loop's: it records the result   *)
(* of a command of which nothing was told (manager.go:314-337), or the end *)
(* and the code of a denied one (manager.go:297-299).                      *)
LEMMA ToldIsKept ==
  ASSUME IInv, [Next]_vars
  PROVE  \A i \in Commands : Told(i) => Kept(i)
<1>1. CASE RecordFlags \/ RecordText \/ RecordStatus
  <2>1. \E r : result' = [result EXCEPT ![next] = r]
    BY <1>1 DEF RecordFlags, RecordText, RecordStatus, RecordStep
  <2>2. at \in Executing /\ next \in Nat
    BY <1>1 DEF RecordFlags, RecordText, RecordStatus, Executing, IInv, TypeOK
  <2>3. next \in Commands
    BY <2>2 DEF IInv, OnlyStarted
  <2>4. ~Told(next)
    BY <2>2, <2>3 DEF IInv, ResultsInOrder, Told, Executing
  <2>5. result \in [Commands -> ResultType]
    BY TypesInParts DEF IInv, ResultsOK
  <2> QED
    BY <2>1, <2>4, <2>5 DEF Kept
<1>2. CASE UNCHANGED result
  BY <1>2 DEF Kept
<1>3. CASE \/ Sandbox \/ Process \/ UNCHANGED vars
  BY <1>2, <1>3, SandboxTypes, ProcessTypes DEF IInv, record, vars
<1>4. CASE \/ Deliver \/ Prepare \/ PrepareFails \/ StartCommand \/ StartFails
           \/ StreamHangs \/ DockerStreamEnds \/ Inspect \/ KubernetesStreamEnds
           \/ FailRun \/ LoopEnds \/ Settle
  BY <1>2, <1>4
     DEF Deliver, Prepare, PrepareFails, StartCommand, StartFails,
         StreamHangs, DockerStreamEnds, Inspect, KubernetesStreamEnds, FailRun, LoopEnds,
         Settle, Conclude, record
<1>5. CASE Deny \/ RefusalEnds \/ RefusalCoded
  <2>1. next \in Commands /\ result \in [Commands -> ResultType]
    BY <1>5, TypesInParts
       DEF Deny, RefusalEnds, RefusalCoded, IInv, ResultsInOrder, ResultsOK, Refusing
  <2>2. PICK q \in ResultType : q = result[next]
    BY <2>1
  <2>3. CASE Deny
    <3>1. ~Told(next)
      BY SMTT(20), <2>1, <2>3 DEF Deny, Told, IInv, TypeOK, ResultsInOrder
    <3>2. \A i \in Commands \ {next} : result'[i] = result[i]
      BY <2>1, <2>3 DEF Deny, RecordStep
    <3> QED
      BY <3>1, <3>2 DEF Kept
  <2>4. CASE RefusalEnds \/ RefusalCoded
    <3>1. MayBeRevised(next)
      BY <2>4 DEF RefusalEnds, RefusalCoded, MayBeRevised, IInv, ResultsInOrder,
                  Refusing
    <3>2. \/ result' = [result EXCEPT ![next] = [q EXCEPT !.endedAt = "set"]]
          \/ result' = [result EXCEPT ![next] = [q EXCEPT !.code = 1]]
      BY <2>2, <2>4 DEF RefusalEnds, RefusalCoded, RecordStep
    <3>3. \A i \in Commands \ {next} : result'[i] = result[i]
      BY <2>1, <3>2
    <3>4. \/ result'[next] = [q EXCEPT !.endedAt = "set"]
          \/ result'[next] = [q EXCEPT !.code = 1]
      BY <2>1, <3>2
    <3>5. ASSUME NEW t, t = [q EXCEPT !.endedAt = "set"] \/ t = [q EXCEPT !.code = 1]
          PROVE  t = [q EXCEPT !.code = t.code, !.endedAt = t.endedAt]
      BY <3>5 DEF ResultType
    <3>6. result'[next] = [q EXCEPT !.code    = result'[next].code,
                                    !.endedAt = result'[next].endedAt]
      BY <3>4, <3>5
    <3> QED
      BY <2>2, <3>1, <3>3, <3>6 DEF Kept
  <2> QED
    BY <1>5, <2>3, <2>4
<1> QED
  BY <1>1, <1>3, <1>4, <1>5 DEF Next, Goroutine

(* What a client was told of a command is final: once the run has ended,   *)
(* or the command has a status, its result does not change any more, but   *)
(* for the code and the end of a denied command, which may be told late    *)
(* until the run has ended (manager.go:568, 297-299, 314-337; tools.go:9). *)
THEOREM ToldIsFinalHolds == SafetySpec => ToldIsFinal
<1>1. IInv /\ [Next]_vars =>
        [\A i \in Commands : Told(i) =>
           \/ result'[i] = result[i]
           \/ /\ MayBeRevised(i)
              /\ result'[i] = [result[i] EXCEPT !.code    = result'[i].code,
                                               !.endedAt = result'[i].endedAt]]_vars
  BY ToldIsKept DEF Kept
<1> QED
  BY <1>1, InvariantHolds, PTL DEF SafetySpec, ToldIsFinal

(* ... and complete: none of it is still being written (manager.go:321).   *)
THEOREM ToldIsWholeHolds == SafetySpec => []ToldIsWhole
<1>1. IInv => ToldIsWhole
  BY DEF IInv
<1> QED
  BY <1>1, InvariantHolds, PTL
-----------------------------------------------------------------------------
(***************************************************************************)
(* What is recorded of a command is true of its process.                   *)
(*                                                                         *)
(* IInv does not relate the two. Truth does, along the way from one to the *)
(* other: while the process runs, while the executor waits for it, when    *)
(* Exec has returned, while the result is stored, and ever after.          *)
(***************************************************************************)
Returned == {"returned", "storing", "stored"}

(* A process has run no longer than it may, and one that was killed has    *)
(* the exit code that timeout(1) passes on.                                *)
Timely(i) ==
  LET p == process[i]
  IN  /\ p.stage = "none" => p.ran = 0
      /\ p.stage = "running" => p.ran <= Limit(i)
      /\ p.stage = "expired" => p.code = 137 /\ p.ran >= Limit(i)
      /\ p.stage = "killed" => p.code = 137

(* A process that the loop has left behind still runs for a reason only.   *)
LeftBehind(i) == i < next \/ (i = next /\ at \in Returned)
Followed(i) == Running(i) /\ LeftBehind(i) => Excused(i)

(* Exec follows a process that was started; waitDockerExec, until it has   *)
(* run for MaxWait, and with all of its output, unless the stream broke.   *)
Watched ==
  /\ at \in {"streaming", "waiting"} => Started(next)
  /\ at = "waiting" /\ Running(next) => deadline + process[next].ran > MaxWait
  /\ at = "waiting" /\ ~process[next].cut => taken = process[next].printed

(* What Exec returns: an error, if the command was not started or was lost *)
(* sight of; otherwise the exit code of a process that has ended, all of   *)
(* whose output was taken, unless Docker's stream broke.                   *)
OutcomeIsTrue ==
  LET p == process[next]
  IN  at \in Returned =>
        /\ outcome.err => \/ p.stage = "none" \/ p.left # "no"
                          \/ backend = "kubernetes" /\ p.cut
        /\ ~outcome.err => /\ p.stage \in {"exited", "expired", "killed"}
                           /\ outcome.code = p.code
                           /\ ~p.cut => taken = p.printed

(* The result holds what the writer holds, as far as it is stored.         *)
Recorded ==
  /\ at \in {"storing", "stored"} => /\ result[next].truncated = truncated
                                      /\ result[next].code = outcome.code
  /\ at = "stored" => result[next].text = buf

TrueOf(i) == Timely(i) /\ Followed(i) /\ StatusTrue(i) /\ Whole(i)

Truth == /\ \A i \in Commands : TrueOf(i)
         /\ Watched /\ OutcomeIsTrue /\ Recorded

(* A number of seconds, rounded up, is no less than the time.              *)
LEMMA RoundedUp ==
  ASSUME NEW a \in Nat \ {0}, NEW s \in Nat \ {0}
  PROVE  /\ ((a + s - 1) \div s) * s \in Nat
         /\ ((a + s - 1) \div s) * s >= a
<1> DEFINE b == a + s - 1
<1>1. b \in Nat
  OBVIOUS
<1>2. b = s * (b \div s) + (b % s) /\ b % s \in 0 .. s - 1 /\ b \div s \in Nat
  <2> HIDE DEF b
  <2> QED
    BY <1>1
<1> QED
  BY <1>1, <1>2

(* timeout(1) gives a command at least the time that was asked for, and    *)
(* some (manager.go:403-419).                                              *)
LEMMA LimitCovers ==
  ASSUME TypeOK, NEW i \in Commands
  PROVE  /\ Asked(i) \in Nat \ {0} /\ Limit(i) \in Nat \ {0}
         /\ Limit(i) >= Asked(i)
<1>1. Asked(i) \in Nat \ {0}
  BY RequestTypes, ConfigAssumption DEF Asked
<1>2. Second \in Nat \ {0}
  BY ConfigAssumption
<1>3. Limit(i) \in Nat /\ Limit(i) >= Asked(i)
  BY <1>1, <1>2, RoundedUp DEF Limit
<1> QED
  BY <1>1, <1>3

(* What the environment of the goroutine does to a process: nothing, or    *)
(* the output that it has left open is closed; as long as it runs, time    *)
(* passes, it falls silent, or it ends. How the goroutine lost sight of it *)
(* stays noted.                                                            *)
Evolves(i) ==
  LET p == process[i]
      q == process'[i]
  IN  \/ q = p /\ (Running(i) => deadline' = deadline)
      \/ /\ Lingers(i)
         /\ q.stage = p.stage /\ q.code = p.code /\ q.ran = p.ran
         /\ q.cut = p.cut /\ q.left = p.left
      \/ /\ Running(i)
         /\ q.cut = p.cut /\ q.left = p.left
         /\ p.printed # None => q.printed = p.printed
         /\ \/ q.stage = "running" /\ q.ran = p.ran /\ deadline' = deadline
            \/ /\ q.stage = "running" /\ p.ran < Limit(i)
               /\ q.ran = p.ran + 1 /\ deadline' = Less(deadline)
            \/ q.stage = "exited"
            \/ q.stage = "killed" /\ q.code = 137
            \/ q.stage = "expired" /\ q.code = 137 /\ q.ran >= Limit(i)

(* A process that ends is not the worse noted for it.                      *)
LEMMA EndedFields ==
  ASSUME TypeOK, NEW i \in Commands, NEW stage, NEW code, NEW printed
  PROVE  LET q == Ended(i, stage, code, printed)
         IN  /\ q.stage = stage /\ q.code = code
             /\ q.cut = process[i].cut /\ q.left = process[i].left
             /\ process[i].printed # None => q.printed = process[i].printed
             /\ stage = "expired" => q.ran = process[i].ran
<1>1. process[i] \in ProcessType
  BY DEF TypeOK, ProcessType, Commands
<1> QED
  BY <1>1 DEF Ended, ProcessType

(* So everything evolves that is in a container which is killed            *)
(* (sandbox/manager.go:156-161).                                           *)
LEMMA KilledEvolve ==
  ASSUME TypeOK, NEW c, KillAll(c), deadline' = deadline, NEW i \in Commands
  PROVE  Evolves(i)
<1>1. PICK printed \in [Commands -> UNION {CanPrint(j) : j \in Commands}] :
        process' = [j \in Commands |->
          IF process[j].inside # c THEN process[j]
          ELSE IF Running(j) THEN Ended(j, "killed", 137, printed[j])
          ELSE IF Lingers(j) THEN [process[j] EXCEPT !.printed = printed[j]]
          ELSE process[j]]
  BY DEF KillAll
<1>2. CASE Running(i) /\ process'[i] = Ended(i, "killed", 137, printed[i])
  <2> DEFINE q == Ended(i, "killed", 137, printed[i])
  <2>1. /\ q.stage = "killed" /\ q.code = 137
        /\ q.cut = process[i].cut /\ q.left = process[i].left
        /\ process[i].printed # None => q.printed = process[i].printed
    BY EndedFields
  <2> HIDE DEF q
  <2>2. process'[i] = q
    BY <1>2 DEF q
  <2> QED
    BY <1>2, <2>1, <2>2 DEF Evolves
<1>3. CASE process'[i] = process[i]
  BY <1>3 DEF Evolves
<1>4. CASE Lingers(i) /\ process'[i] = [process[i] EXCEPT !.printed = printed[i]]
  <2>1. PICK p \in ProcessType : p = process[i]
    BY DEF TypeOK, ProcessType, Commands
  <2> QED
    BY <1>4, <2>1 DEF Evolves, ProcessType
<1> QED
  BY <1>1, <1>2, <1>3, <1>4

(* The clock, whoever takes the sandbox away, and the processes themselves *)
(* (docker_executor.go:33-80; sandbox/manager.go:90-161).                  *)
LEMMA EnvironmentEvolves ==
  ASSUME TypeOK, Sandbox \/ Process, NEW i \in Commands
  PROVE  Evolves(i)
<1>0. /\ process \in [Commands -> ProcessType] /\ process[i] \in ProcessType
      /\ process[i].ran \in Nat
  BY TypesInParts DEF ProcessesOK, ProcessType
<1>1. CASE OtherEnsure \/ OtherDelete \/ Look
  BY <1>1 DEF OtherEnsure, OtherDelete, Look, Evolves
<1>2. CASE Deletion
  <2>1. deadline' = deadline
    BY <1>2 DEF Deletion, Stop, Remove
  <2>2. CASE \E c : KillAll(c)
    BY <2>1, <2>2, KilledEvolve
  <2>3. CASE process' = process
    BY <2>1, <2>3 DEF Evolves
  <2> QED
    BY <1>2, <2>2, <2>3 DEF Deletion, Stop, Remove
<1>3. CASE Tick
  <2>1. CASE Running(i)
    <3>1. Limit(i) \in Nat \ {0}
      BY LimitCovers
    <3>2. process[i].ran < Limit(i)
      BY <1>0, <1>3, <2>1, <3>1 DEF Tick, Due
    <3>3. process'[i] = [process[i] EXCEPT !.ran = @ + 1]
      BY <1>3, <2>1, <3>1 DEF Tick
    <3>4. deadline' = Less(deadline)
      BY <1>3 DEF Tick
    <3> QED
      BY <1>0, <2>1, <3>2, <3>3, <3>4 DEF Evolves, Running, ProcessType
  <2>2. CASE ~Running(i)
    BY <1>3, <2>2 DEF Tick, Evolves
  <2> QED
    BY <2>1, <2>2
<1>4. CASE Process
  <2>1. PICK j \in Commands : Exit(j) \/ Expire(j) \/ FallSilent(j)
    BY <1>4 DEF Process
  <2>2. deadline' = deadline
    BY <2>1 DEF Exit, Expire, FallSilent, ProcessStep
  <2>3. CASE j # i
    BY <1>0, <2>1, <2>2, <2>3
       DEF Exit, Expire, FallSilent, ProcessStep, Evolves
  <2>4. CASE j = i /\ Exit(i)
    <3>1. PICK code \in {0, 1, 124}, n \in {request.commands[i].output, None} :
            ProcessStep(i, Ended(i, "exited", code, n))
      BY <2>4 DEF Exit
    <3> DEFINE q == Ended(i, "exited", code, n)
    <3>2. /\ q.stage = "exited"
          /\ q.cut = process[i].cut /\ q.left = process[i].left
          /\ process[i].printed # None => q.printed = process[i].printed
      BY EndedFields
    <3>3. Running(i) /\ process'[i] = q
      BY <1>0, <2>4, <3>1 DEF ProcessStep, Exit
    <3> HIDE DEF q
    <3> QED
      BY <3>2, <3>3 DEF Evolves
  <2>5. CASE j = i /\ Expire(i)
    <3>1. PICK n \in CanPrint(i) \cup {None} :
            ProcessStep(i, Ended(i, "expired", 137, n))
      BY <2>5 DEF Expire
    <3> DEFINE q == Ended(i, "expired", 137, n)
    <3>2. /\ q.stage = "expired" /\ q.code = 137 /\ q.ran = process[i].ran
          /\ q.cut = process[i].cut /\ q.left = process[i].left
          /\ process[i].printed # None => q.printed = process[i].printed
      BY EndedFields
    <3>3. Running(i) /\ process'[i] = q
      BY <1>0, <2>5, <3>1 DEF ProcessStep, Expire
    <3>4. process[i].ran >= Limit(i)
      BY <2>5 DEF Expire, Due
    <3> HIDE DEF q
    <3> QED
      BY <3>2, <3>3, <3>4 DEF Evolves
  <2>6. CASE j = i /\ FallSilent(i)
    <3>1. /\ Running(i) \/ Lingers(i)
          /\ process[i].printed = None
          /\ process'[i] = [process[i] EXCEPT !.printed =
                              request.commands[i].output]
      BY <1>0, <2>6 DEF FallSilent, ProcessStep
    <3> QED
      BY <1>0, <2>2, <3>1 DEF Evolves, Running, ProcessType
  <2> QED
    BY <2>1, <2>3, <2>4, <2>5, <2>6
<1> QED
  BY <1>1, <1>2, <1>3, <1>4 DEF Sandbox

(* Time limits are those of the request.                                   *)
LEMMA SameLimits ==
  ASSUME request' = request
  PROVE  /\ Commands' = Commands
         /\ \A i : Limit(i)' = Limit(i) /\ Asked(i)' = Asked(i)
  BY DEF Commands, Limit, Asked

(* A process that is left alone stays in time, and is not left behind.     *)
LEMMA SameProcessIsKept ==
  ASSUME UNCHANGED <<request, backend>>, NEW i \in Commands, Timely(i), Followed(i),
         process'[i] = process[i], LeftBehind(i)' => LeftBehind(i)
  PROVE  Timely(i)' /\ Followed(i)'
<1>1. Limit(i)' = Limit(i)
  BY SameLimits
<1>2. Timely(i)'
  BY <1>1 DEF Timely
<1>3. Excused(i) => Excused(i)'
  BY <1>1 DEF Excused
<1>4. Running(i)' <=> Running(i)
  BY DEF Running
<1> QED
  BY <1>2, <1>3, <1>4 DEF Followed

(* What is recorded of it stays true then ...                              *)
LEMMA SameKeepsTruth ==
  ASSUME UNCHANGED <<request, backend>>, NEW i \in Commands, TrueOf(i),
         process'[i] = process[i], result'[i] = result[i],
         LeftBehind(i)' => LeftBehind(i)
  PROVE  TrueOf(i)'
<1>1. Limit(i)' = Limit(i) /\ Asked(i)' = Asked(i)
  BY SameLimits
<1>2. StatusTrue(i)' /\ Whole(i)'
  BY <1>1 DEF TrueOf, StatusTrue, Whole
<1> QED
  BY <1>2, SameProcessIsKept DEF TrueOf

(* ... and as it evolves: of one that has ended, nothing changes any more  *)
(* but that its output may be closed at last, which was not taken then.    *)
LEMMA EvolvesKeepsTruth ==
  ASSUME TypeOK, ToldIsWhole, UNCHANGED <<request, backend>>, NEW i \in Commands, TrueOf(i),
         Evolves(i), result'[i] = result[i], LeftBehind(i)' => LeftBehind(i)
  PROVE  TrueOf(i)'
<1>1. Limit(i)' = Limit(i) /\ Asked(i)' = Asked(i)
  BY SameLimits
<1>2. process[i].ran \in Nat /\ Limit(i) \in Nat
  BY LimitCovers, TypesInParts DEF ProcessesOK, ProcessType
<1>3. CASE process'[i] = process[i]
  BY <1>3, SameKeepsTruth
<1>4. CASE process'[i] # process[i] /\ ~Lingers(i)
  <2>1. /\ process[i].stage = "running"
        /\ process'[i].cut = process[i].cut /\ process'[i].left = process[i].left
        /\ \/ process'[i].stage = "running" /\ process'[i].ran = process[i].ran
           \/ /\ process'[i].stage = "running" /\ process[i].ran < Limit(i)
              /\ process'[i].ran = process[i].ran + 1
           \/ process'[i].stage = "exited"
           \/ process'[i].stage = "killed" /\ process'[i].code = 137
           \/ /\ process'[i].stage = "expired" /\ process'[i].code = 137
              /\ process'[i].ran >= Limit(i)
    BY <1>4 DEF Evolves, Running
  <2>2. Timely(i)'
    BY <1>1, <1>2, <2>1 DEF TrueOf, Timely
  <2>3. /\ result[i].status \notin {"completed", "timed_out"}
        /\ result[i].status = "failed" =>
             process[i].left # "no" \/ (process[i].cut /\ backend = "kubernetes")
    BY <2>1 DEF TrueOf, StatusTrue
  <2>4. StatusTrue(i)' /\ Whole(i)'
    BY <1>1, <2>1, <2>3 DEF StatusTrue, Whole
  <2>5. (Excused(i) => Excused(i)') /\ Running(i)
    BY <1>1, <2>1 DEF Excused, Running
  <2>6. Followed(i)'
    BY <2>5 DEF TrueOf, Followed
  <2> QED
    BY <2>2, <2>4, <2>6 DEF TrueOf
<1>5. CASE process'[i] # process[i] /\ Lingers(i)
  <2>1. /\ ~Running(i) /\ process[i].printed = None
        /\ process'[i].stage = process[i].stage
        /\ process'[i].code = process[i].code
        /\ process'[i].ran = process[i].ran
        /\ process'[i].cut = process[i].cut /\ process'[i].left = process[i].left
    BY <1>5 DEF Evolves, Lingers, Running
  <2>2. Timely(i)' /\ StatusTrue(i)'
    BY <1>1, <2>1 DEF TrueOf, Timely, StatusTrue
  <2>3. Followed(i)'
    BY <2>1 DEF Followed, Running
  <2>4. Whole(i)'
    <3>1. CASE result[i].status # "completed" \/ process[i].cut
      BY <2>1, <3>1 DEF Whole
    <3>2. CASE result[i].status = "completed" /\ ~process[i].cut
      <4>1. result[i].text # Torn
        BY <3>2 DEF ToldIsWhole, Told
      <4>2. result[i] \in ResultType
        BY TypesInParts DEF ResultsOK
      <4>3. result[i].text \in Seq(Nat)
        BY <4>1, <4>2 DEF ResultType
      <4>4. Len(result[i].text) # None
        BY <4>3, LenProperties, ValuesAssumption
      <4>5. result[i].truncated = TRUE /\ Len(result[i].text) = MaxBytes
        BY <2>1, <3>2, <4>2, <4>4 DEF TrueOf, Whole, ResultType
      <4> QED
        BY <4>5 DEF Whole
    <3> QED
      BY <3>1, <3>2
  <2> QED
    BY <2>2, <2>3, <2>4 DEF TrueOf
<1> QED
  BY <1>3, <1>4, <1>5

(* While it waits, the executor loses no time.                             *)
LEMMA EvolvesInTime ==
  ASSUME TypeOK, NEW i \in Commands, Evolves(i), process'[i].stage = "running",
         deadline + process[i].ran > MaxWait
  PROVE  deadline' + process'[i].ran > MaxWait
<1>1. deadline \in Nat /\ MaxWait \in Nat /\ process[i].ran \in Nat
  BY TypesInParts, ConfigAssumption DEF Scalars, ProcessesOK, ProcessType
<1>2. CASE deadline' = deadline /\ process'[i].ran = process[i].ran
  BY <1>2
<1>3. CASE deadline' = Less(deadline) /\ process'[i].ran = process[i].ran + 1
  BY <1>1, <1>3 DEF Less
<1> QED
  BY <1>2, <1>3 DEF Evolves, Running, Lingers

(* What happens to the sandbox and in it (docker_executor.go:53-80).       *)
LEMMA EnvironmentKeepsTruth ==
  ASSUME IInv, Truth, Sandbox \/ Process
  PROVE  Truth'
<1>1. /\ UNCHANGED <<request, backend, at, next, result, outcome>>
      /\ UNCHANGED <<taken, buf, truncated>>
      /\ SameProcesses /\ TypeOK
  BY SandboxTypes, ProcessTypes DEF IInv, input, loop, record, writer
<1>2. Commands' = Commands
  BY <1>1, SameLimits
<1>3. \A i \in Commands : Evolves(i)
  BY <1>1, EnvironmentEvolves
<1>4. \A i \in Commands : TrueOf(i)'
  <2> SUFFICES ASSUME NEW i \in Commands PROVE TrueOf(i)'
    OBVIOUS
  <2>1. LeftBehind(i)' => LeftBehind(i)
    BY <1>1 DEF LeftBehind
  <2>2. TrueOf(i) /\ Evolves(i) /\ result'[i] = result[i]
    BY <1>1, <1>3 DEF Truth
  <2> QED
    BY <1>1, <2>1, <2>2, EvolvesKeepsTruth DEF IInv
<1>5. Recorded'
  BY <1>1 DEF Truth, Recorded
<1>6. at \in Executing => next \in Commands
  BY DEF IInv, OnlyStarted
<1>7. Watched'
  <2>1. CASE at \notin {"streaming", "waiting"}
    BY <1>1, <2>1 DEF Watched
  <2>2. CASE at \in {"streaming", "waiting"}
    <3>1. next \in Commands
      BY <1>6, <2>2 DEF Executing
    <3>2. Evolves(next) /\ process'[next].stage # "none"
      BY <1>1, <1>3, <2>2, <3>1 DEF SameProcesses, Started, Truth, Watched
    <3>3. at = "waiting" /\ process'[next].stage = "running" =>
            deadline' + process'[next].ran > MaxWait
      <4> SUFFICES ASSUME at = "waiting", process'[next].stage = "running"
                   PROVE  deadline' + process'[next].ran > MaxWait
        OBVIOUS
      <4>1. Running(next)
        BY <3>2 DEF Evolves, Running, Lingers
      <4>2. deadline + process[next].ran > MaxWait
        BY <4>1 DEF Truth, Watched
      <4> QED
        BY <1>1, <3>1, <3>2, <4>2, EvolvesInTime
    <3>4. at = "waiting" /\ ~process'[next].cut => taken = process'[next].printed
      <4>1. taken \in Nat
        BY <1>1, TypesInParts DEF Scalars
      <4> QED
        BY <3>2, <4>1, ValuesAssumption DEF Truth, Watched, Evolves, Lingers
    <3> QED
      BY <1>1, <3>2, <3>3, <3>4 DEF Watched, Started, Running
  <2> QED
    BY <2>1, <2>2
<1>8. OutcomeIsTrue'
  <2>1. CASE at \notin Returned
    BY <1>1, <2>1 DEF OutcomeIsTrue
  <2>2. CASE at \in Returned
    <3>1. next \in Commands
      BY <1>6, <2>2 DEF Executing, Returned
    <3>2. Evolves(next)
      BY <1>3, <3>1
    <3>3. taken \in Nat /\ None \notin Nat
      BY <1>1, TypesInParts, ValuesAssumption DEF Scalars
    <3> QED
      BY <1>1, <2>2, <3>2, <3>3 DEF Truth, OutcomeIsTrue, Evolves, Running, Lingers
  <2> QED
    BY <2>1, <2>2
<1> QED
  BY <1>2, <1>4, <1>5, <1>7, <1>8 DEF Truth

(* A step that concerns neither a process nor a result, outside of Exec    *)
(* and of the recording (manager.go:213-284, 363-394).                     *)
LEMMA AsideKeepsTruth ==
  ASSUME Truth, UNCHANGED <<request, backend, next, process, result>>,
         at' \notin Executing
  PROVE  Truth'
<1>1. Commands' = Commands
  BY SameLimits
<1>2. \A i \in Commands : TrueOf(i)'
  <2> SUFFICES ASSUME NEW i \in Commands PROVE TrueOf(i)'
    OBVIOUS
  <2>1. LeftBehind(i)' => LeftBehind(i)
    BY DEF LeftBehind, Executing, Returned
  <2>2. TrueOf(i) /\ process'[i] = process[i] /\ result'[i] = result[i]
    BY DEF Truth
  <2> QED
    BY <2>1, <2>2, SameKeepsTruth
<1>3. Watched' /\ OutcomeIsTrue' /\ Recorded'
  BY DEF Watched, OutcomeIsTrue, Recorded, Executing, Returned
<1> QED
  BY <1>1, <1>2, <1>3 DEF Truth

(* A chunk of output (docker_executor.go:53).                              *)
LEMMA DeliverKeepsTruth ==
  ASSUME Truth, Deliver
  PROVE  Truth'
<1>1. /\ UNCHANGED <<request, backend, at, next, process, result>>
      /\ at = "streaming"
  BY DEF Deliver, input, loop, record
<1>2. Commands' = Commands
  BY <1>1, SameLimits
<1>3. \A i \in Commands : TrueOf(i)'
  <2> SUFFICES ASSUME NEW i \in Commands PROVE TrueOf(i)'
    OBVIOUS
  <2>1. LeftBehind(i)' => LeftBehind(i)
    BY <1>1 DEF LeftBehind
  <2>2. TrueOf(i) /\ process'[i] = process[i] /\ result'[i] = result[i]
    BY <1>1 DEF Truth
  <2> QED
    BY <1>1, <2>1, <2>2, SameKeepsTruth
<1>4. Watched' /\ OutcomeIsTrue' /\ Recorded'
  BY <1>1 DEF Truth, Watched, OutcomeIsTrue, Recorded, Returned, Started
<1> QED
  BY <1>2, <1>3, <1>4 DEF Truth

(* The process of a command starts with all of its time before it          *)
(* (docker_executor.go:33-51; kubernetes_executor.go:33-53).               *)
LEMMA StartCommandKeepsTruth ==
  ASSUME IInv, Truth, StartCommand
  PROVE  Truth'
<1>1. /\ UNCHANGED <<request, backend, next, result>>
      /\ at = "loop" /\ at' = "streaming" /\ next \in Commands
      /\ process' = [process EXCEPT ![next].stage = "running",
                                    ![next].inside = sandbox]
  BY DEF StartCommand, input, record
<1>2. /\ Commands' = Commands
      /\ \A i : Limit(i)' = Limit(i)
  BY <1>1, SameLimits
<1>3. /\ process \in [Commands -> ProcessType]
      /\ process[next].ran \in Nat /\ Limit(next) \in Nat
  BY <1>1, TypesInParts, LimitCovers DEF IInv, ProcessesOK, ProcessType
<1>4. /\ process'[next].stage = "running"
      /\ process'[next].ran = process[next].ran
      /\ \A i \in Commands \ {next} : process'[i] = process[i]
  BY <1>1, <1>3 DEF ProcessType
<1>5. next \in Nat /\ ~Started(next) /\ result[next].status = "queued"
  BY <1>1 DEF IInv, OnlyStarted, ResultsInOrder, TypeOK
<1>6. Limit(next)' = Limit(next)
  BY <1>1 DEF Limit, Asked
<1>7. TrueOf(next)'
  <2>1. process[next].ran = 0
    BY <1>1, <1>5 DEF Truth, TrueOf, Timely, Started
  <2>2. Timely(next)'
    BY <1>1, <1>3, <1>4, <1>6, <2>1 DEF Timely
  <2>3. ~LeftBehind(next)'
    BY <1>1, <1>5 DEF LeftBehind, Returned
  <2>4. StatusTrue(next)' /\ Whole(next)'
    BY <1>1, <1>5 DEF StatusTrue, Whole
  <2> QED
    BY <2>2, <2>3, <2>4 DEF TrueOf, Followed
<1>8. \A i \in Commands : TrueOf(i)'
  <2> SUFFICES ASSUME NEW i \in Commands PROVE TrueOf(i)'
    OBVIOUS
  <2>1. CASE i = next
    BY <1>1, <1>7, <2>1
  <2>2. CASE i # next
    <3>1. LeftBehind(i)' => LeftBehind(i)
      BY <1>1 DEF LeftBehind, Returned
    <3>2. TrueOf(i) /\ process'[i] = process[i] /\ result'[i] = result[i]
      BY <1>1, <1>4, <2>2 DEF Truth
    <3> QED
      BY <1>1, <3>1, <3>2, SameKeepsTruth
  <2> QED
    BY <2>1, <2>2
<1>9. Watched' /\ OutcomeIsTrue' /\ Recorded'
  BY <1>1, <1>4 DEF Watched, OutcomeIsTrue, Recorded, Returned, Started
<1> QED
  BY <1>2, <1>8, <1>9 DEF Truth

(* How the goroutine loses sight of a process, or sees it end: it is       *)
(* enough to look at its command, of which nothing is recorded yet.        *)
LEMMA NotedKeepsTruth ==
  ASSUME IInv, Truth, Noted, UNCHANGED <<request, backend, next, result>>,
         at \in {"loop", "streaming", "waiting"}, next \in Commands,
         at' \notin {"storing", "stored"},
         at' \in Returned => (process'[next].stage = "running" => Excused(next)'),
         Watched', OutcomeIsTrue'
  PROVE  Truth'
<1>1. Commands' = Commands
  BY SameLimits
<1>2. process \in [Commands -> ProcessType]
  BY TypesInParts DEF IInv, ProcessesOK
<1>3. /\ process'[next].stage = process[next].stage
      /\ process'[next].code = process[next].code
      /\ process'[next].ran = process[next].ran
      /\ \A i \in Commands \ {next} : process'[i] = process[i]
  BY <1>2 DEF Noted, ProcessType
<1>4. Limit(next)' = Limit(next)
  BY DEF Limit, Asked
<1>5. next \in Nat /\ result[next].status = "queued"
  BY DEF IInv, ResultsInOrder, TypeOK, Executing
<1>6. TrueOf(next)'
  <2>1. Timely(next)'
    BY <1>3, <1>4 DEF Truth, TrueOf, Timely
  <2>2. Followed(next)'
    BY <1>5 DEF Followed, LeftBehind, Running
  <2>3. StatusTrue(next)' /\ Whole(next)'
    BY <1>5 DEF StatusTrue, Whole
  <2> QED
    BY <2>1, <2>2, <2>3 DEF TrueOf
<1>7. \A i \in Commands : TrueOf(i)'
  <2> SUFFICES ASSUME NEW i \in Commands PROVE TrueOf(i)'
    OBVIOUS
  <2>1. CASE i = next
    BY <1>6, <2>1
  <2>2. CASE i # next
    <3>1. LeftBehind(i)' => LeftBehind(i)
      BY <2>2 DEF LeftBehind
    <3>2. TrueOf(i) /\ process'[i] = process[i] /\ result'[i] = result[i]
      BY <1>3, <2>2 DEF Truth
    <3> QED
      BY <3>1, <3>2, SameKeepsTruth
  <2> QED
    BY <2>1, <2>2
<1>8. Recorded'
  BY DEF Recorded
<1> QED
  BY <1>1, <1>7, <1>8 DEF Truth

(* A command that cannot be started has no process                         *)
(* (docker_executor.go:42-50).                                             *)
LEMMA StartFailsKeepsTruth ==
  ASSUME IInv, Truth, StartFails
  PROVE  Truth'
<1>1. /\ UNCHANGED <<request, backend, next, result, process>>
      /\ at = "loop" /\ at' = "returned" /\ next \in Commands
      /\ outcome'.err = TRUE
  BY DEF StartFails, Return, input, record
<1>2. process[next].stage = "none"
  <2>1. ~(next < next)
    BY DEF IInv, TypeOK
  <2> QED
    BY <1>1, <2>1 DEF IInv, OnlyStarted, Started
<1>3. Noted
  BY <1>1 DEF Noted
<1>4. Watched' /\ OutcomeIsTrue'
  BY <1>1, <1>2 DEF Watched, OutcomeIsTrue
<1> QED
  BY <1>1, <1>2, <1>3, <1>4, NotedKeepsTruth

(* A stream that hangs says nothing (docker_executor.go:53).               *)
LEMMA StreamHangsKeepsTruth ==
  ASSUME IInv, Truth, StreamHangs
  PROVE  Truth'
<1>1. /\ UNCHANGED <<request, backend, next, result>>
      /\ at = "streaming" /\ at' = "streaming"
      /\ process' = [process EXCEPT ![next].hung = TRUE]
  BY DEF StreamHangs, input, record, loop
<1>2. next \in Commands
  BY <1>1 DEF IInv, OnlyStarted, Executing
<1>3. process \in [Commands -> ProcessType]
  BY TypesInParts DEF IInv, ProcessesOK
<1>4. process'[next].stage = process[next].stage
  BY <1>1, <1>2, <1>3 DEF ProcessType
<1>5. Watched' /\ OutcomeIsTrue'
  BY <1>1, <1>4 DEF Truth, Watched, OutcomeIsTrue, Returned, Started
<1>6. Noted
  BY <1>1 DEF Noted
<1> QED
  BY <1>1, <1>2, <1>5, <1>6, NotedKeepsTruth DEF Returned

(* Docker's stream is over: all is taken, or it broke                      *)
(* (docker_executor.go:53-55).                                             *)
LEMMA DockerStreamEndsKeepsTruth ==
  ASSUME IInv, Truth, DockerStreamEnds
  PROVE  Truth'
<1>1. /\ UNCHANGED <<request, backend, next, result, taken>>
      /\ at = "streaming" /\ at' = "waiting" /\ deadline' = MaxWait + 1
      /\ \/ taken = process[next].printed /\ process' = process
         \/ process' = [process EXCEPT ![next].cut = TRUE]
  BY DEF DockerStreamEnds, AllDelivered, input, record, writer
<1>2. next \in Commands
  BY <1>1 DEF IInv, OnlyStarted, Executing
<1>3. process \in [Commands -> ProcessType] /\ process[next].ran \in Nat
  BY <1>2, TypesInParts DEF IInv, ProcessesOK, ProcessType
<1>4. /\ process'[next].stage = process[next].stage
      /\ process'[next].ran = process[next].ran
      /\ ~process'[next].cut => taken = process'[next].printed
  BY <1>1, <1>2, <1>3 DEF ProcessType
<1>5. deadline' + process'[next].ran > MaxWait
  BY <1>1, <1>3, <1>4, ConfigAssumption
<1>6. Watched' /\ OutcomeIsTrue'
  BY <1>1, <1>4, <1>5 DEF Truth, Watched, OutcomeIsTrue, Returned, Started
<1>7. Noted
  BY <1>1 DEF Noted
<1> QED
  BY <1>1, <1>2, <1>6, <1>7, NotedKeepsTruth DEF Returned

(* waitDockerExec is told that the process has ended, is told nothing, or  *)
(* has waited long enough (docker_executor.go:55-80).                      *)
LEMMA InspectKeepsTruth ==
  ASSUME IInv, Truth, Inspect
  PROVE  Truth'
<1>1. /\ UNCHANGED <<request, backend, next, result, taken>>
      /\ at = "waiting" /\ at' = "returned"
  BY DEF Inspect, Return, input, record, writer
<1>2. next \in Commands /\ process[next].stage # "none"
  BY <1>1 DEF IInv, OnlyStarted, Executing, Truth, Watched, Started
<1>3. /\ process \in [Commands -> ProcessType] /\ process[next].ran \in Nat
      /\ process[next].stage \in Stages
  BY <1>2, TypesInParts DEF IInv, ProcessesOK, ProcessType
<1>4. Limit(next)' = Limit(next)
  BY <1>1 DEF Limit, Asked
<1>5. CASE /\ ~Running(next) /\ process' = process
           /\ Return(process[next].code, FALSE)
  <2>1. outcome'.err = FALSE /\ outcome'.code = process[next].code
    BY <1>5 DEF Return
  <2>2. process[next].stage \in {"exited", "expired", "killed"}
    BY <1>2, <1>3, <1>5 DEF Stages, Running
  <2>3. ~process[next].cut => taken = process[next].printed
    BY <1>1 DEF Truth, Watched
  <2>4. Watched' /\ OutcomeIsTrue'
    BY <1>1, <1>5, <2>1, <2>2, <2>3 DEF Watched, OutcomeIsTrue
  <2>5. Noted /\ process'[next].stage # "running"
    BY <1>5 DEF Noted, Running
  <2> QED
    BY <1>1, <1>2, <2>4, <2>5, NotedKeepsTruth
<1>6. CASE /\ process' = [process EXCEPT ![next].left = "uninspected"]
           /\ Return(0, TRUE)
  <2>1. process'[next].left = "uninspected" /\ outcome'.err = TRUE
    BY <1>2, <1>3, <1>6 DEF Return, ProcessType
  <2>2. Watched' /\ OutcomeIsTrue' /\ Excused(next)'
    BY <1>1, <2>1 DEF Watched, OutcomeIsTrue, Excused
  <2>3. Noted
    BY <1>6 DEF Noted
  <2> QED
    BY <1>1, <1>2, <2>2, <2>3, NotedKeepsTruth
<1>7. CASE /\ Running(next) /\ deadline = 0
           /\ process' = [process EXCEPT ![next].left = "overdue"]
           /\ Return(0, TRUE)
  <2>1. process'[next].left = "overdue" /\ outcome'.err = TRUE
    BY <1>2, <1>3, <1>7 DEF Return, ProcessType
  <2>2. Limit(next) > MaxWait
    <3>1. process[next].ran > MaxWait
      BY <1>1, <1>3, <1>7 DEF Truth, Watched
    <3>2. process[next].ran <= Limit(next)
      BY <1>2, <1>7 DEF Truth, TrueOf, Timely, Running
    <3>3. Limit(next) \in Nat /\ MaxWait \in Nat
      BY <1>2, LimitCovers, ConfigAssumption DEF IInv
    <3> QED
      BY <1>3, <3>1, <3>2, <3>3
  <2>3. Watched' /\ OutcomeIsTrue' /\ Excused(next)'
    BY <1>1, <1>4, <2>1, <2>2 DEF Watched, OutcomeIsTrue, Excused
  <2>4. Noted
    BY <1>7 DEF Noted
  <2> QED
    BY <1>1, <1>2, <2>3, <2>4, NotedKeepsTruth
<1> QED
  BY <1>5, <1>6, <1>7 DEF Inspect

(* The stream of Kubernetes ends with the process, or breaks               *)
(* (kubernetes_executor.go:53-61).                                         *)
LEMMA KubernetesStreamEndsKeepsTruth ==
  ASSUME IInv, Truth, KubernetesStreamEnds
  PROVE  Truth'
<1>1. /\ UNCHANGED <<request, backend, next, result, taken>>
      /\ at = "streaming" /\ at' = "returned" /\ backend = "kubernetes"
  BY DEF KubernetesStreamEnds, Return, input, record, writer
<1>2. next \in Commands /\ process[next].stage # "none"
  BY <1>1 DEF IInv, OnlyStarted, Executing, Truth, Watched, Started
<1>3. process \in [Commands -> ProcessType] /\ process[next].stage \in Stages
  BY <1>2, TypesInParts DEF IInv, ProcessesOK, ProcessType
<1>4. CASE /\ ~Running(next) /\ AllDelivered /\ process' = process
           /\ Return(process[next].code, FALSE)
  <2>1. outcome'.err = FALSE /\ outcome'.code = process[next].code
    BY <1>4 DEF Return
  <2>2. /\ process[next].stage \in {"exited", "expired", "killed"}
        /\ taken = process[next].printed
    BY <1>2, <1>3, <1>4 DEF Stages, Running, AllDelivered
  <2>3. Watched' /\ OutcomeIsTrue'
    BY <1>1, <1>4, <2>1, <2>2 DEF Watched, OutcomeIsTrue
  <2>4. Noted /\ process'[next].stage # "running"
    BY <1>4 DEF Noted, Running
  <2> QED
    BY <1>1, <1>2, <2>3, <2>4, NotedKeepsTruth
<1>5. CASE /\ process' = [process EXCEPT ![next].cut = TRUE]
           /\ Return(0, TRUE)
  <2>1. process'[next].cut = TRUE /\ outcome'.err = TRUE
    BY <1>2, <1>3, <1>5 DEF Return, ProcessType
  <2>2. Watched' /\ OutcomeIsTrue' /\ Excused(next)'
    BY <1>1, <2>1 DEF Watched, OutcomeIsTrue, Excused
  <2>3. Noted
    BY <1>5 DEF Noted
  <2> QED
    BY <1>1, <1>2, <2>2, <2>3, NotedKeepsTruth
<1> QED
  BY <1>4, <1>5 DEF KubernetesStreamEnds

(* Flags and text are stored as the writer has them, before the status     *)
(* (manager.go:313-321).                                                   *)
LEMMA RecordPartKeepsTruth ==
  ASSUME IInv, Truth, RecordFlags \/ RecordText
  PROVE  Truth'
<1>1. /\ UNCHANGED <<request, backend, next, process, outcome>>
      /\ UNCHANGED <<taken, buf, truncated>>
      /\ at \in {"returned", "storing"} /\ at' \in {"storing", "stored"}
  BY DEF RecordFlags, RecordText, RecordStep, input, writer
<1>2. Commands' = Commands /\ next \in Commands
  BY <1>1, SameLimits DEF IInv, OnlyStarted, Executing
<1>3. result \in [Commands -> ResultType] /\ result[next].status = "queued"
  <2>1. result \in [Commands -> ResultType]
    BY TypesInParts DEF IInv, ResultsOK
  <2>2. next \in Nat
    BY <1>2, RequestTypes DEF IInv
  <2> QED
    BY <1>1, <1>2, <2>1, <2>2 DEF IInv, ResultsInOrder, Executing
<1>4. /\ result'[next].status = "queued"
      /\ \A i \in Commands \ {next} : result'[i] = result[i]
      /\ result'[next].truncated = truncated
      /\ result'[next].code = outcome.code
      /\ at' = "stored" => result'[next].text = buf
  <2>1. CASE RecordFlags
    BY <1>2, <1>3, <2>1 DEF RecordFlags, RecordStep, ResultType
  <2>2. CASE RecordText
    <3>1. /\ at = "storing" /\ result[next].truncated = truncated
          /\ result[next].code = outcome.code
      BY <2>2 DEF RecordText, Truth, Recorded
    <3> QED
      BY <1>2, <1>3, <2>2, <3>1 DEF RecordText, RecordStep, ResultType
  <2> QED
    BY <2>1, <2>2
<1>5. \A i \in Commands : TrueOf(i)'
  <2> SUFFICES ASSUME NEW i \in Commands PROVE TrueOf(i)'
    OBVIOUS
  <2>1. LeftBehind(i)' => LeftBehind(i)
    BY <1>1 DEF LeftBehind, Returned
  <2>2. TrueOf(i) /\ process'[i] = process[i]
    BY <1>1 DEF Truth
  <2>3. CASE i = next
    <3>1. Timely(i)' /\ Followed(i)'
      BY <1>1, <2>1, <2>2, SameProcessIsKept DEF TrueOf
    <3>2. StatusTrue(i)' /\ Whole(i)'
      BY <1>4, <2>3 DEF StatusTrue, Whole
    <3> QED
      BY <3>1, <3>2 DEF TrueOf
  <2>4. CASE i # next
    BY <1>1, <1>4, <2>1, <2>2, <2>4, SameKeepsTruth
  <2> QED
    BY <2>3, <2>4
<1>6. Watched' /\ Recorded'
  BY <1>1, <1>4 DEF Watched, Recorded
<1>7. OutcomeIsTrue'
  BY <1>1 DEF Truth, OutcomeIsTrue, Returned
<1> QED
  BY <1>2, <1>5, <1>6, <1>7 DEF Truth

(* What the captured beginning of an output amounts to                     *)
(* (manager.go:464-493).                                                   *)
LEMMA CapturedLength ==
  ASSUME TypeOK, CapturedPrefix
  PROVE  Len(buf) = IF truncated THEN MaxBytes ELSE taken
<1>1. taken \in Nat /\ MaxBytes \in Nat
  BY TypesInParts, ConfigAssumption DEF Scalars
<1>2. Least(taken, MaxBytes) \in Nat
  BY <1>1 DEF Least
<1>3. Len(buf) = Least(taken, MaxBytes)
  BY <1>2, Ascending DEF CapturedPrefix
<1>4. truncated <=> taken > MaxBytes
  BY DEF CapturedPrefix
<1> QED
  BY <1>1, <1>3, <1>4 DEF Least

(* The status that is recorded is what became of the process, and a        *)
(* completed one was taken whole (manager.go:323-361, 432-440).            *)
LEMMA RecordStatusKeepsTruth ==
  ASSUME IInv, Truth, RecordStatus
  PROVE  Truth'
<1>1. /\ UNCHANGED <<request, backend, process>>
      /\ at = "stored"
      /\ \/ at' = "failing" /\ next' = next
         \/ at' = "loop" /\ next' = next + 1
      /\ result' = [result EXCEPT ![next].status = Status]
  BY DEF RecordStatus, RecordStep, input
<1>2. /\ Commands' = Commands /\ next \in Commands
      /\ Commands \subseteq Nat /\ next \in Nat
  BY <1>1, SameLimits, RequestTypes DEF IInv, OnlyStarted, Executing
<1>3. /\ result \in [Commands -> ResultType] /\ process[next] \in ProcessType
      /\ outcome.err \in BOOLEAN
  BY <1>2, TypesInParts DEF IInv, ResultsOK, ProcessesOK, TypeOK
<1>4. /\ result'[next].status = Status
      /\ result'[next].text = result[next].text
      /\ result'[next].truncated = result[next].truncated
      /\ result'[next].code = result[next].code
      /\ \A i \in Commands \ {next} : result'[i] = result[i]
  BY <1>1, <1>2, <1>3 DEF ResultType
<1>5. /\ outcome.err => \/ process[next].stage = "none"
                        \/ process[next].left # "no"
                        \/ backend = "kubernetes" /\ process[next].cut
      /\ ~outcome.err =>
           /\ process[next].stage \in {"exited", "expired", "killed"}
           /\ outcome.code = process[next].code
           /\ ~process[next].cut => taken = process[next].printed
  BY <1>1 DEF Truth, OutcomeIsTrue, Returned
<1>6. Timely(next) /\ TrueOf(next)
  BY <1>2 DEF Truth, TrueOf
<1>7. /\ Status = "completed" => ~outcome.err /\ outcome.code = 0
      /\ Status = "timed_out" => ~outcome.err /\ outcome.code \in {124, 137}
      /\ Status = "failed" => outcome.err \/ outcome.code \notin {0, 124, 137}
  BY <1>3 DEF Status, TimedOut
<1>8. \A i \in Commands : TrueOf(i)'
  <2> SUFFICES ASSUME NEW i \in Commands PROVE TrueOf(i)'
    OBVIOUS
  <2>1. LeftBehind(i)' => LeftBehind(i)
    BY <1>1, <1>2 DEF LeftBehind, Returned
  <2>2. TrueOf(i) /\ process'[i] = process[i]
    BY <1>1 DEF Truth
  <2>3. CASE i = next
    <3>1. Timely(i)' /\ Followed(i)'
      BY <1>1, <2>1, <2>2, SameProcessIsKept DEF TrueOf
    <3>2. Asked(i)' = Asked(i) /\ Asked(i) \in Nat /\ Limit(i) \in Nat
          /\ Limit(i) >= Asked(i)
      BY <1>1, SameLimits, LimitCovers DEF IInv
    <3>3. StatusTrue(i)'
      <4>1. Status = "completed" =>
              process[i].stage = "exited" /\ process[i].code = 0
        BY <1>5, <1>6, <1>7, <2>3 DEF Timely
      <4>2. Status = "timed_out" =>
              \/ process[i].stage = "killed"
              \/ process[i].stage = "expired" /\ process[i].ran >= Asked(i)
              \/ process[i].stage = "exited" /\ process[i].code \in {124, 137}
        <5>1. process[i].ran \in Nat
          BY <1>3, <2>3 DEF ProcessType
        <5> QED
          BY <1>5, <1>6, <1>7, <2>3, <3>2, <5>1 DEF Timely
      <4>3. Status = "failed" =>
              \/ process[i].stage = "none"
              \/ process[i].stage = "exited" /\ process[i].code # 0
              \/ process[i].left # "no"
              \/ process[i].cut /\ backend = "kubernetes"
        BY <1>5, <1>6, <1>7, <2>3 DEF Timely
      <4>4. Status \in {"completed", "timed_out"} =>
              result'[i].code = process[i].code
        BY <1>1, <1>4, <1>5, <1>7, <2>3 DEF Truth, Recorded
      <4>5. result'[i].status = Status
        BY <1>4, <2>3
      <4> QED
        BY <1>1, <2>2, <3>2, <4>1, <4>2, <4>3, <4>4, <4>5 DEF StatusTrue
    <3>4. Whole(i)'
      <4>1. Status = "completed" /\ ~process[i].cut => taken = process[i].printed
        BY <1>5, <1>7, <2>3
      <4>2. result[i].text = buf /\ result[i].truncated = truncated
        BY <1>1, <2>3 DEF Truth, Recorded
      <4>3. Len(buf) = IF truncated THEN MaxBytes ELSE taken
        BY CapturedLength DEF IInv
      <4> QED
        BY <1>4, <2>2, <2>3, <4>1, <4>2, <4>3 DEF Whole
    <3> QED
      BY <3>1, <3>3, <3>4 DEF TrueOf
  <2>4. CASE i # next
    BY <1>1, <1>4, <2>1, <2>2, <2>4, SameKeepsTruth
  <2> QED
    BY <2>3, <2>4
<1>9. Watched' /\ OutcomeIsTrue' /\ Recorded'
  BY <1>1 DEF Watched, OutcomeIsTrue, Recorded, Returned
<1> QED
  BY <1>2, <1>8, <1>9 DEF Truth

(* A denied command was not started, and is told to have failed            *)
(* (manager.go:296-302).                                                   *)
LEMMA RefusalKeepsTruth ==
  ASSUME IInv, Truth, Deny \/ RefusalEnds \/ RefusalCoded
  PROVE  Truth'
<1>1. /\ UNCHANGED <<request, backend, next, process>>
      /\ at' \notin Executing
  BY DEF Deny, RefusalEnds, RefusalCoded, RecordStep, input, Executing
<1>2. Commands' = Commands
  BY <1>1, SameLimits
<1>3. next \in Commands /\ result \in [Commands -> ResultType]
  BY TypesInParts
     DEF Deny, RefusalEnds, RefusalCoded, IInv, ResultsInOrder, ResultsOK, Refusing
<1>4. PICK r \in ResultType : r = result[next]
  BY <1>3
<1>5. /\ result'[next].status = "failed"
      /\ \A i \in Commands \ {next} : result'[i] = result[i]
      /\ \/ result[next].status = "failed"
         \/ process[next].stage = "none"
  <2>1. CASE Deny
    <3>1. process[next].stage = "none"
      BY <1>3, <2>1 DEF Deny, IInv, TypeOK, OnlyStarted, Started
    <3>2. result' = [result EXCEPT ![next] = [r EXCEPT !.status = "failed",
                                                       !.endedAt = Torn]]
      BY <1>4, <2>1 DEF Deny, RecordStep
    <3> QED
      BY <1>3, <3>1, <3>2 DEF ResultType
  <2>2. CASE RefusalEnds \/ RefusalCoded
    <3>1. r.status = "failed"
      BY <1>4, <2>2 DEF RefusalEnds, RefusalCoded, IInv, ResultsInOrder, Refusing
    <3>2. \/ result' = [result EXCEPT ![next] = [r EXCEPT !.endedAt = "set"]]
          \/ result' = [result EXCEPT ![next] = [r EXCEPT !.code = 1]]
      BY <1>4, <2>2 DEF RefusalEnds, RefusalCoded, RecordStep
    <3> QED
      BY <1>3, <1>4, <3>1, <3>2 DEF ResultType
  <2> QED
    BY <2>1, <2>2
<1>6. \A i \in Commands : TrueOf(i)'
  <2> SUFFICES ASSUME NEW i \in Commands PROVE TrueOf(i)'
    OBVIOUS
  <2>1. LeftBehind(i)' => LeftBehind(i)
    BY <1>1 DEF LeftBehind, Returned, Executing
  <2>2. TrueOf(i) /\ process'[i] = process[i]
    BY <1>1 DEF Truth
  <2>3. CASE i = next
    <3>1. Timely(i)' /\ Followed(i)'
      BY <1>1, <2>1, <2>2, SameProcessIsKept DEF TrueOf
    <3>2. StatusTrue(i)' /\ Whole(i)'
      BY <1>1, <1>5, <2>2, <2>3 DEF TrueOf, StatusTrue, Whole
    <3> QED
      BY <3>1, <3>2 DEF TrueOf
  <2>4. CASE i # next
    BY <1>1, <1>5, <2>1, <2>2, <2>4, SameKeepsTruth
  <2> QED
    BY <2>3, <2>4
<1>7. Watched' /\ OutcomeIsTrue' /\ Recorded'
  BY <1>1 DEF Watched, OutcomeIsTrue, Recorded, Executing, Returned
<1> QED
  BY <1>2, <1>6, <1>7 DEF Truth

(* Nothing executes and nothing is recorded when the run is submitted      *)
(* (manager.go:107-148).                                                   *)
LEMMA TruthAtFirst == Init => Truth
<1> SUFFICES ASSUME Init PROVE Truth
  OBVIOUS
<1>1. /\ at = "locked"
      /\ process = [i \in Commands |-> NoProcess]
      /\ result = [i \in Commands |-> NoResult]
  BY DEF Init, Commands
<1>2. \A i \in Commands : TrueOf(i)
  BY <1>1 DEF TrueOf, Timely, Followed, StatusTrue, Whole, Running, NoProcess,
              NoResult
<1>3. Watched /\ OutcomeIsTrue /\ Recorded
  BY <1>1 DEF Watched, OutcomeIsTrue, Recorded, Returned
<1> QED
  BY <1>2, <1>3 DEF Truth

(* Every step keeps the truth (manager.go:197-394).                        *)
LEMMA StepKeepsTruth == IInv /\ Truth /\ [Next]_vars => Truth'
<1> SUFFICES ASSUME IInv, Truth, [Next]_vars PROVE Truth'
  OBVIOUS
<1>1. CASE Sandbox \/ Process
  BY <1>1, EnvironmentKeepsTruth
<1>2. CASE Deliver
  BY <1>2, DeliverKeepsTruth
<1>3. CASE Prepare \/ PrepareFails \/ FailRun \/ LoopEnds \/ Settle
  <2>1. /\ UNCHANGED <<request, backend, next, process, result>>
        /\ at' \notin Executing
    BY <1>3 DEF Prepare, PrepareFails, FailRun, LoopEnds, Settle, Conclude,
                Executing, input
  <2> QED
    BY <2>1, AsideKeepsTruth
<1>4. CASE StartCommand
  BY <1>4, StartCommandKeepsTruth
<1>5. CASE StartFails
  BY <1>5, StartFailsKeepsTruth
<1>6. CASE DockerStreamEnds
  BY <1>6, DockerStreamEndsKeepsTruth
<1>7. CASE Inspect
  BY <1>7, InspectKeepsTruth
<1>8. CASE KubernetesStreamEnds
  BY <1>8, KubernetesStreamEndsKeepsTruth
<1>9. CASE RecordFlags \/ RecordText
  BY <1>9, RecordPartKeepsTruth
<1>10. CASE RecordStatus
  BY <1>10, RecordStatusKeepsTruth
<1>11. CASE StreamHangs
  BY <1>11, StreamHangsKeepsTruth
<1>12. CASE Deny \/ RefusalEnds \/ RefusalCoded
  BY <1>12, RefusalKeepsTruth
<1>13. CASE UNCHANGED vars
  <2>1. /\ UNCHANGED <<request, backend, at, next, deadline, outcome, result>>
        /\ UNCHANGED <<process, taken, buf, truncated>>
    BY <1>13 DEF vars, input, loop, record, writer
  <2>2. Commands' = Commands
    BY <2>1, SameLimits
  <2>3. \A i \in Commands : TrueOf(i)'
    <3> SUFFICES ASSUME NEW i \in Commands PROVE TrueOf(i)'
      OBVIOUS
    <3>1. LeftBehind(i)' => LeftBehind(i)
      BY <2>1 DEF LeftBehind
    <3>2. TrueOf(i) /\ process'[i] = process[i] /\ result'[i] = result[i]
      BY <2>1 DEF Truth
    <3> QED
      BY <2>1, <3>1, <3>2, SameKeepsTruth
  <2>4. Watched' /\ OutcomeIsTrue' /\ Recorded'
    BY <2>1 DEF Truth, Watched, OutcomeIsTrue, Recorded, Started, Running
  <2> QED
    BY <2>2, <2>3, <2>4 DEF Truth
<1> QED
  BY <1>1, <1>2, <1>3, <1>4, <1>5, <1>6, <1>7, <1>8, <1>9, <1>10, <1>11,
     <1>12, <1>13 DEF Next, Goroutine

(* Along every execution, from the start of a process to what is told of   *)
(* it (manager.go:286-361, 403-440; docker_executor.go:33-80).             *)
LEMMA TruthHolds == SafetySpec => []Truth
<1>1. Init => Truth
  BY TruthAtFirst
<1>2. IInv /\ Truth /\ [Next]_vars => Truth'
  BY StepKeepsTruth
<1> QED
  BY <1>1, <1>2, InvariantHolds, PTL DEF SafetySpec

(* The status of a command says what has become of its process, for every  *)
(* time limit, backend and fault: completed is never said of one that was  *)
(* killed or lost sight of, and timed out never of one that had less than  *)
(* its time and was not killed with its sandbox (manager.go:432-440).      *)
THEOREM StatusIsTrueHolds == SafetySpec => []StatusIsTrue
<1>1. Truth => StatusIsTrue
  BY DEF Truth, TrueOf, StatusIsTrue
<1> QED
  BY <1>1, TruthHolds, PTL

(* The recorded output of a command that completed is all of it, or its    *)
(* beginning, as long as the limit admits, and marked (manager.go:464-493; *)
(* docker_executor.go:53).                                                 *)
THEOREM WholeOrMarkedHolds == SafetySpec => []WholeOrMarked
<1>1. Truth => WholeOrMarked
  BY DEF Truth, TrueOf, WholeOrMarked
<1> QED
  BY <1>1, TruthHolds, PTL

(* A command starts when the one before has ended, unless its executor     *)
(* lost sight of it or it may run longer than waitDockerExec waits         *)
(* (docker_executor.go:55-80; kubernetes_executor.go:53-61).               *)
THEOREM OneAtATimeHolds == SafetySpec => []OneAtATime
<1>1. IInv /\ Truth => OneAtATime
  <2> SUFFICES ASSUME IInv, Truth, NEW i \in Commands, NEW j \in Commands,
                      i < j, Running(i), process[j].stage # "none"
               PROVE  Excused(i)
    BY DEF OneAtATime
  <2>1. j <= next
    BY DEF IInv, OnlyStarted, Started
  <2>2. i \in Nat /\ j \in Nat /\ next \in Nat
    <3>1. Commands \subseteq Nat
      BY RequestTypes DEF IInv
    <3> QED
      BY <3>1 DEF IInv, TypeOK
  <2>3. i < next
    BY <2>1, <2>2
  <2> QED
    BY <2>3 DEF Truth, TrueOf, Followed, LeftBehind
<1> QED
  BY <1>1, InvariantHolds, TruthHolds, PTL

-----------------------------------------------------------------------------
(***************************************************************************)
(* Nobody takes the sandbox of a run away without cause.                   *)
(*                                                                         *)
(* TakenForCause speaks of the sandbox only. What keeps it is that nobody  *)
(* is about to delete it, and that its expiry is not before the time that  *)
(* was asked for: the reaper cannot begin any earlier.                     *)
(***************************************************************************)
SandboxKept ==
  ~disturbed /\ owed > 0 =>
    /\ sandbox = sbx /\ sandbox # 0 /\ ~stopped
    /\ deleter = "none" /\ remaining >= owed

(* The other steps leave the sandbox and the time alone.                   *)
LEMMA UntouchedIsKept ==
  ASSUME SandboxKept, UNCHANGED <<sandbox, sbx, remaining, owed, deleter>>,
         stopped' = stopped, disturbed' = disturbed
  PROVE  SandboxKept'
  BY DEF SandboxKept

(* Each step of the run, of the clock, of the reaper and of other requests *)
(* (sandbox/manager.go:90-178, 517-540; manager.go:213-263).               *)
LEMMA StepKeepsSandbox == IInv /\ SandboxKept /\ [Next]_vars => SandboxKept'
<1> SUFFICES ASSUME IInv, SandboxKept, [Next]_vars PROVE SandboxKept'
  OBVIOUS
<1> USE DEF input, place, deletion, lease, loop, record, writer
<1>0. /\ sandbox \in Nat /\ created \in Nat /\ sbx \in Nat
      /\ remaining \in Nat /\ owed \in Nat
  BY TypesInParts DEF IInv, Scalars
<1>1. CASE OtherEnsure
  <2>1. PICK ttl \in OtherTTLs :
          Ensured(ttl) /\ disturbed' = (disturbed \/ ttl < owed)
    BY <1>1 DEF OtherEnsure
  <2>2. ttl \in Nat
    BY WorldAssumption
  <2>3. UNCHANGED <<sbx, owed, deleter>>
    BY <1>1 DEF OtherEnsure
  <2>4. ~disturbed' => ~disturbed /\ ~(ttl < owed)
    BY <2>1
  <2>5. remaining' = ttl /\ ~stopped' /\ (sandbox # 0 => sandbox' = sandbox)
    BY <2>1 DEF Ensured
  <2> QED
    BY <1>0, <2>2, <2>3, <2>4, <2>5 DEF SandboxKept
<1>2. CASE OtherDelete
  BY <1>2 DEF OtherDelete, SandboxKept
<1>3. CASE Look
  BY <1>0, <1>3 DEF Look, SandboxKept
<1>4. CASE Deletion
  BY <1>4 DEF Deletion, Stop, Remove, SandboxKept
<1>5. CASE Tick
  BY <1>0, <1>5 DEF Tick, Less, SandboxKept
<1>6. CASE Prepare
  <2>1. request.ttl \in Nat
    BY RequestTypes DEF IInv
  <2>2. /\ sbx' = sandbox' /\ owed' = request.ttl /\ deleter' = deleter
        /\ disturbed' = (deleter # "none") /\ Ensured(request.ttl)
    BY <1>6 DEF Prepare
  <2>3. ~disturbed' => deleter = "none"
    BY <2>2
  <2>4. remaining' = request.ttl /\ ~stopped' /\ sandbox' # 0
    BY <1>0, <2>2 DEF Ensured
  <2> QED
    BY <2>1, <2>2, <2>3, <2>4 DEF SandboxKept
<1>7. CASE \/ Process \/ Deliver \/ PrepareFails \/ StartCommand \/ StartFails
           \/ StreamHangs \/ DockerStreamEnds \/ Inspect
           \/ KubernetesStreamEnds
  <2>1. /\ UNCHANGED <<sandbox, sbx, remaining, owed, deleter>>
        /\ stopped' = stopped /\ disturbed' = disturbed
    BY <1>7 DEF Process, Exit, Expire, FallSilent, ProcessStep, Deliver,
                PrepareFails, StartCommand, StartFails, StreamHangs,
                DockerStreamEnds, Inspect, KubernetesStreamEnds
  <2> QED
    BY <2>1, UntouchedIsKept
<1>8. CASE \/ RecordFlags \/ RecordText \/ RecordStatus \/ Deny \/ RefusalEnds
           \/ RefusalCoded \/ FailRun \/ LoopEnds \/ Settle \/ UNCHANGED vars
  <2>1. /\ UNCHANGED <<sandbox, sbx, remaining, owed, deleter>>
        /\ stopped' = stopped /\ disturbed' = disturbed
    BY <1>8 DEF RecordFlags, RecordText, RecordStatus, RecordStep, Deny,
                RefusalEnds, RefusalCoded, FailRun, LoopEnds, Settle, Conclude, vars
  <2> QED
    BY <2>1, UntouchedIsKept
<1> QED
  BY <1>1, <1>2, <1>3, <1>4, <1>5, <1>6, <1>7, <1>8
     DEF Next, Sandbox, Goroutine

(* The sandbox of a run is there, running, until the time is over that the *)
(* run has asked for, unless somebody has asked for less or for its        *)
(* deletion, however Ensure, Delete and ReapOnce are interleaved           *)
(* (sandbox/manager.go:90-178, 517-540).                                   *)
THEOREM TakenForCauseHolds == SafetySpec => []TakenForCause
<1>1. Init => SandboxKept
  BY DEF Init, SandboxKept
<1>2. IInv /\ SandboxKept /\ [Next]_vars => SandboxKept'
  BY StepKeepsSandbox
<1>3. SandboxKept => TakenForCause
  BY DEF SandboxKept, TakenForCause
<1> QED
  BY <1>1, <1>2, <1>3, InvariantHolds, PTL DEF SafetySpec

-----------------------------------------------------------------------------
(***************************************************************************)
(* Refinement: the run executes its commands as the command loop promises. *)
(* A command is handed over when StartCommand or StartFails leaves the     *)
(* head of the loop, and returns with RecordStatus; what happens between,  *)
(* and in the sandbox, is not seen.                                        *)
(***************************************************************************)

(* What is behind the loop has a result.                                   *)
InTurn == \A i \in Commands : i < next => result[i].status # "queued"

StatusSeen == [i \in Commands |-> result[i].status]
FailedSeen == \/ failure \/ state = "failed"
              \/ at \in Refusing \cup {"failing"}

LEMMA LoopQuiet ==
  ASSUME request' = request, LoopPhase' = LoopPhase, StatusSeen' = StatusSeen,
         FailedSeen' = FailedSeen, state' = state
  PROVE  UNCHANGED Promise!vars
<1>1. AsPromised(request)' = AsPromised(request)
  BY DEF AsPromised
<1> QED
  BY <1>1 DEF Promise!vars, StatusSeen, FailedSeen

(* A step elsewhere, or one of Exec's: nothing of the loop changes.        *)
LEMMA SameLoop ==
  ASSUME UNCHANGED <<request, next, result, state>>, failure' = failure,
         \/ at' = at
         \/ at \in Executing /\ at' \in Executing
  PROVE  UNCHANGED Promise!vars /\ (InTurn => InTurn')
<1>1. LoopPhase' = LoopPhase /\ Commands' = Commands
  BY DEF LoopPhase, Executing, Commands
<1>2. StatusSeen' = StatusSeen /\ FailedSeen' = FailedSeen
  BY <1>1 DEF StatusSeen, FailedSeen, Executing, Refusing
<1>3. InTurn => InTurn'
  BY <1>1 DEF InTurn, Executing
<1> QED
  BY <1>1, <1>2, <1>3, LoopQuiet

(* While the loop has a command, it is the turn of that one.               *)
LEMMA NextHasTurn ==
  ASSUME IInv, InTurn, next \in Commands, at \in {"loop"} \cup Executing
  PROVE  Promise!Turn(next)
<1>1. Commands = 1 .. Len(request.commands) /\ Len(request.commands) \in Nat
  BY RequestTypes DEF IInv
<1>2. result[next].status = "queued"
  BY <1>1 DEF IInv, ResultsInOrder
<1>3. \A j \in 1 .. next - 1 : j \in Commands /\ result[j].status # "queued"
  BY <1>1 DEF InTurn
<1> QED
  BY <1>2, <1>3 DEF Promise!Turn

LEMMA PromisedCommand ==
  ASSUME IInv, NEW i \in Commands
  PROVE  /\ AsPromised(request).commands[i].denied = Denied(i)
         /\ AsPromised(request).commands[i].allowFailure
              = request.commands[i].allowFailure
         /\ AsPromised(request).continueOnError = request.continueOnError
BY DEF AsPromised, Commands, Denied

(* The ways into the loop and to its end (manager.go:213-263, 363-386).    *)
LEMMA EndsAreLoop ==
  ASSUME IInv, InTurn,
         Prepare \/ PrepareFails \/ FailRun \/ LoopEnds \/ Settle
  PROVE  [Promise!Next]_(Promise!vars) /\ InTurn'
<1>1. /\ UNCHANGED <<request, next, result>> /\ failure' = failure
  BY DEF Prepare, PrepareFails, FailRun, LoopEnds, Settle, Conclude, input
<1>2. /\ Commands' = Commands /\ StatusSeen' = StatusSeen
      /\ AsPromised(request)' = AsPromised(request)
  BY <1>1 DEF Commands, StatusSeen, AsPromised
<1>3. at' \notin Refusing \cup {"failing"}
  BY DEF Prepare, PrepareFails, FailRun, LoopEnds, Settle, Conclude, Refusing
<1>4. InTurn'
  BY <1>1, <1>2 DEF InTurn
<1>5. state \in Settled => at \in {"extracting", "over"}
  BY DEF IInv, ResultsInOrder
<1>6. CASE Prepare
  <2>1. at = "locked" /\ at' = "loop" /\ state' = "running"
    BY <1>6 DEF Prepare
  <2>2. FailedSeen' = FailedSeen
    BY <1>1, <1>3, <1>5, <2>1 DEF FailedSeen, Settled, Refusing
  <2>3. Promise!Begin
    BY <1>1, <1>2, <2>1, <2>2
       DEF Promise!Begin, LoopPhase, Executing, StatusSeen, FailedSeen
  <2> QED
    BY <1>4, <2>3 DEF Promise!Next
<1>7. CASE PrepareFails
  <2>1. at = "locked" /\ at' = "over" /\ state' = "failed"
    BY <1>7 DEF PrepareFails
  <2>2. Promise!CannotBegin
    BY <1>1, <1>2, <2>1
       DEF Promise!CannotBegin, LoopPhase, Executing, StatusSeen
  <2> QED
    BY <1>4, <2>2 DEF Promise!Next
<1>8. CASE LoopEnds
  <2>1. at = "loop" /\ at' = "extracting" /\ state' = state /\ next \notin Commands
    BY <1>8 DEF LoopEnds, Conclude
  <2>2. \A i \in Commands : result[i].status # "queued"
    <3>1. Commands = 1 .. Len(request.commands) /\ Len(request.commands) \in Nat
          /\ next \in 1 .. Len(request.commands) + 1
      BY RequestTypes DEF IInv, TypeOK
    <3> QED
      BY <2>1, <3>1 DEF InTurn
  <2>3. Promise!EndLoop
    BY <1>1, <1>2, <2>1, <2>2
       DEF Promise!EndLoop, LoopPhase, Executing, StatusSeen, Refusing
  <2> QED
    BY <1>4, <2>3 DEF Promise!Next
<1>9. CASE FailRun
  <2>1. at = "failing" /\ at' = "extracting" /\ state' = "failed"
    BY <1>9 DEF FailRun, Conclude
  <2>2. Promise!Settle
    BY <1>1, <1>2, <2>1
       DEF Promise!Settle, LoopPhase, Executing, StatusSeen
  <2> QED
    BY <1>4, <2>2 DEF Promise!Next
<1>10. CASE Settle
  <2>1. /\ at = "extracting" /\ at' = "over"
        /\ state' = IF state = "failed" \/ failure THEN "failed" ELSE "completed"
    BY <1>10 DEF Settle, Conclude
  <2>2. FailedSeen' <=> FailedSeen
    BY <1>1, <1>3, <2>1 DEF FailedSeen, Refusing
  <2>3. /\ FailedSeen \in BOOLEAN /\ FailedSeen' \in BOOLEAN
        /\ FailedSeen <=> state = "failed" \/ failure
    BY <1>1, <2>1 DEF FailedSeen, IInv, TypeOK, Refusing
  <2>4. Promise!Settle
    BY <1>1, <1>2, <2>1, <2>2, <2>3
       DEF Promise!Settle, LoopPhase, Executing, StatusSeen, FailedSeen
  <2> QED
    BY <1>4, <2>4 DEF Promise!Next
<1> QED
  BY <1>6, <1>7, <1>8, <1>9, <1>10

(* A command is handed over, whether it starts or not (manager.go:313).    *)
LEMMA StartsAreExecute ==
  ASSUME IInv, InTurn, StartCommand \/ StartFails
  PROVE  [Promise!Next]_(Promise!vars) /\ InTurn'
<1>1. /\ UNCHANGED <<request, next, result, state>> /\ failure' = failure
      /\ at = "loop" /\ at' \in Executing /\ next \in Commands
      /\ ~Denied(next)
  BY DEF StartCommand, StartFails, Return, input, record, Executing
<1>2. /\ Commands' = Commands /\ StatusSeen' = StatusSeen
      /\ AsPromised(request)' = AsPromised(request)
  BY <1>1 DEF Commands, StatusSeen, AsPromised
<1>3. InTurn' /\ FailedSeen' = FailedSeen
  BY <1>1, <1>2 DEF InTurn, FailedSeen, Executing, Refusing
<1>4. Promise!Turn(next)
  BY <1>1, NextHasTurn
<1>5. LoopPhase = "loop" /\ LoopPhase' = "executing"
  BY <1>1 DEF LoopPhase, Executing
<1>6. ~Promise!Denied(next)
  BY <1>1, PromisedCommand DEF Promise!Denied
<1>7. Promise!Execute(next)
  BY <1>1, <1>2, <1>3, <1>4, <1>5, <1>6
     DEF Promise!Execute, StatusSeen, FailedSeen
<1> QED
  BY <1>1, <1>3, <1>7 DEF Promise!Next

(* The flags and the text of a result are not seen (manager.go:314-325).   *)
LEMMA RecordPartIsUnseen ==
  ASSUME IInv, InTurn, RecordFlags \/ RecordText
  PROVE  [Promise!Next]_(Promise!vars) /\ InTurn'
<1>1. /\ UNCHANGED <<request, next, state>> /\ failure' = failure
      /\ at \in Executing /\ at' \in Executing
  BY DEF RecordFlags, RecordText, RecordStep, input, Executing
<1>2. Commands' = Commands
  BY <1>1 DEF Commands
<1>3. \A i \in Commands : result'[i].status = result[i].status
  <2>1. result \in [Commands -> ResultType]
    BY TypesInParts DEF IInv, ResultsOK
  <2>2. CASE RecordFlags
    BY <2>1, <2>2 DEF RecordFlags, RecordStep, ResultType
  <2>3. CASE RecordText
    BY <2>1, <2>3 DEF RecordText, RecordStep, ResultType
  <2> QED
    BY <2>2, <2>3
<1>4. StatusSeen' = StatusSeen /\ FailedSeen' = FailedSeen
  BY <1>1, <1>2, <1>3 DEF StatusSeen, FailedSeen, Executing, Refusing
<1>5. LoopPhase' = LoopPhase
  BY <1>1 DEF LoopPhase, Executing
<1>6. InTurn'
  BY <1>1, <1>2, <1>3 DEF InTurn, Executing
<1> QED
  BY <1>1, <1>4, <1>5, <1>6, LoopQuiet

(* A result is given, and the loop goes on or not (manager.go:326-361).    *)
LEMMA RecordStatusIsReturn ==
  ASSUME IInv, InTurn, RecordStatus
  PROVE  [Promise!Next]_(Promise!vars) /\ InTurn'
<1> DEFINE fails == Status # "completed" /\ ~request.commands[next].allowFailure
           stops == fails /\ ~request.continueOnError
<1>1. /\ UNCHANGED <<request, state>> /\ at = "stored"
      /\ failure' = (failure \/ fails)
      /\ at' = IF stops THEN "failing" ELSE "loop"
      /\ next' = IF stops THEN next ELSE next + 1
      /\ result' = [result EXCEPT ![next] = [result[next] EXCEPT !.status = Status]]
  BY DEF RecordStatus, RecordStep, input
<1>2. /\ Commands' = Commands
      /\ AsPromised(request)' = AsPromised(request)
  BY <1>1 DEF Commands, AsPromised
<1>3. next \in Commands /\ state # "failed"
  BY <1>1 DEF IInv, OnlyStarted, ResultsInOrder, Executing, Settled
<1>4. Status \in {"completed", "failed", "timed_out"}
  BY DEF Status
<1>5. /\ result'[next].status = Status
      /\ \A i \in Commands : i # next => result'[i] = result[i]
  <2>1. result \in [Commands -> ResultType]
    BY TypesInParts DEF IInv, ResultsOK
  <2> QED
    BY <1>1, <1>3, <2>1 DEF ResultType
<1> HIDE DEF fails
<1>6. StatusSeen' = [StatusSeen EXCEPT ![next] = Status]
  BY <1>2, <1>3, <1>5 DEF StatusSeen
<1>7. InTurn'
  <2>1. Commands \subseteq Nat /\ next \in Nat
    BY <1>3, RequestTypes DEF IInv
  <2>2. ASSUME NEW i \in Commands, i < next' PROVE result'[i].status # "queued"
    <3>1. i = next \/ i < next
      BY <1>1, <2>1, <2>2
    <3> QED
      BY <1>4, <1>5, <3>1 DEF InTurn
  <2> QED
    BY <1>2, <2>2 DEF InTurn
<1>8. LoopPhase = "executing" /\ LoopPhase' = IF stops THEN "past" ELSE "loop"
  BY <1>1 DEF LoopPhase, Executing
<1>9. Promise!Turn(next)
  BY <1>1, <1>3, NextHasTurn DEF Executing
<1>10. Promise!Spoils(next, Status) <=> fails
  BY <1>3, PromisedCommand DEF Promise!Spoils, fails
<1>11. FailedSeen' = (FailedSeen \/ Promise!Spoils(next, Status))
  BY <1>1, <1>3, <1>10 DEF FailedSeen, Refusing
<1>12. Promise!Return(next, Status)
  <2>1. AsPromised(request).continueOnError = request.continueOnError
    BY <1>3, PromisedCommand
  <2> QED
    BY <1>1, <1>2, <1>6, <1>8, <1>9, <1>10, <1>11, <2>1
       DEF Promise!Return, StatusSeen, FailedSeen
<1>13. Promise!Next
  <2>1. PICK s \in {"completed", "failed", "timed_out"} : s = Status
    BY <1>4
  <2>2. Promise!Return(next, s)
    BY <1>12, <2>1 DEF Promise!Return, Promise!Spoils
  <2>3. next \in DOMAIN StatusSeen
    BY <1>3 DEF StatusSeen
  <2> QED
    BY <2>2, <2>3 DEF Promise!Next, StatusSeen
<1> QED
  BY <1>7, <1>13

(* A denied command is refused, and its status says so at once             *)
(* (manager.go:296-297); the rest of its result is not seen.               *)
LEMMA DenyIsRefuse ==
  ASSUME IInv, InTurn, Deny
  PROVE  [Promise!Next]_(Promise!vars) /\ InTurn'
<1>1. /\ UNCHANGED <<request, next, state>> /\ failure' = failure
      /\ at = "loop" /\ at' = "refusing" /\ next \in Commands /\ Denied(next)
      /\ result' = [result EXCEPT ![next] =
                      [result[next] EXCEPT !.status = "failed", !.endedAt = Torn]]
  BY DEF Deny, RecordStep, input
<1>2. /\ Commands' = Commands
      /\ AsPromised(request)' = AsPromised(request)
  BY <1>1 DEF Commands, AsPromised
<1>3. /\ result'[next].status = "failed"
      /\ \A i \in Commands : i # next => result'[i] = result[i]
  <2>1. result \in [Commands -> ResultType]
    BY TypesInParts DEF IInv, ResultsOK
  <2> QED
    BY <1>1, <2>1 DEF ResultType
<1>4. StatusSeen' = [StatusSeen EXCEPT ![next] = "failed"]
  BY <1>2, <1>3 DEF StatusSeen
<1>5. InTurn'
  BY <1>1, <1>2, <1>3 DEF InTurn
<1>6. LoopPhase = "loop" /\ LoopPhase' = "past" /\ FailedSeen' = TRUE
  BY <1>1 DEF LoopPhase, FailedSeen, Executing, Refusing
<1>7. Promise!Turn(next)
  BY <1>1, NextHasTurn
<1>8. Promise!Denied(next)
  BY <1>1, PromisedCommand DEF Promise!Denied
<1>9. Promise!Refuse(next)
  BY <1>1, <1>2, <1>4, <1>6, <1>7, <1>8
     DEF Promise!Refuse, StatusSeen, FailedSeen
<1>10. Promise!Next
  <2>1. PICK i \in DOMAIN StatusSeen : i = next
    BY <1>1 DEF StatusSeen
  <2>2. Promise!Refuse(i)
    BY <1>9, <2>1 DEF Promise!Refuse, Promise!Turn, Promise!Denied
  <2> QED
    BY <2>1, <2>2 DEF Promise!Next, StatusSeen
<1> QED
  BY <1>5, <1>10

LEMMA RefusalIsUnseen ==
  ASSUME IInv, InTurn, RefusalEnds \/ RefusalCoded
  PROVE  [Promise!Next]_(Promise!vars) /\ InTurn'
<1>1. /\ UNCHANGED <<request, next, state>> /\ failure' = failure
      /\ at \in Refusing /\ at' \in Refusing \cup {"failing"}
  BY DEF RefusalEnds, RefusalCoded, RecordStep, input, Refusing
<1>2. Commands' = Commands
  BY <1>1 DEF Commands
<1>3. \A i \in Commands : result'[i].status = result[i].status
  <2>1. result \in [Commands -> ResultType]
    BY TypesInParts DEF IInv, ResultsOK
  <2>2. CASE RefusalEnds
    BY <2>1, <2>2 DEF RefusalEnds, RecordStep, ResultType
  <2>3. CASE RefusalCoded
    BY <2>1, <2>3 DEF RefusalCoded, RecordStep, ResultType
  <2> QED
    BY <2>2, <2>3
<1>4. StatusSeen' = StatusSeen /\ FailedSeen' = FailedSeen
  BY <1>1, <1>2, <1>3 DEF StatusSeen, FailedSeen
<1>5. LoopPhase' = LoopPhase
  BY <1>1 DEF LoopPhase, Executing, Refusing
<1>6. InTurn'
  BY <1>1, <1>2, <1>3 DEF InTurn
<1> QED
  BY <1>1, <1>4, <1>5, <1>6, LoopQuiet

LEMMA LoopStep ==
  IInv /\ InTurn /\ [Next]_vars => [Promise!Next]_(Promise!vars) /\ InTurn'
<1> SUFFICES ASSUME IInv, InTurn, [Next]_vars
             PROVE  [Promise!Next]_(Promise!vars) /\ InTurn'
  OBVIOUS
<1> USE DEF input, loop, record
<1>1. CASE \/ Sandbox \/ Process \/ Deliver \/ StreamHangs \/ UNCHANGED vars
  <2>1. UNCHANGED <<request, next, result, state, at>> /\ failure' = failure
    BY <1>1 DEF Sandbox, Process, OtherEnsure, OtherDelete, Look, Deletion, Stop,
                Remove, Tick, Exit, Expire, FallSilent, ProcessStep, Deliver,
                StreamHangs, vars
  <2> QED
    BY <2>1, SameLoop
<1>2. CASE DockerStreamEnds \/ Inspect \/ KubernetesStreamEnds
  <2>1. /\ UNCHANGED <<request, next, result, state>> /\ failure' = failure
        /\ at \in Executing /\ at' \in Executing
    BY <1>2 DEF DockerStreamEnds, Inspect, KubernetesStreamEnds, Return, Executing
  <2> QED
    BY <2>1, SameLoop
<1> QED
  BY <1>1, <1>2, EndsAreLoop, StartsAreExecute, RecordPartIsUnseen,
     RecordStatusIsReturn, DenyIsRefuse, RefusalIsUnseen DEF Next, Goroutine

(* The run executes its commands as promised, with either executor and     *)
(* whatever becomes of its sandbox: a result comes once, in turn, and not  *)
(* before the command was handed over; nothing follows a failure that      *)
(* stops the run; the verdict is that of the results (manager.go:288-386). *)
THEOREM LoopAsPromisedHolds == SafetySpec => LoopAsPromised
<1>1. ASSUME Init
      PROVE  /\ request \in Requests /\ at = "locked" /\ next = 1
             /\ failure = FALSE /\ state = "queued"
             /\ \A i \in Commands : result[i].status = "queued"
             /\ Len(AsPromised(request).commands) = Len(request.commands)
             /\ Commands = 1 .. Len(request.commands)
             /\ Len(request.commands) \in Nat
  <2>1. request.commands \in Seq(Command)
    BY <1>1, RequestsAssumption DEF Init
  <2>2. /\ Len(request.commands) \in Nat /\ Commands = 1 .. Len(request.commands)
        /\ Len(AsPromised(request).commands) = Len(request.commands)
    BY <2>1, LenProperties DEF AsPromised, Commands
  <2> QED
    BY <1>1, <2>2 DEF Init, NoResult, Commands
<1>2. Init => InTurn
  BY <1>1 DEF InTurn
<1>3. Init => Promise!Init
  <2> SUFFICES ASSUME Init PROVE Promise!Init
    OBVIOUS
  <2>1. StatusSeen = Promise!AllQueued(AsPromised(request))
    BY <1>1 DEF StatusSeen, Promise!AllQueued
  <2>2. LoopPhase = "before"
    BY <1>1 DEF LoopPhase, Executing
  <2>3. Promise!Asked(AsPromised(request))
    BY <2>1, <2>2 DEF Promise!Asked, StatusSeen
  <2>4. FailedSeen = FALSE
    BY <1>1 DEF FailedSeen, Refusing
  <2> QED
    BY <1>1, <2>3, <2>4 DEF Promise!Init, FailedSeen
<1>4. Promise!Init /\ [][Promise!Next]_(Promise!vars) => Promise!Spec
  BY DEF Promise!Spec
<1> QED
  BY <1>2, <1>3, <1>4, LoopStep, InvariantHolds, PTL
     DEF SafetySpec, LoopAsPromised
=============================================================================
