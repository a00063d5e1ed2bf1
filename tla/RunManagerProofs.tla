-------------------------- MODULE RunManagerProofs --------------------------
(***************************************************************************)
(* The safety of RunManager for every set of runs, identifiers and         *)
(* requests and every retention limit, and that it uses its locks as the   *)
(* abstract mutex allows (RunLock) and keeps what the command loop         *)
(* promises (RunLoop).                                                     *)
(***************************************************************************)
EXTENDS RunLock, RunLoop, FiniteSetTheorems, SequenceTheorems, TLAPS

-----------------------------------------------------------------------------
(* What RemoveAt returns: the other elements, in their order. It stands for *)
(* the loop and append of lock.go:42-47.                                    *)
LEMMA RemoveAtProperties ==
  ASSUME NEW S, NEW s \in Seq(S), NEW i \in 1..Len(s)
  PROVE  /\ RemoveAt(s, i) \in Seq(S)
         /\ Len(RemoveAt(s, i)) = Len(s) - 1
         /\ \A j \in 1..(Len(s) - 1) :
               RemoveAt(s, i)[j] = IF j < i THEN s[j] ELSE s[j + 1]
<1> DEFINE a == SubSeq(s, 1, i - 1)
           b == SubSeq(s, i + 1, Len(s))
<1>1. a \in Seq(S) /\ Len(a) = i - 1 /\ \A j \in 1..(i - 1) : a[j] = s[j]
  OBVIOUS
<1>2. b \in Seq(S) /\ Len(b) = Len(s) - i /\ \A j \in 1..(Len(s) - i) : b[j] = s[j + i]
  OBVIOUS
<1> HIDE DEF a, b
<1>3. a \o b \in Seq(S) /\ Len(a \o b) = Len(a) + Len(b)
  BY <1>1, <1>2, ConcatProperties
<1>4. Len(a) + Len(b) = Len(s) - 1
  BY <1>1, <1>2
<1>5. \A j \in 1..(Len(s) - 1) : (a \o b)[j] = IF j < i THEN s[j] ELSE s[j + 1]
  BY <1>1, <1>2
<1> QED
  BY <1>3, <1>4, <1>5 DEF RemoveAt, a, b

(* The head of a non-empty queue is its first element (lock.go:62).        *)
LEMMA HeadIsFirst ==
  ASSUME NEW S, NEW s \in Seq(S), s # <<>>
  PROVE  Head(s) = s[1] /\ Len(s) \in Nat /\ Len(s) >= 1
BY EmptySeq, LenProperties

-----------------------------------------------------------------------------
(***************************************************************************)
(* The operators that the steps are built from keep the types.             *)
(***************************************************************************)

(* Replacing an element, or one past the end, leaves a sequence over S.    *)
LEMMA ExceptIsSeq ==
  ASSUME NEW S, NEW s \in Seq(S), NEW i, NEW e \in S
  PROVE  [s EXCEPT ![i] = e] \in Seq(S)
<1>1. Len(s) \in Nat /\ s \in [1..Len(s) -> S]
  BY LenProperties
<1>2. [s EXCEPT ![i] = e] \in [1..Len(s) -> S]
  BY <1>1
<1> QED BY <1>1, <1>2

LEMMA GotoTyped ==
  ASSUME TypeOK, NEW r \in Runs, NEW from, NEW to \in ExecStages,
         Goto(r, from, to)
  PROVE  /\ exec' \in [Runs -> ExecStages]
         /\ exec[r] = from /\ exec'[r] = to
         /\ \A s \in Runs : s # r => exec'[s] = exec[s]
BY DEF TypeOK, Goto

LEMMA PublishTyped ==
  ASSUME TypeOK, NEW r \in Runs, NEW e \in Events, Publish(r, e)
  PROVE  log' \in [Runs -> Seq(Events)]
<1>1. Append(log[r], e) \in Seq(Events)
  BY AppendProperties DEF TypeOK
<1> QED BY <1>1 DEF TypeOK, Publish

LEMMA ReadClockTyped ==
  ASSUME TypeOK, NEW r \in Runs, ReadClock(r)
  PROVE  /\ clock' \in Nat
         /\ ended' \in [Runs -> Nat]
         /\ ended'[r] # 0
         /\ \A s \in Runs : s # r => ended'[s] = ended[s]
BY DEF TypeOK, ReadClock

(* A Run struct with one of its fields replaced is a Run struct.           *)
LEMMA StructExcept ==
  ASSUME NEW x \in RunStruct
  PROVE  /\ \A s \in RunStates, n \in Nat :
              /\ [x EXCEPT !.state = s, !.endedAt = n] \in RunStruct
              /\ [x EXCEPT !.state = s, !.endedAt = n].endedAt = n
              /\ [x EXCEPT !.state = s] \in RunStruct
              /\ [x EXCEPT !.state = s].endedAt = x.endedAt
         /\ \A c \in Seq(CommandStatus) :
              /\ [x EXCEPT !.commands = c] \in RunStruct
              /\ [x EXCEPT !.commands = c].endedAt = x.endedAt
         /\ \A a \in {"none", "listed", "error"} :
              /\ [x EXCEPT !.artifacts = a] \in RunStruct
              /\ [x EXCEPT !.artifacts = a].endedAt = x.endedAt
BY DEF RunStruct

LEMMA RunStored ==
  ASSUME TypeOK, NEW r \in Runs, NEW x \in RunStruct, run' = [run EXCEPT ![r] = x]
  PROVE  /\ run' \in [Runs -> RunStruct]
         /\ run'[r] = x
         /\ \A q \in Runs : q # r => run'[q] = run[q]
BY DEF TypeOK

LEMMA ConcludeTyped ==
  ASSUME TypeOK, NEW r \in Runs, NEW s \in Settled, Conclude(r, s)
  PROVE  /\ run' \in [Runs -> RunStruct]
         /\ run'[r].endedAt = ended[r]
         /\ \A q \in Runs : q # r => run'[q] = run[q]
<1>1. s \in RunStates /\ ended[r] \in Nat /\ run[r] \in RunStruct
  BY DEF TypeOK, Settled, RunStates
<1>2. run' = [run EXCEPT ![r] = [run[r] EXCEPT !.state = s, !.endedAt = ended[r]]]
  BY DEF Conclude
<1> DEFINE x == [run[r] EXCEPT !.state = s, !.endedAt = ended[r]]
<1>3. x \in RunStruct /\ x.endedAt = ended[r]
  <2>1. PICK y \in RunStruct : y = run[r]
    BY <1>1
  <2>2. PICK n \in Nat : n = ended[r]
    BY <1>1
  <2>3. /\ [y EXCEPT !.state = s, !.endedAt = n] \in RunStruct
        /\ [y EXCEPT !.state = s, !.endedAt = n].endedAt = n
    BY <1>1 DEF RunStruct
  <2> QED
    BY <2>1, <2>2, <2>3
<1> HIDE DEF x
<1>4. run' = [run EXCEPT ![r] = x]
  BY <1>2 DEF x
<1> QED BY <1>3, <1>4, RunStored

(* What eviction drops has ended, so a run that has not ended stays.       *)
LEMMA EvictKeepsUnended ==
  ASSUME TypeOK, Evict
  PROVE  /\ runs' \subseteq runs
         /\ \A r \in runs : run[r].endedAt = 0 => r \in runs'
         /\ broker' \in [Runs -> {"none", "open", "closed"}]
BY DEF TypeOK, Evict, EndedBefore, FirstEnded, EndedRuns

(* A write to one field that is not EndedAt keeps type and ends.            *)
LEMMA CommandStored ==
  ASSUME TypeOK, NEW r \in Runs, NEW c, NEW s \in CommandStatus,
         run' = [run EXCEPT ![r].commands[c] = s]
  PROVE  /\ run' \in [Runs -> RunStruct]
         /\ \A q \in Runs : run'[q].endedAt = run[q].endedAt
<1>1. run[r] \in RunStruct /\ run[r].commands \in Seq(CommandStatus)
  BY DEF TypeOK, RunStruct
<1>2. [run[r].commands EXCEPT ![c] = s] \in Seq(CommandStatus)
  BY <1>1, ExceptIsSeq
<1> DEFINE x == [run[r] EXCEPT !.commands = [run[r].commands EXCEPT ![c] = s]]
<1>3. x \in RunStruct /\ x.endedAt = run[r].endedAt
  BY <1>1, <1>2, StructExcept
<1>4. run' = [run EXCEPT ![r] = x]
  OBVIOUS
<1> HIDE DEF x
<1> QED BY <1>3, <1>4, RunStored

LEMMA StateStored ==
  ASSUME TypeOK, NEW r \in Runs, NEW s \in RunStates,
         run' = [run EXCEPT ![r].state = s]
  PROVE  /\ run' \in [Runs -> RunStruct]
         /\ \A q \in Runs : run'[q].endedAt = run[q].endedAt
<1>1. run[r] \in RunStruct
  BY DEF TypeOK
<1> DEFINE x == [run[r] EXCEPT !.state = s]
<1>2. x \in RunStruct /\ x.endedAt = run[r].endedAt
  BY <1>1, StructExcept
<1>3. run' = [run EXCEPT ![r] = x]
  OBVIOUS
<1> HIDE DEF x
<1> QED BY <1>2, <1>3, RunStored

LEMMA ArtifactsStored ==
  ASSUME TypeOK, NEW r \in Runs, NEW a \in {"none", "listed", "error"},
         run' = [run EXCEPT ![r].artifacts = a]
  PROVE  /\ run' \in [Runs -> RunStruct]
         /\ \A q \in Runs : run'[q].endedAt = run[q].endedAt
<1>1. run[r] \in RunStruct
  BY DEF TypeOK
<1> DEFINE x == [run[r] EXCEPT !.artifacts = a]
<1>2. x \in RunStruct /\ x.endedAt = run[r].endedAt
  BY <1>1, StructExcept
<1>3. run' = [run EXCEPT ![r] = x]
  OBVIOUS
<1> HIDE DEF x
<1> QED BY <1>2, <1>3, RunStored
-----------------------------------------------------------------------------
(***************************************************************************)
(* What all the steps of a goroutine have in common: nobody else's phase   *)
(* changes, nothing leaves the map, and most leave the locks alone.        *)
(***************************************************************************)
LEMMA ExecutorStep ==
  ASSUME IInv, NEW r \in Runs, NEW from, NEW to \in ExecStages,
         Goto(r, from, to),
         UNCHANGED <<runs, handler, args>>,
         \A s \in Runs : s # r => /\ run'[s].endedAt = run[s].endedAt
                                 /\ ended'[s] = ended[s]
                                 /\ runFailed'[s] = runFailed[s],
         run'[r].endedAt = 0 => run[r].endedAt = 0,
         Phase(r)'
  PROVE  PhasesAgree' /\ RetainedUntilEnded'
<1>1. \A s \in Runs : s # r => exec'[s] = exec[s]
  BY GotoTyped DEF IInv
<1>2. PhasesAgree'
  BY <1>1 DEF IInv, PhasesAgree, Phase
<1>3. RetainedUntilEnded'
  BY DEF IInv, RetainedUntilEnded
<1> QED BY <1>2, <1>3

LEMMA LocksUntouched ==
  ASSUME IInv, NEW r \in Runs, NEW from, NEW to \in ExecStages,
         Goto(r, from, to),
         from # "locking",
         to \notin {"absent", "spawned", "locking", "gone"},
         UNCHANGED <<line, holding, args>>
  PROVE  QueueIsWhoNeedsTheLock' /\ QueuesHaveNoDuplicates' /\ HoldersAreFirst'
<1>1. /\ exec[r] = from
      /\ exec'[r] = to
      /\ \A s \in Runs : s # r => exec'[s] = exec[s]
  BY GotoTyped DEF IInv
<1>2. QueueIsWhoNeedsTheLock'
  BY <1>1 DEF IInv, QueueIsWhoNeedsTheLock, Identifier
<1>3. QueuesHaveNoDuplicates'
  BY DEF IInv, QueuesHaveNoDuplicates
<1>4. HoldersAreFirst'
  BY <1>1 DEF IInv, TypeOK, HoldersAreFirst, Identifier
<1> QED BY <1>2, <1>3, <1>4

-----------------------------------------------------------------------------
LEMMA EnsureOkKeepsIInv ==
  ASSUME IInv, NEW r \in Runs, EnsureOk(r)
  PROVE  IInv'
<1> USE DEF EnsureOk, managerVars, retained, locks, handlerVars, locals
<1>1. Goto(r, "ensuring", "ready") /\ "ready" \in ExecStages /\ alive
  BY DEF Goto, ExecStages
<1>2. exec[r] = "ensuring" /\ exec'[r] = "ready" /\ exec' \in [Runs -> ExecStages]
  BY <1>1, GotoTyped DEF IInv
<1>3. TypeOK'
  BY <1>2 DEF IInv, TypeOK
<1>4. Phase(r)'
  BY <1>2 DEF IInv, PhasesAgree, Phase, Unended, Extraction
<1>5. PhasesAgree' /\ RetainedUntilEnded'
  BY <1>1, <1>4, ExecutorStep
<1>6. QueueIsWhoNeedsTheLock' /\ QueuesHaveNoDuplicates' /\ HoldersAreFirst'
  BY <1>1, LocksUntouched
<1>7. CrashOnlyByEviction'
  BY <1>1 DEF CrashOnlyByEviction
<1> QED BY <1>3, <1>5, <1>6, <1>7 DEF IInv

LEMMA EnsureFailsKeepsIInv ==
  ASSUME IInv, NEW r \in Runs, EnsureFails(r)
  PROVE  IInv'
<1> USE DEF EnsureFails, retained, locks, handlerVars
<1>1. exec[r] = "ensuring" /\ alive
  BY DEF Goto
<1>2. r \in runs
  BY <1>1 DEF IInv, PhasesAgree, Phase, Unended, RetainedUntilEnded
<1>3. Goto(r, "ensuring", "failing") /\ "failing" \in ExecStages /\ ReadClock(r)
  BY <1>2 DEF ExecStages
<1>4. exec'[r] = "failing" /\ exec' \in [Runs -> ExecStages]
  BY <1>3, GotoTyped DEF IInv
<1>5. /\ clock' \in Nat
      /\ ended' \in [Runs -> Nat]
      /\ ended'[r] # 0
      /\ \A s \in Runs : s # r => ended'[s] = ended[s]
  BY <1>3, ReadClockTyped DEF IInv
<1>6. TypeOK'
  BY <1>2, <1>4, <1>5 DEF IInv, TypeOK
<1>7. Phase(r)'
  BY <1>1, <1>4, <1>5 DEF IInv, PhasesAgree, Phase, Unended, Extraction
<1>8. PhasesAgree' /\ RetainedUntilEnded'
  BY <1>3, <1>5, <1>7, ExecutorStep
<1>9. QueueIsWhoNeedsTheLock' /\ QueuesHaveNoDuplicates' /\ HoldersAreFirst'
  BY <1>3, LocksUntouched
<1>10. CrashOnlyByEviction'
  BY <1>1 DEF CrashOnlyByEviction
<1> QED BY <1>6, <1>8, <1>9, <1>10 DEF IInv
LEMMA LastCommandKeepsIInv ==
  ASSUME IInv, NEW r \in Runs, LastCommand(r)
  PROVE  IInv'
<1> USE DEF LastCommand, managerVars, retained, locks, handlerVars, locals
<1>1. Goto(r, "command", "extracting") /\ "extracting" \in ExecStages /\ alive
  BY DEF Goto, ExecStages
<1>2. exec[r] = "command" /\ exec'[r] = "extracting" /\ exec' \in [Runs -> ExecStages]
  BY <1>1, GotoTyped DEF IInv
<1>3. TypeOK'
  BY <1>2 DEF IInv, TypeOK
<1>4. Phase(r)'
  BY <1>2 DEF IInv, PhasesAgree, Phase, Unended, Extraction
<1>5. PhasesAgree' /\ RetainedUntilEnded'
  BY <1>1, <1>4, ExecutorStep
<1>6. QueueIsWhoNeedsTheLock' /\ QueuesHaveNoDuplicates' /\ HoldersAreFirst'
  BY <1>1, LocksUntouched
<1>7. CrashOnlyByEviction'
  BY <1>1 DEF CrashOnlyByEviction
<1> QED BY <1>3, <1>5, <1>6, <1>7 DEF IInv

LEMMA CloseDoneKeepsIInv ==
  ASSUME IInv, NEW r \in Runs, CloseDone(r)
  PROVE  IInv'
<1> USE DEF CloseDone, managerVars, retained, locks, handlerVars, locals
<1>1. Goto(r, "closing", "unlocking") /\ "unlocking" \in ExecStages /\ alive
  BY DEF Goto, ExecStages
<1>2. exec[r] = "closing" /\ exec'[r] = "unlocking" /\ exec' \in [Runs -> ExecStages]
  BY <1>1, GotoTyped DEF IInv
<1>3. TypeOK'
  BY <1>2 DEF IInv, TypeOK
<1>4. Phase(r)'
  BY <1>2 DEF IInv, PhasesAgree, Phase, Unended, Extraction
<1>5. PhasesAgree' /\ RetainedUntilEnded'
  BY <1>1, <1>4, ExecutorStep
<1>6. QueueIsWhoNeedsTheLock' /\ QueuesHaveNoDuplicates' /\ HoldersAreFirst'
  BY <1>1, LocksUntouched
<1>7. CrashOnlyByEviction'
  BY <1>1 DEF CrashOnlyByEviction
<1> QED BY <1>3, <1>5, <1>6, <1>7 DEF IInv

LEMMA ExecCommandKeepsIInv ==
  ASSUME IInv, NEW r \in Runs, ExecCommand(r)
  PROVE  IInv'
<1> USE DEF ExecCommand, managerVars, retained, locks, handlerVars, locals
<1>1. Goto(r, "command", "executing") /\ "executing" \in ExecStages /\ alive
  BY DEF Goto, ExecStages
<1>2. exec[r] = "command" /\ exec'[r] = "executing" /\ exec' \in [Runs -> ExecStages]
  BY <1>1, GotoTyped DEF IInv
<1>3. log' \in [Runs -> Seq(Events)]
  BY PublishTyped DEF IInv, Events
<1>4. TypeOK'
  BY <1>2, <1>3 DEF IInv, TypeOK
<1>5. Phase(r)'
  BY <1>2 DEF IInv, PhasesAgree, Phase, Unended, Extraction
<1>6. PhasesAgree' /\ RetainedUntilEnded'
  BY <1>1, <1>5, ExecutorStep
<1>7. QueueIsWhoNeedsTheLock' /\ QueuesHaveNoDuplicates' /\ HoldersAreFirst'
  BY <1>1, LocksUntouched
<1>8. CrashOnlyByEviction'
  BY <1>1 DEF CrashOnlyByEviction
<1> QED BY <1>4, <1>6, <1>7, <1>8 DEF IInv

LEMMA AnnounceKeepsIInv ==
  ASSUME IInv, NEW r \in Runs, Announce(r)
  PROVE  IInv'
<1> USE DEF Announce, managerVars, retained, locks, handlerVars, locals
<1>1. PICK to \in {"extracting", "closing"} :
         Goto(r, "announcing", to) /\ to = IF runFailed[r] THEN "extracting" ELSE "closing"
  BY DEF Goto
<1>2. Goto(r, "announcing", to) /\ to \in ExecStages /\ alive
  BY <1>1 DEF Goto, ExecStages
<1>3. exec[r] = "announcing" /\ exec'[r] = to /\ exec' \in [Runs -> ExecStages]
  BY <1>2, GotoTyped DEF IInv
<1>4. log' \in [Runs -> Seq(Events)]
  BY PublishTyped DEF IInv, Events
<1>5. TypeOK'
  BY <1>3, <1>4 DEF IInv, TypeOK
<1>6. Phase(r)'
  BY <1>1, <1>3 DEF IInv, PhasesAgree, Phase, Unended, Extraction
<1>7. PhasesAgree' /\ RetainedUntilEnded'
  BY <1>2, <1>6, ExecutorStep
<1>8. QueueIsWhoNeedsTheLock' /\ QueuesHaveNoDuplicates' /\ HoldersAreFirst'
  BY <1>2, LocksUntouched
<1>9. CrashOnlyByEviction'
  BY <1>2 DEF CrashOnlyByEviction
<1> QED BY <1>5, <1>7, <1>8, <1>9 DEF IInv

LEMMA FailKeepsIInv ==
  ASSUME IInv, NEW r \in Runs, Fail(r)
  PROVE  IInv'
<1> USE DEF Fail, managerVars, retained, locks, handlerVars, locals
<1>1. Goto(r, "failing", "counting") /\ "counting" \in ExecStages /\ alive
  BY DEF Goto, ExecStages
<1>2. exec[r] = "failing" /\ exec'[r] = "counting" /\ exec' \in [Runs -> ExecStages]
  BY <1>1, GotoTyped DEF IInv
<1>3. /\ run' \in [Runs -> RunStruct]
      /\ run'[r].endedAt = ended[r]
      /\ \A q \in Runs : q # r => run'[q] = run[q]
  BY ConcludeTyped DEF IInv, Settled
<1>4. ended[r] # 0
  BY <1>2 DEF IInv, PhasesAgree, Phase
<1>5. TypeOK'
  BY <1>2, <1>3 DEF IInv, TypeOK
<1>6. Phase(r)'
  BY <1>2, <1>3, <1>4 DEF IInv, PhasesAgree, Phase, Unended, Extraction
<1>7. PhasesAgree' /\ RetainedUntilEnded'
  BY <1>1, <1>3, <1>4, <1>6, ExecutorStep
<1>8. QueueIsWhoNeedsTheLock' /\ QueuesHaveNoDuplicates' /\ HoldersAreFirst'
  BY <1>1, LocksUntouched
<1>9. CrashOnlyByEviction'
  BY <1>1 DEF CrashOnlyByEviction
<1> QED BY <1>5, <1>7, <1>8, <1>9 DEF IInv

LEMMA SettleKeepsIInv ==
  ASSUME IInv, NEW r \in Runs, Settle(r)
  PROVE  IInv'
<1> USE DEF Settle, managerVars, retained, locks, handlerVars, locals
<1>1. Goto(r, "settling", "counting") /\ "counting" \in ExecStages /\ alive
  BY DEF Goto, ExecStages
<1>2. exec[r] = "settling" /\ exec'[r] = "counting" /\ exec' \in [Runs -> ExecStages]
  BY <1>1, GotoTyped DEF IInv
<1>3. /\ run' \in [Runs -> RunStruct]
      /\ run'[r].endedAt = ended[r]
      /\ \A q \in Runs : q # r => run'[q] = run[q]
  BY ConcludeTyped DEF IInv, Settled
<1>4. ended[r] # 0
  BY <1>2 DEF IInv, PhasesAgree, Phase
<1>5. TypeOK'
  BY <1>2, <1>3 DEF IInv, TypeOK
<1>6. Phase(r)'
  BY <1>2, <1>3, <1>4 DEF IInv, PhasesAgree, Phase, Unended, Extraction
<1>7. PhasesAgree' /\ RetainedUntilEnded'
  BY <1>1, <1>3, <1>4, <1>6, ExecutorStep
<1>8. QueueIsWhoNeedsTheLock' /\ QueuesHaveNoDuplicates' /\ HoldersAreFirst'
  BY <1>1, LocksUntouched
<1>9. CrashOnlyByEviction'
  BY <1>1 DEF CrashOnlyByEviction
<1> QED BY <1>5, <1>7, <1>8, <1>9 DEF IInv

LEMMA CountKeepsIInv ==
  ASSUME IInv, NEW r \in Runs, Count(r)
  PROVE  IInv'
<1> USE DEF Count, managerVars, retained, locks, handlerVars, locals
<1>1. Goto(r, "counting", "announcing") /\ "announcing" \in ExecStages /\ alive
  BY DEF Goto, ExecStages
<1>2. exec[r] = "counting" /\ exec'[r] = "announcing" /\ exec' \in [Runs -> ExecStages]
  BY <1>1, GotoTyped DEF IInv
<1>3. runsTotal' \in [Settled -> Nat]
  BY DEF IInv, TypeOK, Settled
<1>4. TypeOK'
  BY <1>2, <1>3 DEF IInv, TypeOK
<1>5. Phase(r)'
  BY <1>2 DEF IInv, PhasesAgree, Phase, Unended, Extraction
<1>6. PhasesAgree' /\ RetainedUntilEnded'
  BY <1>1, <1>5, ExecutorStep
<1>7. QueueIsWhoNeedsTheLock' /\ QueuesHaveNoDuplicates' /\ HoldersAreFirst'
  BY <1>1, LocksUntouched
<1>8. CrashOnlyByEviction'
  BY <1>1 DEF CrashOnlyByEviction
<1> QED BY <1>4, <1>6, <1>7, <1>8 DEF IInv

LEMMA DeniedKeepsIInv ==
  ASSUME IInv, NEW r \in Runs, Denied(r)
  PROVE  IInv'
<1> USE DEF Denied, managerVars, retained, locks, handlerVars, locals
<1>1. Goto(r, "command", "failing") /\ "failing" \in ExecStages /\ alive
  BY DEF Goto, ExecStages
<1>2. exec[r] = "command" /\ exec'[r] = "failing" /\ exec' \in [Runs -> ExecStages]
  BY <1>1, GotoTyped DEF IInv
<1>3. /\ run' \in [Runs -> RunStruct]
      /\ \A q \in Runs : run'[q].endedAt = run[q].endedAt
  BY CommandStored DEF IInv, CommandStatus
<1>4. /\ clock' \in Nat
      /\ ended' \in [Runs -> Nat]
      /\ ended'[r] # 0
      /\ \A s \in Runs : s # r => ended'[s] = ended[s]
  BY ReadClockTyped DEF IInv
<1>5. /\ runFailed' \in [Runs -> BOOLEAN]
      /\ \A s \in Runs : s # r => runFailed'[s] = runFailed[s]
  BY DEF IInv, TypeOK
<1>6. TypeOK'
  BY <1>2, <1>3, <1>4, <1>5 DEF IInv, TypeOK
<1>7. Phase(r)'
  BY <1>2, <1>3, <1>4 DEF IInv, PhasesAgree, Phase, Unended, Extraction
<1>8. PhasesAgree' /\ RetainedUntilEnded'
  BY <1>1, <1>3, <1>4, <1>5, <1>7, ExecutorStep
<1>9. QueueIsWhoNeedsTheLock' /\ QueuesHaveNoDuplicates' /\ HoldersAreFirst'
  BY <1>1, LocksUntouched
<1>10. CrashOnlyByEviction'
  BY <1>1 DEF CrashOnlyByEviction
<1> QED BY <1>6, <1>8, <1>9, <1>10 DEF IInv

LEMMA StartKeepsIInv ==
  ASSUME IInv, NEW r \in Runs, Start(r)
  PROVE  IInv'
<1> USE DEF Start, managerVars, retained, locks, handlerVars, locals
<1>1. Goto(r, "ready", "command") /\ "command" \in ExecStages /\ alive
  BY DEF Goto, ExecStages
<1>2. exec[r] = "ready" /\ exec'[r] = "command" /\ exec' \in [Runs -> ExecStages]
  BY <1>1, GotoTyped DEF IInv
<1>3. r \in runs
  BY <1>2 DEF IInv, PhasesAgree, Phase, Unended, RetainedUntilEnded
<1>4. /\ run' \in [Runs -> RunStruct]
      /\ \A q \in Runs : run'[q].endedAt = run[q].endedAt
  BY <1>3, StateStored DEF IInv, RunStates
<1>5. log' \in [Runs -> Seq(Events)]
  BY <1>3, PublishTyped DEF IInv, Events
<1>6. TypeOK'
  BY <1>2, <1>3, <1>4, <1>5 DEF IInv, TypeOK
<1>7. Phase(r)'
  BY <1>2, <1>4 DEF IInv, PhasesAgree, Phase, Unended, Extraction
<1>8. PhasesAgree' /\ RetainedUntilEnded'
  BY <1>1, <1>4, <1>7, ExecutorStep
<1>9. QueueIsWhoNeedsTheLock' /\ QueuesHaveNoDuplicates' /\ HoldersAreFirst'
  BY <1>1, LocksUntouched
<1>10. CrashOnlyByEviction'
  BY <1>1, <1>3 DEF CrashOnlyByEviction
<1> QED BY <1>6, <1>8, <1>9, <1>10 DEF IInv

LEMMA ExtractKeepsIInv ==
  ASSUME IInv, NEW r \in Runs, Extract(r)
  PROVE  IInv'
<1> USE DEF Extract, managerVars, retained, locks, handlerVars, locals
<1>1. Goto(r, "extracting", "copying") /\ "copying" \in ExecStages /\ alive
  BY DEF Goto, ExecStages
<1>2. exec[r] = "extracting" /\ exec'[r] = "copying" /\ exec' \in [Runs -> ExecStages]
  BY <1>1, GotoTyped DEF IInv
<1>3. TypeOK'
  BY <1>2 DEF IInv, TypeOK
<1>4. Phase(r)'
  BY <1>2 DEF IInv, PhasesAgree, Phase, Unended, Extraction
<1>5. PhasesAgree' /\ RetainedUntilEnded'
  BY <1>1, <1>4, ExecutorStep
<1>6. QueueIsWhoNeedsTheLock' /\ QueuesHaveNoDuplicates' /\ HoldersAreFirst'
  BY <1>1, LocksUntouched
<1>7. CrashOnlyByEviction'
  BY <1>2 DEF IInv, PhasesAgree, Phase, Extraction, RetainedUntilEnded, CrashOnlyByEviction
<1> QED BY <1>3, <1>5, <1>6, <1>7 DEF IInv

LEMMA ExtractOkKeepsIInv ==
  ASSUME IInv, NEW r \in Runs, ExtractOk(r)
  PROVE  IInv'
<1> USE DEF ExtractOk, managerVars, retained, locks, handlerVars, locals
<1>1. Goto(r, "copying", "publishing") /\ "publishing" \in ExecStages /\ alive
  BY DEF Goto, ExecStages
<1>2. exec[r] = "copying" /\ exec'[r] = "publishing" /\ exec' \in [Runs -> ExecStages]
  BY <1>1, GotoTyped DEF IInv
<1>3. /\ run' \in [Runs -> RunStruct]
      /\ \A q \in Runs : run'[q].endedAt = run[q].endedAt
  BY ArtifactsStored DEF IInv
<1>4. TypeOK'
  BY <1>2, <1>3 DEF IInv, TypeOK
<1>5. Phase(r)'
  BY <1>2, <1>3 DEF IInv, PhasesAgree, Phase, Unended, Extraction
<1>6. PhasesAgree' /\ RetainedUntilEnded'
  BY <1>1, <1>3, <1>5, ExecutorStep
<1>7. QueueIsWhoNeedsTheLock' /\ QueuesHaveNoDuplicates' /\ HoldersAreFirst'
  BY <1>1, LocksUntouched
<1>8. CrashOnlyByEviction'
  BY <1>1 DEF CrashOnlyByEviction
<1> QED BY <1>4, <1>6, <1>7, <1>8 DEF IInv

LEMMA PublishArtifactsKeepsIInv ==
  ASSUME IInv, NEW r \in Runs, PublishArtifacts(r)
  PROVE  IInv'
<1> USE DEF PublishArtifacts, managerVars, retained, locks, handlerVars, locals
<1>1. PICK to \in {"closing", "settling"} :
         Goto(r, "publishing", to) /\ to = IF runFailed[r] THEN "closing" ELSE "settling"
  BY DEF AfterExtract, Goto
<1>2. Goto(r, "publishing", to) /\ to \in ExecStages /\ alive
  BY <1>1 DEF Goto, ExecStages
<1>3. exec[r] = "publishing" /\ exec'[r] = to /\ exec' \in [Runs -> ExecStages]
  BY <1>2, GotoTyped DEF IInv
<1>4. /\ clock' \in Nat
      /\ ended' \in [Runs -> Nat]
      /\ ~runFailed[r] => ended'[r] # 0
      /\ \A s \in Runs : s # r => ended'[s] = ended[s]
  BY ReadClockTyped DEF AfterExtract, IInv, TypeOK
<1>5. log' \in [Runs -> Seq(Events)]
  BY PublishTyped DEF IInv, Events
<1>6. TypeOK'
  BY <1>3, <1>4, <1>5 DEF IInv, TypeOK
<1>7. Phase(r)'
  BY <1>1, <1>3, <1>4 DEF IInv, PhasesAgree, Phase, Unended, Extraction
<1>8. PhasesAgree' /\ RetainedUntilEnded'
  BY <1>2, <1>4, <1>7, ExecutorStep
<1>9. QueueIsWhoNeedsTheLock' /\ QueuesHaveNoDuplicates' /\ HoldersAreFirst'
  BY <1>2, LocksUntouched
<1>10. CrashOnlyByEviction'
  BY <1>2 DEF CrashOnlyByEviction
<1> QED BY <1>6, <1>8, <1>9, <1>10 DEF IInv

LEMMA ExtractFailsKeepsIInv ==
  ASSUME IInv, NEW r \in Runs, ExtractFails(r)
  PROVE  IInv'
<1> USE DEF ExtractFails, managerVars, retained, locks, handlerVars, locals
<1>1. PICK to \in {"closing", "settling"} :
         Goto(r, "copying", to) /\ to = IF runFailed[r] THEN "closing" ELSE "settling"
  BY DEF AfterExtract, Goto
<1>2. Goto(r, "copying", to) /\ to \in ExecStages /\ alive
  BY <1>1 DEF Goto, ExecStages
<1>3. exec[r] = "copying" /\ exec'[r] = to /\ exec' \in [Runs -> ExecStages]
  BY <1>2, GotoTyped DEF IInv
<1>4. /\ clock' \in Nat
      /\ ended' \in [Runs -> Nat]
      /\ ~runFailed[r] => ended'[r] # 0
      /\ \A s \in Runs : s # r => ended'[s] = ended[s]
  BY ReadClockTyped DEF AfterExtract, IInv, TypeOK
<1>5. /\ run' \in [Runs -> RunStruct]
      /\ \A q \in Runs : run'[q].endedAt = run[q].endedAt
  BY ArtifactsStored DEF IInv
<1>6. TypeOK'
  BY <1>3, <1>4, <1>5 DEF IInv, TypeOK
<1>7. Phase(r)'
  BY <1>1, <1>3, <1>4, <1>5 DEF IInv, PhasesAgree, Phase, Unended, Extraction
<1>8. PhasesAgree' /\ RetainedUntilEnded'
  BY <1>2, <1>4, <1>5, <1>7, ExecutorStep
<1>9. QueueIsWhoNeedsTheLock' /\ QueuesHaveNoDuplicates' /\ HoldersAreFirst'
  BY <1>2, LocksUntouched
<1>10. CrashOnlyByEviction'
  BY <1>2 DEF CrashOnlyByEviction
<1> QED BY <1>6, <1>8, <1>9, <1>10 DEF IInv

LEMMA CommandReturnsKeepsIInv ==
  ASSUME IInv, NEW r \in Runs, NEW status \in CommandStatus \ {"queued"},
         CommandReturns(r, status)
  PROVE  IInv'
<1> USE DEF CommandReturns, managerVars, retained, locks, handlerVars, locals
<1>1. PICK to \in {"failing", "command"} : /\ Goto(r, "executing", to)
                                           /\ to = "failing" => ReadClock(r)
                                           /\ to = "command" => UNCHANGED <<clock, ended>>
                                           /\ runFailed' = [runFailed EXCEPT ![r] = @ \/ to = "failing"]
  BY DEF Goto
<1>2. Goto(r, "executing", to) /\ to \in ExecStages /\ alive
  BY <1>1 DEF Goto, ExecStages
<1>3. exec[r] = "executing" /\ exec'[r] = to /\ exec' \in [Runs -> ExecStages]
  BY <1>2, GotoTyped DEF IInv
<1>4. /\ run' \in [Runs -> RunStruct]
      /\ \A q \in Runs : run'[q].endedAt = run[q].endedAt
  BY CommandStored DEF IInv
<1>5. /\ clock' \in Nat
      /\ ended' \in [Runs -> Nat]
      /\ to = "failing" => ended'[r] # 0
      /\ \A s \in Runs : s # r => ended'[s] = ended[s]
  BY <1>1, ReadClockTyped DEF IInv, TypeOK
<1>6. /\ runFailed' \in [Runs -> BOOLEAN]
      /\ \A s \in Runs : s # r => runFailed'[s] = runFailed[s]
      /\ runFailed'[r] = (runFailed[r] \/ to = "failing")
  BY <1>1 DEF IInv, TypeOK
<1>7. /\ next' \in [Runs -> Nat \ {0}]
      /\ failure' \in [Runs -> BOOLEAN]
      /\ log' \in [Runs -> Seq(Events)]
  BY PublishTyped DEF IInv, TypeOK, Events
<1>8. TypeOK'
  BY <1>3, <1>4, <1>5, <1>6, <1>7 DEF IInv, TypeOK
<1>9. Phase(r)'
  BY <1>1, <1>3, <1>4, <1>5, <1>6 DEF IInv, PhasesAgree, Phase, Unended, Extraction
<1>10. PhasesAgree' /\ RetainedUntilEnded'
  BY <1>2, <1>4, <1>5, <1>6, <1>9, ExecutorStep
<1>11. QueueIsWhoNeedsTheLock' /\ QueuesHaveNoDuplicates' /\ HoldersAreFirst'
  BY <1>2, LocksUntouched
<1>12. CrashOnlyByEviction'
  BY <1>2 DEF CrashOnlyByEviction
<1> QED BY <1>8, <1>10, <1>11, <1>12 DEF IInv
-----------------------------------------------------------------------------
(***************************************************************************)
(* The steps that touch a lock.                                            *)
(***************************************************************************)
LEMMA IdentifierTyped ==
  ASSUME IInv, NEW r \in Runs, handler[r] # "idle"
  PROVE  Identifier(r) \in Identifiers
BY RequestsAssumption DEF IInv, PhasesAgree, Phase, Identifier

LEMMA EnterLockKeepsIInv ==
  ASSUME IInv, NEW r \in Runs, EnterLock(r)
  PROVE  IInv'
<1> USE DEF EnterLock, retained, handlerVars, locals
<1> DEFINE i == Identifier(r)
           to == IF args[r].lockSandbox THEN "locking" ELSE "ensuring"
<1>1. Goto(r, "spawned", to) /\ to \in ExecStages /\ alive
  BY DEF Goto, ExecStages
<1>2. /\ exec[r] = "spawned"
      /\ exec'[r] = to
      /\ exec' \in [Runs -> ExecStages]
      /\ \A s \in Runs : s # r => exec'[s] = exec[s]
  BY <1>1, GotoTyped DEF IInv
<1>3. i \in Identifiers
  BY <1>2, IdentifierTyped DEF IInv, PhasesAgree, Phase
<1> HIDE DEF i
<1>0. line[i] \in Seq(Runs)
  BY <1>3 DEF IInv, TypeOK
<1>4. /\ Len(line[i]) \in Nat
      /\ Append(line[i], r) \in Seq(Runs)
      /\ Append(line[i], r) # <<>>
      /\ Len(Append(line[i], r)) = Len(line[i]) + 1
      /\ \A n \in 1..Len(line[i]) : Append(line[i], r)[n] = line[i][n]
      /\ Append(line[i], r)[Len(line[i]) + 1] = r
  BY <1>0, LenProperties, AppendProperties
<1>5. line' = IF args[r].lockSandbox
              THEN [line EXCEPT ![i] = Append(line[i], r)] ELSE line
  BY DEF i
<1>6. TypeOK'
  BY <1>2, <1>3, <1>4, <1>5 DEF IInv, TypeOK
<1>7. Phase(r)'
  BY <1>2 DEF IInv, PhasesAgree, Phase, Unended, Extraction
<1>8. PhasesAgree' /\ RetainedUntilEnded'
  BY <1>1, <1>7, ExecutorStep
<1>9. CrashOnlyByEviction'
  BY <1>1 DEF CrashOnlyByEviction
<1>10. QueueIsWhoNeedsTheLock' /\ QueuesHaveNoDuplicates' /\ HoldersAreFirst'
  <2>1. CASE ~args[r].lockSandbox
    BY <2>1, <1>1, <1>5, LocksUntouched
  <2>2. CASE args[r].lockSandbox
    <3>1. /\ line' = [line EXCEPT ![i] = Append(line[i], r)]
          /\ line'[i] = Append(line[i], r)
          /\ \A j \in Identifiers : j # i => line'[j] = line[j]
          /\ exec'[r] = "locking"
      BY <2>2, <1>2, <1>3, <1>5 DEF IInv, TypeOK
    <3>2. r \notin holding
      BY <1>2 DEF IInv, HoldersAreFirst
    <3>3. \A j \in Identifiers : \A n \in 1..Len(line[j]) : line[j][n] # r
      BY <3>2, <1>2 DEF IInv, QueueIsWhoNeedsTheLock
    <3>4. QueueIsWhoNeedsTheLock'
      <4> SUFFICES ASSUME NEW j \in Identifiers, NEW s \in Runs
                   PROVE  (\E n \in 1..Len(line'[j]) : line'[j][n] = s)
                            <=> /\ exec'[s] = "locking" \/ s \in holding
                                /\ Identifier(s) = j
        BY DEF QueueIsWhoNeedsTheLock, Identifier
      <4>1. CASE s = r
        <5>1. j = i => \E n \in 1..Len(line'[j]) : line'[j][n] = s
          BY <4>1, <3>1, <1>4
        <5>2. j # i => \A n \in 1..Len(line'[j]) : line'[j][n] # s
          BY <4>1, <3>1, <3>3
        <5> QED BY <4>1, <5>1, <5>2, <3>1 DEF i
      <4>2. CASE s # r
        <5>1. (\E n \in 1..Len(line'[j]) : line'[j][n] = s)
                <=> (\E n \in 1..Len(line[j]) : line[j][n] = s)
          BY <4>2, <3>1, <1>4
        <5> QED BY <4>2, <5>1, <1>2 DEF IInv, QueueIsWhoNeedsTheLock
      <4> QED BY <4>1, <4>2
    <3>5. QueuesHaveNoDuplicates'
      <4> SUFFICES ASSUME NEW j \in Identifiers,
                          NEW m \in 1..Len(line'[j]), NEW n \in 1..Len(line'[j]),
                          line'[j][m] = line'[j][n]
                   PROVE  m = n
        BY DEF QueuesHaveNoDuplicates
      <4>1. CASE j # i
        BY <4>1, <3>1 DEF IInv, QueuesHaveNoDuplicates
      <4>2. CASE j = i
        BY <4>2, <3>1, <3>3, <1>3, <1>4 DEF IInv, QueuesHaveNoDuplicates
      <4> QED BY <4>1, <4>2
    <3>6. HoldersAreFirst'
      <4> SUFFICES ASSUME NEW s \in holding
                   PROVE  /\ exec'[s] \notin {"absent", "spawned", "locking", "gone"}
                          /\ line'[Identifier(s)] # <<>>
                          /\ line'[Identifier(s)][1] = s
        BY DEF HoldersAreFirst, Identifier
      <4>1. /\ s \in Runs
            /\ s # r
            /\ exec[s] \notin {"absent", "spawned", "locking", "gone"}
            /\ line[Identifier(s)] # <<>>
            /\ line[Identifier(s)][1] = s
        BY <3>2 DEF IInv, TypeOK, HoldersAreFirst
      <4>2. Identifier(s) \in Identifiers
        BY <4>1, IdentifierTyped DEF IInv, PhasesAgree, Phase
      <4>3. CASE Identifier(s) = i
        BY <4>1, <4>3, <3>1, <1>2, <1>4, EmptySeq
      <4>4. CASE Identifier(s) # i
        BY <4>1, <4>2, <4>4, <3>1, <1>2
      <4> QED BY <4>3, <4>4
    <3> QED BY <3>4, <3>5, <3>6
  <2> QED BY <2>1, <2>2
<1> QED BY <1>6, <1>8, <1>9, <1>10 DEF IInv
LEMMA LockGrantedKeepsIInv ==
  ASSUME IInv, NEW r \in Runs, LockGranted(r)
  PROVE  IInv'
<1> USE DEF LockGranted, retained, handlerVars, locals
<1>1. Goto(r, "locking", "ensuring") /\ "ensuring" \in ExecStages /\ alive
  BY DEF Goto, ExecStages
<1>2. /\ exec[r] = "locking"
      /\ exec'[r] = "ensuring"
      /\ exec' \in [Runs -> ExecStages]
      /\ \A s \in Runs : s # r => exec'[s] = exec[s]
  BY <1>1, GotoTyped DEF IInv
<1>3. Identifier(r) \in Identifiers
  BY <1>2, IdentifierTyped DEF IInv, PhasesAgree, Phase
<1>4. line[Identifier(r)] \in Seq(Runs) /\ line[Identifier(r)] # <<>>
  <2>1. line[Identifier(r)] \in Seq(Runs)
    BY <1>3 DEF IInv, TypeOK
  <2>2. \E n \in 1..Len(line[Identifier(r)]) : line[Identifier(r)][n] = r
    BY <1>2, <1>3 DEF IInv, QueueIsWhoNeedsTheLock
  <2> QED BY <2>1, <2>2, EmptySeq
<1>5. line[Identifier(r)][1] = r
  BY <1>4, HeadIsFirst
<1>6. TypeOK'
  BY <1>2 DEF IInv, TypeOK
<1>7. Phase(r)'
  BY <1>2 DEF IInv, PhasesAgree, Phase, Unended, Extraction
<1>8. PhasesAgree' /\ RetainedUntilEnded'
  BY <1>1, <1>7, ExecutorStep
<1>9. CrashOnlyByEviction'
  BY <1>1 DEF CrashOnlyByEviction
<1>10. QueueIsWhoNeedsTheLock'
  BY <1>2 DEF IInv, QueueIsWhoNeedsTheLock, Identifier
<1>11. QueuesHaveNoDuplicates'
  BY DEF IInv, QueuesHaveNoDuplicates
<1>12. HoldersAreFirst'
  BY <1>2, <1>4, <1>5 DEF IInv, TypeOK, HoldersAreFirst, Identifier
<1> QED BY <1>6, <1>8, <1>9, <1>10, <1>11, <1>12 DEF IInv

(* A run that leaves the queue of its lock, from wherever it stands,       *)
(* disturbs nobody else: what LockTimeout and Unlock have in common.       *)
LEMMA Dequeue ==
  ASSUME IInv, NEW r \in Runs, NEW i \in Identifiers, i = Identifier(r),
         NEW k \in 1..Len(line[i]), line[i][k] = r,
         NEW q \in Seq(Runs),
         Len(q) = Len(line[i]) - 1,
         \A n \in 1..(Len(line[i]) - 1) :
            q[n] = IF n < k THEN line[i][n] ELSE line[i][n + 1],
         line' = [line EXCEPT ![i] = q],
         holding' = holding \ {r},
         exec' \in [Runs -> ExecStages],
         exec'[r] # "locking",
         \A s \in Runs : s # r => exec'[s] = exec[s],
         UNCHANGED args
  PROVE  QueueIsWhoNeedsTheLock' /\ QueuesHaveNoDuplicates' /\ HoldersAreFirst'
<1>1. /\ line[i] \in Seq(Runs)
      /\ line'[i] = q
      /\ \A j \in Identifiers : j # i => line'[j] = line[j]
  BY DEF IInv, TypeOK
<1>2. Len(line[i]) \in Nat
  BY <1>1, LenProperties
<1>3. \A n \in 1..Len(line[i]) : line[i][n] = r <=> n = k
  BY DEF IInv, QueuesHaveNoDuplicates
<1>4. QueueIsWhoNeedsTheLock'
  <2> SUFFICES ASSUME NEW j \in Identifiers, NEW s \in Runs
               PROVE  (\E n \in 1..Len(line'[j]) : line'[j][n] = s)
                        <=> /\ exec'[s] = "locking" \/ s \in holding'
                            /\ Identifier(s) = j
    BY DEF QueueIsWhoNeedsTheLock, Identifier
  <2>1. CASE s = r
    <3>1. ASSUME NEW n \in 1..Len(q)
          PROVE  q[n] # r
      <4>1. CASE n < k
        BY <4>1, <1>2, <1>3
      <4>2. CASE ~(n < k)
        <5>1. q[n] = line[i][n + 1] /\ n + 1 \in 1..Len(line[i]) /\ n + 1 # k
          BY <4>2, <1>2
        <5> QED BY <5>1, <1>3
      <4> QED BY <4>1, <4>2
    <3>2. j # i => \A n \in 1..Len(line[j]) : line[j][n] # r
      BY DEF IInv, QueueIsWhoNeedsTheLock
    <3>3. ~\E n \in 1..Len(line'[j]) : line'[j][n] = s
      BY <2>1, <3>1, <3>2, <1>1
    <3>4. exec'[s] # "locking" /\ s \notin holding'
      BY <2>1
    <3> QED BY <3>3, <3>4
  <2>2. CASE s # r
    <3>1. (\E n \in 1..Len(line'[j]) : line'[j][n] = s)
            => (\E n \in 1..Len(line[j]) : line[j][n] = s)
      BY <1>1, <1>2
    <3>2. ASSUME NEW n \in 1..Len(line[j]), line[j][n] = s
          PROVE  \E m \in 1..Len(line'[j]) : line'[j][m] = s
      <4>1. CASE j # i
        BY <4>1, <3>2, <1>1
      <4>2. CASE j = i
        <5> DEFINE m == IF n < k THEN n ELSE n - 1
        <5>1. n # k
          BY <4>2, <3>2, <2>2
        <5>2. m \in 1..Len(q) /\ q[m] = s
          BY <4>2, <5>1, <3>2, <1>2
        <5> QED BY <4>2, <5>2, <1>1
      <4> QED BY <4>1, <4>2
    <3> QED BY <2>2, <3>1, <3>2 DEF IInv, QueueIsWhoNeedsTheLock
  <2> QED BY <2>1, <2>2
<1>5. QueuesHaveNoDuplicates'
  <2> SUFFICES ASSUME NEW j \in Identifiers,
                      NEW m \in 1..Len(line'[j]), NEW n \in 1..Len(line'[j]),
                      line'[j][m] = line'[j][n]
               PROVE  m = n
    BY DEF QueuesHaveNoDuplicates
  <2>1. CASE j # i
    BY <2>1, <1>1 DEF IInv, QueuesHaveNoDuplicates
  <2>2. CASE j = i
    <3> DEFINE old(x) == IF x < k THEN x ELSE x + 1
    <3>1. /\ old(m) \in 1..Len(line[i])
          /\ old(n) \in 1..Len(line[i])
          /\ q[m] = line[i][old(m)]
          /\ q[n] = line[i][old(n)]
          /\ m \in Nat /\ n \in Nat
      BY <2>2, <1>1, <1>2
    <3>2. old(m) = old(n)
      BY <2>2, <3>1, <1>1 DEF IInv, QueuesHaveNoDuplicates
    <3> QED BY <3>1, <3>2
  <2> QED BY <2>1, <2>2
<1>6. HoldersAreFirst'
  <2> SUFFICES ASSUME NEW s \in holding, s # r
               PROVE  /\ exec'[s] \notin {"absent", "spawned", "locking", "gone"}
                      /\ line'[Identifier(s)] # <<>>
                      /\ line'[Identifier(s)][1] = s
    BY DEF HoldersAreFirst, Identifier
  <2>1. /\ s \in Runs
        /\ exec'[s] \notin {"absent", "spawned", "locking", "gone"}
        /\ line[Identifier(s)] # <<>>
        /\ line[Identifier(s)][1] = s
    BY DEF IInv, TypeOK, HoldersAreFirst
  <2>2. Identifier(s) \in Identifiers
    BY <2>1, IdentifierTyped DEF IInv, PhasesAgree, Phase, HoldersAreFirst
  <2>3. CASE Identifier(s) = i
    <3>1. k # 1 /\ Len(q) >= 1
      BY <2>1, <2>3, <1>2
    <3>2. q # <<>>
      BY <3>1, EmptySeq
    <3>3. q[1] = line[i][1]
      BY <3>1, <1>2
    <3> QED BY <2>1, <2>3, <3>2, <3>3, <1>1
  <2>4. CASE Identifier(s) # i
    BY <2>1, <2>2, <2>4, <1>1
  <2> QED BY <2>3, <2>4
<1> QED BY <1>4, <1>5, <1>6

LEMMA LockTimeoutKeepsIInv ==
  ASSUME IInv, NEW r \in Runs, LockTimeout(r)
  PROVE  IInv'
<1> USE DEF LockTimeout, retained, handlerVars, locals
<1> DEFINE i == Identifier(r)
<1>1. Goto(r, "locking", "ensuring") /\ "ensuring" \in ExecStages /\ alive
  BY DEF Goto, ExecStages
<1>2. /\ exec[r] = "locking"
      /\ exec'[r] = "ensuring"
      /\ exec' \in [Runs -> ExecStages]
      /\ \A s \in Runs : s # r => exec'[s] = exec[s]
  BY <1>1, GotoTyped DEF IInv
<1>3. i \in Identifiers
  BY <1>2, IdentifierTyped DEF IInv, PhasesAgree, Phase
<1>4. PICK k \in 1..Len(line[i]) : /\ line[i][k] = r
                                   /\ line' = [line EXCEPT ![i] = RemoveAt(line[i], k)]
  OBVIOUS
<1> DEFINE q == RemoveAt(line[i], k)
<1>5. line[i] \in Seq(Runs)
  BY <1>3 DEF IInv, TypeOK
<1>6. /\ q \in Seq(Runs)
      /\ Len(q) = Len(line[i]) - 1
      /\ \A n \in 1..(Len(line[i]) - 1) :
            q[n] = IF n < k THEN line[i][n] ELSE line[i][n + 1]
  BY <1>5, RemoveAtProperties
<1> HIDE DEF q
<1>7. line' = [line EXCEPT ![i] = q]
  BY <1>4 DEF q
<1>8. holding' = holding \ {r}
  BY <1>2 DEF IInv, HoldersAreFirst
<1>9. QueueIsWhoNeedsTheLock' /\ QueuesHaveNoDuplicates' /\ HoldersAreFirst'
  <2> HIDE DEF LockTimeout
  <2>1. UNCHANGED args
    BY DEF LockTimeout
  <2> QED BY <2>1, <1>2, <1>3, <1>4, <1>6, <1>7, <1>8, Dequeue
<1>10. TypeOK'
  BY <1>2, <1>3, <1>6, <1>7 DEF IInv, TypeOK
<1>11. Phase(r)'
  BY <1>2 DEF IInv, PhasesAgree, Phase, Unended, Extraction
<1>12. PhasesAgree' /\ RetainedUntilEnded'
  BY <1>1, <1>11, ExecutorStep
<1>13. CrashOnlyByEviction'
  BY <1>1 DEF CrashOnlyByEviction
<1> QED BY <1>9, <1>10, <1>12, <1>13 DEF IInv

LEMMA UnlockKeepsIInv ==
  ASSUME IInv, NEW r \in Runs, Unlock(r)
  PROVE  IInv'
<1> USE DEF Unlock, retained, handlerVars, locals
<1> DEFINE i == Identifier(r)
<1>1. Goto(r, "unlocking", "gone") /\ "gone" \in ExecStages /\ alive
  BY DEF Goto, ExecStages
<1>2. /\ exec[r] = "unlocking"
      /\ exec'[r] = "gone"
      /\ exec' \in [Runs -> ExecStages]
      /\ \A s \in Runs : s # r => exec'[s] = exec[s]
  BY <1>1, GotoTyped DEF IInv
<1>3. i \in Identifiers
  BY <1>2, IdentifierTyped DEF IInv, PhasesAgree, Phase
<1>4. line[i] \in Seq(Runs) /\ Len(line[i]) \in Nat
  BY <1>3, LenProperties DEF IInv, TypeOK
<1>5. Phase(r)'
  BY <1>2 DEF IInv, PhasesAgree, Phase, Unended, Extraction
<1>6. PhasesAgree' /\ RetainedUntilEnded'
  BY <1>1, <1>5, ExecutorStep
<1>7. CrashOnlyByEviction'
  BY <1>1 DEF CrashOnlyByEviction
<1>8. CASE r \in holding
  <2> DEFINE q == Tail(line[i])
  <2>1. line[i] # <<>> /\ line[i][1] = r
    BY <1>8 DEF IInv, HoldersAreFirst
  <2>2. 1 \in 1..Len(line[i])
    BY <2>1, <1>4, HeadIsFirst
  <2>3. /\ q \in Seq(Runs)
        /\ Len(q) = Len(line[i]) - 1
        /\ \A n \in 1..(Len(line[i]) - 1) :
              q[n] = IF n < 1 THEN line[i][n] ELSE line[i][n + 1]
    BY <2>1, <1>4, HeadTailProperties
  <2>4. line' = [line EXCEPT ![i] = q] /\ holding' = holding \ {r}
    BY <1>8
  <2> HIDE DEF q
  <2>5. QueueIsWhoNeedsTheLock' /\ QueuesHaveNoDuplicates' /\ HoldersAreFirst'
    <3> HIDE DEF Unlock
    <3>1. UNCHANGED args
      BY DEF Unlock
    <3> QED BY <3>1, <2>1, <2>2, <2>3, <2>4, <1>2, <1>3, Dequeue
  <2>6. TypeOK'
    BY <2>3, <2>4, <1>2, <1>3 DEF IInv, TypeOK
  <2> QED BY <2>5, <2>6, <1>6, <1>7 DEF IInv
<1>9. CASE r \notin holding
  <2> HIDE DEF Unlock
  <2>1. line' = line /\ holding' = holding /\ args' = args
    <3>1. UNCHANGED <<line, holding>>
      BY <1>9 DEF Unlock, locks
    <3>2. UNCHANGED args
      BY DEF Unlock
    <3> QED BY <3>1, <3>2
  <2>2. TypeOK'
    BY <2>1, <1>2 DEF IInv, TypeOK, Unlock
  <2>3. QueueIsWhoNeedsTheLock'
    BY <2>1, <1>2 DEF IInv, QueueIsWhoNeedsTheLock, Identifier
  <2>4. QueuesHaveNoDuplicates'
    BY <2>1 DEF IInv, QueuesHaveNoDuplicates
  <2>5. HoldersAreFirst'
    BY <2>1, <1>2, <1>9 DEF IInv, TypeOK, HoldersAreFirst, Identifier
  <2> QED BY <2>2, <2>3, <2>4, <2>5, <1>6, <1>7 DEF IInv
<1> QED BY <1>8, <1>9
-----------------------------------------------------------------------------
(***************************************************************************)
(* The steps of the handler.                                               *)
(***************************************************************************)
LEMMA SubmitKeepsIInv ==
  ASSUME IInv, NEW r \in Runs, NEW q \in Requests, Submit(r, q)
  PROVE  IInv'
<1> USE DEF Submit, locks, locals
<1>1. alive /\ handler[r] = "idle" /\ exec[r] = "absent"
  BY DEF IInv, PhasesAgree, Phase
<1>2. r \notin holding
  BY <1>1 DEF IInv, HoldersAreFirst
<1> DEFINE x == [NoRun EXCEPT !.commands = [c \in 1..Len(q.commands) |-> "queued"]]
<1>3. x \in RunStruct /\ x.endedAt = 0
  <2>1. Len(q.commands) \in Nat
    BY RequestsAssumption, LenProperties
  <2>2. [c \in 1..Len(q.commands) |-> "queued"] \in Seq(CommandStatus)
    BY <2>1 DEF CommandStatus
  <2> HIDE DEF Submit
  <2> QED BY <2>2 DEF NoRun, RunStruct, RunStates
<1> HIDE DEF x
<1>4. run' = [run EXCEPT ![r] = x]
  BY DEF x
<1>5. /\ run' \in [Runs -> RunStruct]
      /\ run'[r].endedAt = 0
      /\ \A s \in Runs : s # r => run'[s] = run[s]
  BY <1>3, <1>4, RunStored DEF IInv
<1>6. /\ args' \in [Runs -> Requests \cup {None}]
      /\ args'[r] = q
      /\ handler' \in [Runs -> HandlerStages]
      /\ handler'[r] = "registered"
      /\ broker' \in [Runs -> {"none", "open", "closed"}]
      /\ \A s \in Runs : s # r => args'[s] = args[s] /\ handler'[s] = handler[s]
  BY DEF IInv, TypeOK, HandlerStages
<1>7. TypeOK'
  BY <1>5, <1>6 DEF IInv, TypeOK
<1>8. PhasesAgree'
  <2>1. Phase(r)'
    BY <1>1, <1>5, <1>6 DEF IInv, PhasesAgree, Phase, Unended, Extraction
  <2>2. ASSUME NEW s \in Runs, s # r
        PROVE  Phase(s)'
    BY <2>2, <1>5, <1>6 DEF IInv, PhasesAgree, Phase
  <2> QED BY <2>1, <2>2 DEF PhasesAgree
<1>9. RetainedUntilEnded'
  BY <1>5, <1>6 DEF IInv, RetainedUntilEnded
<1>10. CrashOnlyByEviction'
  BY <1>1 DEF CrashOnlyByEviction
<1>11. QueueIsWhoNeedsTheLock'
  <2> SUFFICES ASSUME NEW i \in Identifiers, NEW s \in Runs
               PROVE  (\E n \in 1..Len(line[i]) : line[i][n] = s)
                        <=> /\ exec[s] = "locking" \/ s \in holding
                            /\ Identifier(s)' = i
    BY DEF QueueIsWhoNeedsTheLock
  <2>1. CASE s = r
    BY <2>1, <1>1, <1>2 DEF IInv, QueueIsWhoNeedsTheLock
  <2>2. CASE s # r
    BY <2>2, <1>6 DEF IInv, QueueIsWhoNeedsTheLock, Identifier
  <2> QED BY <2>1, <2>2
<1>12. QueuesHaveNoDuplicates'
  BY DEF IInv, QueuesHaveNoDuplicates
<1>13. HoldersAreFirst'
  BY <1>2, <1>6 DEF IInv, TypeOK, HoldersAreFirst, Identifier
<1> QED BY <1>7, <1>8, <1>9, <1>10, <1>11, <1>12, <1>13 DEF IInv

LEMMA EvictAndSpawnKeepsIInv ==
  ASSUME IInv, NEW r \in Runs, EvictAndSpawn(r)
  PROVE  IInv'
<1> USE DEF EvictAndSpawn, locks, locals
<1>1. Goto(r, "absent", "spawned") /\ "spawned" \in ExecStages /\ alive
  BY DEF Goto, ExecStages
<1>2. /\ exec[r] = "absent"
      /\ exec'[r] = "spawned"
      /\ exec' \in [Runs -> ExecStages]
      /\ \A s \in Runs : s # r => exec'[s] = exec[s]
  BY <1>1, GotoTyped DEF IInv
<1>3. /\ runs' \subseteq runs
      /\ \A s \in runs : run[s].endedAt = 0 => s \in runs'
      /\ broker' \in [Runs -> {"none", "open", "closed"}]
  BY EvictKeepsUnended DEF IInv
<1>4. /\ handler' \in [Runs -> HandlerStages]
      /\ handler'[r] \in {"awaiting", "returned"}
      /\ handler[r] = "registered"
      /\ \A s \in Runs : s # r => handler'[s] = handler[s]
  BY DEF IInv, TypeOK, HandlerStages
<1>5. TypeOK'
  BY <1>2, <1>3, <1>4 DEF IInv, TypeOK
<1>6. PhasesAgree'
  <2>1. Phase(r)'
    BY <1>2, <1>4 DEF IInv, PhasesAgree, Phase, Unended, Extraction
  <2>2. ASSUME NEW s \in Runs, s # r
        PROVE  Phase(s)'
    BY <2>2, <1>2, <1>4 DEF IInv, PhasesAgree, Phase
  <2> QED BY <2>1, <2>2 DEF PhasesAgree
<1>7. RetainedUntilEnded'
  BY <1>3, <1>4 DEF IInv, RetainedUntilEnded
<1>8. CrashOnlyByEviction'
  BY <1>1 DEF CrashOnlyByEviction
<1>9. r \notin holding
  BY <1>2 DEF IInv, HoldersAreFirst
<1>10. QueueIsWhoNeedsTheLock'
  BY <1>2 DEF IInv, QueueIsWhoNeedsTheLock, Identifier
<1>11. QueuesHaveNoDuplicates'
  BY DEF IInv, QueuesHaveNoDuplicates
<1>12. HoldersAreFirst'
  BY <1>2, <1>9 DEF IInv, TypeOK, HoldersAreFirst, Identifier
<1> QED BY <1>5, <1>6, <1>7, <1>8, <1>10, <1>11, <1>12 DEF IInv

(* The handler returns, with whatever final result.                        *)
LEMMA AwaitKeepsIInv ==
  ASSUME IInv, NEW r \in Runs, AwaitDone(r) \/ AwaitTimeout(r)
  PROVE  IInv'
<1> USE DEF AwaitDone, AwaitTimeout, managerVars, retained, locks, locals
<1>1. alive /\ handler[r] = "awaiting"
  OBVIOUS
<1>2. /\ handler' \in [Runs -> HandlerStages]
      /\ handler'[r] = "returned"
      /\ \A s \in Runs : s # r => handler'[s] = handler[s]
  BY DEF IInv, TypeOK, HandlerStages
<1>3. final' \in [Runs -> RunStruct \cup {None, Nil}]
  BY DEF IInv, TypeOK
<1>4. /\ UNCHANGED <<alive, runs, run, broker, log, latest, line, holding>>
      /\ UNCHANGED <<runsTotal, clock, args, exec, next, failure, runFailed>>
      /\ UNCHANGED <<ended, done>>
  OBVIOUS
<1> HIDE DEF AwaitDone, AwaitTimeout
<1>5. TypeOK'
  BY <1>2, <1>3, <1>4 DEF IInv, TypeOK
<1>6. PhasesAgree'
  BY <1>1, <1>2, <1>4 DEF IInv, PhasesAgree, Phase
<1>7. RetainedUntilEnded'
  BY <1>1, <1>2, <1>4 DEF IInv, RetainedUntilEnded
<1>8. CrashOnlyByEviction'
  BY <1>1, <1>4 DEF CrashOnlyByEviction
<1>9. QueueIsWhoNeedsTheLock' /\ QueuesHaveNoDuplicates' /\ HoldersAreFirst'
  BY <1>4 DEF IInv, QueueIsWhoNeedsTheLock, QueuesHaveNoDuplicates,
              HoldersAreFirst, Identifier
<1> QED BY <1>5, <1>6, <1>7, <1>8, <1>9 DEF IInv

LEMMA StutterKeepsIInv == ASSUME IInv, UNCHANGED vars PROVE IInv'
<1>1. /\ UNCHANGED <<alive, runs, run, broker, log, latest, line, holding>>
      /\ UNCHANGED <<runsTotal, clock, handler, args, final, exec, next>>
      /\ UNCHANGED <<failure, runFailed, ended, done>>
  BY DEF vars, managerVars, retained, locks, handlerVars, locals
<1> QED BY <1>1 DEF IInv, TypeOK, PhasesAgree, Phase, RetainedUntilEnded,
       CrashOnlyByEviction, QueueIsWhoNeedsTheLock, QueuesHaveNoDuplicates,
       HoldersAreFirst, Identifier
-----------------------------------------------------------------------------
(***************************************************************************)
(* The invariant, and what follows from it.                                *)
(***************************************************************************)
LEMMA IInvInit == Init => IInv
<1> SUFFICES ASSUME Init PROVE IInv
  OBVIOUS
<1> USE DEF Init
<1>1. NoRun \in RunStruct /\ NoRun.endedAt = 0
  BY EmptySeq DEF NoRun, RunStruct, RunStates
<1>2. /\ <<>> \in Seq(Events)
      /\ \A i \in Identifiers : line[i] \in Seq(Runs) /\ Len(line[i]) = 0
  BY EmptySeq
<1>3. TypeOK
  BY <1>1, <1>2 DEF TypeOK, HandlerStages, ExecStages
<1>4. PhasesAgree
  BY <1>1 DEF PhasesAgree, Phase, Unended, Extraction
<1>5. RetainedUntilEnded /\ CrashOnlyByEviction
  BY DEF RetainedUntilEnded, CrashOnlyByEviction
<1>6. QueueIsWhoNeedsTheLock
  BY <1>2 DEF QueueIsWhoNeedsTheLock
<1>7. QueuesHaveNoDuplicates
  BY <1>2 DEF QueuesHaveNoDuplicates
<1>8. HoldersAreFirst
  BY DEF HoldersAreFirst
<1> QED BY <1>3, <1>4, <1>5, <1>6, <1>7, <1>8 DEF IInv

LEMMA IInvInductive == IInv /\ [Next]_vars => IInv'
<1> SUFFICES ASSUME IInv, [Next]_vars PROVE IInv'
  OBVIOUS
<1>1. ASSUME NEW r \in Runs, NEW q \in Requests, Submit(r, q) PROVE IInv'
  BY <1>1, SubmitKeepsIInv
<1>2. ASSUME NEW r \in Runs, Handler(r) PROVE IInv'
  BY <1>2, EvictAndSpawnKeepsIInv, AwaitKeepsIInv DEF Handler
<1>3. ASSUME NEW r \in Runs, Execute(r) PROVE IInv'
  BY <1>3, EnterLockKeepsIInv, LockGrantedKeepsIInv, LockTimeoutKeepsIInv,
     EnsureOkKeepsIInv, EnsureFailsKeepsIInv, StartKeepsIInv, DeniedKeepsIInv,
     ExecCommandKeepsIInv, LastCommandKeepsIInv, CommandReturnsKeepsIInv,
     FailKeepsIInv, ExtractKeepsIInv, ExtractFailsKeepsIInv,
     ExtractOkKeepsIInv, PublishArtifactsKeepsIInv, SettleKeepsIInv, CountKeepsIInv,
     AnnounceKeepsIInv, CloseDoneKeepsIInv, UnlockKeepsIInv DEF Execute
<1>4. CASE UNCHANGED vars
  BY <1>4, StutterKeepsIInv
<1> QED BY <1>1, <1>2, <1>3, <1>4 DEF Next

(* For any number of runs, sandboxes and requests and any retention limit, *)
(* handlers, goroutines, map and locks stay tied together as IInv says;    *)
(* every field keeps its type (manager.go:91-394, 736-791).                *)
THEOREM InvariantHolds == SafetySpec => []IInv
BY IInvInit, IInvInductive, PTL DEF SafetySpec

(* Every field and local keeps its Go type.                                *)
THEOREM TypeCorrect == SafetySpec => []TypeOK
BY InvariantHolds, PTL DEF IInv

(* Eviction never takes a run that has not ended, so status polls and      *)
(* executeRun's own lookups find it (manager.go:219-225, 253, 742, 763).   *)
THEOREM UnendedRunsAreRetained == SafetySpec => []RetainedUntilEnded
BY InvariantHolds, PTL DEF IInv

(* A nil dereference of executeRun can only be the one in                  *)
(* extractArtifacts, and only for an evicted run that failed early         *)
(* (manager.go:253-254, 675-678).                                          *)
THEOREM OnlyExtractionCrashes == SafetySpec => []CrashOnlyByEviction
BY InvariantHolds, PTL DEF IInv

(* Two runs that were granted the lock of one sandbox never overlap, for   *)
(* any number of runs, timeouts included (manager.go:201-211).             *)
THEOREM LockedRunsAreSerialized == SafetySpec => []Serialized
<1>1. IInv => Serialized
  BY DEF IInv, HoldersAreFirst, Serialized
<1> QED BY <1>1, InvariantHolds, PTL

(* Every way out of executeRun gives the lock back, and a timeout leaves   *)
(* no waiter behind (manager.go:201-211).                                  *)
THEOREM NoLockLeaks == SafetySpec => []QueueIsWhoNeedsTheLock
BY InvariantHolds, PTL DEF IInv
-----------------------------------------------------------------------------
(***************************************************************************)
(* What a client is given.                                                 *)
(***************************************************************************)

(* A Run struct in which nothing, or only the artifacts, is replaced.      *)
LEMMA ArtifactsOnly ==
  ASSUME NEW x \in RunStruct
  PROVE  /\ x = [x EXCEPT !.artifacts = x.artifacts]
         /\ \A a : LET y == [x EXCEPT !.artifacts = a]
                   IN y = [x EXCEPT !.artifacts = y.artifacts]
BY DEF RunStruct

(* A step of a goroutine writes to no other Run, and to its own, once it   *)
(* has ended, only the artifacts.                                          *)
LEMMA ExecuteWrites ==
  ASSUME IInv, NEW r \in Runs, Execute(r)
  PROVE  /\ \A s \in Runs : s # r => run'[s] = run[s]
         /\ run[r].endedAt # 0 =>
              run'[r] = [run[r] EXCEPT !.artifacts = run'[r].artifacts]
<1>1. run \in [Runs -> RunStruct] /\ run[r] \in RunStruct
  BY DEF IInv, TypeOK
<1>2. ASSUME UNCHANGED run
      PROVE  /\ \A s \in Runs : s # r => run'[s] = run[s]
             /\ run'[r] = [run[r] EXCEPT !.artifacts = run'[r].artifacts]
  BY <1>1, <1>2, ArtifactsOnly
<1>3. ASSUME NEW x, run' = [run EXCEPT ![r] = x], exec[r] \in Unended
      PROVE  (\A s \in Runs : s # r => run'[s] = run[s]) /\ run[r].endedAt = 0
  BY <1>1, <1>3 DEF IInv, PhasesAgree, Phase
<1>4. ASSUME NEW a, run' = [run EXCEPT ![r].artifacts = a]
      PROVE  /\ \A s \in Runs : s # r => run'[s] = run[s]
             /\ run'[r] = [run[r] EXCEPT !.artifacts = run'[r].artifacts]
  BY <1>1, <1>4, ArtifactsOnly
<1>5. CASE \/ EnterLock(r) \/ LockGranted(r) \/ LockTimeout(r)
           \/ EnsureOk(r) \/ EnsureFails(r) \/ ExecCommand(r) \/ LastCommand(r)
           \/ Extract(r) \/ PublishArtifacts(r) \/ Count(r) \/ Announce(r)
           \/ CloseDone(r) \/ Unlock(r)
  <2>1. UNCHANGED run
    BY <1>5 DEF EnterLock, LockGranted, LockTimeout, EnsureOk, EnsureFails,
                ExecCommand, LastCommand, Extract, PublishArtifacts, Count,
                Announce, CloseDone, Unlock, managerVars
  <2> QED BY <2>1, <1>2
<1>6. CASE Start(r)
  <2>1. exec[r] \in Unended
    BY <1>6 DEF Start, Goto, Unended
  <2>2. UNCHANGED run \/ run' = [run EXCEPT ![r] = [run[r] EXCEPT !.state = "running"]]
    BY <1>6 DEF Start
  <2> QED BY <2>1, <2>2, <1>2, <1>3
<1>7. CASE Denied(r)
  <2>1. exec[r] \in Unended
    BY <1>7 DEF Denied, Goto, Unended
  <2>2. run' = [run EXCEPT ![r] = [run[r] EXCEPT !.commands[next[r]] = "failed"]]
    BY <1>7 DEF Denied
  <2> QED BY <2>1, <2>2, <1>3
<1>8. ASSUME NEW status \in CommandStatus, CommandReturns(r, status)
      PROVE  (\A s \in Runs : s # r => run'[s] = run[s]) /\ run[r].endedAt = 0
  <2>1. exec[r] \in Unended
    BY <1>8 DEF CommandReturns, Goto, Unended
  <2>2. run' = [run EXCEPT ![r] = [run[r] EXCEPT !.commands[next[r]] = status]]
    BY <1>8 DEF CommandReturns
  <2> QED BY <2>1, <2>2, <1>3
<1>9. CASE Fail(r) \/ Settle(r)
  <2>1. exec[r] \in Unended
    BY <1>9 DEF Fail, Settle, Goto, Unended
  <2>2. PICK s : run' = [run EXCEPT ![r] = [run[r] EXCEPT !.state = s, !.endedAt = ended[r]]]
    BY <1>9 DEF Fail, Settle, Conclude
  <2> QED BY <2>1, <2>2, <1>3
<1>10. CASE ExtractFails(r) \/ ExtractOk(r)
  BY <1>10, <1>4 DEF ExtractFails, ExtractOk
<1> QED BY <1>5, <1>6, <1>7, <1>8, <1>9, <1>10 DEF Execute

(* Once EndedAt is set, nothing but the artifacts of a run changes, for    *)
(* any number of runs and commands: what Get copies is no torn Run         *)
(* (manager.go:218-231, 270-280, 375-386, 568).                            *)
THEOREM EndedRunsAreFrozen == SafetySpec => FrozenAfterEnd
<1> DEFINE Frozen == \A r \in Runs :
             run[r].endedAt # 0 =>
               run' [r] = [run[r] EXCEPT !.artifacts = run'[r].artifacts]
<1>1. ASSUME IInv, [Next]_vars
      PROVE  Frozen
  <2>0. run \in [Runs -> RunStruct]
    BY <1>1 DEF IInv, TypeOK
  <2>1. ASSUME UNCHANGED run PROVE Frozen
    BY <2>0, <2>1, ArtifactsOnly
  <2>2. ASSUME NEW r \in Runs, NEW q \in Requests, Submit(r, q)
        PROVE  Frozen
    <3>1. run[r].endedAt = 0
      BY <1>1, <2>2 DEF IInv, PhasesAgree, Phase, Unended, Submit
    <3>2. \A s \in Runs : s # r => run'[s] = run[s]
      BY <2>0, <2>2 DEF Submit
    <3> QED BY <2>0, <3>1, <3>2, ArtifactsOnly
  <2>3. ASSUME NEW r \in Runs, Handler(r) PROVE Frozen
    <3>1. UNCHANGED run
      BY <2>3 DEF Handler, EvictAndSpawn, AwaitDone, AwaitTimeout, managerVars
    <3> QED BY <3>1, <2>1
  <2>4. ASSUME NEW r \in Runs, Execute(r) PROVE Frozen
    BY <1>1, <2>0, <2>4, ExecuteWrites, ArtifactsOnly
  <2>5. CASE UNCHANGED vars
    BY <2>5, <2>1 DEF vars, managerVars
  <2> QED BY <1>1, <2>2, <2>3, <2>4, <2>5 DEF Next
<1> QED BY <1>1, InvariantHolds, PTL DEF SafetySpec, FrozenAfterEnd

-----------------------------------------------------------------------------
(* What a step of a goroutine leaves alone: the handlers, and the runs of  *)
(* the other goroutines; only ExtractOk moves the `latest' alias.          *)
LEMMA ExecuteFrame ==
  ASSUME IInv, NEW r \in Runs, Execute(r)
  PROVE  /\ UNCHANGED <<handler, args, final>>
         /\ \A s \in Runs : s # r => /\ run'[s] = run[s]
                                     /\ exec'[s] = exec[s]
                                     /\ runFailed'[s] = runFailed[s]
                                     /\ s \in done' <=> s \in done
         /\ ~ExtractOk(r) => UNCHANGED latest
<1> USE DEF managerVars, handlerVars, locals
<1>1. UNCHANGED <<handler, args, final>>
  BY DEF Execute, EnterLock, LockGranted, LockTimeout, EnsureOk, EnsureFails,
         Start, Denied, ExecCommand, LastCommand, CommandReturns, Fail, Extract,
         ExtractFails, ExtractOk, PublishArtifacts, Settle, Count, Announce, CloseDone,
         Unlock
<1>2. ~ExtractOk(r) => UNCHANGED latest
  BY DEF Execute, EnterLock, LockGranted, LockTimeout, EnsureOk, EnsureFails,
         Start, Denied, ExecCommand, LastCommand, CommandReturns, Fail, Extract,
         ExtractFails, PublishArtifacts, Settle, Count, Announce, CloseDone, Unlock
<1>3. done' = done \/ done' = done \cup {r}
  BY DEF Execute, EnterLock, LockGranted, LockTimeout, EnsureOk, EnsureFails,
         Start, Denied, ExecCommand, LastCommand, CommandReturns, Fail, Extract,
         ExtractFails, ExtractOk, PublishArtifacts, Settle, Count, Announce, CloseDone,
         Unlock
<1>4. \E x : runFailed' = [runFailed EXCEPT ![r] = x]
  <2>1. UNCHANGED runFailed => runFailed' = [runFailed EXCEPT ![r] = runFailed[r]]
    BY DEF IInv, TypeOK
  <2>2. CASE Denied(r) \/ \E status \in CommandStatus : CommandReturns(r, status)
    BY <2>2 DEF Denied, CommandReturns
  <2>3. CASE ~(Denied(r) \/ \E status \in CommandStatus : CommandReturns(r, status))
    <3>1. UNCHANGED runFailed
      BY <2>3 DEF Execute, EnterLock, LockGranted, LockTimeout, EnsureOk,
         EnsureFails, Start, ExecCommand, LastCommand, Fail, Extract,
         ExtractFails, ExtractOk, PublishArtifacts, Settle, Count, Announce,
         CloseDone, Unlock
    <3> QED BY <3>1, <2>1
  <2> QED BY <2>2, <2>3
<1>5. \E from, to : Goto(r, from, to)
  BY DEF Execute, EnterLock, LockGranted, LockTimeout, EnsureOk, EnsureFails,
         Start, Denied, ExecCommand, LastCommand, CommandReturns, Fail, Extract,
         ExtractFails, ExtractOk, PublishArtifacts, AfterExtract, Settle, Count,
         Announce, CloseDone, Unlock
<1>6. \A s \in Runs : s # r => exec'[s] = exec[s]
  BY <1>5 DEF Goto, IInv, TypeOK
<1>7. \A s \in Runs : s # r => runFailed'[s] = runFailed[s]
  BY <1>4 DEF IInv, TypeOK
<1> QED BY <1>1, <1>2, <1>3, <1>6, <1>7, ExecuteWrites

(* Conclude and the extraction keep the commands as they are.              *)
LEMMA CommandsKept ==
  ASSUME IInv, NEW r \in Runs,
         \/ UNCHANGED run
         \/ \E s \in Settled : Conclude(r, s)
         \/ \E a : run' = [run EXCEPT ![r].artifacts = a]
  PROVE  /\ NothingRan(r) => NothingRan(r)'
         /\ \/ UNCHANGED run
            \/ \E s \in Settled : Conclude(r, s)
            => run'[r].artifacts = run[r].artifacts
<1>1. run \in [Runs -> RunStruct] /\ run[r] \in RunStruct
  BY DEF IInv, TypeOK
<1>2. CASE UNCHANGED run
  BY <1>2 DEF NothingRan
<1>3. ASSUME NEW s \in Settled, Conclude(r, s)
      PROVE  /\ run'[r].commands = run[r].commands
             /\ run'[r].artifacts = run[r].artifacts
  <2>1. run' = [run EXCEPT ![r] = [run[r] EXCEPT !.state = s, !.endedAt = ended[r]]]
    BY <1>3 DEF Conclude
  <2> QED BY <2>1, <1>1 DEF RunStruct
<1>4. ASSUME NEW a, run' = [run EXCEPT ![r].artifacts = a]
      PROVE  run'[r].commands = run[r].commands
  BY <1>1, <1>4 DEF RunStruct
<1>5. CASE \E s \in Settled : Conclude(r, s)
  BY <1>3, <1>5 DEF NothingRan
<1>6. CASE /\ ~UNCHANGED run
           /\ ~\E s \in Settled : Conclude(r, s)
           /\ \E a : run' = [run EXCEPT ![r].artifacts = a]
  BY <1>4, <1>6 DEF NothingRan
<1> QED BY <1>2, <1>5, <1>6

(* A run whose Done is open has not been copied for anybody.               *)
LEMMA OpenIsUncopied ==
  ASSUME NEW r \in Runs, Whole(r), exec[r] \notin {"unlocking", "gone"}
  PROVE  r \notin done /\ final[r] \in {None, Nil}
BY DEF Whole

(* The step of a goroutine whose Done stays open keeps its own run whole   *)
(* when it keeps what Whole says of the place where it arrives.            *)
LEMMA WholeWhileOpen ==
  ASSUME NEW r \in Runs, Whole(r), exec[r] \notin {"unlocking", "gone"},
         UNCHANGED <<done, final>>,
         \/ exec'[r] \in {"absent", "spawned", "locking", "ensuring"}
         \/ exec'[r] = "failing" /\ ~runFailed'[r]
         => NothingRan(r)',
         Behind(r)' => run'[r].artifacts # "none" \/ NothingRan(r)'
  PROVE  Whole(r)'
BY OpenIsUncopied DEF Whole

(* A step of the goroutine before the extraction, and the extraction.      *)
LEMMA FirstStepsKeepWhole ==
  ASSUME IInv, NEW r \in Runs, Whole(r),
         \/ EnterLock(r) \/ LockGranted(r) \/ LockTimeout(r)
         \/ EnsureOk(r) \/ EnsureFails(r) \/ Start(r)
         \/ Denied(r) \/ ExecCommand(r) \/ LastCommand(r)
         \/ \E status \in CommandStatus \ {"queued"} : CommandReturns(r, status)
         \/ Extract(r) \/ ExtractFails(r) \/ ExtractOk(r)
  PROVE  Whole(r)' /\ ~Behind(r)
<1> USE DEF managerVars, handlerVars, locals
<1>0. exec \in [Runs -> ExecStages] /\ run \in [Runs -> RunStruct]
      /\ runFailed \in [Runs -> BOOLEAN]
  BY DEF IInv, TypeOK
<1>1. CASE EnterLock(r) \/ LockGranted(r) \/ LockTimeout(r) \/ EnsureOk(r)
  <2>1. /\ exec[r] \in {"spawned", "locking", "ensuring"}
        /\ exec'[r] \in {"locking", "ensuring", "ready"}
        /\ UNCHANGED <<run, done, final>>
    BY <1>0, <1>1 DEF EnterLock, LockGranted, LockTimeout, EnsureOk, Goto
  <2>2. NothingRan(r) /\ NothingRan(r)'
    BY <2>1 DEF Whole, NothingRan
  <2> QED BY <2>1, <2>2, WholeWhileOpen DEF Behind
<1>2. CASE EnsureFails(r)
  <2>1. /\ exec[r] = "ensuring"
        /\ UNCHANGED <<run, done, final>>
    BY <1>0, <1>2 DEF EnsureFails, Goto
  <2>2. NothingRan(r) /\ NothingRan(r)'
    BY <2>1 DEF Whole, NothingRan
  <2> QED BY <2>1, <2>2, WholeWhileOpen DEF Behind
<1>3. CASE Start(r) \/ ExecCommand(r) \/ LastCommand(r) \/ Extract(r)
  <2>1. /\ exec[r] \in {"ready", "command", "extracting"}
        /\ exec'[r] \in {"command", "executing", "extracting", "copying"}
        /\ UNCHANGED <<done, final>>
    BY <1>0, <1>3 DEF Start, ExecCommand, LastCommand, Extract, Goto
  <2> QED BY <2>1, WholeWhileOpen DEF Behind
<1>4. CASE Denied(r)
  <2>1. /\ exec[r] = "command" /\ exec'[r] = "failing"
        /\ runFailed'[r]
        /\ UNCHANGED <<done, final>>
    BY <1>0, <1>4 DEF Denied, Goto
  <2> QED BY <2>1, WholeWhileOpen DEF Behind
<1>5. ASSUME NEW status \in CommandStatus, CommandReturns(r, status)
      PROVE  Whole(r)' /\ ~Behind(r)
  <2>1. /\ exec[r] = "executing"
        /\ \/ exec'[r] = "failing" /\ runFailed'[r]
           \/ exec'[r] = "command"
        /\ UNCHANGED <<done, final>>
    BY <1>0, <1>5 DEF CommandReturns, Goto
  <2> QED BY <2>1, WholeWhileOpen DEF Behind
<1>6. CASE ExtractFails(r) \/ ExtractOk(r)
  <2>1. /\ exec[r] = "copying"
        /\ exec'[r] \in {"publishing", "closing", "settling"}
        /\ UNCHANGED <<done, final>>
    BY <1>0, <1>6 DEF ExtractFails, ExtractOk, AfterExtract, Goto
  <2>2. run'[r].artifacts \in {"error", "listed"}
    BY <1>0, <1>6 DEF ExtractFails, ExtractOk, RunStruct
  <2> QED BY <2>1, <2>2, WholeWhileOpen DEF Behind
<1> QED BY <1>1, <1>2, <1>3, <1>4, <1>5, <1>6

(* The steps that settle a run and end its goroutine: behind its extraction*)
(* a run stays there, with its artifacts.                                  *)
LEMMA LastStepsKeepWhole ==
  ASSUME IInv, NEW r \in Runs, Whole(r),
         \/ Fail(r) \/ PublishArtifacts(r) \/ Settle(r) \/ Count(r) \/ Announce(r)
         \/ CloseDone(r) \/ Unlock(r)
  PROVE  /\ Whole(r)'
         /\ Behind(r) => Behind(r)' /\ run'[r].artifacts = run[r].artifacts
<1> USE DEF managerVars, handlerVars, locals
<1>0. exec \in [Runs -> ExecStages] /\ runFailed \in [Runs -> BOOLEAN]
  BY DEF IInv, TypeOK
<1>1. UNCHANGED run \/ \E s \in Settled : Conclude(r, s)
  BY DEF Fail, PublishArtifacts, Settle, Count, Announce, CloseDone, Unlock, Settled
<1>2. /\ NothingRan(r) => NothingRan(r)'
      /\ run'[r].artifacts = run[r].artifacts
  BY <1>1, CommandsKept
<1>3. CASE Fail(r)
  <2>1. /\ exec[r] = "failing" /\ exec'[r] = "counting"
        /\ UNCHANGED <<runFailed, done, final>>
    BY <1>0, <1>3 DEF Fail, Goto
  <2>2. ~runFailed[r] => NothingRan(r)
    BY <2>1 DEF Whole
  <2> QED BY <2>1, <2>2, <1>2, WholeWhileOpen DEF Behind
<1>4. CASE PublishArtifacts(r) \/ Settle(r)
  <2>1. /\ exec[r] \in {"publishing", "settling"}
        /\ \/ exec'[r] \in {"closing", "settling"}
           \/ exec'[r] = "counting" /\ ~runFailed[r]
        /\ UNCHANGED <<runFailed, done, final>>
    BY <1>0, <1>4 DEF PublishArtifacts, AfterExtract, Settle, Goto,
       IInv, PhasesAgree, Phase, Unended
  <2>2. Behind(r) /\ Behind(r)'
    BY <2>1 DEF Behind
  <2> QED BY <2>1, <2>2, <1>2, WholeWhileOpen DEF Whole
<1>5. CASE Count(r) \/ Announce(r)
  <2>1. /\ \/ exec[r] = "counting" /\ exec'[r] = "announcing"
           \/ /\ exec[r] = "announcing"
              /\ exec'[r] = IF runFailed[r] THEN "extracting" ELSE "closing"
        /\ UNCHANGED <<runFailed, done, final>>
    BY <1>0, <1>5 DEF Count, Announce, Goto
  <2>2. Behind(r) <=> Behind(r)'
    BY <2>1 DEF Behind
  <2> QED BY <2>1, <2>2, <1>2, WholeWhileOpen DEF Whole
<1>6. CASE CloseDone(r)
  <2>1. /\ exec[r] = "closing" /\ exec'[r] = "unlocking"
        /\ done' = done \cup {r}
        /\ UNCHANGED <<runFailed, final, run>>
    BY <1>0, <1>6 DEF CloseDone, Goto
  <2>2. Behind(r) /\ Behind(r)'
    BY <2>1 DEF Behind
  <2>3. final[r] \in {None, Nil}
    BY <2>1, OpenIsUncopied
  <2> QED BY <2>1, <2>2, <2>3, <1>2 DEF Whole
<1>7. CASE Unlock(r)
  <2>1. /\ exec[r] = "unlocking" /\ exec'[r] = "gone"
        /\ UNCHANGED <<runFailed, done, final, run>>
    BY <1>0, <1>7 DEF Unlock, Goto
  <2>2. Behind(r) /\ Behind(r)'
    BY <2>1 DEF Behind
  <2> QED BY <2>1, <2>2, <1>2 DEF Whole
<1> QED BY <1>3, <1>4, <1>5, <1>6, <1>7

(* A step in which nothing happens to the other runs, and that keeps a run *)
(* behind its extraction there, keeps the alias where it leads.            *)
LEMMA LatestKept ==
  ASSUME TypeOK, LatestIsBehind, NEW r \in Runs, UNCHANGED latest,
         \A s \in Runs : s # r => /\ run'[s] = run[s]
                                 /\ exec'[s] = exec[s]
                                 /\ runFailed'[s] = runFailed[s]
                                 /\ args'[s] = args[s],
         Behind(r) => /\ Behind(r)'
                      /\ run'[r].artifacts = run[r].artifacts
                      /\ args'[r] = args[r]
  PROVE  LatestIsBehind'
<1> SUFFICES ASSUME NEW i \in Identifiers, latest[i] # None
             PROVE  /\ Behind(latest[i])'
                    /\ run'[latest[i]].artifacts = "listed"
                    /\ Identifier(latest[i])' = i
  BY DEF LatestIsBehind
<1>1. /\ latest[i] \in Runs
      /\ Behind(latest[i])
      /\ run[latest[i]].artifacts = "listed"
      /\ Identifier(latest[i]) = i
  BY DEF TypeOK, LatestIsBehind
<1>2. CASE latest[i] = r
  BY <1>1, <1>2 DEF Identifier
<1>3. CASE latest[i] # r
  BY <1>1, <1>3 DEF Identifier, Behind
<1> QED BY <1>2, <1>3

(* Nothing that Whole reads of the run changes.                            *)
LEMMA OtherWhole ==
  ASSUME NEW s \in Runs, Whole(s),
         run'[s] = run[s], exec'[s] = exec[s], runFailed'[s] = runFailed[s],
         final'[s] = final[s], s \in done' <=> s \in done
  PROVE  Whole(s)'
<1>1. NothingRan(s)' <=> NothingRan(s)
  BY DEF NothingRan
<1>2. Behind(s)' <=> Behind(s)
  BY DEF Behind
<1> QED BY <1>1, <1>2 DEF Whole

LEMMA ExecuteKeepsResults ==
  ASSUME IInv, ResultsInv, NEW r \in Runs, Execute(r)
  PROVE  ResultsInv'
<1>1. /\ UNCHANGED <<args, final>>
      /\ \A s \in Runs : s # r => /\ run'[s] = run[s]
                                  /\ exec'[s] = exec[s]
                                  /\ runFailed'[s] = runFailed[s]
                                  /\ s \in done' <=> s \in done
      /\ ~ExtractOk(r) => UNCHANGED latest
  BY ExecuteFrame
<1>2. /\ Whole(r)'
      /\ Behind(r) => Behind(r)' /\ run'[r].artifacts = run[r].artifacts
  BY FirstStepsKeepWhole, LastStepsKeepWhole DEF Execute, ResultsInv
<1>3. \A s \in Runs : Whole(s)'
  BY <1>1, <1>2, OtherWhole DEF ResultsInv
<1>4. CASE ~ExtractOk(r)
  <2>1. TypeOK /\ LatestIsBehind
    BY DEF IInv, ResultsInv
  <2>2. LatestIsBehind'
    BY <2>1, <1>1, <1>2, <1>4, LatestKept
  <2> QED BY <2>2, <1>3 DEF ResultsInv
<1>5. CASE ExtractOk(r)
  <2>1. /\ exec[r] = "copying" /\ exec'[r] = "publishing"
        /\ run'[r].artifacts = "listed"
        /\ latest' = [latest EXCEPT ![Identifier(r)] = r]
    BY <1>5 DEF ExtractOk, Goto, IInv, TypeOK, RunStruct
  <2>2. ~Behind(r) /\ Behind(r)'
    BY <2>1 DEF Behind
  <2> SUFFICES ASSUME NEW i \in Identifiers, latest'[i] # None
               PROVE  /\ Behind(latest[i])'
                      /\ (run[latest[i]].artifacts)' = "listed"
                      /\ Identifier(latest[i])' = i
    BY <1>3 DEF ResultsInv, LatestIsBehind
  <2>3. CASE i = Identifier(r)
    <3>1. latest'[i] = r
      BY <2>1, <2>3 DEF IInv, TypeOK
    <3> QED BY <3>1, <2>1, <2>2, <2>3, <1>1 DEF Identifier
  <2>4. CASE i # Identifier(r)
    <3>1. latest'[i] = latest[i] /\ latest[i] \in Runs
      BY <2>1, <2>4 DEF IInv, TypeOK
    <3>2. /\ Behind(latest[i])
          /\ run[latest[i]].artifacts = "listed"
          /\ Identifier(latest[i]) = i
      BY <3>1 DEF ResultsInv, LatestIsBehind
    <3>3. latest[i] # r
      BY <3>2, <2>2
    <3> QED BY <3>1, <3>2, <3>3, <1>1 DEF Identifier, Behind
  <2> QED BY <2>3, <2>4
<1> QED BY <1>4, <1>5

LEMMA SubmitKeepsResults ==
  ASSUME IInv, ResultsInv, NEW r \in Runs, NEW q \in Requests, Submit(r, q)
  PROVE  ResultsInv'
<1> USE DEF Submit, locals
<1>1. exec[r] = "absent" /\ UNCHANGED <<latest, final, exec, runFailed, done>>
  BY DEF IInv, PhasesAgree, Phase
<1>2. /\ \A s \in Runs : s # r => args'[s] = args[s] /\ run'[s] = run[s]
      /\ run'[r].commands = [c \in 1..Len(q.commands) |-> "queued"]
  BY DEF IInv, TypeOK, NoRun
<1> HIDE DEF Submit
<1>3. NothingRan(r)' /\ ~Behind(r) /\ ~Behind(r)'
  BY <1>1, <1>2 DEF NothingRan, Behind
<1>4. Whole(r)'
  BY <1>1, <1>3, WholeWhileOpen DEF ResultsInv
<1>5. \A s \in Runs : Whole(s)'
  BY <1>1, <1>2, <1>4, OtherWhole DEF ResultsInv
<1> QED BY <1>1, <1>2, <1>3, <1>5, LatestKept DEF IInv, ResultsInv

LEMMA HandlerKeepsResults ==
  ASSUME IInv, ResultsInv, NEW r \in Runs, Handler(r)
  PROVE  ResultsInv'
<1> USE DEF managerVars, locals
<1>1. UNCHANGED <<latest, args, run, runFailed, done>>
  BY DEF Handler, EvictAndSpawn, AwaitDone, AwaitTimeout
<1>2. CASE EvictAndSpawn(r)
  <2>1. /\ exec[r] = "absent" /\ exec'[r] = "spawned"
        /\ \A s \in Runs : s # r => exec'[s] = exec[s]
        /\ UNCHANGED final
    BY <1>2 DEF EvictAndSpawn, Goto, IInv, TypeOK
  <2>2. NothingRan(r)' /\ ~Behind(r) /\ ~Behind(r)'
    BY <2>1, <1>1 DEF ResultsInv, Whole, NothingRan, Behind
  <2>3. Whole(r)'
    BY <2>1, <2>2, <1>1, WholeWhileOpen DEF ResultsInv
  <2>4. \A s \in Runs : Whole(s)'
    BY <2>1, <2>3, <1>1, OtherWhole DEF ResultsInv
  <2> QED BY <2>1, <2>2, <2>4, <1>1, LatestKept DEF IInv, ResultsInv
<1>3. CASE AwaitDone(r) \/ AwaitTimeout(r)
  <2>1. /\ UNCHANGED exec
        /\ \A s \in Runs : s # r => final'[s] = final[s]
        /\ \/ final'[r] = Nil
           \/ r \in done /\ final'[r] = run[r]
    BY <1>3 DEF AwaitDone, AwaitTimeout, IInv, TypeOK
  <2>2. Whole(r)'
    BY <2>1, <1>1 DEF ResultsInv, Whole, NothingRan, Behind
  <2>3. \A s \in Runs : Whole(s)'
    BY <2>1, <2>2, <1>1, OtherWhole DEF ResultsInv
  <2>4. Behind(r) => Behind(r)'
    BY <2>1, <1>1 DEF Behind
  <2> QED BY <2>1, <2>3, <2>4, <1>1, LatestKept DEF IInv, ResultsInv
<1> QED BY <1>2, <1>3 DEF Handler

(* The second inductive invariant holds for every set of runs, identifiers *)
(* and requests: Done is closed only behind the extraction, and what was   *)
(* handed out stays what it was (manager.go:171-189, 363-394, 651-659).    *)
THEOREM ResultsAreWhole == SafetySpec => []ResultsInv
<1>1. Init => ResultsInv
  <2> SUFFICES ASSUME Init PROVE ResultsInv
    OBVIOUS
  <2>1. ASSUME NEW r \in Runs PROVE Whole(r)
    <3>1. NothingRan(r)
      BY EmptySeq DEF Init, NoRun, NothingRan
    <3> QED BY <3>1 DEF Init, Whole
  <2>2. LatestIsBehind
    BY DEF Init, LatestIsBehind
  <2> QED BY <2>1, <2>2 DEF ResultsInv
<1>2. ASSUME IInv, ResultsInv, UNCHANGED vars
      PROVE  ResultsInv'
  <2>1. UNCHANGED <<run, latest, args, final, exec, runFailed, done>>
    BY <1>2 DEF vars, managerVars, handlerVars, locals
  <2> QED BY <2>1, <1>2 DEF ResultsInv, Whole, LatestIsBehind, NothingRan,
             Behind, Identifier
<1>3. IInv /\ ResultsInv /\ [Next]_vars => ResultsInv'
  BY <1>2, SubmitKeepsResults, HandlerKeepsResults, ExecuteKeepsResults DEF Next
<1> QED BY <1>1, <1>3, InvariantHolds, PTL DEF SafetySpec

(* Done is closed only for a run that ended and whose artifacts are        *)
(* decided, and the copy that an awaiting client was given stays equal to  *)
(* the run (manager.go:186-188, 238, 393).                                 *)
THEOREM AwaitedRunsAreWhole == SafetySpec => []AwaitedRunIsWhole
<1>1. IInv /\ ResultsInv => AwaitedRunIsWhole
  <2> SUFFICES ASSUME IInv, ResultsInv, NEW r \in Runs
               PROVE  /\ r \in done => /\ run[r].endedAt # 0
                                       /\ run[r].artifacts # "none" \/ NothingRan(r)
                      /\ final[r] \notin {None, Nil} => r \in done /\ final[r] = run[r]
    BY DEF AwaitedRunIsWhole, NothingRan
  <2>1. Whole(r) /\ Phase(r)
    BY DEF IInv, PhasesAgree, ResultsInv
  <2> QED BY <2>1 DEF Whole, Phase, Behind, Unended, Extraction
<1> QED BY <1>1, InvariantHolds, ResultsAreWhole, PTL

(* The `latest' alias of an identifier only ever leads to a run of that    *)
(* identifier whose artifacts were extracted (manager.go:651-659, 730).    *)
THEOREM LatestLeadsToArtifacts == SafetySpec => []LatestHasArtifacts
<1>1. ResultsInv => LatestHasArtifacts
  BY DEF ResultsInv, LatestIsBehind, LatestHasArtifacts
<1> QED BY <1>1, ResultsAreWhole, PTL

(* Both ways to a run's results, the awaited answer and the alias, lead to *)
(* what will not change, for any number of runs that end, extract and are  *)
(* evicted meanwhile (manager.go:183-194, 651-659).                        *)
THEOREM ResultsMayBeUsedHolds == SafetySpec => []ResultsMayBeUsed
BY AwaitedRunsAreWhole, LatestLeadsToArtifacts, PTL DEF ResultsMayBeUsed

-----------------------------------------------------------------------------
(***************************************************************************)
(* The command loop and its verdict.                                       *)
(***************************************************************************)

(* What the loop knows of a run depends on its commands and arguments.     *)
LEMMA SameCommands ==
  ASSUME NEW r \in Runs,
         run'[r].commands = run[r].commands, args'[r] = args[r]
  PROVE  /\ NothingRan(r)' <=> NothingRan(r)
         /\ Spoiled(r)' <=> Spoiled(r)
         /\ \A n : RanBefore(r, n)' <=> RanBefore(r, n)
         /\ failure'[r] = failure[r] => (LoopOver(r)' <=> LoopOver(r))
<1>1. NothingRan(r)' <=> NothingRan(r)
  BY DEF NothingRan
<1>2. \A c : Spoils(r, c)' <=> Spoils(r, c)
  BY DEF Spoils
<1>3. Spoiled(r)' <=> Spoiled(r)
  BY <1>2 DEF Spoiled
<1>4. \A n : RanBefore(r, n)' <=> RanBefore(r, n)
  BY DEF RanBefore
<1>5. \A c : Stops(r, c)' <=> Stops(r, c)
  BY <1>2 DEF Stops
<1> QED BY <1>1, <1>3, <1>4, <1>5 DEF LoopOver

(* Nothing that Loop reads of the run changes.                             *)
LEMMA OtherLoop ==
  ASSUME NEW s \in Runs, Loop(s),
         run'[s] = run[s], exec'[s] = exec[s], args'[s] = args[s],
         next'[s] = next[s], failure'[s] = failure[s],
         handler[s] = "idle" => handler'[s] = "idle"
  PROVE  Loop(s)'
BY SameCommands DEF Loop

(* The next command of the loop gets its result.                           *)
LEMMA CommandRan ==
  ASSUME IInv, NEW r \in Runs, NEW n \in Nat \ {0}, RanBefore(r, n),
         UNCHANGED args, n <= Len(run[r].commands),
         NEW s \in CommandStatus \ {"queued"},
         run' = [run EXCEPT ![r].commands[n] = s]
  PROVE  /\ Len(run'[r].commands) = Len(run[r].commands)
         /\ n \in DOMAIN run'[r].commands
         /\ RanBefore(r, n + 1)'
         /\ ~NothingRan(r)'
         /\ Spoils(r, n)' <=> /\ s # "completed"
                              /\ \/ args[r].commands[n].denied
                                 \/ ~args[r].commands[n].allowFailure
         /\ Spoiled(r)' <=> Spoiled(r) \/ Spoils(r, n)'
<1> DEFINE old == run[r].commands
           new == [old EXCEPT ![n] = s]
<1>1. old \in Seq(CommandStatus) /\ Len(old) \in Nat /\ DOMAIN old = 1..Len(old)
  BY LenProperties DEF IInv, TypeOK, RunStruct
<1>2. run'[r].commands = new
  BY DEF IInv, TypeOK, RunStruct
<1> HIDE DEF old
<1>3. n \in 1..Len(old)
  BY <1>1 DEF old
<1>4. /\ DOMAIN new = 1..Len(old)
      /\ new \in Seq(CommandStatus)
      /\ new[n] = s
      /\ \A c \in 1..Len(old) : c # n => new[c] = old[c]
  BY <1>1, <1>3, ExceptIsSeq
<1>5. Len(new) = Len(old)
  BY <1>1, <1>4, LenProperties
<1> HIDE DEF new
<1>6. RanBefore(r, n + 1)'
  BY <1>1, <1>2, <1>3, <1>4 DEF RanBefore, old
<1>7. ~NothingRan(r)'
  BY <1>2, <1>3, <1>4 DEF NothingRan
<1>8. Spoils(r, n)' <=> /\ s # "completed"
                        /\ \/ args[r].commands[n].denied
                           \/ ~args[r].commands[n].allowFailure
  BY <1>2, <1>4 DEF Spoils, CommandStatus
<1>9. \A c \in 1..Len(old) : c # n => (Spoils(r, c)' <=> Spoils(r, c))
  BY <1>2, <1>4 DEF Spoils, old
<1>10. ~Spoils(r, n)
  BY <1>1, <1>3 DEF RanBefore, Spoils, old
<1>11. Spoiled(r)' <=> Spoiled(r) \/ Spoils(r, n)'
  BY <1>1, <1>2, <1>3, <1>4, <1>9, <1>10 DEF Spoiled, old
<1> QED BY <1>2, <1>3, <1>4, <1>5, <1>6, <1>7, <1>8, <1>11 DEF old

(* What every step of a goroutine keeps of the loop of its run.            *)
LEMMA LoopFrame ==
  ASSUME IInv, NEW r \in Runs, Execute(r)
  PROVE  /\ UNCHANGED <<handler, args>>
         /\ \A s \in Runs : s # r => /\ run'[s] = run[s]
                                     /\ exec'[s] = exec[s]
                                     /\ next'[s] = next[s]
                                     /\ failure'[s] = failure[s]
<1> USE DEF locals
<1>1. CASE Denied(r) \/ EnsureFails(r) \/ \E s \in CommandStatus : CommandReturns(r, s)
  <2>1. \A s \in Runs : s # r => next'[s] = next[s] /\ failure'[s] = failure[s]
    BY <1>1 DEF Denied, EnsureFails, CommandReturns, IInv, TypeOK
  <2> QED BY <2>1, ExecuteFrame
<1>2. CASE ~(Denied(r) \/ EnsureFails(r) \/ \E s \in CommandStatus : CommandReturns(r, s))
  <2>1. UNCHANGED <<next, failure>>
    BY <1>2 DEF Execute, EnterLock, LockGranted, LockTimeout, EnsureOk, Start,
       ExecCommand, LastCommand, Fail, Extract, ExtractFails, ExtractOk,
       PublishArtifacts, Settle, Count, Announce, CloseDone, Unlock
  <2> QED BY <2>1, ExecuteFrame
<1> QED BY <1>1, <1>2

(* Up to the loop nothing has run.                                         *)
LEMMA BeforeLoop ==
  ASSUME IInv, NEW r \in Runs, Loop(r),
         \/ EnterLock(r) \/ LockGranted(r) \/ LockTimeout(r)
         \/ EnsureOk(r) \/ EnsureFails(r) \/ Start(r)
  PROVE  Loop(r)'
<1> USE DEF managerVars, handlerVars, locals
<1>0. exec \in [Runs -> ExecStages] /\ run \in [Runs -> RunStruct]
      /\ failure \in [Runs -> BOOLEAN]
  BY DEF IInv, TypeOK
<1>1. /\ exec[r] \in {"spawned", "locking", "ensuring", "ready"}
      /\ run[r].endedAt = 0 /\ r \in runs
  BY DEF EnterLock, LockGranted, LockTimeout, EnsureOk, EnsureFails, Start, Goto,
     IInv, PhasesAgree, Phase, Unended, RetainedUntilEnded
<1>2. /\ run'[r].commands = run[r].commands
      /\ run'[r].endedAt = 0
      /\ UNCHANGED <<next, args, handler>>
  BY <1>0, <1>1 DEF EnterLock, LockGranted, LockTimeout, EnsureOk, EnsureFails,
     Start, RunStruct
<1>3. next[r] = 1 /\ NothingRan(r) /\ ~failure[r]
  BY <1>1 DEF Loop
<1>4. NothingRan(r)' /\ ~Spoiled(r) /\ RanBefore(r, 1)
  <2>1. DOMAIN run[r].commands \subseteq Nat \ {0}
    BY <1>0, LenProperties DEF RunStruct
  <2> QED BY <2>1, <1>2, <1>3, SameCommands DEF NothingRan, Spoiled, Spoils, RanBefore
<1>5. CASE EnsureFails(r)
  <2>1. exec'[r] = "failing" /\ failure'[r]
    BY <1>0, <1>1, <1>5 DEF EnsureFails, Goto
  <2>2. LoopOver(r)'
    BY <2>1, <1>4 DEF LoopOver
  <2> QED BY <2>1, <2>2, <1>2 DEF Loop, Unended
<1>6. CASE Start(r)
  <2>1. exec'[r] = "command" /\ UNCHANGED failure
    BY <1>0, <1>6 DEF Start, Goto
  <2>2. RanBefore(r, 1)' /\ ~Spoiled(r)'
    BY <1>2, <1>4, SameCommands
  <2> QED BY <2>1, <2>2, <1>2, <1>3 DEF Loop, RanBefore, Unended
<1>7. CASE EnterLock(r) \/ LockGranted(r) \/ LockTimeout(r) \/ EnsureOk(r)
  <2>1. exec'[r] \in {"locking", "ensuring", "ready"} /\ UNCHANGED failure
    BY <1>0, <1>7 DEF EnterLock, LockGranted, LockTimeout, EnsureOk, Goto
  <2> QED BY <2>1, <1>2, <1>3, <1>4 DEF Loop, Unended
<1> QED BY <1>5, <1>6, <1>7

(* The head of the loop, and a command that returns.                       *)
LEMMA InLoop ==
  ASSUME IInv, NEW r \in Runs, Loop(r),
         \/ Denied(r) \/ ExecCommand(r) \/ LastCommand(r)
         \/ \E status \in CommandStatus \ {"queued"} : CommandReturns(r, status)
  PROVE  Loop(r)'
<1> USE DEF managerVars, handlerVars, locals
<1>0. /\ exec \in [Runs -> ExecStages] /\ run \in [Runs -> RunStruct]
      /\ failure \in [Runs -> BOOLEAN] /\ next \in [Runs -> Nat \ {0}]
  BY DEF IInv, TypeOK
<1>1. /\ exec[r] \in {"command", "executing"}
      /\ UNCHANGED <<args, handler>>
  BY DEF Denied, ExecCommand, LastCommand, CommandReturns, Goto
<1>2. /\ run[r].endedAt = 0
      /\ handler[r] # "idle" /\ args[r] \in Requests
      /\ Len(run[r].commands) = Len(args[r].commands)
      /\ RanBefore(r, next[r]) /\ (failure[r] <=> Spoiled(r))
  BY <1>1 DEF Loop, IInv, PhasesAgree, Phase, Unended
<1>3. PICK n \in Nat \ {0} : n = next[r]
  BY <1>0
<1>4. DOMAIN run[r].commands = 1..Len(run[r].commands) /\ Len(run[r].commands) \in Nat
  BY <1>0, LenProperties DEF RunStruct
<1>5. CASE ExecCommand(r)
  <2>1. /\ exec'[r] = "executing"
        /\ n <= Len(args[r].commands) /\ ~args[r].commands[n].denied
        /\ UNCHANGED <<run, next, failure>>
    BY <1>0, <1>3, <1>5 DEF ExecCommand, Goto
  <2> QED BY <2>1, <1>1, <1>2, <1>3, SameCommands DEF Loop, Unended
<1>6. CASE LastCommand(r)
  <2>1. /\ exec'[r] = "extracting"
        /\ n > Len(args[r].commands)
        /\ UNCHANGED <<run, next, failure>>
    BY <1>0, <1>3, <1>6 DEF LastCommand, Goto
  <2>2. Len(run[r].commands) >= 1
    <3>1. args[r].commands \in Seq(Command) /\ args[r].commands # <<>>
      BY <1>2, RequestsAssumption
    <3> QED BY <3>1, <1>2, EmptySeq, LenProperties
  <2>3. ~NothingRan(r) /\ RanBefore(r, Len(run[r].commands) + 1)
    BY <2>1, <2>2, <1>2, <1>3, <1>4 DEF NothingRan, RanBefore
  <2>4. LoopOver(r)
    BY <2>3, <1>2 DEF LoopOver
  <2> QED BY <2>1, <2>4, <1>1, <1>2, SameCommands DEF Loop, Unended
<1>7. CASE Denied(r)
  <2>1. /\ exec'[r] = "failing" /\ failure'[r]
        /\ n <= Len(args[r].commands) /\ args[r].commands[n].denied
        /\ run' = [run EXCEPT ![r].commands[n] = "failed"]
    BY <1>0, <1>3, <1>7 DEF Denied, Goto
  <2>2. "failed" \in CommandStatus \ {"queued"} /\ UNCHANGED args
    BY <1>1 DEF CommandStatus
  <2>3. /\ Len(run'[r].commands) = Len(run[r].commands)
        /\ n \in DOMAIN run'[r].commands
        /\ RanBefore(r, n + 1)'
        /\ Spoils(r, n)' /\ Spoiled(r)'
    BY <2>1, <2>2, <1>2, <1>3, CommandRan
  <2>4. Stops(r, n)'
    BY <2>1, <2>2, <2>3 DEF Stops
  <2>5. LoopOver(r)'
    BY <2>1, <2>3, <2>4 DEF LoopOver
  <2>6. run'[r].endedAt = 0
    BY <2>1, <1>2, CommandStored DEF IInv, CommandStatus
  <2> QED BY <2>1, <2>3, <2>5, <2>6, <1>1, <1>2 DEF Loop, Unended
<1>8. ASSUME NEW s \in CommandStatus \ {"queued"}, CommandReturns(r, s)
      PROVE  Loop(r)'
  <2> DEFINE bad == s # "completed" /\ ~args[r].commands[n].allowFailure
             stop == bad /\ ~args[r].continueOnError
  <2>1. /\ exec[r] = "executing"
        /\ exec'[r] = IF stop THEN "failing" ELSE "command"
        /\ run' = [run EXCEPT ![r].commands[n] = s]
        /\ failure'[r] = (failure[r] \/ bad)
        /\ next'[r] = n + 1
    BY <1>0, <1>3, <1>8 DEF CommandReturns, Goto
  <2> HIDE DEF stop
  <2>2. n <= Len(args[r].commands) /\ ~args[r].commands[n].denied
    BY <2>1, <1>3 DEF Loop
  <2>3. /\ Len(run'[r].commands) = Len(run[r].commands)
        /\ n \in DOMAIN run'[r].commands
        /\ RanBefore(r, n + 1)'
        /\ ~NothingRan(r)'
        /\ Spoils(r, n)' <=> bad
        /\ Spoiled(r)' <=> Spoiled(r) \/ bad
    BY <2>1, <2>2, <1>1, <1>2, <1>3, CommandRan
  <2> HIDE DEF bad
  <2>4. failure'[r] <=> Spoiled(r)'
    BY <2>1, <2>3, <1>0, <1>2
  <2>5. run'[r].endedAt = 0
    BY <2>1, <1>2, CommandStored DEF IInv
  <2>6. CASE stop
    <3>1. exec'[r] = "failing" /\ Spoils(r, n)' /\ ~args[r].continueOnError
      BY <2>1, <2>3, <2>6 DEF stop
    <3>2. Stops(r, n)' /\ failure'[r]
      BY <3>1, <2>1, <2>3, <2>6, <1>1 DEF Stops, stop
    <3>3. LoopOver(r)'
      BY <3>2, <2>3, <2>4 DEF LoopOver
    <3> QED BY <3>1, <3>2, <3>3, <2>3, <2>5, <1>1, <1>2 DEF Loop, Unended
  <2>7. CASE ~stop
    <3>1. exec'[r] = "command"
      BY <2>1, <2>7
    <3>2. RanBefore(r, next[r])'
      BY <2>1, <2>3 DEF RanBefore
    <3> QED BY <3>1, <3>2, <2>3, <2>4, <2>5, <1>1, <1>2 DEF Loop, Unended
  <2> QED BY <2>6, <2>7
<1> QED BY <1>5, <1>6, <1>7, <1>8

(* After the loop its verdict stands, and is what the run ends with.       *)
LEMMA AfterLoop ==
  ASSUME IInv, NEW r \in Runs, Loop(r),
         \/ Fail(r) \/ Extract(r) \/ ExtractFails(r) \/ ExtractOk(r)
         \/ PublishArtifacts(r) \/ Settle(r) \/ Count(r) \/ Announce(r) \/ CloseDone(r)
         \/ Unlock(r)
  PROVE  Loop(r)'
<1> USE DEF managerVars, handlerVars, locals
<1>0. /\ exec \in [Runs -> ExecStages] /\ run \in [Runs -> RunStruct]
  BY DEF IInv, TypeOK
<1>1. /\ UNCHANGED <<args, handler, next, failure>>
      /\ exec[r] \in {"failing", "settling"} \cup (ExecStages \ Unended)
      /\ exec'[r] \in {"settling"} \cup (ExecStages \ Unended)
  BY <1>0 DEF Fail, Extract, ExtractFails, ExtractOk, PublishArtifacts, AfterExtract,
     Settle, Count, Announce, CloseDone, Unlock, Goto, ExecStages, Unended
<1>2. LoopOver(r)
  BY <1>1 DEF Loop, Unended
<1>3. /\ run'[r].commands = run[r].commands
      /\ run'[r].endedAt # 0 =>
           run'[r].state = IF failure[r] THEN "failed" ELSE "completed"
  <2>1. CASE Fail(r) \/ Settle(r)
    <3> DEFINE s == IF failure[r] THEN "failed" ELSE "completed"
    <3>1. run' = [run EXCEPT ![r] = [run[r] EXCEPT !.state = s, !.endedAt = ended[r]]]
      BY <2>1 DEF Fail, Settle, Conclude, Loop, Goto
    <3> QED BY <3>1, <1>0 DEF RunStruct
  <2>2. CASE ExtractFails(r) \/ ExtractOk(r)
    <3>1. PICK a : run' = [run EXCEPT ![r] = [run[r] EXCEPT !.artifacts = a]]
      BY <2>2 DEF ExtractFails, ExtractOk
    <3> QED BY <3>1, <1>0 DEF RunStruct, Loop
  <2>3. CASE \/ Extract(r) \/ PublishArtifacts(r) \/ Count(r) \/ Announce(r)
             \/ CloseDone(r) \/ Unlock(r)
    <3>1. UNCHANGED run
      BY <2>3 DEF Extract, PublishArtifacts, Count, Announce, CloseDone, Unlock
    <3> QED BY <3>1 DEF Loop
  <2> QED BY <2>1, <2>2, <2>3
<1>4. LoopOver(r)'
  BY <1>1, <1>2, <1>3, SameCommands
<1> QED BY <1>1, <1>3, <1>4 DEF Loop, Unended

LEMMA ExecuteKeepsLoop ==
  ASSUME IInv, LoopInv, NEW r \in Runs, Execute(r)
  PROVE  LoopInv'
<1>1. Loop(r)'
  BY BeforeLoop, InLoop, AfterLoop DEF Execute, LoopInv
<1>2. ASSUME NEW s \in Runs, s # r PROVE Loop(s)'
  BY <1>2, LoopFrame, OtherLoop DEF LoopInv
<1> QED BY <1>1, <1>2 DEF LoopInv

LEMMA SubmitKeepsLoop ==
  ASSUME IInv, LoopInv, NEW r \in Runs, NEW q \in Requests, Submit(r, q)
  PROVE  LoopInv'
<1> USE DEF Submit, locals
<1>1. exec[r] = "absent" /\ UNCHANGED <<exec, next, failure>>
  BY DEF IInv, PhasesAgree, Phase
<1>2. /\ \A s \in Runs : s # r => /\ args'[s] = args[s]
                                  /\ run'[s] = run[s]
                                  /\ handler'[s] = handler[s]
      /\ run'[r].commands = [c \in 1..Len(q.commands) |-> "queued"]
      /\ run'[r].endedAt = 0
      /\ args'[r] = q
  BY DEF IInv, TypeOK, NoRun
<1> HIDE DEF Submit
<1>3. /\ Len(q.commands) \in Nat
      /\ Len(run'[r].commands) = Len(q.commands)
  <2>1. Len(q.commands) \in Nat
    BY RequestsAssumption, LenProperties
  <2> QED BY <2>1, <1>2
<1>4. NothingRan(r)'
  BY <1>2 DEF NothingRan
<1>5. next[r] = 1 /\ ~failure[r]
  BY <1>1 DEF LoopInv, Loop
<1>6. Loop(r)'
  BY <1>1, <1>2, <1>3, <1>4, <1>5 DEF Loop, Unended
<1>7. ASSUME NEW s \in Runs, s # r PROVE Loop(s)'
  BY <1>1, <1>2, <1>7, OtherLoop DEF LoopInv
<1> QED BY <1>6, <1>7 DEF LoopInv

LEMMA HandlerKeepsLoop ==
  ASSUME IInv, LoopInv, NEW r \in Runs, Handler(r)
  PROVE  LoopInv'
<1> USE DEF managerVars, locals
<1>1. /\ UNCHANGED <<run, args, next, failure>>
      /\ \A s \in Runs : handler[s] = "idle" => handler'[s] = "idle"
  BY DEF Handler, EvictAndSpawn, AwaitDone, AwaitTimeout, IInv, TypeOK
<1>2. CASE EvictAndSpawn(r)
  <2>1. /\ exec[r] = "absent" /\ exec'[r] = "spawned"
        /\ \A s \in Runs : s # r => exec'[s] = exec[s]
    BY <1>2 DEF EvictAndSpawn, Goto, IInv, TypeOK
  <2>2. handler[r] # "idle"
    BY <1>2 DEF EvictAndSpawn
  <2>3. Loop(r)'
    BY <2>1, <2>2, <1>1, SameCommands DEF LoopInv, Loop, Unended
  <2>4. ASSUME NEW s \in Runs, s # r PROVE Loop(s)'
    BY <2>1, <2>4, <1>1, OtherLoop DEF LoopInv
  <2> QED BY <2>3, <2>4 DEF LoopInv
<1>3. CASE AwaitDone(r) \/ AwaitTimeout(r)
  <2>1. UNCHANGED exec
    BY <1>3 DEF AwaitDone, AwaitTimeout
  <2> QED BY <2>1, <1>1, OtherLoop DEF LoopInv
<1> QED BY <1>2, <1>3 DEF Handler

LEMMA LoopInit == Init => LoopInv
<1> SUFFICES ASSUME Init, NEW r \in Runs PROVE Loop(r)
  BY DEF LoopInv
<1>1. NothingRan(r)
  BY EmptySeq DEF Init, NoRun, NothingRan
<1> QED BY <1>1 DEF Init, NoRun, Loop, Unended

LEMMA LoopInductive == IInv /\ LoopInv /\ [Next]_vars => LoopInv'
<1>1. ASSUME LoopInv, UNCHANGED vars PROVE LoopInv'
  <2>1. UNCHANGED <<run, args, handler, exec, next, failure>>
    BY <1>1 DEF vars, managerVars, handlerVars, locals
  <2> QED BY <2>1, <1>1, OtherLoop DEF LoopInv
<1> QED BY <1>1, SubmitKeepsLoop, HandlerKeepsLoop, ExecuteKeepsLoop DEF Next

(* The final state of a run is earned, for any number of commands and any  *)
(* combination of allow_failure, continue_on_error and the deny list:      *)
(* completed exactly when every command ran and none spoiled the run, and  *)
(* a command that never ran is behind the one that stopped the run, or in  *)
(* a run that had no sandbox (manager.go:216-239, 288-386).                *)
THEOREM OutcomesAreJustified == SafetySpec => []OutcomeJustified
<1>1. IInv /\ LoopInv => OutcomeJustified
  <2> SUFFICES ASSUME IInv, LoopInv, NEW r \in Runs, run[r].endedAt # 0
               PROVE  LET C == DOMAIN run[r].commands
                          NeverRan(c) == run[r].commands[c] = "queued"
                      IN /\ run[r].state = "completed" <=>
                                 \A c \in C : ~NeverRan(c) /\ ~Spoils(r, c)
                         /\ \A c \in C : NeverRan(c) =>
                              \/ \A d \in C : NeverRan(d)
                              \/ \E d \in C : /\ d < c
                                              /\ Spoils(r, d)
                                              /\ args[r].commands[d].denied \/ ~args[r].continueOnError
                                              /\ \A e \in C : e > d => NeverRan(e)
    BY DEF OutcomeJustified
  <2> DEFINE C == DOMAIN run[r].commands
             NeverRan(c) == run[r].commands[c] = "queued"
  <2>1. /\ LoopOver(r)
        /\ run[r].state = IF failure[r] THEN "failed" ELSE "completed"
        /\ handler[r] # "idle" /\ args[r] \in Requests
        /\ Len(run[r].commands) = Len(args[r].commands)
    BY DEF IInv, PhasesAgree, Phase, LoopInv, Loop, Unended
  <2>2. C = 1..Len(run[r].commands) /\ Len(run[r].commands) \in Nat
    BY LenProperties DEF IInv, TypeOK, RunStruct
  <2>3. 1 \in C
    <3>1. args[r].commands \in Seq(Command) /\ args[r].commands # <<>>
      BY <2>1, RequestsAssumption
    <3> QED BY <3>1, <2>1, <2>2, EmptySeq, LenProperties
  <2>4. run[r].state = "completed" <=> ~failure[r]
    BY <2>1
  <2>5. failure[r] <=> (\A c \in C : NeverRan(c)) \/ (\E c \in C : Spoils(r, c))
    BY <2>1 DEF LoopOver, NothingRan, Spoiled
  <2>6. \A c \in C : NeverRan(c) =>
          \/ \A d \in C : NeverRan(d)
          \/ \E d \in C : /\ d < c
                          /\ Stops(r, d)
                          /\ \A e \in C : e > d => NeverRan(e)
    <3>1. CASE NothingRan(r)
      BY <3>1 DEF NothingRan
    <3>2. CASE RanBefore(r, Len(run[r].commands) + 1)
      BY <3>2, <2>2 DEF RanBefore
    <3>3. ASSUME NEW d \in C, Stops(r, d), RanBefore(r, d + 1)
          PROVE  /\ \A c \in C : NeverRan(c) => d < c
                 /\ \A e \in C : e > d => NeverRan(e)
      BY <3>3, <2>2 DEF RanBefore
    <3> QED BY <2>1, <3>1, <3>2, <3>3 DEF LoopOver
  <2>7. (\E c \in C : NeverRan(c)) => failure[r]
    BY <2>5, <2>6 DEF Stops
  <2>8. (\A c \in C : ~NeverRan(c) /\ ~Spoils(r, c)) => ~failure[r]
    BY <2>3, <2>5
  <2> QED BY <2>4, <2>5, <2>6, <2>7, <2>8 DEF Stops
<1> QED BY <1>1, LoopInit, LoopInductive, InvariantHolds, PTL DEF SafetySpec

-----------------------------------------------------------------------------
(***************************************************************************)
(* The stream of a run.                                                    *)
(***************************************************************************)
LEMMA AppendEvent ==
  ASSUME NEW e \in Seq(Events), NEW x \in Events
  PROVE  /\ Append(e, x) \in Seq(Events)
         /\ Append(e, x) # <<>>
         /\ Len(e) \in Nat /\ Len(Append(e, x)) = Len(e) + 1
         /\ \A i \in 1..Len(e) : Append(e, x)[i] = e[i]
         /\ Append(e, x)[Len(e) + 1] = x
         /\ e = <<>> <=> Len(e) = 0
BY AppendProperties, LenProperties, EmptySeq

LEMMA OneFailure ==
  /\ <<"run_failed">> \in Seq(Events)
  /\ Len(<<"run_failed">>) = 1 /\ <<"run_failed">>[1] = "run_failed"
BY DEF Events

NoTerminal(e) == \A i \in 1..Len(e) : e[i] \notin Terminal

(* Where which event keeps a stream well formed.                           *)
LEMMA WellFormedAppend ==
  ASSUME NEW e \in Seq(Events), NEW x \in Events, WellFormed(e),
         \/ e = <<>> /\ x \in {"run_started", "run_failed"}
         \/ /\ e # <<>> /\ e[1] = "run_started"
            /\ e[Len(e)] = "command_started" <=> x = "command_finished"
            /\ x # "run_started"
            /\ \/ NoTerminal(e)
               \/ /\ x = "artifacts_extracted"
                  /\ \A i \in 1..Len(e) : e[i] # "run_finished"
  PROVE  WellFormed(Append(e, x))
<1> DEFINE n == Len(e)
           f == Append(e, x)
<1>1. /\ n \in Nat /\ Len(f) = n + 1
      /\ \A i \in 1..n : f[i] = e[i]
      /\ f[n + 1] = x
      /\ e = <<>> <=> n = 0
  BY AppendEvent
<1> HIDE DEF f
<1>2. \A i \in 1..n : e[i] \in Events
  BY ElementOfSeq
<1>3. ASSUME e = <<>> PROVE WellFormed(f)
  <2>1. n = 0 /\ Len(f) = 1 /\ f[1] = x /\ x \in {"run_started", "run_failed"}
    BY <1>1, <1>3
  <2>2. x = "run_failed" => f = <<"run_failed">>
    BY <1>3 DEF f
  <2>3. x = "run_started" => f # <<"run_failed">>
    BY <2>1, OneFailure
  <2> QED BY <2>1, <2>2, <2>3 DEF WellFormed
<1>4. ASSUME e # <<>> PROVE WellFormed(f)
  <2>1. n >= 1 /\ e[1] = "run_started" /\ f[1] = "run_started"
    BY <1>1, <1>4
  <2>2. e # <<"run_failed">> /\ f # <<"run_failed">>
    BY <2>1, OneFailure
  <2>3. ASSUME NEW i \in 1..(n + 1) PROVE f[i] = "run_started" <=> i = 1
    BY <1>1, <2>1, <2>2, <1>4 DEF WellFormed
  <2>4. ASSUME NEW i \in 1..(n + 1), f[i] = "command_finished"
        PROVE  f[i - 1] = "command_started"
    <3>1. CASE i <= n
      <4>1. e[i] = "command_finished" /\ i # 1
        BY <1>1, <2>1, <2>4, <3>1
      <4>2. e[i - 1] = "command_started"
        BY <3>1, <4>1 DEF WellFormed
      <4> QED BY <4>1, <4>2, <3>1, <1>1
    <3>2. CASE i = n + 1
      BY <1>1, <1>4, <2>1, <2>4, <3>2
    <3> QED BY <3>1, <3>2, <1>1
  <2>5. ASSUME NEW i \in 1..(n + 1), f[i] = "command_started", i < n + 1
        PROVE  f[i + 1] = "command_finished"
    <3>1. e[i] = "command_started" /\ i \in 1..n
      BY <1>1, <2>5
    <3>2. CASE i < n
      BY <1>1, <3>1, <3>2 DEF WellFormed
    <3>3. CASE i = n
      BY <1>1, <1>4, <3>1, <3>3
    <3> QED BY <3>1, <3>2, <3>3, <1>1
  <2>6. ASSUME NEW i \in 1..(n + 1), f[i] = "run_finished" PROVE i = n + 1
    <3>1. i \in 1..n => e[i] # "run_finished"
      BY <1>4 DEF NoTerminal, Terminal
    <3> QED BY <1>1, <2>6, <3>1
  <2>7. ASSUME NEW i \in 1..(n + 1), f[i] = "run_failed",
               NEW j \in (i + 1)..(n + 1)
        PROVE  f[j] = "artifacts_extracted"
    <3>1. i \in 1..n /\ e[i] = "run_failed"
      BY <1>1, <2>7
    <3>2. x = "artifacts_extracted"
      BY <1>4, <3>1 DEF NoTerminal, Terminal
    <3>3. CASE j \in 1..n
      BY <1>1, <3>1, <3>3 DEF WellFormed
    <3>4. CASE j = n + 1
      BY <1>1, <3>2, <3>4
    <3> QED BY <3>3, <3>4, <1>1, <2>7
  <2> QED BY <1>1, <2>2, <2>3, <2>4, <2>5, <2>6, <2>7 DEF WellFormed
<1>5. WellFormed(f)
  BY <1>3, <1>4
<1> QED BY <1>5 DEF f

(* A step without an event keeps the stream of its run when it keeps, or   *)
(* leaves, the places that Stream tells apart.                             *)
LEMMA QuietStep ==
  ASSUME NEW r \in Runs, Stream(r), log'[r] = log[r],
         UNCHANGED <<broker, handler>>,
         exec'[r] \in {"absent", "spawned", "locking", "ensuring", "ready"}
           => exec[r] \in {"absent", "spawned", "locking", "ensuring", "ready"},
         Begun(r)' => Begun(r),
         exec'[r] = "executing" <=> exec[r] = "executing",
         Announced(r)' <=> Announced(r),
         Announced(r) => failure'[r] = failure[r],
         run'[r].endedAt = 0 => run[r].endedAt = 0,
         runFailed'[r] => failure'[r]
  PROVE  Stream(r)'
<1> DEFINE e == log[r]
<1>1. /\ WellFormed(e)
      /\ exec'[r] \in {"absent", "spawned", "locking", "ensuring", "ready"} => e = <<>>
      /\ Begun(r)' => e # <<>> /\ e[1] = "run_started"
      /\ e # <<>> => (e[Len(e)] = "command_started" <=> exec'[r] = "executing")
      /\ \A i \in 1..Len(e) : e[i] \in Terminal =>
           /\ Announced(r)'
           /\ e[i] = IF failure'[r] THEN "run_failed" ELSE "run_finished"
      /\ Announced(r)' /\ broker'[r] = "open" =>
           \E i \in 1..Len(e) : e[i] \in Terminal
      /\ handler'[r] # "idle" /\ run'[r].endedAt = 0 => broker'[r] = "open"
  BY DEF Stream
<1>2. WellFormed(log[r])' <=> WellFormed(e)
  BY DEF WellFormed
<1> QED BY <1>1, <1>2 DEF Stream

(* Nothing happens to the run, but for an eviction once it has ended.      *)
LEMMA OtherStream ==
  ASSUME NEW s \in Runs, Stream(s),
         log'[s] = log[s], exec'[s] = exec[s], run'[s] = run[s],
         runFailed'[s] = runFailed[s], failure'[s] = failure[s],
         handler[s] = "idle" => handler'[s] = "idle",
         \/ broker'[s] = broker[s]
         \/ broker'[s] = "closed" /\ run[s].endedAt # 0
  PROVE  Stream(s)'
<1>1. WellFormed(log[s])' <=> WellFormed(log[s])
  BY DEF WellFormed
<1>2. (Begun(s)' <=> Begun(s)) /\ (Announced(s)' <=> Announced(s))
  BY DEF Begun, Announced
<1> QED BY <1>1, <1>2 DEF Stream

LEMMA StreamFrame ==
  ASSUME IInv, NEW r \in Runs, Execute(r)
  PROVE  /\ UNCHANGED <<broker, handler>>
         /\ \A s \in Runs : s # r => /\ log'[s] = log[s]
                                     /\ run'[s] = run[s]
                                     /\ exec'[s] = exec[s]
                                     /\ runFailed'[s] = runFailed[s]
                                     /\ failure'[s] = failure[s]
<1> USE DEF retained, managerVars
<1>1. UNCHANGED broker
  BY DEF Execute, EnterLock, LockGranted, LockTimeout, EnsureOk, EnsureFails,
     Start, Denied, ExecCommand, LastCommand, CommandReturns, Fail, Extract,
     ExtractFails, ExtractOk, PublishArtifacts, Settle, Count, Announce, CloseDone,
     Unlock
<1>2. UNCHANGED log \/ \E x : Publish(r, x)
  BY DEF Execute, EnterLock, LockGranted, LockTimeout, EnsureOk, EnsureFails,
     Start, Denied, ExecCommand, LastCommand, CommandReturns, Fail, Extract,
     ExtractFails, ExtractOk, PublishArtifacts, Settle, Count, Announce, CloseDone,
     Unlock
<1>3. \A s \in Runs : s # r => log'[s] = log[s]
  BY <1>2 DEF Publish, IInv, TypeOK
<1> QED BY <1>1, <1>3, ExecuteFrame, LoopFrame

LEMMA QuietActions ==
  ASSUME IInv, NEW r \in Runs, Stream(r), Loop(r),
         \/ EnterLock(r) \/ LockGranted(r) \/ LockTimeout(r)
         \/ EnsureOk(r) \/ EnsureFails(r) \/ Denied(r) \/ LastCommand(r)
         \/ Fail(r) \/ Extract(r) \/ ExtractFails(r) \/ ExtractOk(r)
         \/ Settle(r) \/ Count(r) \/ CloseDone(r) \/ Unlock(r)
  PROVE  Stream(r)'
<1> USE DEF managerVars, retained, handlerVars, locals
<1>0. /\ exec \in [Runs -> ExecStages] /\ failure \in [Runs -> BOOLEAN]
      /\ runFailed \in [Runs -> BOOLEAN]
  BY DEF IInv, TypeOK
<1>1. UNCHANGED <<log, broker, handler>>
  BY DEF EnterLock, LockGranted, LockTimeout, EnsureOk, EnsureFails, Denied,
     LastCommand, Fail, Extract, ExtractFails, ExtractOk, Settle, Count,
     CloseDone, Unlock
<1>2. runFailed[r] => failure[r]
  BY DEF Stream
<1>3. CASE \/ EnterLock(r) \/ LockGranted(r) \/ LockTimeout(r)
           \/ EnsureOk(r) \/ EnsureFails(r) \/ Denied(r) \/ LastCommand(r)
           \/ Fail(r) \/ Settle(r)
  <2>1. exec[r] \in Unended /\ run[r].endedAt = 0
    BY <1>3 DEF EnterLock, LockGranted, LockTimeout, EnsureOk, EnsureFails,
       Denied, LastCommand, Fail, Settle, Goto, Unended, IInv, PhasesAgree, Phase
  <2>2. CASE EnterLock(r) \/ LockGranted(r) \/ LockTimeout(r) \/ EnsureOk(r)
    <3>1. /\ exec[r] \in {"spawned", "locking", "ensuring"}
          /\ exec'[r] \in {"locking", "ensuring", "ready"}
          /\ UNCHANGED <<failure, runFailed>>
      BY <1>0, <2>2 DEF EnterLock, LockGranted, LockTimeout, EnsureOk, Goto
    <3> QED BY <3>1, <1>1, <1>2, <2>1, QuietStep DEF Begun, Announced, Extraction
  <2>3. CASE EnsureFails(r)
    <3>1. r \in runs /\ ~runFailed[r]
      BY <2>1, <2>3 DEF IInv, RetainedUntilEnded, PhasesAgree, Phase, Unended,
         EnsureFails, Goto
    <3>2. /\ exec[r] = "ensuring" /\ exec'[r] = "failing" /\ failure'[r]
          /\ UNCHANGED runFailed
      BY <1>0, <2>3, <3>1 DEF EnsureFails, Goto
    <3> QED BY <3>1, <3>2, <1>1, <2>1, QuietStep DEF Begun, Announced, Extraction
  <2>4. CASE Denied(r)
    <3>1. /\ exec[r] = "command" /\ exec'[r] = "failing"
          /\ failure'[r] /\ runFailed'[r]
      BY <1>0, <2>4 DEF Denied, Goto
    <3> QED BY <3>1, <1>1, <2>1, QuietStep DEF Begun, Announced, Extraction
  <2>5. CASE LastCommand(r) \/ Settle(r)
    <3>1. /\ \/ exec[r] = "command" /\ exec'[r] = "extracting"
             \/ exec[r] = "settling" /\ exec'[r] = "counting"
          /\ UNCHANGED <<failure, runFailed>>
      BY <1>0, <2>5 DEF LastCommand, Settle, Goto
    <3>2. ~runFailed[r]
      BY <3>1 DEF IInv, PhasesAgree, Phase, Unended
    <3> QED BY <3>1, <3>2, <1>1, <2>1, QuietStep DEF Begun, Announced, Extraction
  <2>6. CASE Fail(r)
    <3>1. /\ exec[r] = "failing" /\ exec'[r] = "counting"
          /\ UNCHANGED <<failure, runFailed>>
      BY <1>0, <2>6 DEF Fail, Goto
    <3>2. failure[r]
      BY <3>1 DEF Loop
    <3> QED BY <3>1, <3>2, <1>1, <2>1, QuietStep DEF Begun, Announced, Extraction
  <2> QED BY <1>3, <2>2, <2>3, <2>4, <2>5, <2>6
<1>4. CASE \/ Extract(r) \/ ExtractFails(r) \/ ExtractOk(r)
           \/ Count(r) \/ CloseDone(r) \/ Unlock(r)
  <2>1. UNCHANGED <<failure, runFailed>>
    BY <1>4 DEF Extract, ExtractFails, ExtractOk, Count, CloseDone, Unlock
  <2>2. run'[r].endedAt = run[r].endedAt
    <3>1. CASE ExtractFails(r) \/ ExtractOk(r)
      BY <3>1, ArtifactsStored DEF ExtractFails, ExtractOk, IInv
    <3>2. CASE Extract(r) \/ Count(r) \/ CloseDone(r) \/ Unlock(r)
      BY <3>2 DEF Extract, Count, CloseDone, Unlock
    <3> QED BY <1>4, <3>1, <3>2
  <2>3. \/ exec[r] = "extracting" /\ exec'[r] = "copying"
        \/ exec[r] = "counting" /\ exec'[r] = "announcing"
        \/ /\ exec[r] = "copying"
           /\ exec'[r] = IF runFailed[r] THEN "closing" ELSE "settling"
        \/ exec[r] = "copying" /\ exec'[r] = "publishing"
        \/ exec[r] = "closing" /\ exec'[r] = "unlocking"
        \/ exec[r] = "unlocking" /\ exec'[r] = "gone"
    BY <1>0, <1>4 DEF Extract, ExtractFails, ExtractOk, AfterExtract, Count,
       CloseDone, Unlock, Goto
  <2> QED BY <2>1, <2>2, <2>3, <1>1, <1>2, QuietStep DEF Begun, Announced, Extraction
<1> QED BY <1>3, <1>4

(* A step with an event that is accepted: no terminal one, after a stream  *)
(* without, or the one that announces the outcome.                         *)
LEMMA EventStep ==
  ASSUME IInv, NEW r \in Runs, Stream(r), NEW x \in Events,
         Publish(r, x), broker[r] = "open", UNCHANGED <<broker, handler>>,
         \/ x = "run_started" /\ log[r] = <<>>
         \/ x = "run_failed" /\ log[r] = <<>>
         \/ /\ log[r] # <<>> /\ log[r][1] = "run_started" /\ x # "run_started"
            /\ exec[r] = "executing" <=> x = "command_finished"
            /\ ~Announced(r) \/ (x = "artifacts_extracted" /\ failure[r]),
         exec'[r] \notin {"absent", "spawned", "locking", "ensuring", "ready"},
         Begun(r)' => x # "run_failed" \/ log[r] # <<>>,
         exec'[r] = "executing" <=> x = "command_started",
         Announced(r)' <=> Announced(r) \/ x \in Terminal,
         Announced(r)' => failure'[r] = failure[r],
         x \in Terminal => x = IF failure[r] THEN "run_failed" ELSE "run_finished",
         runFailed'[r] => failure'[r]
  PROVE  Stream(r)'
<1> DEFINE e == log[r]
           f == Append(e, x)
<1>1. e \in Seq(Events) /\ log'[r] = f
  BY DEF IInv, TypeOK, Publish
<1>2. /\ WellFormed(e)
      /\ Begun(r) => e # <<>> /\ e[1] = "run_started"
      /\ e # <<>> => (e[Len(e)] = "command_started" <=> exec[r] = "executing")
      /\ \A i \in 1..Len(e) : e[i] \in Terminal =>
           Announced(r) /\ e[i] = IF failure[r] THEN "run_failed" ELSE "run_finished"
      /\ Announced(r) /\ broker[r] = "open" =>
           \E i \in 1..Len(e) : e[i] \in Terminal
  BY DEF Stream
<1> HIDE DEF e
<1>3. /\ Len(e) \in Nat /\ Len(f) = Len(e) + 1 /\ f # <<>>
      /\ \A i \in 1..Len(e) : f[i] = e[i]
      /\ f[Len(e) + 1] = x
      /\ e = <<>> <=> Len(e) = 0
  BY <1>1, AppendEvent
<1>4. WellFormed(f)
  <2>1. CASE e = <<>>
    BY <1>1, <1>2, <2>1, WellFormedAppend DEF e
  <2>2. CASE e # <<>>
    <3>1. /\ e[1] = "run_started" /\ x # "run_started"
          /\ exec[r] = "executing" <=> x = "command_finished"
          /\ ~Announced(r) \/ (x = "artifacts_extracted" /\ failure[r])
      BY <2>2 DEF e
    <3>2. ~Announced(r) => NoTerminal(e)
      BY <1>2 DEF NoTerminal
    <3>3. failure[r] => \A i \in 1..Len(e) : e[i] # "run_finished"
      BY <1>2 DEF Terminal
    <3> QED BY <1>1, <1>2, <2>2, <3>1, <3>2, <3>3, WellFormedAppend
  <2> QED BY <2>1, <2>2
<1> HIDE DEF f
<1>5. WellFormed(log[r])'
  BY <1>1, <1>4 DEF WellFormed
<1>6. Begun(r)' => f[1] = "run_started"
  <2>1. e # <<>> => f[1] = e[1] /\ e[1] = "run_started"
    BY <1>3 DEF e
  <2>2. e = <<>> => f[1] = x
    BY <1>3
  <2>3. e = <<>> => x = "run_started" \/ x = "run_failed"
    BY DEF e
  <2> QED BY <2>1, <2>2, <2>3, <1>2 DEF e
<1>7. f[Len(f)] = "command_started" <=> exec'[r] = "executing"
  BY <1>3
<1>8. ASSUME NEW i \in 1..Len(f), f[i] \in Terminal
      PROVE  /\ Announced(r)'
             /\ f[i] = IF failure'[r] THEN "run_failed" ELSE "run_finished"
  <2>1. CASE i \in 1..Len(e)
    BY <1>2, <1>3, <1>8, <2>1
  <2>2. CASE i = Len(e) + 1
    BY <1>3, <1>8, <2>2
  <2> QED BY <2>1, <2>2, <1>3
<1>9. Announced(r)' => \E i \in 1..Len(f) : f[i] \in Terminal
  <2>1. CASE Announced(r)
    <3>1. PICK i \in 1..Len(e) : e[i] \in Terminal
      BY <1>2, <2>1
    <3> QED BY <1>3, <3>1
  <2>2. CASE x \in Terminal
    BY <1>3, <2>2
  <2> QED BY <2>1, <2>2
<1> QED BY <1>1, <1>3, <1>5, <1>6, <1>7, <1>8, <1>9 DEF Stream

LEMMA PublishingActions ==
  ASSUME IInv, NEW r \in Runs, Stream(r), Loop(r),
         \/ Start(r) \/ ExecCommand(r) \/ PublishArtifacts(r) \/ Announce(r)
         \/ \E status \in CommandStatus \ {"queued"} : CommandReturns(r, status)
  PROVE  Stream(r)'
<1> USE DEF managerVars, retained, handlerVars, locals
<1>0. /\ exec \in [Runs -> ExecStages] /\ failure \in [Runs -> BOOLEAN]
      /\ runFailed \in [Runs -> BOOLEAN]
      /\ broker \in [Runs -> {"none", "open", "closed"}]
  BY DEF IInv, TypeOK
<1>1. UNCHANGED <<broker, handler>>
  BY DEF Start, ExecCommand, PublishArtifacts, Announce, CommandReturns
<1>2. runFailed[r] => failure[r]
  BY DEF Stream
<1>3. ASSUME exec[r] \in {"ready", "command", "executing"}
      PROVE  /\ broker[r] = "open" /\ r \in runs
             /\ ~runFailed[r] /\ ~Announced(r)
  BY <1>3 DEF Stream, IInv, PhasesAgree, Phase, Unended, RetainedUntilEnded,
     Announced, Extraction
<1>4. CASE Start(r)
  <2>1. exec[r] = "ready"
    BY <1>4 DEF Start, Goto
  <2>2. broker[r] = "open" /\ r \in runs /\ ~runFailed[r] /\ ~Announced(r)
    BY <1>3, <2>1
  <2>3. /\ exec'[r] = "command"
        /\ Publish(r, "run_started") /\ "run_started" \in Events
        /\ UNCHANGED <<failure, runFailed>>
    BY <1>0, <1>4, <2>2 DEF Start, Goto, Events
  <2>4. log[r] = <<>>
    BY <2>1 DEF Stream
  <2> QED BY <1>1, <2>2, <2>3, <2>4, EventStep DEF Announced, Terminal, Extraction
<1>5. CASE ExecCommand(r)
  <2>1. exec[r] = "command"
    BY <1>5 DEF ExecCommand, Goto
  <2>2. broker[r] = "open" /\ ~runFailed[r] /\ ~Announced(r)
    BY <1>3, <2>1
  <2>3. /\ exec'[r] = "executing"
        /\ Publish(r, "command_started") /\ "command_started" \in Events
        /\ UNCHANGED <<failure, runFailed>>
    BY <1>0, <1>5 DEF ExecCommand, Goto, Events
  <2>4. log[r] # <<>> /\ log[r][1] = "run_started"
    BY <2>1 DEF Stream, Begun
  <2> QED BY <1>1, <2>1, <2>2, <2>3, <2>4, EventStep DEF Announced, Terminal, Extraction
<1>6. ASSUME NEW s \in CommandStatus, CommandReturns(r, s)
      PROVE  Stream(r)'
  <2>1. exec[r] = "executing"
    BY <1>6 DEF CommandReturns, Goto
  <2>2. broker[r] = "open" /\ ~runFailed[r] /\ ~Announced(r)
    BY <1>3, <2>1
  <2>3. /\ exec'[r] \in {"failing", "command"}
        /\ Publish(r, "command_finished") /\ "command_finished" \in Events
        /\ runFailed'[r] => failure'[r]
    BY <1>0, <1>2, <1>6, <2>2 DEF CommandReturns, Goto, Events
  <2>4. log[r] # <<>> /\ log[r][1] = "run_started"
    BY <2>1 DEF Stream, Begun
  <2> QED BY <1>1, <2>1, <2>2, <2>3, <2>4, EventStep DEF Announced, Terminal, Extraction
<1>7. CASE PublishArtifacts(r)
  <2>1. /\ exec[r] = "publishing"
        /\ exec'[r] = IF runFailed[r] THEN "closing" ELSE "settling"
        /\ Publish(r, "artifacts_extracted") /\ "artifacts_extracted" \in Events
        /\ UNCHANGED <<failure, runFailed, run>>
    BY <1>0, <1>7 DEF PublishArtifacts, AfterExtract, Goto, Events
  <2>2. (Announced(r) <=> runFailed[r]) /\ (Announced(r)' <=> Announced(r))
    BY <2>1 DEF Announced, Extraction
  <2>3. log[r] # <<>> /\ log[r][1] = "run_started"
    BY <2>1 DEF Stream, Begun, Extraction
  <2>4. CASE broker[r] = "open"
    BY <1>1, <1>2, <2>1, <2>2, <2>3, <2>4, EventStep DEF Terminal
  <2>5. CASE broker[r] # "open"
    <3>1. log'[r] = log[r]
      BY <2>1, <2>5 DEF Publish
    <3> QED BY <3>1, <1>1, <1>2, <2>1, <2>2, QuietStep DEF Begun, Extraction
  <2> QED BY <2>4, <2>5
<1>8. CASE Announce(r)
  <2> DEFINE x == IF failure[r] THEN "run_failed" ELSE "run_finished"
  <2>1. /\ exec[r] = "announcing"
        /\ exec'[r] = IF runFailed[r] THEN "extracting" ELSE "closing"
        /\ Publish(r, x) /\ x \in Events /\ x \in Terminal
        /\ UNCHANGED <<failure, runFailed, run>>
    BY <1>0, <1>8 DEF Announce, Goto, Events, Terminal
  <2>2. ~Announced(r) /\ Announced(r)'
    BY <2>1 DEF Announced, Extraction
  <2>3. runFailed[r] \/ ~failure[r] => log[r] # <<>>
    BY <2>1 DEF Stream, Begun
  <2>4. log[r] # <<>> => log[r][1] = "run_started" /\ Len(log[r]) \in Nat \ {0}
    <3>1. log[r] # <<>> => Len(log[r]) \in Nat \ {0}
      BY LenProperties, EmptySeq DEF IInv, TypeOK
    <3>2. log[r] # <<"run_failed">>
      BY <2>2, OneFailure DEF Stream, Terminal
    <3> QED BY <3>1, <3>2 DEF Stream, WellFormed
  <2>5. CASE broker[r] = "open"
    <3>1. log[r] = <<>> => x = "run_failed"
      BY <2>3
    <3>2. x \notin {"run_started", "command_finished", "command_started"}
      OBVIOUS
    <3>3. Begun(r)' => log[r] # <<>>
      BY <2>1, <2>3 DEF Begun, Extraction
    <3> HIDE DEF x
    <3>4. x = IF failure[r] THEN "run_failed" ELSE "run_finished"
      BY DEF x
    <3> QED BY <1>1, <1>2, <2>1, <2>2, <2>4, <2>5, <3>1, <3>2, <3>3, <3>4, EventStep
  <2>6. CASE broker[r] # "open"
    <3>1. log'[r] = log[r] /\ broker'[r] # "open"
      BY <1>1, <2>1, <2>6 DEF Publish
    <3>2. \A i \in 1..Len(log[r]) : log[r][i] \notin Terminal
      BY <2>2 DEF Stream
    <3>3. WellFormed(log[r])'
      BY <3>1 DEF Stream, WellFormed
    <3>4. Begun(r)' => log[r] # <<>> /\ log[r][1] = "run_started"
      BY <2>1, <2>3, <2>4 DEF Begun, Extraction
    <3>5. log[r] # <<>> => log[r][Len(log[r])] # "command_started"
      BY <2>1 DEF Stream
    <3>6. handler[r] # "idle" => run[r].endedAt # 0
      BY <2>6 DEF Stream
    <3> QED BY <3>1, <3>2, <3>3, <3>4, <3>5, <3>6, <1>1, <1>2, <2>1 DEF Stream
  <2> QED BY <2>5, <2>6
<1> QED BY <1>4, <1>5, <1>6, <1>7, <1>8

LEMMA ExecuteKeepsStream ==
  ASSUME IInv, LoopInv, StreamInv, NEW r \in Runs, Execute(r)
  PROVE  StreamInv'
<1>1. Stream(r)'
  BY QuietActions, PublishingActions DEF Execute, StreamInv, LoopInv
<1>2. ASSUME NEW s \in Runs, s # r PROVE Stream(s)'
  BY <1>2, StreamFrame, OtherStream DEF StreamInv
<1> QED BY <1>1, <1>2 DEF StreamInv

LEMMA SubmitKeepsStream ==
  ASSUME IInv, StreamInv, NEW r \in Runs, NEW q \in Requests, Submit(r, q)
  PROVE  StreamInv'
<1> USE DEF Submit, locals
<1>1. /\ exec[r] = "absent"
      /\ UNCHANGED <<exec, failure, runFailed, log>>
  BY DEF IInv, PhasesAgree, Phase
<1>2. /\ broker'[r] = "open"
      /\ \A s \in Runs : s # r => /\ broker'[s] = broker[s]
                                  /\ run'[s] = run[s]
                                  /\ handler'[s] = handler[s]
  BY DEF IInv, TypeOK
<1> HIDE DEF Submit
<1>3. ~Announced(r) /\ ~Announced(r)' /\ ~Begun(r)'
  BY <1>1 DEF Announced, Begun, Extraction
<1>4. WellFormed(log[r])' <=> WellFormed(log[r])
  BY <1>1 DEF WellFormed
<1>5. Stream(r)'
  BY <1>1, <1>2, <1>3, <1>4 DEF StreamInv, Stream
<1>6. ASSUME NEW s \in Runs, s # r PROVE Stream(s)'
  BY <1>1, <1>2, <1>6, OtherStream DEF StreamInv
<1> QED BY <1>5, <1>6 DEF StreamInv

(* Eviction closes the brokers of runs that have ended, and no other.      *)
LEMMA EvictClosesEnded ==
  ASSUME TypeOK, Evict
  PROVE  \A s \in Runs : \/ broker'[s] = broker[s]
                         \/ broker'[s] = "closed" /\ run[s].endedAt # 0
BY DEF TypeOK, Evict, EndedBefore, FirstEnded, EndedRuns

LEMMA HandlerKeepsStream ==
  ASSUME IInv, StreamInv, NEW r \in Runs, Handler(r)
  PROVE  StreamInv'
<1> USE DEF managerVars, retained, locals
<1>1. /\ UNCHANGED <<run, log, failure, runFailed>>
      /\ \A s \in Runs : handler[s] = "idle" => handler'[s] = "idle"
  BY DEF Handler, EvictAndSpawn, AwaitDone, AwaitTimeout, IInv, TypeOK
<1>2. CASE EvictAndSpawn(r)
  <2>1. /\ exec[r] = "absent" /\ exec'[r] = "spawned"
        /\ \A s \in Runs : s # r => exec'[s] = exec[s]
    BY <1>2 DEF EvictAndSpawn, Goto, IInv, TypeOK
  <2>2. \A s \in Runs : \/ broker'[s] = broker[s]
                        \/ broker'[s] = "closed" /\ run[s].endedAt # 0
    BY <1>2, EvictClosesEnded DEF EvictAndSpawn, IInv
  <2>3. handler[r] # "idle" /\ run[r].endedAt = 0
    BY <1>2, <2>1 DEF EvictAndSpawn, IInv, PhasesAgree, Phase, Unended
  <2>4. ~Announced(r) /\ ~Announced(r)' /\ ~Begun(r)'
    BY <2>1 DEF Announced, Begun, Extraction
  <2>5. WellFormed(log[r])' <=> WellFormed(log[r])
    BY <1>1 DEF WellFormed
  <2>6. Stream(r)'
    BY <1>1, <2>1, <2>2, <2>3, <2>4, <2>5 DEF StreamInv, Stream
  <2>7. ASSUME NEW s \in Runs, s # r PROVE Stream(s)'
    BY <1>1, <2>1, <2>2, <2>7, OtherStream DEF StreamInv
  <2> QED BY <2>6, <2>7 DEF StreamInv
<1>3. CASE AwaitDone(r) \/ AwaitTimeout(r)
  <2>1. UNCHANGED <<exec, broker>>
    BY <1>3 DEF AwaitDone, AwaitTimeout
  <2> QED BY <2>1, <1>1, OtherStream DEF StreamInv
<1> QED BY <1>2, <1>3 DEF Handler

(* The verdict of the loop and the stream of every run, together.          *)
LEMMA StreamsAgree == SafetySpec => []LoopInv /\ []StreamInv
<1>1. Init => LoopInv
  BY LoopInit
<1>2. Init => StreamInv
  <2> SUFFICES ASSUME Init, NEW r \in Runs PROVE Stream(r)
    BY DEF StreamInv
  <2>1. log[r] = <<>> /\ Len(log[r]) = 0
    BY EmptySeq DEF Init
  <2>2. WellFormed(log[r])
    BY <2>1 DEF WellFormed
  <2> QED BY <2>1, <2>2 DEF Init, Stream, Begun, Announced, Extraction
<1>3. IInv /\ LoopInv /\ [Next]_vars => LoopInv'
  BY LoopInductive
<1>4. IInv /\ LoopInv /\ StreamInv /\ [Next]_vars => StreamInv'
  <2>1. ASSUME StreamInv, UNCHANGED vars PROVE StreamInv'
    <3>1. UNCHANGED <<run, broker, handler, exec, log, failure, runFailed>>
      BY <2>1 DEF vars, managerVars, retained, handlerVars, locals
    <3> QED BY <3>1, <2>1, OtherStream DEF StreamInv
  <2> QED BY <2>1, SubmitKeepsStream, HandlerKeepsStream, ExecuteKeepsStream DEF Next
<1> QED BY <1>1, <1>2, <1>3, <1>4, InvariantHolds, PTL DEF SafetySpec

(* The event stream of every run is well formed, for any number of runs    *)
(* and commands, and run_finished comes only when the artifacts are        *)
(* decided (manager.go:219-394).                                           *)
THEOREM StreamsAreOrdered == SafetySpec => []StreamOrder
<1>1. IInv /\ ResultsInv /\ LoopInv /\ StreamInv => StreamOrder
  <2> SUFFICES ASSUME IInv, ResultsInv, LoopInv, StreamInv, NEW r \in Runs
               PROVE  /\ WellFormed(log[r])
                      /\ \A i \in 1..Len(log[r]) :
                            log[r][i] = "run_finished" => run[r].artifacts # "none"
    BY DEF StreamOrder
  <2>1. Stream(r) /\ Loop(r) /\ Whole(r)
    BY DEF StreamInv, LoopInv, ResultsInv
  <2>2. ASSUME NEW i \in 1..Len(log[r]), log[r][i] = "run_finished"
        PROVE  run[r].artifacts # "none"
    <3>1. Announced(r) /\ ~failure[r] /\ ~runFailed[r]
      BY <2>1, <2>2 DEF Stream, Terminal
    <3>2. exec[r] \in {"closing", "unlocking", "gone"}
      BY <3>1 DEF Announced
    <3>3. ~NothingRan(r)
      BY <2>1, <3>1, <3>2 DEF Loop, LoopOver, Unended
    <3> QED BY <2>1, <3>2, <3>3 DEF Whole, Behind
  <2> QED BY <2>1, <2>2 DEF Stream
<1> QED BY <1>1, StreamsAgree, InvariantHolds, ResultsAreWhole, PTL

(* Whoever reads a stream to its end learns the outcome, and the one that  *)
(* the status reports, unless the run was evicted first (manager.go:231,   *)
(* 279, 379-386).                                                          *)
THEOREM OutcomesAreAnnounced == SafetySpec => []OutcomeAnnounced
<1>1. IInv /\ LoopInv /\ StreamInv => OutcomeAnnounced
  <2> SUFFICES ASSUME IInv, LoopInv, StreamInv, NEW r \in Runs
               PROVE  /\ exec[r] \in {"closing", "unlocking", "gone"} /\ broker[r] = "open" =>
                           \E i \in 1..Len(log[r]) : log[r][i] \in Terminal
                      /\ \A i \in 1..Len(log[r]) :
                           /\ log[r][i] = "run_finished" => run[r].state = "completed"
                           /\ log[r][i] = "run_failed" => run[r].state = "failed"
    BY DEF OutcomeAnnounced
  <2>1. Stream(r) /\ Loop(r) /\ Phase(r)
    BY DEF StreamInv, LoopInv, IInv, PhasesAgree
  <2>2. Announced(r) =>
          run[r].state = IF failure[r] THEN "failed" ELSE "completed"
    BY <2>1 DEF Announced, Loop, Phase, Unended, Extraction
  <2> QED BY <2>1, <2>2 DEF Stream, Announced, Terminal
<1> QED BY <1>1, StreamsAgree, InvariantHolds, PTL

(* Whoever reads the stream of a run to its end has been told what it was, *)
(* in order, and can go on to ask for its artifacts (manager.go:219-394).  *)
THEOREM StreamTellsOutcomeHolds == SafetySpec => []StreamTellsOutcome
BY StreamsAreOrdered, OutcomesAreAnnounced, PTL DEF StreamTellsOutcome

-----------------------------------------------------------------------------
(***************************************************************************)
(* The metric.                                                             *)
(***************************************************************************)
CountedUnder(s) == {r \in Runs : Counted(r) /\ run[r].state = s}

(* Only finitely many runs have ended, each counted once.                  *)
CountInv ==
  \A s \in Settled : /\ IsFiniteSet(CountedUnder(s))
                     /\ runsTotal[s] = Cardinality(CountedUnder(s))

(* A step that counts no run.                                              *)
LEMMA NothingToCount ==
  ASSUME CountInv, UNCHANGED runsTotal,
         \A r \in Runs : /\ Counted(r)' <=> Counted(r)
                         /\ Counted(r) => run'[r].state = run[r].state
  PROVE  CountInv'
<1>1. \A s : CountedUnder(s)' = CountedUnder(s)
  BY DEF CountedUnder
<1> QED BY <1>1 DEF CountInv

(* A goroutine counts its run when it has ended, under the state that the  *)
(* run was given, although it names the label anew.                        *)
LEMMA CountCounts ==
  ASSUME IInv, LoopInv, CountInv, NEW r \in Runs, Count(r)
  PROVE  CountInv'
<1>0. PICK t \in Settled : t = IF failure[r] THEN "failed" ELSE "completed"
  BY DEF Settled
<1>1. /\ exec[r] = "counting" /\ exec'[r] = "announcing"
      /\ \A s \in Runs : s # r => exec'[s] = exec[s]
      /\ UNCHANGED run
  BY DEF Count, Goto, IInv, TypeOK
<1>2. run[r].endedAt # 0 /\ run[r].state = t
  BY <1>0, <1>1 DEF IInv, PhasesAgree, Phase, Unended, Extraction, LoopInv, Loop
<1>3. /\ runsTotal'[t] = runsTotal[t] + 1
      /\ \A s \in Settled : s # t => runsTotal'[s] = runsTotal[s]
  BY <1>0 DEF Count, IInv, TypeOK
<1>4. CountedUnder(t)' = CountedUnder(t) \cup {r} /\ r \notin CountedUnder(t)
  BY <1>1, <1>2 DEF CountedUnder, Counted
<1>5. \A s : s # t => CountedUnder(s)' = CountedUnder(s)
  BY <1>1, <1>2 DEF CountedUnder, Counted
<1>6. /\ IsFiniteSet(CountedUnder(t)')
      /\ Cardinality(CountedUnder(t)') = Cardinality(CountedUnder(t)) + 1
  BY <1>4, FS_AddElement DEF CountInv
<1> QED BY <1>3, <1>5, <1>6 DEF CountInv

(* The critical section that ends a run leaves it to be counted; the other *)
(* steps do not end one.                                                   *)
LEMMA ExecuteCounts ==
  ASSUME IInv, LoopInv, CountInv, NEW r \in Runs, Execute(r)
  PROVE  CountInv'
<1>1. CASE Count(r)
  BY <1>1, CountCounts
<1>2. CASE ~Count(r)
  <2>1. UNCHANGED runsTotal
    BY <1>2 DEF Execute, EnterLock, LockGranted, LockTimeout, EnsureOk,
       EnsureFails, Start, Denied, ExecCommand, LastCommand, CommandReturns,
       Fail, Extract, ExtractFails, ExtractOk, PublishArtifacts, Settle,
       Announce, CloseDone, Unlock, managerVars
  <2>2. \A s \in Runs : s # r => run'[s] = run[s] /\ exec'[s] = exec[s]
    BY ExecuteFrame
  <2>3. CASE Fail(r) \/ Settle(r)
    <3>1. exec[r] \in Unended /\ exec'[r] = "counting"
      BY <2>3 DEF Fail, Settle, Goto, Unended, IInv, TypeOK
    <3>2. ~Counted(r) /\ ~Counted(r)'
      BY <3>1 DEF Counted, IInv, PhasesAgree, Phase
    <3> QED BY <2>1, <2>2, <3>2, NothingToCount DEF Counted
  <2>4. CASE ~(Fail(r) \/ Settle(r))
    <3>1. exec[r] # "counting" /\ exec'[r] # "counting"
      BY <1>2, <2>4 DEF Execute, EnterLock, LockGranted, LockTimeout, EnsureOk,
         EnsureFails, Start, Denied, ExecCommand, LastCommand, CommandReturns,
         Extract, ExtractFails, ExtractOk, AfterExtract, PublishArtifacts,
         Announce, CloseDone, Unlock, Goto, IInv, TypeOK
    <3>2. \A q \in Runs : run'[q].endedAt = run[q].endedAt
      <4> USE DEF IInv, RunStates, CommandStatus
      <4>1. CASE Start(r)
        BY <4>1, StateStored DEF Start
      <4>2. CASE Denied(r)
        BY <4>2, CommandStored DEF Denied
      <4>3. ASSUME NEW s \in CommandStatus, CommandReturns(r, s)
            PROVE  \A q \in Runs : run'[q].endedAt = run[q].endedAt
        BY <4>3, CommandStored DEF CommandReturns
      <4>4. CASE ExtractFails(r) \/ ExtractOk(r)
        BY <4>4, ArtifactsStored DEF ExtractFails, ExtractOk
      <4>5. CASE \/ EnterLock(r) \/ LockGranted(r) \/ LockTimeout(r)
                 \/ EnsureOk(r) \/ EnsureFails(r) \/ ExecCommand(r)
                 \/ LastCommand(r) \/ Extract(r) \/ PublishArtifacts(r)
                 \/ Announce(r) \/ CloseDone(r) \/ Unlock(r)
        BY <4>5 DEF EnterLock, LockGranted, LockTimeout, EnsureOk, EnsureFails,
           ExecCommand, LastCommand, Extract, PublishArtifacts, Announce,
           CloseDone, Unlock, managerVars
      <4> QED BY <1>2, <2>4, <4>1, <4>2, <4>3, <4>4, <4>5 DEF Execute
    <3>3. ASSUME run[r].endedAt # 0
          PROVE  run'[r].state = run[r].state
      <4> DEFINE a == run'[r].artifacts
      <4>1. run'[r] = [run[r] EXCEPT !.artifacts = a]
        BY <3>3, ExecuteWrites
      <4> HIDE DEF a
      <4>2. run[r] \in RunStruct
        BY DEF IInv, TypeOK
      <4> QED BY <4>1, <4>2 DEF RunStruct
    <3> QED BY <2>1, <2>2, <3>1, <3>2, <3>3, NothingToCount DEF Counted
  <2> QED BY <2>3, <2>4
<1> QED BY <1>1, <1>2

(* The runs_total metric counts every run that ended exactly once, under   *)
(* its final state, for any number of runs and on each of the three code   *)
(* paths that count; it lags behind by the runs whose goroutine has just   *)
(* released m.mu (manager.go:229-230, 276-278, 375-385).                   *)
THEOREM RunsAreCountedOnce == SafetySpec => []AccountedOnce
<1>1. Init => CountInv
  <2> SUFFICES ASSUME Init PROVE CountInv
    OBVIOUS
  <2>1. \A s : CountedUnder(s) = {}
    BY DEF Init, NoRun, CountedUnder, Counted
  <2> QED BY <2>1, FS_EmptySet DEF Init, CountInv
<1>2. ASSUME IInv, LoopInv, CountInv, [Next]_vars
      PROVE  CountInv'
  <2>1. ASSUME NEW r \in Runs, NEW q \in Requests, Submit(r, q)
        PROVE  CountInv'
    <3>1. run[r].endedAt = 0
      BY <1>2, <2>1 DEF IInv, PhasesAgree, Phase, Unended, Submit
    <3>2. run'[r].endedAt = 0 /\ \A s \in Runs : s # r => run'[s] = run[s]
      BY <1>2, <2>1 DEF IInv, TypeOK, Submit, NoRun
    <3>3. UNCHANGED <<runsTotal, exec>>
      BY <2>1 DEF Submit
    <3> QED BY <3>1, <3>2, <3>3, <1>2, NothingToCount DEF Counted
  <2>2. ASSUME UNCHANGED <<run, runsTotal>>,
               \A r \in Runs : exec'[r] = "counting" <=> exec[r] = "counting"
        PROVE  CountInv'
    BY <2>2, <1>2, NothingToCount DEF Counted
  <2>3. ASSUME NEW r \in Runs, Handler(r) PROVE CountInv'
    <3>1. UNCHANGED <<run, runsTotal>>
      BY <2>3 DEF Handler, EvictAndSpawn, AwaitDone, AwaitTimeout, managerVars
    <3>2. \/ UNCHANGED exec
          \/ exec[r] = "absent" /\ exec' = [exec EXCEPT ![r] = "spawned"]
      BY <2>3 DEF Handler, EvictAndSpawn, AwaitDone, AwaitTimeout, Goto
    <3>3. \A s \in Runs : exec'[s] = "counting" <=> exec[s] = "counting"
      BY <3>2, <1>2 DEF IInv, TypeOK
    <3> QED BY <3>1, <3>3, <2>2
  <2>4. CASE UNCHANGED vars
    BY <2>4, <2>2 DEF vars, managerVars
  <2> QED BY <1>2, <2>1, <2>3, <2>4, ExecuteCounts DEF Next
<1>3. CountInv => AccountedOnce
  BY DEF CountInv, CountedUnder, AccountedOnce
<1> QED BY <1>1, <1>2, <1>3, InvariantHolds, StreamsAgree, PTL DEF SafetySpec

-----------------------------------------------------------------------------
(***************************************************************************)
(* Refinement: the lock of one identifier, as the runs use it, is the      *)
(* abstract mutex. EnterLock is Join, LockGranted is Enter, LockTimeout is *)
(* GiveUp, Unlock is Exit; what happens at other locks cannot be seen.     *)
(***************************************************************************)
LEMMA LockQuiet ==
  ASSUME UNCHANGED line, UNCHANGED holding,
         \A s \in holding : args'[s] = args[s]
  PROVE  UNCHANGED Lock!vars
<1>1. Owners' = Owners
  BY DEF Owners, Identifier
<1> QED BY <1>1 DEF Lock!vars

LEMMA EnterLockIsJoin ==
  ASSUME IInv, NEW r \in Runs, EnterLock(r)
  PROVE  [Lock!Next]_(Lock!vars)
<1> USE DEF EnterLock, handlerVars
<1>1. exec[r] = "spawned" /\ r \notin holding
  BY DEF Goto, IInv, HoldersAreFirst
<1>2. Owners' = Owners
  BY DEF Owners, Identifier
<1>3. CASE args[r].lockSandbox /\ Identifier(r) = Watched
  <2>1. \A i \in 1..Len(line[Watched]) : line[Watched][i] # r
    BY <1>1, WatchedAssumption DEF IInv, QueueIsWhoNeedsTheLock
  <2>2. line'[Watched] = Append(line[Watched], r)
    BY <1>3, WatchedAssumption DEF IInv, TypeOK
  <2> QED BY <2>1, <2>2, <1>2 DEF Lock!Join, Lock!Next
<1>4. CASE ~(args[r].lockSandbox /\ Identifier(r) = Watched)
  <2>1. line'[Watched] = line[Watched]
    BY <1>4, WatchedAssumption DEF IInv, TypeOK
  <2> QED BY <2>1, <1>2 DEF Lock!vars
<1> QED BY <1>3, <1>4

(* Whoever owns the watched lock is the first of its line.                 *)
LEMMA OwnerIsFirst ==
  ASSUME IInv, NEW s \in Owners
  PROVE  /\ line[Watched] # <<>> /\ Head(line[Watched]) = s
         /\ exec[s] \notin {"locking", "gone"}
<1>1. line[Watched] # <<>> /\ line[Watched][1] = s /\ exec[s] \notin {"locking", "gone"}
  BY DEF Owners, IInv, HoldersAreFirst
<1>2. line[Watched] \in Seq(Runs)
  BY WatchedAssumption DEF IInv, TypeOK
<1> QED BY <1>1, <1>2, HeadIsFirst

LEMMA LockGrantedIsEnter ==
  ASSUME IInv, NEW r \in Runs, LockGranted(r)
  PROVE  [Lock!Next]_(Lock!vars)
<1> USE DEF LockGranted, handlerVars
<1>1. exec[r] = "locking" /\ r \notin holding
  BY DEF Goto, IInv, HoldersAreFirst
<1>2. CASE Identifier(r) = Watched
  <2>1. Head(line[Watched]) = r
    BY <1>2
  <2>2. Owners = {}
    BY <1>1, <2>1, OwnerIsFirst
  <2>3. Owners' = {r}
    BY <1>2, <2>2 DEF Owners, Identifier
  <2>4. \E i \in 1..Len(line[Watched]) : line[Watched][i] = r
    BY <1>1, <1>2, WatchedAssumption DEF IInv, QueueIsWhoNeedsTheLock
  <2> QED BY <2>1, <2>2, <2>3, <2>4 DEF Lock!Enter, Lock!Waiting, Lock!Next
<1>3. CASE Identifier(r) # Watched
  <2>1. Owners' = Owners
    BY <1>3 DEF Owners, Identifier
  <2> QED BY <2>1 DEF Lock!vars
<1> QED BY <1>2, <1>3

LEMMA LockTimeoutIsGiveUp ==
  ASSUME IInv, NEW r \in Runs, LockTimeout(r)
  PROVE  [Lock!Next]_(Lock!vars)
<1> USE DEF LockTimeout, handlerVars
<1>1. exec[r] = "locking" /\ r \notin holding
  BY DEF Goto, IInv, HoldersAreFirst
<1>2. Owners' = Owners
  BY DEF Owners, Identifier
<1>3. PICK i \in 1..Len(line[Identifier(r)]) :
         /\ line[Identifier(r)][i] = r
         /\ line' = [line EXCEPT ![Identifier(r)] = RemoveAt(line[Identifier(r)], i)]
  OBVIOUS
<1>4. CASE Identifier(r) = Watched
  <2>1. /\ i \in 1..Len(line[Watched]) /\ line[Watched][i] = r
        /\ line'[Watched] = RemoveAt(line[Watched], i)
    BY <1>3, <1>4, WatchedAssumption DEF IInv, TypeOK
  <2>2. RemoveAt(line[Watched], i) = Lock!RemoveAt(line[Watched], i)
    BY DEF RemoveAt, Lock!RemoveAt
  <2>3. r \notin Owners
    BY <1>1 DEF Owners
  <2> QED BY <2>1, <2>2, <2>3, <1>2 DEF Lock!GiveUp, Lock!Waiting, Lock!Next
<1>5. CASE Identifier(r) # Watched
  <2>1. line'[Watched] = line[Watched]
    BY <1>3, <1>5, WatchedAssumption DEF IInv, TypeOK
  <2> QED BY <2>1, <1>2 DEF Lock!vars
<1> QED BY <1>4, <1>5

LEMMA UnlockIsExit ==
  ASSUME IInv, NEW r \in Runs, Unlock(r)
  PROVE  [Lock!Next]_(Lock!vars)
<1>1. UNCHANGED args
  BY DEF Unlock, handlerVars
<1>2. CASE r \in holding
  <2>1. /\ line' = [line EXCEPT ![Identifier(r)] = Tail(line[Identifier(r)])]
        /\ holding' = holding \ {r}
    BY <1>2 DEF Unlock
  <2>2. CASE Identifier(r) = Watched
    <3>1. r \in Owners
      BY <1>2, <2>2 DEF Owners
    <3>2. line[Watched] # <<>> /\ Head(line[Watched]) = r
      BY <3>1, OwnerIsFirst
    <3>3. Owners = {r}
      BY <3>1, <3>2, OwnerIsFirst
    <3>4. Owners' = {}
      BY <1>1, <2>1, <3>3 DEF Owners, Identifier
    <3>5. line'[Watched] = Tail(line[Watched])
      BY <2>1, <2>2, WatchedAssumption DEF IInv, TypeOK
    <3> QED BY <3>2, <3>3, <3>4, <3>5 DEF Lock!Exit, Lock!Next
  <2>3. CASE Identifier(r) # Watched
    <3>1. Owners' = Owners
      BY <1>1, <2>1, <2>3 DEF Owners, Identifier
    <3>2. line'[Watched] = line[Watched]
      BY <2>1, <2>3, WatchedAssumption DEF IInv, TypeOK
    <3> QED BY <3>1, <3>2 DEF Lock!vars
  <2> QED BY <2>2, <2>3
<1>3. CASE r \notin holding
  <2>1. UNCHANGED <<line, holding>>
    BY <1>3 DEF Unlock, locks
  <2> QED BY <2>1, <1>1, LockQuiet
<1> QED BY <1>2, <1>3

LEMMA LockStep == IInv /\ [Next]_vars => [Lock!Next]_(Lock!vars)
<1> SUFFICES ASSUME IInv, [Next]_vars
             PROVE  [Lock!Next]_(Lock!vars)
  OBVIOUS
<1> USE DEF managerVars, locks, handlerVars
<1>1. ASSUME NEW r \in Runs, NEW q \in Requests, Submit(r, q)
      PROVE  [Lock!Next]_(Lock!vars)
  <2>1. r \notin holding
    BY <1>1 DEF Submit, IInv, PhasesAgree, Phase, HoldersAreFirst
  <2>2. /\ UNCHANGED <<line, holding>>
        /\ \A s \in holding : args'[s] = args[s]
    BY <1>1, <2>1 DEF Submit, IInv, TypeOK
  <2> QED BY <2>2, LockQuiet
<1>2. ASSUME UNCHANGED <<line, holding, args>>
      PROVE  [Lock!Next]_(Lock!vars)
  BY <1>2, LockQuiet
<1>3. ASSUME NEW r \in Runs, Handler(r) PROVE [Lock!Next]_(Lock!vars)
  <2>1. UNCHANGED <<line, holding, args>>
    BY <1>3 DEF Handler, EvictAndSpawn, AwaitDone, AwaitTimeout
  <2> QED BY <2>1, <1>2
<1>4. ASSUME NEW r \in Runs, Execute(r) PROVE [Lock!Next]_(Lock!vars)
  <2>1. CASE EnterLock(r) \/ LockGranted(r) \/ LockTimeout(r) \/ Unlock(r)
    BY <2>1, EnterLockIsJoin, LockGrantedIsEnter, LockTimeoutIsGiveUp, UnlockIsExit
  <2>2. CASE ~(EnterLock(r) \/ LockGranted(r) \/ LockTimeout(r) \/ Unlock(r))
    <3>1. UNCHANGED <<line, holding, args>>
      BY <1>4, <2>2 DEF Execute, EnsureOk, EnsureFails, Start, Denied, ExecCommand,
         LastCommand, CommandReturns, Fail, Extract, ExtractFails, ExtractOk,
         PublishArtifacts, Settle, Count, Announce, CloseDone
    <3> QED BY <3>1, <1>2
  <2> QED BY <2>1, <2>2
<1>5. CASE UNCHANGED vars
  BY <1>5, <1>2 DEF vars
<1> QED BY <1>1, <1>3, <1>4, <1>5 DEF Next

(* The runs of any identifier use its lock as the abstract mutex allows,   *)
(* for any number of runs: in the order in which they asked, one at a      *)
(* time, and given back on every path (manager.go:201-211).                *)
THEOREM RunsUseAFIFOMutex == SafetySpec => LockIsFIFOMutex
<1>1. Init => Lock!Init
  BY WatchedAssumption DEF Init, Lock!Init, Owners
<1>2. Lock!Init /\ [][Lock!Next]_(Lock!vars) => Lock!Spec
  BY DEF Lock!Spec
<1> QED BY <1>1, <1>2, LockStep, InvariantHolds, PTL DEF SafetySpec, LockIsFIFOMutex

-----------------------------------------------------------------------------
(***************************************************************************)
(* Eviction. FirstEnded counts, for each run, those that ended before it;  *)
(* nothing is needed of the clock but that it yields numbers.              *)
(***************************************************************************)
Earlier(S, r) == {s \in S : run[s].endedAt < run[r].endedAt}

EndsKnown(S) == IsFiniteSet(S) /\ \A r \in S : run[r].endedAt \in Nat

(* What ended before a run that ended no later, ended before this one too. *)
LEMMA EarlierCounts ==
  ASSUME NEW S, EndsKnown(S), NEW r \in S, NEW s \in S
  PROVE  /\ IsFiniteSet(Earlier(S, r)) /\ Cardinality(Earlier(S, r)) \in Nat
         /\ ~(run[s].endedAt < run[r].endedAt) =>
              Cardinality(Earlier(S, r)) <= Cardinality(Earlier(S, s))
<1>1. \A q \in S : IsFiniteSet(Earlier(S, q)) /\ Cardinality(Earlier(S, q)) \in Nat
  BY FS_Subset, FS_CardinalityType DEF EndsKnown, Earlier
<1>2. ASSUME ~(run[s].endedAt < run[r].endedAt)
      PROVE  Cardinality(Earlier(S, r)) <= Cardinality(Earlier(S, s))
  <2>1. Earlier(S, r) \subseteq Earlier(S, s)
    BY <1>2 DEF EndsKnown, Earlier
  <2> QED
    BY <1>1, <2>1, FS_Subset
<1> QED
  BY <1>1, <1>2

(* A run that is kept ended after each that is dropped, and at least n are *)
(* dropped, if anything is kept (the selection sort of manager.go:774-784).*)
LEMMA FirstEndedDrops ==
  ASSUME NEW S, EndsKnown(S), NEW n \in Int
  PROVE  LET F == FirstEnded(S, n)
         IN /\ F \subseteq S /\ IsFiniteSet(F)
            /\ \A r \in F, s \in S \ F : run[r].endedAt < run[s].endedAt
            /\ S \ F # {} => Cardinality(F) >= n
<1> DEFINE F == FirstEnded(S, n)
<1>1. /\ F \subseteq S
      /\ \A r \in S : r \in F <=> Cardinality(Earlier(S, r)) < n
  BY DEF FirstEnded, Earlier
<1>2. IsFiniteSet(F) /\ Cardinality(F) \in Nat
  BY <1>1, FS_Subset, FS_CardinalityType DEF EndsKnown
<1> HIDE DEF F
<1>3. ASSUME NEW r \in F, NEW s \in S \ F
      PROVE  run[r].endedAt < run[s].endedAt
  <2>1. r \in S /\ s \in S
    BY <1>1
  <2>2. Cardinality(Earlier(S, r)) < n /\ ~(Cardinality(Earlier(S, s)) < n)
    BY <1>1, <2>1
  <2>3. /\ Cardinality(Earlier(S, r)) \in Nat /\ Cardinality(Earlier(S, s)) \in Nat
        /\ ~(run[r].endedAt < run[s].endedAt) =>
              Cardinality(Earlier(S, s)) <= Cardinality(Earlier(S, r))
    BY <2>1, EarlierCounts
  <2> QED
    BY <2>2, <2>3
<1>4. ASSUME NEW x \in S \ F
      PROVE  Cardinality(F) >= n
  \* The kept run that ended first: what ended before it is dropped.
  <2> DEFINE B == {Earlier(S, s) : s \in S \ F}
  <2>1. IsWellFoundedOn(StrictSubsetOrdering(S), SUBSET S)
    BY FS_FiniteSubsetsOfFinite, FS_StrictSubsetOrderingWellFounded DEF EndsKnown
  <2>2. B \subseteq SUBSET S /\ B # {}
    BY DEF Earlier
  <2> HIDE DEF B
  <2>3. PICK T \in B : \A U \in B : ~(<<U, T>> \in StrictSubsetOrdering(S))
    BY <2>1, <2>2, WFMin
  <2>4. \A U \in B : U \subseteq T => U = T
    BY <2>2, <2>3 DEF StrictSubsetOrdering
  <2>5. PICK s \in S \ F : T = Earlier(S, s)
    BY DEF B
  <2>6. Earlier(S, s) \subseteq F
    <3> SUFFICES ASSUME NEW t \in Earlier(S, s), t \notin F PROVE FALSE
      OBVIOUS
    <3>1. t \in S \ F /\ run[t].endedAt < run[s].endedAt
      BY DEF Earlier
    <3>2. Earlier(S, t) \in B
      BY <3>1 DEF B
    <3>3. Earlier(S, t) \subseteq Earlier(S, s) /\ t \notin Earlier(S, t)
      BY <3>1 DEF Earlier, EndsKnown
    <3> QED
      BY <2>4, <2>5, <3>2, <3>3
  <2>7. Cardinality(Earlier(S, s)) <= Cardinality(F)
    BY <1>2, <2>6, FS_Subset
  <2>8. Cardinality(Earlier(S, s)) \in Nat /\ ~(Cardinality(Earlier(S, s)) < n)
    BY <1>1, EarlierCounts
  <2> QED
    BY <1>2, <2>7, <2>8
<1> QED
  BY <1>1, <1>2, <1>3, <1>4 DEF F

(* Only finitely many runs are retained.                                   *)
FewRetained == IsFiniteSet(runs)

(* Nothing but eviction takes a run out of the map.                        *)
LEMMA OnlyEvictionRemoves ==
  ASSUME [Next]_vars
  PROVE  \/ \E r \in Runs : runs' = runs \cup {r}
         \/ runs' = runs
         \/ \E r \in Runs : EvictAndSpawn(r)
<1> USE DEF managerVars, retained
<1>1. ASSUME NEW r \in Runs, NEW q \in Requests, Submit(r, q)
      PROVE  runs' = runs \cup {r}
  BY <1>1 DEF Submit
<1>2. ASSUME NEW r \in Runs, Handler(r)
      PROVE  runs' = runs \/ EvictAndSpawn(r)
  BY <1>2 DEF Handler, AwaitDone, AwaitTimeout
<1>3. ASSUME NEW r \in Runs, Execute(r)
      PROVE  runs' = runs
  BY <1>3 DEF Execute, EnterLock, LockGranted, LockTimeout, EnsureOk,
     EnsureFails, Start, Denied, ExecCommand, LastCommand, CommandReturns,
     Fail, Extract, ExtractFails, ExtractOk, PublishArtifacts, Settle, Count,
     Announce, CloseDone, Unlock
<1>4. CASE UNCHANGED vars
  BY <1>4 DEF vars
<1> QED
  BY <1>1, <1>2, <1>3, <1>4 DEF Next

LEMMA FewStayRetained ==
  ASSUME IInv, FewRetained, [Next]_vars
  PROVE  FewRetained'
<1>1. ASSUME NEW r \in Runs, EvictAndSpawn(r) PROVE runs' \subseteq runs
  BY <1>1, EvictKeepsUnended DEF EvictAndSpawn, IInv
<1> QED
  BY <1>1, OnlyEvictionRemoves, FS_AddElement, FS_Subset DEF FewRetained

(* One eviction (manager.go:752-786).                                      *)
LEMMA EvictionInOrder ==
  ASSUME TypeOK, FewRetained, Evict
  PROVE  /\ \A r \in runs \ runs', s \in runs \cap runs' :
              run[s].endedAt # 0 => run[r].endedAt < run[s].endedAt
         /\ \/ Cardinality(runs') <= MaxRuns
            \/ \A s \in runs' : run[s].endedAt = 0
<1>1. PICK t \in 0 .. clock + 1 :
        LET aged    == EndedBefore(t)
            kept    == runs \ aged
            excess  == Cardinality(kept) - MaxRuns
            dropped == aged \cup FirstEnded(EndedRuns \ aged, excess)
        IN runs' = runs \ dropped
  BY DEF Evict
<1> DEFINE A == EndedBefore(t)
           K == runs \ A
           n == Cardinality(K) - MaxRuns
           E == EndedRuns \ A
           F == FirstEnded(E, n)
<1>2. runs' = runs \ (A \cup F)
  BY <1>1
<1>3. t \in Nat /\ \A r \in runs : run[r].endedAt \in Nat
  BY DEF TypeOK, RunStruct
<1>4. /\ A \subseteq EndedRuns /\ EndedRuns \subseteq runs
      /\ \A r \in A : run[r].endedAt < t
      /\ \A r \in E : ~(run[r].endedAt < t)
      /\ \A r \in runs : run[r].endedAt # 0 => r \in A \/ r \in E
  BY DEF EndedBefore, EndedRuns
<1>5. /\ IsFiniteSet(K) /\ Cardinality(K) \in Nat
      /\ E \subseteq K /\ n \in Int /\ EndsKnown(E) /\ MaxRuns \in Nat
  <2>1. E \subseteq K /\ E \subseteq runs /\ K \subseteq runs
    BY <1>4
  <2>2. IsFiniteSet(K) /\ IsFiniteSet(E) /\ Cardinality(K) \in Nat
    BY <2>1, FS_Subset, FS_CardinalityType DEF FewRetained
  <2> QED
    BY <1>3, <2>1, <2>2, MaxRunsAssumption DEF EndsKnown
<1> HIDE DEF A, E
<1>6. /\ F \subseteq E /\ IsFiniteSet(F)
      /\ \A r \in F, s \in E \ F : run[r].endedAt < run[s].endedAt
      /\ E \ F # {} => Cardinality(F) >= n
  <2> HIDE DEF n
  <2> QED
    BY <1>5, FirstEndedDrops
<1> HIDE DEF F
<1>7. ASSUME NEW r \in runs \ runs', NEW s \in runs \cap runs', run[s].endedAt # 0
      PROVE  run[r].endedAt < run[s].endedAt
  <2>1. s \in E \ F /\ (r \in A \/ r \in F)
    BY <1>2, <1>4, <1>7
  <2>2. CASE r \in A
    BY <1>3, <1>4, <2>1, <2>2
  <2>3. CASE r \in F
    BY <1>6, <2>1, <2>3
  <2> QED
    BY <2>1, <2>2, <2>3
<1>8. ASSUME NEW s \in runs', run[s].endedAt # 0
      PROVE  Cardinality(runs') <= MaxRuns
  <2>1. E \ F # {}
    BY <1>2, <1>4, <1>8
  <2>2. runs' = K \ F /\ F \subseteq K
    BY <1>2, <1>5, <1>6
  <2> HIDE DEF K
  <2>3. Cardinality(K \ F) = Cardinality(K) - Cardinality(F)
    <3>1. K \cap F = F
      BY <2>2
    <3> QED
      BY <1>5, <3>1, FS_Difference
  <2>4. Cardinality(F) \in Nat
    BY <1>6, FS_CardinalityType
  <2> QED
    BY <1>5, <1>6, <2>1, <2>2, <2>3, <2>4
<1> QED
  BY <1>7, <1>8

(* Eviction keeps the newest, and goes on until the map is within MAX_RUNS *)
(* or nothing that ended is left, for any number of runs and any limit     *)
(* (manager.go:752-786).                                                   *)
THEOREM OldestIsEvictedFirst == SafetySpec => OldestEvictedFirst
<1>1. Init => FewRetained
  BY FS_EmptySet DEF Init, FewRetained
<1>2. IInv /\ FewRetained /\ [Next]_vars => FewRetained'
  BY FewStayRetained
<1>3. ASSUME IInv, FewRetained, [Next]_vars
      PROVE  /\ \A r \in runs \ runs', s \in runs \cap runs' :
                  run[s].endedAt # 0 => run[r].endedAt < run[s].endedAt
             /\ (\E r \in Runs : EvictAndSpawn(r)) =>
                  \/ Cardinality(runs') <= MaxRuns
                  \/ \A s \in runs' : run[s].endedAt = 0
  <2>1. CASE \E r \in Runs : EvictAndSpawn(r)
    <3>1. Evict
      BY <2>1 DEF EvictAndSpawn
    <3> QED
      BY <1>3, <3>1, EvictionInOrder DEF IInv
  <2>2. CASE ~ \E r \in Runs : EvictAndSpawn(r)
    BY <1>3, <2>2, OnlyEvictionRemoves
  <2> QED
    BY <2>1, <2>2
<1> QED
  BY <1>1, <1>2, <1>3, InvariantHolds, PTL DEF SafetySpec, OldestEvictedFirst

-----------------------------------------------------------------------------
(***************************************************************************)
(* Refinement: a run, seen alone, is the command loop. Its goroutine takes *)
(* the steps of the loop; all other steps leave what is seen of it alone.  *)
(***************************************************************************)
w == WatchedRun

(* What the loop sees of its run: where it is, its commands and verdict.   *)
LEMMA LoopQuiet ==
  ASSUME args'[w] = args[w], LoopPhase' = LoopPhase,
         run'[w].commands = run[w].commands, run'[w].state = run[w].state,
         failure'[w] = failure[w]
  PROVE  UNCHANGED Promise!vars
BY DEF Promise!vars, w

LEMMA SameLoop ==
  ASSUME args'[w] = args[w], run'[w] = run[w], exec'[w] = exec[w],
         failure'[w] = failure[w],
         handler'[w] = "idle" <=> handler[w] = "idle"
  PROVE  UNCHANGED Promise!vars
<1>1. LoopPhase' = LoopPhase
  BY DEF LoopPhase, w
<1> QED BY <1>1, LoopQuiet

(* The phase is where the goroutine is, once there is one.                 *)
LEMMA PhaseSeen ==
  ASSUME handler[w] # "idle"
  PROVE  /\ exec[w] \in Preparing => LoopPhase = "before"
         /\ exec[w] = "command" => LoopPhase = "loop"
         /\ exec[w] = "executing" => LoopPhase = "executing"
         /\ exec[w] \notin Preparing \cup {"command", "executing"} =>
              LoopPhase = "past"
BY DEF LoopPhase, Preparing, w

LEMMA GoroutineSeen ==
  ASSUME IInv, Execute(w)
  PROVE  /\ w \in Runs
         /\ handler[w] # "idle" /\ handler'[w] # "idle"
         /\ UNCHANGED <<args, handler>>
<1>1. w \in Runs
  BY WatchedRunAssumption DEF w
<1>2. UNCHANGED <<args, handler>>
  BY <1>1, LoopFrame
<1>3. exec[w] # "absent"
  BY DEF Execute, EnterLock, LockGranted, LockTimeout, EnsureOk, EnsureFails,
     Start, Denied, ExecCommand, LastCommand, CommandReturns, Fail, Extract,
     ExtractFails, ExtractOk, AfterExtract, PublishArtifacts, Settle, Count, Announce,
     CloseDone, Unlock, Goto
<1> QED BY <1>1, <1>2, <1>3 DEF IInv, PhasesAgree, Phase

(* The command at `next' is the one whose turn it is.                      *)
LEMMA NextHasTurn ==
  ASSUME IInv, w \in Runs, RanBefore(w, next[w]),
         next[w] <= Len(run[w].commands)
  PROVE  Promise!Turn(next[w]) /\ next[w] \in DOMAIN run[w].commands
<1>1. /\ next[w] \in Nat \ {0}
      /\ run[w].commands \in Seq(CommandStatus)
  BY DEF IInv, TypeOK, RunStruct
<1>2. DOMAIN run[w].commands = 1 .. Len(run[w].commands)
      /\ Len(run[w].commands) \in Nat
  BY <1>1, LenProperties
<1> QED BY <1>1, <1>2 DEF RanBefore, Promise!Turn, w

(* Up to the loop: EnsureFails is CannotBegin, Start is Begin.             *)
LEMMA FirstStepsAreLoop ==
  ASSUME IInv, Loop(w),
         \/ EnterLock(w) \/ LockGranted(w) \/ LockTimeout(w)
         \/ EnsureOk(w) \/ EnsureFails(w) \/ Start(w)
  PROVE  [Promise!Next]_(Promise!vars)
<1> USE DEF managerVars, handlerVars, locals
<1>1. /\ w \in Runs /\ handler[w] # "idle" /\ handler'[w] # "idle"
      /\ UNCHANGED <<args, handler>>
  BY GoroutineSeen DEF Execute
<1>2. /\ exec \in [Runs -> ExecStages] /\ run \in [Runs -> RunStruct]
      /\ failure \in [Runs -> BOOLEAN]
  BY DEF IInv, TypeOK
<1>3. /\ exec[w] \in {"spawned", "locking", "ensuring", "ready"}
      /\ w \in runs
  BY <1>1 DEF EnterLock, LockGranted, LockTimeout, EnsureOk, EnsureFails, Start,
     Goto, IInv, PhasesAgree, Phase, Unended, RetainedUntilEnded
<1>4. LoopPhase = "before"
  BY <1>1, <1>3, PhaseSeen DEF Preparing
<1>5. CASE EnterLock(w) \/ LockGranted(w) \/ LockTimeout(w) \/ EnsureOk(w)
  <2>1. exec'[w] \in {"locking", "ensuring", "ready"} /\ UNCHANGED <<run, failure>>
    BY <1>1, <1>2, <1>5 DEF EnterLock, LockGranted, LockTimeout, EnsureOk, Goto
  <2>2. LoopPhase' = "before"
    BY <1>1, <2>1 DEF LoopPhase, Preparing, w
  <2> QED BY <1>1, <1>4, <2>1, <2>2, LoopQuiet
<1>6. CASE EnsureFails(w)
  <2>1. exec'[w] = "failing" /\ failure'[w] = TRUE /\ UNCHANGED run
    BY <1>1, <1>2, <1>3, <1>6 DEF EnsureFails, Goto
  <2>2. LoopPhase' = "past"
    BY <1>1, <2>1 DEF LoopPhase, Preparing, w
  <2>3. Promise!CannotBegin
    BY <1>1, <1>4, <2>1, <2>2 DEF Promise!CannotBegin, w
  <2> QED BY <2>3 DEF Promise!Next
<1>7. CASE Start(w)
  <2>1. exec'[w] = "command" /\ UNCHANGED failure
    BY <1>1, <1>2, <1>7 DEF Start, Goto
  <2>2. run'[w].state = "running" /\ run'[w].commands = run[w].commands
    BY <1>1, <1>2, <1>3, <1>7 DEF Start, RunStruct
  <2>3. LoopPhase' = "loop"
    BY <1>1, <2>1 DEF LoopPhase, Preparing, w
  <2>4. Promise!Begin
    BY <1>1, <1>4, <2>1, <2>2, <2>3 DEF Promise!Begin, w
  <2> QED BY <2>4 DEF Promise!Next
<1> QED BY <1>5, <1>6, <1>7

(* In the loop.                                                            *)
LEMMA CommandStepsAreLoop ==
  ASSUME IInv, Loop(w),
         \/ Denied(w) \/ ExecCommand(w) \/ LastCommand(w)
         \/ \E status \in CommandStatus \ {"queued"} : CommandReturns(w, status)
  PROVE  [Promise!Next]_(Promise!vars)
<1> USE DEF managerVars, handlerVars, locals
<1>1. /\ w \in Runs /\ handler[w] # "idle" /\ handler'[w] # "idle"
      /\ UNCHANGED <<args, handler>>
  BY GoroutineSeen DEF Execute
<1>2. /\ exec \in [Runs -> ExecStages] /\ run \in [Runs -> RunStruct]
      /\ failure \in [Runs -> BOOLEAN] /\ next[w] \in Nat \ {0}
  BY <1>1 DEF IInv, TypeOK
<1>3. /\ exec[w] \in {"command", "executing"}
      /\ RanBefore(w, next[w])
      /\ Len(run[w].commands) = Len(args[w].commands)
      /\ exec[w] = "executing" => next[w] <= Len(args[w].commands)
  BY <1>1 DEF Denied, ExecCommand, LastCommand, CommandReturns, Goto, Loop
<1>4. CASE Denied(w)
  <2>1. /\ exec[w] = "command" /\ exec'[w] = "failing" /\ failure'[w] = TRUE
        /\ next[w] <= Len(run[w].commands) /\ args[w].commands[next[w]].denied
    BY <1>1, <1>2, <1>3, <1>4 DEF Denied, Goto
  <2>2. /\ run'[w].commands = [run[w].commands EXCEPT ![next[w]] = "failed"]
        /\ run'[w].state = run[w].state
    BY <1>1, <1>2, <1>4 DEF Denied, RunStruct
  <2>3. LoopPhase = "loop" /\ LoopPhase' = "past"
    BY <1>1, <2>1 DEF LoopPhase, Preparing, w
  <2>4. Promise!Turn(next[w]) /\ next[w] \in DOMAIN run[w].commands
    BY <1>1, <1>3, <2>1, NextHasTurn
  <2>5. Promise!Refuse(next[w])
    BY <1>1, <2>1, <2>2, <2>3, <2>4 DEF Promise!Refuse, Promise!Denied, w
  <2> QED BY <2>4, <2>5 DEF Promise!Next, w
<1>5. CASE ExecCommand(w)
  <2>1. /\ exec[w] = "command" /\ exec'[w] = "executing" /\ UNCHANGED <<run, failure>>
        /\ next[w] <= Len(run[w].commands) /\ ~args[w].commands[next[w]].denied
    BY <1>1, <1>2, <1>3, <1>5 DEF ExecCommand, Goto
  <2>2. LoopPhase = "loop" /\ LoopPhase' = "executing"
    BY <1>1, <2>1 DEF LoopPhase, Preparing, w
  <2>3. Promise!Turn(next[w]) /\ next[w] \in DOMAIN run[w].commands
    BY <1>1, <1>3, <2>1, NextHasTurn
  <2>4. Promise!Execute(next[w])
    BY <1>1, <2>1, <2>2, <2>3 DEF Promise!Execute, Promise!Denied, w
  <2> QED BY <2>3, <2>4 DEF Promise!Next, w
<1>6. CASE LastCommand(w)
  <2>1. /\ exec[w] = "command" /\ exec'[w] = "extracting"
        /\ UNCHANGED <<run, failure>> /\ next[w] > Len(run[w].commands)
    BY <1>1, <1>2, <1>3, <1>6 DEF LastCommand, Goto
  <2>2. LoopPhase = "loop" /\ LoopPhase' = "past"
    BY <1>1, <2>1 DEF LoopPhase, Preparing, w
  <2>3. \A i \in DOMAIN run[w].commands : run[w].commands[i] # "queued"
    <3>1. run[w].commands \in Seq(CommandStatus)
      BY <1>1, <1>2 DEF RunStruct
    <3>2. DOMAIN run[w].commands = 1 .. Len(run[w].commands)
          /\ Len(run[w].commands) \in Nat
      BY <3>1, LenProperties
    <3> QED BY <1>2, <1>3, <2>1, <3>2 DEF RanBefore
  <2>4. Promise!EndLoop
    BY <1>1, <2>1, <2>2, <2>3 DEF Promise!EndLoop, w
  <2> QED BY <2>4 DEF Promise!Next
<1>7. ASSUME NEW s \in CommandStatus \ {"queued"}, CommandReturns(w, s)
      PROVE  [Promise!Next]_(Promise!vars)
  <2> DEFINE bad  == s # "completed" /\ ~args[w].commands[next[w]].allowFailure
             stop == bad /\ ~args[w].continueOnError
  <2>1. /\ exec[w] = "executing"
        /\ exec'[w] = IF stop THEN "failing" ELSE "command"
        /\ failure'[w] = (failure[w] \/ bad)
        /\ next[w] <= Len(run[w].commands)
    BY <1>1, <1>2, <1>3, <1>7 DEF CommandReturns, Goto
  <2>2. /\ run'[w].commands = [run[w].commands EXCEPT ![next[w]] = s]
        /\ run'[w].state = run[w].state
    <3>1. run' = [run EXCEPT ![w].commands[next[w]] = s]
      BY <1>7 DEF CommandReturns
    <3> QED BY <1>1, <1>2, <3>1 DEF RunStruct
  <2>3. LoopPhase = "executing" /\ LoopPhase' = IF stop THEN "past" ELSE "loop"
    <3> HIDE DEF stop
    <3> QED BY <1>1, <2>1 DEF LoopPhase, Preparing, w
  <2>4. Promise!Turn(next[w]) /\ next[w] \in DOMAIN run[w].commands
    BY <1>1, <1>3, <2>1, NextHasTurn
  <2>5. Promise!Return(next[w], s)
    BY <1>1, <2>1, <2>2, <2>3, <2>4 DEF Promise!Return, Promise!Spoils, w
  <2>6. s \in {"completed", "failed", "timed_out"}
    BY DEF CommandStatus
  <2> QED BY <2>4, <2>5, <2>6 DEF Promise!Next, w
<1> QED BY <1>4, <1>5, <1>6, <1>7

(* Past the loop: the two critical sections that end a run are Settle.     *)
LEMMA LastStepsAreLoop ==
  ASSUME IInv, Loop(w),
         \/ Fail(w) \/ Settle(w) \/ Count(w) \/ Announce(w) \/ CloseDone(w) \/ Unlock(w)
         \/ Extract(w) \/ ExtractFails(w) \/ ExtractOk(w) \/ PublishArtifacts(w)
  PROVE  [Promise!Next]_(Promise!vars)
<1> DEFINE Past == ExecStages \ (Preparing \cup {"command", "executing"})
<1> USE DEF managerVars, handlerVars, locals
<1>1. /\ w \in Runs /\ handler[w] # "idle" /\ handler'[w] # "idle"
      /\ UNCHANGED <<args, handler>>
  BY GoroutineSeen DEF Execute
<1>2. exec \in [Runs -> ExecStages] /\ run \in [Runs -> RunStruct]
  BY DEF IInv, TypeOK
<1>3. exec[w] \in Past /\ exec'[w] \in Past /\ UNCHANGED failure
  BY <1>1, <1>2 DEF Fail, Settle, Count, Announce, CloseDone, Unlock, Extract, ExtractFails,
     ExtractOk, PublishArtifacts, AfterExtract, Goto, ExecStages, Preparing
<1>4. LoopPhase = "past" /\ LoopPhase' = "past"
  BY <1>1, <1>3 DEF LoopPhase, Preparing, w
<1>5. CASE Fail(w) \/ Settle(w)
  <2>1. /\ run'[w].commands = run[w].commands
        /\ run'[w].state = IF failure[w] THEN "failed" ELSE "completed"
    BY <1>1, <1>2, <1>5 DEF Fail, Settle, Conclude, Goto, Loop, RunStruct
  <2>2. Promise!Settle
    BY <1>1, <1>3, <1>4, <2>1 DEF Promise!Settle, w
  <2> QED BY <2>2 DEF Promise!Next
<1>6. CASE ~(Fail(w) \/ Settle(w))
  <2>1. /\ run'[w].commands = run[w].commands
        /\ run'[w].state = run[w].state
    BY <1>1, <1>2, <1>6 DEF Count, Announce, CloseDone, Unlock, Extract, ExtractFails,
       ExtractOk, PublishArtifacts, RunStruct
  <2> QED BY <1>1, <1>3, <1>4, <2>1, LoopQuiet
<1> QED BY <1>5, <1>6

LEMMA LoopStep == IInv /\ LoopInv /\ [Next]_vars => [Promise!Next]_(Promise!vars)
<1> SUFFICES ASSUME IInv, LoopInv, [Next]_vars
             PROVE  [Promise!Next]_(Promise!vars)
  OBVIOUS
<1>1. w \in Runs /\ Loop(w)
  BY WatchedRunAssumption DEF LoopInv, w
<1>2. ASSUME NEW r \in Runs, NEW q \in Requests, Submit(r, q)
      PROVE  [Promise!Next]_(Promise!vars)
  <2> USE <1>2 DEF Submit, IInv, TypeOK, handlerVars, locals
  <2>1. CASE r # w
    <3>1. /\ args'[w] = args[w] /\ run'[w] = run[w] /\ handler'[w] = handler[w]
          /\ UNCHANGED <<exec, failure>>
      BY <1>1, <2>1
    <3> QED BY <3>1, SameLoop
  <2>2. CASE r = w
    <3>1. /\ handler[w] = "idle" /\ handler'[w] = "registered" /\ args'[w] = q
          /\ UNCHANGED <<exec, failure>>
      BY <1>1, <2>2
    <3>2. run'[w] = [NoRun EXCEPT !.commands =
                       [c \in 1 .. Len(q.commands) |-> "queued"]]
      BY <1>1, <2>2
    <3>3. /\ run'[w].commands = [c \in 1 .. Len(q.commands) |-> "queued"]
          /\ run'[w].state = "queued"
      BY <3>2 DEF NoRun
    <3>4. exec[w] = "absent"
      BY <1>1, <3>1 DEF PhasesAgree, Phase
    <3>5. LoopPhase = "absent" /\ LoopPhase' = "before"
      BY <3>1, <3>4 DEF LoopPhase, Preparing, w
    <3>6. Promise!Accept(q)
      BY <3>1, <3>3, <3>5 DEF Promise!Accept, Promise!AllQueued, w
    <3> QED BY <3>6 DEF Promise!Next
  <2> QED BY <2>1, <2>2
<1>3. ASSUME NEW r \in Runs, Handler(r) PROVE [Promise!Next]_(Promise!vars)
  <2> USE DEF Handler, EvictAndSpawn, AwaitDone, AwaitTimeout, managerVars, locals
  <2>1. UNCHANGED <<args, run, failure>> /\ (handler'[w] = "idle" <=> handler[w] = "idle")
    BY <1>1, <1>3 DEF IInv, TypeOK
  <2>2. LoopPhase' = LoopPhase
    <3>1. \/ exec'[w] = exec[w]
          \/ exec[w] = "absent" /\ exec'[w] = "spawned"
      BY <1>1, <1>3 DEF IInv, TypeOK, Goto
    <3> QED BY <2>1, <3>1 DEF LoopPhase, Preparing, w
  <2> QED BY <2>1, <2>2, LoopQuiet
<1>4. ASSUME NEW r \in Runs, Execute(r) PROVE [Promise!Next]_(Promise!vars)
  <2>1. CASE r = w
    BY <1>1, <1>4, <2>1, FirstStepsAreLoop, CommandStepsAreLoop, LastStepsAreLoop
       DEF Execute
  <2>2. CASE r # w
    BY <1>1, <1>4, <2>2, LoopFrame, SameLoop
  <2> QED BY <2>1, <2>2
<1>5. CASE UNCHANGED vars
  BY <1>5, SameLoop DEF vars, managerVars, handlerVars, locals
<1> QED BY <1>2, <1>3, <1>4, <1>5 DEF Next

(* Any run executes its commands as promised, for any number of runs and   *)
(* commands: in order, each once, a denied one never, none after a failure *)
(* that stops the run, with the verdict that they justify                  *)
(* (manager.go:216-393).                                                   *)
THEOREM RunsKeepTheirPromise == SafetySpec => LoopAsPromised
<1>1. Init => Promise!Init
  BY WatchedRunAssumption DEF Init, NoRun, Promise!Init, Promise!Unasked, LoopPhase, w
<1>2. Promise!Init /\ [][Promise!Next]_(Promise!vars) => Promise!Spec
  BY DEF Promise!Spec
<1> QED
  BY <1>1, <1>2, LoopStep, InvariantHolds, StreamsAgree, PTL
     DEF SafetySpec, LoopAsPromised
=============================================================================
