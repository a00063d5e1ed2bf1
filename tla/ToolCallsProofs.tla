-------------------------- MODULE ToolCallsProofs ---------------------------
(***************************************************************************)
(* For all calls, environments and lengths of time: the configuration is   *)
(* usable, an error means that no run was started, a client that waits for *)
(* its run gets the time that it asked for, and answers are in time.       *)
(***************************************************************************)
EXTENDS ToolCalls, TLAPS

SafetySpec == Init /\ [][Next]_vars

-----------------------------------------------------------------------------
(***************************************************************************)
(* Words.                                                                  *)
(***************************************************************************)

(* What fits a word is not changed (config.go:137; timeouts.go:42).        *)
LEMMA WrapKeepsWords ==
  ASSUME NEW n \in Int, -(MaxDuration + 1) <= n, n <= MaxDuration
  PROVE  Wrap(n) = n
<1> DEFINE w == MaxDuration + 1
<1>1. w \in Nat \ {0}
  BY TimesAssumption
<1>2. n + w \in 0 .. (2 * w - 1) /\ n + MaxDuration + 1 = n + w
  BY <1>1, TimesAssumption
<1>3. \A k \in Nat \ {0} : \A m \in 0 .. (k - 1) : m % k = m
  OBVIOUS
<1>4. 2 * w \in Nat \ {0}
  BY <1>1
<1> HIDE DEF w
<1>5. (n + w) % (2 * w) = n + w
  BY <1>2, <1>3, <1>4
<1>6. Wrap(n) = ((n + w) % (2 * w)) - w
  BY <1>2 DEF Wrap, Words, w
<1> QED
  BY <1>1, <1>5, <1>6

(* A word is a number (config.go:137; timeouts.go:42).                     *)
LEMMA WrapTyped ==
  ASSUME NEW n \in Int
  PROVE  Wrap(n) \in Int
<1>1. Words \in Nat \ {0} /\ MaxDuration \in Nat
  BY TimesAssumption DEF Words
<1>2. n + MaxDuration + 1 \in Int
  BY <1>1
<1>3. \A m \in Int : m % Words \in Int
  BY <1>1
<1> QED
  BY <1>1, <1>2, <1>3 DEF Wrap

LEMMA ToDurationTyped ==
  ASSUME NEW ms \in Int
  PROVE  ToDuration(ms) \in Int
<1>1. ms * Millisecond \in Int
  BY TimesAssumption
<1> QED
  BY <1>1, WrapTyped DEF ToDuration

-----------------------------------------------------------------------------
(***************************************************************************)
(* The configuration, and the times of a call.                             *)
(***************************************************************************)

(* What is loaded of an integer is positive (config.go:117-172).           *)
LEMMA LoadedIsPositive ==
  ASSUME NEW e \in Environments, NEW k \in Integral
  PROVE  LoadNumber(e, k) \in Int /\ LoadNumber(e, k) > 0
<1> DEFINE d == Defaults.number[k]
           n == Setting(e.number[k], d)
<1>1. d \in Nat \ {0}
  BY EnvironmentsAssumption
<1>2. e.number[k] \in Int \cup {None}
  BY EnvironmentsAssumption
<1>3. n \in Int
  BY <1>1, <1>2 DEF Setting
<1>4. CASE k \in InMs
  <2>1. Millisecond \in Nat \ {0} /\ MaxDuration \in Nat
    BY TimesAssumption
  <2>2. d * Millisecond <= MaxDuration
    BY <1>4, TimesAssumption DEF InMs
  <2>3. d * Millisecond \in Nat /\ d * Millisecond > 0
    BY <1>1, <2>1
  <2>4. ToDuration(d) = d * Millisecond
    <3> HIDE DEF d
    <3> QED
      BY <2>1, <2>2, <2>3, WrapKeepsWords DEF ToDuration
  <2>5. ToDuration(n) \in Int
    BY <1>3, ToDurationTyped
  <2>6. LoadNumber(e, k) = Positive(ToDuration(n), ToDuration(d))
    BY <1>4 DEF LoadNumber
  <2> HIDE DEF d, n
  <2> QED
    BY <2>3, <2>4, <2>5, <2>6 DEF Positive
<1>5. CASE k \notin InMs
  <2>1. LoadNumber(e, k) = Positive(n, d)
    BY <1>5 DEF LoadNumber
  <2> HIDE DEF d, n
  <2> QED
    BY <1>1, <1>3, <2>1 DEF Positive
<1> QED
  BY <1>4, <1>5

ConfigOK == config \in [ number : [Integral -> Int], await : BOOLEAN,
                         timeout : Int, backend : Backends ]

LEMMA LoadedIsTyped ==
  ASSUME NEW e \in Environments, NEW b \in Backends, config = Load(e, b)
  PROVE  ConfigOK /\ ConfigIsSane
<1>1. Setting(e.awaitMs, Defaults.awaitMs) \in Int /\ e.await \in BOOLEAN
  BY EnvironmentsAssumption DEF Setting
<1>2. ToDuration(Setting(e.awaitMs, Defaults.awaitMs)) \in Int
  BY <1>1, ToDurationTyped
<1>3. \A k \in Integral : LoadNumber(e, k) \in Int /\ LoadNumber(e, k) > 0
  BY LoadedIsPositive
<1> QED
  BY <1>1, <1>2, <1>3 DEF Load, ConfigOK, ConfigIsSane

(* The TTL that a sandbox gets is positive and within the maximum          *)
(* (manager.go:99-105).                                                    *)
LEMMA TTLInRange ==
  ASSUME ConfigOK, ConfigIsSane, NEW n \in Int
  PROVE  EffectiveTTL(n) \in 1 .. config.number["maxTTL"]
<1>1. /\ config.number["ttl"] \in Int /\ config.number["ttl"] > 0
      /\ config.number["maxTTL"] \in Int /\ config.number["maxTTL"] > 0
  BY DEF ConfigOK, ConfigIsSane, Integral
<1> QED
  BY <1>1 DEF EffectiveTTL, Positive

LEMMA RequestTypes ==
  ASSUME NEW r \in Requests
  PROVE  /\ r.tool \in Tools /\ r.ttl \in Int
         /\ r.commands \in Seq(Command)
         /\ r.awaitMs \in Int \cup {None}
  BY RequestsAssumption

(* The time that a client asks to wait is no negative number               *)
(* (timeouts.go:33-39).                                                    *)
LEMMA WaitTyped ==
  ASSUME ConfigOK, NEW r \in Requests
  PROVE  WaitMs(r) \in Nat
<1>1. Millisecond \in Nat \ {0} /\ Usual \in Nat
  BY TimesAssumption DEF Usual
<1>2. config.timeout \in Int
  BY DEF ConfigOK
<1>3. Usual \div Millisecond \in Nat
  BY <1>1
<1>4. r.awaitMs \in Int \cup {None}
  BY RequestTypes
<1> DEFINE n == IF r.awaitMs # None THEN r.awaitMs
                ELSE IF config.timeout > 0 THEN config.timeout \div Millisecond ELSE 0
<1>5. n \in Int
  BY <1>1, <1>2, <1>4
<1>6. WaitMs(r) = Positive(n, Usual \div Millisecond)
  BY DEF WaitMs
<1> HIDE DEF n
<1> QED
  BY <1>3, <1>5, <1>6 DEF Positive

(* The context of a call that waits outlasts its wait by the cushion,      *)
(* whenever that fits a duration (timeouts.go:41-42; handler.go:58-65).    *)
LEMMA DeadlineFits ==
  ASSUME ConfigOK, NEW r \in Requests
  PROVE  /\ Deadline(r) \in Nat
         /\ ToDuration(WaitMs(r)) \in Int
         /\ Requested(r) \in Nat
         /\ Requested(r) + Cushion <= MaxDuration =>
              /\ ToDuration(WaitMs(r)) = Requested(r)
              /\ r.tool = "run_sandbox" /\ r.wellFormed /\ Awaits(r) =>
                   Deadline(r) >= Requested(r) + Cushion
<1>1. /\ Millisecond \in Nat \ {0} /\ Usual \in Nat /\ Cushion \in Nat
      /\ MaxDuration \in Nat
  BY TimesAssumption DEF Usual, Cushion
<1>2. WaitMs(r) \in Nat
  BY WaitTyped
<1>3. Requested(r) \in Nat
  BY <1>1, <1>2 DEF Requested
<1>4. ToDuration(WaitMs(r)) \in Int
  BY <1>2, ToDurationTyped
<1>5. ToolCallTimeout(r) \in Int
  <2>1. Wrap(ToDuration(WaitMs(r)) + Cushion) \in Int
    BY <1>1, <1>4, WrapTyped
  <2> QED
    BY <2>1 DEF ToolCallTimeout
<1>6. Deadline(r) \in Nat /\ Deadline(r) >= ToolCallTimeout(r)
  BY <1>1, <1>5 DEF Deadline
<1>7. ASSUME Requested(r) + Cushion <= MaxDuration
      PROVE  /\ ToDuration(WaitMs(r)) = Requested(r)
             /\ Wrap(Requested(r) + Cushion) = Requested(r) + Cushion
  <2>1. -(MaxDuration + 1) <= Requested(r) /\ Requested(r) <= MaxDuration
    BY <1>1, <1>3, <1>7
  <2>2. /\ Requested(r) + Cushion \in Int
        /\ -(MaxDuration + 1) <= Requested(r) + Cushion
    BY <1>1, <1>3
  <2>3. Wrap(Requested(r)) = Requested(r)
    BY <1>3, <2>1, WrapKeepsWords
  <2>4. Wrap(Requested(r) + Cushion) = Requested(r) + Cushion
    BY <1>7, <2>2, WrapKeepsWords
  <2> QED
    BY <2>3, <2>4 DEF ToDuration, Requested
<1>8. ASSUME Requested(r) + Cushion <= MaxDuration,
             r.tool = "run_sandbox", r.wellFormed, Awaits(r)
      PROVE  Deadline(r) >= Requested(r) + Cushion
  <2>1. ToolCallTimeout(r) = Requested(r) + Cushion
    BY <1>7, <1>8 DEF ToolCallTimeout
  <2> QED
    BY <1>6, <2>1
<1> QED
  BY <1>3, <1>4, <1>6, <1>7, <1>8

-----------------------------------------------------------------------------
(***************************************************************************)
(* The invariant, call by call.                                            *)
(***************************************************************************)
Behind(c) ==
  /\ at[c] \in {"operating", "spawned", "awaiting"} => Accepts(request[c])
  /\ run[c] # "none" =>
       /\ at[c] \in {"spawned", "awaiting", "answered"}
       /\ request[c].tool = "run_sandbox" /\ Accepts(request[c])
  /\ at[c] \in {"spawned", "awaiting"} => run[c] # "none"
  /\ at[c] = "awaiting" => Awaits(request[c])

Timed(c) ==
  /\ at[c] \notin {"awaiting", "answered"} => waited[c] = 0
  /\ InFlight(c) /\ ~hungUp[c] /\ prepared[c] <= Cushion =>
       left[c] + prepared[c] + waited[c] >= Deadline(request[c])
  /\ at[c] = "awaiting" =>
       waitLeft[c] + waited[c] >= ToDuration(WaitMs(request[c]))

Honest(c) ==
  at[c] = "answered" /\ answer[c] # "nothing" =>
    (run[c] # "none" <=> answer[c] # "error" /\ request[c].tool = "run_sandbox")

CallOK(c) == Behind(c) /\ Timed(c) /\ Honest(c)

(* What is admitted can be executed, so that this part of the invariant    *)
(* follows from the others (manager.go:536-559; normalize.go).             *)
LEMMA AcceptedIsExecutable ==
  TypeOK /\ ConfigIsSane /\ (\A c \in Calls : Behind(c)) => SpawnedIsExecutable
<1> SUFFICES ASSUME TypeOK, ConfigIsSane, \A c \in Calls : Behind(c),
                    NEW c \in Calls, run[c] # "none"
             PROVE  /\ request[c].commands # <<>>
                    /\ \A i \in DOMAIN request[c].commands :
                         LET cmd == Normalized(request[c].commands[i])
                         IN  /\ cmd.shell = "text" <=> ~cmd.argv
                             /\ cmd.timeoutMs >= 0
                    /\ EffectiveTTL(request[c].ttl) \in 1 .. config.number["maxTTL"]
  BY DEF SpawnedIsExecutable
<1>1. request[c] \in Requests
  BY DEF TypeOK
<1>2. Admitted(request[c])
  BY DEF Behind, Accepts
<1>3. request[c].commands # <<>>
  BY <1>2 DEF Admitted
<1>4. EffectiveTTL(request[c].ttl) \in 1 .. config.number["maxTTL"]
  BY <1>1, RequestTypes, TTLInRange DEF TypeOK, ConfigOK
<1>5. ASSUME NEW i \in DOMAIN request[c].commands
      PROVE  LET cmd == Normalized(request[c].commands[i])
             IN  /\ cmd.shell = "text" <=> ~cmd.argv
                 /\ cmd.timeoutMs >= 0
  <2> DEFINE cmd == Normalized(request[c].commands[i])
  <2>1. Valid(cmd)
    BY <1>2, <1>5 DEF Admitted
  <2>2. request[c].commands[i] \in Command
    BY <1>1, <1>5, RequestTypes
  <2>3. cmd.argv \in BOOLEAN
    BY <2>2 DEF Normalized, Command
  <2>4. DayMs \in Nat
    BY TimesAssumption
  <2> HIDE DEF cmd
  <2>5. cmd.timeoutMs >= 0
    BY <2>1, <2>4 DEF Valid
  <2>6. cmd.shell = "text" <=> ~cmd.argv
    BY <2>1, <2>3 DEF Valid
  <2> QED
    BY <2>5, <2>6 DEF cmd
<1> QED
  BY <1>3, <1>4, <1>5

LifeOK == CutOnlyAfterGrace /\ ClosedForCause

LEMMA InParts ==
  IInv <=> TypeOK /\ ConfigIsSane /\ LifeOK /\ \A c \in Calls : CallOK(c)
<1>1. (\A c \in Calls : CallOK(c)) <=>
        RunsAreBehindCalls /\ TimeAccounted /\ ErrorMeansNoRun
  BY DEF CallOK, Behind, Timed, Honest, RunsAreBehindCalls, TimeAccounted,
         ErrorMeansNoRun
<1>2. RunsAreBehindCalls => \A c \in Calls : Behind(c)
  BY DEF RunsAreBehindCalls, Behind
<1> QED
  BY <1>1, <1>2, AcceptedIsExecutable DEF IInv, LifeOK

(* ... after a step as before it.                                          *)
LEMMA InPartsNext ==
  IInv' <=> TypeOK' /\ ConfigIsSane' /\ LifeOK' /\ \A c \in Calls : CallOK(c)'
<1>1. IInv' <=> (TypeOK /\ ConfigIsSane /\ LifeOK /\ \A c \in Calls : CallOK(c))'
  BY InParts, PTL
<1> QED
  BY <1>1

(* What is decided about a call does not change.                           *)
LEMMA SameDecisions ==
  ASSUME UNCHANGED <<config, request>>, NEW c \in Calls
  PROVE  /\ Accepts(request[c])' <=> Accepts(request[c])
         /\ Awaits(request[c])' <=> Awaits(request[c])
         /\ Deadline(request[c])' = Deadline(request[c])
         /\ ToDuration(WaitMs(request[c]))' = ToDuration(WaitMs(request[c]))
         /\ Requested(request[c])' = Requested(request[c])
<1>1. WaitMs(request[c])' = WaitMs(request[c])
  BY DEF WaitMs
<1>2. Awaits(request[c])' <=> Awaits(request[c])
  BY DEF Awaits
<1>3. Accepts(request[c])' <=> Accepts(request[c])
  BY DEF Accepts
<1>4. ToDuration(WaitMs(request[c]))' = ToDuration(WaitMs(request[c]))
  BY <1>1
<1>5. ToolCallTimeout(request[c])' = ToolCallTimeout(request[c])
  BY <1>2, <1>4 DEF ToolCallTimeout
<1> QED
  BY <1>1, <1>2, <1>3, <1>4, <1>5 DEF Deadline, Requested

SameCall(c) ==
  /\ at'[c] = at[c] /\ run'[c] = run[c] /\ answer'[c] = answer[c]
  /\ left'[c] = left[c] /\ waitLeft'[c] = waitLeft[c]
  /\ hungUp'[c] = hungUp[c]
  /\ waited'[c] = waited[c] /\ prepared'[c] = prepared[c]

LEMMA CallKept ==
  ASSUME UNCHANGED <<config, request>>, NEW c \in Calls, CallOK(c), SameCall(c)
  PROVE  CallOK(c)' /\ (InFlight(c)' <=> InFlight(c))
<1>1. InFlight(c)' <=> InFlight(c)
  BY DEF InFlight, SameCall
<1>2. Behind(c)'
  BY SameDecisions DEF CallOK, Behind, SameCall
<1>3. Timed(c)'
  BY <1>1, SameDecisions DEF CallOK, Timed, SameCall
<1>4. Honest(c)'
  BY DEF CallOK, Honest, SameCall
<1> QED
  BY <1>1, <1>2, <1>3, <1>4 DEF CallOK

(* A step of the handler of one call leaves the others, and the process,   *)
(* as they are.                                                            *)
LEMMA OneCall ==
  ASSUME IInv, Alive, UNCHANGED <<life, request>>, NEW c \in Calls,
         \A d \in Calls \ {c} : SameCall(d),
         TypeOK', CallOK(c)',
         InFlight(c)' => InFlight(c) \/ server = "serving"
  PROVE  IInv'
<1>1. /\ UNCHANGED <<config, request, server, grace, reaper>>
      /\ \A d \in Calls : CallOK(d)
      /\ ConfigIsSane /\ LifeOK
  BY InParts DEF life
<1>2. \A d \in Calls \ {c} : CallOK(d)' /\ (InFlight(d)' <=> InFlight(d))
  BY <1>1, CallKept
<1>3. ConfigIsSane'
  BY <1>1 DEF ConfigIsSane
<1>4. LifeOK'
  BY <1>1, <1>2 DEF LifeOK, CutOnlyAfterGrace, ClosedForCause, Alive
<1> QED
  BY <1>2, <1>3, <1>4, InPartsNext

-----------------------------------------------------------------------------
(***************************************************************************)
(* The steps.                                                              *)
(***************************************************************************)

(* A call is answered once it is known whether a run is behind it          *)
(* (handler.go:66, 110-134).                                               *)
LEMMA AnswerStep ==
  ASSUME IInv, NEW c \in Calls, NEW from, from # "new",
         NEW what \in {"error", "result", "final", "null"}, Answer(c, from, what),
         run[c] # "none" <=> what # "error" /\ request[c].tool = "run_sandbox"
  PROVE  IInv'
<1>0. TypeOK /\ \A d \in Calls : CallOK(d)
  BY InParts
<1>1. /\ Alive /\ at[c] = from /\ at' = [at EXCEPT ![c] = "answered"]
      /\ answer' = [answer EXCEPT ![c] =
                      IF request[c].notification THEN "nothing" ELSE what]
      /\ left' = [left EXCEPT ![c] = 0] /\ waitLeft' = [waitLeft EXCEPT ![c] = 0]
      /\ UNCHANGED <<life, hungUp, waited, prepared, late, request, run>>
  BY DEF Answer, Goto, Cancel
<1>2. UNCHANGED <<config, server, grace, reaper>>
  BY <1>1 DEF life
<1>3. TypeOK'
  BY <1>0, <1>1, <1>2 DEF TypeOK, Stages
<1>4. \A d \in Calls \ {c} : SameCall(d)
  BY <1>0, <1>1 DEF TypeOK, SameCall
<1>5. /\ at'[c] = "answered" /\ run'[c] = run[c] /\ request'[c] = request[c]
      /\ answer'[c] \in {"nothing", what}
  BY <1>0, <1>1 DEF TypeOK
<1>6. run[c] # "none" => request[c].tool = "run_sandbox" /\ Accepts(request[c])
  BY <1>0 DEF CallOK, Behind
<1>7. Behind(c)'
  BY <1>2, <1>1, <1>5, <1>6, SameDecisions DEF Behind
<1>8. Timed(c)' /\ Honest(c)'
  BY <1>5 DEF Timed, Honest, InFlight
<1>9. ~InFlight(c)'
  BY <1>5 DEF InFlight
<1> QED
  BY <1>1, <1>3, <1>4, <1>7, <1>8, <1>9, OneCall DEF CallOK

(* The steps that answer (handler.go:147-199; manager.go:183-194).         *)
LEMMA AnswerSteps ==
  ASSUME IInv, NEW c \in Calls,
         \/ PingFails(c) \/ Refuse(c) \/ OperationFails(c) \/ OperationSucceeds(c)
         \/ AnswerSpawned(c) \/ AnswerFinal(c) \/ AnswerNull(c)
  PROVE  IInv'
<1>1. Behind(c)
  BY InParts DEF CallOK
<1>2. CASE \E from \in {"pinging", "dispatching", "operating"} :
             Answer(c, from, "error")
  <2>1. PICK from \in {"pinging", "dispatching", "operating"} :
          Answer(c, from, "error")
    BY <1>2
  <2>2. run[c] = "none"
    BY <1>1, <2>1 DEF Behind, Answer, Goto
  <2> QED
    BY <2>1, <2>2, AnswerStep
<1>3. CASE OperationSucceeds(c)
  <2>1. /\ request[c].tool # "run_sandbox" /\ Answer(c, "operating", "result")
        /\ at[c] = "operating"
    BY <1>3 DEF OperationSucceeds, Answer, Goto
  <2>2. run[c] = "none"
    BY <1>1, <2>1 DEF Behind
  <2> QED
    BY <2>1, <2>2, AnswerStep
<1>4. CASE \E from \in {"spawned", "awaiting"}, what \in {"result", "final", "null"} :
             Answer(c, from, what)
  <2>1. PICK from \in {"spawned", "awaiting"}, what \in {"result", "final", "null"} :
          Answer(c, from, what)
    BY <1>4
  <2>2. run[c] # "none" /\ request[c].tool = "run_sandbox"
    BY <1>1, <2>1 DEF Behind, Answer, Goto
  <2> QED
    BY <2>1, <2>2, AnswerStep
<1> QED
  BY <1>2, <1>3, <1>4 DEF PingFails, Refuse, OperationFails, AnswerSpawned,
                          AnswerFinal, AnswerNull

(* A call is accepted with all of its time (handler.go:58-66).             *)
LEMMA AcceptStep ==
  ASSUME IInv, NEW c \in Calls, Accept(c)
  PROVE  IInv'
<1>0. TypeOK /\ \A d \in Calls : CallOK(d)
  BY InParts
<1>1. /\ Alive /\ at[c] = "new" /\ at' = [at EXCEPT ![c] = "pinging"]
      /\ left' = [left EXCEPT ![c] = Deadline(request[c])]
      /\ server = "serving"
      /\ UNCHANGED <<life, waitLeft, hungUp, waited, prepared, late, request, run,
                     answer>>
  BY DEF Accept, Goto
<1>2. UNCHANGED <<config, server, grace, reaper>>
  BY <1>1 DEF life
<1>3. Deadline(request[c]) \in Nat
  BY <1>0, DeadlineFits DEF TypeOK, ConfigOK
<1>4. TypeOK'
  BY <1>0, <1>1, <1>2, <1>3 DEF TypeOK, Stages
<1>5. \A d \in Calls \ {c} : SameCall(d)
  BY <1>0, <1>1 DEF TypeOK, SameCall
<1>6. /\ at'[c] = "pinging" /\ run'[c] = run[c]
      /\ left'[c] = Deadline(request[c])
      /\ waited'[c] = waited[c] /\ prepared'[c] = prepared[c]
      /\ prepared[c] \in Nat
  BY <1>0, <1>1 DEF TypeOK
<1>7. run[c] = "none" /\ waited[c] = 0
  BY <1>0, <1>1 DEF CallOK, Behind, Timed
<1>8. Behind(c)' /\ Honest(c)'
  BY <1>6, <1>7 DEF Behind, Honest
<1>9. Timed(c)'
  <2>1. left'[c] + prepared'[c] + waited'[c] >= Deadline(request[c])
    BY <1>3, <1>6, <1>7
  <2>2. Deadline(request[c])' = Deadline(request[c])
    BY <1>1, <1>2, SameDecisions
  <2>3. at'[c] # "awaiting" /\ waited'[c] = 0
    BY <1>6, <1>7
  <2> QED
    BY <2>1, <2>2, <2>3 DEF Timed
<1> QED
  BY <1>1, <1>4, <1>5, <1>8, <1>9, OneCall DEF CallOK

(* It goes on without time passing (handler.go:147-199).                   *)
LEMMA GoOnStep ==
  ASSUME IInv, NEW c \in Calls, Ping(c) \/ Operate(c)
  PROVE  IInv'
<1>0. TypeOK /\ \A d \in Calls : CallOK(d)
  BY InParts
<1>1. PICK to \in {"dispatching", "operating"} :
        /\ Alive /\ at[c] \in {"pinging", "dispatching"}
        /\ at' = [at EXCEPT ![c] = to]
        /\ to = "operating" => Accepts(request[c])
        /\ UNCHANGED <<life, context, request, run, answer>>
  BY DEF Ping, Operate, Goto
<1>2. /\ UNCHANGED <<config, server, grace, reaper>>
      /\ UNCHANGED <<left, waitLeft, waited, prepared>>
      /\ UNCHANGED <<hungUp, late>>
  BY <1>1 DEF life, context
<1>3. TypeOK'
  BY <1>0, <1>1, <1>2 DEF TypeOK, Stages
<1>4. \A d \in Calls \ {c} : SameCall(d)
  BY <1>0, <1>1, <1>2 DEF TypeOK, SameCall
<1>5. at'[c] = to
  BY <1>0, <1>1 DEF TypeOK
<1>6. run[c] = "none" /\ run'[c] = "none"
  BY <1>0, <1>1 DEF CallOK, Behind
<1>7. Accepts(request[c])' <=> Accepts(request[c])
  BY <1>1, <1>2, SameDecisions
<1>8. Behind(c)' /\ Honest(c)'
  BY <1>1, <1>5, <1>6, <1>7 DEF Behind, Honest
<1>9. InFlight(c) /\ InFlight(c)'
  BY <1>1, <1>5 DEF InFlight
<1>10. Timed(c)'
  <2>1. Deadline(request[c])' = Deadline(request[c])
    BY <1>1, <1>2, SameDecisions
  <2>2. Timed(c)
    BY <1>0 DEF CallOK
  <2> QED
    BY <1>1, <1>2, <1>5, <1>9, <2>1, <2>2 DEF Timed
<1> QED
  BY <1>1, <1>3, <1>4, <1>8, <1>9, <1>10, OneCall DEF CallOK

(* The run is started, and the wait for it begins with all of its time     *)
(* (manager.go:158-188).                                                   *)
LEMMA SpawnStep ==
  ASSUME IInv, NEW c \in Calls, Spawn(c)
  PROVE  IInv'
<1>0. TypeOK /\ \A d \in Calls : CallOK(d)
  BY InParts
<1> DEFINE to == IF Awaits(request[c]) THEN "awaiting" ELSE "spawned"
           w == IF Awaits(request[c]) THEN ToDuration(WaitMs(request[c])) ELSE 0
<1>1. /\ Alive /\ at[c] = "operating" /\ at' = [at EXCEPT ![c] = to]
      /\ run' = [run EXCEPT ![c] = "working"]
      /\ waitLeft' = [waitLeft EXCEPT ![c] = w]
      /\ request[c].tool = "run_sandbox"
      /\ UNCHANGED <<life, left, hungUp, waited, prepared, late, request, answer>>
  BY DEF Spawn, Goto
<1>2. UNCHANGED <<config, server, grace, reaper>>
  BY <1>1 DEF life
<1>3. ToDuration(WaitMs(request[c])) \in Int
  BY <1>0, DeadlineFits DEF TypeOK, ConfigOK
<1>4. w \in Int /\ to \in {"awaiting", "spawned"}
  BY <1>3
<1>5. /\ to = "awaiting" => /\ Awaits(request[c])
                            /\ w = ToDuration(WaitMs(request[c]))
  OBVIOUS
<1> HIDE DEF to, w
<1>6. TypeOK'
  BY <1>0, <1>1, <1>2, <1>4 DEF TypeOK, Stages
<1>7. \A d \in Calls \ {c} : SameCall(d)
  BY <1>0, <1>1 DEF TypeOK, SameCall
<1>8. /\ at'[c] = to /\ run'[c] = "working" /\ waitLeft'[c] = w
      /\ waited'[c] = waited[c]
  BY <1>0, <1>1 DEF TypeOK
<1>9. Accepts(request[c]) /\ waited[c] = 0
  BY <1>0, <1>1 DEF CallOK, Behind, Timed
<1>10. /\ Accepts(request[c])' <=> Accepts(request[c])
       /\ Awaits(request[c])' <=> Awaits(request[c])
       /\ Deadline(request[c])' = Deadline(request[c])
       /\ ToDuration(WaitMs(request[c]))' = ToDuration(WaitMs(request[c]))
  BY <1>1, <1>2, SameDecisions
<1>11. Behind(c)' /\ Honest(c)'
  BY <1>1, <1>4, <1>5, <1>8, <1>9, <1>10 DEF Behind, Honest
<1>12. InFlight(c) /\ InFlight(c)'
  BY <1>1, <1>4, <1>8 DEF InFlight
<1>13. Timed(c)'
  <2>1. Timed(c)
    BY <1>0 DEF CallOK
  <2>2. waitLeft'[c] + waited'[c] = w
    BY <1>4, <1>8, <1>9
  <2>3. at'[c] = "awaiting" =>
          waitLeft'[c] + waited'[c] >= ToDuration(WaitMs(request[c]))
    BY <1>4, <1>5, <1>8, <2>2
  <2> QED
    BY <1>1, <1>4, <1>8, <1>9, <1>10, <1>12, <2>1, <2>3 DEF Timed
<1> QED
  BY <1>1, <1>6, <1>7, <1>11, <1>12, <1>13, OneCall DEF CallOK

(* The run of a call ends, or its client hangs up (handler.go:55, 66;      *)
(* manager.go:392-394).                                                    *)
LEMMA OutsideStep ==
  ASSUME IInv, NEW c \in Calls, RunEnds(c) \/ HangUp(c)
  PROVE  IInv'
<1>0. TypeOK /\ \A d \in Calls : CallOK(d)
  BY InParts
<1>1. /\ Alive
      /\ UNCHANGED <<life, waitLeft, waited, prepared, at, request, answer>>
      /\ UNCHANGED late
  BY DEF RunEnds, HangUp, context
<1>2. UNCHANGED <<config, server, grace, reaper>>
  BY <1>1 DEF life
<1>3. /\ \/ left' = left /\ hungUp' = hungUp
         \/ left' = [left EXCEPT ![c] = 0] /\ hungUp' = [hungUp EXCEPT ![c] = TRUE]
      /\ \/ run' = run
         \/ run[c] = "working" /\ run' = [run EXCEPT ![c] = "done"]
  BY DEF RunEnds, HangUp, context
<1>4. hungUp' \in [Calls -> BOOLEAN] /\ left' \in [Calls -> Nat]
  <2>1. hungUp \in [Calls -> BOOLEAN] /\ left \in [Calls -> Nat]
    BY <1>0 DEF TypeOK
  <2>2. [hungUp EXCEPT ![c] = TRUE] \in [Calls -> BOOLEAN]
    BY <2>1
  <2>3. [left EXCEPT ![c] = 0] \in [Calls -> Nat]
    BY <2>1
  <2>4. hungUp' \in [Calls -> BOOLEAN]
    <3>1. hungUp' = hungUp \/ hungUp' = [hungUp EXCEPT ![c] = TRUE]
      BY <1>3
    <3> QED
      BY <2>1, <2>2, <3>1, Zenon
  <2>5. left' \in [Calls -> Nat]
    BY <1>3, <2>1, <2>3
  <2> QED
    BY <2>4, <2>5
<1>5. run' \in [Calls -> {"none", "working", "done"}]
  BY <1>0, <1>3 DEF TypeOK
<1>6. TypeOK'
  BY <1>0, <1>1, <1>2, <1>4, <1>5 DEF TypeOK
<1>7. \A d \in Calls \ {c} : SameCall(d)
  BY <1>0, <1>1, <1>3 DEF TypeOK, SameCall
<1>8. /\ run'[c] # "none" <=> run[c] # "none"
      /\ \/ left'[c] = left[c] /\ hungUp'[c] = hungUp[c]
         \/ hungUp'[c]
  BY <1>0, <1>3 DEF TypeOK
<1>9. Behind(c) /\ Timed(c) /\ Honest(c)
  BY <1>0 DEF CallOK
<1>10. Behind(c)' /\ Honest(c)'
  BY <1>1, <1>2, <1>8, <1>9, SameDecisions DEF Behind, Honest
<1>11. InFlight(c)' <=> InFlight(c)
  BY <1>1 DEF InFlight
<1>12. Timed(c)'
  BY <1>1, <1>2, <1>8, <1>9, <1>11, SameDecisions DEF Timed
<1> QED
  BY <1>1, <1>6, <1>7, <1>10, <1>11, <1>12, OneCall DEF CallOK

(* The reaper and main go on: what is cut was given its time               *)
(* (main.go:40-48; app.go:170-177; reaper.go:35-65).                       *)
LEMMA LifeStep ==
  ASSUME IInv,
         \/ PassBegins \/ PassEnds \/ ReaperStops \/ Signal \/ ShutdownEnds \/ Exit
  PROVE  IInv'
<1>0. TypeOK /\ ConfigIsSane /\ LifeOK /\ \A c \in Calls : CallOK(c)
  BY InParts
<1>1. UNCHANGED <<config, callVars>>
  BY DEF PassBegins, PassEnds, ReaperStops, Signal, ShutdownEnds, Exit
<1>2. /\ UNCHANGED <<config, request, at, run, answer>>
      /\ UNCHANGED <<left, waitLeft, waited, prepared>>
      /\ UNCHANGED <<hungUp, late>>
  BY <1>1 DEF callVars, context
<1>3. \A c \in Calls : CallOK(c)' /\ (InFlight(c)' <=> InFlight(c))
  BY <1>0, <1>2, CallKept DEF SameCall
<1>4. ConfigIsSane'
  BY <1>0, <1>2 DEF ConfigIsSane
<1>5. /\ server' \in {"serving", "draining", "closing", "exited"}
      /\ grace' \in Nat /\ reaper' \in {"resting", "passing", "gone"}
  BY <1>0, TimesAssumption
     DEF PassBegins, PassEnds, ReaperStops, Signal, ShutdownEnds, Exit, TypeOK
<1>6. TypeOK'
  BY <1>0, <1>2, <1>5 DEF TypeOK
<1>7. LifeOK'
  <2>1. CASE PassBegins \/ PassEnds \/ ReaperStops \/ Signal
    BY <1>0, <1>3, <2>1 DEF PassBegins, PassEnds, ReaperStops, Signal, Alive,
                            LifeOK, CutOnlyAfterGrace, ClosedForCause
  <2>2. CASE ShutdownEnds
    BY <1>3, <2>2 DEF ShutdownEnds, LifeOK, CutOnlyAfterGrace, ClosedForCause
  <2>3. CASE Exit
    BY <1>0, <1>3, <2>3 DEF Exit, LifeOK, CutOnlyAfterGrace, ClosedForCause
  <2> QED
    BY <2>1, <2>2, <2>3
<1> QED
  BY <1>3, <1>4, <1>6, <1>7, InPartsNext

(* A unit of time that a call loses is counted for its preparation or its  *)
(* wait (handler.go:58-66; manager.go:183-188).                            *)
LEMMA TickStep ==
  ASSUME IInv, Tick
  PROVE  IInv'
<1>0. TypeOK /\ ConfigIsSane /\ LifeOK /\ \A c \in Calls : CallOK(c)
  BY InParts
<1>1. /\ UNCHANGED <<config, server, reaper, at, request, run, answer>>
      /\ UNCHANGED hungUp
      /\ Alive
      /\ \A c \in Calls : ~Bounded(c)
  BY DEF Tick
<1>2. \A c \in Calls :
        /\ left'[c] = Less(left[c])
        /\ waitLeft'[c] = IF at[c] = "awaiting" THEN Less(waitLeft[c]) ELSE waitLeft[c]
        /\ waited'[c] = IF at[c] = "awaiting" THEN waited[c] + 1 ELSE waited[c]
        /\ prepared'[c] =
             IF at[c] \in {"pinging", "operating"} /\ prepared[c] <= Cushion
             THEN prepared[c] + 1 ELSE prepared[c]
  BY DEF Tick
<1>3. \A c \in Calls : /\ left[c] \in Nat /\ waitLeft[c] \in Int
                        /\ waited[c] \in Nat /\ prepared[c] \in Nat
                        /\ Deadline(request[c]) \in Nat
                        /\ ToDuration(WaitMs(request[c])) \in Int
  BY <1>0, DeadlineFits DEF TypeOK, ConfigOK
<1>4. TypeOK'
  <2>1. \A c \in Calls : /\ left'[c] \in Nat /\ waitLeft'[c] \in Int
                          /\ waited'[c] \in Nat /\ prepared'[c] \in Nat
    BY <1>2, <1>3 DEF Less
  <2>2. /\ left' = [c \in Calls |-> left'[c]]
        /\ waitLeft' = [c \in Calls |-> waitLeft'[c]]
        /\ waited' = [c \in Calls |-> waited'[c]]
        /\ prepared' = [c \in Calls |-> prepared'[c]]
    BY DEF Tick
  <2>3. /\ left' \in [Calls -> Nat] /\ waitLeft' \in [Calls -> Int]
        /\ waited' \in [Calls -> Nat] /\ prepared' \in [Calls -> Nat]
    BY <2>1, <2>2
  <2>4. late' \in [Calls -> SUBSET Stages]
    <3>1. late' = [c \in Calls |-> late[c] \cup
                     {stage \in {at[c]} : InFlight(c) /\ left[c] <= 0}]
      BY DEF Tick
    <3>2. ASSUME NEW c \in Calls
          PROVE  late[c] \cup {stage \in {at[c]} : InFlight(c) /\ left[c] <= 0}
                   \in SUBSET Stages
      BY <1>0 DEF TypeOK
    <3> QED
      BY <3>1, <3>2
  <2>5. grace' \in Nat
    BY <1>0 DEF Tick, TypeOK
  <2>6. hungUp' \in [Calls -> BOOLEAN]
    BY <1>0, <1>1 DEF TypeOK
  <2> QED
    BY <1>0, <1>1, <2>3, <2>4, <2>5, <2>6 DEF TypeOK
<1>5. \A c \in Calls : InFlight(c)' <=> InFlight(c)
  BY <1>1 DEF InFlight
<1>6. ASSUME NEW c \in Calls
      PROVE  CallOK(c)'
  <2>1. Behind(c) /\ Timed(c) /\ Honest(c)
    BY <1>0 DEF CallOK
  <2>2. Behind(c)' /\ Honest(c)'
    BY <1>1, <2>1, SameDecisions DEF Behind, Honest
  <2>3. at[c] \notin {"dispatching", "spawned"}
    BY <1>1 DEF Bounded
  <2>4. /\ Deadline(request[c])' = Deadline(request[c])
        /\ ToDuration(WaitMs(request[c]))' = ToDuration(WaitMs(request[c]))
    BY <1>1, SameDecisions
  <2>5. at'[c] \notin {"awaiting", "answered"} => waited'[c] = 0
    BY <1>1, <1>2, <2>1 DEF Timed
  <2>6. ASSUME InFlight(c)', ~hungUp'[c], prepared'[c] <= Cushion
        PROVE  left'[c] + prepared'[c] + waited'[c] >= Deadline(request[c])
    <3>1. Cushion \in Nat
      BY TimesAssumption DEF Cushion
    <3>2. prepared[c] <= Cushion
      BY <1>2, <1>3, <2>6, <3>1
    <3>3. left[c] + prepared[c] + waited[c] >= Deadline(request[c])
      BY <1>1, <1>5, <2>1, <2>6, <3>2 DEF Timed
    <3>4. at[c] \in {"pinging", "operating", "awaiting"}
      BY <1>0, <1>5, <2>3, <2>6 DEF InFlight, TypeOK, Stages
    <3>5. left'[c] >= left[c] - 1 /\ left'[c] \in Nat
      BY <1>2, <1>3 DEF Less
    <3>6. prepared'[c] + waited'[c] = prepared[c] + waited[c] + 1
      BY <1>2, <1>3, <3>2, <3>4
    <3>7. prepared'[c] \in Nat /\ waited'[c] \in Nat
      BY <1>2, <1>3
    <3> QED
      BY <1>3, <3>3, <3>5, <3>6, <3>7
  <2>7. ASSUME at'[c] = "awaiting"
        PROVE  waitLeft'[c] + waited'[c] >= ToDuration(WaitMs(request[c]))
    <3>1. waitLeft[c] + waited[c] >= ToDuration(WaitMs(request[c]))
      BY <1>1, <2>1, <2>7 DEF Timed
    <3>2. waitLeft'[c] = Less(waitLeft[c]) /\ waited'[c] = waited[c] + 1
      BY <1>1, <1>2, <2>7
    <3>3. Less(waitLeft[c]) \in Int /\ Less(waitLeft[c]) >= waitLeft[c] - 1
      BY <1>3 DEF Less
    <3> QED
      BY <1>3, <3>1, <3>2, <3>3
  <2>8. Timed(c)'
    BY <2>4, <2>5, <2>6, <2>7 DEF Timed
  <2> QED
    BY <2>2, <2>8 DEF CallOK
<1>7. ConfigIsSane'
  BY <1>0, <1>1 DEF ConfigIsSane
<1>8. LifeOK'
  <2>1. server # "exited"
    BY <1>1 DEF Alive
  <2>2. server # "draining" => grace' = grace
    BY DEF Tick
  <2> QED
    BY <1>0, <1>1, <1>5, <2>1, <2>2 DEF LifeOK, CutOnlyAfterGrace, ClosedForCause
<1> QED
  BY <1>4, <1>6, <1>7, <1>8, InPartsNext

LEMMA InitEstablishes == Init => IInv
<1> SUFFICES ASSUME Init PROVE IInv
  OBVIOUS
<1>1. PICK e \in Environments, b \in Backends : config = Load(e, b)
  BY DEF Init
<1>2. ConfigOK /\ ConfigIsSane
  BY <1>1, LoadedIsTyped
<1>3. request \in [Calls -> Requests]
  BY DEF Init
<1>4. TypeOK
  BY <1>2, <1>3 DEF Init, TypeOK, ConfigOK, Stages
<1>5. LifeOK
  BY DEF Init, LifeOK, CutOnlyAfterGrace, ClosedForCause
<1>6. \A c \in Calls : CallOK(c)
  BY DEF Init, CallOK, Behind, Timed, Honest, InFlight
<1> QED
  BY <1>2, <1>4, <1>5, <1>6, InParts

LEMMA StepPreserves == IInv /\ [Next]_vars => IInv'
<1> SUFFICES ASSUME IInv, [Next]_vars PROVE IInv'
  OBVIOUS
<1>1. ASSUME NEW c \in Calls, Accept(c) \/ Handle(c) \/ RunEnds(c) \/ HangUp(c)
      PROVE  IInv'
  BY <1>1, AcceptStep, AnswerSteps, GoOnStep, SpawnStep, OutsideStep DEF Handle
<1>2. CASE PassBegins \/ PassEnds \/ ReaperStops \/ Signal \/ Process
  BY <1>2, LifeStep DEF Process
<1>3. CASE Tick
  BY <1>3, TickStep
<1>4. CASE UNCHANGED vars
  <2>1. /\ UNCHANGED <<config, request, at, run, answer, server, grace, reaper>>
        /\ UNCHANGED <<left, waitLeft, waited, prepared>>
        /\ UNCHANGED <<hungUp, late>>
    BY <1>4 DEF vars, life, context
  <2>2. TypeOK /\ ConfigIsSane /\ LifeOK /\ \A c \in Calls : CallOK(c)
    BY InParts
  <2>3. \A c \in Calls : CallOK(c)' /\ (InFlight(c)' <=> InFlight(c))
    BY <2>1, <2>2, CallKept DEF SameCall
  <2>4. TypeOK' /\ ConfigIsSane'
    BY <2>1, <2>2 DEF TypeOK, ConfigIsSane
  <2>5. LifeOK'
    BY <2>1, <2>2, <2>3 DEF LifeOK, CutOnlyAfterGrace, ClosedForCause
  <2> QED
    BY <2>3, <2>4, <2>5, InPartsNext
<1> QED
  BY <1>1, <1>2, <1>3, <1>4 DEF Next

-----------------------------------------------------------------------------
(***************************************************************************)
(* What follows.                                                           *)
(***************************************************************************)

(* The invariant holds for all calls and requests, every environment, and  *)
(* every length of the times (config.go:107-177; handler.go:55-134).       *)
THEOREM InvariantHolds == SafetySpec => []IInv
<1>1. Init => IInv
  BY InitEstablishes
<1>2. IInv /\ [Next]_vars => IInv'
  BY StepPreserves
<1> QED
  BY <1>1, <1>2, PTL DEF SafetySpec

(* A client that is told an error may call again: nothing was started. Any *)
(* other answer to run_sandbox has a run behind it (handler.go:147-199).   *)
THEOREM ErrorMeansNoRunHolds == SafetySpec => []ErrorMeansNoRun
<1>1. IInv => ErrorMeansNoRun
  BY DEF IInv
<1> QED
  BY <1>1, InvariantHolds, PTL

Honoured(c) ==
  at[c] = "answered" /\ answer[c] = "null" =>
    \/ waited[c] >= Requested(request[c])
    \/ hungUp[c]
    \/ prepared[c] >= Cushion
    \/ Requested(request[c]) + Cushion > MaxDuration

(* The client is told null because its own time is over: if instead the    *)
(* deadline of the call is, the cushion went to the sandbox, or it hung up.*)
LEMMA NullIsHonoured ==
  ASSUME IInv, NEW c \in Calls, AnswerNull(c)
  PROVE  \/ waited[c] >= Requested(request[c])
         \/ hungUp[c]
         \/ prepared[c] >= Cushion
         \/ Requested(request[c]) + Cushion > MaxDuration
<1> DEFINE r == request[c]
<1>0. TypeOK /\ Timed(c) /\ Behind(c)
  BY InParts DEF CallOK
<1>1. at[c] = "awaiting" /\ WaitOver(c)
  BY DEF AnswerNull, Answer, Goto
<1>2. /\ left[c] \in Nat /\ waitLeft[c] \in Int
      /\ waited[c] \in Nat /\ prepared[c] \in Nat
      /\ r \in Requests /\ Cushion \in Nat /\ MaxDuration \in Nat
  BY <1>0, TimesAssumption DEF TypeOK, Cushion
<1>3. /\ Deadline(r) \in Nat /\ Requested(r) \in Nat
      /\ Requested(r) + Cushion <= MaxDuration =>
           /\ ToDuration(WaitMs(r)) = Requested(r)
           /\ r.tool = "run_sandbox" /\ r.wellFormed /\ Awaits(r) =>
                Deadline(r) >= Requested(r) + Cushion
  BY <1>0, <1>2, DeadlineFits DEF TypeOK, ConfigOK
<1>4. r.tool = "run_sandbox" /\ r.wellFormed /\ Awaits(r)
  BY <1>0, <1>1 DEF Behind, Accepts
<1>5. SUFFICES ASSUME ~hungUp[c], prepared[c] < Cushion,
                      Requested(r) + Cushion <= MaxDuration
               PROVE  waited[c] >= Requested(r)
  BY <1>2, <1>3
<1> HIDE DEF r
<1>6. /\ ToDuration(WaitMs(r)) = Requested(r)
      /\ Deadline(r) >= Requested(r) + Cushion
  BY <1>3, <1>4, <1>5
<1>7. CASE waitLeft[c] <= 0
  <2>1. waitLeft[c] + waited[c] >= ToDuration(WaitMs(r))
    BY <1>0, <1>1 DEF Timed, r
  <2> QED
    BY <1>2, <1>3, <1>6, <1>7, <2>1
<1>8. CASE left[c] <= 0
  <2>1. InFlight(c) /\ prepared[c] <= Cushion
    BY <1>1, <1>2, <1>5 DEF InFlight
  <2>2. left[c] + prepared[c] + waited[c] >= Deadline(r)
    BY <1>0, <1>5, <2>1 DEF Timed, r
  <2> QED
    BY <1>2, <1>3, <1>5, <1>6, <1>8, <2>2
<1> QED
  BY <1>1, <1>7, <1>8 DEF WaitOver

(* The steps of the handler of a call that answer it.                      *)
Answers(c) ==
  \/ PingFails(c) \/ Refuse(c) \/ OperationFails(c) \/ OperationSucceeds(c)
  \/ AnswerSpawned(c) \/ AnswerFinal(c) \/ AnswerNull(c)

(* No step changes what was decided about a call, or, once it is answered, *)
(* what its wait has taken (handler.go:58-66).                             *)
LEMMA AnsweredIsOver ==
  ASSUME [Next]_vars, NEW c \in Calls
  PROVE  /\ UNCHANGED <<config, request>>
         /\ at[c] \in {"awaiting", "answered"} => prepared'[c] = prepared[c]
         /\ at[c] = "answered" => waited'[c] = waited[c]
         /\ (\E d \in Calls : Answers(d)) => waited' = waited /\ hungUp' = hungUp
<1>1. CASE \E d \in Calls : Answers(d)
  <2>1. PICK d \in Calls : Answers(d)
    BY <1>1
  <2>2. /\ UNCHANGED <<life, waited, prepared, request>>
        /\ hungUp' = hungUp
    BY <2>1 DEF Answers, PingFails, Refuse, OperationFails, OperationSucceeds,
                AnswerSpawned, AnswerFinal, AnswerNull, Answer
  <2> QED
    BY <2>2 DEF life
<1>2. ASSUME NEW d \in Calls,
             \/ Accept(d) \/ Ping(d) \/ Operate(d) \/ Spawn(d) \/ RunEnds(d) \/ HangUp(d)
      PROVE  UNCHANGED <<config, request, waited, prepared>>
  BY <1>2 DEF Accept, Ping, Operate, Spawn, RunEnds, HangUp, life, context
<1>3. CASE PassBegins \/ PassEnds \/ ReaperStops \/ Signal \/ Process \/ UNCHANGED vars
  <2>1. UNCHANGED <<config, request, waited, prepared>>
    BY <1>3 DEF PassBegins, PassEnds, ReaperStops, Signal, Process, ShutdownEnds,
                Exit, callVars, context, vars, life
  <2> QED
    BY <1>1, <2>1
<1>4. CASE Tick
  <2>1. /\ UNCHANGED <<config, request>>
        /\ waited' = [d \in Calls |-> IF at[d] = "awaiting" THEN waited[d] + 1
                                       ELSE waited[d]]
        /\ prepared' = [d \in Calls |->
              IF at[d] \in {"pinging", "operating"} /\ prepared[d] <= Cushion
              THEN prepared[d] + 1 ELSE prepared[d]]
    BY <1>4 DEF Tick
  <2> QED
    BY <1>1, <2>1
<1> QED
  BY <1>1, <1>2, <1>3, <1>4 DEF Next, Handle, Answers

(* Only AnswerNull answers with null, and the step that does is the call's *)
(* own (manager.go:183-194).                                               *)
LEMMA NullIsAnswered ==
  ASSUME TypeOK, [Next]_vars, NEW c \in Calls, ~AnswerNull(c),
         at'[c] = "answered", answer'[c] = "null"
  PROVE  at[c] = "answered" /\ answer[c] = "null"
<1>1. CASE \E d \in Calls : Answers(d)
  <2>1. PICK d \in Calls : Answers(d)
    BY <1>1
  <2>2. PICK what \in {"error", "result", "final", "null"} :
          /\ at' = [at EXCEPT ![d] = "answered"]
          /\ answer' = [answer EXCEPT ![d] =
                          IF request[d].notification THEN "nothing" ELSE what]
          /\ what = "null" => AnswerNull(d)
    BY <2>1 DEF Answers, PingFails, Refuse, OperationFails, OperationSucceeds,
                AnswerSpawned, AnswerFinal, AnswerNull, Answer, Goto
  <2>3. CASE d = c
    <3>1. what # "null" /\ answer'[c] \in {"nothing", what}
      BY <2>2, <2>3 DEF TypeOK
    <3> QED
      BY <3>1
  <2>4. CASE d # c
    BY <2>2, <2>4 DEF TypeOK
  <2> QED
    BY <2>3, <2>4
<1>2. ASSUME NEW d \in Calls, Accept(d) \/ Ping(d) \/ Operate(d) \/ Spawn(d)
      PROVE  at[c] = "answered" /\ answer[c] = "null"
  <2>1. /\ answer' = answer
        /\ \E to \in Stages \ {"answered"} : at' = [at EXCEPT ![d] = to]
    BY <1>2 DEF Accept, Ping, Operate, Spawn, Goto, Stages
  <2> QED
    BY <2>1 DEF TypeOK
<1>3. ASSUME NEW d \in Calls, RunEnds(d) \/ HangUp(d)
      PROVE  at[c] = "answered" /\ answer[c] = "null"
  BY <1>3 DEF RunEnds, HangUp
<1>4. CASE \/ PassBegins \/ PassEnds \/ ReaperStops \/ Signal \/ Process \/ Tick
           \/ UNCHANGED vars
  BY <1>4 DEF PassBegins, PassEnds, ReaperStops, Signal, Process, ShutdownEnds,
              Exit, Tick, callVars, vars
<1> QED
  BY <1>1, <1>2, <1>3, <1>4 DEF Next, Handle, Answers

(* A client does not come back (handler.go:55).                            *)
LEMMA HungUpForGood ==
  ASSUME TypeOK, [Next]_vars, NEW c \in Calls, hungUp[c]
  PROVE  hungUp'[c]
<1>1. CASE hungUp' = hungUp
  BY <1>1
<1>2. CASE \E d \in Calls : hungUp' = [hungUp EXCEPT ![d] = TRUE]
  <2>1. PICK d \in Calls : hungUp' = [hungUp EXCEPT ![d] = TRUE]
    BY <1>2
  <2>2. hungUp \in [Calls -> BOOLEAN]
    BY DEF TypeOK
  <2> QED
    BY <2>1, <2>2
<1>3. ASSUME NEW d \in Calls, Accept(d) \/ Handle(d) \/ RunEnds(d)
      PROVE  hungUp' = hungUp
  BY <1>3 DEF Accept, Handle, Ping, PingFails, Refuse, Operate, OperationFails,
              OperationSucceeds, Spawn, AnswerSpawned, AnswerFinal, AnswerNull,
              Answer, RunEnds, context
<1>4. CASE \/ PassBegins \/ PassEnds \/ ReaperStops \/ Signal \/ Process \/ Tick
           \/ UNCHANGED vars
  <2>1. hungUp' = hungUp
    BY <1>4 DEF PassBegins, PassEnds, ReaperStops, Signal, Process, ShutdownEnds,
                Exit, Tick, callVars, context, vars
  <2> QED
    BY <1>1, <2>1
<1> QED
  BY <1>1, <1>2, <1>3, <1>4 DEF Next, HangUp

LEMMA StaysHonoured ==
  ASSUME IInv, [Next]_vars, NEW c \in Calls, Honoured(c)
  PROVE  Honoured(c)'
<1> SUFFICES ASSUME at'[c] = "answered", answer'[c] = "null"
             PROVE  Honoured(c)'
  BY DEF Honoured
<1>0. TypeOK
  BY InParts
<1>1. Requested(request[c])' = Requested(request[c])
  BY AnsweredIsOver, SameDecisions
<1>2. CASE AnswerNull(c)
  <2>1. at[c] = "awaiting"
    BY <1>2 DEF AnswerNull, Answer, Goto
  <2>2. waited'[c] = waited[c] /\ prepared'[c] = prepared[c]
    BY <1>2, <2>1, AnsweredIsOver DEF Answers
  <2>3. hungUp[c] => hungUp'[c]
    BY <1>0, HungUpForGood
  <2> QED
    BY <1>1, <1>2, <2>2, <2>3, NullIsHonoured DEF Honoured
<1>3. CASE ~AnswerNull(c)
  <2>1. at[c] = "answered" /\ answer[c] = "null"
    BY <1>0, <1>3, NullIsAnswered
  <2>2. waited'[c] = waited[c] /\ prepared'[c] = prepared[c]
    BY <2>1, AnsweredIsOver
  <2>3. hungUp[c] => hungUp'[c]
    BY <1>0, HungUpForGood
  <2> QED
    BY <1>1, <2>1, <2>2, <2>3 DEF Honoured
<1> QED
  BY <1>2, <1>3

(* Whatever a client asks for, and whatever is configured: it is told null *)
(* only after its time, unless it hung up, the sandbox took the cushion,   *)
(* or its time does not fit a duration (timeouts.go:11-43;                 *)
(* manager.go:183-194).                                                    *)
THEOREM AwaitHonouredHolds == SafetySpec => []AwaitHonoured
<1>1. Init => AwaitHonoured
  BY DEF Init, AwaitHonoured
<1>2. IInv /\ AwaitHonoured /\ [Next]_vars => AwaitHonoured'
  <2>1. AwaitHonoured <=> \A c \in Calls : Honoured(c)
    BY DEF AwaitHonoured, Honoured
  <2>2. AwaitHonoured' <=> \A c \in Calls : Honoured(c)'
    BY DEF AwaitHonoured, Honoured
  <2> QED
    BY <2>1, <2>2, StaysHonoured
<1> QED
  BY <1>1, <1>2, InvariantHolds, PTL DEF SafetySpec

(* No call outlives its deadline anywhere but in the Ping of the           *)
(* Kubernetes client (handler.go:58-66; client/kubernetes/client.go:19-23). *)
THEOREM AnsweredInTimeHolds == SafetySpec => []AnsweredInTime
<1>1. Init => AnsweredInTime
  BY DEF Init, AnsweredInTime
<1>2. TypeOK /\ AnsweredInTime /\ [Next]_vars => AnsweredInTime'
  <2> SUFFICES ASSUME TypeOK, AnsweredInTime, [Next]_vars,
                      NEW c \in Calls, NEW stage \in late'[c]
               PROVE  config'.backend = "kubernetes" /\ stage = "pinging"
    BY DEF AnsweredInTime
  <2>1. config' = config
    BY AnsweredIsOver
  <2>2. CASE late' = late
    BY <2>1, <2>2 DEF AnsweredInTime
  <2>3. CASE Tick
    <3>1. \/ stage \in late[c]
          \/ stage = at[c] /\ InFlight(c) /\ left[c] <= 0
      BY <2>3 DEF Tick
    <3>2. CASE stage = at[c] /\ InFlight(c) /\ left[c] <= 0
      <4>1. ~Bounded(c)
        BY <2>3 DEF Tick
      <4>2. at[c] \in Stages
        BY DEF TypeOK
      <4>3. at[c] = "pinging" /\ config.backend # "docker"
        BY <3>2, <4>1, <4>2 DEF Bounded, InFlight, Stages, WaitOver
      <4>4. config.backend \in Backends
        BY DEF TypeOK
      <4> QED
        BY <2>1, <3>2, <4>3, <4>4, BackendsAssumption
    <3> QED
      BY <2>1, <3>1, <3>2 DEF AnsweredInTime
  <2>4. ASSUME NEW d \in Calls,
               Accept(d) \/ Handle(d) \/ RunEnds(d) \/ HangUp(d)
        PROVE  late' = late
    BY <2>4 DEF Accept, Handle, Ping, PingFails, Refuse, Operate, OperationFails,
                OperationSucceeds, Spawn, AnswerSpawned, AnswerFinal, AnswerNull,
                Answer, RunEnds, HangUp, context
  <2>5. CASE \/ PassBegins \/ PassEnds \/ ReaperStops \/ Signal \/ Process
             \/ UNCHANGED vars
    <3>1. late' = late
      BY <2>5 DEF PassBegins, PassEnds, ReaperStops, Signal, Process, ShutdownEnds,
                  Exit, callVars, context, vars
    <3> QED
      BY <2>2, <3>1
  <2> QED
    BY <2>2, <2>3, <2>4, <2>5 DEF Next
<1>3. IInv => TypeOK
  BY DEF IInv
<1> QED
  BY <1>1, <1>2, <1>3, InvariantHolds, PTL DEF SafetySpec
=============================================================================
