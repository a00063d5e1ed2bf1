------------------------ MODULE SandboxManagerProofs ------------------------
(***************************************************************************)
(* For every set of identifiers, callers, containers and policies, and any *)
(* number of failures and restarts: no identifier is ever given the        *)
(* container of another one or of a former policy, however calls overlap;  *)
(* and the reaper keeps to what was promised.                              *)
(***************************************************************************)
EXTENDS SandboxManager, TLAPS

(* The manager starts with an empty map and no containers                  *)
(* (manager.go:39-53).                                                     *)
LEMMA InitEstablishes == Init => IInv
  BY ThreadsAssumption, PolicyAssumption, BoundsAssumption
  DEF Init, IInv, TypeOK, OwnSandbox, Threads, Unused, Container, Stages,
      Resting, Ended
-----------------------------------------------------------------------------
(* Looking up, extending, making sure that the container runs, and         *)
(* adopting it: what is extended or adopted fits the identifier            *)
(* (manager.go:98-129, 168-189).                                           *)
LEMMA EnsureKeepsIInv ==
  ASSUME IInv, NEW t \in Callers,
         Lookup(t) \/ Extend(t) \/ EnsureRunning(t) \/ Adopt(t)
  PROVE  IInv'
<1> USE ThreadsAssumption, BoundsAssumption
    DEF IInv, TypeOK, OwnSandbox, Fits, Threads, Stages, Resting, Ended, Goto,
        NoFault, localVars, reaperVars, worldVars, overlaps
<1>1. CASE Lookup(t)
  BY <1>1 DEF Lookup, Sandbox, managerVars, ghosts
<1>2. CASE Extend(t)
  BY <1>2, TTLAssumption DEF Extend, Sandbox, ghosts
<1>3. CASE InspectRunning(t)
  BY <1>3 DEF InspectRunning, Return, managerVars
<1>4. CASE InspectStopped(t)
  BY <1>4 DEF InspectStopped, managerVars, ghosts
<1>5. CASE StartOld(t)
  BY <1>5 DEF StartOld, Return, SetState, Exists, Container, managerVars
<1>6. CASE NotRunning(t)
  BY <1>6 DEF NotRunning, Fault, managerVars, ghosts
<1>7. CASE Adopt(t)
  BY <1>7 DEF Adopt, Sandbox, Container, ghosts
<1> QED BY <1>1, <1>2, <1>3, <1>4, <1>5, <1>6, <1>7 DEF EnsureRunning

(* The search finds containers of the identifier's label and of the policy *)
(* that is configured, or nothing (manager.go:401-453).                    *)
LEMMA FindKeepsIInv ==
  ASSUME IInv, NEW t \in Threads, Find(t)
  PROVE  IInv'
<1> USE ThreadsAssumption, BoundsAssumption
    DEF IInv, TypeOK, OwnSandbox, Fits, Threads, Stages, Resting, Ended, Goto,
        NoFault, localVars, reaperVars, worldVars, overlaps
<1>1. CASE FindFails(t)
  BY <1>1 DEF FindFails, Labelled, Fault, Exists, managerVars, ghosts
<1>2. CASE FindNothing(t)
  BY <1>2
  DEF FindNothing, Labelled, Fault, Exists, managerVars, ghosts
<1>3. CASE FindOutdated(t)
  BY <1>3
  DEF FindOutdated, Labelled, Fault, Exists, managerVars, ghosts
<1>4. CASE FindOurs(t)
  BY <1>4 DEF FindOurs, Labelled, Fault, Exists, managerVars, ghosts
<1> QED BY <1>1, <1>2, <1>3, <1>4 DEF Find

(* The daemon's containers keep their labels when their state changes.     *)
LEMMA LabelsStay ==
  ASSUME IInv, NEW k \in Containers, Exists(k),
         \/ UNCHANGED container
         \/ \E state \in {"stopped", "running", "removed"} : SetState(k, state)
  PROVE  /\ container' \in [Containers -> Container]
         /\ \A c \in Containers :
              /\ container'[c].identifier = container[c].identifier
              /\ container'[c].policy = container[c].policy
              /\ container'[c].state = "unused" => container[c].state = "unused"
<1>1. CASE UNCHANGED container
  BY <1>1 DEF IInv, TypeOK
<1>2. ASSUME NEW state \in {"stopped", "running", "removed"}, SetState(k, state)
      PROVE  /\ container' \in [Containers -> Container]
             /\ \A c \in Containers :
                  /\ container'[c].identifier = container[c].identifier
                  /\ container'[c].policy = container[c].policy
                  /\ container'[c].state = "unused" =>
                       container[c].state = "unused"
  <2>1. container[k] \in Container
    BY DEF IInv, TypeOK
  <2>2. /\ [container[k] EXCEPT !.state = state] \in Container
        /\ [container[k] EXCEPT !.state = state].identifier =
             container[k].identifier
        /\ [container[k] EXCEPT !.state = state].policy = container[k].policy
        /\ [container[k] EXCEPT !.state = state].state = state
    BY <2>1 DEF Container
  <2>3. container' =
          [container EXCEPT ![k] = [container[k] EXCEPT !.state = state]]
    BY <1>2 DEF SetState
  <2> QED BY <2>2, <2>3 DEF IInv, TypeOK
<1> QED BY <1>1, <1>2

(* create labels the container with the identifier and the policy, and it  *)
(* was nobody's before (manager.go:191-273).                               *)
LEMMA CreateKeepsIInv ==
  ASSUME IInv, NEW t \in Callers, Create(t)
  PROVE  IInv'
<1> USE ThreadsAssumption, BoundsAssumption
    DEF IInv, TypeOK, OwnSandbox, Fits, Threads, Stages, Resting, Ended, Goto,
        NoFault, localVars, reaperVars, worldVars, overlaps
<1>1. CASE Plan(t)
  BY <1>1, TTLAssumption DEF Plan, Fault, managerVars, ghosts
<1>2. CASE CreateContainer(t)
  <2> PICK c \in Containers :
         /\ container[c].state = "unused"
         /\ container' = [container EXCEPT ![c] =
              [identifier |-> want[t], state |-> "stopped",
               expires |-> until[t], policy |-> policy]]
         /\ held' = [held EXCEPT ![t] = c]
    BY <1>2 DEF CreateContainer
  <2>1. pc[t] = "creating" /\ want[t] \in Identifiers
    BY <1>2 DEF CreateContainer
  <2>2. TypeOK'
    BY <1>2, <2>1 DEF CreateContainer, Container, managerVars, ghosts
  <2>3. ASSUME NEW d \in Containers, NEW i \in Identifiers, Fits(d, i)
        PROVE  Fits(d, i)'
    BY <1>2, <2>3, NoneAssumption DEF CreateContainer, managerVars
  <2>4. Fits(c, want[t])'
    BY <1>2, <2>1 DEF CreateContainer, Container, managerVars
  <2>5. \A i \in Identifiers :
          sandboxes'[i] # None => Fits(sandboxes[i].container, i)'
    BY <1>2, <2>3 DEF CreateContainer, Sandbox, managerVars
  <2>6. OwnSandbox'
    BY <1>2, <2>3, <2>4, <2>5 DEF CreateContainer
  <2>7. \A d \in Containers :
          container'[d].state = "unused" => container'[d].identifier = None
    BY <2>1, NoneAssumption DEF Container
  <2> QED
    BY <1>2, <2>1, <2>2, <2>6, <2>7 DEF CreateContainer
<1>3. CASE CreateFails(t)
  BY <1>3 DEF CreateFails, Fault, managerVars, ghosts
<1>4. CASE StartNew(t)
  BY <1>4
  DEF StartNew, SetState, Exists, Fault, Container, managerVars, ghosts
<1>5. CASE StartNewFails(t)
  BY <1>5 DEF StartNewFails, Exists, Fault, managerVars, ghosts
<1>6. CASE Rollback(t)
  <2>1. /\ container' \in [Containers -> Container]
        /\ \A c \in Containers :
             /\ container'[c].identifier = container[c].identifier
             /\ container'[c].policy = container[c].policy
             /\ container'[c].state = "unused" => container[c].state = "unused"
    <3>1. CASE Exists(held[t])
      BY <1>6, <3>1, LabelsStay DEF Rollback, Exists
    <3>2. CASE ~Exists(held[t])
      BY <1>6, <3>2 DEF Rollback
    <3> QED BY <3>1, <3>2
  <2> QED
    BY <1>6, <2>1 DEF Rollback, Fault, managerVars, ghosts
<1>7. CASE Record(t)
  <2>1. Fits(held[t], want[t]) /\ want[t] \in Identifiers /\ pc[t] = "recording"
    BY <1>7 DEF Record, Return
  <2>2. TypeOK'
    BY <1>7, <2>1 DEF Record, Return, Sandbox
  <2>3. OwnSandbox'
    BY <1>7, <2>1 DEF Record, Return
  <2> QED
    BY <1>7, <2>2, <2>3 DEF Record, Return
<1> QED BY <1>1, <1>2, <1>3, <1>4, <1>5, <1>6, <1>7 DEF Create

(* Delete takes the record away before it stops and removes the container  *)
(* (manager.go:132-161).                                                   *)
LEMMA DeleteKeepsIInv ==
  ASSUME IInv, NEW t \in Threads, Delete(t)
  PROVE  IInv'
<1> USE ThreadsAssumption, BoundsAssumption
    DEF IInv, TypeOK, OwnSandbox, Fits, Threads, Stages, Resting, Ended, Goto,
        NoFault, localVars, reaperVars, worldVars, overlaps
<1>1. CASE Drop(t)
  BY <1>1 DEF Drop, Sandbox, ghosts
<1>2. CASE Find(t)
  BY <1>2, FindKeepsIInv
<1>3. CASE Stop(t)
  <2>1. /\ container' \in [Containers -> Container]
        /\ \A c \in Containers :
             /\ container'[c].identifier = container[c].identifier
             /\ container'[c].policy = container[c].policy
             /\ container'[c].state = "unused" => container[c].state = "unused"
    <3>1. CASE Exists(held[t])
      BY <1>3, <3>1, LabelsStay DEF Stop, Exists
    <3>2. CASE ~Exists(held[t])
      BY <1>3, <3>2 DEF Stop
    <3> QED BY <3>1, <3>2
  <2>2. lease' \in [Containers -> Nat]
    BY <1>3 DEF Stop
  <2> QED
    BY <1>3, <2>1, <2>2 DEF Stop, Fault, managerVars, ghosts
<1>4. CASE Remove(t)
  <2>1. /\ container' \in [Containers -> Container]
        /\ \A c \in Containers :
             /\ container'[c].identifier = container[c].identifier
             /\ container'[c].policy = container[c].policy
             /\ container'[c].state = "unused" => container[c].state = "unused"
    <3>1. CASE Exists(held[t])
      BY <1>4, <3>1, LabelsStay DEF Remove, Exists
    <3>2. CASE ~Exists(held[t])
      BY <1>4, <3>2 DEF Remove
    <3> QED BY <3>1, <3>2
  <2> QED
    BY <1>4, <2>1 DEF Remove, Fault, managerVars, ghosts
<1> QED BY <1>1, <1>2, <1>3, <1>4 DEF Delete

(* The reaper only picks identifiers; it deletes as everybody does         *)
(* (manager.go:497-544).                                                   *)
LEMMA ReapKeepsIInv ==
  ASSUME IInv, Reap
  PROVE  IInv'
<1> USE ThreadsAssumption, BoundsAssumption
    DEF IInv, TypeOK, OwnSandbox, Fits, Threads, Stages, Resting, Ended, Goto,
        NoFault, localVars, reaperVars, worldVars, overlaps
<1>1. CASE Ticker
  BY <1>1 DEF Ticker, Fault, managerVars, ghosts
<1>2. CASE List
  BY <1>2 DEF List, Fault, managerVars, ghosts
<1>3. CASE ListFails
  BY <1>3 DEF ListFails, Fault, managerVars, ghosts
<1>4. CASE Pick
  BY <1>4 DEF Pick, Overlap, Fault, managerVars, ghosts
<1>5. CASE Delete(Reaper)
  BY <1>5, DeleteKeepsIInv
<1> QED BY <1>1, <1>2, <1>3, <1>4, <1>5 DEF Reap

(* A call begins with an identifier (manager.go:90-96, 132, 163).          *)
LEMMA BeginKeepsIInv ==
  ASSUME IInv, NEW t \in Callers, NEW call \in Calls[t], Begin(t, call[1], call[2])
  PROVE  IInv'
<1>1. call[2] \in Identifiers
  BY CallsAssumption
<1> QED
  BY <1>1, ThreadsAssumption, TTLAssumption
  DEF Begin, Overlap, EffectiveTTL, IInv, TypeOK, OwnSandbox, Fits, Threads,
      Stages, Resting, Ended, Goto, managerVars, reaperVars, worldVars

(* A restart empties the map with the policy, and everybody starts anew.   *)
LEMMA CrashKeepsIInv == ASSUME IInv, Crash PROVE IInv'
BY BoundsAssumption
DEF Crash, IInv, TypeOK, OwnSandbox, Fits, Threads, Stages, Resting, Ended,
    localVars, ghosts, overlaps

(* Whatever befalls a container, it keeps its labels.                      *)
LEMMA LoseContainerKeepsIInv ==
  ASSUME IInv, NEW c \in Containers, LoseContainer(c) PROVE IInv'
BY BoundsAssumption
DEF LoseContainer, Exists, Fault, SetState, IInv, TypeOK, OwnSandbox, Fits,
    Container, managerVars, localVars, reaperVars, worldVars, ghosts, overlaps
-----------------------------------------------------------------------------
(* Every step of the manager, of the reaper and of the world keeps IInv.   *)
LEMMA StepPreserves == IInv /\ [Next]_vars => IInv'
<1> SUFFICES ASSUME IInv, [Next]_vars
             PROVE  IInv'
  OBVIOUS
<1>1. ASSUME NEW t \in Callers, NEW call \in Calls[t], Begin(t, call[1], call[2])
      PROVE  IInv'
  BY <1>1, BeginKeepsIInv
<1>2. ASSUME NEW t \in Callers, Serve(t)
      PROVE  IInv'
  BY <1>2, EnsureKeepsIInv, CreateKeepsIInv, DeleteKeepsIInv DEF Serve, Threads
<1>3. CASE Reap
  BY <1>3, ReapKeepsIInv
<1>4. CASE TimePasses
  BY <1>4
  DEF TimePasses, IInv, TypeOK, OwnSandbox, Fits, managerVars, localVars,
      reaperVars, ghosts, overlaps
<1>5. ASSUME NEW c \in Containers, LoseContainer(c)
      PROVE  IInv'
  BY <1>5, LoseContainerKeepsIInv
<1>6. CASE Crash
  BY <1>6, CrashKeepsIInv
<1>7. CASE UNCHANGED vars
  BY <1>7
  DEF vars, IInv, TypeOK, OwnSandbox, Fits, managerVars, localVars, reaperVars,
      worldVars, ghosts, overlaps
<1> QED
  BY <1>1, <1>2, <1>3, <1>4, <1>5, <1>6, <1>7 DEF Next

(* The tie between map, threads and containers always holds                *)
(* (manager.go:90-273, 401-453, 497-544).                                  *)
THEOREM InvariantHolds == SafetySpec => []IInv
  BY InitEstablishes, StepPreserves, PTL DEF SafetySpec

(* Nobody is handed the container of another identifier or of a policy     *)
(* that is not configured any more (manager.go:98-129, 413-430).           *)
THEOREM OwnSandboxHolds == SafetySpec => []OwnSandbox
<1>1. IInv => OwnSandbox
  BY DEF IInv
<1> QED
  BY InvariantHolds, <1>1, PTL
-----------------------------------------------------------------------------
(***************************************************************************)
(* What the reaper may count on. As long as the process lives, an          *)
(* identifier is in one of few situations, which follow from who is at     *)
(* work for it.                                                            *)
(***************************************************************************)
AtWork(t, i) == pc[t] \notin Resting /\ want[t] = i

(* The promise has ended, or the record still says that it has not.        *)
Past(c) == lease[c] = 0 \/ lease[c] < clock
RecordOf(c, i) == sandboxes[i] # None /\ sandboxes[i].container = c
Covered(c, i) == RecordOf(c, i) /\ lease[c] <= sandboxes[i].expires

(* t is going to renew the promise or to take the container away.          *)
Handles(t, c, i) ==
  /\ want[t] = i
  /\ \/ pc[t] \in {"inspecting", "starting", "stopping"} /\ held[t] = c
     \/ pc[t] = "dropping" /\ RecordOf(c, i)

(* The daemon has at most one container with a name.                       *)
OneContainer(i) == \A c, d \in Labelled(i) : c = d

(* Without an overlap, one call is at work, or the reaper, or nobody.      *)
OneAtWork(i) ==
  i \notin overlapping =>
    /\ \A t, u \in Callers : AtWork(t, i) /\ AtWork(u, i) => t = u
    /\ ReaperAt(i) => ~Busy(i)

(* Where t is tells then what is recorded, and which containers there are. *)
InOrder(t, i) ==
  /\ pc[t] = "extending" => RecordOf(held[t], i)
  /\ pc[t] \in {"inspecting", "starting"} =>
       sandboxes[i] = [container |-> held[t], expires |-> until[t]]
  /\ pc[t] \in {"finding", "adopting", "stopping", "removing", "planning",
                "creating", "startingNew", "rollback", "recording"} =>
       sandboxes[i] = None
  /\ pc[t] \in {"adopting", "startingNew", "recording"} =>
       \A c \in Labelled(i) : c = held[t]

AloneInOrder(i) ==
  i \notin overlapping => \A t \in Callers : AtWork(t, i) => InOrder(t, i)

LeasesCovered(i) ==
  i \notin disturbed =>
    \A c \in Labelled(i) :
      Past(c) \/ Covered(c, i) \/ \E t \in Callers : Handles(t, c, i)

(* The reaper goes by the label only when there is no record.              *)
LooksForLabel == pc[Reaper] = "finding" /\ finder[Reaper] = "ReapOnce"
ReaperRight(i) ==
  i \notin disturbed /\ ReaperAt(i) =>
    /\ LooksForLabel => sandboxes[i] = None
    /\ ~LooksForLabel => \A c \in Labelled(i) : lease[c] < clock

Kept(i) == /\ OneContainer(i) /\ OneAtWork(i) /\ AloneInOrder(i)
           /\ LeasesCovered(i) /\ ReaperRight(i)

(* The reaper goes where ReapOnce and Delete lead, and nowhere else, and   *)
(* nobody else goes there.                                                 *)
Routine ==
  /\ pc[Reaper] \in {"resting", "listing", "picking", "finding", "dropping",
                     "stopping", "removing"}
  /\ pc[Reaper] = "finding" => finder[Reaper] # "Ensure"
  /\ pc[Reaper] \in {"finding", "dropping", "stopping", "removing"} =>
       then[Reaper] = "picking"
  /\ pc[Reaper] \in {"stopping", "removing"} =>
       held[Reaper] \in Containers
         /\ container[held[Reaper]].identifier = want[Reaper]
  /\ \A t \in Callers : finder[t] # "ReapOnce" /\ then[t] # "picking"

(* No container was made by another process, and none was promised before  *)
(* it was made.                                                            *)
Homemade ==
  \A c \in Containers :
    /\ container[c].state = "unused" => lease[c] = 0
    /\ container[c].state # "unused" => container[c].policy = policy

LeaseInv ==
  /\ IInv
  /\ Routine
  /\ Homemade
  /\ now <= clock
  /\ overlapping \subseteq disturbed
  /\ \A i \in Identifiers : Kept(i)
-----------------------------------------------------------------------------
(* Containers of j may be removed, or have their promise ended.            *)
Fewer(j) == \A c \in Labelled(j)' : c \in Labelled(j) /\ lease'[c] \in {lease[c], 0}

(* More does not change for an identifier that a step is not about.        *)
LEMMA OthersKept ==
  ASSUME IInv, IInv', NEW j \in Identifiers, Kept(j), clock <= clock',
         sandboxes'[j] = sandboxes[j], Fewer(j),
         j \in overlapping' <=> j \in overlapping,
         j \in disturbed' <=> j \in disturbed,
         \A t \in Callers :
           \/ /\ pc'[t] = pc[t] /\ want'[t] = want[t]
              /\ held'[t] = held[t] /\ until'[t] = until[t]
           \/ ~AtWork(t, j) /\ ~AtWork(t, j)',
         ReaperAt(j)' => ReaperAt(j) /\ (LooksForLabel' <=> LooksForLabel)
  PROVE  Kept(j)'
<1>1. ASSUME NEW t \in Callers
      PROVE  /\ AtWork(t, j)' <=> AtWork(t, j)
             /\ AtWork(t, j) => /\ pc'[t] = pc[t] /\ held'[t] = held[t]
                                /\ until'[t] = until[t]
  BY DEF AtWork
<1>2. OneAtWork(j)'
  BY <1>1 DEF Kept, OneAtWork, Busy, AtWork
<1>3. AloneInOrder(j)'
  BY <1>1 DEF Kept, AloneInOrder, InOrder, RecordOf, Fewer
<1>4. ASSUME NEW c, NEW t \in Callers, Handles(t, c, j)
      PROVE  Handles(t, c, j)'
  <2>1. AtWork(t, j)
    BY <1>4 DEF Handles, AtWork, Resting, Ended
  <2> QED
    BY <1>1, <1>4, <2>1 DEF Handles, AtWork, RecordOf
<1>5. ASSUME NEW c \in Labelled(j)'
      PROVE  /\ c \in Labelled(j)
             /\ lease[c] \in Nat /\ lease'[c] \in {lease[c], 0}
             /\ clock \in Nat /\ clock' \in Nat
             /\ sandboxes[j] # None => sandboxes[j].expires \in Nat
  BY DEF Fewer, Labelled, IInv, TypeOK, Sandbox
<1>6. LeasesCovered(j)'
  <2> SUFFICES ASSUME j \notin disturbed, NEW c \in Labelled(j)'
               PROVE  Past(c)' \/ Covered(c, j)'
                        \/ \E t \in Callers : Handles(t, c, j)'
    BY DEF LeasesCovered
  <2>1. Past(c) => Past(c)'
    BY <1>5 DEF Past
  <2>2. Covered(c, j) => Covered(c, j)'
    BY <1>5 DEF Covered, RecordOf
  <2> QED BY <1>4, <1>5, <2>1, <2>2 DEF Kept, LeasesCovered
<1>7. ReaperRight(j)'
  <2> SUFFICES ASSUME j \notin disturbed, ReaperAt(j)'
               PROVE  /\ LooksForLabel' => sandboxes'[j] = None
                      /\ ~LooksForLabel' =>
                           \A c \in Labelled(j)' : lease'[c] < clock'
    BY DEF ReaperRight
  <2>1. ASSUME ~LooksForLabel, NEW c \in Labelled(j)'
        PROVE  lease'[c] < clock'
    BY <1>5, <2>1 DEF Kept, ReaperRight
  <2> QED BY <2>1 DEF Kept, ReaperRight
<1>8. OneContainer(j)'
  BY DEF Kept, OneContainer, Fewer
<1> QED BY <1>2, <1>3, <1>6, <1>7, <1>8 DEF Kept

(* A step of a request that is at work changes nothing but its own         *)
(* identifier's affairs, and if it is alone it leaves them in order.       *)
Works(t, i) ==
  /\ want[t] = i /\ pc[t] \notin Resting
  /\ \A u \in Threads \ {t} :
       /\ pc'[u] = pc[u] /\ held'[u] = held[u] /\ until'[u] = until[u]
       /\ finder'[u] = finder[u] /\ then'[u] = then[u]
  /\ finder'[t] # "ReapOnce" /\ then'[t] # "picking"
  /\ UNCHANGED <<want, now, clock, policy>>
  /\ \A j \in Identifiers \ {i} : sandboxes'[j] = sandboxes[j]
  /\ overlapping' = overlapping
  /\ \/ disturbed' = disturbed
     \/ i \notin overlapping /\ disturbed' = disturbed \ {i}

Tidy(i) ==
  /\ OneContainer(i)'
  /\ Homemade'
  /\ \A j \in Identifiers \ {i} : Fewer(j)
  /\ \A c \in Containers : container[c].state # "unused" =>
       container'[c].identifier = container[c].identifier

KeepsOrder(t, i) ==
  i \notin overlapping /\ InOrder(t, i) =>
    /\ pc'[t] \notin Resting => InOrder(t, i)'
    /\ /\ i \notin disturbed'
       /\ \/ i \in disturbed
          \/ \A c \in Labelled(i) : Past(c) \/ Covered(c, i) \/ Handles(t, c, i)
       => \A c \in Labelled(i)' : Past(c)' \/ Covered(c, i)' \/ Handles(t, c, i)'

(* So the promises stay in order.                                          *)
LEMMA WorkKeepsLeaseInv ==
  ASSUME LeaseInv, IInv', NEW t \in Callers, NEW i \in Identifiers,
         Works(t, i), Tidy(i), KeepsOrder(t, i)
  PROVE  LeaseInv'
<1>1. /\ i = want[t] /\ AtWork(t, i) /\ Busy(i)
      /\ t # Reaper /\ t \in Threads /\ Reaper \in Threads
  BY ThreadsAssumption DEF Works, AtWork, Busy, Threads
<1>2. /\ pc'[Reaper] = pc[Reaper] /\ want' = want /\ then'[Reaper] = then[Reaper]
      /\ held'[Reaper] = held[Reaper] /\ finder'[Reaper] = finder[Reaper]
      /\ overlapping' = overlapping
      /\ \A j \in Identifiers : ReaperAt(j)' <=> ReaperAt(j)
      /\ LooksForLabel' <=> LooksForLabel
  BY <1>1 DEF Works, ReaperAt, LooksForLabel
<1>3. ASSUME NEW j \in Identifiers \ {i}
      PROVE  Kept(j)'
  <2>1. \A u \in Callers :
          u = t \/ (pc'[u] = pc[u] /\ held'[u] = held[u] /\ until'[u] = until[u])
    BY DEF Works, Threads
  <2>2. ~AtWork(t, j) /\ ~AtWork(t, j)'
    BY <1>1, <1>2 DEF AtWork
  <2>3. Kept(j) /\ clock' = clock /\ clock <= clock'
    BY DEF LeaseInv, Works, IInv, TypeOK
  <2>4. (j \in disturbed' <=> j \in disturbed) /\ sandboxes'[j] = sandboxes[j]
    BY <1>1 DEF Works
  <2>5. Fewer(j)
    BY DEF Tidy
  <2> QED
    BY <1>2, <2>1, <2>2, <2>3, <2>4, <2>5, OthersKept DEF LeaseInv
<1>4. Kept(i) /\ overlapping \subseteq disturbed
  BY <1>1 DEF LeaseInv
<1>5. ASSUME NEW u \in Callers, AtWork(u, i)'
      PROVE  AtWork(u, i)
  BY <1>1, <1>2, <1>5 DEF AtWork, Works, Threads
<1>6. OneAtWork(i)'
  BY <1>1, <1>2, <1>4, <1>5 DEF Kept, OneAtWork, Busy, AtWork
<1>7. ASSUME i \notin overlapping
      PROVE  /\ ~ReaperAt(i)
             /\ InOrder(t, i)
             /\ \A u \in Callers : AtWork(u, i) => u = t
  BY <1>1, <1>4, <1>7 DEF Kept, OneAtWork, AloneInOrder
<1>8. AloneInOrder(i)'
  <2> SUFFICES ASSUME i \notin overlapping, NEW u \in Callers, AtWork(u, i)'
               PROVE  InOrder(u, i)'
    BY <1>2 DEF AloneInOrder
  <2>1. u = t
    BY <1>5, <1>7
  <2> QED
    BY <1>1, <1>7, <2>1 DEF KeepsOrder, AtWork
<1>9. i \notin disturbed' => i \notin overlapping
  BY <1>1, <1>4 DEF Works
<1>10. ReaperRight(i)'
  BY <1>2, <1>7, <1>9, <1>1 DEF ReaperRight
<1>11. LeasesCovered(i)'
  <2> SUFFICES ASSUME i \notin disturbed'
               PROVE  \A c \in Labelled(i)' :
                        Past(c)' \/ Covered(c, i)' \/ Handles(t, c, i)'
    BY DEF LeasesCovered
  <2>1. ASSUME NEW u \in Callers, NEW c, Handles(u, c, i)
        PROVE  u = t
    BY <1>7, <1>9, <2>1 DEF Handles, AtWork, Resting, Ended
  <2>2. \/ i \in disturbed
        \/ \A c \in Labelled(i) : Past(c) \/ Covered(c, i) \/ Handles(t, c, i)
    BY <1>4, <2>1 DEF Kept, LeasesCovered
  <2> QED
    BY <1>1, <1>7, <1>9, <2>2 DEF KeepsOrder
<1>12. \A j \in Identifiers : Kept(j)'
  BY <1>3, <1>6, <1>8, <1>10, <1>11 DEF Kept, Tidy
<1>13. Routine'
  <2>1. pc[Reaper] \in {"stopping", "removing"} =>
          /\ held[Reaper] \in Containers
          /\ container[held[Reaper]].state # "unused"
    BY <1>1, NoneAssumption
    DEF LeaseInv, Routine, IInv, Resting, Ended
  <2> QED
    BY <1>1, <1>2, <2>1 DEF LeaseInv, Routine, Tidy, Works, Threads
<1>14. now' <= clock' /\ overlapping' \subseteq disturbed' /\ Homemade'
  BY <1>1 DEF LeaseInv, Works, Tidy
<1> QED BY <1>12, <1>13, <1>14 DEF LeaseInv
-----------------------------------------------------------------------------
(* Containers stop, start and go, but only create makes one.               *)
NoneAppears ==
  \A c \in Containers :
    /\ container'[c].identifier = container[c].identifier
    /\ container'[c].policy = container[c].policy
    /\ container'[c].state = "unused" <=> container[c].state = "unused"
    /\ Exists(c)' => Exists(c)

(* A change of a container's state makes none.                             *)
LEMMA StatesChange ==
  ASSUME IInv, NEW k,
         \/ UNCHANGED container
         \/ /\ Exists(k)
            /\ \E state \in {"stopped", "running", "removed"} : SetState(k, state)
  PROVE  NoneAppears
<1>1. CASE UNCHANGED container
  BY <1>1 DEF NoneAppears, Exists
<1>2. ASSUME Exists(k), NEW state \in {"stopped", "running", "removed"},
             SetState(k, state)
      PROVE  NoneAppears
  <2>1. k \in Containers /\ container[k] \in Container
    BY <1>2 DEF IInv, TypeOK, Exists
  <2>2. /\ [container[k] EXCEPT !.state = state].identifier =
             container[k].identifier
        /\ [container[k] EXCEPT !.state = state].policy = container[k].policy
        /\ [container[k] EXCEPT !.state = state].state = state
    BY <2>1 DEF Container
  <2>3. container' =
          [container EXCEPT ![k] = [container[k] EXCEPT !.state = state]]
    BY <1>2 DEF SetState
  <2>4. \A c \in Containers :
          container'[c] = IF c = k THEN [container[k] EXCEPT !.state = state]
                                   ELSE container[c]
    BY <2>3 DEF IInv, TypeOK
  <2>5. ASSUME NEW c \in Containers
        PROVE  /\ container'[c].identifier = container[c].identifier
               /\ container'[c].policy = container[c].policy
               /\ container'[c].state = "unused" <=> container[c].state = "unused"
    BY <1>2, <2>2, <2>4 DEF Exists
  <2>6. ASSUME NEW c \in Containers, Exists(c)' PROVE Exists(c)
    BY <1>2, <2>4, <2>6 DEF Exists
  <2> QED BY <2>5, <2>6 DEF NoneAppears
<1> QED BY <1>1, <1>2

(* Then nobody has a container that it did not have.                       *)
LEMMA NoneAppearsToAnyone ==
  ASSUME NoneAppears, NEW i \in Identifiers
  PROVE  \A c \in Labelled(i)' : c \in Labelled(i)
BY DEF NoneAppears, Labelled

(* And a step that only makes a promise of the identifier's own container  *)
(* leaves those of the others alone.                                       *)
LEMMA TidyWhenNoneAppears ==
  ASSUME LeaseInv, NoneAppears, NEW i \in Identifiers, policy' = policy,
         \A c \in Containers :
           lease'[c] \in {lease[c], 0} \/ container[c].identifier = i
  PROVE  Tidy(i)
<1>1. \A j \in Identifiers : \A c \in Labelled(j)' : c \in Labelled(j)
  BY NoneAppearsToAnyone
<1>2. OneContainer(i)'
  BY <1>1 DEF LeaseInv, Kept, OneContainer
<1>3. ASSUME NEW j \in Identifiers \ {i}, NEW c \in Labelled(j)'
      PROVE  lease'[c] \in {lease[c], 0}
  <2>1. c \in Containers /\ container[c].identifier = j
    BY <1>1 DEF Labelled
  <2> QED BY <2>1
<1>4. ASSUME NEW c \in Containers, container[c].state = "unused"
      PROVE  lease'[c] = 0
  <2>1. container[c].identifier = None /\ lease[c] = 0
    BY <1>4 DEF LeaseInv, IInv, Homemade
  <2> QED BY <2>1, NoneAssumption
<1>5. Homemade'
  BY <1>4 DEF LeaseInv, Homemade, NoneAppears
<1> QED BY <1>1, <1>2, <1>3, <1>5 DEF Tidy, Fewer, NoneAppears

(* The steps of a request other than the creation.                         *)
LEMMA ServeTidies ==
  ASSUME LeaseInv, NEW t \in Callers, NEW i \in Identifiers, want[t] = i,
         \/ Lookup(t) \/ Extend(t) \/ EnsureRunning(t) \/ Adopt(t)
         \/ Delete(t) \/ (Create(t) /\ ~CreateContainer(t))
  PROVE  NoneAppears /\ Tidy(i)
<1>1. \/ UNCHANGED container
      \/ /\ Exists(held[t])
         /\ \E state \in {"stopped", "running", "removed"} :
              SetState(held[t], state)
  BY DEF Lookup, Extend, EnsureRunning, InspectRunning, InspectStopped, StartOld,
         NotRunning, Adopt, Delete, Drop, Find, FindFails, FindNothing,
         FindOutdated, FindOurs, Stop, Remove, Create, Plan, CreateFails,
         StartNew, StartNewFails, Rollback, Record
<1>2. NoneAppears
  BY <1>1, StatesChange DEF LeaseInv
<1>3. policy' = policy
  BY DEF Lookup, Extend, EnsureRunning, InspectRunning, InspectStopped, StartOld,
         NotRunning, Adopt, Delete, Drop, Find, FindFails, FindNothing,
         FindOutdated, FindOurs, Stop, Remove, Create, Plan, CreateFails,
         StartNew, StartNewFails, Rollback, Record, managerVars
<1>4. \/ UNCHANGED lease
      \/ lease' = [lease EXCEPT ![held[t]] = 0]
      \/ lease' = [lease EXCEPT ![held[t]] = until[t]] /\ Fits(held[t], i)
  BY DEF Lookup, Extend, EnsureRunning, InspectRunning, InspectStopped, StartOld,
         NotRunning, Adopt, Delete, Drop, Find, FindFails, FindNothing,
         FindOutdated, FindOurs, Stop, Remove, Create, Plan, CreateFails,
         StartNew, StartNewFails, Rollback, Record, Return, Goto, ghosts,
         LeaseInv, IInv, OwnSandbox
<1>5. \A c \in Containers :
        lease'[c] \in {lease[c], 0} \/ container[c].identifier = i
  BY <1>4 DEF LeaseInv, IInv, TypeOK, Fits
<1> QED BY <1>2, <1>3, <1>5, TidyWhenNoneAppears

(* A request that looks up, extends, inspects, starts and adopts: what it  *)
(* finds recorded it gives a new expiry, and by the time that it returns   *)
(* the record says what it promises (manager.go:98-129, 168-189).          *)
LEMMA EnsureWorks ==
  ASSUME LeaseInv, NEW t \in Callers, NEW i \in Identifiers, want[t] = i,
         NoneAppears,
         Lookup(t) \/ Extend(t) \/ EnsureRunning(t) \/ Adopt(t)
  PROVE  Works(t, i) /\ KeepsOrder(t, i)
<1> USE ThreadsAssumption, NoneAssumption
    DEF LeaseInv, Routine, IInv, TypeOK, Threads, Resting, Ended, Goto, localVars,
        reaperVars, worldVars, managerVars, overlaps, ghosts, RecordOf, Sandbox
<1>0. \A c \in Labelled(i)' : c \in Labelled(i)
  BY NoneAppearsToAnyone
<1>1. CASE Lookup(t)
  <2>1. Works(t, i) BY <1>1 DEF Lookup, Works
  <2>2. KeepsOrder(t, i)
    BY <1>0, <1>1 DEF Lookup, KeepsOrder, InOrder, Past, Covered, Handles
  <2> QED BY <2>1, <2>2
<1>2. CASE Extend(t)
  <2>1. Works(t, i) BY <1>2 DEF Extend, Works
  <2>2. KeepsOrder(t, i)
    BY <1>0, <1>2, TTLAssumption
    DEF Extend, KeepsOrder, InOrder, Past, Covered, Handles
  <2> QED BY <2>1, <2>2
<1>3. CASE InspectRunning(t) \/ StartOld(t)
  <2>1. Works(t, i)
    BY <1>3 DEF InspectRunning, StartOld, Return, Works
  <2>2. /\ pc[t] \in {"inspecting", "starting"} /\ held[t] \in Labelled(i)
        /\ lease' = [lease EXCEPT ![held[t]] = until[t]]
        /\ pc'[t] = "returned" /\ UNCHANGED <<sandboxes, held, until>>
    BY <1>3
    DEF InspectRunning, StartOld, Return, OwnSandbox, Fits, Labelled, Exists
  <2>3. \A c \in Labelled(i)' : c = held[t]
    BY <1>0, <2>2 DEF Kept, OneContainer
  <2>4. InOrder(t, i) => \A c \in Labelled(i)' : Covered(c, i)'
    BY <2>2, <2>3 DEF InOrder, Covered, Labelled
  <2>5. KeepsOrder(t, i)
    BY <2>2, <2>4 DEF KeepsOrder
  <2> QED BY <2>1, <2>5
<1>4. CASE InspectStopped(t)
  <2>1. Works(t, i) BY <1>4 DEF InspectStopped, Works
  <2>2. KeepsOrder(t, i)
    BY <1>0, <1>4 DEF InspectStopped, KeepsOrder, InOrder, Past, Covered, Handles
  <2> QED BY <2>1, <2>2
<1>5. CASE NotRunning(t)
  <2>1. Works(t, i) BY <1>5 DEF NotRunning, Works
  <2>2. [container |-> held[t], expires |-> until[t]] # None
    BY <1>5 DEF NotRunning, OwnSandbox, Fits
  <2>3. KeepsOrder(t, i)
    BY <1>0, <1>5, <2>2
    DEF NotRunning, KeepsOrder, InOrder, Past, Covered, Handles
  <2> QED BY <2>1, <2>3
<1>6. CASE Adopt(t)
  <2>1. Works(t, i) BY <1>6 DEF Adopt, Works
  <2>2. /\ pc[t] = "adopting" /\ pc'[t] = "extending"
        /\ UNCHANGED <<lease, clock, held, disturbed>>
        /\ sandboxes'[i] =
             [container |-> held[t], expires |-> container[held[t]].expires]
    BY <1>6 DEF Adopt
  <2>3. sandboxes'[i] # None
    BY <1>6, <2>2 DEF OwnSandbox, Fits, Container
  <2>4. InOrder(t, i)'
    BY <2>2, <2>3 DEF InOrder
  <2>5. InOrder(t, i) =>
          \A c \in Labelled(i) : ~Covered(c, i) /\ ~Handles(t, c, i)
    BY <2>2 DEF InOrder, Covered, Handles
  <2>6. KeepsOrder(t, i)
    BY <1>0, <2>2, <2>4, <2>5 DEF KeepsOrder, Past
  <2> QED BY <2>1, <2>6
<1> QED BY <1>1, <1>2, <1>3, <1>4, <1>5, <1>6 DEF EnsureRunning

(* The search leaves the record alone, and finds the only container there  *)
(* is (manager.go:401-453).                                                *)
LEMMA FindWorks ==
  ASSUME LeaseInv, NEW t \in Callers, NEW i \in Identifiers, want[t] = i,
         NoneAppears, Find(t)
  PROVE  Works(t, i) /\ KeepsOrder(t, i)
<1> USE ThreadsAssumption
    DEF LeaseInv, Routine, IInv, TypeOK, Threads, Resting, Ended, Goto, localVars,
        reaperVars, worldVars, managerVars, overlaps, ghosts
<1>1. Works(t, i)
  <2>1. CASE FindFails(t)
    BY <2>1 DEF FindFails, Works
  <2>2. CASE FindNothing(t)
    BY <2>2 DEF FindNothing, Works
  <2>3. CASE FindOutdated(t)
    BY <2>3 DEF FindOutdated, Works
  <2>4. CASE FindOurs(t)
    BY <2>4 DEF FindOurs, Works
  <2> QED BY <2>1, <2>2, <2>3, <2>4 DEF Find
<1>2. /\ pc[t] = "finding" /\ UNCHANGED <<sandboxes, lease, clock, disturbed>>
      /\ pc'[t] \in {"failed", "returned", "finding", "planning", "stopping",
                     "adopting"}
  BY DEF Find, FindFails, FindNothing, FindOutdated, FindOurs
<1>3. pc'[t] = "adopting" => \A c \in Labelled(i) : c = held'[t]
  BY DEF Find, FindFails, FindNothing, FindOutdated, FindOurs, Kept, OneContainer
<1>4. \A c \in Labelled(i)' : c \in Labelled(i)
  BY NoneAppearsToAnyone
<1>5. InOrder(t, i) => InOrder(t, i)'
  BY <1>2, <1>3, <1>4 DEF InOrder
<1>6. InOrder(t, i) =>
        \A c \in Labelled(i) : ~Covered(c, i) /\ ~Handles(t, c, i)
  BY <1>2 DEF InOrder, Covered, RecordOf, Handles
<1>7. KeepsOrder(t, i)
  BY <1>2, <1>4, <1>5, <1>6 DEF KeepsOrder, Past
<1> QED BY <1>1, <1>7

(* The deletion takes the record first, and the promise before the         *)
(* container (manager.go:132-161).                                         *)
LEMMA DeleteWorks ==
  ASSUME LeaseInv, NEW t \in Callers, NEW i \in Identifiers, want[t] = i,
         NoneAppears, Delete(t)
  PROVE  Works(t, i) /\ KeepsOrder(t, i)
<1> USE ThreadsAssumption
    DEF LeaseInv, Routine, IInv, TypeOK, Threads, Resting, Ended, Goto, localVars,
        reaperVars, worldVars, managerVars, overlaps, ghosts, RecordOf
<1>0. \A c \in Labelled(i)' : c \in Labelled(i)
  BY NoneAppearsToAnyone
<1>1. CASE Drop(t)
  <2>1. Works(t, i) BY <1>1 DEF Drop, Works
  <2>2. KeepsOrder(t, i)
    BY <1>0, <1>1 DEF Drop, KeepsOrder, InOrder, Past, Covered, Handles
  <2> QED BY <2>1, <2>2
<1>2. CASE Find(t)
  BY <1>2, FindWorks
<1>3. CASE Stop(t)
  <2>1. Works(t, i) BY <1>3 DEF Stop, Works
  <2>2. /\ pc[t] = "stopping" /\ pc'[t] = "removing"
        /\ UNCHANGED <<sandboxes, clock, disturbed>>
        /\ lease' = [lease EXCEPT ![held[t]] = 0]
    BY <1>3 DEF Stop
  <2>3. InOrder(t, i) => InOrder(t, i)' /\ sandboxes[i] = None
    BY <2>2 DEF InOrder
  <2>4. ASSUME NEW c \in Labelled(i), Past(c) \/ Handles(t, c, i)
        PROVE  Past(c)'
    BY <2>2, <2>4 DEF Past, Handles, Labelled
  <2>5. KeepsOrder(t, i)
    BY <1>0, <2>2, <2>3, <2>4 DEF KeepsOrder, Covered
  <2> QED BY <2>1, <2>5
<1>4. CASE Remove(t)
  <2>1. Works(t, i) BY <1>4 DEF Remove, Works
  <2>2. /\ pc[t] = "removing" /\ pc'[t] \in {"returned", "finding", "planning"}
        /\ UNCHANGED <<sandboxes, clock, disturbed, lease>>
    BY <1>4 DEF Remove
  <2>3. InOrder(t, i) => InOrder(t, i)' /\ sandboxes[i] = None
    BY <2>2 DEF InOrder
  <2>4. KeepsOrder(t, i)
    BY <1>0, <2>2, <2>3 DEF KeepsOrder, Covered, Past, Handles
  <2> QED BY <2>1, <2>4
<1> QED BY <1>1, <1>2, <1>3, <1>4 DEF Delete

(* What is created is recorded before anything is promised of it           *)
(* (manager.go:191-273).                                                   *)
LEMMA CreateWorks ==
  ASSUME LeaseInv, NEW t \in Callers, NEW i \in Identifiers, want[t] = i,
         NoneAppears, Create(t), ~CreateContainer(t)
  PROVE  Works(t, i) /\ KeepsOrder(t, i)
<1> USE ThreadsAssumption, NoneAssumption
    DEF LeaseInv, Routine, IInv, TypeOK, Threads, Resting, Ended, Goto, localVars,
        reaperVars, worldVars, managerVars, overlaps, ghosts, RecordOf
<1>0. \A c \in Labelled(i)' : c \in Labelled(i)
  BY NoneAppearsToAnyone
<1>1. CASE Plan(t)
  <2>1. Works(t, i) BY <1>1 DEF Plan, Works
  <2>2. KeepsOrder(t, i)
    BY <1>0, <1>1 DEF Plan, KeepsOrder, InOrder, Past, Covered, Handles
  <2> QED BY <2>1, <2>2
<1>2. CASE CreateFails(t)
  <2>1. Works(t, i) BY <1>2 DEF CreateFails, Works
  <2>2. KeepsOrder(t, i)
    BY <1>0, <1>2 DEF CreateFails, KeepsOrder, InOrder, Past, Covered, Handles
  <2> QED BY <2>1, <2>2
<1>3. CASE StartNew(t)
  <2>1. Works(t, i) BY <1>3 DEF StartNew, Works
  <2>2. KeepsOrder(t, i)
    BY <1>0, <1>3 DEF StartNew, KeepsOrder, InOrder, Past, Covered, Handles
  <2> QED BY <2>1, <2>2
<1>4. CASE StartNewFails(t)
  <2>1. Works(t, i) BY <1>4 DEF StartNewFails, Works
  <2>2. KeepsOrder(t, i)
    BY <1>0, <1>4 DEF StartNewFails, KeepsOrder, InOrder, Past, Covered, Handles
  <2> QED BY <2>1, <2>2
<1>5. CASE Rollback(t)
  <2>1. Works(t, i) BY <1>5 DEF Rollback, Works
  <2>2. KeepsOrder(t, i)
    BY <1>0, <1>5 DEF Rollback, KeepsOrder, InOrder, Past, Covered, Handles
  <2> QED BY <2>1, <2>2
<1>6. CASE Record(t)
  <2>1. Works(t, i)
    BY <1>6 DEF Record, Return, Works
  <2>2. /\ pc[t] = "recording" /\ pc'[t] = "returned"
        /\ lease' = [lease EXCEPT ![held[t]] = until[t]]
        /\ sandboxes'[i] = [container |-> held[t], expires |-> until[t]]
        /\ held[t] \in Containers
    BY <1>6 DEF Record, Return, OwnSandbox, Fits
  <2>3. InOrder(t, i) => \A c \in Labelled(i)' : Covered(c, i)'
    BY <1>0, <2>2 DEF InOrder, Covered, Labelled
  <2>4. KeepsOrder(t, i)
    BY <2>2, <2>3 DEF KeepsOrder
  <2> QED BY <2>1, <2>4
<1> QED BY <1>1, <1>2, <1>3, <1>4, <1>5, <1>6 DEF Create

(* A container is only made when there is none, and nothing was promised   *)
(* of it before (manager.go:214-238).                                      *)
LEMMA CreateContainerWorks ==
  ASSUME LeaseInv, NEW t \in Callers, NEW i \in Identifiers, want[t] = i,
         CreateContainer(t)
  PROVE  Works(t, i) /\ Tidy(i) /\ KeepsOrder(t, i)
<1>1. PICK c \in Containers :
         /\ container[c].state = "unused"
         /\ container' = [container EXCEPT ![c] =
              [identifier |-> i, state |-> "stopped",
               expires |-> until[t], policy |-> policy]]
         /\ held' = [held EXCEPT ![t] = c]
  BY DEF CreateContainer
<1>2. /\ Labelled(i) = {} /\ pc[t] = "creating"
      /\ pc' = [pc EXCEPT ![t] = "startingNew"]
      /\ UNCHANGED <<sandboxes, policy, want, until, finder, then, clock, now,
                     lease, overlapping, disturbed>>
  BY DEF CreateContainer, Goto, managerVars, reaperVars, worldVars, ghosts, overlaps
<1>3. /\ \A d \in Containers \ {c} : container'[d] = container[d]
      /\ container'[c].identifier = i /\ container'[c].state = "stopped"
      /\ container'[c].policy = policy
      /\ held'[t] = c /\ \A u \in Threads \ {t} : held'[u] = held[u]
      /\ lease[c] = 0
  BY <1>1 DEF LeaseInv, Homemade, IInv, TypeOK, Threads
<1>4. \A d \in Labelled(i)' : d = c
  BY <1>2, <1>3 DEF Labelled, Exists
<1>5. ASSUME NEW j \in Identifiers \ {i} PROVE \A d \in Labelled(j)' : d \in Labelled(j)
  BY <1>3 DEF Labelled, Exists
<1>6. Tidy(i)
  <2>1. OneContainer(i)'
    BY <1>4 DEF OneContainer
  <2>2. Homemade'
    BY <1>2, <1>3 DEF LeaseInv, Homemade
  <2>3. \A d \in Containers : container[d].state # "unused" =>
          container'[d].identifier = container[d].identifier
    BY <1>1, <1>3
  <2> QED BY <1>2, <1>5, <2>1, <2>2, <2>3 DEF Tidy, Fewer
<1>7. Works(t, i)
  BY <1>2, <1>3
  DEF Works, LeaseInv, Routine, IInv, TypeOK, Threads, Resting, Ended
<1>8. InOrder(t, i) => InOrder(t, i)'
  BY <1>2, <1>3, <1>4 DEF InOrder, LeaseInv, IInv, TypeOK, Threads
<1>9. \A d \in Labelled(i)' : Past(d)'
  BY <1>2, <1>3, <1>4 DEF Past
<1>10. KeepsOrder(t, i)
  BY <1>8, <1>9 DEF KeepsOrder
<1> QED BY <1>6, <1>7, <1>10

(* Every step of a request leaves the promises in order.                   *)
LEMMA ServeKeepsLeaseInv ==
  ASSUME LeaseInv, IInv', NEW t \in Callers, Serve(t)
  PROVE  LeaseInv'
<1>1. PICK i \in Identifiers : want[t] = i
  BY DEF LeaseInv, IInv, Threads, Resting, Ended, Serve, Lookup, Extend,
         EnsureRunning, InspectRunning, InspectStopped, StartOld, NotRunning,
         Adopt, Create, Plan, CreateContainer, CreateFails, StartNew,
         StartNewFails, Rollback, Record, Delete, Drop, Stop, Remove, Find,
         FindFails, FindNothing, FindOutdated, FindOurs, Return, Goto
<1>2. CASE CreateContainer(t)
  BY <1>1, <1>2, CreateContainerWorks, WorkKeepsLeaseInv
<1>3. CASE ~CreateContainer(t)
  <2>1. NoneAppears /\ Tidy(i)
    BY <1>1, <1>3, ServeTidies DEF Serve
  <2>2. Works(t, i) /\ KeepsOrder(t, i)
    BY <1>1, <1>3, <2>1, EnsureWorks, CreateWorks, DeleteWorks DEF Serve
  <2> QED BY <2>1, <2>2, WorkKeepsLeaseInv
<1> QED BY <1>2, <1>3
-----------------------------------------------------------------------------
(* A call begins alone, or it is noted that it does not.                   *)
LEMMA BeginKeepsLeaseInv ==
  ASSUME LeaseInv, IInv', NEW t \in Callers, NEW op, NEW i \in Identifiers,
         Begin(t, op, i)
  PROVE  LeaseInv'
<1> USE ThreadsAssumption DEF Threads
<1>1. /\ pc[t] = "idle" /\ pc'[t] \in {"lookup", "dropping"} /\ want'[t] = i
      /\ \A u \in Threads \ {t} : pc'[u] = pc[u] /\ want'[u] = want[u]
      /\ UNCHANGED <<held, until, finder, container, sandboxes, policy, lease, clock,
                     now>>
      /\ then'[Reaper] = then[Reaper]
      /\ \A u \in Callers : then[u] # "picking" => then'[u] # "picking"
  BY DEF Begin, Goto, LeaseInv, IInv, TypeOK, managerVars, reaperVars, worldVars
<1>2. /\ ~AtWork(t, i) /\ pc'[Reaper] = pc[Reaper] /\ want'[Reaper] = want[Reaper]
      /\ \A j \in Identifiers : ReaperAt(j)' <=> ReaperAt(j)
      /\ LooksForLabel' <=> LooksForLabel
      /\ \A u \in Callers \ {t}, j \in Identifiers : AtWork(u, j)' <=> AtWork(u, j)
      /\ \A j \in Identifiers : Labelled(j)' = Labelled(j)
  BY <1>1 DEF AtWork, ReaperAt, LooksForLabel, Labelled, Exists, Resting, Ended
<1>3. /\ overlapping' \subseteq disturbed'
      /\ \A j \in Identifiers \ {i} :
           /\ j \in overlapping' <=> j \in overlapping
           /\ j \in disturbed' <=> j \in disturbed
  BY DEF Begin, Overlap, LeaseInv
<1>4. ASSUME NEW j \in Identifiers \ {i}
      PROVE  Kept(j)'
  <2>1. ~AtWork(t, j) /\ ~AtWork(t, j)'
    BY <1>1 DEF AtWork, Resting, Ended
  <2>2. Kept(j) /\ clock <= clock' /\ Fewer(j)
    BY <1>1, <1>2 DEF LeaseInv, IInv, TypeOK, Fewer
  <2> QED
    BY <1>1, <1>2, <1>3, <2>1, <2>2, OthersKept DEF LeaseInv
<1>5. ASSUME i \notin overlapping'
      PROVE  ~Busy(i) /\ ~ReaperAt(i)
  BY <1>5 DEF Begin, Overlap
<1>6. \A u \in Callers : ~Busy(i) => ~AtWork(u, i)
  BY DEF Busy, AtWork
<1>7. OneAtWork(i)' /\ OneContainer(i)'
  BY <1>2, <1>5, <1>6 DEF OneAtWork, OneContainer, LeaseInv, Kept
<1>8. AloneInOrder(i)'
  BY <1>1, <1>2, <1>5, <1>6 DEF AloneInOrder, InOrder
<1>9. LeasesCovered(i)' /\ ReaperRight(i)'
  <2> SUFFICES ASSUME i \notin disturbed' PROVE LeasesCovered(i)' /\ ReaperRight(i)'
    BY DEF LeasesCovered, ReaperRight
  <2>1. i \notin overlapping' /\ i \notin disturbed
    BY <1>3 DEF Begin, Overlap
  <2>2. ASSUME NEW u \in Callers, NEW c PROVE ~Handles(u, c, i)
    BY <1>5, <1>6, <2>1 DEF Handles, AtWork, Resting, Ended
  <2>3. \A c \in Labelled(i) : Past(c) \/ Covered(c, i)
    BY <2>1, <2>2 DEF LeaseInv, Kept, LeasesCovered
  <2>4. \A c \in Labelled(i)' : Past(c)' \/ Covered(c, i)'
    BY <1>1, <1>2, <2>3 DEF Past, Covered, RecordOf
  <2> QED
    BY <1>2, <1>5, <2>1, <2>4 DEF LeasesCovered, ReaperRight
<1>10. Routine' /\ Homemade' /\ now' <= clock'
  BY <1>1, <1>2 DEF LeaseInv, Routine, Homemade
<1> QED BY <1>3, <1>4, <1>7, <1>8, <1>9, <1>10 DEF LeaseInv, Kept

(* The reaper deletes what had expired when it looked, and nobody renews   *)
(* it meanwhile without an overlap (manager.go:132-161, 519-541).          *)
LEMMA ReaperDeletes ==
  ASSUME LeaseInv, IInv', Delete(Reaper)
  PROVE  LeaseInv'
<1> USE ThreadsAssumption DEF Threads
<1>1. PICK i \in Identifiers : want[Reaper] = i
  BY DEF LeaseInv, IInv, Routine, Resting, Ended, Delete, Drop, Find, FindFails,
         FindNothing, FindOutdated, FindOurs, Stop, Remove, Goto
<1>2. NoneAppears
  <2>1. \/ UNCHANGED container
        \/ /\ Exists(held[Reaper])
           /\ \E state \in {"stopped", "running", "removed"} :
                SetState(held[Reaper], state)
    BY DEF Delete, Drop, Find, FindFails, FindNothing, FindOutdated, FindOurs,
           Stop, Remove
  <2> QED BY <2>1, StatesChange DEF LeaseInv
<1>3. /\ UNCHANGED <<want, now, clock, policy, lease, overlapping, disturbed>>
      /\ \A t \in Callers :
           /\ pc'[t] = pc[t] /\ held'[t] = held[t] /\ until'[t] = until[t]
           /\ finder'[t] = finder[t] /\ then'[t] = then[t]
      /\ then'[Reaper] = "picking"
      /\ \A j \in Identifiers \ {i} : sandboxes'[j] = sandboxes[j]
      /\ pc[Reaper] \in {"finding", "dropping", "stopping", "removing"}
      /\ pc'[Reaper] \in {"resting", "picking", "finding", "dropping", "stopping",
                          "removing"}
      /\ pc'[Reaper] = "finding" => finder'[Reaper] = "Delete"
  <2> USE <1>1
      DEF LeaseInv, IInv, TypeOK, Routine, Goto, managerVars, localVars, reaperVars,
          worldVars, overlaps, ghosts
  <2>1. CASE Drop(Reaper)
    BY <2>1 DEF Drop
  <2>2. CASE FindFails(Reaper)
    BY <2>2 DEF FindFails
  <2>3. CASE FindNothing(Reaper)
    BY <2>3 DEF FindNothing
  <2>4. CASE FindOutdated(Reaper)
    BY <2>4 DEF FindOutdated
  <2>5. CASE FindOurs(Reaper)
    BY <2>5 DEF FindOurs
  <2>6. CASE Stop(Reaper)
    BY <2>6 DEF Stop
  <2>7. CASE Remove(Reaper)
    BY <2>7 DEF Remove
  <2> QED BY <2>1, <2>2, <2>3, <2>4, <2>5, <2>6, <2>7 DEF Delete, Find
<1>4. /\ ReaperAt(i) /\ ~LooksForLabel'
      /\ \A j \in Identifiers \ {i} : ~ReaperAt(j)'
      /\ \A t \in Callers, j \in Identifiers : AtWork(t, j)' <=> AtWork(t, j)
      /\ Busy(i)' <=> Busy(i)
      /\ \A j \in Identifiers : \A c \in Labelled(j)' : c \in Labelled(j)
  BY <1>1, <1>2, <1>3, NoneAppearsToAnyone
  DEF ReaperAt, AtWork, Busy, LooksForLabel
<1>5. ASSUME NEW j \in Identifiers \ {i}
      PROVE  Kept(j)'
  <2>1. Kept(j) /\ clock <= clock' /\ Fewer(j)
    BY <1>3, <1>4 DEF LeaseInv, IInv, TypeOK, Fewer
  <2> QED
    BY <1>3, <1>4, <2>1, OthersKept DEF LeaseInv
<1>6. Kept(i) /\ overlapping \subseteq disturbed
  BY DEF LeaseInv
<1>7. OneAtWork(i)' /\ OneContainer(i)'
  BY <1>3, <1>4, <1>6 DEF Kept, OneAtWork, OneContainer
<1>8. AloneInOrder(i)'
  BY <1>3, <1>4, <1>6 DEF Kept, OneAtWork, AloneInOrder, Busy, AtWork
<1>9. ASSUME i \notin disturbed, LooksForLabel
      PROVE  \A c \in Labelled(i) : Past(c)
  <2>1. sandboxes[i] = None /\ ~Busy(i)
    BY <1>4, <1>6, <1>9 DEF Kept, ReaperRight, OneAtWork
  <2>2. \A c \in Labelled(i) :
          ~Covered(c, i) /\ \A t \in Callers : ~Handles(t, c, i)
    BY <2>1 DEF Covered, RecordOf, Handles, Busy, Resting, Ended
  <2> QED BY <1>6, <1>9, <2>2 DEF Kept, LeasesCovered
<1>10. ASSUME LooksForLabel, ReaperAt(i)'
       PROVE  clock > 0
  <2>1. pc'[Reaper] # "picking" /\ pc'[Reaper] # "resting"
    BY <1>10 DEF ReaperAt
  <2>2. ~FindOutdated(Reaper)
    BY DEF FindOutdated, Labelled, Exists, LeaseInv, Homemade
  <2>3. FindOurs(Reaper)
    BY <1>10, <2>1, <2>2
    DEF Delete, Drop, Find, FindFails, FindNothing, Stop, Remove, Goto,
        LooksForLabel, LeaseInv, IInv, TypeOK
  <2>4. PICK c \in Containers : now > container[c].expires
    BY <1>10, <2>1, <2>3
    DEF FindOurs, Goto, Labelled, LooksForLabel, LeaseInv, IInv, TypeOK
  <2>5. container[c].expires \in Nat /\ now \in Nat /\ clock \in Nat /\ now <= clock
    BY DEF LeaseInv, IInv, TypeOK, Container
  <2> QED BY <2>4, <2>5
<1>11. LeasesCovered(i)' /\ ReaperRight(i)'
  <2> SUFFICES ASSUME i \notin disturbed
               PROVE  LeasesCovered(i)' /\ ReaperRight(i)'
    BY <1>3 DEF LeasesCovered, ReaperRight
  <2>1. \A c \in Labelled(i) : Past(c)
    BY <1>4, <1>6, <1>9 DEF Kept, ReaperRight, Past
  <2>2. LeasesCovered(i)'
    BY <1>3, <1>4, <2>1 DEF LeasesCovered, Past
  <2>3. ASSUME ReaperAt(i)', NEW c \in Labelled(i)
        PROVE  lease[c] < clock
    BY <1>4, <1>6, <1>10, <2>1, <2>3 DEF Kept, ReaperRight, Past
  <2>4. ReaperRight(i)'
    BY <1>3, <1>4, <2>3 DEF ReaperRight
  <2> QED BY <2>2, <2>4
<1>12. pc'[Reaper] \in {"stopping", "removing"} =>
         held'[Reaper] \in Containers /\ container[held'[Reaper]].identifier = i
  <2> USE <1>1 DEF LeaseInv, IInv, TypeOK, Routine, Goto, localVars
  <2>1. CASE Drop(Reaper)
    BY <2>1 DEF Drop, OwnSandbox, Fits
  <2>2. CASE FindFails(Reaper) \/ FindNothing(Reaper)
    BY <2>2, <1>3 DEF FindFails, FindNothing
  <2>3. CASE FindOutdated(Reaper) \/ FindOurs(Reaper)
    BY <2>3 DEF FindOutdated, FindOurs, Labelled
  <2>4. CASE Stop(Reaper) \/ Remove(Reaper)
    BY <2>4 DEF Stop, Remove
  <2> QED BY <2>1, <2>2, <2>3, <2>4 DEF Delete, Find
<1>13. Routine' /\ Homemade'
  BY <1>1, <1>2, <1>3, <1>12 DEF LeaseInv, Routine, Homemade, NoneAppears
<1> QED BY <1>3, <1>5, <1>6, <1>7, <1>8, <1>11, <1>13 DEF LeaseInv, Kept

(* The reaper takes what the record says has expired; without a record it  *)
(* looks for the label, and then there is no promise (manager.go:519-532). *)
LEMMA PickKeepsLeaseInv ==
  ASSUME LeaseInv, IInv', NEW i \in Identifiers, Pick, want'[Reaper] = i,
         pc'[Reaper] # "resting"
  PROVE  LeaseInv'
<1> USE ThreadsAssumption DEF Threads
<1>1. /\ UNCHANGED <<sandboxes, policy, container, held, until, now, clock, lease>>
      /\ pc[Reaper] = "picking" /\ then'[Reaper] = "picking"
      /\ \A t \in Callers : /\ pc'[t] = pc[t] /\ want'[t] = want[t]
                            /\ finder'[t] = finder[t] /\ then'[t] = then[t]
      /\ finder'[Reaper] = "ReapOnce"
      /\ pc'[Reaper] = CASE sandboxes[i] = None -> "finding"
                         [] sandboxes[i] # None /\ now > sandboxes[i].expires ->
                              "dropping"
                         [] OTHER -> "picking"
      /\ IF Busy(i) THEN Overlap(i) ELSE UNCHANGED overlaps
  BY DEF LeaseInv, IInv, TypeOK, Pick, Goto, managerVars, worldVars
<1>2. /\ \A t \in Callers, j \in Identifiers : AtWork(t, j)' <=> AtWork(t, j)
      /\ Busy(i)' <=> Busy(i)
      /\ \A j \in Identifiers \ {i} : ~ReaperAt(j)'
      /\ \A j \in Identifiers : Labelled(j)' = Labelled(j)
  BY <1>1 DEF AtWork, Busy, ReaperAt, Labelled, Exists
<1>3. /\ overlapping' \subseteq disturbed'
      /\ i \notin overlapping' => ~Busy(i) /\ i \notin overlapping
      /\ i \notin disturbed' => ~Busy(i) /\ i \notin disturbed
      /\ \A j \in Identifiers \ {i} :
           /\ j \in overlapping' <=> j \in overlapping
           /\ j \in disturbed' <=> j \in disturbed
  BY <1>1 DEF Overlap, overlaps, LeaseInv
<1>4. Routine' /\ Homemade' /\ now' <= clock'
  BY <1>1 DEF LeaseInv, Routine, Homemade
<1>5. ASSUME NEW j \in Identifiers \ {i}
      PROVE  Kept(j)'
  <2>1. Kept(j) /\ clock <= clock' /\ Fewer(j)
    BY <1>1, <1>2 DEF LeaseInv, IInv, TypeOK, Fewer
  <2> QED
    BY <1>1, <1>2, <1>3, <2>1, OthersKept DEF LeaseInv
<1>6. OneAtWork(i)' /\ AloneInOrder(i)' /\ OneContainer(i)'
  BY <1>1, <1>2, <1>3
  DEF OneAtWork, AloneInOrder, OneContainer, Busy, AtWork, LeaseInv, Kept
<1>7. ASSUME i \notin disturbed'
      PROVE  \A c \in Labelled(i) : Past(c) \/ Covered(c, i)
  BY <1>3, <1>7
  DEF LeaseInv, Kept, LeasesCovered, Handles, Busy, Resting, Ended
<1>8. LeasesCovered(i)'
  BY <1>1, <1>2, <1>7 DEF LeasesCovered, Past, Covered, RecordOf
<1>9. ReaperRight(i)'
  <2> SUFFICES ASSUME i \notin disturbed', ReaperAt(i)'
               PROVE  /\ LooksForLabel' => sandboxes[i] = None
                      /\ ~LooksForLabel' =>
                           \A c \in Labelled(i) : lease[c] < clock
    BY <1>1, <1>2 DEF ReaperRight
  <2>1. CASE sandboxes[i] = None
    BY <1>1, <2>1 DEF LooksForLabel
  <2>2. CASE sandboxes[i] # None
    <3>1. now > sandboxes[i].expires /\ ~LooksForLabel'
      BY <1>1, <2>2 DEF LooksForLabel, ReaperAt
    <3>2. sandboxes[i].expires \in Nat /\ now \in Nat /\ clock \in Nat /\ now <= clock
      BY <2>2 DEF LeaseInv, IInv, TypeOK, Sandbox
    <3>3. ASSUME NEW c \in Labelled(i)
          PROVE  lease[c] < clock
      <4>1. lease[c] \in Nat
        BY DEF LeaseInv, IInv, TypeOK, Labelled
      <4>2. CASE Past(c)
        BY <3>1, <3>2, <4>1, <4>2 DEF Past
      <4>3. CASE Covered(c, i)
        BY <3>1, <3>2, <4>1, <4>3 DEF Covered
      <4> QED BY <1>7, <4>2, <4>3
    <3> QED BY <3>1, <3>3
  <2> QED BY <2>1, <2>2
<1> QED BY <1>3, <1>4, <1>5, <1>6, <1>8, <1>9 DEF LeaseInv, Kept

(* The rest of a pass, and what befalls containers and the clock, is       *)
(* nothing to the records.                                                 *)
LEMMA QuietKeepsLeaseInv ==
  ASSUME LeaseInv, IInv', NoneAppears, clock <= clock', now' <= clock',
         UNCHANGED <<sandboxes, policy, want, held, until, finder, then, lease,
                     overlapping, disturbed>>,
         \A t \in Callers : pc'[t] = pc[t],
         \/ pc'[Reaper] = pc[Reaper]
         \/ pc'[Reaper] \in {"resting", "listing", "picking"}
  PROVE  LeaseInv'
<1>1. \A i \in Identifiers : ReaperAt(i)' =>
        ReaperAt(i) /\ pc'[Reaper] = pc[Reaper] /\ finder'[Reaper] = finder[Reaper]
  BY DEF ReaperAt
<1>2. ASSUME NEW j \in Identifiers
      PROVE  Kept(j)'
  <2>1. Kept(j) /\ Fewer(j)
    BY NoneAppearsToAnyone DEF LeaseInv, Fewer
  <2> QED
    BY <1>1, <2>1, OthersKept DEF LeaseInv, LooksForLabel
<1>3. Routine' /\ Homemade'
  BY DEF LeaseInv, Routine, Homemade, NoneAppears
<1> QED BY <1>2, <1>3 DEF LeaseInv

(* A pass begins, fails or ends.                                           *)
LEMMA PassKeepsLeaseInv ==
  ASSUME LeaseInv, IInv',
         Ticker \/ List \/ ListFails \/ (Pick /\ pc'[Reaper] = "resting")
  PROVE  LeaseInv'
<1> USE ThreadsAssumption DEF Threads
<1>1. /\ UNCHANGED <<container, sandboxes, policy, want, held, until, finder, then,
                     lease, overlapping, disturbed, clock>>
      /\ \A t \in Callers : pc'[t] = pc[t]
      /\ pc'[Reaper] \in {"resting", "listing", "picking"}
      /\ now' \in {now, clock}
  BY DEF Ticker, List, ListFails, Pick, Goto, LeaseInv, IInv, TypeOK, managerVars,
         localVars, reaperVars, worldVars, ghosts, overlaps
<1>2. clock <= clock' /\ now' <= clock'
  BY <1>1 DEF LeaseInv, IInv, TypeOK
<1>3. NoneAppears
  BY <1>1 DEF NoneAppears, Exists
<1> QED BY <1>1, <1>2, <1>3, QuietKeepsLeaseInv

(* Time passes, containers exit or are removed.                            *)
LEMMA WorldKeepsLeaseInv ==
  ASSUME LeaseInv, IInv',
         \/ TimePasses
         \/ \E c \in Containers : LoseContainer(c)
         \/ UNCHANGED vars
  PROVE  LeaseInv'
<1>1. UNCHANGED <<sandboxes, policy, want, held, until, finder, then, lease,
                  overlapping, disturbed, pc, now>>
  BY DEF TimePasses, LoseContainer, vars, managerVars, localVars, reaperVars,
         ghosts, overlaps
<1>2. clock' \in {clock, clock + 1}
  BY DEF TimePasses, LoseContainer, vars, worldVars
<1>3. clock <= clock' /\ now' <= clock'
  BY <1>1, <1>2 DEF LeaseInv, IInv, TypeOK
<1>4. CASE \E c \in Containers : LoseContainer(c)
  <2>1. PICK c \in Containers : LoseContainer(c)
    BY <1>4
  <2>2. NoneAppears
    BY <2>1, StatesChange DEF LoseContainer, LeaseInv
  <2> QED BY <1>1, <1>3, <2>2, QuietKeepsLeaseInv
<1>5. CASE UNCHANGED container
  <2>1. NoneAppears
    BY <1>5 DEF NoneAppears, Exists
  <2> QED BY <1>1, <1>3, <2>1, QuietKeepsLeaseInv
<1> QED BY <1>4, <1>5 DEF TimePasses, vars
-----------------------------------------------------------------------------
(* Only a restart counts as one.                                           *)
LEMMA RestartsCounted ==
  ASSUME IInv, [Next]_vars, crashes' = 0
  PROVE  crashes = 0 /\ ~Crash
<1>1. ~Crash
  BY DEF Crash, IInv, TypeOK
<1>2. ASSUME NEW t \in Threads, Delete(t)
      PROVE  crashes' = crashes
  BY <1>2
  DEF Delete, Drop, Find, FindFails, FindNothing, FindOutdated, FindOurs, Stop,
      Remove, worldVars
<1>3. ASSUME NEW t \in Callers, Serve(t)
      PROVE  crashes' = crashes
  BY <1>2, <1>3
  DEF Serve, Lookup, Extend, EnsureRunning, InspectRunning, InspectStopped,
      StartOld, NotRunning, Adopt, Create, Plan, CreateContainer, CreateFails,
      StartNew, StartNewFails, Rollback, Record, worldVars, Threads
<1>4. ASSUME Reap
      PROVE  crashes' = crashes
  BY <1>2, <1>4
  DEF Reap, Ticker, List, ListFails, Pick, worldVars, Threads
<1> QED
  BY <1>1, <1>3, <1>4
  DEF Next, vars, Begin, TimePasses, LoseContainer, worldVars

(* Until the process is restarted, every step keeps the promises in order. *)
LEMMA StepKeepsLeaseInv ==
  ASSUME IInv, IInv', crashes = 0 => LeaseInv, [Next]_vars, crashes' = 0
  PROVE  LeaseInv'
<1>1. LeaseInv /\ ~Crash
  BY RestartsCounted
<1>2. ASSUME NEW t \in Callers, NEW call \in Calls[t], Begin(t, call[1], call[2])
      PROVE  LeaseInv'
  <2>1. call[2] \in Identifiers
    BY CallsAssumption
  <2> QED BY <1>1, <1>2, <2>1, BeginKeepsLeaseInv
<1>3. ASSUME NEW t \in Callers, Serve(t)
      PROVE  LeaseInv'
  BY <1>1, <1>3, ServeKeepsLeaseInv
<1>4. CASE Pick /\ pc'[Reaper] # "resting"
  <2>1. PICK i \in Identifiers : want'[Reaper] = i
    BY <1>4, ThreadsAssumption DEF Pick, Goto, IInv, TypeOK, Threads
  <2> QED BY <1>1, <1>4, <2>1, PickKeepsLeaseInv
<1>5. CASE Ticker \/ List \/ ListFails \/ (Pick /\ pc'[Reaper] = "resting")
  BY <1>1, <1>5, PassKeepsLeaseInv
<1>6. CASE Delete(Reaper)
  BY <1>1, <1>6, ReaperDeletes
<1>7. CASE \/ TimePasses
           \/ \E c \in Containers : LoseContainer(c)
           \/ UNCHANGED vars
  BY <1>1, <1>7, WorldKeepsLeaseInv
<1>8. CASE Reap
  <2>1. CASE Pick
    BY <1>4, <1>5, <2>1
  <2> QED BY <1>5, <1>6, <1>8, <2>1 DEF Reap
<1> QED
  BY <1>1, <1>2, <1>3, <1>7, <1>8 DEF Next

(* At first there are no containers (manager.go:39-53).                    *)
LEMMA LeaseInvEstablished == Init => LeaseInv
<1> SUFFICES ASSUME Init PROVE LeaseInv
  OBVIOUS
<1>1. /\ IInv /\ Routine /\ Homemade /\ now <= clock
      /\ overlapping \subseteq disturbed
  BY InitEstablishes DEF Init, Routine, Homemade, Unused, Threads
<1>2. ASSUME NEW i \in Identifiers
      PROVE  Kept(i)
  <2>1. \A t \in Callers : ~AtWork(t, i)
    BY ThreadsAssumption DEF Init, AtWork, Resting, Ended, Threads
  <2>2. Labelled(i) = {} /\ ~ReaperAt(i)
    BY DEF Init, Unused, Labelled, Exists, ReaperAt, Threads
  <2> QED
    BY <2>1, <2>2
    DEF Kept, OneContainer, OneAtWork, AloneInOrder, LeasesCovered, ReaperRight
<1> QED BY <1>1, <1>2 DEF LeaseInv

(* Until the process is restarted, records, requests and the reaper fit    *)
(* the promises that were made (manager.go:90-273, 497-544).               *)
THEOREM LeasesAreKept == SafetySpec => [](crashes = 0 => LeaseInv)
<1>1. Init => (crashes = 0 => LeaseInv)
  BY LeaseInvEstablished
<1>2. IInv /\ IInv' /\ (crashes = 0 => LeaseInv) /\ [Next]_vars
        => (crashes = 0 => LeaseInv)'
  BY StepKeepsLeaseInv
<1> QED
  BY <1>1, <1>2, InvariantHolds, PTL DEF SafetySpec

(* The reaper takes down no container before the time that was promised of *)
(* it, unless calls for its identifier overlapped                          *)
(* (manager.go:106-128, 168-178, 523-539).                                 *)
THEOREM ReapsOnlyExpiredHolds == SafetySpec => ReapsOnlyExpired
<1>1. ASSUME LeaseInv, NEW c \in Containers, Reaps(c)
      PROVE  want[Reaper] \in disturbed \/ clock > lease[c]
  <2>1. c = held[Reaper] /\ Exists(c) /\ pc[Reaper] \in {"stopping", "removing"}
    BY <1>1
    DEF Reaps, Stop, Remove, SetState, Goto, LeaseInv, IInv, TypeOK
  <2>2. PICK i \in Identifiers : want[Reaper] = i
    BY <1>1, <2>1 DEF LeaseInv, IInv, Resting, Ended, Threads
  <2>3. c \in Labelled(i) /\ ReaperAt(i) /\ ~LooksForLabel
    BY <1>1, <2>1, <2>2 DEF LeaseInv, Routine, Labelled, ReaperAt, LooksForLabel
  <2>4. lease[c] \in Nat /\ clock \in Nat
    BY <1>1 DEF LeaseInv, IInv, TypeOK
  <2> QED
    BY <1>1, <2>2, <2>3, <2>4 DEF LeaseInv, Kept, ReaperRight
<1>2. (crashes = 0 => LeaseInv) =>
        [\A c \in Containers :
           Reaps(c) /\ crashes = 0 =>
             want[Reaper] \in disturbed \/ clock > lease[c]]_vars
  BY <1>1
<1> QED
  BY <1>2, LeasesAreKept, PTL DEF ReapsOnlyExpired
=============================================================================
