---------------------- MODULE KubernetesManagerProofs -----------------------
(***************************************************************************)
(* No pod of a former policy is ever handed out or remembered: for every   *)
(* set of identifiers, callers and policies, any number of failures and    *)
(* restarts, and however calls overlap.                                    *)
(***************************************************************************)
EXTENDS KubernetesManager, TLAPS

(* The manager starts with an empty map and no pods (manager.go:34-49).    *)
LEMMA InitEstablishes == Init => IInv
  BY ThreadsAssumption, PolicyAssumption, BoundsAssumption
  DEF Init, IInv, TypeOK, OwnPolicy, Threads, Stages, Resting, Ended
-----------------------------------------------------------------------------
(* What is remembered, extended and polled for is under a name whose pod   *)
(* has our policy (manager.go:72-111, 186-259).                            *)
LEMMA EnsureKeepsIInv ==
  ASSUME IInv, NEW t \in Callers,
         Lookup(t) \/ Extend(t) \/ EnsureRunning(t) \/ Adopt(t)
  PROVE  IInv'
<1> USE ThreadsAssumption, BoundsAssumption
    DEF IInv, TypeOK, OwnPolicy, UpToDate, Exists, Threads, Stages, Resting,
        Ended, Goto, Fault, NoFault, Answered, Unanswered, localVars, reaperVars,
        worldVars, overlaps
<1>1. CASE Lookup(t)
  BY <1>1 DEF Lookup, managerVars, ghosts
<1>2. CASE Extend(t)
  BY <1>2, TTLAssumption DEF Extend, ghosts
<1>3. CASE PollReady(t)
  BY <1>3 DEF PollReady, Return, managerVars
<1>4. CASE PollFails(t)
  BY <1>4 DEF PollFails, managerVars, ghosts
<1>5. CASE Adopt(t)
  BY <1>5 DEF Adopt, ghosts
<1> QED BY <1>1, <1>2, <1>3, <1>4, <1>5 DEF EnsureRunning

(* The search finds a pod of our policy or nothing, and an outdated pod    *)
(* only ever makes room (manager.go:351-397).                              *)
LEMMA FindKeepsIInv ==
  ASSUME IInv, NEW t \in Threads, Find(t)
  PROVE  IInv'
<1> USE ThreadsAssumption, BoundsAssumption
    DEF IInv, TypeOK, OwnPolicy, UpToDate, Exists, Threads, Stages, Resting,
        Ended, Goto, Fault, NoFault, Answered, Unanswered, localVars, reaperVars,
        worldVars, overlaps
<1>1. CASE FindFails(t)
  BY <1>1 DEF FindFails, managerVars, ghosts
<1>2. CASE FindNothing(t)
  BY <1>2 DEF FindNothing, managerVars, ghosts
<1>3. CASE FindOutdated(t)
  BY <1>3 DEF FindOutdated, managerVars, ghosts
<1>4. CASE FindOurs(t)
  BY <1>4 DEF FindOurs, Pod, managerVars, ghosts
<1>5. CASE Discard(t)
  BY <1>5 DEF Discard, Take, managerVars
<1> QED BY <1>1, <1>2, <1>3, <1>4, <1>5 DEF Find

(* create labels the pod with our policy (manager.go:261-349).             *)
LEMMA CreateKeepsIInv ==
  ASSUME IInv, NEW t \in Callers, Create(t)
  PROVE  IInv'
<1> USE ThreadsAssumption, BoundsAssumption
    DEF IInv, TypeOK, OwnPolicy, UpToDate, Exists, Threads, Stages, Resting,
        Ended, Goto, Fault, NoFault, Answered, Unanswered, localVars, reaperVars,
        worldVars, overlaps
<1>1. CASE Plan(t)
  BY <1>1, TTLAssumption DEF Plan, managerVars, ghosts
<1>2. CASE CreatePod(t)
  BY <1>2 DEF CreatePod, Pod, managerVars
<1>3. CASE CreateFails(t)
  BY <1>3 DEF CreateFails, managerVars, ghosts
<1>4. CASE Record(t)
  BY <1>4 DEF Record, Return
<1> QED BY <1>1, <1>2, <1>3, <1>4 DEF Create

(* Delete forgets the record and may remove the pod (manager.go:113-143).  *)
LEMMA DeleteKeepsIInv ==
  ASSUME IInv, NEW t \in Threads, Delete(t)
  PROVE  IInv'
<1> USE ThreadsAssumption, BoundsAssumption
    DEF IInv, TypeOK, OwnPolicy, UpToDate, Exists, Threads, Stages, Resting,
        Ended, Goto, Fault, NoFault, Answered, Unanswered, localVars, reaperVars,
        worldVars, overlaps
<1>1. CASE Drop(t)
  BY <1>1 DEF Drop, ghosts
<1>2. CASE Find(t)
  BY <1>2, FindKeepsIInv
<1>3. CASE Remove(t)
  BY <1>3 DEF Remove, Take, managerVars
<1> QED BY <1>1, <1>2, <1>3 DEF Delete

(* The reaper only picks identifiers; it deletes as everybody does         *)
(* (manager.go:150-184).                                                   *)
LEMMA ReapKeepsIInv ==
  ASSUME IInv, Reap
  PROVE  IInv'
<1> USE ThreadsAssumption, BoundsAssumption
    DEF IInv, TypeOK, OwnPolicy, UpToDate, Exists, Threads, Stages, Resting,
        Ended, Goto, Fault, NoFault, Answered, Unanswered, localVars, reaperVars,
        worldVars, overlaps
<1>1. CASE Ticker
  BY <1>1 DEF Ticker, managerVars, ghosts
<1>2. CASE List
  BY <1>2 DEF List, Pod, managerVars, ghosts
<1>3. CASE ListFails
  BY <1>3 DEF ListFails, managerVars, ghosts
<1>4. CASE PassEnds
  BY <1>4 DEF PassEnds, managerVars, ghosts
<1>5. CASE \E i \in Identifiers : Pick(i)
  BY <1>5 DEF Pick, Overlap, managerVars
<1>6. CASE Delete(Reaper)
  BY <1>6, DeleteKeepsIInv
<1> QED BY <1>1, <1>2, <1>3, <1>4, <1>5, <1>6 DEF Reap

(* A call begins with an identifier (manager.go:72-78, 113, 145).          *)
LEMMA BeginKeepsIInv ==
  ASSUME IInv, NEW t \in Callers, NEW op \in Operations, NEW i \in Identifiers,
         Begin(t, op, i)
  PROVE  IInv'
BY ThreadsAssumption, TTLAssumption
DEF Begin, Overlap, EffectiveTTL, Goto, IInv, TypeOK, OwnPolicy, UpToDate,
    Exists, Threads, Stages, Resting, Ended, managerVars, reaperVars, worldVars

(* A restart empties the map with the policy, and everybody starts anew.   *)
LEMMA CrashKeepsIInv == ASSUME IInv, Crash PROVE IInv'
BY BoundsAssumption
DEF Crash, IInv, TypeOK, OwnPolicy, UpToDate, Exists, Threads, Stages, Resting,
    Ended, localVars, ghosts, overlaps

(* Whatever befalls a pod, it keeps its labels.                            *)
LEMMA PodsKeepIInv ==
  ASSUME IInv, NEW i \in Identifiers, PodStarts(i) \/ PodStops(i)
  PROVE  IInv'
<1> USE
DEF IInv, TypeOK, OwnPolicy, UpToDate, Exists, Threads, Stages, Resting,
    Ended, managerVars, localVars, reaperVars, worldVars, ghosts, overlaps
<1>1. CASE PodStarts(i)
  BY <1>1 DEF PodStarts, Pod
<1>2. CASE PodStops(i)
  BY <1>2, BoundsAssumption DEF PodStops, Pod, Fault
<1> QED BY <1>1, <1>2
-----------------------------------------------------------------------------
(* Every step of the manager, of the reaper and of the world keeps IInv.   *)
LEMMA StepPreserves == IInv /\ [Next]_vars => IInv'
<1> SUFFICES ASSUME IInv, [Next]_vars
             PROVE  IInv'
  OBVIOUS
<1>1. ASSUME NEW t \in Callers, NEW op \in Operations, NEW i \in Identifiers,
             Begin(t, op, i)
      PROVE  IInv'
  BY <1>1, BeginKeepsIInv
<1>2. ASSUME NEW t \in Callers, Serve(t)
      PROVE  IInv'
  BY <1>2, EnsureKeepsIInv, CreateKeepsIInv, DeleteKeepsIInv DEF Serve, Threads
<1>3. CASE Reap
  BY <1>3, ReapKeepsIInv
<1>4. ASSUME NEW t \in Threads, ContextEnds(t)
      PROVE  IInv'
  BY <1>4, BoundsAssumption
  DEF ContextEnds, Fault, IInv, TypeOK, OwnPolicy, UpToDate, Exists,
      managerVars, reaperVars, worldVars, ghosts, overlaps
<1>5. CASE TimePasses
  BY <1>5
  DEF TimePasses, IInv, TypeOK, OwnPolicy, UpToDate, Exists, managerVars,
      localVars, reaperVars, ghosts, overlaps
<1>6. ASSUME NEW i \in Identifiers, PodStarts(i) \/ PodStops(i)
      PROVE  IInv'
  BY <1>6, PodsKeepIInv
<1>7. CASE Crash
  BY <1>7, CrashKeepsIInv
<1>8. CASE UNCHANGED vars
  BY <1>8
  DEF vars, IInv, TypeOK, OwnPolicy, UpToDate, Exists, managerVars, localVars,
      reaperVars, worldVars, ghosts, overlaps
<1> QED
  BY <1>1, <1>2, <1>3, <1>4, <1>5, <1>6, <1>7, <1>8 DEF Next

(* The tie between map, threads and pods always holds                      *)
(* (manager.go:72-196, 329-397).                                           *)
THEOREM InvariantHolds == SafetySpec => []IInv
  BY InitEstablishes, StepPreserves, PTL DEF SafetySpec

(* Nobody is handed a pod of a policy that is not configured any more      *)
(* (manager.go:80-110, 361-379).                                           *)
THEOREM OwnPolicyHolds == SafetySpec => []OwnPolicy
<1>1. IInv => OwnPolicy
  BY DEF IInv
<1> QED
  BY InvariantHolds, <1>1, PTL
-----------------------------------------------------------------------------
(***************************************************************************)
(* What the reaper may count on. As long as the process lives, an          *)
(* identifier is in one of few situations, which follow from who is at     *)
(* work for it.                                                            *)
(***************************************************************************)
AtWork(t, i) == pc[t] \notin Resting /\ want[t] = i

(* The promise has ended, or the record still says that it has not.        *)
Past(i) == lease[i] = 0 \/ lease[i] < clock
Covered(i) == sandboxes[i] # None /\ lease[i] <= sandboxes[i]

(* t is going to renew the promise or to take the pod away.                *)
Handles(t, i) ==
  /\ want[t] = i
  /\ \/ pc[t] \in {"polling", "removing", "discarding"}
     \/ pc[t] = "dropping" /\ sandboxes[i] # None

(* Without an overlap, one call is at work, or the reaper, or nobody.      *)
OneAtWork(i) ==
  i \notin overlapping =>
    /\ \A t, u \in Callers : AtWork(t, i) /\ AtWork(u, i) => t = u
    /\ ReaperAt(i) => ~Busy(i)

(* Where t is tells then whether there is a record.                        *)
InOrder(t, i) ==
  /\ pc[t] = "extending" => sandboxes[i] # None
  /\ pc[t] = "polling" => sandboxes[i] = until[t]
  /\ pc[t] \in {"finding", "searching", "removing", "discarding", "adopting",
                "planning", "creating", "recording"} => sandboxes[i] = None

AloneInOrder(i) ==
  i \notin overlapping => \A t \in Callers : AtWork(t, i) => InOrder(t, i)

LeaseCovered(i) ==
  i \notin disturbed =>
    Past(i) \/ Covered(i) \/ \E t \in Callers : Handles(t, i)

ReaperRight(i) == i \notin disturbed /\ ReaperAt(i) => lease[i] < clock

Kept(i) == OneAtWork(i) /\ AloneInOrder(i) /\ LeaseCovered(i) /\ ReaperRight(i)

(* The reaper goes where ReapOnce and Delete lead, and nowhere else.       *)
Routine ==
  /\ pc[Reaper] \in {"resting", "listing", "picking", "dropping", "searching",
                     "discarding", "removing"}
  /\ pc[Reaper] \in {"dropping", "searching", "discarding", "removing"} =>
       then[Reaper] = "picking"

LeaseInv ==
  /\ IInv
  /\ Routine
  /\ now <= clock
  /\ overlapping \subseteq disturbed
  /\ \A i \in Identifiers : Kept(i)
-----------------------------------------------------------------------------
(* Nothing changes for an identifier that a step is not about.             *)
LEMMA OthersKept ==
  ASSUME IInv, IInv', NEW j \in Identifiers, Kept(j), clock <= clock',
         sandboxes'[j] = sandboxes[j], lease'[j] = lease[j],
         j \in overlapping' <=> j \in overlapping,
         j \in disturbed' <=> j \in disturbed,
         \A t \in Callers :
           \/ /\ pc'[t] = pc[t] /\ want'[t] = want[t] /\ until'[t] = until[t]
           \/ ~AtWork(t, j) /\ ~AtWork(t, j)',
         ReaperAt(j)' => ReaperAt(j)
  PROVE  Kept(j)'
<1>1. ASSUME NEW t \in Callers
      PROVE  /\ AtWork(t, j)' <=> AtWork(t, j)
             /\ AtWork(t, j) => pc'[t] = pc[t] /\ until'[t] = until[t]
  BY DEF AtWork
<1>2. OneAtWork(j)'
  BY <1>1 DEF Kept, OneAtWork, Busy, AtWork
<1>3. AloneInOrder(j)'
  BY <1>1 DEF Kept, AloneInOrder, InOrder
<1>4. ASSUME NEW t \in Callers, Handles(t, j)
      PROVE  Handles(t, j)'
  <2>1. AtWork(t, j)
    BY <1>4 DEF Handles, AtWork, Resting, Ended
  <2> QED
    BY <1>1, <1>4, <2>1 DEF Handles, AtWork
<1>5. LeaseCovered(j)'
  <2>1. lease[j] \in Nat /\ clock \in Nat /\ clock' \in Nat
    BY DEF IInv, TypeOK
  <2>2. Past(j) => Past(j)'
    BY <2>1 DEF Past
  <2>3. Covered(j) => Covered(j)'
    BY DEF Covered
  <2> QED BY <1>4, <2>2, <2>3 DEF Kept, LeaseCovered
<1>6. ReaperRight(j)'
  BY DEF Kept, ReaperRight, IInv, TypeOK
<1> QED BY <1>2, <1>3, <1>5, <1>6 DEF Kept

(* A step of a request that is at work changes nothing but its own         *)
(* identifier's affairs, and if it is alone it leaves them in order.       *)
Works(t, i) ==
  /\ want[t] = i /\ pc[t] \notin Resting
  /\ \A u \in Threads \ {t} : pc'[u] = pc[u] /\ until'[u] = until[u]
  /\ want' = want /\ now' = now /\ clock' = clock
  /\ then'[Reaper] = then[Reaper]
  /\ \A j \in Identifiers \ {i} :
       sandboxes'[j] = sandboxes[j] /\ lease'[j] = lease[j]
  /\ overlapping' = overlapping
  /\ \/ disturbed' = disturbed
     \/ i \notin overlapping /\ disturbed' = disturbed \ {i}

KeepsOrder(t, i) ==
  i \notin overlapping /\ InOrder(t, i) =>
    /\ pc'[t] \notin Resting => InOrder(t, i)'
    /\ i \notin disturbed' /\ (i \in disturbed \/ Past(i) \/ Covered(i)
                               \/ Handles(t, i)) =>
         Past(i)' \/ Covered(i)' \/ Handles(t, i)'

(* So the promises stay in order.                                          *)
LEMMA WorkKeepsLeaseInv ==
  ASSUME LeaseInv, IInv', NEW t \in Callers, NEW i \in Identifiers,
         Works(t, i), KeepsOrder(t, i)
  PROVE  LeaseInv'
<1>1. /\ i = want[t] /\ AtWork(t, i) /\ Busy(i)
      /\ t # Reaper /\ t \in Threads /\ Reaper \in Threads
  BY ThreadsAssumption DEF Works, AtWork, Busy, Threads
<1>2. /\ pc'[Reaper] = pc[Reaper] /\ want' = want /\ then'[Reaper] = then[Reaper]
      /\ overlapping' = overlapping
      /\ \A j \in Identifiers : ReaperAt(j)' <=> ReaperAt(j)
  BY <1>1 DEF Works, ReaperAt
<1>3. ASSUME NEW j \in Identifiers \ {i}
      PROVE  Kept(j)'
  <2>1. \A u \in Callers : u = t \/ (pc'[u] = pc[u] /\ until'[u] = until[u])
    BY DEF Works, Threads
  <2>2. ~AtWork(t, j) /\ ~AtWork(t, j)'
    BY <1>1, <1>2 DEF AtWork
  <2>3. Kept(j) /\ clock' = clock /\ clock <= clock'
    BY DEF LeaseInv, Works, IInv, TypeOK
  <2>4. (j \in disturbed' <=> j \in disturbed)
        /\ sandboxes'[j] = sandboxes[j] /\ lease'[j] = lease[j]
    BY <1>1 DEF Works
  <2> QED
    BY <1>2, <2>1, <2>2, <2>3, <2>4, OthersKept DEF LeaseInv
<1>4. Kept(i) /\ overlapping \subseteq disturbed
  BY <1>1 DEF LeaseInv
<1>5. ASSUME NEW u \in Callers, AtWork(u, i)'
      PROVE  AtWork(u, i)
  BY <1>1, <1>2, <1>5 DEF AtWork, Works, Threads
<1>6. OneAtWork(i)'
  BY <1>1, <1>2, <1>4, <1>5 DEF Kept, OneAtWork, Busy, AtWork
<1>7. ASSUME i \notin overlapping
      PROVE  /\ ~ReaperAt(i)
             /\ InOrder(t, i)
             /\ \A u \in Callers : AtWork(u, i) => u = t
  BY <1>1, <1>4, <1>7 DEF Kept, OneAtWork, AloneInOrder
<1>8. AloneInOrder(i)'
  <2> SUFFICES ASSUME i \notin overlapping, NEW u \in Callers, AtWork(u, i)'
               PROVE  InOrder(u, i)'
    BY <1>2 DEF AloneInOrder
  <2>1. u = t
    BY <1>5, <1>7
  <2> QED
    BY <1>1, <1>7, <2>1 DEF KeepsOrder, AtWork
<1>9. i \notin disturbed' => i \notin overlapping
  BY <1>1, <1>4 DEF Works
<1>10. ReaperRight(i)'
  BY <1>2, <1>7, <1>9, <1>1 DEF ReaperRight
<1>11. LeaseCovered(i)'
  <2> SUFFICES ASSUME i \notin disturbed'
               PROVE  Past(i)' \/ Covered(i)' \/ Handles(t, i)'
    BY DEF LeaseCovered
  <2>1. ASSUME NEW u \in Callers, Handles(u, i)
        PROVE  u = t
    BY <1>7, <1>9, <2>1 DEF Handles, AtWork, Resting, Ended
  <2>2. i \in disturbed \/ Past(i) \/ Covered(i) \/ Handles(t, i)
    BY <1>4, <2>1 DEF Kept, LeaseCovered
  <2> QED
    BY <1>1, <1>7, <1>9, <2>2 DEF KeepsOrder
<1>12. \A j \in Identifiers : Kept(j)'
  BY <1>3, <1>6, <1>8, <1>10, <1>11 DEF Kept
<1>13. Routine'
  BY <1>2 DEF LeaseInv, Routine
<1>14. now' <= clock' /\ overlapping' \subseteq disturbed'
  BY DEF LeaseInv, Works
<1> QED BY <1>12, <1>13, <1>14 DEF LeaseInv

(* A request that looks up, extends, polls and adopts: what it finds       *)
(* recorded it gives a new expiry, and by the time that it returns the     *)
(* record says what it promises (manager.go:72-111, 186-259).              *)
LEMMA EnsureWorks ==
  ASSUME LeaseInv, NEW t \in Callers, NEW i \in Identifiers, want[t] = i,
         Lookup(t) \/ Extend(t) \/ EnsureRunning(t) \/ Adopt(t)
  PROVE  Works(t, i) /\ KeepsOrder(t, i)
<1> USE ThreadsAssumption, NoneAssumption
    DEF LeaseInv, IInv, TypeOK, Threads, Resting, Ended, Goto, localVars,
        reaperVars, worldVars, managerVars, overlaps, ghosts, Works, KeepsOrder,
        InOrder, Past, Covered, Handles
<1>1. CASE Lookup(t)
  BY <1>1 DEF Lookup
<1>2. CASE Extend(t)
  BY <1>2, TTLAssumption DEF Extend
<1>3. CASE PollReady(t)
  BY <1>3 DEF PollReady, Return, Answered, NoFault
<1>4. CASE PollFails(t)
  BY <1>4 DEF PollFails
<1>5. CASE Adopt(t)
  BY <1>5 DEF Adopt
<1> QED BY <1>1, <1>2, <1>3, <1>4, <1>5 DEF EnsureRunning

(* The search leaves the record alone (manager.go:351-397).                *)
LEMMA FindWorks ==
  ASSUME LeaseInv, NEW t \in Callers, NEW i \in Identifiers, want[t] = i, Find(t)
  PROVE  Works(t, i) /\ KeepsOrder(t, i)
<1> USE ThreadsAssumption, NoneAssumption
    DEF LeaseInv, IInv, TypeOK, Threads, Resting, Ended, Goto, localVars,
        reaperVars, worldVars, managerVars, overlaps, ghosts, Works, KeepsOrder,
        InOrder, Past, Covered, Handles
<1>1. CASE FindFails(t)
  BY <1>1 DEF FindFails
<1>2. CASE FindNothing(t)
  BY <1>2 DEF FindNothing
<1>3. CASE FindOutdated(t)
  BY <1>3 DEF FindOutdated
<1>4. CASE FindOurs(t)
  BY <1>4 DEF FindOurs
<1>5. CASE Discard(t)
  BY <1>5 DEF Discard, Take
<1> QED BY <1>1, <1>2, <1>3, <1>4, <1>5 DEF Find

(* What is created is recorded before anything is promised of it           *)
(* (manager.go:261-349).                                                   *)
LEMMA CreateWorks ==
  ASSUME LeaseInv, NEW t \in Callers, NEW i \in Identifiers, want[t] = i, Create(t)
  PROVE  Works(t, i) /\ KeepsOrder(t, i)
<1> USE ThreadsAssumption, NoneAssumption
    DEF LeaseInv, IInv, TypeOK, Threads, Resting, Ended, Goto, localVars,
        reaperVars, worldVars, managerVars, overlaps, ghosts, Works, KeepsOrder,
        InOrder, Past, Covered, Handles
<1>1. CASE Plan(t)
  BY <1>1 DEF Plan
<1>2. CASE CreatePod(t)
  BY <1>2 DEF CreatePod
<1>3. CASE CreateFails(t)
  BY <1>3 DEF CreateFails
<1>4. CASE Record(t)
  BY <1>4 DEF Record, Return
<1> QED BY <1>1, <1>2, <1>3, <1>4 DEF Create

(* A deletion takes the record first, and the promise with the pod         *)
(* (manager.go:113-143).                                                   *)
LEMMA DeleteWorks ==
  ASSUME LeaseInv, NEW t \in Callers, NEW i \in Identifiers, want[t] = i, Delete(t)
  PROVE  Works(t, i) /\ KeepsOrder(t, i)
<1> USE ThreadsAssumption, NoneAssumption
    DEF LeaseInv, IInv, TypeOK, Threads, Resting, Ended, Goto, localVars,
        reaperVars, worldVars, managerVars, overlaps, ghosts, Works, KeepsOrder,
        InOrder, Past, Covered, Handles
<1>1. CASE Drop(t)
  BY <1>1 DEF Drop
<1>2. CASE Find(t)
  BY <1>2, FindWorks
<1>3. CASE Remove(t)
  BY <1>3 DEF Remove, Take
<1> QED BY <1>1, <1>2, <1>3 DEF Delete

(* Every step of a request leaves the promises in order.                   *)
LEMMA ServeKeepsLeaseInv ==
  ASSUME LeaseInv, IInv', NEW t \in Callers, Serve(t)
  PROVE  LeaseInv'
<1>1. want[t] \in Identifiers
  BY DEF LeaseInv, IInv, Threads, Resting, Ended, Serve, Lookup, Extend,
         EnsureRunning, PollReady, PollFails, Adopt, Create, Plan, CreatePod,
         CreateFails, Record, Delete, Drop, Remove, Find, FindFails, FindNothing,
         FindOutdated, FindOurs, Discard, Return, Goto
<1>2. Works(t, want[t]) /\ KeepsOrder(t, want[t])
  BY <1>1, EnsureWorks, CreateWorks, DeleteWorks DEF Serve
<1> QED BY <1>1, <1>2, WorkKeepsLeaseInv
-----------------------------------------------------------------------------
(* A call begins alone, or it is noted that it does not.                   *)
LEMMA BeginKeepsLeaseInv ==
  ASSUME LeaseInv, IInv', NEW t \in Callers, NEW op \in Operations,
         NEW i \in Identifiers, Begin(t, op, i)
  PROVE  LeaseInv'
<1> USE ThreadsAssumption DEF Threads
<1>1. /\ pc[t] = "idle" /\ pc'[t] \in {"lookup", "dropping"} /\ want'[t] = i
      /\ \A u \in Threads \ {t} : pc'[u] = pc[u] /\ want'[u] = want[u]
      /\ UNCHANGED <<until, sandboxes, lease, clock, now>>
      /\ then'[Reaper] = then[Reaper]
  BY DEF Begin, Goto, LeaseInv, IInv, TypeOK, managerVars, reaperVars, worldVars
<1>2. /\ ~AtWork(t, i) /\ pc'[Reaper] = pc[Reaper] /\ want'[Reaper] = want[Reaper]
      /\ \A j \in Identifiers : ReaperAt(j)' <=> ReaperAt(j)
      /\ \A u \in Callers \ {t}, j \in Identifiers : AtWork(u, j)' <=> AtWork(u, j)
  BY <1>1 DEF AtWork, ReaperAt, Resting, Ended
<1>3. /\ overlapping' \subseteq disturbed'
      /\ \A j \in Identifiers \ {i} :
           /\ j \in overlapping' <=> j \in overlapping
           /\ j \in disturbed' <=> j \in disturbed
  BY DEF Begin, Overlap, LeaseInv
<1>4. ASSUME NEW j \in Identifiers \ {i}
      PROVE  Kept(j)'
  <2>1. ~AtWork(t, j) /\ ~AtWork(t, j)'
    BY <1>1 DEF AtWork, Resting, Ended
  <2>2. Kept(j) /\ clock <= clock'
    BY <1>1 DEF LeaseInv, IInv, TypeOK
  <2> QED
    BY <1>1, <1>2, <1>3, <2>1, <2>2, OthersKept DEF LeaseInv
<1>5. ASSUME i \notin overlapping'
      PROVE  ~Busy(i) /\ ~ReaperAt(i)
  BY <1>5 DEF Begin, Overlap
<1>6. \A u \in Callers : ~Busy(i) => ~AtWork(u, i)
  BY DEF Busy, AtWork
<1>7. OneAtWork(i)'
  BY <1>2, <1>5, <1>6 DEF OneAtWork
<1>8. AloneInOrder(i)'
  BY <1>1, <1>2, <1>5, <1>6 DEF AloneInOrder, InOrder
<1>9. LeaseCovered(i)' /\ ReaperRight(i)'
  <2> SUFFICES ASSUME i \notin disturbed' PROVE LeaseCovered(i)' /\ ReaperRight(i)'
    BY DEF LeaseCovered, ReaperRight
  <2>1. i \notin overlapping' /\ i \notin disturbed
    BY <1>3 DEF Begin, Overlap
  <2>2. ASSUME NEW u \in Callers PROVE ~Handles(u, i)
    BY <1>5, <1>6, <2>1 DEF Handles, AtWork, Resting, Ended
  <2>3. Past(i) \/ Covered(i)
    BY <2>1, <2>2 DEF LeaseInv, Kept, LeaseCovered
  <2>4. Past(i)' \/ Covered(i)'
    BY <1>1, <2>3 DEF Past, Covered
  <2> QED
    BY <1>2, <1>5, <2>1, <2>4 DEF LeaseCovered, ReaperRight
<1>10. Routine' /\ now' <= clock'
  BY <1>1, <1>2 DEF LeaseInv, Routine
<1> QED BY <1>3, <1>4, <1>7, <1>8, <1>9, <1>10 DEF LeaseInv, Kept

(* What the reaper deletes had expired when it was picked, and nobody      *)
(* renews it meanwhile without an overlap (manager.go:113-143, 172-181).   *)
LEMMA ReaperDeletes ==
  ASSUME LeaseInv, IInv', Delete(Reaper)
  PROVE  LeaseInv'
<1> USE ThreadsAssumption DEF Threads
<1>1. PICK i \in Identifiers : want[Reaper] = i
  BY DEF LeaseInv, IInv, Routine, Resting, Ended, Delete, Drop, Find, FindFails,
         FindNothing, FindOutdated, FindOurs, Discard, Remove, Goto
<1>2. /\ UNCHANGED <<want, then, now, clock, lease, overlapping, disturbed>>
      /\ \A t \in Callers : pc'[t] = pc[t] /\ until'[t] = until[t]
      /\ \A j \in Identifiers \ {i} : sandboxes'[j] = sandboxes[j]
      /\ pc[Reaper] \in {"dropping", "searching", "discarding", "removing"}
      /\ Routine'
  <2> USE <1>1
      DEF LeaseInv, IInv, TypeOK, Routine, Goto, managerVars, localVars, reaperVars,
          worldVars, overlaps, ghosts
  <2>1. CASE Drop(Reaper)
    BY <2>1 DEF Drop
  <2>2. CASE Find(Reaper)
    BY <2>2 DEF Find, FindFails, FindNothing, FindOutdated, FindOurs, Discard, Take
  <2>3. CASE Remove(Reaper)
    BY <2>3 DEF Remove, Take
  <2> QED BY <2>1, <2>2, <2>3 DEF Delete
<1>3. /\ ReaperAt(i)
      /\ \A j \in Identifiers : ReaperAt(j)' => ReaperAt(j)
      /\ \A t \in Callers, j \in Identifiers : AtWork(t, j)' <=> AtWork(t, j)
      /\ Busy(i)' <=> Busy(i)
  BY <1>1, <1>2 DEF ReaperAt, AtWork, Busy
<1>4. ASSUME NEW j \in Identifiers \ {i}
      PROVE  Kept(j)'
  <2>1. Kept(j) /\ clock <= clock'
    BY <1>2 DEF LeaseInv, IInv, TypeOK
  <2> QED
    BY <1>2, <1>3, <2>1, OthersKept DEF LeaseInv
<1>5. Kept(i) /\ overlapping \subseteq disturbed
  BY DEF LeaseInv
<1>6. OneAtWork(i)'
  BY <1>2, <1>3, <1>5 DEF Kept, OneAtWork
<1>7. AloneInOrder(i)'
  BY <1>2, <1>3, <1>5 DEF Kept, OneAtWork, AloneInOrder, Busy, AtWork
<1>8. LeaseCovered(i)' /\ ReaperRight(i)'
  BY <1>2, <1>3, <1>5 DEF Kept, ReaperRight, LeaseCovered, Past
<1> QED BY <1>2, <1>4, <1>5, <1>6, <1>7, <1>8 DEF LeaseInv, Kept

(* The reaper takes what the record says has expired, without a record     *)
(* what the label says; and without a record there is no promise           *)
(* (manager.go:166-181).                                                   *)
LEMMA PickKeepsLeaseInv ==
  ASSUME LeaseInv, IInv', NEW i \in Identifiers, Pick(i)
  PROVE  LeaseInv'
<1> USE ThreadsAssumption DEF Threads
<1>1. /\ UNCHANGED <<sandboxes, until, now, clock, lease>>
      /\ pc[Reaper] = "picking" /\ want'[Reaper] = i
      /\ \A t \in Callers : pc'[t] = pc[t] /\ want'[t] = want[t]
  BY DEF LeaseInv, IInv, TypeOK, Pick, Goto, managerVars, worldVars
<1>2. /\ \A t \in Callers, j \in Identifiers : AtWork(t, j)' <=> AtWork(t, j)
      /\ Busy(i)' <=> Busy(i)
      /\ \A j \in Identifiers \ {i} : ~ReaperAt(j)'
  BY <1>1 DEF AtWork, Busy, ReaperAt
<1>3. /\ overlapping' \subseteq disturbed'
      /\ i \notin overlapping' => ~Busy(i) /\ i \notin overlapping
      /\ i \notin disturbed' => ~Busy(i) /\ i \notin disturbed
      /\ \A j \in Identifiers \ {i} :
           /\ j \in overlapping' <=> j \in overlapping
           /\ j \in disturbed' <=> j \in disturbed
  BY DEF Pick, Overlap, overlaps, LeaseInv
<1>4. Routine' /\ now' <= clock'
  BY <1>1 DEF LeaseInv, IInv, TypeOK, Routine, Pick, Goto
<1>5. ASSUME NEW j \in Identifiers \ {i}
      PROVE  Kept(j)'
  <2>1. Kept(j) /\ clock <= clock'
    BY <1>1 DEF LeaseInv, IInv, TypeOK
  <2> QED
    BY <1>1, <1>2, <1>3, <2>1, OthersKept DEF LeaseInv
<1>6. OneAtWork(i)' /\ AloneInOrder(i)'
  BY <1>1, <1>2, <1>3 DEF OneAtWork, AloneInOrder, Busy, AtWork
<1>7. ASSUME i \notin disturbed'
      PROVE  Past(i) \/ Covered(i)
  BY <1>3, <1>7
  DEF LeaseInv, Kept, LeaseCovered, Handles, Busy, Resting, Ended
<1>8. LeaseCovered(i)'
  BY <1>1, <1>7 DEF LeaseCovered, Past, Covered
<1>9. ReaperRight(i)'
  <2> SUFFICES ASSUME i \notin disturbed', ReaperAt(i)'
               PROVE  lease[i] < clock
    BY <1>1 DEF ReaperRight
  <2> DEFINE expires == IF sandboxes[i] # None THEN sandboxes[i] ELSE listed[i]
  <2>1. now > expires
    BY DEF Pick, Goto, ReaperAt, LeaseInv, IInv, TypeOK
  <2>2. expires \in Nat /\ now \in Nat /\ clock \in Nat /\ now <= clock
        /\ lease[i] \in Nat
    BY DEF Pick, LeaseInv, IInv, TypeOK
  <2>3. CASE Past(i)
    BY <2>1, <2>2, <2>3 DEF Past
  <2>4. CASE Covered(i)
    BY <2>1, <2>2, <2>4 DEF Covered
  <2> QED BY <1>7, <2>3, <2>4
<1> QED BY <1>3, <1>4, <1>5, <1>6, <1>8, <1>9 DEF LeaseInv, Kept

(* The rest of a pass, and what befalls pods, contexts and the clock, is   *)
(* nothing to the records.                                                 *)
LEMMA QuietKeepsLeaseInv ==
  ASSUME LeaseInv, IInv', clock <= clock', now' <= clock', Routine',
         UNCHANGED <<sandboxes, want, until, lease, overlapping, disturbed>>,
         \A t \in Callers : pc'[t] = pc[t],
         \A i \in Identifiers : ReaperAt(i)' => ReaperAt(i)
  PROVE  LeaseInv'
<1>1. ASSUME NEW j \in Identifiers
      PROVE  Kept(j)'
  BY OthersKept DEF LeaseInv
<1> QED BY <1>1 DEF LeaseInv

(* A pass begins, fails or ends.                                           *)
LEMMA PassKeepsLeaseInv ==
  ASSUME LeaseInv, IInv', Ticker \/ List \/ ListFails \/ PassEnds
  PROVE  LeaseInv'
<1> USE ThreadsAssumption DEF Threads
<1>1. UNCHANGED <<sandboxes, want, until, lease, overlapping, disturbed, clock>>
  BY DEF Ticker, List, ListFails, PassEnds, managerVars, localVars, worldVars,
         ghosts, overlaps
<1>2. /\ \A t \in Callers : pc'[t] = pc[t]
      /\ pc'[Reaper] \in {"resting", "listing", "picking"}
  BY DEF Ticker, List, ListFails, PassEnds, Goto, LeaseInv, IInv, TypeOK
<1>3. clock <= clock' /\ now' <= clock'
  BY <1>1
  DEF Ticker, List, ListFails, PassEnds, reaperVars, LeaseInv, IInv, TypeOK
<1>4. Routine' /\ \A i \in Identifiers : ReaperAt(i)' => ReaperAt(i)
  BY <1>2 DEF Routine, ReaperAt
<1> QED BY <1>1, <1>2, <1>3, <1>4, QuietKeepsLeaseInv

(* Contexts end, time passes, pods start and stop.                         *)
LEMMA WorldKeepsLeaseInv ==
  ASSUME LeaseInv, IInv',
         \/ \E t \in Threads : ContextEnds(t)
         \/ TimePasses
         \/ \E i \in Identifiers : PodStarts(i) \/ PodStops(i)
         \/ UNCHANGED vars
  PROVE  LeaseInv'
<1>1. UNCHANGED <<sandboxes, want, then, until, lease, overlapping, disturbed, pc,
                  now>>
  BY DEF ContextEnds, TimePasses, PodStarts, PodStops, vars, managerVars,
         localVars, reaperVars, ghosts, overlaps
<1>2. clock' \in {clock, clock + 1}
  BY DEF ContextEnds, TimePasses, PodStarts, PodStops, vars, worldVars
<1>3. clock <= clock' /\ now' <= clock'
  BY <1>1, <1>2 DEF LeaseInv, IInv, TypeOK
<1>4. Routine' /\ \A i \in Identifiers : ReaperAt(i)' => ReaperAt(i)
  BY <1>1 DEF LeaseInv, Routine, ReaperAt
<1> QED BY <1>1, <1>3, <1>4, QuietKeepsLeaseInv

-----------------------------------------------------------------------------
(* Only a restart counts as one.                                           *)
LEMMA RestartsCounted ==
  ASSUME IInv, [Next]_vars, crashes' = 0
  PROVE  crashes = 0 /\ ~Crash
<1>1. ~Crash
  BY DEF Crash, IInv, TypeOK
<1>2. ASSUME NEW t \in Threads, Delete(t)
      PROVE  crashes' = crashes
  BY <1>2
  DEF Delete, Drop, Find, FindFails, FindNothing, FindOutdated, FindOurs, Discard,
      Remove, worldVars
<1>3. ASSUME NEW t \in Callers, Serve(t)
      PROVE  crashes' = crashes
  BY <1>2, <1>3
  DEF Serve, Lookup, Extend, EnsureRunning, PollReady, PollFails, Adopt, Create,
      Plan, CreatePod, CreateFails, Record, worldVars, Threads
<1>4. ASSUME Reap
      PROVE  crashes' = crashes
  BY <1>2, <1>4
  DEF Reap, Ticker, List, ListFails, PassEnds, Pick, worldVars, Threads
<1> QED
  BY <1>1, <1>3, <1>4
  DEF Next, vars, Begin, ContextEnds, TimePasses, PodStarts, PodStops, worldVars

(* Until the process is restarted, every step keeps the promises in order. *)
LEMMA StepKeepsLeaseInv ==
  ASSUME IInv, IInv', crashes = 0 => LeaseInv, [Next]_vars, crashes' = 0
  PROVE  LeaseInv'
<1>1. LeaseInv /\ ~Crash
  BY RestartsCounted
<1>2. ASSUME NEW t \in Callers, NEW op \in Operations, NEW i \in Identifiers,
             Begin(t, op, i)
      PROVE  LeaseInv'
  BY <1>1, <1>2, BeginKeepsLeaseInv
<1>3. ASSUME NEW t \in Callers, Serve(t)
      PROVE  LeaseInv'
  BY <1>1, <1>3, ServeKeepsLeaseInv
<1>4. CASE Reap
  BY <1>1, <1>4, PassKeepsLeaseInv, PickKeepsLeaseInv, ReaperDeletes DEF Reap
<1>5. CASE \/ \E t \in Threads : ContextEnds(t)
           \/ TimePasses
           \/ \E i \in Identifiers : PodStarts(i) \/ PodStops(i)
           \/ UNCHANGED vars
  BY <1>1, <1>5, WorldKeepsLeaseInv
<1> QED
  BY <1>1, <1>2, <1>3, <1>4, <1>5 DEF Next

(* At first nothing is promised of any pod (manager.go:34-49).             *)
LEMMA LeaseInvEstablished == Init => LeaseInv
<1> SUFFICES ASSUME Init PROVE LeaseInv
  OBVIOUS
<1>1. IInv /\ Routine /\ now <= clock /\ overlapping \subseteq disturbed
  BY InitEstablishes DEF Init, Routine, Threads
<1>2. ASSUME NEW i \in Identifiers
      PROVE  Kept(i)
  <2>1. \A t \in Callers : ~AtWork(t, i) /\ ~ReaperAt(i)
    BY ThreadsAssumption DEF Init, AtWork, ReaperAt, Resting, Ended, Threads
  <2>2. lease[i] = 0 /\ ~ReaperAt(i)
    BY DEF Init, ReaperAt, Threads
  <2> QED
    BY <2>1, <2>2
    DEF Kept, OneAtWork, AloneInOrder, LeaseCovered, ReaperRight, Past
<1> QED BY <1>1, <1>2 DEF LeaseInv

(* Until the process is restarted, records, requests and the reaper fit    *)
(* the promises that were made (manager.go:72-196).                        *)
THEOREM LeasesAreKept == SafetySpec => [](crashes = 0 => LeaseInv)
<1>1. Init => (crashes = 0 => LeaseInv)
  BY LeaseInvEstablished
<1>2. IInv /\ IInv' /\ (crashes = 0 => LeaseInv) /\ [Next]_vars
        => (crashes = 0 => LeaseInv)'
  BY StepKeepsLeaseInv
<1> QED
  BY <1>1, <1>2, InvariantHolds, PTL DEF SafetySpec

(* The reaper takes down no pod before the time that was promised of it,   *)
(* unless calls for its identifier overlapped (manager.go:150-196).        *)
THEOREM ReapsOnlyExpiredHolds == SafetySpec => ReapsOnlyExpired
<1>1. ASSUME LeaseInv, NEW i \in Identifiers, Reaps(i)
      PROVE  i \in disturbed \/ clock > lease[i]
  <2>1. want[Reaper] = i
    BY <1>1
    DEF Reaps, Remove, Discard, Take, Goto, LeaseInv, IInv, TypeOK
  <2>2. ReaperAt(i)
    BY <1>1, <2>1 DEF Reaps, Remove, Discard, Goto, ReaperAt
  <2>3. lease[i] \in Nat /\ clock \in Nat
    BY <1>1 DEF LeaseInv, IInv, TypeOK
  <2> QED
    BY <1>1, <2>2, <2>3 DEF LeaseInv, Kept, ReaperRight
<1>2. (crashes = 0 => LeaseInv) =>
        [\A i \in Identifiers :
           Reaps(i) /\ crashes = 0 => i \in disturbed \/ clock > lease[i]]_vars
  BY <1>1
<1> QED
  BY <1>2, LeasesAreKept, PTL DEF ReapsOnlyExpired
=============================================================================
