------------------------- MODULE KubernetesManager --------------------------
(***************************************************************************)
(* internal/sandbox/kubernetes/manager.go, the other backend of            *)
(* sandbox/api.go, with the reaper that calls it.                          *)
(*                                                                         *)
(* The control is much like SandboxManager's; what differs is the world.   *)
(* A pod is known by its name, which is derived from the identifier, so a  *)
(* pod inherits the name of the one before it, and whoever deletes by name *)
(* deletes whichever pod has it by then. Pods become ready by themselves   *)
(* and Ensure polls for that. When the context of a request ends, all its  *)
(* later calls to the API server fail. The reaper takes the labels of all  *)
(* pods from the list with which its pass begins.                          *)
(*                                                                         *)
(* A step is one critical section of m.mu or one call to the API server.   *)
(***************************************************************************)
EXTENDS Integers, FiniteSets

CONSTANTS
  Identifiers,     \* the sandbox identifiers; podName tells them apart
  Callers,         \* the goroutines that call Ensure, Delete or Restart, once
  Operations,      \* those that they call: a subset of the three
  Reaper,          \* the goroutine of the reaper
  Policies,        \* the fingerprints that the configuration may have
  FirstPolicy,     \* the one it has first
  TTLs,            \* the TTLs that are asked for, 0 for none
  DefaultTTL,      \* cfg.DefaultTTLSeconds
  MaxTTL,          \* cfg.MaxTTLSeconds
  LastCall,        \* bound: no call begins after this time
  MaxFaults,       \* bound on failed calls, ended contexts and lost pods
  MaxCrashes,      \* bound on restarts of the process
  MaxTrouble,      \* bound on both together
  None             \* what is not there

ASSUME ThreadsAssumption == Reaper \notin Callers
ASSUME OperationsAssumption == Operations \subseteq {"Ensure", "Delete", "Restart"}
ASSUME PolicyAssumption == FirstPolicy \in Policies
ASSUME TTLAssumption ==
  TTLs \subseteq Nat /\ DefaultTTL \in Nat \ {0} /\ MaxTTL \in Nat \ {0}
ASSUME BoundsAssumption ==
  {LastCall, MaxFaults, MaxCrashes, MaxTrouble} \subseteq Nat
ASSUME NoneAssumption == None \notin Identifiers \cup Nat

Threads == Callers \cup {Reaper}

VARIABLES
  \* the API server
  pod,           \* the pod that has an identifier's name, or None
  \* the Manager
  sandboxes,     \* when the record of an identifier expires, or None
  policy,        \* m.policyFingerprint()
  \* each thread
  pc,            \* where it is
  want,          \* the identifier it is about
  ttl,           \* the TTL it was given, clamped
  until,         \* the expiry that it has computed, or found on a label
  then,          \* where Delete, or the removal of an outdated pod, goes on
  over,          \* the callers whose context has ended
  \* the reaper's pass
  listed,        \* the labels of the pods still to look at
  now,           \* when the pass began
  \* the world
  clock, faults, crashes,
  \* what has been promised (in no variable of the program)
  lease,         \* until when the last Ensure that returned the pod
  overlapping,   \* the identifiers whose last calls overlapped, with one
                 \* another or with what the reaper does to them
  disturbed      \* those for which no call has returned a sandbox since then
                 \* that overlapped with nothing

managerVars == <<sandboxes, policy>>
localVars == <<want, ttl, until, then, over>>
reaperVars == <<listed, now>>
worldVars == <<clock, crashes>>
overlaps == <<overlapping, disturbed>>
ghosts == <<lease, overlaps>>
vars == <<pod, managerVars, pc, localVars, reaperVars, worldVars, faults, ghosts>>

Pod == [phase : {"pending", "ready", "failed"}, expires : Nat, policy : Policies]

Ended == {"returned", "failed", "dead"}
Resting == Ended \cup {"idle", "resting"}
Stages == Resting \cup
  {"lookup", "extending", "polling", "finding", "adopting", "planning",
   "creating", "recording", "dropping", "searching", "discarding", "removing",
   "listing", "picking"}

Init ==
  /\ pod = [i \in Identifiers |-> None]
  /\ sandboxes = [i \in Identifiers |-> None]
  /\ policy = FirstPolicy
  /\ pc = [t \in Threads |-> IF t = Reaper THEN "resting" ELSE "idle"]
  /\ want = [t \in Threads |-> None]
  /\ ttl = [t \in Threads |-> 0]
  /\ until = [t \in Threads |-> 0]
  /\ then = [t \in Threads |-> "returned"]
  /\ over = {}
  /\ listed = [i \in Identifiers |-> None]
  /\ now = 0
  /\ clock = 0
  /\ faults = 0
  /\ crashes = 0
  /\ lease = [i \in Identifiers |-> 0]
  /\ overlapping = {}
  /\ disturbed = {}
-----------------------------------------------------------------------------
(***************************************************************************)
(* What the steps are built from.                                          *)
(***************************************************************************)
Goto(t, from, to) == pc[t] = from /\ pc' = [pc EXCEPT ![t] = to]

EffectiveTTL(n) ==
  LET given == IF n <= 0 THEN DefaultTTL ELSE n
  IN IF given > MaxTTL THEN MaxTTL ELSE given

Exists(i) == i \in Identifiers /\ pod[i] # None

Fault == /\ faults < MaxFaults
         /\ faults + crashes < MaxTrouble
         /\ faults' = faults + 1
NoFault == UNCHANGED faults

(* A call to the API server by t gets through, or it does not.             *)
Answered(t) == t \notin over /\ NoFault
Unanswered(t) == IF t \in over THEN NoFault ELSE Fault

(* Ensure, Restart return the sandbox: the caller may count on it, and if  *)
(* the call has overlapped with nothing, all is in order again.            *)
Return(t, from) ==
  /\ Goto(t, from, "returned")
  /\ lease' = [lease EXCEPT ![want[t]] = until[t]]
  /\ disturbed' = IF want[t] \in overlapping THEN disturbed
                                            ELSE disturbed \ {want[t]}
  /\ UNCHANGED overlapping

Busy(i) == \E t \in Callers : pc[t] \notin Resting /\ want[t] = i

ReaperAt(i) == /\ pc[Reaper] \in {"dropping", "searching", "discarding", "removing"}
               /\ want[Reaper] = i

(* Two are about the same identifier at a time.                            *)
Overlap(i) == /\ overlapping' = overlapping \cup {i}
              /\ disturbed' = disturbed \cup {i}
-----------------------------------------------------------------------------
(***************************************************************************)
(* Plausible mistakes, each a variant of an action below.                  *)
(***************************************************************************)

(* Ensure does not extend the record it has found.                         *)
ExtendForgets(t) ==
  /\ Goto(t, "extending", "polling")
  /\ until' = [until EXCEPT ![t] = clock + ttl[t]]
  /\ UNCHANGED <<pod, managerVars, want, ttl, then, over, reaperVars, worldVars,
                 faults, ghosts>>

(* The search takes whatever pod carries the identifier.                   *)
FindsAnyPolicy(t) ==
  /\ Exists(want[t])
  /\ Answered(t)
  /\ \/ Goto(t, "finding", "adopting")
     \/ Goto(t, "searching", "removing")
  /\ until' = [until EXCEPT ![t] = pod[want[t]].expires]
  /\ UNCHANGED <<pod, managerVars, want, ttl, then, over, reaperVars, worldVars,
                 ghosts>>

(* The reaper only looks at what the manager has in memory.                *)
PickRecorded(i) ==
  /\ listed[i] # None
  /\ listed' = [listed EXCEPT ![i] = None]
  /\ want' = [want EXCEPT ![Reaper] = i]
  /\ then' = [then EXCEPT ![Reaper] = "picking"]
  /\ IF Busy(i) THEN Overlap(i) ELSE UNCHANGED overlaps
  /\ Goto(Reaper, "picking",
          IF sandboxes[i] # None /\ now > sandboxes[i] THEN "dropping"
                                                       ELSE "picking")
  /\ UNCHANGED <<pod, managerVars, ttl, until, over, now, worldVars, faults,
                 lease>>
-----------------------------------------------------------------------------
(***************************************************************************)
(* A request.                                                              *)
(***************************************************************************)
Begin(t, op, i) ==
  /\ clock <= LastCall
  /\ Goto(t, "idle", IF op = "Ensure" THEN "lookup" ELSE "dropping")
  /\ want' = [want EXCEPT ![t] = i]
  /\ \E n \in TTLs : ttl' = [ttl EXCEPT ![t] = EffectiveTTL(n)]
  /\ then' = [then EXCEPT ![t] = IF op = "Restart" THEN "planning" ELSE "returned"]
  /\ IF Busy(i) \/ ReaperAt(i)
     THEN Overlap(i)
     ELSE overlapping' = overlapping \ {i} /\ UNCHANGED disturbed
  /\ UNCHANGED <<pod, managerVars, until, over, reaperVars, worldVars, faults,
                 lease>>

(* The context of a request, or of the reaper's pass, ends.                *)
ContextEnds(t) ==
  /\ pc[t] \notin Resting
  /\ t \notin over
  /\ Fault
  /\ over' = over \cup {t}
  /\ UNCHANGED <<pod, managerVars, pc, want, ttl, until, then, reaperVars,
                 worldVars, ghosts>>
-----------------------------------------------------------------------------
(***************************************************************************)
(* Ensure.                                                                 *)
(***************************************************************************)
Lookup(t) ==
  /\ Goto(t, "lookup", IF sandboxes[want[t]] # None THEN "extending" ELSE "finding")
  /\ then' = [then EXCEPT ![t] = "finding"]
  /\ UNCHANGED <<pod, managerVars, want, ttl, until, over, reaperVars, worldVars,
                 faults, ghosts>>

(* Whatever record the identifier has by now is given the new expiry.      *)
Extend(t) ==
  LET i == want[t]
      e == clock + ttl[t]
  IN /\ Goto(t, "extending", "polling")
     /\ until' = [until EXCEPT ![t] = e]
     /\ sandboxes' = [sandboxes EXCEPT ![i] = IF @ = None THEN None ELSE e]
     /\ UNCHANGED <<pod, policy, want, ttl, then, over, reaperVars, worldVars,
                    faults, ghosts>>

(* ensureRunning gets the pod, every half second, until it is ready.       *)
PollReady(t) ==
  /\ Exists(want[t]) /\ pod[want[t]].phase = "ready"
  /\ Answered(t)
  /\ Return(t, "polling")
  /\ UNCHANGED <<pod, managerVars, localVars, reaperVars, worldVars>>

(* It gives up when the pod is gone or has failed, when it has waited for  *)
(* too long, or when the API server or the context fail it: Ensure deletes *)
(* the identifier's sandbox and looks for another or, if it has adopted,   *)
(* creates one.                                                            *)
PollFails(t) ==
  /\ \/ /\ Exists(want[t]) => pod[want[t]].phase # "ready"
        /\ Answered(t)
     \/ Unanswered(t)
  /\ Goto(t, "polling", "dropping")
  /\ UNCHANGED <<pod, managerVars, localVars, reaperVars, worldVars, ghosts>>

(* The pod that was found becomes the identifier's record, with the expiry *)
(* of its label.                                                           *)
Adopt(t) ==
  /\ Goto(t, "adopting", "extending")
  /\ sandboxes' = [sandboxes EXCEPT ![want[t]] = until[t]]
  /\ then' = [then EXCEPT ![t] = "planning"]
  /\ UNCHANGED <<pod, policy, want, ttl, until, over, reaperVars, worldVars,
                 faults, ghosts>>
-----------------------------------------------------------------------------
(***************************************************************************)
(* findByIdentifier, for Ensure ("finding") or for Delete ("searching").   *)
(***************************************************************************)

(* The list fails: so does Ensure; the error of Delete is ignored but by   *)
(* delete_sandbox.                                                         *)
FindFails(t) ==
  /\ Unanswered(t)
  /\ \/ Goto(t, "finding", "failed")
     \/ Goto(t, "searching", IF then[t] = "returned" THEN "failed" ELSE then[t])
  /\ UNCHANGED <<pod, managerVars, localVars, reaperVars, worldVars, ghosts>>

(* Nothing there: Ensure creates, Delete has nothing to do.                *)
FindNothing(t) ==
  /\ ~Exists(want[t])
  /\ Answered(t)
  /\ \/ Goto(t, "finding", "planning")
     \/ Goto(t, "searching", then[t])
  /\ UNCHANGED <<pod, managerVars, localVars, reaperVars, worldVars, ghosts>>

(* A pod of another policy is to be deleted, and the search has found      *)
(* nothing, whether that works or not.                                     *)
FindOutdated(t) ==
  /\ Exists(want[t]) /\ pod[want[t]].policy # policy
  /\ Answered(t)
  /\ \/ /\ Goto(t, "finding", "discarding")
        /\ then' = [then EXCEPT ![t] = "planning"]
     \/ /\ Goto(t, "searching", "discarding")
        /\ UNCHANGED then
  /\ UNCHANGED <<pod, managerVars, want, ttl, until, over, reaperVars, worldVars,
                 ghosts>>

(* A pod of our policy, and its label: Ensure adopts it, Delete deletes it. *)
FindOurs(t) ==
  /\ Exists(want[t]) /\ pod[want[t]].policy = policy
  /\ Answered(t)
  /\ \/ Goto(t, "finding", "adopting")
     \/ Goto(t, "searching", "removing")
  /\ until' = [until EXCEPT ![t] = pod[want[t]].expires]
  /\ UNCHANGED <<pod, managerVars, want, ttl, then, over, reaperVars, worldVars,
                 ghosts>>
-----------------------------------------------------------------------------
(***************************************************************************)
(* create. It does not wait for the pod to be ready.                       *)
(***************************************************************************)
Plan(t) ==
  /\ Goto(t, "planning", "creating")
  /\ until' = [until EXCEPT ![t] = clock + ttl[t]]
  /\ UNCHANGED <<pod, managerVars, want, ttl, then, over, reaperVars, worldVars,
                 faults, ghosts>>

CreatePod(t) ==
  LET i == want[t]
  IN /\ ~Exists(i)
     /\ Answered(t)
     /\ Goto(t, "creating", "recording")
     /\ pod' = [pod EXCEPT ![i] =
                  [phase |-> "pending", expires |-> until[t], policy |-> policy]]
     /\ lease' = [lease EXCEPT ![i] = 0]
     /\ UNCHANGED <<managerVars, localVars, reaperVars, worldVars, overlaps>>

(* The name is taken, or the call fails.                                   *)
CreateFails(t) ==
  /\ \/ Exists(want[t]) /\ Answered(t)
     \/ Unanswered(t)
  /\ Goto(t, "creating", "failed")
  /\ UNCHANGED <<pod, managerVars, localVars, reaperVars, worldVars, ghosts>>

Record(t) ==
  /\ Return(t, "recording")
  /\ sandboxes' = [sandboxes EXCEPT ![want[t]] = until[t]]
  /\ UNCHANGED <<pod, policy, localVars, reaperVars, worldVars, faults>>
-----------------------------------------------------------------------------
(***************************************************************************)
(* Delete, called by a request, by Ensure, or by the reaper.               *)
(***************************************************************************)

(* Take the identifier's record out of the map, or look for a pod.         *)
Drop(t) ==
  /\ Goto(t, "dropping", IF sandboxes[want[t]] # None THEN "removing"
                                                      ELSE "searching")
  /\ sandboxes' = [sandboxes EXCEPT ![want[t]] = None]
  /\ UNCHANGED <<pod, policy, localVars, reaperVars, worldVars, faults, ghosts>>

(* The pod that has the name by now is deleted, if the call gets through.  *)
(* A request that does so ends what was promised of it.                    *)
Take(t) ==
  /\ \/ Answered(t) /\ pod' = [pod EXCEPT ![want[t]] = None]
     \/ Unanswered(t) /\ UNCHANGED pod
  /\ lease' = IF t = Reaper THEN lease ELSE [lease EXCEPT ![want[t]] = 0]

(* Its error, also that there was no such pod, only matters to             *)
(* delete_sandbox.                                                         *)
Remove(t) ==
  /\ pc[t] = "removing"
  /\ Take(t)
  /\ Goto(t, "removing", IF then[t] = "returned" /\ pod' = pod THEN "failed"
                                                               ELSE then[t])
  /\ UNCHANGED <<managerVars, localVars, reaperVars, worldVars, overlaps>>

(* For an outdated pod it does not matter at all.                          *)
Discard(t) ==
  /\ Goto(t, "discarding", then[t])
  /\ Take(t)
  /\ UNCHANGED <<managerVars, localVars, reaperVars, worldVars, overlaps>>
-----------------------------------------------------------------------------
(***************************************************************************)
(* The reaper: at every tick a pass of ReapOnce, with a new context.       *)
(***************************************************************************)
Ticker ==
  /\ Goto(Reaper, "resting", "listing")
  /\ over' = over \ {Reaper}
  /\ UNCHANGED <<pod, managerVars, want, ttl, until, then, reaperVars, worldVars,
                 faults, ghosts>>

List ==
  /\ Answered(Reaper)
  /\ Goto(Reaper, "listing", "picking")
  /\ listed' = [i \in Identifiers |-> IF Exists(i) THEN pod[i].expires ELSE None]
  /\ now' = clock
  /\ UNCHANGED <<pod, managerVars, localVars, worldVars, ghosts>>

ListFails ==
  /\ Unanswered(Reaper)
  /\ Goto(Reaper, "listing", "resting")
  /\ UNCHANGED <<pod, managerVars, localVars, reaperVars, worldVars, ghosts>>

(* Take the next pod of the list: the expiry of its identifier's record    *)
(* counts, without a record that of the label that was listed.             *)
Pick(i) ==
  /\ listed[i] # None
  /\ listed' = [listed EXCEPT ![i] = None]
  /\ want' = [want EXCEPT ![Reaper] = i]
  /\ then' = [then EXCEPT ![Reaper] = "picking"]
  /\ IF Busy(i) THEN Overlap(i) ELSE UNCHANGED overlaps
  /\ LET expires == IF sandboxes[i] # None THEN sandboxes[i] ELSE listed[i]
     IN Goto(Reaper, "picking", IF now > expires THEN "dropping" ELSE "picking")
  /\ UNCHANGED <<pod, managerVars, ttl, until, over, now, worldVars, faults,
                 lease>>

PassEnds ==
  /\ \A i \in Identifiers : listed[i] = None
  /\ Goto(Reaper, "picking", "resting")
  /\ UNCHANGED <<pod, managerVars, localVars, reaperVars, worldVars, faults,
                 ghosts>>
-----------------------------------------------------------------------------
(***************************************************************************)
(* The world. Time goes on; after the last call, to the end of every TTL.  *)
(***************************************************************************)
TimePasses ==
  /\ \/ clock <= LastCall
     \/ /\ \A t \in Callers : pc[t] \in Ended \cup {"idle"}
        /\ clock <= LastCall + MaxTTL + 1
  /\ clock' = clock + 1
  /\ UNCHANGED <<pod, managerVars, pc, localVars, reaperVars, faults, crashes,
                 ghosts>>

PodStarts(i) ==
  /\ Exists(i) /\ pod[i].phase = "pending"
  /\ pod' = [pod EXCEPT ![i].phase = "ready"]
  /\ UNCHANGED <<managerVars, pc, localVars, reaperVars, worldVars, faults,
                 ghosts>>

(* Its container starts anew, the pod is evicted, or somebody deletes it.  *)
PodStops(i) ==
  /\ Exists(i)
  /\ Fault
  /\ \/ \E phase \in {"pending", "failed"} :
          pod[i].phase # phase /\ pod' = [pod EXCEPT ![i].phase = phase]
     \/ pod' = [pod EXCEPT ![i] = None]
  /\ UNCHANGED <<managerVars, pc, localVars, reaperVars, worldVars, ghosts>>

(* The process dies and comes back, perhaps with another configuration.    *)
Crash ==
  /\ crashes < MaxCrashes
  /\ faults + crashes < MaxTrouble
  /\ crashes' = crashes + 1
  /\ sandboxes' = [i \in Identifiers |-> None]
  /\ policy' \in Policies
  /\ pc' = [t \in Threads |->
       IF t = Reaper THEN "resting"
       ELSE IF pc[t] \in Resting THEN pc[t] ELSE "dead"]
  /\ listed' = [i \in Identifiers |-> None]
  /\ UNCHANGED <<pod, localVars, now, clock, faults, ghosts>>

EnsureRunning(t) == PollReady(t) \/ PollFails(t)
Find(t) == FindFails(t) \/ FindNothing(t) \/ FindOutdated(t) \/ FindOurs(t)
             \/ Discard(t)
Create(t) == Plan(t) \/ CreatePod(t) \/ CreateFails(t) \/ Record(t)
Delete(t) == Drop(t) \/ Find(t) \/ Remove(t)
Serve(t) == Lookup(t) \/ Extend(t) \/ EnsureRunning(t) \/ Adopt(t)
              \/ Create(t) \/ Delete(t)
Reap == \/ Ticker \/ List \/ ListFails \/ PassEnds
        \/ \E i \in Identifiers : Pick(i)
        \/ Delete(Reaper)

Next == \/ \E t \in Callers :
             \/ \E op \in Operations, i \in Identifiers : Begin(t, op, i)
             \/ Serve(t)
        \/ Reap
        \/ \E t \in Threads : ContextEnds(t)
        \/ TimePasses
        \/ \E i \in Identifiers : PodStarts(i) \/ PodStops(i)
        \/ Crash

(***************************************************************************)
(* Goroutines go on (polling ends after half a minute), the ticker ticks,  *)
(* time passes. Nothing has to be called, to start, to fail or to crash.   *)
(***************************************************************************)
Fairness == /\ \A t \in Callers : WF_vars(Serve(t))
            /\ WF_vars(Reap)
            /\ WF_vars(TimePasses)

SafetySpec == Init /\ [][Next]_vars
Spec == SafetySpec /\ Fairness
-----------------------------------------------------------------------------
(***************************************************************************)
(* Properties.                                                             *)
(***************************************************************************)
TypeOK ==
  /\ pod \in [Identifiers -> Pod \cup {None}]
  /\ sandboxes \in [Identifiers -> Nat \cup {None}]
  /\ policy \in Policies
  /\ pc \in [Threads -> Stages]
  /\ want \in [Threads -> Identifiers \cup {None}]
  /\ ttl \in [Threads -> Nat]
  /\ until \in [Threads -> Nat]
  /\ then \in [Threads -> {"returned", "finding", "planning", "picking"}]
  /\ over \subseteq Threads
  /\ listed \in [Identifiers -> Nat \cup {None}]
  /\ now \in Nat
  /\ clock \in Nat
  /\ faults \in 0..MaxFaults
  /\ crashes \in 0..MaxCrashes
  /\ lease \in [Identifiers -> Nat]
  /\ overlapping \subseteq Identifiers /\ disturbed \subseteq Identifiers

(* The pod that has the name of i, if there is one, has the policy of this *)
(* process.                                                                *)
UpToDate(i) == Exists(i) => pod[i].policy = policy

(* A sandbox is never handed out, and never remembered, with a policy that *)
(* is not configured any more, although pods of a former process have the  *)
(* same name and a name is all that the record holds: a name that once had *)
(* an up-to-date pod keeps to such pods (manager.go:80-110, 361-379).      *)
OwnPolicy ==
  /\ \A i \in Identifiers : sandboxes[i] # None => UpToDate(i)
  /\ \A t \in Callers :
       pc[t] \in {"extending", "polling", "adopting", "recording"} =>
         UpToDate(want[t])

(* The tie between the map, the threads and the pods, which every step of  *)
(* Ensure, Delete, Restart and ReapOnce keeps (manager.go:72-196, 329-397). *)
IInv ==
  /\ TypeOK
  /\ OwnPolicy
  /\ \A t \in Threads :
       pc[t] \notin Resting \cup {"listing", "picking"} => want[t] \in Identifiers

(* The reaper takes the pod of i down.                                     *)
Reaps(i) == /\ Remove(Reaper) \/ Discard(Reaper)
            /\ pod'[i] # pod[i]

(* Until the process is restarted, the reaper never takes down a pod       *)
(* before the time that the last Ensure has given it, although the labels  *)
(* that it goes by were listed earlier and are never extended, unless      *)
(* calls for the identifier have overlapped, with one another or with the  *)
(* reaper, and none has returned a pod alone since then                    *)
(* (manager.go:150-196).                                                   *)
ReapsOnlyExpired ==
  [][\A i \in Identifiers :
       Reaps(i) /\ crashes = 0 => i \in disturbed \/ clock > lease[i]]_vars

(* Once nothing uses them any more, all pods are deleted at last: those    *)
(* that never started, whose deletion failed or whose request was given    *)
(* up, and those of a process that died (manager.go:150-184).              *)
NothingIsLeft ==
  <>[](\A i \in Identifiers : ~Exists(i))
=============================================================================
