--------------------------- MODULE SandboxManager ---------------------------
(***************************************************************************)
(* internal/sandbox/manager.go and internal/reaper/reaper.go: the Docker   *)
(* sandboxes, keyed by identifier.                                         *)
(*                                                                         *)
(* Requests call Ensure, Delete and Restart, each on a goroutine of its    *)
(* own, while the reaper walks over the containers. The manager's map is   *)
(* guarded by m.mu, which nobody holds across a call to the Docker daemon; *)
(* a step is one critical section or one call to the daemon. The map dies  *)
(* with the process; containers and their labels do not.                   *)
(***************************************************************************)
EXTENDS Integers, FiniteSets, FiniteSetsExt

CONSTANTS
  Identifiers,     \* the sandbox identifiers
  Callers,         \* the goroutines that call Ensure, Delete or Restart, once
  Calls,           \* what each may call for which identifier
  Reaper,          \* the goroutine of the reaper
  Containers,      \* the container ids that the daemon can hand out
  Policies,        \* the fingerprints that the configuration may have
  FirstPolicy,     \* the one it has first
  TTLs,            \* the TTLs that are asked for, 0 for none
  DefaultTTL,      \* cfg.DefaultTTLSeconds
  MaxTTL,          \* cfg.MaxTTLSeconds
  LastCall,        \* bound: no call begins after this time
  MaxFaults,       \* bound on failed daemon calls and lost containers
  MaxCrashes,      \* bound on restarts of the process
  MaxTrouble,      \* bound on both together
  None             \* what is not there

ASSUME ThreadsAssumption == Reaper \notin Callers
ASSUME CallsAssumption ==
  Calls \in [Callers -> SUBSET ({"Ensure", "Delete", "Restart"} \X Identifiers)]
ASSUME PolicyAssumption == FirstPolicy \in Policies
ASSUME TTLAssumption ==
  TTLs \subseteq Nat /\ DefaultTTL \in Nat \ {0} /\ MaxTTL \in Nat \ {0}
ASSUME BoundsAssumption ==
  {LastCall, MaxFaults, MaxCrashes, MaxTrouble} \subseteq Nat
ASSUME NoneAssumption ==
  None \notin Containers \cup Identifiers \cup [container : Containers, expires : Nat]

Threads == Callers \cup {Reaper}

VARIABLES
  \* the daemon
  container,     \* what it knows of each container id
  \* the Manager
  sandboxes,     \* m.sandboxesByIdentifier
  policy,        \* m.policyFingerprint()
  \* each thread
  pc,            \* where it is
  want,          \* the identifier it is about
  ttl,           \* the TTL it was given, clamped
  held,          \* the container it is about
  until,         \* the expiry it has computed
  finder,        \* who called findByIdentifier
  then,          \* where Delete, or a removal, goes on
  \* the reaper's pass
  seen,          \* the identifiers still to look at
  now,           \* when the pass began
  \* the world
  clock,         \* the time, in seconds
  faults,        \* failed daemon calls and lost containers so far
  crashes,       \* restarts so far
  \* what has been promised (in no variable of the program)
  lease,         \* until when the last Ensure that returned the container
  overlapping,   \* the identifiers whose last calls overlapped, with one
                 \* another or with what the reaper does to them
  disturbed      \* those for which no call has returned a sandbox since then
                 \* that overlapped with nothing

managerVars == <<sandboxes, policy>>
localVars == <<want, ttl, held, until, finder, then>>
reaperVars == <<seen, now>>
worldVars == <<clock, crashes>>
overlaps == <<overlapping, disturbed>>
ghosts == <<lease, overlaps>>
vars == <<container, managerVars, pc, localVars, reaperVars, worldVars, faults,
          ghosts>>

Sandbox == [container : Containers, expires : Nat]
Container == [ identifier : Identifiers \cup {None},
               state      : {"unused", "stopped", "running", "removed"},
               expires    : Nat,
               policy     : Policies \cup {None} ]

Ended == {"returned", "failed", "dead"}
Resting == Ended \cup {"idle", "resting"}
Stages == Resting \cup
  {"lookup", "extending", "inspecting", "starting", "finding", "adopting",
   "planning", "creating", "startingNew", "rollback", "recording",
   "dropping", "stopping", "removing", "listing", "picking"}

Unused == [identifier |-> None, state |-> "unused", expires |-> 0,
           policy |-> None]

Init ==
  /\ container = [c \in Containers |-> Unused]
  /\ sandboxes = [i \in Identifiers |-> None]
  /\ policy = FirstPolicy
  /\ pc = [t \in Threads |-> IF t = Reaper THEN "resting" ELSE "idle"]
  /\ want = [t \in Threads |-> None]
  /\ ttl = [t \in Threads |-> 0]
  /\ held = [t \in Threads |-> None]
  /\ until = [t \in Threads |-> 0]
  /\ finder = [t \in Threads |-> "Ensure"]
  /\ then = [t \in Threads |-> "returned"]
  /\ seen = {}
  /\ now = 0
  /\ clock = 0
  /\ faults = 0
  /\ crashes = 0
  /\ lease = [c \in Containers |-> 0]
  /\ overlapping = {}
  /\ disturbed = {}
-----------------------------------------------------------------------------
(***************************************************************************)
(* What the steps are built from.                                          *)
(***************************************************************************)
Goto(t, from, to) == pc[t] = from /\ pc' = [pc EXCEPT ![t] = to]

(* A TTL that is not positive is the default, one that is too long the     *)
(* longest.                                                                *)
EffectiveTTL(n) ==
  LET given == IF n <= 0 THEN DefaultTTL ELSE n
  IN IF given > MaxTTL THEN MaxTTL ELSE given

Exists(c) == c \in Containers /\ container[c].state \in {"stopped", "running"}

(* The containers that the daemon lists for an identifier's label. Their   *)
(* name is derived from the identifier, so there never are two.            *)
Labelled(i) == {c \in Containers : Exists(c) /\ container[c].identifier = i}

(* A call to the daemon fails: an error, or the end of its context.        *)
Fault == /\ faults < MaxFaults
         /\ faults + crashes < MaxTrouble
         /\ faults' = faults + 1
NoFault == UNCHANGED faults

SetState(c, state) == container' = [container EXCEPT ![c].state = state]

(* Ensure, Restart return the sandbox: the caller may count on it, and if  *)
(* the call has overlapped with nothing, all is in order again.            *)
Return(t, from) ==
  /\ Goto(t, from, "returned")
  /\ lease' = [lease EXCEPT ![held[t]] = until[t]]
  /\ disturbed' = IF want[t] \in overlapping THEN disturbed
                                            ELSE disturbed \ {want[t]}
  /\ UNCHANGED overlapping

Busy(i) == \E t \in Callers : pc[t] \notin Resting /\ want[t] = i

ReaperAt(i) == /\ pc[Reaper] \in {"finding", "dropping", "stopping", "removing"}
               /\ want[Reaper] = i

(* Two are about the same identifier at a time.                            *)
Overlap(i) == /\ overlapping' = overlapping \cup {i}
              /\ disturbed' = disturbed \cup {i}
-----------------------------------------------------------------------------
(***************************************************************************)
(* Plausible mistakes, each a variant of an action below.                  *)
(***************************************************************************)

(* Ensure does not extend the record it has found.                         *)
ExtendForgets(t) ==
  /\ Goto(t, "extending", "inspecting")
  /\ until' = [until EXCEPT ![t] = clock + ttl[t]]
  /\ UNCHANGED <<container, managerVars, want, ttl, held, finder, then,
                 reaperVars, worldVars, faults, ghosts>>

(* Ensure adopts whatever container carries the identifier.                *)
FindsAnyPolicy(t) ==
  /\ NoFault
  /\ \E c \in Labelled(want[t]) : held' = [held EXCEPT ![t] = c]
  /\ Goto(t, "finding", CASE finder[t] = "Ensure" -> "adopting"
                          [] finder[t] = "Delete" -> "stopping"
                          [] OTHER -> "picking")
  /\ UNCHANGED <<container, managerVars, want, ttl, until, finder, then,
                 reaperVars, worldVars, ghosts>>

(* The reaper only looks at what the manager has in memory.                *)
PickRecorded ==
  \/ /\ seen = {}
     /\ Goto(Reaper, "picking", "resting")
     /\ UNCHANGED <<container, managerVars, localVars, reaperVars, worldVars,
                    faults, ghosts>>
  \/ \E i \in seen :
       /\ seen' = seen \ {i}
       /\ want' = [want EXCEPT ![Reaper] = i]
       /\ IF Busy(i) THEN Overlap(i) ELSE UNCHANGED overlaps
       /\ then' = [then EXCEPT ![Reaper] = "picking"]
       /\ Goto(Reaper, "picking",
               IF sandboxes[i] # None /\ now > sandboxes[i].expires
               THEN "dropping" ELSE "picking")
       /\ UNCHANGED <<container, managerVars, ttl, held, until, finder, now,
                      worldVars, faults, lease>>
-----------------------------------------------------------------------------
(***************************************************************************)
(* A request.                                                              *)
(***************************************************************************)
Begin(t, op, i) ==
  /\ clock <= LastCall
  /\ Goto(t, "idle", IF op = "Ensure" THEN "lookup" ELSE "dropping")
  /\ want' = [want EXCEPT ![t] = i]
  /\ \E n \in TTLs : ttl' = [ttl EXCEPT ![t] = EffectiveTTL(n)]
  /\ then' = [then EXCEPT ![t] = IF op = "Restart" THEN "planning" ELSE "returned"]
  /\ IF Busy(i) \/ ReaperAt(i)
     THEN Overlap(i)
     ELSE overlapping' = overlapping \ {i} /\ UNCHANGED disturbed
  /\ UNCHANGED <<container, managerVars, held, until, finder, reaperVars,
                 worldVars, faults, lease>>

(***************************************************************************)
(* Ensure.                                                                 *)
(***************************************************************************)
Lookup(t) ==
  LET s == sandboxes[want[t]]
  IN /\ Goto(t, "lookup", IF s # None THEN "extending" ELSE "finding")
     /\ held' = [held EXCEPT ![t] = IF s # None THEN s.container ELSE None]
     /\ then' = [then EXCEPT ![t] = "finding"]
     /\ finder' = [finder EXCEPT ![t] = "Ensure"]
     /\ UNCHANGED <<container, managerVars, want, ttl, until, reaperVars,
                    worldVars, faults, ghosts>>

(* Whatever record the identifier has by now is given the new expiry.      *)
Extend(t) ==
  LET e == clock + ttl[t]
      s == sandboxes[want[t]]
  IN /\ Goto(t, "extending", "inspecting")
     /\ until' = [until EXCEPT ![t] = e]
     /\ sandboxes' = IF s = None THEN sandboxes
                     ELSE [sandboxes EXCEPT ![want[t]].expires = e]
     /\ UNCHANGED <<container, policy, want, ttl, held, finder, then,
                    reaperVars, worldVars, faults, ghosts>>

(* ensureRunning, first half: a running container is as good as it gets.   *)
InspectRunning(t) ==
  /\ Exists(held[t]) /\ container[held[t]].state = "running"
  /\ NoFault
  /\ Return(t, "inspecting")
  /\ UNCHANGED <<container, managerVars, localVars, reaperVars, worldVars>>

InspectStopped(t) ==
  /\ Exists(held[t]) /\ container[held[t]].state = "stopped"
  /\ NoFault
  /\ Goto(t, "inspecting", "starting")
  /\ UNCHANGED <<container, managerVars, localVars, reaperVars, worldVars,
                 ghosts>>

(* Second half. Starting what runs by now is no error.                     *)
StartOld(t) ==
  /\ Exists(held[t])
  /\ NoFault
  /\ SetState(held[t], "running")
  /\ Return(t, "starting")
  /\ UNCHANGED <<managerVars, localVars, reaperVars, worldVars>>

(* Either fails: Ensure deletes the identifier's sandbox, whichever it is  *)
(* by now, and looks for another or, if it has adopted, creates one.       *)
NotRunning(t) ==
  /\ IF Exists(held[t]) THEN Fault ELSE NoFault
  /\ \/ Goto(t, "inspecting", "dropping")
     \/ Goto(t, "starting", "dropping")
  /\ UNCHANGED <<container, managerVars, localVars, reaperVars, worldVars,
                 ghosts>>

(* The container that was found becomes the identifier's record, with the  *)
(* expiry of its label.                                                    *)
Adopt(t) ==
  /\ Goto(t, "adopting", "extending")
  /\ sandboxes' = [sandboxes EXCEPT ![want[t]] =
       [container |-> held[t], expires |-> container[held[t]].expires]]
  /\ then' = [then EXCEPT ![t] = "planning"]
  /\ UNCHANGED <<container, policy, want, ttl, held, until, finder, reaperVars,
                 worldVars, faults, ghosts>>
-----------------------------------------------------------------------------
(***************************************************************************)
(* findByIdentifier, for Ensure, for Delete, or for the reaper. It lists   *)
(* the containers of the identifier.                                       *)
(***************************************************************************)

(* The listing fails: so does Ensure; the error of Delete is ignored but   *)
(* by delete_sandbox; the reaper gives up its pass.                        *)
FindFails(t) ==
  /\ Fault
  /\ Goto(t, "finding",
          CASE finder[t] = "Ensure" -> "failed"
            [] finder[t] = "Delete" ->
                 IF then[t] = "returned" THEN "failed" ELSE then[t]
            [] OTHER -> "resting")
  /\ finder' = [finder EXCEPT ![t] = "Ensure"]
  /\ UNCHANGED <<container, managerVars, want, ttl, held, until, then,
                 reaperVars, worldVars, ghosts>>

(* Nothing there: Ensure creates, Delete has nothing to do.                *)
FindNothing(t) ==
  /\ Labelled(want[t]) = {}
  /\ NoFault
  /\ Goto(t, "finding", CASE finder[t] = "Ensure" -> "planning"
                          [] finder[t] = "Delete" -> then[t]
                          [] OTHER -> "picking")
  /\ finder' = [finder EXCEPT ![t] = "Ensure"]
  /\ UNCHANGED <<container, managerVars, want, ttl, held, until, then,
                 reaperVars, worldVars, ghosts>>

(* A container of another policy is stopped and removed, and the search    *)
(* has found nothing, whether that worked or not.                          *)
FindOutdated(t) ==
  /\ NoFault
  /\ \E c \in Labelled(want[t]) :
       /\ container[c].policy # policy
       /\ held' = [held EXCEPT ![t] = c]
  /\ Goto(t, "finding", "stopping")
  /\ then' = [then EXCEPT ![t] = CASE finder[t] = "Ensure" -> "planning"
                                   [] finder[t] = "Delete" -> @
                                   [] OTHER -> "picking"]
  /\ UNCHANGED <<container, managerVars, want, ttl, until, finder, reaperVars,
                 worldVars, ghosts>>

(* A container of our policy: Ensure adopts it, Delete removes it, and the *)
(* reaper deletes the sandbox if the label says that it has expired.       *)
FindOurs(t) ==
  /\ NoFault
  /\ \E c \in Labelled(want[t]) :
       /\ container[c].policy = policy
       /\ held' = [held EXCEPT ![t] = c]
       /\ Goto(t, "finding",
               CASE finder[t] = "Ensure" -> "adopting"
                 [] finder[t] = "Delete" -> "stopping"
                 [] OTHER -> IF now > container[c].expires THEN "dropping"
                                                          ELSE "picking")
  /\ UNCHANGED <<container, managerVars, want, ttl, until, finder, then,
                 reaperVars, worldVars, ghosts>>
-----------------------------------------------------------------------------
(***************************************************************************)
(* create.                                                                 *)
(***************************************************************************)

(* The expiry is computed first; making sure of the image may then take    *)
(* long, and may fail.                                                     *)
Plan(t) ==
  /\ \/ Goto(t, "planning", "creating") /\ NoFault
     \/ Goto(t, "planning", "failed") /\ Fault
  /\ until' = [until EXCEPT ![t] = clock + ttl[t]]
  /\ UNCHANGED <<container, managerVars, want, ttl, held, finder, then,
                 reaperVars, worldVars, ghosts>>

CreateContainer(t) ==
  /\ Labelled(want[t]) = {}
  /\ NoFault
  /\ \E c \in Containers :
       /\ container[c].state = "unused"
       /\ container' = [container EXCEPT ![c] =
            [identifier |-> want[t], state |-> "stopped",
             expires |-> until[t], policy |-> policy]]
       /\ held' = [held EXCEPT ![t] = c]
  /\ Goto(t, "creating", "startingNew")
  /\ UNCHANGED <<managerVars, want, ttl, until, finder, then, reaperVars,
                 worldVars, ghosts>>

(* The name is taken, or the daemon fails (or is out of ids, a bound).     *)
CreateFails(t) ==
  /\ IF \/ Labelled(want[t]) # {}
        \/ \A c \in Containers : container[c].state # "unused"
     THEN NoFault ELSE Fault
  /\ Goto(t, "creating", "failed")
  /\ UNCHANGED <<container, managerVars, localVars, reaperVars, worldVars,
                 ghosts>>

StartNew(t) ==
  /\ Exists(held[t])
  /\ NoFault
  /\ SetState(held[t], "running")
  /\ Goto(t, "startingNew", "recording")
  /\ UNCHANGED <<managerVars, localVars, reaperVars, worldVars, ghosts>>

StartNewFails(t) ==
  /\ IF Exists(held[t]) THEN Fault ELSE NoFault
  /\ Goto(t, "startingNew", "rollback")
  /\ UNCHANGED <<container, managerVars, localVars, reaperVars, worldVars,
                 ghosts>>

(* What could not be started is removed, if the daemon lets it.            *)
Rollback(t) ==
  /\ \/ /\ Exists(held[t]) /\ NoFault
        /\ SetState(held[t], "removed")
     \/ /\ IF Exists(held[t]) THEN Fault ELSE NoFault
        /\ UNCHANGED container
  /\ Goto(t, "rollback", "failed")
  /\ UNCHANGED <<managerVars, localVars, reaperVars, worldVars, ghosts>>

Record(t) ==
  /\ sandboxes' = [sandboxes EXCEPT ![want[t]] =
                     [container |-> held[t], expires |-> until[t]]]
  /\ Return(t, "recording")
  /\ UNCHANGED <<container, policy, localVars, reaperVars, worldVars, faults>>
-----------------------------------------------------------------------------
(***************************************************************************)
(* Delete, called by a request, by Ensure, or by the reaper.               *)
(***************************************************************************)

(* Take the identifier's record out of the map, or look for a container.   *)
Drop(t) ==
  LET s == sandboxes[want[t]]
  IN /\ Goto(t, "dropping", IF s # None THEN "stopping" ELSE "finding")
     /\ sandboxes' = [sandboxes EXCEPT ![want[t]] = None]
     /\ held' = [held EXCEPT ![t] = IF s # None THEN s.container ELSE None]
     /\ finder' = [finder EXCEPT ![t] = IF s # None THEN "Ensure" ELSE "Delete"]
     /\ UNCHANGED <<container, policy, want, ttl, until, then, reaperVars,
                    worldVars, faults, ghosts>>

(* Errors of the daemon are ignored. A request that deletes the sandbox    *)
(* ends what was promised of it.                                           *)
Stop(t) ==
  /\ \/ Exists(held[t]) /\ NoFault /\ SetState(held[t], "stopped")
     \/ ~Exists(held[t]) /\ NoFault /\ UNCHANGED container
     \/ Exists(held[t]) /\ Fault /\ UNCHANGED container
  /\ Goto(t, "stopping", "removing")
  /\ lease' = IF t = Reaper THEN lease ELSE [lease EXCEPT ![held[t]] = 0]
  /\ UNCHANGED <<managerVars, localVars, reaperVars, worldVars, overlaps>>

Remove(t) ==
  /\ \/ Exists(held[t]) /\ NoFault /\ SetState(held[t], "removed")
     \/ ~Exists(held[t]) /\ NoFault /\ UNCHANGED container
     \/ Exists(held[t]) /\ Fault /\ UNCHANGED container
  /\ Goto(t, "removing", then[t])
  /\ finder' = [finder EXCEPT ![t] = "Ensure"]
  /\ UNCHANGED <<managerVars, want, ttl, held, until, then, reaperVars,
                 worldVars, ghosts>>
-----------------------------------------------------------------------------
(***************************************************************************)
(* The reaper: at every tick a pass of ReapOnce.                           *)
(***************************************************************************)
Ticker ==
  /\ Goto(Reaper, "resting", "listing")
  /\ UNCHANGED <<container, managerVars, localVars, reaperVars, worldVars,
                 faults, ghosts>>

List ==
  /\ NoFault
  /\ Goto(Reaper, "listing", "picking")
  /\ seen' = {i \in Identifiers : Labelled(i) # {}}
  /\ now' = clock
  /\ UNCHANGED <<container, managerVars, localVars, worldVars, ghosts>>

ListFails ==
  /\ Fault
  /\ Goto(Reaper, "listing", "resting")
  /\ UNCHANGED <<container, managerVars, localVars, reaperVars, worldVars,
                 ghosts>>

(* Take the next identifier and read the expiry of its record; without one *)
(* the label has to do. Or end the pass. (The expiry is read right after   *)
(* m.mu is released; a record outside of the map does not change.)         *)
Pick ==
  \/ /\ seen = {}
     /\ Goto(Reaper, "picking", "resting")
     /\ UNCHANGED <<container, managerVars, localVars, reaperVars, worldVars,
                    faults, ghosts>>
  \/ \E i \in seen :
       /\ seen' = seen \ {i}
       /\ want' = [want EXCEPT ![Reaper] = i]
       /\ IF Busy(i) THEN Overlap(i) ELSE UNCHANGED overlaps
       /\ then' = [then EXCEPT ![Reaper] = "picking"]
       /\ finder' = [finder EXCEPT ![Reaper] = "ReapOnce"]
       /\ Goto(Reaper, "picking",
               CASE sandboxes[i] = None -> "finding"
                 [] sandboxes[i] # None /\ now > sandboxes[i].expires -> "dropping"
                 [] OTHER -> "picking")
       /\ UNCHANGED <<container, managerVars, ttl, held, until, now, worldVars,
                      faults, lease>>
-----------------------------------------------------------------------------
(***************************************************************************)
(* The world. Time goes on; after the last call, to the end of every TTL.  *)
(***************************************************************************)
TimePasses ==
  /\ \/ clock <= LastCall
     \/ /\ \A t \in Callers : pc[t] \in Ended \cup {"idle"}
        /\ clock <= LastCall + MaxTTL + 1
  /\ clock' = clock + 1
  /\ UNCHANGED <<container, managerVars, pc, localVars, reaperVars, faults,
                 crashes, ghosts>>

(* A container exits, or somebody removes it.                              *)
LoseContainer(c) ==
  /\ Exists(c)
  /\ Fault
  /\ \E state \in {"stopped", "removed"} :
       container[c].state # state /\ SetState(c, state)
  /\ UNCHANGED <<managerVars, pc, localVars, reaperVars, worldVars, ghosts>>

(* The process dies and comes back, perhaps with another configuration.    *)
Crash ==
  /\ crashes < MaxCrashes
  /\ faults + crashes < MaxTrouble
  /\ crashes' = crashes + 1
  /\ sandboxes' = [i \in Identifiers |-> None]
  /\ policy' \in Policies
  /\ pc' = [t \in Threads |->
       IF t = Reaper THEN "resting"
       ELSE IF pc[t] \in Resting THEN pc[t] ELSE "dead"]
  /\ seen' = {}
  /\ UNCHANGED <<container, localVars, now, clock, faults, ghosts>>

Find(t) == FindFails(t) \/ FindNothing(t) \/ FindOutdated(t) \/ FindOurs(t)
Delete(t) == Drop(t) \/ Find(t) \/ Stop(t) \/ Remove(t)
EnsureRunning(t) == InspectRunning(t) \/ InspectStopped(t) \/ StartOld(t)
                      \/ NotRunning(t)
Create(t) == Plan(t) \/ CreateContainer(t) \/ CreateFails(t)
               \/ StartNew(t) \/ StartNewFails(t) \/ Rollback(t) \/ Record(t)
Serve(t) == Lookup(t) \/ Extend(t) \/ EnsureRunning(t) \/ Adopt(t)
              \/ Create(t) \/ Delete(t)
Reap == Ticker \/ List \/ ListFails \/ Pick \/ Delete(Reaper)

Next == \/ \E t \in Callers :
             \/ \E call \in Calls[t] : Begin(t, call[1], call[2])
             \/ Serve(t)
        \/ Reap
        \/ TimePasses
        \/ \E c \in Containers : LoseContainer(c)
        \/ Crash

(***************************************************************************)
(* Goroutines go on, the ticker ticks, time passes. Nothing has to be      *)
(* called, to fail or to crash.                                            *)
(***************************************************************************)
Fairness == /\ \A t \in Callers : WF_vars(Serve(t))
            /\ WF_vars(Reap)
            /\ WF_vars(TimePasses)

SafetySpec == Init /\ [][Next]_vars
Spec == SafetySpec /\ Fairness
-----------------------------------------------------------------------------
(***************************************************************************)
(* Properties.                                                             *)
(***************************************************************************)
TypeOK ==
  /\ container \in [Containers -> Container]
  /\ sandboxes \in [Identifiers -> Sandbox \cup {None}]
  /\ policy \in Policies
  /\ pc \in [Threads -> Stages]
  /\ want \in [Threads -> Identifiers \cup {None}]
  /\ ttl \in [Threads -> Nat]
  /\ held \in [Threads -> Containers \cup {None}]
  /\ until \in [Threads -> Nat]
  /\ finder \in [Threads -> {"Ensure", "Delete", "ReapOnce"}]
  /\ then \in [Threads -> {"returned", "finding", "planning", "picking"}]
  /\ seen \subseteq Identifiers
  /\ now \in Nat
  /\ clock \in Nat
  /\ faults \in 0..MaxFaults
  /\ crashes \in 0..MaxCrashes
  /\ lease \in [Containers -> Nat]
  /\ overlapping \subseteq Identifiers /\ disturbed \subseteq Identifiers

(* c was made for identifier i under the policy of this process.           *)
Fits(c, i) == /\ c \in Containers
              /\ container[c].identifier = i
              /\ container[c].policy = policy

(* A sandbox is handed out to nobody but its own identifier, and never     *)
(* under a policy that is not configured any more: neither the record of   *)
(* an identifier nor the container that an Ensure is about to return,      *)
(* however it came by it, through restarts, adoption and deletions         *)
(* (manager.go:98-129, 413-430).                                           *)
OwnSandbox ==
  /\ \A i \in Identifiers :
       sandboxes[i] # None => Fits(sandboxes[i].container, i)
  /\ \A t \in Callers :
       pc[t] \in {"extending", "inspecting", "starting", "adopting", "startingNew",
                  "recording"} => Fits(held[t], want[t])

(* The tie between the map, the threads and the daemon's containers, which *)
(* every step of Ensure, Delete, Restart and ReapOnce keeps                *)
(* (manager.go:90-273, 401-453, 497-544): a container that was not created *)
(* yet is nobody's, and who works on a sandbox works for an identifier.    *)
IInv ==
  /\ TypeOK
  /\ OwnSandbox
  /\ \A c \in Containers :
       container[c].state = "unused" => container[c].identifier = None
  /\ \A t \in Threads :
       pc[t] \notin Resting \cup {"listing", "picking"} => want[t] \in Identifiers

(* The reaper takes the container c down.                                  *)
Reaps(c) == /\ Stop(Reaper) \/ Remove(Reaper)
            /\ container'[c] # container[c]

(* Until the process is restarted (only labels survive that), the reaper   *)
(* never takes down a sandbox before the time that the last Ensure has     *)
(* given it, unless calls for the identifier have overlapped, with one     *)
(* another or with the reaper, and none has returned a sandbox alone since *)
(* then: the record is extended whenever the sandbox is handed out, is     *)
(* dropped only with the sandbox, and has precedence over the label        *)
(* (manager.go:106-128, 168-178, 523-539).                                 *)
ReapsOnlyExpired ==
  [][\A c \in Containers :
       Reaps(c) /\ crashes = 0 =>
         want[Reaper] \in disturbed \/ clock > lease[c]]_vars

(* Once nothing uses them any more, all containers are removed at last:    *)
(* those whose start, record or deletion failed, those of a process that   *)
(* died, and those of a former policy (manager.go:235-238, 497-544).       *)
NothingIsLeft ==
  <>[](\A c \in Containers : ~Exists(c))
-----------------------------------------------------------------------------
(***************************************************************************)
(* What documentation says of the program and the code does not do.        *)
(***************************************************************************)

(* api.go:8 asks a backend to keep a sandbox alive until its TTL expires,  *)
(* or until it is deleted or restarted explicitly.                         *)
KeptUntilExpiry ==
  [][\A c \in Containers : Reaps(c) => clock > lease[c]]_vars
=============================================================================
