------------------------------ MODULE FIFOLock ------------------------------
(***************************************************************************)
(* internal/runs/lock.go: the FIFO lock a run takes when it asks for       *)
(* lock_sandbox. One step is one critical section of l.mu, or one select.  *)
(*                                                                         *)
(* A waiter is a channel, made by Acquire and known only to it and to the  *)
(* queue, so the caller stands for its channel; the channel is closed      *)
(* exactly when the caller is in `granted'.                                *)
(***************************************************************************)
EXTENDS Naturals, Sequences, SequencesExt

CONSTANTS
  Callers,     \* the goroutines that call Acquire
  Impatient    \* the callers whose context may end while they wait

ASSUME ImpatientAssumption == Impatient \subseteq Callers

VARIABLES
  queue,       \* l.queue
  locked,      \* l.locked
  granted,     \* the callers whose waiter channel is closed
  pc           \* where each caller is in Acquire and release

vars == <<queue, locked, granted, pc>>

(***************************************************************************)
(* "waiting" is at the select of line 29; "leaving" has seen its context   *)
(* end and its channel still open, and has not locked l.mu at line 41 yet; *)
(* "holding" has the release function.                                     *)
(***************************************************************************)
Stages == {"idle", "waiting", "leaving", "holding"}

Queued(p) == \E i \in 1..Len(queue) : queue[i] = p

Init ==
  /\ queue = <<>>
  /\ locked = FALSE
  /\ granted = {}
  /\ pc = [p \in Callers |-> "idle"]

-----------------------------------------------------------------------------
(***************************************************************************)
(* Plausible mistakes in lock.go. No specification uses them: each stands  *)
(* in for the action it varies when a property is tested for its teeth.    *)
(***************************************************************************)

(* Acquire that gives up and forgets to take its waiter out of the queue.  *)
LeaveInQueue(p) ==
  /\ pc[p] = "leaving"
  /\ granted' = granted \ {p}
  /\ pc' = [pc EXCEPT ![p] = "idle"]
  /\ UNCHANGED <<queue, locked>>

(* release that grants the front of the queue before it pops itself.       *)
ReleaseWithoutPop(p) ==
  /\ pc[p] = "holding"
  /\ granted' = granted \cup {Head(queue)}
  /\ pc' = [pc EXCEPT ![p] = "idle"]
  /\ UNCHANGED <<queue, locked>>

(* release that grants the newest waiter.                                  *)
ReleaseNewestFirst(p) ==
  /\ pc[p] = "holding"
  /\ queue' = Tail(queue)
  /\ IF queue' = <<>>
     THEN locked' = FALSE /\ granted' = granted \ {p}
     ELSE UNCHANGED locked /\ granted' = (granted \ {p}) \cup {Last(queue')}
  /\ pc' = [pc EXCEPT ![p] = "idle"]
-----------------------------------------------------------------------------
(* Acquire, first critical section: join the queue; granted at once when   *)
(* the lock is free and nobody else queues.                                *)
Acquire(p) ==
  /\ pc[p] = "idle"
  /\ queue' = Append(queue, p)
  /\ IF ~locked /\ Len(queue') = 1
     THEN locked' = TRUE /\ granted' = granted \cup {p}
     ELSE UNCHANGED <<locked, granted>>
  /\ pc' = [pc EXCEPT ![p] = "waiting"]

(* The outer select receives from the closed channel.                      *)
TakeGrant(p) ==
  /\ pc[p] = "waiting"
  /\ p \in granted
  /\ pc' = [pc EXCEPT ![p] = "holding"]
  /\ UNCHANGED <<queue, locked, granted>>

(* The outer select sees the context end (Go picks either ready case); the *)
(* inner select still takes a grant that is already there.                 *)
ContextDone(p) ==
  /\ p \in Impatient
  /\ pc[p] = "waiting"
  /\ pc' = [pc EXCEPT ![p] = IF p \in granted THEN "holding" ELSE "leaving"]
  /\ UNCHANGED <<queue, locked, granted>>

(* Second critical section of a caller that gives up: only the queue is    *)
(* looked at. A channel closed since the inner select becomes garbage.     *)
Leave(p) ==
  /\ pc[p] = "leaving"
  /\ \E i \in 1..Len(queue) : queue[i] = p /\ queue' = RemoveAt(queue, i)
  /\ granted' = granted \ {p}
  /\ pc' = [pc EXCEPT ![p] = "idle"]
  /\ UNCHANGED locked

(* release: pop the front of the queue, whoever it is, and grant the next. *)
Release(p) ==
  /\ pc[p] = "holding"
  /\ queue' = IF queue = <<>> THEN queue ELSE Tail(queue)
  /\ IF queue' = <<>>
     THEN locked' = FALSE /\ granted' = granted \ {p}
     ELSE UNCHANGED locked /\ granted' = (granted \ {p}) \cup {Head(queue')}
  /\ pc' = [pc EXCEPT ![p] = "idle"]

Next == \E p \in Callers :
          Acquire(p) \/ TakeGrant(p) \/ ContextDone(p) \/ Leave(p) \/ Release(p)

(***************************************************************************)
(* A goroutine at a ready select, or about to lock l.mu, runs on; a run    *)
(* ends (its commands are bounded by `timeout'), so a holder releases.     *)
(* Nothing makes a context end.                                            *)
(***************************************************************************)
Fairness == \A p \in Callers : WF_vars(TakeGrant(p)) /\ WF_vars(Leave(p))
                                                     /\ WF_vars(Release(p))

SafetySpec == Init /\ [][Next]_vars
Spec == SafetySpec /\ Fairness
-----------------------------------------------------------------------------
Holders == {p \in Callers : pc[p] = "holding"}

(* The queue holds callers, only callers own a grant, every caller is at   *)
(* one of the stages of Acquire and release (lock.go:12-66).               *)
TypeOK ==
  /\ queue \in Seq(Callers)
  /\ locked \in BOOLEAN
  /\ granted \subseteq Callers
  /\ pc \in [Callers -> Stages]

(* However Acquire, cancellation and release interleave, at most one caller *)
(* runs between a successful Acquire and its release (lock.go:8: "FIFO      *)
(* serialization per identifier").                                          *)
MutualExclusion == \A p, q \in Holders : p = q

(* The channel that release closes at line 64 is never one that is closed   *)
(* already: Go would panic with "close of closed channel".                  *)
NoDoubleClose ==
  [][\A p \in Callers :
        Release(p) /\ queue' # <<>> => Head(queue') \notin granted]_vars

(* A locked lock has somebody to unlock it: the grant that release gave is  *)
(* with a caller that will use it. The comment at lock.go:33-34 claims it.  *)
NotStuck == locked => granted # {}

(* The lock implements the abstract first-come first-served mutex.          *)
Mutex == INSTANCE FIFOMutex WITH line <- queue, inside <- Holders
ImplementsFIFOMutex == Mutex!Spec

(* A grant lost to a caller that was giving up is the only way to starve:   *)
(* as long as that does not happen, every Acquire returns (lock.go:29-50).  *)
StarvedOnlyByLostGrant ==
  []NotStuck => \A p \in Callers : pc[p] = "waiting" ~> pc[p] # "waiting"
-----------------------------------------------------------------------------
(***************************************************************************)
(* The inductive invariant.                                                *)
(***************************************************************************)
NoDuplicates ==
  \A i, j \in 1..Len(queue) : queue[i] = queue[j] => i = j

QueuedAreBusy ==
  \A p \in Callers : Queued(p) <=> pc[p] # "idle"

GrantIsAtFront ==
  \A p \in granted : queue # <<>> /\ queue[1] = p

HoldersAreGranted == Holders \subseteq granted

BusyIsLocked == queue # <<>> => locked

(* Who queues, who is granted and who holds, tied together: the facts that  *)
(* mutual exclusion and the refinement rest on (lock.go:12-66).             *)
IInv ==
  /\ TypeOK
  /\ NoDuplicates
  /\ QueuedAreBusy
  /\ GrantIsAtFront
  /\ HoldersAreGranted
  /\ BusyIsLocked
=============================================================================
