--------------------------- MODULE FIFOLockProofs ---------------------------
(***************************************************************************)
(* The safety of FIFOLock for every set of callers: the invariant IInv is  *)
(* inductive, it gives mutual exclusion, and with it every step of the     *)
(* lock is a step of FIFOMutex or none.                                    *)
(***************************************************************************)
EXTENDS FIFOLock, SequenceTheorems, TLAPS

-----------------------------------------------------------------------------
(* What RemoveAt returns: the other elements, in their order. It stands for *)
(* the loop and append of lock.go:42-47.                                    *)
LEMMA RemoveAtProperties ==
  ASSUME NEW S, NEW s \in Seq(S), NEW i \in 1..Len(s)
  PROVE  /\ RemoveAt(s, i) \in Seq(S)
         /\ Len(RemoveAt(s, i)) = Len(s) - 1
         /\ \A j \in 1..(Len(s) - 1) :
               RemoveAt(s, i)[j] = IF j < i THEN s[j] ELSE s[j + 1]
<1> DEFINE a == SubSeq(s, 1, i - 1)
           b == SubSeq(s, i + 1, Len(s))
<1>1. a \in Seq(S) /\ Len(a) = i - 1 /\ \A j \in 1..(i - 1) : a[j] = s[j]
  OBVIOUS
<1>2. b \in Seq(S) /\ Len(b) = Len(s) - i /\ \A j \in 1..(Len(s) - i) : b[j] = s[j + i]
  OBVIOUS
<1> HIDE DEF a, b
<1>3. a \o b \in Seq(S) /\ Len(a \o b) = Len(a) + Len(b)
  BY <1>1, <1>2, ConcatProperties
<1>4. Len(a) + Len(b) = Len(s) - 1
  BY <1>1, <1>2
<1>5. \A j \in 1..(Len(s) - 1) : (a \o b)[j] = IF j < i THEN s[j] ELSE s[j + 1]
  BY <1>1, <1>2
<1> QED
  BY <1>3, <1>4, <1>5 DEF RemoveAt, a, b

(* The head of a non-empty queue is its first element (lock.go:62).        *)
LEMMA HeadIsFirst ==
  ASSUME NEW S, NEW s \in Seq(S), s # <<>>
  PROVE  Head(s) = s[1] /\ Len(s) \in Nat /\ Len(s) >= 1
BY EmptySeq, LenProperties

LEMMA IInvInit == Init => IInv
<1> SUFFICES ASSUME Init
             PROVE  IInv
  OBVIOUS
<1>1. queue \in Seq(Callers) /\ Len(queue) = 0
  BY EmptySeq DEF Init
<1>2. TypeOK
  BY <1>1 DEF Init, TypeOK, Stages
<1>3. NoDuplicates
  BY <1>1 DEF NoDuplicates
<1>4. QueuedAreBusy
  BY <1>1 DEF Init, QueuedAreBusy, Queued
<1>5. GrantIsAtFront /\ BusyIsLocked
  BY DEF Init, GrantIsAtFront, BusyIsLocked
<1>6. HoldersAreGranted
  BY DEF Init, HoldersAreGranted, Holders
<1> QED BY <1>2, <1>3, <1>4, <1>5, <1>6 DEF IInv

LEMMA AcquireKeepsIInv ==
  ASSUME IInv, NEW p \in Callers, Acquire(p)
  PROVE  IInv'
<1>1. /\ Len(queue) \in Nat
      /\ \A i \in 1..Len(queue) : queue[i] \in Callers /\ queue[i] # p
  BY LenProperties, ElementOfSeq
  DEF IInv, TypeOK, QueuedAreBusy, Queued, Acquire
<1>2. /\ queue' \in Seq(Callers)
      /\ queue' # <<>>
      /\ Len(queue') = Len(queue) + 1
      /\ \A i \in 1..Len(queue) : queue'[i] = queue[i]
      /\ queue'[Len(queue) + 1] = p
  BY AppendProperties DEF IInv, TypeOK, Acquire
<1>3. TypeOK'
  BY <1>2 DEF IInv, TypeOK, Acquire, Stages
<1>4. NoDuplicates'
  BY <1>1, <1>2 DEF IInv, NoDuplicates
<1>5. QueuedAreBusy'
  BY <1>1, <1>2 DEF IInv, TypeOK, QueuedAreBusy, Queued, Acquire, Stages
<1>6. GrantIsAtFront'
  <2>1. CASE ~locked /\ Len(queue') = 1
    <3>1. Len(queue) = 0
      BY <2>1, <1>1, <1>2
    <3>2. granted = {}
      BY <3>1, HeadIsFirst DEF IInv, TypeOK, GrantIsAtFront
    <3> QED BY <2>1, <3>1, <3>2, <1>2 DEF Acquire, GrantIsAtFront
  <2>2. CASE ~(~locked /\ Len(queue') = 1)
    <3>1. granted' = granted
      BY <2>2 DEF Acquire
    <3>2. ASSUME NEW g \in granted
          PROVE  queue' # <<>> /\ queue'[1] = g
      <4>1. Len(queue) >= 1 /\ queue[1] = g
        BY HeadIsFirst DEF IInv, TypeOK, GrantIsAtFront
      <4> QED BY <4>1, <1>1, <1>2
    <3> QED BY <3>1, <3>2 DEF GrantIsAtFront
  <2> QED BY <2>1, <2>2
<1>7. HoldersAreGranted'
  BY DEF IInv, TypeOK, HoldersAreGranted, Holders, Acquire
<1>8. BusyIsLocked'
  <2>1. CASE Len(queue) = 0
    BY <2>1, <1>1, <1>2 DEF BusyIsLocked, Acquire, IInv, TypeOK
  <2>2. CASE Len(queue) # 0
    <3>1. locked
      BY <2>2, EmptySeq DEF IInv, TypeOK, BusyIsLocked
    <3> QED BY <3>1 DEF BusyIsLocked, Acquire
  <2> QED BY <2>1, <2>2
<1> QED BY <1>3, <1>4, <1>5, <1>6, <1>7, <1>8 DEF IInv

LEMMA TakeGrantKeepsIInv ==
  ASSUME IInv, NEW p \in Callers, TakeGrant(p)
  PROVE  IInv'
BY DEF TakeGrant, IInv, TypeOK, NoDuplicates, QueuedAreBusy, Queued,
   GrantIsAtFront, HoldersAreGranted, BusyIsLocked, Holders, Stages

LEMMA ContextDoneKeepsIInv ==
  ASSUME IInv, NEW p \in Callers, ContextDone(p)
  PROVE  IInv'
BY DEF ContextDone, IInv, TypeOK, NoDuplicates, QueuedAreBusy, Queued,
   GrantIsAtFront, HoldersAreGranted, BusyIsLocked, Holders, Stages

LEMMA LeaveKeepsIInv ==
  ASSUME IInv, NEW p \in Callers, Leave(p)
  PROVE  IInv'
<1>1. PICK i \in 1..Len(queue) : queue[i] = p /\ queue' = RemoveAt(queue, i)
  BY DEF Leave
<1>2. /\ queue \in Seq(Callers)
      /\ Len(queue) \in Nat
      /\ \A j \in 1..Len(queue) : queue[j] \in Callers
  BY LenProperties, ElementOfSeq DEF IInv, TypeOK
<1>3. /\ queue' \in Seq(Callers)
      /\ Len(queue') = Len(queue) - 1
      /\ \A j \in 1..(Len(queue) - 1) :
            queue'[j] = IF j < i THEN queue[j] ELSE queue[j + 1]
  BY <1>1, <1>2, RemoveAtProperties
<1>4. \A j \in 1..Len(queue) : queue[j] = p <=> j = i
  BY <1>1, <1>2 DEF IInv, NoDuplicates
<1>5. TypeOK'
  BY <1>3 DEF IInv, TypeOK, Leave, Stages
<1>6. NoDuplicates'
  <2> SUFFICES ASSUME NEW j \in 1..Len(queue'), NEW k \in 1..Len(queue'),
                      queue'[j] = queue'[k]
               PROVE  j = k
    BY DEF NoDuplicates
  <2> DEFINE old(n) == IF n < i THEN n ELSE n + 1
  <2>1. /\ old(j) \in 1..Len(queue)
        /\ old(k) \in 1..Len(queue)
        /\ queue'[j] = queue[old(j)]
        /\ queue'[k] = queue[old(k)]
    BY <1>1, <1>2, <1>3
  <2>2. old(j) = old(k)
    BY <2>1 DEF IInv, NoDuplicates
  <2> QED BY <2>2, <1>2, <1>3
<1>7. QueuedAreBusy'
  <2> SUFFICES ASSUME NEW q \in Callers
               PROVE  Queued(q)' <=> pc'[q] # "idle"
    BY DEF QueuedAreBusy
  <2>1. CASE q = p
    <3>1. ASSUME NEW j \in 1..Len(queue')
          PROVE  queue'[j] # p
      BY <1>1, <1>2, <1>3, <1>4
    <3> QED BY <2>1, <3>1 DEF Queued, Leave, IInv, TypeOK
  <2>2. CASE q # p
    <3>1. pc'[q] = pc[q]
      BY <2>2 DEF Leave, IInv, TypeOK
    <3>2. ASSUME Queued(q)'
          PROVE  Queued(q)
      BY <3>2, <1>1, <1>2, <1>3 DEF Queued
    <3>3. ASSUME Queued(q)
          PROVE  Queued(q)'
      <4>1. PICK j \in 1..Len(queue) : queue[j] = q
        BY <3>3 DEF Queued
      <4>2. j # i
        BY <4>1, <2>2, <1>1
      <4> DEFINE k == IF j < i THEN j ELSE j - 1
      <4>3. k \in 1..Len(queue') /\ queue'[k] = queue[j]
        BY <4>2, <1>1, <1>2, <1>3
      <4> QED BY <4>1, <4>3 DEF Queued
    <3> QED BY <3>1, <3>2, <3>3 DEF IInv, QueuedAreBusy
  <2> QED BY <2>1, <2>2
<1>8. GrantIsAtFront'
  <2> SUFFICES ASSUME NEW g \in granted, g # p
               PROVE  queue' # <<>> /\ queue'[1] = g
    BY DEF GrantIsAtFront, Leave
  <2>1. Len(queue) >= 1 /\ queue[1] = g
    BY HeadIsFirst, <1>2 DEF IInv, GrantIsAtFront
  <2>2. i # 1
    BY <2>1, <1>1
  <2>3. Len(queue') >= 1
    BY <2>2, <1>1, <1>2, <1>3
  <2>4. queue' # <<>>
    BY <2>3, EmptySeq
  <2>5. queue'[1] = queue[1]
    BY <2>2, <2>3, <1>1, <1>2, <1>3
  <2> QED BY <2>1, <2>4, <2>5
<1>9. HoldersAreGranted'
  BY DEF IInv, TypeOK, HoldersAreGranted, Holders, Leave
<1>10. BusyIsLocked'
  <2>1. queue # <<>>
    BY <1>1, EmptySeq
  <2> QED BY <2>1 DEF IInv, BusyIsLocked, Leave
<1> QED BY <1>5, <1>6, <1>7, <1>8, <1>9, <1>10 DEF IInv

(* The caller that releases is the front of the queue, and nobody else owns *)
(* a grant: what lock.go:55-57 takes for granted when it pops blindly.      *)
LEMMA HolderIsAtFront ==
  ASSUME IInv, NEW p \in Holders
  PROVE  queue # <<>> /\ queue[1] = p /\ Head(queue) = p /\ granted = {p}
<1>1. queue # <<>> /\ queue[1] = p /\ p \in granted
  BY DEF IInv, HoldersAreGranted, GrantIsAtFront
<1>2. Head(queue) = p
  BY <1>1, HeadIsFirst DEF IInv, TypeOK
<1>3. granted = {p}
  BY <1>1 DEF IInv, GrantIsAtFront
<1> QED BY <1>1, <1>2, <1>3

LEMMA ReleaseKeepsIInv ==
  ASSUME IInv, NEW p \in Callers, Release(p)
  PROVE  IInv'
<1>1. /\ queue # <<>>
      /\ queue[1] = p
      /\ granted = {p}
  BY HolderIsAtFront DEF Release, Holders
<1>2. /\ queue \in Seq(Callers)
      /\ Len(queue) \in Nat
      /\ Len(queue) >= 1
      /\ \A j \in 1..Len(queue) : queue[j] \in Callers
  BY <1>1, LenProperties, ElementOfSeq, HeadIsFirst DEF IInv, TypeOK
<1>3. /\ queue' \in Seq(Callers)
      /\ Len(queue') = Len(queue) - 1
      /\ \A j \in 1..Len(queue') : queue'[j] = queue[j + 1]
  BY <1>1, <1>2, HeadTailProperties DEF Release
<1>4. queue' # <<>> => /\ Head(queue') \in Callers
                       /\ Head(queue') = queue'[1]
  BY <1>3, HeadTailProperties, HeadIsFirst
<1>5. TypeOK'
  BY <1>3, <1>4 DEF IInv, TypeOK, Release, Stages
<1>6. NoDuplicates'
  <2> SUFFICES ASSUME NEW j \in 1..Len(queue'), NEW k \in 1..Len(queue'),
                      queue'[j] = queue'[k]
               PROVE  j = k
    BY DEF NoDuplicates
  <2>1. /\ j + 1 \in 1..Len(queue)
        /\ k + 1 \in 1..Len(queue)
        /\ queue[j + 1] = queue[k + 1]
    BY <1>2, <1>3
  <2>2. j + 1 = k + 1
    BY <2>1 DEF IInv, NoDuplicates
  <2> QED BY <2>2, <1>2, <1>3
<1>7. QueuedAreBusy'
  <2> SUFFICES ASSUME NEW q \in Callers
               PROVE  Queued(q)' <=> pc'[q] # "idle"
    BY DEF QueuedAreBusy
  <2>1. ASSUME Queued(q)'
        PROVE  Queued(q) /\ q # p
    <3>1. PICK j \in 1..Len(queue') : queue'[j] = q
      BY <2>1 DEF Queued
    <3>2. j + 1 \in 1..Len(queue) /\ queue[j + 1] = q /\ j + 1 # 1
      BY <3>1, <1>2, <1>3
    <3> QED BY <3>2, <1>1, <1>2 DEF Queued, IInv, NoDuplicates
  <2>2. ASSUME Queued(q), q # p
        PROVE  Queued(q)'
    <3>1. PICK j \in 1..Len(queue) : queue[j] = q
      BY <2>2 DEF Queued
    <3>2. j - 1 \in 1..Len(queue') /\ queue'[j - 1] = q
      BY <3>1, <2>2, <1>1, <1>2, <1>3
    <3> QED BY <3>2 DEF Queued
  <2> QED BY <2>1, <2>2 DEF IInv, TypeOK, QueuedAreBusy, Release
<1>8. GrantIsAtFront'
  BY <1>1, <1>4 DEF GrantIsAtFront, Release
<1>9. HoldersAreGranted'
  <2>1. Holders' = {}
    BY <1>1 DEF IInv, TypeOK, HoldersAreGranted, Holders, Release
  <2> QED BY <2>1 DEF HoldersAreGranted
<1>10. BusyIsLocked'
  BY <1>1 DEF IInv, BusyIsLocked, Release
<1> QED BY <1>5, <1>6, <1>7, <1>8, <1>9, <1>10 DEF IInv

LEMMA StutterKeepsIInv ==
  ASSUME IInv, UNCHANGED vars
  PROVE  IInv'
BY DEF vars, IInv, TypeOK, NoDuplicates, QueuedAreBusy, Queued,
   GrantIsAtFront, HoldersAreGranted, BusyIsLocked, Holders

LEMMA IInvInductive == IInv /\ [Next]_vars => IInv'
<1> SUFFICES ASSUME IInv, [Next]_vars
             PROVE  IInv'
  OBVIOUS
<1>1. ASSUME NEW p \in Callers, Acquire(p)
      PROVE  IInv'
  BY <1>1, AcquireKeepsIInv
<1>2. ASSUME NEW p \in Callers, TakeGrant(p)
      PROVE  IInv'
  BY <1>2, TakeGrantKeepsIInv
<1>3. ASSUME NEW p \in Callers, ContextDone(p)
      PROVE  IInv'
  BY <1>3, ContextDoneKeepsIInv
<1>4. ASSUME NEW p \in Callers, Leave(p)
      PROVE  IInv'
  BY <1>4, LeaveKeepsIInv
<1>5. ASSUME NEW p \in Callers, Release(p)
      PROVE  IInv'
  BY <1>5, ReleaseKeepsIInv
<1>6. CASE UNCHANGED vars
  BY <1>6, StutterKeepsIInv
<1> QED BY <1>1, <1>2, <1>3, <1>4, <1>5, <1>6 DEF Next

-----------------------------------------------------------------------------
(* The facts that tie queue, grants and holders together hold in every      *)
(* state of the lock, for any number of goroutines (lock.go:12-66).         *)
THEOREM InvariantHolds == SafetySpec => []IInv
BY IInvInit, IInvInductive, PTL DEF SafetySpec

(* At most one goroutine is between a successful Acquire and its release,   *)
(* whatever gives up in between (lock.go:8, "FIFO serialization").          *)
THEOREM MutualExclusionHolds == SafetySpec => []MutualExclusion
<1>1. IInv => MutualExclusion
  BY DEF IInv, HoldersAreGranted, GrantIsAtFront, MutualExclusion
<1> QED BY <1>1, InvariantHolds, PTL

(* release never closes a channel that is closed already (lock.go:63-64):   *)
(* the only grant is the releaser's own, and it leaves the queue.           *)
THEOREM NoDoubleCloseHolds == SafetySpec => NoDoubleClose
<1> DEFINE Fresh == \A p \in Callers :
              Release(p) /\ queue' # <<>> => Head(queue') \notin granted
<1>1. IInv /\ [Next]_vars => [Fresh]_vars
  <2> SUFFICES ASSUME IInv, NEW p \in Callers, Release(p), queue' # <<>>
               PROVE  Head(queue') \notin granted
    OBVIOUS
  <2>1. /\ queue # <<>>
        /\ queue[1] = p
        /\ granted = {p}
    BY HolderIsAtFront DEF Release, Holders
  <2>2. /\ queue \in Seq(Callers)
        /\ Len(queue) \in Nat
        /\ queue' = Tail(queue)
    BY <2>1, LenProperties DEF IInv, TypeOK, Release
  <2>3. /\ queue' \in Seq(Callers)
        /\ Len(queue') = Len(queue) - 1
        /\ \A j \in 1..Len(queue') : queue'[j] = queue[j + 1]
    BY <2>1, <2>2, HeadTailProperties
  <2>4. /\ Head(queue') = queue'[1]
        /\ Len(queue') >= 1
    BY <2>3, HeadIsFirst
  <2>5. Head(queue') = queue[2] /\ 2 \in 1..Len(queue)
    BY <2>2, <2>3, <2>4
  <2>6. Head(queue') # queue[1]
    BY <2>1, <2>2, <2>5 DEF IInv, NoDuplicates
  <2> QED BY <2>1, <2>6
<1>2. SafetySpec => [][Next]_vars
  BY PTL DEF SafetySpec
<1> QED BY <1>1, <1>2, InvariantHolds, PTL DEF NoDoubleClose

-----------------------------------------------------------------------------
(***************************************************************************)
(* Refinement: Acquire is Join, TakeGrant and a lucky ContextDone are      *)
(* Enter, Leave is GiveUp, Release is Exit; an unlucky ContextDone         *)
(* changes nothing that the abstract line can see.                         *)
(***************************************************************************)
LEMMA MutexInit == Init => Mutex!Init
BY DEF Init, Mutex!Init, Holders

(* A caller that is granted and waits finds the lock empty and itself first. *)
LEMMA GrantIsEnter ==
  ASSUME IInv, NEW p \in Callers, pc[p] = "waiting", p \in granted,
         pc' = [pc EXCEPT ![p] = "holding"], queue' = queue
  PROVE  Mutex!Enter(p)
<1>1. queue # <<>> /\ queue[1] = p
  BY DEF IInv, GrantIsAtFront
<1>2. Head(queue) = p /\ Len(queue) \in Nat /\ Len(queue) >= 1
  BY <1>1, HeadIsFirst DEF IInv, TypeOK
<1>3. Holders = {}
  BY <1>1 DEF Holders, IInv, HoldersAreGranted, GrantIsAtFront
<1>4. Holders' = {p}
  BY <1>3 DEF Holders, IInv, TypeOK
<1>5. \E i \in 1..Len(queue) : queue[i] = p
  BY <1>1, <1>2
<1> QED BY <1>2, <1>3, <1>4, <1>5 DEF Mutex!Enter, Mutex!Waiting

LEMMA MutexStep == IInv /\ [Next]_vars => [Mutex!Next]_(Mutex!vars)
<1> SUFFICES ASSUME IInv, [Next]_vars
             PROVE  [Mutex!Next]_(Mutex!vars)
  OBVIOUS
<1>1. ASSUME NEW p \in Callers, Acquire(p)
      PROVE  Mutex!Join(p)
  <2>1. Holders' = Holders
    BY <1>1 DEF Acquire, Holders, IInv, TypeOK
  <2>2. \A i \in 1..Len(queue) : queue[i] # p
    BY <1>1 DEF Acquire, IInv, QueuedAreBusy, Queued
  <2> QED BY <1>1, <2>1, <2>2 DEF Acquire, Mutex!Join
<1>2. ASSUME NEW p \in Callers, TakeGrant(p)
      PROVE  Mutex!Enter(p)
  BY <1>2, GrantIsEnter DEF TakeGrant
<1>3. ASSUME NEW p \in Callers, ContextDone(p)
      PROVE  Mutex!Enter(p) \/ UNCHANGED Mutex!vars
  <2>1. CASE p \in granted
    BY <2>1, <1>3, GrantIsEnter DEF ContextDone
  <2>2. CASE p \notin granted
    <3>1. Holders' = Holders
      BY <2>2, <1>3 DEF ContextDone, Holders, IInv, TypeOK
    <3> QED BY <3>1, <1>3 DEF ContextDone, Mutex!vars
  <2> QED BY <2>1, <2>2
<1>4. ASSUME NEW p \in Callers, Leave(p)
      PROVE  Mutex!GiveUp(p)
  <2>1. Holders' = Holders /\ p \notin Holders
    BY <1>4 DEF Leave, Holders, IInv, TypeOK
  <2>2. PICK i \in 1..Len(queue) : queue[i] = p /\ queue' = RemoveAt(queue, i)
    BY <1>4 DEF Leave
  <2>3. queue' = Mutex!RemoveAt(queue, i)
    BY <2>2 DEF RemoveAt, Mutex!RemoveAt
  <2> QED BY <2>1, <2>2, <2>3 DEF Mutex!GiveUp, Mutex!Waiting
<1>5. ASSUME NEW p \in Callers, Release(p)
      PROVE  Mutex!Exit(p)
  <2>1. queue # <<>> /\ Head(queue) = p /\ granted = {p} /\ p \in Holders
    BY <1>5, HolderIsAtFront DEF Release, Holders
  <2>2. Holders = {p} /\ Holders' = {}
    BY <2>1, <1>5 DEF Release, Holders, IInv, TypeOK, HoldersAreGranted
  <2> QED BY <2>1, <2>2, <1>5 DEF Release, Mutex!Exit
<1>6. CASE UNCHANGED vars
  BY <1>6 DEF vars, Mutex!vars, Holders
<1> QED BY <1>1, <1>2, <1>3, <1>4, <1>5, <1>6 DEF Next, Mutex!Next

(* The lock of lock.go, cancellations and the lost grant included, never    *)
(* does what the abstract first-come first-served mutex may not do.         *)
THEOREM Refinement == SafetySpec => ImplementsFIFOMutex
<1>1. Mutex!Init /\ [][Mutex!Next]_(Mutex!vars) => Mutex!Spec
  BY DEF Mutex!Spec
<1> QED BY <1>1, MutexInit, MutexStep, InvariantHolds, PTL
        DEF SafetySpec, ImplementsFIFOMutex
=============================================================================
