------------------------- MODULE LinkedQueue_proof -------------------------
(***************************************************************************)
(* LinkedQueue for every set of threads and of values and every bound: its *)
(* types, mutual exclusion, the discipline of the notify list, that a      *)
(* closed queue keeps nobody asleep, that no wake-up is lost, and that it  *)
(* implements FifoQueue.                                                   *)
(***************************************************************************)
EXTENDS LinkedQueue, FiniteSetTheorems, TLAPS

(* Taking the oldest ticket off a list of distinct tickets removes exactly *)
(* that ticket.                                                            *)
LEMMA TailTickets ==
  ASSUME NEW s \in Seq(Threads), s # <<>>,
         \A i, j \in 1 .. Len(s) : s[i] = s[j] => i = j
  PROVE  /\ Head(s) \in Threads
         /\ Tail(s) \in Seq(Threads)
         /\ \E i \in 1 .. Len(s) : s[i] = Head(s)
         /\ \A i, j \in 1 .. Len(Tail(s)) : Tail(s)[i] = Tail(s)[j] => i = j
         /\ \A u \in Threads : (\E i \in 1 .. Len(Tail(s)) : Tail(s)[i] = u)
              <=> (u # Head(s) /\ \E i \in 1 .. Len(s) : s[i] = u)
<1>1. /\ Len(s) \in Nat \ {0}
      /\ Len(Tail(s)) = Len(s) - 1
      /\ \A i \in 1 .. Len(Tail(s)) : Tail(s)[i] = s[i + 1]
      /\ Head(s) = s[1]
  OBVIOUS
<1>2. Head(s) \in Threads /\ Tail(s) \in Seq(Threads)
  OBVIOUS
<1>3. \E i \in 1 .. Len(s) : s[i] = Head(s)
  BY <1>1
<1>4. \A i, j \in 1 .. Len(Tail(s)) : Tail(s)[i] = Tail(s)[j] => i = j
  BY <1>1
<1>5. ASSUME NEW u \in Threads
      PROVE  (\E i \in 1 .. Len(Tail(s)) : Tail(s)[i] = u)
               <=> (u # Head(s) /\ \E i \in 1 .. Len(s) : s[i] = u)
  <2>1. ASSUME NEW i \in 1 .. Len(Tail(s)), Tail(s)[i] = u
        PROVE  u # Head(s) /\ \E k \in 1 .. Len(s) : s[k] = u
    <3>1. i + 1 \in 1 .. Len(s) /\ s[i + 1] = u /\ i + 1 # 1
      BY <1>1, <2>1
    <3> QED BY <1>1, <3>1
  <2>2. ASSUME u # Head(s), NEW i \in 1 .. Len(s), s[i] = u
        PROVE  \E k \in 1 .. Len(Tail(s)) : Tail(s)[k] = u
    <3>1. i - 1 \in 1 .. Len(Tail(s)) /\ Tail(s)[i - 1] = u
      BY <1>1, <2>2
    <3> QED BY <3>1
  <2> QED BY <2>1, <2>2
<1> QED BY <1>2, <1>3, <1>4, <1>5

LEMMA InitQueueInv == Init => QueueInv
<1> SUFFICES ASSUME Init PROVE QueueInv
  OBVIOUS
<1>1. queue \in Seq(Values) /\ waiters \in Seq(Threads) /\ Len(waiters) = 0
  BY DEF Init
<1>2. pc \in [Threads -> Outside \cup Inside] /\ val \in [Threads -> Values \cup {NotOk}]
  BY DEF Init, Outside
<1>3. TypeOK
  BY <1>1, <1>2 DEF Init, TypeOK
<1>4. PushHasValue /\ MutualExclusion
  BY ThreadsAssumption DEF Init, PushHasValue, MutualExclusion, Inside
<1>5. WaitersWait
  BY <1>1 DEF Init, WaitersWait
<1> QED BY <1>3, <1>4, <1>5 DEF QueueInv

(* What PushSignal does to the threads: the caller goes on to unlock, and  *)
(* the oldest waiter, if there is one, goes after the lock.                *)
LEMMA SignalStep ==
  ASSUME QueueInv, NEW t \in Threads, PushSignal(t), waiters # <<>>
  PROVE  /\ Head(waiters) \in Threads /\ Head(waiters) # t
         /\ pc[Head(waiters)] = "pullWait"
         /\ pc' = [pc EXCEPT ![t] = "unlock", ![Head(waiters)] = "pullRelock"]
         /\ waiters' = Tail(waiters)
<1>1. Head(waiters) \in Threads /\ \E i \in 1 .. Len(waiters) : waiters[i] = Head(waiters)
  BY TailTickets DEF QueueInv, TypeOK, WaitersWait
<1>2. pc[Head(waiters)] = "pullWait"
  BY <1>1 DEF QueueInv, WaitersWait
<1> QED BY <1>1, <1>2 DEF PushSignal, At

LEMMA NextQueueInv == QueueInv /\ [Next]_vars => QueueInv'
<1> SUFFICES ASSUME QueueInv, [Next]_vars PROVE QueueInv'
  OBVIOUS
<1> USE DEF QueueInv, At, Goto
<1>1. CASE UNCHANGED vars
  BY <1>1 DEF vars, TypeOK, PushHasValue, MutualExclusion, WaitersWait
<1>2. ASSUME NEW t \in Threads, CallPush(t) PROVE QueueInv'
  BY <1>2, ThreadsAssumption
  DEF CallPush, TypeOK, PushHasValue, MutualExclusion, WaitersWait, Inside, Outside
<1>3. ASSUME NEW t \in Threads, CallPull(t) PROVE QueueInv'
  BY <1>3, ThreadsAssumption
  DEF CallPull, TypeOK, PushHasValue, MutualExclusion, WaitersWait, Inside, Outside
<1>4. ASSUME NEW t \in Threads, CallClose(t) PROVE QueueInv'
  BY <1>4, ThreadsAssumption
  DEF CallClose, TypeOK, PushHasValue, MutualExclusion, WaitersWait, Inside, Outside
<1>5. ASSUME NEW t \in Threads, Lock(t) PROVE QueueInv'
  <2>1. pc[t] \in {"pushLock", "pullLock", "closeLock", "pullRelock"}
    BY <1>5 DEF Lock, AfterLock
  <2>2. AfterLock[pc[t]] \in {"pushBack", "pullCheck", "closeSet"}
        /\ (AfterLock[pc[t]] = "pushBack" => pc[t] = "pushLock")
    BY <2>1 DEF AfterLock
  <2> QED BY <1>5, <2>1, <2>2, ThreadsAssumption
      DEF Lock, TypeOK, PushHasValue, MutualExclusion, WaitersWait, Inside, Outside
<1>6. ASSUME NEW t \in Threads, Unlock(t) PROVE QueueInv'
  BY <1>6, ThreadsAssumption
  DEF Unlock, TypeOK, PushHasValue, MutualExclusion, WaitersWait, Inside, Outside
<1>7. ASSUME NEW t \in Threads, PushBack(t) PROVE QueueInv'
  <2>1. CASE closed
    BY <1>7, <2>1 DEF PushBack, TypeOK, PushHasValue, MutualExclusion, WaitersWait
  <2>2. CASE ~closed
    <3>1. pc[t] = "pushBack" /\ pc' = [pc EXCEPT ![t] = "pushSignal"]
          /\ queue' = Append(queue, val[t])
          /\ UNCHANGED <<closed, mutex, waiters, val, panicked>>
      BY <1>7, <2>2 DEF PushBack
    <3>2. queue' \in Seq(Values)
      BY <3>1 DEF TypeOK, PushHasValue
    <3> QED BY <3>1, <3>2
        DEF TypeOK, PushHasValue, MutualExclusion, WaitersWait, Inside, Outside
  <2> QED BY <2>1, <2>2
<1>8. ASSUME NEW t \in Threads, PushSignal(t) PROVE QueueInv'
  <2>1. CASE waiters = <<>>
    BY <1>8, <2>1, ThreadsAssumption
    DEF PushSignal, TypeOK, PushHasValue, MutualExclusion, WaitersWait, Inside, Outside
  <2>2. CASE waiters # <<>>
    <3>1. /\ Head(waiters) \in Threads /\ Head(waiters) # t
          /\ pc[Head(waiters)] = "pullWait"
          /\ pc' = [pc EXCEPT ![t] = "unlock", ![Head(waiters)] = "pullRelock"]
          /\ waiters' = Tail(waiters)
      BY <1>8, <2>2, SignalStep
    <3>2. pc[t] = "pushSignal"
          /\ UNCHANGED <<queue, closed, mutex, val, panicked>>
      BY <1>8 DEF PushSignal
    <3>3. waiters' \in Seq(Threads)
      BY <3>1, <2>2 DEF TypeOK
    <3>5. TypeOK' /\ PushHasValue' /\ MutualExclusion'
      BY <3>1, <3>2, <3>3 DEF TypeOK, PushHasValue, MutualExclusion, Inside, Outside
    <3>4. WaitersWait'
      <4>1. /\ \A i, j \in 1 .. Len(waiters') : waiters'[i] = waiters'[j] => i = j
            /\ \A u \in Threads : (\E i \in 1 .. Len(waiters') : waiters'[i] = u)
                 <=> (u # Head(waiters) /\ \E i \in 1 .. Len(waiters) : waiters[i] = u)
        <5>1. waiters \in Seq(Threads) /\ waiters # <<>>
              /\ \A i, j \in 1 .. Len(waiters) : waiters[i] = waiters[j] => i = j
          BY <2>2 DEF TypeOK, WaitersWait
        <5> QED BY <5>1, <3>1, TailTickets
      <4>2. \A u \in Threads : pc'[u] = "pullWait" <=> pc[u] = "pullWait" /\ u # Head(waiters)
        BY <3>1, <3>2 DEF TypeOK
      <4> QED BY <4>1, <4>2 DEF WaitersWait
    <3> QED BY <3>5, <3>4
  <2> QED BY <2>1, <2>2
<1>9. ASSUME NEW t \in Threads, PullTake(t) PROVE QueueInv'
  <2>1. Head(queue) \in Values /\ Tail(queue) \in Seq(Values)
    BY <1>9 DEF PullTake, TypeOK
  <2> QED BY <1>9, <2>1 DEF PullTake, TypeOK, PushHasValue, MutualExclusion, WaitersWait, Inside, Outside
<1>10. ASSUME NEW t \in Threads, PullClosed(t) PROVE QueueInv'
  BY <1>10, ThreadsAssumption
  DEF PullClosed, TypeOK, PushHasValue, MutualExclusion, WaitersWait, Inside, Outside
<1>11. ASSUME NEW t \in Threads, PullWait(t) PROVE QueueInv'
  <2>1. TypeOK' /\ PushHasValue' /\ MutualExclusion'
    BY <1>11, ThreadsAssumption
    DEF PullWait, TypeOK, PushHasValue, MutualExclusion, Inside, Outside
  <2>2. /\ pc[t] = "pullCheck" /\ waiters' = Append(waiters, t)
        /\ Len(waiters') = Len(waiters) + 1 /\ Len(waiters) \in Nat
        /\ waiters'[Len(waiters) + 1] = t
        /\ \A i \in 1 .. Len(waiters) : waiters'[i] = waiters[i] /\ waiters[i] # t
    BY <1>11 DEF PullWait, TypeOK, WaitersWait
  <2>3. \A u \in Threads : pc'[u] = "pullWait" <=> pc[u] = "pullWait" \/ u = t
    BY <1>11 DEF PullWait, TypeOK
  <2>4. \A i, j \in 1 .. Len(waiters') : waiters'[i] = waiters'[j] => i = j
    BY <2>2 DEF WaitersWait
  <2>5. \A u \in Threads : (\E i \in 1 .. Len(waiters') : waiters'[i] = u)
                             <=> u = t \/ \E i \in 1 .. Len(waiters) : waiters[i] = u
    BY <2>2
  <2> QED BY <2>1, <2>3, <2>4, <2>5 DEF WaitersWait
<1>12. ASSUME NEW t \in Threads, CloseSet(t) PROVE QueueInv'
  BY <1>12, ThreadsAssumption
  DEF CloseSet, TypeOK, PushHasValue, MutualExclusion, WaitersWait, Inside, Outside
<1>13. ASSUME NEW t \in Threads, CloseBroadcast(t) PROVE QueueInv'
  BY <1>13, ThreadsAssumption
  DEF CloseBroadcast, TypeOK, PushHasValue, MutualExclusion, WaitersWait, Inside, Outside
<1> QED BY <1>1, <1>2, <1>3, <1>4, <1>5, <1>6, <1>7, <1>8, <1>9, <1>10, <1>11,
          <1>12, <1>13 DEF Next, Step

(* In every reachable state the types hold, the mutex is held by the one   *)
(* thread inside a call, and the notify list is exactly the threads in     *)
(* Wait (queue.go:21-65).                                                  *)
THEOREM QueueInvariant == Spec => []QueueInv
  BY InitQueueInv, NextQueueInv, PTL DEF Spec

(* The types of LinkedListQueue's fields and of the calls under way.       *)
THEOREM TypeCorrect == Spec => []TypeOK
<1>1. QueueInv => TypeOK
  BY DEF QueueInv
<1> QED BY <1>1, QueueInvariant, PTL

(* The critical sections of Push, Pull and Close exclude each other        *)
(* (queue.go:28-35, 41-55, 61-64).                                         *)
THEOREM MutexExcludes == Spec => []MutualExclusion
<1>1. QueueInv => MutualExclusion
  BY DEF QueueInv
<1> QED BY <1>1, QueueInvariant, PTL

-----------------------------------------------------------------------------
(* A step that leaves the notify list and closed alone, and that is no     *)
(* step of a closer, leaves a closer where it is.                          *)
LEMMA NextNobodySleeps ==
  QueueInv /\ NobodySleepsOnClosed /\ [Next]_vars => NobodySleepsOnClosed'
<1> SUFFICES ASSUME QueueInv, NobodySleepsOnClosed, [Next]_vars,
                    closed', waiters' # <<>>
             PROVE  \E u \in Threads : pc'[u] = "closeBroadcast"
  BY DEF NobodySleepsOnClosed
<1> USE DEF At, Goto
<1>0. pc \in [Threads -> Outside \cup Inside] /\ closed \in BOOLEAN
  BY DEF QueueInv, TypeOK
<1>1. ASSUME NEW t \in Threads, CloseSet(t)
      PROVE  \E u \in Threads : pc'[u] = "closeBroadcast"
  BY <1>1, <1>0 DEF CloseSet
<1>2. ASSUME closed, waiters # <<>>,
             \A u \in Threads : pc[u] = "closeBroadcast" => pc'[u] = "closeBroadcast"
      PROVE  \E u \in Threads : pc'[u] = "closeBroadcast"
  BY <1>2 DEF NobodySleepsOnClosed
<1>3. CASE UNCHANGED vars
  BY <1>2, <1>3 DEF vars
<1>4. ASSUME NEW t \in Threads,
             CallPush(t) \/ CallPull(t) \/ CallClose(t) \/ Unlock(t)
             \/ PullTake(t) \/ PullClosed(t)
      PROVE  \E u \in Threads : pc'[u] = "closeBroadcast"
  BY <1>0, <1>2, <1>4
  DEF CallPush, CallPull, CallClose, Unlock, PullTake, PullClosed
<1>5. ASSUME NEW t \in Threads, Lock(t)
      PROVE  \E u \in Threads : pc'[u] = "closeBroadcast"
  BY <1>0, <1>2, <1>5 DEF Lock, AfterLock
<1>6. ASSUME NEW t \in Threads, PushBack(t)
      PROVE  \E u \in Threads : pc'[u] = "closeBroadcast"
  BY <1>0, <1>2, <1>6 DEF PushBack
<1>7. ASSUME NEW t \in Threads, PushSignal(t)
      PROVE  \E u \in Threads : pc'[u] = "closeBroadcast"
  <2>1. CASE waiters = <<>>
    BY <1>7, <2>1 DEF PushSignal
  <2>2. CASE waiters # <<>>
    BY <1>0, <1>2, <1>7, <2>2, SignalStep DEF PushSignal
  <2> QED BY <2>1, <2>2
<1>8. ASSUME NEW t \in Threads, PullWait(t)
      PROVE  \E u \in Threads : pc'[u] = "closeBroadcast"
  BY <1>8 DEF PullWait
<1>9. ASSUME NEW t \in Threads, CloseBroadcast(t)
      PROVE  \E u \in Threads : pc'[u] = "closeBroadcast"
  BY <1>9 DEF CloseBroadcast
<1> QED BY <1>1, <1>3, <1>4, <1>5, <1>6, <1>7, <1>8, <1>9 DEF Next, Step

(* Nobody is left asleep on a closed queue: Close wakes every Pull, and a  *)
(* Pull that comes later does not wait (queue.go:48-52, 60-65).            *)
THEOREM ClosedQueueIsAwake == Spec => []NobodySleepsOnClosed
<1>1. Init => NobodySleepsOnClosed
  BY DEF Init, NobodySleepsOnClosed
<1> QED BY <1>1, QueueInvariant, NextNobodySleeps, PTL DEF Spec

-----------------------------------------------------------------------------
(* The two sets that NoLostWakeup counts are finite.                       *)
LEMMA CountsAreFinite ==
  /\ IsFiniteSet(Coming) /\ Cardinality(Coming) \in Nat
  /\ IsFiniteSet(Signalling) /\ Cardinality(Signalling) \in Nat
<1>1. Coming \subseteq Threads /\ Signalling \subseteq Threads
  BY DEF Coming, Signalling
<1> QED BY <1>1, ThreadsAssumption, FS_Subset, FS_CardinalityType

LEMMA NextNoLostWakeup ==
  QueueInv /\ NoLostWakeup /\ [Next]_vars => NoLostWakeup'
<1> SUFFICES ASSUME QueueInv, NoLostWakeup, [Next]_vars
             PROVE  NoLostWakeup'
  OBVIOUS
<1> USE DEF At, Goto
<1>0. /\ pc \in [Threads -> Outside \cup Inside] /\ queue \in Seq(Values)
      /\ IsFiniteSet(Coming) /\ Cardinality(Coming) \in Nat
      /\ IsFiniteSet(Signalling) /\ Cardinality(Signalling) \in Nat
  BY CountsAreFinite DEF QueueInv, TypeOK
(* A step that takes no thread out of the sets and adds no value.          *)
<1>1. ASSUME waiters' = waiters, Len(queue') = Len(queue),
             Coming' = Coming \/ \E t \in Threads \ Coming : Coming' = Coming \cup {t},
             Signalling' = Signalling
      PROVE  NoLostWakeup'
  <2>1. Cardinality(Coming') >= Cardinality(Coming) /\ Cardinality(Coming') \in Nat
    <3>1. CASE Coming' = Coming
      BY <1>0, <3>1
    <3>2. ASSUME NEW t \in Threads \ Coming, Coming' = Coming \cup {t}
          PROVE  Cardinality(Coming') = Cardinality(Coming) + 1
      BY <1>0, <3>2, FS_AddElement
    <3> QED BY <1>0, <1>1, <3>1, <3>2
  <2> QED BY <1>0, <1>1, <2>1 DEF NoLostWakeup
<1>2. CASE UNCHANGED vars
  BY <1>1, <1>2 DEF vars, Coming, Signalling
<1>3. ASSUME NEW t \in Threads, CallPush(t) \/ CallPull(t) \/ CallClose(t) \/ Unlock(t)
                                \/ CloseSet(t)
      PROVE  NoLostWakeup'
  <2>1. Coming' = Coming /\ Signalling' = Signalling
    BY <1>0, <1>3
    DEF Coming, Signalling, CallPush, CallPull, CallClose, Unlock, CloseSet
  <2> QED BY <1>1, <1>3, <2>1 DEF CallPush, CallPull, CallClose, Unlock, CloseSet
<1>4. ASSUME NEW t \in Threads, Lock(t) PROVE NoLostWakeup'
  <2>1. /\ Signalling' = Signalling
        /\ Coming' = Coming \/ (t \notin Coming /\ Coming' = Coming \cup {t})
    BY <1>0, <1>4 DEF Lock, AfterLock, Coming, Signalling
  <2> QED BY <1>1, <1>4, <2>1 DEF Lock
<1>5. ASSUME NEW t \in Threads, PushBack(t) PROVE NoLostWakeup'
  <2>1. CASE closed
    <3>1. UNCHANGED <<queue, waiters, pc>>
      BY <1>5, <2>1 DEF PushBack
    <3> QED BY <1>1, <3>1 DEF Coming, Signalling
  <2>2. CASE ~closed
    <3>1. /\ Coming' = Coming /\ t \notin Signalling
          /\ Signalling' = Signalling \cup {t}
      BY <1>0, <1>5, <2>2 DEF PushBack, Coming, Signalling
    <3>2. Cardinality(Signalling') = Cardinality(Signalling) + 1
      BY <1>0, <3>1, FS_AddElement
    <3>3. Len(queue') = Len(queue) + 1 /\ waiters' = waiters
      BY <1>0, <1>5, <2>2 DEF PushBack, QueueInv, TypeOK, PushHasValue
    <3> QED BY <1>0, <3>1, <3>2, <3>3 DEF NoLostWakeup
  <2> QED BY <2>1, <2>2
<1>6. ASSUME NEW t \in Threads, PushSignal(t) PROVE NoLostWakeup'
  <2>1. CASE waiters = <<>>
    BY <1>6, <2>1 DEF PushSignal, NoLostWakeup
  <2>2. CASE waiters # <<>>
    <3>1. /\ Head(waiters) \in Threads /\ Head(waiters) # t
          /\ pc[Head(waiters)] = "pullWait" /\ pc[t] = "pushSignal"
          /\ pc' = [pc EXCEPT ![t] = "unlock", ![Head(waiters)] = "pullRelock"]
          /\ queue' = queue
      BY <1>6, <2>2, SignalStep DEF PushSignal
    <3>2. /\ Head(waiters) \notin Coming /\ Coming' = Coming \cup {Head(waiters)}
          /\ t \in Signalling /\ Signalling' = Signalling \ {t}
      BY <1>0, <3>1 DEF Coming, Signalling
    <3>3. /\ Cardinality(Coming') = Cardinality(Coming) + 1
          /\ Cardinality(Signalling') = Cardinality(Signalling) - 1
      BY <1>0, <3>2, FS_AddElement, FS_RemoveElement
    <3> QED BY <1>0, <2>2, <3>1, <3>3 DEF NoLostWakeup
  <2> QED BY <2>1, <2>2
<1>7. ASSUME NEW t \in Threads, PullTake(t) PROVE NoLostWakeup'
  <2>1. /\ t \in Coming /\ Coming' = Coming \ {t} /\ Signalling' = Signalling
        /\ waiters' = waiters
    BY <1>0, <1>7 DEF PullTake, Coming, Signalling
  <2>2. Len(queue') = Len(queue) - 1 /\ Len(queue) \in Nat
    BY <1>0, <1>7 DEF PullTake
  <2>3. Cardinality(Coming') = Cardinality(Coming) - 1
    BY <1>0, <2>1, FS_RemoveElement
  <2> QED BY <1>0, <2>1, <2>2, <2>3 DEF NoLostWakeup
<1>8. ASSUME NEW t \in Threads, PullClosed(t) \/ PullWait(t) PROVE NoLostWakeup'
  <2>1. Len(queue') = 0
    BY <1>0, <1>8 DEF PullClosed, PullWait
  <2>2. Coming' = Coming \ {t} /\ Signalling' = Signalling
    BY <1>0, <1>8 DEF PullClosed, PullWait, Coming, Signalling
  <2>3. Cardinality(Coming') \in Nat
    BY <1>0, <2>2, FS_RemoveElement, FS_CardinalityType
  <2> QED BY <1>0, <2>1, <2>2, <2>3 DEF NoLostWakeup
<1>9. ASSUME NEW t \in Threads, CloseBroadcast(t) PROVE NoLostWakeup'
  BY <1>9 DEF CloseBroadcast, NoLostWakeup
<1> QED BY <1>2, <1>3, <1>4, <1>5, <1>6, <1>7, <1>8, <1>9 DEF Next, Step

(* No wake-up is lost: while a thread sleeps in Pull, every value in the   *)
(* queue has a thread that comes for it or a signal on its way, whichever  *)
(* other Pull barges in (queue.go:33-34, 41-53).                           *)
THEOREM NoWakeupIsLost == Spec => []NoLostWakeup
<1>1. Init => NoLostWakeup
  BY DEF Init, NoLostWakeup
<1> QED BY <1>1, QueueInvariant, NextNoLostWakeup, PTL DEF Spec

-----------------------------------------------------------------------------
(* A step after which every thread is in the same abstract call, with the  *)
(* same values, is a stutter of the abstract queue.                        *)
LEMMA StepImplementsFifo ==
  ASSUME QueueInv, [Next]_vars
  PROVE  [Fifo!Next]_(Fifo!vars)
<1> DEFINE call == [t \in Threads |-> AbsCall(pc[t])]
<1> USE DEF At, Goto
<1>0. pc \in [Threads -> Outside \cup Inside]
  BY DEF QueueInv, TypeOK
<1>1. ASSUME UNCHANGED <<queue, closed, val, panicked>>,
             \A u \in Threads : AbsCall(pc'[u]) = AbsCall(pc[u])
      PROVE  UNCHANGED Fifo!vars
  <2>1. call' = call
    BY <1>1
  <2> QED BY <1>1, <2>1 DEF Fifo!vars
<1>2. CASE UNCHANGED vars
  BY <1>1, <1>2 DEF vars
<1>3. ASSUME NEW t \in Threads, NEW p \in Outside \cup Inside,
             NEW q \in Outside \cup Inside, At(t, p), Goto(t, q)
      PROVE  Fifo!Becomes(t, AbsCall(p), AbsCall(q))
  <2>1. call[t] = AbsCall(p)
    BY <1>3
  <2>2. call' = [call EXCEPT ![t] = AbsCall(q)]
    BY <1>0, <1>3
  <2> QED BY <1>3, <2>1, <2>2 DEF Fifo!Becomes
<1>4. ASSUME NEW t \in Threads, CallPush(t) PROVE Fifo!CallPush(t)
  <2>1. Fifo!Becomes(t, AbsCall("idle"), AbsCall("pushLock"))
    BY <1>3, <1>4 DEF CallPush, Outside
  <2> QED BY <1>4, <2>1 DEF CallPush, Fifo!CallPush, AbsCall
<1>5. ASSUME NEW t \in Threads, CallPull(t) PROVE Fifo!CallPull(t)
  <2>1. Fifo!Becomes(t, AbsCall("idle"), AbsCall("pullLock"))
    BY <1>3, <1>5 DEF CallPull, Outside
  <2> QED BY <1>5, <2>1 DEF CallPull, Fifo!CallPull, AbsCall
<1>6. ASSUME NEW t \in Threads, CallClose(t) PROVE Fifo!CallClose(t)
  <2>1. Fifo!Becomes(t, AbsCall("idle"), AbsCall("closeLock"))
    BY <1>3, <1>6 DEF CallClose, Outside
  <2> QED BY <1>6, <2>1 DEF CallClose, Fifo!CallClose, AbsCall
<1>7. ASSUME NEW t \in Threads, Lock(t) PROVE UNCHANGED Fifo!vars
  <2>1. AbsCall(AfterLock[pc[t]]) = AbsCall(pc[t])
    BY <1>7 DEF Lock, AfterLock, AbsCall
  <2> QED BY <1>0, <1>1, <1>7, <2>1 DEF Lock
<1>8. ASSUME NEW t \in Threads, Unlock(t) PROVE Fifo!Return(t)
  <2>1. Fifo!Becomes(t, AbsCall("unlock"), AbsCall("idle"))
    BY <1>3, <1>8 DEF Unlock, Outside, Inside
  <2> QED BY <1>8, <2>1 DEF Unlock, Fifo!Return, AbsCall
<1>9. ASSUME NEW t \in Threads, PushBack(t) PROVE Fifo!Push(t) \/ Fifo!PushPanics(t)
  <2>1. CASE closed
    <3>1. pc[t] = "pushBack" /\ pc' = pc
      BY <1>9, <2>1 DEF PushBack
    <3>2. call' = call
      BY <3>1
    <3>3. call[t] = "push"
      BY <3>1 DEF AbsCall
    <3> QED BY <1>9, <2>1, <3>2, <3>3 DEF PushBack, Fifo!PushPanics
  <2>2. CASE ~closed
    <3>1. Fifo!Becomes(t, AbsCall("pushBack"), AbsCall("pushSignal"))
      BY <1>3, <1>9, <2>2 DEF PushBack, Inside
    <3> QED BY <1>9, <2>2, <3>1 DEF PushBack, Fifo!Push, AbsCall
  <2> QED BY <2>1, <2>2
<1>10. ASSUME NEW t \in Threads, PushSignal(t) PROVE UNCHANGED Fifo!vars
  <2>1. CASE waiters = <<>>
    BY <1>0, <1>1, <1>10, <2>1 DEF PushSignal, AbsCall
  <2>2. CASE waiters # <<>>
    <3>1. \A u \in Threads : AbsCall(pc'[u]) = AbsCall(pc[u])
      BY <1>0, <1>10, <2>2, SignalStep DEF PushSignal, AbsCall
    <3> QED BY <1>1, <1>10, <3>1 DEF PushSignal
  <2> QED BY <2>1, <2>2
<1>11. ASSUME NEW t \in Threads, PullTake(t) PROVE Fifo!Pull(t)
  <2>1. Fifo!Becomes(t, AbsCall("pullCheck"), AbsCall("unlock"))
    BY <1>3, <1>11 DEF PullTake, Inside
  <2> QED BY <1>11, <2>1 DEF PullTake, Fifo!Pull, AbsCall
<1>12. ASSUME NEW t \in Threads, PullClosed(t) PROVE Fifo!PullClosed(t)
  <2>1. Fifo!Becomes(t, AbsCall("pullCheck"), AbsCall("unlock"))
    BY <1>3, <1>12 DEF PullClosed, Inside
  <2> QED BY <1>12, <2>1 DEF PullClosed, Fifo!PullClosed, AbsCall
<1>13. ASSUME NEW t \in Threads, PullWait(t) PROVE UNCHANGED Fifo!vars
  BY <1>0, <1>1, <1>13 DEF PullWait, AbsCall
<1>14. ASSUME NEW t \in Threads, CloseSet(t) PROVE Fifo!Close(t)
  <2>1. Fifo!Becomes(t, AbsCall("closeSet"), AbsCall("closeBroadcast"))
    BY <1>3, <1>14 DEF CloseSet, Inside
  <2> QED BY <1>14, <2>1 DEF CloseSet, Fifo!Close, AbsCall
<1>15. ASSUME NEW t \in Threads, CloseBroadcast(t) PROVE UNCHANGED Fifo!vars
  BY <1>0, <1>1, <1>15 DEF CloseBroadcast, AbsCall
<1> QED BY <1>2, <1>4, <1>5, <1>6, <1>7, <1>8, <1>9, <1>10, <1>11, <1>12, <1>13,
          <1>14, <1>15 DEF Next, Step, Fifo!Next

(* LinkedListQueue implements the atomic queue: each call takes effect at  *)
(* one instant, values come out in the order they went in and once each,   *)
(* and "not ok" only from a queue that is closed and drained               *)
(* (queue.go:27-65).                                                       *)
THEOREM Refinement == Spec => ImplementsFifo
<1>1. Init => Fifo!Init
  BY DEF Init, Fifo!Init, AbsCall
<1> QED BY <1>1, QueueInvariant, StepImplementsFifo, PTL DEF Spec, ImplementsFifo, Fifo!Spec
=============================================================================
