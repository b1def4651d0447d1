---------------------------- MODULE LinkedQueue ----------------------------
(***************************************************************************)
(* LinkedListQueue of src/net/queue/queue.go: a list guarded by the mutex  *)
(* of a condition variable.  Each call is split at the points where        *)
(* another goroutine can run: taking the lock, the access, the wake-up and *)
(* the unlock.  sync.Cond keeps the waiters in ticket order, and           *)
(* cond.Wait takes its ticket before it releases the lock, so the two are  *)
(* one step here; a goroutine that was woken must take the lock again, and *)
(* any other goroutine may take it first.                                  *)
(***************************************************************************)
EXTENDS Integers, Sequences, FiniteSets

CONSTANTS Threads,   \* the goroutines that share the queue
          Values,    \* what is pushed
          NotOk,     \* the result of a Pull that returns ok = false
          Nobody,    \* the holder of a free mutex
          MaxItems   \* bound: no call of Push while this many values wait

ASSUME ThreadsAssumption == IsFiniteSet(Threads) /\ Nobody \notin Threads
ASSUME ValuesAssumption == NotOk \notin Values

VARIABLES queue,     \* queue *list.List
          closed,    \* closed bool
          mutex,     \* cond.L: the thread that holds it, or Nobody
          waiters,   \* the notify list of cond: threads in Wait, oldest first
          pc,        \* pc[t]: where t is in the call it makes
          val,       \* val[t]: v, the argument of Push and the result of Pull
          panicked   \* panic("push on closed queue")

vars == <<queue, closed, mutex, waiters, pc, val, panicked>>

(* Where a thread can be: outside the queue, about to take the lock, ...   *)
Outside == {"idle", "pushLock", "pullLock", "closeLock", "pullWait", "pullRelock"}
(* ... or between Lock and Unlock.                                         *)
Inside == {"pushBack", "pushSignal", "pullCheck", "closeSet",
           "closeBroadcast", "unlock"}

(* What follows a successful cond.L.Lock().                                *)
AfterLock == [p \in {"pushLock", "pullLock", "closeLock", "pullRelock"} |->
                CASE p = "pushLock"  -> "pushBack"
                  [] p = "closeLock" -> "closeSet"
                  [] OTHER           -> "pullCheck"]

Init ==
  /\ queue = <<>>
  /\ closed = FALSE
  /\ mutex = Nobody
  /\ waiters = <<>>
  /\ pc = [t \in Threads |-> "idle"]
  /\ val = [t \in Threads |-> NotOk]
  /\ panicked = FALSE

At(t, p) == ~panicked /\ pc[t] = p

Goto(t, p) == pc' = [pc EXCEPT ![t] = p]

CallPush(t) ==
  /\ At(t, "idle")
  /\ Len(queue) < MaxItems
  /\ \E v \in Values : val' = [val EXCEPT ![t] = v]
  /\ Goto(t, "pushLock")
  /\ UNCHANGED <<queue, closed, mutex, waiters, panicked>>

CallPull(t) ==
  /\ At(t, "idle")
  /\ val' = [val EXCEPT ![t] = NotOk]
  /\ Goto(t, "pullLock")
  /\ UNCHANGED <<queue, closed, mutex, waiters, panicked>>

CallClose(t) ==
  /\ At(t, "idle")
  /\ Goto(t, "closeLock")
  /\ UNCHANGED <<queue, closed, mutex, waiters, val, panicked>>

(* cond.L.Lock(), by a call that begins or by a Wait that was woken.       *)
Lock(t) ==
  /\ ~panicked
  /\ pc[t] \in DOMAIN AfterLock
  /\ mutex = Nobody
  /\ mutex' = t
  /\ Goto(t, AfterLock[pc[t]])
  /\ UNCHANGED <<queue, closed, waiters, val, panicked>>

(* cond.L.Unlock() and return.                                             *)
Unlock(t) ==
  /\ At(t, "unlock")
  /\ mutex' = Nobody
  /\ Goto(t, "idle")
  /\ UNCHANGED <<queue, closed, waiters, val, panicked>>

(* A slip: PushFront instead of PushBack.                                  *)
PushFront(t) ==
  /\ At(t, "pushBack")
  /\ ~closed
  /\ queue' = <<val[t]>> \o queue
  /\ Goto(t, "pushSignal")
  /\ UNCHANGED <<closed, mutex, waiters, val, panicked>>

(* PushBack, or the panic: it is raised with the lock held, by a goroutine *)
(* that recovers nothing, so it ends the process.                          *)
PushBack(t) ==
  /\ At(t, "pushBack")
  /\ IF closed
       THEN /\ panicked' = TRUE
            /\ UNCHANGED <<queue, pc>>
       ELSE /\ queue' = Append(queue, val[t])
            /\ Goto(t, "pushSignal")
            /\ UNCHANGED panicked
  /\ UNCHANGED <<closed, mutex, waiters, val>>

(* Slips: signalling only when the queue was empty, and a waiter that      *)
(* keeps its ticket when it is woken.                                      *)
PushSignalFirst(t) ==
  /\ At(t, "pushSignal")
  /\ IF waiters = <<>> \/ Len(queue) > 1
       THEN /\ Goto(t, "unlock")
            /\ UNCHANGED waiters
       ELSE /\ pc' = [pc EXCEPT ![t] = "unlock", ![Head(waiters)] = "pullRelock"]
            /\ waiters' = Tail(waiters)
  /\ UNCHANGED <<queue, closed, mutex, val, panicked>>

PushSignalKeepsTicket(t) ==
  /\ At(t, "pushSignal")
  /\ IF waiters = <<>>
       THEN Goto(t, "unlock")
       ELSE pc' = [pc EXCEPT ![t] = "unlock", ![Head(waiters)] = "pullRelock"]
  /\ UNCHANGED <<queue, closed, mutex, waiters, val, panicked>>

(* cond.Signal(): the oldest waiter goes after the lock.                   *)
PushSignal(t) ==
  /\ At(t, "pushSignal")
  /\ IF waiters = <<>>
       THEN /\ Goto(t, "unlock")
            /\ UNCHANGED waiters
       ELSE /\ pc' = [pc EXCEPT ![t] = "unlock", ![Head(waiters)] = "pullRelock"]
            /\ waiters' = Tail(waiters)
  /\ UNCHANGED <<queue, closed, mutex, val, panicked>>

(* The body of Pull's loop: Front and Remove, ...                          *)
PullTake(t) ==
  /\ At(t, "pullCheck")
  /\ queue # <<>>
  /\ val' = [val EXCEPT ![t] = Head(queue)]
  /\ queue' = Tail(queue)
  /\ Goto(t, "unlock")
  /\ UNCHANGED <<closed, mutex, waiters, panicked>>

(* ... or leave with ok = false, ...                                       *)
PullClosed(t) ==
  /\ At(t, "pullCheck")
  /\ queue = <<>>
  /\ closed
  /\ Goto(t, "unlock")
  /\ UNCHANGED <<queue, closed, mutex, waiters, val, panicked>>

(* ... or cond.Wait().                                                     *)
PullWait(t) ==
  /\ At(t, "pullCheck")
  /\ queue = <<>>
  /\ ~closed
  /\ waiters' = Append(waiters, t)
  /\ mutex' = Nobody
  /\ Goto(t, "pullWait")
  /\ UNCHANGED <<queue, closed, val, panicked>>

CloseSet(t) ==
  /\ At(t, "closeSet")
  /\ closed' = TRUE
  /\ Goto(t, "closeBroadcast")
  /\ UNCHANGED <<queue, mutex, waiters, val, panicked>>

(* A slip: Close wakes one waiter, with Signal.                            *)
CloseSignals(t) ==
  /\ At(t, "closeBroadcast")
  /\ IF waiters = <<>>
       THEN /\ Goto(t, "unlock")
            /\ UNCHANGED waiters
       ELSE /\ pc' = [pc EXCEPT ![t] = "unlock", ![Head(waiters)] = "pullRelock"]
            /\ waiters' = Tail(waiters)
  /\ UNCHANGED <<queue, closed, mutex, val, panicked>>

(* cond.Broadcast(): every waiter goes after the lock.                     *)
CloseBroadcast(t) ==
  /\ At(t, "closeBroadcast")
  /\ waiters' = <<>>
  /\ pc' = [u \in Threads |-> IF u = t THEN "unlock"
                              ELSE IF pc[u] = "pullWait" THEN "pullRelock"
                              ELSE pc[u]]
  /\ UNCHANGED <<queue, closed, mutex, val, panicked>>

(* What a goroutine does once its call has begun.                          *)
Step(t) ==
  \/ Unlock(t)
  \/ PushBack(t) \/ PushSignal(t)
  \/ PullTake(t) \/ PullClosed(t) \/ PullWait(t)
  \/ CloseSet(t) \/ CloseBroadcast(t)

Next == \E t \in Threads : CallPush(t) \/ CallPull(t) \/ CallClose(t)
                           \/ Lock(t) \/ Step(t)

(* Go runs every runnable goroutine, and its mutex hands over to a waiter  *)
(* that has starved for a millisecond: strong fairness of Lock.  Nothing   *)
(* makes a goroutine call the queue.                                       *)
Fairness == \A t \in Threads : WF_vars(Step(t)) /\ SF_vars(Lock(t))

Spec == Init /\ [][Next]_vars
FairSpec == Spec /\ Fairness

-----------------------------------------------------------------------------
TypeOK ==
  /\ queue \in Seq(Values)
  /\ closed \in BOOLEAN
  /\ mutex \in Threads \cup {Nobody}
  /\ waiters \in Seq(Threads)
  /\ pc \in [Threads -> Outside \cup Inside]
  /\ val \in [Threads -> Values \cup {NotOk}]
  /\ panicked \in BOOLEAN

(* The holder of the mutex is the one thread between Lock and Unlock.      *)
MutualExclusion == \A t \in Threads : pc[t] \in Inside <=> mutex = t

(* A thread on its way into PushBack carries a value to push.              *)
PushHasValue == \A t \in Threads : pc[t] \in {"pushLock", "pushBack"} => val[t] \in Values

(* The notify list holds the threads in Wait, each once.                   *)
WaitersWait ==
  /\ \A t \in Threads :
       pc[t] = "pullWait" <=> \E i \in 1 .. Len(waiters) : waiters[i] = t
  /\ \A i, j \in 1 .. Len(waiters) : waiters[i] = waiters[j] => i = j

(* What every step preserves, and rests on: the notify list has exactly    *)
(* the sleepers, however signals, barging Pulls and broadcasts interleave  *)
(* (queue.go:28-64), and the mutex one holder.                             *)
QueueInv == TypeOK /\ PushHasValue /\ MutualExclusion /\ WaitersWait

(* The threads that are on their way to the head of the queue.             *)
Coming == {t \in Threads : pc[t] \in {"pullRelock", "pullCheck"}}
Signalling == {t \in Threads : pc[t] = "pushSignal"}

(* No lost wake-up (queue.go:33-34, 44-52): while a thread sleeps in Pull, *)
(* there is a thread on its way to each value in the queue, or the push of *)
(* the last one is about to wake a thread.  A barging Pull that finds the  *)
(* value first, or a woken thread that finds it gone, must not break this. *)
NoLostWakeup ==
  waiters # <<>> => Len(queue) <= Cardinality(Coming) + Cardinality(Signalling)

(* Nobody sleeps on a closed queue (queue.go:48-52, 62-63): only between   *)
(* closed = true and Broadcast, both under the lock, is there a waiter.    *)
NobodySleepsOnClosed ==
  closed /\ waiters # <<>> => \E t \in Threads : pc[t] = "closeBroadcast"

(* A Pull that sleeps while values wait is woken, or the values are taken  *)
(* by others, unless a Push on the closed queue kills the process first    *)
(* (queue.go:27-58).                                                       *)
SleeperServed ==
  \A t \in Threads :
    (pc[t] = "pullWait" /\ queue # <<>>)
      ~> (pc[t] # "pullWait" \/ queue = <<>> \/ panicked)

(* Once the queue is closed every Pull under way returns (queue.go:40-65), *)
(* unless the process dies first.                                          *)
ClosedPullReturns ==
  \A t \in Threads :
    (closed /\ pc[t] \in {"pullLock", "pullCheck", "pullWait", "pullRelock"})
      ~> (pc[t] = "idle" \/ panicked)

(* The call that a thread is in, and whether it has taken effect.          *)
AbsCall(p) ==
  CASE p = "idle" -> "none"
    [] p \in {"pushLock", "pushBack"} -> "push"
    [] p \in {"pullLock", "pullCheck", "pullWait", "pullRelock"} -> "pull"
    [] p \in {"closeLock", "closeSet"} -> "close"
    [] OTHER -> "done"

Fifo == INSTANCE FifoQueue WITH
          contents <- queue, call <- [t \in Threads |-> AbsCall(pc[t])]

(* The mutex, the condition variable and the loop in Pull implement a      *)
(* queue whose calls take effect at one instant: values come out once      *)
(* each, in the order they went in, and "not ok" is returned only when     *)
(* the queue is closed and drained (queue.go:27-65).                       *)
ImplementsFifo == Fifo!Spec
=============================================================================
