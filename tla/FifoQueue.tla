----------------------------- MODULE FifoQueue -----------------------------
(***************************************************************************)
(* What the queue of src/net/queue promises the goroutines that share it:  *)
(* every call takes effect at one instant between its invocation and its   *)
(* return.  A Push appends, and on a closed queue it panics; a Pull blocks *)
(* until it can remove the oldest value, or until the queue is closed and  *)
(* empty, when it returns "not ok"; a Close marks the queue closed.        *)
(* LinkedQueue is shown to implement this module.                          *)
(***************************************************************************)
EXTENDS Sequences

CONSTANTS Threads,   \* the goroutines that share the queue
          Values,    \* what is pushed
          NotOk      \* the result of a Pull that returns ok = false

VARIABLES contents,  \* the values in the queue, oldest first
          closed,    \* Close has taken effect
          call,      \* call[t]: the call t has made, whether it took effect
          val,       \* val[t]: what t pushes, or what its last Pull returned
          panicked   \* a Push on the closed queue has killed the process

vars == <<contents, closed, call, val, panicked>>

Calls == {"none", "push", "pull", "close", "done"}

Init ==
  /\ contents = <<>>
  /\ closed = FALSE
  /\ call = [t \in Threads |-> "none"]
  /\ val = [t \in Threads |-> NotOk]
  /\ panicked = FALSE

Becomes(t, from, to) ==
  /\ ~panicked
  /\ call[t] = from
  /\ call' = [call EXCEPT ![t] = to]

CallPush(t) ==
  /\ Becomes(t, "none", "push")
  /\ \E v \in Values : val' = [val EXCEPT ![t] = v]
  /\ UNCHANGED <<contents, closed, panicked>>

CallPull(t) ==
  /\ Becomes(t, "none", "pull")
  /\ val' = [val EXCEPT ![t] = NotOk]
  /\ UNCHANGED <<contents, closed, panicked>>

CallClose(t) ==
  /\ Becomes(t, "none", "close")
  /\ UNCHANGED <<contents, closed, val, panicked>>

Push(t) ==
  /\ ~closed
  /\ Becomes(t, "push", "done")
  /\ contents' = Append(contents, val[t])
  /\ UNCHANGED <<closed, val, panicked>>

PushPanics(t) ==
  /\ ~panicked
  /\ closed
  /\ call[t] = "push"
  /\ panicked' = TRUE
  /\ UNCHANGED <<contents, closed, call, val>>

Pull(t) ==
  /\ contents # <<>>
  /\ Becomes(t, "pull", "done")
  /\ val' = [val EXCEPT ![t] = Head(contents)]
  /\ contents' = Tail(contents)
  /\ UNCHANGED <<closed, panicked>>

PullClosed(t) ==
  /\ closed
  /\ contents = <<>>
  /\ Becomes(t, "pull", "done")
  /\ UNCHANGED <<contents, closed, val, panicked>>

Close(t) ==
  /\ Becomes(t, "close", "done")
  /\ closed' = TRUE
  /\ UNCHANGED <<contents, val, panicked>>

Return(t) ==
  /\ Becomes(t, "done", "none")
  /\ UNCHANGED <<contents, closed, val, panicked>>

Next ==
  \E t \in Threads :
    \/ CallPush(t) \/ CallPull(t) \/ CallClose(t)
    \/ Push(t) \/ PushPanics(t) \/ Pull(t) \/ PullClosed(t) \/ Close(t)
    \/ Return(t)

Spec == Init /\ [][Next]_vars
=============================================================================
