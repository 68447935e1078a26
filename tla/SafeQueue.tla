------------------------------ MODULE SafeQueue ------------------------------
(***************************************************************************)
(* SafeQueue.h with its mutex and its condition variable.  A thread is in  *)
(* the wait set of m_cv while its pc is "wait"; it leaves it because it is *)
(* notified, because its time is up, or for no reason, and then competes   *)
(* for the mutex again.                                                    *)
(***************************************************************************)
EXTENDS Naturals, Sequences

CONSTANTS Threads, Items, None, MaxItems

ASSUME QueueAssumption == None \notin Items /\ None \notin Threads /\ MaxItems \in Nat

VARIABLES
    m_queue,
    m_mutex,   \* the thread that holds it, or None
    pc, op,    \* [Threads -> ...]: where a thread is in which call
    expired,   \* [Threads -> BOOLEAN]: the wait of this call timed out
    val,       \* [Threads -> argument or result of the last call]
    sent, taken  \* history, as in FifoQueue

vars == <<m_queue, m_mutex, pc, op, expired, val, sent, taken>>
history == <<sent, taken>>

Calls == {"enqueue", "dequeue", "dequeue_with_timeout"}
Holding == {"push", "notify", "test"}

TypeOK ==
    /\ m_queue \in Seq(Items) /\ sent \in Seq(Items) /\ taken \in Seq(Items)
    /\ m_mutex \in Threads \union {None}
    /\ pc \in [Threads -> {"idle", "lock", "wait", "relock"} \union Holding]
    /\ op \in [Threads -> Calls]
    /\ expired \in [Threads -> BOOLEAN]
    /\ val \in [Threads -> Items \union {None}]

Init ==
    /\ m_queue = <<>> /\ m_mutex = None /\ sent = <<>> /\ taken = <<>>
    /\ pc = [t \in Threads |-> "idle"]
    /\ op = [t \in Threads |-> "enqueue"]
    /\ expired = [t \in Threads |-> FALSE]
    /\ val = [t \in Threads |-> None]

Goto(t, from, to) == pc[t] = from /\ pc' = [pc EXCEPT ![t] = to]
Unlock == m_mutex' = None

Call(t, o, v) ==
    /\ Goto(t, "idle", "lock")
    /\ op' = [op EXCEPT ![t] = o]
    /\ val' = [val EXCEPT ![t] = v]
    /\ expired' = [expired EXCEPT ![t] = FALSE]
    /\ UNCHANGED <<m_queue, m_mutex, history>>

(* MaxItems bounds the calls of enqueue(). *)
CallEnqueue(t, v) == Len(sent) < MaxItems /\ Call(t, "enqueue", v)
CallDequeue(t, o) == Call(t, o, None)

(* Mutant: no lock_guard. *)
LockNothing(t) ==
    /\ Goto(t, "lock", IF op[t] = "enqueue" THEN "push" ELSE "test")
    /\ m_mutex' = t
    /\ UNCHANGED <<m_queue, op, expired, val, history>>

Lock(t) ==
    /\ Goto(t, "lock", IF op[t] = "enqueue" THEN "push" ELSE "test")
    /\ m_mutex = None
    /\ m_mutex' = t
    /\ UNCHANGED <<m_queue, op, expired, val, history>>

(* Mutant: the argument was moved from. *)
PushNothing(t) ==
    /\ Goto(t, "push", "notify")
    /\ m_queue' = Append(m_queue, None)
    /\ sent' = Append(sent, val[t])
    /\ UNCHANGED <<m_mutex, op, expired, val, taken>>

Push(t) ==
    /\ Goto(t, "push", "notify")
    /\ m_queue' = Append(m_queue, val[t])
    /\ sent' = Append(sent, val[t])
    /\ UNCHANGED <<m_mutex, op, expired, val, taken>>

(* Mutant: nobody is notified. *)
NotifyNobody(t) ==
    /\ Goto(t, "notify", "idle")
    /\ Unlock
    /\ UNCHANGED <<m_queue, op, expired, val, history>>

(* notify_all() under the lock, which is released when enqueue() returns. *)
Notify(t) ==
    /\ pc[t] = "notify"
    /\ pc' = [u \in Threads |-> IF u = t THEN "idle"
                                ELSE IF pc[u] = "wait" THEN "relock" ELSE pc[u]]
    /\ Unlock
    /\ UNCHANGED <<m_queue, op, expired, val, history>>

Wait(t) ==
    /\ Goto(t, "test", "wait")
    /\ m_queue = <<>> /\ ~expired[t]
    /\ Unlock
    /\ UNCHANGED <<m_queue, op, expired, val, history>>

SpuriousWakeup(t) ==
    /\ Goto(t, "wait", "relock")
    /\ UNCHANGED <<m_queue, m_mutex, op, expired, val, history>>

Timeout(t) ==
    /\ op[t] = "dequeue_with_timeout"
    /\ Goto(t, "wait", "relock")
    /\ expired' = [expired EXCEPT ![t] = TRUE]
    /\ UNCHANGED <<m_queue, m_mutex, op, val, history>>

Relock(t) ==
    /\ Goto(t, "relock", "test")
    /\ m_mutex = None
    /\ m_mutex' = t
    /\ UNCHANGED <<m_queue, op, expired, val, history>>

(* Mutant: front() without pop(). *)
PopNothing(t) ==
    /\ Goto(t, "test", "idle")
    /\ m_queue # <<>>
    /\ val' = [val EXCEPT ![t] = Head(m_queue)]
    /\ taken' = Append(taken, Head(m_queue))
    /\ Unlock
    /\ UNCHANGED <<m_queue, op, expired, sent>>

Pop(t) ==
    /\ Goto(t, "test", "idle")
    /\ m_queue # <<>>
    /\ val' = [val EXCEPT ![t] = Head(m_queue)]
    /\ m_queue' = Tail(m_queue)
    /\ taken' = Append(taken, Head(m_queue))
    /\ Unlock
    /\ UNCHANGED <<op, expired, sent>>

(* Mutant: after a timeout the queue is not looked at again. *)
GiveUpBlindly(t) ==
    /\ Goto(t, "test", "idle")
    /\ expired[t]
    /\ Unlock
    /\ UNCHANGED <<m_queue, op, expired, val, history>>

(* Only dequeue_with_timeout() comes back with nothing. *)

GiveUp(t) ==
    /\ Goto(t, "test", "idle")
    /\ m_queue = <<>> /\ expired[t]
    /\ Unlock
    /\ UNCHANGED <<m_queue, op, expired, val, history>>

Step(t) ==
    \/ \E v \in Items : CallEnqueue(t, v)
    \/ \E o \in {"dequeue", "dequeue_with_timeout"} : CallDequeue(t, o)
    \/ Lock(t) \/ Push(t) \/ Notify(t) \/ Wait(t) \/ SpuriousWakeup(t)
    \/ Timeout(t) \/ Relock(t) \/ Pop(t) \/ GiveUp(t)

Next == \E t \in Threads : Step(t)

Spec == Init /\ [][Next]_vars

-----------------------------------------------------------------------------
(* A thread that touches the queue holds the mutex, and is the only one. *)
MutualExclusion ==
    \A t \in Threads : pc[t] \in Holding <=> m_mutex = t

(* No wakeup is lost: no thread sleeps on m_cv while there is an element,  *)
(* except until the thread that pushed it has called notify_all().         *)
NoLostWakeup ==
    (m_queue # <<>> /\ \E t \in Threads : pc[t] = "wait")
        => \E u \in Threads : pc[u] = "notify"

(* The refinement mapping: a call is over, for FifoQueue, once it has had   *)
(* its effect on the queue.                                                 *)
Fifo == INSTANCE FifoQueue WITH
    queue <- m_queue,
    call <- [t \in Threads |-> IF pc[t] \in {"idle", "notify"} THEN "none" ELSE op[t]]

(* SafeQueue does what FifoQueue promises. *)
ImplementsFifo == Fifo!Spec

(* FIFO order and exactly-once delivery, seen through the mapping. *)
Conservation == Fifo!Conservation
=============================================================================
