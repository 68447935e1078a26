------------------------------ MODULE FifoQueue ------------------------------
(***************************************************************************)
(* What SafeQueue promises to the threads that share it: each call takes   *)
(* effect at one instant between its start and its return, elements leave  *)
(* in the order they came, each of them once, dequeue() waits for an       *)
(* element and dequeue_with_timeout() may come back without one, but only  *)
(* if the queue was empty.                                                 *)
(***************************************************************************)
EXTENDS Naturals, Sequences

CONSTANTS
    Threads,   \* the threads that call the queue
    Items,     \* the elements
    None       \* no element: what the caller of dequeue_with_timeout() passes

VARIABLES
    queue,     \* the elements, first in first out
    call,      \* [Threads -> the call in progress that has had no effect yet]
    val,       \* [Threads -> argument or result of the last call]
    sent,      \* history: all that was enqueued, in order
    taken      \* history: all that was dequeued, in order

vars == <<queue, call, val, sent, taken>>

Calls == {"none", "enqueue", "dequeue", "dequeue_with_timeout"}

TypeOK ==
    /\ queue \in Seq(Items) /\ sent \in Seq(Items) /\ taken \in Seq(Items)
    /\ call \in [Threads -> Calls]
    /\ val \in [Threads -> Items \union {None}]

Init ==
    /\ queue = <<>> /\ sent = <<>> /\ taken = <<>>
    /\ call = [t \in Threads |-> "none"]
    /\ val = [t \in Threads |-> None]

CallEnqueue(t, v) ==
    /\ call[t] = "none"
    /\ call' = [call EXCEPT ![t] = "enqueue"]
    /\ val' = [val EXCEPT ![t] = v]
    /\ UNCHANGED <<queue, sent, taken>>

CallDequeue(t, c) ==
    /\ call[t] = "none"
    /\ call' = [call EXCEPT ![t] = c]
    /\ val' = [val EXCEPT ![t] = None]
    /\ UNCHANGED <<queue, sent, taken>>

Enqueue(t) ==
    /\ call[t] = "enqueue"
    /\ call' = [call EXCEPT ![t] = "none"]
    /\ queue' = Append(queue, val[t])
    /\ sent' = Append(sent, val[t])
    /\ UNCHANGED <<val, taken>>

Dequeue(t) ==
    /\ call[t] \in {"dequeue", "dequeue_with_timeout"}
    /\ queue # <<>>
    /\ call' = [call EXCEPT ![t] = "none"]
    /\ val' = [val EXCEPT ![t] = Head(queue)]
    /\ queue' = Tail(queue)
    /\ taken' = Append(taken, Head(queue))
    /\ UNCHANGED sent

Expire(t) ==
    /\ call[t] = "dequeue_with_timeout"
    /\ queue = <<>>
    /\ call' = [call EXCEPT ![t] = "none"]
    /\ UNCHANGED <<queue, val, sent, taken>>

Next == \E t \in Threads :
    \/ \E v \in Items : CallEnqueue(t, v)
    \/ \E c \in {"dequeue", "dequeue_with_timeout"} : CallDequeue(t, c)
    \/ Enqueue(t) \/ Dequeue(t) \/ Expire(t)

Spec == Init /\ [][Next]_vars

(* Nothing is lost, invented, duplicated or reordered: what was enqueued is *)
(* what was dequeued followed by what is still in the queue.                *)
Conservation == sent = taken \o queue
=============================================================================
