--------------------------- MODULE SafeQueueProofs ---------------------------
(***************************************************************************)
(* Theorems about SafeQueue, for any threads and elements: its mutex       *)
(* excludes, no wakeup is lost, and it implements FifoQueue.               *)
(***************************************************************************)
EXTENDS SafeQueue, SequenceTheorems, TLAPS

(* Where a thread is fits the call it makes: it pushes in enqueue() only,   *)
(* and an element; it waits in a dequeue only, and times out in one of them.*)
CallsConsistent ==
    \A t \in Threads :
        /\ pc[t] \in {"push", "notify"} => op[t] = "enqueue"
        /\ pc[t] \in {"test", "wait", "relock"} => op[t] # "enqueue"
        /\ pc[t] \in {"lock", "push"} /\ op[t] = "enqueue" => val[t] \in Items
        /\ expired[t] /\ pc[t] # "idle" => op[t] = "dequeue_with_timeout"

(* What the threads rely on together. *)
IInv == TypeOK /\ CallsConsistent /\ MutualExclusion /\ NoLostWakeup

LEMMA InitIInv == Init => IInv
<1> SUFFICES ASSUME Init PROVE IInv
  OBVIOUS
<1>1. TypeOK
  BY DEF Init, TypeOK, Calls, Holding
<1>2. CallsConsistent
  BY DEF Init, CallsConsistent
<1>3. MutualExclusion
  BY QueueAssumption DEF Init, MutualExclusion, Holding
<1>4. NoLostWakeup
  BY DEF Init, NoLostWakeup
<1> QED
  BY <1>1, <1>2, <1>3, <1>4 DEF IInv

(* Each step preserves the invariant, action by action. *)
LEMMA StepIInv == IInv /\ [Next]_vars => IInv'
<1> SUFFICES ASSUME IInv, [Next]_vars PROVE IInv'
  OBVIOUS
<1> USE QueueAssumption DEF IInv, Calls, Holding
<1>1. ASSUME NEW t \in Threads, NEW o \in Calls, NEW v \in Items \union {None}, Call(t, o, v), o = "enqueue" => v \in Items
      PROVE  IInv'
  <2>1. TypeOK'
    BY <1>1 DEF Call, history, Goto, TypeOK, CallsConsistent
  <2>2. CallsConsistent'
    BY <1>1 DEF Call, history, Goto, TypeOK, CallsConsistent
  <2>3. MutualExclusion'
    BY <1>1 DEF Call, history, Goto, TypeOK, MutualExclusion
  <2>4. NoLostWakeup'
    BY <1>1 DEF Call, history, Goto, TypeOK, MutualExclusion, NoLostWakeup
  <2> QED
    BY <2>1, <2>2, <2>3, <2>4
<1>2. ASSUME NEW t \in Threads, Lock(t)
      PROVE  IInv'
  <2>1. TypeOK'
    BY <1>2 DEF Lock, history, Goto, TypeOK, CallsConsistent
  <2>2. CallsConsistent'
    BY <1>2 DEF Lock, history, Goto, TypeOK, CallsConsistent
  <2>3. MutualExclusion'
    BY <1>2 DEF Lock, history, Goto, TypeOK, MutualExclusion
  <2>4. NoLostWakeup'
    BY <1>2 DEF Lock, history, Goto, TypeOK, MutualExclusion, NoLostWakeup
  <2> QED
    BY <2>1, <2>2, <2>3, <2>4
<1>3. ASSUME NEW t \in Threads, Push(t)
      PROVE  IInv'
  <2>1. TypeOK'
    BY <1>3 DEF Push, Goto, TypeOK, CallsConsistent
  <2>2. CallsConsistent'
    BY <1>3 DEF Push, Goto, TypeOK, CallsConsistent
  <2>3. MutualExclusion'
    BY <1>3 DEF Push, Goto, TypeOK, MutualExclusion
  <2>4. NoLostWakeup'
    BY <1>3 DEF Push, Goto, TypeOK, MutualExclusion, NoLostWakeup
  <2> QED
    BY <2>1, <2>2, <2>3, <2>4
<1>4. ASSUME NEW t \in Threads, Notify(t)
      PROVE  IInv'
  <2>1. TypeOK'
    BY <1>4 DEF Notify, Unlock, history, Goto, TypeOK, CallsConsistent
  <2>2. CallsConsistent'
    BY <1>4 DEF Notify, Unlock, history, Goto, TypeOK, CallsConsistent
  <2>3. MutualExclusion'
    BY <1>4 DEF Notify, Unlock, history, Goto, TypeOK, MutualExclusion
  <2>4. NoLostWakeup'
    BY <1>4 DEF Notify, Unlock, history, Goto, TypeOK, MutualExclusion, NoLostWakeup
  <2> QED
    BY <2>1, <2>2, <2>3, <2>4
<1>5. ASSUME NEW t \in Threads, Wait(t)
      PROVE  IInv'
  <2>1. TypeOK'
    BY <1>5 DEF Wait, Unlock, history, Goto, TypeOK, CallsConsistent
  <2>2. CallsConsistent'
    BY <1>5 DEF Wait, Unlock, history, Goto, TypeOK, CallsConsistent
  <2>3. MutualExclusion'
    BY <1>5 DEF Wait, Unlock, history, Goto, TypeOK, MutualExclusion
  <2>4. NoLostWakeup'
    BY <1>5 DEF Wait, Unlock, history, Goto, TypeOK, MutualExclusion, NoLostWakeup
  <2> QED
    BY <2>1, <2>2, <2>3, <2>4
<1>6. ASSUME NEW t \in Threads, SpuriousWakeup(t)
      PROVE  IInv'
  <2>1. TypeOK'
    BY <1>6 DEF SpuriousWakeup, history, Goto, TypeOK, CallsConsistent
  <2>2. CallsConsistent'
    BY <1>6 DEF SpuriousWakeup, history, Goto, TypeOK, CallsConsistent
  <2>3. MutualExclusion'
    BY <1>6 DEF SpuriousWakeup, history, Goto, TypeOK, MutualExclusion
  <2>4. NoLostWakeup'
    BY <1>6 DEF SpuriousWakeup, history, Goto, TypeOK, MutualExclusion, NoLostWakeup
  <2> QED
    BY <2>1, <2>2, <2>3, <2>4
<1>7. ASSUME NEW t \in Threads, Timeout(t)
      PROVE  IInv'
  <2>1. TypeOK'
    BY <1>7 DEF Timeout, history, Goto, TypeOK, CallsConsistent
  <2>2. CallsConsistent'
    BY <1>7 DEF Timeout, history, Goto, TypeOK, CallsConsistent
  <2>3. MutualExclusion'
    BY <1>7 DEF Timeout, history, Goto, TypeOK, MutualExclusion
  <2>4. NoLostWakeup'
    BY <1>7 DEF Timeout, history, Goto, TypeOK, MutualExclusion, NoLostWakeup
  <2> QED
    BY <2>1, <2>2, <2>3, <2>4
<1>8. ASSUME NEW t \in Threads, Relock(t)
      PROVE  IInv'
  <2>1. TypeOK'
    BY <1>8 DEF Relock, history, Goto, TypeOK, CallsConsistent
  <2>2. CallsConsistent'
    BY <1>8 DEF Relock, history, Goto, TypeOK, CallsConsistent
  <2>3. MutualExclusion'
    BY <1>8 DEF Relock, history, Goto, TypeOK, MutualExclusion
  <2>4. NoLostWakeup'
    BY <1>8 DEF Relock, history, Goto, TypeOK, MutualExclusion, NoLostWakeup
  <2> QED
    BY <2>1, <2>2, <2>3, <2>4
<1>9. ASSUME NEW t \in Threads, Pop(t)
      PROVE  IInv'
  <2>1. TypeOK'
    BY <1>9 DEF Pop, Unlock, Goto, TypeOK, CallsConsistent
  <2>2. CallsConsistent'
    BY <1>9 DEF Pop, Unlock, Goto, TypeOK, CallsConsistent
  <2>3. MutualExclusion'
    BY <1>9 DEF Pop, Unlock, Goto, TypeOK, MutualExclusion
  <2>4. NoLostWakeup'
    BY <1>9 DEF Pop, Unlock, Goto, TypeOK, MutualExclusion, NoLostWakeup
  <2> QED
    BY <2>1, <2>2, <2>3, <2>4
<1>10. ASSUME NEW t \in Threads, GiveUp(t)
      PROVE  IInv'
  <2>1. TypeOK'
    BY <1>10 DEF GiveUp, Unlock, history, Goto, TypeOK, CallsConsistent
  <2>2. CallsConsistent'
    BY <1>10 DEF GiveUp, Unlock, history, Goto, TypeOK, CallsConsistent
  <2>3. MutualExclusion'
    BY <1>10 DEF GiveUp, Unlock, history, Goto, TypeOK, MutualExclusion
  <2>4. NoLostWakeup'
    BY <1>10 DEF GiveUp, Unlock, history, Goto, TypeOK, MutualExclusion, NoLostWakeup
  <2> QED
    BY <2>1, <2>2, <2>3, <2>4
<1>11. CASE UNCHANGED vars
  BY <1>11 DEF vars, history, TypeOK, CallsConsistent, MutualExclusion, NoLostWakeup
<1> QED
  BY <1>1, <1>2, <1>3, <1>4, <1>5, <1>6, <1>7, <1>8, <1>9, <1>10, <1>11
     DEF Next, Step, CallEnqueue, CallDequeue

(* The invariant holds in every reachable state. *)
THEOREM SafeQueueInvariant == Spec => []IInv
BY InitIInv, StepIInv, PTL DEF Spec

(* The queue, its waiters and the calls keep their types. *)
THEOREM SafeQueueTypes == Spec => []TypeOK
<1>1. IInv => TypeOK
  BY DEF IInv
<1> QED
  BY <1>1, SafeQueueInvariant, PTL

(* Only the holder of m_mutex is in a critical section: m_queue is never    *)
(* touched by two threads at once.                                          *)
THEOREM SafeQueueExcludes == Spec => []MutualExclusion
<1>1. IInv => MutualExclusion
  BY DEF IInv
<1> QED
  BY <1>1, SafeQueueInvariant, PTL

(* A thread never sleeps on m_cv beside an element nobody will announce:    *)
(* the notify_all() under the lock and the retest after each wakeup suffice.*)
THEOREM SafeQueueLosesNoWakeup == Spec => []NoLostWakeup
<1>1. IInv => NoLostWakeup
  BY DEF IInv
<1> QED
  BY <1>1, SafeQueueInvariant, PTL

(* The elements dequeued so far, then those in the queue, are the elements  *)
(* enqueued so far: one step.                                               *)
LEMMA StepConservation == TypeOK /\ CallsConsistent /\ Conservation /\ [Next]_vars => Conservation'
<1> SUFFICES ASSUME TypeOK, CallsConsistent, Conservation, [Next]_vars PROVE Conservation'
  OBVIOUS
<1> USE DEF Conservation, Fifo!Conservation
<1>1. ASSUME NEW t \in Threads, Push(t)
      PROVE  Conservation'
  <2>1. val[t] \in Items /\ m_queue \in Seq(Items) /\ taken \in Seq(Items)
    BY <1>1 DEF Push, Goto, TypeOK, CallsConsistent
  <2>2. Append(taken \o m_queue, val[t]) = taken \o Append(m_queue, val[t])
    <3>1. <<val[t]>> \in Seq(Items) /\ taken \o m_queue \in Seq(Items)
      BY <2>1, ConcatProperties
    <3>2. (taken \o m_queue) \o <<val[t]>> = taken \o (m_queue \o <<val[t]>>)
      BY <2>1, <3>1, ConcatAssociative
    <3> QED
      BY <2>1, <3>1, <3>2, AppendIsConcat
  <2> QED
    BY <1>1, <2>2 DEF Push
<1>2. ASSUME NEW t \in Threads, Pop(t)
      PROVE  Conservation'
  <2>1. m_queue \in Seq(Items) /\ taken \in Seq(Items) /\ m_queue # <<>>
    BY <1>2 DEF Pop, TypeOK
  <2>2. taken \o m_queue = Append(taken, Head(m_queue)) \o Tail(m_queue)
    <3>1. /\ Head(m_queue) \in Items /\ Tail(m_queue) \in Seq(Items)
          /\ <<Head(m_queue)>> \in Seq(Items)
          /\ m_queue = <<Head(m_queue)>> \o Tail(m_queue)
      BY <2>1
    <3>2. taken \o (<<Head(m_queue)>> \o Tail(m_queue)) = (taken \o <<Head(m_queue)>>) \o Tail(m_queue)
      BY <2>1, <3>1, ConcatAssociative
    <3> QED
      BY <2>1, <3>1, <3>2, AppendIsConcat
  <2> QED
    BY <1>2, <2>2 DEF Pop
<1>3. ASSUME UNCHANGED <<m_queue, sent, taken>>
      PROVE  Conservation'
  BY <1>3
<1> QED
  BY <1>1, <1>2, <1>3
     DEF Next, Step, CallEnqueue, CallDequeue, Call, Lock, Notify, Wait, SpuriousWakeup,
         Timeout, Relock, GiveUp, history, vars

(* FIFO order, no loss, no duplicate: what SafeQueue delivers is what was   *)
(* put in it, in that order.                                                *)
THEOREM SafeQueueConserves == Spec => []Conservation
<1>1. Init => Conservation
  BY DEF Init, Conservation, Fifo!Conservation
<1>2. IInv => TypeOK /\ CallsConsistent
  BY DEF IInv
<1> QED
  BY <1>1, <1>2, SafeQueueInvariant, StepConservation, PTL DEF Spec

-----------------------------------------------------------------------------
(* Refinement.  Each step of SafeQueue is the start, the effect or nothing  *)
(* of a call of FifoQueue.                                                  *)
LEMMA StepRefines == IInv /\ [Next]_vars => [Fifo!Next]_(Fifo!vars)
<1> SUFFICES ASSUME IInv, [Next]_vars PROVE [Fifo!Next]_(Fifo!vars)
  OBVIOUS
<1> DEFINE bar == [t \in Threads |-> IF pc[t] \in {"idle", "notify"} THEN "none" ELSE op[t]]
<1> USE DEF IInv, TypeOK, CallsConsistent, Calls, Holding
<1>1. ASSUME NEW t \in Threads, NEW v \in Items, CallEnqueue(t, v)
      PROVE  Fifo!CallEnqueue(t, v)
  BY <1>1 DEF CallEnqueue, Call, Goto, Fifo!CallEnqueue, history
<1>2. ASSUME NEW t \in Threads, NEW o \in {"dequeue", "dequeue_with_timeout"}, CallDequeue(t, o)
      PROVE  Fifo!CallDequeue(t, o)
  BY <1>2 DEF CallDequeue, Call, Goto, Fifo!CallDequeue, history
<1>3. ASSUME NEW t \in Threads, Push(t)
      PROVE  Fifo!Enqueue(t)
  BY <1>3 DEF Push, Goto, Fifo!Enqueue
<1>4. ASSUME NEW t \in Threads, Pop(t)
      PROVE  Fifo!Dequeue(t)
  <2>1. op[t] \in {"dequeue", "dequeue_with_timeout"}
    BY <1>4 DEF Pop, Goto
  <2> QED
    BY <1>4, <2>1 DEF Pop, Goto, Fifo!Dequeue
<1>5. ASSUME NEW t \in Threads, GiveUp(t)
      PROVE  Fifo!Expire(t)
  BY <1>5 DEF GiveUp, Goto, Fifo!Expire, history
<1>6. ASSUME NEW t \in Threads,
             Lock(t) \/ Notify(t) \/ Wait(t) \/ SpuriousWakeup(t) \/ Timeout(t) \/ Relock(t)
      PROVE  UNCHANGED Fifo!vars
  <2>1. UNCHANGED <<m_queue, val, sent, taken>>
    BY <1>6 DEF Lock, Notify, Wait, SpuriousWakeup, Timeout, Relock, history
  <2>2. bar' = bar
    BY <1>6 DEF Lock, Notify, Wait, SpuriousWakeup, Timeout, Relock, Goto
  <2> QED
    BY <2>1, <2>2 DEF Fifo!vars
<1>7. CASE UNCHANGED vars
  BY <1>7 DEF vars, history, Fifo!vars
<1> QED
  BY <1>1, <1>2, <1>3, <1>4, <1>5, <1>6, <1>7 DEF Next, Step, Fifo!Next

(* SafeQueue implements FifoQueue: whoever uses it may reason with atomic   *)
(* operations, as FilePipeline and Lifecycle do.                            *)
THEOREM SafeQueueRefinesFifo == Spec => ImplementsFifo
<1>1. Init => Fifo!Init
  BY DEF Init, Fifo!Init
<1> QED
  BY <1>1, SafeQueueInvariant, StepRefines, PTL DEF Spec, ImplementsFifo, Fifo!Spec
=============================================================================
