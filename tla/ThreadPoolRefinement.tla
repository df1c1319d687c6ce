------------------------ MODULE ThreadPoolRefinement ------------------------
(***************************************************************************)
(* The proof that ThreadPool implements TaskPool: every step of the        *)
(* threads is a step of the abstract pool or leaves it unchanged.          *)
(***************************************************************************)
EXTENDS ThreadPoolProofs

\* Steps that leave the queue, the running tasks, the results and the two
\* flags alone are invisible to TaskPool.
LEMMA Invisible ==
  ASSUME IInv, UNCHANGED <<arg, m_tasks, cur, stop>>,
         (pc'[Owner] = "gone") = (pc[Owner] = "gone"),
         fut' = fut \/ \E t \in Tasks : fut[t] = "none" /\ fut' = [fut EXCEPT ![t] = "pending"]
  PROVE  UNCHANGED Abstract!vars
<1>1. Running' = Running
  BY DEF Running
<1>2. Result' = Result
  BY DEF Result, Resolved, IInv, TypeOK
<1> QED BY <1>1, <1>2 DEF Abstract!vars

\* The abstract view of a task: which tasks run, and which are resolved.
LEMMA AbstractView ==
  ASSUME IInv, pc[Owner] # "gone"
  PROVE  /\ Running \subseteq Elems(started)
         /\ Elems(accepted) = Elems(started) \cup Elems(m_tasks)
         /\ Elems(started) \cap Elems(m_tasks) = {}
         /\ Elems(accepted) \subseteq Tasks
         /\ \A t \in Tasks : Abstract!InQueue(t) <=> t \in Elems(m_tasks)
         /\ \A t \in Tasks : fut[t] = "pending" => Result[t] = "none"
<1>1. /\ started \in Seq(Tasks) /\ m_tasks \in Seq(Tasks) /\ accepted \in Seq(Tasks)
      /\ accepted = started \o m_tasks /\ Distinct(accepted)
  BY DEF IInv, TakenInOrder, TypeOK
<1>2. Running \subseteq Elems(started)
  BY PoolAssumption DEF Running, IInv, CurInv, PoolAssumption
<1>3. /\ Elems(started) \cap Elems(m_tasks) = {}
      /\ Elems(accepted) = Elems(started) \cup Elems(m_tasks)
      /\ Elems(accepted) \subseteq Tasks
  BY ONLY <1>1, DistinctConcat, ElemsConcat, ElemsIn
<1>4. \A t \in Tasks : Abstract!InQueue(t) <=> t \in Elems(m_tasks)
  BY DEF Abstract!InQueue, Elems
<1>5. \A t \in Tasks : fut[t] = "pending" => Result[t] = "none"
  BY DEF Result, Resolved
<1> QED BY <1>2, <1>3, <1>4, <1>5

\* EnqueuePush accepts a fresh task.
LEMMA PushAccepts ==
  ASSUME IInv, NEW x \in Workers \cup Clients, EnqueuePush(x)
  PROVE  \E t \in Tasks : Abstract!Accept(t)
<1>1. /\ sub[x] \in Tasks /\ fut[sub[x]] = "pending" /\ sub[x] \notin Elems(accepted)
      /\ pc[Owner] # "gone"
  BY DEF EnqueuePush, Goto, IInv, SubInv, InEnqueue, PhaseInv, Stopped
<1>2. Abstract!Fresh(sub[x])
  BY <1>1, AbstractView DEF Abstract!Fresh
<1>3. Running' = Running /\ Result' = Result
  BY DEF EnqueuePush, Running, Result
<1>4. (pc'[Owner] = "gone") = (pc[Owner] = "gone")
  BY ThreadKinds DEF EnqueuePush, Goto, IInv, TypeOK
<1>5. Abstract!Accept(sub[x])
  BY <1>2, <1>3, <1>4 DEF Abstract!Accept, EnqueuePush
<1> QED BY <1>1, <1>5

\* EnqueueThrow refuses a fresh task.
LEMMA ThrowRefuses ==
  ASSUME IInv, NEW x \in Workers, EnqueueThrow(x)
  PROVE  \E t \in Tasks : Abstract!Refuse(t)
<1>1. /\ sub[x] \in Tasks /\ fut[sub[x]] = "pending" /\ sub[x] \notin Elems(accepted)
      /\ pc[Owner] # "gone" /\ pc'[Owner] = pc[Owner]
  BY ThreadKinds DEF EnqueueThrow, Goto, IInv, TypeOK, SubInv, InEnqueue, PhaseInv
<1>2. Abstract!Fresh(sub[x])
  BY <1>1, AbstractView DEF Abstract!Fresh
<1>3. Running' = Running
  BY DEF EnqueueThrow, Running
<1>4. Result' = [Result EXCEPT ![sub[x]] = "broken"]
  BY <1>1 DEF EnqueueThrow, Result, Resolved, IInv, TypeOK
<1>5. Abstract!Refuse(sub[x])
  BY <1>1, <1>2, <1>3, <1>4 DEF Abstract!Refuse, EnqueueThrow
<1> QED BY <1>1, <1>5

\* There is a free worker, the one that takes the task, so fewer tasks run
\* than the pool has workers.
LEMMA RunningBound ==
  ASSUME IInv, NEW w \in Workers, pc[w] = "check"
  PROVE  Cardinality(Running) < arg
<1> DEFINE B == {v \in Workers : cur[v] # NoTask}
           f == [v \in B |-> cur[v]]
<1>1. arg \in Nat /\ w \in 1..arg /\ B \subseteq (1..arg) \ {w}
  <2>1. arg \in Nat /\ threads \in 0..arg
    BY PoolAssumption DEF IInv, TypeOK, PoolAssumption
  <2>2. \A v \in Workers : pc[v] # "unborn" => v \in 1..arg
    BY <2>1 DEF IInv, PhaseInv, Workers
  <2>3. \A v \in B : pc[v] # "unborn" /\ v # w
    BY DEF IInv, CurInv, Busy
  <2> QED BY <2>1, <2>2, <2>3
<1>2. IsFiniteSet(1..arg) /\ Cardinality(1..arg) = arg
  BY <1>1, FS_Interval
<1>3. IsFiniteSet((1..arg) \ {w}) /\ Cardinality((1..arg) \ {w}) = arg - 1
  BY <1>1, <1>2, FS_RemoveElement
<1>4. IsFiniteSet(B) /\ Cardinality(B) <= arg - 1
  BY <1>1, <1>3, FS_Subset
<1>5. f \in Surjection(B, Running)
  BY PoolAssumption DEF Surjection, Running, IInv, TypeOK, PoolAssumption
<1>6. IsFiniteSet(Running) /\ Cardinality(Running) <= Cardinality(B)
  BY <1>4, <1>5, FS_Surjection
<1>7. Cardinality(Running) \in Nat /\ Cardinality(B) \in Nat
  BY <1>4, <1>6, FS_CardinalityType
<1> QED BY <1>1, <1>4, <1>6, <1>7

\* WorkerTake starts the front task.
LEMMA TakeStarts ==
  ASSUME IInv, NEW w \in Workers, WorkerTake(w)
  PROVE  Abstract!Start
<1>1. /\ pc[w] = "check" /\ m_tasks # <<>> /\ m_tasks' = Tail(m_tasks)
      /\ cur' = [cur EXCEPT ![w] = Head(m_tasks)] /\ UNCHANGED <<arg, fut, stop>>
      /\ pc'[Owner] = pc[Owner]
  BY ThreadKinds DEF WorkerTake, Goto, IInv, TypeOK
<1>2. Head(m_tasks) \in Tasks /\ cur[w] = NoTask
  BY <1>1, ElemsHeadTail DEF IInv, TypeOK, CurInv, Busy
<1>3. Running' = Running \cup {Head(m_tasks)}
  BY <1>1, <1>2, PoolAssumption DEF Running, IInv, TypeOK, PoolAssumption
<1>4. Result' = Result
  BY <1>1 DEF Result
<1>5. Cardinality(Running) < arg
  BY <1>1, RunningBound
<1>6. UNCHANGED <<arg, Result, stop, pc[Owner] = "gone">>
  BY <1>1, <1>4
<1>7. m_tasks # <<>> /\ m_tasks' = Tail(m_tasks)
  BY <1>1
<1>8. Abstract!Cardinality(Running) = Cardinality(Running)
  BY DEF Abstract!Cardinality, Cardinality
<1> QED BY ONLY <1>3, <1>5, <1>6, <1>7, <1>8 DEF Abstract!Start

\* WorkerFinish finishes the task that the worker runs.
LEMMA FinishFinishes ==
  ASSUME IInv, NEW w \in Workers, WorkerFinish(w)
  PROVE  \E t \in Tasks : Abstract!Finish(t)
<1>1. /\ cur[w] # NoTask /\ cur' = [cur EXCEPT ![w] = NoTask]
      /\ UNCHANGED <<arg, m_tasks, stop>> /\ pc'[Owner] = pc[Owner]
  BY ThreadKinds DEF WorkerFinish, Goto, IInv, TypeOK
<1>2. PICK r \in {"value", "exception"} : fut' = [fut EXCEPT ![cur[w]] = r]
  BY DEF WorkerFinish
<1>3. cur[w] \in Tasks /\ cur[w] \in Running
  BY <1>1 DEF Running, IInv, TypeOK
<1>4. Running' = Running \ {cur[w]}
  <2>1. \A v \in Workers : cur[v] = cur[w] => v = w
    BY <1>1 DEF IInv, CurInv
  <2> QED BY <1>1, <1>3, <2>1, PoolAssumption DEF Running, IInv, TypeOK, PoolAssumption
<1>5. Result' = [Result EXCEPT ![cur[w]] = r]
  BY <1>2, <1>3 DEF Result, Resolved, IInv, TypeOK
<1>6. Abstract!Finish(cur[w])
  BY <1>1, <1>3, <1>4, <1>5 DEF Abstract!Finish
<1> QED BY <1>3, <1>6

\* DtorJoin destroys a drained pool.
LEMMA JoinDestroys ==
  ASSUME IInv, DtorJoin
  PROVE  Abstract!Destroy
<1>1. /\ pc[Owner] = "djoin" /\ pc'[Owner] = "gone" /\ stop
      /\ \A w \in Workers : pc[w] \in {"unborn", "exit"}
      /\ UNCHANGED <<arg, cur, stop>> /\ m_tasks' = <<>>
  BY ThreadKinds DEF DtorJoin, Goto, IInv, TypeOK, PhaseInv, Stopped
<1>2. Running = {} /\ Running' = {}
  BY <1>1, PoolAssumption DEF Running, IInv, CurInv, Busy, PoolAssumption
<1>3. arg > 0 => m_tasks = <<>>
  BY <1>1, JoinedIsDrained
<1>4. Result' = [t \in Tasks |-> IF Abstract!InQueue(t) THEN "broken" ELSE Result[t]]
  BY DEF DtorJoin, Result, Resolved, Abstract!InQueue, IInv, TypeOK
<1> QED BY <1>1, <1>2, <1>3, <1>4 DEF Abstract!Destroy

\* Every step of the threads is a step of TaskPool or invisible to it.
LEMMA StepSimulation == IInv /\ [Next]_vars => [Abstract!Next]_(Abstract!vars)
<1> SUFFICES ASSUME IInv, [Next]_vars PROVE Abstract!Next \/ UNCHANGED Abstract!vars
  BY DEF Abstract!vars
<1> USE ThreadKinds
<1>1. CASE LaunchWorker
  <2>1. arg - threads + 1 \in Workers
    BY <1>1, PoolAssumption DEF LaunchWorker, LoopGuard, IInv, TypeOK, Workers, PoolAssumption
  <2>2. pc'[Owner] = pc[Owner]
    BY <1>1, <2>1 DEF LaunchWorker, IInv, TypeOK
  <2> QED BY <1>1, <2>2, Invisible DEF LaunchWorker
<1>2. CASE Constructed \/ DtorLock \/ DtorAcquire
  <2>1. pc[Owner] # "gone" /\ pc'[Owner] # "gone"
    BY <1>2 DEF Constructed, DtorLock, DtorAcquire, Goto, IInv, TypeOK
  <2> QED BY <1>2, <2>1, Invisible DEF Constructed, DtorLock, DtorAcquire
<1>3. CASE DtorNotifyAll
  <2>1. pc[Owner] # "gone" /\ pc'[Owner] # "gone"
    BY <1>3 DEF DtorNotifyAll
  <2> QED BY <1>3, <2>1, Invisible DEF DtorNotifyAll
<1>4. CASE DtorStop
  <2>1. pc[Owner] # "gone" /\ pc'[Owner] # "gone" /\ ~stop /\ stop'
    BY <1>4 DEF DtorStop, Goto, IInv, TypeOK, PhaseInv, Stopped
  <2>2. Running' = Running /\ Result' = Result
    BY <1>4 DEF DtorStop, Running, Result
  <2>3. Abstract!Close
    BY <1>4, <2>1, <2>2 DEF DtorStop, Abstract!Close
  <2> QED BY <2>3 DEF Abstract!Next
<1>5. CASE DtorJoin
  BY <1>5, JoinDestroys DEF Abstract!Next
<1>6. ASSUME NEW x \in Workers \cup Clients, NEW t \in Tasks, Submit(x, t, pc[x])
      PROVE  UNCHANGED Abstract!vars
  <2>1. pc'[Owner] = pc[Owner]
    BY <1>6 DEF Submit, Goto, IInv, TypeOK
  <2> QED BY <1>6, <2>1, Invisible DEF Submit
<1>7. ASSUME NEW x \in Workers \cup Clients, EnqueueLock(x)
      PROVE  UNCHANGED Abstract!vars
  <2>1. pc'[Owner] = pc[Owner]
    BY <1>7 DEF EnqueueLock, Goto, IInv, TypeOK
  <2> QED BY <1>7, <2>1, Invisible DEF EnqueueLock
<1>8. ASSUME NEW x \in Workers \cup Clients, EnqueueNotify(x)
      PROVE  UNCHANGED Abstract!vars
  <2>1. pc'[Owner] = pc[Owner]
    BY <1>8 DEF EnqueueNotify, Waiting, IInv, TypeOK
  <2> QED BY <1>8, <2>1, Invisible DEF EnqueueNotify
<1>9. ASSUME NEW w \in Workers,
             \/ WorkerLock(w) \/ WorkerWait(w) \/ SpuriousWakeup(w)
             \/ WorkerReturn(w) \/ TaskAwait(w)
      PROVE  UNCHANGED Abstract!vars
  <2>1. pc'[Owner] = pc[Owner]
    BY <1>9 DEF WorkerLock, WorkerWait, SpuriousWakeup, WorkerReturn, TaskAwait, Goto, IInv, TypeOK
  <2>2. UNCHANGED <<arg, m_tasks, cur, stop, fut>>
    BY <1>9 DEF WorkerLock, WorkerWait, SpuriousWakeup, WorkerReturn, TaskAwait
  <2> QED BY <2>1, <2>2, Invisible
<1>10. ASSUME NEW c \in Clients, ClientCall(c) PROVE Abstract!Next \/ UNCHANGED Abstract!vars
  BY <1>10, <1>7, <1>8, PushAccepts DEF ClientCall, Abstract!Next
<1>11. ASSUME NEW c \in Clients, NEW t \in Roots, ClientEnqueue(c, t) PROVE UNCHANGED Abstract!vars
  <2>1. Submit(c, t, pc[c]) /\ t \in Tasks
    BY <1>11, PoolAssumption DEF ClientEnqueue, Submit, Goto, PoolAssumption
  <2> QED BY <2>1, <1>6
<1>12. ASSUME NEW w \in Workers, TaskEnqueue(w) PROVE UNCHANGED Abstract!vars
  <2>1. Submit(w, Child[cur[w]], pc[w]) /\ Child[cur[w]] \in Tasks
    BY <1>12, PoolAssumption DEF TaskEnqueue, Submit, Goto, IInv, TypeOK, PoolAssumption
  <2> QED BY <2>1, <1>6
<1>13. ASSUME NEW w \in Workers, WorkerStep(w) \/ SpuriousWakeup(w)
       PROVE  Abstract!Next \/ UNCHANGED Abstract!vars
  <2>1. ASSUME EnqueuePush(w) \/ EnqueueThrow(w) \/ WorkerTake(w) \/ WorkerFinish(w)
        PROVE  Abstract!Next
    BY <2>1, PushAccepts, ThrowRefuses, TakeStarts, FinishFinishes DEF Abstract!Next
  <2> QED BY <1>13, <2>1, <1>7, <1>8, <1>9, <1>12 DEF WorkerStep
<1>14. CASE Gone \/ UNCHANGED vars
  <2>1. UNCHANGED <<arg, m_tasks, cur, stop, fut, pc>>
    BY <1>14 DEF Gone, vars
  <2> QED BY <2>1, Invisible
<1> QED BY <1>1, <1>2, <1>3, <1>4, <1>5, <1>10, <1>11, <1>13, <1>14 DEF Next, DtorStep

\* The initial state of the threads is one of TaskPool.
LEMMA InitSimulation == Init => Abstract!Init
<1> SUFFICES ASSUME Init PROVE Abstract!Init
  OBVIOUS
<1>1. IInv
  BY InitIInv
<1>2. Running = {}
  BY PoolAssumption DEF Init, Running, PoolAssumption
<1>3. Result = [t \in Tasks |-> "none"]
  BY DEF Init, Result, Resolved
<1>4. pc[Owner] # "gone"
  BY ThreadKinds DEF Init
<1>5. arg \in 0..MaxThreads
  BY PoolAssumption DEF Init, PoolAssumption
<1> QED BY <1>2, <1>3, <1>4, <1>5 DEF Init, Abstract!Init

\* A pool of threads, of any size and for any set of tasks, implements the
\* abstract pool.
THEOREM Implementation == Spec => ImplementsTaskPool
<1>1. Init => Abstract!Init
  BY InitSimulation
<1>2. IInv /\ [Next]_vars => [Abstract!Next]_(Abstract!vars)
  BY StepSimulation
<1> QED BY <1>1, <1>2, Invariance, PTL DEF Spec, ImplementsTaskPool, Abstract!Spec
=============================================================================
