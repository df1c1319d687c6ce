-------------------------- MODULE ThreadPoolProofs --------------------------
(***************************************************************************)
(* Proofs about ThreadPool, for every number of workers and clients, every *)
(* set of tasks and every relation between tasks and the tasks they submit.*)
(***************************************************************************)
EXTENDS ThreadPool, SequenceTheorems, FiniteSetTheorems, TLAPS

(***************************************************************************)
(* Facts about sequences.                                                  *)
(***************************************************************************)

\* The elements of a sequence over S are in S.
LEMMA ElemsIn ==
  ASSUME NEW S, NEW s \in Seq(S)
  PROVE  Elems(s) \subseteq S
BY DEF Elems

\* Appending adds exactly the appended element to the elements of a queue.
LEMMA ElemsAppend ==
  ASSUME NEW S, NEW s \in Seq(S), NEW e \in S
  PROVE  Elems(Append(s, e)) = Elems(s) \cup {e}
<1>1. Append(s, e) \in Seq(S) /\ Len(Append(s, e)) = Len(s) + 1
  OBVIOUS
<1>2. \A i \in 1..Len(s) : Append(s, e)[i] = s[i]
  OBVIOUS
<1>3. Append(s, e)[Len(s) + 1] = e
  OBVIOUS
<1>4. DOMAIN s = 1..Len(s) /\ DOMAIN Append(s, e) = 1..(Len(s) + 1) /\ Len(s) \in Nat
  OBVIOUS
<1>5. ASSUME NEW x PROVE x \in Elems(Append(s, e)) <=> x \in Elems(s) \cup {e}
  <2>1. ASSUME NEW i \in DOMAIN Append(s, e) PROVE Append(s, e)[i] \in Elems(s) \cup {e}
    BY <1>2, <1>3, <1>4 DEF Elems
  <2>2. ASSUME NEW i \in DOMAIN s PROVE s[i] \in Elems(Append(s, e))
    <3>1. i \in DOMAIN Append(s, e) /\ Append(s, e)[i] = s[i]
      BY <1>2, <1>4
    <3> QED BY <3>1 DEF Elems
  <2>3. e \in Elems(Append(s, e))
    <3>1. Len(s) + 1 \in DOMAIN Append(s, e)
      BY <1>4
    <3> QED BY <3>1, <1>3 DEF Elems
  <2> QED BY <2>1, <2>2, <2>3 DEF Elems
<1> QED BY <1>5

\* The elements of a non-empty queue are its head and those of its tail.
LEMMA ElemsHeadTail ==
  ASSUME NEW S, NEW s \in Seq(S), s # <<>>
  PROVE  /\ Head(s) \in S /\ Tail(s) \in Seq(S)
         /\ Elems(s) = {Head(s)} \cup Elems(Tail(s))
<1>1. Len(s) \in Nat /\ Len(s) > 0 /\ DOMAIN s = 1..Len(s)
  BY EmptySeq
<1>2. Head(s) = s[1] /\ Head(s) \in S
  BY <1>1
<1>3. Tail(s) \in Seq(S) /\ Len(Tail(s)) = Len(s) - 1 /\ DOMAIN Tail(s) = 1..(Len(s) - 1)
  BY <1>1
<1>4. \A i \in 1..(Len(s) - 1) : Tail(s)[i] = s[i + 1]
  BY <1>1
<1>5. ASSUME NEW x PROVE x \in Elems(s) <=> x \in {Head(s)} \cup Elems(Tail(s))
  <2>1. ASSUME NEW i \in DOMAIN s PROVE s[i] \in {Head(s)} \cup Elems(Tail(s))
    <3>1. CASE i = 1
      BY <3>1, <1>2
    <3>2. CASE i # 1
      <4>1. i - 1 \in DOMAIN Tail(s) /\ Tail(s)[i - 1] = s[i]
        BY <3>2, <1>1, <1>3, <1>4
      <4> QED BY <4>1 DEF Elems
    <3> QED BY <3>1, <3>2
  <2>2. ASSUME NEW i \in DOMAIN Tail(s) PROVE Tail(s)[i] \in Elems(s)
    <3>1. i + 1 \in DOMAIN s /\ Tail(s)[i] = s[i + 1]
      BY <1>1, <1>3, <1>4
    <3> QED BY <3>1 DEF Elems
  <2>3. Head(s) \in Elems(s)
    BY <1>1, <1>2 DEF Elems
  <2> QED BY <2>1, <2>2, <2>3 DEF Elems
<1> QED BY <1>2, <1>3, <1>5

\* The elements of a concatenation.
LEMMA ElemsConcat ==
  ASSUME NEW S, NEW s \in Seq(S), NEW r \in Seq(S)
  PROVE  Elems(s \o r) = Elems(s) \cup Elems(r)
<1>1. /\ Len(s) \in Nat /\ DOMAIN s = 1..Len(s)
      /\ Len(r) \in Nat /\ DOMAIN r = 1..Len(r)
      /\ DOMAIN (s \o r) = 1..(Len(s) + Len(r))
  OBVIOUS
<1>2. \A i \in DOMAIN (s \o r) : (s \o r)[i] = IF i <= Len(s) THEN s[i] ELSE r[i - Len(s)]
  BY <1>1
<1>3. ASSUME NEW i \in DOMAIN (s \o r) PROVE (s \o r)[i] \in Elems(s) \cup Elems(r)
  <2>1. CASE i <= Len(s)
    <3>1. i \in DOMAIN s /\ (s \o r)[i] = s[i]
      BY <2>1, <1>1, <1>2
    <3> QED BY <3>1 DEF Elems
  <2>2. CASE ~(i <= Len(s))
    <3>1. i - Len(s) \in DOMAIN r /\ (s \o r)[i] = r[i - Len(s)]
      BY <2>2, <1>1, <1>2
    <3> QED BY <3>1 DEF Elems
  <2> QED BY <2>1, <2>2
<1>4. ASSUME NEW i \in DOMAIN s PROVE s[i] \in Elems(s \o r)
  <2>1. i \in DOMAIN (s \o r) /\ (s \o r)[i] = s[i]
    BY <1>1, <1>2
  <2> QED BY <2>1 DEF Elems
<1>5. ASSUME NEW i \in DOMAIN r PROVE r[i] \in Elems(s \o r)
  <2>1. i + Len(s) \in DOMAIN (s \o r) /\ (s \o r)[i + Len(s)] = r[i]
    BY <1>1, <1>2
  <2> QED BY <2>1 DEF Elems
<1> QED BY <1>3, <1>4, <1>5 DEF Elems

\* If no element occurs twice in s \o r, none occurs both in s and in r.
LEMMA DistinctConcat ==
  ASSUME NEW S, NEW s \in Seq(S), NEW r \in Seq(S), Distinct(s \o r)
  PROVE  Elems(s) \cap Elems(r) = {}
<1>1. /\ Len(s) \in Nat /\ DOMAIN s = 1..Len(s)
      /\ Len(r) \in Nat /\ DOMAIN r = 1..Len(r)
      /\ DOMAIN (s \o r) = 1..(Len(s) + Len(r))
  OBVIOUS
<1>2. ASSUME NEW i \in DOMAIN s, NEW j \in DOMAIN r PROVE s[i] # r[j]
  <2>1. i \in DOMAIN (s \o r) /\ j + Len(s) \in DOMAIN (s \o r) /\ i # j + Len(s)
    BY <1>1
  <2>2. (s \o r)[i] = s[i] /\ (s \o r)[j + Len(s)] = r[j]
    BY <1>1
  <2> QED BY <2>1, <2>2 DEF Distinct
<1> QED BY <1>2 DEF Elems

\* The elements of a queue without its head, when no element occurs twice.
LEMMA DistinctHead ==
  ASSUME NEW S, NEW s \in Seq(S), NEW r \in Seq(S), Distinct(s \o r), r # <<>>
  PROVE  Head(r) \notin Elems(Tail(r))
<1>1. /\ Len(s) \in Nat /\ DOMAIN s = 1..Len(s)
      /\ Len(r) \in Nat /\ DOMAIN r = 1..Len(r) /\ Len(r) > 0
      /\ DOMAIN (s \o r) = 1..(Len(s) + Len(r))
      /\ Head(r) = r[1]
      /\ DOMAIN Tail(r) = 1..(Len(r) - 1)
  BY EmptySeq
<1>2. ASSUME NEW j \in DOMAIN Tail(r) PROVE Tail(r)[j] # Head(r)
  <2>1. j + 1 \in DOMAIN r /\ Tail(r)[j] = r[j + 1]
    BY <1>1
  <2>2. /\ j + 1 + Len(s) \in DOMAIN (s \o r) /\ 1 + Len(s) \in DOMAIN (s \o r)
        /\ j + 1 + Len(s) # 1 + Len(s)
    BY <1>1
  <2>3. (s \o r)[1 + Len(s)] = r[1] /\ (s \o r)[j + 1 + Len(s)] = r[j + 1]
    BY <1>1, <2>1
  <2> QED BY <1>1, <2>1, <2>2, <2>3 DEF Distinct
<1> QED BY <1>2 DEF Elems

\* Appending an element that does not occur keeps the elements distinct.
LEMMA DistinctAppend ==
  ASSUME NEW S, NEW s \in Seq(S), NEW e \in S, Distinct(s), e \notin Elems(s)
  PROVE  Distinct(Append(s, e))
<1>1. /\ Len(s) \in Nat /\ DOMAIN s = 1..Len(s)
      /\ DOMAIN Append(s, e) = 1..(Len(s) + 1)
  OBVIOUS
<1>2. \A i \in 1..Len(s) : Append(s, e)[i] = s[i] /\ s[i] # e
  BY <1>1 DEF Elems
<1>3. Append(s, e)[Len(s) + 1] = e
  OBVIOUS
<1> QED BY <1>1, <1>2, <1>3 DEF Distinct

\* Moving the head of the queue to the end of what was taken.
LEMMA TakeConcat ==
  ASSUME NEW S, NEW s \in Seq(S), NEW r \in Seq(S), r # <<>>
  PROVE  s \o r = Append(s, Head(r)) \o Tail(r)
<1>1. Len(r) \in Nat /\ Len(r) > 0 /\ Len(s) \in Nat
  BY EmptySeq
<1>2. Head(r) \in S /\ Tail(r) \in Seq(S) /\ Len(Tail(r)) = Len(r) - 1
  BY <1>1
<1>3. s \o r \in Seq(S) /\ Append(s, Head(r)) \o Tail(r) \in Seq(S)
  BY <1>2
<1>4. Len(s \o r) = Len(Append(s, Head(r)) \o Tail(r))
  BY <1>1, <1>2
<1>5. \A i \in 1..Len(s \o r) : (s \o r)[i] = (Append(s, Head(r)) \o Tail(r))[i]
  BY <1>1, <1>2
<1> QED BY <1>3, <1>4, <1>5, SeqEqual

\* Accepting a task at the end of the queue.
LEMMA AppendConcat ==
  ASSUME NEW S, NEW s \in Seq(S), NEW r \in Seq(S), NEW e \in S,
         NEW a, a = s \o r
  PROVE  Append(a, e) = s \o Append(r, e)
<1>1. Append(s \o r, e) \in Seq(S) /\ s \o Append(r, e) \in Seq(S)
  OBVIOUS
<1>2. Len(Append(s \o r, e)) = Len(s \o Append(r, e))
  OBVIOUS
<1>3. \A i \in 1..Len(Append(s \o r, e)) : Append(s \o r, e)[i] = (s \o Append(r, e))[i]
  OBVIOUS
<1> QED BY <1>1, <1>2, <1>3, SeqEqual

(***************************************************************************)
(* The inductive invariant.                                                *)
(***************************************************************************)

\* The constructor's initial state satisfies the invariant.
LEMMA InitIInv == Init => IInv
<1> SUFFICES ASSUME Init PROVE IInv
  OBVIOUS
<1> USE PoolAssumption DEF PoolAssumption, Init
<1>0. \A x \in Threads : pc[x] = IF x \in Workers THEN "unborn"
                                ELSE IF x = Owner THEN "ctor" ELSE "idle"
  OBVIOUS
<1>1. TypeOK
  <2>1. threads \in 0..arg
    OBVIOUS
  <2>2. pc \in [Threads -> PcWorker \cup PcClient \cup PcOwner]
    BY DEF PcWorker, PcClient, PcOwner
  <2>3. /\ \A w \in Workers : pc[w] \in PcWorker
        /\ \A c \in Clients : pc[c] \in PcClient
        /\ pc[Owner] \in PcOwner
    BY <1>0 DEF Threads, PcWorker, PcClient, PcOwner
  <2>4. /\ cur \in [Workers -> Tasks \cup {NoTask}]
        /\ sub \in [Workers \cup Clients -> Tasks \cup {NoTask}]
        /\ fut \in [Tasks -> Unresolved \cup Resolved]
    BY DEF Unresolved
  <2>5. /\ m_tasks \in Seq(Tasks) /\ accepted \in Seq(Tasks) /\ started \in Seq(Tasks)
        /\ arg \in MinThreads..MaxThreads /\ stop \in BOOLEAN
        /\ mutex \in Threads \cup {NoThread} /\ spurious \in Nat
    BY EmptySeq
  <2> QED BY ONLY <2>1, <2>2, <2>3, <2>4, <2>5 DEF TypeOK
<1>2. LockInv
  BY DEF LockInv, Holding, Threads
<1>3. PhaseInv
  <2>1. \A w \in Workers : pc[w] = "unborn" /\ w > arg - threads
    BY <1>0 DEF Threads, Workers
  <2>2. pc[Owner] = "ctor" /\ \A c \in Clients : pc[c] = "idle"
    BY <1>0 DEF Threads
  <2> QED BY <2>1, <2>2 DEF PhaseInv, Stopped
<1>4. SubInv /\ CurInv
  BY DEF SubInv, CurInv, InEnqueue, Busy, Threads
<1>5. FutInv /\ TakenInOrder
  BY DEF FutInv, TakenInOrder, Elems, Distinct
<1> QED BY <1>1, <1>2, <1>3, <1>4, <1>5 DEF IInv

\* The constructor's loop preserves the invariant.
LEMMA CtorIInv == IInv /\ (LaunchWorker \/ Constructed) => IInv'
<1> USE PoolAssumption DEF PoolAssumption
<1>1. ASSUME IInv, LaunchWorker PROVE IInv'
  <2> USE <1>1 DEF IInv, LaunchWorker, LoopGuard
  <2>1. arg - threads + 1 \in Workers
    BY DEF TypeOK, Workers
  <2>2. TypeOK'
    BY <2>1 DEF TypeOK, Threads, PcWorker
  <2>3. LockInv'
    BY <2>1, SMTT(30) DEF LockInv, Holding, PhaseInv, TypeOK, Workers, Threads
  <2>4. PhaseInv'
    BY <2>1 DEF PhaseInv, TypeOK, Stopped, Workers, Threads
  <2>5. SubInv' /\ CurInv' /\ FutInv' /\ TakenInOrder'
    BY <2>1, SMTT(30) DEF SubInv, CurInv, FutInv, TakenInOrder, InEnqueue, Busy, PhaseInv, TypeOK,
                             Workers, Threads
  <2> QED BY <2>2, <2>3, <2>4, <2>5
<1>2. ASSUME IInv, Constructed PROVE IInv'
  <2> USE <1>2 DEF IInv, Constructed, LoopGuard, Goto
  <2>2. TypeOK'
    BY DEF TypeOK, Threads, PcOwner
  <2>3. LockInv'
    BY DEF LockInv, Holding, TypeOK, Threads
  <2>4. PhaseInv'
    BY DEF PhaseInv, TypeOK, Stopped, Workers, Threads
  <2>5. SubInv' /\ CurInv' /\ FutInv' /\ TakenInOrder'
    BY DEF SubInv, CurInv, FutInv, TakenInOrder, InEnqueue, Busy, PhaseInv, TypeOK,
                             Workers, Threads
  <2> QED BY <2>2, <2>3, <2>4, <2>5
<1> QED BY <1>1, <1>2

\* The three kinds of thread are disjoint.
LEMMA ThreadKinds ==
  /\ Workers \subseteq Threads /\ Clients \subseteq Threads /\ Owner \in Threads
  /\ Owner \notin Workers /\ Owner \notin Clients
  /\ \A w \in Workers : w \notin Clients
  /\ \A x \in Threads : x # NoThread /\ (x \in Workers \cup Clients \/ x = Owner)
BY PoolAssumption DEF PoolAssumption, Threads

\* Creating the task of an enqueue() call preserves the invariant.
LEMMA SubmitIInv ==
  ASSUME IInv, NEW t \in Tasks,
         \/ \E c \in Clients : ClientEnqueue(c, t)
         \/ \E w \in Workers : TaskEnqueue(w) /\ t = Child[cur[w]]
  PROVE  IInv'
<1> USE ThreadKinds DEF IInv
<1>1. PICK x \in Workers \cup Clients :
        /\ Submit(x, t, pc[x])
        /\ pc[x] \in {"idle", "run"}
        /\ x \in Workers => pc[x] = "run"
        /\ x \in Clients => pc[x] = "idle" /\ pc[Owner] = "idle"
  BY DEF ClientEnqueue, TaskEnqueue, Submit, Goto
<1> USE <1>1 DEF Submit, Goto
<1>2. TypeOK'
  BY DEF TypeOK, PcWorker, PcClient, Unresolved
<1>3. LockInv'
  BY DEF LockInv, TypeOK, Holding
<1>4. PhaseInv'
  BY DEF PhaseInv, TypeOK, Stopped
<1>5. t \notin Elems(accepted)
  BY DEF FutInv
<1>6. SubInv'
  BY <1>5 DEF SubInv, InEnqueue, TypeOK
<1>7. CurInv'
  BY DEF CurInv, Busy, TypeOK
<1>8. FutInv'
  BY DEF FutInv, TypeOK
<1>9. TakenInOrder'
  BY DEF TakenInOrder, TypeOK
<1> QED BY <1>2, <1>3, <1>4, <1>6, <1>7, <1>8, <1>9

\* Taking the mutex preserves the invariant.
LEMMA LockIInv ==
  ASSUME IInv,
         \/ \E x \in Workers \cup Clients : EnqueueLock(x)
         \/ \E w \in Workers : WorkerLock(w)
         \/ DtorAcquire
  PROVE  IInv'
<1> USE ThreadKinds DEF IInv
<1>1. ASSUME NEW x \in Workers \cup Clients, EnqueueLock(x) PROVE IInv'
  <2> USE <1>1 DEF EnqueueLock, Goto, Acquire
  <2>2. TypeOK'
    BY DEF TypeOK, PcWorker, PcClient
  <2>3. LockInv' /\ PhaseInv'
    BY DEF LockInv, PhaseInv, TypeOK, Holding, Stopped
  <2>4. SubInv' /\ CurInv' /\ FutInv' /\ TakenInOrder'
    BY DEF SubInv, CurInv, FutInv, TakenInOrder, InEnqueue, Busy, TypeOK
  <2> QED BY <2>2, <2>3, <2>4
<1>2. ASSUME NEW w \in Workers, WorkerLock(w) PROVE IInv'
  <2> USE <1>2 DEF WorkerLock, Goto, Acquire
  <2>2. TypeOK'
    BY DEF TypeOK, PcWorker
  <2>3. LockInv' /\ PhaseInv'
    BY DEF LockInv, PhaseInv, TypeOK, Holding, Stopped
  <2>4. SubInv' /\ CurInv' /\ FutInv' /\ TakenInOrder'
    BY DEF SubInv, CurInv, FutInv, TakenInOrder, InEnqueue, Busy, TypeOK
  <2> QED BY <2>2, <2>3, <2>4
<1>3. ASSUME DtorAcquire PROVE IInv'
  <2> USE <1>3 DEF DtorAcquire, Goto, Acquire
  <2>2. TypeOK'
    BY DEF TypeOK, PcOwner
  <2>3. LockInv' /\ PhaseInv'
    BY DEF LockInv, PhaseInv, TypeOK, Holding, Stopped
  <2>4. SubInv' /\ CurInv' /\ FutInv' /\ TakenInOrder'
    BY DEF SubInv, CurInv, FutInv, TakenInOrder, InEnqueue, Busy, TypeOK
  <2> QED BY <2>2, <2>3, <2>4
<1> QED BY <1>1, <1>2, <1>3

\* Queueing a task preserves the invariant.
LEMMA PushIInv ==
  ASSUME IInv, NEW x \in Workers \cup Clients, EnqueuePush(x)
  PROVE  IInv'
<1> USE ThreadKinds DEF IInv
<1> USE DEF EnqueuePush, Goto, Release
<1>1. sub[x] \in Tasks /\ sub[x] \notin Elems(accepted) /\ fut[sub[x]] = "pending"
  BY DEF SubInv, InEnqueue
<1>2. /\ Elems(m_tasks') = Elems(m_tasks) \cup {sub[x]}
      /\ Elems(accepted') = Elems(accepted) \cup {sub[x]}
      /\ m_tasks' \in Seq(Tasks) /\ accepted' \in Seq(Tasks)
  BY <1>1, ElemsAppend DEF TypeOK
<1>3. TypeOK'
  BY <1>2 DEF TypeOK, PcWorker, PcClient
<1>4. LockInv'
  BY DEF LockInv, TypeOK, Holding
<1>5. PhaseInv'
  BY DEF PhaseInv, TypeOK, Stopped
<1>6. SubInv'
  BY <1>1, <1>2 DEF SubInv, InEnqueue, TypeOK
<1>7. CurInv'
  BY DEF CurInv, Busy, TypeOK
<1>8. pc[Owner] # "gone"
  BY DEF PhaseInv, Stopped
<1>9. FutInv'
  BY <1>1, <1>2, <1>8 DEF FutInv, TypeOK
<1>10. TakenInOrder'
  <2>1. accepted' = started' \o m_tasks'
    <3>1. accepted = started \o m_tasks
      BY <1>8 DEF TakenInOrder
    <3>2. started \in Seq(Tasks) /\ m_tasks \in Seq(Tasks)
      BY DEF TypeOK
    <3>3. Append(accepted, sub[x]) = started \o Append(m_tasks, sub[x])
      BY ONLY <1>1, <3>1, <3>2, AppendConcat
    <3> QED BY <3>3
  <2>2. Distinct(accepted')
    BY <1>1, DistinctAppend DEF TakenInOrder, TypeOK
  <2> QED BY <2>1, <2>2 DEF TakenInOrder
<1> QED BY <1>3, <1>4, <1>5, <1>6, <1>7, <1>9, <1>10

\* Refusing a task preserves the invariant.
LEMMA ThrowIInv ==
  ASSUME IInv, NEW x \in Workers, EnqueueThrow(x)
  PROVE  IInv'
<1> USE ThreadKinds DEF IInv
<1> USE DEF EnqueueThrow, Goto, Release
<1>1. sub[x] \in Tasks /\ sub[x] \notin Elems(accepted) /\ fut[sub[x]] = "pending"
  BY DEF SubInv, InEnqueue
<1>2. pc[Owner] # "gone" /\ Elems(accepted) = Elems(started) \cup Elems(m_tasks)
  <2>1. pc[Owner] # "gone"
    BY DEF PhaseInv
  <2>2. Elems(started \o m_tasks) = Elems(started) \cup Elems(m_tasks)
    BY ElemsConcat DEF TypeOK
  <2> QED BY <2>1, <2>2 DEF TakenInOrder
<1>3. TypeOK'
  BY <1>1 DEF TypeOK, PcWorker, Resolved
<1>4. LockInv'
  BY DEF LockInv, TypeOK, Holding
<1>5. PhaseInv'
  BY DEF PhaseInv, TypeOK, Stopped
<1>6. SubInv'
  BY <1>1, <1>2 DEF SubInv, InEnqueue, TypeOK
<1>7. CurInv'
  BY <1>1, <1>2 DEF CurInv, Busy, TypeOK
<1>8. FutInv'
  BY <1>1, <1>2 DEF FutInv, TypeOK
<1>9. TakenInOrder'
  BY <1>2 DEF TakenInOrder, TypeOK
<1> QED BY <1>3, <1>4, <1>5, <1>6, <1>7, <1>8, <1>9

\* The steps that only move threads between program points, and release the
\* mutex, preserve the invariant.
LEMMA MoveIInv ==
  ASSUME IInv,
         \/ \E x \in Workers \cup Clients : EnqueueNotify(x)
         \/ \E w \in Workers : \/ WorkerWait(w) \/ SpuriousWakeup(w)
                               \/ WorkerReturn(w) \/ TaskAwait(w)
         \/ DtorLock \/ DtorNotifyAll
  PROVE  IInv'
<1> USE ThreadKinds DEF IInv
<1>1. ASSUME NEW x \in Workers \cup Clients, EnqueueNotify(x) PROVE IInv'
  <2> USE <1>1 DEF EnqueueNotify, AfterEnqueue
  <2>1. Waiting \subseteq Workers /\ x \notin Waiting
    BY DEF Waiting
  <2>2. /\ pc' \in [Threads -> PcWorker \cup PcClient \cup PcOwner]
        /\ pc'[Owner] = pc[Owner]
        /\ pc'[x] \in IF x \notin Workers THEN {"idle"} ELSE {"run", "await"}
        /\ \A y \in Workers \cup Clients : y # x =>
             \/ pc'[y] = pc[y]
             \/ y \in Workers /\ pc[y] = "wait" /\ pc'[y] = "lock"
    BY <2>1, ZenonT(60) DEF TypeOK, PcWorker, PcClient, Waiting
  <2> HIDE DEF EnqueueNotify
  <2>3. /\ pc[x] = "enotify" /\ sub' = [sub EXCEPT ![x] = NoTask]
        /\ UNCHANGED <<arg, threads, stop, m_tasks, mutex, cur, fut, accepted, started, spurious>>
    BY DEF EnqueueNotify
  <2>4. TypeOK'
    BY <2>2, <2>3 DEF TypeOK, PcWorker, PcClient
  <2>5. LockInv' /\ PhaseInv'
    BY <2>2, <2>3 DEF LockInv, PhaseInv, TypeOK, Holding, Stopped
  <2>6. SubInv'
    BY <2>2, <2>3 DEF SubInv, InEnqueue, TypeOK
  <2>7. CurInv'
    <3>1. \A w \in Workers : pc'[w] \in Busy <=> pc[w] \in Busy
      BY <2>2, <2>3 DEF Busy
    <3> QED BY <2>3, <3>1 DEF CurInv
  <2>8. FutInv' /\ TakenInOrder'
    BY <2>2, <2>3 DEF FutInv, TakenInOrder
  <2> QED BY <2>4, <2>5, <2>6, <2>7, <2>8
<1>2. ASSUME NEW w \in Workers, WorkerWait(w) PROVE IInv'
  <2> USE <1>2 DEF WorkerWait, Goto, Release
  <2>4. TypeOK'
    BY DEF TypeOK, PcWorker
  <2>5. LockInv' /\ PhaseInv'
    BY DEF LockInv, PhaseInv, TypeOK, Holding, Stopped
  <2>6. SubInv' /\ CurInv'
    BY DEF SubInv, CurInv, InEnqueue, Busy, TypeOK
  <2>7. FutInv' /\ TakenInOrder'
    BY DEF FutInv, TakenInOrder, TypeOK
  <2> QED BY <2>4, <2>5, <2>6, <2>7
<1>3. ASSUME NEW w \in Workers, SpuriousWakeup(w) PROVE IInv'
  <2> USE <1>3 DEF SpuriousWakeup, Goto
  <2>4. TypeOK'
    BY DEF TypeOK, PcWorker
  <2>5. LockInv' /\ PhaseInv'
    BY DEF LockInv, PhaseInv, TypeOK, Holding, Stopped
  <2>6. SubInv' /\ CurInv'
    BY DEF SubInv, CurInv, InEnqueue, Busy, TypeOK
  <2>7. FutInv' /\ TakenInOrder'
    BY DEF FutInv, TakenInOrder, TypeOK
  <2> QED BY <2>4, <2>5, <2>6, <2>7
<1>6. ASSUME NEW w \in Workers, WorkerReturn(w) PROVE IInv'
  <2> USE <1>6 DEF WorkerReturn, Goto, Release
  <2>4. TypeOK'
    BY DEF TypeOK, PcWorker
  <2>5. LockInv' /\ PhaseInv'
    BY DEF LockInv, PhaseInv, TypeOK, Holding, Stopped
  <2>6. SubInv' /\ CurInv'
    BY DEF SubInv, CurInv, InEnqueue, Busy, TypeOK
  <2>7. FutInv' /\ TakenInOrder'
    BY DEF FutInv, TakenInOrder, TypeOK
  <2> QED BY <2>4, <2>5, <2>6, <2>7
<1>7. ASSUME NEW w \in Workers, TaskAwait(w) PROVE IInv'
  <2> USE <1>7 DEF TaskAwait, Goto
  <2>4. TypeOK'
    BY DEF TypeOK, PcWorker
  <2>5. LockInv' /\ PhaseInv'
    BY DEF LockInv, PhaseInv, TypeOK, Holding, Stopped
  <2>6. SubInv' /\ CurInv'
    BY DEF SubInv, CurInv, InEnqueue, Busy, TypeOK
  <2>7. FutInv' /\ TakenInOrder'
    BY DEF FutInv, TakenInOrder, TypeOK
  <2> QED BY <2>4, <2>5, <2>6, <2>7
<1>4. ASSUME DtorLock PROVE IInv'
  <2> USE <1>4 DEF DtorLock, Goto
  <2>4. TypeOK'
    BY DEF TypeOK, PcOwner
  <2>5. LockInv' /\ PhaseInv'
    BY DEF LockInv, PhaseInv, TypeOK, Holding, Stopped
  <2>6. SubInv' /\ CurInv'
    BY DEF SubInv, CurInv, InEnqueue, Busy, TypeOK
  <2>7. FutInv' /\ TakenInOrder'
    BY DEF FutInv, TakenInOrder, TypeOK
  <2> QED BY <2>4, <2>5, <2>6, <2>7
<1>5. ASSUME DtorNotifyAll PROVE IInv'
  <2> USE <1>5 DEF DtorNotifyAll, Waiting
  <2>4. TypeOK'
    BY DEF TypeOK, PcOwner, PcWorker, PcClient
  <2>5. LockInv' /\ PhaseInv'
    BY DEF LockInv, PhaseInv, TypeOK, Holding, Stopped
  <2>6. SubInv' /\ CurInv'
    BY DEF SubInv, CurInv, InEnqueue, Busy, TypeOK
  <2>7. FutInv' /\ TakenInOrder'
    BY DEF FutInv, TakenInOrder, TypeOK
  <2> QED BY <2>4, <2>5, <2>6, <2>7
<1> QED BY <1>1, <1>2, <1>3, <1>4, <1>5, <1>6, <1>7

\* Taking the front of the queue preserves the invariant.
LEMMA TakeIInv ==
  ASSUME IInv, NEW w \in Workers, WorkerTake(w)
  PROVE  IInv'
<1> USE ThreadKinds DEF IInv
<1> USE DEF WorkerTake, Goto, Release
<1> DEFINE h == Head(m_tasks)
<1>1. /\ started \in Seq(Tasks) /\ m_tasks \in Seq(Tasks) /\ m_tasks # <<>>
      /\ accepted = started \o m_tasks /\ Distinct(accepted)
      /\ pc[Owner] # "gone"
  BY DEF PhaseInv, TakenInOrder, TypeOK
<1>2. /\ h \in Tasks /\ Tail(m_tasks) \in Seq(Tasks)
      /\ Elems(m_tasks) = {h} \cup Elems(Tail(m_tasks))
  BY ONLY <1>1, ElemsHeadTail
<1>3. /\ Elems(started) \cap Elems(m_tasks) = {}
      /\ h \notin Elems(Tail(m_tasks))
  BY ONLY <1>1, DistinctConcat, DistinctHead
<1>4. /\ Elems(Append(started, h)) = Elems(started) \cup {h}
      /\ Append(started, h) \in Seq(Tasks)
  BY ONLY <1>1, <1>2, ElemsAppend
<1>5. started \o m_tasks = Append(started, h) \o Tail(m_tasks)
  BY ONLY <1>1, TakeConcat
<1>6. h \notin Elems(started) /\ fut[h] = "pending"
  BY <1>2, <1>3 DEF FutInv
<1>7. TypeOK'
  BY <1>2, <1>4 DEF TypeOK, PcWorker
<1>8. LockInv'
  BY DEF LockInv, TypeOK, Holding
<1>9. PhaseInv'
  BY <1>1 DEF PhaseInv, TypeOK, Stopped
<1>10. SubInv'
  BY DEF SubInv, InEnqueue, TypeOK
<1>11. CurInv'
  <2>1. cur[w] = NoTask
    BY DEF CurInv, Busy
  <2>2. ASSUME NEW v \in Workers, v # w
        PROVE  cur'[v] = cur[v] /\ cur[v] # h /\ pc'[v] = pc[v]
    <3>1. cur'[v] = cur[v] /\ pc'[v] = pc[v]
      BY <2>2 DEF TypeOK
    <3>2. h # NoTask
      BY <1>2, PoolAssumption DEF PoolAssumption
    <3>3. cur[v] # NoTask => cur[v] \in Elems(started)
      BY DEF CurInv
    <3> HIDE DEF h
    <3> QED BY ONLY <3>1, <3>2, <3>3, <1>6
  <2>3. cur'[w] = h /\ h # NoTask /\ pc'[w] = "run"
    BY <1>2, PoolAssumption DEF TypeOK, PoolAssumption
  <2>4. started' = Append(started, h) /\ fut' = fut
    OBVIOUS
  <2> HIDE DEF h
  <2> QED BY <2>2, <2>3, <2>4, <1>4, <1>6 DEF CurInv, Busy
<1>12. FutInv'
  <2>1. \A t \in Elems(m_tasks') : fut'[t] = "pending"
    BY <1>2 DEF FutInv
  <2>2. \A t \in Elems(accepted') : fut'[t] # "none"
    BY DEF FutInv
  <2>3. pc'[Owner] # "gone"
    BY <1>1 DEF TypeOK
  <2>4. ASSUME NEW t \in Elems(started')
        PROVE  fut'[t] \in {"value", "exception"} \/ \E v \in Workers : cur'[v] = t
    <3>1. CASE t = h
      BY <3>1 DEF TypeOK
    <3>2. CASE t # h
      <4>1. t \in Elems(started)
        BY <3>2, <1>4
      <4>2. CASE fut[t] \in {"value", "exception"}
        BY <4>2
      <4>3. CASE \E v \in Workers : cur[v] = t
        <5>1. PICK v \in Workers : cur[v] = t
          BY <4>3
        <5>2. cur[w] = NoTask /\ t # NoTask
          <6>1. cur[w] = NoTask
            BY DEF CurInv, Busy
          <6>2. t \in Tasks
            BY ONLY <4>1, <1>1, ElemsIn
          <6> QED BY <6>1, <6>2, PoolAssumption DEF PoolAssumption
        <5>3. v # w /\ cur'[v] = t
          BY <5>1, <5>2 DEF TypeOK
        <5> QED BY <5>3
      <4> QED BY <4>1, <4>2, <4>3 DEF FutInv
    <3> QED BY <3>1, <3>2
  <2> QED BY <2>1, <2>2, <2>3, <2>4 DEF FutInv
<1>13. TakenInOrder'
  BY <1>1, <1>5 DEF TakenInOrder
<1> QED BY <1>7, <1>8, <1>9, <1>10, <1>11, <1>12, <1>13

\* The end of a task preserves the invariant.
LEMMA FinishIInv ==
  ASSUME IInv, NEW w \in Workers, WorkerFinish(w)
  PROVE  IInv'
<1> USE ThreadKinds DEF IInv
<1> USE DEF WorkerFinish, Goto
<1> DEFINE c == cur[w]
<1>1. /\ started \in Seq(Tasks) /\ m_tasks \in Seq(Tasks)
      /\ accepted = started \o m_tasks /\ Distinct(accepted)
      /\ pc[Owner] # "gone"
  BY DEF PhaseInv, TakenInOrder, TypeOK
<1>2. /\ Elems(started) \cap Elems(m_tasks) = {}
      /\ Elems(accepted) = Elems(started) \cup Elems(m_tasks)
  BY ONLY <1>1, DistinctConcat, ElemsConcat
<1>3. c \in Tasks /\ c \in Elems(started) /\ c \notin Elems(m_tasks)
  BY <1>2 DEF CurInv, TypeOK
<1>4. PICK r \in {"value", "exception"} : fut' = [fut EXCEPT ![c] = r]
  OBVIOUS
<1>5. fut'[c] = r /\ \A t \in Tasks : t # c => fut'[t] = fut[t]
  BY <1>3, <1>4 DEF TypeOK
<1>6. TypeOK'
  BY <1>3, <1>4 DEF TypeOK, PcWorker, Resolved
<1>7. LockInv'
  BY DEF LockInv, TypeOK, Holding
<1>8. PhaseInv'
  BY <1>1 DEF PhaseInv, TypeOK, Stopped
<1>9. SubInv'
  BY <1>2, <1>3, <1>5 DEF SubInv, InEnqueue, TypeOK
<1>10. CurInv'
  BY <1>5 DEF CurInv, Busy, TypeOK
<1>11. FutInv'
  <2>1. \A t \in Elems(m_tasks') : fut'[t] = "pending"
    BY <1>1, <1>3, <1>5 DEF FutInv, Elems
  <2>2. \A t \in Elems(accepted') : fut'[t] # "none"
    BY <1>4 DEF FutInv, TypeOK
  <2>3. pc'[Owner] # "gone"
    BY <1>1 DEF TypeOK
  <2>4. ASSUME NEW t \in Elems(started)
        PROVE  fut'[t] \in {"value", "exception"} \/ \E v \in Workers : cur'[v] = t
    <3>1. t \in Tasks
      BY <1>1 DEF Elems
    <3>2. CASE t = c
      BY <3>2, <1>5
    <3>3. CASE t # c
      BY <3>1, <3>3, <1>5 DEF FutInv, TypeOK
    <3> QED BY <3>2, <3>3
  <2> QED BY <2>1, <2>2, <2>3, <2>4 DEF FutInv
<1>12. TakenInOrder'
  BY <1>1 DEF TakenInOrder
<1> QED BY <1>6, <1>7, <1>8, <1>9, <1>10, <1>11, <1>12

\* Setting stop preserves the invariant.
LEMMA StopIInv ==
  ASSUME IInv, DtorStop
  PROVE  IInv'
<1> USE ThreadKinds DEF IInv
<1> USE DEF DtorStop, Goto, Release
<1>1. TypeOK'
  BY DEF TypeOK, PcOwner
<1>2. LockInv'
  BY DEF LockInv, TypeOK, Holding
<1>3. PhaseInv'
  BY DEF PhaseInv, TypeOK, Stopped
<1>4. SubInv' /\ CurInv'
  BY DEF SubInv, CurInv, InEnqueue, Busy, TypeOK
<1>5. FutInv' /\ TakenInOrder'
  BY DEF FutInv, TakenInOrder, TypeOK
<1> QED BY <1>1, <1>2, <1>3, <1>4, <1>5

\* When every worker has been joined, the queue of a pool with workers is
\* empty: the last of them left because it was.
LEMMA JoinedIsDrained ==
  ASSUME IInv, pc[Owner] = "djoin", \A w \in Workers : pc[w] \in {"unborn", "exit"}, arg > 0
  PROVE  m_tasks = <<>>
<1>1. 1 \in Workers /\ threads = 0 /\ pc[1] # "unborn"
  BY PoolAssumption DEF IInv, TypeOK, PhaseInv, Workers, PoolAssumption
<1> QED BY <1>1 DEF IInv, PhaseInv

\* The end of the destructor preserves the invariant.
LEMMA JoinIInv ==
  ASSUME IInv, DtorJoin
  PROVE  IInv'
<1> USE ThreadKinds DEF IInv
<1> USE DEF DtorJoin, Goto
<1>1. /\ \A w \in Workers : pc'[w] = pc[w] /\ pc[w] \in {"unborn", "exit"}
      /\ \A c \in Clients : pc'[c] = pc[c] /\ pc[c] = "idle"
      /\ pc[Owner] = "djoin" /\ pc'[Owner] = "gone"
  BY DEF TypeOK, PhaseInv
<1>2. /\ \A w \in Workers : cur[w] = NoTask
      /\ m_tasks' = <<>> /\ m_tasks' \in Seq(Tasks) /\ Elems(m_tasks') = {}
  BY <1>1, EmptySeq DEF CurInv, Busy, Elems
<1>3. \A t \in Tasks : fut'[t] = IF t \in Elems(m_tasks) THEN "broken" ELSE fut[t]
  BY DEF Elems
<1>4. TypeOK'
  <2>1. fut' \in [Tasks -> Unresolved \cup Resolved]
    BY DEF TypeOK, Unresolved, Resolved
  <2>2. pc' \in [Threads -> PcWorker \cup PcClient \cup PcOwner]
    BY DEF TypeOK, PcOwner
  <2> QED BY <2>1, <2>2, <1>1, <1>2 DEF TypeOK, PcOwner
<1>5. LockInv' /\ PhaseInv'
  BY <1>1, <1>2 DEF LockInv, PhaseInv, TypeOK, Holding, Stopped
<1>6. SubInv' /\ CurInv'
  BY <1>1, <1>2 DEF SubInv, CurInv, InEnqueue, Busy
<1>7. /\ started \in Seq(Tasks) /\ m_tasks \in Seq(Tasks)
      /\ accepted = started \o m_tasks /\ Distinct(accepted)
  BY <1>1 DEF TakenInOrder, TypeOK
<1>8. /\ Elems(started) \cap Elems(m_tasks) = {}
      /\ Elems(accepted) = Elems(started) \cup Elems(m_tasks)
  BY ONLY <1>7, DistinctConcat, ElemsConcat
<1>9. FutInv'
  <2>1. \A t \in Elems(accepted') : fut'[t] # "none"
    BY <1>3, <1>7 DEF FutInv, Elems, TypeOK
  <2>2. \A t \in Elems(started') : fut'[t] \in {"value", "exception"}
    <3>1. ASSUME NEW t \in Elems(started) PROVE t \in Tasks /\ t \notin Elems(m_tasks)
      BY ONLY <1>7, <1>8, ElemsIn
    <3>2. ASSUME NEW t \in Elems(started) PROVE fut[t] \in {"value", "exception"}
      BY <3>1, <1>2, PoolAssumption DEF FutInv, PoolAssumption
    <3> QED BY <3>1, <3>2, <1>3
  <2>3. arg > 0 => Elems(m_tasks) = {}
    BY <1>1, JoinedIsDrained DEF Elems
  <2> QED BY <2>1, <2>2, <2>3, <1>2, <1>8 DEF FutInv
<1>10. TakenInOrder'
  BY <1>1, <1>7 DEF TakenInOrder
<1> QED BY <1>4, <1>5, <1>6, <1>9, <1>10

\* Every step preserves the invariant.
LEMMA NextIInv == IInv /\ [Next]_vars => IInv'
<1> SUFFICES ASSUME IInv, [Next]_vars PROVE IInv'
  OBVIOUS
<1>1. CASE LaunchWorker \/ Constructed
  BY <1>1, CtorIInv
<1>2. ASSUME NEW c \in Clients, NEW t \in Roots, ClientEnqueue(c, t) PROVE IInv'
  BY <1>2, SubmitIInv, PoolAssumption DEF PoolAssumption
<1>3. ASSUME NEW c \in Clients, ClientCall(c) PROVE IInv'
  BY <1>3, LockIInv, PushIInv, MoveIInv DEF ClientCall
<1>4. ASSUME NEW w \in Workers, TaskEnqueue(w) PROVE IInv'
  <2>1. cur[w] \in Tasks /\ Child[cur[w]] \in Tasks
    BY <1>4, PoolAssumption DEF TaskEnqueue, IInv, TypeOK, PoolAssumption
  <2> QED BY <1>4, <2>1, SubmitIInv
<1>5. ASSUME NEW w \in Workers, WorkerStep(w) \/ SpuriousWakeup(w) PROVE IInv'
  BY <1>5, <1>4, LockIInv, PushIInv, ThrowIInv, MoveIInv, TakeIInv, FinishIInv DEF WorkerStep
<1>6. CASE DtorLock \/ DtorStep
  BY <1>6, LockIInv, StopIInv, MoveIInv, JoinIInv DEF DtorStep
<1>7. CASE Gone \/ UNCHANGED vars
  <2>1. UNCHANGED vars
    BY <1>7 DEF Gone
  <2> USE <2>1 DEF vars
  <2>2. TypeOK' /\ LockInv' /\ PhaseInv'
    BY DEF IInv, TypeOK, LockInv, PhaseInv
  <2>3. SubInv' /\ CurInv' /\ FutInv' /\ TakenInOrder'
    BY DEF IInv, SubInv, CurInv, FutInv, TakenInOrder
  <2> QED BY <2>2, <2>3 DEF IInv
<1> QED BY <1>1, <1>2, <1>3, <1>5, <1>6, <1>7 DEF Next

(***************************************************************************)
(* The theorems.                                                           *)
(***************************************************************************)

\* The invariant holds in every reachable state of every pool.
THEOREM Invariance == Spec => []IInv
<1>1. Init => IInv
  BY InitIInv
<1>2. IInv /\ [Next]_vars => IInv'
  BY NextIInv
<1> QED BY <1>1, <1>2, PTL DEF Spec

\* Every variable keeps its type, whatever the number of threads and tasks.
THEOREM TypeCorrect == Spec => []TypeOK
<1>1. IInv => TypeOK
  BY DEF IInv
<1> QED BY <1>1, Invariance, PTL

\* enqueue() and the workers keep the FIFO order and take each task once.
THEOREM Fifo == Spec => []TakenInOrder
<1>1. IInv => TakenInOrder
  BY DEF IInv
<1> QED BY <1>1, Invariance, PTL

\* When the destructor returns no worker is left inside the pool and every
\* accepted task of a pool with workers has run to its end.
THEOREM Drained == Spec => []DrainedOnDestroy
<1>1. IInv => DrainedOnDestroy
  <2> SUFFICES ASSUME IInv, pc[Owner] = "gone"
               PROVE  /\ mutex = NoThread
                      /\ \A w \in Workers : pc[w] \in {"unborn", "exit"}
                      /\ arg > 0 => \A t \in Elems(accepted) : fut[t] \in {"value", "exception"}
    BY DEF DrainedOnDestroy
  <2>1. \A w \in Workers : pc[w] \in {"unborn", "exit"}
    BY DEF IInv, PhaseInv
  <2>2. mutex = NoThread
    <3>1. \A x \in Threads : pc[x] \notin Holding
      BY <2>1, ThreadKinds DEF IInv, PhaseInv, Holding
    <3> QED BY <3>1 DEF IInv, LockInv, TypeOK
  <2>3. \A w \in Workers : cur[w] = NoTask
    BY <2>1 DEF IInv, CurInv, Busy
  <2>4. ASSUME arg > 0, NEW t \in Elems(accepted) PROVE fut[t] \in {"value", "exception"}
    <3>0. accepted \in Seq(Tasks)
      BY DEF IInv, TypeOK
    <3>1. t \in Elems(started) /\ t # NoTask
      BY <2>4, <3>0, ElemsIn, PoolAssumption DEF IInv, FutInv, PoolAssumption
    <3> QED BY <3>1, <2>3 DEF IInv, FutInv
  <2> QED BY <2>1, <2>2, <2>4
<1> QED BY <1>1, Invariance, PTL

(***************************************************************************)
(* No lost wakeup: while a worker sleeps, the queue is never longer than   *)
(* the number of workers on their way to it and of callers that will still *)
(* notify.  The argument counts these two sets.                            *)
(***************************************************************************)

\* Sets of workers and clients are finite, before and after a step.
LEMMA CountsAreNat ==
  /\ IsFiniteSet(Awake) /\ Cardinality(Awake) \in Nat
  /\ IsFiniteSet(Notifying) /\ Cardinality(Notifying) \in Nat
  /\ IsFiniteSet(Awake') /\ Cardinality(Awake') \in Nat
  /\ IsFiniteSet(Notifying') /\ Cardinality(Notifying') \in Nat
<1>1. IsFiniteSet(Workers)
  BY PoolAssumption, FS_Interval DEF Workers, PoolAssumption
<1>2. IsFiniteSet(Workers \cup Clients)
  BY <1>1, PoolAssumption, FS_Union DEF PoolAssumption
<1>3. ASSUME NEW S \in SUBSET (Workers \cup Clients)
      PROVE  IsFiniteSet(S) /\ Cardinality(S) \in Nat
  BY <1>2, FS_Subset, FS_CardinalityType
<1>4. /\ Awake \in SUBSET (Workers \cup Clients) /\ Notifying \in SUBSET (Workers \cup Clients)
      /\ Awake' \in SUBSET (Workers \cup Clients) /\ Notifying' \in SUBSET (Workers \cup Clients)
  BY DEF Awake, Notifying
<1> QED BY <1>3, <1>4

\* A step that does not touch the queue, wakes workers or leaves them awake,
\* and puts none to sleep, loses no wakeup.
LEMMA WakeKeeps ==
  ASSUME IInv, NoLostWakeup, UNCHANGED <<m_tasks, stop>>,
         Awake \subseteq Awake', Notifying \subseteq Notifying', Waiting' \subseteq Waiting,
         pc[Owner] = "dnotify" => Waiting' = {} \/ pc'[Owner] = "dnotify"
  PROVE  NoLostWakeup'
<1>1. Cardinality(Awake) <= Cardinality(Awake') /\ Cardinality(Notifying) <= Cardinality(Notifying')
  BY CountsAreNat, FS_Subset
<1>2. Len(m_tasks) \in Nat
  BY DEF IInv, TypeOK
<1>3. Waiting' # {} => Len(m_tasks') <= Cardinality(Awake') + Cardinality(Notifying')
  BY <1>1, <1>2, CountsAreNat DEF NoLostWakeup
<1> QED BY <1>3 DEF NoLostWakeup

\* A queued task is announced by the caller that queued it.
LEMMA PushKeeps ==
  ASSUME IInv, NoLostWakeup, NEW x \in Workers \cup Clients, EnqueuePush(x)
  PROVE  NoLostWakeup'
<1> USE ThreadKinds
<1>1. Awake' = Awake /\ Waiting' = Waiting /\ ~stop'
  BY DEF EnqueuePush, Goto, Awake, Waiting, IInv, TypeOK
<1>2. Notifying' = Notifying \cup {x} /\ x \notin Notifying
  BY DEF EnqueuePush, Goto, Notifying, IInv, TypeOK
<1>3. Cardinality(Notifying') = Cardinality(Notifying) + 1
  BY <1>2, CountsAreNat, FS_AddElement
<1>4. Len(m_tasks) \in Nat /\ Len(m_tasks') = Len(m_tasks) + 1
  BY DEF EnqueuePush, IInv, TypeOK
<1> QED BY <1>1, <1>3, <1>4, CountsAreNat DEF NoLostWakeup

\* notify_one() turns an announcement into a worker on its way, unless no
\* worker sleeps.
LEMMA NotifyKeeps ==
  ASSUME IInv, NoLostWakeup, NEW x \in Workers \cup Clients, EnqueueNotify(x)
  PROVE  NoLostWakeup'
<1> USE ThreadKinds
<1>1. UNCHANGED <<m_tasks, stop>> /\ pc[x] = "enotify" /\ Len(m_tasks) \in Nat
  BY DEF EnqueueNotify, IInv, TypeOK
<1>0. PICK next \in AfterEnqueue(x) :
        \/ Waiting = {} /\ pc' = [pc EXCEPT ![x] = next]
        \/ \E w \in Waiting : pc' = [pc EXCEPT ![x] = next, ![w] = "lock"]
  BY DEF EnqueueNotify
<1>2. CASE Waiting = {} /\ pc' = [pc EXCEPT ![x] = next]
  <2>1. Waiting' = {}
    BY <1>2 DEF Waiting, AfterEnqueue, IInv, TypeOK
  <2> QED BY <2>1 DEF NoLostWakeup
<1>3. ASSUME NEW w \in Waiting, pc' = [pc EXCEPT ![x] = next, ![w] = "lock"]
      PROVE  NoLostWakeup'
  <2>1. w \in Workers /\ w # x /\ w \notin Awake /\ x \in Notifying
    BY <1>1 DEF Waiting, Awake, Notifying
  <2>2. Waiting' \subseteq Waiting /\ pc'[Owner] = pc[Owner]
    BY <1>3, <2>1 DEF Waiting, AfterEnqueue, IInv, TypeOK
  <2>3. Awake' = Awake \cup {w}
    BY <1>1, <1>3, <2>1 DEF Awake, AfterEnqueue, IInv, TypeOK
  <2>4. Notifying' = Notifying \ {x}
    BY <1>1, <1>3, <2>1 DEF Notifying, AfterEnqueue, Waiting, IInv, TypeOK
  <2>5. /\ Cardinality(Awake') = Cardinality(Awake) + 1
        /\ Cardinality(Notifying') = Cardinality(Notifying) - 1
    BY <2>1, <2>3, <2>4, CountsAreNat, FS_AddElement, FS_RemoveElement
  <2> QED BY <1>1, <2>2, <2>5, CountsAreNat DEF NoLostWakeup
<1> QED BY <1>0, <1>2, <1>3

\* A worker that takes a task was on its way to it.
LEMMA TakeKeeps ==
  ASSUME IInv, NoLostWakeup, NEW w \in Workers, WorkerTake(w)
  PROVE  NoLostWakeup'
<1> USE ThreadKinds
<1>1. Waiting' = Waiting /\ Notifying' = Notifying /\ pc'[Owner] = pc[Owner] /\ stop' = stop
  BY DEF WorkerTake, Goto, Waiting, Notifying, IInv, TypeOK
<1>2. Awake' = Awake \ {w} /\ w \in Awake
  BY DEF WorkerTake, Goto, Awake, IInv, TypeOK
<1>3. Cardinality(Awake') = Cardinality(Awake) - 1
  BY <1>2, CountsAreNat, FS_RemoveElement
<1>4. Len(m_tasks) \in Nat /\ Len(m_tasks') = Len(m_tasks) - 1
  <2>1. m_tasks \in Seq(Tasks) /\ m_tasks # <<>> /\ m_tasks' = Tail(m_tasks)
    BY DEF WorkerTake, IInv, TypeOK
  <2> QED BY ONLY <2>1, EmptySeq
<1> QED BY <1>1, <1>3, <1>4, CountsAreNat DEF NoLostWakeup

\* A worker goes to sleep, or leaves, only when the queue is empty.
LEMMA SleepKeeps ==
  ASSUME IInv, NoLostWakeup, NEW w \in Workers, WorkerWait(w) \/ WorkerReturn(w)
  PROVE  NoLostWakeup'
<1> USE ThreadKinds
<1>1. m_tasks' = <<>> /\ Len(m_tasks') = 0
  BY EmptySeq DEF WorkerWait, WorkerReturn
<1>2. pc'[Owner] = pc[Owner] /\ stop' = stop
  BY DEF WorkerWait, WorkerReturn, Goto, IInv, TypeOK
<1>3. WorkerReturn(w) => Waiting' = Waiting
  BY DEF WorkerReturn, Goto, Waiting, IInv, TypeOK
<1>4. WorkerWait(w) => ~stop
  BY DEF WorkerWait
<1> QED BY <1>1, <1>2, <1>3, <1>4, CountsAreNat DEF NoLostWakeup

\* Every step keeps the announcements and the workers on their way in
\* proportion to the queue.
LEMMA NextKeepsWakeups == IInv /\ NoLostWakeup /\ [Next]_vars => NoLostWakeup'
<1> SUFFICES ASSUME IInv, NoLostWakeup, [Next]_vars PROVE NoLostWakeup'
  OBVIOUS
<1> USE ThreadKinds
<1>1. CASE LaunchWorker
  <2>1. arg - threads + 1 \in Workers /\ pc[arg - threads + 1] = "unborn"
    BY <1>1, PoolAssumption DEF LaunchWorker, LoopGuard, IInv, PhaseInv, TypeOK, Workers, PoolAssumption
  <2>2. /\ Awake \subseteq Awake' /\ Notifying' = Notifying /\ Waiting' = Waiting
        /\ pc'[Owner] = pc[Owner] /\ UNCHANGED <<m_tasks, stop>>
    BY <1>1, <2>1 DEF LaunchWorker, Awake, Notifying, Waiting, IInv, TypeOK
  <2> QED BY <2>2, WakeKeeps
<1>2. CASE Constructed \/ DtorLock \/ DtorAcquire
  <2>1. /\ Awake' = Awake /\ Notifying' = Notifying /\ Waiting' = Waiting
        /\ pc[Owner] # "dnotify" /\ UNCHANGED <<m_tasks, stop>>
    BY <1>2 DEF Constructed, DtorLock, DtorAcquire, Goto, Awake, Notifying, Waiting, IInv, TypeOK
  <2> QED BY <2>1, WakeKeeps
<1>3. CASE DtorStop
  <2>1. /\ Awake' = Awake /\ Notifying' = Notifying /\ Waiting' = Waiting
        /\ pc'[Owner] = "dnotify" /\ UNCHANGED m_tasks
    BY <1>3 DEF DtorStop, Goto, Awake, Notifying, Waiting, IInv, TypeOK
  <2> QED BY <2>1 DEF NoLostWakeup
<1>4. CASE DtorNotifyAll
  <2>1. Waiting' = {}
    BY <1>4 DEF DtorNotifyAll, Waiting, IInv, TypeOK
  <2> QED BY <2>1 DEF NoLostWakeup
<1>5. CASE DtorJoin
  <2>1. Waiting' = {}
    BY <1>5 DEF DtorJoin, Goto, Waiting, IInv, TypeOK
  <2> QED BY <2>1 DEF NoLostWakeup
<1>6. ASSUME NEW x \in Workers \cup Clients, NEW t \in Tasks, Submit(x, t, pc[x]), pc[x] \in {"idle", "run"}
      PROVE  NoLostWakeup'
  <2>1. /\ Awake' = Awake /\ Notifying' = Notifying /\ Waiting' = Waiting
        /\ pc'[Owner] = pc[Owner] /\ UNCHANGED <<m_tasks, stop>>
    BY <1>6 DEF Submit, Goto, Awake, Notifying, Waiting, IInv, TypeOK
  <2> QED BY <2>1, WakeKeeps
<1>7. ASSUME NEW x \in Workers \cup Clients, EnqueueLock(x) PROVE NoLostWakeup'
  <2>1. /\ Awake' = Awake /\ Notifying' = Notifying /\ Waiting' = Waiting
        /\ pc'[Owner] = pc[Owner] /\ UNCHANGED <<m_tasks, stop>>
    BY <1>7 DEF EnqueueLock, Goto, Awake, Notifying, Waiting, IInv, TypeOK
  <2> QED BY <2>1, WakeKeeps
<1>8. ASSUME NEW w \in Workers,
             \/ WorkerLock(w) \/ SpuriousWakeup(w) \/ TaskAwait(w)
             \/ WorkerFinish(w) \/ EnqueueThrow(w)
      PROVE  NoLostWakeup'
  <2>1. /\ Awake \subseteq Awake' /\ Notifying' = Notifying /\ Waiting' \subseteq Waiting
        /\ pc'[Owner] = pc[Owner]
    BY <1>8 DEF WorkerLock, SpuriousWakeup, TaskAwait, WorkerFinish, EnqueueThrow, Goto,
                Awake, Notifying, Waiting, IInv, TypeOK
  <2>2. UNCHANGED <<m_tasks, stop>>
    BY <1>8 DEF WorkerLock, SpuriousWakeup, TaskAwait, WorkerFinish, EnqueueThrow
  <2> QED BY <2>1, <2>2, WakeKeeps
<1>9. ASSUME NEW c \in Clients, ClientCall(c) PROVE NoLostWakeup'
  BY <1>9, <1>7, PushKeeps, NotifyKeeps DEF ClientCall
<1>10. ASSUME NEW c \in Clients, NEW t \in Roots, ClientEnqueue(c, t) PROVE NoLostWakeup'
  <2>1. Submit(c, t, pc[c]) /\ t \in Tasks /\ pc[c] = "idle"
    BY <1>10, PoolAssumption DEF ClientEnqueue, Submit, Goto, PoolAssumption
  <2> QED BY <2>1, <1>6
<1>11. ASSUME NEW w \in Workers, TaskEnqueue(w) PROVE NoLostWakeup'
  <2>1. Submit(w, Child[cur[w]], pc[w]) /\ Child[cur[w]] \in Tasks /\ pc[w] = "run"
    BY <1>11, PoolAssumption DEF TaskEnqueue, Submit, Goto, IInv, TypeOK, PoolAssumption
  <2> QED BY <2>1, <1>6
<1>12. ASSUME NEW w \in Workers, WorkerStep(w) \/ SpuriousWakeup(w) PROVE NoLostWakeup'
  BY <1>12, <1>7, <1>8, <1>11, PushKeeps, NotifyKeeps, TakeKeeps, SleepKeeps DEF WorkerStep
<1>13. CASE Gone \/ UNCHANGED vars
  <2>1. UNCHANGED <<m_tasks, stop, pc>>
    BY <1>13 DEF Gone, vars
  <2> QED BY <2>1 DEF NoLostWakeup, Awake, Notifying, Waiting
<1> QED BY <1>1, <1>2, <1>3, <1>4, <1>5, <1>9, <1>10, <1>12, <1>13 DEF Next, DtorStep

\* No wakeup of the pool's condition variable is ever lost.
THEOREM Wakeups == Spec => []NoLostWakeup
<1>1. Init => NoLostWakeup
  <2> SUFFICES ASSUME Init PROVE NoLostWakeup
    OBVIOUS
  <2>1. Waiting = {}
    BY ThreadKinds DEF Init, Waiting
  <2> QED BY <2>1 DEF NoLostWakeup
<1>2. IInv /\ NoLostWakeup /\ [Next]_vars => NoLostWakeup'
  BY NextKeepsWakeups
<1> QED BY <1>1, <1>2, Invariance, PTL DEF Spec
=============================================================================
