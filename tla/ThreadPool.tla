----------------------------- MODULE ThreadPool -----------------------------
(***************************************************************************)
(* include/ThreadPool.hpp: a fixed set of worker threads that take tasks   *)
(* from a queue guarded by a mutex and a condition variable.               *)
(*                                                                         *)
(* Threads are the workers, the clients that call enqueue() and the owner, *)
(* which runs the constructor and later the destructor.  A critical        *)
(* section is two actions, one that takes m_queue_mutex and one that does  *)
(* the guarded work and releases it, so that the threads interleave as     *)
(* they do in the code.  A task body may itself call enqueue() on the pool *)
(* that runs it (Child) and may wait for the child's future (Awaiting).    *)
(***************************************************************************)
EXTENDS Integers, Sequences, FiniteSets

CONSTANTS
  Clients,         \* threads that call enqueue() from outside the pool
  Owner,           \* the thread that constructs and destroys the pool
  Tasks,           \* the tasks that are ever submitted, each at most once
  Roots,           \* the tasks that clients submit
  Child,           \* Child[t]: the task that the body of t submits, or NoTask
  Awaiting,        \* tasks whose body may call get() on the child's future
  NoTask,          \* no task
  NoThread,        \* m_queue_mutex is free
  MinThreads,      \* the least constructor argument considered
  MaxThreads,      \* bound on the constructor's argument
  MaxtTreadCount,  \* the constant of the class (10 in the code)
  MaxSpurious      \* bound on the spurious wakeups of the condition variable

Workers == 1..MaxThreads
Threads == Workers \cup Clients \cup {Owner}

ASSUME PoolAssumption ==
  /\ MinThreads \in Nat
  /\ MaxThreads \in Nat
  /\ MaxtTreadCount \in Nat \ {0}
  /\ MaxSpurious \in Nat
  /\ IsFiniteSet(Clients)
  /\ Owner \notin Workers \cup Clients
  /\ Workers \cap Clients = {}
  /\ NoThread \notin Threads
  /\ NoTask \notin Tasks
  /\ Roots \subseteq Tasks
  /\ Child \in [Tasks -> Tasks \cup {NoTask}]
  /\ Awaiting \subseteq {t \in Tasks : Child[t] # NoTask}

\* Every child has one parent and is no root: a task is submitted once.
ASSUME SubmittedOnce ==
  /\ \A t \in Tasks : Child[t] \notin Roots
  /\ \A t, u \in Tasks : Child[t] # NoTask /\ Child[t] = Child[u] => t = u

VARIABLES
  arg,        \* the constructor's argument
  threads,    \* its loop counter, counted down to 0
  stop,       \* stop
  m_tasks,    \* the queue m_tasks
  mutex,      \* the thread that holds m_queue_mutex, or NoThread
  pc,         \* where each thread is
  cur,        \* cur[w]: the task in the local variable "task" of worker w
  sub,        \* sub[x]: the task that thread x is passing to enqueue()
  fut,        \* fut[t]: state of the shared state of t's packaged_task
  accepted,   \* history: tasks in the order in which they entered m_tasks
  started,    \* history: tasks in the order in which workers took them
  spurious    \* spurious wakeups so far

vars == <<arg, threads, stop, m_tasks, mutex, pc, cur, sub, fut,
          accepted, started, spurious>>

(***************************************************************************)
(* Program points.  A worker: "unborn" until it is launched, "lock" wants  *)
(* the mutex, "check" holds it and evaluates the wait predicate, "wait" is *)
(* blocked in m_condition, "run" executes its task, "await" waits for the  *)
(* child's future, "exit" has returned.  Any caller of enqueue(): "elock", *)
(* "epush" holding the mutex, "enotify" with the mutex released.           *)
(* The owner: "ctor", "idle", then the destructor "dlock", "dstop",        *)
(* "dnotify", "djoin", and "gone" once the members are destroyed.          *)
(***************************************************************************)
Unresolved == {"none", "pending"}
Resolved   == {"value", "exception", "broken"}
PcWorker   == {"unborn", "lock", "check", "wait", "run", "await", "exit",
               "elock", "epush", "enotify"}
PcClient   == {"idle", "elock", "epush", "enotify"}
PcOwner    == {"ctor", "idle", "dlock", "dstop", "dnotify", "djoin", "gone"}

Goto(x, here, there) ==
  /\ pc[x] = here
  /\ pc' = [pc EXCEPT ![x] = there]

Acquire(x) ==
  /\ mutex = NoThread
  /\ mutex' = x

Release(x) ==
  /\ mutex = x
  /\ mutex' = NoThread

Init ==
  /\ arg \in MinThreads..MaxThreads
  /\ threads = arg
  /\ stop = FALSE
  /\ m_tasks = <<>>
  /\ mutex = NoThread
  /\ pc = [x \in Threads |-> IF x \in Workers THEN "unborn"
                             ELSE IF x = Owner THEN "ctor" ELSE "idle"]
  /\ cur = [w \in Workers |-> NoTask]
  /\ sub = [x \in Workers \cup Clients |-> NoTask]
  /\ fut = [t \in Tasks |-> "none"]
  /\ accepted = <<>>
  /\ started = <<>>
  /\ spurious = 0

(***************************************************************************)
(* ThreadPool(threads).  The local "pools" is m_workers.size() before the  *)
(* loop, that is 0, and the loop does not change it: the first conjunct of *)
(* the loop condition never stops the loop.                                *)
(***************************************************************************)
\* Mutant: the loop runs once too often.
LoopGuardOffByOne == threads >= 0

LoopGuard == 0 < MaxtTreadCount /\ threads > 0

LaunchWorker ==
  /\ pc[Owner] = "ctor"
  /\ LoopGuard
  /\ threads' = threads - 1
  /\ pc' = [pc EXCEPT ![arg - threads + 1] = "lock"]
  /\ UNCHANGED <<arg, stop, m_tasks, mutex, cur, sub, fut, accepted, started, spurious>>

Constructed ==
  /\ ~LoopGuard
  /\ Goto(Owner, "ctor", "idle")
  /\ UNCHANGED <<arg, threads, stop, m_tasks, mutex, cur, sub, fut, accepted, started, spurious>>

(***************************************************************************)
(* enqueue(f, args...).  Submit creates the packaged_task and its future,  *)
(* before the lock.  A client calls it only during the pool's lifetime: a  *)
(* call that overlaps the destructor is a misuse of any C++ object.  The   *)
(* body of a task may call it at any time, the destructor's join included. *)
(***************************************************************************)
Submit(x, t, here) ==
  /\ fut[t] = "none"
  /\ fut' = [fut EXCEPT ![t] = "pending"]
  /\ sub' = [sub EXCEPT ![x] = t]
  /\ Goto(x, here, "elock")
  /\ UNCHANGED <<arg, threads, stop, m_tasks, mutex, cur, accepted, started, spurious>>

ClientEnqueue(c, t) ==
  /\ pc[Owner] = "idle"
  /\ Submit(c, t, "idle")

TaskEnqueue(w) ==
  /\ cur[w] # NoTask
  /\ Child[cur[w]] # NoTask
  /\ Submit(w, Child[cur[w]], "run")

EnqueueLock(x) ==
  /\ Goto(x, "elock", "epush")
  /\ Acquire(x)
  /\ UNCHANGED <<arg, threads, stop, m_tasks, cur, sub, fut, accepted, started, spurious>>

\* Mutant: the test of stop is missing.
EnqueuePushUnchecked(x) ==
  /\ Goto(x, "epush", "enotify")
  /\ m_tasks' = Append(m_tasks, sub[x])
  /\ accepted' = Append(accepted, sub[x])
  /\ Release(x)
  /\ UNCHANGED <<arg, threads, stop, cur, sub, fut, started, spurious>>

EnqueuePush(x) ==
  /\ ~stop
  /\ Goto(x, "epush", "enotify")
  /\ m_tasks' = Append(m_tasks, sub[x])
  /\ accepted' = Append(accepted, sub[x])
  /\ Release(x)
  /\ UNCHANGED <<arg, threads, stop, cur, sub, fut, started, spurious>>

\* The runtime_error "enqueue on stopped ThreadPool" unwinds enqueue(): the
\* packaged_task dies unrun, and only a worker's task body can be the caller.
EnqueueThrow(x) ==
  /\ stop
  /\ Goto(x, "epush", "run")
  /\ fut' = [fut EXCEPT ![sub[x]] = "broken"]
  /\ sub' = [sub EXCEPT ![x] = NoTask]
  /\ Release(x)
  /\ UNCHANGED <<arg, threads, stop, m_tasks, cur, accepted, started, spurious>>

\* m_condition.notify_one(): one waiting worker, if there is one, wakes.
Waiting == {w \in Workers : pc[w] = "wait"}

\* Where the caller goes on: a task body keeps the future, and some bodies
\* may at once call get() on it.
AfterEnqueue(x) ==
  IF x \notin Workers THEN {"idle"}
  ELSE IF cur[x] \in Awaiting THEN {"run", "await"} ELSE {"run"}

\* Mutant: notify_one() is forgotten.
EnqueueSilent(x) ==
  /\ \E next \in AfterEnqueue(x) : Goto(x, "enotify", next)
  /\ sub' = [sub EXCEPT ![x] = NoTask]
  /\ UNCHANGED <<arg, threads, stop, m_tasks, mutex, cur, fut, accepted, started, spurious>>

EnqueueNotify(x) ==
  /\ pc[x] = "enotify"
  /\ \E next \in AfterEnqueue(x) :
       \/ /\ Waiting = {}
          /\ pc' = [pc EXCEPT ![x] = next]
       \/ \E w \in Waiting : pc' = [pc EXCEPT ![x] = next, ![w] = "lock"]
  /\ sub' = [sub EXCEPT ![x] = NoTask]
  /\ UNCHANGED <<arg, threads, stop, m_tasks, mutex, cur, fut, accepted, started, spurious>>

(***************************************************************************)
(* The worker's loop.                                                      *)
(***************************************************************************)
WorkerLock(w) ==
  /\ Goto(w, "lock", "check")
  /\ Acquire(w)
  /\ UNCHANGED <<arg, threads, stop, m_tasks, cur, sub, fut, accepted, started, spurious>>

WorkerWait(w) ==
  /\ ~(stop \/ m_tasks # <<>>)
  /\ Goto(w, "check", "wait")
  /\ Release(w)
  /\ UNCHANGED <<arg, threads, stop, m_tasks, cur, sub, fut, accepted, started, spurious>>

SpuriousWakeup(w) ==
  /\ spurious < MaxSpurious
  /\ spurious' = spurious + 1
  /\ Goto(w, "wait", "lock")
  /\ UNCHANGED <<arg, threads, stop, m_tasks, mutex, cur, sub, fut, accepted, started>>

\* Mutant: the worker leaves as soon as the pool is stopped.
WorkerReturnEarly(w) ==
  /\ stop
  /\ Goto(w, "check", "exit")
  /\ Release(w)
  /\ UNCHANGED <<arg, threads, stop, m_tasks, cur, sub, fut, accepted, started, spurious>>

WorkerReturn(w) ==
  /\ stop /\ m_tasks = <<>>
  /\ Goto(w, "check", "exit")
  /\ Release(w)
  /\ UNCHANGED <<arg, threads, stop, m_tasks, cur, sub, fut, accepted, started, spurious>>

\* Mutant: the task is read from the front but not popped.
WorkerTakeUnpopped(w) ==
  /\ m_tasks # <<>>
  /\ cur' = [cur EXCEPT ![w] = Head(m_tasks)]
  /\ started' = Append(started, Head(m_tasks))
  /\ Goto(w, "check", "run")
  /\ Release(w)
  /\ UNCHANGED <<arg, threads, stop, m_tasks, sub, fut, accepted, spurious>>

WorkerTake(w) ==
  /\ m_tasks # <<>>
  /\ cur' = [cur EXCEPT ![w] = Head(m_tasks)]
  /\ started' = Append(started, Head(m_tasks))
  /\ m_tasks' = Tail(m_tasks)
  /\ Goto(w, "check", "run")
  /\ Release(w)
  /\ UNCHANGED <<arg, threads, stop, sub, fut, accepted, spurious>>

\* future.get() in the body of a task returns once the child is resolved.
TaskAwait(w) ==
  /\ Goto(w, "await", "run")
  /\ fut[Child[cur[w]]] \in Resolved
  /\ UNCHANGED <<arg, threads, stop, m_tasks, mutex, cur, sub, fut, accepted, started, spurious>>

\* task() ends: the packaged_task stores the body's value, or the exception
\* that left it, in the future; the worker itself always goes on.
WorkerFinish(w) ==
  /\ cur[w] # NoTask
  /\ Child[cur[w]] # NoTask => fut[Child[cur[w]]] # "none"
  /\ \E r \in {"value", "exception"} : fut' = [fut EXCEPT ![cur[w]] = r]
  /\ cur' = [cur EXCEPT ![w] = NoTask]
  /\ Goto(w, "run", "lock")
  /\ UNCHANGED <<arg, threads, stop, m_tasks, mutex, sub, accepted, started, spurious>>

(***************************************************************************)
(* ~ThreadPool().                                                          *)
(***************************************************************************)
DtorLock ==
  /\ pc[Owner] = "idle"
  /\ \A c \in Clients : pc[c] = "idle"
  /\ Goto(Owner, "idle", "dlock")
  /\ UNCHANGED <<arg, threads, stop, m_tasks, mutex, cur, sub, fut, accepted, started, spurious>>

DtorAcquire ==
  /\ Goto(Owner, "dlock", "dstop")
  /\ Acquire(Owner)
  /\ UNCHANGED <<arg, threads, stop, m_tasks, cur, sub, fut, accepted, started, spurious>>

DtorStop ==
  /\ stop' = TRUE
  /\ Goto(Owner, "dstop", "dnotify")
  /\ Release(Owner)
  /\ UNCHANGED <<arg, threads, m_tasks, cur, sub, fut, accepted, started, spurious>>

\* Mutant: notify_one() instead of notify_all().
DtorNotifyOne ==
  /\ pc[Owner] = "dnotify"
  /\ \/ /\ Waiting = {}
        /\ pc' = [pc EXCEPT ![Owner] = "djoin"]
     \/ \E w \in Waiting : pc' = [pc EXCEPT ![Owner] = "djoin", ![w] = "lock"]
  /\ UNCHANGED <<arg, threads, stop, m_tasks, mutex, cur, sub, fut, accepted, started, spurious>>

DtorNotifyAll ==
  /\ pc[Owner] = "dnotify"
  /\ pc' = [x \in Threads |-> IF x = Owner THEN "djoin"
                              ELSE IF x \in Waiting THEN "lock" ELSE pc[x]]
  /\ UNCHANGED <<arg, threads, stop, m_tasks, mutex, cur, sub, fut, accepted, started, spurious>>

\* All the joins have returned.  Destroying m_tasks destroys the tasks in it
\* unrun, which breaks their promises.
DtorJoin ==
  /\ \A w \in Workers : pc[w] \in {"unborn", "exit"}
  /\ Goto(Owner, "djoin", "gone")
  /\ fut' = [t \in Tasks |-> IF \E i \in DOMAIN m_tasks : m_tasks[i] = t
                             THEN "broken" ELSE fut[t]]
  /\ m_tasks' = <<>>
  /\ UNCHANGED <<arg, threads, stop, mutex, cur, sub, accepted, started, spurious>>

\* The pool no longer exists: nothing more happens.
Gone ==
  /\ pc[Owner] = "gone"
  /\ UNCHANGED vars

WorkerStep(w) ==
  \/ WorkerLock(w) \/ WorkerWait(w) \/ WorkerReturn(w) \/ WorkerTake(w)
  \/ TaskEnqueue(w) \/ TaskAwait(w) \/ WorkerFinish(w)
  \/ EnqueueLock(w) \/ EnqueuePush(w) \/ EnqueueThrow(w) \/ EnqueueNotify(w)

ClientCall(c) ==
  EnqueueLock(c) \/ EnqueuePush(c) \/ EnqueueNotify(c)

DtorStep == DtorAcquire \/ DtorStop \/ DtorNotifyAll \/ DtorJoin

Next ==
  \/ LaunchWorker \/ Constructed
  \/ \E c \in Clients : \/ ClientCall(c)
                        \/ \E t \in Roots : ClientEnqueue(c, t)
  \/ \E w \in Workers : WorkerStep(w) \/ SpuriousWakeup(w)
  \/ DtorLock \/ DtorStep
  \/ Gone

Spec == Init /\ [][Next]_vars

(***************************************************************************)
(* Each running thread keeps running.  No fairness on ClientEnqueue (a     *)
(* client need not call), on DtorLock (the owner may keep the pool) or on  *)
(* SpuriousWakeup.                                                         *)
(***************************************************************************)
Fairness ==
  /\ WF_vars(LaunchWorker \/ Constructed)
  /\ \A c \in Clients : WF_vars(ClientCall(c))
  /\ \A w \in Workers : WF_vars(WorkerStep(w))
  /\ WF_vars(DtorStep)

FairSpec == Spec /\ Fairness

(***************************************************************************)
(* Properties.                                                             *)
(***************************************************************************)
Elems(s)    == {s[i] : i \in DOMAIN s}
Distinct(s) == \A i, j \in DOMAIN s : s[i] = s[j] => i = j

TypeOK ==
  /\ arg \in MinThreads..MaxThreads
  /\ threads \in 0..arg
  /\ stop \in BOOLEAN
  /\ m_tasks \in Seq(Tasks)
  /\ mutex \in Threads \cup {NoThread}
  /\ pc \in [Threads -> PcWorker \cup PcClient \cup PcOwner]
  /\ \A w \in Workers : pc[w] \in PcWorker
  /\ \A c \in Clients : pc[c] \in PcClient
  /\ pc[Owner] \in PcOwner
  /\ cur \in [Workers -> Tasks \cup {NoTask}]
  /\ sub \in [Workers \cup Clients -> Tasks \cup {NoTask}]
  /\ fut \in [Tasks -> Unresolved \cup Resolved]
  /\ accepted \in Seq(Tasks)
  /\ started \in Seq(Tasks)
  /\ spurious \in Nat

Awake     == {w \in Workers : pc[w] \in {"lock", "check"}}
Notifying == {x \in Workers \cup Clients : pc[x] = "enotify"}

\* No wakeup is lost.  enqueue() releases the mutex before notify_one() and
\* a worker tests its predicate before it blocks; still, while a worker is
\* blocked every queued task has a worker on its way to the queue or a
\* caller about to notify, and after "stop = true" a worker is blocked only
\* until the destructor's notify_all().
NoLostWakeup ==
  /\ Waiting # {} =>
       Len(m_tasks) <= Cardinality(Awake) + Cardinality(Notifying)
  /\ stop /\ pc[Owner] # "dnotify" => Waiting = {}

\* Tasks are taken in the order in which enqueue() accepted them, each once:
\* what the workers took, followed by what is queued, is what was accepted,
\* and no task occurs in it twice.
TakenInOrder ==
  /\ pc[Owner] # "gone" => accepted = started \o m_tasks
  /\ Distinct(accepted)

\* The destructor drains a pool that has workers: when it returns, no worker
\* is inside the pool, the mutex is free, and every accepted task has run to
\* its end; no future of an accepted task is left broken or pending.
DrainedOnDestroy ==
  pc[Owner] = "gone" =>
    /\ mutex = NoThread
    /\ \A w \in Workers : pc[w] \in {"unborn", "exit"}
    /\ arg > 0 => \A t \in Elems(accepted) : fut[t] \in {"value", "exception"}

\* Every worker is blocked in get() on a task that nobody has run: the one
\* way in which this pool can come to a halt.
Starved ==
  /\ arg > 0
  /\ \A w \in 1..arg : pc[w] = "await" /\ fut[Child[cur[w]]] \notin Resolved

\* A caller of enqueue() is never left with a future that nothing resolves,
\* as long as the pool has a worker that its tasks do not block: run, or
\* refused because of the destructor, every submitted task is resolved.  A
\* pool with more workers than tasks that wait is never starved.
EveryFutureResolves ==
  /\ \A t \in Tasks :
       (arg > 0 /\ fut[t] = "pending") ~> (fut[t] \in Resolved \/ Starved)
  /\ [](arg > Cardinality(Awaiting) => ~Starved)

\* The destructor returns once it is called, whatever the queue holds and
\* whatever the running tasks still enqueue, unless the pool is starved.
DestructorReturns == pc[Owner] = "dlock" ~> (pc[Owner] = "gone" \/ Starved)

(***************************************************************************)
(* The inductive invariant behind TakenInOrder, DrainedOnDestroy and the   *)
(* refinement.                                                             *)
(***************************************************************************)
InEnqueue == {"elock", "epush"}
Holding   == {"check", "epush", "dstop"}
Busy      == {"run", "await", "elock", "epush", "enotify"}
Stopped   == {"dnotify", "djoin", "gone"}

\* The mutex is held exactly by the thread inside a critical section.
LockInv == \A x \in Threads : pc[x] \in Holding <=> mutex = x

\* Workers 1 to arg are launched, in order, and the clients are out of the
\* pool, and stop is set, by the time the destructor's steps need it.
PhaseInv ==
  /\ \A w \in Workers : pc[w] = "unborn" <=> w > arg - threads
  /\ pc[Owner] # "ctor" => threads = 0
  /\ stop <=> pc[Owner] \in Stopped
  /\ pc[Owner] # "idle" => \A c \in Clients : pc[c] = "idle"
  /\ \A w \in Workers : pc[w] = "exit" => stop /\ m_tasks = <<>>
  /\ pc[Owner] = "gone" =>
       m_tasks = <<>> /\ \A w \in Workers : pc[w] \in {"unborn", "exit"}

\* A task inside enqueue(), before it is queued, is in no other place.
SubInv ==
  \A x \in Workers \cup Clients : pc[x] \in InEnqueue =>
    /\ sub[x] \in Tasks
    /\ fut[sub[x]] = "pending"
    /\ sub[x] \notin Elems(accepted)
    /\ \A y \in Workers \cup Clients :
         pc[y] \in InEnqueue /\ sub[y] = sub[x] => x = y

\* A worker holds a task exactly while it runs it, and no two hold the same.
CurInv ==
  \A w \in Workers :
    /\ cur[w] # NoTask <=> pc[w] \in Busy
    /\ cur[w] # NoTask => /\ fut[cur[w]] = "pending"
                          /\ cur[w] \in Elems(started)
                          /\ \A v \in Workers : cur[v] = cur[w] => v = w

\* A queued task is unresolved, and a task that was taken is being run or
\* has run to its end.
FutInv ==
  /\ \A t \in Elems(m_tasks) : fut[t] = "pending"
  /\ \A t \in Elems(accepted) : fut[t] # "none"
  /\ \A t \in Elems(started) :
       \/ fut[t] \in {"value", "exception"}
       \/ \E w \in Workers : cur[w] = t
  /\ pc[Owner] = "gone" /\ arg > 0 => Elems(accepted) = Elems(started)

IInv == TypeOK /\ LockInv /\ PhaseInv /\ SubInv /\ CurInv /\ FutInv /\ TakenInOrder

(***************************************************************************)
(* The pool implements TaskPool.  A task is accepted by EnqueuePush, refused *)
(* by EnqueueThrow, started by WorkerTake and finished by WorkerFinish; the *)
(* pool is closed by DtorStop and destroyed by DtorJoin.                    *)
(***************************************************************************)
Running == {t \in Tasks : \E w \in Workers : cur[w] = t}
Result  == [t \in Tasks |-> IF fut[t] \in Resolved THEN fut[t] ELSE "none"]

Abstract == INSTANCE TaskPool WITH
  workers <- arg, queue <- m_tasks, running <- Running, result <- Result,
  closed <- stop, destroyed <- pc[Owner] = "gone"

\* Every behaviour of the threads is one of TaskPool: seen from outside, the
\* pool is a FIFO with at most arg tasks running at once, refuses a task only
\* after it was closed, and is not destroyed before it is drained.
ImplementsTaskPool == Abstract!Spec
=============================================================================
