------------------------------ MODULE TaskPool ------------------------------
(***************************************************************************)
(* What a ThreadPool promises, without threads, locks or wakeups: a FIFO   *)
(* of tasks served by at most "workers" servers, open until it is closed,  *)
(* and destroyed only once everything it accepted has run (unless it has   *)
(* no server at all, when the queued tasks are abandoned).                 *)
(***************************************************************************)
EXTENDS Integers, Sequences, FiniteSets

CONSTANTS Tasks, MaxThreads

VARIABLES
  workers,   \* number of servers
  queue,     \* accepted tasks that no server has taken
  running,   \* tasks being served
  result,    \* result[t]: "none" until t is resolved
  closed,    \* the pool refuses tasks
  destroyed  \* the pool no longer exists

vars == <<workers, queue, running, result, closed, destroyed>>

InQueue(t) == \E i \in DOMAIN queue : queue[i] = t

\* t has not been accepted, or refused, so far.
Fresh(t) == result[t] = "none" /\ t \notin running /\ ~InQueue(t)

Init ==
  /\ workers \in 0..MaxThreads
  /\ queue = <<>>
  /\ running = {}
  /\ result = [t \in Tasks |-> "none"]
  /\ closed = FALSE
  /\ destroyed = FALSE

Accept(t) ==
  /\ ~closed /\ Fresh(t)
  /\ queue' = Append(queue, t)
  /\ UNCHANGED <<workers, running, result, closed, destroyed>>

Refuse(t) ==
  /\ closed /\ ~destroyed /\ Fresh(t)
  /\ result' = [result EXCEPT ![t] = "broken"]
  /\ UNCHANGED <<workers, queue, running, closed, destroyed>>

Start ==
  /\ queue # <<>>
  /\ Cardinality(running) < workers
  /\ running' = running \cup {Head(queue)}
  /\ queue' = Tail(queue)
  /\ UNCHANGED <<workers, result, closed, destroyed>>

Finish(t) ==
  /\ t \in running
  /\ running' = running \ {t}
  /\ \E r \in {"value", "exception"} : result' = [result EXCEPT ![t] = r]
  /\ UNCHANGED <<workers, queue, closed, destroyed>>

Close ==
  /\ ~closed
  /\ closed' = TRUE
  /\ UNCHANGED <<workers, queue, running, result, destroyed>>

Destroy ==
  /\ closed /\ ~destroyed /\ running = {}
  /\ workers > 0 => queue = <<>>
  /\ result' = [t \in Tasks |-> IF InQueue(t) THEN "broken" ELSE result[t]]
  /\ queue' = <<>>
  /\ destroyed' = TRUE
  /\ UNCHANGED <<workers, running, closed>>

Next ==
  \/ \E t \in Tasks : Accept(t) \/ Refuse(t) \/ Finish(t)
  \/ Start \/ Close \/ Destroy

Spec == Init /\ [][Next]_vars
=============================================================================
