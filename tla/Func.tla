-------------------------------- MODULE Func --------------------------------
(***************************************************************************)
(* include/Func.hpp: a delegate.  operator+= takes its argument by         *)
(* reference, keys the map with the address of the argument and returns    *)
(* it as the event id.  main.cpp binds lambdas: the std::function is then  *)
(* a temporary that dies at the end of the statement, and a later one may  *)
(* get its address.  Callbacks may themselves bind and unbind.             *)
(***************************************************************************)
EXTENDS Integers, Sequences, FiniteSetsExt, Functions

CONSTANTS
  Callbacks,   \* the functions that are bound
  Addresses,   \* addresses of their std::function objects: numbers above 0
  MaxBinds     \* bound on the bindings

VARIABLES
  callbacks,   \* the map, a function from the ids in it
  ids,         \* the ids returned: a sequence of [id, callback, bound]
  it,          \* the id whose function operator() is running, 0 if none
  ran,         \* history: how often each id ran in this invocation
  stayed,      \* history: ids in the map since this invocation began
  undefined    \* the function that is running was erased

vars == <<callbacks, ids, it, ran, stayed, undefined>>

Init ==
  /\ callbacks = <<>>
  /\ ids = <<>>
  /\ it = 0
  /\ ran = [a \in Addresses |-> 0]
  /\ stayed = {}
  /\ undefined = FALSE

\* std::map::emplace: a key that is there already keeps its function.
Emplaced(id, f) ==
  [k \in DOMAIN callbacks \cup {id} |-> IF k \in DOMAIN callbacks THEN callbacks[k] ELSE f]

\* operator+=; the argument may be at any address.
Bind(f, id) ==
  /\ ~undefined
  /\ Len(ids) < MaxBinds
  /\ callbacks' = Emplaced(id, f)
  /\ ids' = Append(ids, [id |-> id, callback |-> f, bound |-> TRUE])
  /\ UNCHANGED <<it, ran, stayed, undefined>>

Erased(id) == Restrict(callbacks, DOMAIN callbacks \ {id})

\* operator-= with an id that the user holds; erasing the node that the loop
\* of operator() stands on is undefined behaviour.
Unbind(n) ==
  /\ ~undefined
  /\ n \in 1..Len(ids) /\ ids[n].bound
  /\ callbacks' = Erased(ids[n].id)
  /\ ids' = [ids EXCEPT ![n].bound = FALSE]
  /\ stayed' = stayed \ {ids[n].id}
  /\ undefined' = (it = ids[n].id)
  /\ UNCHANGED <<it, ran>>

\* Mutant: the loop starts from the first element again.
NextOfFirst(id) == {k \in DOMAIN callbacks : k # id}

\* The elements that the loop has still to visit.
NextOf(id) == {k \in DOMAIN callbacks : k > id}

\* The loop of operator() goes to the next element, or ends.
Goto(id, counts) ==
  IF NextOf(id) = {} THEN it' = 0 /\ ran' = counts
  ELSE it' = Min(NextOf(id)) /\ ran' = [counts EXCEPT ![Min(NextOf(id))] = @ + 1]

Invoke ==
  /\ ~undefined
  /\ it = 0 /\ DOMAIN callbacks # {}
  /\ stayed' = DOMAIN callbacks
  /\ Goto(0, [a \in Addresses |-> 0])
  /\ UNCHANGED <<callbacks, ids, undefined>>

\* The callback that runs returns.
Continue ==
  /\ ~undefined
  /\ it # 0
  /\ Goto(it, ran)
  /\ UNCHANGED <<callbacks, ids, stayed, undefined>>

Next ==
  \/ \E f \in Callbacks, id \in Addresses : Bind(f, id)
  \/ \E n \in 1..MaxBinds : Unbind(n)
  \/ Invoke
  \/ Continue

Spec == Init /\ [][Next]_vars

(***************************************************************************)
(* Properties.                                                             *)
(***************************************************************************)

\* Every function in the map belongs to an id that is still bound: none runs
\* after it was removed, also when ids are shared.
OnlyBoundRun ==
  \A k \in DOMAIN callbacks :
    \E n \in 1..Len(ids) : ids[n].bound /\ ids[n].id = k /\ ids[n].callback = callbacks[k]

\* Although callbacks bind and unbind while operator() walks the map, one that
\* stays in it from the beginning to the end runs exactly once, and none that
\* is in it was removed.
InvokedOnce ==
  /\ OnlyBoundRun
  /\ \A k \in stayed : ran[k] <= 1
  /\ it = 0 => \A k \in stayed : ran[k] = 1
=============================================================================
