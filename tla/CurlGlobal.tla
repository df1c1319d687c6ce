----------------------------- MODULE CurlGlobal -----------------------------
(***************************************************************************)
(* include/WebClient.hpp: the constructor initialises libcurl on first     *)
(* use, guarded by the plain global g_curl_bInit.  Threads create clients  *)
(* independently of each other; each then makes a request, which calls     *)
(* curl_easy_init().                                                       *)
(***************************************************************************)
EXTENDS Integers

CONSTANT Threads

VARIABLES
  g_curl_bInit,  \* the flag
  inits,         \* number of calls of curl_global_init() so far
  ready,         \* some curl_global_init() has returned
  pc             \* "test" the flag, "init", "set" the flag, "use", "done"

vars == <<g_curl_bInit, inits, ready, pc>>

Init ==
  /\ g_curl_bInit = FALSE
  /\ inits = 0
  /\ ready = FALSE
  /\ pc = [t \in Threads |-> "test"]

Goto(t, here, there) ==
  /\ pc[t] = here
  /\ pc' = [pc EXCEPT ![t] = there]

Test(t) ==
  /\ Goto(t, "test", IF g_curl_bInit THEN "use" ELSE "init")
  /\ UNCHANGED <<g_curl_bInit, inits, ready>>

\* Mutant: the flag is set before the library is initialised.
SetFirst(t) ==
  /\ Goto(t, "init", "set")
  /\ inits' = inits + 1
  /\ g_curl_bInit' = TRUE
  /\ UNCHANGED ready

\* curl_global_init() starts.
GlobalInit(t) ==
  /\ Goto(t, "init", "set")
  /\ inits' = inits + 1
  /\ UNCHANGED <<g_curl_bInit, ready>>

\* It has returned; g_curl_bInit = true.
Set(t) ==
  /\ Goto(t, "set", "use")
  /\ ready' = TRUE
  /\ g_curl_bInit' = TRUE
  /\ UNCHANGED inits

\* A request of the client calls curl_easy_init() and the client goes away;
\* the thread may create another one.
Use(t) ==
  /\ \E there \in {"test", "done"} : Goto(t, "use", there)
  /\ UNCHANGED <<g_curl_bInit, inits, ready>>

Done ==
  /\ \A t \in Threads : pc[t] = "done"
  /\ UNCHANGED vars

Next == Done \/ \E t \in Threads : Test(t) \/ GlobalInit(t) \/ Set(t) \/ Use(t)

Spec == Init /\ [][Next]_vars

\* libcurl is initialised before any client uses it, however many threads
\* create clients at once.
InitBeforeUse == \A t \in Threads : pc[t] = "use" => ready

\* libcurl's rule: "curl_global_init() should be invoked exactly once for
\* each application that uses libcurl".
InitExactlyOnce == inits <= 1
=============================================================================
