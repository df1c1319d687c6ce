---------------------------- MODULE MCThreadPool ----------------------------
(***************************************************************************)
(* Small instances of ThreadPool.  t1 and t2 are submitted by clients, and *)
(* the body of t1 submits k1 to the pool that runs it.                     *)
(***************************************************************************)
EXTENDS ThreadPool, TLC

CONSTANTS t1, t2, k1

MCTasks == {t1, t2, k1}
MCRoots == {t1, t2}
MCChild == t1 :> k1 @@ t2 :> NoTask @@ k1 :> NoTask
MCParents == {t1}
=============================================================================
