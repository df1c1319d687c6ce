\* Pools of 0, 1 and 2 workers; the body of t1 may block on the future of k1,
\* which halts a pool of one worker, so that deadlock is allowed.
SPECIFICATION FairSpec
CONSTANTS
  t1 = t1
  t2 = t2
  k1 = k1
  Clients = {c1, c2}
  Owner = owner
  Tasks <- MCTasks
  Roots <- MCRoots
  Child <- MCChild
  Awaiting <- MCParents
  NoTask = NoTask
  NoThread = NoThread
  MinThreads = 0
  MaxThreads = 2
  MaxtTreadCount = 10
  MaxSpurious = 1
CHECK_DEADLOCK FALSE
INVARIANTS
  TypeOK
  NoLostWakeup
  TakenInOrder
  DrainedOnDestroy
PROPERTIES
  EveryFutureResolves
  DestructorReturns
  ImplementsTaskPool
