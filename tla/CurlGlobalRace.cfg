SPECIFICATION Spec
CONSTANT Threads = {a, b}
INVARIANT
  InitExactlyOnce
