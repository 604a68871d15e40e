\* Two producers and the core, which is a producer too, with an allocator that does
\* not reuse a freed node: the assumption of Michael and Scott's algorithm
\* that a stale pointer still leads to the node it led to.
CONSTANTS
  Thread = {core, t1, t2}
  Consumer = core
  Producer = {core, t1, t2}
  Node = {n1, n2, n3, n4}
  NULL = NULL
  Intr = {a, b}
  NoIntr = NoIntr
  Garbage = {}
  Recycle = FALSE
  MaxTag = 4
  core = core
  t1 = t1
  t2 = t2
  a = a
  b = b
SPECIFICATION Spec
SYMMETRY Symmetry
INVARIANT TailCaughtUp
PROPERTY ImplementsIntrQueue
\* Once every node has been used there is nothing left to do.
CHECK_DEADLOCK FALSE
