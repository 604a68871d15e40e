\* Three threads and three nodes: the dummy and two more.  Without LOCKFREE all
\* three threads send, with it t1 does.
CONSTANTS
  Thread = {core, t1, t2}
  Consumer = core
  LoneProducer = t1
  Node = {n1, n2, n3}
  NULL = NULL
  Intr = {a, b}
  NoIntr = NoIntr
  MaxTag = 4
SPECIFICATION QueuesSpec
INVARIANTS MemorySafe LockFreeSound
PROPERTIES ImplementsIntrQueue NeverBlocked LockFreeImplements QueuesDrained
\* With MaxTag enqueues done and the lock-free queue empty there is nothing left
\* to do.
CHECK_DEADLOCK FALSE
