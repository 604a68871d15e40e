\* Fewer physical cores than emulated ones: a core, and a device that sends, as
\* the core does.  Three interrupts are one more than the backlog allows.
CONSTANTS
  Core = {c1}
  Device = {d1}
  MAX_INTR_THRESHOLD = 1
  PAUSE_THRESHOLD = 0
  Enough = FALSE
  MaxSend = 3
  None = None
SPECIFICATION FairSpec
INVARIANTS SigPendingBacked BacklogBounded
PROPERTY BacklogHandled
