\* One interrupt pipe of an OHCI controller, with three transfer descriptors.
CONSTANTS
  OPipes = {1}
  MaxMessages = 2
  OTds = 3
  MaxOReports = 4
  MaxPolls = 5
SPECIFICATION OhciSpec
INVARIANT OhciReportsInOrder
CHECK_DEADLOCK FALSE
