SPECIFICATION Spec
CONSTANTS
  MaxEntries = 2
  Cap = 2
  MaxFaults = 0
INVARIANTS DeliveredVerifies
CHECK_DEADLOCK FALSE
