SPECIFICATION EgressSpec
CONSTANTS
  fine = fine
  broken = broken
  Findings = {fine, broken}
  StatusUnder <- MCStatusUnder
  None = None
  Topics <- MCTopics
  NotYet = NotYet
  MaxQueue = 2
  STALL_WINDOW = 1
  STALL_GRACE = 1
  MESSAGE_TIMEOUT = 2
  MaxFaults = 1
  MaxCalls = 2
INVARIANTS
  RetriesDontDuplicate
