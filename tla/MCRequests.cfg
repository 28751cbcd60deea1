SPECIFICATION Spec
CONSTANTS
  Request = {r1, r2}
  Entry = {e1, e2}
  FailureLimit = 2
  None = None
  ReadConn = {c1}
  WriteConn = w
  Scan = scan
INVARIANTS
  TypeOK
  ConnectionsAccountedFor
  NeverWaitHolding
  SuccessForgives
  WindowBound
PROPERTIES
  EveryRequestAnswered
CHECK_DEADLOCK FALSE
