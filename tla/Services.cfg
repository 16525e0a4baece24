SPECIFICATION ServicesSpec
CONSTANTS
  MaxExits = 2
  Clients = {c1}  QueueCap = 2
  Requests = {r1, r2}  Tokens = {1}  MaxAttempts = 2
  Window = 1  Block = 3  TTL = 2  MaxTime = 5  MaxFailures = 4
  Updates = {u1, u2}
  MaxUnits = 3
  Bytes = {0, 1, 7}  MaxBytes = 8
INVARIANTS
  StopLeavesNothing ReadyOnce
  ForgottenIsClosed
  AttemptsBounded
  AcceptedIsStored
  Decodable
  EveryByteOnce
PROPERTIES
  StopReturns KeepsTrying
  HubRecovers
  RefusedForCause
  ReaderEnds
\* every part but the hub may come to its end
CHECK_DEADLOCK FALSE
