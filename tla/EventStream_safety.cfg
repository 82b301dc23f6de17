CONSTANTS
  a1 = a1  a2 = a2  a3 = a3  p1 = p1  p2 = p2
  None = None
  Action = {a1, a2, a3}
  Before <- AlphabeticallyBefore
  OldLogs <- Logs
  MaxFaults = 3
  Plan = {p1, p2}
  PlanOf <- Plans
  Page = {c1}
  MaxEvents = 2
SPECIFICATION Spec
INVARIANTS
  ServedSchemaIsHead
  ReceivedOnceInOrder
  CursorIsKnown
  LatestEventIsOfTheState
  IInv
PROPERTIES
  EventsKept
  ImplementsLog
