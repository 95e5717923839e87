SPECIFICATION FairSpec
CONSTANTS
  t1 = t1
  t2 = t2
  n1 = n1
  n2 = n2
  n3 = n3
  head = head
  NIL = NIL
  Elsewhere = Elsewhere
  ULong <- MCULong
  Thread <- MCThread
  Node <- MCTwoNodes
  Key = {1, 2}
  kCoefficient = 4
  MaxSlots = 5
  Calls <- MCFewUpdates
  MaxOps <- MCOneOne
  Starts = {"new"}
  Earlier = {0}
CHECK_DEADLOCK FALSE
PROPERTIES EveryCallReturns EveryExitEnds
