SPECIFICATION Spec
CONSTANTS
  t1 = t1
  t2 = t2
  n1 = n1
  n2 = n2
  n3 = n3
  head = head
  NIL = NIL
  Elsewhere = Elsewhere
  ULong <- MCULong
  Thread <- MCThread
  Node <- MCNode
  Key = {1, 2}
  kCoefficient = 4
  MaxSlots = 5
  Calls <- MCCalls
  MaxOps <- MCOneThree
  Starts = {"used"}
  Earlier = {10}
SYMMETRY MCSymmetry
CHECK_DEADLOCK FALSE
INVARIANTS NoLostUpdate ResultsWereTrue HazardsProtect AtRest NoLeakAfterExit
