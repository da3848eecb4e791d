CONSTANTS
  Arguments <- MCArguments
  Addresses = {1}
  MaxRuns = 2
  Orders <- MCOrders
  MaxMeasures = 2
  MaxEdits = 2
SPECIFICATION Spec
CHECK_DEADLOCK FALSE
INVARIANT NothingLost
INVARIANT OnlyWholeBoxesAnswer
PROPERTY PushedOnTop
