SPECIFICATION Spec
CONSTANTS
  Routes <- AllRoutes
  Shots <- TwoThenOne
  MaxPics = 2
  Failures <- AllFailures
CHECK_DEADLOCK FALSE
INVARIANT EventFindsItsJob
