CONSTANTS
  MaxIn = 1
  MaxOut = 1
  MaxErrors = 1
  MaxControl = 2
SPECIFICATION CompFairSpec
INVARIANTS CallbacksDoNotOverlap NormalOnlyIfStopped
PROPERTIES StopEndsDispatching
CHECK_DEADLOCK FALSE
