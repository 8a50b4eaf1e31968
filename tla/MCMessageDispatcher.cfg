CONSTANTS
  MaxIn = 2
  MaxOut = 1
  MaxErrors = 1
SPECIFICATION FairSpec
INVARIANTS OrderlyExit ExitReasonHappened
PROPERTIES MessagesInOrder EventuallyExits EventuallyHandled
CHECK_DEADLOCK FALSE
