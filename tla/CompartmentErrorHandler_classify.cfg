\* Every trap: both causes, all cause codes and registers, NULL or non-NULL
\* CRA, and a stack pointer anywhere from the base to the top of a stack.
CONSTANTS
  NetThread = ip
  UserThread = user
  StackTop = 2
SPECIFICATION Spec
INVARIANT ClassificationMatchesSpec
