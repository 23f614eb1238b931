\* The frame handed back to the network thread after a corruption fault.
CONSTANTS
  NetThread = ip
  UserThread = user
  StackTop = 2
SPECIFICATION Spec
INVARIANT NetThreadRewound
