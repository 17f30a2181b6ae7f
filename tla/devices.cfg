SPECIFICATION Spec
CONSTANTS
  Kinds <- AllBehaviours
  MaxDevices = 3
INVARIANTS InOrder OneVsock GivenBack
