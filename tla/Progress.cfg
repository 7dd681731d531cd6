SPECIFICATION Spec
CONSTANTS
  Packets <- MCPackets
  Disputes = {d1, d2}
  MaxTurns = 2
  MaxFaults = 2
  MaxCommands = 2
CHECK_DEADLOCK FALSE
INVARIANTS
  DeliveredTestsAreProtected
  AutomaticWorkIsBounded
PROPERTY RunSettles
