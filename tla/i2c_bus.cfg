CONSTANTS
  Lengths = {0, 1, 2, 3}
  Environments <- AllEnvironments
SPECIFICATION I2CFairSpec
INVARIANTS StartOnFreeBus BusReleased ExactBytes
PROPERTIES CallsEnd
