CONSTANTS
  Lengths = {1, 2, 3}
  Environments <- RegisterReads
SPECIFICATION I2CSpec
INVARIANTS RegisterRead
