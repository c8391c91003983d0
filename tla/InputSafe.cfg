SPECIFICATION LiveSpec
CONSTANTS
  MaxInputs = 3
  MaxNoise = 1
  MaxHandoffs = 1
INVARIANTS  MessageWhole 
PROPERTIES Unwedged 
CHECK_DEADLOCK FALSE
