CONSTANTS
  Data <- MCData
  DataLess <- MCLess
  MaxLength = 5
CHECK_DEADLOCK FALSE
SPECIFICATION ListSpec
INVARIANT SortsStably
