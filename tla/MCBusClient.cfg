SPECIFICATION Spec
CONSTANTS
  Calls <- const_Calls
  MindsBank = TRUE
PROPERTIES OnlyTargetWritten ReadReturnsValue
