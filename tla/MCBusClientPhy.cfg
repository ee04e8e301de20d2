SPECIFICATION Spec
CONSTANTS
  Calls <- const_CallsWithPhyWrite
  MindsBank = FALSE
PROPERTY PhyWriteAddressed
