SPECIFICATION FairSpec
CONSTANTS
  Variants = {"committed", "HelloWorld", "function"}
  Programs <- AllPrograms
INVARIANTS TypeOK BlocksWoven InitOnceAndFirst OpenedIffSelected
PROPERTY Terminates
