SPECIFICATION FairSpec
CONSTANTS
  MAX_SHELL_COUNT = 2
  Freqs <- SomeFreqs
  EarlyIrqs <- NoIrqs
INVARIANTS
  TypeOK
  NoneLeftInService
  RateIsSet
PROPERTIES
  IsInterruptWait
  RtcReadReturns
  KeysAreTaken
