SPECIFICATION FairSpec
CONSTANTS
  MAX_SHELL_COUNT = 2
  Freqs <- SomeFreqs
  EarlyIrqs <- ClockToo
PROPERTY
  RtcReadReturns
