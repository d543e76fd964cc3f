SPECIFICATION RlogSpec
CONSTANTS
  MaxClock = 2
  HeadEvery = 3
  HeadAge = 2
  MaxEntries = 7
INVARIANT EveryEntryProvable
CHECK_DEADLOCK FALSE
