CONSTANTS
  Scans = {s1}
  Slots = {w1, w2}
  NStages = 2
  Off = {2}
  Boot = Boot
  None = None
  Cooloff = 1
  BootRetry = 1
  JobTimeout = 1
  Stale = 2
  ProgramStates = {"ready", "paused", "unauthorized"}
  MaxTries = 2
  MaxFaults = 2
SPECIFICATION FairSpec
INVARIANTS TypeOK RowReads CancelledOnlyOnRequest  LiveRunIsNeverStale NoDoubleExecution
PROPERTIES ImplementsRunBoard OpenRunEventuallyCloses
