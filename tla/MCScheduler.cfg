\* One cron job over two firings, and one one-off id asked for twice.
CONSTANTS
  None = None
  CronBase = {"cron"}
  OneOffBase = {"oneoff"}
  Period = 3
  RetryDelay = 1
  Grace = 1
  MaxTime = 8
  MaxSuffix = 2
  MaxRequests = 2
SPECIFICATION Spec
INVARIANTS TypeOK OneRunPerJob RetriesDoNotChain
