SPECIFICATION BusyChannelSpec
CONSTANTS
  MaxId = 6
  ShortIds = 6
  PageSize = 2
  Cutoffs = {0}
  PagesPerRun = 0
  MaxAborts = 2
INVARIANT RestartSafe
