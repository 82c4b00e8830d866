SPECIFICATION TailSpec
CONSTANTS
  MaxId = 3
  ShortIds = 3
  PageSize = 2
  Cutoffs = {0}
  PagesPerRun = 2
  MaxAborts = 1
INVARIANT HolesAreSkipped
