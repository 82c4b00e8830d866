SPECIFICATION MixedSpec
CONSTANTS
  MaxId = 4
  ShortIds = 2
  PageSize = 2
  Cutoffs = {0, 3}
  PagesPerRun = 2
  MaxAborts = 1
INVARIANTS
  NoGapUnlessRebootstrapped
  CheckpointsHaveRows
  SuccessCovers
PROPERTIES
  CheckpointsAdvance
  Resumes
