SPECIFICATION RowsSpec
CONSTANTS
  Messages = {1, 2, 3, 4}
  TimeOf <- FourTimes
  ChannelOf <- TwoChannels
  Wordy = {3, 4}
  CandidateFloor = 2
  CandidateCap = 3
  CandidateMultiple = 1
  Users = {1, 2, 3}
  Quoting <- LoudMember
  ProfileRows = 2
  Unit <- FourRanks
  Limits = {1, 3, 4}
  MaxStale = 1
  Every = Every
INVARIANTS
  SearchFindsNewest
  ListsRight
  ConversationWhole
  RankingsRight
