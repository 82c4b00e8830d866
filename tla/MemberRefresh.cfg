SPECIFICATION Spec
CONSTANTS
  Users = {1, 2, 3}
  PageSize = 2
  MaxChanges = 3
  MaxFaults = 1
INVARIANTS
  ListHonest
  RightUnlessRaced
PROPERTIES
  SnapshotHeals
