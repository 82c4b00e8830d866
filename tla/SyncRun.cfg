SPECIFICATION RepeatedSyncs
CONSTANTS
  Channels = {"text", "forum", "thread"}
  Threads = {"thread"}
  Forums = {"forum"}
  Parent <- ForumParent
  Home <- OneGuild
  Direct = "@me"
  Nowhere = "none"
  BatchSize = 1
  Options <- KindsOfSync
  Healthy = {"thread"}
INVARIANT MarkerTells
PROPERTY Reached
