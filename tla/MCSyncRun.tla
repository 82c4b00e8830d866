----------------------------- MODULE MCSyncRun -----------------------------
(* An instance of SyncRun: a guild with a text channel, a forum and a      *)
(* thread of it, and the kinds of `sync` the user gives.                   *)
EXTENDS SyncRun

ForumParent == [h \in Threads |-> "forum"]
OneGuild    == [c \in Channels |-> "g"]

Sync(full, since, dms, channels) ==
  [full |-> full, since |-> since, dms |-> dms, channels |-> channels]
\* Full, and incremental and targeted with a cutoff, with direct messages.
KindsOfSync == {Sync(TRUE, FALSE, TRUE, {}), Sync(FALSE, TRUE, TRUE, {"forum"})}
=============================================================================
