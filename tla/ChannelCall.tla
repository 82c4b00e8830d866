---------------------------- MODULE ChannelCall ----------------------------
(***************************************************************************)
(* A call of syncMessageChannels (internal/syncer/message_sync.go): what   *)
(* its caller and the database see of it, whichever way the channels are   *)
(* crawled, and what is promised about it.                                 *)
(***************************************************************************)
CONSTANT Channels

VARIABLES
  marker,     \* sync_state channel:<id>:unavailable is set
  report,     \* what the crawl of each channel came to
  answer,     \* what the call returned, "running" until it does
  cancelled   \* the caller's context is done

\* The call keeps what is promised to syncGuild: every channel reported once,
\* an answer that sums the reports up, and none left out unless a channel
\* failed or the caller cancelled.
Contract == INSTANCE PoolContract WITH
  Channels <- Channels, report <- report, answer <- answer, cancelled <- cancelled
KeepsContract == Contract!Spec

=============================================================================
