--------------------------- MODULE MCChannelSync ---------------------------
(* Instances of ChannelSync for TLC.                                       *)
EXTENDS ChannelSync

\* Runs of every kind, among which the user gives `sync --full` without a
\* cutoff time and again.
FromTheStart == SyncFull /\ since' = 0
MixedSpec ==
  /\ Spec
  /\ WF_vars(ListChannels)
  /\ SF_vars(FromTheStart)
  /\ WF_vars(Step)
  /\ WF_vars(DeadlineExpires)

\* A channel that holds messages when it is first crawled, none of which is
\* deleted: nothing but interrupted runs can hurt it.
BusyChannelSpec ==
  /\ Init /\ posted > 2
  /\ [][Post \/ ListChannels \/ SyncFull \/ SyncIncremental \/ Step \/ Abort]_vars

=============================================================================
