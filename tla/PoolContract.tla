---------------------------- MODULE PoolContract ----------------------------
(***************************************************************************)
(* What syncMessageChannels (internal/syncer/message_sync.go) promises to  *)
(* syncGuild, however it crawls the channels of a guild: it reports on     *)
(* each channel at most once, and answers with an error, a partial or a    *)
(* full success.  It may leave channels out only after one of them failed  *)
(* or when its context was cancelled.                                      *)
(***************************************************************************)
CONSTANT Channels

VARIABLES
  report,     \* what was reported about each channel
  answer,     \* what the call returned, "running" until it does
  cancelled   \* the caller's context is done

vars == <<report, answer, cancelled>>

Outcomes == {"ok", "skipped", "deferred", "failed"}

\* (nil, deferred = false), (nil, deferred = true), or an error.
AnswerOf(reports) ==
  IF \E c \in Channels : reports[c] = "failed" THEN "error"
  ELSE IF \E c \in Channels : reports[c] = "deferred" THEN "partial"
  ELSE "ok"

Init ==
  /\ report = [c \in Channels |-> "none"]
  /\ answer = "running" /\ cancelled = FALSE

Report(c, outcome) ==
  /\ answer = "running" /\ report[c] = "none"
  /\ report' = [report EXCEPT ![c] = outcome]
  /\ UNCHANGED <<answer, cancelled>>

Return ==
  /\ answer = "running"
  /\ \/ cancelled
     \/ \E c \in Channels : report[c] = "failed"
     \/ \A c \in Channels : report[c] # "none"
  /\ answer' = AnswerOf(report)
  /\ UNCHANGED <<report, cancelled>>

Cancel ==
  /\ ~cancelled /\ cancelled' = TRUE
  /\ UNCHANGED <<report, answer>>

Next ==
  \/ \E c \in Channels, outcome \in Outcomes : Report(c, outcome)
  \/ Return
  \/ Cancel

Spec == Init /\ [][Next]_vars

=============================================================================
