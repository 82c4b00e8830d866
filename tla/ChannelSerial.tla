--------------------------- MODULE ChannelSerial ---------------------------
(***************************************************************************)
(* syncMessageChannelsSerial (internal/syncer/message_sync.go): what sync  *)
(* does instead of ChannelPool when --concurrency is 1 or less.  One       *)
(* goroutine crawls the channels in order and stops at the first error     *)
(* that is neither a denied channel nor a retryable one.                   *)
(***************************************************************************)
EXTENDS ChannelCall, Integers, Sequences

CONSTANT
  Order      \* the channels in the order they are crawled

ASSUME OrderAssumption ==
  /\ Order \in Seq(Channels)
  /\ \A c \in Channels : \E i \in DOMAIN Order : Order[i] = c
  /\ \A i, j \in DOMAIN Order : Order[i] = Order[j] => i = j

VARIABLE
  next        \* index of the channel to crawl next

serialVars == <<next, marker, report, answer, cancelled>>

SerialTypeOK ==
  /\ next \in 1..(Len(Order) + 1)
  /\ marker \in [Channels -> BOOLEAN]
  /\ report \in [Channels -> {"none", "ok", "skipped", "deferred", "failed"}]
  /\ answer \in {"running", "ok", "partial", "error"}
  /\ cancelled \in BOOLEAN

Channel == Order[next]
Failed  == \E c \in Channels : report[c] = "failed"

LoopingOn == answer = "running" /\ next =< Len(Order) \* fault: errors are passed over
Looping   == answer = "running" /\ next =< Len(Order) /\ ~Failed

\* One round of the loop ends with this outcome for its channel.
EndRound(outcome) ==
  /\ Looping
  /\ report' = [report EXCEPT ![Channel] = outcome]
  /\ next' = next + 1
  /\ UNCHANGED <<answer, cancelled>>

\* The crawl succeeded and its unavailable marker is cleared.
SerialSucceed ==
  /\ ~cancelled
  /\ EndRound("ok")
  /\ marker' = [marker EXCEPT ![Channel] = FALSE]

\* Access is denied or the channel is gone: the marker is written if the
\* database lets it.
SerialSkip ==
  /\ EndRound("skipped")
  /\ \/ UNCHANGED marker
     \/ ~cancelled /\ marker' = [marker EXCEPT ![Channel] = TRUE]

\* A timeout, a 5xx, a busy database: left to a later sync.
SerialDefer == ~cancelled /\ EndRound("deferred") /\ UNCHANGED marker

\* Any other error, an error once the context is done, or a marker that
\* cannot be cleared.
SerialFail == EndRound("failed") /\ UNCHANGED marker

SerialReturn ==
  /\ answer = "running" /\ ~Looping
  /\ answer' = (IF Failed THEN "error"
                ELSE IF \E c \in Channels : report[c] = "deferred" THEN "partial"
                ELSE "ok")
  /\ UNCHANGED <<next, marker, report, cancelled>>

SerialCancel ==
  /\ ~cancelled /\ cancelled' = TRUE
  /\ UNCHANGED <<next, marker, report, answer>>

SerialInit ==
  /\ next = 1 /\ marker \in [Channels -> BOOLEAN]
  /\ report = [c \in Channels |-> "none"]
  /\ answer = "running" /\ cancelled = FALSE

SerialStep == SerialSucceed \/ SerialSkip \/ SerialDefer \/ SerialFail \/ SerialReturn
SerialNext == SerialStep \/ SerialCancel

\* The loop goes on; a crawl ends, by the channel deadline if by nothing else.
SerialSpec == SerialInit /\ [][SerialNext]_serialVars /\ WF_serialVars(SerialStep)

----------------------------------------------------------------------------
(* Properties.                                                             *)

\* The serial crawl stops hard: behind a failed channel none is touched.
NothingAfterFailure ==
  \A i, j \in DOMAIN Order :
    i < j /\ report[Order[i]] = "failed" => report[Order[j]] = "none"

=============================================================================
