---------------------------- MODULE ChannelPool ----------------------------
(***************************************************************************)
(* syncMessageChannelsConcurrent (internal/syncer/message_sync.go): the    *)
(* goroutines that crawl the channels of a guild.  A dispatcher hands the  *)
(* channels out over the unbuffered `jobs`, each worker crawls one at a    *)
(* time, classifies its error and sends a result, and the caller collects  *)
(* the results until every worker has left.                                *)
(*                                                                         *)
(* A worker that meets a fatal error calls `cancel` and leaves; the name   *)
(* is the channel's own cancel there, declared inside the loop, so nothing *)
(* but the crawl that is already over is cancelled.                        *)
(***************************************************************************)
EXTENDS ChannelCall, Integers, FiniteSets

CONSTANTS Workers, NoChannel

ASSUME WorkersAssumption   == IsFiniteSet(Workers) /\ Workers # {}
ASSUME ChannelsAssumption  == IsFiniteSet(Channels)
ASSUME NoChannelAssumption == NoChannel \notin Channels

VARIABLES
  waiting,     \* channels the dispatcher has not handed out
  dispatching, \* the dispatcher has not closed `jobs`
  pc,          \* where each worker is
  job,         \* the channel it is at
  err,         \* what the crawl or the classification made of it
  crawled      \* channels whose crawl was started

vars == <<waiting, dispatching, pc, job, err, crawled, marker, report, answer, cancelled>>

\* Errors of a crawl: access denied or the channel unknown; a timeout, a
\* 5xx, a busy database; anything else, a 401 say.
Errors   == {"access", "transient", "fatal"}
Outcomes == {"ok", "skipped", "deferred", "failed"}

TypeOK ==
  /\ waiting \subseteq Channels /\ dispatching \in BOOLEAN
  /\ pc \in [Workers -> {"receive", "check", "crawl", "classify", "send", "left"}]
  /\ job \in [Workers -> Channels \cup {NoChannel}]
  /\ err \in [Workers -> Errors \cup Outcomes \cup {"none"}]
  /\ crawled \subseteq Channels
  /\ marker \in [Channels -> BOOLEAN]
  /\ report \in [Channels -> Outcomes \cup {"none"}]
  /\ answer \in {"running", "ok", "partial", "error"}
  /\ cancelled \in BOOLEAN

\* The pool's context: derived from the caller's, and cancelled for good by
\* the deferred cancel of the function itself.
Done == cancelled \/ answer # "running"

Goto(w, here, next) == pc[w] = here /\ pc' = [pc EXCEPT ![w] = next]

----------------------------------------------------------------------------
(* The dispatcher.                                                         *)

\* jobs <- channel meets a worker's receive.
HandOver(w, c) ==
  /\ dispatching
  /\ Goto(w, "receive", "check")
  /\ job' = [job EXCEPT ![w] = c]
  /\ UNCHANGED <<dispatching, err, crawled, marker, report, answer, cancelled>>

\* Fault: the channel stays on the list.
HandOutAgain(w) == \E c \in waiting : HandOver(w, c) /\ UNCHANGED waiting
HandOut(w) == \E c \in waiting : HandOver(w, c) /\ waiting' = waiting \ {c}

StopDispatching ==
  /\ dispatching /\ dispatching' = FALSE
  /\ UNCHANGED <<waiting, pc, job, err, crawled, marker, report, answer, cancelled>>

CloseJobsAtEnd == StopDispatching /\ waiting = {} \* fault: not on ctx.Done
\* All channels are handed out, or the context is done: jobs is closed.
CloseJobs == StopDispatching /\ (waiting = {} \/ Done)

----------------------------------------------------------------------------
(* A worker.                                                               *)

\* range jobs ends.
Leave(w) ==
  /\ ~dispatching
  /\ Goto(w, "receive", "left")
  /\ UNCHANGED <<waiting, dispatching, job, err, crawled, marker, report, answer, cancelled>>

\* Once the context is done the channel received is dropped.
Begin(w) ==
  /\ Goto(w, "check", IF Done THEN "left" ELSE "crawl")
  /\ crawled' = IF Done THEN crawled ELSE crawled \cup {job[w]}
  /\ UNCHANGED <<waiting, dispatching, job, err, marker, report, answer, cancelled>>

\* syncChannelMessages returns.  A cancelled crawl returns the context's error.
CrawlEnds(w) ==
  /\ Goto(w, "crawl", "classify")
  /\ \E e \in Errors \cup {"none"} : err' = [err EXCEPT ![w] = e]
  /\ UNCHANGED <<waiting, dispatching, job, crawled, marker, report, answer, cancelled>>

Classified(w, outcome) ==
  /\ Goto(w, "classify", "send")
  /\ err' = [err EXCEPT ![w] = outcome]
  /\ UNCHANGED <<waiting, dispatching, job, crawled, report, answer, cancelled>>

\* skipUnavailableChannel: the marker is written through the pool's context,
\* and the error of that write is ignored.
Skip(w) ==
  /\ err[w] = "access"
  /\ Classified(w, "skipped")
  /\ \/ UNCHANGED marker
     \/ ~Done /\ marker' = [marker EXCEPT ![job[w]] = TRUE]

\* isRetryableSyncError: nothing is retryable once the context is done.
Retryable(w) == err[w] = "transient" /\ ~Done

Defer(w) == Retryable(w) /\ Classified(w, "deferred") /\ UNCHANGED marker

Fail(w) ==
  /\ err[w] \in {"transient", "fatal"} /\ ~Retryable(w)
  /\ Classified(w, "failed") /\ UNCHANGED marker

Cleared(w) == [marker EXCEPT ![job[w]] = FALSE]
Succeed(w, markers) ==
  /\ err[w] = "none" /\ ~Done
  /\ Classified(w, "ok") /\ marker' = markers

SucceedWithoutClearing(w) == Succeed(w, marker) \* fault: an old marker stays
\* The crawl succeeded: clearUnavailableChannel, whose error is fatal.
SucceedAndClear(w) == Succeed(w, Cleared(w))

FailToClear(w) ==
  /\ err[w] = "none"
  /\ Classified(w, "failed") /\ UNCHANGED marker

Classify(w) ==
  Skip(w) \/ Defer(w) \/ Fail(w) \/ SucceedAndClear(w) \/ FailToClear(w)

\* results has room for every channel, so the send never blocks; a worker
\* whose channel failed leaves.
SendWith(w, next) ==
  /\ Goto(w, "send", next)
  /\ report' = [report EXCEPT ![job[w]] = err[w]]
  /\ job' = [job EXCEPT ![w] = NoChannel] /\ err' = [err EXCEPT ![w] = "none"]
  /\ UNCHANGED <<waiting, dispatching, crawled, marker, answer, cancelled>>

SendAlways(w) == SendWith(w, "left") \* fault: the worker leaves with its first result
Send(w) == SendWith(w, IF err[w] = "failed" THEN "left" ELSE "receive")

\* The select may choose ctx.Done instead: the result is lost.
DropResult(w) ==
  /\ Done
  /\ Goto(w, "send", "left")
  /\ UNCHANGED <<waiting, dispatching, job, err, crawled, marker, report, answer, cancelled>>

Worker(w) ==
  \/ HandOut(w) \/ Leave(w) \/ Begin(w) \/ CrawlEnds(w) \/ Classify(w)
  \/ Send(w) \/ DropResult(w)

----------------------------------------------------------------------------
(* The caller.                                                             *)

AnswerOf(reports) ==
  IF \E c \in Channels : reports[c] = "failed" THEN "error"
  ELSE IF \E c \in Channels : reports[c] = "deferred" THEN "partial"
  ELSE "ok"

\* wg.Wait, close(results), and the collector has drained them.
Return ==
  /\ answer = "running"
  /\ \A w \in Workers : pc[w] = "left"
  /\ answer' = AnswerOf(report)
  /\ UNCHANGED <<waiting, dispatching, pc, job, err, crawled, marker, report, cancelled>>

\* The user interrupts the program.
Cancel ==
  /\ ~cancelled /\ cancelled' = TRUE
  /\ UNCHANGED <<waiting, dispatching, pc, job, err, crawled, marker, report, answer>>

Init ==
  /\ waiting = Channels /\ dispatching = TRUE
  /\ pc = [w \in Workers |-> "receive"]
  /\ job = [w \in Workers |-> NoChannel] /\ err = [w \in Workers |-> "none"]
  /\ crawled = {} /\ marker \in [Channels -> BOOLEAN]
  /\ report = [c \in Channels |-> "none"]
  /\ answer = "running" /\ cancelled = FALSE

Next ==
  \/ \E w \in Workers : Worker(w)
  \/ CloseJobs
  \/ Return
  \/ Cancel

\* Go schedules every goroutine; a crawl ends, by the channel deadline if by
\* nothing else.
Spec ==
  /\ Init /\ [][Next]_vars
  /\ \A w \in Workers : WF_vars(Worker(w))
  /\ WF_vars(CloseJobs)
  /\ WF_vars(Return)
----------------------------------------------------------------------------
(* Properties.                                                             *)

\* No two workers are at one channel, and a channel somebody is at has not
\* been reported and will not be handed out again: the progress and the
\* checkpoints of a channel have one writer.
OneWorkerPerChannel ==
  \A w \in Workers : job[w] # NoChannel =>
    /\ job[w] \notin waiting /\ report[job[w]] = "none"
    /\ \A v \in Workers : job[v] = job[w] => v = w

\* A channel reported as crawled has no unavailable marker left, and no
\* channel is reported that was not crawled.
ReportsTrue ==
  \A c \in Channels :
    /\ report[c] = "ok" => ~marker[c]
    /\ report[c] # "none" => c \in crawled

=============================================================================
