-------------------------- MODULE MessageChannels --------------------------
(***************************************************************************)
(* syncMessageChannels (internal/syncer/message_sync.go): the crawl of the *)
(* channels of a guild, by the pool of ChannelPool or, when --concurrency  *)
(* is 1 or less, by the loop of ChannelSerial.                             *)
(***************************************************************************)
EXTENDS ChannelPool, ChannelSerial

VARIABLE concurrent   \* opts.Concurrency > 1

poolVars == <<waiting, dispatching, pc, job, err>>
callVars == <<concurrent, next, vars>>

CallInit == concurrent \in BOOLEAN /\ Init /\ next = 1

ByPool == concurrent /\ Next /\ UNCHANGED <<concurrent, next>>

\* The loop starts no goroutine; what it reports it has crawled.
BySerial ==
  /\ ~concurrent /\ SerialNext
  /\ crawled' = {c \in Channels : report'[c] # "none"}
  /\ UNCHANGED <<concurrent, poolVars>>

CallNext == ByPool \/ BySerial

\* As for the pool and the loop: whatever can go on does, except that nobody
\* has to interrupt the program.
CallSpec ==
  /\ CallInit /\ [][CallNext]_callVars
  /\ \A w \in Workers : WF_callVars(ByPool /\ Worker(w))
  /\ WF_callVars(ByPool /\ CloseJobs)
  /\ WF_callVars(ByPool /\ Return)
  /\ WF_callVars(BySerial /\ SerialStep)

----------------------------------------------------------------------------
(* Properties.                                                             *)

\* The loop stops hard: behind a failed channel it touches none, and so a
\* token that was revoked is not used again.  The pool does not: see
\* FailuresBounded.
LoopStopsHard == ~concurrent => NothingAfterFailure

\* In the pool a failure takes its worker away, not the others: there is at
\* most one failed channel for each worker, and the answer is an error if and
\* only if there is one.
FailuresBounded ==
  LET failed == {c \in Channels : report[c] = "failed"}
  IN /\ Cardinality(failed) =< (IF concurrent THEN Cardinality(Workers) ELSE 1)
     /\ answer # "running" => (answer = "error" <=> failed # {})

\* When a channel fails the call stops in a bounded way, and orderly.
StopsOnFailure == LoopStopsHard /\ FailuresBounded

\* The call returns, and by then no goroutine of it is left behind: neither a
\* worker nor the dispatcher, blocked on a channel nobody serves.
LeavesNoOne ==
  <>[](/\ answer # "running"
       /\ concurrent => ~dispatching /\ \A w \in Workers : pc[w] = "left")

=============================================================================
