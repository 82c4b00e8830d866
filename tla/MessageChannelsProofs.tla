------------------------ MODULE MessageChannelsProofs ------------------------
(***************************************************************************)
(* The crawl of a guild's channels keeps what PoolContract promises and    *)
(* stops in a bounded way, for any number of channels and workers, every   *)
(* mix of errors and a cancel at any moment.                               *)
(*                                                                         *)
(* In the pool, that a worker's channel is its own, and why a worker may   *)
(* have left, is what makes the answer of the collector complete; in the   *)
(* loop, that what is in front of `next` is reported, that what is behind  *)
(* is not, and that a failure is the last thing reported.                  *)
(***************************************************************************)
EXTENDS MessageChannels, FiniteSetTheorems, TLAPS

FailedChannels == {c \in Channels : report[c] = "failed"}

\* The answer is settled by the reports, and none comes after it.
AnswerInv == answer # "running" => (answer = "error" <=> FailedChannels # {})

----------------------------------------------------------------------------
(* The pool, whose inductive invariant is PoolInv and, for the number of   *)
(* failures, BoundInv.                                                     *)

AtChannel == {"check", "crawl", "classify", "send"}
Touched   == {"crawl", "classify", "send"}

\* What a worker has in hand at each place of its loop.
WorkerInv == \A w \in Workers :
  /\ pc[w] \in AtChannel => job[w] # NoChannel
  /\ pc[w] = "receive" => job[w] = NoChannel
  /\ pc[w] \in Touched => job[w] \in crawled
  /\ pc[w] = "classify" => err[w] \in Errors \cup {"none"}
  /\ pc[w] = "send" => err[w] \in Outcomes
  /\ pc[w] = "send" /\ err[w] = "ok" => ~marker[job[w]]

\* A channel is on the list, at a worker, or reported; one that was dropped
\* stays with the worker that left, and that takes a cancel.
At(w, c) == job[w] = c /\ (pc[w] = "left" => cancelled)
WhereInv == \A c \in Channels :
  /\ c \in waiting \/ report[c] # "none" \/ \E w \in Workers : At(w, c)
  /\ c \in waiting => report[c] = "none"

\* Why a worker has left, and why no more channels are handed out.
LeftInv ==
  /\ answer # "running" => \A w \in Workers : pc[w] = "left"
  /\ answer = "running" /\ ~dispatching => waiting = {} \/ cancelled
  /\ answer = "running" => \A w \in Workers : pc[w] = "left" =>
       cancelled \/ ~dispatching \/ \E c \in Channels : report[c] = "failed"

PoolInv == TypeOK /\ OneWorkerPerChannel /\ ReportsTrue /\ WorkerInv /\ WhereInv /\ LeftInv

----------------------------------------------------------------------------
(* One lemma per kind of step.                                             *)

LEMMA PoolInit == Init => PoolInv
<1> SUFFICES ASSUME Init PROVE PoolInv
  OBVIOUS
<1> USE DEF Init
<1>1. TypeOK
  BY DEF TypeOK
<1>2. OneWorkerPerChannel /\ ReportsTrue
  BY DEF OneWorkerPerChannel, ReportsTrue
<1>3. WorkerInv
  BY NoChannelAssumption DEF WorkerInv, AtChannel, Touched
<1>4. WhereInv /\ LeftInv
  BY DEF WhereInv, LeftInv
<1> QED BY <1>1, <1>2, <1>3, <1>4 DEF PoolInv

LEMMA HandOutStep ==
  ASSUME PoolInv, NEW w \in Workers, HandOut(w)
  PROVE  PoolInv'
<1> USE DEF PoolInv
<1>1. PICK c \in waiting : HandOver(w, c) /\ waiting' = waiting \ {c}
  BY DEF HandOut
<1>2. /\ dispatching /\ pc[w] = "receive" /\ pc' = [pc EXCEPT ![w] = "check"]
      /\ job' = [job EXCEPT ![w] = c]
      /\ UNCHANGED <<dispatching, err, crawled, marker, report, answer, cancelled>>
  BY <1>1 DEF HandOver, Goto
<1>3. c \in Channels /\ c # NoChannel /\ job[w] = NoChannel
  BY <1>2, NoChannelAssumption DEF TypeOK, WorkerInv
<1>4. report[c] = "none" /\ \A v \in Workers : job[v] # c
  BY <1>3 DEF OneWorkerPerChannel, WhereInv
<1>5. TypeOK'
  BY <1>1, <1>2, <1>3 DEF TypeOK
<1>6. OneWorkerPerChannel'
  BY <1>1, <1>2, <1>3, <1>4 DEF TypeOK, OneWorkerPerChannel
<1>7. ReportsTrue'
  BY <1>2 DEF ReportsTrue
<1>8. WorkerInv'
  BY <1>2, <1>3 DEF TypeOK, WorkerInv, AtChannel, Touched
<1>9. WhereInv'
  <2> SUFFICES ASSUME NEW d \in Channels
               PROVE  /\ d \in waiting' \/ report'[d] # "none" \/ \E v \in Workers : At(v, d)'
                      /\ d \in waiting' => report'[d] = "none"
    BY DEF WhereInv
  <2>1. CASE d = c
    <3>1. At(w, d)'
      BY <1>2, <2>1 DEF At, TypeOK
    <3> QED BY <1>1, <2>1, <3>1
  <2>2. CASE d # c
    <3>1. \A v \in Workers : At(v, d) => At(v, d)'
      BY <1>2, <1>3, NoChannelAssumption DEF At, TypeOK
    <3> QED BY <1>1, <1>2, <2>2, <3>1 DEF WhereInv
  <2> QED BY <2>1, <2>2
<1>10. LeftInv'
  BY <1>1, <1>2 DEF TypeOK, LeftInv
<1> QED BY <1>5, <1>6, <1>7, <1>8, <1>9, <1>10

\* A step of the worker that leaves the channels and the reports alone.
LEMMA MoveStep ==
  ASSUME PoolInv, NEW w \in Workers, Leave(w) \/ Begin(w) \/ CrawlEnds(w) \/ DropResult(w)
  PROVE  PoolInv'
<1> USE DEF PoolInv
<1>1. /\ UNCHANGED <<waiting, dispatching, job, marker, report, answer, cancelled>>
      /\ pc[w] # "left"
      /\ \E place \in {"left", "crawl", "classify"} : pc' = [pc EXCEPT ![w] = place]
  BY DEF Leave, Begin, CrawlEnds, DropResult, Goto
<1>2. answer = "running"
  BY <1>1 DEF LeftInv
<1>3. /\ pc'[w] = "left" => cancelled \/ (pc[w] = "receive" /\ ~dispatching)
      /\ pc'[w] = "crawl" => pc[w] = "check"
      /\ pc'[w] = "classify" => pc[w] = "crawl" /\ err'[w] \in Errors \cup {"none"}
  BY <1>2 DEF Leave, Begin, CrawlEnds, DropResult, Goto, Done, TypeOK
<1>4. /\ err' \in [Workers -> Errors \cup Outcomes \cup {"none"}]
      /\ \A v \in Workers \ {w} : err'[v] = err[v]
  BY DEF Leave, Begin, CrawlEnds, DropResult, TypeOK
<1>5. /\ crawled \subseteq crawled' /\ crawled' \subseteq Channels
      /\ pc'[w] = "crawl" => job[w] \in crawled'
  <2>1. CASE Begin(w)
    BY <2>1 DEF Begin, Goto, TypeOK, WorkerInv, AtChannel
  <2>2. CASE Leave(w) \/ CrawlEnds(w) \/ DropResult(w)
    BY <2>2 DEF Leave, CrawlEnds, DropResult, Goto, TypeOK
  <2> QED BY <2>1, <2>2
<1>6. TypeOK'
  BY <1>1, <1>4, <1>5 DEF TypeOK
<1>7. OneWorkerPerChannel'
  BY <1>1 DEF OneWorkerPerChannel
<1>8. ReportsTrue'
  BY <1>1, <1>5 DEF ReportsTrue
<1>9. WorkerInv'
  <2> SUFFICES ASSUME NEW v \in Workers PROVE WorkerInv!(v)'
    BY DEF WorkerInv
  <2>1. CASE v = w
    BY <1>1, <1>3, <1>5, <2>1 DEF WorkerInv, AtChannel, Touched, TypeOK
  <2>2. CASE v # w
    BY <1>1, <1>4, <1>5, <2>2 DEF WorkerInv, AtChannel, Touched, TypeOK
  <2> QED BY <2>1, <2>2
<1>10. WhereInv'
  <2>1. \A v \in Workers, c \in Channels : At(v, c) => At(v, c)'
    BY <1>1, <1>3, NoChannelAssumption DEF At, WorkerInv, TypeOK
  <2> QED BY <1>1, <2>1 DEF WhereInv
<1>11. LeftInv'
  BY <1>1, <1>2, <1>3 DEF LeftInv, TypeOK
<1> QED BY <1>6, <1>7, <1>8, <1>9, <1>10, <1>11

LEMMA ClassifyStep ==
  ASSUME PoolInv, NEW w \in Workers, Classify(w)
  PROVE  PoolInv'
<1> USE DEF PoolInv
<1>1. PICK outcome \in Outcomes :
        /\ pc[w] = "classify" /\ pc' = [pc EXCEPT ![w] = "send"]
        /\ err' = [err EXCEPT ![w] = outcome]
        /\ UNCHANGED <<waiting, dispatching, job, crawled, report, answer, cancelled>>
        /\ outcome = "ok" => marker' = [marker EXCEPT ![job[w]] = FALSE]
        /\ \/ marker' = marker
           \/ marker' = [marker EXCEPT ![job[w]] = TRUE]
           \/ marker' = [marker EXCEPT ![job[w]] = FALSE]
  BY DEF Classify, Skip, Defer, Fail, SucceedAndClear, FailToClear, Succeed, Cleared, Classified,
         Goto, Outcomes
<1>2. job[w] \in Channels /\ job[w] \in crawled /\ report[job[w]] = "none"
  BY <1>1 DEF TypeOK, WorkerInv, AtChannel, Touched, OneWorkerPerChannel
<1>3. marker' \in [Channels -> BOOLEAN] /\ \A c \in Channels \ {job[w]} : marker'[c] = marker[c]
  BY <1>1, <1>2 DEF TypeOK
<1>4. TypeOK'
  BY <1>1, <1>3 DEF TypeOK
<1>5. OneWorkerPerChannel'
  BY <1>1 DEF OneWorkerPerChannel
<1>6. ReportsTrue'
  BY <1>1, <1>2, <1>3 DEF ReportsTrue
<1>7. WorkerInv'
  <2> SUFFICES ASSUME NEW v \in Workers PROVE WorkerInv!(v)'
    BY DEF WorkerInv
  <2>1. CASE v = w
    BY <1>1, <1>2, <2>1, NoChannelAssumption DEF WorkerInv, AtChannel, Touched, TypeOK
  <2>2. CASE v # w
    <3>1. job[v] # job[w]
      BY <1>1, <2>2 DEF OneWorkerPerChannel, WorkerInv, AtChannel
    <3>2. pc[v] = "send" => job[v] \in Channels
      BY DEF TypeOK, WorkerInv, AtChannel
    <3> QED BY <1>1, <1>3, <2>2, <3>1, <3>2 DEF WorkerInv, TypeOK
  <2> QED BY <2>1, <2>2
<1>8. WhereInv'
  BY <1>1 DEF WhereInv, At, TypeOK
<1>9. LeftInv'
  BY <1>1 DEF LeftInv, TypeOK
<1> QED BY <1>4, <1>5, <1>6, <1>7, <1>8, <1>9

LEMMA SendStep ==
  ASSUME PoolInv, NEW w \in Workers, Send(w)
  PROVE  PoolInv'
<1> USE DEF PoolInv
<1>1. /\ pc[w] = "send"
      /\ pc' = [pc EXCEPT ![w] = IF err[w] = "failed" THEN "left" ELSE "receive"]
      /\ report' = [report EXCEPT ![job[w]] = err[w]]
      /\ job' = [job EXCEPT ![w] = NoChannel] /\ err' = [err EXCEPT ![w] = "none"]
      /\ UNCHANGED <<waiting, dispatching, crawled, marker, answer, cancelled>>
  BY DEF Send, SendWith, Goto
<1>2. /\ job[w] \in Channels /\ job[w] \in crawled /\ report[job[w]] = "none"
      /\ err[w] \in Outcomes /\ (err[w] = "ok" => ~marker[job[w]])
  BY <1>1 DEF TypeOK, WorkerInv, AtChannel, Touched, OneWorkerPerChannel
<1>3. \A v \in Workers : v # w => job[v] # job[w]
  BY <1>1, <1>2, NoChannelAssumption DEF OneWorkerPerChannel, WorkerInv, AtChannel
<1>4. TypeOK'
  BY <1>1, <1>2 DEF TypeOK
<1>5. OneWorkerPerChannel'
  BY <1>1, <1>2, <1>3 DEF TypeOK, OneWorkerPerChannel
<1>6. ReportsTrue'
  BY <1>1, <1>2 DEF TypeOK, ReportsTrue
<1>7. WorkerInv'
  BY <1>1 DEF TypeOK, WorkerInv, AtChannel, Touched
<1>8. WhereInv'
  <2> SUFFICES ASSUME NEW c \in Channels PROVE WhereInv!(c)'
    BY DEF WhereInv
  <2>1. CASE c = job[w]
    BY <1>1, <1>2, <2>1, NoChannelAssumption DEF TypeOK, Outcomes, OneWorkerPerChannel
  <2>2. CASE c # job[w]
    BY <1>1, <1>2, <2>2, NoChannelAssumption DEF TypeOK, WhereInv, At
  <2> QED BY <2>1, <2>2
<1>9. LeftInv'
  <2>1. answer = "running"
    BY <1>1 DEF LeftInv
  <2>2. \A c \in Channels : report[c] = "failed" => report'[c] = "failed"
    BY <1>1, <1>2 DEF TypeOK
  <2>3. err[w] = "failed" => report'[job[w]] = "failed"
    BY <1>1, <1>2 DEF TypeOK
  <2> QED BY <1>1, <1>2, <2>1, <2>2, <2>3 DEF LeftInv, TypeOK
<1> QED BY <1>4, <1>5, <1>6, <1>7, <1>8, <1>9

\* The dispatcher, the caller, and the user.
LEMMA PoolStep ==
  ASSUME PoolInv, CloseJobs \/ Return \/ Cancel
  PROVE  PoolInv'
<1> USE DEF PoolInv
<1>1. UNCHANGED <<waiting, pc, job, err, crawled, marker, report>>
  BY DEF CloseJobs, StopDispatching, Return, Cancel
<1>2. /\ dispatching' \in BOOLEAN /\ cancelled' \in BOOLEAN
      /\ answer' \in {"running", "ok", "partial", "error"}
  BY DEF CloseJobs, StopDispatching, Return, Cancel, AnswerOf, TypeOK
<1>3. TypeOK'
  BY <1>1, <1>2 DEF TypeOK
<1>4. OneWorkerPerChannel' /\ ReportsTrue' /\ WorkerInv'
  BY <1>1 DEF OneWorkerPerChannel, ReportsTrue, WorkerInv
<1>5. cancelled => cancelled'
  BY DEF CloseJobs, StopDispatching, Return, Cancel
<1>6. WhereInv'
  BY <1>1, <1>5 DEF WhereInv, At
<1>7. LeftInv'
  BY <1>1 DEF LeftInv, CloseJobs, StopDispatching, Return, Cancel, Done, TypeOK
<1> QED BY <1>3, <1>4, <1>6, <1>7

LEMMA PoolInvStep == PoolInv /\ [Next]_vars => PoolInv'
<1> SUFFICES ASSUME PoolInv, [Next]_vars PROVE PoolInv'
  OBVIOUS
<1>1. CASE \E w \in Workers : Worker(w)
  BY <1>1, HandOutStep, MoveStep, ClassifyStep, SendStep DEF Worker
<1>2. CASE CloseJobs \/ Return \/ Cancel
  BY <1>2, PoolStep
<1>3. CASE UNCHANGED vars
  BY <1>3 DEF vars, PoolInv, TypeOK, OneWorkerPerChannel, ReportsTrue, WorkerInv, WhereInv, LeftInv, At
<1> QED BY <1>1, <1>2, <1>3 DEF Next

\* Each failure takes a worker away, so there are no more than workers.
Active == {w \in Workers : pc[w] # "left"}
BoundInv ==
  /\ Cardinality(FailedChannels) + Cardinality(Active) =< Cardinality(Workers)
  /\ AnswerInv

LEMMA Finite ==
  /\ IsFiniteSet(FailedChannels) /\ Cardinality(FailedChannels) \in Nat
  /\ IsFiniteSet(Active) /\ Cardinality(Active) \in Nat
  /\ IsFiniteSet(Workers) /\ Cardinality(Workers) \in Nat
<1>1. FailedChannels \subseteq Channels /\ Active \subseteq Workers
  BY DEF FailedChannels, Active
<1> QED BY <1>1, FS_Subset, FS_CardinalityType, WorkersAssumption, ChannelsAssumption

LEMMA BoundInit == Init => BoundInv
<1> SUFFICES ASSUME Init PROVE BoundInv
  OBVIOUS
<1>1. FailedChannels = {} /\ Active = Workers
  BY DEF Init, FailedChannels, Active
<1> QED BY <1>1, Finite, FS_EmptySet DEF BoundInv, AnswerInv, Init

LEMMA BoundStep ==
  ASSUME PoolInv, BoundInv, [Next]_vars
  PROVE  BoundInv'
<1>1. ASSUME NEW w \in Workers, Send(w)
      PROVE  BoundInv'
  <2>1. /\ pc[w] = "send"
        /\ pc' = [pc EXCEPT ![w] = IF err[w] = "failed" THEN "left" ELSE "receive"]
        /\ report' = [report EXCEPT ![job[w]] = err[w]]
        /\ UNCHANGED answer
    BY <1>1 DEF Send, SendWith, Goto
  <2>2. job[w] \in Channels /\ report[job[w]] = "none"
    BY <2>1 DEF PoolInv, TypeOK, WorkerInv, AtChannel, OneWorkerPerChannel
  <2>3. AnswerInv'
    BY <2>1 DEF PoolInv, LeftInv, AnswerInv
  <2>4. pc \in [Workers -> {"receive", "check", "crawl", "classify", "send", "left"}]
        /\ report \in [Channels -> Outcomes \cup {"none"}]
    BY DEF PoolInv, TypeOK
  <2>5. CASE err[w] = "failed"
    <3>1. FailedChannels' = FailedChannels \cup {job[w]} /\ job[w] \notin FailedChannels
      BY <2>1, <2>2, <2>4, <2>5 DEF FailedChannels
    <3>2. Active' = Active \ {w} /\ w \in Active
      BY <2>1, <2>4, <2>5 DEF Active
    <3>3. Cardinality(FailedChannels') = Cardinality(FailedChannels) + 1
      BY <3>1, Finite, FS_AddElement
    <3>4. Cardinality(Active') = Cardinality(Active) - 1
      BY <3>2, Finite, FS_RemoveElement
    <3> QED BY <2>3, <3>3, <3>4, Finite DEF BoundInv
  <2>6. CASE err[w] # "failed"
    <3>1. FailedChannels' = FailedChannels
      BY <2>1, <2>2, <2>4, <2>6 DEF FailedChannels
    <3>2. Active' = Active
      BY <2>1, <2>4, <2>6 DEF Active
    <3> QED BY <2>3, <3>1, <3>2 DEF BoundInv
  <2> QED BY <2>5, <2>6
<1>2. ASSUME UNCHANGED report, Active' \subseteq Active,
             \/ UNCHANGED answer
             \/ answer' = AnswerOf(report)
      PROVE  BoundInv'
  <2>1. FailedChannels' = FailedChannels
    BY <1>2 DEF FailedChannels
  <2>2. Cardinality(Active') =< Cardinality(Active) /\ Cardinality(Active') \in Nat
    BY <1>2, Finite, FS_Subset, FS_CardinalityType
  <2>3. AnswerInv'
    BY <1>2, <2>1 DEF BoundInv, AnswerInv, AnswerOf, FailedChannels
  <2> QED BY <2>1, <2>2, <2>3, Finite DEF BoundInv
<1>3. ASSUME NEW w \in Workers,
             HandOut(w) \/ Leave(w) \/ Begin(w) \/ CrawlEnds(w) \/ Classify(w) \/ DropResult(w)
      PROVE  BoundInv'
  <2>1. UNCHANGED <<report, answer>>
        /\ pc[w] # "left"
        /\ \E place \in {"check", "left", "crawl", "classify", "send"} : pc' = [pc EXCEPT ![w] = place]
    BY <1>3 DEF HandOut, HandOver, Leave, Begin, CrawlEnds, DropResult, Classify, Skip, Defer,
                Fail, SucceedAndClear, FailToClear, Succeed, Classified, Goto
  <2>2. Active' \subseteq Active
    BY <2>1 DEF Active, PoolInv, TypeOK
  <2> QED BY <1>2, <2>1, <2>2
<1>4. CASE CloseJobs \/ Return \/ Cancel \/ UNCHANGED vars
  <2>1. UNCHANGED <<report, pc>> /\ (UNCHANGED answer \/ answer' = AnswerOf(report))
    BY <1>4 DEF CloseJobs, StopDispatching, Return, Cancel, vars
  <2> QED BY <1>2, <2>1 DEF Active
<1> QED BY <1>1, <1>3, <1>4 DEF Next, Worker

----------------------------------------------------------------------------
(* The loop, whose inductive invariant is LoopInv.                         *)

FrontInv ==
  /\ \A i \in DOMAIN Order : report[Order[i]] = "none" <=> next =< i
  /\ \A i \in DOMAIN Order : report[Order[i]] = "failed" => next = i + 1

\* What the loop reports as crawled has its marker cleared.
ClearedInv == \A c \in Channels : report[c] = "ok" => ~marker[c]

LoopInv == SerialTypeOK /\ FrontInv /\ ClearedInv /\ AnswerInv

----------------------------------------------------------------------------

\* Channels and indices stand for each other.
LEMMA Indices ==
  /\ Len(Order) \in Nat /\ DOMAIN Order = 1..Len(Order)
  /\ \A i \in DOMAIN Order : Order[i] \in Channels
  /\ \A i, j \in DOMAIN Order : Order[i] = Order[j] => i = j
  /\ \A c \in Channels : \E i \in DOMAIN Order : Order[i] = c
BY OrderAssumption

LEMMA LoopInit == SerialInit => LoopInv
<1> SUFFICES ASSUME SerialInit PROVE LoopInv
  OBVIOUS
<1>1. SerialTypeOK
  <2>1. next \in 1..(Len(Order) + 1)
    BY Indices DEF SerialInit
  <2> QED BY <2>1, Zenon DEF SerialInit, SerialTypeOK
<1>2. FrontInv
  BY Indices DEF SerialInit, FrontInv
<1>3. ClearedInv /\ AnswerInv
  BY DEF SerialInit, ClearedInv, AnswerInv
<1> QED BY <1>1, <1>2, <1>3 DEF LoopInv

\* A round reports its channel, and it is the only one.
LEMMA RoundStep ==
  ASSUME LoopInv, NEW outcome \in Outcomes, EndRound(outcome), marker' \in [Channels -> BOOLEAN],
         \A c \in Channels \ {Channel} : marker'[c] = marker[c],
         outcome = "ok" => ~marker'[Channel]
  PROVE  LoopInv'
<1> USE DEF LoopInv
<1>1. /\ next \in DOMAIN Order /\ next \in Nat /\ ~Failed /\ next' = next + 1
      /\ report' = [report EXCEPT ![Channel] = outcome]
      /\ UNCHANGED <<answer, cancelled>>
  BY Indices DEF EndRound, Looping, SerialTypeOK
<1>2. Channel \in Channels /\ \A i \in DOMAIN Order : Order[i] = Channel => i = next
  BY <1>1, Indices DEF Channel
<1>3. SerialTypeOK'
  BY <1>1, <1>2, Indices DEF SerialTypeOK, Outcomes
<1>4. ASSUME NEW i \in DOMAIN Order
      PROVE  /\ report'[Order[i]] = "none" <=> next' =< i
             /\ report'[Order[i]] = "failed" => next' = i + 1
  <2>1. CASE i = next
    BY <1>1, <1>2, <2>1, Indices DEF SerialTypeOK, Outcomes, Channel
  <2>2. CASE i # next
    <3>1. report'[Order[i]] = report[Order[i]] /\ report[Order[i]] # "failed" /\ i \in Nat
      BY <1>1, <1>2, <2>2, Indices DEF SerialTypeOK, Failed
    <3> QED BY <1>1, <2>2, <3>1 DEF FrontInv
  <2> QED BY <2>1, <2>2
<1>5. FrontInv'
  BY <1>4 DEF FrontInv
<1>6. ClearedInv'
  BY <1>1, <1>2 DEF ClearedInv, SerialTypeOK
<1>7. AnswerInv'
  BY <1>1 DEF AnswerInv, EndRound, Looping
<1> QED BY <1>3, <1>5, <1>6, <1>7

LEMMA LoopInvStep == LoopInv /\ [SerialNext]_serialVars => LoopInv'
<1> SUFFICES ASSUME LoopInv, [SerialNext]_serialVars PROVE LoopInv'
  OBVIOUS
<1>1. CASE SerialSucceed \/ SerialSkip \/ SerialDefer \/ SerialFail
  <2>1. PICK outcome \in Outcomes :
          /\ EndRound(outcome)
          /\ outcome # "ok" => marker' = marker \/ marker' = [marker EXCEPT ![Channel] = TRUE]
          /\ outcome = "ok" => marker' = [marker EXCEPT ![Channel] = FALSE]
    BY <1>1 DEF SerialSucceed, SerialSkip, SerialDefer, SerialFail, Outcomes
  <2>2. marker \in [Channels -> BOOLEAN] /\ Channel \in Channels
    BY <2>1, Indices DEF LoopInv, SerialTypeOK, EndRound, Looping, Channel
  <2>3. /\ marker' \in [Channels -> BOOLEAN] /\ \A c \in Channels \ {Channel} : marker'[c] = marker[c]
        /\ outcome = "ok" => ~marker'[Channel]
    BY <2>1, <2>2
  <2> QED BY <2>1, <2>3, RoundStep
<1>2. CASE SerialReturn \/ SerialCancel
  <2>1. UNCHANGED <<next, marker, report>> /\ cancelled' \in BOOLEAN
        /\ answer' \in {"running", "ok", "partial", "error"}
    BY <1>2 DEF LoopInv, SerialTypeOK, SerialReturn, SerialCancel
  <2>2. AnswerInv'
    BY <1>2 DEF LoopInv, AnswerInv, FailedChannels, Failed, SerialReturn, SerialCancel
  <2> QED BY <2>1, <2>2 DEF LoopInv, SerialTypeOK, FrontInv, ClearedInv
<1>3. CASE UNCHANGED serialVars
  BY <1>3 DEF LoopInv, SerialTypeOK, FrontInv, ClearedInv, AnswerInv, FailedChannels, serialVars
<1> QED BY <1>1, <1>2, <1>3 DEF SerialNext, SerialStep

----------------------------------------------------------------------------
(* The call.                                                               *)

\* The loop starts no goroutine, and what it reports it has crawled.
NoPool ==
  /\ waiting = Channels /\ dispatching = TRUE
  /\ pc = [w \in Workers |-> "receive"]
  /\ job = [w \in Workers |-> NoChannel] /\ err = [w \in Workers |-> "none"]
  /\ crawled = {c \in Channels : report[c] # "none"}

CallInv ==
  /\ concurrent => PoolInv /\ BoundInv
  /\ ~concurrent => LoopInv /\ NoPool

LEMMA CallInvInit == CallInit => CallInv
<1> SUFFICES ASSUME CallInit PROVE CallInv
  OBVIOUS
<1>1. PoolInv /\ BoundInv
  BY PoolInit, BoundInit DEF CallInit
<1>2. LoopInv
  <2>1. SerialInit
    BY DEF CallInit, Init, SerialInit
  <2> QED BY <2>1, LoopInit
<1>3. NoPool
  BY DEF CallInit, Init, NoPool
<1> QED BY <1>1, <1>2, <1>3 DEF CallInv

LEMMA CallInvStep == CallInv /\ [CallNext]_callVars => CallInv'
<1> SUFFICES ASSUME CallInv, [CallNext]_callVars PROVE CallInv'
  OBVIOUS
<1>1. CASE ByPool
  BY <1>1, PoolInvStep, BoundStep DEF CallInv, ByPool
<1>2. CASE BySerial
  <2>1. LoopInv'
    BY <1>2, LoopInvStep DEF CallInv, BySerial
  <2>2. NoPool'
    BY <1>2 DEF CallInv, BySerial, NoPool, poolVars
  <2> QED BY <1>2, <2>1, <2>2 DEF CallInv, BySerial
<1>3. CASE UNCHANGED callVars
  <2>1. UNCHANGED <<vars, next, concurrent>>
    BY <1>3 DEF callVars
  <2>2. PoolInv' <=> PoolInv
    BY <2>1 DEF vars, PoolInv, TypeOK, OneWorkerPerChannel, ReportsTrue, WorkerInv, WhereInv, LeftInv, At
  <2>3. BoundInv' <=> BoundInv
    BY <2>1 DEF vars, BoundInv, AnswerInv, FailedChannels, Active
  <2>4. LoopInv' <=> LoopInv
    BY <2>1 DEF vars, LoopInv, SerialTypeOK, FrontInv, ClearedInv, AnswerInv, FailedChannels
  <2>5. NoPool' <=> NoPool
    BY <2>1 DEF vars, NoPool
  <2> QED BY <2>1, <2>2, <2>3, <2>4, <2>5 DEF CallInv
<1> QED BY <1>1, <1>2, <1>3 DEF CallNext

LEMMA CallInvAlways == CallSpec => []CallInv
BY CallInvInit, CallInvStep, PTL DEF CallSpec

----------------------------------------------------------------------------
(* Theorems.                                                               *)

\* message_sync.go:13-37, 107-209: the call keeps its types.
THEOREM TypeCorrect == CallSpec => []TypeOK
<1>1. CallInv => TypeOK
  <2>1. CASE concurrent
    BY <2>1 DEF CallInv, PoolInv
  <2>2. CASE ~concurrent
    BY <2>2 DEF CallInv, LoopInv, NoPool, SerialTypeOK, TypeOK, Outcomes
  <2> QED BY <2>1, <2>2
<1> QED BY <1>1, CallInvAlways, PTL

\* message_sync.go:131-182: a channel is crawled by one worker, once.
THEOREM OneWorker == CallSpec => []OneWorkerPerChannel
<1>1. CallInv => OneWorkerPerChannel
  BY DEF CallInv, PoolInv, NoPool, OneWorkerPerChannel
<1> QED BY <1>1, CallInvAlways, PTL

\* message_sync.go:80-103, 143-168, 211-216: only what was crawled is
\* reported, and a success has cleared the marker.
THEOREM ReportsAreTrue == CallSpec => []ReportsTrue
<1>1. CallInv => ReportsTrue
  BY DEF CallInv, PoolInv, LoopInv, NoPool, ClearedInv, ReportsTrue
<1> QED BY <1>1, CallInvAlways, PTL

\* message_sync.go:97-101: the loop touches no channel behind one that failed.
LEMMA StopsHard == LoopInv => NothingAfterFailure
BY Indices DEF LoopInv, SerialTypeOK, FrontInv, NothingAfterFailure

\* message_sync.go:97-101, 163-168, 189-208: behind a failure the loop touches
\* nothing, and the pool loses a worker for each; the answer is an error if and
\* only if a channel failed.
THEOREM FailureStops == CallSpec => []StopsOnFailure
<1>1. CallInv => StopsOnFailure
  <2> SUFFICES ASSUME CallInv PROVE StopsOnFailure
    OBVIOUS
  <2>1. LoopStopsHard
    BY StopsHard DEF CallInv, LoopStopsHard
  <2>2. answer # "running" => (answer = "error" <=> FailedChannels # {})
    BY DEF CallInv, BoundInv, LoopInv, AnswerInv
  <2>3. concurrent => Cardinality(FailedChannels) =< Cardinality(Workers)
    BY Finite DEF CallInv, BoundInv
  <2>4. ~concurrent => Cardinality(FailedChannels) =< 1
    <3> SUFFICES ASSUME ~concurrent PROVE Cardinality(FailedChannels) =< 1
      OBVIOUS
    <3>1. \A c, d \in FailedChannels : c = d
      <4> SUFFICES ASSUME NEW c \in FailedChannels, NEW d \in FailedChannels PROVE c = d
        OBVIOUS
      <4>1. PICK i \in DOMAIN Order : Order[i] = c
        BY Indices DEF FailedChannels
      <4>2. PICK j \in DOMAIN Order : Order[j] = d
        BY Indices DEF FailedChannels
      <4>3. next = i + 1 /\ next = j + 1 /\ i \in Nat /\ j \in Nat
        BY <4>1, <4>2, Indices DEF FailedChannels, CallInv, LoopInv, FrontInv
      <4>4. i = j
        BY <4>3
      <4> QED BY <4>1, <4>2, <4>4
    <3>2. CASE FailedChannels = {}
      BY <3>2, FS_EmptySet
    <3>3. ASSUME NEW c \in FailedChannels PROVE Cardinality(FailedChannels) =< 1
      <4>1. FailedChannels = {c}
        BY <3>1
      <4>2. Cardinality({c}) = 1
        BY FS_Singleton
      <4> QED BY <4>1, <4>2
    <3> QED BY <3>2, <3>3
  <2> QED BY <2>1, <2>2, <2>3, <2>4 DEF StopsOnFailure, FailuresBounded, FailedChannels
<1> QED BY <1>1, CallInvAlways, PTL

\* An answer leaves channels out only after a failure or a cancel.
LEMMA ReturnIsDue ==
  ASSUME PoolInv, Return
  PROVE  \/ cancelled
         \/ \E c \in Channels : report[c] = "failed"
         \/ \A c \in Channels : report[c] # "none"
<1> SUFFICES ASSUME ~cancelled, \A c \in Channels : report[c] # "failed",
                    NEW c \in Channels, report[c] = "none"
             PROVE  FALSE
  OBVIOUS
<1>1. answer = "running" /\ \A w \in Workers : pc[w] = "left"
  BY DEF Return
<1>2. ~dispatching
  BY <1>1, WorkersAssumption DEF PoolInv, LeftInv
<1>3. waiting = {}
  BY <1>1, <1>2 DEF PoolInv, LeftInv
<1> QED BY <1>1, <1>3 DEF PoolInv, WhereInv, At


\* Every step of the pool reports one channel, returns the sum of the reports
\* when that is due, cancels, or is not seen.
LEMMA PoolStepKept ==
  ASSUME PoolInv, [Next]_vars
  PROVE  [Contract!Next]_(Contract!vars)
<1> USE DEF Contract!vars
<1>1. ASSUME NEW w \in Workers, Worker(w) PROVE [Contract!Next]_(Contract!vars)
  <2>1. CASE Send(w)
    <3>1. /\ pc[w] = "send" /\ report' = [report EXCEPT ![job[w]] = err[w]]
          /\ UNCHANGED <<answer, cancelled>>
      BY <2>1 DEF Send, SendWith, Goto
    <3>2. job[w] \in Channels /\ report[job[w]] = "none" /\ err[w] \in Contract!Outcomes
      BY <3>1 DEF PoolInv, TypeOK, WorkerInv, AtChannel, OneWorkerPerChannel,
                        Outcomes, Contract!Outcomes
    <3>3. answer = "running"
      BY <3>1 DEF PoolInv, LeftInv
    <3>4. Contract!Report(job[w], err[w])
      BY <3>1, <3>2, <3>3 DEF Contract!Report
    <3> QED BY <3>2, <3>4 DEF Contract!Next
  <2>2. CASE HandOut(w) \/ Leave(w) \/ Begin(w) \/ CrawlEnds(w) \/ Classify(w) \/ DropResult(w)
    BY <2>2 DEF HandOut, HandOver, Leave, Begin, CrawlEnds, DropResult, Classify, Skip, Defer,
                Fail, SucceedAndClear, FailToClear, Succeed, Classified
  <2> QED BY <1>1, <2>1, <2>2 DEF Worker
<1>2. CASE CloseJobs
  BY <1>2 DEF CloseJobs, StopDispatching
<1>3. CASE Return
  <2>1. Contract!Return
    BY <1>3, ReturnIsDue DEF Return, AnswerOf, Contract!Return, Contract!AnswerOf
  <2> QED BY <2>1 DEF Contract!Next
<1>4. CASE Cancel
  BY <1>4 DEF Cancel, Contract!Cancel, Contract!Next
<1>5. CASE UNCHANGED vars
  BY <1>5 DEF vars
<1> QED BY <1>1, <1>2, <1>3, <1>4, <1>5 DEF Next

LEMMA LoopStepKept ==
  ASSUME LoopInv, [SerialNext]_serialVars
  PROVE  [Contract!Next]_(Contract!vars)
<1>1. CASE SerialSucceed \/ SerialSkip \/ SerialDefer \/ SerialFail
  <2>1. PICK outcome \in Contract!Outcomes : EndRound(outcome)
    BY <1>1 DEF SerialSucceed, SerialSkip, SerialDefer, SerialFail, Contract!Outcomes
  <2>2. Channel \in Channels /\ report[Channel] = "none"
    BY <2>1, Indices DEF LoopInv, SerialTypeOK, FrontInv, EndRound, Looping, Channel
  <2>3. Contract!Report(Channel, outcome)
    BY <2>1, <2>2 DEF EndRound, Looping, Contract!Report
  <2> QED BY <2>2, <2>3 DEF Contract!Next
<1>2. CASE SerialReturn
  <2>1. answer = "running" /\ ~Looping /\ UNCHANGED <<report, cancelled>>
    BY <1>2 DEF SerialReturn
  <2>2. Failed \/ \A c \in Channels : report[c] # "none"
    BY <2>1, Indices DEF LoopInv, SerialTypeOK, FrontInv, Looping
  <2>3. answer' = Contract!AnswerOf(report)
    BY <1>2 DEF SerialReturn, Failed, Contract!AnswerOf
  <2>4. Contract!Return
    BY <2>1, <2>2, <2>3 DEF Failed, Contract!Return
  <2> QED BY <2>4 DEF Contract!Next
<1>3. CASE SerialCancel
  BY <1>3 DEF SerialCancel, Contract!Cancel, Contract!Next
<1>4. CASE UNCHANGED serialVars
  BY <1>4 DEF serialVars, Contract!vars
<1> QED BY <1>1, <1>2, <1>3, <1>4 DEF SerialNext, SerialStep

\* message_sync.go:13-209 implements what syncGuild is promised of
\* syncMessageChannels, whichever way the channels are crawled.
THEOREM CallKeepsContract == CallSpec => KeepsContract
<1>1. CallInit => Contract!Init
  BY DEF CallInit, Init, Contract!Init
<1>2. ASSUME CallInv, [CallNext]_callVars PROVE [Contract!Next]_(Contract!vars)
  <2>1. CASE ByPool
    BY <1>2, <2>1, PoolStepKept DEF ByPool, CallInv
  <2>2. CASE BySerial
    BY <1>2, <2>2, LoopStepKept DEF BySerial, CallInv
  <2>3. CASE UNCHANGED callVars
    BY <2>3 DEF callVars, vars, Contract!vars
  <2> QED BY <1>2, <2>1, <2>2, <2>3 DEF CallNext
<1> QED BY <1>1, <1>2, CallInvAlways, PTL DEF CallSpec, KeepsContract, Contract!Spec

=============================================================================
