----------------------------- MODULE EmbedQueue -----------------------------
(***************************************************************************)
(* The embedding queue: the table embedding_jobs, filled by upsertMessageTx *)
(* (internal/store/write.go), and the workers of internal/embedder/        *)
(* worker.go that `embed run` starts, possibly several of them in several  *)
(* processes at one database.                                              *)
(*                                                                         *)
(* Every database statement is one step and the transaction of claimJobs   *)
(* is one; between any two of them other workers run, time passes, and the *)
(* process can be killed.  Nothing is left in the database then but the    *)
(* jobs in state `processing`, which a later claim recovers once they are  *)
(* older than staleProcessingAfter.                                        *)
(***************************************************************************)
EXTENDS Integers, FiniteSets

CONSTANTS
  Messages,      \* ids of the messages, in the order of message_id
  Workers,       \* runs of RunAll
  BatchSize,
  StaleAfter,    \* staleProcessingAfter, in ticks of the clock
  MaxInterrupts  \* bound: how many runs are killed or lose the database

ASSUME MessagesAssumption  == IsFiniteSet(Messages) /\ Messages \subseteq Nat
ASSUME BatchSizeAssumption == BatchSize \in Nat \ {0}
ASSUME ClockAssumption     == StaleAfter \in Nat
ASSUME InterruptAssumption == MaxInterrupts \in Nat

VARIABLES
  state,      \* embedding_jobs.state, "none" before the row exists
  attempts,   \* embedding_jobs.attempts, counted up to MaxAttempts
  age,        \* time since updated_at, of the jobs that are being processed
  vector,     \* message_embeddings has a row
  pc,         \* where each run is
  batch,      \* the jobs it has claimed and not finished
  failed,     \* a job of its batch has failed
  lease,      \* time since its claim
  overran,    \* history: some run held its batch for longer than StaleAfter
  tries,      \* history: how often each job was claimed, up to MaxAttempts
  interrupts

jobs  == <<state, attempts, age, vector>>
runs  == <<pc, batch, failed, lease>>
vars  == <<jobs, runs, overran, tries, interrupts>>

\* The `3` of failJob; the counter is not looked at beyond it.
MaxAttempts == 3
\* Time is not looked at beyond the lease either.
TooOld == StaleAfter + 1
CountUp(n, limit) == IF n < limit THEN n + 1 ELSE limit

TypeOK ==
  /\ state \in [Messages -> {"none", "pending", "processing", "done", "failed"}]
  /\ attempts \in [Messages -> 0..MaxAttempts]
  /\ age \in [Messages -> 0..TooOld]
  /\ vector \in [Messages -> BOOLEAN]
  /\ pc \in [Workers -> {"idle", "claim", "embed", "store", "mark", "release"}]
  /\ batch \in [Workers -> SUBSET Messages]
  /\ failed \in [Workers -> BOOLEAN]
  /\ lease \in [Workers -> 0..TooOld]
  /\ overran \in BOOLEAN
  /\ tries \in [Messages -> 0..MaxAttempts]
  /\ interrupts \in 0..MaxInterrupts

Init ==
  /\ state = [m \in Messages |-> "none"]
  /\ attempts = [m \in Messages |-> 0]
  /\ age = [m \in Messages |-> 0]
  /\ vector = [m \in Messages |-> FALSE]
  /\ pc = [w \in Workers |-> "idle"]
  /\ batch = [w \in Workers |-> {}]
  /\ failed = [w \in Workers |-> FALSE]
  /\ lease = [w \in Workers |-> 0]
  /\ overran = FALSE
  /\ tries = [m \in Messages |-> 0]
  /\ interrupts = 0

-----------------------------------------------------------------------------
(* The rows *)

\* upsertMessageTx with EnqueueEmbedding: an existing job is left as it is,
\* so a message that is written again changes nothing here.
Enqueue(m) ==
  /\ state[m] = "none"
  /\ state' = [state EXCEPT ![m] = "pending"]
  /\ UNCHANGED <<attempts, age, vector, runs, overran, tries, interrupts>>

Pending == {m \in Messages : state[m] = "pending"}
Stale   == {m \in Messages : state[m] = "processing" /\ age[m] > StaleAfter}

\* order by message_id limit batchSize
Batch(S) == {m \in S : Cardinality({n \in S : n < m}) < BatchSize}

\* The transaction of claimJobs: what is stale becomes pending, counts an
\* attempt, and may be claimed again at once.
ClaimAfter(w, stale) ==
  LET claimed == Batch(Pending \cup stale)
      State(m) == IF m \in claimed THEN "processing"
                  ELSE IF m \in stale THEN "pending" ELSE state[m]
  IN
  /\ pc[w] = "claim" /\ claimed # {}
  /\ state' = [m \in Messages |-> State(m)]
  /\ attempts' = [m \in Messages |-> IF m \in stale THEN CountUp(attempts[m], MaxAttempts)
                                                    ELSE attempts[m]]
  /\ age' = [m \in Messages |-> IF m \in claimed \cup stale THEN 0 ELSE age[m]]
  /\ tries' = [m \in Messages |-> IF m \in claimed THEN CountUp(tries[m], MaxAttempts)
                                                   ELSE tries[m]]
  /\ pc' = [pc EXCEPT ![w] = "embed"]
  /\ batch' = [batch EXCEPT ![w] = claimed]
  /\ lease' = [lease EXCEPT ![w] = 0]
  /\ UNCHANGED <<vector, failed, overran, interrupts>>

\* Two variants: a claim that takes every running job for stale, and one
\* that recovers none.
ClaimAnyProcessing(w) == ClaimAfter(w, {m \in Messages : state[m] = "processing"})
ClaimNothingStale(w)  == ClaimAfter(w, {})

Claim(w) == ClaimAfter(w, Stale)

-----------------------------------------------------------------------------
(* One run of RunAll *)

Current(w) == CHOOSE m \in batch[w] : \A n \in batch[w] : m <= n

Start(w) ==
  /\ pc[w] = "idle"
  /\ pc' = [pc EXCEPT ![w] = "claim"]
  /\ UNCHANGED <<jobs, batch, failed, lease, overran, tries, interrupts>>

\* RunOnce, and RunAll with it, returns; the jobs not finished stay behind.
Return(w) ==
  /\ pc' = [pc EXCEPT ![w] = "idle"]
  /\ batch' = [batch EXCEPT ![w] = {}]
  /\ failed' = [failed EXCEPT ![w] = FALSE]
  /\ lease' = [lease EXCEPT ![w] = 0]

\* RunOnce answers 0 without an error.
Drained(w) ==
  /\ pc[w] = "claim" /\ Pending \cup Stale = {}
  /\ Return(w)
  /\ UNCHANGED <<jobs, overran, tries, interrupts>>

Goto(w, next) == pc' = [pc EXCEPT ![w] = next] /\ UNCHANGED <<batch, failed, lease>>

\* A variant in which the job is marked before its vector is stored.
MarkBeforeStore(w) ==
  /\ pc[w] = "embed" /\ Goto(w, "store")
  /\ state' = [state EXCEPT ![Current(w)] = "done"]
  /\ UNCHANGED <<attempts, age, vector, overran, tries, interrupts>>

\* The provider answers with a vector that validateEmbeddingResponse accepts.
Embed(w) ==
  /\ pc[w] = "embed" /\ Goto(w, "store")
  /\ UNCHANGED <<jobs, overran, tries, interrupts>>

\* The provider fails, or its vector is not one; or the insert fails.
Fail(w) ==
  /\ pc[w] \in {"embed", "store"} /\ Goto(w, "release")
  /\ UNCHANGED <<jobs, overran, tries, interrupts>>

StoreVector(w) ==
  /\ pc[w] = "store" /\ Goto(w, "mark")
  /\ vector' = [vector EXCEPT ![Current(w)] = TRUE]
  /\ UNCHANGED <<state, attempts, age, overran, tries, interrupts>>

\* The loop of RunOnce goes on to the next job; at its end RunAll claims
\* again unless a job has failed.
NextJob(w, jobFailed) ==
  LET rest == batch[w] \ {Current(w)}
      anyFailed == failed[w] \/ jobFailed
  IN  \/ /\ rest # {}
         /\ pc' = [pc EXCEPT ![w] = "embed"]
         /\ batch' = [batch EXCEPT ![w] = rest]
         /\ failed' = [failed EXCEPT ![w] = anyFailed]
         /\ UNCHANGED lease
      \/ rest = {} /\ anyFailed /\ Return(w)
      \/ /\ rest = {} /\ ~anyFailed
         /\ pc' = [pc EXCEPT ![w] = "claim"]
         /\ batch' = [batch EXCEPT ![w] = {}]
         /\ lease' = [lease EXCEPT ![w] = 0]
         /\ UNCHANGED failed

\* failJob, called where the job is in one of the states given.
ReleaseFrom(w, states) ==
  LET m == Current(w) IN
  /\ pc[w] = "release" /\ state[m] \in states
  /\ state' = [state EXCEPT ![m] = IF attempts[m] + 1 >= MaxAttempts THEN "failed" ELSE "pending"]
  /\ attempts' = [attempts EXCEPT ![m] = CountUp(@, MaxAttempts)]
  /\ age' = [age EXCEPT ![m] = 0]
  /\ NextJob(w, TRUE)
  /\ UNCHANGED <<vector, overran, tries, interrupts>>

\* Fault: whatever the state of the job is.
ReleaseAny(w) == ReleaseFrom(w, {"pending", "processing", "done", "failed"})
Release(w) == ReleaseFrom(w, {"processing"})

\* failJob finds the job in another state, taken from this run or settled
\* by another: RunOnce gives up and its other jobs stay in processing.
RefuseRelease(w) ==
  /\ pc[w] = "release" /\ state[Current(w)] # "processing"
  /\ Return(w)
  /\ UNCHANGED <<jobs, overran, tries, interrupts>>

\* The update does not look at the state it overwrites.
MarkDone(w) ==
  /\ pc[w] = "mark"
  /\ state' = [state EXCEPT ![Current(w)] = "done"]
  /\ age' = [age EXCEPT ![Current(w)] = 0]
  /\ NextJob(w, FALSE)
  /\ UNCHANGED <<attempts, vector, overran, tries, interrupts>>

-----------------------------------------------------------------------------
(* The environment *)

\* The process is killed, its context is cancelled, or a statement outside
\* the two that failJob answers for fails: RunAll ends where it is.
Interrupt(w) ==
  /\ pc[w] # "idle" /\ interrupts < MaxInterrupts
  /\ interrupts' = interrupts + 1
  /\ Return(w)
  /\ UNCHANGED <<jobs, overran, tries>>

\* Time passes for every job that is being processed and every batch held.
Tick ==
  LET held == {w \in Workers : batch[w] # {}}
      Older(w) == IF w \in held THEN CountUp(lease[w], TooOld) ELSE lease[w]
  IN
  /\ age' = [m \in Messages |-> IF state[m] = "processing" THEN CountUp(age[m], TooOld)
                                                          ELSE age[m]]
  /\ lease' = [w \in Workers |-> Older(w)]
  /\ overran' = (overran \/ \E w \in held : Older(w) > StaleAfter)
  /\ UNCHANGED <<state, attempts, vector, pc, batch, failed, tries, interrupts>>

Step(w) == Start(w) \/ Claim(w) \/ Drained(w) \/ Embed(w) \/ Fail(w) \/ StoreVector(w)
             \/ Release(w) \/ RefuseRelease(w) \/ MarkDone(w)

Next == \/ \E m \in Messages : Enqueue(m)
        \/ \E w \in Workers : Step(w) \/ Interrupt(w)
        \/ Tick

\* `embed run` is started again and again, a run goes on, and time passes.
\* Nobody has to write messages, and nothing has to fail.
Fairness == WF_vars(Tick) /\ \A w \in Workers : WF_vars(Step(w))

Spec == Init /\ [][Next]_vars /\ Fairness

-----------------------------------------------------------------------------
(* Properties *)

\* A job is `done` only with its vector stored, however the steps of the
\* runs and their deaths fall between the insert and the update.
DoneHasVector == \A m \in Messages : state[m] = "done" => vector[m]

\* A job is given up only when it was claimed three times, whoever counted
\* its attempts: failJob of an expired run and the recovery of stale jobs
\* must not both count the same claim.
FailedWasTried == \A m \in Messages : state[m] = "failed" => tries[m] = MaxAttempts

\* As long as every run is done with its batch within the fifteen minutes,
\* no message is embedded by two runs at once, across recoveries and
\* restarts.
OneHolderInTime ==
  ~overran => \A v, w \in Workers : v # w => batch[v] \cap batch[w] = {}

\* A finished job is not taken up again: done stays done, and failed can
\* only become done, when a run that had lost the job brings its vector.
SettledStays ==
  [][\A m \in Messages :
       /\ state[m] = "done" => state'[m] = "done"
       /\ state[m] = "failed" => state'[m] = "failed" \/ (state'[m] = "done" /\ vector'[m])]_vars

\* No job is lost: with finitely many interruptions every job is embedded
\* or given up in the end, and runs that take each other's stale jobs do not
\* keep each other from finishing.
Settles ==
  \A m \in Messages : state[m] = "pending" ~> state[m] \in {"done", "failed"}
=============================================================================
