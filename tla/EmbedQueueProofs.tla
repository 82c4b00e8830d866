-------------------------- MODULE EmbedQueueProofs --------------------------
(***************************************************************************)
(* What the embedding queue guarantees for any number of messages, runs    *)
(* and interruptions, any batch size and any lease: a job is done only     *)
(* with its vector, given up only after three claims, settled for good,    *)
(* and in one run's hands at a time while no run overruns its lease.       *)
(***************************************************************************)
EXTENDS EmbedQueue, TLAPS, WellFoundedInduction

\* A run holds jobs exactly while it is in the loop over its batch.
BusyInv == \A w \in Workers : pc[w] \in {"embed", "store", "mark", "release"} <=> batch[w] # {}

\* What a run is about to mark done has its vector.
MarkInv == \A w \in Workers : pc[w] = "mark" => vector[Current(w)]

\* Every attempt that was counted was claimed, and the claim of a job that
\* is being processed is not counted yet.
TriesInv == \A m \in Messages :
  /\ attempts[m] =< tries[m]
  /\ state[m] = "processing" => attempts[m] < tries[m] \/ tries[m] = MaxAttempts

\* While no run has overrun, what a run holds is marked as processing since
\* its claim, and no other run holds it.
LeaseInv == ~overran => \A w \in Workers : \A m \in batch[w] :
  /\ state[m] = "processing" /\ age[m] = lease[w] /\ lease[w] =< StaleAfter
  /\ \A v \in Workers : v # w => m \notin batch[v]

IInv == TypeOK /\ BusyInv /\ DoneHasVector /\ MarkInv /\ TriesInv /\ FailedWasTried /\ LeaseInv

-----------------------------------------------------------------------------

\* A non-empty set of naturals has a least element.
LEMMA LeastExists ==
  ASSUME NEW S \in SUBSET Nat, S # {}
  PROVE  \E m \in S : \A n \in S : m =< n
<1>1. PICK m \in S : \A n \in S : ~ (<<n, m>> \in OpToRel(<, Nat))
  BY NatLessThanWellFounded, WFMin
<1>2. ASSUME NEW n \in S PROVE m =< n
  <2>1. n < m => <<n, m>> \in OpToRel(<, Nat)
    BY Zenon DEF OpToRel
  <2>2. m \in Nat /\ n \in Nat
    OBVIOUS
  <2>3. ~ (n < m)
    BY <1>1, <2>1
  <2> QED BY <2>2, <2>3
<1> QED BY <1>2

\* The job a run is at is one of its batch.
LEMMA CurrentHeld ==
  ASSUME TypeOK, NEW w \in Workers, batch[w] # {}
  PROVE  Current(w) \in batch[w] /\ Current(w) \in Messages
<1>1. batch[w] \in SUBSET Nat /\ batch[w] \subseteq Messages
  BY MessagesAssumption DEF TypeOK
<1>2. \E m \in batch[w] : \A n \in batch[w] : m =< n
  BY <1>1, LeastExists
<1> QED BY <1>1, <1>2 DEF Current

LEMMA InitIInv == Init => IInv
<1> SUFFICES ASSUME Init PROVE IInv
  OBVIOUS
<1> USE InterruptAssumption, ClockAssumption
<1>1. TypeOK
  <2>1. MaxAttempts \in Nat /\ TooOld \in Nat
    BY DEF MaxAttempts, TooOld
  <2>2. 0 \in 0..MaxAttempts /\ 0 \in 0..TooOld /\ 0 \in 0..MaxInterrupts
    BY <2>1
  <2> QED BY <2>2, Zenon DEF Init, TypeOK
<1>2. BusyInv /\ DoneHasVector /\ MarkInv /\ FailedWasTried
  BY DEF Init, BusyInv, DoneHasVector, MarkInv, FailedWasTried
<1>3. TriesInv
  BY DEF Init, TriesInv
<1>4. LeaseInv
  BY DEF Init, LeaseInv
<1> QED BY <1>1, <1>2, <1>3, <1>4 DEF IInv

-----------------------------------------------------------------------------
(* One lemma per kind of step *)

\* Counting up stays within its limit and never goes down.
LEMMA CountUpWithin ==
  ASSUME NEW limit \in Nat, NEW n \in 0..limit
  PROVE  CountUp(n, limit) \in 0..limit /\ n =< CountUp(n, limit)
           /\ (n < limit => CountUp(n, limit) = n + 1) /\ (n = limit => CountUp(n, limit) = limit)
BY DEF CountUp

LEMMA EnqueueStep ==
  ASSUME IInv, NEW m \in Messages, Enqueue(m)
  PROVE  IInv'
<1> USE DEF IInv
<1>1. TypeOK'
  BY DEF TypeOK, Enqueue, runs
<1>2. BusyInv' /\ MarkInv'
  BY DEF TypeOK, BusyInv, MarkInv, Enqueue, runs, Current
<1>3. DoneHasVector' /\ FailedWasTried' /\ TriesInv'
  BY DEF TypeOK, DoneHasVector, FailedWasTried, TriesInv, Enqueue
<1>4. LeaseInv'
  BY DEF TypeOK, LeaseInv, Enqueue, runs
<1> QED BY <1>1, <1>2, <1>3, <1>4

LEMMA ClaimStep ==
  ASSUME IInv, NEW w \in Workers, Claim(w)
  PROVE  IInv'
<1> USE DEF IInv
<1> DEFINE claimed == Batch(Pending \cup Stale)
<1>0. claimed # {} /\ claimed \subseteq Pending \cup Stale /\ claimed \subseteq Messages
  BY DEF Claim, ClaimAfter, Batch, Pending, Stale
<1>1. /\ pc[w] = "claim" /\ batch[w] = {}
      /\ pc' = [pc EXCEPT ![w] = "embed"] /\ batch' = [batch EXCEPT ![w] = claimed]
      /\ lease' = [lease EXCEPT ![w] = 0]
      /\ UNCHANGED <<vector, failed, overran, interrupts>>
  BY DEF Claim, ClaimAfter, BusyInv
<1>2. \A m \in Messages :
        /\ state'[m] = IF m \in claimed THEN "processing"
                       ELSE IF m \in Stale THEN "pending" ELSE state[m]
        /\ attempts'[m] = IF m \in Stale THEN CountUp(attempts[m], MaxAttempts) ELSE attempts[m]
        /\ age'[m] = IF m \in claimed \cup Stale THEN 0 ELSE age[m]
        /\ tries'[m] = IF m \in claimed THEN CountUp(tries[m], MaxAttempts) ELSE tries[m]
  BY DEF Claim, ClaimAfter
<1>3. /\ DOMAIN state' = Messages /\ DOMAIN attempts' = Messages
      /\ DOMAIN age' = Messages /\ DOMAIN tries' = Messages
  BY DEF Claim, ClaimAfter
<1>4. MaxAttempts \in Nat /\ TooOld \in Nat
  BY ClockAssumption DEF MaxAttempts, TooOld
<1> HIDE DEF claimed
<1>5. TypeOK'
  <2>1. state' \in [Messages -> {"none", "pending", "processing", "done", "failed"}]
    BY <1>2, Zenon DEF Claim, ClaimAfter, TypeOK
  <2>2. attempts' \in [Messages -> 0..MaxAttempts] /\ tries' \in [Messages -> 0..MaxAttempts]
    <3>1. \A m \in Messages : /\ attempts[m] \in 0..MaxAttempts /\ tries[m] \in 0..MaxAttempts
                              /\ CountUp(attempts[m], MaxAttempts) \in 0..MaxAttempts
                              /\ CountUp(tries[m], MaxAttempts) \in 0..MaxAttempts
      BY <1>4, CountUpWithin DEF TypeOK
    <3>2. \A m \in Messages : attempts'[m] \in 0..MaxAttempts /\ tries'[m] \in 0..MaxAttempts
      BY <1>2, <3>1
    <3> QED BY <3>2, Zenon DEF Claim, ClaimAfter
  <2>3. age' \in [Messages -> 0..TooOld]
    <3>1. \A m \in Messages : age'[m] \in 0..TooOld
      BY <1>2, <1>4 DEF TypeOK
    <3> QED BY <3>1, Zenon DEF Claim, ClaimAfter
  <2>4. 0 \in 0..TooOld
    BY <1>4
  <2> QED BY <1>0, <1>1, <2>1, <2>2, <2>3, <2>4, Zenon DEF TypeOK
<1>6. BusyInv' /\ MarkInv'
  BY <1>0, <1>1 DEF TypeOK, BusyInv, MarkInv, Current
<1>7. DoneHasVector' /\ FailedWasTried'
  <2>1. ASSUME NEW m \in Messages, state'[m] \in {"done", "failed"}
        PROVE  state[m] = state'[m] /\ m \notin claimed
    BY <1>2, <2>1
  <2>2. DoneHasVector'
    BY <1>1, <2>1 DEF DoneHasVector
  <2>3. FailedWasTried'
    BY <1>2, <2>1 DEF FailedWasTried, MaxAttempts
  <2> QED BY <2>2, <2>3
<1>8. TriesInv'
  <2> SUFFICES ASSUME NEW m \in Messages
               PROVE  /\ attempts'[m] =< tries'[m]
                      /\ state'[m] = "processing" => attempts'[m] < tries'[m] \/ tries'[m] = MaxAttempts
    BY DEF TriesInv, MaxAttempts
  <2>1. /\ attempts[m] \in 0..3 /\ tries[m] \in 0..3 /\ attempts[m] =< tries[m]
        /\ state[m] = "processing" => attempts[m] < tries[m] \/ tries[m] = 3
    BY DEF TypeOK, TriesInv, MaxAttempts
  <2>2. m \in Stale => state[m] = "processing"
    BY DEF Stale
  <2>3. m \in claimed => m \in Stale \/ state[m] = "pending"
    BY <1>0 DEF Pending
  <2> QED BY <1>2, <2>1, <2>2, <2>3 DEF CountUp, MaxAttempts
<1>9. LeaseInv'
  <2> SUFFICES ASSUME ~overran, NEW v \in Workers, NEW m \in batch'[v]
               PROVE  /\ state'[m] = "processing" /\ age'[m] = lease'[v] /\ lease'[v] =< StaleAfter
                      /\ \A u \in Workers : u # v => m \notin batch'[u]
    BY <1>1 DEF LeaseInv
  <2>1. ASSUME NEW u \in Workers, NEW n \in batch[u]
        PROVE  n \in Messages /\ n \notin claimed /\ n \notin Stale
    <3>1. n \in Messages /\ state[n] = "processing" /\ age[n] =< StaleAfter
      BY <2>1 DEF TypeOK, LeaseInv
    <3>2. n \notin Stale
      BY <3>1, ClockAssumption DEF Stale, TypeOK
    <3> QED BY <1>0, <3>1, <3>2 DEF Pending
  <2>2. CASE v = w
    <3>1. m \in claimed /\ m \in Messages /\ lease'[v] = 0
      BY <1>0, <1>1, <2>2 DEF TypeOK
    <3>2. \A u \in Workers : u # v => batch'[u] = batch[u]
      BY <1>1, <2>2 DEF TypeOK
    <3> QED BY <1>2, <2>1, <3>1, <3>2, ClockAssumption
  <2>3. CASE v # w
    <3>1. m \in batch[v] /\ lease'[v] = lease[v]
      BY <1>1, <2>3 DEF TypeOK
    <3>2. m \in Messages /\ m \notin claimed /\ m \notin Stale
      BY <2>1, <3>1
    <3>3. \A u \in Workers : batch'[u] = IF u = w THEN claimed ELSE batch[u]
      BY <1>1 DEF TypeOK
    <3> QED BY <1>2, <3>1, <3>2, <3>3 DEF LeaseInv
  <2> QED BY <2>2, <2>3
<1> QED BY <1>5, <1>6, <1>7, <1>8, <1>9

\* A step of a run that moves it only inside its loop, and may store the
\* vector of the current job.
LEMMA LoopStep ==
  ASSUME IInv, NEW w \in Workers, Embed(w) \/ Fail(w) \/ StoreVector(w)
  PROVE  IInv'
<1> USE DEF IInv
<1>1. /\ pc[w] \in {"embed", "store"} /\ batch[w] # {}
      /\ \E next \in {"store", "release", "mark"} :
           pc' = [pc EXCEPT ![w] = next] /\ (next = "mark" => StoreVector(w))
      /\ UNCHANGED <<state, attempts, age, batch, failed, lease, overran, tries, interrupts>>
  BY DEF Embed, Fail, StoreVector, Goto, BusyInv, jobs
<1>2. Current(w) \in Messages
  BY <1>1, CurrentHeld
<1>3. vector' = vector \/ (StoreVector(w) /\ vector' = [vector EXCEPT ![Current(w)] = TRUE])
  BY DEF Embed, Fail, StoreVector, jobs
<1>4. TypeOK'
  BY <1>1, <1>3, Zenon DEF TypeOK, MaxAttempts, TooOld
<1>5. \A m \in Messages : vector[m] => vector'[m]
  BY <1>3, Zenon DEF TypeOK
<1>6. DoneHasVector' /\ FailedWasTried' /\ TriesInv' /\ LeaseInv'
  BY <1>1, <1>5 DEF DoneHasVector, FailedWasTried, TriesInv, LeaseInv, TypeOK
<1>7. BusyInv'
  BY <1>1 DEF BusyInv, TypeOK
<1>8. MarkInv'
  <2> SUFFICES ASSUME NEW v \in Workers, pc'[v] = "mark" PROVE vector'[Current(v)]
    BY <1>1 DEF MarkInv, Current
  <2>1. CASE v = w
    <3>1. StoreVector(w)
      BY <1>1, <2>1 DEF TypeOK
    <3> QED BY <1>2, <2>1, <3>1, Zenon DEF StoreVector, TypeOK
  <2>2. CASE v # w
    <3>1. pc[v] = "mark" /\ batch[v] # {}
      BY <1>1, <2>2 DEF TypeOK, BusyInv
    <3> QED BY <1>5, <3>1, CurrentHeld DEF MarkInv
  <2> QED BY <2>1, <2>2
<1> QED BY <1>4, <1>6, <1>7, <1>8

\* A step that leaves a run without a batch and the rows as they are.
LEMMA LeaveStep ==
  ASSUME IInv, NEW w \in Workers, Start(w) \/ Drained(w) \/ RefuseRelease(w) \/ Interrupt(w)
  PROVE  IInv'
<1> USE DEF IInv
<1>1. /\ \E next \in {"idle", "claim"} : pc' = [pc EXCEPT ![w] = next]
      /\ UNCHANGED <<state, attempts, age, vector, overran, tries>>
  BY DEF Start, Drained, RefuseRelease, Interrupt, Return, jobs
<1>2. batch' = [batch EXCEPT ![w] = {}]
  <2>1. Start(w) => batch[w] = {} /\ batch' = batch
    BY DEF Start, BusyInv
  <2> QED BY <2>1 DEF Drained, RefuseRelease, Interrupt, Return, TypeOK
<1>3. TypeOK'
  <2>1. interrupts' \in 0..MaxInterrupts
    BY InterruptAssumption
       DEF TypeOK, Start, Drained, RefuseRelease, Interrupt
  <2>2. lease' = lease \/ lease' = [lease EXCEPT ![w] = 0]
    BY DEF Start, Drained, RefuseRelease, Interrupt, Return
  <2>3. failed' = failed \/ failed' = [failed EXCEPT ![w] = FALSE]
    BY DEF Start, Drained, RefuseRelease, Interrupt, Return
  <2>4. 0 \in 0..TooOld
    BY ClockAssumption DEF TooOld
  <2> QED BY <1>1, <1>2, <2>1, <2>2, <2>3, <2>4, Zenon DEF TypeOK, MaxAttempts
<1>4. BusyInv' /\ MarkInv'
  BY <1>1, <1>2 DEF BusyInv, MarkInv, Current, TypeOK
<1>5. DoneHasVector' /\ FailedWasTried' /\ TriesInv'
  BY <1>1 DEF DoneHasVector, FailedWasTried, TriesInv
<1>6. LeaseInv'
  <2>1. \A v \in Workers : v # w => lease'[v] = lease[v]
    BY DEF Start, Drained, RefuseRelease, Interrupt, Return, TypeOK
  <2> QED BY <1>1, <1>2, <2>1 DEF LeaseInv, TypeOK
<1> QED BY <1>3, <1>4, <1>5, <1>6

\* After its last step on a job a run holds the others, or nothing.
LEMMA NextJobHolds ==
  ASSUME IInv, NEW w \in Workers, batch[w] # {}, NEW jobFailed \in BOOLEAN, NextJob(w, jobFailed)
  PROVE  /\ batch' = [batch EXCEPT ![w] = batch[w] \ {Current(w)}]
         /\ \E next \in {"embed", "idle", "claim"} :
              /\ pc' = [pc EXCEPT ![w] = next]
              /\ next = "embed" <=> batch'[w] # {}
         /\ failed' \in [Workers -> BOOLEAN]
         /\ lease' = lease \/ (lease' = [lease EXCEPT ![w] = 0] /\ batch'[w] = {})
<1> USE DEF IInv
<1>1. batch' = [batch EXCEPT ![w] = batch[w] \ {Current(w)}]
  BY DEF NextJob, Return
<1>2. batch'[w] = batch[w] \ {Current(w)}
  BY <1>1 DEF TypeOK
<1>3. \E next \in {"embed", "idle", "claim"} :
        pc' = [pc EXCEPT ![w] = next] /\ (next = "embed" <=> batch'[w] # {})
  BY <1>2 DEF NextJob, Return
<1>4. failed' \in [Workers -> BOOLEAN]
  <2>1. (failed[w] \/ jobFailed) \in BOOLEAN
    OBVIOUS
  <2> QED BY <2>1, Zenon DEF NextJob, Return, TypeOK
<1>5. lease' = lease \/ (lease' = [lease EXCEPT ![w] = 0] /\ batch'[w] = {})
  BY <1>2 DEF NextJob, Return
<1> QED BY <1>1, <1>3, <1>4, <1>5

LEMMA FinishStep ==
  ASSUME IInv, NEW w \in Workers, Release(w) \/ MarkDone(w)
  PROVE  IInv'
<1> USE DEF IInv
<1> DEFINE m == Current(w)
<1>1. pc[w] \in {"release", "mark"} /\ batch[w] # {}
  BY DEF Release, ReleaseFrom, MarkDone, BusyInv
<1>2. m \in Messages /\ m \in batch[w]
  BY <1>1, CurrentHeld
<1>3. \E jobFailed \in BOOLEAN : NextJob(w, jobFailed)
  BY DEF Release, ReleaseFrom, MarkDone
<1>4. UNCHANGED <<vector, overran, tries, interrupts>>
  BY DEF Release, ReleaseFrom, MarkDone
<1>5. PICK next \in {"embed", "idle", "claim"} :
        /\ pc' = [pc EXCEPT ![w] = next]
        /\ next = "embed" <=> batch'[w] # {}
  BY <1>1, <1>3, NextJobHolds
<1>6. /\ batch' = [batch EXCEPT ![w] = batch[w] \ {m}]
      /\ failed' \in [Workers -> BOOLEAN]
      /\ lease' = lease \/ (lease' = [lease EXCEPT ![w] = 0] /\ batch'[w] = {})
  BY <1>1, <1>3, NextJobHolds
<1>7. PICK new \in {"pending", "failed", "done"} :
        /\ state' = [state EXCEPT ![m] = new]
        /\ age' = [age EXCEPT ![m] = 0]
        /\ new = "done" => MarkDone(w)
        /\ new # "done" => Release(w)
        /\ new = "failed" => attempts[m] + 1 >= MaxAttempts
  BY DEF Release, ReleaseFrom, MarkDone
<1>8. attempts' = attempts \/ (Release(w) /\ attempts' = [attempts EXCEPT ![m] = CountUp(@, MaxAttempts)])
  BY DEF Release, ReleaseFrom, MarkDone
<1> HIDE DEF m
<1>9. CountUp(attempts[m], MaxAttempts) \in 0..MaxAttempts
  BY <1>2, CountUpWithin DEF TypeOK, MaxAttempts
<1>10. 0 \in 0..TooOld
  BY ClockAssumption DEF TooOld
<1>11. TypeOK'
  <2>1. attempts' \in [Messages -> 0..MaxAttempts]
    BY <1>2, <1>8, <1>9, Zenon DEF TypeOK
  <2>2. age' \in [Messages -> 0..TooOld] /\ lease' \in [Workers -> 0..TooOld]
    BY <1>2, <1>6, <1>7, <1>10, Zenon DEF TypeOK
  <2>3. state' \in [Messages -> {"none", "pending", "processing", "done", "failed"}]
    BY <1>2, <1>7 DEF TypeOK
  <2>4. batch[w] \ {m} \in SUBSET Messages
    BY DEF TypeOK
  <2>5. batch' \in [Workers -> SUBSET Messages]
    BY <1>6, <2>4, Zenon DEF TypeOK
  <2>6. pc' \in [Workers -> {"idle", "claim", "embed", "store", "mark", "release"}]
    BY <1>5 DEF TypeOK
  <2> QED BY <1>4, <1>6, <2>1, <2>2, <2>3, <2>5, <2>6, Zenon DEF TypeOK
<1>12. BusyInv'
  BY <1>1, <1>5, <1>6 DEF BusyInv, TypeOK
<1>13. MarkInv'
  <2> SUFFICES ASSUME NEW v \in Workers, pc'[v] = "mark" PROVE vector'[Current(v)']
    BY DEF MarkInv
  <2>1. v # w /\ pc[v] = "mark" /\ batch'[v] = batch[v]
    BY <1>5, <1>6 DEF TypeOK
  <2>2. Current(v)' = Current(v)
    BY <2>1 DEF Current
  <2> QED BY <1>4, <2>1, <2>2 DEF MarkInv
<1>14. DoneHasVector'
  <2>1. new = "done" => vector[m]
    BY <1>7 DEF MarkDone, MarkInv, m
  <2> QED BY <1>2, <1>4, <1>7, <2>1 DEF DoneHasVector, TypeOK
<1>15. state[m] = "processing" \/ MarkDone(w)
  BY DEF Release, ReleaseFrom, m
<1>16. FailedWasTried'
  <2>1. new = "failed" => state[m] = "processing" /\ attempts[m] + 1 >= MaxAttempts
    BY <1>7 DEF Release, ReleaseFrom, m
  <2>2. new = "failed" => tries[m] = MaxAttempts
    BY <1>2, <2>1 DEF TriesInv, TypeOK, MaxAttempts
  <2> QED BY <1>2, <1>4, <1>7, <2>2 DEF FailedWasTried, TypeOK
<1>17. TriesInv'
  <2> SUFFICES ASSUME NEW n \in Messages
               PROVE  /\ attempts'[n] =< tries[n]
                      /\ state'[n] = "processing" => attempts'[n] < tries[n] \/ tries[n] = MaxAttempts
    BY <1>4 DEF TriesInv, MaxAttempts
  <2>1. CASE n = m
    <3>1. state'[n] # "processing"
      BY <1>2, <1>7, <2>1 DEF TypeOK
    <3>2. attempts'[n] = attempts[n]
            \/ (state[n] = "processing" /\ attempts'[n] = CountUp(attempts[n], MaxAttempts))
      BY <1>2, <1>8, <2>1 DEF TypeOK, Release, ReleaseFrom, m
    <3>3. attempts[n] \in 0..3 /\ tries[n] \in 0..3
      BY DEF TypeOK, MaxAttempts
    <3> QED BY <3>1, <3>2, <3>3 DEF TriesInv, CountUp, MaxAttempts
  <2>2. CASE n # m
    <3>1. attempts'[n] = attempts[n] /\ state'[n] = state[n]
      BY <1>2, <1>7, <1>8, <2>2 DEF TypeOK
    <3> QED BY <3>1 DEF TriesInv
  <2> QED BY <2>1, <2>2
<1>18. LeaseInv'
  <2> SUFFICES ASSUME ~overran, NEW v \in Workers, NEW n \in batch'[v]
               PROVE  /\ state'[n] = "processing" /\ age'[n] = lease'[v] /\ lease'[v] =< StaleAfter
                      /\ \A u \in Workers : u # v => n \notin batch'[u]
    BY <1>4 DEF LeaseInv
  <2>1. n \in batch[v] /\ n \in Messages /\ \A u \in Workers : batch'[u] \subseteq batch[u]
    BY <1>6 DEF TypeOK
  <2>2. n # m
    <3>1. CASE v = w
      BY <1>6, <3>1 DEF TypeOK
    <3>2. CASE v # w
      BY <1>2, <2>1, <3>2 DEF LeaseInv
    <3> QED BY <3>1, <3>2
  <2>3. state'[n] = state[n] /\ age'[n] = age[n]
    BY <1>2, <1>7, <2>1, <2>2 DEF TypeOK
  <2>4. lease'[v] = lease[v]
    <3>1. batch'[v] # {}
      OBVIOUS
    <3> QED BY <1>6, <3>1 DEF TypeOK
  <2> QED BY <2>1, <2>3, <2>4 DEF LeaseInv
<1> QED BY <1>11, <1>12, <1>13, <1>14, <1>16, <1>17, <1>18

LEMMA TickStep ==
  ASSUME IInv, Tick
  PROVE  IInv'
<1> USE DEF IInv
<1>0. TooOld \in Nat
  BY ClockAssumption DEF TooOld
<1>1. UNCHANGED <<state, attempts, vector, pc, batch, failed, tries, interrupts>>
  BY DEF Tick, runs
<1>2. \A w \in Workers : lease'[w] = IF batch[w] # {} THEN CountUp(lease[w], TooOld) ELSE lease[w]
  BY DEF Tick
<1>3. \A m \in Messages : age'[m] = IF state[m] = "processing" THEN CountUp(age[m], TooOld) ELSE age[m]
  BY DEF Tick
<1>4. TypeOK'
  <2>1. \A w \in Workers : lease'[w] \in 0..TooOld
    BY <1>0, <1>2, CountUpWithin DEF TypeOK
  <2>2. \A m \in Messages : age'[m] \in 0..TooOld
    BY <1>0, <1>3, CountUpWithin DEF TypeOK
  <2>3. lease' \in [Workers -> 0..TooOld] /\ age' \in [Messages -> 0..TooOld]
    BY <2>1, <2>2, Zenon DEF Tick
  <2>4. overran' \in BOOLEAN
    BY Zenon DEF Tick
  <2> QED BY <1>1, <2>3, <2>4, Zenon DEF TypeOK
<1>5. BusyInv' /\ DoneHasVector' /\ MarkInv' /\ TriesInv' /\ FailedWasTried'
  BY <1>1 DEF BusyInv, DoneHasVector, MarkInv, TriesInv, FailedWasTried, Current
<1>6. LeaseInv'
  <2> SUFFICES ASSUME ~overran', NEW w \in Workers, NEW m \in batch[w]
               PROVE  /\ state[m] = "processing" /\ age'[m] = lease'[w] /\ lease'[w] =< StaleAfter
                      /\ \A v \in Workers : v # w => m \notin batch[v]
    BY <1>1 DEF LeaseInv
  <2>1. ~overran /\ m \in Messages /\ batch[w] # {}
    BY DEF Tick, TypeOK
  <2>2. state[m] = "processing" /\ age[m] = lease[w] /\ \A v \in Workers : v # w => m \notin batch[v]
    BY <2>1 DEF LeaseInv
  <2>3. ~ (CountUp(lease[w], TooOld) > StaleAfter)
    BY <2>1 DEF Tick
  <2>4. CountUp(lease[w], TooOld) \in 0..TooOld
    BY <1>0, CountUpWithin DEF TypeOK
  <2>5. lease'[w] =< StaleAfter
    BY <1>0, <1>2, <2>1, <2>3, <2>4, ClockAssumption
  <2> QED BY <1>2, <1>3, <2>1, <2>2, <2>5
<1> QED BY <1>4, <1>5, <1>6

-----------------------------------------------------------------------------

LEMMA IInvStep == IInv /\ [Next]_vars => IInv'
<1> SUFFICES ASSUME IInv, [Next]_vars PROVE IInv'
  OBVIOUS
<1>1. CASE \E m \in Messages : Enqueue(m)
  BY <1>1, EnqueueStep
<1>2. ASSUME NEW w \in Workers, Step(w) PROVE IInv'
  BY <1>2, ClaimStep, LoopStep, LeaveStep, FinishStep DEF Step
<1>3. CASE \E w \in Workers : Interrupt(w)
  BY <1>3, LeaveStep
<1>4. CASE Tick
  BY <1>4, TickStep
<1>5. CASE UNCHANGED vars
  BY <1>5 DEF vars, jobs, runs, IInv, TypeOK, BusyInv, DoneHasVector, MarkInv, TriesInv,
              FailedWasTried, LeaseInv, Current
<1> QED BY <1>1, <1>2, <1>3, <1>4, <1>5 DEF Next

LEMMA IInvAlways == Spec => []IInv
BY InitIInv, IInvStep, PTL DEF Spec

\* The rows and the runs of the queue keep their types (attempts stays
\* within the bound of failJob), for every number of messages and runs.
THEOREM TypeCorrect == Spec => []TypeOK
<1>1. IInv => TypeOK
  BY DEF IInv
<1> QED BY <1>1, IInvAlways, PTL

\* worker.go:71-104: no job is ever done without its vector.
THEOREM DoneJobsHaveVectors == Spec => []DoneHasVector
<1>1. IInv => DoneHasVector
  BY DEF IInv
<1> QED BY <1>1, IInvAlways, PTL

\* worker.go:119-126 and 180-187: a job is given up only after three claims.
THEOREM GivenUpAfterThreeClaims == Spec => []FailedWasTried
<1>1. IInv => FailedWasTried
  BY DEF IInv
<1> QED BY <1>1, IInvAlways, PTL

\* worker.go:113-178: claims are exclusive as long as no run overruns the
\* lease, however the runs interleave and however many of them die.
THEOREM ExclusiveInTime == Spec => []OneHolderInTime
<1>1. IInv => OneHolderInTime
  BY Zenon DEF IInv, LeaseInv, OneHolderInTime
<1> QED BY <1>1, IInvAlways, PTL

\* worker.go:128-135, 180-187 and 99-104: what is settled stays settled.
THEOREM SettledJobsStay == Spec => SettledStays
<1> DEFINE Stays ==
      \A m \in Messages :
        /\ state[m] = "done" => state'[m] = "done"
        /\ state[m] = "failed" => state'[m] = "failed" \/ (state'[m] = "done" /\ vector'[m])
<1>1. IInv /\ [Next]_vars => [Stays]_vars
  <2> SUFFICES ASSUME IInv, Next, NEW m \in Messages
               PROVE  /\ state[m] = "done" => state'[m] = "done"
                      /\ state[m] = "failed" => state'[m] = "failed" \/ (state'[m] = "done" /\ vector'[m])
    OBVIOUS
  <2>0. IInv'
    BY IInvStep
  <2> USE DEF IInv
  <2>1. ASSUME NEW w \in Workers, Claim(w), state[m] \in {"done", "failed"} PROVE state'[m] = state[m]
    <3>1. m \notin Stale /\ m \notin Batch(Pending \cup Stale)
      BY <2>1 DEF Stale, Pending, Batch
    <3> QED BY <2>1, <3>1 DEF Claim, ClaimAfter
  <2>2. ASSUME NEW w \in Workers, Release(w), state[m] \in {"done", "failed"} PROVE state'[m] = state[m]
    BY <2>2 DEF Release, ReleaseFrom, TypeOK
  <2>3. ASSUME NEW w \in Workers, MarkDone(w) PROVE state'[m] \in {state[m], "done"}
    BY <2>3 DEF MarkDone, TypeOK
  <2>4. ASSUME NEW n \in Messages, Enqueue(n) PROVE state[m] = state'[m] \/ state[m] = "none"
    BY <2>4 DEF Enqueue, TypeOK
  <2>5. ASSUME NEW w \in Workers, Start(w) \/ Drained(w) \/ Embed(w) \/ Fail(w) \/ StoreVector(w)
                                    \/ RefuseRelease(w) \/ Interrupt(w)
        PROVE  state' = state
    BY <2>5 DEF Start, Drained, Embed, Fail, StoreVector, RefuseRelease, Interrupt, jobs
  <2>6. Tick => state' = state
    BY DEF Tick
  <2>7. state'[m] = "done" => vector'[m]
    BY <2>0 DEF DoneHasVector
  <2> QED BY <2>1, <2>2, <2>3, <2>4, <2>5, <2>6, <2>7 DEF Next, Step
<1> QED BY <1>1, IInvAlways, PTL DEF Spec, SettledStays
=============================================================================
