------------------------- MODULE ChannelSyncProofs -------------------------
(***************************************************************************)
(* Proofs about ChannelSync and TailCrawl, for every number of messages,   *)
(* every page size, every set of cutoffs and any number of interrupted     *)
(* runs: types, checkpoints that always have a row and only advance, an    *)
(* archive without a hole, and what a run that reports success has         *)
(* covered; beside the tail, which holes there are.                        *)
(*                                                                         *)
(* None of them is inductive: what a run will write next depends on its    *)
(* locals.  Core and LatestInv say what the locals are at each place of    *)
(* the code; GapInv what the page in hand, the bound and the newest id     *)
(* seen cover; SuccessInv how far the run has got.  The tail writes rows   *)
(* and latest too: Core holds all the same, LatestInv does not, and        *)
(* TailGapInv says what GapInv does by the rows instead.                   *)
(***************************************************************************)
EXTENDS TailCrawl, TLAPS, FiniteSetTheorems, WellFoundedInduction

ForwardPcs   == {"forward", "forwardPersist", "forwardSave", "forwardEnd"}
BackfillPcs  == {"backfill", "backfillPersist", "backfillLatest",
                 "backfillCursor", "backfillComplete"}
BootstrapPcs == {"bootstrap", "bootstrapPersist", "bootstrapCursor",
                 "bootstrapComplete", "bootstrapEnd"}
\* Where a page is about to be asked for, or to be persisted, below `before`.
BelowPcs     == {"backfill", "backfillPersist", "bootstrap", "bootstrapPersist"}

\* Nothing was seen that was not posted, and a fetched page is not empty.
PageInv ==
  /\ stored \subseteq 1..posted /\ page \subseteq 1..posted
  /\ newest =< posted /\ before =< posted
  /\ pc \in {"forwardPersist", "backfillPersist", "bootstrapPersist"} => page # {}
  /\ pc \in {"backfillLatest", "backfillCursor", "bootstrapCursor"} => Eligible # {}

\* What a run knows of by id has a row already.
RowsInv ==
  /\ CheckpointsHaveRows
  /\ newest # 0 => newest \in stored
  /\ before # 0 /\ pc \notin {"bootstrapCursor", "bootstrapComplete", "bootstrapEnd"}
       => before \in stored
  /\ pc \in {"backfillLatest", "backfillCursor", "bootstrapCursor"}
       => Eligible \subseteq stored

\* How the locals relate to the checkpoints along the code.
ControlInv ==
  /\ pc \in Resting \cup {"listed"} => newest = 0 /\ before = 0
  /\ pc \in BackfillPcs => full /\ ~complete
  /\ pc \in ForwardPcs => newest # 0
  /\ full /\ pc \in ForwardPcs => before # 0
  /\ full /\ pc \in ForwardPcs \cup BackfillPcs /\ cursor # 0 => before = cursor
  /\ pc \in BelowPcs /\ before # 0
       => \A p \in page : pc \in {"backfill", "bootstrap"} \/ p < before
  /\ pc \in {"backfillLatest", "backfillCursor"} /\ before # 0 => \A p \in page : p < before

\* A bootstrap works on a channel nothing has been said about, unless it is
\* one of those rebootstrapped stands for.
BlankInv ==
  ~rebootstrapped /\ pc \in BootstrapPcs \ {"bootstrapEnd"} => ~complete /\ cursor = 0

Core == TypeOK /\ PageInv /\ RowsInv /\ ControlInv /\ BlankInv

\* The run knows its checkpoint, as long as nobody else writes it.
LatestInv ==
  /\ pc \in ForwardPcs \cup BackfillPcs \cup {"finish"} => latest =< newest
  /\ pc \in BootstrapPcs => latest = 0

Basic == Core /\ LatestInv

----------------------------------------------------------------------------
(* Bounds of sets of ids.                                                  *)

\* A non-empty set of naturals has a least element.
LEMMA LeastExists ==
  ASSUME NEW S \in SUBSET Nat, S # {}
  PROVE  \E m \in S : \A n \in S : m =< n
<1>1. PICK m \in S : \A n \in S : ~ (<<n, m>> \in OpToRel(<, Nat))
  BY NatLessThanWellFounded, WFMin
<1>2. ASSUME NEW n \in S PROVE m =< n
  <2>1. n < m => <<n, m>> \in OpToRel(<, Nat)
    BY Zenon DEF OpToRel
  <2>2. m \in Nat /\ n \in Nat
    OBVIOUS
  <2>3. ~ (n < m)
    BY <1>1, <2>1
  <2> QED BY <2>2, <2>3
<1> QED BY <1>2

\* A non-empty set of naturals with an upper bound has a greatest element:
\* its distance to the bound has a least element.
LEMMA GreatestExists ==
  ASSUME NEW S \in SUBSET Nat, S # {}, NEW b \in Nat, \A n \in S : n =< b
  PROVE  \E m \in S : \A n \in S : n =< m
<1> DEFINE D == {b - n : n \in S}
<1>1. \A n \in S : b - n \in Nat
  OBVIOUS
<1>2. D \in SUBSET Nat /\ D # {}
  BY <1>1
<1>3. PICK d \in D : \A e \in D : d =< e
  BY <1>2, LeastExists
<1>4. PICK m \in S : d = b - m
  OBVIOUS
<1>5. \A n \in S : b - m =< b - n
  BY <1>3, <1>4
<1> QED BY <1>5

\* Newest and Oldest pick the ends of a non-empty set of ids.
LEMMA NewestOldest ==
  ASSUME NEW S \in SUBSET Ids, S # {}
  PROVE  /\ Newest(S) \in S /\ \A n \in S : n =< Newest(S)
         /\ Oldest(S) \in S /\ \A n \in S : Oldest(S) =< n
<1>1. S \in SUBSET Nat /\ MaxId \in Nat /\ \A n \in S : n =< MaxId
  BY MaxIdAssumption DEF Ids
<1>2. \E m \in S : \A n \in S : n =< m
  BY <1>1, GreatestExists
<1>3. \E m \in S : \A n \in S : m =< n
  BY <1>1, LeastExists
<1> QED BY <1>2, <1>3 DEF Newest, Oldest

\* Whatever order text puts ids in, the ends it picks are members.
LEMMA TextEnds ==
  ASSUME NEW S \in SUBSET Ids
  PROVE  /\ S # {} => TextOldest(S) \in S /\ TextNewest(S) \in S
         /\ S = {} => TextOldest(S) = 0 /\ TextNewest(S) = 0
<1>1. CASE S = {}
  BY <1>1 DEF TextOldest, TextNewest
<1>2. CASE S # {}
  <2> DEFINE K == {TextKey(m) : m \in S}
  <2>1. \A m \in S : TextKey(m) \in Nat /\ TextKey(m) =< MaxId + MaxId
    BY MaxIdAssumption, ShortIdsAssumption DEF Ids, TextKey
  <2>2. K \in SUBSET Nat /\ K # {} /\ \A k \in K : k =< MaxId + MaxId
    BY <1>2, <2>1
  <2>3. MaxId + MaxId \in Nat
    BY MaxIdAssumption
  <2>4. PICK k \in K : \A j \in K : k =< j
    BY <2>2, LeastExists
  <2>5. PICK l \in K : \A j \in K : j =< l
    BY <2>2, <2>3, GreatestExists
  <2>6. \E m \in S : \A n \in S : TextKey(m) =< TextKey(n)
    BY <2>4
  <2>7. \E m \in S : \A n \in S : TextKey(n) =< TextKey(m)
    BY <2>5
  <2> QED BY <1>2, <2>6, <2>7 DEF TextOldest, TextNewest
<1> QED BY <1>1, <1>2

----------------------------------------------------------------------------
(* The part of the invariant that holds whatever runs are mixed.           *)

\* TypeOK in two parts: the provers take numbers and truth values apart.
Numbers ==
  /\ posted \in 0..MaxId /\ remote \subseteq 1..posted /\ stored \subseteq Ids
  /\ latest \in 0..MaxId /\ cursor \in 0..MaxId
  /\ pc \in Resting \cup Working
  /\ since \in Cutoffs \cup {0} /\ target \in 0..MaxId
  /\ newest \in 0..MaxId /\ before \in 0..MaxId /\ page \subseteq Ids
  /\ fuel \in 0..PagesPerRun /\ aborts \in 0..MaxAborts
Flags == complete \in BOOLEAN /\ full \in BOOLEAN /\ rebootstrapped \in BOOLEAN

\* The ends of the page being dealt with are ids of the page.
LEMMA PageEnds ==
  ASSUME TypeOK
  PROVE  /\ page # {} => Newest(page) \in page /\ Oldest(page) \in page
         /\ Eligible # {} =>
              Newest(Eligible) \in Eligible /\ Oldest(Eligible) \in Eligible
         /\ Eligible \subseteq page
         /\ \A n \in page : n =< Newest(page) /\ Oldest(page) =< n
         /\ \A n \in Eligible : n =< Newest(Eligible) /\ Oldest(Eligible) =< n
<1>1. page \in SUBSET Ids /\ Eligible \in SUBSET Ids /\ Eligible \subseteq page
  BY DEF TypeOK, Eligible
<1> QED BY <1>1, NewestOldest

\* The checkpoints a full run works with are rows, if there are any.
LEMMA SeedEnds ==
  ASSUME TypeOK, RowsInv
  PROVE  /\ SeededLatest \in 0..MaxId /\ SeededCursor \in 0..MaxId
         /\ SeededLatest # 0 => SeededLatest \in stored
         /\ SeededCursor # 0 => SeededCursor \in stored
         /\ SeededLatest = 0 => stored = {} /\ latest = 0
         /\ SeededCursor = 0 => stored = {} /\ cursor = 0 /\ latest = 0
         /\ latest # 0 => SeededLatest = latest
         /\ cursor # 0 => SeededCursor = cursor
<1>1. stored \in SUBSET Ids /\ latest \in 0..MaxId /\ cursor \in 0..MaxId
  BY DEF TypeOK
<1>2. stored = {} => latest = 0 /\ cursor = 0
  BY DEF RowsInv, CheckpointsHaveRows
<1>3. latest # 0 => latest \in stored
  BY DEF RowsInv, CheckpointsHaveRows
<1>4. cursor # 0 => cursor \in stored
  BY DEF RowsInv, CheckpointsHaveRows
<1>5. /\ stored # {} => TextOldest(stored) \in stored /\ TextNewest(stored) \in stored
      /\ stored = {} => TextOldest(stored) = 0 /\ TextNewest(stored) = 0
  BY <1>1, TextEnds
<1>6. \A m \in stored : m \in 0..MaxId /\ m # 0
  BY <1>1, MaxIdAssumption DEF Ids
<1>7. /\ SeededLatest \in 0..MaxId
      /\ SeededLatest # 0 => SeededLatest \in stored
      /\ SeededLatest = 0 => stored = {}
      /\ latest # 0 => SeededLatest = latest
  <2>1. CASE latest # 0
    BY <1>1, <1>3, <2>1 DEF SeededLatest
  <2>2. CASE latest = 0 /\ stored # {}
    BY <1>5, <1>6, <2>2 DEF SeededLatest
  <2>3. CASE latest = 0 /\ stored = {}
    BY <1>1, <1>5, <2>3 DEF SeededLatest
  <2> QED BY <2>1, <2>2, <2>3
<1>8. /\ SeededCursor \in 0..MaxId
      /\ SeededCursor # 0 => SeededCursor \in stored
      /\ SeededCursor = 0 => stored = {}
      /\ cursor # 0 => SeededCursor = cursor
  <2>1. CASE cursor # 0
    BY <1>1, <1>4, <2>1 DEF SeededCursor
  <2>2. CASE cursor = 0 /\ stored # {}
    BY <1>5, <1>6, <2>2 DEF SeededCursor
  <2>3. CASE cursor = 0 /\ stored = {}
    BY <1>1, <1>5, <2>3 DEF SeededCursor
  <2> QED BY <2>1, <2>2, <2>3
<1> QED BY <1>2, <1>7, <1>8

LEMMA CoreInit == Init => Core
<1> SUFFICES ASSUME Init PROVE Core
  OBVIOUS
<1> USE MaxIdAssumption, PagesAssumption, AbortsAssumption DEF Init
<1>1. Numbers
  BY DEF Numbers, Ids, Resting, Working
<1>2. Flags
  BY Zenon DEF Flags
<1>3. TypeOK
  BY <1>1, <1>2, Zenon DEF TypeOK, Numbers, Flags
<1>4. PageInv
  BY DEF PageInv
<1>5. RowsInv
  BY DEF RowsInv, CheckpointsHaveRows
<1>6. ControlInv
  BY DEF ControlInv, ForwardPcs, BackfillPcs, BootstrapPcs, BelowPcs, Resting
<1>7. BlankInv
  BY DEF BlankInv, BootstrapPcs
<1> QED BY <1>3, <1>4, <1>5, <1>6, <1>7 DEF Core

LEMMA CoreStep == Core /\ [Next]_vars => Core'
<1> SUFFICES ASSUME TypeOK, PageInv, RowsInv, ControlInv, BlankInv, [Next]_vars
             PROVE  TypeOK' /\ PageInv' /\ RowsInv' /\ ControlInv' /\ BlankInv'
  BY DEF Core
<1> USE MaxIdAssumption, PagesAssumption, AbortsAssumption, CutoffsAssumption
    DEF remoteVars, durableVars, request, locals, ghostVars, StepFrame, ClearLocals, Goto
<1>1. CASE Post
  <2>1. Numbers'
    BY <1>1 DEF Post, TypeOK, Numbers
  <2>2. Flags'
    BY <1>1, Zenon DEF Post, TypeOK, Flags
  <2>3. TypeOK'
    BY <2>1, <2>2, Zenon DEF TypeOK, Numbers, Flags
  <2>4. PageInv'
    BY <1>1 DEF Post, TypeOK, PageInv, Eligible
  <2>5. RowsInv'
    BY <1>1 DEF Post, RowsInv, CheckpointsHaveRows, Eligible
  <2>6. ControlInv'
    BY <1>1 DEF Post, ControlInv
  <2>7. BlankInv'
    BY <1>1 DEF Post, BlankInv
  <2> QED BY <2>3, <2>4, <2>5, <2>6, <2>7
<1>2. CASE Delete
  <2>1. Numbers'
    BY <1>2 DEF Delete, TypeOK, Numbers
  <2>2. Flags'
    BY <1>2, Zenon DEF Delete, TypeOK, Flags
  <2>3. TypeOK'
    BY <2>1, <2>2, Zenon DEF TypeOK, Numbers, Flags
  <2>4. PageInv'
    BY <1>2 DEF Delete, PageInv, Eligible
  <2>5. RowsInv'
    BY <1>2 DEF Delete, RowsInv, CheckpointsHaveRows, Eligible
  <2>6. ControlInv'
    BY <1>2 DEF Delete, ControlInv
  <2>7. BlankInv'
    BY <1>2 DEF Delete, BlankInv
  <2> QED BY <2>3, <2>4, <2>5, <2>6, <2>7
<1>3. CASE ListChannels
  <2>1. Numbers'
    BY <1>3 DEF ListChannels, TypeOK, Working, Numbers
  <2>2. Flags'
    BY <1>3, Zenon DEF ListChannels, TypeOK, Flags
  <2>3. TypeOK'
    BY <2>1, <2>2, Zenon DEF TypeOK, Numbers, Flags
  <2>4. PageInv'
    BY <1>3 DEF ListChannels, PageInv
  <2>5. RowsInv'
    BY <1>3 DEF ListChannels, RowsInv, ControlInv, CheckpointsHaveRows
  <2>6. ControlInv'
    BY <1>3 DEF ListChannels, ControlInv, ForwardPcs, BackfillPcs, BootstrapPcs
  <2>7. BlankInv'
    BY <1>3 DEF ListChannels, BlankInv, BootstrapPcs
  <2> QED BY <2>3, <2>4, <2>5, <2>6, <2>7
<1>4. CASE SyncFull
  <2>1. /\ UNCHANGED <<remoteVars, stored, latest, cursor, target, ghostVars>>
        /\ since' \in Cutoffs /\ pc = "listed"
        /\ pc' \in {"succeeded", "forward", "backfill"}
    BY <1>4, Zenon DEF SyncFull, StartFull, SkipRun, BeginCrawl
  <2>2. /\ newest' \in {0, SeededLatest} /\ before' \in {0, SeededLatest, SeededCursor}
        /\ page' \in {page, {}} /\ fuel' \in {0, PagesPerRun}
    BY <1>4 DEF SyncFull, StartFull, SkipRun, BeginCrawl
  <2>3. SeededLatest \in 0..MaxId /\ SeededCursor \in 0..MaxId
    BY SeedEnds
  <2>4. SeededLatest \in {0} \cup stored /\ SeededCursor \in {0} \cup stored
    BY SeedEnds
  <2>5. Numbers'
    BY <2>1, <2>2, <2>3 DEF TypeOK, Numbers, Resting, Working
  <2>6. Flags'
    BY <1>4, Zenon DEF SyncFull, StartFull, TypeOK, Flags
  <2>7. TypeOK'
    BY <2>5, <2>6, Zenon DEF TypeOK, Numbers, Flags
  <2>8. PageInv'
    BY <2>1, <2>2, <2>3, <2>4 DEF TypeOK, PageInv
  <2>9. RowsInv'
    BY <1>4, SeedEnds DEF SyncFull, StartFull, SkipRun, BeginCrawl, RowsInv, CheckpointsHaveRows
  <2>10. ControlInv'
    BY <1>4, SeedEnds DEF SyncFull, StartFull, SkipRun, BeginCrawl, TypeOK, ControlInv, Resting,
                          ForwardPcs, BackfillPcs, BootstrapPcs, BelowPcs
  <2>11. BlankInv'
    BY <1>4 DEF SyncFull, StartFull, SkipRun, BeginCrawl, BlankInv, BootstrapPcs
  <2> QED BY <2>7, <2>8, <2>9, <2>10, <2>11
<1>5. CASE SyncIncremental
  <2>1. /\ UNCHANGED <<remoteVars, durableVars, target, aborts>>
        /\ since' \in Cutoffs /\ pc = "listed"
        /\ pc' \in {"succeeded", "forward", "bootstrap"}
    BY <1>5, Zenon DEF SyncIncremental, StartIncremental, SkipRun, BeginCrawl
  <2>2. /\ newest' \in {0, latest} /\ before' = 0
        /\ page' \in {page, {}} /\ fuel' \in {0, PagesPerRun}
    BY <1>5 DEF SyncIncremental, StartIncremental, SkipRun, BeginCrawl
  <2>3. Numbers'
    BY <2>1, <2>2 DEF TypeOK, Numbers, Resting, Working
  <2>4. Flags'
    BY <1>5, Zenon DEF SyncIncremental, StartIncremental, TypeOK, Flags
  <2>5. TypeOK'
    BY <2>3, <2>4, Zenon DEF TypeOK, Numbers, Flags
  <2>6. PageInv'
    BY <2>1, <2>2 DEF TypeOK, PageInv, RowsInv, CheckpointsHaveRows
  <2>7. RowsInv'
    BY <1>5 DEF SyncIncremental, StartIncremental, SkipRun, BeginCrawl, RowsInv,
                CheckpointsHaveRows
  <2>8. ControlInv'
    BY <1>5 DEF SyncIncremental, StartIncremental, SkipRun, BeginCrawl, TypeOK, ControlInv,
                Resting, ForwardPcs, BackfillPcs, BootstrapPcs
  <2>9. BlankInv'
    <3> SUFFICES ASSUME ~rebootstrapped', pc' \in BootstrapPcs PROVE ~complete' /\ cursor' = 0
      BY DEF BlankInv
    <3>1. rebootstrapped' = (rebootstrapped \/ stored # {} \/ complete)
      BY <1>5, Zenon DEF SyncIncremental, StartIncremental, SkipRun, BeginCrawl, BootstrapPcs
    <3>2. stored = {} /\ ~complete
      BY <3>1
    <3> QED BY <2>1, <3>2 DEF RowsInv, CheckpointsHaveRows
  <2> QED BY <2>5, <2>6, <2>7, <2>8, <2>9
<1>6. CASE ForwardFetch
  <2>1. Numbers'
    BY <1>6 DEF ForwardFetch, FetchAt, PagesAfter, SpendFuel, TypeOK, Working, Ids, Numbers
  <2>2. Flags'
    BY <1>6, Zenon DEF ForwardFetch, FetchAt, TypeOK, Flags
  <2>3. TypeOK'
    BY <2>1, <2>2, Zenon DEF TypeOK, Numbers, Flags
  <2>4. PageInv'
    BY <1>6 DEF ForwardFetch, FetchAt, PagesAfter, TypeOK, PageInv
  <2>5. RowsInv'
    BY <1>6 DEF ForwardFetch, FetchAt, RowsInv, CheckpointsHaveRows
  <2>6. ControlInv'
    BY <1>6 DEF ForwardFetch, FetchAt, ControlInv, Resting, ForwardPcs, BackfillPcs,
                BootstrapPcs, BelowPcs
  <2>7. BlankInv'
    BY <1>6 DEF ForwardFetch, FetchAt, BlankInv, BootstrapPcs
  <2> QED BY <2>3, <2>4, <2>5, <2>6, <2>7
<1>7. CASE ForwardPersist
  <2>1. Numbers'
    BY <1>7, PageEnds DEF ForwardPersist, PersistAt, TypeOK, Working, Larger, PageInv, Numbers
  <2>2. Flags'
    BY <1>7, Zenon DEF ForwardPersist, PersistAt, TypeOK, Flags
  <2>3. TypeOK'
    BY <2>1, <2>2, Zenon DEF TypeOK, Numbers, Flags
  <2>4. PageInv'
    BY <1>7, PageEnds DEF ForwardPersist, PersistAt, TypeOK, PageInv, Larger
  <2>5. RowsInv'
    BY <1>7, PageEnds DEF ForwardPersist, PersistAt, RowsInv, CheckpointsHaveRows, Larger
  <2>6. ControlInv'
    BY <1>7, PageEnds DEF ForwardPersist, PersistAt, TypeOK, ControlInv, Resting, ForwardPcs,
                          BackfillPcs, BootstrapPcs, BelowPcs, Larger
  <2>7. BlankInv'
    BY <1>7 DEF ForwardPersist, PersistAt, BlankInv, BootstrapPcs
  <2> QED BY <2>3, <2>4, <2>5, <2>6, <2>7
<1>8. CASE ForwardSave
  <2>1. Numbers'
    BY <1>8 DEF ForwardSave, ForwardSaveThen, SaveLatest, TypeOK, Working, Numbers
  <2>2. Flags'
    BY <1>8, Zenon DEF ForwardSave, ForwardSaveThen, SaveLatest, TypeOK, Flags
  <2>3. TypeOK'
    BY <2>1, <2>2, Zenon DEF TypeOK, Numbers, Flags
  <2>4. PageInv'
    BY <1>8 DEF ForwardSave, ForwardSaveThen, SaveLatest, PageInv
  <2>5. RowsInv'
    BY <1>8 DEF ForwardSave, ForwardSaveThen, SaveLatest, RowsInv, CheckpointsHaveRows
  <2>6. ControlInv'
    BY <1>8 DEF ForwardSave, ForwardSaveThen, SaveLatest, TypeOK, ControlInv, Resting,
                ForwardPcs, BackfillPcs, BootstrapPcs
  <2>7. BlankInv'
    BY <1>8 DEF ForwardSave, ForwardSaveThen, BlankInv, BootstrapPcs
  <2> QED BY <2>3, <2>4, <2>5, <2>6, <2>7
<1>9. CASE ForwardEnd
  <2>1. /\ pc' \in {"succeeded", "finish", "backfill"}
        /\ UNCHANGED <<remoteVars, request, ghostVars, stored, cursor>>
        /\ latest' = newest
    BY <1>9, Zenon DEF ForwardEnd, ForwardEndWith, SaveLatest
  <2>2. \/ UNCHANGED locals
        \/ ClearLocals
    BY <1>9, Zenon DEF ForwardEnd, ForwardEndWith
  <2>3. Numbers'
    BY <2>1, <2>2 DEF TypeOK, Numbers, Resting, Working
  <2>4. Flags'
    BY <1>9, Zenon DEF ForwardEnd, ForwardEndWith, SaveLatest, TypeOK, Flags
  <2>5. TypeOK'
    BY <2>3, <2>4, Zenon DEF TypeOK, Numbers, Flags
  <2>6. pc' \notin {"forwardPersist", "backfillPersist", "bootstrapPersist",
                    "backfillLatest", "backfillCursor", "bootstrapCursor"}
    BY <2>1
  <2>7. newest' \in {0, newest} /\ before' \in {0, before} /\ page' \in {{}, page}
    BY <2>2
  <2>8. posted' = posted /\ posted \in Nat /\ stored' = stored
    BY <2>1 DEF TypeOK
  <2>9. /\ stored \subseteq 1..posted /\ page \subseteq 1..posted
         /\ newest =< posted /\ before =< posted
    BY DEF PageInv
  <2>10. /\ stored' \subseteq 1..posted' /\ page' \subseteq 1..posted'
         /\ newest' =< posted' /\ before' =< posted'
    <3>1. stored' \subseteq 1..posted'
      BY <2>8, <2>9
    <3>2. page' \subseteq 1..posted'
      BY <2>7, <2>8, <2>9
    <3>3. newest' =< posted' /\ before' =< posted'
      BY <2>7, <2>8, <2>9 DEF TypeOK
    <3> QED BY <3>1, <3>2, <3>3
  <2>11. PageInv'
    BY <2>6, <2>10 DEF PageInv
  <2>12. RowsInv'
    BY <1>9 DEF ForwardEnd, ForwardEndWith, SaveLatest, RowsInv, CheckpointsHaveRows
  <2>13. ControlInv'
    BY <1>9 DEF ForwardEnd, ForwardEndWith, SaveLatest, TypeOK, ControlInv, Resting, ForwardPcs,
                BackfillPcs, BootstrapPcs, BelowPcs
  <2>14. BlankInv'
    BY <1>9 DEF ForwardEnd, ForwardEndWith, BlankInv, BootstrapPcs
  <2> QED BY <2>5, <2>11, <2>12, <2>13, <2>14
<1>10. CASE BackfillFetch
  <2>1. Numbers'
    BY <1>10 DEF BackfillFetch, FetchAt, PagesBefore, SpendFuel, TypeOK, Working, Ids, Numbers
  <2>2. Flags'
    BY <1>10, Zenon DEF BackfillFetch, FetchAt, TypeOK, Flags
  <2>3. TypeOK'
    BY <2>1, <2>2, Zenon DEF TypeOK, Numbers, Flags
  <2>4. PageInv'
    BY <1>10 DEF BackfillFetch, FetchAt, PagesBefore, TypeOK, PageInv
  <2>5. RowsInv'
    BY <1>10 DEF BackfillFetch, FetchAt, RowsInv, CheckpointsHaveRows
  <2>6. ControlInv'
    BY <1>10 DEF BackfillFetch, FetchAt, PagesBefore, ControlInv, Resting, ForwardPcs,
                 BackfillPcs, BootstrapPcs
  <2>7. BlankInv'
    BY <1>10 DEF BackfillFetch, FetchAt, BlankInv, BootstrapPcs
  <2> QED BY <2>3, <2>4, <2>5, <2>6, <2>7
<1>11. CASE BackfillPersist
  <2>1. pc' \in {"finish", "backfillLatest"} /\ (pc' = "backfillLatest" => Eligible # {})
    BY <1>11 DEF BackfillPersist, PersistAt
  <2>2. newest' \in {newest} \cup Eligible /\ Eligible \subseteq page
    BY <1>11, PageEnds DEF BackfillPersist, PersistAt, Larger
  <2>3. Eligible' = Eligible
    BY <1>11 DEF BackfillPersist, PersistAt, Eligible
  <2>4. Numbers'
    BY <1>11, <2>1, <2>2 DEF BackfillPersist, PersistAt, TypeOK, Numbers, Working, Ids
  <2>5. Flags'
    BY <1>11, Zenon DEF BackfillPersist, PersistAt, TypeOK, Flags
  <2>6. TypeOK'
    BY <2>4, <2>5, Zenon DEF TypeOK, Numbers, Flags
  <2>7. PageInv'
    BY <1>11, <2>1, <2>2, <2>3 DEF BackfillPersist, PersistAt, TypeOK, PageInv
  <2>8. RowsInv'
    BY <1>11, PageEnds DEF BackfillPersist, PersistAt, RowsInv, CheckpointsHaveRows, Larger,
                           Eligible
  <2>9. ControlInv'
    BY <1>11, PageEnds DEF BackfillPersist, PersistAt, TypeOK, ControlInv, Resting, ForwardPcs,
                           BackfillPcs, BootstrapPcs, BelowPcs, Larger
  <2>10. BlankInv'
    BY <1>11 DEF BackfillPersist, PersistAt, BlankInv, BootstrapPcs
  <2> QED BY <2>6, <2>7, <2>8, <2>9, <2>10
<1>12. CASE BackfillLatest
  <2>1. Numbers'
    BY <1>12, PageEnds DEF BackfillLatest, BackfillLatestWith, SaveLatest, TypeOK, Working,
                           Numbers
  <2>2. Flags'
    BY <1>12, Zenon DEF BackfillLatest, BackfillLatestWith, SaveLatest, TypeOK, Flags
  <2>3. TypeOK'
    BY <2>1, <2>2, Zenon DEF TypeOK, Numbers, Flags
  <2>4. PageInv'
    BY <1>12, PageEnds DEF BackfillLatest, BackfillLatestWith, SaveLatest, PageInv, Eligible
  <2>5. RowsInv'
    BY <1>12, PageEnds DEF BackfillLatest, BackfillLatestWith, SaveLatest, RowsInv,
                           CheckpointsHaveRows, Eligible
  <2>6. ControlInv'
    BY <1>12, PageEnds DEF BackfillLatest, BackfillLatestWith, SaveLatest, TypeOK, ControlInv,
                           Resting, ForwardPcs, BackfillPcs, BootstrapPcs
  <2>7. BlankInv'
    BY <1>12 DEF BackfillLatest, BackfillLatestWith, BlankInv, BootstrapPcs
  <2> QED BY <2>3, <2>4, <2>5, <2>6, <2>7
<1>13. CASE BackfillCursor
  <2>1. pc' \in {"finish", "backfillComplete", "backfill"}
    BY <1>13 DEF BackfillCursor, BackfillCursorWith
  <2>2. Oldest(Eligible) \in 1..posted /\ Oldest(Eligible) \in Ids
    BY <1>13, PageEnds DEF BackfillCursor, BackfillCursorWith, PageInv, TypeOK
  <2>3. Numbers'
    BY <1>13, <2>1, <2>2 DEF BackfillCursor, BackfillCursorWith, SaveCursor, TypeOK, Numbers,
                             Working
  <2>4. Flags'
    BY <1>13, Zenon DEF BackfillCursor, BackfillCursorWith, SaveCursor, TypeOK, Flags
  <2>5. TypeOK'
    BY <2>3, <2>4, Zenon DEF TypeOK, Numbers, Flags
  <2>6. PageInv'
    BY <1>13, <2>1, <2>2 DEF BackfillCursor, BackfillCursorWith, SaveCursor, PageInv
  <2>7. RowsInv'
    BY <1>13, PageEnds DEF BackfillCursor, BackfillCursorWith, SaveCursor, PageInv, RowsInv,
                           CheckpointsHaveRows
  <2>8. ControlInv'
    BY <1>13, PageEnds DEF BackfillCursor, BackfillCursorWith, SaveCursor, ControlInv, Resting,
                           ForwardPcs, BackfillPcs, BootstrapPcs
  <2>9. BlankInv'
    BY <1>13 DEF BackfillCursor, BackfillCursorWith, BlankInv, BootstrapPcs
  <2> QED BY <2>5, <2>6, <2>7, <2>8, <2>9
<1>14. CASE BackfillComplete
  <2>1. Numbers'
    BY <1>14 DEF BackfillComplete, SaveComplete, TypeOK, Working, Numbers
  <2>2. Flags'
    BY <1>14, Zenon DEF BackfillComplete, SaveComplete, TypeOK, Flags
  <2>3. TypeOK'
    BY <2>1, <2>2, Zenon DEF TypeOK, Numbers, Flags
  <2>4. PageInv'
    BY <1>14 DEF BackfillComplete, SaveComplete, PageInv
  <2>5. RowsInv'
    BY <1>14 DEF BackfillComplete, SaveComplete, RowsInv, CheckpointsHaveRows
  <2>6. ControlInv'
    BY <1>14 DEF BackfillComplete, SaveComplete, ControlInv, Resting, ForwardPcs, BackfillPcs,
                 BootstrapPcs, BelowPcs
  <2>7. BlankInv'
    BY <1>14 DEF BackfillComplete, BlankInv, BootstrapPcs
  <2> QED BY <2>3, <2>4, <2>5, <2>6, <2>7
<1>15. CASE Finish
  <2>1. Numbers'
    BY <1>15 DEF Finish, SaveLatest, TypeOK, Resting, Numbers
  <2>2. Flags'
    BY <1>15, Zenon DEF Finish, SaveLatest, TypeOK, Flags
  <2>3. TypeOK'
    BY <2>1, <2>2, Zenon DEF TypeOK, Numbers, Flags
  <2>4. PageInv'
    BY <1>15 DEF Finish, SaveLatest, TypeOK, PageInv
  <2>5. RowsInv'
    BY <1>15 DEF Finish, SaveLatest, RowsInv, CheckpointsHaveRows
  <2>6. ControlInv'
    BY <1>15 DEF Finish, ControlInv, ForwardPcs, BackfillPcs, BootstrapPcs
  <2>7. BlankInv'
    BY <1>15 DEF Finish, BlankInv, BootstrapPcs
  <2> QED BY <2>3, <2>4, <2>5, <2>6, <2>7
<1>16. CASE BootstrapFetch
  <2>1. Numbers'
    BY <1>16 DEF BootstrapFetch, FetchAt, PagesBefore, SpendFuel, TypeOK, Working, Ids, Numbers
  <2>2. Flags'
    BY <1>16, Zenon DEF BootstrapFetch, FetchAt, TypeOK, Flags
  <2>3. TypeOK'
    BY <2>1, <2>2, Zenon DEF TypeOK, Numbers, Flags
  <2>4. PageInv'
    BY <1>16 DEF BootstrapFetch, FetchAt, PagesBefore, TypeOK, PageInv
  <2>5. RowsInv'
    BY <1>16 DEF BootstrapFetch, FetchAt, RowsInv, CheckpointsHaveRows
  <2>6. ControlInv'
    BY <1>16 DEF BootstrapFetch, FetchAt, PagesBefore, ControlInv, Resting, ForwardPcs,
                 BackfillPcs, BootstrapPcs
  <2>7. BlankInv'
    BY <1>16 DEF BootstrapFetch, FetchAt, BlankInv, BootstrapPcs
  <2> QED BY <2>3, <2>4, <2>5, <2>6, <2>7
<1>17. CASE BootstrapPersist
  <2>1. /\ pc' \in {"bootstrapEnd", "bootstrapCursor", "bootstrapComplete", "bootstrap"}
        /\ pc' = "bootstrapCursor" => Eligible # {}
    BY <1>17 DEF BootstrapPersist, PersistAt
  <2>2. newest' \in {newest} \cup Eligible /\ Eligible \subseteq page
    BY <1>17, PageEnds DEF BootstrapPersist, PersistAt, Larger
  <2>3. Eligible' = Eligible
    BY <1>17 DEF BootstrapPersist, PersistAt, Eligible
  <2>4. Oldest(page) \in page
    BY <1>17, PageEnds DEF BootstrapPersist, PersistAt, PageInv
  <2>5. /\ before' \in page
         /\ stored' = stored \cup Eligible
         /\ UNCHANGED <<remoteVars, since, target, aborts, latest, cursor, page, fuel>>
    BY <1>17, <2>4, Zenon DEF BootstrapPersist, PersistAt
  <2>6. Numbers'
    BY <2>1, <2>2, <2>5 DEF TypeOK, Numbers, Working, Ids
  <2>7. Flags'
    BY <1>17, Zenon DEF BootstrapPersist, PersistAt, TypeOK, Flags
  <2>8. TypeOK'
    BY <2>6, <2>7, Zenon DEF TypeOK, Numbers, Flags
  <2>9. page # {}
    BY <1>17 DEF BootstrapPersist, PersistAt, PageInv
  <2>10. PageInv'
    BY <2>1, <2>2, <2>3, <2>5, <2>9 DEF TypeOK, PageInv
  <2>11. RowsInv'
    BY <1>17, PageEnds DEF BootstrapPersist, PersistAt, PageInv, RowsInv, CheckpointsHaveRows,
                           ReachedSince, Larger, Eligible
  <2>12. ControlInv'
    BY <1>17, PageEnds DEF BootstrapPersist, PersistAt, ControlInv, Resting, ForwardPcs,
                           BackfillPcs, BootstrapPcs, BelowPcs
  <2>13. BlankInv'
    BY <1>17 DEF BootstrapPersist, PersistAt, BlankInv, BootstrapPcs
  <2> QED BY <2>8, <2>10, <2>11, <2>12, <2>13
<1>18. CASE BootstrapCursor
  <2>1. Oldest(Eligible) \in Ids
    BY <1>18, PageEnds DEF BootstrapCursor, PageInv, TypeOK
  <2>2. Numbers'
    BY <1>18, <2>1 DEF BootstrapCursor, SaveCursor, TypeOK, Numbers, Working, Ids
  <2>3. Flags'
    BY <1>18, Zenon DEF BootstrapCursor, SaveCursor, TypeOK, Flags
  <2>4. TypeOK'
    BY <2>2, <2>3, Zenon DEF TypeOK, Numbers, Flags
  <2>5. PageInv'
    BY <1>18, PageEnds DEF BootstrapCursor, SaveCursor, PageInv
  <2>6. RowsInv'
    BY <1>18, PageEnds DEF BootstrapCursor, SaveCursor, PageInv, RowsInv, CheckpointsHaveRows
  <2>7. ControlInv'
    BY <1>18, PageEnds DEF BootstrapCursor, SaveCursor, ControlInv, Resting, ForwardPcs,
                           BackfillPcs, BootstrapPcs, BelowPcs
  <2>8. BlankInv'
    BY <1>18 DEF BootstrapCursor, BlankInv
  <2> QED BY <2>4, <2>5, <2>6, <2>7, <2>8
<1>19. CASE BootstrapComplete
  <2>1. Numbers'
    BY <1>19 DEF BootstrapComplete, SaveComplete, TypeOK, Working, Numbers
  <2>2. Flags'
    BY <1>19, Zenon DEF BootstrapComplete, SaveComplete, TypeOK, Flags
  <2>3. TypeOK'
    BY <2>1, <2>2, Zenon DEF TypeOK, Numbers, Flags
  <2>4. PageInv'
    BY <1>19 DEF BootstrapComplete, SaveComplete, PageInv
  <2>5. RowsInv'
    BY <1>19 DEF BootstrapComplete, SaveComplete, RowsInv, CheckpointsHaveRows
  <2>6. ControlInv'
    BY <1>19 DEF BootstrapComplete, SaveComplete, ControlInv, Resting, ForwardPcs, BackfillPcs,
                 BootstrapPcs, BelowPcs
  <2>7. BlankInv'
    BY <1>19 DEF BootstrapComplete, BlankInv
  <2> QED BY <2>3, <2>4, <2>5, <2>6, <2>7
<1>20. CASE BootstrapEnd
  <2>1. Numbers'
    BY <1>20 DEF BootstrapEnd, SaveLatest, TypeOK, Resting, Numbers
  <2>2. Flags'
    BY <1>20, Zenon DEF BootstrapEnd, SaveLatest, TypeOK, Flags
  <2>3. TypeOK'
    BY <2>1, <2>2, Zenon DEF TypeOK, Numbers, Flags
  <2>4. PageInv'
    BY <1>20 DEF BootstrapEnd, SaveLatest, TypeOK, PageInv
  <2>5. RowsInv'
    BY <1>20 DEF BootstrapEnd, SaveLatest, RowsInv, CheckpointsHaveRows
  <2>6. ControlInv'
    BY <1>20 DEF BootstrapEnd, ControlInv, ForwardPcs, BackfillPcs, BootstrapPcs
  <2>7. BlankInv'
    BY <1>20 DEF BootstrapEnd, BlankInv, BootstrapPcs
  <2> QED BY <2>3, <2>4, <2>5, <2>6, <2>7
<1>21. CASE Abort
  <2>1. Numbers'
    BY <1>21 DEF Abort, StopRun, TypeOK, Resting, Numbers
  <2>2. Flags'
    BY <1>21, Zenon DEF Abort, StopRun, TypeOK, Flags
  <2>3. TypeOK'
    BY <2>1, <2>2, Zenon DEF TypeOK, Numbers, Flags
  <2>4. PageInv'
    BY <1>21 DEF Abort, StopRun, TypeOK, PageInv
  <2>5. RowsInv'
    BY <1>21 DEF Abort, StopRun, RowsInv, CheckpointsHaveRows
  <2>6. ControlInv'
    BY <1>21 DEF Abort, StopRun, ControlInv, ForwardPcs, BackfillPcs, BootstrapPcs
  <2>7. BlankInv'
    BY <1>21 DEF Abort, StopRun, BlankInv, BootstrapPcs
  <2> QED BY <2>3, <2>4, <2>5, <2>6, <2>7
<1>22. CASE DeadlineExpires
  <2>1. Numbers'
    BY <1>22 DEF DeadlineExpires, StopRun, TypeOK, Resting, Numbers
  <2>2. Flags'
    BY <1>22, Zenon DEF DeadlineExpires, StopRun, TypeOK, Flags
  <2>3. TypeOK'
    BY <2>1, <2>2, Zenon DEF TypeOK, Numbers, Flags
  <2>4. PageInv'
    BY <1>22 DEF DeadlineExpires, StopRun, TypeOK, PageInv
  <2>5. RowsInv'
    BY <1>22 DEF DeadlineExpires, StopRun, RowsInv, CheckpointsHaveRows
  <2>6. ControlInv'
    BY <1>22 DEF DeadlineExpires, StopRun, ControlInv, ForwardPcs, BackfillPcs, BootstrapPcs
  <2>7. BlankInv'
    BY <1>22 DEF DeadlineExpires, StopRun, BlankInv, BootstrapPcs
  <2> QED BY <2>3, <2>4, <2>5, <2>6, <2>7
<1>23. CASE UNCHANGED vars
  BY <1>23 DEF vars, TypeOK, PageInv, RowsInv, ControlInv, BlankInv, CheckpointsHaveRows,
               Eligible
<1> QED
  BY <1>1, <1>2, <1>3, <1>4, <1>5, <1>6, <1>7, <1>8, <1>9, <1>10, <1>11, <1>12, <1>13, <1>14,
     <1>15, <1>16, <1>17, <1>18, <1>19, <1>20, <1>21, <1>22, <1>23 DEF Next, Step

\* Only a run writes latest, and it never writes less than it read.
LEMMA LatestStep == Basic /\ [Next]_vars => LatestInv'
<1> SUFFICES ASSUME Core, LatestInv, [Next]_vars PROVE LatestInv'
  BY DEF Basic
<1> USE DEF Core, ForwardPcs, BackfillPcs, BootstrapPcs
<1>1. CASE Post \/ Delete \/ UNCHANGED vars
  BY <1>1 DEF Post, Delete, vars, durableVars, locals, LatestInv
<1>2. CASE ListChannels \/ Abort \/ DeadlineExpires
  BY <1>2 DEF ListChannels, Abort, DeadlineExpires, StopRun, LatestInv
<1>3. CASE SyncFull
  BY <1>3, SeedEnds DEF SyncFull, StartFull, SkipRun, BeginCrawl, TypeOK, LatestInv
<1>4. CASE SyncIncremental
  BY <1>4 DEF SyncIncremental, StartIncremental, SkipRun, BeginCrawl, durableVars, TypeOK, LatestInv
<1>5. CASE ForwardFetch \/ BackfillFetch \/ BootstrapFetch
  BY <1>5 DEF ForwardFetch, BackfillFetch, BootstrapFetch, FetchAt, Goto, durableVars, LatestInv
<1>6. CASE ForwardPersist \/ BackfillPersist \/ BootstrapPersist
  <2>1. /\ latest' = latest /\ newest' \in {newest} \cup {Larger(newest, Newest(page)), Larger(newest, Newest(Eligible))}
        /\ newest' # newest => newest' > newest
    <3>1. \A n : Larger(newest, n) # newest => Larger(newest, n) > newest
      BY DEF Larger
    <3> QED BY <1>6, <3>1 DEF ForwardPersist, BackfillPersist, BootstrapPersist, PersistAt
  <2>2. newest \in Nat /\ latest \in Nat /\ newest' \in Nat
    BY <1>6, CoreStep, MaxIdAssumption DEF TypeOK, Next, Step
  <2>3. latest =< newest => latest' =< newest'
    BY <2>1, <2>2
  <2> QED BY <1>6, <2>1, <2>3
          DEF ForwardPersist, BackfillPersist, BootstrapPersist, PersistAt, Goto, LatestInv
<1>7. CASE ForwardSave \/ ForwardEnd \/ BackfillLatest
  BY <1>7 DEF ForwardSave, ForwardSaveThen, ForwardEnd, ForwardEndWith, BackfillLatest, BackfillLatestWith,
              SaveLatest, Goto, locals, TypeOK, LatestInv
<1>8. CASE BackfillCursor \/ BackfillComplete \/ BootstrapCursor \/ BootstrapComplete
  BY <1>8 DEF BackfillCursor, BackfillCursorWith, BackfillComplete, BootstrapCursor, BootstrapComplete,
              SaveCursor, SaveComplete, Goto, locals, LatestInv
<1>9. CASE Finish \/ BootstrapEnd
  BY <1>9 DEF Finish, BootstrapEnd, Goto, LatestInv
<1> QED BY <1>1, <1>2, <1>3, <1>4, <1>5, <1>6, <1>7, <1>8, <1>9 DEF Next, Step

LEMMA BasicInit == Init => Basic
<1>1. Init => LatestInv
  BY DEF Init, LatestInv, ForwardPcs, BackfillPcs, BootstrapPcs
<1> QED BY <1>1, CoreInit DEF Basic

LEMMA BasicStep == Basic /\ [Next]_vars => Basic'
BY CoreStep, LatestStep DEF Basic

----------------------------------------------------------------------------
(* Theorems.                                                               *)

LEMMA BasicAlways == Spec => []Basic
<1>1. Init => Basic
  BY BasicInit
<1>2. Basic /\ [Next]_vars => Basic'
  BY BasicStep
<1> QED BY <1>1, <1>2, PTL DEF Spec

\* Every variable keeps its type: no id beyond the posted ones, no counter
\* past its bound.
THEOREM TypeCorrect == Spec => []TypeOK
<1>1. Basic => TypeOK
  BY DEF Basic, Core
<1> QED BY <1>1, BasicAlways, PTL

\* The checkpoints in sync_state always name messages that have a row.
THEOREM CheckpointsNameRows == Spec => []CheckpointsHaveRows
<1>1. Basic => CheckpointsHaveRows
  BY DEF Basic, Core, RowsInv
<1> QED BY <1>1, BasicAlways, PTL

\* latest and history_complete are never taken back, and the backfill cursor
\* descends.
THEOREM CheckpointsOnlyAdvance == Spec => CheckpointsAdvance
<1> DEFINE A == /\ latest' >= latest
                /\ complete => complete'
                /\ cursor # 0 /\ ~rebootstrapped => cursor' =< cursor
<1>1. ASSUME Basic, Next PROVE A
  <2>0. TypeOK /\ PageInv /\ ControlInv /\ LatestInv /\ BlankInv /\ latest \in Nat /\ cursor \in Nat
    BY <1>1 DEF Basic, Core, TypeOK
  <2>1. CASE Post \/ Delete \/ ListChannels \/ SyncIncremental
    BY <2>0, <2>1 DEF Post, Delete, ListChannels, SyncIncremental, StartIncremental, durableVars
  <2>2. CASE SyncFull
    <3>1. latest' = latest /\ cursor' = cursor
      BY <2>2 DEF SyncFull, StartFull
    <3>2. complete => complete'
      BY <2>2, Zenon DEF SyncFull, StartFull
    <3> QED BY <2>0, <3>1, <3>2
  <2>3. CASE ForwardFetch \/ BackfillFetch \/ BootstrapFetch
    BY <2>0, <2>3 DEF ForwardFetch, BackfillFetch, BootstrapFetch, FetchAt, durableVars
  <2>4. CASE ForwardPersist \/ BackfillPersist \/ BootstrapPersist
    BY <2>0, <2>4 DEF ForwardPersist, BackfillPersist, BootstrapPersist, PersistAt
  <2>5. CASE ForwardSave \/ ForwardEnd \/ BackfillLatest \/ Finish
    <3>1. /\ latest' = newest /\ UNCHANGED <<cursor, complete>>
          /\ pc \in ForwardPcs \cup BackfillPcs \cup {"finish"}
      BY <2>5 DEF ForwardSave, ForwardSaveThen, ForwardEnd, ForwardEndWith, BackfillLatest,
                  BackfillLatestWith, Finish, SaveLatest, Goto, ForwardPcs, BackfillPcs
    <3> QED BY <2>0, <3>1 DEF LatestInv, TypeOK
  <2>6. CASE BackfillCursor
    <3>1. /\ cursor' = Oldest(Eligible) /\ UNCHANGED <<latest, complete>>
          /\ pc = "backfillCursor"
      BY <2>6 DEF BackfillCursor, BackfillCursorWith, SaveCursor, Goto
    <3>2. Oldest(Eligible) \in page /\ full
      BY <2>0, <3>1, PageEnds DEF PageInv, ControlInv, BackfillPcs
    <3>3. cursor # 0 => before = cursor
      BY <2>0, <3>1, <3>2 DEF ControlInv, BackfillPcs
    <3>4. before # 0 => Oldest(Eligible) < before
      BY <2>0, <3>1, <3>2 DEF ControlInv
    <3>5. before \in Nat /\ \A p \in page : p \in Nat
      <4>1. page \subseteq Ids /\ before \in 0..MaxId
        BY <2>0 DEF TypeOK
      <4> QED BY <4>1, MaxIdAssumption DEF Ids
    <3> QED BY <2>0, <3>1, <3>2, <3>3, <3>4, <3>5
  <2>7. CASE BackfillComplete \/ BootstrapComplete
    BY <2>0, <2>7 DEF BackfillComplete, BootstrapComplete, SaveComplete
  <2>8. CASE BootstrapCursor
    <3>1. UNCHANGED <<latest, complete>> /\ pc = "bootstrapCursor"
      BY <2>8 DEF BootstrapCursor, SaveCursor, Goto
    <3> QED BY <2>0, <3>1 DEF BlankInv, BootstrapPcs
  <2>9. CASE BootstrapEnd
    <3>1. UNCHANGED <<cursor, complete>> /\ pc = "bootstrapEnd"
      BY <2>9 DEF BootstrapEnd, SaveLatest, Goto
    <3>2. latest' \in {newest, latest}
      BY <2>9 DEF BootstrapEnd, SaveLatest
    <3> QED BY <2>0, <3>1, <3>2 DEF LatestInv, BootstrapPcs, TypeOK
  <2>10. CASE Abort \/ DeadlineExpires
    BY <2>0, <2>10 DEF Abort, DeadlineExpires, StopRun, durableVars
  <2> QED BY <1>1, <2>1, <2>2, <2>3, <2>4, <2>5, <2>6, <2>7, <2>8, <2>9, <2>10
          DEF Next, Step
<1>2. Basic /\ [Next]_vars => [A]_vars
  BY <1>1
<1>3. [][A]_vars => CheckpointsAdvance
  BY DEF CheckpointsAdvance
<1> QED BY <1>2, <1>3, BasicAlways, PTL DEF Spec

----------------------------------------------------------------------------
(* The archive has no hole, for any number of runs of both kinds stopped   *)
(* anywhere, as long as no bootstrap begins on a channel that already has  *)
(* rows or a complete history.                                             *)

\* Known to exist, for the checkpoints or for the run.
Known(m) == ClaimedAbove(m) \/ m =< newest

\* The messages a page fetched below `before` was chosen from; new messages
\* have been posted above it since.
PageUnder(m) == IF before = 0 THEN \E p \in page : m =< p ELSE m < before

\* No hole in what the checkpoints claim, the run's newest id counted in.
ClaimedInv == \A m \in remote : Known(m) /\ ClaimedBelow(m) => m \in stored

\* Nor above the bound of the next backfill page.
AboveInv ==
  pc \in ForwardPcs \cup BelowPcs /\ before # 0 =>
    \A m \in remote : before =< m /\ Known(m) => m \in stored

\* Without that bound the crawl has just begun, on a channel without rows.
FreshInv ==
  pc \in BelowPcs /\ before = 0 =>
    stored = {} /\ newest = 0 /\ latest = 0 /\ cursor = 0

\* A forward page holds everything up to its last message, and everything
\* there was if it is short.
AscendInv ==
  pc = "forwardPersist" =>
    /\ \A p \in page : newest < p
    /\ \A m \in remote, p \in page : newest < m /\ m =< p => m \in page
    /\ ShortPage => \A m \in remote : newest < m /\ m < before => m \in page

\* When the forward crawl is over, newest is above all that a backfill may
\* still come across.
TipInv ==
  /\ (pc = "forwardSave" /\ ShortPage) \/ pc = "forwardEnd"
       => \A m \in remote : m < before => m =< newest
  /\ pc \in BelowPcs \cup {"backfillLatest", "backfillCursor"} /\ before # 0
       => \A m \in remote : m < before => m =< newest
  /\ pc \in {"backfillLatest", "backfillCursor"} => \A e \in Eligible : e =< newest

\* A page below the bound holds everything down to its last message, and
\* everything there is if it is short.
DescendInv ==
  pc \in {"backfillPersist", "bootstrapPersist"} =>
    \A m \in remote :
      PageUnder(m) /\ (ShortPage \/ \E p \in page : p =< m) => m \in page

\* Once it is persisted nothing is missing above it.
DoneInv ==
  pc \in {"backfillLatest", "backfillCursor"} =>
    \A m \in remote :
      Known(m) /\ ((ShortPage /\ ~ReachedSince) \/ \E e \in Eligible : e =< m)
        => m \in stored

\* Where history is about to be declared complete, it is.
FloorInv ==
  pc \in {"backfillComplete", "bootstrapComplete"} =>
    \A m \in remote : Known(m) => m \in stored

GapInv ==
  /\ ClaimedInv
  /\ AboveInv
  /\ FreshInv
  /\ AscendInv
  /\ TipInv
  /\ DescendInv
  /\ DoneInv
  /\ FloorInv

IInv == Basic /\ (~rebootstrapped => GapInv)

----------------------------------------------------------------------------
(* What the action lemmas share.                                           *)

\* Every id is a natural number, and a message has one above 0.
LEMMA Naturals ==
  ASSUME TypeOK
  PROVE  /\ \A m \in remote : m \in Nat /\ m > 0 /\ m =< posted
         /\ \A m \in stored : m \in Nat /\ m > 0
         /\ \A m \in page : m \in Nat /\ m > 0
         /\ posted \in Nat /\ latest \in Nat /\ cursor \in Nat
         /\ newest \in Nat /\ before \in Nat
         /\ Eligible \subseteq page
<1>1. /\ posted \in 0..MaxId /\ remote \subseteq 1..posted
      /\ stored \subseteq Ids /\ page \subseteq Ids
      /\ latest \in 0..MaxId /\ cursor \in 0..MaxId
      /\ newest \in 0..MaxId /\ before \in 0..MaxId
  BY DEF TypeOK
<1>2. Eligible \subseteq page
  BY DEF Eligible
<1> QED BY <1>1, <1>2, MaxIdAssumption DEF Ids

\* Nothing but the claim is asked for where no page is in hand or due.
ActivePcs == ForwardPcs \cup BackfillPcs \cup BelowPcs \cup {"bootstrapComplete"}

LEMMA GapAtRest ==
  ASSUME ClaimedInv', pc' \notin ActivePcs
  PROVE  GapInv'
BY DEF GapInv, AboveInv, FreshInv, AscendInv, TipInv, DescendInv, DoneInv, FloorInv,
       ActivePcs, ForwardPcs, BackfillPcs, BelowPcs

\* An empty page, and any page with fewer messages than were asked for, is
\* all that was asked for.
LEMMA ShortPages ==
  ASSUME NEW P, NEW asked, IsPage(P, asked)
  PROVE  P = {} \/ Cardinality(P) < PageSize => P = asked
BY FS_EmptySet, PageSizeAssumption DEF IsPage

----------------------------------------------------------------------------
(* Discord.                                                                *)

\* A new message is above everything a run or a checkpoint knows of.
LEMMA GapPost ==
  ASSUME Basic, GapInv, Post
  PROVE  GapInv'
<1> USE DEF Basic, Core
<1>1. /\ UNCHANGED <<stored, latest, cursor, complete, pc, since, newest, before, page>>
      /\ remote' = remote \cup {posted + 1}
  BY DEF Post, durableVars, request, locals
<1>2. /\ latest =< posted /\ newest =< posted /\ before =< posted
      /\ \A s \in stored : s =< posted
      /\ \A p \in page : p =< posted
  BY Naturals DEF PageInv, RowsInv, CheckpointsHaveRows
<1>3. ~Known(posted + 1) /\ ~PageUnder(posted + 1)
  BY <1>2, Naturals DEF Known, ClaimedAbove, PageUnder
<1>4. \A m : /\ Known(m)' = Known(m) /\ ClaimedBelow(m)' = ClaimedBelow(m)
             /\ PageUnder(m)' = PageUnder(m)
  BY <1>1 DEF Known, ClaimedAbove, ClaimedBelow, PageUnder
<1>5. Eligible' = Eligible /\ ShortPage' = ShortPage /\ ReachedSince' = ReachedSince
  BY <1>1 DEF Eligible, ShortPage, ReachedSince
<1>6. \A m \in remote' : m \in remote \/ m = posted + 1
  BY <1>1
<1>7. \A p \in page : ~(posted + 1 =< p)
  BY <1>2, Naturals
<1>8. ~(posted + 1 < before)
  BY <1>2, Naturals
<1>11. ClaimedInv'
  BY <1>1, <1>3, <1>4, <1>6 DEF GapInv, ClaimedInv
<1>12. AboveInv'
  BY <1>1, <1>3, <1>4, <1>6 DEF GapInv, AboveInv
<1>13. FreshInv'
  BY <1>1 DEF GapInv, FreshInv
<1>14. AscendInv'
  BY <1>1, <1>5, <1>6, <1>7, <1>8 DEF GapInv, AscendInv
<1>15. TipInv'
  BY <1>1, <1>5, <1>6, <1>8 DEF GapInv, TipInv
<1>16. DescendInv'
  BY <1>1, <1>3, <1>4, <1>5, <1>6 DEF GapInv, DescendInv
<1>17. DoneInv'
  BY <1>1, <1>3, <1>4, <1>5, <1>6 DEF GapInv, DoneInv
<1>18. FloorInv'
  BY <1>1, <1>3, <1>4, <1>6 DEF GapInv, FloorInv
<1> QED BY <1>11, <1>12, <1>13, <1>14, <1>15, <1>16, <1>17, <1>18 DEF GapInv

\* Every part of GapInv is about the messages that still exist.
LEMMA GapDelete ==
  ASSUME GapInv, Delete
  PROVE  GapInv'
<1>1. /\ UNCHANGED <<stored, latest, cursor, complete, pc, since, newest, before, page>>
      /\ remote' \subseteq remote
  BY DEF Delete, durableVars, request, locals
<1>2. \A m : /\ Known(m)' = Known(m) /\ ClaimedBelow(m)' = ClaimedBelow(m)
             /\ PageUnder(m)' = PageUnder(m)
  BY <1>1 DEF Known, ClaimedAbove, ClaimedBelow, PageUnder
<1>3. Eligible' = Eligible /\ ShortPage' = ShortPage /\ ReachedSince' = ReachedSince
  BY <1>1 DEF Eligible, ShortPage, ReachedSince
<1>4. ClaimedInv' /\ AboveInv' /\ FreshInv'
  BY <1>1, <1>2 DEF GapInv, ClaimedInv, AboveInv, FreshInv
<1>5. AscendInv' /\ TipInv'
  BY <1>1, <1>3 DEF GapInv, AscendInv, TipInv
<1>6. DescendInv' /\ DoneInv' /\ FloorInv'
  BY <1>1, <1>2, <1>3 DEF GapInv, DescendInv, DoneInv, FloorInv
<1> QED BY <1>4, <1>5, <1>6 DEF GapInv

----------------------------------------------------------------------------
(* Runs begin and stop.                                                    *)

\* Between runs, and when one is stopped, only the checkpoints count.
LEMMA GapStop ==
  ASSUME Basic, GapInv, ListChannels \/ Abort \/ DeadlineExpires
  PROVE  GapInv'
<1>1. /\ UNCHANGED <<remote, stored, latest, cursor, complete>>
      /\ newest' \in {newest, 0} /\ pc' \in {"listed", "idle"}
  BY DEF ListChannels, Abort, DeadlineExpires, StopRun, ClearLocals,
         remoteVars, durableVars, locals
<1>2. \A m \in remote : Known(m)' => Known(m)
  BY <1>1, Naturals DEF Basic, Core, Known, ClaimedAbove
<1>3. \A m : ClaimedBelow(m)' = ClaimedBelow(m)
  BY <1>1 DEF ClaimedBelow
<1>4. ClaimedInv'
  BY <1>1, <1>2, <1>3 DEF GapInv, ClaimedInv
<1> QED
  BY <1>1, <1>4, GapAtRest DEF ActivePcs, ForwardPcs, BackfillPcs, BelowPcs

\* A full run starts from the checkpoints or from the ends of the rows.
LEMMA GapFull ==
  ASSUME Basic, GapInv, SyncFull
  PROVE  GapInv'
<1> USE DEF Basic, Core
<1>1. PICK id : StartFull(id)
  BY DEF SyncFull
<1>2. pc = "listed" /\ newest = 0 /\ before = 0
  BY <1>1 DEF StartFull, ControlInv
<1>3. UNCHANGED <<remote, stored, latest, cursor>>
  BY <1>1 DEF StartFull, remoteVars
<1>4. /\ SeededLatest # 0 => SeededLatest \in stored
      /\ SeededCursor # 0 => SeededCursor \in stored
      /\ SeededLatest = 0 => stored = {} /\ latest = 0
      /\ SeededCursor = 0 => stored = {} /\ cursor = 0 /\ latest = 0
      /\ latest # 0 => SeededLatest = latest
      /\ cursor # 0 => SeededCursor = cursor
  BY SeedEnds
<1>5. complete' <=> complete
  BY <1>1, <1>4 DEF StartFull
<1>6. \A m : ClaimedBelow(m)' <=> ClaimedBelow(m)
  BY <1>3, <1>5 DEF ClaimedBelow
<1>7. \/ newest' = 0 /\ pc' = "succeeded"
      \/ /\ newest' = SeededLatest /\ SeededLatest # 0 /\ pc' = "forward"
         /\ before' = IF SeededCursor # 0 THEN SeededCursor ELSE SeededLatest
      \/ /\ newest' = 0 /\ SeededLatest = 0 /\ pc' = "backfill"
         /\ before' = IF SeededCursor # 0 THEN SeededCursor ELSE SeededLatest
  BY <1>1 DEF StartFull, SkipRun, BeginCrawl, ClearLocals
<1>8. \A m \in remote : Known(m)' => ClaimedAbove(m)
  BY <1>3, <1>4, <1>7, Naturals DEF Known, ClaimedAbove
<1>9. ClaimedInv'
  BY <1>3, <1>6, <1>8 DEF GapInv, ClaimedInv, Known
<1>10. CASE pc' = "succeeded"
  BY <1>9, <1>10, GapAtRest DEF ActivePcs, ForwardPcs, BackfillPcs, BelowPcs
<1>11. CASE pc' = "forward"
  <2>1. SeededCursor # 0 /\ before' = SeededCursor
    BY <1>4, <1>7, <1>11
  <2>2. \A m \in remote : before' =< m => ClaimedBelow(m)
    BY <1>4, <2>1 DEF ClaimedBelow
  <2>3. AboveInv'
    BY <1>3, <1>8, <2>2 DEF GapInv, AboveInv, ClaimedInv, Known
  <2> QED BY <1>9, <1>11, <2>3
          DEF GapInv, FreshInv, AscendInv, TipInv, DescendInv, DoneInv, FloorInv, BelowPcs
<1>12. CASE pc' = "backfill"
  <2>1. before' = 0 /\ stored = {} /\ newest' = 0 /\ latest = 0 /\ cursor = 0
    BY <1>4, <1>7, <1>12, Naturals DEF RowsInv, CheckpointsHaveRows
  <2>2. AboveInv' /\ FreshInv'
    BY <1>3, <2>1 DEF AboveInv, FreshInv
  <2> QED BY <1>9, <1>12, <2>1, <2>2
          DEF GapInv, AscendInv, TipInv, DescendInv, DoneInv, FloorInv
<1> QED BY <1>7, <1>10, <1>11, <1>12

\* An incremental run starts from the checkpoint, or bootstraps a channel
\* that has no row.
LEMMA GapIncremental ==
  ASSUME Basic, GapInv, SyncIncremental, ~rebootstrapped'
  PROVE  GapInv'
<1> USE DEF Basic, Core
<1>1. PICK id : StartIncremental(id)
  BY DEF SyncIncremental
<1>2. pc = "listed" /\ newest = 0 /\ before = 0
  BY <1>1 DEF StartIncremental, ControlInv
<1>3. UNCHANGED <<remote, stored, latest, cursor, complete>>
  BY <1>1 DEF StartIncremental, remoteVars, durableVars
<1>4. \/ newest' = 0 /\ pc' = "succeeded"
      \/ newest' = latest /\ before' = 0 /\ pc' = "forward" /\ latest # 0
      \/ /\ newest' = 0 /\ before' = 0 /\ pc' = "bootstrap" /\ latest = 0
         /\ rebootstrapped' = (rebootstrapped \/ stored # {} \/ complete)
  BY <1>1 DEF StartIncremental, SkipRun, BeginCrawl, ClearLocals
<1>5. \A m : ClaimedBelow(m)' = ClaimedBelow(m)
  BY <1>3 DEF ClaimedBelow
<1>6. \A m \in remote : Known(m)' => ClaimedAbove(m)
  BY <1>3, <1>4, Naturals DEF Known, ClaimedAbove
<1>7. ClaimedInv'
  BY <1>3, <1>5, <1>6 DEF GapInv, ClaimedInv, Known
<1>8. CASE pc' = "succeeded"
  BY <1>7, <1>8, GapAtRest DEF ActivePcs, ForwardPcs, BackfillPcs, BelowPcs
<1>9. CASE pc' = "forward"
  <2>1. AboveInv'
    BY <1>4, <1>9 DEF AboveInv
  <2> QED BY <1>7, <1>9, <2>1
          DEF GapInv, FreshInv, AscendInv, TipInv, DescendInv, DoneInv, FloorInv, BelowPcs
<1>10. CASE pc' = "bootstrap"
  <2>1. stored = {}
    BY <1>4, <1>10
  <2>2. before' = 0 /\ newest' = 0 /\ latest = 0 /\ cursor = 0
    BY <1>4, <1>10, <2>1 DEF RowsInv, CheckpointsHaveRows
  <2>3. AboveInv' /\ FreshInv'
    BY <1>3, <2>1, <2>2 DEF AboveInv, FreshInv
  <2> QED BY <1>7, <1>10, <2>2, <2>3
          DEF GapInv, AscendInv, TipInv, DescendInv, DoneInv, FloorInv
<1> QED BY <1>4, <1>8, <1>9, <1>10

----------------------------------------------------------------------------
(* The forward crawl.                                                      *)

\* A page above newest is a stretch that starts right above it.
LEMMA GapForwardFetch ==
  ASSUME Basic, GapInv, ForwardFetch
  PROVE  GapInv'
<1> USE DEF Basic, Core
<1> DEFINE asked == {m \in remote : m > newest}
<1>1. /\ UNCHANGED <<remote, stored, latest, cursor, complete, newest, before>>
      /\ pc = "forward"
      /\ pc' = IF page' = {} THEN "forwardEnd" ELSE "forwardPersist"
      /\ page' \in PagesAfter(newest)
  BY DEF ForwardFetch, FetchAt, Goto, StepFrame, remoteVars, durableVars
<1>2. /\ page' \in SUBSET asked /\ IsPage(page', asked)
      /\ \A m \in asked \ page', p \in page' : p < m
  BY <1>1 DEF PagesAfter
<1>3. page' = {} \/ ShortPage' => page' = asked
  BY <1>2, ShortPages DEF ShortPage
<1>4. \A m : Known(m)' = Known(m) /\ ClaimedBelow(m)' = ClaimedBelow(m)
  BY <1>1 DEF Known, ClaimedAbove, ClaimedBelow
<1>5. ClaimedInv' /\ AboveInv'
  BY <1>1, <1>4 DEF GapInv, ClaimedInv, AboveInv, ForwardPcs, BelowPcs
<1>6. AscendInv'
  BY <1>1, <1>2, <1>3, Naturals DEF AscendInv
<1>7. TipInv'
  BY <1>1, <1>3, Naturals DEF TipInv, BelowPcs
<1> QED BY <1>1, <1>5, <1>6, <1>7
        DEF GapInv, FreshInv, DescendInv, DoneInv, FloorInv, BelowPcs

\* Persisting a page adds its rows and moves newest up to its last id at most.
LEMMA PersistKnown ==
  ASSUME TypeOK, NEW ids \in SUBSET page,
         stored' = stored \cup ids, latest' = latest,
         newest' = IF ids = {} THEN newest ELSE Larger(newest, Newest(ids))
  PROVE  /\ newest =< newest' /\ \A e \in ids : e =< newest'
         /\ newest' \in {newest} \cup ids
         /\ \A m \in Nat : Known(m)' => Known(m) \/ \E e \in ids : m =< e
<1>1. ids \in SUBSET Ids /\ newest \in Nat /\ \A e \in ids : e \in Nat
  BY Naturals DEF TypeOK
<1>2. newest =< newest' /\ (\A e \in ids : e =< newest') /\ newest' \in {newest} \cup ids
  BY <1>1, NewestOldest DEF Larger
<1>3. ASSUME NEW m \in Nat, Known(m)' PROVE Known(m) \/ \E e \in ids : m =< e
  <2>1. ClaimedAbove(m)' => ClaimedAbove(m) \/ \E e \in ids : m =< e
    BY DEF ClaimedAbove
  <2>2. m =< newest' => m =< newest \/ \E e \in ids : m =< e
    BY <1>1, <1>2
  <2> QED BY <1>3, <2>1, <2>2 DEF Known
<1> QED BY <1>2, <1>3

\* What the page lies on was known; what lies within it is on it.
LEMMA GapForwardPersist ==
  ASSUME Basic, GapInv, ForwardPersist
  PROVE  GapInv'
<1> USE DEF Basic, Core
<1>1. /\ UNCHANGED <<remote, latest, cursor, complete, before, page>>
      /\ pc = "forwardPersist" /\ pc' = "forwardSave"
      /\ stored' = stored \cup page
      /\ newest' = IF page = {} THEN newest ELSE Larger(newest, Newest(page))
  BY DEF ForwardPersist, PersistAt, Goto, StepFrame, remoteVars
<1>2. newest # 0 /\ newest \in stored
  BY <1>1 DEF ControlInv, RowsInv, ForwardPcs
<1>3. /\ newest =< newest' /\ \A p \in page : p =< newest'
      /\ newest' \in {newest} \cup page
      /\ \A m \in Nat : Known(m)' => Known(m) \/ \E p \in page : m =< p
  BY <1>1, PersistKnown
<1>4. \A m \in remote : Known(m)' => Known(m) \/ m \in page
  BY <1>1, <1>3, Naturals DEF GapInv, AscendInv, Known
<1>5. \A m \in remote : ClaimedBelow(m)' => ClaimedBelow(m) \/ newest < m
  BY <1>1, Naturals DEF GapInv, AscendInv, ClaimedBelow
<1>6. \A m \in remote : newest < m => ClaimedBelow(m) \/ cursor # 0
  BY <1>2, Naturals DEF ClaimedBelow
<1>7. ClaimedInv'
  <2> SUFFICES ASSUME NEW m \in remote, Known(m)', ClaimedBelow(m)'
               PROVE  m \in stored'
    BY <1>1 DEF ClaimedInv
  <2>1. CASE m \in page
    BY <1>1, <2>1
  <2>2. CASE Known(m)
    <3>1. ClaimedBelow(m)
      BY <1>1, <1>2, <1>5, <1>6, Naturals DEF ClaimedBelow
    <3> QED BY <1>1, <2>2, <3>1 DEF GapInv, ClaimedInv
  <2> QED BY <1>4, <2>1, <2>2
<1>8. AboveInv'
  BY <1>1, <1>4 DEF GapInv, AboveInv, ForwardPcs
<1>9. TipInv'
  BY <1>1, <1>3, Naturals DEF GapInv, AscendInv, TipInv, ShortPage, BelowPcs
<1> QED BY <1>1, <1>7, <1>8, <1>9
        DEF GapInv, FreshInv, AscendInv, DescendInv, DoneInv, FloorInv, BelowPcs

\* The checkpoint moves up to newest, which claims nothing more.
LEMMA SaveKnown ==
  ASSUME Basic, newest # 0 \/ latest = 0, latest' = newest, stored' = stored,
         newest' \in {newest, 0}
  PROVE  \A m \in remote : Known(m)' => Known(m)
BY Naturals DEF Basic, Core, Known, ClaimedAbove

LEMMA GapForwardSave ==
  ASSUME Basic, GapInv, ForwardSave
  PROVE  GapInv'
<1> USE DEF Basic, Core
<1>1. /\ UNCHANGED <<remote, stored, cursor, complete, newest, before>>
      /\ latest' = newest /\ page' = {}
      /\ pc = "forwardSave" /\ pc' = IF ShortPage THEN "forwardEnd" ELSE "forward"
  BY DEF ForwardSave, ForwardSaveThen, SaveLatest, Goto, StepFrame, remoteVars
<1>2. newest # 0
  BY <1>1 DEF ControlInv, ForwardPcs
<1>3. \A m \in remote : Known(m)' => Known(m)
  BY <1>1, <1>2, SaveKnown
<1>4. \A m : ClaimedBelow(m)' = ClaimedBelow(m)
  BY <1>1 DEF ClaimedBelow
<1>5. ClaimedInv' /\ AboveInv'
  BY <1>1, <1>3, <1>4 DEF GapInv, ClaimedInv, AboveInv, ForwardPcs
<1>6. TipInv'
  BY <1>1 DEF GapInv, TipInv, BelowPcs
<1> QED BY <1>1, <1>5, <1>6
        DEF GapInv, FreshInv, AscendInv, DescendInv, DoneInv, FloorInv, BelowPcs

LEMMA GapForwardEnd ==
  ASSUME Basic, GapInv, ForwardEnd
  PROVE  GapInv'
<1> USE DEF Basic, Core
<1>1. /\ UNCHANGED <<remote, stored, cursor, complete, full>>
      /\ latest' = newest /\ pc = "forwardEnd"
      /\ pc' = IF ~full THEN "succeeded" ELSE IF complete THEN "finish" ELSE "backfill"
      /\ IF full THEN UNCHANGED <<newest, before, page>> ELSE newest' = 0
  BY DEF ForwardEnd, ForwardEndWith, SaveLatest, ClearLocals, Goto, StepFrame,
         remoteVars, request, locals
<1>2. newest # 0
  BY <1>1 DEF ControlInv, ForwardPcs
<1>3. \A m \in remote : Known(m)' => Known(m)
  BY <1>1, <1>2, SaveKnown
<1>4. \A m : ClaimedBelow(m)' = ClaimedBelow(m)
  BY <1>1 DEF ClaimedBelow
<1>5. ClaimedInv'
  BY <1>1, <1>3, <1>4 DEF GapInv, ClaimedInv
<1>6. CASE pc' # "backfill"
  BY <1>1, <1>5, <1>6, GapAtRest DEF ActivePcs, ForwardPcs, BackfillPcs, BelowPcs
<1>7. CASE pc' = "backfill"
  <2>1. full /\ UNCHANGED <<newest, before, page>>
    BY <1>1, <1>7
  <2>2. before # 0
    BY <1>1, <2>1 DEF ControlInv, ForwardPcs
  <2>3. AboveInv'
    BY <1>1, <1>3, <1>7, <2>1 DEF GapInv, AboveInv, ForwardPcs, BelowPcs
  <2>4. TipInv'
    BY <1>1, <1>7, <2>1 DEF GapInv, TipInv
  <2> QED BY <1>5, <1>7, <2>1, <2>2, <2>3, <2>4
          DEF GapInv, FreshInv, AscendInv, DescendInv, DoneInv, FloorInv
<1> QED BY <1>6, <1>7

----------------------------------------------------------------------------
(* The backfill.                                                           *)

\* A page below the bound: whatever was asked for and lies at or above one of
\* its messages is on it.
LEMMA PageBefore ==
  ASSUME Core, page' \in PagesBefore(before), UNCHANGED <<remote, before>>
  PROVE  /\ \A m \in remote :
              PageUnder(m)' /\ (ShortPage' \/ \E p \in page' : p =< m) => m \in page'
         /\ page' = {} => \A m \in remote : before # 0 /\ before =< m
<1> DEFINE asked == {m \in remote : before = 0 \/ m < before}
<1>1. /\ page' \in SUBSET asked /\ IsPage(page', asked)
      /\ \A m \in asked \ page', p \in page' : m < p
  BY DEF PagesBefore
<1>2. page' = {} \/ ShortPage' => page' = asked
  BY <1>1, ShortPages DEF ShortPage
<1>3. \A m \in remote : PageUnder(m)' => m \in asked
  BY DEF PageUnder
<1> QED BY <1>1, <1>2, <1>3, Naturals DEF Core

LEMMA GapBackfillFetch ==
  ASSUME Basic, GapInv, BackfillFetch
  PROVE  GapInv'
<1> USE DEF Basic, Core
<1>1. /\ UNCHANGED <<remote, stored, latest, cursor, complete, newest, before>>
      /\ pc = "backfill" /\ page' \in PagesBefore(before)
      /\ pc' = IF page' = {} THEN "backfillComplete" ELSE "backfillPersist"
  BY DEF BackfillFetch, FetchAt, Goto, StepFrame, remoteVars, durableVars
<1>2. \A m : Known(m)' = Known(m) /\ ClaimedBelow(m)' = ClaimedBelow(m)
  BY <1>1 DEF Known, ClaimedAbove, ClaimedBelow
<1>3. ClaimedInv' /\ AboveInv'
  BY <1>1, <1>2 DEF GapInv, ClaimedInv, AboveInv, ForwardPcs, BelowPcs
<1>4. FreshInv' /\ TipInv'
  BY <1>1 DEF GapInv, FreshInv, TipInv, BelowPcs
<1>5. DescendInv'
  BY <1>1, PageBefore DEF DescendInv
<1>6. FloorInv'
  BY <1>1, <1>2, PageBefore DEF GapInv, AboveInv, FloorInv, BelowPcs
<1> QED BY <1>1, <1>3, <1>4, <1>5, <1>6 DEF GapInv, AscendInv, DoneInv

\* After a page below the bound is persisted, nothing that is known is
\* missing at or above any of its eligible messages; and a short page without
\* a message beyond the cutoff leaves nothing missing at all.
LEMMA PersistBelow ==
  ASSUME Basic, GapInv, pc \in {"backfillPersist", "bootstrapPersist"}, ~complete,
         before # 0 /\ cursor # 0 => before = cursor,
         stored' = stored \cup Eligible,
         UNCHANGED <<remote, latest, cursor, complete>>,
         newest' = IF Eligible = {} THEN newest ELSE Larger(newest, Newest(Eligible))
  PROVE  /\ \A m \in remote :
              Known(m)' /\ ((ShortPage /\ ~ReachedSince) \/ \E e \in Eligible : e =< m)
                => m \in stored'
         /\ ClaimedInv'
<1> USE DEF Basic, Core
<1>1. Eligible \subseteq page /\ (~ReachedSince => Eligible = page)
  BY DEF Eligible, ReachedSince
<1>2. /\ newest =< newest' /\ \A e \in Eligible : e =< newest'
      /\ \A m \in Nat : Known(m)' => Known(m) \/ \E e \in Eligible : m =< e
  BY <1>1, PersistKnown
<1>3. \A m \in remote : Known(m)' => PageUnder(m) \/ (before # 0 /\ before =< m /\ Known(m))
  <2> SUFFICES ASSUME NEW m \in remote, Known(m)', ~PageUnder(m)
               PROVE  before # 0 /\ before =< m /\ Known(m)
    OBVIOUS
  <2>1. Known(m) \/ \E e \in Eligible : m =< e
    BY <1>2, Naturals
  <2>2. CASE before = 0
    <3>1. ~Known(m)
      BY <2>2, Naturals DEF GapInv, FreshInv, BelowPcs, Known, ClaimedAbove
    <3>2. ~ \E e \in Eligible : m =< e
      BY <1>1, <2>2 DEF PageUnder
    <3> QED BY <2>1, <3>1, <3>2
  <2>3. CASE before # 0
    <3>1. before =< m
      BY <2>3, Naturals DEF PageUnder
    <3>2. \A p \in page : p < before
      BY <2>3 DEF ControlInv, BelowPcs
    <3>3. ~ \E e \in Eligible : m =< e
      BY <1>1, <3>1, <3>2, Naturals
    <3> QED BY <2>1, <2>3, <3>1, <3>3
  <2> QED BY <2>2, <2>3
<1>4. \A m \in remote : before # 0 /\ before =< m /\ Known(m) => m \in stored
  BY DEF GapInv, AboveInv, BelowPcs
<1>5. ASSUME NEW m \in remote, PageUnder(m),
             (ShortPage /\ ~ReachedSince) \/ \E e \in Eligible : e =< m
      PROVE  m \in Eligible
  <2>1. ShortPage \/ \E p \in page : p =< m
    BY <1>1, <1>5
  <2>2. m \in page
    BY <1>5, <2>1 DEF GapInv, DescendInv
  <2>3. CASE ~ReachedSince
    BY <1>1, <2>2, <2>3
  <2>4. CASE \E e \in Eligible : e =< m
    <3>1. since \in Nat
      BY CutoffsAssumption DEF TypeOK
    <3> QED BY <2>2, <2>4, <3>1, Naturals DEF Eligible
  <2> QED BY <1>5, <2>3, <2>4
<1>6. \A m \in remote :
        Known(m)' /\ ((ShortPage /\ ~ReachedSince) \/ \E e \in Eligible : e =< m)
          => m \in stored'
  BY <1>3, <1>4, <1>5
<1>7. ClaimedInv'
  <2> SUFFICES ASSUME NEW m \in remote, Known(m)', ClaimedBelow(m)'
               PROVE  m \in stored'
    BY DEF ClaimedInv
  <2>1. CASE \E e \in Eligible : e =< m
    BY <1>6, <2>1
  <2>2. CASE before # 0 /\ before =< m /\ Known(m)
    BY <1>4, <2>2
  <2>3. CASE PageUnder(m) /\ ~ \E e \in Eligible : e =< m
    <3>1. ClaimedBelow(m)
      BY <2>3 DEF ClaimedBelow
    <3>2. before # 0
      BY <3>1, Naturals DEF GapInv, FreshInv, BelowPcs, ClaimedBelow
    <3>3. m < before
      BY <2>3, <3>2 DEF PageUnder
    <3>4. m =< newest
      BY <3>2, <3>3 DEF GapInv, TipInv, BelowPcs
    <3> QED BY <3>1, <3>4 DEF GapInv, ClaimedInv, Known
  <2> QED BY <1>3, <2>1, <2>2, <2>3
<1> QED BY <1>6, <1>7

LEMMA GapBackfillPersist ==
  ASSUME Basic, GapInv, BackfillPersist
  PROVE  GapInv'
<1> USE DEF Basic, Core
<1>1. /\ UNCHANGED <<remote, latest, cursor, complete, before, page, since>>
      /\ pc = "backfillPersist" /\ stored' = stored \cup Eligible
      /\ pc' = IF Eligible = {} THEN "finish" ELSE "backfillLatest"
      /\ newest' = IF Eligible = {} THEN newest ELSE Larger(newest, Newest(Eligible))
  BY DEF BackfillPersist, PersistAt, Goto, StepFrame, remoteVars, request
<1>2. full /\ ~complete
  BY <1>1 DEF ControlInv, BackfillPcs
<1>3. before # 0 /\ cursor # 0 => before = cursor
  BY <1>1, <1>2 DEF ControlInv, BackfillPcs
<1>4. /\ \A m \in remote :
           Known(m)' /\ ((ShortPage /\ ~ReachedSince) \/ \E e \in Eligible : e =< m)
             => m \in stored'
      /\ ClaimedInv'
  BY <1>1, <1>2, <1>3, PersistBelow
<1>5. Eligible' = Eligible /\ ShortPage' = ShortPage /\ ReachedSince' = ReachedSince
  BY <1>1 DEF Eligible, ShortPage, ReachedSince
<1>6. Eligible \subseteq page
  BY DEF Eligible
<1>7. /\ newest =< newest' /\ \A e \in Eligible : e =< newest'
      /\ newest' \in {newest} \cup Eligible
  BY <1>1, <1>6, PersistKnown
<1>8. DoneInv'
  BY <1>1, <1>4, <1>5 DEF DoneInv
<1>9. TipInv'
  <2>1. newest' \in Nat
    BY <1>6, <1>7, Naturals
  <2>2. before # 0 => \A m \in remote : m < before => m =< newest'
    BY <1>1, <1>7, <2>1, Naturals DEF GapInv, TipInv, BelowPcs
  <2> QED BY <1>1, <1>5, <1>7, <2>2 DEF TipInv, BelowPcs
<1> QED BY <1>1, <1>4, <1>8, <1>9
        DEF GapInv, AboveInv, FreshInv, AscendInv, DescendInv, FloorInv, ForwardPcs, BelowPcs

\* latest moves up to newest.
LEMMA GapBackfillLatest ==
  ASSUME Basic, GapInv, BackfillLatest
  PROVE  GapInv'
<1> USE DEF Basic, Core
<1>1. /\ UNCHANGED <<remote, stored, cursor, complete, newest, before, page, since>>
      /\ latest' = newest /\ pc = "backfillLatest" /\ pc' = "backfillCursor"
  BY DEF BackfillLatest, BackfillLatestWith, SaveLatest, Goto, StepFrame,
         remoteVars, request, locals
<1>2. latest =< newest
  BY <1>1 DEF LatestInv, BackfillPcs
<1>3. newest # 0 \/ latest = 0
  BY <1>2, Naturals
<1>4. \A m \in remote : Known(m)' => Known(m)
  BY <1>1, <1>3, SaveKnown
<1>5. \A m : ClaimedBelow(m)' = ClaimedBelow(m)
  BY <1>1 DEF ClaimedBelow
<1>6. Eligible' = Eligible /\ ShortPage' = ShortPage /\ ReachedSince' = ReachedSince
  BY <1>1 DEF Eligible, ShortPage, ReachedSince
<1>7. ClaimedInv'
  BY <1>1, <1>4, <1>5 DEF GapInv, ClaimedInv
<1>8. DoneInv'
  BY <1>1, <1>4, <1>6 DEF GapInv, DoneInv
<1>9. TipInv'
  BY <1>1, <1>6 DEF GapInv, TipInv, BelowPcs
<1> QED BY <1>1, <1>7, <1>8, <1>9
        DEF GapInv, AboveInv, FreshInv, AscendInv, DescendInv, FloorInv, ForwardPcs, BelowPcs

\* The cursor and the next bound come down to the oldest eligible message.
LEMMA GapBackfillCursor ==
  ASSUME Basic, GapInv, BackfillCursor
  PROVE  GapInv'
<1> USE DEF Basic, Core
<1> DEFINE o == Oldest(Eligible)
<1>1. /\ UNCHANGED <<remote, stored, latest, complete, newest>>
      /\ cursor' = o /\ before' = o /\ pc = "backfillCursor"
      /\ pc' = IF ReachedSince THEN "finish"
               ELSE IF ShortPage THEN "backfillComplete" ELSE "backfill"
  BY DEF BackfillCursor, BackfillCursorWith, SaveCursor, Goto, StepFrame, remoteVars
<1>2. o \in Eligible /\ ~complete
  BY <1>1, PageEnds DEF PageInv, ControlInv, BackfillPcs
<1>3. o \in Nat /\ o # 0 /\ o =< newest
  BY <1>1, <1>2, Naturals DEF GapInv, TipInv
<1>4. \A m : Known(m)' = Known(m)
  BY <1>1 DEF Known, ClaimedAbove
<1>5. \A m : ClaimedBelow(m)' => o =< m
  BY <1>1, <1>2, <1>3 DEF ClaimedBelow
<1>6. \A m \in remote : Known(m) /\ o =< m => m \in stored
  BY <1>1, <1>2 DEF GapInv, DoneInv
<1>7. ClaimedInv' /\ AboveInv'
  BY <1>1, <1>4, <1>5, <1>6 DEF ClaimedInv, AboveInv
<1>8. FloorInv'
  BY <1>1, <1>4 DEF GapInv, DoneInv, FloorInv
<1>9. TipInv'
  BY <1>1, <1>3, Naturals DEF TipInv
<1>10. FreshInv'
  BY <1>1, <1>3 DEF FreshInv
<1> QED BY <1>1, <1>7, <1>8, <1>9, <1>10 DEF GapInv, AscendInv, DescendInv, DoneInv

\* History is complete: what was known had a row already.
LEMMA GapComplete ==
  ASSUME Basic, GapInv, BackfillComplete \/ BootstrapComplete
  PROVE  GapInv'
<1>1. /\ UNCHANGED <<remote, stored, latest, newest>>
      /\ pc \in {"backfillComplete", "bootstrapComplete"}
      /\ pc' \in {"finish", "bootstrapEnd"}
  BY DEF BackfillComplete, BootstrapComplete, SaveComplete, Goto, StepFrame,
         remoteVars, locals
<1>2. \A m : Known(m)' = Known(m)
  BY <1>1 DEF Known, ClaimedAbove
<1>3. ClaimedInv'
  BY <1>1, <1>2 DEF GapInv, FloorInv, ClaimedInv
<1> QED
  BY <1>1, <1>3, GapAtRest DEF ActivePcs, ForwardPcs, BackfillPcs, BelowPcs

\* The last checkpoint of a run claims what the run knew.
LEMMA GapEnd ==
  ASSUME Basic, GapInv, Finish \/ BootstrapEnd
  PROVE  GapInv'
<1> USE DEF Basic, Core
<1>1. /\ UNCHANGED <<remote, stored, cursor, complete>>
      /\ newest' = 0 /\ pc' = "succeeded"
  BY DEF Finish, BootstrapEnd, SaveLatest, ClearLocals, Goto, StepFrame, remoteVars
<1>2. latest' = newest /\ (newest # 0 \/ latest = 0)
  <2>1. CASE Finish
    BY <2>1, Naturals DEF Finish, SaveLatest, Goto, LatestInv
  <2>2. CASE BootstrapEnd
    BY <2>2 DEF BootstrapEnd, SaveLatest, Goto, LatestInv, BootstrapPcs
  <2> QED BY <2>1, <2>2
<1>3. \A m \in remote : Known(m)' => Known(m)
  BY <1>1, <1>2, SaveKnown
<1>4. \A m : ClaimedBelow(m)' = ClaimedBelow(m)
  BY <1>1 DEF ClaimedBelow
<1>5. ClaimedInv'
  BY <1>1, <1>3, <1>4 DEF GapInv, ClaimedInv
<1> QED
  BY <1>1, <1>5, GapAtRest DEF ActivePcs, ForwardPcs, BackfillPcs, BelowPcs

----------------------------------------------------------------------------
(* The bootstrap.                                                          *)

LEMMA GapBootstrapFetch ==
  ASSUME Basic, GapInv, BootstrapFetch
  PROVE  GapInv'
<1> USE DEF Basic, Core
<1>1. /\ UNCHANGED <<remote, stored, latest, cursor, complete, newest, before>>
      /\ pc = "bootstrap" /\ page' \in PagesBefore(before)
      /\ pc' \in {"bootstrapEnd", "bootstrapPersist"}
  BY DEF BootstrapFetch, FetchAt, Goto, StepFrame, remoteVars, durableVars
<1>2. \A m : Known(m)' = Known(m) /\ ClaimedBelow(m)' = ClaimedBelow(m)
  BY <1>1 DEF Known, ClaimedAbove, ClaimedBelow
<1>3. ClaimedInv' /\ AboveInv'
  BY <1>1, <1>2 DEF GapInv, ClaimedInv, AboveInv, ForwardPcs, BelowPcs
<1>4. FreshInv' /\ TipInv'
  BY <1>1 DEF GapInv, FreshInv, TipInv, BelowPcs
<1>5. DescendInv'
  BY <1>1, PageBefore DEF DescendInv
<1> QED BY <1>1, <1>3, <1>4, <1>5 DEF GapInv, AscendInv, DoneInv, FloorInv

\* The next bound is the oldest message of the page.
LEMMA GapBootstrapPersist ==
  ASSUME Basic, GapInv, BootstrapPersist, ~rebootstrapped
  PROVE  GapInv'
<1> USE DEF Basic, Core
<1> DEFINE o == Oldest(page)
<1>1. /\ UNCHANGED <<remote, latest, cursor, complete, page>>
      /\ pc = "bootstrapPersist" /\ stored' = stored \cup Eligible
      /\ pc' = IF ReachedSince
               THEN IF Eligible = {} THEN "bootstrapEnd" ELSE "bootstrapCursor"
               ELSE IF ShortPage THEN "bootstrapComplete" ELSE "bootstrap"
      /\ newest' = IF Eligible = {} THEN newest ELSE Larger(newest, Newest(Eligible))
      /\ before' = o
  BY DEF BootstrapPersist, PersistAt, Goto, StepFrame, remoteVars
<1>2. ~complete /\ cursor = 0
  BY <1>1 DEF BlankInv, BootstrapPcs
<1>3. /\ \A m \in remote :
           Known(m)' /\ ((ShortPage /\ ~ReachedSince) \/ \E e \in Eligible : e =< m)
             => m \in stored'
      /\ ClaimedInv'
  BY <1>1, <1>2, PersistBelow
<1>4. CASE ReachedSince
  BY <1>1, <1>3, <1>4, GapAtRest DEF ActivePcs, ForwardPcs, BackfillPcs, BelowPcs
<1>5. CASE ~ReachedSince /\ ShortPage
  <2>1. FloorInv'
    BY <1>1, <1>3, <1>5 DEF FloorInv
  <2> QED BY <1>1, <1>3, <1>5, <2>1
          DEF GapInv, AboveInv, FreshInv, AscendInv, TipInv, DescendInv, DoneInv,
              ForwardPcs, BelowPcs
<1>6. CASE ~ReachedSince /\ ~ShortPage
  <2>1. pc' = "bootstrap" /\ Eligible = page
    BY <1>1, <1>6 DEF ReachedSince
  <2>2. o \in page /\ o \in Nat /\ o # 0
    <3>1. page # {}
      BY <1>1 DEF PageInv
    <3>2. o \in page
      BY <3>1, PageEnds
    <3> QED BY <3>2, Naturals
  <2>3. AboveInv'
    BY <1>1, <1>3, <2>1, <2>2 DEF AboveInv
  <2>4. newest' \in {newest} \cup page /\ \A e \in page : e =< newest'
    BY <1>1, <2>1, PersistKnown
  <2>5. TipInv'
    <3>1. \A m \in remote : m < o => m =< newest'
      BY <2>2, <2>4, Naturals
    <3> QED BY <1>1, <2>1, <3>1 DEF TipInv
  <2> QED BY <1>1, <1>3, <2>1, <2>2, <2>3, <2>5
          DEF GapInv, FreshInv, AscendInv, DescendInv, DoneInv, FloorInv
<1> QED BY <1>4, <1>5, <1>6

\* The cursor names the oldest row there is.
LEMMA GapBootstrapCursor ==
  ASSUME Basic, GapInv, BootstrapCursor, ~rebootstrapped
  PROVE  GapInv'
<1> USE DEF Basic, Core
<1> DEFINE o == Oldest(Eligible)
<1>1. /\ UNCHANGED <<remote, stored, latest, complete, newest>>
      /\ cursor' = o /\ pc = "bootstrapCursor" /\ pc' = "bootstrapEnd"
  BY DEF BootstrapCursor, SaveCursor, Goto, StepFrame, remoteVars, locals
<1>2. ~complete /\ cursor = 0
  BY <1>1 DEF BlankInv, BootstrapPcs
<1>3. o \in stored /\ o # 0
  BY <1>1, PageEnds, Naturals DEF PageInv, RowsInv
<1>4. \A m : Known(m)' = Known(m)
  BY <1>1 DEF Known, ClaimedAbove
<1>5. \A m : ClaimedBelow(m)' => ClaimedBelow(m)
  BY <1>1, <1>2, <1>3 DEF ClaimedBelow
<1>6. ClaimedInv'
  BY <1>1, <1>4, <1>5 DEF GapInv, ClaimedInv
<1> QED
  BY <1>1, <1>6, GapAtRest DEF ActivePcs, ForwardPcs, BackfillPcs, BelowPcs

----------------------------------------------------------------------------
(* The invariant and the theorem.                                          *)

LEMMA GapInit == Init => GapInv
<1> SUFFICES ASSUME Init PROVE GapInv
  OBVIOUS
<1>1. /\ stored = {} /\ newest = 0 /\ latest = 0 /\ pc = "idle"
      /\ \A m \in remote : m > 0 /\ m \in Nat
  BY MaxIdAssumption DEF Init
<1>2. ClaimedInv
  BY <1>1 DEF ClaimedInv, Known, ClaimedAbove
<1> QED BY <1>1, <1>2
        DEF GapInv, AboveInv, FreshInv, AscendInv, TipInv, DescendInv, DoneInv, FloorInv,
            ForwardPcs, BelowPcs

LEMMA GapUnchanged ==
  ASSUME GapInv, UNCHANGED vars
  PROVE  GapInv'
<1>1. /\ UNCHANGED <<remote, stored, latest, cursor, complete, pc, since>>
      /\ UNCHANGED <<newest, before, page>>
  BY DEF vars, remoteVars, durableVars, request, locals
<1>2. \A m : /\ Known(m)' = Known(m) /\ ClaimedBelow(m)' = ClaimedBelow(m)
             /\ PageUnder(m)' = PageUnder(m)
  BY <1>1 DEF Known, ClaimedAbove, ClaimedBelow, PageUnder
<1>3. Eligible' = Eligible /\ ShortPage' = ShortPage /\ ReachedSince' = ReachedSince
  BY <1>1 DEF Eligible, ShortPage, ReachedSince
<1> QED BY <1>1, <1>2, <1>3
        DEF GapInv, ClaimedInv, AboveInv, FreshInv, AscendInv, TipInv, DescendInv,
            DoneInv, FloorInv

\* rebootstrapped stays.
LEMMA NeverWithdrawn ==
  ASSUME [Next]_vars, rebootstrapped
  PROVE  rebootstrapped'
<1>1. CASE SyncIncremental
  BY <1>1, Zenon DEF SyncIncremental, StartIncremental
<1>2. CASE Step
  BY <1>2 DEF Step, ForwardFetch, ForwardPersist, ForwardSave, ForwardSaveThen,
     ForwardEnd, ForwardEndWith, BackfillFetch, BackfillPersist, BackfillLatest,
     BackfillLatestWith, BackfillCursor, BackfillCursorWith, BackfillComplete, Finish,
     BootstrapFetch, BootstrapPersist, BootstrapCursor, BootstrapComplete,
     BootstrapEnd, FetchAt, PersistAt, StepFrame, ghostVars
<1>3. CASE \/ Post \/ Delete \/ ListChannels \/ SyncFull \/ Abort \/ DeadlineExpires
           \/ UNCHANGED vars
  BY <1>3 DEF Post, Delete, ListChannels, SyncFull, StartFull, Abort,
     DeadlineExpires, StopRun, vars, ghostVars
<1> QED BY <1>1, <1>2, <1>3 DEF Next

LEMMA IInvStep == IInv /\ [Next]_vars => IInv'
<1> SUFFICES ASSUME Basic, ~rebootstrapped => GapInv, [Next]_vars
             PROVE  Basic' /\ (~rebootstrapped' => GapInv')
  BY DEF IInv
<1>1. Basic'
  BY BasicStep
<1>2. ~rebootstrapped' => ~rebootstrapped
  BY NeverWithdrawn
<1>3. ASSUME ~rebootstrapped' PROVE GapInv'
  <2>1. ~rebootstrapped /\ GapInv
    BY <1>2, <1>3
  <2> QED
    BY <1>3, <2>1, GapPost, GapDelete, GapStop, GapFull, GapIncremental,
       GapForwardFetch, GapForwardPersist, GapForwardSave, GapForwardEnd,
       GapBackfillFetch, GapBackfillPersist, GapBackfillLatest, GapBackfillCursor,
       GapComplete, GapEnd, GapBootstrapFetch, GapBootstrapPersist,
       GapBootstrapCursor, GapUnchanged
       DEF Next, Step
<1> QED BY <1>1, <1>3

LEMMA IInvAlways == Spec => []IInv
<1>1. Init => IInv
  BY BasicInit, GapInit DEF IInv
<1> QED BY <1>1, IInvStep, PTL DEF Spec

\* Whatever runs are mixed and wherever they stop, the stretch of history the
\* checkpoints claim has no hole, unless a bootstrap began on a channel that
\* was not blank.
THEOREM NoGapWithoutRebootstrap == Spec => []NoGapUnlessRebootstrapped
<1>1. IInv => NoGapUnlessRebootstrapped
  BY DEF IInv, GapInv, ClaimedInv, Known, NoGap, NoGapUnlessRebootstrapped
<1> QED BY <1>1, IInvAlways, PTL

----------------------------------------------------------------------------
(* What a run that reports success stands for.                             *)

\* What the channel held when the channels were listed, and still holds.
Due == {m \in remote : m =< target}
AtTip == \A m \in Due : m =< newest

\* How far a run has got: a forward crawl reaches the tip with its last page,
\* a backfill from nothing with its first one.
TipReachedInv ==
  /\ target =< posted
  /\ pc = "forwardPersist" /\ ShortPage => \A m \in Due : m =< newest \/ m \in page
  /\ pc = "forwardSave" /\ ShortPage => AtTip
  /\ pc \in {"backfill", "bootstrap"} => AtTip \/ (newest = 0 /\ before = 0)
  /\ pc \in {"backfillPersist", "bootstrapPersist"} =>
       AtTip \/ (newest = 0 /\ \A m \in Due : \E p \in page : m =< p)
  /\ pc \in {"forwardEnd", "backfillLatest", "backfillCursor", "backfillComplete",
             "bootstrapCursor", "bootstrapComplete"} => AtTip
  /\ pc \in {"finish", "bootstrapEnd"} => AtTip \/ newest = 0
  /\ RunReachesTip

\* A full run without a cutoff does not end before the history is complete.
CompleteInv ==
  /\ pc \in BootstrapPcs => ~full
  /\ pc \in {"finish", "succeeded"} /\ full /\ since = 0 => complete

SuccessInv == TipReachedInv /\ CompleteInv

LEMMA SuccessInit == Init => SuccessInv
<1> SUFFICES ASSUME Init PROVE SuccessInv
  OBVIOUS
<1>1. TipReachedInv
  BY MaxIdAssumption DEF Init, TipReachedInv, RunReachesTip
<1>2. CompleteInv
  BY DEF Init, CompleteInv
<1> QED BY <1>1, <1>2 DEF SuccessInv

\* Discord: what is posted now is not due, and what is deleted no longer.
LEMMA SuccessDiscord ==
  ASSUME TypeOK, SuccessInv, Post \/ Delete
  PROVE  SuccessInv'
<1>1. UNCHANGED <<stored, latest, cursor, complete, pc, full, since, target, newest, before, page>>
  BY DEF Post, Delete, durableVars, request, locals
<1>2. Due' \subseteq Due /\ target' =< posted'
  BY <1>1, MaxIdAssumption DEF Post, Delete, TypeOK, SuccessInv, TipReachedInv, Due, remoteVars
<1>3. ShortPage' = ShortPage
  BY <1>1 DEF ShortPage
<1>4. RunReachesTip'
  BY <1>1, <1>2 DEF SuccessInv, TipReachedInv, RunReachesTip, Due
<1>5. TipReachedInv'
  BY <1>1, <1>2, <1>3, <1>4 DEF SuccessInv, TipReachedInv, AtTip
<1>6. CompleteInv'
  BY <1>1 DEF SuccessInv, CompleteInv
<1> QED BY <1>5, <1>6 DEF SuccessInv

\* A run begins, is skipped, or stops.
LEMMA SuccessStart ==
  ASSUME Basic, SuccessInv, ListChannels \/ SyncFull \/ SyncIncremental \/ Abort \/ DeadlineExpires
  PROVE  SuccessInv'
<1> USE DEF Basic, Core
<1>1. UNCHANGED <<remote, posted, latest>> /\ target' =< posted'
  BY MaxIdAssumption DEF ListChannels, SyncFull, StartFull, SyncIncremental, StartIncremental,
         Abort, DeadlineExpires, StopRun, SuccessInv, TipReachedInv, TypeOK, remoteVars, durableVars
<1>2. CASE pc' \in {"idle", "listed", "forward"}
  BY <1>1, <1>2 DEF SuccessInv, TipReachedInv, CompleteInv, RunReachesTip, BootstrapPcs
<1>3. CASE SyncFull /\ pc' = "backfill"
  <2>1. newest' = SeededLatest /\ SeededLatest = 0
        /\ before' = IF SeededCursor # 0 THEN SeededCursor ELSE SeededLatest
    BY <1>3 DEF SyncFull, StartFull, SkipRun, BeginCrawl
  <2>2. newest' = 0 /\ before' = 0
    BY <2>1, SeedEnds
  <2> QED BY <1>1, <1>3, <2>2 DEF SuccessInv, TipReachedInv, CompleteInv, RunReachesTip, BootstrapPcs
<1>4. CASE SyncIncremental /\ pc' = "bootstrap"
  <2>1. newest' = 0 /\ before' = 0 /\ ~full'
    BY <1>4 DEF SyncIncremental, StartIncremental, SkipRun, BeginCrawl
  <2> QED BY <1>1, <1>4, <2>1 DEF SuccessInv, TipReachedInv, CompleteInv, RunReachesTip, BootstrapPcs
<1>5. CASE (SyncFull \/ SyncIncremental) /\ pc' = "succeeded"
  <2>1. UNCHANGED <<remote, target, posted, latest>>
    BY <1>1, <1>5 DEF SyncFull, StartFull, SyncIncremental, StartIncremental
  <2>2. latest # 0 => target =< latest
    BY <1>5, SeedEnds DEF SyncFull, StartFull, SyncIncremental, StartIncremental, SkipChannel, SkipRun,
       BeginCrawl, LastMessageIDs, Larger, TypeOK
  <2>3. full' => complete'
    BY <1>5 DEF SyncFull, StartFull, SyncIncremental, StartIncremental, SkipChannel, SkipRun, BeginCrawl
  <2>4. RunReachesTip'
    <3> SUFFICES ASSUME latest # 0, NEW m \in remote, m =< target PROVE m =< latest
      BY <2>1 DEF RunReachesTip
    <3>1. m \in Nat /\ target \in Nat /\ latest \in Nat
      BY Naturals, MaxIdAssumption DEF TypeOK
    <3> QED BY <2>2, <3>1
  <2> QED BY <1>1, <1>5, <2>3, <2>4 DEF SuccessInv, TipReachedInv, CompleteInv, BootstrapPcs
<1> QED BY <1>2, <1>3, <1>4, <1>5 DEF ListChannels, SyncFull, StartFull, SyncIncremental, StartIncremental,
        Abort, DeadlineExpires, StopRun, SkipRun, BeginCrawl

\* A page is asked for: an empty one, and any short one, is all there is.
LEMMA SuccessFetch ==
  ASSUME Basic, SuccessInv, ForwardFetch \/ BackfillFetch \/ BootstrapFetch
  PROVE  SuccessInv'
<1> USE DEF Basic, Core
<1>1. UNCHANGED <<remote, posted, target, full, since, latest, complete, newest, before>>
  BY DEF ForwardFetch, BackfillFetch, BootstrapFetch, FetchAt, StepFrame, remoteVars, durableVars, request
<1>2. CASE ForwardFetch
  <2>1. /\ pc' = IF page' = {} THEN "forwardEnd" ELSE "forwardPersist"
        /\ page' \in PagesAfter(newest)
    BY <1>2 DEF ForwardFetch, FetchAt, Goto
  <2>2. page' = {} \/ Cardinality(page') < PageSize => page' = {m \in remote : m > newest}
    BY <2>1, ShortPages DEF PagesAfter
  <2>3. page' = {} \/ ShortPage' => \A m \in Due : m =< newest \/ m \in page'
    BY <2>2, Naturals DEF ShortPage, Due
  <2> QED BY <1>1, <2>1, <2>3
          DEF SuccessInv, TipReachedInv, CompleteInv, RunReachesTip, AtTip, Due, BootstrapPcs
<1>3. CASE BackfillFetch \/ BootstrapFetch
  <2>1. /\ \/ pc = "backfill" /\ pc' = IF page' = {} THEN "backfillComplete" ELSE "backfillPersist"
           \/ pc = "bootstrap" /\ pc' = IF page' = {} THEN "bootstrapEnd" ELSE "bootstrapPersist"
        /\ page' \in PagesBefore(before)
    BY <1>3 DEF BackfillFetch, BootstrapFetch, FetchAt, Goto
  <2>2. AtTip \/ (newest = 0 /\ before = 0)
    BY <2>1 DEF SuccessInv, TipReachedInv
  <2>3. CASE AtTip
    BY <1>1, <2>1, <2>3
       DEF SuccessInv, TipReachedInv, CompleteInv, RunReachesTip, AtTip, Due, BootstrapPcs
  <2>4. CASE newest = 0 /\ before = 0
    <3>1. /\ \A m \in remote \ page', p \in page' : m < p
          /\ page' \subseteq remote
          /\ page' = {} => remote = {}
      BY <2>1, <2>4, ShortPages DEF PagesBefore
    <3>2. page' = {} => AtTip
      BY <3>1 DEF AtTip, Due
    <3>3. page' # {} => \A m \in Due : \E p \in page' : m =< p
      <4> SUFFICES ASSUME page' # {}, NEW m \in remote PROVE \E p \in page' : m =< p
        BY DEF Due
      <4>1. CASE m \in page'
        BY <4>1, Naturals
      <4>2. CASE m \notin page'
        <5>1. PICK p \in page' : TRUE
          OBVIOUS
        <5>2. m < p /\ m \in Nat /\ p \in Nat
          BY <3>1, <4>2, <5>1, Naturals
        <5> QED BY <5>2
      <4> QED BY <4>1, <4>2
    <3> QED BY <1>1, <2>1, <2>4, <3>2, <3>3
            DEF SuccessInv, TipReachedInv, CompleteInv, RunReachesTip, AtTip, Due, BootstrapPcs
  <2> QED BY <2>2, <2>3, <2>4
<1> QED BY <1>2, <1>3

\* A page is persisted: its newest message counts from now on.
LEMMA SuccessPersist ==
  ASSUME Basic, SuccessInv, ForwardPersist \/ BackfillPersist \/ BootstrapPersist
  PROVE  SuccessInv'
<1> USE DEF Basic, Core
<1>1. UNCHANGED <<remote, posted, target, full, since, latest, complete, page>>
  BY DEF ForwardPersist, BackfillPersist, BootstrapPersist, PersistAt, StepFrame, remoteVars, request
<1>2. newest \in Nat /\ since \in Nat /\ \A m \in remote \cup page : m \in Nat
  BY Naturals, CutoffsAssumption DEF TypeOK
<1>3. CASE ForwardPersist
  <2>1. /\ pc = "forwardPersist" /\ pc' = "forwardSave"
        /\ newest' = IF page = {} THEN newest ELSE Larger(newest, Newest(page))
    BY <1>3 DEF ForwardPersist, PersistAt, Goto
  <2>2. newest =< newest' /\ \A p \in page : p =< newest'
    BY <1>2, <2>1, PageEnds DEF Larger
  <2>3. ShortPage' = ShortPage
    BY <1>1 DEF ShortPage
  <2>4. ShortPage => AtTip'
    <3> SUFFICES ASSUME ShortPage, NEW m \in Due PROVE m =< newest'
      BY <1>1 DEF AtTip, Due
    <3>1. m =< newest \/ m \in page
      BY <2>1 DEF SuccessInv, TipReachedInv
    <3>2. newest' \in Nat
      BY <1>2, <2>1, PageEnds DEF Larger
    <3> QED BY <1>2, <2>2, <3>1, <3>2 DEF Due
  <2> QED BY <1>1, <2>1, <2>3, <2>4 DEF SuccessInv, TipReachedInv, CompleteInv, RunReachesTip, BootstrapPcs
<1>4. CASE BackfillPersist \/ BootstrapPersist
  <2>1. /\ \/ pc = "backfillPersist" /\ pc' \notin BootstrapPcs
           \/ pc = "bootstrapPersist" /\ pc' \in BootstrapPcs
        /\ newest' = IF Eligible = {} THEN newest ELSE Larger(newest, Newest(Eligible))
        /\ pc' \in IF Eligible = {} THEN {"finish", "bootstrapEnd"}
                   ELSE {"backfillLatest", "bootstrapCursor", "bootstrapComplete", "bootstrap"}
    <3>1. page # {}
      BY <1>4 DEF BackfillPersist, BootstrapPersist, PersistAt, Goto, PageInv
    <3>2. Eligible = {} => ReachedSince
      BY <3>1 DEF ReachedSince
    <3> QED BY <1>4, <3>2 DEF BackfillPersist, BootstrapPersist, PersistAt, Goto, BootstrapPcs
  <2>2. newest' \in Nat /\ newest =< newest' /\ \A p \in Eligible : p =< newest'
    BY <1>2, <2>1, PageEnds DEF Larger
  <2>3. AtTip \/ (newest = 0 /\ \A m \in Due : \E p \in page : m =< p)
    BY <2>1 DEF SuccessInv, TipReachedInv
  <2>4. Eligible # {} => AtTip'
    <3> SUFFICES ASSUME Eligible # {}, NEW m \in Due PROVE m =< newest'
      BY <1>1 DEF AtTip, Due
    <3>1. CASE m =< newest
      BY <1>2, <2>2, <3>1 DEF Due
    <3>2. ASSUME NEW p \in page, m =< p PROVE m =< newest'
      <4>1. PICK e \in Eligible : TRUE
        OBVIOUS
      <4>2. e =< newest' /\ e \in Nat /\ since =< e
        BY <1>2, <2>2, <4>1 DEF Eligible
      <4>3. p \in Eligible \/ p < since
        BY <1>2 DEF Eligible
      <4> QED BY <1>2, <2>2, <3>2, <4>2, <4>3 DEF Due
    <3> QED BY <2>3, <3>1, <3>2 DEF AtTip
  <2>5. Eligible = {} => (AtTip' \/ newest' = 0)
    BY <1>1, <2>1, <2>3 DEF AtTip, Due
  <2>6. since = 0 => Eligible # {}
    <3>1. page # {}
      BY <2>1 DEF PageInv
    <3> QED BY <1>2, <3>1 DEF Eligible
  <2> QED BY <1>1, <2>1, <2>4, <2>5, <2>6
          DEF SuccessInv, TipReachedInv, CompleteInv, RunReachesTip, BootstrapPcs
<1> QED BY <1>3, <1>4

\* A checkpoint is saved, or the run is over.
LEMMA SuccessSave ==
  ASSUME Basic, SuccessInv,
         \/ ForwardSave \/ ForwardEnd \/ BackfillLatest \/ BackfillCursor \/ BackfillComplete
         \/ Finish \/ BootstrapCursor \/ BootstrapComplete \/ BootstrapEnd
  PROVE  SuccessInv'
<1> USE DEF Basic, Core
<1>1. UNCHANGED <<remote, posted, target, full, since>>
  BY DEF ForwardSave, ForwardSaveThen, ForwardEnd, ForwardEndWith, BackfillLatest, BackfillLatestWith,
         BackfillCursor, BackfillCursorWith, BackfillComplete, Finish, BootstrapCursor,
         BootstrapComplete, BootstrapEnd, StepFrame, remoteVars, request
<1>2. since = 0 => ~ReachedSince
  BY Naturals DEF ReachedSince, Eligible
<1>3. CASE ForwardSave
  <2>1. /\ pc = "forwardSave" /\ pc' = IF ShortPage THEN "forwardEnd" ELSE "forward"
        /\ newest' = newest
    BY <1>3 DEF ForwardSave, ForwardSaveThen, Goto
  <2> QED BY <1>1, <2>1
          DEF SuccessInv, TipReachedInv, CompleteInv, RunReachesTip, AtTip, Due, BootstrapPcs
<1>4. CASE ForwardEnd
  <2>1. /\ pc = "forwardEnd" /\ latest' = newest /\ complete' = complete
        /\ pc' = IF ~full THEN "succeeded" ELSE IF complete THEN "finish" ELSE "backfill"
        /\ full => newest' = newest
    BY <1>4 DEF ForwardEnd, ForwardEndWith, SaveLatest, Goto, locals
  <2> QED BY <1>1, <2>1
          DEF SuccessInv, TipReachedInv, CompleteInv, RunReachesTip, AtTip, Due, BootstrapPcs
<1>5. CASE BackfillLatest
  <2>1. pc = "backfillLatest" /\ pc' = "backfillCursor" /\ newest' = newest
    BY <1>5 DEF BackfillLatest, BackfillLatestWith, Goto, locals
  <2> QED BY <1>1, <2>1
          DEF SuccessInv, TipReachedInv, CompleteInv, RunReachesTip, AtTip, Due, BootstrapPcs
<1>6. CASE BackfillCursor
  <2>1. /\ pc = "backfillCursor" /\ newest' = newest
        /\ pc' = IF ReachedSince THEN "finish" ELSE IF ShortPage THEN "backfillComplete" ELSE "backfill"
    BY <1>6 DEF BackfillCursor, BackfillCursorWith, Goto
  <2> QED BY <1>1, <1>2, <2>1
         
            DEF SuccessInv, TipReachedInv, CompleteInv, RunReachesTip, AtTip, Due, BootstrapPcs
<1>7. CASE BackfillComplete \/ BootstrapCursor \/ BootstrapComplete
  <2>1. /\ newest' = newest
        /\ \/ pc = "backfillComplete" /\ pc' = "finish" /\ complete'
           \/ pc \in {"bootstrapCursor", "bootstrapComplete"} /\ pc' = "bootstrapEnd"
    BY <1>7 DEF BackfillComplete, BootstrapCursor, BootstrapComplete, SaveComplete, Goto, locals
  <2> QED BY <1>1, <2>1
          DEF SuccessInv, TipReachedInv, CompleteInv, RunReachesTip, AtTip, Due, BootstrapPcs
<1>8. CASE Finish \/ BootstrapEnd
  <2>1. pc \in {"finish", "bootstrapEnd"} /\ pc' = "succeeded" /\ complete' = complete
    BY <1>8 DEF Finish, BootstrapEnd, Goto, SaveLatest
  <2>2. latest' = newest
    BY <1>8 DEF Finish, BootstrapEnd, Goto, SaveLatest, LatestInv, BootstrapPcs
  <2> QED BY <1>1, <2>1, <2>2
         
            DEF SuccessInv, TipReachedInv, CompleteInv, RunReachesTip, AtTip, Due, BootstrapPcs
<1> QED BY <1>3, <1>4, <1>5, <1>6, <1>7, <1>8

LEMMA SuccessInvStep == Basic /\ SuccessInv /\ [Next]_vars => SuccessInv'
<1> SUFFICES ASSUME Basic, SuccessInv, [Next]_vars PROVE SuccessInv'
  OBVIOUS
<1>1. CASE UNCHANGED vars
  BY <1>1 DEF vars, remoteVars, durableVars, request, locals, SuccessInv, TipReachedInv, CompleteInv, AtTip, Due,
     ShortPage, RunReachesTip
<1>2. CASE Post \/ Delete
  BY <1>2, SuccessDiscord DEF Basic, Core
<1> QED BY <1>1, <1>2, SuccessStart, SuccessFetch, SuccessPersist, SuccessSave DEF Next, Step

\* A run that reports success has reached the channel's tip, and a full one
\* without a cutoff has archived the channel to its beginning, unless a
\* bootstrap began on a channel that was not blank.
THEOREM SuccessMeansCovered == Spec => []SuccessCovers
<1>1. IInv /\ SuccessInv => SuccessCovers
  <2> SUFFICES ASSUME IInv, SuccessInv PROVE SuccessCovers
    OBVIOUS
  <2>1. RunReachesTip
    BY DEF SuccessInv, TipReachedInv
  <2>2. ASSUME ~rebootstrapped, latest # 0, pc = "succeeded", full, since = 0, NEW m \in remote, m =< target
        PROVE  m \in stored
    <3>1. complete /\ m =< latest
      BY <2>1, <2>2 DEF SuccessInv, CompleteInv, RunReachesTip, BootstrapPcs
    <3>2. ClaimedAbove(m) /\ ClaimedBelow(m)
      BY <2>2, <3>1 DEF ClaimedAbove, ClaimedBelow
    <3> QED BY <2>2, <3>2 DEF IInv, GapInv, ClaimedInv, Known
  <2> QED BY <2>1, <2>2 DEF SuccessCovers, FullRunCoversUnlessRebootstrapped, RestartSafe, FullRunCovers
<1>2. Init => SuccessInv
  BY SuccessInit
<1>3. IInv /\ SuccessInv /\ [Next]_vars => SuccessInv'
  BY SuccessInvStep DEF IInv
<1> QED BY <1>1, <1>2, <1>3, IInvAlways, PTL DEF Spec

----------------------------------------------------------------------------
(* The crawl with the tail beside it.  latest is everybody's now, so the   *)
(* invariant says what is claimed of the rows alone.                       *)

\* What is on its way was posted and is followed by what was posted after it;
\* what a handler has written is a row.
HeardInv ==
  /\ coming \subseteq 1..posted /\ written \subseteq stored
  /\ coming # {} => listening
  /\ \A c \in coming, n \in 1..posted : c < n => n \in coming \cup stored

TailCore == Core /\ HeardInv /\ listening \in BOOLEAN /\ skipped \subseteq Ids

\* A handler writes the row of a message that was posted.
LEMMA CoreRow ==
  ASSUME Core, NEW m \in 1..posted, UpsertRow(m)
  PROVE  Core'
<1> USE DEF Core, UpsertRow, remoteVars, request, locals
<1>1. /\ UNCHANGED <<posted, remote, latest, cursor, complete, pc, full, since, target>>
      /\ UNCHANGED <<newest, before, page, fuel, aborts>>
      /\ stored' = stored \cup {m} /\ rebootstrapped' = (rebootstrapped \/ FromNothing)
  OBVIOUS
<1>2. Numbers'
  <2>1. m \in Ids
    BY MaxIdAssumption DEF TypeOK, Ids
  <2> QED BY <1>1, <2>1 DEF TypeOK, Numbers
<1>3. Flags'
  <2>1. FromNothing \in BOOLEAN
    BY Zenon DEF FromNothing
  <2> QED BY <1>1, <2>1, Zenon DEF TypeOK, Flags
<1>4. TypeOK'
  BY <1>2, <1>3, Zenon DEF TypeOK, Numbers, Flags
<1>5. Eligible' = Eligible
  BY <1>1 DEF Eligible
<1>6. PageInv'
  BY <1>1, <1>5 DEF PageInv
<1>7. RowsInv'
  BY <1>1, <1>5 DEF RowsInv, CheckpointsHaveRows
<1>8. ControlInv'
  BY <1>1 DEF ControlInv
<1>9. BlankInv'
  <2>1. rebootstrapped => rebootstrapped'
    BY <1>1, Zenon
  <2>2. UNCHANGED <<pc, complete, cursor>>
    BY <1>1
  <2> QED BY <2>1, <2>2 DEF BlankInv
<1> QED BY <1>4, <1>6, <1>7, <1>8, <1>9

\* A handler writes the checkpoint of a message that has a row.
LEMMA CoreCheckpoint ==
  ASSUME Core, HeardInv, NEW m, SaveCreated(m)
  PROVE  Core'
<1> USE DEF Core, SaveCreated, SaveCreatedOf, SaveLatest, remoteVars, request, locals, ghostVars
<1>1. /\ UNCHANGED <<posted, remote, stored, cursor, complete, pc, full, since, target>>
      /\ UNCHANGED <<newest, before, page, fuel, aborts, rebootstrapped>>
      /\ latest' = m /\ m \in stored
  BY DEF HeardInv
<1>2. Numbers'
  BY <1>1, MaxIdAssumption DEF TypeOK, Numbers, Ids
<1>3. Flags'
  BY <1>1, Zenon DEF TypeOK, Flags
<1>4. TypeOK'
  BY <1>2, <1>3, Zenon DEF TypeOK, Numbers, Flags
<1>5. Eligible' = Eligible
  BY <1>1 DEF Eligible
<1>6. PageInv' /\ RowsInv'
  BY <1>1, <1>5 DEF PageInv, RowsInv, CheckpointsHaveRows
<1>7. ControlInv' /\ BlankInv'
  BY <1>1 DEF ControlInv, BlankInv
<1> QED BY <1>4, <1>6, <1>7

\* The crawl posts nothing and drops no row.
LEMMA CrawlKeeps ==
  ASSUME Crawl
  PROVE  posted' = posted /\ remote' \subseteq remote /\ stored \subseteq stored'
         /\ UNCHANGED <<listening, coming, written, skipped>>
<1>1. UNCHANGED <<listening, coming, written, skipped>>
  BY DEF Crawl, tailVars
<1>2. CASE Delete
  BY <1>1, <1>2 DEF Delete, durableVars
<1>3. CASE ListChannels \/ SyncFull \/ SyncIncremental \/ Abort \/ DeadlineExpires
  BY <1>1, <1>3 DEF ListChannels, SyncFull, StartFull, SyncIncremental, StartIncremental, Abort,
     DeadlineExpires, StopRun, remoteVars, durableVars
<1>4. CASE Step
  BY <1>1, <1>4 DEF Step, ForwardFetch, ForwardPersist, ForwardSave, ForwardSaveThen, ForwardEnd,
     ForwardEndWith, BackfillFetch, BackfillPersist, BackfillLatest, BackfillLatestWith, BackfillCursor,
     BackfillCursorWith, BackfillComplete, Finish, BootstrapFetch, BootstrapPersist, BootstrapCursor,
     BootstrapComplete, BootstrapEnd, FetchAt, PersistAt, SaveLatest, SaveCursor, SaveComplete, StepFrame,
     remoteVars, durableVars
<1> QED BY <1>2, <1>3, <1>4 DEF Crawl

LEMMA TailCoreInit == TailInit => TailCore
BY CoreInit DEF TailInit, TailCore, HeardInv

LEMMA TailCoreStep == TailCore /\ [TailNext]_allVars => TailCore'
<1> SUFFICES ASSUME TailCore, [TailNext]_allVars PROVE TailCore'
  OBVIOUS
<1> USE DEF TailCore, HeardInv
<1>1. /\ posted \in Nat /\ posted =< MaxId
      /\ \A m \in 1..posted : m \in Nat /\ m \in Ids
      /\ \A m \in coming : m \in Nat
  BY MaxIdAssumption DEF Core, TypeOK, Ids
<1>2. CASE MessageCreate
  <2>1. Core' /\ posted' = posted + 1 /\ stored' = stored
    BY <1>2, CoreStep DEF MessageCreate, Post, Next, durableVars
  <2>2. /\ coming' = IF listening THEN coming \cup {posted + 1} ELSE coming
        /\ UNCHANGED <<listening, written, skipped>>
    BY <1>2, <2>1 DEF MessageCreate
  <2>3. \A n \in 1..(posted + 1) : n \in 1..posted \/ n = posted + 1
    BY <1>1
  <2> QED BY <1>1, <2>1, <2>2, <2>3
<1>3. CASE Connect \/ Disconnect \/ HandlerFails \/ UNCHANGED allVars
  <2>1. Core' /\ UNCHANGED <<posted, stored>>
    <3>1. UNCHANGED vars
      BY <1>3 DEF Connect, Disconnect, HandlerFails, allVars
    <3> QED BY <3>1, CoreStep DEF vars, remoteVars, durableVars
  <2>2. CASE Connect \/ UNCHANGED allVars
    BY <2>1, <2>2 DEF Connect, allVars, tailVars
  <2>3. CASE Disconnect
    BY <1>1, <2>1, <2>3 DEF Disconnect
  <2>4. CASE HandlerFails
    <3>1. /\ coming' \subseteq coming /\ written' \subseteq written
          /\ skipped' \subseteq skipped \cup coming \cup {Oldest(coming)} /\ UNCHANGED listening
          /\ coming' = coming \/ coming' = coming \ {Oldest(coming)}
      BY <2>4 DEF HandlerFails
    <3>2. coming # {} => Oldest(coming) \in coming /\ \A c \in coming : Oldest(coming) =< c
      <4>1. coming \in SUBSET Ids
        BY <1>1
      <4> QED BY <4>1, NewestOldest
    <3>3. skipped' \subseteq Ids
      BY <1>1, <2>4, <3>2 DEF HandlerFails
    <3>4. \A c \in coming', n \in 1..posted : c < n => n \in coming' \cup stored
      <4> SUFFICES ASSUME NEW c \in coming', NEW n \in 1..posted, c < n PROVE n \in coming' \cup stored
        OBVIOUS
      <4>1. n \in coming \cup stored /\ c \in coming
        BY <3>1
      <4>2. n # Oldest(coming)
        BY <1>1, <3>2, <4>1
      <4> QED BY <3>1, <4>1, <4>2
    <3> QED BY <2>1, <3>1, <3>3, <3>4
  <2> QED BY <1>3, <2>2, <2>3, <2>4
<1>4. ASSUME NEW m \in Ids, UpsertCreated(m) PROVE TailCore'
  <2>1. m \in 1..posted /\ UpsertRow(m)
    BY <1>4 DEF UpsertCreated
  <2>2. Core' /\ posted' = posted /\ stored' = stored \cup {m} /\ listening' = listening
    BY <2>1, CoreRow DEF UpsertRow, remoteVars
  <2>3. /\ coming' = coming \ {m} /\ written' = written \cup {m}
        /\ skipped' \subseteq skipped \cup 1..posted
    BY <1>4 DEF UpsertCreated, Missing
  <2> QED BY <1>1, <2>2, <2>3
<1>5. ASSUME NEW m \in Ids, UpsertUpdated(m) PROVE TailCore'
  <2>1. m \in 1..posted /\ UpsertRow(m)
    BY <1>5 DEF UpsertUpdated
  <2>2. Core' /\ posted' = posted /\ stored' = stored \cup {m} /\ listening' = listening
    BY <2>1, CoreRow DEF UpsertRow, remoteVars
  <2>3. /\ coming' = coming /\ written' = written
        /\ skipped' \subseteq skipped \cup 1..posted
    BY <1>5 DEF UpsertUpdated, Missing
  <2> QED BY <1>1, <2>2, <2>3
<1>6. ASSUME NEW m \in Ids, SaveCreated(m) PROVE TailCore'
  <2>1. Core'
    BY <1>6, CoreCheckpoint
  <2> QED BY <1>6, <2>1 DEF SaveCreated, SaveCreatedOf, SaveLatest, remoteVars
<1>7. CASE Crawl
  <2>1. Core'
    BY <1>7, CoreStep DEF Crawl, Next
  <2> QED BY <1>7, <2>1, CrawlKeeps
<1> QED BY <1>2, <1>3, <1>4, <1>5, <1>6, <1>7 DEF TailNext

----------------------------------------------------------------------------
(* No hole but what the tail went past.                                    *)

\* Where the bound of the next page is also the bound of what is claimed.
BoundPcs == BackfillPcs \cup {"bootstrap", "bootstrapPersist", "bootstrapComplete"}

Accounted(m) == m \in stored \cup coming \cup skipped

\* No hole among the rows, or below them in a complete history, is unaccounted.
InsideInv == \A m \in remote : Inside(m) => Accounted(m)

\* A full run's bound is its cursor, or a row while there is no cursor.
BoundInv ==
  (pc \in BoundPcs \/ (full /\ pc \in ForwardPcs)) /\ before # 0 =>
    before \in stored /\ cursor \in {0, before}

\* Without a bound the crawl has just begun, on a channel without rows.
StartInv == pc \in BelowPcs \cup {"backfillComplete"} /\ before = 0 => stored = {}

\* A forward page holds everything up to its last message.
UpwardInv ==
  pc = "forwardPersist" =>
    /\ \A p \in page : newest < p
    /\ \A m \in remote, p \in page : newest < m /\ m =< p => m \in page

\* A page below the bound holds everything down to its last message, and
\* everything there is if it is short; that stays so while it is dealt with.
DownwardInv ==
  pc \in {"backfillPersist", "backfillLatest", "backfillCursor", "bootstrapPersist"} =>
    \A m \in remote :
      PageUnder(m) /\ (ShortPage \/ \E p \in page : p =< m) => m \in page

\* Where history is about to be declared complete, nothing is below the bound.
BottomInv ==
  /\ pc \in {"backfillComplete", "bootstrapComplete"} => \A m \in remote : before =< m
  /\ pc = "bootstrapComplete" => before # 0

TailGapInv == InsideInv /\ BoundInv /\ StartInv /\ UpwardInv /\ DownwardInv /\ BottomInv

TailPcs == ForwardPcs \cup BoundPcs

\* Nothing but the rows is asked for where no page is in hand or due.
LEMMA TailGapAtRest ==
  ASSUME InsideInv', pc' \notin TailPcs
  PROVE  TailGapInv'
BY DEF TailGapInv, BoundInv, StartInv, UpwardInv, DownwardInv, BottomInv, TailPcs, BoundPcs,
       ForwardPcs, BackfillPcs, BelowPcs

\* What is beside the rows is not the tail's.
LEMMA TailGapRows ==
  ASSUME TailGapInv, InsideInv', StartInv', stored \subseteq stored',
         UNCHANGED <<remote, cursor, pc, full, since, newest, before, page>>
  PROVE  TailGapInv'
<1>1. \A m : PageUnder(m)' = PageUnder(m)
  BY DEF PageUnder
<1>2. ShortPage' = ShortPage
  BY DEF ShortPage
<1>3. BoundInv' /\ UpwardInv' /\ BottomInv'
  BY DEF TailGapInv, BoundInv, UpwardInv, BottomInv
<1>4. DownwardInv'
  BY <1>1, <1>2 DEF TailGapInv, DownwardInv
<1> QED BY <1>3, <1>4 DEF TailGapInv

\* As long as rows, cursor and completeness stay, nothing else is inside.
LEMMA InsideStays ==
  ASSUME InsideInv, UNCHANGED <<stored, cursor, complete>>, remote' \subseteq remote,
         \A m \in coming : Inside(m) => m \in coming' \cup skipped', skipped \subseteq skipped'
  PROVE  InsideInv' /\ \A m : Inside(m)' = Inside(m)
<1>1. \A m : Inside(m)' = Inside(m)
  BY DEF Inside, ClaimedBelow, UnderRow
<1> QED BY <1>1 DEF InsideInv, Accounted

\* A new message is above every row and every page.
LEMMA TailGapPost ==
  ASSUME TailCore, TailGapInv, MessageCreate
  PROVE  TailGapInv'
<1> USE DEF TailCore, Core
<1>1. /\ UNCHANGED <<stored, cursor, complete, pc, full, since, newest, before, page, skipped>>
      /\ remote' = remote \cup {posted + 1} /\ coming \subseteq coming'
  BY DEF MessageCreate, Post, durableVars, request, locals
<1>2. /\ newest =< posted /\ before =< posted
      /\ \A s \in stored : s =< posted
      /\ \A p \in page : p =< posted
  BY Naturals DEF PageInv
<1>3. \A m : PageUnder(m)' = PageUnder(m) /\ Inside(m)' = Inside(m)
  BY <1>1 DEF PageUnder, Inside, ClaimedBelow, UnderRow
<1>4. ShortPage' = ShortPage
  BY <1>1 DEF ShortPage
<1>5. ~PageUnder(posted + 1) /\ ~Inside(posted + 1) /\ before =< posted + 1
      /\ \A p \in page : ~(posted + 1 =< p)
  BY <1>2, Naturals DEF PageUnder, Inside, UnderRow
<1>6. \A m \in remote' : m \in remote \/ m = posted + 1
  BY <1>1
<1>7. InsideInv'
  BY <1>1, <1>3, <1>5, <1>6 DEF TailGapInv, InsideInv, Accounted
<1>8. BoundInv' /\ StartInv' /\ BottomInv'
  BY <1>1, <1>5, <1>6 DEF TailGapInv, BoundInv, StartInv, BottomInv
<1>9. UpwardInv'
  BY <1>1, <1>5, <1>6 DEF TailGapInv, UpwardInv
<1>10. DownwardInv'
  BY <1>1, <1>3, <1>4, <1>5, <1>6 DEF TailGapInv, DownwardInv
<1> QED BY <1>7, <1>8, <1>9, <1>10 DEF TailGapInv

\* What is lost on its way is skipped, if it was claimed.
LEMMA TailGapLost ==
  ASSUME TailCore, TailGapInv, Connect \/ Disconnect \/ HandlerFails \/ UNCHANGED allVars
  PROVE  TailGapInv'
<1>1. /\ UNCHANGED <<remote, stored, cursor, complete, pc, full, since, newest, before, page>>
  BY DEF Connect, Disconnect, HandlerFails, allVars, vars, remoteVars, durableVars, request, locals
<1>2. \A m \in coming : Inside(m) => m \in coming' \cup skipped'
  BY DEF Connect, Disconnect, HandlerFails, allVars, tailVars
<1>3. skipped \subseteq skipped'
  BY DEF Connect, Disconnect, HandlerFails, allVars, tailVars
<1>4. InsideInv'
  BY <1>1, <1>2, <1>3, InsideStays DEF TailGapInv
<1>5. StartInv'
  BY <1>1 DEF TailGapInv, StartInv
<1> QED BY <1>1, <1>4, <1>5, TailGapRows

\* The checkpoint itself claims nothing its row does not.
LEMMA TailGapSave ==
  ASSUME TailGapInv, NEW m, SaveCreated(m)
  PROVE  TailGapInv'
<1>1. /\ UNCHANGED <<remote, stored, cursor, complete, pc, full, since, newest, before, page>>
      /\ UNCHANGED <<coming, skipped>>
  BY DEF SaveCreated, SaveCreatedOf, SaveLatest, remoteVars, request, locals
<1>2. InsideInv'
  BY <1>1, InsideStays DEF TailGapInv
<1>3. StartInv'
  BY <1>1 DEF TailGapInv, StartInv
<1> QED BY <1>1, <1>2, <1>3, TailGapRows

\* A row the tail writes is new to a crawl from nothing only.
LEMMA RowStart ==
  ASSUME TailGapInv, NEW m, UpsertRow(m), ~rebootstrapped'
  PROVE  StartInv'
<1>1. ~FromNothing
  BY Zenon DEF UpsertRow
<1>2. UNCHANGED <<pc, before>>
  BY DEF UpsertRow, locals
<1> QED BY <1>1, <1>2 DEF StartInv, FromNothing, BelowPcs

\* A created message was heard of together with all that came after it; what
\* came before it and is missing is skipped.
LEMMA TailGapCreated ==
  ASSUME TailCore, TailGapInv, NEW m, UpsertCreated(m), ~rebootstrapped'
  PROVE  TailGapInv'
<1> USE DEF TailCore, Core
<1>1. /\ UNCHANGED <<remote, cursor, complete, pc, full, since, newest, before, page>>
      /\ stored' = stored \cup {m} /\ coming' = coming \ {m} /\ m \in coming
      /\ skipped' = skipped \cup {n \in Missing : n < m /\ ClaimedBelow(n)}
  BY DEF UpsertCreated, UpsertRow, remoteVars, request, locals
<1>2. m \in 1..posted /\ posted \in Nat /\ m \in Nat
  BY <1>1, Naturals DEF HeardInv
<1>3. ASSUME NEW n \in remote, Inside(n)' PROVE Accounted(n)'
  <2>1. n \in 1..posted /\ n \in Nat /\ \A s \in stored : s \in Nat
    BY Naturals DEF TypeOK
  <2>2. ClaimedBelow(n)' => ClaimedBelow(n) \/ m =< n
    BY <1>1 DEF ClaimedBelow
  <2>3. UnderRow(n)' => UnderRow(n) \/ n =< m
    BY <1>1 DEF UnderRow
  <2>4. CASE n = m
    BY <1>1, <2>4 DEF Accounted
  <2>5. CASE n < m
    <3>1. ClaimedBelow(n)
      BY <1>2, <1>3, <2>1, <2>2, <2>5 DEF Inside
    <3>2. n \in Missing \/ n \in stored \cup coming
      BY <2>1 DEF Missing
    <3>3. n # m
      BY <1>2, <2>1, <2>5
    <3> QED BY <1>1, <2>5, <3>1, <3>2, <3>3 DEF Accounted
  <2>6. CASE m < n
    <3>1. n \in coming \cup stored
      BY <1>1, <2>1, <2>6 DEF HeardInv
    <3>2. n # m
      BY <1>2, <2>1, <2>6
    <3> QED BY <1>1, <3>1, <3>2 DEF Accounted
  <2> QED BY <1>2, <2>1, <2>4, <2>5, <2>6
<1>4. InsideInv'
  BY <1>1, <1>3 DEF InsideInv
<1>5. StartInv'
  BY RowStart DEF UpsertCreated
<1> QED BY <1>1, <1>4, <1>5, TailGapRows

\* An edit of a message without a row may claim in both directions.
LEMMA TailGapUpdated ==
  ASSUME TailCore, TailGapInv, NEW m, UpsertUpdated(m), ~rebootstrapped'
  PROVE  TailGapInv'
<1> USE DEF TailCore, Core
<1>1. /\ UNCHANGED <<remote, cursor, complete, pc, full, since, newest, before, page, coming>>
      /\ stored' = stored \cup {m} /\ m \in 1..posted
      /\ skipped' = skipped \cup
           {n \in Missing \ {m} : IF n < m THEN ClaimedBelow(n) ELSE cursor = 0 /\ UnderRow(n)}
  BY DEF UpsertUpdated, UpsertRow, remoteVars, request, locals
<1>2. posted \in Nat /\ m \in Nat
  BY <1>1, Naturals
<1>3. ASSUME NEW n \in remote, Inside(n)' PROVE Accounted(n)'
  <2>1. n \in 1..posted /\ n \in Nat /\ \A s \in stored : s \in Nat
    BY Naturals DEF TypeOK
  <2>2. ClaimedBelow(n)' => ClaimedBelow(n) \/ (cursor = 0 /\ m =< n)
    BY <1>1 DEF ClaimedBelow
  <2>3. UnderRow(n)' => UnderRow(n) \/ n =< m
    BY <1>1 DEF UnderRow
  <2>4. CASE Inside(n)
    <3>1. Accounted(n)
      BY <2>4 DEF TailGapInv, InsideInv
    <3> QED BY <1>1, <3>1 DEF Accounted
  <2>5. CASE n = m \/ n \notin Missing
    BY <1>1, <2>1, <2>5 DEF Accounted, Missing
  <2>6. CASE n # m /\ n \in Missing /\ ~Inside(n)
    <3>1. IF n < m THEN ClaimedBelow(n) ELSE cursor = 0 /\ UnderRow(n)
      BY <1>2, <1>3, <2>1, <2>2, <2>3, <2>6 DEF Inside
    <3> QED BY <1>1, <2>6, <3>1 DEF Accounted
  <2> QED BY <2>4, <2>5, <2>6
<1>4. InsideInv'
  BY <1>1, <1>3 DEF InsideInv
<1>5. StartInv'
  BY RowStart DEF UpsertUpdated
<1> QED BY <1>1, <1>4, <1>5, TailGapRows

----------------------------------------------------------------------------
(* The crawl's own steps.                                                  *)

\* Rows, cursor and completeness stay, and so what is inside.
LEMMA CrawlStays ==
  ASSUME InsideInv, UNCHANGED tailVars, UNCHANGED <<remote, stored, cursor, complete>>
  PROVE  InsideInv'
BY InsideStays DEF tailVars

\* Runs begin and stop.
LEMMA TailGapStop ==
  ASSUME TailGapInv, UNCHANGED tailVars, ListChannels \/ Abort \/ DeadlineExpires
  PROVE  TailGapInv'
<1>1. UNCHANGED <<remote, stored, cursor, complete>> /\ pc' \in {"listed", "idle"}
  BY DEF ListChannels, Abort, DeadlineExpires, StopRun, remoteVars, durableVars
<1>2. InsideInv'
  BY <1>1, CrawlStays DEF TailGapInv
<1> QED
  BY <1>1, <1>2, TailGapAtRest DEF TailPcs, BoundPcs, ForwardPcs, BackfillPcs

\* What is deleted is asked for no longer.
LEMMA TailGapDelete ==
  ASSUME TailGapInv, UNCHANGED tailVars, Delete
  PROVE  TailGapInv'
<1>1. /\ UNCHANGED <<stored, cursor, complete, pc, full, since, newest, before, page>>
      /\ remote' \subseteq remote
  BY DEF Delete, durableVars, request, locals
<1>2. \A m : PageUnder(m)' = PageUnder(m)
  BY <1>1 DEF PageUnder
<1>3. ShortPage' = ShortPage
  BY <1>1 DEF ShortPage
<1>4. InsideInv'
  BY <1>1, InsideStays DEF tailVars, TailGapInv
<1>5. BoundInv' /\ StartInv' /\ UpwardInv' /\ BottomInv'
  BY <1>1 DEF TailGapInv, BoundInv, StartInv, UpwardInv, BottomInv
<1>6. DownwardInv'
  BY <1>1, <1>2, <1>3 DEF TailGapInv, DownwardInv
<1> QED BY <1>4, <1>5, <1>6 DEF TailGapInv

LEMMA TailGapFull ==
  ASSUME Core, TailGapInv, UNCHANGED tailVars, SyncFull
  PROVE  TailGapInv'
<1> USE DEF Core
<1>1. PICK id : StartFull(id)
  BY DEF SyncFull
<1>2. UNCHANGED <<remote, stored, latest, cursor>>
  BY <1>1 DEF StartFull, remoteVars
<1>3. /\ SeededCursor # 0 => SeededCursor \in stored
      /\ SeededLatest = 0 => stored = {}
      /\ SeededCursor = 0 => stored = {} /\ cursor = 0 /\ latest = 0
      /\ SeededLatest # 0 => SeededLatest \in stored
      /\ cursor # 0 => SeededCursor = cursor
  BY SeedEnds
<1>4. complete' <=> complete
  BY <1>1, <1>3 DEF StartFull
<1>5. \A m : Inside(m)' <=> Inside(m)
  BY <1>2, <1>4 DEF Inside, ClaimedBelow, UnderRow
<1>6. InsideInv'
  BY <1>2, <1>5 DEF TailGapInv, InsideInv, Accounted, tailVars
<1>7. \/ pc' = "succeeded"
      \/ /\ pc' \in {"forward", "backfill"} /\ (pc' = "backfill" => SeededLatest = 0)
         /\ before' = IF SeededCursor # 0 THEN SeededCursor ELSE SeededLatest
  BY <1>1 DEF StartFull, SkipRun, BeginCrawl
<1>8. CASE pc' = "succeeded"
  BY <1>6, <1>8, TailGapAtRest DEF TailPcs, BoundPcs, ForwardPcs, BackfillPcs
<1>9. CASE pc' \in {"forward", "backfill"}
  <2>1. BoundInv'
    BY <1>2, <1>3, <1>7, <1>9 DEF BoundInv
  <2>2. StartInv'
    BY <1>2, <1>3, <1>7, <1>9 DEF StartInv, BelowPcs
  <2> QED BY <1>6, <1>9, <2>1, <2>2 DEF TailGapInv, UpwardInv, DownwardInv, BottomInv
<1> QED BY <1>7, <1>8, <1>9

LEMMA TailGapIncremental ==
  ASSUME Core, TailGapInv, UNCHANGED tailVars, SyncIncremental, ~rebootstrapped'
  PROVE  TailGapInv'
<1> USE DEF Core
<1>1. PICK id : StartIncremental(id)
  BY DEF SyncIncremental
<1>2. UNCHANGED <<remote, stored, latest, cursor, complete>>
  BY <1>1 DEF StartIncremental, remoteVars, durableVars
<1>3. InsideInv'
  BY <1>2, CrawlStays DEF TailGapInv
<1>4. \/ pc' = "succeeded"
      \/ before' = 0 /\ pc' = "forward"
      \/ /\ before' = 0 /\ pc' = "bootstrap"
         /\ rebootstrapped' = (rebootstrapped \/ stored # {} \/ complete)
  BY <1>1 DEF StartIncremental, SkipRun, BeginCrawl
<1>5. CASE pc' = "succeeded"
  BY <1>3, <1>5, TailGapAtRest DEF TailPcs, BoundPcs, ForwardPcs, BackfillPcs
<1>6. CASE pc' = "forward"
  BY <1>3, <1>4, <1>6
     DEF TailGapInv, BoundInv, StartInv, UpwardInv, DownwardInv, BottomInv, BelowPcs
<1>7. CASE pc' = "bootstrap"
  <2>1. stored = {}
    BY <1>4, <1>7
  <2> QED BY <1>2, <1>3, <1>4, <1>7, <2>1
          DEF TailGapInv, BoundInv, StartInv, UpwardInv, DownwardInv, BottomInv
<1> QED BY <1>4, <1>5, <1>6, <1>7

LEMMA TailGapForwardFetch ==
  ASSUME Core, TailGapInv, UNCHANGED tailVars, ForwardFetch
  PROVE  TailGapInv'
<1> USE DEF Core
<1>1. /\ UNCHANGED <<remote, stored, cursor, complete, full, newest, before>>
      /\ pc = "forward" /\ pc' \in {"forwardEnd", "forwardPersist"}
      /\ page' \in PagesAfter(newest)
  BY DEF ForwardFetch, FetchAt, Goto, StepFrame, remoteVars, durableVars, request
<1>2. InsideInv'
  BY <1>1, CrawlStays DEF TailGapInv
<1>3. BoundInv'
  BY <1>1 DEF TailGapInv, BoundInv, BoundPcs, ForwardPcs, BackfillPcs
<1>4. UpwardInv'
  BY <1>1, Naturals DEF PagesAfter, UpwardInv
<1> QED BY <1>1, <1>2, <1>3, <1>4 DEF TailGapInv, StartInv, DownwardInv, BottomInv, BelowPcs

LEMMA TailGapForwardPersist ==
  ASSUME Core, TailGapInv, UNCHANGED tailVars, ForwardPersist
  PROVE  TailGapInv'
<1> USE DEF Core
<1>1. /\ UNCHANGED <<remote, cursor, complete, full, before>>
      /\ pc = "forwardPersist" /\ pc' = "forwardSave" /\ stored' = stored \cup page
  BY DEF ForwardPersist, PersistAt, Goto, StepFrame, remoteVars, request
<1>2. newest \in stored /\ newest \in Nat /\ \A p \in page : newest < p /\ p \in Nat
  BY <1>1, Naturals DEF RowsInv, ControlInv, ForwardPcs, TailGapInv, UpwardInv
<1>3. ASSUME NEW m \in remote, Inside(m)' PROVE Accounted(m)'
  <2>1. m \in Nat /\ \A s \in stored : s \in Nat
    BY Naturals
  <2>2. ClaimedBelow(m)
    BY <1>1, <1>2, <1>3, <2>1 DEF Inside, ClaimedBelow
  <2>3. UnderRow(m) \/ \E p \in page : m =< p
    BY <1>1, <1>3 DEF Inside, UnderRow
  <2>4. CASE UnderRow(m)
    BY <1>1, <2>2, <2>4 DEF TailGapInv, InsideInv, Inside, Accounted, tailVars
  <2>5. CASE ~UnderRow(m)
    <3>1. newest < m
      BY <1>2, <2>1, <2>5 DEF UnderRow
    <3>2. m \in page
      BY <1>1, <2>3, <2>5, <3>1 DEF TailGapInv, UpwardInv
    <3> QED BY <1>1, <3>2 DEF Accounted
  <2> QED BY <2>4, <2>5
<1>4. InsideInv'
  BY <1>1, <1>3 DEF InsideInv
<1>5. BoundInv'
  BY <1>1 DEF TailGapInv, BoundInv, BoundPcs, ForwardPcs, BackfillPcs
<1> QED BY <1>1, <1>4, <1>5 DEF TailGapInv, StartInv, UpwardInv, DownwardInv, BottomInv, BelowPcs

\* Writing latest changes nothing here: the run goes on with its page, or
\* without one.
LEMMA TailGapLatest ==
  ASSUME Core, TailGapInv, UNCHANGED tailVars,
         ForwardSave \/ ForwardEnd \/ BackfillLatest \/ Finish \/ BootstrapEnd
  PROVE  TailGapInv'
<1> USE DEF Core
<1>1. UNCHANGED <<remote, stored, cursor, complete, full>>
  BY DEF ForwardSave, ForwardSaveThen, ForwardEnd, ForwardEndWith, BackfillLatest, BackfillLatestWith,
         Finish, BootstrapEnd, SaveLatest, StepFrame, remoteVars, request
<1>2. InsideInv'
  BY <1>1, CrawlStays DEF TailGapInv
<1>3. CASE ForwardSave
  <2>1. before' = before /\ pc = "forwardSave" /\ pc' \in {"forward", "forwardEnd"}
    BY <1>3 DEF ForwardSave, ForwardSaveThen, Goto
  <2> QED BY <1>1, <1>2, <2>1
          DEF TailGapInv, BoundInv, BoundPcs, StartInv, UpwardInv, DownwardInv, BottomInv,
              ForwardPcs, BackfillPcs, BelowPcs
<1>4. CASE ForwardEnd
  <2>1. /\ pc = "forwardEnd" /\ pc' \in {"succeeded", "finish", "backfill"}
        /\ pc' = "backfill" => full /\ before' = before
    BY <1>4 DEF ForwardEnd, ForwardEndWith, Goto, locals
  <2>2. full => before # 0
    BY <2>1 DEF ControlInv, ForwardPcs
  <2> QED BY <1>1, <1>2, <2>1, <2>2
          DEF TailGapInv, BoundInv, BoundPcs, StartInv, UpwardInv, DownwardInv, BottomInv,
              ForwardPcs, BackfillPcs, BelowPcs
<1>5. CASE BackfillLatest
  <2>1. /\ UNCHANGED <<newest, before, page>>
        /\ pc = "backfillLatest" /\ pc' = "backfillCursor"
    BY <1>5 DEF BackfillLatest, BackfillLatestWith, Goto, locals
  <2>2. \A m : PageUnder(m)' = PageUnder(m)
    BY <2>1 DEF PageUnder
  <2>3. ShortPage' = ShortPage
    BY <2>1 DEF ShortPage
  <2>4. DownwardInv'
    BY <1>1, <2>1, <2>2, <2>3 DEF TailGapInv, DownwardInv
  <2>5. BoundInv'
    BY <1>1, <2>1 DEF TailGapInv, BoundInv, BoundPcs, ForwardPcs, BackfillPcs
  <2> QED BY <1>2, <2>1, <2>4, <2>5 DEF TailGapInv, StartInv, UpwardInv, BottomInv, BelowPcs
<1>6. CASE Finish \/ BootstrapEnd
  <2>1. pc' = "succeeded"
    BY <1>6 DEF Finish, BootstrapEnd, Goto
  <2> QED BY <1>2, <2>1, TailGapAtRest DEF TailPcs, BoundPcs, ForwardPcs, BackfillPcs
<1> QED BY <1>3, <1>4, <1>5, <1>6

LEMMA TailGapFetchBelow ==
  ASSUME Core, TailGapInv, UNCHANGED tailVars, BackfillFetch \/ BootstrapFetch
  PROVE  TailGapInv'
<1> USE DEF Core
<1>1. /\ UNCHANGED <<remote, stored, cursor, complete, full, newest, before>>
      /\ \/ pc = "backfill" /\ pc' = IF page' = {} THEN "backfillComplete" ELSE "backfillPersist"
         \/ pc = "bootstrap" /\ pc' = IF page' = {} THEN "bootstrapEnd" ELSE "bootstrapPersist"
      /\ page' \in PagesBefore(before)
  BY DEF BackfillFetch, BootstrapFetch, FetchAt, Goto, StepFrame, remoteVars, durableVars, request
<1>2. InsideInv'
  BY <1>1, CrawlStays DEF TailGapInv
<1>3. BoundInv' /\ StartInv'
  BY <1>1 DEF TailGapInv, BoundInv, BoundPcs, StartInv, ForwardPcs, BackfillPcs, BelowPcs
<1>4. DownwardInv' /\ BottomInv'
  BY <1>1, PageBefore DEF DownwardInv, BottomInv
<1> QED BY <1>1, <1>2, <1>3, <1>4 DEF TailGapInv, UpwardInv

\* Of what lies in the page's stretch above its oldest eligible message,
\* nothing is left out.
LEMMA EligibleDown ==
  ASSUME Core, TailGapInv,
         pc \in {"backfillPersist", "backfillLatest", "backfillCursor", "bootstrapPersist"},
         NEW m \in remote, PageUnder(m), NEW e \in Eligible, e =< m
  PROVE  m \in Eligible
<1>1. m \in page
  BY DEF TailGapInv, DownwardInv, Eligible
<1>2. since \in Nat /\ m \in Nat /\ e \in Nat /\ e >= since
  BY Naturals, CutoffsAssumption DEF Core, TypeOK, Eligible
<1> QED BY <1>1, <1>2 DEF Eligible

\* A page below the bound adds its rows.
LEMMA InsidePersist ==
  ASSUME Core, TailGapInv, UNCHANGED tailVars,
         pc \in {"backfillPersist", "bootstrapPersist"}, ~complete,
         stored' = stored \cup Eligible, UNCHANGED <<remote, cursor, complete>>
  PROVE  InsideInv'
<1> USE DEF Core
<1> SUFFICES ASSUME NEW m \in remote, Inside(m)' PROVE Accounted(m)'
  BY DEF InsideInv
<1>1. /\ m \in Nat /\ before \in Nat /\ cursor \in Nat /\ Eligible \subseteq page
      /\ \A s \in stored \cup page : s \in Nat
  BY Naturals
<1>2. CASE before = 0
  <2>1. stored = {} /\ cursor = 0
    BY <1>2 DEF TailGapInv, StartInv, BelowPcs, RowsInv, CheckpointsHaveRows
  <2>2. PICK e \in Eligible : e =< m
    BY <2>1 DEF Inside, ClaimedBelow
  <2>3. PICK d \in Eligible : m =< d
    BY <2>1 DEF Inside, UnderRow
  <2>4. PageUnder(m)
    BY <1>1, <1>2, <2>3 DEF PageUnder
  <2>5. m \in Eligible
    BY <2>2, <2>4, EligibleDown
  <2> QED BY <2>5 DEF Accounted
<1>3. CASE before # 0
  <2>1. \A p \in page : p < before
    BY <1>3 DEF ControlInv, BelowPcs
  <2>2. before \in stored
    BY <1>3 DEF RowsInv
  <2>3. PICK s \in stored \cup Eligible : m =< s
    BY DEF Inside, UnderRow
  <2>a. UnderRow(m)
    <3>1. CASE s \in stored
      BY <2>3, <3>1 DEF UnderRow
    <3>2. CASE s \in Eligible
      <4>1. s < before /\ s \in Nat
        BY <1>1, <2>1, <3>2
      <4>2. m =< before
        BY <1>1, <2>3, <4>1
      <4> QED BY <2>2, <4>2 DEF UnderRow
    <3> QED BY <2>3, <3>1, <3>2
  <2>4. CASE ClaimedBelow(m)
    BY <2>a, <2>4 DEF TailGapInv, InsideInv, Inside, Accounted, tailVars
  <2>5. CASE ~ClaimedBelow(m)
    <3>1. cursor = 0
      BY <2>5 DEF Inside, ClaimedBelow
    <3>2. PICK e \in Eligible : e =< m
      BY <2>5, <3>1 DEF Inside, ClaimedBelow
    <3>3. m < before
      BY <1>1, <2>2, <2>5, <3>1 DEF ClaimedBelow
    <3>4. m \in Eligible
      BY <1>3, <3>2, <3>3, EligibleDown DEF PageUnder
    <3> QED BY <3>4 DEF Accounted
  <2> QED BY <2>4, <2>5
<1> QED BY <1>2, <1>3

LEMMA TailGapBackfillPersist ==
  ASSUME Core, TailGapInv, UNCHANGED tailVars, BackfillPersist
  PROVE  TailGapInv'
<1> USE DEF Core
<1>1. /\ UNCHANGED <<remote, cursor, complete, full, before, page>>
      /\ pc = "backfillPersist" /\ stored' = stored \cup Eligible
      /\ pc' \in {"finish", "backfillLatest"}
  BY DEF BackfillPersist, PersistAt, Goto, StepFrame, remoteVars, request
<1>2. ~complete
  BY <1>1 DEF ControlInv, BackfillPcs
<1>3. InsideInv'
  BY <1>1, <1>2, InsidePersist
<1>4. \A m : PageUnder(m)' = PageUnder(m)
  BY <1>1 DEF PageUnder
<1>5. ShortPage' = ShortPage
  BY <1>1 DEF ShortPage
<1>6. DownwardInv'
  BY <1>1, <1>4, <1>5 DEF TailGapInv, DownwardInv
<1>7. BoundInv'
  BY <1>1 DEF TailGapInv, BoundInv, BoundPcs, ForwardPcs, BackfillPcs
<1> QED BY <1>1, <1>3, <1>6, <1>7 DEF TailGapInv, StartInv, UpwardInv, BottomInv, BelowPcs

\* A short page that no cutoff shortens ends at the bottom.
LEMMA PageBottom ==
  ASSUME Core, TailGapInv, pc \in {"backfillCursor", "bootstrapPersist"},
         ShortPage, page # {}, NEW m \in remote
  PROVE  Oldest(page) =< m
<1> USE DEF Core
<1>1. Oldest(page) \in page /\ \A p \in page : Oldest(page) =< p
  BY PageEnds
<1>2. m \in Nat /\ before \in Nat /\ Oldest(page) \in Nat
  BY <1>1, Naturals
<1>3. CASE PageUnder(m)
  BY <1>1, <1>3 DEF TailGapInv, DownwardInv
<1>4. CASE ~PageUnder(m) /\ before = 0
  BY <1>1, <1>2, <1>4 DEF PageUnder
<1>5. CASE ~PageUnder(m) /\ before # 0
  <2>1. Oldest(page) < before
    BY <1>1, <1>5 DEF ControlInv, BelowPcs
  <2> QED BY <1>2, <1>5, <2>1 DEF PageUnder
<1> QED BY <1>3, <1>4, <1>5

LEMMA TailGapBackfillCursor ==
  ASSUME Core, TailGapInv, UNCHANGED tailVars, BackfillCursor
  PROVE  TailGapInv'
<1> USE DEF Core
<1> DEFINE o == Oldest(Eligible)
<1>1. /\ UNCHANGED <<remote, stored, complete, full>>
      /\ cursor' = o /\ before' = o /\ pc = "backfillCursor"
      /\ pc' = IF ReachedSince THEN "finish"
               ELSE IF ShortPage THEN "backfillComplete" ELSE "backfill"
  BY DEF BackfillCursor, BackfillCursorWith, SaveCursor, Goto, StepFrame, remoteVars, request
<1>a. o \in Eligible
  BY <1>1, PageEnds DEF PageInv
<1>b. o \in stored
  BY <1>1, <1>a DEF RowsInv
<1>c. ~complete
  BY <1>1 DEF ControlInv, BackfillPcs
<1>2. o \in Eligible /\ o \in stored /\ o \in Nat /\ o # 0 /\ ~complete
  <2> HIDE DEF o
  <2>1. o \in Nat /\ o > 0
    BY <1>b, Naturals
  <2> QED BY <1>a, <1>b, <1>c, <2>1
<1>3. ASSUME NEW m \in remote, Inside(m)' PROVE Accounted(m)'
  <2>1. o =< m /\ UnderRow(m)
    BY <1>1, <1>2, <1>3 DEF Inside, ClaimedBelow, UnderRow
  <2>2. m \in Nat /\ before \in Nat
    BY Naturals
  <2>3. CASE ClaimedBelow(m)
    BY <1>1, <2>1, <2>3 DEF TailGapInv, InsideInv, Inside, Accounted, tailVars
  <2>4. CASE ~ClaimedBelow(m)
    <3>1. cursor # 0 /\ m < cursor
      BY <1>2, <2>1, <2>2, <2>4, Naturals DEF ClaimedBelow
    <3>2. before = cursor
      BY <1>1, <3>1 DEF ControlInv, BackfillPcs
    <3>3. PageUnder(m)
      BY <3>1, <3>2 DEF PageUnder
    <3>4. m \in Eligible
      BY <1>1, <1>2, <2>1, <3>3, EligibleDown
    <3> QED BY <1>1, <3>4 DEF RowsInv, Accounted
  <2> QED BY <2>3, <2>4
<1>4. InsideInv'
  BY <1>1, <1>3 DEF InsideInv
<1>5. BottomInv'
  <2>1. ~ReachedSince => Eligible = page
    BY DEF ReachedSince
  <2>2. page # {}
    BY <1>2 DEF Eligible
  <2> QED BY <1>1, <2>1, <2>2, PageBottom DEF BottomInv
<1>6. BoundInv' /\ StartInv'
  BY <1>1, <1>2 DEF BoundInv, StartInv
<1> QED BY <1>1, <1>4, <1>5, <1>6 DEF TailGapInv, UpwardInv, DownwardInv

\* History is complete: below the bound there is nothing, and above it
\* everything was inside already.
LEMMA TailGapComplete ==
  ASSUME Core, TailGapInv, UNCHANGED tailVars, BackfillComplete \/ BootstrapComplete
  PROVE  TailGapInv'
<1> USE DEF Core
<1>1. /\ UNCHANGED <<remote, stored, cursor>>
      /\ pc \in {"backfillComplete", "bootstrapComplete"} /\ pc' \in {"finish", "bootstrapEnd"}
  BY DEF BackfillComplete, BootstrapComplete, SaveComplete, Goto, StepFrame, remoteVars
<1>2. ASSUME NEW m \in remote, Inside(m)' PROVE Accounted(m)'
  <2>1. UnderRow(m)
    BY <1>1, <1>2 DEF Inside, UnderRow
  <2>2. before # 0
    BY <1>1, <2>1 DEF TailGapInv, StartInv, BottomInv, UnderRow
  <2>3. before \in stored /\ cursor \in {0, before} /\ before =< m
    BY <1>1, <2>2 DEF TailGapInv, BoundInv, BoundPcs, BackfillPcs, BottomInv
  <2>4. ClaimedBelow(m)
    BY <2>3 DEF ClaimedBelow
  <2> QED BY <1>1, <2>1, <2>4 DEF TailGapInv, InsideInv, Inside, Accounted, tailVars
<1>3. InsideInv'
  BY <1>1, <1>2 DEF InsideInv
<1> QED
  BY <1>1, <1>3, TailGapAtRest DEF TailPcs, BoundPcs, ForwardPcs, BackfillPcs

LEMMA TailGapBootstrapPersist ==
  ASSUME Core, TailGapInv, UNCHANGED tailVars, BootstrapPersist, ~rebootstrapped
  PROVE  TailGapInv'
<1> USE DEF Core
<1> DEFINE o == Oldest(page)
<1>1. /\ UNCHANGED <<remote, cursor, complete, page>>
      /\ pc = "bootstrapPersist" /\ stored' = stored \cup Eligible
      /\ pc' = IF ReachedSince
               THEN IF Eligible = {} THEN "bootstrapEnd" ELSE "bootstrapCursor"
               ELSE IF ShortPage THEN "bootstrapComplete" ELSE "bootstrap"
      /\ before' = o
  BY DEF BootstrapPersist, PersistAt, Goto, StepFrame, remoteVars
<1>2. ~complete /\ cursor = 0
  BY <1>1 DEF BlankInv, BootstrapPcs
<1>3. InsideInv'
  BY <1>1, <1>2, InsidePersist
<1>a. page # {}
  BY <1>1 DEF PageInv
<1>b. o \in page
  BY <1>a, PageEnds
<1>4. page # {} /\ o \in page /\ o \in Nat /\ o # 0
  BY <1>a, <1>b, Naturals
<1>5. CASE ReachedSince
  BY <1>1, <1>3, <1>5, TailGapAtRest DEF TailPcs, BoundPcs, ForwardPcs, BackfillPcs
<1>6. CASE ~ReachedSince
  <2>1. BoundInv' /\ StartInv'
    BY <1>1, <1>2, <1>4, <1>6 DEF BoundInv, StartInv, ReachedSince
  <2>2. BottomInv'
    BY <1>1, <1>4, <1>6, PageBottom DEF BottomInv
  <2> QED BY <1>1, <1>3, <1>6, <2>1, <2>2 DEF TailGapInv, UpwardInv, DownwardInv
<1> QED BY <1>5, <1>6

LEMMA TailGapBootstrapCursor ==
  ASSUME Core, TailGapInv, UNCHANGED tailVars, BootstrapCursor, ~rebootstrapped
  PROVE  TailGapInv'
<1> USE DEF Core
<1> DEFINE o == Oldest(Eligible)
<1>1. /\ UNCHANGED <<remote, stored, complete>>
      /\ cursor' = o /\ pc = "bootstrapCursor" /\ pc' = "bootstrapEnd"
  BY DEF BootstrapCursor, SaveCursor, Goto, StepFrame, remoteVars
<1>2. ~complete /\ cursor = 0
  BY <1>1 DEF BlankInv, BootstrapPcs
<1>3. o \in stored /\ o # 0
  BY <1>1, PageEnds, Naturals DEF PageInv, RowsInv
<1>4. \A m : Inside(m)' => Inside(m)
  BY <1>1, <1>2, <1>3 DEF Inside, ClaimedBelow, UnderRow
<1>5. InsideInv'
  BY <1>1, <1>4 DEF TailGapInv, InsideInv, Accounted, tailVars
<1> QED
  BY <1>1, <1>5, TailGapAtRest DEF TailPcs, BoundPcs, ForwardPcs, BackfillPcs

----------------------------------------------------------------------------
(* The invariant and the theorems.                                         *)

TailIInv == TailCore /\ (~rebootstrapped => TailGapInv)

LEMMA TailIInvInit == TailInit => TailIInv
<1> SUFFICES ASSUME TailInit PROVE TailCore /\ TailGapInv
  BY DEF TailIInv
<1>1. stored = {} /\ pc = "idle"
  BY DEF TailInit, Init
<1>2. TailGapInv
  BY <1>1 DEF TailGapInv, InsideInv, Inside, UnderRow, BoundInv, BoundPcs, StartInv, UpwardInv,
     DownwardInv, BottomInv, ForwardPcs, BackfillPcs, BelowPcs
<1> QED BY <1>2, TailCoreInit

LEMMA TailIInvStep == TailIInv /\ [TailNext]_allVars => TailIInv'
<1> SUFFICES ASSUME TailCore, ~rebootstrapped => TailGapInv, [TailNext]_allVars, ~rebootstrapped'
             PROVE  TailGapInv'
  BY TailCoreStep DEF TailIInv
<1>1. Core
  BY DEF TailCore
<1>2. CASE MessageCreate
  <2>1. ~rebootstrapped
    BY <1>2, Zenon DEF MessageCreate, Post, ghostVars
  <2> QED BY <1>2, <2>1, TailGapPost
<1>3. CASE Connect \/ Disconnect \/ HandlerFails \/ UNCHANGED allVars
  <2>1. ~rebootstrapped
    BY <1>3 DEF Connect, Disconnect, HandlerFails, allVars, vars, ghostVars
  <2> QED BY <1>3, <2>1, TailGapLost
<1>4. ASSUME NEW m \in Ids, UpsertCreated(m) \/ UpsertUpdated(m) PROVE TailGapInv'
  <2>1. ~rebootstrapped
    BY <1>4, Zenon DEF UpsertCreated, UpsertUpdated, UpsertRow
  <2> QED BY <1>4, <2>1, TailGapCreated, TailGapUpdated
<1>5. ASSUME NEW m \in Ids, SaveCreated(m) PROVE TailGapInv'
  <2>1. ~rebootstrapped
    BY <1>5 DEF SaveCreated, SaveCreatedOf, ghostVars
  <2> QED BY <1>5, <2>1, TailGapSave
<1>6. CASE Crawl
  <2>1. UNCHANGED tailVars
    BY <1>6 DEF Crawl
  <2>2. ~rebootstrapped
    BY <1>6, NeverWithdrawn DEF Crawl, Next
  <2> QED
    BY <1>1, <1>6, <2>1, <2>2, TailGapDelete, TailGapStop, TailGapFull, TailGapIncremental,
       TailGapForwardFetch, TailGapForwardPersist, TailGapLatest, TailGapFetchBelow,
       TailGapBackfillPersist, TailGapBackfillCursor, TailGapComplete,
       TailGapBootstrapPersist, TailGapBootstrapCursor
       DEF Crawl, Step
<1> QED BY <1>2, <1>3, <1>4, <1>5, <1>6 DEF TailNext

LEMMA TailIInvAlways == TailSpec => []TailIInv
BY TailIInvInit, TailIInvStep, PTL DEF TailSpec

\* Beside the tail, too, every variable keeps its type.
THEOREM TailTypeCorrect == TailSpec => []TailTypeOK
<1>1. TailIInv => TailTypeOK
  <2> SUFFICES ASSUME TailIInv PROVE TailTypeOK
    OBVIOUS
  <2>1. TypeOK /\ coming \subseteq 1..posted /\ written \subseteq stored /\ listening \in BOOLEAN /\ skipped \subseteq Ids
    BY DEF TailIInv, TailCore, HeardInv, Core
  <2>2. 1..posted \subseteq Ids /\ stored \subseteq Ids
    BY <2>1, MaxIdAssumption DEF TypeOK, Ids
  <2> QED BY <2>1, <2>2 DEF TailTypeOK
<1> QED BY <1>1, TailIInvAlways, PTL

\* With two writers of latest, a checkpoint still names a message that has a
\* row.
THEOREM TailCheckpointsNameRows == TailSpec => []CheckpointsHaveRows
<1>1. TailIInv => CheckpointsHaveRows
  BY DEF TailIInv, TailCore, Core, RowsInv
<1> QED BY <1>1, TailIInvAlways, PTL

\* Whatever tail and crawl do beside each other, a message missing from the
\* stretch the checkpoints claim is one the tail went past without having
\* its event, unless a crawl from nothing met rows.
THEOREM TailSkipsAllHoles == TailSpec => []HolesAreSkipped
<1>1. TailIInv => HolesAreSkipped
  <2> SUFFICES ASSUME TailIInv, ~rebootstrapped, NEW m \in remote, ClaimedAbove(m), ClaimedBelow(m)
               PROVE  m \in stored \cup coming \cup skipped
    BY DEF HolesAreSkipped
  <2>1. UnderRow(m)
    BY DEF TailIInv, TailCore, Core, RowsInv, CheckpointsHaveRows, ClaimedAbove, UnderRow
  <2> QED BY <2>1 DEF TailIInv, TailGapInv, InsideInv, Inside, Accounted
<1> QED BY <1>1, TailIInvAlways, PTL

=============================================================================
