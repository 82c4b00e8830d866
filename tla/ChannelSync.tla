---------------------------- MODULE ChannelSync ----------------------------
(***************************************************************************)
(* The message crawl of ONE channel: internal/syncer/message_sync.go from  *)
(* syncChannelMessages down, over the sync_state rows and the messages     *)
(* table of internal/store.                                                *)
(*                                                                         *)
(* A run pages through the channel's history over REST and keeps three     *)
(* checkpoints in sync_state: latest_message_id, backfill_before_id and    *)
(* history_complete.  Every page request and every database write is a     *)
(* step of its own, because a run may stop between any two of them: the    *)
(* process is killed, a request or a write fails, or the 30-minute channel *)
(* deadline expires.  What a stopped run leaves behind is the durable part *)
(* of the state (stored, latest, cursor, complete), and the next run, full *)
(* or incremental, must carry on from it.                                  *)
(*                                                                         *)
(* Message ids are snowflakes: numbers that grow with time.  0 stands for  *)
(* the empty string ("no checkpoint", "no bound").  The message timestamp  *)
(* that --since is compared with is encoded in the snowflake, so a cutoff  *)
(* is an id as well; cutoff 0 is "no --since".                             *)
(***************************************************************************)
EXTENDS Integers, FiniteSets

CONSTANTS
  MaxId,        \* bound: the last message that can be posted
  ShortIds,     \* ids 1..ShortIds have fewer digits than the later ones
  PageSize,     \* messages asked for in one request (100 in the code)
  Cutoffs,      \* values --since may take, 0 for none
  PagesPerRun,  \* page requests the channel deadline lets through, 0: no deadline
  MaxAborts     \* bound: runs that stop half-way for a reason other than the deadline

Ids == 1..MaxId

ASSUME MaxIdAssumption    == MaxId \in Nat
ASSUME ShortIdsAssumption == ShortIds \in Nat
ASSUME PageSizeAssumption == PageSize \in Nat \ {0}
ASSUME CutoffsAssumption  == Cutoffs \subseteq Nat
ASSUME PagesAssumption    == PagesPerRun \in Nat
ASSUME AbortsAssumption   == MaxAborts \in Nat

VARIABLES
  \* Discord
  posted,         \* the last id handed out in the channel
  remote,         \* the messages that exist in the channel now
  \* the database
  stored,         \* ids that have a row in the messages table
  latest,         \* sync_state channel:<id>:latest_message_id
  cursor,         \* sync_state channel:<id>:backfill_before_id
  complete,       \* sync_state channel:<id>:history_complete
  \* the run
  pc,             \* where the run is
  full,           \* --full
  since,          \* --since
  target,         \* the last id when the channel list was fetched
  newest,         \* newest id seen (newest, after and knownLatest of the code)
  before,         \* upper bound of the next backfill page
  page,           \* the page fetched and not yet dealt with
  fuel,           \* page requests left before the deadline
  \* bookkeeping
  aborts,         \* runs that stopped half-way
  rebootstrapped  \* a bootstrap has begun on a channel that was not blank

remoteVars  == <<posted, remote>>
durableVars == <<stored, latest, cursor, complete>>
request     == <<full, since, target>>
locals      == <<newest, before, page, fuel>>
ghostVars   == <<aborts, rebootstrapped>>
vars == <<remoteVars, durableVars, pc, request, locals, ghostVars>>

Resting == {"idle", "succeeded"}
Working ==
  {"listed", "forward", "forwardPersist", "forwardSave", "forwardEnd",
   "backfill", "backfillPersist", "backfillLatest", "backfillCursor",
   "backfillComplete", "finish",
   "bootstrap", "bootstrapPersist", "bootstrapCursor", "bootstrapComplete",
   "bootstrapEnd"}

TypeOK ==
  /\ posted \in 0..MaxId
  /\ remote \subseteq 1..posted
  /\ stored \subseteq Ids
  /\ latest \in 0..MaxId /\ cursor \in 0..MaxId /\ complete \in BOOLEAN
  /\ pc \in Resting \cup Working
  /\ full \in BOOLEAN /\ since \in Cutoffs \cup {0}
  /\ target \in 0..MaxId
  /\ newest \in 0..MaxId /\ before \in 0..MaxId /\ page \subseteq Ids
  /\ fuel \in 0..PagesPerRun
  /\ aborts \in 0..MaxAborts /\ rebootstrapped \in BOOLEAN

----------------------------------------------------------------------------
(* Snowflakes and pages.                                                   *)

\* maxSnowflake compares numbers, and "" is below every id.
Larger(a, b) == IF b > a THEN b ELSE a

Newest(ids) == CHOOSE m \in ids : \A n \in ids : n =< m
Oldest(ids) == CHOOSE m \in ids : \A n \in ids : m =< n

\* select min(id), max(id) compares TEXT: of two ids of different length
\* the longer (later) one starts with the smaller digit and sorts first.
TextKey(m) == IF m > ShortIds THEN m ELSE m + MaxId
TextOldest(ids) ==
  IF ids = {} THEN 0
  ELSE CHOOSE m \in ids : \A n \in ids : TextKey(m) =< TextKey(n)
TextNewest(ids) ==
  IF ids = {} THEN 0
  ELSE CHOOSE m \in ids : \A n \in ids : TextKey(n) =< TextKey(m)

\* What a page request returns: at most PageSize messages out of those asked
\* for, fewer only when there are no more.
IsPage(P, asked) ==
  /\ Cardinality(P) =< PageSize
  /\ Cardinality(P) < PageSize => P = asked

\* GET messages?before=b: the newest ones below b; without a bound, the newest.
PagesBefore(b) ==
  LET asked == {m \in remote : b = 0 \/ m < b}
  IN {P \in SUBSET asked :
        /\ IsPage(P, asked)
        /\ \A m \in asked \ P, p \in P : m < p}

\* GET messages?after=a: the oldest ones above a.
PagesAfter(a) ==
  LET asked == {m \in remote : m > a}
  IN {P \in SUBSET asked :
        /\ IsPage(P, asked)
        /\ \A m \in asked \ P, p \in P : p < m}

\* filterMessagesSince: a page is sorted newest first, so what precedes the
\* first message older than the cutoff is what is at least as new as it.
Eligible     == {m \in page : m >= since}
ReachedSince == Eligible # page
ShortPage    == Cardinality(page) < PageSize

----------------------------------------------------------------------------
(* Discord.                                                                *)

Post ==
  /\ posted < MaxId
  /\ posted' = posted + 1
  /\ remote' = remote \cup {posted + 1}
  /\ UNCHANGED <<durableVars, pc, request, locals, ghostVars>>

Delete ==
  /\ \E m \in remote : remote' = remote \ {m}
  /\ UNCHANGED <<posted, durableVars, pc, request, locals, ghostVars>>

----------------------------------------------------------------------------
(* The parts actions are made of.                                          *)

Goto(here, next) == pc = here /\ pc' = next

\* The database writes: SetSyncState on one of the three scopes, or none.
SaveLatest(id) == latest' = id /\ UNCHANGED <<stored, cursor, complete>>
SaveCursor(id) == cursor' = id /\ UNCHANGED <<stored, latest, complete>>
SaveComplete   == complete' = TRUE /\ UNCHANGED <<stored, latest, cursor>>

\* A step of a run leaves the rest of the world alone.
StepFrame == UNCHANGED <<remoteVars, request, ghostVars>>

\* The locals of a run that is over; request stays for the properties.
ClearLocals == newest' = 0 /\ before' = 0 /\ page' = {} /\ fuel' = 0

----------------------------------------------------------------------------
(* A run begins.                                                           *)

\* The run fetches the channel list; messages may be posted before it gets to
\* this channel.
ListChannels ==
  /\ pc \in Resting
  /\ pc' = "listed"
  /\ full' = FALSE /\ since' = 0 /\ target' = posted
  /\ UNCHANGED <<remoteVars, durableVars, locals, ghostVars>>

\* shouldSkipChannelSync, for the checkpoint state a run works with.
SkipChannel(lastMessageID, stateLatest, stateComplete) ==
  /\ stateComplete
  /\ IF lastMessageID = 0 THEN stateLatest = 0
     ELSE stateLatest # 0 /\ Larger(stateLatest, lastMessageID) = stateLatest

\* The channel is skipped, or there is nothing to do.
SkipRun == pc' = "succeeded" /\ ClearLocals

BeginCrawl(at, stateLatest, bound) ==
  /\ pc' = at
  /\ newest' = stateLatest /\ before' = bound /\ fuel' = PagesPerRun
  /\ UNCHANGED page

\* seedChannelSyncState: a missing checkpoint is taken from the stored rows.
SeededLatest == IF latest # 0 THEN latest ELSE TextNewest(stored)
SeededCursorForgotten == SeededLatest \* fault: each backfill starts at the top
SeededCursor == IF cursor # 0 THEN cursor ELSE TextOldest(stored)

\* sync --full: load the checkpoints, seed the missing ones from the bounds
\* of the stored rows, skip the channel or start the crawl.  A channel that
\* is complete but has neither a checkpoint nor a row gets no request at all.
StartFull(lastMessageID) ==
  LET stateLatest == SeededLatest
      stateComplete == complete \/ (latest # 0 /\ SeededCursor = 0)
      bound == IF SeededCursor # 0 THEN SeededCursor ELSE stateLatest
  IN /\ pc = "listed"
     /\ full' = TRUE /\ since' \in Cutoffs
     /\ complete' = stateComplete
     /\ IF SkipChannel(lastMessageID, stateLatest, stateComplete)
        THEN SkipRun
        ELSE IF stateLatest # 0 THEN BeginCrawl("forward", stateLatest, bound)
        ELSE IF ~stateComplete THEN BeginCrawl("backfill", stateLatest, bound)
        ELSE SkipRun
     /\ UNCHANGED <<remoteVars, stored, latest, cursor, target, ghostVars>>

\* sync without --full: skip, go forward from the checkpoint, or bootstrap.
StartIncremental(lastMessageID) ==
  /\ pc = "listed"
  /\ full' = FALSE /\ since' \in Cutoffs
  /\ IF SkipChannel(lastMessageID, latest, complete)
     THEN SkipRun /\ UNCHANGED rebootstrapped
     ELSE IF latest # 0
     THEN BeginCrawl("forward", latest, 0) /\ UNCHANGED rebootstrapped
     ELSE /\ BeginCrawl("bootstrap", 0, 0)
          /\ rebootstrapped' = (rebootstrapped \/ stored # {} \/ complete)
  /\ UNCHANGED <<remoteVars, durableVars, target, aborts>>

\* A request the deadline still lets through.
SpendFuel ==
  \/ PagesPerRun = 0 /\ UNCHANGED fuel
  \/ fuel > 0 /\ fuel' = fuel - 1

\* Ask for a page; the loop ends at `whenEmpty` if there is none.
FetchAt(here, pages, whenEmpty, whenSome) ==
  /\ SpendFuel
  /\ page' \in pages
  /\ Goto(here, IF page' = {} THEN whenEmpty ELSE whenSome)
  /\ UNCHANGED <<durableVars, newest, before>> /\ StepFrame

\* persistMessagePage: the rows of a page, in one transaction.
PersistAt(here, ids, next) ==
  /\ Goto(here, next)
  /\ stored' = stored \cup ids
  /\ newest' = IF ids = {} THEN newest ELSE Larger(newest, Newest(ids))
  /\ UNCHANGED <<latest, cursor, complete, page, fuel>> /\ StepFrame

----------------------------------------------------------------------------
(* syncForwardPages: from the checkpoint up to the newest message.         *)

ForwardFetch ==
  FetchAt("forward", PagesAfter(newest), "forwardEnd", "forwardPersist")

ForwardPersist ==
  PersistAt("forwardPersist", page, "forwardSave") /\ UNCHANGED before

ForwardSaveThen(next) ==
  /\ Goto("forwardSave", next)
  /\ SaveLatest(newest)
  /\ page' = {}
  /\ UNCHANGED <<newest, before, fuel>> /\ StepFrame

ForwardSaveOnce == ForwardSaveThen("forwardEnd") \* fault: no second page
ForwardSave == ForwardSaveThen(IF ShortPage THEN "forwardEnd" ELSE "forward")

\* The caller saves the checkpoint again; a full run goes on to backfill.
ForwardEndWith(checkpoint) ==
  /\ Goto("forwardEnd", IF ~full THEN "succeeded"
                        ELSE IF complete THEN "finish" ELSE "backfill")
  /\ SaveLatest(checkpoint)
  /\ IF full THEN UNCHANGED locals ELSE ClearLocals
  /\ StepFrame

\* Fault: the channel's last message id is taken as the checkpoint.
ForwardEndAtTarget == ForwardEndWith(Larger(newest, target))
ForwardEnd         == ForwardEndWith(newest)

----------------------------------------------------------------------------
(* syncBackfillPages: from the cursor down to the oldest message.          *)

BackfillFetch ==
  FetchAt("backfill", PagesBefore(before), "backfillComplete", "backfillPersist")

BackfillPersist ==
  /\ PersistAt("backfillPersist", Eligible,
               IF Eligible = {} THEN "finish" ELSE "backfillLatest")
  /\ UNCHANGED before

BackfillLatestWith(checkpoint) ==
  /\ Goto("backfillLatest", "backfillCursor")
  /\ SaveLatest(checkpoint)
  /\ UNCHANGED locals /\ StepFrame

\* Fault: the newest id of this page, not of all that is known.
BackfillLatestOfPage == BackfillLatestWith(Newest(Eligible))
BackfillLatest       == BackfillLatestWith(newest)

BackfillCursorWith(bound) ==
  /\ Goto("backfillCursor",
          IF ReachedSince THEN "finish"
          ELSE IF ShortPage THEN "backfillComplete" ELSE "backfill")
  /\ SaveCursor(bound)
  /\ before' = bound /\ page' = {}
  /\ UNCHANGED <<newest, fuel>> /\ StepFrame

\* Fault: the last message of the page, which may be beyond the cutoff.
BackfillCursorOfPage == BackfillCursorWith(Oldest(page))
BackfillCursor       == BackfillCursorWith(Oldest(Eligible))

BackfillComplete ==
  /\ Goto("backfillComplete", "finish")
  /\ SaveComplete
  /\ UNCHANGED locals /\ StepFrame

\* syncFullChannelHistory saves the checkpoint a last time.
Finish ==
  /\ Goto("finish", "succeeded")
  /\ SaveLatest(newest)
  /\ ClearLocals /\ StepFrame

----------------------------------------------------------------------------
(* bootstrapChannelHistory: a first incremental run, newest page first.    *)
(* Nothing is checkpointed before the end.                                 *)

BootstrapFetch ==
  FetchAt("bootstrap", PagesBefore(before), "bootstrapEnd", "bootstrapPersist")

BootstrapPersist ==
  /\ PersistAt("bootstrapPersist", Eligible,
               IF ReachedSince
               THEN IF Eligible = {} THEN "bootstrapEnd" ELSE "bootstrapCursor"
               ELSE IF ShortPage THEN "bootstrapComplete" ELSE "bootstrap")
  /\ before' = Oldest(page)

BootstrapCursor ==
  /\ Goto("bootstrapCursor", "bootstrapEnd")
  /\ SaveCursor(Oldest(Eligible))
  /\ UNCHANGED locals /\ StepFrame

BootstrapComplete ==
  /\ Goto("bootstrapComplete", "bootstrapEnd")
  /\ SaveComplete
  /\ UNCHANGED locals /\ StepFrame

BootstrapEnd ==
  /\ Goto("bootstrapEnd", "succeeded")
  /\ SaveLatest(IF newest # 0 THEN newest ELSE latest)
  /\ ClearLocals /\ StepFrame

----------------------------------------------------------------------------
(* A run stops half-way.                                                   *)

StopRun ==
  /\ pc' = "idle"
  /\ full' = FALSE /\ since' = 0 /\ target' = 0 /\ ClearLocals
  /\ UNCHANGED <<remoteVars, durableVars, rebootstrapped>>

\* The process dies, or a request or a database call returns an error.
Abort ==
  /\ pc \in Working
  /\ aborts < MaxAborts /\ aborts' = aborts + 1
  /\ StopRun

\* messageChannelContext: the deadline expires before the next request.
DeadlineExpires ==
  /\ pc \in {"forward", "backfill", "bootstrap"}
  /\ PagesPerRun # 0 /\ fuel = 0
  /\ StopRun /\ UNCHANGED aborts

----------------------------------------------------------------------------

Init ==
  /\ posted \in 0..MaxId /\ remote = 1..posted
  /\ stored = {} /\ latest = 0 /\ cursor = 0 /\ complete = FALSE
  /\ pc = "idle" /\ full = FALSE /\ since = 0 /\ target = 0
  /\ newest = 0 /\ before = 0 /\ page = {} /\ fuel = 0
  /\ aborts = 0 /\ rebootstrapped = FALSE

\* channel.LastMessageID: a channel of the live list carries the last id the
\* channel had then; one rebuilt from its database row (channelFromRow) none.
LastMessageIDs == {target, 0}

SyncFull        == \E id \in LastMessageIDs : StartFull(id)
SyncIncremental == \E id \in LastMessageIDs : StartIncremental(id)

Step ==
  \/ ForwardFetch \/ ForwardPersist \/ ForwardSave \/ ForwardEnd
  \/ BackfillFetch \/ BackfillPersist \/ BackfillLatest \/ BackfillCursor
  \/ BackfillComplete \/ Finish
  \/ BootstrapFetch \/ BootstrapPersist \/ BootstrapCursor
  \/ BootstrapComplete \/ BootstrapEnd

Next ==
  \/ Post \/ Delete
  \/ ListChannels \/ SyncFull \/ SyncIncremental
  \/ Step
  \/ Abort \/ DeadlineExpires

Spec == Init /\ [][Next]_vars

----------------------------------------------------------------------------
(* Properties.                                                             *)

\* The stretch of history the checkpoints claim: up to latest, or up to the
\* newest row while there is no latest (seedChannelSyncState then takes it
\* from the rows), and down to the cursor, the oldest row, or, once history
\* is complete, to the first message of the channel.
ClaimedAbove(m) ==
  IF latest # 0 THEN m =< latest ELSE \E s \in stored : m =< s
ClaimedBelow(m) ==
  \/ complete
  \/ IF cursor # 0 THEN cursor =< m ELSE \E s \in stored : s =< m

\* No hole: a message that still exists and lies in the stretch the
\* checkpoints claim has a row.  Every later run starts outside the claimed
\* stretch, so a hole would never be filled.
NoGap == \A m \in remote : ClaimedAbove(m) /\ ClaimedBelow(m) => m \in stored

\* What the code achieves: runs of both kinds, with any cutoffs, may stop
\* anywhere and leave no hole, provided that bootstrapChannelHistory is only
\* ever begun on a channel without rows and not yet complete.
NoGapUnlessRebootstrapped == ~rebootstrapped => NoGap

\* A checkpoint is written after the rows it stands for (persistMessagePage
\* comes first on every path): it always names a message that has a row.
CheckpointsHaveRows ==
  /\ latest # 0 => latest \in stored
  /\ cursor # 0 => cursor \in stored

\* A run that reports success on a channel with a checkpoint has left no
\* message between the checkpoint and the end of the channel as it was when
\* the channels were listed, whatever happened to the runs before it.
RunReachesTip ==
  pc = "succeeded" /\ latest # 0 =>
    \A m \in remote : m =< target => m =< latest

\* A full run without a cutoff that reports success has archived every
\* message the channel held when it was listed.
FullRunCovers ==
  pc = "succeeded" /\ full /\ since = 0 =>
    \A m \in remote : m =< target => m \in stored

\* ... at least of a channel whose crawl has a checkpoint to restart from.
RestartSafe == latest # 0 => FullRunCovers

\* What the code achieves of it: the channel must not have been bootstrapped
\* over existing rows either.
FullRunCoversUnlessRebootstrapped == ~rebootstrapped => RestartSafe

\* What a run that reports success stands for.
SuccessCovers == RunReachesTip /\ FullRunCoversUnlessRebootstrapped

\* Checkpoints only advance: latest never falls, history_complete is never
\* withdrawn, and without a second bootstrap the backfill cursor only
\* descends (comment at message_sync.go:460).
CheckpointsAdvance ==
  [][/\ latest' >= latest
     /\ complete => complete'
     /\ cursor # 0 /\ ~rebootstrapped => cursor' =< cursor]_vars

\* Resumable backfill: although the deadline cuts every run off after a few
\* pages, and runs of other kinds come between, repeated full runs complete
\* the history ...
BackfillCompletes == <>[]complete

\* ... and archive every message that stays, unless the channel was marked
\* complete while it was empty.
EveryMessageArchived ==
  \A m \in Ids :
    m \in remote ~> (m \in stored \/ m \notin remote \/ (complete /\ latest = 0))

\* Again of a channel that was not bootstrapped over existing rows.
Resumes == <>rebootstrapped \/ (BackfillCompletes /\ EveryMessageArchived)

=============================================================================
