# Verification of discrawl-me

discrawl-me mirrors Discord guilds and direct messages into SQLite: it crawls
the history of channels over REST, follows live events over the gateway, and
embeds messages for search. This directory holds TLA+ models of it, the TLC
configurations that check them on small instances, and proofs for every value
of the constants. Line numbers are those of `src/internal/`.

## The system

| component | state it keeps | operations | talks to |
|---|---|---|---|
| channel crawl (`syncer/message_sync.go` 218-533) | `messages` rows; in `sync_state` per channel `latest_message_id`, `backfill_before_id`, `history_complete`; the run's page, bounds, newest id | skip, seed, forward pages, backfill pages, bootstrap | Discord REST, the store |
| channel pool (`message_sync.go` 13-216, `errors.go`) | jobs and results channels, one context per pool and one per crawl; `channel:<id>:unavailable` | hand out, crawl, classify, send, collect; or the serial loop | the crawl; answers to syncGuild |
| guild orchestration (`syncer.go`) | statistics, the marker `sync:last_success` or `sync:last_partial` | Sync, syncGuild, batches of incomplete channels, syncDMs | catalog, pool |
| channel catalog (`channel_catalog.go`) | `channels` rows | full, incremental and targeted lists; active and archived threads | Discord REST, the store |
| member refresh (`syncer.go` 239-352, `store/write.go` 150-234) | `members` rows, a time of last success per guild | shouldRefreshMembers, ReplaceMembers, upsert, delete | Discord REST, the tail |
| gateway tail (`tail.go`) | the same rows and `latest_message_id`, `message_events`, `message_edits`, `tail:last_event` | a handler per event; a repair sync on a timer | a client's Tail, the crawl |
| user gateway client (`discord/userclient/gateway.go`) | connection, session id, sequence number, heartbeat acknowledgement | identify, resume, heartbeat, reconnect with backoff | Discord, the tail |
| user REST transport (`discord/userclient/transport.go`) | time of the last request | throttle, 429 retry, 401 and 403 | Discord |
| bot client (`discord/botclient/botclient.go`) | an event queue and its workers | enqueue, run a task, close | Discord, the tail |
| message rows (`store/write.go` 242-400) | `messages`, `message_fts`, `embedding_jobs` | upsert, soft delete, append event | crawl, tail, embedding worker |
| embedding worker (`embedder/worker.go`) | `embedding_jobs`, `message_embeddings` | claim, recover, embed, store, mark, release | the store, a provider |
| store schema (`store/store.go`, `migrations.go`) | `user_version`, tables, FTS row ids | open, migrate, rebuild | SQLite |
| queries (`store/query.go`, `embeddings.go`) | none | search, conversation window, rank fusion | the store |
| providers, CLI, MCP server, configuration, record building | none that outlives a call | | |

What is hard here:

* **Stopping anywhere.** A crawl runs for hours and is cut off by a kill, an
  error or the 30-minute channel deadline. No transaction spans a page and its
  checkpoint. Correct means: checkpoints name rows, only advance, claim no
  stretch with a hole, and the next run gets further than the last.
* **Two kinds of run over the same checkpoints**, each with assumptions about
  what the other left behind, while messages are posted and deleted.
* **Goroutines and cancellation** in the pool: every channel at most once, no
  lost result that looks like success, nobody blocked for ever.
* **Partial success.** What one channel could not do travels through counters
  and errors to the marker of the whole run.
* **Leases.** Several embedding runs share one table; a slow one loses its
  batch to another and still writes.
* **The tail** writes the rows and checkpoints of the crawl, concurrently, and
  its events reach the workers in any order.
* **Connections** break, fall silent and are resumed, while goroutines of the
  last one still run.
* **Snapshots** of members, and lists in pages, are taken while they change.
* **Opening** the archive: several processes, any release before this one, a
  death between any two transactions.
* **Answers** depend on the order of text, heaps and maps.

## The modules

| module | models | over |
|---|---|---|
| `ChannelSync` | the crawl of one channel, `message_sync.go` 218-533, `ChannelMessageBounds`, `SetSyncState` | Discord's pages |
| `MCChannelSync` | two instances: all kinds of run with a user who insists on full ones; a channel nobody deletes from | |
| `TailCrawl` | live events beside that crawl: the rows and the `latest_message_id` that the handlers of `tail.go` write | `ChannelSync` |
| `ChannelSyncProofs` | checkpoints name rows and advance, no hole, what success covers; rows and holes with the tail beside the crawl | `ChannelSync`, `TailCrawl` |
| `PoolContract` | what `syncMessageChannels` promises | |
| `ChannelCall` | a call of it: its caller's view, and that it keeps the contract | `PoolContract` |
| `ChannelPool` | `syncMessageChannelsConcurrent` | `ChannelCall` |
| `ChannelSerial` | `syncMessageChannelsSerial` | `ChannelCall` |
| `MessageChannels`, `MCMessageChannels` | `syncMessageChannels`, which is one or the other | both |
| `MessageChannelsProofs` | the contract, one worker per channel, how a call stops | `MessageChannels` |
| `SyncRun`, `MCSyncRun` | `Sync`, `syncGuild`, its batches, `syncDMs`, the catalog, the marker | any outcome `PoolContract` allows |
| `SyncRunProofs` | a marker tells what its run did | `SyncRun` |
| `EmbedQueue` | `embedding_jobs` and its workers | |
| `EmbedQueueProofs` | four safety properties of the queue | `EmbedQueue` |
| `EventFeed` | what a live connection promises about events | |
| `Gateway` | the user client's gateway, implements `EventFeed` | Discord's sessions |
| `GatewayProofs` | the cursor, the refinement, sessions kept | `Gateway` |
| `LiveArchive` | `BotClient.Tail`, the handlers of `tail.go`, the rows they write, the repair beside them | |
| `LiveArchiveProofs` | cursors, losses, rows against messages | `LiveArchive` |
| `MemberRefresh` | member snapshots against joins and leaves | both clients' pages |
| `UserListing` | the throttle, 429 and archived-thread pages | |
| `PagedListProofs` | lists in pages, the member table, the gap | `MemberRefresh`, `UserListing` |
| `StoreOpen` | `Open` and `migrate` by several processes | |
| `Queries`, `MCQueries` | the answers of the archive, as operators against reference definitions | rows in any state |
| `StoreProofs` | the marks hold, an open archive is ready, every answer is right | `StoreOpen`, `Queries` |

The modules compose by contract. `SyncRun` treats the crawl of a list as one
step with any of the outcomes `PoolContract` allows; `ChannelPool` and
`ChannelSerial` are shown, by a run and by proof, to implement that contract for
any outcome of a single crawl; `ChannelSync` is that single crawl, and
`TailCrawl` puts its actions, unchanged, beside those of the tail. `Gateway` is
shown in the same way to implement `EventFeed`.

Some definitions stand beside the one that models the code and are marked as a
fault of it. No specification uses them: they are what a plausible mistake would
make of the code, and every checked property is violated by one of them.

### ChannelSync

Ids are numbers that grow with time, 0 is "none". `stored`, `latest`, `cursor`
and `complete` are what the database keeps; everything else a run holds is lost
when it stops (`Abort`, `DeadlineExpires`). Each page request and each database
write is an action: `ForwardFetch`, `ForwardPersist`, `ForwardSave` and
`ForwardEnd` are syncForwardPages and its callers, the `Backfill` actions are
syncBackfillPages, the `Bootstrap` actions bootstrapChannelHistory, `Finish`
the end of a full crawl. `StartFull` and `StartIncremental` read the
checkpoints, decide whether the channel can be skipped and, in a full run, seed
missing checkpoints from the smallest and the largest row. SQLite compares
those ids as text; `TextKey` orders ids of different length the way text does.
`--since` is a cutoff id, because the timestamp is part of the snowflake.

The transaction of one page is one step; what else it writes (search index,
mentions, attachments) is left out. `rebootstrapped` is history: a bootstrap
has begun on a channel that already had rows or a complete history. The
properties about holes and coverage hold up to that event only, and the run
`rebootstrap` shows what happens after it.

### TailCrawl

A second writer on the rows and on `latest`, which a run reads once, when it
begins. `coming` are messages whose MESSAGE_CREATE is on its way, from the
gateway to the handler's first statement; `UpsertCreated` writes the row,
`SaveCreated` the checkpoint, and between them (`written`) the crawl and other
handlers go on, or the tail ends and the second statement never comes. Events
may be handled in any order, as the workers of the bot client do.
`UpsertUpdated` is an edit of a message without a row: it writes the row and no
checkpoint. `HandlerFails` is a handler of the user client that returns an
error: its number was taken, so its event does not come again. A tail that
ends, for any reason, is `Disconnect`; a session that is resumed is not one,
since then nothing is lost (`Gateway`). AppendMessageEvent, AppendMessageEdit
and `tail:last_event` are not the crawl's and are left out; a deletion only
marks a row.

`skipped` is history: messages of which the tail lost the event, or over which
it went when it wrote a row beyond them. A message that is neither has no excuse
to be missing. A row that the tail writes while a crawl from nothing has not
written its first page counts as `rebootstrapped`, like a second bootstrap: the
crawl's page and that row may have a hole between them (`FromNothing`).

### ChannelPool, ChannelSerial, MessageChannels

`HandOut` is the rendezvous on the unbuffered `jobs`, `CloseJobs` the
dispatcher's end, `Begin`, `CrawlEnds`, `Classify`, `Send`, `DropResult` and
`Leave` a worker between two points where others can run, `Return` the
collector after `wg.Wait`. `results` has room for every channel, so it is a
function and not a queue. `Done` is the pool's own context. A worker that fails
calls a `cancel` declared inside its loop, so `Done` does not change.
`ChannelSerial`'s `next` is the place of the loop. `concurrent` in
`MessageChannels` is `opts.Concurrency > 1`, decided once.

### SyncRun

Beginning a guild, listing it, crawling its channels and writing the marker are
steps; `Fail` ends a run at any of them, also after part of a list was written.
`Catalogs` is the set of lists channelList may answer with, one per combination
of denied requests. A run that goes in batches does not list the guild, and
`CrawlBatch` leaves `partial` alone, as the code drops the batches' count.

### EmbedQueue

Every statement of RunOnce is a step and the transaction of claimJobs is one.
`age` is the time since a job's `updated_at`, `lease` the time since a run's
claim; both stop counting one beyond `StaleAfter`. `Release` and
`RefuseRelease` are failJob with one row changed and with none. `MarkDone` does
not look at the state it overwrites, as in the code. `Interrupt` is a kill, a
cancelled context or any other statement that fails.

### Gateway, EventFeed

`pc` is the place of the goroutine of Run: dialling, waiting for HELLO, about to
IDENTIFY or RESUME, in the read loop, in a handler, between two sessions. `seq`,
`sessionID`, `resumeURL` and `heartbeatACK` are the fields the sessions share;
`beat` is the heartbeat goroutine of each connection, which notices only at its
next tick that its session is over. `heartbeatACK` is cleared before the write
that may fail (`Beat`), so an orphan can take it from its successor. `base`,
`next`, `live` and `due` are Discord's: which event comes first and next in the
session, whether it is kept, and what is owed before events (READY, or the
refusal of a RESUME). `published` and `fate` are the abstract feed; the
refinement maps them to themselves. A failed handler ends the session after the
number was taken: that event's fate is "refused".

### LiveArchive

A row is the version of the message it was written from and whether
`deleted_at` is set. `arriving` are the callbacks that discordgo runs in
goroutines of their own, `queue` is `workCh`, `task` what a worker has in hand
with the statements still to do (`Steps`). `Enqueue` has the three cases of
enqueueTailTask's select, where a full queue wins against a reader that comes a
moment later. `Take` has the fetch for an update without content, with its
failure: the row is then `Blank`. `StartRepair` and `EndRepair` are the page a
repair sync has fetched and its transaction. Three variables are history, one for
each exception of `AgreesWhenQuiet`: `disturbed` has the messages that changed
while an earlier change of them, or a page with them, was under way; `unfetched`
the versions that came as a partial update and could not be fetched; `lost` tells
whether an event was dropped or its handler failed. A version in `unfetched`
excuses a blank content and nothing else, and only until the next edit:
`deleted_at` has to be right, and so has the content of every other version.

### MemberRefresh, UserListing

Users and threads are numbers in the order the pages have them. `doubt` is
history: users whose row may be wrong because a join or leave met a refresh or
another of the same user, or was not seen. `KeepsPartial` is the user client's
answer to a page that fails. In `UserListing`, `holder` has the transport's
mutex and keeps it while it sleeps; `since` is the time since `lastReq`, which
is written when the sleep is over. `Second` cuts the fraction off a cursor, as
`time.RFC3339` does. `ctxDone` is the context of the sync or the tail repair that
lists the threads (`channel_catalog.go` 116): it has no deadline, so `ContextEnds`
may happen and need not.

### StoreOpen

`schema` is the set of versions whose tables exist, `version` is
`user_version`; `fts` has, of each index, the rows found under their row id, and
`stamp` the version that `sync_state` names. Each transaction and each statement
outside of one is a step. `Init` is every archive an earlier release may have
left, a newer one included. The two indexes are treated alike, as in the code.

### Queries

The state is what the answers are made of: the content of each row and the
content its vector was made of. `Upsert` and `Embed` reach every mixture of
them, with at most `MaxStale` messages whose vector is of an older content. An
answer that depends on the order of a heap or of a map is the set of answers
(`TopK`, `ReciprocalRankFusion`), and `InAnyOrder` is a loop whose input comes in
no order that is asked for: a scan, a range over a map. An `order by` is a set of
pairs (`ByTime`, `NewestId`, `ByName`), and `Sorted` puts in each place the one
member with that many before it. `Text` is a time as RFC3339Nano prints it;
messages may have the same one.

## What TLC checks

| run | instance | properties |
|---|---|---|
| `crawl` | 4 messages, the first 2 with shorter ids, pages of 2, a cutoff, a deadline after 2 pages, 1 kill; full and incremental runs mixed | no hole; checkpoints name rows; a success covers; checkpoints advance; repeated full runs complete the history |
| `tail` | 3 messages, pages of 2, a deadline after 2 pages, 1 kill; a tail that comes and goes | a hole within the checkpoints is a message the tail went past |
| `calls` | 3 channels, 2 workers or the loop, every mix of errors, a cancel | one worker per channel; reports are true; the contract; how it stops when a channel fails; it returns and leaves no goroutine |
| `sync` | a guild with two message channels and a forum, batches of 1, direct messages, two kinds of run | what the marker tells is so, and it hides nothing outside of batches; a healthy thread is archived in the end, unless the channel beside it stays incomplete |
| `queue` | 2 jobs in batches of 2, 2 runs, 1 interrupt, a lease of 1 tick | done has a vector; failed had three claims; one holder in time; settled stays; every job settles |
| `gateway` | 2 events, 4 connections, faults on the first 2 | the cursor holds; each event once and in order; a kept session is resumed; delivery goes on; Run ends |
| `live` | 1 message with 2 versions in 3 events, 2 workers, a queue of 1, repairs, failures, a cancel | cursors name what is archived; no loss in silence; row and message agree once quiet, but for a blank content where a fetch failed; everything ends |
| `members` | 3 users, pages of 2, 3 changes, 1 fault, both clients | a list misses nobody who stayed; the table is right outside the races; a snapshot heals |
| `listing` | 3 goroutines, 7 threads in 3 seconds, pages of 2 | the gap; a list lacks only threads of one second; every call ends that is not rate limited for ever |
| `store` | 2 processes, 2 rows, every earlier archive, 1 death | version and stamps hold; open is ready; every start ends |
| `queries` | 4 messages, 3 of one second, 2 of these of one time, every mixture of contents and vectors; 3 members | search; lists, mentions and profiles; conversations; rankings |
| `rebootstrap` | 6 messages, 2 kills, incremental runs | violated: see below |

`rebootstrap` checks a sentence of the documentation that the code does not
keep. SPEC.md:451 calls sync "restart-safe". Two interrupted bootstraps leave a
hole between their rows that a full run does not look into, and it reports
success.

More disagreements, and behaviour that no document speaks of, were met and have no
run of their own; the models have it, and the properties name it as their
exception:

* A channel crawled while empty is complete for ever; later full runs request
  nothing of it (`message_sync.go` 327; SPEC.md:617 "backfill messages for every
  crawlable channel"). It is the exception in `Resumes`.
* A bootstrap longer than the channel deadline starts over in every incremental
  run (`message_sync.go` 362; SPEC.md:451). `Resumes` asks for full runs.
* After a fatal error the pool's other workers go on, as the `cancel` of
  `message_sync.go` 166 is the crawl's own (README.md:239 "401 hard stop").
  `StopsOnFailure` is what is left of it.
* A full run in batches writes the success marker over a deferred channel
  (`syncer.go` 158; CHANGELOG.md:12 partial syncs are told from successful ones).
  `MarkerTells` excepts batches.
* A thread archived before its guild was first listed gets no row later
  (`channel_catalog.go` 78-83; SPEC.md:121), and archived threads of the second
  at the end of a page are in no page (`userclient.go` 143): `ListsHonest`.
* RunAll returns at the first batch with a failed job (`worker.go` 217), though
  its comment says it goes on until none remains.
* A rate-limited request is repeated as often as Discord says so
  (`transport.go` 172, whose comment says "retry once"), and the context of a
  thread list has no deadline: the call that is limited for ever is the exception
  in `CallsEnd`.
* A partial update whose message cannot be fetched is written as it came, over the
  content the row had (`botclient.go` 220), and nothing is reported: the blank
  content is the exception in `AgreesWhenQuiet`.
* A channel that is deferred or fails in every full run keeps the guild from being
  listed, so that new channels are not found (`syncer.go` 154; SPEC.md:617): it is
  the exception in `Reached`.
* The first event after the tail was away sets the channel's checkpoint to its
  own message (`tail.go` 68). The repair sync finds it at the channel's last
  message, skips the channel, and what was posted in the absence is missing for
  good, without any failure (SPEC.md:469 "periodic repair sync"). Those messages
  are the `skipped` of `HolesAreSkipped`; `rebootstrapped` apart, the two writers
  lose no others.
* A conversation is empty if one side of the message is shorter than was asked
  (`embeddings.go` 165-173; README.md:131 "messages around a target message"):
  `ConversationWhole`.
* Times within one second are ordered as text, where a whole second comes last
  (`messages.go` 64, 108): `ListsRight` is exact to the second.

### Why the bounds are enough

* `ChannelSync`: a crawl compares a page with one bound above and one below.
  Four messages in pages of two give a full page and a full or short one behind
  it, in both directions, with a digit rollover and a cutoff inside. A deadline
  after two pages falls before the empty last page of a history of four. `MaxId` caps
  `Post`, `MaxAborts` caps `Abort`; deadlines are not capped, so a run can pick
  up behind any number of stopped ones. The safety theorems have no bound.
  `rebootstrap` needs six messages for two stretches with a hole.
* `TailCrawl`: a hole needs a row below, a message in it and a row above, so
  three messages; a full page of two has one of them beyond it. The deadline and
  the kill leave a run behind for the tail to meet. Pages of one
  and a second cutoff were checked too; ids are of one length here, since
  `crawl` has the rollover. The theorems have no bound.
* `MessageChannels`: with two workers and three channels one worker can fail,
  one be busy and one channel wait. More workers add no new kind of blocking,
  because they meet at one channel and one context only.
* `SyncRun`: a thread with a parent that is a forum; two message channels in
  batches of one, so the last batch is not the first; the list of direct messages
  to carry counters into. `Options` bounds the kinds of run: full, and incremental
  with a forum as target and a cutoff. Two guilds with a private channel, and the
  incremental run without a target, were checked for `MarkerTells` too; the theorem
  has no bound. For `Reached` the text channel is the one beside the thread: denied,
  deferred, failing or completed, in any order, and only what is incomplete again
  and again is an excuse.
* `EmbedQueue`: two runs contend for two jobs; `attempts` and `tries` stop at
  3, where failJob stops looking; clocks stop one beyond the lease.
  `MaxInterrupts` is 1 for TLC and arbitrary in the theorems. A batch of two
  keeps one job waiting while the lease of both runs out.
* `Gateway`: an event can be in the handler while the next is published, and a
  session can be resumed, be lost, and be begun again. Faults stop two
  connections before `MaxConns`, so that liveness is asked of a network that
  holds in the end; two more connections are enough to find a lost session and
  begin another. The theorems have no bound on either.
* `LiveArchive`: messages share nothing but the queue, the workers and the
  cursors; one message gives all orders of its own events, and two workers and
  a queue of one give overtaking and overflow. `MaxVersion` caps edits.
* `MemberRefresh`: three users in pages of two give a full page, a short one and
  a boundary between them; three changes are a join, a leave and one more during
  a refresh. `UserListing`: the threads lie in the second of a page's end, before
  and behind it. Clocks stop where longer makes no difference (`LongAgo`).
* `StoreOpen`: a second process can be anywhere while the first dies. The
  theorems have no bound.
* `Queries`: of the three limits one each is decided by the least number of
  candidates (1), by the multiple (3) and by the cap (4); `Unit` makes the
  scores of four ranks whole numbers. The theorems have no bound on messages, times or limits.

All runs check for deadlock but `calls`, `gateway`, `live` and `listing`, whose
systems end: there a liveness property takes its place. `store` may end with a
newer archive refused by all, and then `StartsEnd` does.

### Fairness

* `MixedSpec`: among runs of every kind a full one without a cutoff is started
  time and again (strong fairness: other runs may come between), a started run
  makes its next step, its deadline fires. Posting, deleting and stopping are not
  fair, and stops for other reasons are finite (`MaxAborts`).
* `CallSpec`: Go schedules each goroutine, and a crawl ends by its deadline if
  by nothing else. A cancel is not assumed.
* `RepeatedSyncs`: runs are started again and end, among them a full one without
  a cutoff time and again. A step of those may fail, but not each time it is
  tried: lists, and the crawls of the `Healthy` channels, are strongly fair.
  Nothing is assumed of the other channels, which may be skipped, deferred or
  fail for ever; that one of them stays incomplete is the exception in `Reached`.
* `EmbedQueue`: `embed run` is started again and again, runs go on, time
  passes. Interrupts are finite. A provider may fail every time: the job is
  then given up, which counts as settled.
* `Gateway`: goroutines run, Discord answers, and a dial tried again and again
  succeeds (Run redials every five seconds). Nothing makes a silent connection
  close but its heartbeat, and before HELLO there is none: `Deaf` is the
  exception in `DeliveryGoesOn`.
* `LiveArchive`: goroutines run, and a select with several ready cases takes
  each in the long run (Go picks at random), hence the strong fairness. A cancel
  is not assumed.
* `MemberRefresh`: the program is run again, events are handled, the interval
  passes. Changes and faults are finite. `UserListing`: time passes, goroutines go
  on, and a mutex is handed over in turn, which sync.Mutex does for a goroutine
  that waits. Neither the end of the context nor an end of rate limiting is
  assumed; a single request ends by the 30 seconds of its http.Client.
  `StoreOpen`: a process that is opening goes on until it dies.

## What is proved

TLAPS proves these for every value of the constants, from the named assumptions
on them (naturals, finite sets, a positive page and batch size, a guild for
each channel and thread, a row that names the member it is of, a unit that the
ranks divide) alone.

* `ChannelSyncProofs`: `TypeCorrect`, `CheckpointsNameRows`,
  `CheckpointsOnlyAdvance`. None is inductive, since what a step writes is in
  the run's locals. `Basic`, in its part `Core`, adds that pages in hand are not empty where code
  relies on it (`PageInv`), that ids a run knows have rows (`RowsInv`), how
  bounds relate to checkpoints along the code (`ControlInv`), and that a
  bootstrap not counted by `rebootstrapped` works on a blank channel
  (`BlankInv`); in its part `LatestInv`, that latest is not above what the run
  has seen.
  `NoGapWithoutRebootstrap`: the claim "between the checkpoints nothing is
  missing" is extended to the run: nothing is missing above the bound of the
  next backfill page (`AboveInv`), a page holds all there is down or up to its
  last message (`DescendInv`, `AscendInv`), the newest id is above whatever a
  backfill can still meet (`TipInv`), a persisted page
  leaves nothing missing above its oldest kept message (`DoneInv`), and nothing
  is missing where history is about to be called complete (`FloorInv`). One
  lemma per action.
  `SuccessMeansCovered`: a run has to end at the tip it was given when the
  channels were listed. A forward crawl gets there with its first short page, a
  backfill from nothing with its first page, and until then the newest id of the
  run is 0 (`TipReachedInv`); a full run ends only with a complete history
  (`CompleteInv`), of which `NoGapWithoutRebootstrap` says that nothing is
  missing.
* `ChannelSyncProofs`, of `TailCrawl`: `TailTypeCorrect`,
  `TailCheckpointsNameRows`, `TailSkipsAllHoles`. `Basic` is split for it. What
  it says of latest (`LatestInv`) is wrong as soon as somebody else writes the
  checkpoint: the tail moves it above the newest id a run knows, and a late
  event, or a run that saves its own newest id, takes it back. The rest
  (`Core`) survives, because the tail adds rows and removes none. So the
  invariant claims nothing of latest: of the messages between two rows, or
  below a row where history counts as complete (`Inside`), each has a row or an
  event on its way or was skipped (`InsideInv`); since latest has a row, that
  gives the theorem. A run's bound is a row, and its cursor if it has one
  (`BoundInv`); one without a bound works on a channel without rows
  (`StartInv`), which is where `FromNothing` is needed; pages are without holes
  in the direction they were asked for, also against messages the tail has
  meanwhile (`UpwardInv`, `DownwardInv`); and nothing is below the bound where
  history is about to be called complete (`BottomInv`). Of the tail, that an
  event on its way is followed by those of all later messages (`HeardInv`).
* `MessageChannelsProofs`, of pool and loop alike: `TypeCorrect`, `OneWorker`,
  `ReportsAreTrue`, `FailureStops` and `CallKeepsContract`, the refinement. In
  the pool, that the answer covers every channel needs to know where a channel
  is: on the list, at a worker, or reported, and one that was dropped only after
  a cancel (`WhereInv`); what a worker holds at each place of its loop
  (`WorkerInv`); and that workers leave, and handing out stops, only for a
  cancel, a failure or an empty list (`LeftInv`). No more channels fail than
  workers have left (`BoundInv`): a failed channel is still in the hands of the
  worker that left with it, and no two hold the same. In the loop, the
  channels in front of `next` are the reported ones, and a failed one is the
  last of them (`FrontInv`).
* `SyncRunProofs`: `TypeCorrect`, `MarkersTell`. A marker sums up crawls of
  several guilds, so the invariant follows the run through them. A channel is
  crawled once in a run, since a guild's catalog names only its own channels
  (`CatalogsOfGuild`) and what is still to come has been told nothing
  (`PlaceInv`, `FreshInv`), so no outcome is overwritten; until it writes a
  marker the run owes nothing it has not counted (`AccountInv`); and in a full run
  that has deferred nothing, a guild it has passed has no incomplete channel but
  the skipped ones, the guild in work none but those it is going to crawl
  (`LeftInv`).
* `LiveArchiveProofs`: `TypeCorrect`, `CursorsAlwaysHold`, `LossAlwaysReported`,
  `RowsAgree`. A worker half-way through a handler has written what its next
  cursor names (`WorkerInv`, over `TaskInv`, the ends of a handler that can be
  left). That a row agrees with its message in the end needs to be said while
  it does not yet: of a message that is not disturbed, what is under way is its
  last change, and without anything under way the row has been written
  (`AgreementInv`). `RowsAgree` covers the failed fetch too: an event in the queue
  has the version it came with, one in a worker's hand, and the row, that or a
  blank which `unfetched` accounts for (`Faithful`).
* `PagedListProofs`: `ListAlwaysHonest` and `RightAboutTheRest` of
  `MemberRefresh`, `ListsAlwaysHonest` and `GapAlwaysKept` of `UserListing`. A
  page has everything up to its end and a short page is all there is left
  (`FullPageHasNoHole`, `ShortPageIsAll`; `NewestIsUpward`, `NewestIsAll` from the
  other end). A members' list agrees with Discord up to the cursor about whoever
  has not changed (`PageInv`); who changed under a refresh is in doubt unless a
  cut list settled it (`ChangedInv`); and the one event on its way about a user
  out of doubt is the last word (`EventInv`). A thread not listed is behind the
  cursor or in the second of a listed one (`CursorInv`). Who sleeps in the
  throttle holds its mutex, and time since the last request and the rest of
  its sleep add up to the gap (`ThrottleInv`).
* `EmbedQueueProofs`: `TypeCorrect`, `DoneJobsHaveVectors`,
  `GivenUpAfterThreeClaims`, `ExclusiveInTime`, `SettledJobsStay`. The
  invariant says that a run about to mark a job has stored its vector
  (`MarkInv`), that no claim is counted twice and a running one not yet
  (`TriesInv`), and that, until a run overruns its lease, what it holds is
  marked processing since its own claim (`LeaseInv`).
* `StoreProofs`, of `StoreOpen`: `MarksAlwaysHonest`, `OpenAlwaysReady`. A process
  relies on
  what it did earlier in migrate, while others act behind its back; `Journey`
  says what holds at each of its places: the tables up to the version it has
  reached, the version once it is written, a rebuilt index until it is stamped,
  the first stamp while the second index is in work. It survives the others'
  steps because versions and stamps only advance and every write keeps row and
  index entry together.
* `StoreProofs`, of `Queries`: `SearchesFindNewest`, `ListsStayRight`,
  `ConversationsStayWhole`, `RankingsStayRight`. Answers are values of the rows, so
  these are proofs about algorithms, in four layers.
  *Sorting.* In a strict order a finite set has, at each place, exactly one member
  with that many below it, so `Sorted` gives every member once and in order
  (`SortedLists`), its first n are the n least (`SortedBeginning`, `FirstOfList`),
  and dropping some of them is sorting the rest (`AmongSorted`).
  *Times.* Text is compared digit by digit, which is a strict order of texts that
  end in the only "Z" (`LexTransitive`, `LexTotal`, over `Ended`): no text is then
  the beginning of another. It follows the seconds (`TextOrders`), and says nothing
  of fractions; hence "to the second" in `ListsRight`, for fractions of any length.
  *Loops in any order.* That the recursion of `InAnyOrder` has a solution is not
  given: `OutcomesExist` takes the least size of a subset without one
  (`LeastExists`). `InAnyOrderKeeps` is the induction over such a loop: what
  holds of the start, and of the next outcome when it holds of the last one, holds
  in the end. The library's induction takes a predicate, which the provers
  cannot instantiate, so the predicate is a set of pairs of what has been read
  and an outcome. The heap keeps the k best of what was read (`Kept`, `PushKeeps`), and
  the insertion sort has what was read in falling order (`Falling`,
  `InsertKeeps`).
  *Answers.* A search is short only if more messages match than there are
  candidates (`FoundAmongCandidates`), and these are never fewer than the floor
  (`CandidatesEnough`). Terms of the fusion fall with the rank (`TermFalls`),
  so what is ahead in one list and not behind in the other scores more. The
  first three hold in every state of the rows; only the rankings ask that rows be
  of their type (`RowsTypeOK`), without which no content has a direction.
* `GatewayProofs`: `CursorAlwaysHolds`, `GatewayImplementsFeed`,
  `LiveSessionKept`. A resume meets the right event only because the client's
  session is the last one Discord gave out (`Cursor`), nothing is sent between
  IDENTIFY and READY (`Fresh`), Discord's next event is the client's number
  (`InStep`), the event in the handler's hands is the last one taken (`InHand`),
  and a session is refused only when it is gone (`Gone`). Every step of Run then
  maps to one of the feed or to a stutter.

The proof modules prove for themselves what they need of numbers: a set of
naturals has a least element and a finite one a greatest (`LeastExists`,
`GreatestExists`), by well-foundedness. Each inductive invariant was checked by
TLC on the instances above before it was proved.

Every safety property of every passing run is a theorem. Only model-checked: all
liveness, which is out of reach for the prover (`Resumes`, `LeavesNoOne`,
`Reached`, `Settles`, `DeliveryGoesOn`, `RunEnds`, `TailEnds`, `SnapshotHeals`,
`CallsEnd`, `StartsEnd`).

## Not modelled

* Command line, configuration, MCP server, embedding providers, record building:
  conversions and single calls without state that outlives them. `maxSnowflake`
  of record building is `Larger` of `ChannelSync`.
* Single statements that read: counts, status, the edits and reactions of a
  message, and the read-only SQL query with its limit of rows.
* Of the tail: channel events, each one upsert of a row; of the clients, calls
  that are one request.
* Of what is modelled: message content, search index, attachment text, member
  columns, statistics other than deferred channels, progress logging, SQL text,
  the exact times of backoff.

## Plan

Done: every component with state of its own, in one module each; the tail over
the state of the crawl; every safety property that a run checks is a theorem.
What would come next:

1. `SuccessCovers` with the tail beside the crawl: what a successful run still
   guarantees when `latest` was moved under it, which is less than the repair sync is
   there for.
2. `LiveArchive` with several messages, so that the order of their cursors
   (`tail:last_event`) is in one model with their checkpoints.
