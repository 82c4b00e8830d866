------------------------------ MODULE SyncRun ------------------------------
(***************************************************************************)
(* One `sync` after another: Syncer.Sync, syncGuild and                    *)
(* syncGuildIncompleteBatches (internal/syncer/syncer.go), the catalog of  *)
(* channels and threads each works on (channel_catalog.go), and the marker *)
(* a run ends with, sync:last_success or sync:last_partial.                *)
(*                                                                         *)
(* Listing the channels of a guild is one step, and so is crawling them:   *)
(* any outcome that PoolContract allows.  The inside of a crawl is in      *)
(* ChannelPool and ChannelSync.                                            *)
(***************************************************************************)
EXTENDS Integers, FiniteSets

CONSTANTS
  Channels,   \* ids of channels and threads
  Threads, Forums,
  Parent,     \* the channel a thread belongs to
  Home,       \* the guild a channel belongs to
  Direct,     \* DMGuildID, the synthetic guild of the direct messages
  Nowhere,    \* no guild
  BatchSize,  \* fullSyncBatchSize
  Options,    \* bound: the SyncOptions the user gives; channels = {} for none
  Healthy     \* for liveness: channels whose crawl succeeds time and again

Guilds   == {Home[c] : c \in Channels} \ {Direct}
TopLevel == Channels \ Threads

ASSUME ChannelsAssumption == IsFiniteSet(Channels)
ASSUME KindsAssumption ==
  /\ Threads \subseteq Channels /\ Forums \subseteq TopLevel
  /\ Parent \in [Threads -> TopLevel] /\ Home \in [Channels -> Guilds \cup {Direct}]
  /\ \A t \in Threads : Home[t] = Home[Parent[t]] /\ Home[t] # Direct
  /\ \A f \in Forums : Home[f] # Direct
  /\ Nowhere \notin Guilds \cup {Direct}
ASSUME BatchSizeAssumption == BatchSize \in Nat \ {0}
ASSUME OptionsAssumption ==
  Options \subseteq [full : BOOLEAN, since : BOOLEAN, dms : BOOLEAN, channels : SUBSET Channels]
ASSUME HealthyAssumption == Healthy \subseteq Channels \ Forums

VARIABLES
  remote,      \* what Discord has: each channel "absent", "active" or "archived"
  rows,        \* channels with a row in the table channels
  complete,    \* channels with channel:<id>:history_complete
  unavailable, \* channels with channel:<id>:unavailable
  pc,          \* where the run is
  opts,        \* the SyncOptions of the run, or of the last one
  todo,        \* guilds the run has not begun
  guild,       \* the guild it is at
  pending,     \* channels of the guild it is going to crawl
  partial,     \* its stats.DeferredChannels is positive
  cancelled,   \* its context is done
  marker,      \* the marker it has written
  told         \* history: what its crawls came to, for each channel

durable == <<rows, complete, unavailable>>
result  == <<partial, cancelled, marker, told>>
vars    == <<remote, durable, pc, opts, todo, guild, pending, result>>

Outcomes == {"ok", "skipped", "deferred", "failed", "dropped"}

TypeOK ==
  /\ remote \in [Channels -> {"absent", "active", "archived"}]
  /\ rows \subseteq Channels /\ complete \subseteq rows /\ unavailable \subseteq Channels
  /\ pc \in {"idle", "guilds", "batches", "catalog", "crawl", "dms", "mark"}
  /\ opts \in Options
  /\ todo \subseteq Guilds /\ guild \in Guilds \cup {Direct, Nowhere}
  /\ pending \subseteq rows
  /\ partial \in BOOLEAN /\ cancelled \in BOOLEAN
  /\ marker \in {"none", "success", "partial"}
  /\ told \in [Channels -> Outcomes \cup {"nothing"}]

Nothing == [c \in Channels |-> "nothing"]

Init ==
  /\ remote \in [Channels -> {"absent", "active"}]
  /\ rows = {} /\ complete = {} /\ unavailable = {}
  /\ pc = "idle" /\ opts \in Options /\ todo = {} /\ guild = Nowhere /\ pending = {}
  /\ partial = FALSE /\ cancelled = FALSE /\ marker = "none" /\ told = Nothing

-----------------------------------------------------------------------------
(* Discord *)

Change(c, from, to) ==
  /\ remote[c] = from /\ remote' = [remote EXCEPT ![c] = to]
  /\ UNCHANGED <<durable, pc, opts, todo, guild, pending, result>>

\* Channels are made and deleted, threads are archived and come back.
DiscordChanges ==
  \/ \E c \in Channels : Change(c, "absent", "active") \/ Change(c, "active", "absent")
  \/ \E t \in Threads : Change(t, "active", "archived") \/ Change(t, "archived", "active")

-----------------------------------------------------------------------------
(* The catalog: the channels of a guild a run works on, and the parents    *)
(* whose threads it was denied                                             *)

Stored(g)    == {c \in rows : Home[c] = g}
Top(g)       == {c \in TopLevel : Home[c] = g /\ remote[c] = "active"}
Under(ps)    == {t \in Threads : Parent[t] \in ps}
Active(ps)   == {t \in Under(ps) : remote[t] = "active"}
Archived(ps) == {t \in Under(ps) : remote[t] = "archived"}

Catalog(channels, denied) == [channels |-> channels, denied |-> denied]

\* appendThreadCatalog: per parent the active threads, or a marker if they
\* are denied, and the archived ones as far as they can be had.
WithAllThreads(channels, ps) ==
  {Catalog(channels \cup Active(ps \ denied) \cup found, denied) :
     denied \in SUBSET ps, found \in SUBSET Archived(ps)}

\* appendActiveThreadCatalog: one list for the guild, or none if denied.
WithActiveThreads(channels, ps) ==
  {Catalog(channels \cup Active(ps), {}), Catalog(channels, {})}

\* liveChannelList, incremental and full.  The full one asks for archived
\* threads only while no thread of the guild is stored.
IncrementalCatalogs(g) == WithActiveThreads(Top(g), Top(g))
FullCatalogs(g) ==
  LET threads == Stored(g) \cap Threads
      known   == {Parent[t] : t \in threads}
  IN IF known = {} THEN WithAllThreads(Top(g), Top(g))
     ELSE WithActiveThreads(Top(g) \cup threads, {p \in Top(g) : p \in Forums \cup known})

\* selectRequestedChannels: what was asked for, and the threads of forums
\* among it, as far as they are known.
Select(live, stored) ==
  LET named == opts.channels \cap (live \cup stored)
  IN named \cup (Under(named \cap Forums) \cap live)

\* channelList with requested ids: from the rows alone if they are all there,
\* else from Discord, with every thread if one is still missing.
TargetedCatalogs(g) ==
  LET stored == Stored(g) \cap opts.channels
      first  == WithAllThreads(Top(g), opts.channels \cap Top(g) \cap Forums)
      second == UNION {{Catalog(k.channels \cup l.channels, k.denied \cup l.denied) :
                          l \in WithAllThreads(Top(g), Top(g))} : k \in first}
      Found(k) == opts.channels \subseteq Select(k.channels, stored)
      Of(k)    == Catalog(Select(k.channels, stored), k.denied)
  IN IF stored = opts.channels /\ stored \cap Forums = {} THEN {Catalog(stored, {})}
     ELSE {Of(k) : k \in {k \in first : Found(k)}}
            \cup (IF \A k \in first : Found(k) THEN {} ELSE {Of(k) : k \in second})

Catalogs(g) ==
  IF opts.channels # {} THEN TargetedCatalogs(g)
  ELSE IF opts.full /\ Stored(g) # {} THEN IncrementalCatalogs(g)
  ELSE FullCatalogs(g)

\* filterMessageChannels
Targets(channels) ==
  {c \in channels \ Forums :
     \/ opts.channels = {} \/ c \in opts.channels
     \/ c \in Threads /\ Parent[c] \in opts.channels \cap Forums \cap channels}

IncompleteOrDenied(g) == {c \in Stored(g) \ Forums : c \notin complete} \* fault: denied ones too
\* IncompleteMessageChannelIDs
Incomplete(g) == {c \in Stored(g) \ Forums : c \notin complete \cup unavailable}

-----------------------------------------------------------------------------
(* A run *)

EndRun == pc' = "idle" /\ todo' = {} /\ guild' = Nowhere /\ pending' = {} /\ UNCHANGED opts

Start(o) ==
  /\ pc = "idle" /\ pc' = "guilds"
  /\ opts' = o /\ todo' = Guilds
  /\ partial' = FALSE /\ cancelled' = FALSE /\ marker' = "none" /\ told' = Nothing
  /\ UNCHANGED <<remote, durable, guild, pending>>

\* syncGuild begins.  A full run goes for the channels known to be
\* incomplete, and lists the guild only if there is none.
BeginGuild(g) ==
  LET incomplete == IF opts.full /\ opts.channels = {} THEN Incomplete(g) ELSE {} IN
  /\ pc = "guilds" /\ ~cancelled /\ g \in todo
  /\ guild' = g /\ todo' = todo \ {g}
  /\ pc' = (IF incomplete # {} THEN "batches" ELSE "catalog")
  /\ pending' = incomplete
  /\ UNCHANGED <<remote, durable, opts, result>>

\* channelList, and UpsertChannel for each channel of it.
ListGuild(catalog) ==
  /\ pc = "catalog" /\ pc' = "crawl"
  /\ rows' = rows \cup catalog.channels
  /\ unavailable' = unavailable \cup catalog.denied
  /\ pending' = Targets(catalog.channels)
  /\ UNCHANGED <<remote, complete, opts, todo, guild, result>>

\* syncDMs lists the private channels.
ListDirect ==
  /\ pc = "dms" /\ pc' = "crawl"
  /\ rows' = rows \cup Top(Direct)
  /\ pending' = Targets(Top(Direct))
  /\ UNCHANGED <<remote, complete, unavailable, opts, todo, guild, result>>

\* What syncMessageChannels does and tells of its channels.  A full crawl
\* that succeeds without a cutoff leaves the history complete, any other may
\* get as far.  Results are dropped once the context is done.
Crawl(report) ==
  LET With(outcome) == {c \in DOMAIN report : report[c] = outcome}
      finished == IF opts.full /\ ~opts.since THEN With("ok") ELSE {}
  IN
  /\ complete' \in {complete \cup finished, complete \cup With("ok")}
  /\ unavailable' \in {unavailable \ With("ok"), (unavailable \ With("ok")) \cup With("skipped")}
  /\ cancelled' \in {TRUE, With("dropped") # {} /\ With("failed") = {}}
  /\ told' = [c \in Channels |-> IF c \in DOMAIN report THEN report[c] ELSE told[c]]
  /\ UNCHANGED <<remote, rows, marker>>

Some(outcome, report) == \E c \in DOMAIN report : report[c] = outcome

\* A batch of syncGuildIncompleteBatches, itself a syncGuild.  It counts what
\* its batches deferred, but syncGuild does not pass the count on.
CrawlBatch(report) ==
  LET rest == pending \ DOMAIN report IN
  /\ pc = "batches" /\ ~cancelled
  /\ Crawl(report)
  /\ UNCHANGED partial
  /\ IF Some("failed", report) THEN EndRun
     ELSE /\ pending' = rest
          /\ pc' = (IF rest = {} THEN "guilds" ELSE "batches")
          /\ guild' = (IF rest = {} THEN Nowhere ELSE guild)
          /\ UNCHANGED <<opts, todo>>

CrawlListedCounting(report, before) ==
  /\ pc = "crawl" /\ ~cancelled
  /\ Crawl(report)
  /\ partial' = (before \/ Some("deferred", report))
  /\ IF Some("failed", report) THEN EndRun
     ELSE /\ pc' = (IF guild = Direct THEN "mark" ELSE "guilds")
          /\ guild' = Nowhere /\ pending' = {}
          /\ UNCHANGED <<opts, todo>>

CrawlListedAlone(report) == CrawlListedCounting(report, FALSE) \* fault: of the last guild only
\* The channels of the list; what they deferred adds up over the guilds.
CrawlListed(report) == CrawlListedCounting(report, partial)

Batches == {b \in SUBSET pending :
  Cardinality(b) = (IF Cardinality(pending) < BatchSize THEN Cardinality(pending) ELSE BatchSize)}

\* All guilds are done.
EndGuilds ==
  /\ pc = "guilds" /\ todo = {}
  /\ pc' = (IF opts.dms THEN "dms" ELSE "mark")
  /\ guild' = (IF opts.dms THEN Direct ELSE Nowhere)
  /\ UNCHANGED <<remote, durable, opts, todo, pending, result>>

\* Sync writes its marker, if its context lets it.
Mark ==
  /\ pc = "mark" /\ EndRun
  /\ marker' = (IF partial THEN "partial" ELSE "success")
  /\ UNCHANGED <<remote, durable, partial, cancelled, told>>
WriteMarker == ~cancelled /\ Mark

\* A request or a statement fails, because the context is done or by itself,
\* or the process is killed.  Of a list some rows may have been written.
Fail ==
  /\ pc # "idle" /\ EndRun
  /\ \/ UNCHANGED rows
     \/ /\ pc = "catalog"
        /\ \E catalog \in Catalogs(guild) :
             \E some \in SUBSET catalog.channels : rows' = rows \cup some
  /\ UNCHANGED <<remote, complete, unavailable, result>>

Run ==
  \/ \E g \in todo : BeginGuild(g)
  \/ pc = "catalog" /\ \E catalog \in Catalogs(guild) : ListGuild(catalog)
  \/ ListDirect \/ EndGuilds \/ WriteMarker
  \/ \E b \in Batches : \E report \in [b -> Outcomes] : CrawlBatch(report)
  \/ \E report \in [pending -> Outcomes] : CrawlListed(report)

Next == DiscordChanges \/ (\E o \in Options : Start(o)) \/ Run \/ Fail

Spec == Init /\ [][Next]_vars

\* The user starts one sync after another, a full one without a cutoff time
\* again and again, and each comes to an end.  A step of a full run may fail, but
\* not every time: a list can be had in full, and the crawl of a healthy channel
\* succeeds time and again.  Nothing is assumed of the other channels.
Insisting(o) == o.full /\ ~o.since /\ o.channels = {}

BeginSome == \E g \in todo : BeginGuild(g)
FullList  == pc = "catalog" /\ \E catalog \in Catalogs(guild) :
  (\A other \in Catalogs(guild) : other.channels \subseteq catalog.channels) /\ ListGuild(catalog)

CrawledBy(c, targets, CrawlOf(_)) ==
  \E report \in [targets -> Outcomes] :
    c \in targets /\ report[c] = "ok" /\ CrawlOf(report)
Crawled(c) == (\E b \in Batches : CrawledBy(c, b, CrawlBatch)) \/ CrawledBy(c, pending, CrawlListed)

RepeatedSyncs ==
  /\ Spec
  /\ \A o \in Options : Insisting(o) => SF_vars(Start(o))
  /\ WF_vars(Run \/ Fail)
  /\ SF_vars(Insisting(opts) /\ BeginSome) /\ SF_vars(Insisting(opts) /\ FullList)
  /\ \A c \in Healthy : SF_vars(Insisting(opts) /\ Crawled(c))

-----------------------------------------------------------------------------
(* Properties *)

InBatches == opts.full /\ opts.channels = {}
Deferred  == {c \in Channels : told[c] = "deferred"}

\* A marker is written only by a run that has an account of every channel it
\* listed: a pool that was cancelled answers without an error, and the run
\* must not take that for success.
AccountedFor == marker # "none" => \A c \in Channels : told[c] \notin {"failed", "dropped"}

\* `sync:last_partial` is written only where a channel was deferred, and
\* outside of batches always where one was, in whichever of the guilds.
MarkerHonest ==
  /\ marker = "partial" => Deferred # {}
  /\ marker = "success" /\ ~InBatches => Deferred = {}

\* A full run that ends in success and has deferred nothing has left nothing:
\* every channel known of the guilds is complete, marked unavailable, or was
\* skipped by this run.
NothingLeftOver ==
  marker = "success" /\ InBatches /\ ~opts.since /\ Deferred = {}
    => \A g \in Guilds : \A c \in Incomplete(g) : told[c] = "skipped"

\* A marker tells what the run behind it did, in all three ways.
MarkerTells == AccountedFor /\ MarkerHonest /\ NothingLeftOver

\* A healthy channel is archived to its beginning in the end, however many
\* channels around it are denied and runs fail, with one exception: another
\* channel is left incomplete again and again, deferred or failing and neither
\* completed nor marked unavailable.  Then every full run goes for the
\* incomplete ones, never lists the guild, and may not come to the batches behind it.
Reached ==
  \A c \in Healthy :
    <>[](remote[c] = "active" /\ (c \in Threads => remote[Parent[c]] = "active"))
      => \/ <>(c \in complete)
         \/ \E d \in Channels \ (Forums \cup {c}) :
              []<>(d \in rows \ (complete \cup unavailable))
=============================================================================
