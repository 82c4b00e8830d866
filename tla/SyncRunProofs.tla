--------------------------- MODULE SyncRunProofs ---------------------------
(***************************************************************************)
(* A marker tells what the run behind it did, for any number of guilds,    *)
(* channels, threads and runs, whatever Discord changes meanwhile and      *)
(* wherever a run fails or is killed.                                      *)
(*                                                                         *)
(* A run crawls a channel once, so nothing it was told is overwritten; and *)
(* a guild it has passed keeps no channel unaccounted for.                 *)
(***************************************************************************)
EXTENDS SyncRun, TLAPS

ChannelsOf(g) == {c \in Channels : Home[c] = g}
Fresh(c) == told[c] = "nothing"

\* Where the run is, and whose channels it is about to crawl.
PlaceInv ==
  /\ pc \in {"idle", "guilds", "mark"} => guild = Nowhere
  /\ pc \in {"batches", "catalog"} => guild \in Guilds \ todo
  /\ pc = "dms" => guild = Direct
  /\ pc = "crawl" => guild \in (Guilds \cup {Direct}) \ todo
  /\ pc \in {"dms", "mark"} \/ (pc = "crawl" /\ guild = Direct) => todo = {}
  /\ pc \in {"batches", "crawl"} => pending \subseteq ChannelsOf(guild)
  /\ pc = "batches" => InBatches

\* What is still to be crawled has not been crawled in this run.
FreshInv ==
  /\ pc # "idle" => \A c \in Channels : Home[c] \in todo => Fresh(c)
  /\ pc \in {"catalog", "crawl", "dms"} => \A c \in ChannelsOf(guild) : Fresh(c)
  /\ pc = "batches" => \A c \in pending : Fresh(c)
  /\ pc \in {"guilds", "batches", "catalog"} \/ (pc = "crawl" /\ guild # Direct)
       => \A c \in ChannelsOf(Direct) : Fresh(c)

\* What a run that is going to write its marker knows.
AccountInv ==
  pc # "idle" =>
    /\ marker = "none"
    /\ ~cancelled => \A c \in Channels : told[c] \notin {"failed", "dropped"}
    /\ partial => Deferred # {}
    /\ ~partial /\ ~InBatches => Deferred = {}

\* Behind a full run nothing is left over but what it was denied.
PassedOver(g) == \A c \in Incomplete(g) : told[c] = "skipped"
LeftInv ==
  InBatches /\ ~opts.since /\ ~cancelled /\ Deferred = {} =>
    /\ pc # "idle" => \A g \in Guilds \ todo : g # guild => PassedOver(g)
    /\ pc = "batches" => \A c \in Incomplete(guild) : c \in pending \/ told[c] = "skipped"
    /\ pc = "catalog" => Incomplete(guild) = {}
    /\ pc = "crawl" /\ guild # Direct => Incomplete(guild) \subseteq pending

IInv == TypeOK /\ PlaceInv /\ FreshInv /\ AccountInv /\ LeftInv /\ MarkerTells

-----------------------------------------------------------------------------
(* Catalogs *)

\* A thread belongs to the guild of its channel.
LEMMA UnderHome ==
  ASSUME NEW g, NEW ps, ps \subseteq ChannelsOf(g)
  PROVE  Under(ps) \subseteq ChannelsOf(g)
BY KindsAssumption DEF Under, ChannelsOf, TopLevel

\* What appendThreadCatalog adds are threads of the parents it was given, and
\* what it denies are such parents.
LEMMA WithAllThreadsBounds ==
  ASSUME NEW channels, NEW ps, NEW k \in WithAllThreads(channels, ps)
  PROVE  k.channels \subseteq channels \cup Under(ps) /\ k.denied \subseteq ps
BY DEF WithAllThreads, Catalog, Active, Archived, Under

LEMMA WithActiveThreadsBounds ==
  ASSUME NEW channels, NEW ps, NEW k \in WithActiveThreads(channels, ps)
  PROVE  k.channels \subseteq channels \cup Under(ps) /\ k.denied = {}
BY DEF WithActiveThreads, Catalog, Active, Under

\* A catalog of a guild names channels of that guild alone.
LEMMA CatalogsOfGuild ==
  ASSUME TypeOK, NEW g, NEW k \in Catalogs(g)
  PROVE  k.channels \subseteq ChannelsOf(g) /\ k.denied \subseteq ChannelsOf(g)
<1>1. Stored(g) \subseteq ChannelsOf(g) /\ Top(g) \subseteq ChannelsOf(g)
  BY DEF Stored, Top, ChannelsOf, TopLevel, TypeOK
<1>2. \A ps : ps \subseteq ChannelsOf(g) => Under(ps) \subseteq ChannelsOf(g)
  BY UnderHome
<1>3. CASE opts.channels # {}
  <2> DEFINE stored == Stored(g) \cap opts.channels
             first  == WithAllThreads(Top(g), opts.channels \cap Top(g) \cap Forums)
             all    == WithAllThreads(Top(g), Top(g))
             second == UNION {{Catalog(j.channels \cup l.channels, j.denied \cup l.denied) :
                                 l \in all} : j \in first}
             Found(j) == opts.channels \subseteq Select(j.channels, stored)
             Of(j)    == Catalog(Select(j.channels, stored), j.denied)
             InGuild(j) == j.channels \subseteq ChannelsOf(g) /\ j.denied \subseteq ChannelsOf(g)
  <2>1. \A j \in first : InGuild(j)
    <3> TAKE j \in first
    <3>1. j.channels \subseteq Top(g) \cup Under(opts.channels \cap Top(g) \cap Forums)
          /\ j.denied \subseteq opts.channels \cap Top(g) \cap Forums
      BY WithAllThreadsBounds
    <3>2. Under(opts.channels \cap Top(g) \cap Forums) \subseteq ChannelsOf(g)
      BY <1>1, <1>2
    <3> QED BY <1>1, <3>1, <3>2
  <2>2. \A j \in all : InGuild(j)
    <3> TAKE j \in all
    <3>1. j.channels \subseteq Top(g) \cup Under(Top(g)) /\ j.denied \subseteq Top(g)
      BY WithAllThreadsBounds
    <3> QED BY <1>1, <1>2, <3>1
  <2>3. \A j \in second : InGuild(j)
    <3> TAKE x \in second
    <3>1. PICK j \in first, l \in all :
            x = Catalog(j.channels \cup l.channels, j.denied \cup l.denied)
      OBVIOUS
    <3>2. InGuild(j) /\ InGuild(l)
      BY <2>1, <2>2, <3>1
    <3> QED BY <3>1, <3>2 DEF Catalog
  <2>4. \A j : InGuild(j) => InGuild(Of(j))
    <3> SUFFICES ASSUME NEW j, InGuild(j) PROVE InGuild(Of(j))
      OBVIOUS
    <3>1. Select(j.channels, stored) \subseteq ChannelsOf(g)
      BY <1>1 DEF Select
    <3> QED BY <3>1 DEF Catalog
  <2>5. k \in TargetedCatalogs(g)
    BY <1>3 DEF Catalogs
  <2>6. \/ k = Catalog(stored, {})
        \/ \E j \in first \cup second : k = Of(j)
    BY <2>5 DEF TargetedCatalogs
  <2>7. InGuild(Catalog(stored, {}))
    BY <1>1 DEF Catalog
  <2> HIDE DEF first, second, all, stored, Of, Found
  <2>8. InGuild(k)
    BY <2>1, <2>3, <2>4, <2>6, <2>7
  <2> QED BY <2>8
<1>4. CASE opts.channels = {} /\ k \in WithAllThreads(Top(g), Top(g))
  BY <1>1, <1>2, <1>4, WithAllThreadsBounds
<1>5. CASE opts.channels = {} /\ k \in WithActiveThreads(Top(g), Top(g))
  BY <1>1, <1>2, <1>5, WithActiveThreadsBounds
<1>6. CASE \E known : k \in WithActiveThreads(Top(g) \cup (Stored(g) \cap Threads),
                                              {p \in Top(g) : p \in Forums \cup known})
  <2>1. PICK known : k \in WithActiveThreads(Top(g) \cup (Stored(g) \cap Threads),
                                             {p \in Top(g) : p \in Forums \cup known})
    BY <1>6
  <2>2. /\ k.channels \subseteq Top(g) \cup (Stored(g) \cap Threads)
                                  \cup Under({p \in Top(g) : p \in Forums \cup known})
        /\ k.denied = {}
    BY <2>1, WithActiveThreadsBounds
  <2>3. Under({p \in Top(g) : p \in Forums \cup known}) \subseteq ChannelsOf(g)
    BY <1>1, <1>2
  <2> QED BY <1>1, <2>2, <2>3
<1> QED BY <1>3, <1>4, <1>5, <1>6 DEF Catalogs, IncrementalCatalogs, FullCatalogs

-----------------------------------------------------------------------------
(* The inductive invariant *)

LEMMA DirectIsNoGuild == Direct \notin Guilds /\ Nowhere \notin Guilds \cup {Direct}
BY KindsAssumption DEF Guilds

LEMMA InitIInv == Init => IInv
<1> SUFFICES ASSUME Init PROVE IInv
  OBVIOUS
<1>1. TypeOK
  BY DEF Init, TypeOK, Nothing
<1>2. PlaceInv /\ FreshInv /\ AccountInv /\ LeftInv
  BY DEF Init, PlaceInv, FreshInv, AccountInv, LeftInv
<1>3. MarkerTells
  BY DEF Init, MarkerTells, AccountedFor, MarkerHonest, NothingLeftOver
<1> QED BY <1>1, <1>2, <1>3 DEF IInv

\* A run that has ended as it was: nothing is asked of it but its marker.
LEMMA EndedRun ==
  ASSUME IInv, TypeOK', EndRun, pc # "idle", UNCHANGED marker
  PROVE  IInv'
<1>1. pc' = "idle" /\ guild' = Nowhere /\ marker' = "none"
  BY DEF IInv, AccountInv, EndRun
<1>2. PlaceInv' /\ FreshInv' /\ AccountInv' /\ LeftInv'
  BY <1>1 DEF PlaceInv, FreshInv, AccountInv, LeftInv, EndRun
<1>3. MarkerTells'
  BY <1>1 DEF MarkerTells, AccountedFor, MarkerHonest, NothingLeftOver
<1> QED BY <1>2, <1>3 DEF IInv

LEMMA DiscordChangesIInv == IInv /\ DiscordChanges => IInv'
<1> SUFFICES ASSUME IInv, NEW c \in Channels, NEW from, NEW to \in {"absent", "active", "archived"},
                    Change(c, from, to)
             PROVE  IInv'
  BY KindsAssumption DEF DiscordChanges
<1>1. UNCHANGED <<rows, complete, unavailable, pc, opts, todo, guild, pending,
                  partial, cancelled, marker, told>>
  BY DEF Change, durable, result
<1>2. TypeOK'
  BY <1>1 DEF Change, IInv, TypeOK
<1>3. PlaceInv'
  BY <1>1 DEF IInv, PlaceInv, InBatches
<1>4. FreshInv'
  BY <1>1 DEF IInv, FreshInv, Fresh
<1>5. AccountInv'
  BY <1>1 DEF IInv, AccountInv, Deferred, InBatches
<1>6. LeftInv'
  BY <1>1 DEF IInv, LeftInv, Deferred, InBatches, PassedOver, Incomplete, Stored
<1>7. MarkerTells'
  BY <1>1 DEF IInv, MarkerTells, AccountedFor, MarkerHonest, NothingLeftOver, Deferred, InBatches,
              Incomplete, Stored
<1> QED BY <1>2, <1>3, <1>4, <1>5, <1>6, <1>7 DEF IInv

LEMMA StartIInv == ASSUME IInv, NEW o \in Options, Start(o) PROVE IInv'
<1>1. TypeOK'
  BY DEF Start, IInv, TypeOK, durable, Nothing
<1>2. PlaceInv'
  BY DEF Start, IInv, PlaceInv
<1>3. FreshInv'
  BY DEF Start, FreshInv, Fresh, Nothing, ChannelsOf
<1>4. Deferred' = {}
  BY DEF Start, Deferred, Nothing
<1>5. AccountInv'
  BY <1>4 DEF Start, AccountInv, Nothing
<1>6. LeftInv'
  BY DEF Start, LeftInv
<1>7. MarkerTells'
  BY DEF Start, MarkerTells, AccountedFor, MarkerHonest, NothingLeftOver
<1> QED BY <1>1, <1>2, <1>3, <1>5, <1>6, <1>7 DEF IInv

LEMMA BeginGuildIInv == ASSUME IInv, NEW g \in todo, BeginGuild(g) PROVE IInv'
<1> DEFINE incomplete == IF InBatches THEN Incomplete(g) ELSE {}
<1>1. /\ pc = "guilds" /\ ~cancelled
      /\ guild' = g /\ todo' = todo \ {g} /\ pending' = incomplete
      /\ pc' = (IF incomplete # {} THEN "batches" ELSE "catalog")
      /\ UNCHANGED <<remote, rows, complete, unavailable, opts, partial, cancelled, marker, told>>
  BY DEF BeginGuild, InBatches, durable, result
<1>2. incomplete \subseteq rows /\ incomplete \subseteq ChannelsOf(g)
  BY DEF Incomplete, Stored, ChannelsOf, IInv, TypeOK
<1>3. g \in Guilds /\ g # Direct /\ g # Nowhere /\ guild = Nowhere
  BY <1>1, DirectIsNoGuild DEF IInv, TypeOK, PlaceInv
<1>4. incomplete # {} => InBatches
  OBVIOUS
<1>5. InBatches => incomplete = Incomplete(g)
  OBVIOUS
<1> HIDE DEF incomplete
<1>6. TypeOK'
  BY <1>1, <1>2, <1>3 DEF IInv, TypeOK
<1>7. PlaceInv'
  BY <1>1, <1>2, <1>3, <1>4 DEF IInv, PlaceInv, InBatches, ChannelsOf
<1>8. FreshInv'
  BY <1>1, <1>2, <1>3 DEF IInv, FreshInv, Fresh, ChannelsOf
<1>9. AccountInv'
  BY <1>1 DEF IInv, AccountInv, Deferred, InBatches
<1>10. \A h : Incomplete(h)' = Incomplete(h)
  BY <1>1 DEF Incomplete, Stored
<1>11. InBatches' = InBatches /\ Deferred' = Deferred
  BY <1>1 DEF InBatches, Deferred
<1>12. LeftInv'
  <2> SUFFICES ASSUME InBatches, ~opts.since, Deferred = {}
               PROVE  /\ \A h \in Guilds \ todo' : h # g => PassedOver(h)'
                      /\ pc' = "batches" => Incomplete(g) \subseteq incomplete
                      /\ pc' = "catalog" => Incomplete(g) = {}
    BY <1>1, <1>10, <1>11 DEF LeftInv
  <2>1. \A h \in Guilds \ todo : PassedOver(h)
    BY <1>1, <1>3, DirectIsNoGuild DEF IInv, LeftInv
  <2>2. \A h : PassedOver(h)' = PassedOver(h)
    BY <1>1, <1>10 DEF PassedOver
  <2> QED BY <1>1, <1>5, <2>1, <2>2
<1>13. MarkerTells'
  BY <1>1 DEF IInv, AccountInv, MarkerTells, AccountedFor, MarkerHonest, NothingLeftOver
<1> QED BY <1>6, <1>7, <1>8, <1>9, <1>12, <1>13 DEF IInv

LEMMA ListGuildIInv ==
  ASSUME IInv, pc = "catalog", NEW catalog \in Catalogs(guild), ListGuild(catalog)
  PROVE  IInv'
<1>1. /\ pc' = "crawl"
      /\ rows' = rows \cup catalog.channels /\ unavailable' = unavailable \cup catalog.denied
      /\ pending' = Targets(catalog.channels)
      /\ UNCHANGED <<remote, complete, opts, todo, guild, partial, cancelled, marker, told>>
  BY DEF ListGuild, result
<1>2. catalog.channels \subseteq ChannelsOf(guild) /\ catalog.denied \subseteq ChannelsOf(guild)
  BY CatalogsOfGuild DEF IInv
<1>3. pending' \subseteq catalog.channels
  BY <1>1 DEF Targets
<1>4. guild \in Guilds \ todo /\ guild # Direct
  BY DirectIsNoGuild DEF IInv, PlaceInv
<1>5. TypeOK'
  BY <1>1, <1>2, <1>3 DEF IInv, TypeOK, ChannelsOf
<1>6. PlaceInv'
  BY <1>1, <1>2, <1>3, <1>4 DEF IInv, PlaceInv, ChannelsOf
<1>7. FreshInv'
  BY <1>1, <1>4 DEF IInv, FreshInv, Fresh, ChannelsOf
<1>8. AccountInv'
  BY <1>1 DEF IInv, AccountInv, Deferred, InBatches
<1>9. InBatches' = InBatches /\ Deferred' = Deferred
  BY <1>1 DEF InBatches, Deferred
<1>10. LeftInv'
  <2> SUFFICES ASSUME InBatches, ~opts.since, ~cancelled, Deferred = {}
               PROVE  /\ \A g \in Guilds \ todo : g # guild => PassedOver(g)'
                      /\ Incomplete(guild)' \subseteq pending'
    BY <1>1, <1>9 DEF LeftInv
  <2>1. Incomplete(guild) = {} /\ \A g \in Guilds \ todo : g # guild => PassedOver(g)
    BY DEF IInv, LeftInv
  <2>2. \A g : g # guild => Incomplete(g)' \subseteq Incomplete(g)
    BY <1>1, <1>2 DEF Incomplete, Stored, ChannelsOf
  <2>3. \A g \in Guilds \ todo : g # guild => PassedOver(g)'
    BY <1>1, <2>1, <2>2 DEF PassedOver
  <2>4. Incomplete(guild)' \subseteq catalog.channels \ Forums
    BY <1>1, <2>1 DEF Incomplete, Stored
  <2>5. pending' = catalog.channels \ Forums
    BY <1>1 DEF Targets, InBatches
  <2> QED BY <2>3, <2>4, <2>5
<1>11. MarkerTells'
  BY <1>1 DEF IInv, AccountInv, MarkerTells, AccountedFor, MarkerHonest, NothingLeftOver
<1> QED BY <1>5, <1>6, <1>7, <1>8, <1>10, <1>11 DEF IInv

LEMMA ListDirectIInv == IInv /\ ListDirect => IInv'
<1> SUFFICES ASSUME IInv, ListDirect PROVE IInv'
  OBVIOUS
<1>1. /\ pc = "dms" /\ pc' = "crawl"
      /\ rows' = rows \cup Top(Direct) /\ pending' = Targets(Top(Direct))
      /\ UNCHANGED <<remote, complete, unavailable, opts, todo, guild,
                     partial, cancelled, marker, told>>
  BY DEF ListDirect, result
<1>2. Top(Direct) \subseteq ChannelsOf(Direct) /\ pending' \subseteq Top(Direct)
  BY <1>1 DEF Top, ChannelsOf, TopLevel, Targets
<1>3. guild = Direct /\ todo = {} /\ Direct \notin Guilds
  BY <1>1, DirectIsNoGuild DEF IInv, PlaceInv
<1>4. TypeOK'
  BY <1>1, <1>2 DEF IInv, TypeOK, ChannelsOf
<1>5. PlaceInv'
  BY <1>1, <1>2, <1>3 DEF IInv, PlaceInv, ChannelsOf
<1>6. FreshInv'
  BY <1>1, <1>3 DEF IInv, FreshInv, Fresh, ChannelsOf
<1>7. AccountInv'
  BY <1>1 DEF IInv, AccountInv, Deferred, InBatches
<1>8. LeftInv'
  <2>1. \A g \in Guilds : Incomplete(g)' \subseteq Incomplete(g)
    BY <1>1, <1>2, <1>3 DEF Incomplete, Stored, ChannelsOf
  <2>2. \A g \in Guilds : PassedOver(g) => PassedOver(g)'
    BY <1>1, <2>1 DEF PassedOver
  <2>3. InBatches' = InBatches /\ Deferred' = Deferred
    BY <1>1 DEF InBatches, Deferred
  <2> QED BY <1>1, <1>3, <2>2, <2>3 DEF IInv, LeftInv
<1>9. MarkerTells'
  BY <1>1 DEF IInv, AccountInv, MarkerTells, AccountedFor, MarkerHonest, NothingLeftOver
<1> QED BY <1>4, <1>5, <1>6, <1>7, <1>8, <1>9 DEF IInv

\* What a crawl comes to for the channels it was given, all of them fresh.
LEMMA CrawlFacts ==
  ASSUME TypeOK, NEW targets \in SUBSET rows, NEW report \in [targets -> Outcomes],
         \A c \in targets : Fresh(c), Crawl(report)
  PROVE  /\ complete \subseteq complete' /\ complete' \subseteq rows
         /\ unavailable' \subseteq Channels /\ cancelled' \in BOOLEAN
         /\ told' \in [Channels -> Outcomes \cup {"nothing"}]
         /\ \A c \in targets : told'[c] = report[c]
         /\ \A c \in Channels \ targets : told'[c] = told[c]
         /\ Deferred' = Deferred \cup {c \in targets : report[c] = "deferred"}
         /\ UNCHANGED <<remote, rows, marker>>
<1>1. DOMAIN report = targets /\ targets \subseteq Channels
  BY DEF TypeOK
<1>2. told' = [c \in Channels |-> IF c \in targets THEN report[c] ELSE told[c]]
  BY <1>1 DEF Crawl
<1>3. /\ told' \in [Channels -> Outcomes \cup {"nothing"}]
      /\ \A c \in targets : told'[c] = report[c]
      /\ \A c \in Channels \ targets : told'[c] = told[c]
  BY <1>1, <1>2 DEF TypeOK
<1>4. Deferred' = Deferred \cup {c \in targets : report[c] = "deferred"}
  BY <1>1, <1>3 DEF Deferred, Fresh
<1>5. complete \subseteq complete' /\ complete' \subseteq complete \cup targets
  BY <1>1 DEF Crawl
<1>6. unavailable' \subseteq unavailable \cup targets /\ cancelled' \in BOOLEAN
      /\ UNCHANGED <<remote, rows, marker>>
  BY <1>1 DEF Crawl
<1> QED BY <1>1, <1>3, <1>4, <1>5, <1>6 DEF TypeOK

\* A full crawl that goes on, deferred nothing and was not cancelled leaves
\* of its channels only what was skipped.
LEMMA CrawlSettles ==
  ASSUME TypeOK, NEW targets \in SUBSET rows, NEW report \in [targets -> Outcomes],
         \A c \in targets : Fresh(c), Crawl(report),
         opts.full, ~opts.since, ~cancelled', Deferred' = {}, ~Some("failed", report)
  PROVE  /\ \A g : Incomplete(g)' \subseteq Incomplete(g)
         /\ \A g : \A c \in Incomplete(g)' \cap targets : told'[c] = "skipped"
<1>1. DOMAIN report = targets
  OBVIOUS
<1>2. \A c \in targets : told'[c] = report[c] /\ report[c] # "deferred"
  BY CrawlFacts
<1>3. \A c \in targets : report[c] # "failed"
  BY <1>1 DEF Some
<1>4. \A c \in targets : report[c] # "dropped"
  BY <1>1, <1>3 DEF Crawl
<1>5. \A c \in targets : report[c] \in {"ok", "skipped"}
  BY <1>2, <1>3, <1>4 DEF Outcomes
<1>6. /\ complete' = complete \cup {c \in targets : report[c] = "ok"}
      /\ unavailable \ {c \in targets : report[c] = "ok"} \subseteq unavailable'
      /\ rows' = rows
  BY <1>1 DEF Crawl
<1>7. \A g : Incomplete(g)' \subseteq Incomplete(g) \ {c \in targets : report[c] = "ok"}
  BY <1>6 DEF Incomplete, Stored
<1> QED BY <1>2, <1>5, <1>7

LEMMA CrawlBatchIInv ==
  ASSUME IInv, NEW b \in Batches, NEW report \in [b -> Outcomes], CrawlBatch(report)
  PROVE  IInv'
<1>1. b \subseteq pending /\ b \in SUBSET rows /\ DOMAIN report = b
  BY DEF Batches, IInv, TypeOK
<1>2. pc = "batches" /\ ~cancelled /\ Crawl(report) /\ UNCHANGED <<partial, opts>>
  BY DEF CrawlBatch, EndRun
<1>3. \A c \in b : Fresh(c)
  BY <1>1, <1>2 DEF IInv, FreshInv
<1>4. /\ complete \subseteq complete' /\ complete' \subseteq rows
      /\ unavailable' \subseteq Channels /\ cancelled' \in BOOLEAN
      /\ told' \in [Channels -> Outcomes \cup {"nothing"}]
      /\ \A c \in b : told'[c] = report[c]
      /\ \A c \in Channels \ b : told'[c] = told[c]
      /\ Deferred' = Deferred \cup {c \in b : report[c] = "deferred"}
      /\ UNCHANGED <<remote, rows, marker>>
  BY <1>1, <1>2, <1>3, CrawlFacts DEF IInv
<1>5. CASE Some("failed", report)
  <2>1. EndRun
    BY <1>5 DEF CrawlBatch
  <2>2. TypeOK'
    BY <1>2, <1>4, <2>1 DEF EndRun, IInv, TypeOK
  <2> QED BY <1>2, <1>4, <2>1, <2>2, EndedRun
<1>6. CASE ~Some("failed", report)
  <2> DEFINE rest == pending \ b
  <2>1. /\ pending' = rest /\ todo' = todo
        /\ pc' = (IF rest = {} THEN "guilds" ELSE "batches")
        /\ guild' = (IF rest = {} THEN Nowhere ELSE guild)
    BY <1>1, <1>6 DEF CrawlBatch
  <2>2. guild \in Guilds \ todo /\ pending \subseteq ChannelsOf(guild) /\ InBatches
    BY <1>2 DEF IInv, PlaceInv
  <2>3. guild # Direct /\ b \subseteq ChannelsOf(guild)
    BY <1>1, <2>2, DirectIsNoGuild
  <2>4. InBatches'
    BY <1>2, <2>2 DEF InBatches
  <2>5. TypeOK'
    BY <1>2, <1>4, <2>1 DEF IInv, TypeOK
  <2>6. PlaceInv'
    BY <2>1, <2>2, <2>4 DEF PlaceInv, ChannelsOf
  <2>7. FreshInv'
    <3>1. \A c \in Channels : c \notin b /\ Fresh(c) => Fresh(c)'
      BY <1>4 DEF Fresh
    <3>2. \A c \in Channels : Home[c] \in todo => Fresh(c)'
      BY <1>2, <2>2, <2>3, <3>1 DEF IInv, FreshInv, ChannelsOf
    <3>3. \A c \in ChannelsOf(Direct) : Fresh(c)'
      BY <1>2, <2>2, <2>3, <3>1 DEF IInv, FreshInv, ChannelsOf
    <3>4. \A c \in rest : Fresh(c)'
      BY <1>2, <3>1 DEF IInv, FreshInv, TypeOK
    <3>5. ChannelsOf(Direct)' = ChannelsOf(Direct)
      BY DEF ChannelsOf
    <3> QED BY <2>1, <3>2, <3>3, <3>4, <3>5 DEF FreshInv
  <2>8. AccountInv'
    <3>1. marker' = "none" /\ (partial' => Deferred' # {})
      BY <1>2, <1>4 DEF IInv, AccountInv
    <3>2. ASSUME ~cancelled', NEW c \in Channels PROVE told'[c] \notin {"failed", "dropped"}
      <4>1. told[c] \notin {"failed", "dropped"}
        BY <1>2 DEF IInv, AccountInv
      <4>2. \A d \in b : report[d] \notin {"failed", "dropped"}
        BY <1>1, <1>2, <1>6, <3>2 DEF Some, Crawl
      <4> QED BY <1>4, <4>1, <4>2
    <3> QED BY <2>4, <3>1, <3>2 DEF AccountInv
  <2>9. LeftInv'
    <3> SUFFICES ASSUME ~opts.since, ~cancelled', Deferred' = {}
                 PROVE  /\ \A g \in Guilds \ todo : g # guild' => PassedOver(g)'
                        /\ \A g : g = guild /\ rest # {} =>
                             \A c \in Incomplete(g)' : c \in rest \/ told'[c] = "skipped"
      BY <1>2, <2>1, <2>4 DEF LeftInv
    <3>1. /\ \A g : Incomplete(g)' \subseteq Incomplete(g)
          /\ \A g : \A c \in Incomplete(g)' \cap b : told'[c] = "skipped"
      BY <1>1, <1>2, <1>3, <1>6, <2>2, CrawlSettles DEF IInv, InBatches
    <3>2. /\ \A g \in Guilds \ todo : g # guild => PassedOver(g)
          /\ \A c \in Incomplete(guild) : c \in pending \/ told[c] = "skipped"
      BY <1>2, <1>4, <2>2 DEF IInv, LeftInv
    <3>3. \A g : Incomplete(g) \subseteq Channels
      BY DEF Incomplete, Stored, IInv, TypeOK
    <3>4. \A g \in Guilds \ todo : g # guild => PassedOver(g)'
      BY <1>4, <3>1, <3>2, <3>3 DEF PassedOver
    <3>5. \A g : g = guild => \A c \in Incomplete(g)' : c \in rest \/ told'[c] = "skipped"
      BY <1>4, <3>1, <3>2, <3>3
    <3>6. rest = {} => \A g : g = guild => PassedOver(g)'
      <4> HIDE DEF rest
      <4> QED BY <3>5 DEF PassedOver
    <3> QED BY <2>1, <3>4, <3>5, <3>6
  <2>10. MarkerTells'
    BY <1>2, <1>4 DEF IInv, AccountInv, MarkerTells, AccountedFor, MarkerHonest, NothingLeftOver
  <2> QED BY <2>5, <2>6, <2>7, <2>8, <2>9, <2>10 DEF IInv
<1> QED BY <1>5, <1>6

LEMMA CrawlListedIInv ==
  ASSUME IInv, NEW report \in [pending -> Outcomes], CrawlListed(report)
  PROVE  IInv'
<1>1. pending \in SUBSET rows /\ DOMAIN report = pending
  BY DEF IInv, TypeOK
<1>2. /\ pc = "crawl" /\ ~cancelled /\ Crawl(report) /\ UNCHANGED opts
      /\ partial' = (partial \/ Some("deferred", report))
  BY DEF CrawlListed, CrawlListedCounting, EndRun
<1>3. /\ guild \in (Guilds \cup {Direct}) \ todo /\ pending \subseteq ChannelsOf(guild)
      /\ guild = Direct => todo = {}
  BY <1>2 DEF IInv, PlaceInv
<1>4. \A c \in pending : Fresh(c)
  BY <1>2, <1>3 DEF IInv, FreshInv
<1>5. /\ complete \subseteq complete' /\ complete' \subseteq rows
      /\ unavailable' \subseteq Channels /\ cancelled' \in BOOLEAN
      /\ told' \in [Channels -> Outcomes \cup {"nothing"}]
      /\ \A c \in pending : told'[c] = report[c]
      /\ \A c \in Channels \ pending : told'[c] = told[c]
      /\ Deferred' = Deferred \cup {c \in pending : report[c] = "deferred"}
      /\ UNCHANGED <<remote, rows, marker>>
  BY <1>1, <1>2, <1>4, CrawlFacts DEF IInv
<1>6. CASE Some("failed", report)
  <2>1. EndRun
    BY <1>6 DEF CrawlListed, CrawlListedCounting
  <2>2. TypeOK'
    BY <1>2, <1>5, <2>1 DEF EndRun, IInv, TypeOK, Some
  <2> QED BY <1>2, <1>5, <2>1, <2>2, EndedRun
<1>7. CASE ~Some("failed", report)
  <2>1. /\ pending' = {} /\ guild' = Nowhere /\ todo' = todo
        /\ pc' = (IF guild = Direct THEN "mark" ELSE "guilds")
    BY <1>7 DEF CrawlListed, CrawlListedCounting
  <2>2. InBatches' = InBatches
    BY <1>2 DEF InBatches
  <2>3. TypeOK'
    BY <1>2, <1>5, <2>1 DEF IInv, TypeOK, Some
  <2>4. PlaceInv'
    BY <1>3, <2>1 DEF PlaceInv
  <2>5. FreshInv'
    <3>1. \A c \in Channels : c \notin pending /\ Fresh(c) => Fresh(c)'
      BY <1>5 DEF Fresh
    <3>2. \A c \in Channels : Home[c] \in todo => Fresh(c)'
      BY <1>2, <1>3, <3>1 DEF IInv, FreshInv, ChannelsOf
    <3>3. guild # Direct => \A c \in ChannelsOf(Direct) : Fresh(c)'
      BY <1>2, <1>3, <3>1 DEF IInv, FreshInv, ChannelsOf
    <3>4. ChannelsOf(Direct)' = ChannelsOf(Direct)
      BY DEF ChannelsOf
    <3> QED BY <2>1, <3>2, <3>3, <3>4 DEF FreshInv
  <2>6. AccountInv'
    <3>1. marker' = "none"
      BY <1>2, <1>5 DEF IInv, AccountInv
    <3>2. ASSUME ~cancelled', NEW c \in Channels PROVE told'[c] \notin {"failed", "dropped"}
      <4>1. told[c] \notin {"failed", "dropped"}
        BY <1>2 DEF IInv, AccountInv
      <4>2. \A d \in pending : report[d] \notin {"failed", "dropped"}
        BY <1>1, <1>2, <1>7, <3>2 DEF Some, Crawl
      <4> QED BY <1>5, <4>1, <4>2
    <3>3. /\ partial => Deferred # {}
          /\ ~partial /\ ~InBatches => Deferred = {}
      BY <1>2 DEF IInv, AccountInv
    <3>4. partial' <=> partial \/ \E c \in pending : report[c] = "deferred"
      BY <1>1, <1>2 DEF Some
    <3>5. /\ partial' => Deferred' # {}
          /\ ~partial' /\ ~InBatches' => Deferred' = {}
      BY <1>5, <2>2, <3>3, <3>4
    <3> QED BY <3>1, <3>2, <3>5 DEF AccountInv
  <2>7. LeftInv'
    <3> SUFFICES ASSUME InBatches, ~opts.since, ~cancelled', Deferred' = {}
                 PROVE  \A g \in Guilds \ todo : PassedOver(g)'
      BY <1>2, <2>1, <2>2 DEF LeftInv
    <3>1. /\ \A g : Incomplete(g)' \subseteq Incomplete(g)
          /\ \A g : \A c \in Incomplete(g)' \cap pending : told'[c] = "skipped"
      BY <1>1, <1>2, <1>4, <1>7, CrawlSettles DEF IInv, InBatches
    <3>2. /\ \A g \in Guilds \ todo : g # guild => PassedOver(g)
          /\ guild # Direct => Incomplete(guild) \subseteq pending
      BY <1>2, <1>5 DEF IInv, LeftInv
    <3>3. \A g : Incomplete(g) \subseteq Channels
      BY DEF Incomplete, Stored, IInv, TypeOK
    <3>4. \A g \in Guilds \ todo : g # guild => PassedOver(g)'
      BY <1>5, <3>1, <3>2, <3>3 DEF PassedOver
    <3>5. \A g : g = guild /\ guild # Direct => PassedOver(g)'
      BY <3>1, <3>2 DEF PassedOver
    <3> QED BY <3>4, <3>5, DirectIsNoGuild
  <2>8. MarkerTells'
    BY <1>2, <1>5 DEF IInv, AccountInv, MarkerTells, AccountedFor, MarkerHonest, NothingLeftOver
  <2> QED BY <2>3, <2>4, <2>5, <2>6, <2>7, <2>8 DEF IInv
<1> QED BY <1>6, <1>7

LEMMA EndGuildsIInv == IInv /\ EndGuilds => IInv'
<1> SUFFICES ASSUME IInv, EndGuilds PROVE IInv'
  OBVIOUS
<1>1. /\ pc = "guilds" /\ todo = {}
      /\ pc' = (IF opts.dms THEN "dms" ELSE "mark")
      /\ guild' = (IF opts.dms THEN Direct ELSE Nowhere)
      /\ UNCHANGED <<remote, rows, complete, unavailable, opts, todo, pending,
                     partial, cancelled, marker, told>>
  BY DEF EndGuilds, durable, result
<1>2. guild = Nowhere
  BY <1>1 DEF IInv, PlaceInv
<1>3. TypeOK'
  BY <1>1 DEF IInv, TypeOK
<1>4. PlaceInv'
  BY <1>1 DEF PlaceInv
<1>5. FreshInv'
  BY <1>1 DEF IInv, FreshInv, Fresh, ChannelsOf
<1>6. InBatches' = InBatches /\ Deferred' = Deferred /\ \A g : Incomplete(g)' = Incomplete(g)
  BY <1>1 DEF InBatches, Deferred, Incomplete, Stored
<1>7. AccountInv'
  BY <1>1, <1>6 DEF IInv, AccountInv
<1>8. LeftInv'
  <2>1. \A g : PassedOver(g)' = PassedOver(g)
    BY <1>1, <1>6 DEF PassedOver
  <2>2. InBatches /\ ~opts.since /\ ~cancelled /\ Deferred = {} => \A g \in Guilds : PassedOver(g)
    BY <1>1, <1>2, DirectIsNoGuild DEF IInv, LeftInv
  <2> QED BY <1>1, <1>6, <2>1, <2>2 DEF LeftInv
<1>9. MarkerTells'
  BY <1>1 DEF IInv, AccountInv, MarkerTells, AccountedFor, MarkerHonest, NothingLeftOver
<1> QED BY <1>3, <1>4, <1>5, <1>7, <1>8, <1>9 DEF IInv

\* The step that claims something: the marker it writes is true.
LEMMA WriteMarkerIInv == IInv /\ WriteMarker => IInv'
<1> SUFFICES ASSUME IInv, WriteMarker PROVE IInv'
  OBVIOUS
<1>1. /\ pc = "mark" /\ ~cancelled /\ EndRun /\ UNCHANGED opts
      /\ marker' = (IF partial THEN "partial" ELSE "success")
      /\ UNCHANGED <<remote, rows, complete, unavailable, partial, cancelled, told>>
  BY DEF WriteMarker, Mark, EndRun, durable
<1>2. pc' = "idle" /\ guild' = Nowhere
  BY <1>1 DEF EndRun
<1>3. TypeOK'
  BY <1>1 DEF EndRun, IInv, TypeOK
<1>4. PlaceInv' /\ FreshInv' /\ AccountInv' /\ LeftInv'
  BY <1>1, <1>2 DEF PlaceInv, FreshInv, AccountInv, LeftInv, EndRun
<1>5. InBatches' = InBatches /\ Deferred' = Deferred /\ \A g : Incomplete(g)' = Incomplete(g)
  BY <1>1 DEF InBatches, Deferred, Incomplete, Stored
<1>6. AccountedFor'
  BY <1>1 DEF IInv, AccountInv, AccountedFor
<1>7. MarkerHonest'
  BY <1>1, <1>5 DEF IInv, AccountInv, MarkerHonest
<1>8. NothingLeftOver'
  <2>1. todo = {} /\ guild \notin Guilds
    BY <1>1, DirectIsNoGuild DEF IInv, PlaceInv
  <2>2. InBatches /\ ~opts.since /\ Deferred = {} => \A g \in Guilds : PassedOver(g)
    BY <1>1, <2>1 DEF IInv, LeftInv
  <2> QED BY <1>1, <1>5, <2>2 DEF NothingLeftOver, PassedOver
<1> QED BY <1>3, <1>4, <1>6, <1>7, <1>8 DEF IInv, MarkerTells

LEMMA FailIInv == IInv /\ Fail => IInv'
<1> SUFFICES ASSUME IInv, Fail PROVE IInv'
  OBVIOUS
<1>1. pc # "idle" /\ EndRun /\ UNCHANGED <<remote, complete, unavailable, partial, cancelled, marker, told>>
  BY DEF Fail, result
<1>2. rows \subseteq rows' /\ rows' \subseteq Channels
  <2>1. CASE UNCHANGED rows
    BY <2>1 DEF IInv, TypeOK
  <2>2. CASE \E catalog \in Catalogs(guild) : \E some \in SUBSET catalog.channels : rows' = rows \cup some
    BY <2>2, CatalogsOfGuild DEF IInv, TypeOK, ChannelsOf
  <2> QED BY <2>1, <2>2 DEF Fail
<1>3. TypeOK'
  BY <1>1, <1>2 DEF EndRun, IInv, TypeOK
<1> QED BY <1>1, <1>3, EndedRun

LEMMA RunIInv == IInv /\ Run => IInv'
BY BeginGuildIInv, ListGuildIInv, ListDirectIInv, EndGuildsIInv, WriteMarkerIInv,
   CrawlBatchIInv, CrawlListedIInv
   DEF Run

LEMMA StutterIInv == IInv /\ UNCHANGED vars => IInv'
<1> SUFFICES ASSUME IInv, UNCHANGED vars PROVE IInv'
  OBVIOUS
<1>1. UNCHANGED <<remote, rows, complete, unavailable, pc, opts, todo, guild, pending,
                  partial, cancelled, marker, told>>
  BY DEF vars, durable, result
<1>2. TypeOK' /\ PlaceInv' /\ FreshInv' /\ AccountInv'
  BY <1>1 DEF IInv, TypeOK, PlaceInv, FreshInv, Fresh, ChannelsOf, AccountInv, Deferred, InBatches
<1>3. LeftInv'
  BY <1>1 DEF IInv, LeftInv, Deferred, InBatches, PassedOver, Incomplete, Stored
<1>4. MarkerTells'
  BY <1>1 DEF IInv, MarkerTells, AccountedFor, MarkerHonest, NothingLeftOver, Deferred, InBatches,
              Incomplete, Stored
<1> QED BY <1>2, <1>3, <1>4 DEF IInv

LEMMA IInvAlways == Spec => []IInv
<1>1. IInv /\ [Next]_vars => IInv'
  BY DiscordChangesIInv, StartIInv, RunIInv, FailIInv, StutterIInv DEF Next
<1> QED BY InitIInv, <1>1, PTL DEF Spec

-----------------------------------------------------------------------------
(* Theorems *)

\* The variables of a run keep their types: in particular only channels with
\* a row are ever crawled or marked complete.
THEOREM TypeCorrect == Spec => []TypeOK
<1>1. IInv => TypeOK
  BY DEF IInv
<1> QED BY <1>1, IInvAlways, PTL

\* Whatever marker Sync leaves, sync:last_success or sync:last_partial, it
\* tells what the run did: no channel failed or was lost in a cancelled pool,
\* what was deferred is owned up to outside of batches, and a full run that
\* deferred nothing has left no channel incomplete that it was not denied.
THEOREM MarkersTell == Spec => []MarkerTells
<1>1. IInv => MarkerTells
  BY DEF IInv
<1> QED BY <1>1, IInvAlways, PTL
=============================================================================
