------------------------------ MODULE TailCrawl ------------------------------
(***************************************************************************)
(* Live tail beside the crawl of one channel: the handlers of              *)
(* internal/syncer/tail.go write the rows of ChannelSync and its           *)
(* checkpoint latest_message_id, beside the repair syncs that RunTail      *)
(* starts and beside any other sync of the archive.                        *)
(*                                                                         *)
(* How an event gets from Discord to a handler is Gateway and LiveArchive; *)
(* here it is on its way until a handler has it or it is lost.  A break    *)
(* that is resumed is no absence.  Of the four statements of a creation    *)
(* two are not the crawl's, and a deletion only marks a row there is.      *)
(***************************************************************************)
EXTENDS ChannelSync

VARIABLES
  listening,      \* the tail is connected
  coming,         \* messages whose creation is on its way
  written,        \* messages whose creation has written the row
  skipped         \* history: messages the tail went past and has no event of

tailVars == <<listening, coming, written, skipped>>
allVars  == <<vars, tailVars>>

TailTypeOK ==
  /\ TypeOK
  /\ listening \in BOOLEAN
  /\ coming \subseteq Ids /\ written \subseteq Ids /\ skipped \subseteq Ids

TailInit == Init /\ listening = FALSE /\ coming = {} /\ written = {} /\ skipped = {}

----------------------------------------------------------------------------
(* The archive as the tail finds it.                                       *)

UnderRow(m) == \E s \in stored : m =< s

\* Between rows of the archive, or below them where history counts as complete.
Inside(m) == ClaimedBelow(m) /\ UnderRow(m)

\* What there is no row of, nor will be for all the tail knows.
Missing == (1..posted) \ (stored \cup coming)

\* A crawl from nothing has not written its first page: rows it finds on its
\* way were not there when it began, as with a second bootstrap.
FromNothing ==
  before = 0 /\ pc \in {"backfill", "backfillPersist", "backfillComplete", "bootstrap", "bootstrapPersist"}

\* UpsertMessages, of one message.
UpsertRow(m) ==
  /\ stored' = stored \cup {m}
  /\ rebootstrapped' = (rebootstrapped \/ FromNothing)
  /\ UNCHANGED <<remoteVars, latest, cursor, complete, pc, request, locals, aborts, listening>>

----------------------------------------------------------------------------
(* Discord and the connection.                                             *)

\* A message of the channel is an event of a connected tail.
MessageCreate ==
  /\ Post
  /\ coming' = IF listening THEN coming \cup {posted'} ELSE coming
  /\ UNCHANGED <<listening, written, skipped>>

Connect ==
  /\ ~listening /\ listening' = TRUE
  /\ UNCHANGED <<vars, coming, written, skipped>>

\* The tail ends, its process dies, or a session is lost: what is on its way
\* is lost too, and a handler may be left between its statements.
Disconnect ==
  /\ listening /\ listening' = FALSE
  /\ coming' = {} /\ written' = {}
  /\ skipped' = skipped \cup {m \in coming : Inside(m)}
  /\ UNCHANGED vars

----------------------------------------------------------------------------
(* The handlers.                                                           *)

\* OnMessageCreate: UpsertMessages ...
UpsertCreated(m) ==
  /\ m \in coming /\ coming' = coming \ {m}
  /\ written' = written \cup {m}
  /\ UpsertRow(m)
  /\ skipped' = skipped \cup {n \in Missing : n < m /\ ClaimedBelow(n)}

SaveCreatedOf(m, from) ==
  /\ m \in from /\ written' = written \ {m}
  /\ SaveLatest(m)
  /\ UNCHANGED <<remoteVars, pc, request, locals, ghostVars, listening, coming, skipped>>

\* ... and SetSyncState of the channel's latest, whatever it was.
SaveBeforeRow(m) == SaveCreatedOf(m, coming) \* fault: the checkpoint first
SaveCreated(m)   == SaveCreatedOf(m, written)

\* OnMessageUpdate writes the row of a message that had none, too.
UpsertUpdated(m) ==
  /\ listening /\ m \in 1..posted /\ m \notin stored
  /\ UpsertRow(m)
  /\ skipped' = skipped \cup
       {n \in Missing \ {m} : IF n < m THEN ClaimedBelow(n) ELSE cursor = 0 /\ UnderRow(n)}
  /\ UNCHANGED <<coming, written>>

\* A handler of the user client fails, at its first statement or a later one:
\* the number of the event was taken, and the tail goes on without it.
HandlerFails ==
  /\ \/ /\ coming # {} /\ coming' = coming \ {Oldest(coming)}
        /\ skipped' = skipped \cup {m \in {Oldest(coming)} : Inside(m)}
        /\ UNCHANGED written
     \/ /\ \E m \in written : written' = written \ {m}
        /\ UNCHANGED <<coming, skipped>>
  /\ UNCHANGED <<vars, listening>>

----------------------------------------------------------------------------

\* The crawl reads the checkpoints once, when a run begins.
Crawl ==
  /\ \/ Delete \/ ListChannels \/ SyncFull \/ SyncIncremental
     \/ Step \/ Abort \/ DeadlineExpires
  /\ UNCHANGED tailVars

TailNext ==
  \/ MessageCreate \/ Connect \/ Disconnect
  \/ \E m \in Ids : UpsertCreated(m) \/ SaveCreated(m) \/ UpsertUpdated(m)
  \/ HandlerFails
  \/ Crawl

TailSpec == TailInit /\ [][TailNext]_allVars

----------------------------------------------------------------------------
(* Properties.                                                             *)

\* Tail and crawl, each with checkpoints it read before the other wrote, leave
\* no hole in the stretch the checkpoints claim but what the tail went past:
\* a message posted while it was away, or whose event was lost.
HolesAreSkipped ==
  ~rebootstrapped =>
    \A m \in remote : ClaimedAbove(m) /\ ClaimedBelow(m) => m \in stored \cup coming \cup skipped

=============================================================================
