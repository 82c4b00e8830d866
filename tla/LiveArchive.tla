---------------------------- MODULE LiveArchive ----------------------------
(* Live tail with the bot client: the event callbacks, the bounded queue    *)
(* and the workers of BotClient.Tail (internal/discord/botclient/           *)
(* botclient.go), the handlers the workers run (internal/syncer/tail.go),    *)
(* the rows they write (internal/store/write.go) and the repair sync that       *)
(* RunTail starts beside them, which writes the same rows.                   *)
(*                                                                           *)
(* Discord is external: messages are created, edited and deleted, and each   *)
(* change is one event.  discordgo calls every callback in a goroutine of    *)
(* its own, so the events reach the queue in any order.                      *)
(*                                                                           *)
(* A row is the version of the message it was written from, for its content, *)
(* attachments, mentions and FTS entry, which one transaction replaces, and  *)
(* whether deleted_at is set.                                                *)
EXTENDS Naturals, Sequences, FiniteSets

CONSTANTS Msgs, Workers, None,
          QueueSize,            \* tailQueueSize
          MaxVersion,           \* bound: versions of one message
          MaxEvents             \* bound: events in all

\* The content of a message that could not be fetched.
Blank == MaxVersion + 1
Absent == [ver |-> 0, deleted |-> FALSE]
Event == [kind : {"create", "update", "delete"}, msg : Msgs, ver : 1..Blank, partial : BOOLEAN]

ASSUME LiveBounds == /\ {QueueSize, MaxVersion} \subseteq Nat \ {0} /\ MaxEvents \in Nat
                     /\ None \notin Msgs \cup Event

VARIABLES
  world, events,        \* Discord: the messages as they are; events so far
  arriving,             \* events in a callback that has not run yet
  queue,                \* workCh
  task,                 \* what each worker does: [ev, todo], Idle or Gone
  errCh,                \* the channel of capacity 1 holds an error
  tail, tailErr,        \* BotClient.Tail and what it returned
  cancelled,            \* the context of RunTail
  run, page,            \* RunTail; the page a repair sync has fetched
  rows, log,     \* messages; those with a row in message_events
  lastEvent, latest,    \* sync_state: tail:last_event, the channel's latest
  disturbed,            \* history: messages that changed while an earlier change of
                        \* them, or a page with them, was still under way
  unfetched,            \* history: versions whose content could not be fetched
  lost                  \* history: an event was lost

discord == <<world, events>>
client  == <<arriving, queue, task, errCh, tail, tailErr>>
syncer  == <<cancelled, run, page>>
db      == <<rows, log, lastEvent, latest>>
ghosts  == <<disturbed, unfetched, lost>>
vars    == <<discord, client, syncer, db, ghosts>>

Idle == [ev |-> None, todo |-> <<>>]
Gone == [ev |-> None, todo |-> <<"gone">>]

Init ==
  /\ world = [m \in Msgs |-> Absent] /\ events = 0
  /\ arriving = {} /\ queue = <<>> /\ errCh = FALSE
  /\ task = [w \in Workers |-> Idle]
  /\ tail = "opening" /\ tailErr = FALSE
  /\ cancelled = FALSE /\ run = "select" /\ page = {}
  /\ rows = world /\ log = {}
  /\ lastEvent = None /\ latest = None
  /\ disturbed = {} /\ unfetched = {} /\ lost = FALSE

-----------------------------------------------------------------------------
(* Discord *)

Queued == {queue[i] : i \in 1..Len(queue)}
InHand == {task[w].ev : w \in Workers} \ {None}
Outstanding(m) == \E e \in arriving \cup Queued \cup InHand : e.msg = m

\* What changes while Tail is ending is left out: it is lost like the rest.
Happens(e, state) ==
  /\ events < MaxEvents /\ tail = "running" /\ ~lost /\ ~cancelled
  /\ events' = events + 1
  /\ world' = [world EXCEPT ![e.msg] = state]
  /\ arriving' = arriving \cup {e}
  /\ disturbed' = IF Outstanding(e.msg) \/ \E r \in page : r.msg = e.msg
                    THEN disturbed \cup {e.msg} ELSE disturbed
  /\ UNCHANGED <<queue, task, errCh, tail, tailErr, syncer, db, unfetched, lost>>

Created(m) ==
  /\ world[m].ver = 0
  /\ Happens([kind |-> "create", msg |-> m, ver |-> 1, partial |-> FALSE],
             [ver |-> 1, deleted |-> FALSE])

\* A partial update carries no content.
Edited(m) ==
  LET v == world[m].ver + 1 IN
  /\ world[m].ver \in 1..(MaxVersion - 1) /\ ~world[m].deleted
  /\ \E p \in BOOLEAN :
       Happens([kind |-> "update", msg |-> m, ver |-> v, partial |-> p],
               [ver |-> v, deleted |-> FALSE])

Deleted(m) ==
  /\ world[m].ver > 0 /\ ~world[m].deleted
  /\ Happens([kind |-> "delete", msg |-> m, ver |-> world[m].ver, partial |-> FALSE],
             [ver |-> world[m].ver, deleted |-> TRUE])

-----------------------------------------------------------------------------
(* BotClient.Tail: tailCtx, callbacks, workers *)

ParentDone == cancelled \* fault: an error of its own does not end the tail
TailDone == cancelled \/ tail \in {"closing", "returned"}

\* select { case errCh <- err: default: }
ReportNothing == UNCHANGED errCh
Report == errCh' = TRUE

Open ==
  /\ tail = "opening"
  /\ tail' = "running"
  /\ UNCHANGED <<discord, arriving, queue, task, errCh, tailErr, syncer, db, ghosts>>

\* session.Open fails: Tail returns before it has set up the wait for its workers.
OpenFails ==
  /\ tail = "opening"
  /\ tail' = "returned" /\ tailErr' = TRUE
  /\ UNCHANGED <<discord, arriving, queue, task, errCh, syncer, db, ghosts>>

HasRoom == Len(queue) < QueueSize

\* enqueueTailTask
Enqueue(e) ==
  /\ e \in arriving
  /\ arriving' = arriving \ {e}
  /\ \/ HasRoom
        /\ queue' = Append(queue, e) /\ UNCHANGED <<errCh, lost>>
     \/ TailDone /\ lost' = TRUE /\ UNCHANGED <<queue, errCh>>
     \/ ~HasRoom /\ ~TailDone
        /\ Report /\ lost' = TRUE /\ UNCHANGED queue
  /\ UNCHANGED <<discord, task, tail, tailErr, syncer, db, disturbed, unfetched>>

\* The statements of a handler, in their order.
StepsCursorFirst(kind) == \* fault: the checkpoint before the row
  CASE kind = "create" -> <<"upsert", "cursor", "event", "latest">>
    [] kind = "update" -> <<"upsert", "cursor", "event">>
    [] kind = "delete" -> <<"cursor", "mark">>
Steps(kind) ==
  CASE kind = "create" -> <<"upsert", "event", "cursor", "latest">>
    [] kind = "update" -> <<"upsert", "event", "cursor">>
    [] kind = "delete" -> <<"mark", "cursor">>

Begin(w, e) == task' = [task EXCEPT ![w] = [ev |-> e, todo |-> Steps(e.kind)]]

\* A worker that selects a task although its context has ended still runs it.
Take(w) ==
  /\ task[w] = Idle /\ queue # <<>>
  /\ queue' = Tail(queue)
  /\ LET e == Head(queue) IN
       \/ /\ ~e.partial /\ Begin(w, e) /\ UNCHANGED unfetched
       \* the whole message is fetched, as it is by now
       \/ /\ e.partial /\ ~world[e.msg].deleted
          /\ Begin(w, [e EXCEPT !.ver = world[e.msg].ver]) /\ UNCHANGED unfetched
       \* the fetch fails: the event is handled as it came
       \/ /\ e.partial /\ Begin(w, [e EXCEPT !.ver = Blank])
          /\ unfetched' = unfetched \cup {[msg |-> e.msg, ver |-> e.ver]}
  /\ UNCHANGED <<discord, arriving, errCh, tail, tailErr, syncer, db, disturbed, lost>>

WorkerLeaves(w) ==
  /\ task[w] = Idle /\ TailDone
  /\ task' = [task EXCEPT ![w] = Gone]
  /\ UNCHANGED <<discord, arriving, queue, errCh, tail, tailErr, syncer, db, ghosts>>

\* Tail's select takes the error, or sees its context end; the deferred calls
\* cancel the workers' context and close the session.
Closes ==
  /\ tail = "running"
  /\ \/ cancelled /\ UNCHANGED <<errCh, tailErr>>
     \/ errCh /\ errCh' = FALSE /\ tailErr' = TRUE
  /\ tail' = "closing"
  /\ UNCHANGED <<discord, arriving, queue, task, syncer, db, ghosts>>

\* wg.Wait
TailReturns ==
  /\ tail = "closing" /\ \A w \in Workers : task[w] = Gone
  /\ tail' = "returned"
  /\ UNCHANGED <<discord, arriving, queue, task, errCh, tailErr, syncer, db, ghosts>>

-----------------------------------------------------------------------------
(* tailHandler and the store: one action per statement *)

\* upsertMessageTx: deleted_at = coalesce(excluded.deleted_at, messages.deleted_at)
\* InsertOnly, a fault: insert ... on conflict do nothing
InsertOnly(m, v) == rows' = IF rows[m].ver = 0 THEN [rows EXCEPT ![m].ver = v] ELSE rows
UpsertMessage(m, v) == rows' = [rows EXCEPT ![m].ver = v]

\* An update of no row when the message is not there.
MarkMessageDeleted(m) ==
  rows' = IF rows[m].ver = 0 THEN rows ELSE [rows EXCEPT ![m].deleted = TRUE]

Doing(w, step) == task[w] \notin {Idle, Gone} /\ Head(task[w].todo) = step
StepDone(w) ==
  task' = [task EXCEPT ![w] = IF Len(@.todo) = 1 THEN Idle ELSE [ev |-> @.ev, todo |-> Tail(@.todo)]]

Upsert(w) ==
  /\ Doing(w, "upsert")
  /\ UpsertMessage(task[w].ev.msg, task[w].ev.ver)
  /\ StepDone(w)
  /\ UNCHANGED <<discord, arriving, queue, errCh, tail, tailErr, syncer, log, lastEvent, latest, ghosts>>

Logged(e) == log' = log \cup {e.msg}

AppendEvent(w) ==
  /\ Doing(w, "event")
  /\ Logged(task[w].ev)
  /\ StepDone(w)
  /\ UNCHANGED <<discord, arriving, queue, errCh, tail, tailErr, syncer, rows, lastEvent, latest, ghosts>>

Mark(w) ==
  /\ Doing(w, "mark")
  /\ MarkMessageDeleted(task[w].ev.msg) /\ Logged(task[w].ev)
  /\ StepDone(w)
  /\ UNCHANGED <<discord, arriving, queue, errCh, tail, tailErr, syncer, lastEvent, latest, ghosts>>

SetLastEvent(w) ==
  /\ Doing(w, "cursor")
  /\ lastEvent' = task[w].ev.msg
  /\ StepDone(w)
  /\ UNCHANGED <<discord, arriving, queue, errCh, tail, tailErr, syncer, rows, log, latest, ghosts>>

SetLatest(w) ==
  /\ Doing(w, "latest")
  /\ latest' = task[w].ev.msg
  /\ StepDone(w)
  /\ UNCHANGED <<discord, arriving, queue, errCh, tail, tailErr, syncer, rows, log, lastEvent, ghosts>>

\* A statement fails, the 30 s of the handler are over, or it panics.
HandlerFails(w) ==
  /\ task[w] \notin {Idle, Gone}
  /\ task' = [task EXCEPT ![w] = Idle]
  /\ Report /\ lost' = TRUE
  /\ UNCHANGED <<discord, arriving, queue, tail, tailErr, syncer, db, disturbed, unfetched>>

-----------------------------------------------------------------------------
(* RunTail *)

\* The ticker: Sync runs in this goroutine and fetches messages as they are now.
StartRepair ==
  /\ run = "select" /\ ~cancelled
  /\ \E m \in Msgs :
       /\ world[m].ver > 0 /\ ~world[m].deleted
       /\ page' = {[msg |-> m, ver |-> world[m].ver]}
  /\ run' = "repair"
  /\ UNCHANGED <<discord, client, cancelled, db, ghosts>>

\* The page is written in one transaction, or the sync fails; RunTail goes on.
EndRepair ==
  /\ run = "repair"
  /\ \/ rows' = [m \in Msgs |-> IF \E r \in page : r.msg = m
                                  THEN [rows[m] EXCEPT !.ver = (CHOOSE r \in page : r.msg = m).ver]
                                  ELSE rows[m]]
     \/ UNCHANGED rows
  /\ run' = "select" /\ page' = {}
  /\ UNCHANGED <<discord, client, cancelled, log, lastEvent, latest, ghosts>>

RunReturns ==
  /\ run = "select" /\ (cancelled \/ tail = "returned")
  /\ run' = "returned"
  /\ UNCHANGED <<discord, client, cancelled, page, db, ghosts>>

Cancel ==
  /\ ~cancelled
  /\ cancelled' = TRUE
  /\ UNCHANGED <<discord, client, run, page, db, ghosts>>

-----------------------------------------------------------------------------
Statement(w) == Upsert(w) \/ AppendEvent(w) \/ Mark(w) \/ SetLastEvent(w) \/ SetLatest(w)
Working(w) == Take(w) \/ Statement(w) \/ HandlerFails(w)

Change == \E m \in Msgs : Created(m) \/ Edited(m) \/ Deleted(m)
TailProcess == Open \/ OpenFails \/ Closes \/ TailReturns

Next == \/ Change \/ TailProcess
        \/ \E e \in arriving : Enqueue(e)
        \/ \E w \in Workers : Working(w) \/ WorkerLeaves(w)
        \/ StartRepair \/ EndRepair \/ RunReturns \/ Cancel

\* Go runs what can run, and picks at random when several cases of a select are
\* ready: a case that is ready again and again is taken.
Fairness ==
  /\ WF_vars(TailProcess) /\ SF_vars(RunReturns) /\ WF_vars(EndRepair)
  /\ \A w \in Workers : WF_vars(Working(w)) /\ SF_vars(WorkerLeaves(w))

Spec == Init /\ [][Next]_vars /\ Fairness

-----------------------------------------------------------------------------
Row == [ver : 0..Blank, deleted : BOOLEAN]

TypeOK ==
  /\ world \in [Msgs -> Row] /\ events \in 0..MaxEvents
  /\ arriving \subseteq Event /\ queue \in Seq(Event) /\ Len(queue) <= QueueSize
  /\ \A w \in Workers : task[w] \in {Idle, Gone} \/ (task[w].ev \in Event /\ task[w].todo # <<>>)
  /\ errCh \in BOOLEAN /\ tail \in {"opening", "running", "closing", "returned"} /\ tailErr \in BOOLEAN
  /\ cancelled \in BOOLEAN /\ run \in {"select", "repair", "returned"}
  /\ page \subseteq [msg : Msgs, ver : 1..MaxVersion]
  /\ rows \in [Msgs -> Row]
  /\ log \subseteq Msgs
  /\ {lastEvent, latest} \subseteq Msgs \cup {None}
  /\ disturbed \subseteq Msgs /\ unfetched \subseteq [msg : Msgs, ver : 1..Blank] /\ lost \in BOOLEAN

\* No event is lost in silence: either an error waits for Tail, or Tail is
\* ending.
LossIsReported ==
  lost => errCh \/ TailDone \/ tailErr

\* A row's content is the message's, or blank where the fetch of just this
\* version failed: a partial update is then written as it came (botclient.go).
Faithful(m, v) == \/ v = world[m].ver
                  \/ v = Blank /\ [msg |-> m, ver |-> world[m].ver] \in unfetched

\* Once all that is known about a message has been written, its row is the
\* message, deleted or not, with four exceptions.  After a lost event nothing is
\* promised (LossIsReported).  If two changes of the message were under way
\* together, or a page that a repair had fetched before the change was written
\* after it, the order in which the writers finished decides, and a delete can be
\* lost to the create.  And the last edit may leave the row's content blank, with
\* nothing overlapping and no error reported, if it came as a partial update and
\* the whole message could not be fetched.
AgreesWhenQuiet ==
  ~lost => \A m \in Msgs \ disturbed :
             ~Outstanding(m) /\ ~(\E r \in page : r.msg = m) =>
               rows[m].deleted = world[m].deleted /\ Faithful(m, rows[m].ver)

\* tail:last_event names a message whose event the archive has, and the channel's
\* latest one whose row it has: the cursors are written last.
CursorsBehindRows ==
  /\ lastEvent # None => lastEvent \in log
  /\ latest # None => latest \in log /\ rows[latest].ver > 0

\* ... whichever of its two writers wrote which of them last.
CursorsHold == TypeOK /\ CursorsBehindRows

\* An error or a cancelled context ends RunTail, once a repair under way is over,
\* and no worker is left behind.
TailEnds == (errCh \/ cancelled) ~> (run = "returned" /\ \A w \in Workers : task[w] = Gone)
=============================================================================
