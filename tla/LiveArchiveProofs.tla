------------------------- MODULE LiveArchiveProofs -------------------------
(***************************************************************************)
(* Live tail for any number of messages, versions, events and workers, and *)
(* a queue of any size: the cursors name what is archived, no event is     *)
(* lost in silence, and once quiet a row is the message it stands for, or  *)
(* blank where its content could not be fetched.                           *)
(*                                                                         *)
(* What a worker may rely on half-way through a handler, and what an event *)
(* that is still under way says about its message, make them inductive.    *)
(***************************************************************************)
EXTENDS LiveArchive, SequenceTheorems, TLAPS

Busy(w) == task[w] \notin {Idle, Gone}

\* What may be left of a handler.
Todos(kind) ==
  CASE kind = "create" -> {<<"upsert", "event", "cursor", "latest">>,
                           <<"event", "cursor", "latest">>, <<"cursor", "latest">>, <<"latest">>}
    [] kind = "update" -> {<<"upsert", "event", "cursor">>, <<"event", "cursor">>, <<"cursor">>}
    [] kind = "delete" -> {<<"mark", "cursor">>, <<"cursor">>}

Kinds == {"create", "update", "delete"}
Task == [ev : Event, todo : UNION {Todos(k) : k \in Kinds}]

TaskInv ==
  /\ task \in [Workers -> {Idle, Gone} \cup Task]
  /\ \A w \in Workers : Busy(w) => task[w].todo \in Todos(task[w].ev.kind)

\* A worker that is about to write a cursor has written what it names.
WorkerInv == \A w \in Workers :
  LET step == Head(task[w].todo)
      m    == task[w].ev.msg
  IN Busy(w) =>
       /\ step \in {"event", "latest"} => rows[m].ver > 0
       /\ step = "cursor" /\ task[w].ev.kind # "delete" => rows[m].ver > 0
       /\ step \in {"cursor", "latest"} => m \in log

\* Events whose row is still to be written.
Unwritten(m) ==
  \/ \E e \in arriving \cup Queued : e.msg = m
  \/ \E w \in Workers : Busy(w) /\ task[w].ev.msg = m /\ Head(task[w].todo) \in {"upsert", "mark"}

\* What is under way for a message is its last change, and what a repair holds
\* is its present version; the rest has been written.  A fetch that failed shows
\* only in what a worker has in hand and in the row.
Agreement(m) ==
  /\ rows[m].deleted => world[m].deleted
  /\ \A r \in page : r.msg = m => r.ver = world[m].ver /\ ~world[m].deleted
  /\ \A e \in arriving \cup Queued : e.msg = m => e.ver = world[m].ver
  /\ \A e \in arriving \cup Queued \cup InHand : e.msg = m =>
       /\ Faithful(m, e.ver)
       /\ e.kind = "delete" <=> world[m].deleted
       /\ e.kind = "delete" => Faithful(m, rows[m].ver)
  /\ ~Unwritten(m) => Faithful(m, rows[m].ver) /\ (world[m].deleted => rows[m].deleted)
AgreementInv == ~lost => \A m \in Msgs \ disturbed : Agreement(m)

\* Only what was posted is deleted, or has an event.
WorldInv ==
  /\ \A m \in Msgs : world[m].ver \in 0..MaxVersion /\ (world[m].deleted => world[m].ver > 0)
  /\ \A e \in arriving \cup Queued : world[e.msg].ver > 0

IInv == TypeOK /\ WorldInv /\ TaskInv /\ CursorsBehindRows /\ WorkerInv /\ LossIsReported /\ AgreementInv

----------------------------------------------------------------------------
(* Handlers and the queue.                                                 *)

LEMMA TodoFacts ==
  ASSUME NEW kind \in Kinds, NEW t \in Todos(kind)
  PROVE  /\ t # <<>> /\ t # <<"gone">>
         /\ Len(t) # 1 => Tail(t) \in Todos(kind)
         /\ \/ Head(t) = "upsert" /\ kind # "delete" /\ Len(t) # 1 /\ Head(Tail(t)) = "event"
            \/ Head(t) = "event" /\ kind # "delete" /\ Len(t) # 1 /\ Head(Tail(t)) = "cursor"
            \/ Head(t) = "mark" /\ kind = "delete" /\ Len(t) # 1 /\ Head(Tail(t)) = "cursor"
            \/ Head(t) = "cursor" /\ (Len(t) # 1 => kind # "delete" /\ Head(Tail(t)) = "latest")
            \/ Head(t) = "latest" /\ kind # "delete" /\ Len(t) = 1
<1>1. CASE t = <<"upsert", "event", "cursor", "latest">>
  <2>1. kind = "create" /\ Head(t) = "upsert" /\ Tail(t) = <<"event", "cursor", "latest">>
    BY <1>1 DEF Todos, Kinds
  <2> QED BY <1>1, <2>1 DEF Todos
<1>2. CASE t = <<"event", "cursor", "latest">>
  <2>1. kind = "create" /\ Head(t) = "event" /\ Tail(t) = <<"cursor", "latest">>
    BY <1>2 DEF Todos, Kinds
  <2> QED BY <1>2, <2>1 DEF Todos
<1>3. CASE t = <<"cursor", "latest">>
  <2>1. kind = "create" /\ Head(t) = "cursor" /\ Tail(t) = <<"latest">>
    BY <1>3 DEF Todos, Kinds
  <2> QED BY <1>3, <2>1 DEF Todos
<1>4. CASE t = <<"upsert", "event", "cursor">>
  <2>1. kind = "update" /\ Head(t) = "upsert" /\ Tail(t) = <<"event", "cursor">>
    BY <1>4 DEF Todos, Kinds
  <2> QED BY <1>4, <2>1 DEF Todos
<1>5. CASE t = <<"event", "cursor">>
  <2>1. kind = "update" /\ Head(t) = "event" /\ Tail(t) = <<"cursor">>
    BY <1>5 DEF Todos, Kinds
  <2> QED BY <1>5, <2>1 DEF Todos
<1>6. CASE t = <<"mark", "cursor">>
  <2>1. kind = "delete" /\ Head(t) = "mark" /\ Tail(t) = <<"cursor">>
    BY <1>6 DEF Todos, Kinds
  <2> QED BY <1>6, <2>1 DEF Todos
<1>7. CASE t = <<"latest">>
  BY <1>7 DEF Todos, Kinds
<1>8. CASE t = <<"cursor">>
  BY <1>8
<1>9. \/ t = <<"upsert", "event", "cursor", "latest">> \/ t = <<"event", "cursor", "latest">>
      \/ t = <<"cursor", "latest">> \/ t = <<"upsert", "event", "cursor">>
      \/ t = <<"event", "cursor">> \/ t = <<"mark", "cursor">> \/ t = <<"latest">> \/ t = <<"cursor">>
  BY DEF Todos, Kinds
<1> QED BY <1>1, <1>2, <1>3, <1>4, <1>5, <1>6, <1>7, <1>8, <1>9

LEMMA StepsFacts ==
  ASSUME NEW kind \in Kinds
  PROVE  /\ Steps(kind) \in Todos(kind)
         /\ Head(Steps(kind)) = IF kind = "delete" THEN "mark" ELSE "upsert"
<1>1. CASE kind = "create"
  BY <1>1 DEF Todos, Steps
<1>2. CASE kind = "update"
  BY <1>2 DEF Todos, Steps
<1>3. CASE kind = "delete"
  BY <1>3 DEF Todos, Steps
<1> QED BY <1>1, <1>2, <1>3 DEF Kinds

LEMMA QueueAppended ==
  ASSUME queue \in Seq(Event), NEW e \in Event, queue' = Append(queue, e)
  PROVE  queue' \in Seq(Event) /\ Len(queue') = Len(queue) + 1 /\ Queued' = Queued \cup {e}
<1>1. /\ queue' \in Seq(Event) /\ Len(queue') = Len(queue) + 1 /\ Len(queue) \in Nat
      /\ \A i \in 1..Len(queue) : queue'[i] = queue[i]
      /\ queue'[Len(queue) + 1] = e
  OBVIOUS
<1>2. Queued' \subseteq Queued \cup {e}
  <2> SUFFICES ASSUME NEW i \in 1..Len(queue') PROVE queue'[i] \in Queued \cup {e}
    BY DEF Queued
  <2> QED BY <1>1 DEF Queued
<1>3. Queued \subseteq Queued'
  <2> SUFFICES ASSUME NEW i \in 1..Len(queue) PROVE queue[i] \in Queued'
    BY DEF Queued
  <2>1. i \in 1..Len(queue') /\ queue'[i] = queue[i]
    BY <1>1
  <2> QED BY <2>1 DEF Queued
<1>4. e \in Queued'
  <2>1. Len(queue) + 1 \in 1..Len(queue')
    BY <1>1
  <2> QED BY <1>1, <2>1 DEF Queued
<1> QED BY <1>1, <1>2, <1>3, <1>4

LEMMA QueueTaken ==
  ASSUME queue \in Seq(Event), queue # <<>>, queue' = Tail(queue)
  PROVE  /\ queue' \in Seq(Event) /\ Len(queue') = Len(queue) - 1
         /\ Head(queue) \in Event /\ Head(queue) \in Queued
         /\ Queued = Queued' \cup {Head(queue)}
<1>1. /\ queue' \in Seq(Event) /\ Len(queue') = Len(queue) - 1 /\ Len(queue) \in Nat \ {0}
      /\ Head(queue) = queue[1] /\ Head(queue) \in Event
      /\ \A i \in 1..Len(queue') : queue'[i] = queue[i + 1]
  OBVIOUS
<1>2. Head(queue) \in Queued
  BY <1>1 DEF Queued
<1>3. Queued' \subseteq Queued
  <2> SUFFICES ASSUME NEW i \in 1..Len(queue') PROVE queue'[i] \in Queued
    BY DEF Queued
  <2>1. i + 1 \in 1..Len(queue) /\ queue'[i] = queue[i + 1]
    BY <1>1
  <2> QED BY <2>1 DEF Queued
<1>4. Queued \subseteq Queued' \cup {Head(queue)}
  <2> SUFFICES ASSUME NEW i \in 1..Len(queue), i # 1 PROVE queue[i] \in Queued'
    BY <1>1 DEF Queued
  <2>1. i - 1 \in 1..Len(queue') /\ queue'[i - 1] = queue[i]
    BY <1>1
  <2> QED BY <2>1 DEF Queued
<1> QED BY <1>1, <1>2, <1>3, <1>4

LEMMA QueuedEvents ==
  ASSUME queue \in Seq(Event)
  PROVE  Queued \subseteq Event
BY DEF Queued

\* What a worker has in hand is an event, and one with none has none.
LEMMA InHandFacts ==
  ASSUME TaskInv
  PROVE  /\ InHand \subseteq Event
         /\ \A w \in Workers : Busy(w) => /\ task[w] \in Task /\ task[w].ev \in InHand
                                         /\ task[w].ev.kind \in Kinds /\ task[w].ev.msg \in Msgs
         /\ \A e \in InHand : \E w \in Workers : Busy(w) /\ task[w].ev = e
<1>1. ASSUME NEW w \in Workers
      PROVE  /\ Busy(w) => task[w] \in Task /\ task[w].ev \in Event
             /\ ~Busy(w) => task[w].ev = None
  BY DEF TaskInv, Busy, Idle, Gone, Task
<1>2. None \notin Event
  BY LiveBounds
<1>3. \A e \in Event : e.kind \in Kinds /\ e.msg \in Msgs
  BY DEF Event, Kinds
<1> QED BY <1>1, <1>2, <1>3 DEF InHand

----------------------------------------------------------------------------
(* Steps that leave the handlers and the archive alone.                    *)

LEMMA InitIInv == Init => IInv
<1> SUFFICES ASSUME Init PROVE IInv
  OBVIOUS
<1> USE DEF Init
<1>1. InHand = {} /\ Queued = {} /\ \A w \in Workers : ~Busy(w)
  BY DEF InHand, Queued, Idle, Busy
<1>2. world \in [Msgs -> Row] /\ rows = world /\ \A m \in Msgs : world[m] = Absent
  BY LiveBounds DEF Row, Absent, Blank
<1>3. TypeOK
  <2>1. queue \in Seq(Event) /\ Len(queue) = 0 /\ QueueSize >= 0 /\ events \in 0..MaxEvents
    BY LiveBounds
  <2>2. \A w \in Workers : task[w] \in {Idle, Gone}
    OBVIOUS
  <2> QED BY <1>2, <2>1, <2>2 DEF TypeOK
<1>4. WorldInv /\ TaskInv /\ WorkerInv /\ CursorsBehindRows /\ LossIsReported
  BY <1>1, <1>2, LiveBounds DEF Absent, WorldInv, TaskInv, WorkerInv, CursorsBehindRows, LossIsReported
<1>5. AgreementInv
  BY <1>1, <1>2 DEF AgreementInv, Agreement, Faithful, Absent
<1> QED BY <1>3, <1>4, <1>5 DEF IInv

\* Cancelling, and what Tail and RunTail do by themselves.
LEMMA ControlStep ==
  ASSUME IInv, TailProcess \/ RunReturns \/ Cancel
  PROVE  IInv'
<1>1. UNCHANGED <<world, events, arriving, queue, task, page, db, ghosts>>
  BY DEF TailProcess, Open, OpenFails, Closes, TailReturns, RunReturns, Cancel,
         discord, client, syncer, ghosts
<1>2. TypeOK'
  BY <1>1 DEF IInv, TypeOK, TailProcess, Open, OpenFails, Closes, TailReturns, RunReturns, Cancel,
              discord, client, syncer, db, ghosts
<1>3. LossIsReported'
  BY <1>1 DEF IInv, TypeOK, LossIsReported, TailDone, TailProcess, Open, OpenFails, Closes, TailReturns,
              RunReturns, Cancel, discord, client, syncer, db, ghosts
<1>4. (WorldInv /\ TaskInv /\ WorkerInv /\ CursorsBehindRows /\ AgreementInv)'
  BY <1>1 DEF IInv, WorldInv, TaskInv, WorkerInv, CursorsBehindRows, AgreementInv, Agreement, Faithful, Unwritten, Busy,
              InHand, Queued, db, ghosts
<1> QED BY <1>2, <1>3, <1>4 DEF IInv

\* Discord changes a message: its event is the only one under way, or the
\* message counts as disturbed.
LEMMA HappensStep ==
  ASSUME IInv, NEW e \in Event, NEW state \in Row, Happens(e, state),
         e.ver = state.ver, state.ver \in 1..MaxVersion,
         e.kind = "delete" <=> state.deleted,
         ~world[e.msg].deleted,
         e.kind = "delete" => state.ver = world[e.msg].ver
  PROVE  IInv'
<1> USE DEF IInv
<1>1. /\ world' = [world EXCEPT ![e.msg] = state] /\ arriving' = arriving \cup {e}
      /\ UNCHANGED <<queue, task, errCh, tail, tailErr, cancelled, run, page, rows, log,
                     lastEvent, latest, unfetched, lost>>
      /\ events < MaxEvents /\ events' = events + 1
      /\ e.msg \in Msgs /\ world \in [Msgs -> Row]
  BY DEF Happens, syncer, db, Event, TypeOK
<1>2. /\ disturbed' = disturbed \/ disturbed' = disturbed \cup {e.msg}
      /\ e.msg \notin disturbed' => ~Outstanding(e.msg) /\ ~\E r \in page : r.msg = e.msg
  BY DEF Happens
<1>3. TypeOK'
  <2>1. events' \in 0..MaxEvents
    BY <1>1, LiveBounds DEF TypeOK
  <2>2. world' \in [Msgs -> Row] /\ arriving' \subseteq Event /\ disturbed' \subseteq Msgs
    BY <1>1, <1>2 DEF TypeOK
  <2> QED BY <1>1, <2>1, <2>2 DEF TypeOK
<1>4. (TaskInv /\ WorkerInv /\ CursorsBehindRows)'
  BY <1>1 DEF TaskInv, WorkerInv, CursorsBehindRows, Busy
<1>8. WorldInv'
  BY <1>1 DEF WorldInv, Event, Queued, TypeOK
<1>5. LossIsReported'
  BY <1>1 DEF LossIsReported, TailDone
<1>6. Queued' = Queued /\ InHand' = InHand
  BY <1>1 DEF Queued, InHand
<1>7. ASSUME ~lost', NEW m \in Msgs \ disturbed' PROVE Agreement(m)'
  <2>1. m \notin disturbed /\ ~lost
    BY <1>1, <1>2, <1>7
  <2>2. Agreement(m)
    BY <2>1 DEF AgreementInv
  <2>3. CASE m = e.msg
    <3>1. ~Outstanding(m) /\ ~\E r \in page : r.msg = m
      BY <1>2, <1>7, <2>3
    <3>2. world'[m] = state
      BY <1>1, <2>3
    <3>3. \A d \in arriving' \cup Queued' \cup InHand' : d.msg = m => d = e
      BY <1>1, <1>6, <3>1 DEF Outstanding
    <3>4. ~Unwritten(m)
      BY <3>1, InHandFacts DEF Outstanding, Unwritten
    <3>5. Faithful(m, rows[m].ver) /\ ~rows[m].deleted
      BY <1>1, <2>2, <2>3, <3>4 DEF Agreement
    <3>6. Unwritten(m)'
      BY <1>1, <2>3 DEF Unwritten
    <3>7. e.kind = "delete" => Faithful(m, rows[m].ver)'
      BY <1>1, <2>3, <3>2, <3>5 DEF Faithful
    <3>8. Faithful(m, e.ver)'
      BY <3>2 DEF Faithful
    <3> QED BY <1>1, <3>1, <3>2, <3>3, <3>5, <3>6, <3>7, <3>8, <2>3 DEF Agreement
  <2>4. CASE m # e.msg
    <3>1. world'[m] = world[m]
      BY <1>1, <2>4
    <3>2. Unwritten(m) => Unwritten(m)'
      BY <1>1, <1>6 DEF Unwritten, Busy
    <3> QED BY <1>1, <1>6, <2>2, <2>4, <3>1, <3>2 DEF Agreement, Faithful
  <2> QED BY <2>3, <2>4
<1> QED BY <1>3, <1>4, <1>5, <1>7, <1>8 DEF AgreementInv

LEMMA ChangeStep ==
  ASSUME IInv, Change
  PROVE  IInv'
<1>1. PICK m \in Msgs : Created(m) \/ Edited(m) \/ Deleted(m)
  BY DEF Change
<1>2. world[m] \in Row /\ world[m].ver \in 0..MaxVersion /\ MaxVersion \in Nat \ {0}
  BY LiveBounds DEF IInv, TypeOK, WorldInv
<1>3. CASE Created(m)
  <2> DEFINE e == [kind |-> "create", msg |-> m, ver |-> 1, partial |-> FALSE]
             s == [ver |-> 1, deleted |-> FALSE]
  <2>1. e \in Event /\ s \in Row
    BY <1>2 DEF Event, Row, Blank
  <2>2. Happens(e, s) /\ world[m].ver = 0
    BY <1>3 DEF Created
  <2>3. ~world[m].deleted /\ s.ver \in 1..MaxVersion
    BY <1>2, <2>2 DEF IInv, WorldInv
  <2> QED BY <2>1, <2>2, <2>3, HappensStep
<1>4. CASE Edited(m)
  <2>1. PICK p \in BOOLEAN :
          Happens([kind |-> "update", msg |-> m, ver |-> world[m].ver + 1, partial |-> p],
                  [ver |-> world[m].ver + 1, deleted |-> FALSE])
    BY <1>4 DEF Edited
  <2> DEFINE e == [kind |-> "update", msg |-> m, ver |-> world[m].ver + 1, partial |-> p]
             s == [ver |-> world[m].ver + 1, deleted |-> FALSE]
  <2>2. e \in Event /\ s \in Row /\ ~world[m].deleted /\ s.ver \in 1..MaxVersion
    BY <1>2, <1>4 DEF Edited, Event, Row, Blank
  <2> QED BY <2>1, <2>2, HappensStep
<1>5. CASE Deleted(m)
  <2> DEFINE e == [kind |-> "delete", msg |-> m, ver |-> world[m].ver, partial |-> FALSE]
             s == [ver |-> world[m].ver, deleted |-> TRUE]
  <2>0. world[m].ver \in 1..Blank /\ world[m].ver \in 1..MaxVersion /\ world[m].ver > 0 /\ ~world[m].deleted
    BY <1>2, <1>5 DEF Deleted, Row, Blank
  <2>1. e \in Event /\ s \in Row /\ s.ver = world[m].ver /\ s.deleted
    <3>1. e \in Event
      BY <2>0 DEF Event
    <3> QED BY <2>0, <3>1 DEF Row
  <2>2. Happens(e, s)
    BY <1>5 DEF Deleted
  <2> QED BY <2>0, <2>1, <2>2, HappensStep
<1> QED BY <1>1, <1>3, <1>4, <1>5

----------------------------------------------------------------------------
(* The queue and the workers.                                              *)

LEMMA EnqueueStep ==
  ASSUME IInv, NEW e \in arriving, Enqueue(e)
  PROVE  IInv'
<1> USE DEF IInv
<1>1. /\ e \in Event /\ arriving' = arriving \ {e} /\ lost' \in BOOLEAN /\ errCh' \in BOOLEAN
      /\ UNCHANGED <<world, events, task, tail, tailErr, cancelled, run, page, rows, log,
                     lastEvent, latest, disturbed, unfetched>>
  BY DEF Enqueue, TypeOK, Report, discord, syncer, db
<1>2. /\ queue' \in Seq(Event) /\ Len(queue') =< QueueSize
      /\ ~lost' => ~lost /\ Queued' = Queued \cup {e}
      /\ Queued \subseteq Queued' /\ Queued' \subseteq Queued \cup {e}
  <2>1. CASE HasRoom /\ queue' = Append(queue, e) /\ UNCHANGED <<errCh, lost>>
    <3>1. queue' \in Seq(Event) /\ Len(queue') = Len(queue) + 1 /\ Queued' = Queued \cup {e}
      BY <1>1, <2>1, QueueAppended DEF TypeOK
    <3> QED BY <2>1, <3>1, LiveBounds DEF HasRoom, TypeOK
  <2>2. CASE lost' = TRUE /\ UNCHANGED queue
    BY <2>2 DEF TypeOK, Queued
  <2> QED BY <2>1, <2>2 DEF Enqueue
<1>3. TypeOK'
  BY <1>1, <1>2 DEF TypeOK
<1>4. (WorldInv /\ TaskInv /\ WorkerInv /\ CursorsBehindRows)'
  BY <1>1, <1>2 DEF WorldInv, TaskInv, WorkerInv, CursorsBehindRows, Busy
<1>5. LossIsReported'
  <2>1. TailDone' = TailDone
    BY <1>1 DEF TailDone
  <2>2. \/ UNCHANGED <<errCh, lost>>
        \/ TailDone /\ lost' = TRUE
        \/ errCh' = TRUE
    BY DEF Enqueue, Report
  <2> QED BY <1>1, <2>1, <2>2 DEF LossIsReported
<1>6. ASSUME ~lost', NEW m \in Msgs \ disturbed' PROVE Agreement(m)'
  <2>1. Agreement(m) /\ ~lost
    BY <1>1, <1>2, <1>6 DEF AgreementInv
  <2>2. /\ InHand' = InHand /\ arriving' \cup Queued' \subseteq arriving \cup Queued
        /\ arriving \cup Queued \subseteq arriving' \cup Queued'
    BY <1>1, <1>2, <1>6 DEF InHand
  <2>3. Unwritten(m) => Unwritten(m)'
    BY <1>1, <2>2 DEF Unwritten, Busy
  <2> QED BY <1>1, <2>1, <2>2, <2>3 DEF Agreement, Faithful
<1> QED BY <1>3, <1>4, <1>5, <1>6 DEF AgreementInv

\* The event that is taken is at the beginning of its handler.
LEMMA TakeStep ==
  ASSUME IInv, NEW w \in Workers, Take(w)
  PROVE  IInv'
<1> USE DEF IInv
<1> DEFINE q == Head(queue)
<1>1. /\ task[w] = Idle /\ queue # <<>> /\ queue' = Tail(queue)
      /\ UNCHANGED <<world, events, arriving, errCh, tail, tailErr, cancelled, run, page, rows, log,
                     lastEvent, latest, disturbed, lost>>
  BY DEF Take, discord, syncer, db
<1>2. /\ queue' \in Seq(Event) /\ Len(queue') = Len(queue) - 1
      /\ q \in Event /\ q \in Queued /\ Queued = Queued' \cup {q}
  BY <1>1, QueueTaken DEF TypeOK
<1>3. PICK v \in 1..Blank :
        /\ task' = [task EXCEPT ![w] = [ev |-> [q EXCEPT !.ver = v], todo |-> Steps(q.kind)]]
        /\ \/ unfetched' = unfetched /\ (v = q.ver \/ v = world[q.msg].ver)
           \/ v = Blank /\ unfetched' = unfetched \cup {[msg |-> q.msg, ver |-> q.ver]}
  <2>1. q.ver \in 1..Blank /\ q.msg \in Msgs /\ q.kind \in Kinds
    BY <1>2 DEF Event, Kinds
  <2>2. q = [q EXCEPT !.ver = q.ver]
    BY <1>2 DEF Event
  <2>3. CASE ~q.partial /\ Begin(w, q) /\ UNCHANGED unfetched
    BY <2>1, <2>2, <2>3 DEF Begin
  <2>4. CASE /\ ~world[q.msg].deleted /\ Begin(w, [q EXCEPT !.ver = world[q.msg].ver])
             /\ UNCHANGED unfetched
    <3>1. world[q.msg].ver \in 1..Blank
      BY <1>2, <2>1 DEF TypeOK, Row, WorldInv
    <3>2. [q EXCEPT !.ver = world[q.msg].ver].kind = q.kind
      BY <1>2 DEF Event
    <3> QED BY <2>4, <3>1, <3>2 DEF Begin
  <2>5. CASE /\ Begin(w, [q EXCEPT !.ver = Blank])
             /\ unfetched' = unfetched \cup {[msg |-> q.msg, ver |-> q.ver]}
    <3>1. Blank \in 1..Blank
      BY LiveBounds DEF Blank
    <3>2. [q EXCEPT !.ver = Blank].kind = q.kind
      BY <1>2 DEF Event
    <3> QED BY <2>5, <3>1, <3>2 DEF Begin
  <2> QED BY <2>3, <2>4, <2>5 DEF Take
<1> DEFINE e == [q EXCEPT !.ver = v]
<1>4. e \in Event /\ e.msg = q.msg /\ e.kind = q.kind /\ e.ver = v /\ q.kind \in Kinds
  BY <1>2 DEF Event, Kinds
<1>5. /\ task \in [Workers -> {Idle, Gone} \cup Task]
      /\ task'[w] = [ev |-> e, todo |-> Steps(q.kind)] /\ \A u \in Workers \ {w} : task'[u] = task[u]
      /\ Steps(q.kind) \in Todos(q.kind)
      /\ Head(Steps(q.kind)) \in {"upsert", "mark"} /\ Steps(q.kind) # <<>>
  BY <1>3, <1>4, StepsFacts, TodoFacts DEF TaskInv
<1>6. /\ task'[w] \in Task /\ task'[w] \notin {Idle, Gone}
      /\ task'[w].ev = e /\ task'[w].todo = Steps(q.kind)
  <2>1. task'[w] \in Task
    BY <1>4, <1>5 DEF Task
  <2>2. task'[w].ev = e /\ task'[w].todo = Steps(q.kind)
    BY <1>5
  <2>3. task'[w].ev # None
    BY <1>4, <2>2, LiveBounds
  <2>4. task'[w] \notin {Idle, Gone}
    BY <2>3 DEF Idle, Gone
  <2> QED BY <2>1, <2>2, <2>4
<1>7. TypeOK'
  <2>1. unfetched' \subseteq [msg : Msgs, ver : 1..Blank]
    <3>1. q.msg \in Msgs /\ q.ver \in 1..Blank
      BY <1>2 DEF Event
    <3> QED BY <1>3, <3>1 DEF TypeOK
  <2>2. Len(queue') =< QueueSize
    BY <1>2, LiveBounds DEF TypeOK
  <2>3. \A u \in Workers : (task[u] \in {Idle, Gone} \/ (task[u].ev \in Event /\ task[u].todo # <<>>))'
    <3>1. task'[w].ev \in Event /\ task'[w].todo # <<>>
      BY <1>4, <1>5, <1>6
    <3>2. \A u \in Workers \ {w} :
            task'[u] \in {Idle, Gone} \/ (task'[u].ev \in Event /\ task'[u].todo # <<>>)
      BY <1>5 DEF TypeOK
    <3> QED BY <3>1, <3>2
  <2> QED BY <1>1, <1>2, <2>1, <2>2, <2>3 DEF TypeOK
<1>8. TaskInv'
  <2>1. task' \in [Workers -> {Idle, Gone} \cup Task]
    BY <1>3, <1>5, <1>6
  <2>2. ASSUME NEW u \in Workers, Busy(u)'
        PROVE  task'[u].todo \in Todos(task'[u].ev.kind)
    <3>1. CASE u = w
      BY <1>4, <1>5, <1>6, <3>1
    <3>2. CASE u # w
      BY <1>5, <2>2, <3>2 DEF TaskInv, Busy
    <3> QED BY <3>1, <3>2
  <2> QED BY <2>1, <2>2 DEF TaskInv
<1>9. WorkerInv'
  BY <1>1, <1>5 DEF WorkerInv, Busy
<1>10. WorldInv' /\ CursorsBehindRows' /\ LossIsReported'
  BY <1>1, <1>2 DEF WorldInv, CursorsBehindRows, LossIsReported, TailDone
<1>11. ASSUME ~lost', NEW m \in Msgs \ disturbed' PROVE Agreement(m)'
  <2>1. ~lost /\ Agreement(m) /\ unfetched \subseteq unfetched'
    BY <1>1, <1>3, <1>11 DEF AgreementInv
  <2>5. q.msg = m => Faithful(m, v)'
    <3>1. q.msg = m => q.ver = world[m].ver
      BY <1>2, <2>1 DEF Agreement
    <3> QED BY <1>1, <1>3, <3>1 DEF Faithful
  <2>2. ASSUME NEW d \in arriving' \cup Queued' \cup InHand', d.msg = m
        PROVE  /\ Faithful(m, d.ver)'
               /\ d.kind = "delete" <=> world[m].deleted
               /\ d.kind = "delete" => Faithful(m, rows[m].ver)'
    <3>1. CASE d = e
      <4>1. q.msg = m /\ q.kind = d.kind /\ d.ver = v
        BY <1>4, <2>2, <3>1
      <4>2. d.kind = "delete" <=> world[m].deleted
        BY <1>2, <2>1, <4>1 DEF Agreement
      <4>3. d.kind = "delete" => Faithful(m, rows[m].ver)
        BY <1>2, <2>1, <4>1 DEF Agreement
      <4>4. Faithful(m, rows[m].ver) => Faithful(m, rows[m].ver)'
        BY <1>1, <2>1 DEF Faithful
      <4> QED BY <2>5, <4>1, <4>2, <4>3, <4>4 DEF Faithful
    <3>2. CASE d \in arriving \cup Queued \cup InHand
      BY <1>1, <2>1, <2>2, <3>2 DEF Agreement, Faithful
    <3>3. InHand' \subseteq InHand \cup {e}
      BY <1>5 DEF InHand
    <3> QED BY <1>1, <1>2, <3>1, <3>2, <3>3
  <2>3. Unwritten(m) => Unwritten(m)'
    <3>1. CASE q.msg = m
      <4>1. Busy(w)' /\ task'[w].ev.msg = m /\ Head(task'[w].todo) \in {"upsert", "mark"}
        BY <1>4, <1>5, <1>6, <3>1 DEF Busy
      <4> QED BY <4>1 DEF Unwritten
    <3>2. CASE \E d \in arriving \cup Queued : d.msg = m /\ d # q
      BY <1>1, <1>2, <3>2 DEF Unwritten
    <3>3. CASE \E u \in Workers : Busy(u) /\ task[u].ev.msg = m /\ Head(task[u].todo) \in {"upsert", "mark"}
      <4>1. PICK u \in Workers : Busy(u) /\ task[u].ev.msg = m /\ Head(task[u].todo) \in {"upsert", "mark"}
        BY <3>3
      <4>2. u # w
        BY <1>1, <4>1 DEF Busy
      <4> QED BY <1>5, <4>1, <4>2 DEF Unwritten, Busy
    <3> QED BY <3>1, <3>2, <3>3 DEF Unwritten
  <2>6. \A d \in arriving' \cup Queued' : d.msg = m => d.ver = world[m].ver
    BY <1>1, <1>2, <2>1 DEF Agreement
  <2>7. ~Unwritten(m)' => Faithful(m, rows[m].ver)' /\ (world[m].deleted => rows[m].deleted)
    BY <1>1, <2>1, <2>3 DEF Agreement, Faithful
  <2> QED BY <1>1, <2>1, <2>2, <2>6, <2>7 DEF Agreement
<1> QED BY <1>7, <1>8, <1>9, <1>10, <1>11 DEF AgreementInv

LEMMA LeaveStep ==
  ASSUME IInv, NEW w \in Workers, WorkerLeaves(w)
  PROVE  IInv'
<1> USE DEF IInv
<1>1. /\ task[w] = Idle /\ task' = [task EXCEPT ![w] = Gone]
      /\ UNCHANGED <<world, events, arriving, queue, errCh, tail, tailErr, cancelled, run, page, rows, log,
                     lastEvent, latest, ghosts>>
  BY DEF WorkerLeaves, discord, syncer, db
<1>2. task'[w] = Gone /\ \A u \in Workers \ {w} : task'[u] = task[u]
  BY <1>1 DEF TaskInv
<1>3. TypeOK'
  BY <1>1, <1>2 DEF TypeOK, ghosts
<1>4. \A u \in Workers : Busy(u)' <=> Busy(u)
  BY <1>1, <1>2 DEF Busy
<1>5. TaskInv'
  BY <1>1, <1>2, <1>4 DEF TaskInv, Busy
<1>6. WorkerInv'
  BY <1>1, <1>2 DEF WorkerInv, Busy
<1>7. (WorldInv /\ CursorsBehindRows /\ LossIsReported)'
  BY <1>1 DEF WorldInv, CursorsBehindRows, LossIsReported, TailDone, ghosts, Queued
<1>8. InHand' = InHand /\ Queued' = Queued
  <2>1. task'[w].ev = task[w].ev
    BY <1>1, <1>2 DEF Idle, Gone
  <2> QED BY <1>1, <1>2, <2>1 DEF InHand, Queued
<1>9. \A m \in Msgs : Unwritten(m) => Unwritten(m)'
  BY <1>1, <1>2, <1>4, <1>8 DEF Unwritten, Busy
<1>10. AgreementInv'
  BY <1>1, <1>8, <1>9 DEF AgreementInv, Agreement, Faithful, ghosts
<1> QED BY <1>3, <1>5, <1>6, <1>7, <1>10

----------------------------------------------------------------------------
(* The statements of a handler.                                            *)

\* A statement is taken off what its worker has to do, and no other worker moves.
LEMMA StatementFacts ==
  ASSUME IInv, NEW w \in Workers, Busy(w), StepDone(w)
  PROVE  /\ task[w].ev \in Event /\ task[w].ev.kind \in Kinds /\ task[w].ev.msg \in Msgs
         /\ task[w].ev \in InHand
         /\ task[w].todo \in Todos(task[w].ev.kind)
         /\ \A u \in Workers \ {w} : task'[u] = task[u] /\ (Busy(u)' <=> Busy(u))
         /\ Busy(w)' => /\ task'[w].ev = task[w].ev /\ Len(task[w].todo) # 1
                        /\ Head(task'[w].todo) = Head(Tail(task[w].todo))
         /\ TaskInv' /\ InHand' \subseteq InHand
         /\ \A u \in Workers : (task[u] \in {Idle, Gone} \/ (task[u].ev \in Event /\ task[u].todo # <<>>))'
<1> USE DEF IInv
<1>1. /\ task[w] \in Task /\ task[w].ev \in Event /\ task[w].ev \in InHand
      /\ task[w].ev.kind \in Kinds /\ task[w].ev.msg \in Msgs
  BY InHandFacts DEF Task
<1>2. task[w].todo \in Todos(task[w].ev.kind)
  BY DEF TaskInv
<1> DEFINE t == [ev |-> task[w].ev, todo |-> Tail(task[w].todo)]
<1>3. /\ \A u \in Workers \ {w} : task'[u] = task[u]
      /\ task'[w] = IF Len(task[w].todo) = 1 THEN Idle ELSE t
      /\ task' = [task EXCEPT ![w] = IF Len(task[w].todo) = 1 THEN Idle ELSE t]
  BY DEF StepDone, TaskInv
<1>4. \A u \in Workers \ {w} : Busy(u)' <=> Busy(u)
  BY <1>3 DEF Busy
<1>5. Len(task[w].todo) # 1 => Tail(task[w].todo) \in Todos(task[w].ev.kind) /\ t \in Task
  BY <1>1, <1>2, TodoFacts DEF Task
<1>6. Busy(w)' => /\ task'[w].ev = task[w].ev /\ task'[w].todo = Tail(task[w].todo)
                   /\ Len(task[w].todo) # 1
  <2>1. Busy(w)' => task'[w] = t /\ Len(task[w].todo) # 1
    BY <1>3 DEF Busy
  <2>2. t.ev = task[w].ev /\ t.todo = Tail(task[w].todo)
    OBVIOUS
  <2> HIDE DEF t
  <2> QED BY <2>1, <2>2
<1>7. TaskInv'
  <2>1. task' \in [Workers -> {Idle, Gone} \cup Task]
    BY <1>3, <1>5 DEF TaskInv
  <2>2. ASSUME NEW u \in Workers, Busy(u)'
        PROVE  task'[u].todo \in Todos(task'[u].ev.kind)
    <3>1. CASE u = w
      BY <1>5, <1>6, <2>2, <3>1 DEF Busy
    <3>2. CASE u # w
      BY <1>3, <1>4, <2>2, <3>2 DEF TaskInv, Busy
    <3> QED BY <3>1, <3>2
  <2> QED BY <2>1, <2>2 DEF TaskInv
<1>8. InHand' \subseteq InHand
  <2> SUFFICES ASSUME NEW u \in Workers, task'[u].ev # None PROVE task'[u].ev \in InHand
    BY DEF InHand
  <2>1. CASE u = w
    BY <1>1, <1>3, <2>1 DEF Idle
  <2>2. CASE u # w
    BY <1>3, <2>2 DEF InHand
  <2> QED BY <2>1, <2>2
<1>9. \A u \in Workers : (task[u] \in {Idle, Gone} \/ (task[u].ev \in Event /\ task[u].todo # <<>>))'
  <2> SUFFICES ASSUME NEW u \in Workers, Busy(u)'
               PROVE  task'[u].ev \in Event /\ task'[u].todo # <<>>
    BY DEF Busy
  <2>1. task'[u] \in Task
    BY <1>7 DEF TaskInv, Busy
  <2>2. task'[u].ev \in Event /\ task'[u].ev.kind \in Kinds
    BY <2>1 DEF Task, Event, Kinds
  <2>3. task'[u].todo \in Todos(task'[u].ev.kind)
    BY <1>7 DEF TaskInv
  <2> QED BY <2>2, <2>3, TodoFacts
<1> QED BY <1>1, <1>2, <1>3, <1>4, <1>6, <1>7, <1>8, <1>9

\* What a statement that writes no row leaves alone.
LEMMA RowsKeptStep ==
  ASSUME IInv, NEW w \in Workers, Busy(w), StepDone(w), Head(task[w].todo) \in {"event", "cursor", "latest"},
         UNCHANGED <<world, arriving, queue, page, rows, disturbed, unfetched, lost>>
  PROVE  AgreementInv'
<1> USE DEF IInv
<1>1. /\ InHand' \subseteq InHand /\ Queued' = Queued
      /\ \A u \in Workers \ {w} : task'[u] = task[u] /\ (Busy(u)' <=> Busy(u))
  BY StatementFacts DEF Queued
<1>2. ASSUME NEW m \in Msgs, Unwritten(m)
      PROVE  Unwritten(m)'
  <2>1. CASE \E e \in arriving \cup Queued : e.msg = m
    BY <1>1, <2>1 DEF Unwritten
  <2>2. CASE \E u \in Workers : Busy(u) /\ task[u].ev.msg = m /\ Head(task[u].todo) \in {"upsert", "mark"}
    <3>1. PICK u \in Workers : Busy(u) /\ task[u].ev.msg = m /\ Head(task[u].todo) \in {"upsert", "mark"}
      BY <2>2
    <3>2. u # w
      BY <3>1
    <3> QED BY <1>1, <3>1, <3>2 DEF Unwritten
  <2> QED BY <1>2, <2>1, <2>2 DEF Unwritten
<1> QED BY <1>1, <1>2 DEF AgreementInv, Agreement, Faithful

LEMMA QuietStatementStep ==
  ASSUME IInv, NEW w \in Workers, AppendEvent(w) \/ SetLastEvent(w) \/ SetLatest(w)
  PROVE  IInv'
<1> USE DEF IInv
<1> DEFINE e == task[w].ev
           step == Head(task[w].todo)
<1>1. /\ Busy(w) /\ StepDone(w)
      /\ \/ step = "event" /\ log' = log \cup {e.msg} /\ UNCHANGED <<lastEvent, latest>>
         \/ step = "cursor" /\ lastEvent' = e.msg /\ UNCHANGED <<log, latest>>
         \/ step = "latest" /\ latest' = e.msg /\ UNCHANGED <<log, lastEvent>>
      /\ UNCHANGED <<world, events, arriving, queue, errCh, tail, tailErr, cancelled, run, page, rows,
                     disturbed, unfetched, lost>>
  BY DEF AppendEvent, SetLastEvent, SetLatest, Doing, Logged, Busy, discord, syncer, ghosts
<1>2. /\ e \in Event /\ e.kind \in Kinds /\ e.msg \in Msgs /\ task[w].todo \in Todos(e.kind)
      /\ \A u \in Workers \ {w} : task'[u] = task[u] /\ (Busy(u)' <=> Busy(u))
      /\ Busy(w)' => /\ task'[w].ev = e /\ Len(task[w].todo) # 1
                     /\ Head(task'[w].todo) = Head(Tail(task[w].todo))
      /\ TaskInv'
      /\ \A u \in Workers : (task[u] \in {Idle, Gone} \/ (task[u].ev \in Event /\ task[u].todo # <<>>))'
  BY <1>1, StatementFacts
<1>3. /\ step = "event" => e.kind # "delete" /\ (Busy(w)' => Head(task'[w].todo) = "cursor")
      /\ step = "cursor" => (Busy(w)' => e.kind # "delete" /\ Head(task'[w].todo) = "latest")
      /\ step = "latest" => ~Busy(w)'
  <2> DEFINE next == Head(Tail(task[w].todo))
             more == Len(task[w].todo) # 1
  <2>1. \/ step = "upsert" /\ e.kind # "delete" /\ more /\ next = "event"
        \/ step = "event" /\ e.kind # "delete" /\ more /\ next = "cursor"
        \/ step = "mark" /\ e.kind = "delete" /\ more /\ next = "cursor"
        \/ step = "cursor" /\ (more => e.kind # "delete" /\ next = "latest")
        \/ step = "latest" /\ e.kind # "delete" /\ ~more
    <3>1. e.kind \in Kinds /\ task[w].todo \in Todos(e.kind)
      BY <1>2
    <3> QED BY <3>1, TodoFacts
  <2>2. Busy(w)' => more /\ Head(task'[w].todo) = next
    BY <1>2
  <2> QED BY <2>1, <2>2
<1>4. log \subseteq log'
  BY <1>1
<1>5. TypeOK'
  BY <1>1, <1>2 DEF TypeOK
<1>6. WorkerInv'
  <2>1. ASSUME NEW u \in Workers, Busy(u)'
        PROVE  LET s == Head(task'[u].todo)
                   m == task'[u].ev.msg
               IN  /\ s \in {"event", "latest"} => rows[m].ver > 0
                   /\ s = "cursor" /\ task'[u].ev.kind # "delete" => rows[m].ver > 0
                   /\ s \in {"cursor", "latest"} => m \in log'
    <3>1. CASE u = w
      BY <1>1, <1>2, <1>3, <2>1, <3>1 DEF WorkerInv
    <3>2. CASE u # w
      BY <1>2, <1>4, <2>1, <3>2 DEF WorkerInv
    <3> QED BY <3>1, <3>2
  <2> QED BY <1>1, <2>1 DEF WorkerInv
<1>7. CursorsBehindRows'
  BY <1>1, <1>4 DEF CursorsBehindRows, WorkerInv
<1>8. (WorldInv /\ LossIsReported)'
  BY <1>1 DEF WorldInv, LossIsReported, TailDone, Queued
<1>9. AgreementInv'
  BY <1>1, RowsKeptStep
<1> QED BY <1>2, <1>5, <1>6, <1>7, <1>8, <1>9

\* The two statements that write a row write what the message is, as far as it
\* could be fetched.
LEMMA RowStatementStep ==
  ASSUME IInv, NEW w \in Workers, Upsert(w) \/ Mark(w)
  PROVE  IInv'
<1> USE DEF IInv
<1> DEFINE e == task[w].ev
           step == Head(task[w].todo)
<1>1. /\ Busy(w) /\ StepDone(w)
      /\ \/ step = "upsert" /\ UpsertMessage(e.msg, e.ver) /\ UNCHANGED log
         \/ step = "mark" /\ MarkMessageDeleted(e.msg) /\ log' = log \cup {e.msg}
      /\ UNCHANGED <<world, events, arriving, queue, errCh, tail, tailErr, cancelled, run, page,
                     lastEvent, latest, disturbed, unfetched, lost>>
  BY DEF Upsert, Mark, Doing, Logged, Busy, discord, syncer, ghosts
<1>2. /\ e \in Event /\ e.kind \in Kinds /\ e.msg \in Msgs /\ task[w].todo \in Todos(e.kind)
      /\ e \in InHand
      /\ \A u \in Workers \ {w} : task'[u] = task[u] /\ (Busy(u)' <=> Busy(u))
      /\ Busy(w)' => /\ task'[w].ev = e /\ Len(task[w].todo) # 1
                     /\ Head(task'[w].todo) = Head(Tail(task[w].todo))
      /\ TaskInv' /\ InHand' \subseteq InHand
      /\ \A u \in Workers : (task[u] \in {Idle, Gone} \/ (task[u].ev \in Event /\ task[u].todo # <<>>))'
  BY <1>1, StatementFacts
<1>3. /\ step = "upsert" => e.kind # "delete" /\ (Busy(w)' => Head(task'[w].todo) = "event")
      /\ step = "mark" => e.kind = "delete" /\ (Busy(w)' => Head(task'[w].todo) = "cursor")
  <2> DEFINE next == Head(Tail(task[w].todo))
             more == Len(task[w].todo) # 1
  <2>1. \/ step = "upsert" /\ e.kind # "delete" /\ more /\ next = "event"
        \/ step = "event" /\ e.kind # "delete" /\ more /\ next = "cursor"
        \/ step = "mark" /\ e.kind = "delete" /\ more /\ next = "cursor"
        \/ step = "cursor" /\ (more => e.kind # "delete" /\ next = "latest")
        \/ step = "latest" /\ e.kind # "delete" /\ ~more
    <3>1. e.kind \in Kinds /\ task[w].todo \in Todos(e.kind)
      BY <1>2
    <3> QED BY <3>1, TodoFacts
  <2>2. Busy(w)' => more /\ Head(task'[w].todo) = next
    BY <1>2
  <2> QED BY <2>1, <2>2
<1>4. e.ver \in 1..Blank /\ rows \in [Msgs -> Row] /\ world \in [Msgs -> Row]
  BY <1>2 DEF Event, TypeOK
<1>5. /\ rows' \in [Msgs -> Row]
      /\ \A m \in Msgs \ {e.msg} : rows'[m] = rows[m]
      /\ step = "upsert" => rows'[e.msg].ver = e.ver /\ rows'[e.msg].deleted = rows[e.msg].deleted
      /\ step = "mark" => /\ rows'[e.msg].ver = rows[e.msg].ver
                          /\ rows[e.msg].ver # 0 => rows'[e.msg].deleted
                          /\ rows[e.msg].ver = 0 => rows' = rows
  <2>1. CASE step = "upsert" /\ rows' = [rows EXCEPT ![e.msg].ver = e.ver]
    <3>1. /\ rows'[e.msg] = [rows[e.msg] EXCEPT !.ver = e.ver] /\ e.ver \in 0..Blank
          /\ \A m \in Msgs \ {e.msg} : rows'[m] = rows[m]
      BY <1>2, <1>4, <2>1
    <3>2. rows'[e.msg] \in Row /\ rows'[e.msg].ver = e.ver /\ rows'[e.msg].deleted = rows[e.msg].deleted
      <4>1. rows[e.msg] \in Row
        BY <1>2, <1>4
      <4> QED BY <3>1, <4>1 DEF Row
    <3>3. rows' \in [Msgs -> Row]
      BY <1>4, <2>1, <3>1, <3>2
    <3> QED BY <2>1, <3>1, <3>2, <3>3
  <2>2. CASE step = "mark" /\ rows[e.msg].ver = 0 /\ rows' = rows
    BY <1>4, <2>2
  <2>3. CASE step = "mark" /\ rows[e.msg].ver # 0 /\ rows' = [rows EXCEPT ![e.msg].deleted = TRUE]
    BY <1>2, <1>4, <2>3 DEF Row
  <2> QED BY <1>1, <2>1, <2>2, <2>3 DEF MarkMessageDeleted, UpsertMessage
<1>6. log \subseteq log' /\ \A m \in Msgs : rows[m].ver > 0 => rows'[m].ver > 0
  BY <1>1, <1>4, <1>5
<1>7. TypeOK'
  BY <1>1, <1>2, <1>5 DEF TypeOK
<1>8. WorkerInv'
  <2>1. ASSUME NEW u \in Workers, Busy(u)'
        PROVE  LET s == Head(task'[u].todo)
                   m == task'[u].ev.msg
               IN  /\ s \in {"event", "latest"} => rows'[m].ver > 0
                   /\ s = "cursor" /\ task'[u].ev.kind # "delete" => rows'[m].ver > 0
                   /\ s \in {"cursor", "latest"} => m \in log'
    <3>1. CASE u = w
      BY <1>1, <1>2, <1>3, <1>4, <1>5, <2>1, <3>1 DEF WorkerInv
    <3>2. CASE u # w
      <4>1. Busy(u) /\ task'[u] = task[u] /\ task[u].ev.msg \in Msgs
        BY <1>2, <2>1, <3>2, InHandFacts
      <4> QED BY <1>6, <4>1 DEF WorkerInv
    <3> QED BY <3>1, <3>2
  <2> QED BY <2>1 DEF WorkerInv
<1>9. (CursorsBehindRows /\ WorldInv /\ LossIsReported)'
  <2>1. latest # None => latest \in Msgs
    BY DEF TypeOK
  <2> QED BY <1>1, <1>6, <2>1 DEF CursorsBehindRows, WorldInv, LossIsReported, TailDone, Queued
<1>12. Blank # 0
  BY LiveBounds DEF Blank
<1>10. ASSUME ~lost', NEW m \in Msgs \ disturbed' PROVE Agreement(m)'
  <2>1. Agreement(m) /\ Queued' = Queued
    BY <1>1, <1>10 DEF AgreementInv, Queued
  <2>2. CASE m # e.msg
    <3>1. Unwritten(m) => Unwritten(m)'
      <4>1. CASE \E d \in arriving \cup Queued : d.msg = m
        BY <1>1, <2>1, <4>1 DEF Unwritten
      <4>2. CASE \E u \in Workers : Busy(u) /\ task[u].ev.msg = m /\ Head(task[u].todo) \in {"upsert", "mark"}
        <5>1. PICK u \in Workers : Busy(u) /\ task[u].ev.msg = m /\ Head(task[u].todo) \in {"upsert", "mark"}
          BY <4>2
        <5>2. u # w
          BY <2>2, <5>1
        <5> QED BY <1>2, <5>1, <5>2 DEF Unwritten
      <4> QED BY <4>1, <4>2 DEF Unwritten
    <3>2. rows'[m] = rows[m]
      BY <1>5, <2>2
    <3> QED BY <1>1, <1>2, <2>1, <3>1, <3>2 DEF Agreement, Faithful
  <2>3. CASE m = e.msg
    <3>1. /\ Faithful(m, e.ver)
          /\ e.kind = "delete" <=> world[m].deleted
          /\ e.kind = "delete" => Faithful(m, rows[m].ver)
      BY <1>2, <2>1, <2>3 DEF Agreement
    <3>2. world[m].deleted => world[m].ver > 0
      BY DEF WorldInv
    <3>3. Faithful(m, rows[m].ver)'
      BY <1>1, <1>3, <1>5, <2>3, <3>1 DEF Faithful
    <3>4. rows'[m].deleted <=> world[m].deleted
      <4>1. rows[m].deleted => world[m].deleted
        BY <2>1 DEF Agreement
      <4>2. CASE step = "upsert"
        BY <1>3, <1>5, <2>3, <3>1, <4>1, <4>2
      <4>3. CASE step = "mark"
        <5>1. Faithful(m, rows[m].ver) /\ world[m].deleted /\ world[m].ver > 0
          BY <1>3, <2>3, <3>1, <3>2, <4>3
        <5>2. rows[m].ver # 0
          BY <1>12, <5>1 DEF Faithful
        <5> QED BY <1>5, <2>3, <4>3, <5>1, <5>2
      <4> QED BY <1>1, <4>2, <4>3
    <3> QED BY <1>1, <1>2, <2>1, <3>3, <3>4 DEF Agreement, Faithful
  <2> QED BY <2>2, <2>3
<1> QED BY <1>2, <1>7, <1>8, <1>9, <1>10 DEF AgreementInv

LEMMA HandlerFailsStep ==
  ASSUME IInv, NEW w \in Workers, HandlerFails(w)
  PROVE  IInv'
<1> USE DEF IInv
<1>1. /\ task' = [task EXCEPT ![w] = Idle] /\ errCh' = TRUE /\ lost' = TRUE
      /\ UNCHANGED <<world, events, arriving, queue, tail, tailErr, cancelled, run, page, rows, log,
                     lastEvent, latest, disturbed, unfetched>>
  BY DEF HandlerFails, Report, discord, syncer, db
<1>2. task'[w] = Idle /\ \A u \in Workers \ {w} : task'[u] = task[u]
  BY <1>1 DEF TaskInv
<1>3. TypeOK'
  BY <1>1, <1>2 DEF TypeOK
<1>4. TaskInv'
  BY <1>1, <1>2 DEF TaskInv, Busy
<1>5. WorkerInv'
  BY <1>1, <1>2 DEF WorkerInv, Busy
<1>6. (WorldInv /\ CursorsBehindRows /\ LossIsReported /\ AgreementInv)'
  BY <1>1 DEF WorldInv, CursorsBehindRows, LossIsReported, AgreementInv, Queued
<1> QED BY <1>3, <1>4, <1>5, <1>6

----------------------------------------------------------------------------
(* The repair sync.                                                        *)

\* A page holds at most one version of a message that is not disturbed.
LEMMA StartRepairStep ==
  ASSUME IInv, StartRepair
  PROVE  IInv'
<1> USE DEF IInv
<1>1. PICK n \in Msgs : /\ world[n].ver > 0 /\ ~world[n].deleted
                        /\ page' = {[msg |-> n, ver |-> world[n].ver]}
  BY DEF StartRepair
<1>2. run' = "repair" /\ UNCHANGED <<world, events, arriving, queue, task, errCh, tail, tailErr, cancelled,
                                     rows, log, lastEvent, latest, disturbed, unfetched, lost>>
  BY DEF StartRepair, discord, client, db, ghosts
<1>3. page' \subseteq [msg : Msgs, ver : 1..MaxVersion]
  BY <1>1 DEF WorldInv
<1>4. TypeOK'
  BY <1>2, <1>3 DEF TypeOK
<1>5. (WorldInv /\ TaskInv /\ WorkerInv /\ CursorsBehindRows /\ LossIsReported)'
  BY <1>2 DEF WorldInv, TaskInv, WorkerInv, CursorsBehindRows, LossIsReported, TailDone, Busy, Queued
<1>6. ASSUME NEW m \in Msgs, Agreement(m)
      PROVE  Agreement(m)'
  <2>1. \A r \in page' : r.msg = m => r.ver = world[m].ver /\ ~world[m].deleted
    BY <1>1
  <2>2. InHand' = InHand /\ Queued' = Queued /\ (Unwritten(m)' <=> Unwritten(m))
    BY <1>2 DEF InHand, Queued, Unwritten, Busy
  <2> QED BY <1>2, <1>6, <2>1, <2>2 DEF Agreement, Faithful
<1> QED BY <1>2, <1>4, <1>5, <1>6 DEF AgreementInv

LEMMA EndRepairStep ==
  ASSUME IInv, EndRepair
  PROVE  IInv'
<1> USE DEF IInv
<1>1. /\ page' = {} /\ run' = "select"
      /\ UNCHANGED <<world, events, arriving, queue, task, errCh, tail, tailErr, cancelled, log,
                     lastEvent, latest, disturbed, unfetched, lost>>
  BY DEF EndRepair, discord, client, ghosts
<1> DEFINE here(m) == \E r \in page : r.msg = m
           version(m) == (CHOOSE r \in page : r.msg = m).ver
<1>2. ASSUME NEW m \in Msgs, here(m)
      PROVE  version(m) \in 1..MaxVersion /\ \E r \in page : r.msg = m /\ r.ver = version(m)
  <2>1. (CHOOSE r \in page : r.msg = m) \in page /\ (CHOOSE r \in page : r.msg = m).msg = m
    BY <1>2
  <2> QED BY <2>1 DEF TypeOK
<1>3. rows \in [Msgs -> Row] /\ MaxVersion \in Nat /\ Blank = MaxVersion + 1
  BY LiveBounds DEF TypeOK, Blank
<1>4. /\ rows' \in [Msgs -> Row]
      /\ \A m \in Msgs : /\ rows'[m].deleted = rows[m].deleted
                         /\ \/ rows'[m].ver = rows[m].ver
                            \/ here(m) /\ rows'[m].ver = version(m)
  <2>1. CASE UNCHANGED rows
    BY <1>3, <2>1
  <2>2. CASE rows' = [m \in Msgs |-> IF here(m) THEN [rows[m] EXCEPT !.ver = version(m)] ELSE rows[m]]
    <3>1. ASSUME NEW m \in Msgs
          PROVE  /\ rows'[m] \in Row /\ rows'[m].deleted = rows[m].deleted
                 /\ \/ rows'[m].ver = rows[m].ver
                    \/ here(m) /\ rows'[m].ver = version(m)
      <4>1. CASE here(m)
        <5>1. rows'[m] = [rows[m] EXCEPT !.ver = version(m)]
          BY <2>2, <4>1
        <5>2. version(m) \in 0..Blank /\ rows[m] \in Row
          BY <1>2, <1>3, <4>1
        <5> HIDE DEF version
        <5> QED BY <4>1, <5>1, <5>2 DEF Row
      <4>2. CASE ~here(m)
        BY <1>3, <2>2, <4>2
      <4> QED BY <4>1, <4>2
    <3> HIDE DEF version, here
    <3> QED BY <2>2, <3>1
  <2> QED BY <2>1, <2>2 DEF EndRepair
<1> HIDE DEF version, here
<1>5. TypeOK'
  BY <1>1, <1>4 DEF TypeOK
<1>6. \A m \in Msgs : rows[m].ver > 0 => rows'[m].ver > 0
  BY <1>2, <1>3, <1>4
<1>7. WorkerInv'
  BY <1>1, <1>6, InHandFacts DEF WorkerInv, Busy
<1>8. (WorldInv /\ TaskInv /\ LossIsReported)'
  BY <1>1 DEF WorldInv, TaskInv, LossIsReported, TailDone, Busy, Queued
<1>9. CursorsBehindRows'
  <2>1. latest # None => latest \in Msgs
    BY DEF TypeOK
  <2> QED BY <1>1, <1>6, <2>1 DEF CursorsBehindRows
<1>10. ASSUME NEW m \in Msgs, Agreement(m)
       PROVE  Agreement(m)'
  <2>1. InHand' = InHand /\ Queued' = Queued /\ (Unwritten(m)' <=> Unwritten(m))
    BY <1>1 DEF InHand, Queued, Unwritten, Busy
  <2>2. here(m) => version(m) = world[m].ver
    BY <1>2, <1>10 DEF Agreement
  <2>3. rows'[m].deleted = rows[m].deleted /\ (rows'[m].ver = rows[m].ver \/ rows'[m].ver = world[m].ver)
    BY <1>4, <2>2
  <2> QED BY <1>1, <1>10, <2>1, <2>3 DEF Agreement, Faithful
<1> QED BY <1>1, <1>5, <1>7, <1>8, <1>9, <1>10 DEF AgreementInv

----------------------------------------------------------------------------
LEMMA IInvStep == IInv /\ [Next]_vars => IInv'
<1> SUFFICES ASSUME IInv, [Next]_vars PROVE IInv'
  OBVIOUS
<1>1. CASE Next
  <2>1. CASE Change
    BY <2>1, ChangeStep
  <2>2. CASE TailProcess \/ RunReturns \/ Cancel
    BY <2>2, ControlStep
  <2>3. CASE \E e \in arriving : Enqueue(e)
    BY <2>3, EnqueueStep
  <2>4. ASSUME NEW w \in Workers, Working(w) \/ WorkerLeaves(w) PROVE IInv'
    BY <2>4, TakeStep, LeaveStep, QuietStatementStep, RowStatementStep, HandlerFailsStep
       DEF Working, Statement
  <2>5. CASE StartRepair \/ EndRepair
    BY <2>5, StartRepairStep, EndRepairStep
  <2> QED BY <1>1, <2>1, <2>2, <2>3, <2>4, <2>5 DEF Next
<1>2. CASE UNCHANGED vars
  <2>1. UNCHANGED <<world, events, arriving, queue, task, errCh, tail, tailErr, cancelled, run, page, rows, log,
                    lastEvent, latest, disturbed, unfetched, lost>>
    BY <1>2 DEF vars, discord, client, syncer, db, ghosts
  <2>2. (TypeOK /\ WorldInv /\ TaskInv /\ CursorsBehindRows /\ WorkerInv /\ LossIsReported)'
    BY <2>1 DEF IInv, TypeOK, WorldInv, TaskInv, CursorsBehindRows, WorkerInv, LossIsReported, TailDone,
                Busy, Queued
  <2>3. AgreementInv'
    BY <2>1 DEF IInv, AgreementInv, Agreement, Faithful, Unwritten, Busy, Queued, InHand
  <2> QED BY <2>2, <2>3 DEF IInv
<1> QED BY <1>1, <1>2

LEMMA IInvAlways == Spec => []IInv
BY InitIInv, IInvStep, PTL DEF Spec

\* Every value stays in its type; the queue never holds more than it has room for.
THEOREM TypeCorrect == Spec => []TypeOK
<1>1. IInv => TypeOK
  BY DEF IInv
<1> QED BY <1>1, IInvAlways, PTL

\* However handlers and repairs interleave and fail, the last event names a
\* message whose event is archived, and the latest message one that has a row.
THEOREM CursorsAlwaysHold == Spec => []CursorsHold
<1>1. IInv => CursorsHold
  BY DEF IInv, CursorsHold
<1> QED BY <1>1, IInvAlways, PTL

\* An event that is dropped or whose handler fails is never lost in silence.
THEOREM LossAlwaysReported == Spec => []LossIsReported
<1>1. IInv => LossIsReported
  BY DEF IInv
<1> QED BY <1>1, IInvAlways, PTL

\* When nothing about a message is under way, its row is the message: deleted if
\* it was deleted, and with the content of its last version, which is blank only
\* if that version came as a partial update and could not be fetched.  Left out
\* are the messages that changed while an earlier change of them or a page with
\* them was under way, and a tail that has lost an event.
THEOREM RowsAgree == Spec => []AgreesWhenQuiet
<1>1. IInv => AgreesWhenQuiet
  <2> SUFFICES ASSUME IInv, ~lost, NEW m \in Msgs \ disturbed, ~Outstanding(m)
               PROVE  rows[m].deleted = world[m].deleted /\ Faithful(m, rows[m].ver)
    BY DEF AgreesWhenQuiet
  <2>1. Agreement(m) /\ TaskInv /\ rows[m] \in Row /\ world[m] \in Row
    BY DEF IInv, AgreementInv, TypeOK
  <2>2. ~Unwritten(m)
    BY <2>1, InHandFacts DEF Outstanding, Unwritten
  <2> QED BY <2>1, <2>2 DEF Agreement, Row
<1> QED BY <1>1, IInvAlways, PTL
=============================================================================
