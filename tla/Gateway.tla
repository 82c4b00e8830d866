------------------------------ MODULE Gateway ------------------------------
(* The user-token gateway connection (internal/discord/userclient/         *)
(* gateway.go): the reconnect loop of Run, one session after another, and   *)
(* the heartbeat goroutine each session starts.  The sessions share seq,    *)
(* sessionID, resumeURL and heartbeatACK, and so do the heartbeats.         *)
(*                                                                          *)
(* Discord's side is external: it keeps at most one session of this client, *)
(* numbers what it dispatches in it from 1 (READY), and replays from the    *)
(* number a RESUME names.  A connection may break, or fall silent: nothing  *)
(* arrives over it any more and nobody closes it.                           *)
EXTENDS Naturals

CONSTANTS MaxEvents,    \* bound: events published
          MaxConns      \* bound: connections that are made; the last two hold

ASSUME GatewayBounds == MaxEvents \in Nat /\ MaxConns \in Nat \ {0}

VARIABLES
  pc, url, cancelled,                  \* Run and session
  seq, sessionID, resumeURL,           \* fields of Gateway; 0 and FALSE stand for ""
  heartbeatACK,
  hand,                                \* the event the handler has, 0: none
  conn, open, silent,                  \* the current connection, by number
  beat,                                \* the heartbeat goroutine of each connection
  ackDue,                              \* Discord owes the connection an op 11
  sids, live, base, next, due,         \* Discord's session
  published, fate

client == <<pc, url, seq, sessionID, resumeURL, hand>>
link   == <<conn, open, silent>>
server == <<sids, live, base, next, due>>
feed   == <<published, fate>>
vars   == <<client, cancelled, heartbeatACK, link, beat, ackDue, server, feed>>

Feed == INSTANCE EventFeed WITH MaxEvents <- MaxEvents, published <- published, fate <- fate

Conns == 1..MaxConns

\* Faults happen until two connections are left: the one that holds may still
\* be told that its session is gone, and then needs the last.
MayBreak == conn < MaxConns - 1

Init ==
  /\ pc = "dial" /\ url = "gateway" /\ cancelled = FALSE
  /\ seq = 0 /\ sessionID = 0 /\ resumeURL = FALSE
  /\ heartbeatACK = FALSE /\ hand = 0
  /\ conn = 0 /\ open = FALSE /\ silent = FALSE
  /\ beat = [c \in Conns |-> "none"] /\ ackDue = FALSE
  /\ sids = 0 /\ live = 0 /\ base = 0 /\ next = 1 /\ due = "none"
  /\ Feed!Init

-----------------------------------------------------------------------------
(* session: dial, HELLO, IDENTIFY or RESUME *)

Dial ==
  /\ pc = "dial" /\ conn < MaxConns /\ ~cancelled
  /\ pc' = "hello" /\ conn' = conn + 1 /\ open' = TRUE /\ silent' = FALSE
  /\ heartbeatACK' = TRUE /\ ackDue' = FALSE /\ due' = "none"
  /\ UNCHANGED <<url, seq, sessionID, resumeURL, hand, cancelled, beat, sids, live, base, next, feed>>

DialFails ==
  /\ pc = "dial"
  /\ pc' = "ended"
  /\ UNCHANGED <<url, seq, sessionID, resumeURL, hand, cancelled, heartbeatACK, link, beat, ackDue, server, feed>>

\* Every return of session runs its deferred calls: the heartbeat's context
\* ends (see Orphaned) and the connection is closed.
EndSession ==
  /\ pc' = "ended" /\ open' = FALSE /\ silent' = FALSE /\ ackDue' = FALSE
  /\ UNCHANGED <<url, resumeURL, cancelled, conn, beat>>

\* A frame arrives.
Receiving == open /\ ~silent

Hello ==
  /\ pc = "hello" /\ Receiving
  /\ pc' = "start"
  /\ UNCHANGED <<url, seq, sessionID, resumeURL, hand, cancelled, heartbeatACK, link, beat, ackDue, server, feed>>

Started ==
  /\ pc = "start" /\ open
  /\ pc' = "read"
  /\ beat' = [beat EXCEPT ![conn] = "idle"]

\* Discord begins a session with this IDENTIFY; it sends no event published
\* before it.
Identify ==
  /\ Started /\ sessionID = 0
  /\ sids' = sids + 1 /\ live' = sids + 1
  /\ base' = published /\ next' = published + 1 /\ due' = "ready"
  /\ Feed!MissTheRest
  /\ UNCHANGED <<url, seq, sessionID, resumeURL, hand, cancelled, heartbeatACK, link, ackDue>>

Resume ==
  /\ Started /\ sessionID # 0
  /\ IF sessionID = live
       THEN next' = base + seq /\ due' = "none"
       ELSE due' = "invalid" /\ UNCHANGED next
  /\ UNCHANGED <<url, seq, sessionID, resumeURL, hand, cancelled, heartbeatACK, link, ackDue,
                 sids, live, base, feed>>

-----------------------------------------------------------------------------
(* session: the read loop, handlePayload and dispatchEvent *)

\* The loop looks at the context before it reads.
Reads == pc = "read" /\ Receiving /\ ~cancelled

ReadReady ==
  /\ Reads /\ due = "ready"
  /\ due' = "none" /\ seq' = 1
  /\ sessionID' = sids /\ resumeURL' = TRUE
  /\ UNCHANGED <<pc, url, hand, cancelled, heartbeatACK, link, beat, ackDue, sids, live, base, next, feed>>

\* READY cannot be parsed: its number is taken, its session is not.
ReadBadReady ==
  /\ Reads /\ due = "ready" /\ MayBreak
  /\ seq' = 1 /\ due' = "none"
  /\ EndSession
  /\ UNCHANGED <<sessionID, hand, heartbeatACK, sids, live, base, next, feed>>

\* The number is taken over before the event is handled.
TakeNoSeq == UNCHANGED seq             \* fault: it is not
TakeSeqAhead == seq' = next - base + 2 \* fault: one too many
TakeSeq == seq' = next - base + 1

ReadEvent ==
  /\ Reads /\ due = "none" /\ live = sessionID /\ next <= published
  /\ TakeSeq
  /\ hand' = next /\ next' = next + 1 /\ pc' = "handle"
  /\ UNCHANGED <<url, sessionID, resumeURL, cancelled, heartbeatACK, link, beat, ackDue,
                 sids, live, base, due, feed>>

Settled(f) == fate' = [fate EXCEPT ![hand] = f] /\ hand' = 0 /\ UNCHANGED published

\* The handler returns nil, or the event could not be decoded and is skipped.
Handled ==
  /\ pc = "handle"
  /\ \E f \in {"handled", "unreadable"} : Settled(f)
  /\ pc' = "read"
  /\ UNCHANGED <<url, seq, sessionID, resumeURL, cancelled, heartbeatACK, link, beat, ackDue, server>>

HandlerFails ==
  /\ pc = "handle" /\ (MayBreak \/ cancelled)
  /\ Settled("refused")
  /\ EndSession
  /\ UNCHANGED <<seq, sessionID, heartbeatACK, server>>

\* op 11
ReadAck ==
  /\ Reads /\ ackDue
  /\ ackDue' = FALSE /\ heartbeatACK' = TRUE
  /\ UNCHANGED <<client, cancelled, link, beat, server, feed>>

\* op 1: Discord asks for a heartbeat; the answer clears heartbeatACK as well.
ReadHeartbeat ==
  /\ Reads
  /\ ackDue' = TRUE /\ heartbeatACK' = FALSE
  /\ UNCHANGED <<client, cancelled, link, beat, server, feed>>

\* op 7
ReadReconnect ==
  /\ Reads /\ MayBreak
  /\ EndSession
  /\ UNCHANGED <<seq, sessionID, hand, heartbeatACK, server, feed>>

\* op 9: not resumable when the session is gone; resumable when Discord only
\* asks to try again.
ForgetSession == sessionID' = 0 /\ seq' = 0

ReadInvalid ==
  /\ Reads
  /\ \/ due = "invalid" /\ ForgetSession
     \/ due = "none" /\ MayBreak /\ UNCHANGED <<seq, sessionID>>
  /\ EndSession
  /\ UNCHANGED <<hand, heartbeatACK, server, feed>>

\* The connection is closed, by either side or by the heartbeat, or the write
\* of the IDENTIFY fails.
ReadFails ==
  /\ pc \in {"hello", "start", "read"} /\ ~open
  /\ EndSession
  /\ UNCHANGED <<seq, sessionID, hand, heartbeatACK, server, feed>>

\* The loop sees the cancelled context, before its next read.
SeesCancel ==
  /\ pc = "read" /\ cancelled
  /\ EndSession
  /\ UNCHANGED <<seq, sessionID, hand, heartbeatACK, server, feed>>

-----------------------------------------------------------------------------
(* Run, between two sessions *)

NeverResumable == FALSE \* fault: every dial identifies
Resumable == sessionID # 0 /\ resumeURL

\* ctx.Err() # nil, ctx.Done()
NeverStopped == FALSE \* fault
Stopped == cancelled

Reconnect ==
  /\ pc = "ended" /\ ~Stopped
  /\ IF Resumable
       THEN url' = "resume" /\ UNCHANGED <<sessionID, seq>>
       ELSE url' = "gateway" /\ sessionID' = 0 /\ seq' = 0
  /\ pc' = "wait"
  /\ UNCHANGED <<resumeURL, hand, cancelled, heartbeatACK, link, beat, ackDue, server, feed>>

WaitOver ==
  /\ pc = "wait"
  /\ pc' = IF Stopped THEN "returned" ELSE "dial"
  /\ UNCHANGED <<url, seq, sessionID, resumeURL, hand, cancelled, heartbeatACK, link, beat, ackDue, server, feed>>

RunReturns ==
  /\ pc = "ended" /\ Stopped
  /\ pc' = "returned"
  /\ UNCHANGED <<url, seq, sessionID, resumeURL, hand, cancelled, heartbeatACK, link, beat, ackDue, server, feed>>

-----------------------------------------------------------------------------
(* heartbeatLoop, one for each connection *)

\* Its session has returned.
Orphaned(c) == c < conn \/ pc \in {"ended", "wait", "dial", "returned"}

Tick(c) ==
  /\ beat[c] = "idle" /\ heartbeatACK
  /\ beat' = [beat EXCEPT ![c] = "send"]
  /\ UNCHANGED <<client, cancelled, heartbeatACK, link, ackDue, server, feed>>

TickMissed(c) ==
  /\ beat[c] = "idle" /\ ~heartbeatACK /\ (c = conn /\ open => MayBreak)
  /\ beat' = [beat EXCEPT ![c] = "done"]
  /\ open' = (open /\ c # conn)
  /\ UNCHANGED <<client, cancelled, heartbeatACK, conn, silent, ackDue, server, feed>>

ClearNothing == UNCHANGED heartbeatACK \* fault: no silence is noticed
ClearAck == heartbeatACK' = FALSE

\* The heartbeat clears heartbeatACK before it finds out whether its connection
\* still takes the write.
Beat(c) ==
  /\ beat[c] = "send"
  /\ ClearAck
  /\ IF c = conn /\ open
       THEN ackDue' = TRUE /\ beat' = [beat EXCEPT ![c] = "idle"]
       ELSE beat' = [beat EXCEPT ![c] = "done"] /\ UNCHANGED ackDue
  /\ UNCHANGED <<client, cancelled, link, server, feed>>

BeatStops(c) ==
  /\ beat[c] = "idle" /\ (cancelled \/ Orphaned(c))
  /\ beat' = [beat EXCEPT ![c] = "done"]
  /\ UNCHANGED <<client, cancelled, heartbeatACK, link, ackDue, server, feed>>

-----------------------------------------------------------------------------
(* The environment *)

Publish == ~cancelled /\ Feed!Publish /\ UNCHANGED <<client, cancelled, heartbeatACK, link, beat, ackDue, server>>

\* The connection breaks, or Close is called.
Close ==
  /\ open /\ (MayBreak \/ cancelled)
  /\ open' = FALSE
  /\ UNCHANGED <<client, cancelled, heartbeatACK, conn, silent, beat, ackDue, server, feed>>

GoSilent ==
  /\ open /\ ~silent /\ MayBreak /\ ~cancelled
  /\ silent' = TRUE
  /\ UNCHANGED <<client, cancelled, heartbeatACK, conn, open, beat, ackDue, server, feed>>

\* Discord gives the session up while nobody is connected.
Expire ==
  /\ live # 0 /\ ~open /\ MayBreak /\ ~cancelled
  /\ live' = 0
  /\ UNCHANGED <<client, cancelled, heartbeatACK, link, beat, ackDue, sids, base, next, due, feed>>

Cancel ==
  /\ ~cancelled
  /\ cancelled' = TRUE
  /\ UNCHANGED <<client, heartbeatACK, link, beat, ackDue, server, feed>>

-----------------------------------------------------------------------------
Reading == ReadReady \/ ReadBadReady \/ ReadEvent \/ ReadInvalid \/ ReadFails \/ SeesCancel
Handling == Handled \/ HandlerFails
Between == Reconnect \/ WaitOver \/ RunReturns

\* What the goroutine of Run does when it is not kept waiting by Discord.
Run == Hello \/ Identify \/ Resume \/ Reading \/ Handling \/ Between

HeartbeatLoop(c) == Tick(c) \/ TickMissed(c) \/ Beat(c) \/ BeatStops(c)

Next == \/ Run \/ Dial \/ DialFails
        \/ ReadAck \/ ReadHeartbeat \/ ReadReconnect
        \/ \E c \in Conns : HeartbeatLoop(c)
        \/ Publish \/ Close \/ GoSilent \/ Expire \/ Cancel

\* Go runs every goroutine that can run; a dial that is tried again and again
\* succeeds; Discord answers, sends what it has, and closes a connection whose
\* client has stopped beating.
Fairness ==
  /\ SF_vars(Dial) /\ WF_vars(Run \/ (DialFails /\ cancelled)) /\ WF_vars(ReadAck)
  /\ \A c \in Conns : WF_vars(HeartbeatLoop(c))
  /\ WF_vars(Close /\ cancelled)

Spec == Init /\ [][Next]_vars /\ Fairness

-----------------------------------------------------------------------------
TypeOK ==
  /\ pc \in {"dial", "hello", "start", "read", "handle", "ended", "wait", "returned"}
  /\ url \in {"gateway", "resume"} /\ cancelled \in BOOLEAN
  /\ seq \in 0..(MaxEvents + 1) /\ sessionID \in 0..sids /\ resumeURL \in BOOLEAN /\ heartbeatACK \in BOOLEAN
  /\ hand \in 0..MaxEvents
  /\ conn \in 0..MaxConns /\ open \in BOOLEAN /\ silent \in BOOLEAN
  /\ beat \in [Conns -> {"none", "idle", "send", "done"}] /\ ackDue \in BOOLEAN
  /\ sids \in Nat /\ live \in 0..sids /\ base \in 0..published
  /\ next \in 1..(MaxEvents + 1) /\ due \in {"none", "ready", "invalid"}
  /\ published \in 0..MaxEvents /\ fate \in [1..MaxEvents -> Feed!Fates]

\* Whatever breaks, the events meet their fate once and in order: a resume
\* replays nothing that was handled and skips nothing that was not.
OnceAndInOrder == Feed!Spec

\* While the client holds a session, the number it would resume from divides
\* the events that met their fate from those it will still be sent; the one in
\* the handler's hands is on the far side already, so if the handler fails
\* nobody sends it again.
CursorHonest ==
  sessionID # 0 =>
    \A e \in 1..published :
      fate[e] = "pending" <=> (e > base + seq - 1 \/ e = hand)

\* What a session is resumed from holds in every state, whoever broke what.
CursorHolds == TypeOK /\ CursorHonest

\* A client never lets go of a session that Discord still keeps: broken, silent
\* and refused connections are followed by a RESUME of it.
KeepsALiveSession == [][sessionID # 0 /\ sessionID = live => sessionID' = sessionID]_vars

\* The connection fell silent before HELLO: no heartbeat runs yet, and the read
\* has no deadline and does not look at the context.
Deaf == pc = "hello" /\ open /\ silent

\* A published event does not stay undelivered: a connection that breaks is
\* replaced, one that falls silent is given up by its heartbeat, and a session
\* that is gone is replaced by a new one.
DeliveryGoesOn ==
  []<>(cancelled \/ Deaf \/ \A e \in 1..published : fate[e] # "pending")

\* After the context is cancelled Run returns, unless it waits in a read on a
\* silent connection.
RunEnds == cancelled ~> (pc = "returned" \/ silent)

=============================================================================
