--------------------------- MODULE GatewayProofs ---------------------------
(***************************************************************************)
(* The gateway connection implements EventFeed, its cursor holds, and it   *)
(* lets go of no session Discord keeps, for any number of events and       *)
(* connections.                                                            *)
(*                                                                         *)
(* The cursor alone is not inductive: that a resume meets the right events *)
(* depends on the READY that is still to come, on what the handler has in  *)
(* hand, and on the session number being the last one Discord gave.        *)
(***************************************************************************)
EXTENDS Gateway, TLAPS

Evs == 1..MaxEvents

\* Only what was published can have met its fate.
Unsent == \A e \in Evs : e > published => fate[e] = "pending"

\* The cursor, with the reasons it holds: the session is Discord's last one.
Cursor ==
  sessionID # 0 =>
    /\ sessionID = sids /\ resumeURL
    /\ seq >= 1 /\ base + seq - 1 =< published
    /\ \A e \in Evs : fate[e] = "pending" <=> (e > base + seq - 1 \/ e = hand)

\* Between an IDENTIFY and its READY nothing is sent.
Fresh ==
  due = "ready" =>
    /\ sessionID = 0 /\ sids # 0 /\ next = base + 1
    /\ \A e \in Evs : fate[e] = "pending" <=> e > base

\* Discord sends what the cursor says comes next.
InStep == pc \in {"read", "handle"} /\ due = "none" => sessionID # 0 /\ next = base + seq

InHand ==
  IF pc = "handle"
  THEN due = "none" /\ hand \in 1..published /\ hand = base + seq - 1
  ELSE hand = 0

\* A session is only told to be gone when it is.
Gone == due = "invalid" => sessionID # live \/ sessionID = 0

IInv == TypeOK /\ Unsent /\ Cursor /\ Fresh /\ InStep /\ InHand /\ Gone

core == <<seq, sessionID, resumeURL, hand, sids, base, next, due, feed>>

----------------------------------------------------------------------------

LEMMA InitIInv == Init => IInv
<1> SUFFICES ASSUME Init PROVE IInv
  OBVIOUS
<1>1. /\ published = 0 /\ fate = [e \in Evs |-> "pending"]
  BY DEF Init, Feed!Init, Feed!Events, Evs
<1>2. TypeOK
  <2>1. fate \in [1..MaxEvents -> Feed!Fates]
    BY <1>1 DEF Evs, Feed!Fates
  <2>2. /\ 0 \in 0..MaxEvents /\ 0 \in 0..(MaxEvents + 1) /\ 0 \in 0..MaxConns
        /\ 1 \in 1..(MaxEvents + 1) /\ 0 \in 0..0 /\ 0 \in Nat
    BY GatewayBounds
  <2> QED BY <1>1, <2>1, <2>2, Zenon DEF Init, TypeOK
<1>3. Unsent /\ Cursor /\ Fresh /\ InStep /\ InHand /\ Gone
  BY <1>1 DEF Init, Unsent, Cursor, Fresh, InStep, InHand, Gone
<1> QED BY <1>2, <1>3 DEF IInv

\* A step of the loop, the heartbeats or the network that leaves the cursor,
\* Discord's side and the events alone.
LEMMA QuietStep ==
  ASSUME IInv, TypeOK', UNCHANGED core, live' \in {live, 0},
         pc' = pc \/ (pc # "handle" /\ pc' \notin {"read", "handle"})
  PROVE  IInv'
<1>1. UNCHANGED <<seq, sessionID, resumeURL, hand, sids, base, next, due, published, fate>>
  BY DEF core, feed
<1>2. Unsent' /\ Cursor' /\ Fresh' /\ Gone'
  BY <1>1 DEF IInv, Unsent, Cursor, Fresh, Gone
<1>3. InStep' /\ InHand'
  BY <1>1 DEF IInv, InStep, InHand
<1> QED BY <1>2, <1>3 DEF IInv

----------------------------------------------------------------------------
(* The quiet steps.                                                        *)

LEMMA LoopQuiet ==
  ASSUME IInv, Hello \/ DialFails \/ ReadReconnect \/ ReadFails \/ SeesCancel \/ WaitOver \/ RunReturns
  PROVE  IInv'
<1>1. /\ UNCHANGED core /\ live' = live /\ pc # "handle"
      /\ pc' \in {"dial", "start", "ended", "returned"}
      /\ UNCHANGED <<url, cancelled, heartbeatACK, conn, beat>>
      /\ open' \in {open, FALSE} /\ silent' \in {silent, FALSE} /\ ackDue' \in {ackDue, FALSE}
  <2>1. CASE Hello
    BY <2>1 DEF Hello, core, server, link, feed
  <2>2. CASE DialFails
    BY <2>2 DEF DialFails, core, server, link, feed
  <2>3. CASE ReadReconnect
    BY <2>3 DEF ReadReconnect, Reads, EndSession, core, server, feed
  <2>4. CASE ReadFails
    BY <2>4 DEF ReadFails, EndSession, core, server, feed
  <2>5. CASE SeesCancel
    BY <2>5 DEF SeesCancel, EndSession, core, server, feed
  <2>6. CASE WaitOver
    BY <2>6 DEF WaitOver, core, server, link, feed
  <2>7. CASE RunReturns
    BY <2>7 DEF RunReturns, core, server, link, feed
  <2> QED BY <2>1, <2>2, <2>3, <2>4, <2>5, <2>6, <2>7
<1>2. TypeOK'
  <2>1. open' \in BOOLEAN /\ silent' \in BOOLEAN /\ ackDue' \in BOOLEAN
    BY <1>1 DEF IInv, TypeOK
  <2>2. pc' \in {"dial", "hello", "start", "read", "handle", "ended", "wait", "returned"}
    BY <1>1
  <2> QED BY <1>1, <2>1, <2>2, Zenon DEF IInv, TypeOK, core, feed
<1> QED BY <1>1, <1>2, QuietStep

LEMMA NetworkQuiet ==
  ASSUME IInv,
         ReadAck \/ ReadHeartbeat \/ Close \/ GoSilent \/ Expire \/ Cancel
           \/ \E c \in Conns : HeartbeatLoop(c)
  PROVE  IInv'
<1>1. /\ UNCHANGED core /\ live' \in {live, 0} /\ UNCHANGED <<pc, url, conn>>
      /\ cancelled' \in BOOLEAN /\ heartbeatACK' \in BOOLEAN /\ open' \in BOOLEAN
      /\ silent' \in BOOLEAN /\ ackDue' \in BOOLEAN
      /\ beat' \in [Conns -> {"none", "idle", "send", "done"}]
  <2> USE DEF IInv, TypeOK, core, client, server, link, feed
  <2>1. CASE ReadAck
    BY <2>1 DEF ReadAck
  <2>2. CASE ReadHeartbeat
    BY <2>2 DEF ReadHeartbeat
  <2>3. CASE Close
    BY <2>3 DEF Close
  <2>4. CASE GoSilent
    BY <2>4 DEF GoSilent
  <2>5. CASE Expire
    BY <2>5 DEF Expire
  <2>6. CASE Cancel
    BY <2>6 DEF Cancel
  <2>7. ASSUME NEW c \in Conns, Tick(c)
        PROVE  /\ UNCHANGED <<client, cancelled, heartbeatACK, link, ackDue, server, feed>>
               /\ beat' \in [Conns -> {"none", "idle", "send", "done"}]
    BY <2>7 DEF Tick
  <2>8. ASSUME NEW c \in Conns, TickMissed(c)
        PROVE  /\ UNCHANGED <<client, cancelled, heartbeatACK, conn, silent, ackDue, server, feed>>
               /\ open' \in BOOLEAN /\ beat' \in [Conns -> {"none", "idle", "send", "done"}]
    BY <2>8 DEF TickMissed
  <2>9. ASSUME NEW c \in Conns, Beat(c)
        PROVE  /\ UNCHANGED <<client, cancelled, link, server, feed>>
               /\ ackDue' \in BOOLEAN /\ heartbeatACK' \in BOOLEAN
               /\ beat' \in [Conns -> {"none", "idle", "send", "done"}]
    BY <2>9 DEF Beat, ClearAck
  <2>10. ASSUME NEW c \in Conns, BeatStops(c)
         PROVE  /\ UNCHANGED <<client, cancelled, heartbeatACK, link, ackDue, server, feed>>
                /\ beat' \in [Conns -> {"none", "idle", "send", "done"}]
    BY <2>10 DEF BeatStops
  <2> QED BY <2>1, <2>2, <2>3, <2>4, <2>5, <2>6, <2>7, <2>8, <2>9, <2>10 DEF HeartbeatLoop
<1>2. TypeOK'
  BY <1>1 DEF IInv, TypeOK, core, feed
<1> QED BY <1>1, <1>2, QuietStep

----------------------------------------------------------------------------
(* The steps that matter.                                                  *)

LEMMA DialStep == ASSUME IInv, Dial PROVE IInv'
<1>1. TypeOK'
  <2>1. conn' \in 0..MaxConns
    BY GatewayBounds DEF IInv, TypeOK, Dial
  <2> QED BY <2>1, Zenon DEF IInv, TypeOK, Dial, feed
<1>2. Unsent' /\ Cursor' /\ Fresh' /\ InStep' /\ InHand' /\ Gone'
  BY DEF IInv, Unsent, Cursor, Fresh, InStep, InHand, Gone, Dial, feed
<1> QED BY <1>1, <1>2 DEF IInv

LEMMA IdentifyStep == ASSUME IInv, Identify PROVE IInv'
<1>1. /\ pc = "start" /\ pc' = "read" /\ sessionID = 0 /\ hand = 0
      /\ sids' = sids + 1 /\ live' = sids + 1 /\ base' = published /\ next' = published + 1
      /\ due' = "ready"
      /\ UNCHANGED <<url, seq, sessionID, resumeURL, hand, cancelled, heartbeatACK, conn, open,
                     silent, ackDue, published>>
      /\ beat' = [beat EXCEPT ![conn] = "idle"]
  BY DEF Identify, Started, Feed!MissTheRest, IInv, InHand, link
<1>2. fate' = [e \in Evs |-> IF e =< published /\ fate[e] = "pending" THEN "missed" ELSE fate[e]]
  BY DEF Identify, Feed!MissTheRest, Feed!Events, Evs
<1>3. fate' \in [Evs -> Feed!Fates]
  BY <1>2 DEF IInv, TypeOK, Feed!Fates, Evs
<1>4. TypeOK'
  <2>1. /\ published \in Nat /\ MaxEvents \in Nat /\ published =< MaxEvents /\ sids \in Nat
    BY GatewayBounds DEF IInv, TypeOK
  <2>2. /\ sids' \in Nat /\ live' \in 0..sids' /\ sessionID' \in 0..sids'
        /\ base' \in 0..published' /\ next' \in 1..(MaxEvents + 1)
    BY <1>1, <2>1
  <2> QED BY <1>1, <1>3, <2>2 DEF IInv, TypeOK, Evs
<1>5. \A e \in Evs : fate'[e] = "pending" <=> e > published
  <2>1. published \in Nat /\ Evs \subseteq Nat
    BY GatewayBounds DEF IInv, TypeOK, Evs
  <2> QED BY <1>2, <2>1 DEF IInv, Unsent
<1>6. Unsent' /\ Fresh'
  <2>1. sids' # 0
    BY <1>1 DEF IInv, TypeOK
  <2> QED BY <1>1, <1>5, <2>1 DEF Unsent, Fresh
<1>7. Cursor' /\ InStep' /\ InHand' /\ Gone'
  BY <1>1 DEF Cursor, InStep, InHand, Gone
<1> QED BY <1>4, <1>6, <1>7 DEF IInv

LEMMA ResumeStep == ASSUME IInv, Resume PROVE IInv'
<1>1. /\ pc = "start" /\ pc' = "read" /\ sessionID # 0 /\ hand = 0
      /\ \/ next' = base + seq /\ due' = "none"
         \/ sessionID # live /\ due' = "invalid" /\ next' = next
      /\ UNCHANGED <<url, seq, sessionID, resumeURL, hand, cancelled, heartbeatACK, conn, open,
                     silent, ackDue, sids, live, base, published, fate>>
      /\ beat' = [beat EXCEPT ![conn] = "idle"]
  BY DEF Resume, Started, IInv, InHand, link, feed
<1>2. TypeOK'
  <2>1. base + seq \in 1..(MaxEvents + 1)
    BY <1>1, GatewayBounds DEF IInv, TypeOK, Cursor
  <2> QED BY <1>1, <2>1 DEF IInv, TypeOK
<1>3. Unsent' /\ Cursor' /\ Fresh'
  BY <1>1 DEF IInv, Unsent, Cursor, Fresh
<1>4. InStep' /\ InHand' /\ Gone'
  BY <1>1 DEF InStep, InHand, Gone
<1> QED BY <1>2, <1>3, <1>4 DEF IInv

LEMMA ReadyStep == ASSUME IInv, ReadReady PROVE IInv'
<1>1. /\ pc = "read" /\ due = "ready" /\ due' = "none" /\ seq' = 1 /\ sessionID' = sids /\ resumeURL' = TRUE
      /\ UNCHANGED <<pc, url, hand, cancelled, heartbeatACK, conn, open, silent, beat, ackDue,
                     sids, live, base, next, published, fate>>
  BY DEF ReadReady, Reads, link, feed
<1>2. next = base + 1 /\ hand = 0 /\ \A e \in Evs : fate[e] = "pending" <=> e > base
  BY <1>1 DEF IInv, Fresh, InHand
<1>3. TypeOK'
  BY <1>1, GatewayBounds DEF IInv, TypeOK
<1>4. base \in Nat /\ published \in Nat /\ base =< published /\ Evs \subseteq Nat
  BY GatewayBounds DEF IInv, TypeOK, Evs
<1>5. \A e \in Evs : fate'[e] = "pending" <=> (e > base' + seq' - 1 \/ e = hand')
  <2> SUFFICES ASSUME NEW e \in Evs PROVE fate[e] = "pending" <=> (e > base + 1 - 1 \/ e = 0)
    BY <1>1, <1>2
  <2>1. e \in Nat /\ e # 0
    BY GatewayBounds DEF Evs
  <2> QED BY <1>2, <1>4, <2>1
<1>6. Cursor'
  BY <1>1, <1>4, <1>5 DEF Cursor
<1>7. Unsent' /\ Fresh' /\ Gone' /\ InHand'
  BY <1>1, <1>2 DEF IInv, Unsent, Fresh, Gone, InHand
<1>8. InStep'
  <2>1. sids # 0
    BY <1>1 DEF IInv, Fresh
  <2> QED BY <1>1, <1>2, <2>1 DEF InStep
<1> QED BY <1>3, <1>6, <1>7, <1>8 DEF IInv

LEMMA BadReadyStep == ASSUME IInv, ReadBadReady PROVE IInv'
<1>1. /\ pc = "read" /\ pc' = "ended" /\ due = "ready" /\ due' = "none" /\ seq' = 1 /\ sessionID = 0
      /\ open' = FALSE /\ silent' = FALSE /\ ackDue' = FALSE
      /\ UNCHANGED <<url, sessionID, resumeURL, hand, cancelled, heartbeatACK, conn, beat,
                     sids, live, base, next, published, fate>>
  BY DEF ReadBadReady, Reads, EndSession, feed, IInv, Fresh
<1>2. TypeOK'
  <2>1. seq' \in 0..(MaxEvents + 1) /\ sessionID' \in 0..sids'
    BY <1>1, GatewayBounds DEF IInv, TypeOK
  <2>2. /\ pc' \in {"dial", "hello", "start", "read", "handle", "ended", "wait", "returned"}
        /\ due' \in {"none", "ready", "invalid"}
    BY <1>1 DEF IInv, TypeOK
  <2> QED BY <1>1, <2>1, <2>2, Zenon DEF IInv, TypeOK
<1>3. Unsent' /\ Cursor' /\ Fresh' /\ InStep' /\ InHand' /\ Gone'
  BY <1>1 DEF IInv, Unsent, Cursor, Fresh, InStep, InHand, Gone
<1> QED BY <1>2, <1>3 DEF IInv

LEMMA EventStep == ASSUME IInv, ReadEvent PROVE IInv'
<1>1. /\ pc = "read" /\ pc' = "handle" /\ due = "none" /\ next =< published
      /\ seq' = next - base + 1 /\ hand' = next /\ next' = next + 1
      /\ UNCHANGED <<url, sessionID, resumeURL, cancelled, heartbeatACK, conn, open, silent, beat,
                     ackDue, sids, live, base, due, published, fate>>
  BY DEF ReadEvent, Reads, TakeSeq, link, feed
<1>2. /\ sessionID # 0 /\ next = base + seq /\ hand = 0 /\ sessionID = sids /\ resumeURL /\ seq >= 1
      /\ \A e \in Evs : fate[e] = "pending" <=> (e > base + seq - 1 \/ e = hand)
  BY <1>1 DEF IInv, InStep, InHand, Cursor
<1>3. /\ base \in Nat /\ published \in Nat /\ seq \in Nat /\ MaxEvents \in Nat /\ published =< MaxEvents
      /\ next \in Nat /\ next >= 1
  BY GatewayBounds DEF IInv, TypeOK
<1>4. seq' = seq + 1 /\ hand' = base + seq
  BY <1>1, <1>2, <1>3
<1>5. TypeOK'
  <2>1. seq' \in 0..(MaxEvents + 1) /\ hand' \in 0..MaxEvents /\ next' \in 1..(MaxEvents + 1)
    BY <1>1, <1>2, <1>3, <1>4
  <2> QED BY <1>1, <2>1 DEF IInv, TypeOK
<1>6. Cursor'
  <2>1. \A e \in Evs : fate[e] = "pending" <=> (e > base + (seq + 1) - 1 \/ e = base + seq)
    <3> SUFFICES ASSUME NEW e \in Evs
                 PROVE  fate[e] = "pending" <=> (e > base + (seq + 1) - 1 \/ e = base + seq)
      OBVIOUS
    <3>1. e \in Nat /\ e # 0
      BY GatewayBounds DEF Evs
    <3>2. fate[e] = "pending" <=> e > base + seq - 1
      BY <1>2, <3>1
    <3> QED BY <1>3, <3>1, <3>2
  <2> QED BY <1>1, <1>2, <1>3, <1>4, <2>1 DEF Cursor
<1>7. InStep' /\ InHand'
  BY <1>1, <1>2, <1>3, <1>4 DEF InStep, InHand
<1>8. Unsent' /\ Fresh' /\ Gone'
  BY <1>1 DEF IInv, Unsent, Fresh, Gone
<1> QED BY <1>5, <1>6, <1>7, <1>8 DEF IInv

\* The event in hand meets its fate, and the session goes on or ends.
LEMMA SettleStep ==
  ASSUME IInv, pc = "handle", pc' \in {"read", "ended"},
         NEW f \in Feed!Fates \ {"pending"}, Settled(f),
         open' \in BOOLEAN, silent' \in BOOLEAN, ackDue' \in BOOLEAN,
         UNCHANGED <<url, seq, sessionID, resumeURL, cancelled, heartbeatACK, conn, beat, server>>
  PROVE  IInv'
<1>1. /\ hand \in 1..published /\ hand = base + seq - 1 /\ due = "none"
      /\ sessionID # 0 /\ next = base + seq
  BY DEF IInv, InHand, InStep
<1>2. /\ fate' = [fate EXCEPT ![hand] = f] /\ hand' = 0
      /\ UNCHANGED <<published, sids, live, base, next, due>>
  BY DEF Settled, server
<1>3. /\ base \in Nat /\ published \in Nat /\ seq \in Nat /\ MaxEvents \in Nat /\ published =< MaxEvents
      /\ fate \in [Evs -> Feed!Fates]
  BY GatewayBounds DEF IInv, TypeOK, Evs
<1>4. fate' \in [Evs -> Feed!Fates] /\ \A e \in Evs : fate'[e] = IF e = hand THEN f ELSE fate[e]
  BY <1>2, <1>3
<1>5. TypeOK'
  BY <1>2, <1>3, <1>4 DEF IInv, TypeOK, Evs
<1>6. Cursor'
  <2>1. \A e \in Evs : fate'[e] = "pending" <=> (e > base + seq - 1 \/ e = 0)
    <3> SUFFICES ASSUME NEW e \in Evs PROVE fate'[e] = "pending" <=> (e > base + seq - 1 \/ e = 0)
      OBVIOUS
    <3>1. e \in Nat /\ e # 0
      BY <1>3 DEF Evs
    <3>2. fate[e] = "pending" <=> (e > base + seq - 1 \/ e = hand)
      BY <1>1 DEF IInv, Cursor
    <3>3. f # "pending"
      OBVIOUS
    <3> QED BY <1>1, <1>3, <1>4, <3>1, <3>2, <3>3
  <2> QED BY <1>2, <2>1 DEF IInv, Cursor
<1>7. Unsent'
  BY <1>1, <1>2, <1>3, <1>4 DEF IInv, Unsent, Evs
<1>8. Fresh' /\ InStep' /\ InHand' /\ Gone'
  BY <1>1, <1>2 DEF Fresh, InStep, InHand, Gone
<1> QED BY <1>5, <1>6, <1>7, <1>8 DEF IInv

LEMMA HandlingStep == ASSUME IInv, Handling PROVE IInv'
<1>1. CASE Handled
  <2>1. PICK f \in {"handled", "unreadable"} : Settled(f)
    BY <1>1 DEF Handled
  <2> QED BY <1>1, <2>1, SettleStep DEF Handled, IInv, TypeOK, Feed!Fates, link
<1>2. CASE HandlerFails
  BY <1>2, SettleStep DEF HandlerFails, EndSession, Feed!Fates
<1> QED BY <1>1, <1>2 DEF Handling

LEMMA InvalidStep == ASSUME IInv, ReadInvalid PROVE IInv'
<1>1. /\ pc = "read" /\ pc' = "ended" /\ hand = 0
      /\ \/ due = "invalid" /\ sessionID' = 0 /\ seq' = 0
         \/ due = "none" /\ sessionID' = sessionID /\ seq' = seq
      /\ open' = FALSE /\ silent' = FALSE /\ ackDue' = FALSE
      /\ UNCHANGED <<url, resumeURL, hand, cancelled, heartbeatACK, conn, beat,
                     sids, live, base, next, due, published, fate>>
  BY DEF ReadInvalid, Reads, EndSession, ForgetSession, server, feed, IInv, InHand
<1>2. TypeOK'
  <2>1. seq' \in 0..(MaxEvents + 1) /\ sessionID' \in 0..sids'
    BY <1>1, GatewayBounds DEF IInv, TypeOK
  <2>2. /\ pc' \in {"dial", "hello", "start", "read", "handle", "ended", "wait", "returned"}
        /\ due' \in {"none", "ready", "invalid"}
    BY <1>1 DEF IInv, TypeOK
  <2> QED BY <1>1, <2>1, <2>2, Zenon DEF IInv, TypeOK
<1>3. Unsent' /\ Cursor' /\ Fresh' /\ InStep' /\ InHand' /\ Gone'
  BY <1>1 DEF IInv, Unsent, Cursor, Fresh, InStep, InHand, Gone
<1> QED BY <1>2, <1>3 DEF IInv

LEMMA ReconnectStep == ASSUME IInv, Reconnect PROVE IInv'
<1>1. /\ pc = "ended" /\ pc' = "wait" /\ hand = 0 /\ url' \in {"gateway", "resume"}
      /\ (sessionID' = sessionID /\ seq' = seq) \/ (sessionID' = 0 /\ seq' = 0)
      /\ UNCHANGED <<resumeURL, hand, cancelled, heartbeatACK, conn, open, silent, beat, ackDue,
                     sids, live, base, next, due, published, fate>>
  BY DEF Reconnect, server, link, feed, IInv, InHand
<1>2. TypeOK'
  BY <1>1, GatewayBounds DEF IInv, TypeOK
<1>3. Unsent' /\ Cursor' /\ Fresh' /\ InStep' /\ InHand' /\ Gone'
  BY <1>1 DEF IInv, Unsent, Cursor, Fresh, InStep, InHand, Gone
<1> QED BY <1>2, <1>3 DEF IInv

LEMMA PublishStep == ASSUME IInv, Publish PROVE IInv'
<1>1. /\ published < MaxEvents /\ published' = published + 1
      /\ UNCHANGED <<pc, url, seq, sessionID, resumeURL, hand, cancelled, heartbeatACK, conn, open,
                     silent, beat, ackDue, sids, live, base, next, due, fate>>
  BY DEF Publish, Feed!Publish, client, server, link
<1>2. /\ published \in Nat /\ MaxEvents \in Nat /\ base \in Nat /\ seq \in Nat /\ Evs \subseteq Nat
      /\ base =< published
  BY GatewayBounds DEF IInv, TypeOK, Evs
<1>3. TypeOK'
  BY <1>1, <1>2 DEF IInv, TypeOK
<1>4. Unsent' /\ Cursor' /\ InHand'
  BY <1>1, <1>2 DEF IInv, Unsent, Cursor, InHand
<1>5. Fresh' /\ InStep' /\ Gone'
  BY <1>1 DEF IInv, Fresh, InStep, Gone
<1> QED BY <1>3, <1>4, <1>5 DEF IInv

LEMMA IInvStep == IInv /\ [Next]_vars => IInv'
<1> SUFFICES ASSUME IInv, [Next]_vars PROVE IInv'
  OBVIOUS
<1>1. CASE UNCHANGED vars
  <2>1. UNCHANGED core /\ pc' = pc /\ live' = live
    BY <1>1 DEF vars, core, client, server, feed
  <2>2. TypeOK'
    BY <1>1 DEF IInv, TypeOK, vars, client, link, server, feed
  <2> QED BY <2>1, <2>2, QuietStep
<1>2. CASE Run
  BY <1>2, LoopQuiet, IdentifyStep, ResumeStep, ReadyStep, BadReadyStep, EventStep, InvalidStep,
     HandlingStep, ReconnectStep DEF Run, Reading, Between
<1>3. CASE ~Run /\ Next
  BY <1>3, LoopQuiet, NetworkQuiet, DialStep, PublishStep DEF Next
<1> QED BY <1>1, <1>2, <1>3

LEMMA IInvAlways == Spec => []IInv
BY InitIInv, IInvStep, PTL DEF Spec

----------------------------------------------------------------------------
(* Theorems.                                                               *)

\* gateway.go:105-330: what the next RESUME names divides the events that met
\* their fate from those that are still sent, in every state.
THEOREM CursorAlwaysHolds == Spec => []CursorHolds
<1>1. ASSUME IInv PROVE CursorHolds
  <2>1. 1..published \subseteq Evs
    BY <1>1, GatewayBounds DEF IInv, TypeOK, Evs
  <2> QED BY <1>1, <2>1 DEF IInv, Cursor, CursorHolds, CursorHonest
<1> QED BY <1>1, IInvAlways, PTL

\* gateway.go:105-330: broken and silent connections, refused events, lost
\* sessions and unreadable payloads notwithstanding, events meet their fate
\* once and in order.
THEOREM GatewayImplementsFeed == Spec => OnceAndInOrder
<1>1. Init => Feed!Init
  BY DEF Init
<1>2. ASSUME IInv, [Next]_vars PROVE [Feed!Next]_<<published, fate>>
  <2>1. CASE UNCHANGED feed
    BY <2>1 DEF feed
  <2>2. CASE Publish
    BY <2>2 DEF Publish, Feed!Next
  <2>3. CASE Identify
    BY <2>3 DEF Identify, Feed!Next
  <2>4. CASE Handling
    <3>1. PICK f \in Feed!Fates \ {"pending"} : Settled(f)
      BY <2>4 DEF Handling, Handled, HandlerFails, Feed!Fates
    <3>2. /\ hand \in Evs /\ hand =< published /\ hand = base + seq - 1
          /\ \A e \in Evs : fate[e] = "pending" <=> (e > base + seq - 1 \/ e = hand)
      <4>1. pc = "handle"
        BY <2>4 DEF Handling, Handled, HandlerFails
      <4>2. sessionID # 0 /\ hand \in 1..published /\ hand = base + seq - 1
        BY <1>2, <4>1 DEF IInv, InHand, InStep
      <4>3. published \in Nat /\ MaxEvents \in Nat /\ published =< MaxEvents
        BY <1>2, GatewayBounds DEF IInv, TypeOK
      <4> QED BY <1>2, <4>2, <4>3 DEF IInv, Cursor, Evs
    <3>3. \A d \in Evs : d < hand => fate[d] # "pending"
      BY <3>2, GatewayBounds DEF Evs
    <3>4. Feed!Settle(hand)
      BY <3>1, <3>2, <3>3 DEF Feed!Settle, Feed!Events, Evs, Settled
    <3> QED BY <3>2, <3>4 DEF Feed!Next, Feed!Events, Evs
  <2>5. CASE Next /\ ~Publish /\ ~Identify /\ ~Handling
    <3>1. UNCHANGED feed
      BY <2>5 DEF Next, Run, Reading, Between, HeartbeatLoop, Hello, Resume, ReadReady, ReadBadReady,
         ReadEvent, ReadInvalid, ReadFails, SeesCancel, Reconnect, WaitOver, RunReturns, Dial,
         DialFails, ReadAck, ReadHeartbeat, ReadReconnect, Tick, TickMissed, Beat, BeatStops, Close,
         GoSilent, Expire, Cancel
    <3> QED BY <3>1, <2>1
  <2>6. CASE UNCHANGED vars
    BY <2>6 DEF vars, feed
  <2> QED BY <1>2, <2>1, <2>2, <2>3, <2>4, <2>5, <2>6
<1> QED BY <1>1, <1>2, IInvAlways, PTL DEF Spec, OnceAndInOrder, Feed!Spec

\* gateway.go:118-150, 335-360: the client forgets a session only when Discord
\* has given it up.
THEOREM LiveSessionKept == Spec => KeepsALiveSession
<1>1. ASSUME IInv, Next, sessionID # 0, sessionID = live PROVE sessionID' = sessionID
  <2>1. CASE ReadReady \/ ReadBadReady
    BY <1>1, <2>1 DEF IInv, Fresh, ReadReady, ReadBadReady
  <2>2. CASE ReadInvalid
    BY <1>1, <2>2 DEF IInv, Gone, ReadInvalid
  <2>3. CASE Reconnect
    BY <1>1, <2>3 DEF IInv, Cursor, Reconnect, Resumable
  <2>4. CASE Handling
    BY <2>4 DEF Handling, Handled, HandlerFails
  <2>5. CASE ~(ReadReady \/ ReadBadReady \/ ReadInvalid \/ Reconnect \/ Handling)
    BY <1>1, <2>5 DEF Next, Run, Reading, Between, HeartbeatLoop, Hello, Identify, Resume, ReadEvent,
       ReadFails, SeesCancel, WaitOver, RunReturns, Dial, DialFails, ReadAck, ReadHeartbeat,
       ReadReconnect, Tick, TickMissed, Beat, BeatStops, Publish, Close, GoSilent, Expire, Cancel, client
  <2> QED BY <2>1, <2>2, <2>3, <2>4, <2>5
<1>2. ASSUME IInv, [Next]_vars PROVE [sessionID # 0 /\ sessionID = live => sessionID' = sessionID]_vars
  BY <1>1, <1>2
<1> QED BY <1>2, IInvAlways, PTL DEF Spec, KeepsALiveSession

=============================================================================
