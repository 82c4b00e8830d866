---------------------------- MODULE UserListing ----------------------------
(* Paged requests of the user client (internal/discord/userclient/            *)
(* userclient.go, transport.go): several goroutines list archived threads     *)
(* through one transport, which spaces requests out under a mutex, repeats a  *)
(* rate-limited one after the time Discord names, and gives up on anything    *)
(* else.  Discord is external: threads by the time they were archived, newest *)
(* first, and whatever status it answers with.                                *)
EXTENDS Naturals, FiniteSets, FiniteSetsExt

CONSTANTS Callers, None,
          Times,                \* when each thread was archived, in Unit-ths of a second
          Unit,
          ThreadPage,           \* 100 in the code
          Gap, Jitter           \* cfg.minGap, the largest jitter

ASSUME ListingBounds == /\ Times \subseteq Nat \ {0} /\ IsFiniteSet(Times) /\ None \notin Callers
                        /\ {Unit, ThreadPage, Gap} \subseteq Nat \ {0} /\ Jitter \in Nat

VARIABLES since, holder,        \* time since transport.lastReq; who has mu
          ctxDone,              \* the callers' context, of a sync or a tail repair, is cancelled
          call, left,           \* each caller; how long it still sleeps
          before, listed        \* the cursor, 0 for none, and the list so far

listVars == <<since, holder, ctxDone, call, left, before, listed>>

\* Longer ago makes no difference.
LongAgo == Gap + Jitter

ListInit ==
  /\ since = LongAgo /\ holder = None /\ ctxDone = FALSE
  /\ call = [c \in Callers |-> "request"] /\ left = [c \in Callers |-> 0]
  /\ before = [c \in Callers |-> 0] /\ listed = [c \in Callers |-> {}]

Goto(c, l) == call' = [call EXCEPT ![c] = l]

-----------------------------------------------------------------------------
(* throttle *)

Sleep(c) == \E j \in 0..Jitter :
  /\ call[c] = "request"
  /\ left' = [left EXCEPT ![c] = IF since < Gap + j THEN Gap + j - since ELSE 0]
  /\ Goto(c, "sleep")
  /\ UNCHANGED <<since, ctxDone, before, listed>>

SleepUnlocked(c) == Sleep(c) /\ UNCHANGED holder \* fault
Throttle(c) == holder = None /\ holder' = c /\ Sleep(c)

KeepLocked == UNCHANGED holder \* fault
Unlock == holder' = None

\* The sleep does not look at the context.
Pass(c) ==
  /\ call[c] = "sleep" /\ left[c] = 0
  /\ since' = 0
  /\ Unlock /\ Goto(c, "send")
  /\ UNCHANGED <<ctxDone, left, before, listed>>

-----------------------------------------------------------------------------
(* do *)

Second(t) == t \div Unit

\* The threads archived before the cursor, which is a whole second.
Older(c) == {t \in Times : before[c] # 0 => t < Unit * before[c]}
Newest(S) == {t \in S : Cardinality({u \in S : u > t}) < ThreadPage}
NothingMore(c) == FALSE \* fault: the first page only
HasMore(c) == Cardinality(Older(c)) > ThreadPage

\* before = ArchiveTimestamp.Format(time.RFC3339)
Cursor(t) == Second(t)

Answered(c) ==
  /\ call[c] = "send" /\ ~ctxDone
  /\ LET page == Newest(Older(c)) IN
       /\ listed' = [listed EXCEPT ![c] = @ \cup page]
       /\ IF page # {} /\ HasMore(c)
            THEN before' = [before EXCEPT ![c] = Cursor(Min(page))] /\ Goto(c, "request")
            ELSE Goto(c, "ok") /\ UNCHANGED before
  /\ UNCHANGED <<since, holder, ctxDone, left>>

\* 429 with retry_after: do waits and calls itself.
RateLimited(c) ==
  /\ call[c] = "send" /\ ~ctxDone
  /\ \E r \in 1..2 : left' = [left EXCEPT ![c] = r]
  /\ Goto(c, "backoff")
  /\ UNCHANGED <<since, holder, ctxDone, before, listed>>

Retry(c) ==
  /\ call[c] = "backoff" /\ left[c] = 0
  /\ Goto(c, "request")
  /\ UNCHANGED <<since, holder, ctxDone, left, before, listed>>

\* 401, 403, another status, a 429 that names no time, no connection, or the
\* context has ended; a request by itself ends within the 30 s of http.Client.
\* What was listed so far is dropped.
Fails(c) ==
  /\ call[c] = "send" \/ (call[c] = "backoff" /\ ctxDone)
  /\ Goto(c, "failed") /\ listed' = [listed EXCEPT ![c] = {}]
  /\ UNCHANGED <<since, holder, ctxDone, left, before>>

-----------------------------------------------------------------------------
Tick ==
  /\ since < LongAgo \/ \E c \in Callers : left[c] > 0
  /\ since' = Min({since + 1, LongAgo})
  /\ left' = [c \in Callers |-> IF left[c] > 0 THEN left[c] - 1 ELSE 0]
  /\ UNCHANGED <<holder, ctxDone, call, before, listed>>

\* The context has no deadline: it may be cancelled, and may never be.
ContextEnds == ~ctxDone /\ ctxDone' = TRUE /\ UNCHANGED <<since, holder, call, left, before, listed>>

Call(c) == Throttle(c) \/ Pass(c) \/ Answered(c) \/ RateLimited(c) \/ Retry(c) \/ Fails(c)

ListNext == Tick \/ ContextEnds \/ \E c \in Callers : Call(c)

\* Time passes, a goroutine that can go on does, and the mutex is handed over in
\* turn.  Nothing is assumed of Discord's answers nor of the context.
ListFairness ==
  /\ WF_listVars(Tick)
  /\ \A c \in Callers : WF_listVars(Call(c)) /\ SF_listVars(Throttle(c))

ListSpec == ListInit /\ [][ListNext]_listVars /\ ListFairness

-----------------------------------------------------------------------------
ListTypeOK ==
  /\ since \in 0..LongAgo /\ ctxDone \in BOOLEAN /\ holder \in Callers \cup {None}
  /\ call \in [Callers -> {"request", "sleep", "send", "backoff", "ok", "failed"}]
  /\ left \in [Callers -> 0..(LongAgo + 2)]
  /\ before \in [Callers -> 0..Second(Max(Times \cup {0}))] /\ listed \in [Callers -> SUBSET Times]

\* Two goroutines never leave the throttle closer together than the minimum gap,
\* although each computes its sleep from what the other left.
GapKept == [][\A c \in Callers : call[c] = "sleep" /\ call'[c] = "send" => since >= Gap]_listVars

\* A list that is returned lacks only threads archived in the same second as one
\* it has: the cursor of the next page drops the fraction of the second.
OnlySameSecondMissed ==
  \A c \in Callers : call[c] = "ok" =>
    \A t \in Times \ listed[c] : \E o \in listed[c] : t < o /\ Second(t) = Second(o)

ListsHonest == ListTypeOK /\ OnlySameSecondMissed

\* Every call ends, whoever holds the throttle and whatever Discord answers, with
\* one exception: do calls itself after every 429 that names a time, and so a call
\* that Discord goes on rate limiting for ever, under a context nobody cancels,
\* never ends.  It is the only way: once the context has ended every call ends,
\* and a call that is rate limited only so often ends without it.
CallsEnd == \A c \in Callers :
  <>(call[c] \in {"ok", "failed"}) \/ []<>(call[c] = "backoff" /\ ~ctxDone)
=============================================================================
