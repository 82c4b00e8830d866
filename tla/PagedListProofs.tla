-------------------------- MODULE PagedListProofs --------------------------
(* The lists the clients read in pages, the members of a guild                *)
(* (MemberRefresh) and the archived threads of a channel (UserListing), have  *)
(* what they should, for every page size and any number of entries.           *)
(*                                                                            *)
(* Members: the list of a refresh agrees with Discord up to the cursor about  *)
(* whoever has not changed under it; and of a user who is not in doubt at     *)
(* most one event is on its way, the one that tells how it is.                *)
(* Threads: what is not in the list is behind the cursor, or in one second    *)
(* with a thread of the list; and a caller that sleeps holds the transport    *)
(* and sleeps until the gap is kept.                                          *)
EXTENDS MemberRefresh, UserListing, FiniteSetTheorems, SequenceTheorems, WellFoundedInduction, TLAPS

-----------------------------------------------------------------------------
(* Pages of numbers *)

\* A non-empty set of naturals has a least element.
LEMMA LeastExists ==
  ASSUME NEW S \in SUBSET Nat, S # {}
  PROVE  \E m \in S : \A n \in S : m =< n
<1>1. PICK m \in S : \A n \in S : ~ (<<n, m>> \in OpToRel(<, Nat))
  BY NatLessThanWellFounded, WFMin
<1>2. ASSUME NEW n \in S PROVE m =< n
  <2>1. n < m => <<n, m>> \in OpToRel(<, Nat)
    BY Zenon DEF OpToRel
  <2>2. m \in Nat /\ n \in Nat
    OBVIOUS
  <2>3. ~ (n < m)
    BY <1>1, <2>1
  <2> QED BY <2>2, <2>3
<1> QED BY <1>2

\* A finite non-empty set of naturals has a greatest element: of the sizes
\* such a set without one might have, take the least.
LEMMA GreatestExists ==
  ASSUME NEW S \in SUBSET Nat, IsFiniteSet(S), S # {}
  PROVE  \E m \in S : \A n \in S : m >= n
<1> DEFINE Endless(T) == IsFiniteSet(T) /\ T # {} /\ ~ \E m \in T : \A n \in T : m >= n
           Sizes == {k \in Nat : \E T \in SUBSET Nat : Endless(T) /\ Cardinality(T) = k}
<1>1. SUFFICES ASSUME Endless(S) PROVE FALSE
  OBVIOUS
<1>2. Cardinality(S) \in Sizes
  BY <1>1, FS_CardinalityType
<1>3. PICK k \in Sizes : \A l \in Sizes : k =< l
  <2>1. Sizes \in SUBSET Nat /\ Sizes # {}
    BY <1>2
  <2> HIDE DEF Sizes
  <2> QED BY <2>1, LeastExists
<1>4. PICK T \in SUBSET Nat : Endless(T) /\ Cardinality(T) = k
  OBVIOUS
<1>5. PICK x \in T : TRUE
  BY <1>4
<1> DEFINE Less == T \ {x}
<1>6. IsFiniteSet(Less) /\ Cardinality(Less) = k - 1 /\ k \in Nat
  BY <1>4, FS_RemoveElement
<1>7. ~Endless(Less)
  <2>1. SUFFICES ASSUME Endless(Less) PROVE FALSE
    OBVIOUS
  <2>2. Cardinality(Less) \in Nat
    BY <1>6, FS_CardinalityType
  <2>3. Cardinality(Less) \in Sizes
    BY <2>1, <2>2
  <2> HIDE DEF Less, Sizes
  <2> QED BY <1>3, <1>6, <2>3
<1>8. CASE Less = {}
  BY <1>4, <1>5, <1>8
<1>9. CASE Less # {}
  <2>1. PICK m \in Less : \A n \in Less : m >= n
    BY <1>6, <1>7, <1>9
  <2>2. m >= x \/ x >= m
    OBVIOUS
  <2>3. \E b \in T : \A n \in T : b >= n
    <3>1. CASE m >= x
      BY <2>1, <3>1
    <3>2. CASE x >= m
      <4>1. \A n \in Less : x >= n
        BY <2>1, <3>2
      <4> QED BY <4>1, <1>5
    <3> QED BY <2>2, <3>1, <3>2
  <2> QED BY <1>4, <2>3
<1> QED BY <1>8, <1>9

LEMMA MaxIsGreatest ==
  ASSUME NEW S \in SUBSET Nat, IsFiniteSet(S), S # {}
  PROVE  Max(S) \in S /\ \A n \in S : Max(S) >= n
BY GreatestExists DEF Max

\* A short page is all that is left.
LEMMA ShortPageIsAll ==
  ASSUME NEW S \in SUBSET Nat, IsFiniteSet(S), Short(FirstOf(S))
  PROVE  FirstOf(S) = S
<1> DEFINE rest == S \ FirstOf(S)
<1>1. SUFFICES ASSUME rest # {} PROVE FALSE
  BY DEF FirstOf
<1>2. PICK u \in rest : \A n \in rest : u =< n
  <2>1. rest \in SUBSET Nat
    OBVIOUS
  <2> HIDE DEF rest
  <2> QED BY <1>1, <2>1, LeastExists
<1>3. {v \in S : v < u} \subseteq FirstOf(S)
  <2> SUFFICES ASSUME NEW v \in S, v < u, v \notin FirstOf(S) PROVE FALSE
    OBVIOUS
  <2>1. u =< v /\ u \in Nat /\ v \in Nat
    BY <1>2
  <2> QED BY <2>1
<1>4. IsFiniteSet(FirstOf(S))
  BY FS_Subset DEF FirstOf
<1>5. /\ IsFiniteSet({v \in S : v < u})
      /\ Cardinality({v \in S : v < u}) <= Cardinality(FirstOf(S))
  BY <1>3, <1>4, FS_Subset
<1>6. Cardinality({v \in S : v < u}) \in Nat /\ Cardinality(FirstOf(S)) \in Nat
  BY <1>4, <1>5, FS_CardinalityType
<1>7. ~(Cardinality({v \in S : v < u}) < PageSize)
  BY <1>2 DEF FirstOf
<1> QED BY <1>5, <1>6, <1>7, MemberBounds DEF Short

\* A full page has everyone up to its last member, who is where the next begins.
LEMMA FullPageHasNoHole ==
  ASSUME NEW S \in SUBSET Nat, IsFiniteSet(S), ~Short(FirstOf(S))
  PROVE  /\ NextAfter(FirstOf(S)) \in FirstOf(S)
         /\ \A u \in S : u <= NextAfter(FirstOf(S)) <=> u \in FirstOf(S)
<1> DEFINE page == FirstOf(S)
<1>1. page \in SUBSET Nat /\ page \subseteq S /\ IsFiniteSet(page)
  BY FS_Subset DEF FirstOf
<1>2. page # {}
  BY FS_EmptySet, MemberBounds DEF Short
<1>3. NextAfter(page) \in page /\ \A n \in page : NextAfter(page) >= n
  BY <1>1, <1>2, MaxIsGreatest DEF NextAfter
<1>4. ASSUME NEW u \in S, u <= NextAfter(page) PROVE u \in page
  <2> DEFINE m == NextAfter(page)
  <2>1. m \in S /\ m \in Nat /\ u \in Nat
    BY <1>1, <1>3
  <2>2. {v \in S : v < u} \subseteq {v \in S : v < m}
    <3> SUFFICES ASSUME NEW v \in S, v < u PROVE v < m
      OBVIOUS
    <3>1. u <= m /\ v \in Nat
      BY <1>4
    <3> HIDE DEF m
    <3> QED BY <2>1, <3>1
  <2>3. IsFiniteSet({v \in S : v < m}) /\ {v \in S : v < u} \in SUBSET {v \in S : v < m}
    BY <2>2, FS_Subset
  <2>4. IsFiniteSet({v \in S : v < u}) /\ Cardinality({v \in S : v < u}) <= Cardinality({v \in S : v < m})
    BY <2>3, FS_Subset
  <2>5. Cardinality({v \in S : v < u}) \in Nat /\ Cardinality({v \in S : v < m}) \in Nat
    BY <2>3, <2>4, FS_CardinalityType
  <2>6. Cardinality({v \in S : v < m}) < PageSize
    BY <1>3 DEF FirstOf
  <2> QED BY <2>4, <2>5, <2>6, MemberBounds DEF FirstOf
<1> QED BY <1>3, <1>4

-----------------------------------------------------------------------------
(* Events on their way *)

EventRecords == [user : Users, joins : BOOLEAN]

LEMMA EventTypes ==
  ASSUME TypeOK
  PROVE  /\ events \in Seq(EventRecords) /\ Len(events) \in Nat
         /\ \A i \in 1..Len(events) : events[i] \in EventRecords
                /\ events[i].user \in Users /\ events[i].joins \in BOOLEAN
<1>1. events \in Seq(EventRecords)
  BY DEF TypeOK, EventRecords
<1>2. Len(events) \in Nat /\ \A i \in 1..Len(events) : events[i] \in EventRecords
  BY <1>1
<1>3. \A e \in EventRecords : e.user \in Users /\ e.joins \in BOOLEAN
  BY DEF EventRecords
<1> QED BY <1>1, <1>2, <1>3

\* Taking the i-th event out keeps the others, in their order.
LEMMA WithoutProperties ==
  ASSUME NEW S, NEW s \in Seq(S), NEW i \in 1..Len(s)
  PROVE  /\ Without(s, i) \in Seq(S)
         /\ Len(Without(s, i)) = Len(s) - 1
         /\ \A j \in 1..Len(s) - 1 : Without(s, i)[j] = s[IF j < i THEN j ELSE j + 1]
<1> DEFINE front == SubSeq(s, 1, i - 1)
           back == SubSeq(s, i + 1, Len(s))
<1>1. /\ front \in Seq(S) /\ Len(front) = i - 1
      /\ \A j \in 1..i - 1 : front[j] = s[j]
  <2>1. Len(s) \in Nat /\ \A j \in 1..i - 1 : s[j] \in S
    OBVIOUS
  <2> QED BY <2>1, SubSeqProperties
<1>2. /\ back \in Seq(S) /\ Len(back) = Len(s) - i
      /\ \A j \in 1..Len(s) - i : back[j] = s[i + j]
  <2>1. Len(s) \in Nat /\ \A j \in i + 1..Len(s) : s[j] \in S
    OBVIOUS
  <2> QED BY <2>1, SubSeqProperties
<1> HIDE DEF front, back
<1>3. /\ front \o back \in Seq(S) /\ Len(front \o back) = Len(s) - 1
      /\ \A j \in 1..Len(s) - 1 : (front \o back)[j] = IF j <= i - 1 THEN front[j] ELSE back[j - (i - 1)]
  BY <1>1, <1>2, ConcatProperties
<1>4. \A j \in 1..Len(s) - 1 : (front \o back)[j] = s[IF j < i THEN j ELSE j + 1]
  BY <1>1, <1>2, <1>3
<1>5. Without(s, i) = front \o back
  BY DEF Without, front, back
<1> QED BY <1>3, <1>4, <1>5

\* A user is in the list as long as an event of his is.
LEMMA PendingAfterWithout ==
  ASSUME TypeOK, NEW i \in 1..Len(events), events' = Without(events, i),
         NEW u, u # events[i].user
  PROVE  Pending(u) => Pending(u)'
<1> SUFFICES ASSUME NEW j \in 1..Len(events), events[j].user = u PROVE Pending(u)'
  BY DEF Pending
<1>1. j # i /\ i \in Nat /\ j \in Nat /\ Len(events) \in Nat
  BY DEF TypeOK
<1>2. /\ Len(events') = Len(events) - 1
      /\ \A k \in 1..Len(events) - 1 : events'[k] = events[IF k < i THEN k ELSE k + 1]
  BY WithoutProperties DEF TypeOK
<1>3. CASE j < i
  <2>1. j \in 1..Len(events) - 1 /\ events'[j] = events[j]
    BY <1>1, <1>2, <1>3
  <2> QED BY <1>2, <2>1 DEF Pending
<1>4. CASE j > i
  <2>1. j - 1 \in 1..Len(events) - 1 /\ events'[j - 1] = events[j]
    BY <1>1, <1>2, <1>4
  <2> QED BY <1>2, <2>1 DEF Pending
<1> QED BY <1>1, <1>3, <1>4

-----------------------------------------------------------------------------
(* The member refresh: the inductive invariant *)

\* The pages so far, up to the cursor, and the whole list.
PageInv ==
  /\ pc = "page" => /\ \A u \in out : u <= after
                    /\ \A u \in Users \ changed : u <= after => (u \in out <=> u \in actual)
  /\ NobodySkipped

\* Who changes under a refresh is in doubt, but for the users of a list that
\* was cut short: those were there and have not changed since.
ChangedInv ==
  /\ pc = "page" => changed \subseteq doubt
  /\ pc = "replace" => changed \ doubt \subseteq out \cap actual

\* Of a user who is not in doubt the one event on its way is the last word.
EventInv ==
  \A u \in Users \ doubt : \A i, j \in 1..Len(events) :
    events[i].user = u /\ events[j].user = u => i = j /\ (events[i].joins <=> u \in actual)

MemberInv == TypeOK /\ PageInv /\ ChangedInv /\ EventInv /\ RightUnlessRaced

LEMMA InitMemberInv == Init => MemberInv
BY MemberBounds DEF Init, MemberInv, TypeOK, PageInv, NobodySkipped, ChangedInv, EventInv, RightUnlessRaced

LEMMA ChangeMemberInv == ASSUME MemberInv, NEW u \in Users, Change(u) PROVE MemberInv'
<1>1. /\ actual' = IF u \in actual THEN actual \ {u} ELSE actual \cup {u}
      /\ changed' = changed \cup {u} /\ doubt \subseteq doubt' /\ doubt' \subseteq doubt \cup {u}
      /\ UNCHANGED <<client, members, marker, pc, after, out, faults>>
  BY DEF Change, refresh
<1>2. pc # "idle" => u \in doubt'
  BY DEF Change
<1>3. \A v \in Users \ {u} : v \in actual' <=> v \in actual
  BY <1>1
<1> DEFINE event == [user |-> u, joins |-> u \notin actual]
<1>4. \/ /\ events' = Append(events, event)
         /\ u \notin doubt' => ~Pending(u)
      \/ u \in doubt' /\ events' = events
  BY DEF Change
<1>5. TypeOK'
  <2>1. changes' \in 0..MaxChanges
    BY MemberBounds DEF MemberInv, TypeOK, Change
  <2>2. event \in EventRecords
    BY DEF EventRecords
  <2> HIDE DEF event
  <2>3. events' \in Seq(EventRecords)
    BY <1>4, <2>2, EventTypes DEF MemberInv
  <2> QED BY <1>1, <2>1, <2>3 DEF MemberInv, TypeOK, EventRecords
<1>6. PageInv'
  BY <1>1, <1>3 DEF MemberInv, PageInv, NobodySkipped
<1>7. ChangedInv'
  BY <1>1, <1>2 DEF MemberInv, ChangedInv, TypeOK
<1>8. EventInv' /\ RightUnlessRaced'
  <2>1. CASE events' = events /\ u \in doubt'
    BY <1>1, <1>3, <2>1 DEF MemberInv, EventInv, RightUnlessRaced, Pending
  <2>2. CASE events' = Append(events, event) /\ (u \notin doubt' => ~Pending(u))
    <3>1. /\ Len(events) \in Nat /\ Len(events') = Len(events) + 1
          /\ \A i \in 1..Len(events) : events'[i] = events[i]
          /\ events'[Len(events) + 1] = event
      BY <2>2 DEF MemberInv, TypeOK
    <3>2. EventInv'
      <4> SUFFICES ASSUME NEW v \in Users \ doubt', NEW i \in 1..Len(events'), NEW j \in 1..Len(events'),
                          events'[i].user = v, events'[j].user = v
                   PROVE  i = j /\ (events'[i].joins <=> v \in actual')
        BY DEF EventInv
      <4>1. CASE v # u
        <5>1. i \in 1..Len(events) /\ j \in 1..Len(events) /\ events'[i] = events[i] /\ events'[j] = events[j]
          BY <3>1, <4>1
        <5> QED BY <1>1, <1>3, <4>1, <5>1 DEF MemberInv, EventInv
      <4>2. CASE v = u
        <5>1. \A k \in 1..Len(events) : events[k].user # u
          BY <2>2, <4>2 DEF Pending
        <5>2. i = Len(events) + 1 /\ j = Len(events) + 1
          BY <3>1, <4>2, <5>1
        <5>3. event.joins = (u \notin actual) /\ events'[i] = event
          BY <3>1, <5>2, Zenon
        <5> QED BY <1>1, <4>2, <5>2, <5>3
      <4> QED BY <4>1, <4>2
    <3>3. Pending(u)'
      BY <3>1 DEF Pending
    <3>4. \A v \in Users : Pending(v) => Pending(v)'
      BY <3>1 DEF Pending
    <3>5. RightUnlessRaced'
      BY <1>1, <1>3, <3>3, <3>4 DEF MemberInv, RightUnlessRaced
    <3> QED BY <3>2, <3>5
  <2> QED BY <1>4, <2>1, <2>2
<1> QED BY <1>5, <1>6, <1>7, <1>8 DEF MemberInv

LEMMA ApplyMemberInv == MemberInv /\ Apply => MemberInv'
<1> SUFFICES ASSUME MemberInv, NEW i \in 1..Len(events),
                    events' = Without(events, i),
                    members' = (IF events[i].joins THEN members \cup {events[i].user}
                                                   ELSE members \ {events[i].user}),
                    doubt' = (IF pc # "idle" THEN doubt \cup {events[i].user} ELSE doubt),
                    changed' = changed \cup {events[i].user},
                    UNCHANGED <<client, actual, marker, refresh, bounds>>
             PROVE  MemberInv'
  BY DEF Apply
<1> DEFINE w == events[i].user
<1>1. /\ events' \in Seq(EventRecords)
      /\ Len(events) \in Nat /\ Len(events') = Len(events) - 1
      /\ \A k \in 1..Len(events) - 1 : events'[k] = events[IF k < i THEN k ELSE k + 1]
  BY EventTypes, WithoutProperties DEF MemberInv
<1>2. w \in Users /\ events[i].joins \in BOOLEAN
  BY EventTypes DEF MemberInv
<1>3. UNCHANGED <<client, actual, marker, pc, after, out, changes, faults>>
  BY DEF refresh, bounds
<1>4. TypeOK'
  BY <1>1, <1>2, <1>3 DEF MemberInv, TypeOK, EventRecords
<1>5. PageInv'
  BY <1>3 DEF MemberInv, PageInv, NobodySkipped
<1>6. ChangedInv'
  BY <1>3 DEF MemberInv, ChangedInv
<1>7. EventInv'
  <2> SUFFICES ASSUME NEW v \in Users \ doubt', NEW j \in 1..Len(events'), NEW k \in 1..Len(events'),
                      events'[j].user = v, events'[k].user = v
               PROVE  j = k /\ (events'[j].joins <=> v \in actual')
    BY DEF EventInv
  <2> DEFINE Old(n) == IF n < i THEN n ELSE n + 1
  <2>1. Old(j) \in 1..Len(events) /\ Old(k) \in 1..Len(events)
    BY <1>1
  <2>2. events'[j] = events[Old(j)] /\ events'[k] = events[Old(k)]
    BY <1>1
  <2>3. Old(j) = Old(k) => j = k
    BY <1>1
  <2>4. v \in Users \ doubt
    OBVIOUS
  <2> HIDE DEF Old
  <2> QED BY <1>3, <2>1, <2>2, <2>3, <2>4 DEF MemberInv, EventInv
<1>8. RightUnlessRaced'
  <2> SUFFICES ASSUME NEW v \in Users \ doubt', ~Pending(v)'
               PROVE  v \in members' <=> v \in actual
    BY <1>3 DEF RightUnlessRaced
  <2>1. CASE v = w
    <3>1. events[i].joins <=> v \in actual
      BY <2>1 DEF MemberInv, EventInv
    <3> QED BY <2>1, <3>1
  <2>2. CASE v # w
    <3>1. ~Pending(v)
      BY <2>2, PendingAfterWithout DEF MemberInv
    <3> QED BY <2>2, <3>1 DEF MemberInv, RightUnlessRaced
  <2> QED BY <2>1, <2>2
<1> QED BY <1>4, <1>5, <1>6, <1>7, <1>8 DEF MemberInv

\* Refresh and LookupFails: whoever has an event on its way is in doubt.
LEMMA StartMemberInv ==
  ASSUME MemberInv, pc = "idle", Start, UNCHANGED <<client, actual, events, members, marker, changes>>,
         faults' \in 0..MaxFaults
  PROVE  MemberInv'
<1>1. /\ pc' = "page" /\ after' = 0 /\ out' = {} /\ changed' = {}
      /\ doubt \subseteq doubt' /\ doubt' \subseteq Users
  BY DEF Start, MemberInv, TypeOK
<1>2. TypeOK'
  BY <1>1 DEF MemberInv, TypeOK
<1>3. PageInv' /\ ChangedInv'
  BY <1>1, MemberBounds DEF PageInv, NobodySkipped, ChangedInv
<1>4. EventInv'
  BY <1>1 DEF MemberInv, EventInv
<1>5. RightUnlessRaced'
  BY <1>1 DEF MemberInv, RightUnlessRaced, Pending
<1> QED BY <1>2, <1>3, <1>4, <1>5 DEF MemberInv

LEMMA FaultBound == ASSUME TypeOK, Fault PROVE faults' \in 0..MaxFaults
BY MemberBounds DEF TypeOK, Fault

\* The steps that touch neither the users nor the list they are compared with.
LEMMA QuietMemberInv ==
  ASSUME MemberInv, UNCHANGED <<client, actual, events, members, changed, doubt, changes>>,
         marker' \in {"none", "fresh", "stale"}, faults' \in 0..MaxFaults,
         \/ pc' = "idle" /\ out' = {} /\ after' = 0
         \/ UNCHANGED <<pc, out, after>>
  PROVE  MemberInv'
<1>1. TypeOK'
  BY DEF MemberInv, TypeOK
<1>2. PageInv' /\ ChangedInv'
  BY DEF MemberInv, PageInv, NobodySkipped, ChangedInv
<1>3. EventInv' /\ RightUnlessRaced'
  BY DEF MemberInv, EventInv, RightUnlessRaced, Pending
<1> QED BY <1>1, <1>2, <1>3 DEF MemberInv

LEMMA PageMemberInv == MemberInv /\ Page => MemberInv'
<1> SUFFICES ASSUME MemberInv, Page PROVE MemberInv'
  OBVIOUS
<1> DEFINE page == FirstOf(Rest)
<1>1. /\ pc = "page" /\ out' = out \cup page
      /\ UNCHANGED <<client, actual, events, members, marker, changed, doubt, changes, faults>>
      /\ IF Short(page) THEN pc' = "replace" /\ after' = after
                        ELSE after' = NextAfter(page) /\ pc' = "page"
  BY DEF Page, bounds
<1>2. Rest \in SUBSET Nat /\ IsFiniteSet(Rest) /\ Rest \subseteq actual /\ actual \subseteq Users
  BY MemberBounds, FS_Subset DEF MemberInv, TypeOK, Rest
<1>3. page \subseteq Rest
  BY DEF FirstOf
<1>4. after \in Nat /\ \A u \in Users : u \in Nat
  BY MemberBounds DEF MemberInv, TypeOK
<1>5. EventInv' /\ RightUnlessRaced'
  BY <1>1 DEF MemberInv, EventInv, RightUnlessRaced, Pending
<1>6. CASE Short(page)
  <2>1. page = Rest
    BY <1>2, <1>6, ShortPageIsAll
  <2> HIDE DEF page
  <2>2. TypeOK'
    BY <1>1, <1>2, <1>6, <2>1 DEF MemberInv, TypeOK
  <2>3. \A u \in Users \ changed : u \in out' <=> u \in actual
    BY <1>1, <1>4, <2>1 DEF MemberInv, PageInv, Rest
  <2>4. PageInv' /\ ChangedInv'
    BY <1>1, <1>6, <2>3 DEF PageInv, NobodySkipped, ChangedInv, MemberInv
  <2> QED BY <1>5, <2>2, <2>4 DEF MemberInv
<1>7. CASE ~Short(page)
  <2>1. after' \in page /\ \A u \in Rest : u <= after' <=> u \in page
    BY <1>1, <1>2, <1>7, FullPageHasNoHole
  <2> HIDE DEF page
  <2>2. after' \in Nat /\ after < after'
    BY <1>2, <1>3, <1>4, <2>1 DEF Rest
  <2>3. TypeOK'
    BY <1>1, <1>2, <1>3, <1>7, <2>1 DEF MemberInv, TypeOK
  <2>4. \A u \in out' : u <= after'
    <3> TAKE u \in out'
    <3>1. CASE u \in page
      BY <1>3, <2>1, <3>1
    <3>2. CASE u \in out
      <4>1. u <= after /\ u \in Nat
        BY <1>1, <1>4, <3>2 DEF MemberInv, PageInv, TypeOK
      <4> QED BY <1>4, <2>2, <4>1
    <3> QED BY <1>1, <3>1, <3>2
  <2>5. ASSUME NEW u \in Users \ changed, u <= after' PROVE u \in out' <=> u \in actual
    <3>1. CASE u <= after
      <4>1. u \in out <=> u \in actual
        BY <1>1, <3>1 DEF MemberInv, PageInv
      <4>2. u \notin page
        BY <1>3, <1>4, <3>1 DEF Rest
      <4> QED BY <1>1, <4>1, <4>2
    <3>2. CASE ~(u <= after)
      <4>1. u \notin out
        BY <1>1, <3>2 DEF MemberInv, PageInv
      <4>2. u \in actual <=> u \in Rest
        BY <1>4, <3>2 DEF Rest
      <4> QED BY <1>1, <1>3, <2>1, <2>5, <4>1, <4>2
    <3> QED BY <3>1, <3>2
  <2>6. PageInv' /\ ChangedInv'
    BY <1>1, <1>7, <2>4, <2>5 DEF PageInv, NobodySkipped, ChangedInv, MemberInv
  <2> QED BY <1>5, <2>3, <2>6 DEF MemberInv
<1> QED BY <1>6, <1>7

\* The user client goes on with the pages it has: who is not in doubt and on
\* one of them was there, and everyone else may be wrong.
LEMMA PageFailsMemberInv == MemberInv /\ PageFails => MemberInv'
<1> SUFFICES ASSUME MemberInv, PageFails PROVE MemberInv'
  OBVIOUS
<1>1. /\ pc = "page" /\ faults' \in 0..MaxFaults
      /\ UNCHANGED <<client, actual, events, members, marker, changes>>
  BY FaultBound DEF PageFails, MemberInv
<1>2. CASE KeepsPartial
  <2>1. /\ pc' = "replace" /\ doubt' = doubt \cup (Users \ out) /\ changed' = Users
        /\ UNCHANGED <<after, out>>
    BY <1>2 DEF PageFails
  <2>2. TypeOK'
    BY <1>1, <2>1 DEF MemberInv, TypeOK
  <2>3. PageInv'
    BY <2>1 DEF PageInv, NobodySkipped
  <2>4. ChangedInv'
    <3>1. ASSUME NEW u \in Users \ doubt' PROVE u \in out /\ u \in actual
      <4>1. u \in out /\ u \notin doubt /\ u \notin changed
        BY <1>1, <2>1 DEF MemberInv, ChangedInv
      <4> QED BY <1>1, <4>1 DEF MemberInv, PageInv
    <3> QED BY <1>1, <2>1, <3>1 DEF ChangedInv
  <2>5. EventInv' /\ RightUnlessRaced'
    BY <1>1, <2>1 DEF MemberInv, EventInv, RightUnlessRaced, Pending
  <2> QED BY <2>2, <2>3, <2>4, <2>5 DEF MemberInv
<1>3. CASE ~KeepsPartial
  <2>1. pc' = "idle" /\ after' = 0 /\ out' = {} /\ UNCHANGED <<changed, doubt>>
    BY <1>3 DEF PageFails
  <2> QED BY <1>1, <2>1, QuietMemberInv DEF MemberInv, TypeOK
<1> QED BY <1>2, <1>3

\* The step that settles doubts: the list is right about those it settles.
LEMMA ReplaceMemberInv == MemberInv /\ Replace => MemberInv'
<1> SUFFICES ASSUME MemberInv, Replace PROVE MemberInv'
  OBVIOUS
<1>1. /\ pc = "replace" /\ pc' = "stamp" /\ members' = out
      /\ doubt' = doubt \cap (changed \cup {u \in Users : Pending(u)})
      /\ UNCHANGED <<client, actual, events, marker, after, out, changed, changes, faults>>
  BY DEF Replace, Snapshot, bounds
<1>2. TypeOK'
  BY <1>1 DEF MemberInv, TypeOK
<1>3. PageInv' /\ ChangedInv'
  BY <1>1 DEF PageInv, NobodySkipped, ChangedInv
<1>4. EventInv'
  BY <1>1 DEF MemberInv, EventInv, Pending
<1>5. RightUnlessRaced'
  <2> SUFFICES ASSUME NEW u \in Users \ doubt', ~Pending(u) PROVE u \in out <=> u \in actual
    BY <1>1 DEF RightUnlessRaced, Pending
  <2>1. CASE u \in changed
    BY <1>1, <2>1 DEF MemberInv, ChangedInv
  <2>2. CASE u \notin changed
    BY <1>1, <2>2 DEF MemberInv, PageInv, NobodySkipped
  <2> QED BY <2>1, <2>2
<1> QED BY <1>2, <1>3, <1>4, <1>5 DEF MemberInv

LEMMA MemberInvStep == MemberInv /\ [Next]_vars => MemberInv'
<1> SUFFICES ASSUME MemberInv, [Next]_vars PROVE MemberInv'
  OBVIOUS
<1>1. TypeOK
  BY DEF MemberInv
<1>2. CASE Refresh
  BY <1>1, <1>2, StartMemberInv DEF Refresh, bounds, TypeOK
<1>3. CASE Seed
  BY <1>1, <1>3, QuietMemberInv DEF Seed, refresh, bounds, TypeOK
<1>4. CASE LookupFails
  BY <1>1, <1>4, StartMemberInv, FaultBound DEF LookupFails
<1>5. CASE Elapse
  BY <1>1, <1>5, QuietMemberInv DEF Elapse, refresh, bounds, TypeOK
<1>6. CASE ReplaceFails
  BY <1>1, <1>6, QuietMemberInv, FaultBound DEF ReplaceFails, TypeOK
<1>7. CASE Stamp
  BY <1>1, <1>7, QuietMemberInv, FaultBound DEF Stamp, TypeOK
<1>8. CASE UNCHANGED vars
  BY <1>1, <1>8, QuietMemberInv DEF vars, refresh, bounds, TypeOK
<1>9. CASE \E u \in Users : Change(u)
  BY <1>9, ChangeMemberInv
<1> QED BY <1>2, <1>3, <1>4, <1>5, <1>6, <1>7, <1>8, <1>9,
           ApplyMemberInv, PageMemberInv, PageFailsMemberInv, ReplaceMemberInv
        DEF Next, Snapshotting

LEMMA MemberInvAlways == Spec => []MemberInv
BY InitMemberInv, MemberInvStep, PTL DEF Spec

\* A list that GuildMembers gives in full has every member who was there from
\* its first page to its last, for every page size and however joins and
\* leaves shift the pages; and its cursor is one of them.
THEOREM ListAlwaysHonest == Spec => []ListHonest
<1>1. MemberInv => ListHonest
  BY DEF MemberInv, ListHonest, PageInv
<1> QED BY <1>1, MemberInvAlways, PTL

\* ReplaceMembers and the joins and leaves of live tail leave the table right
\* about everyone whose events have been applied, but for the users a refresh
\* raced, an event of whom was lost, or whom a list cut short did not have.
THEOREM RightAboutTheRest == Spec => []RightUnlessRaced
<1>1. MemberInv => RightUnlessRaced
  BY DEF MemberInv
<1> QED BY <1>1, MemberInvAlways, PTL

-----------------------------------------------------------------------------
(* The list of threads: the inductive invariant *)

\* Who sleeps has the mutex, and will not wake before the gap is over.
ThrottleInv ==
  \A c \in Callers : call[c] = "sleep" => holder = c /\ since + left[c] >= Gap

\* A thread that is not listed is one of those the next page is taken from, or
\* was archived in the second of one that is listed.
CursorInv ==
  \A c \in Callers : call[c] # "failed" =>
    \A t \in Times \ listed[c] :
      \/ call[c] # "ok" /\ t \in Older(c)
      \/ \E o \in listed[c] : t < o /\ Second(t) = Second(o)

ListingInv == ListTypeOK /\ ThrottleInv /\ CursorInv

\* Seconds: the quotient by Unit.
LEMMA SecondMonotonic ==
  ASSUME NEW t \in Nat, NEW u \in Nat, t <= u
  PROVE  Second(t) \in Nat /\ Second(u) \in Nat /\ Second(t) <= Second(u)
BY ListingBounds DEF Second

LEMMA SameSecond ==
  ASSUME NEW t \in Nat, NEW u \in Nat, t <= u, ~(t < Unit * Second(u))
  PROVE  Second(t) = Second(u)
BY ListingBounds DEF Second

LEMMA MinIsLeast ==
  ASSUME NEW S \in SUBSET Nat, S # {}
  PROVE  Min(S) \in S /\ \A n \in S : Min(S) <= n
BY LeastExists DEF Min

\* What Newest leaves out is older than what it takes.
LEMMA NewestIsUpward ==
  ASSUME NEW S \in SUBSET Nat, IsFiniteSet(S), NEW t \in S, NEW u \in S, u \in Newest(S), u <= t
  PROVE  t \in Newest(S)
<1>1. {v \in S : v > t} \subseteq {v \in S : v > u}
  <2> SUFFICES ASSUME NEW v \in S, v > t PROVE v > u
    OBVIOUS
  <2>1. v \in Nat /\ t \in Nat /\ u \in Nat
    OBVIOUS
  <2> QED BY <2>1
<1>2. /\ IsFiniteSet({v \in S : v > u}) /\ IsFiniteSet({v \in S : v > t})
      /\ Cardinality({v \in S : v > t}) <= Cardinality({v \in S : v > u})
  BY <1>1, FS_Subset
<1>3. Cardinality({v \in S : v > t}) \in Nat /\ Cardinality({v \in S : v > u}) \in Nat
  BY <1>2, FS_CardinalityType
<1>4. Cardinality({v \in S : v > u}) < ThreadPage
  BY DEF Newest
<1> QED BY <1>2, <1>3, <1>4, ListingBounds DEF Newest

\* There is something on the page if there is something to be listed.
LEMMA NewestIsEmpty ==
  ASSUME NEW S \in SUBSET Nat, IsFiniteSet(S), Newest(S) = {}
  PROVE  S = {}
<1> SUFFICES ASSUME S # {} PROVE FALSE
  OBVIOUS
<1>1. PICK m \in S : \A n \in S : m >= n
  BY GreatestExists
<1>2. {v \in S : v > m} = {}
  <2> SUFFICES ASSUME NEW v \in S, v > m PROVE FALSE
    OBVIOUS
  <2>1. m >= v /\ m \in Nat /\ v \in Nat
    BY <1>1
  <2> QED BY <2>1
<1>3. Cardinality({v \in S : v > m}) = 0
  BY <1>2, FS_EmptySet
<1> QED BY <1>3, ListingBounds DEF Newest

\* When there is no more than a page, the page has it all.
LEMMA NewestIsAll ==
  ASSUME NEW S \in SUBSET Nat, IsFiniteSet(S), ~(Cardinality(S) > ThreadPage)
  PROVE  Newest(S) = S
<1> SUFFICES ASSUME NEW t \in S PROVE Cardinality({v \in S : v > t}) < ThreadPage
  BY DEF Newest
<1> DEFINE newer == {v \in S : v > t}
<1>1. newer \in SUBSET (S \ {t})
  OBVIOUS
<1>2. IsFiniteSet(S \ {t}) /\ Cardinality(S \ {t}) = Cardinality(S) - 1
  BY FS_RemoveElement
<1>3. IsFiniteSet(newer) /\ Cardinality(newer) <= Cardinality(S \ {t})
  BY <1>1, <1>2, FS_Subset
<1>4. Cardinality(S) \in Nat /\ Cardinality(newer) \in Nat
  BY <1>3, FS_CardinalityType
<1> QED BY <1>2, <1>3, <1>4, ListingBounds

LEMMA OlderIsFinite ==
  ASSUME NEW c
  PROVE  Older(c) \in SUBSET Nat /\ Older(c) \subseteq Times /\ IsFiniteSet(Older(c))
<1>1. Older(c) \in SUBSET Times
  BY DEF Older
<1> QED BY <1>1, FS_Subset, ListingBounds

LEMMA GapTypes == Gap \in Nat /\ Jitter \in Nat /\ LongAgo \in Nat /\ Gap <= LongAgo
BY ListingBounds DEF LongAgo

LEMMA InitListingInv == ListInit => ListingInv
<1> SUFFICES ASSUME ListInit PROVE ListingInv
  OBVIOUS
<1>1. Second(Max(Times \cup {0})) \in Nat
  <2>1. Times \cup {0} \in SUBSET Nat /\ IsFiniteSet(Times \cup {0})
    BY ListingBounds, FS_AddElement
  <2>2. Max(Times \cup {0}) \in Nat
    BY <2>1, MaxIsGreatest
  <2> QED BY <2>2, SecondMonotonic
<1>2. ListTypeOK
  <2> DEFINE last == Second(Max(Times \cup {0}))
  <2>1. before \in [Callers -> 0..last]
    <3> HIDE DEF last
    <3> QED BY <1>1 DEF ListInit, last
  <2>2. left \in [Callers -> 0..LongAgo + 2] /\ since \in 0..LongAgo
    BY GapTypes DEF ListInit
  <2> QED BY <2>1, <2>2 DEF ListInit, ListTypeOK
<1>3. ThrottleInv /\ CursorInv
  BY DEF ListInit, ThrottleInv, CursorInv, Older
<1> QED BY <1>2, <1>3 DEF ListingInv

\* The cursor of one caller is nobody else's affair.
LEMMA CursorOfOthers ==
  ASSUME ListingInv, NEW c \in Callers, NEW d \in Callers, d # c,
         call'[d] = call[d], listed'[d] = listed[d], before'[d] = before[d]
  PROVE  call'[d] # "failed" =>
           \A t \in Times \ listed'[d] :
             \/ call'[d] # "ok" /\ t \in Older(d)'
             \/ \E o \in listed'[d] : t < o /\ Second(t) = Second(o)
<1>1. Older(d)' = Older(d)
  BY DEF Older
<1> QED BY <1>1 DEF ListingInv, CursorInv

LEMMA ThrottleListingInv == ASSUME ListingInv, NEW c \in Callers, Throttle(c) PROVE ListingInv'
<1>1. /\ holder = None /\ holder' = c /\ call[c] = "request"
      /\ call' = [call EXCEPT ![c] = "sleep"]
      /\ UNCHANGED <<since, ctxDone, before, listed>>
  BY DEF Throttle, Sleep, Goto
<1>2. PICK j \in 0..Jitter : left' = [left EXCEPT ![c] = IF since < Gap + j THEN Gap + j - since ELSE 0]
  BY DEF Throttle, Sleep
<1>3. Gap \in Nat /\ Jitter \in Nat /\ since \in Nat /\ j \in Nat
  BY ListingBounds DEF ListingInv, ListTypeOK, LongAgo
<1>4. left'[c] \in 0..LongAgo + 2 /\ since + left'[c] >= Gap
  BY <1>2, <1>3 DEF ListingInv, ListTypeOK, LongAgo
<1>5. ListTypeOK'
  BY <1>1, <1>2, <1>4 DEF ListingInv, ListTypeOK
<1>6. ThrottleInv'
  <2>1. \A d \in Callers \ {c} : call'[d] = call[d] /\ call[d] # "sleep"
    BY <1>1, ListingBounds DEF ListingInv, ThrottleInv, ListTypeOK
  <2> QED BY <1>1, <1>4, <2>1 DEF ThrottleInv
<1>7. CursorInv'
  BY <1>1 DEF ListingInv, ListTypeOK, CursorInv, Older
<1> QED BY <1>5, <1>6, <1>7 DEF ListingInv

LEMMA PassListingInv == ASSUME ListingInv, NEW c \in Callers, Pass(c) PROVE ListingInv'
<1>1. /\ call[c] = "sleep" /\ since' = 0 /\ holder' = None
      /\ call' = [call EXCEPT ![c] = "send"]
      /\ UNCHANGED <<ctxDone, left, before, listed>>
  BY DEF Pass, Unlock, Goto
<1>2. ListTypeOK'
  <2>1. since' \in 0..LongAgo
    BY <1>1, GapTypes
  <2>2. call' \in [Callers -> {"request", "sleep", "send", "backoff", "ok", "failed"}]
    BY <1>1 DEF ListingInv, ListTypeOK
  <2> QED BY <1>1, <2>1, <2>2 DEF ListingInv, ListTypeOK
<1>3. ThrottleInv'
  <2>1. holder = c
    BY <1>1 DEF ListingInv, ThrottleInv
  <2>2. \A d \in Callers : call'[d] # "sleep"
    BY <1>1, <2>1 DEF ListingInv, ThrottleInv, ListTypeOK
  <2> QED BY <2>2 DEF ThrottleInv
<1>4. CursorInv'
  BY <1>1 DEF ListingInv, ListTypeOK, CursorInv, Older
<1> QED BY <1>2, <1>3, <1>4 DEF ListingInv

\* A page is added to the list: what is not on it is behind the new cursor,
\* or shares the second the cursor names.
LEMMA AnsweredListingInv == ASSUME ListingInv, NEW c \in Callers, Answered(c) PROVE ListingInv'
<1> DEFINE page == Newest(Older(c))
           more == page # {} /\ HasMore(c)
<1>1. /\ call[c] = "send" /\ listed' = [listed EXCEPT ![c] = @ \cup page]
      /\ UNCHANGED <<since, holder, ctxDone, left>>
      /\ IF more THEN before' = [before EXCEPT ![c] = Cursor(Min(page))]
                      /\ call' = [call EXCEPT ![c] = "request"]
                 ELSE call' = [call EXCEPT ![c] = "ok"] /\ before' = before
  BY DEF Answered, Goto
<1>2. Older(c) \in SUBSET Nat /\ Older(c) \subseteq Times /\ IsFiniteSet(Older(c)) /\ page \subseteq Older(c)
  BY OlderIsFinite DEF Newest
<1>3. ASSUME page # {} PROVE Min(page) \in page /\ \A n \in page : Min(page) <= n
  <2>1. page \in SUBSET Nat
    BY <1>2
  <2> HIDE DEF page
  <2> QED BY <1>3, <2>1, MinIsLeast
<1>4. ASSUME page # {} PROVE Cursor(Min(page)) \in 0..Second(Max(Times \cup {0}))
  <2>1. Times \cup {0} \in SUBSET Nat /\ IsFiniteSet(Times \cup {0})
    BY ListingBounds, FS_AddElement
  <2>2. Max(Times \cup {0}) \in Nat /\ \A n \in Times \cup {0} : Max(Times \cup {0}) >= n
    BY <2>1, MaxIsGreatest
  <2>3. Min(page) \in Times /\ Min(page) \in Nat
    BY <1>2, <1>3, <1>4
  <2> HIDE DEF page
  <2>4. Min(page) <= Max(Times \cup {0})
    BY <2>2, <2>3
  <2> QED BY <2>2, <2>3, <2>4, SecondMonotonic DEF Cursor
<1>5. ListTypeOK'
  <2>1. listed' \in [Callers -> SUBSET Times]
    BY <1>1, <1>2 DEF ListingInv, ListTypeOK
  <2>2. before' \in [Callers -> 0..Second(Max(Times \cup {0}))]
    BY <1>1, <1>4 DEF ListingInv, ListTypeOK
  <2>3. call' \in [Callers -> {"request", "sleep", "send", "backoff", "ok", "failed"}]
    BY <1>1 DEF ListingInv, ListTypeOK
  <2> QED BY <1>1, <2>1, <2>2, <2>3 DEF ListingInv, ListTypeOK
<1>6. ThrottleInv'
  <2>1. \A d \in Callers : call'[d] = "sleep" => call[d] = "sleep"
    BY <1>1 DEF ListingInv, ListTypeOK
  <2> QED BY <1>1, <2>1 DEF ListingInv, ThrottleInv
<1>7. /\ listed'[c] = listed[c] \cup page
      /\ \A d \in Callers \ {c} : call'[d] = call[d] /\ listed'[d] = listed[d] /\ before'[d] = before[d]
  BY <1>1 DEF ListingInv, ListTypeOK
<1>8. ASSUME NEW t \in Times \ listed'[c]
      PROVE  \/ call'[c] # "ok" /\ t \in Older(c)'
             \/ \E o \in listed'[c] : t < o /\ Second(t) = Second(o)
  <2>1. CASE \E o \in listed[c] : t < o /\ Second(t) = Second(o)
    BY <1>7, <2>1
  <2>2. CASE t \in Older(c)
    <3>1. t \notin page
      BY <1>7, <1>8
    <3>2. more
      <4> SUFFICES ASSUME ~more PROVE FALSE
        OBVIOUS
      <4>1. CASE page = {}
        BY <1>2, <2>2, <4>1, NewestIsEmpty
      <4>2. CASE ~HasMore(c)
        BY <1>2, <2>2, <3>1, <4>2, NewestIsAll DEF HasMore
      <4> QED BY <4>1, <4>2
    <3> DEFINE m == Min(page)
    <3>3. m \in page /\ m \in Nat /\ t \in Nat
      BY <1>2, <1>3, <2>2, <3>2
    <3>4. t < m
      <4>1. ~(m <= t)
        BY <1>2, <2>2, <3>1, <3>3, NewestIsUpward
      <4> HIDE DEF m
      <4> QED BY <3>3, <4>1
    <3>5. before'[c] = Second(m) /\ call'[c] = "request"
      BY <1>1, <3>2 DEF Cursor, ListingInv, ListTypeOK
    <3>6. CASE t < Unit * Second(m)
      BY <3>5, <3>6 DEF Older
    <3>7. CASE ~(t < Unit * Second(m))
      <4>1. Second(t) = Second(m)
        <5> HIDE DEF m
        <5> QED BY <3>3, <3>4, <3>7, SameSecond
      <4> QED BY <1>7, <3>3, <3>4, <4>1
    <3> QED BY <3>6, <3>7
  <2> QED BY <1>1, <1>7, <1>8, <2>1, <2>2 DEF ListingInv, CursorInv
<1>9. CursorInv'
  <2> SUFFICES ASSUME NEW d \in Callers, call'[d] # "failed"
               PROVE  \A t \in Times \ listed'[d] :
                        \/ call'[d] # "ok" /\ t \in Older(d)'
                        \/ \E o \in listed'[d] : t < o /\ Second(t) = Second(o)
    BY DEF CursorInv, Second
  <2>1. CASE d = c
    BY <1>8, <2>1 DEF Older
  <2>2. CASE d # c
    BY <1>7, <2>2, CursorOfOthers
  <2> QED BY <2>1, <2>2
<1> QED BY <1>5, <1>6, <1>9 DEF ListingInv

\* What does not touch the throttle and leaves the list, or drops it.
LEMMA BackoffListingInv ==
  ASSUME ListingInv, NEW c \in Callers, RateLimited(c) \/ Retry(c) \/ Fails(c)
  PROVE  ListingInv'
<1>1. PICK to \in {"backoff", "request", "failed"} :
        /\ call' = [call EXCEPT ![c] = to]
        /\ to = "failed" \/ listed' = listed
        /\ listed' = listed \/ listed' = [listed EXCEPT ![c] = {}]
  BY DEF RateLimited, Retry, Fails, Goto
<1>2. call[c] \in {"send", "backoff"} /\ UNCHANGED <<since, holder, ctxDone, before>>
  BY DEF RateLimited, Retry, Fails
<1>3. left' \in [Callers -> 0..LongAgo + 2] /\ \A d \in Callers \ {c} : left'[d] = left[d]
  BY ListingBounds DEF RateLimited, Retry, Fails, ListingInv, ListTypeOK, LongAgo
<1>4. ListTypeOK'
  BY <1>1, <1>2, <1>3 DEF ListingInv, ListTypeOK
<1>5. ThrottleInv'
  <2>1. \A d \in Callers : call'[d] = "sleep" => call[d] = "sleep" /\ d # c
    BY <1>1 DEF ListingInv, ListTypeOK
  <2> QED BY <1>2, <1>3, <2>1 DEF ListingInv, ThrottleInv
<1>6. CursorInv'
  <2> SUFFICES ASSUME NEW d \in Callers, call'[d] # "failed"
               PROVE  \A t \in Times \ listed'[d] :
                        \/ call'[d] # "ok" /\ t \in Older(d)'
                        \/ \E o \in listed'[d] : t < o /\ Second(t) = Second(o)
    BY DEF CursorInv, Second
  <2>1. call'[d] = call[d] \/ (d = c /\ call'[d] \in {"backoff", "request"})
    BY <1>1 DEF ListingInv, ListTypeOK
  <2>2. listed'[d] = listed[d]
    BY <1>1 DEF ListingInv, ListTypeOK
  <2>3. Older(d)' = Older(d)
    BY <1>2 DEF Older
  <2>4. d = c => call[d] \notin {"failed", "ok"}
    BY <1>2
  <2> QED BY <2>1, <2>2, <2>3, <2>4 DEF ListingInv, CursorInv
<1> QED BY <1>4, <1>5, <1>6 DEF ListingInv

\* As a sleeper's time runs off, the time since the last request runs up.
LEMMA TickListingInv == ListingInv /\ Tick => ListingInv'
<1> SUFFICES ASSUME ListingInv, Tick PROVE ListingInv'
  OBVIOUS
<1>1. /\ left' = [c \in Callers |-> IF left[c] > 0 THEN left[c] - 1 ELSE 0]
      /\ UNCHANGED <<holder, ctxDone, call, before, listed>>
  BY DEF Tick
<1>2. since \in Nat /\ since <= LongAgo /\ \A c \in Callers : left[c] \in 0..LongAgo + 2
  BY GapTypes DEF ListingInv, ListTypeOK
<1>3. since' = since + 1 \/ since' = LongAgo
  <2>1. {since + 1, LongAgo} \in SUBSET Nat
    BY <1>2, GapTypes
  <2>2. Min({since + 1, LongAgo}) \in {since + 1, LongAgo}
    BY <2>1, MinIsLeast
  <2> QED BY <2>2 DEF Tick
<1>4. ListTypeOK'
  <2>1. since' \in 0..LongAgo
    <3>1. {since + 1, LongAgo} \in SUBSET Nat
      BY <1>2, GapTypes
    <3>2. since' <= LongAgo
      BY <3>1, MinIsLeast DEF Tick
    <3> QED BY <1>2, <1>3, <3>2, GapTypes
  <2>2. left' \in [Callers -> 0..LongAgo + 2]
    BY <1>1, <1>2, GapTypes
  <2> QED BY <1>1, <2>1, <2>2 DEF ListingInv, ListTypeOK
<1>5. ThrottleInv'
  <2> SUFFICES ASSUME NEW c \in Callers, call[c] = "sleep" PROVE since' + left'[c] >= Gap
    BY <1>1 DEF ThrottleInv, ListingInv
  <2>1. since + left[c] >= Gap
    BY DEF ListingInv, ThrottleInv
  <2>2. left'[c] = IF left[c] > 0 THEN left[c] - 1 ELSE 0
    BY <1>1
  <2>3. left[c] \in Nat /\ left'[c] \in Nat
    BY <1>2, <2>2, GapTypes
  <2>4. CASE since' = LongAgo
    BY <2>3, <2>4, GapTypes
  <2>5. CASE since' = since + 1
    BY <1>2, <2>1, <2>2, <2>3, <2>5, GapTypes
  <2> QED BY <1>3, <2>4, <2>5
<1>6. CursorInv'
  BY <1>1 DEF ListingInv, CursorInv, Older
<1> QED BY <1>4, <1>5, <1>6 DEF ListingInv

LEMMA ListingInvStep == ListingInv /\ [ListNext]_listVars => ListingInv'
<1> SUFFICES ASSUME ListingInv, [ListNext]_listVars PROVE ListingInv'
  OBVIOUS
<1>1. CASE ContextEnds \/ UNCHANGED listVars
  BY <1>1 DEF ContextEnds, listVars, ListingInv, ListTypeOK, ThrottleInv, CursorInv, Older
<1> QED BY <1>1, TickListingInv, ThrottleListingInv, PassListingInv, AnsweredListingInv, BackoffListingInv
        DEF ListNext, Call

LEMMA ListingInvAlways == ListSpec => []ListingInv
BY InitListingInv, ListingInvStep, PTL DEF ListSpec

\* A list of archived threads that ThreadsArchived returns lacks only threads
\* archived in the second of one it has, for every page size and any times.
THEOREM ListsAlwaysHonest == ListSpec => []ListsHonest
<1>1. ListingInv => ListsHonest
  BY DEF ListingInv, CursorInv, ListsHonest, OnlySameSecondMissed
<1> QED BY <1>1, ListingInvAlways, PTL

\* Any number of goroutines leave transport.throttle no closer together than
\* the minimum gap, whatever jitter each draws.
THEOREM GapAlwaysKept == ListSpec => GapKept
<1>1. ASSUME ListingInv, ListNext, NEW c \in Callers, call[c] = "sleep", call'[c] = "send"
      PROVE  since >= Gap
  <2>1. \E d \in Callers : Pass(d) /\ d = c
    <3>1. PICK d \in Callers : Call(d)
      BY <1>1 DEF ListNext, Tick, ContextEnds
    <3>2. d = c
      BY <1>1, <3>1 DEF Call, Throttle, Sleep, Pass, Answered, RateLimited, Retry, Fails, Goto,
                            ListingInv, ListTypeOK
    <3> QED BY <1>1, <3>1, <3>2 DEF Call, Throttle, Sleep, Answered, RateLimited, Retry, Fails, Goto
  <2>2. left[c] = 0
    BY <2>1 DEF Pass
  <2>3. since \in Nat
    BY <1>1, GapTypes DEF ListingInv, ListTypeOK
  <2> QED BY <1>1, <2>2, <2>3 DEF ListingInv, ThrottleInv
<1>2. ListingInv /\ [ListNext]_listVars
        => [\A c \in Callers : call[c] = "sleep" /\ call'[c] = "send" => since >= Gap]_listVars
  BY <1>1
<1> QED BY <1>2, ListingInvAlways, PTL DEF ListSpec, GapKept
=============================================================================
