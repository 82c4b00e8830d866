------------------------------ MODULE Queries ------------------------------
(* What the archive answers (internal/store: query.go, messages.go,          *)
(* mentions.go, embeddings.go, members_profile.go), over rows that the crawl, *)
(* edits and the embedding worker write in any order.  An answer is an        *)
(* operator of the rows; an operator whose answer depends on the order of a   *)
(* heap or of a Go map is the set of the answers it may give.                 *)
(*                                                                            *)
(* SQLite and FTS5 are external: a full-text match is a word in the content   *)
(* or in the author's name.  Filters by guild and by author are left out, they *)
(* are conjuncts like the one by channel.                                      *)
EXTENDS Integers, Sequences, FiniteSets, SequencesExt, FiniteSetsExt

CONSTANTS
  Messages, TimeOf, ChannelOf,  \* ids, which grow with time; the time and the channel of each
  Wordy,                        \* the messages whose author's name has the word searched for
  CandidateFloor, CandidateCap, CandidateMultiple,
  Users, Quoting,               \* <<u, v>>: the raw row of u has the id of v in it
  ProfileRows,                  \* rows MemberProfile looks through
  Unit,                         \* a number that all 60 + rank divide
  Limits,                       \* the limits callers ask for
  MaxStale                      \* bound: messages whose vector is of an older content
CONSTANT Every                    \* no filter

Instants == [second : Nat, fraction : Seq(0..9)]

ASSUME QueryBounds ==
  /\ Messages \subseteq Nat /\ Users \subseteq Nat /\ IsFiniteSet(Messages) /\ IsFiniteSet(Users)
  /\ DOMAIN TimeOf = Messages /\ \A m \in Messages : TimeOf[m] \in Instants
  /\ {CandidateFloor, CandidateCap, CandidateMultiple, ProfileRows} \subseteq Nat
  /\ CandidateFloor <= CandidateCap
  /\ Limits \subseteq Nat \ {0}
  /\ \A u \in Users : <<u, u>> \in Quoting
  /\ Unit \in Nat \ {0} /\ \A rank \in 1..Cardinality(Messages) : Unit % (60 + rank) = 0

VARIABLES
  row,          \* normalized_content of each message: "none" without a row, "empty", "hit" or "miss"
  vec           \* the content its vector was made of, "none" without one

rowVars == <<row, vec>>

Contents == {"empty", "hit", "miss"}
Have == {m \in Messages : row[m] # "none"}

RowsInit == row = [m \in Messages |-> "none"] /\ vec = row

\* upsertMessageTx: the row and its full-text entry, in one transaction.
Upsert(m) ==
  /\ \E c \in Contents : row' = [row EXCEPT ![m] = c]
  /\ UNCHANGED vec
  /\ Cardinality({n \in Messages : vec[n] \notin {"none", row'[n]}}) <= MaxStale

\* The worker embeds a message once; an edit does not queue it again.
Embed(m) ==
  /\ m \in Have /\ vec[m] = "none"
  /\ vec' = [vec EXCEPT ![m] = row[m]]
  /\ UNCHANGED row

RowsNext == \E m \in Messages : Upsert(m) \/ Embed(m)
RowsSpec == RowsInit /\ [][RowsNext]_rowVars

-----------------------------------------------------------------------------
(* Times are compared as the text of timeLayout, RFC3339Nano: the zeros at the *)
(* end of the fraction are cut off, and the fraction with them.                *)

\* "05", ".", "1", "2", "Z" by their codes; nothing else differs in length.
Text(t) ==
  <<t.second>> \o (IF t.fraction = <<>> THEN <<>> ELSE <<46>> \o [i \in DOMAIN t.fraction |-> 48 + t.fraction[i]])
  \o <<90>>

Times == Range(TimeOf)
TextOrder ==
  {p \in Times \X Times :
     LET a == Text(p[1])  b == Text(p[2])
     IN \E i \in DOMAIN a \cap DOMAIN b : a[i] < b[i] /\ \A j \in 1..(i - 1) : a[j] = b[j]}
TextBefore(t, u) == <<t, u>> \in TextOrder

\* SetToSortSeq of the community modules, which is slow on sets.
Sorted(S, order) ==
  [i \in 1..Cardinality(S) |-> CHOOSE m \in S : Cardinality({n \in S : <<n, m>> \in order}) = i - 1]
\* SelectSeq, for a sequence that has nothing twice.
OrderOf(s) == {p \in Range(s) \X Range(s) : \E i, j \in DOMAIN s : i < j /\ p[1] = s[i] /\ p[2] = s[j]}
Among(s, T) == Sorted(Range(s) \cap T, OrderOf(s))
Take(s, n) == SubSeq(s, 1, Min({n, Len(s)}))
InChannel(m, c) == c = Every \/ ChannelOf[m] = c
Visible(m) == row[m] # "empty"

\* order by created_at, id
ByTime == {p \in Messages \X Messages :
             TextBefore(TimeOf[p[1]], TimeOf[p[2]]) \/ (TimeOf[p[1]] = TimeOf[p[2]] /\ p[1] < p[2])}
Ascending(S) == Sorted(S, ByTime)
Descending(S) == Reverse(Ascending(S))

-----------------------------------------------------------------------------
(* SearchMessages *)

JustLimit(limit) == limit \* fault: nothing to spare for rows dropped later
CandidateLimit(limit) ==
  LET candidates == limit * CandidateMultiple
  IN Min({Max({candidates, CandidateFloor}), CandidateCap})

Matches(c) == {m \in Have : InChannel(m, c) /\ (row[m] = "hit" \/ m \in Wordy)}

\* The newest matches by row id, of which those without content are dropped
\* afterwards.
NewestId == {p \in Messages \X Messages : p[1] > p[2]}
SearchMessages(limit, includeEmpty, c) ==
  LET candidates == Take(Sorted(Matches(c), NewestId), CandidateLimit(limit))
  IN Take(Among(candidates, {m \in Messages : includeEmpty \/ Visible(m)}), limit)

\* When FTS5 answers with an error: the content alone is searched, ordered by
\* time alone.
SearchFallback(limit, c) ==
  Take(Descending({m \in Have : InChannel(m, c) /\ row[m] = "hit"}), limit)

-----------------------------------------------------------------------------
(* ListMessages, ListMentions, MemberProfile *)

Within(m, since, before) ==
  /\ since # Every => ~TextBefore(TimeOf[m], since)
  /\ before # Every => TextBefore(TimeOf[m], before)

Listed(o) == {m \in Have : InChannel(m, o.channel) /\ Within(m, o.since, o.before) /\ (o.empty \/ Visible(m))}

\* Fault: --last gives the first ones.
OldestOf(S, n) == Take(Ascending(S), n)
NewestOf(S, n) == Reverse(Take(Descending(S), n))

ListMessages(o) ==
  IF o.last > 0 THEN NewestOf(Listed(o), o.last)
  ELSE IF o.limit > 0 THEN Take(Ascending(Listed(o)), o.limit) ELSE Ascending(Listed(o))

\* The word mentions somebody; a mention has the time of its message, and of
\* equal times the one written last comes first, which nothing here tells apart.
ListMentions(o) ==
  Take(Descending({m \in Listed(o) : row[m] = "hit"}), o.limit)

\* MemberProfile: the rows in which the id occurs, in the order of the names, of
\* which a few are compared with it.
ByName == {p \in Users \X Users : p[1] < p[2]}
ProfileCandidates(table, u) ==
  Take(Sorted({v \in table : <<v, u>> \in Quoting}, ByName), ProfileRows)
ProfileOf(table, u) == Contains(ProfileCandidates(table, u), u)

-----------------------------------------------------------------------------
(* GetConversation *)

\* Fault: the row before.
OffByOne(s, n) == IF n \in DOMAIN s THEN {s[n]} ELSE {}
\* limit 1 offset n
Offset(s, n) == IF n + 1 \in DOMAIN s THEN {s[n + 1]} ELSE {}

\* A bound that does not exist is null, and no row compares with null.
GetConversation(m, before, after) ==
  LET around == {n \in Have : ChannelOf[n] = ChannelOf[m]}
      first  == Offset(Descending({n \in around : ~TextBefore(TimeOf[m], TimeOf[n])}), before)
      last   == Offset(Ascending({n \in around : ~TextBefore(TimeOf[n], TimeOf[m])}), after)
  IN {n \in around : \E f \in first, l \in last : ~TextBefore(TimeOf[n], TimeOf[f]) /\ ~TextBefore(TimeOf[l], TimeOf[n])}

-----------------------------------------------------------------------------
(* VectorSearch, FindSimilar: cosine similarity of the contents, and a heap   *)
(* that keeps the k best.                                                      *)

Direction(c) == CASE c = "hit" -> 0 [] c = "miss" -> 1 [] c = "empty" -> 2
Similarity(c, d) == 2 - Max({Direction(c) - Direction(d), Direction(d) - Direction(c)})
Embedded(c) == {m \in Have : vec[m] # "none" /\ InChannel(m, c)}

\* What may be at the root of the heap.
Root(kept, score) == {m \in kept : \A n \in kept : score[m] <= score[n]}

Push(kept, m, k, score) ==
  IF Cardinality(kept) < k THEN {kept \cup {m}}
  ELSE {IF score[m] > score[r] THEN (kept \ {r}) \cup {m} ELSE kept : r \in Root(kept, score)}

\* What comes of `start` when each member of S takes its step, in any order.
InAnyOrder(S, start, step) ==
  LET outcomes[T \in SUBSET S] ==
        IF T = {} THEN {start} ELSE UNION {UNION {step[<<x, m>>] : x \in outcomes[T \ {m}]} : m \in T}
  IN outcomes[S]

\* The rows are scanned once, in no order that is asked for; popped, the heap
\* gives the worst one first.
TopK(k, score) ==
  LET S == DOMAIN score
      pushed == [p \in (SUBSET S) \X S |-> Push(p[1], p[2], k, score)]
      Ranked(s) == \A i \in 2..Len(s) : score[s[i - 1]] >= score[s[i]]
  IN UNION {{s \in SetToSeqs(kept) : Ranked(s)} : kept \in InAnyOrder(S, {}, pushed)}

VectorSearch(k, c) == TopK(k, [m \in Embedded(c) |-> Similarity(vec[m], "hit")])

\* One more than was asked for: the message itself is dropped from the answer.
FindSimilar(m, k) ==
  LET score == [n \in Embedded(Every) |-> Similarity(vec[n], vec[m])]
  IN {Take(Among(s, Messages \ {m}), k) : s \in TopK(k + 1, score)}

-----------------------------------------------------------------------------
(* HybridSearch *)

Rank(s, m) == CHOOSE i \in DOMAIN s : s[i] = m
\* 1 / (60 + rank), in a unit in which it is whole.
Term(s, m) == IF m \in Range(s) THEN Unit \div (60 + Rank(s, m)) ELSE 0

\* Fault: the second list overwrites what the first one gave.
LastTerm(keyword, vector, m) == IF m \in Range(vector) THEN Term(vector, m) ELSE Term(keyword, m)
FusedScore(keyword, vector, m) == Term(keyword, m) + Term(vector, m)

\* Insertion sort of what a range over the map gives, which is any order.
ReciprocalRankFusion(keyword, vector) ==
  LET S == Range(keyword) \cup Range(vector)
      score == [m \in S |-> FusedScore(keyword, vector, m)]
      Place(s, m) == Cardinality({i \in DOMAIN s : score[s[i]] >= score[m]}) + 1
      inserted == [p \in Seq(S) \X S |-> {InsertAt(p[1], Place(p[1], p[2]), p[2])}]
  IN InAnyOrder(S, <<>>, inserted)

HybridLimit == 1000             \* of each of the two lists
HybridSearch(limit, c) ==
  UNION {{[keyword |-> SearchMessages(HybridLimit, FALSE, c), vector |-> v, answer |-> Take(s, limit)] :
            s \in ReciprocalRankFusion(SearchMessages(HybridLimit, FALSE, c), v)} :
         v \in VectorSearch(HybridLimit, c)}

-----------------------------------------------------------------------------
(* Properties *)

Channels == {Every} \cup {ChannelOf[m] : m \in Messages}
Bounds == {Every} \cup Times
Second(m) == TimeOf[m].second

\* A search gives the newest messages that match, as many as were asked for,
\* newest first; fewer only when more matches than the smallest number of
\* candidates left no room behind the ones without content.
SearchFindsNewest ==
  \A limit \in Limits, empty \in BOOLEAN, c \in Channels :
    LET asked == {m \in Matches(c) : empty \/ Visible(m)}
        found == SearchMessages(limit, empty, c)
    IN /\ IsPrefix(found, Take(Sorted(asked, NewestId), limit))
       /\ Len(found) < limit /\ Len(found) < Cardinality(asked)
            => Cardinality(Matches(c)) > CandidateFloor

\* The answer is the n first or last of what was asked for, in order, as far as
\* whole seconds tell: times within one second are compared wrongly, a whole
\* second sorting behind its fractions.
RightToTheSecond(answer, asked, n, Nearer(_, _)) ==
  /\ IsInjective(answer) /\ Range(answer) \subseteq asked
  /\ Len(answer) = Min({n, Cardinality(asked)})
  /\ \A m \in Range(answer), k \in asked \ Range(answer) : ~Nearer(Second(k), Second(m))

InOrder(answer) == \A i, j \in DOMAIN answer : i < j => Second(answer[i]) <= Second(answer[j])

\* A profile is found whenever the member is there, unless the id occurs in more
\* rows than are looked through.
ProfileRight ==
  \A table \in SUBSET Users, u \in Users :
    Cardinality({v \in table : <<v, u>> \in Quoting}) <= ProfileRows => (ProfileOf(table, u) <=> u \in table)

Windows == {<<t, Every>> : t \in Bounds} \cup {<<Every, t>> : t \in Bounds}

\* ListMessages, ListMentions and MemberProfile leave out nothing and add nothing
\* but within the second of a bound, whatever was written in which order.
ListsRight ==
  /\ ProfileRight
  /\ \A c \in Channels, w \in Windows, empty \in BOOLEAN, n \in Limits :
       LET o(last, limit) ==
             [channel |-> c, since |-> w[1], before |-> w[2], empty |-> empty, last |-> last, limit |-> limit]
           asked     == Listed(o(0, 0))
           mentioned == {m \in asked : row[m] = "hit"}
           newest    == ListMessages(o(n, 0))
           oldest    == ListMessages(o(0, n))
           mentions  == ListMentions(o(0, n))
       IN /\ \A m \in Have : InChannel(m, c) /\ (empty \/ Visible(m)) =>
               LET in(Less(_, _)) == /\ w[1] # Every => Less(w[1].second, Second(m))
                                     /\ w[2] # Every => Less(Second(m), w[2].second)
               IN (in(<) => m \in asked) /\ (m \in asked => in(<=))
          /\ InOrder(newest) /\ RightToTheSecond(newest, asked, n, >)
          /\ InOrder(oldest) /\ RightToTheSecond(oldest, asked, n, <)
          /\ InOrder(Reverse(mentions)) /\ RightToTheSecond(mentions, mentioned, n, >)
          /\ InOrder(Reverse(SearchFallback(n, c)))

\* A conversation has the message and on each side of it at least the number
\* asked for, where what has its very time is on both, with no hole between
\* them; or nothing: it has nothing as soon as one side is shorter than was
\* asked.
ConversationWhole ==
  \A m \in Have, before \in Limits, after \in Limits :
    LET answer == GetConversation(m, before, after)
        around == {n \in Have : ChannelOf[n] = ChannelOf[m]}
    IN \/ /\ m \in answer
          /\ Cardinality({n \in answer : ~TextBefore(TimeOf[m], TimeOf[n])}) > before
          /\ Cardinality({n \in answer : ~TextBefore(TimeOf[n], TimeOf[m])}) > after
          /\ \A n \in around \ answer, k \in answer :
               ~(Second(k) < Second(n) /\ Second(n) < Second(m)) /\ ~(Second(m) < Second(n) /\ Second(n) < Second(k))
       \/ /\ answer = {}
          /\ \/ Cardinality({n \in around : Second(n) < Second(m)}) < before
             \/ Cardinality({n \in around : Second(n) > Second(m)}) < after

\* The k most similar messages, best first; for a message, without itself.
Nearest(answer, S, k, Score(_)) ==
  /\ IsInjective(answer) /\ Range(answer) \subseteq S /\ Len(answer) = Min({k, Cardinality(S)})
  /\ \A i, j \in DOMAIN answer : i < j => Score(answer[i]) >= Score(answer[j])
  /\ \A m \in Range(answer), n \in S \ Range(answer) : Score(m) >= Score(n)

NearestFound ==
  /\ \A k \in Limits, c \in Channels :
       LET Score(m) == Similarity(vec[m], "hit")
       IN \A answer \in VectorSearch(k, c) : Nearest(answer, Embedded(c), k, Score)
  /\ \A m \in Embedded(Every), k \in Limits :
       LET Score(n) == Similarity(vec[m], vec[n])
       IN \A answer \in FindSimilar(m, k) : Nearest(answer, Embedded(Every) \ {m}, k, Score)

\* A message that is ahead of another in one list and not behind it in the other
\* is ahead of it in the fused one, and nothing is lost but behind the limit.
FusionKeepsRanks ==
  \A limit \in Limits : \A found \in HybridSearch(limit, Every) :
    LET listed == Range(found.keyword) \cup Range(found.vector)
        NotBehind(s, m, n) == n \in Range(s) => m \in Range(s) /\ Rank(s, m) <= Rank(s, n)
    IN /\ Range(found.answer) \subseteq listed /\ IsInjective(found.answer)
       /\ Len(found.answer) = Min({limit, Cardinality(listed)})
       /\ \A m, n \in listed :
            m # n /\ NotBehind(found.keyword, m, n) /\ NotBehind(found.vector, m, n) /\ n \in Range(found.answer)
              => m \in Range(found.answer) /\ Rank(found.answer, m) < Rank(found.answer, n)

\* Both rankings, by similarity and fused, are right for every order in which the
\* heap and the map may give what is equal.
RankingsRight == NearestFound /\ FusionKeepsRanks
=============================================================================
