----------------------------- MODULE MCQueries -----------------------------
(* Four messages, two of the same time and one later in that second, whose     *)
(* text sorts before theirs; one is in a channel of its own, two are of an     *)
(* author whose name is the word searched for.  Three members, the raw row of  *)
(* one has the ids of all.                                                     *)
EXTENDS Queries

Time(s, f) == [second |-> s, fraction |-> f]
FourTimes == <<Time(1, <<>>), Time(1, <<>>), Time(1, <<1>>), Time(2, <<>>)>>
TwoChannels == <<"general", "general", "other", "general">>
FourRanks == 61 * 31 * 63 * 64
LoudMember == {<<u, u>> : u \in Users} \cup {<<1, u>> : u \in Users}
=============================================================================
