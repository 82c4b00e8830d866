--------------------------- MODULE MemberRefresh ---------------------------
(* The member snapshot of one guild: when it is due and how it is taken      *)
(* (internal/syncer/syncer.go: refreshGuildMembers, shouldRefreshMembers),    *)
(* the pages it is read from with either client (botclient.go, userclient.go: *)
(* GuildMembers), the table it replaces, and the joins and leaves that live   *)
(* tail writes into the same table (tail.go, internal/store/write.go).        *)
(*                                                                            *)
(* Discord is external: members join and leave, and the client is told or,    *)
(* while no tail runs, is not.  The bot client's workers apply the events in  *)
(* any order, the user client's gateway in theirs.                            *)
EXTENDS Naturals, Sequences, FiniteSets, FiniteSetsExt

CONSTANTS Users,        \* numbers: members are listed by id
          PageSize,     \* 1000 in the code
          MaxChanges,   \* bound: joins and leaves
          MaxFaults     \* bound: calls that fail

ASSUME MemberBounds == /\ Users \subseteq Nat \ {0} /\ IsFiniteSet(Users)
                       /\ PageSize \in Nat \ {0} /\ MaxChanges \in Nat /\ MaxFaults \in Nat

VARIABLES
  client,               \* "bot" or "user"
  actual, events,       \* Discord: the members; events not yet handled
  members, marker,      \* the table; the guild's success marker and its age
  pc, after, out,       \* refreshGuildMembers and GuildMembers
  changed, doubt,       \* history: users that changed under this refresh; whose row may be wrong
  changes, faults

refresh == <<pc, after, out>>
bounds  == <<changes, faults>>
vars    == <<client, actual, events, members, marker, refresh, changed, doubt, bounds>>

Init ==
  /\ client \in {"bot", "user"}
  /\ actual \in SUBSET Users /\ events = <<>>
  /\ members = {} /\ marker = "none"
  /\ pc = "idle" /\ after = 0 /\ out = {}
  /\ changed = {} /\ doubt = Users
  /\ changes = 0 /\ faults = 0

Fault == faults < MaxFaults /\ faults' = faults + 1

-----------------------------------------------------------------------------
(* Joins and leaves *)

Pending(u) == \E i \in 1..Len(events) : events[i].user = u

Change(u) ==
  /\ changes < MaxChanges /\ changes' = changes + 1
  /\ actual' = IF u \in actual THEN actual \ {u} ELSE actual \cup {u}
  /\ changed' = changed \cup {u}
  /\ \/ /\ events' = Append(events, [user |-> u, joins |-> u \notin actual])
        \* the event meets a refresh, or an earlier event of the user
        /\ doubt' = IF pc # "idle" \/ Pending(u) THEN doubt \cup {u} ELSE doubt
     \/ doubt' = doubt \cup {u} /\ UNCHANGED events
  /\ UNCHANGED <<client, members, marker, refresh, faults>>

Without(s, i) == SubSeq(s, 1, i - 1) \o SubSeq(s, i + 1, Len(s))

\* OnMemberUpsert, OnMemberDelete
Apply ==
  /\ \E i \in 1..Len(events) :
       /\ client = "user" => i = 1
       /\ events' = Without(events, i)
       /\ members' = IF events[i].joins THEN members \cup {events[i].user}
                                        ELSE members \ {events[i].user}
       \* it is written while a refresh holds a list
       /\ doubt' = IF pc # "idle" THEN doubt \cup {events[i].user} ELSE doubt
       /\ changed' = changed \cup {events[i].user}
  /\ UNCHANGED <<client, actual, marker, refresh, bounds>>

-----------------------------------------------------------------------------
(* shouldRefreshMembers *)

NeverStale == marker = "none" \* fault: one snapshot for ever
Due == marker \in {"none", "stale"}

\* Rows and no marker: taken for a snapshot that has just been made.
Seeds == marker = "none" /\ members # {}

Start ==
  /\ pc' = "page" /\ after' = 0 /\ out' = {}
  /\ changed' = {}
  /\ doubt' = doubt \cup {u \in Users : Pending(u)}

Refresh ==
  /\ pc = "idle" /\ Due /\ ~Seeds
  /\ Start
  /\ UNCHANGED <<client, actual, events, members, marker, bounds>>

Seed ==
  /\ pc = "idle" /\ Seeds
  /\ marker' = "fresh"
  /\ UNCHANGED <<client, actual, events, members, refresh, changed, doubt, bounds>>

\* Reading or writing the marker or the count fails: the snapshot is taken.
LookupFails ==
  /\ pc = "idle" /\ Fault
  /\ Start
  /\ UNCHANGED <<client, actual, events, members, marker, changes>>

\* memberRefreshInterval passes.
Elapse ==
  /\ marker = "fresh"
  /\ marker' = "stale"
  /\ UNCHANGED <<client, actual, events, members, refresh, changed, doubt, bounds>>

-----------------------------------------------------------------------------
(* GuildMembers *)

Rest == {u \in actual : u > after}
FirstOf(S) == {u \in S : Cardinality({v \in S : v < u}) < PageSize}

NextAfter(page) == Max(page)

NotOverfull(page) == Cardinality(page) <= PageSize \* fault
Short(page) == Cardinality(page) < PageSize

Page ==
  /\ pc = "page"
  /\ LET page == FirstOf(Rest) IN
       /\ out' = out \cup page
       /\ IF Short(page)
            THEN pc' = "replace" /\ UNCHANGED after
            ELSE after' = NextAfter(page) /\ UNCHANGED pc
  /\ UNCHANGED <<client, actual, events, members, marker, changed, doubt, bounds>>

\* The request fails, or the time of the refresh is over: the bot client gives
\* up, the user client returns the pages it has.
KeepsPartial == client = "user" /\ out # {}

PageFails ==
  /\ pc = "page" /\ Fault
  /\ IF KeepsPartial
       THEN /\ pc' = "replace" /\ doubt' = doubt \cup (Users \ out) /\ changed' = Users
            /\ UNCHANGED <<after, out>>
       ELSE pc' = "idle" /\ after' = 0 /\ out' = {} /\ UNCHANGED <<changed, doubt>>
  /\ UNCHANGED <<client, actual, events, members, marker, changes>>

-----------------------------------------------------------------------------
(* ReplaceMembers and the marker *)

AddSnapshot == members \cup out \* fault: who left stays
Snapshot == out

\* What the list could not know stays in doubt, the rest is settled by it.
Replace ==
  /\ pc = "replace"
  /\ members' = Snapshot
  /\ doubt' = doubt \cap (changed \cup {u \in Users : Pending(u)})
  /\ pc' = "stamp"
  /\ UNCHANGED <<client, actual, events, marker, after, out, changed, bounds>>

ReplaceFails ==
  /\ pc = "replace" /\ Fault
  /\ pc' = "idle" /\ out' = {} /\ after' = 0
  /\ UNCHANGED <<client, actual, events, members, marker, changed, doubt, changes>>

Stamp ==
  /\ pc = "stamp"
  /\ \/ marker' = "fresh" /\ UNCHANGED faults
     \/ Fault /\ UNCHANGED marker
  /\ pc' = "idle" /\ out' = {} /\ after' = 0
  /\ UNCHANGED <<client, actual, events, members, changed, doubt, changes>>

-----------------------------------------------------------------------------
Snapshotting == Refresh \/ Seed \/ Page \/ Replace \/ Stamp
Next == \/ Snapshotting \/ LookupFails \/ PageFails \/ ReplaceFails \/ Elapse
        \/ Apply \/ \E u \in Users : Change(u)

\* The program is run again and again, and time passes.
Fairness == WF_vars(Snapshotting) /\ WF_vars(Apply) /\ WF_vars(Elapse)

Spec == Init /\ [][Next]_vars /\ Fairness

-----------------------------------------------------------------------------
TypeOK ==
  /\ client \in {"bot", "user"} /\ actual \subseteq Users /\ members \subseteq Users
  /\ events \in Seq([user : Users, joins : BOOLEAN])
  /\ marker \in {"none", "fresh", "stale"}
  /\ pc \in {"idle", "page", "replace", "stamp"} /\ out \subseteq Users /\ after \in out \cup {0}
  /\ changed \subseteq Users /\ doubt \subseteq Users
  /\ changes \in 0..MaxChanges /\ faults \in 0..MaxFaults

\* The table is right about everyone whose events have been applied and who is
\* not in doubt: only a join or leave that meets a refresh or another of the same
\* user, one that nobody saw, or a list that a failed page cut short, make it wrong.
RightUnlessRaced ==
  \A u \in Users \ doubt : ~Pending(u) => (u \in members <=> u \in actual)

\* The list of a refresh has every user who was there from its beginning to its
\* end, however joins and leaves shift the pages, unless a page failed.
NobodySkipped ==
  pc = "replace" => \A u \in Users \ changed : u \in out <=> u \in actual

\* ... and the cursor of the next page is one of them.
ListHonest == TypeOK /\ NobodySkipped

\* Whatever was lost, cut short or written in the wrong order, a later snapshot
\* repairs, once the interval has passed and the guild holds still.
SnapshotHeals == <>[](members = actual)
=============================================================================
