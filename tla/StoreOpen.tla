----------------------------- MODULE StoreOpen -----------------------------
(* Opening the archive (internal/store/store.go: Open, migrate;              *)
(* migrations.go; members_profile.go: ensureMemberFTSRowIDs): several        *)
(* processes open one database file that an older release may have left, one *)
(* transaction or statement at a time; any of them may die or fail in        *)
(* between, and those that are through write rows.                           *)
(*                                                                           *)
(* The two full-text indexes, of messages and of members, are rebuilt and     *)
(* stamped one after the other in the same way.  SQLite is external: a        *)
(* transaction happens at once or not at all.                                 *)
EXTENDS Naturals

CONSTANTS Procs, Keys,
          MaxCrashes            \* bound: processes that die or fail

ASSUME OpenBounds == MaxCrashes \in Nat

Current == 3                    \* storeSchemaVersion
Newer == Current + 1
Versions == 0..Newer
Indexes == {"message_fts", "member_fts"}

VARIABLES
  version,              \* pragma user_version
  schema,               \* the versions whose tables exist
  rows,                 \* of each index: the rows it is about,
  fts,                  \*   those it finds under their row id,
  stamp,                \*   and the version that sync_state names: "none", "old" or "current"
  pc, at, seen,         \* each process: where it is in migrate, the index it is at, currentVersion
  crashes

db   == <<version, schema, rows, fts, stamp>>
vars == <<db, pc, at, seen, crashes>>

\* What earlier releases and this one leave: nothing; tables without a version;
\* a version with its tables, and an index that is whole only if it is stamped.
Init ==
  /\ version \in Versions
  /\ schema \in IF version = 0 THEN {{}, {1}} ELSE {1..version}
  /\ rows \in [Indexes -> IF schema = {} THEN {{}} ELSE SUBSET Keys]
  /\ stamp \in [Indexes -> IF version = 0 THEN {"none"} ELSE {"none", "old", "current"}]
  /\ fts \in [Indexes -> SUBSET Keys]
  /\ \A i \in Indexes : fts[i] \subseteq rows[i] /\ (stamp[i] = "current" => fts[i] = rows[i])
  /\ pc = [p \in Procs |-> "closed"]
  /\ at = [p \in Procs |-> "message_fts"] /\ seen = [p \in Procs |-> 0]
  /\ crashes = 0

At(p, l) == pc[p] = l
Goto(p, l) == pc' = [pc EXCEPT ![p] = l]

-----------------------------------------------------------------------------
(* migrate: the schema *)

Begin(p) == At(p, "closed") /\ Goto(p, "read") /\ UNCHANGED <<db, at, seen, crashes>>

\* A version this program does not know is left alone.
TooNew == version > Current

ReadVersion(p) ==
  /\ At(p, "read")
  /\ seen' = [seen EXCEPT ![p] = version]
  /\ Goto(p, IF TooNew THEN "refused" ELSE "migrate")
  /\ UNCHANGED <<db, at, crashes>>

Behind(p) == seen[p] < Current

\* One transaction for each version behind the one that was read, in turn.
Migrate(p) ==
  /\ At(p, "migrate") /\ Behind(p)
  /\ schema' = schema \cup {seen[p] + 1}
  /\ seen' = [seen EXCEPT ![p] = @ + 1]
  /\ UNCHANGED <<version, rows, fts, stamp, pc, at, crashes>>

Migrated(p) == seen[p] >= Current

SetVersion(p) ==
  /\ At(p, "migrate") /\ Migrated(p)
  /\ version' = Current
  /\ Goto(p, "verify")
  /\ UNCHANGED <<schema, rows, fts, stamp, at, seen, crashes>>

Verify(p) ==
  /\ At(p, "verify")
  /\ Goto(p, IF version = Current THEN "check" ELSE "failed")
  /\ at' = [at EXCEPT ![p] = "message_fts"]
  /\ UNCHANGED <<db, seen, crashes>>

-----------------------------------------------------------------------------
(* migrate: ensureFTSRowIDs, then ensureMemberFTSRowIDs *)

\* Fault: the first index again.
SameIndex(p) == Goto(p, "check") /\ UNCHANGED at
NextIndex(p) ==
  IF at[p] = "message_fts"
    THEN Goto(p, "check") /\ at' = [at EXCEPT ![p] = "member_fts"]
    ELSE Goto(p, "open") /\ UNCHANGED at

\* Fault: any stamp is taken for the current one.
AnyStamp(p) == stamp[at[p]] # "none"
Stamped(p) == stamp[at[p]] = "current"

CheckStamp(p) ==
  /\ At(p, "check")
  /\ IF Stamped(p) THEN NextIndex(p) ELSE Goto(p, "rebuild") /\ UNCHANGED at
  /\ UNCHANGED <<db, seen, crashes>>

\* The table is dropped, created and filled from the rows, in one transaction.
Rebuild(p) ==
  /\ At(p, "rebuild")
  /\ fts' = [fts EXCEPT ![at[p]] = rows[at[p]]]
  /\ Goto(p, "stamp")
  /\ UNCHANGED <<version, schema, rows, stamp, at, seen, crashes>>

\* Fault: the table is emptied in one transaction and filled in another.
RebuildInTwo(p) ==
  /\ At(p, "rebuild")
  /\ \/ fts[at[p]] # {} /\ fts' = [fts EXCEPT ![at[p]] = {}] /\ UNCHANGED pc
     \/ fts[at[p]] = {} /\ fts' = [fts EXCEPT ![at[p]] = rows[at[p]]] /\ Goto(p, "stamp")
  /\ UNCHANGED <<version, schema, rows, stamp, at, seen, crashes>>

RebuildIndex(p) == Rebuild(p)

Stamp(p) ==
  /\ At(p, "stamp")
  /\ stamp' = [stamp EXCEPT ![at[p]] = "current"]
  /\ NextIndex(p)
  /\ UNCHANGED <<version, schema, rows, fts, seen, crashes>>

-----------------------------------------------------------------------------
(* A process that is through writes a row with its index entry, in one         *)
(* transaction, or deletes both (UpsertMessages, UpsertMember, DeleteMember).  *)

WriteRow(i, k) ==
  /\ rows' = [rows EXCEPT ![i] = @ \cup {k}]
  /\ fts' = [fts EXCEPT ![i] = @ \cup {k}]

DeleteRow(i, k) ==
  /\ i = "member_fts" /\ k \in rows[i]
  /\ rows' = [rows EXCEPT ![i] = @ \ {k}]
  /\ fts' = [fts EXCEPT ![i] = @ \ {k}]

Write(p) ==
  /\ At(p, "open")
  /\ \E i \in Indexes, k \in Keys : WriteRow(i, k) \/ DeleteRow(i, k)
  /\ UNCHANGED <<version, schema, stamp, pc, at, seen, crashes>>

Close(p) == At(p, "open") /\ Goto(p, "closed") /\ UNCHANGED <<db, at, seen, crashes>>

\* The process dies, or a statement fails and Open returns the error; it is
\* started again.
Crash(p) ==
  /\ pc[p] \notin {"closed", "refused"} /\ crashes < MaxCrashes
  /\ crashes' = crashes + 1
  /\ Goto(p, "closed")
  /\ UNCHANGED <<db, at, seen>>

-----------------------------------------------------------------------------
Opening(p) == \/ Begin(p) \/ ReadVersion(p) \/ Migrate(p) \/ SetVersion(p) \/ Verify(p)
              \/ CheckStamp(p) \/ RebuildIndex(p) \/ Stamp(p)

Next == \E p \in Procs : Opening(p) \/ Write(p) \/ Close(p) \/ Crash(p)

Fairness == \A p \in Procs : WF_vars(Opening(p))

Spec == Init /\ [][Next]_vars /\ Fairness

-----------------------------------------------------------------------------
Places == {"closed", "read", "refused", "migrate", "verify", "failed", "check", "rebuild", "stamp", "open"}

TypeOK ==
  /\ version \in Versions /\ schema \subseteq 1..Newer /\ (version <= Current => schema \subseteq 1..Current)
  /\ rows \in [Indexes -> SUBSET Keys] /\ fts \in [Indexes -> SUBSET Keys]
  /\ stamp \in [Indexes -> {"none", "old", "current"}]
  /\ pc \in [Procs -> Places] /\ at \in [Procs -> Indexes] /\ seen \in [Procs -> Versions]
  /\ crashes \in 0..MaxCrashes

\* The version that is written down promises its tables, whoever died where.
VersionHonest == 1..version \subseteq schema

\* An index that is stamped finds exactly the rows that are there, also while
\* another process that has not seen the stamp rebuilds it once more.
StampHonest == \A i \in Indexes : stamp[i] = "current" => fts[i] = rows[i]

\* Whoever has opened the archive works on the current schema with both indexes
\* whole.
OpenIsReady ==
  \A p \in Procs : pc[p] = "open" =>
    /\ version = Current /\ schema = 1..Current
    /\ \A i \in Indexes : stamp[i] = "current" /\ fts[i] = rows[i]

\* What is written down of the archive, the version and the stamps, holds in every
\* state, and no process of this release goes on with a newer archive.
MarksHonest ==
  /\ TypeOK /\ VersionHonest /\ StampHonest
  /\ version > Current => \A p \in Procs : pc[p] \in {"closed", "read", "refused"}

\* Every start ends with the archive open or refused, after however many deaths.
StartsEnd == \A p \in Procs : pc[p] = "read" ~> pc[p] \in {"open", "refused"}
=============================================================================
