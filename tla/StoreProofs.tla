---------------------------- MODULE StoreProofs ----------------------------
(***************************************************************************)
(* The archive's file and its answers (internal/store).                    *)
(*                                                                         *)
(* What is written down of the archive holds, and whoever has opened it    *)
(* finds it ready, for any number of processes, rows and deaths.  Neither  *)
(* follows from itself: a process that is half-way through migrate relies  *)
(* on what it has done before, and others may do the same behind its back. *)
(* Journey states what each place of migrate may rely on.                  *)
(*                                                                         *)
(* What the archive answers is right for any number of messages and of     *)
(* users, any times, any limits and any rows that the specification of the *)
(* rows allows.  The answers are values of the rows, so the work is about  *)
(* sorting, taking the first ones, the text of times, a heap and an        *)
(* insertion sort whose input comes in any order.                          *)
(***************************************************************************)
EXTENDS StoreOpen, Queries, TLAPS, FiniteSetTheorems, SequenceTheorems

----------------------------------------------------------------------------
(* Opening the archive.                                                    *)

Idle == {"closed", "read", "refused"}
Late == {"verify", "check", "rebuild", "stamp", "open"}

Journey(p) ==
  /\ pc[p] \notin Idle => version =< Current
  /\ pc[p] = "migrate" => seen[p] =< Current /\ 1..seen[p] \subseteq schema
  /\ pc[p] \in Late => version = Current
  /\ pc[p] = "stamp" => fts[at[p]] = rows[at[p]]
  /\ pc[p] \in {"check", "rebuild", "stamp"} /\ at[p] = "member_fts"
       => stamp["message_fts"] = "current"
  /\ pc[p] = "open" => \A i \in Indexes : stamp[i] = "current"

IInv == TypeOK /\ VersionHonest /\ StampHonest /\ \A p \in Procs : Journey(p)

----------------------------------------------------------------------------

LEMMA InitIInv == Init => IInv
<1> SUFFICES ASSUME Init PROVE IInv
  OBVIOUS
<1> USE DEF Current, Newer, Versions, Indexes
<1>1. schema \subseteq 1..version \/ (version = 0 /\ schema \subseteq {1})
  BY DEF Init
<1>2. 1..version \subseteq schema
  BY DEF Init
<1>3. TypeOK
  <2>1. version \in Versions /\ schema \subseteq 1..Newer /\ (version =< Current => schema \subseteq 1..Current)
    BY <1>1 DEF Init
  <2>2. rows \in [Indexes -> SUBSET Keys]
    BY DEF Init
  <2>3. stamp \in [Indexes -> {"none", "old", "current"}]
    BY DEF Init
  <2> QED BY <2>1, <2>2, <2>3, OpenBounds DEF Init, TypeOK, Places
<1>4. StampHonest
  BY DEF Init, StampHonest
<1> QED BY <1>2, <1>3, <1>4 DEF Init, IInv, Journey, VersionHonest, Idle, Late

\* A step that leaves the archive and every other process alone.
LEMMA OwnStep ==
  ASSUME IInv, NEW p \in Procs, UNCHANGED db,
         TypeOK', \A q \in Procs \ {p} : pc'[q] = pc[q] /\ at'[q] = at[q] /\ seen'[q] = seen[q],
         Journey(p)'
  PROVE  IInv'
BY DEF IInv, Journey, VersionHonest, StampHonest, db

LEMMA OwnStepType ==
  ASSUME TypeOK, NEW p \in Procs, UNCHANGED db, NEW place \in Places, Goto(p, place),
         at' \in [Procs -> Indexes], seen' \in [Procs -> Versions], crashes' \in 0..MaxCrashes
  PROVE  TypeOK' /\ pc'[p] = place /\ \A q \in Procs \ {p} : pc'[q] = pc[q]
BY Zenon DEF TypeOK, Goto, db

----------------------------------------------------------------------------
(* The steps of migrate that write to the archive.                         *)

LEMMA MigrateStep == ASSUME IInv, NEW p \in Procs, Migrate(p) PROVE IInv'
<1> USE DEF Current, Newer, Versions
<1>1. /\ seen[p] \in 0..2 /\ version \in 0..3 /\ schema \subseteq 1..3 /\ 1..seen[p] \subseteq schema
      /\ pc[p] = "migrate" /\ seen \in [Procs -> Versions]
  BY DEF IInv, TypeOK, Journey, Migrate, Behind, At, Idle
<1>2. /\ schema' = schema \cup {seen[p] + 1} /\ seen' = [seen EXCEPT ![p] = seen[p] + 1]
      /\ UNCHANGED <<version, rows, fts, stamp, pc, at, crashes>>
  BY DEF Migrate
<1>3. schema' \subseteq 1..3 /\ 1..seen'[p] \subseteq schema' /\ seen'[p] \in 0..3
  <2>1. seen'[p] = seen[p] + 1
    BY <1>1, <1>2
  <2>2. \A n \in 1..(seen[p] + 1) : n \in 1..seen[p] \/ n = seen[p] + 1
    BY <1>1
  <2>3. seen[p] + 1 \in 1..3
    BY <1>1
  <2>4. schema' = schema \cup {seen[p] + 1}
    BY <1>2
  <2>5. 1..(seen[p] + 1) \subseteq schema'
    BY <1>1, <2>2, <2>4
  <2>6. schema' \subseteq 1..3
    BY <1>1, <2>3, <2>4
  <2> QED BY <1>1, <2>1, <2>5, <2>6
<1>4. TypeOK'
  BY <1>1, <1>2, <1>3 DEF IInv, TypeOK
<1>5. VersionHonest' /\ StampHonest'
  BY <1>2 DEF IInv, VersionHonest, StampHonest
<1>6. ASSUME NEW q \in Procs PROVE Journey(q)'
  <2>1. CASE q = p
    BY <1>1, <1>2, <1>3, <2>1 DEF IInv, Journey, Idle, Late
  <2>2. CASE q # p
    <3>1. seen'[q] = seen[q] /\ Journey(q)
      BY <1>1, <1>2, <2>2 DEF IInv
    <3> QED BY <1>2, <3>1 DEF Journey
  <2> QED BY <2>1, <2>2
<1> QED BY <1>4, <1>5, <1>6 DEF IInv

LEMMA SetVersionStep == ASSUME IInv, NEW p \in Procs, SetVersion(p) PROVE IInv'
<1> USE DEF Current, Newer, Versions
<1>1. /\ seen[p] = 3 /\ version \in 0..3 /\ schema \subseteq 1..3 /\ 1..3 \subseteq schema
      /\ pc[p] = "migrate"
  BY DEF IInv, TypeOK, Journey, SetVersion, Migrated, At, Idle
<1>2. /\ version' = 3 /\ pc' = [pc EXCEPT ![p] = "verify"]
      /\ UNCHANGED <<schema, rows, fts, stamp, at, seen, crashes>>
  BY DEF SetVersion, Goto
<1>3. TypeOK'
  BY <1>1, <1>2 DEF IInv, TypeOK, Places
<1>4. VersionHonest' /\ StampHonest'
  BY <1>1, <1>2 DEF IInv, VersionHonest, StampHonest
<1>5. ASSUME NEW q \in Procs PROVE Journey(q)'
  <2>1. CASE q = p
    BY <1>2, <2>1 DEF IInv, TypeOK, Journey, Idle, Late
  <2>2. CASE q # p
    <3>1. pc'[q] = pc[q] /\ Journey(q)
      BY <1>2, <2>2 DEF IInv, TypeOK
    <3> QED BY <1>2, <3>1 DEF Journey
  <2> QED BY <2>1, <2>2
<1> QED BY <1>3, <1>4, <1>5 DEF IInv

LEMMA RebuildStep == ASSUME IInv, NEW p \in Procs, RebuildIndex(p) PROVE IInv'
<1>1. /\ fts' = [fts EXCEPT ![at[p]] = rows[at[p]]] /\ pc[p] = "rebuild"
      /\ pc' = [pc EXCEPT ![p] = "stamp"]
      /\ UNCHANGED <<version, schema, rows, stamp, at, seen, crashes>>
  BY DEF RebuildIndex, Rebuild, Goto, At
<1>2. at[p] \in Indexes /\ fts \in [Indexes -> SUBSET Keys] /\ rows \in [Indexes -> SUBSET Keys]
  BY DEF IInv, TypeOK
<1>3. \A i \in Indexes : fts'[i] = IF i = at[p] THEN rows[i] ELSE fts[i]
  BY <1>1, <1>2
<1>4. TypeOK'
  BY <1>1, <1>2 DEF IInv, TypeOK, Places
<1>5. VersionHonest' /\ StampHonest'
  BY <1>1, <1>3 DEF IInv, VersionHonest, StampHonest
<1>6. ASSUME NEW q \in Procs PROVE Journey(q)'
  <2>0. at[q] \in Indexes
    BY DEF IInv, TypeOK
  <2>1. CASE q = p
    BY <1>1, <1>2, <1>3, <2>1 DEF IInv, TypeOK, Journey, Idle, Late
  <2>2. CASE q # p
    <3>1. pc'[q] = pc[q] /\ Journey(q)
      BY <1>1, <2>2 DEF IInv, TypeOK
    <3> QED BY <1>1, <1>3, <2>0, <3>1 DEF Journey
  <2> QED BY <2>1, <2>2
<1> QED BY <1>4, <1>5, <1>6 DEF IInv

\* Where NextIndex leaves a process, once the index it was at is stamped.
LEMMA NextIndexPlace ==
  ASSUME IInv, NEW p \in Procs, pc[p] \in {"check", "stamp"}, NextIndex(p)
  PROVE  /\ at' \in [Procs -> Indexes]
         /\ \A q \in Procs \ {p} : at'[q] = at[q] /\ pc'[q] = pc[q]
         /\ \/ at[p] = "message_fts" /\ Goto(p, "check") /\ pc'[p] = "check" /\ at'[p] = "member_fts"
            \/ at[p] = "member_fts" /\ Goto(p, "open") /\ pc'[p] = "open" /\ at' = at
BY Zenon DEF NextIndex, Goto, IInv, TypeOK, Indexes

LEMMA StampStep == ASSUME IInv, NEW p \in Procs, Stamp(p) PROVE IInv'
<1>1. /\ stamp' = [stamp EXCEPT ![at[p]] = "current"] /\ pc[p] = "stamp" /\ NextIndex(p)
      /\ UNCHANGED <<version, schema, rows, fts, seen, crashes>>
  BY DEF Stamp, At
<1>2. at[p] \in Indexes /\ fts[at[p]] = rows[at[p]] /\ version = Current
      /\ (at[p] = "member_fts" => stamp["message_fts"] = "current")
  BY <1>1 DEF IInv, TypeOK, Journey, Late
<1>3. \A i \in Indexes : stamp'[i] = IF i = at[p] THEN "current" ELSE stamp[i]
  BY <1>1, <1>2 DEF IInv, TypeOK
<1>4. \A i \in Indexes : stamp[i] = "current" => stamp'[i] = "current"
  BY <1>3
<1>5. TypeOK'
  <2>1. pc' \in [Procs -> Places]
    BY <1>1, NextIndexPlace DEF IInv, TypeOK, Goto, Places
  <2>2. stamp' \in [Indexes -> {"none", "old", "current"}]
    BY <1>1, <1>2 DEF IInv, TypeOK
  <2>3. at' \in [Procs -> Indexes]
    BY <1>1, NextIndexPlace
  <2> QED BY <1>1, <2>1, <2>2, <2>3, Zenon DEF IInv, TypeOK
<1>6. VersionHonest' /\ StampHonest'
  BY <1>1, <1>2, <1>3 DEF IInv, VersionHonest, StampHonest
<1>7. ASSUME NEW q \in Procs PROVE Journey(q)'
  <2>1. CASE q = p
    <3>1. \/ pc'[p] = "check" /\ stamp'["message_fts"] = "current"
          \/ pc'[p] = "open" /\ \A i \in Indexes : stamp'[i] = "current"
      BY <1>1, <1>2, <1>3, NextIndexPlace DEF Indexes
    <3> QED BY <1>1, <1>2, <2>1, <3>1 DEF Journey, Current, Idle, Late
  <2>2. CASE q # p
    <3>1. pc'[q] = pc[q] /\ at'[q] = at[q] /\ Journey(q)
      BY <1>1, <2>2, NextIndexPlace DEF IInv
    <3>2. "message_fts" \in Indexes
      BY DEF Indexes
    <3> QED BY <1>1, <1>4, <3>1, <3>2 DEF Journey
  <2> QED BY <2>1, <2>2
<1> QED BY <1>5, <1>6, <1>7 DEF IInv

LEMMA WriteStep == ASSUME IInv, NEW p \in Procs, Write(p) PROVE IInv'
<1>1. PICK i \in Indexes, k \in Keys : WriteRow(i, k) \/ DeleteRow(i, k)
  BY DEF Write
<1>2. UNCHANGED <<version, schema, stamp, pc, at, seen, crashes>>
  BY DEF Write
<1>3. rows' \in [Indexes -> SUBSET Keys] /\ fts' \in [Indexes -> SUBSET Keys]
  BY <1>1 DEF IInv, TypeOK, WriteRow, DeleteRow
<1>4. \A j \in Indexes : fts[j] = rows[j] => fts'[j] = rows'[j]
  <2>1. rows \in [Indexes -> SUBSET Keys] /\ fts \in [Indexes -> SUBSET Keys]
    BY DEF IInv, TypeOK
  <2>2. CASE WriteRow(i, k)
    BY <2>1, <2>2 DEF WriteRow
  <2>3. CASE DeleteRow(i, k)
    BY <2>1, <2>3 DEF DeleteRow
  <2> QED BY <1>1, <2>2, <2>3
<1>5. TypeOK'
  BY <1>2, <1>3 DEF IInv, TypeOK
<1>6. VersionHonest' /\ StampHonest'
  BY <1>2, <1>4 DEF IInv, VersionHonest, StampHonest
<1>7. ASSUME NEW q \in Procs PROVE Journey(q)'
  BY <1>2, <1>4 DEF IInv, TypeOK, Journey
<1> QED BY <1>5, <1>6, <1>7 DEF IInv

----------------------------------------------------------------------------
(* The steps that write nothing.                                           *)

LEMMA ReadingStep ==
  ASSUME IInv, NEW p \in Procs,
         Begin(p) \/ ReadVersion(p) \/ Verify(p) \/ CheckStamp(p) \/ Close(p) \/ Crash(p)
  PROVE  IInv'
<1> USE DEF IInv
<1>1. CASE Begin(p) \/ Close(p) \/ Crash(p)
  <2>1. PICK place \in Idle : Goto(p, place)
    BY <1>1 DEF Begin, Close, Crash, Idle
  <2>2. UNCHANGED <<db, at, seen>> /\ crashes' \in 0..MaxCrashes
    BY <1>1, OpenBounds DEF TypeOK, Begin, Close, Crash
  <2>3. TypeOK' /\ pc'[p] = place /\ \A q \in Procs \ {p} : pc'[q] = pc[q]
    <3>1. place \in Places /\ at' \in [Procs -> Indexes] /\ seen' \in [Procs -> Versions]
      BY <2>1, <2>2 DEF TypeOK, Idle, Places
    <3> QED BY <2>1, <2>2, <3>1, OwnStepType
  <2>4. Journey(p)'
    BY <2>1, <2>3 DEF Journey, Idle, Late
  <2> QED BY <2>2, <2>3, <2>4, OwnStep
<1>2. CASE ReadVersion(p)
  <2>1. PICK place \in {"refused", "migrate"} : Goto(p, place) /\ (place = "migrate" => version =< Current)
    BY <1>2 DEF ReadVersion, TooNew, TypeOK, Versions, Newer, Current
  <2>2. UNCHANGED <<db, at, crashes>> /\ seen' = [seen EXCEPT ![p] = version]
    BY <1>2 DEF ReadVersion
  <2>3. TypeOK' /\ pc'[p] = place /\ \A q \in Procs \ {p} : pc'[q] = pc[q]
    <3>1. /\ place \in Places /\ at' \in [Procs -> Indexes] /\ seen' \in [Procs -> Versions]
          /\ crashes' \in 0..MaxCrashes
      BY <2>1, <2>2 DEF TypeOK, Places, db
    <3> QED BY <2>1, <2>2, <3>1, OwnStepType
  <2>4. seen'[p] = version /\ \A q \in Procs \ {p} : seen'[q] = seen[q]
    BY <2>2 DEF TypeOK
  <2>5. Journey(p)'
    BY <2>1, <2>2, <2>3, <2>4 DEF Journey, VersionHonest, Idle, Late, db
  <2> QED BY <2>2, <2>3, <2>4, <2>5, OwnStep
<1>3. CASE Verify(p)
  <2>1. Goto(p, "check") /\ version = Current
    BY <1>3 DEF Verify, Journey, At, Late
  <2>2. UNCHANGED <<db, seen, crashes>> /\ at' = [at EXCEPT ![p] = "message_fts"]
    BY <1>3 DEF Verify
  <2>3. TypeOK' /\ pc'[p] = "check" /\ \A q \in Procs \ {p} : pc'[q] = pc[q]
    <3>1. /\ "check" \in Places /\ at' \in [Procs -> Indexes] /\ seen' \in [Procs -> Versions]
          /\ crashes' \in 0..MaxCrashes
      BY <2>2 DEF TypeOK, Places, Indexes
    <3> QED BY <2>1, <2>2, <3>1, OwnStepType
  <2>4. at'[p] = "message_fts" /\ \A q \in Procs \ {p} : at'[q] = at[q]
    BY <2>2 DEF TypeOK
  <2>5. Journey(p)'
    BY <2>1, <2>2, <2>3, <2>4 DEF Journey, Idle, Late, Current, db
  <2> QED BY <2>2, <2>3, <2>4, <2>5, OwnStep
<1>4. CASE CheckStamp(p)
  <2>1. pc[p] = "check" /\ UNCHANGED <<db, seen, crashes>> /\ version = Current
    BY <1>4 DEF CheckStamp, At, Journey, Late
  <2>2. CASE Stamped(p)
    <3>1. NextIndex(p) /\ stamp[at[p]] = "current"
      BY <1>4, <2>2 DEF CheckStamp, Stamped
    <3>2. PICK place \in {"check", "open"} :
            /\ Goto(p, place)
            /\ place = "check" => stamp["message_fts"] = "current"
            /\ place = "open" => \A i \in Indexes : stamp[i] = "current"
      BY <2>1, <3>1, NextIndexPlace DEF Journey, Indexes
    <3>3. at' \in [Procs -> Indexes] /\ \A q \in Procs \ {p} : at'[q] = at[q]
      BY <2>1, <3>1, NextIndexPlace
    <3>4. TypeOK' /\ pc'[p] = place /\ \A q \in Procs \ {p} : pc'[q] = pc[q]
      <4>1. place \in Places /\ seen' \in [Procs -> Versions] /\ crashes' \in 0..MaxCrashes
        BY <2>1, <3>2 DEF TypeOK, Places
      <4> QED BY <2>1, <3>2, <3>3, <4>1, OwnStepType
    <3>5. Journey(p)'
      BY <2>1, <3>2, <3>4 DEF Journey, Idle, Late, Current, db
    <3> QED BY <2>1, <3>3, <3>4, <3>5, OwnStep
  <2>3. CASE ~Stamped(p)
    <3>1. Goto(p, "rebuild") /\ at' = at
      BY <1>4, <2>3 DEF CheckStamp
    <3>2. TypeOK' /\ pc'[p] = "rebuild" /\ \A q \in Procs \ {p} : pc'[q] = pc[q]
      <4>1. /\ "rebuild" \in Places /\ at' \in [Procs -> Indexes] /\ seen' \in [Procs -> Versions]
            /\ crashes' \in 0..MaxCrashes
        BY <2>1, <3>1 DEF TypeOK, Places
      <4> QED BY <2>1, <3>1, <4>1, OwnStepType
    <3>3. Journey(p)'
      BY <2>1, <3>1, <3>2 DEF Journey, Idle, Late, Current, db
    <3> QED BY <2>1, <3>1, <3>2, <3>3, OwnStep
  <2> QED BY <2>2, <2>3
<1> QED BY <1>1, <1>2, <1>3, <1>4

LEMMA IInvStep == IInv /\ [Next]_vars => IInv'
<1> SUFFICES ASSUME IInv, [Next]_vars PROVE IInv'
  OBVIOUS
<1>1. CASE UNCHANGED vars
  BY <1>1 DEF IInv, TypeOK, VersionHonest, StampHonest, Journey, vars, db
<1>2. ASSUME NEW p \in Procs, Opening(p) \/ Write(p) \/ Close(p) \/ Crash(p) PROVE IInv'
  BY <1>2, MigrateStep, SetVersionStep, RebuildStep, StampStep, WriteStep, ReadingStep DEF Opening
<1> QED BY <1>1, <1>2 DEF Next

LEMMA IInvAlways == Spec => []IInv
BY InitIInv, IInvStep, PTL DEF Spec

----------------------------------------------------------------------------
(* Theorems.                                                               *)

\* store.go:193-262, migrations.go: the version and the stamps hold in every
\* state, whichever processes die where in migrate, and an archive of a newer
\* release is left alone.
THEOREM MarksAlwaysHonest == Spec => []MarksHonest
<1>1. ASSUME IInv PROVE MarksHonest
  <2>1. version > Current => \A p \in Procs : pc[p] \in {"closed", "read", "refused"}
    <3>1. version \in 0..4
      BY <1>1 DEF IInv, TypeOK, Versions, Newer, Current
    <3>2. \A p \in Procs : pc[p] \notin Idle => version =< Current
      BY <1>1 DEF IInv, Journey
    <3>3. version > Current => ~(version =< Current)
      BY <3>1 DEF Current
    <3> QED BY <3>2, <3>3, Zenon DEF Idle
  <2> QED BY <1>1, <2>1 DEF IInv, MarksHonest
<1> QED BY <1>1, IInvAlways, PTL

\* store.go Open: a process that is through has the current schema and both
\* indexes whole, and keeps them while others open the archive beside it.
THEOREM OpenAlwaysReady == Spec => []OpenIsReady
<1>1. ASSUME IInv PROVE OpenIsReady
  <2> SUFFICES ASSUME NEW p \in Procs, pc[p] = "open"
               PROVE  /\ version = Current /\ schema = 1..Current
                      /\ \A i \in Indexes : stamp[i] = "current" /\ fts[i] = rows[i]
    BY DEF OpenIsReady
  <2>1. version = Current /\ \A i \in Indexes : stamp[i] = "current"
    BY <1>1 DEF IInv, Journey, Late
  <2>2. schema = 1..Current
    <3>1. schema \subseteq 1..Current
      BY <1>1, <2>1 DEF IInv, TypeOK, Current
    <3>2. 1..Current \subseteq schema
      BY <1>1, <2>1 DEF IInv, VersionHonest
    <3> QED BY <3>1, <3>2
  <2> QED BY <1>1, <2>1, <2>2 DEF IInv, StampHonest
<1> QED BY <1>1, IInvAlways, PTL

-----------------------------------------------------------------------------
(* Sorting *)

\* Functions that agree everywhere are one.
LEMMA SameFunction ==
  \A D, X : \A f, g \in [D -> X] : (\A i \in D : f[i] = g[i]) => f = g
OBVIOUS

StrictOrder(S, order) ==
  /\ \A m \in S : <<m, m>> \notin order
  /\ \A m, n \in S : m # n => <<m, n>> \in order \/ <<n, m>> \in order
  /\ \A m, n, k \in S : <<m, n>> \in order /\ <<n, k>> \in order => <<m, k>> \in order

\* An order of a set is one of each of its subsets.
LEMMA StrictBelow ==
  ASSUME NEW S, NEW order, StrictOrder(S, order), NEW T \in SUBSET S
  PROVE  StrictOrder(T, order)
BY DEF StrictOrder

Below(S, order, m) == {n \in S : <<n, m>> \in order}

\* The number of members below tells every two apart, and keeps their order.
LEMMA RankProperties ==
  ASSUME NEW S, IsFiniteSet(S), NEW order, StrictOrder(S, order)
  PROVE  /\ \A m \in S : Cardinality(Below(S, order, m)) \in 0..(Cardinality(S) - 1)
         /\ \A m, n \in S : <<m, n>> \in order
              => Cardinality(Below(S, order, m)) < Cardinality(Below(S, order, n))
<1>0. Cardinality(S) \in Nat
  BY FS_CardinalityType
<1>1. ASSUME NEW m \in S
      PROVE  /\ IsFiniteSet(Below(S, order, m)) /\ Cardinality(Below(S, order, m)) \in Nat
             /\ Cardinality(Below(S, order, m)) < Cardinality(S)
  <2>1. Below(S, order, m) \in SUBSET S /\ m \notin Below(S, order, m)
    BY DEF Below, StrictOrder
  <2>2. IsFiniteSet(Below(S, order, m)) /\ Cardinality(Below(S, order, m)) <= Cardinality(S)
        /\ (Cardinality(S) = Cardinality(Below(S, order, m)) => S = Below(S, order, m))
    BY <2>1, FS_Subset
  <2>3. Cardinality(Below(S, order, m)) \in Nat
    BY <2>2, FS_CardinalityType
  <2> QED BY <1>0, <2>1, <2>2, <2>3
<1>2. ASSUME NEW m \in S, NEW n \in S, <<m, n>> \in order
      PROVE  Cardinality(Below(S, order, m)) < Cardinality(Below(S, order, n))
  <2>1. Below(S, order, m) \in SUBSET Below(S, order, n)
    BY <1>2 DEF Below, StrictOrder
  <2>2. m \in Below(S, order, n) /\ m \notin Below(S, order, m)
    BY <1>2 DEF Below, StrictOrder
  <2>3. /\ Cardinality(Below(S, order, m)) <= Cardinality(Below(S, order, n))
        /\ Cardinality(Below(S, order, n)) = Cardinality(Below(S, order, m))
             => Below(S, order, n) = Below(S, order, m)
    BY <1>1, <2>1, FS_Subset
  <2> QED BY <1>1, <2>2, <2>3
<1> QED BY <1>0, <1>1, <1>2

\* Sorted gives every member once, and each before those it is ordered before.
LEMMA SortedProperties ==
  ASSUME NEW S, IsFiniteSet(S), NEW order, StrictOrder(S, order)
  PROVE  /\ Sorted(S, order) \in [1..Cardinality(S) -> S]
         /\ Sorted(S, order) \in Seq(S) /\ Len(Sorted(S, order)) = Cardinality(S)
         /\ \A m \in S : \E i \in 1..Cardinality(S) : Sorted(S, order)[i] = m
         /\ \A i, j \in 1..Cardinality(S) : i < j <=> <<Sorted(S, order)[i], Sorted(S, order)[j]>> \in order
         /\ \A i \in 1..Cardinality(S) : Cardinality(Below(S, order, Sorted(S, order)[i])) = i - 1
<1> DEFINE N == Cardinality(S)
           B(m) == Cardinality(Below(S, order, m))
           rank == [m \in S |-> B(m) + 1]
           s == Sorted(S, order)
<1>0. N \in Nat
  BY FS_CardinalityType
<1>1. /\ \A m \in S : B(m) \in 0..(N - 1)
      /\ \A m, n \in S : <<m, n>> \in order => B(m) < B(n)
  BY RankProperties
<1>2. ASSUME NEW m \in S, NEW n \in S, B(m) = B(n) PROVE m = n
  <2> HIDE DEF B
  <2>1. B(m) \in Int /\ B(n) \in Int
    BY <1>0, <1>1
  <2>2. <<m, n>> \notin order /\ <<n, m>> \notin order
    BY <1>1, <1>2, <2>1
  <2> QED BY <2>2 DEF StrictOrder
<1>3. \A i \in 1..N : \E m \in S : B(m) = i - 1
  <2>1. rank \in [S -> 1..N]
    BY <1>0, <1>1
  <2>2. IsInjective(rank)
    <3>1. ASSUME NEW m \in S, NEW n \in S, rank[m] = rank[n] PROVE m = n
      <4>1. B(m) + 1 = B(n) + 1
        BY <3>1
      <4>2. B(m) = B(n)
        BY <1>0, <1>1, <4>1
      <4> HIDE DEF B
      <4> QED BY <1>2, <4>2
    <3> QED BY <3>1, Zenon DEF IsInjective
  <2>3. rank \in Injection(S, 1..N)
    BY <2>1, <2>2, Zenon DEF Injection
  <2>4. IsFiniteSet(1..N) /\ Cardinality(1..N) = N
    BY <1>0, FS_Interval
  <2>5. rank \in Surjection(S, 1..N)
    BY <2>3, <2>4, FS_Injection
  <2>6. \A i \in 1..N : \E m \in S : rank[m] = i
    BY <2>5, Zenon DEF Surjection, Range
  <2> QED BY <1>0, <1>1, <2>6
<1>4. s = [i \in 1..N |-> CHOOSE m \in S : B(m) = i - 1]
  BY Zenon DEF Sorted, Below
<1>5. \A i \in 1..N : s[i] \in S /\ B(s[i]) = i - 1
  <2>1. ASSUME NEW i \in 1..N PROVE s[i] = CHOOSE m \in S : B(m) = i - 1
    BY <1>4, <2>1, Zenon
  <2> HIDE DEF s, B
  <2> QED BY <1>3, <2>1
<1>6. s \in [1..N -> S]
  <2> HIDE DEF s, B
  <2> QED BY <1>4, <1>5
<1>7. s \in Seq(S) /\ Len(s) = N
  <2> HIDE DEF s
  <2> QED BY <1>0, <1>6
<1>8. ASSUME NEW m \in S PROVE \E i \in 1..N : s[i] = m
  <2> HIDE DEF s, B
  <2>1. B(m) + 1 \in 1..N /\ (B(m) + 1) - 1 = B(m)
    BY <1>0, <1>1
  <2>2. s[B(m) + 1] \in S /\ B(s[B(m) + 1]) = B(m)
    BY <1>5, <2>1
  <2> QED BY <1>2, <2>1, <2>2
<1>9. ASSUME NEW i \in 1..N, NEW j \in 1..N PROVE i < j <=> <<s[i], s[j]>> \in order
  <2> HIDE DEF s, B
  <2>1. s[i] \in S /\ s[j] \in S /\ B(s[i]) = i - 1 /\ B(s[j]) = j - 1
    BY <1>5
  <2>2. CASE <<s[i], s[j]>> \in order
    <3>1. B(s[i]) < B(s[j])
      BY <1>1, <2>1, <2>2
    <3> QED BY <1>0, <2>1, <2>2, <3>1
  <2>3. CASE <<s[j], s[i]>> \in order
    <3>1. B(s[j]) < B(s[i])
      BY <1>1, <2>1, <2>3
    <3>2. <<s[i], s[j]>> \notin order
      BY <2>1, <2>3 DEF StrictOrder
    <3> QED BY <1>0, <2>1, <3>1, <3>2
  <2>4. CASE s[i] = s[j]
    <3>1. i = j
      BY <1>0, <2>1, <2>4
    <3>2. <<s[i], s[j]>> \notin order
      BY <2>1, <2>4 DEF StrictOrder
    <3> QED BY <1>0, <3>1, <3>2
  <2> QED BY <2>1, <2>2, <2>3, <2>4 DEF StrictOrder
<1> QED BY <1>5, <1>6, <1>7, <1>8, <1>9

\* The member at place i is the one that has i - 1 below it.
LEMMA SortedAt ==
  ASSUME NEW S, IsFiniteSet(S), NEW order, StrictOrder(S, order), NEW i \in 1..Cardinality(S)
  PROVE  Sorted(S, order)[i] \in S /\ Cardinality(Below(S, order, Sorted(S, order)[i])) = i - 1
<1>1. /\ Sorted(S, order) \in [1..Cardinality(S) -> S]
      /\ \A j \in 1..Cardinality(S) : Cardinality(Below(S, order, Sorted(S, order)[j])) = j - 1
  BY SortedProperties
<1> QED BY <1>1

\* Two members with as many below them are one.
LEMMA SameRank ==
  ASSUME NEW S, IsFiniteSet(S), NEW order, StrictOrder(S, order), NEW m \in S, NEW n \in S,
         Cardinality(Below(S, order, m)) = Cardinality(Below(S, order, n))
  PROVE  m = n
<1> DEFINE B(k) == Cardinality(Below(S, order, k))
<1>1. Cardinality(S) \in Nat
  BY FS_CardinalityType
<1>2. /\ \A k \in S : B(k) \in 0..(Cardinality(S) - 1)
      /\ \A k, l \in S : <<k, l>> \in order => B(k) < B(l)
  BY RankProperties
<1>3. B(m) = B(n)
  OBVIOUS
<1> HIDE DEF B
<1>4. B(m) \in Int /\ B(n) \in Int
  BY <1>1, <1>2
<1>5. <<m, n>> \notin order /\ <<n, m>> \notin order
  BY <1>2, <1>3, <1>4
<1> QED BY <1>5 DEF StrictOrder

\* Sorting sees no more of an order than what it says of the members.
LEMMA SortedInSameOrder ==
  ASSUME NEW S, IsFiniteSet(S), NEW order, NEW other, StrictOrder(S, order),
         \A m, n \in S : <<m, n>> \in order <=> <<m, n>> \in other
  PROVE  StrictOrder(S, other) /\ Sorted(S, order) = Sorted(S, other)
<1>1. StrictOrder(S, other)
  BY DEF StrictOrder
<1>2. \A m \in S : Below(S, order, m) = Below(S, other, m)
  BY DEF Below
<1>3. ASSUME NEW i \in 1..Cardinality(S) PROVE Sorted(S, order)[i] = Sorted(S, other)[i]
  <2>1. /\ Sorted(S, order)[i] \in S /\ Sorted(S, other)[i] \in S
        /\ Cardinality(Below(S, order, Sorted(S, order)[i])) = i - 1
        /\ Cardinality(Below(S, other, Sorted(S, other)[i])) = i - 1
    <3>1. IsFiniteSet(S) /\ StrictOrder(S, order) /\ StrictOrder(S, other) /\ i \in 1..Cardinality(S)
      BY <1>1
    <3>2. Sorted(S, order)[i] \in S /\ Cardinality(Below(S, order, Sorted(S, order)[i])) = i - 1
      BY <3>1, SortedAt
    <3>3. Sorted(S, other)[i] \in S /\ Cardinality(Below(S, other, Sorted(S, other)[i])) = i - 1
      BY <3>1, SortedAt
    <3> QED BY <3>2, <3>3
  <2>2. Cardinality(Below(S, order, Sorted(S, order)[i])) = Cardinality(Below(S, order, Sorted(S, other)[i]))
    BY <1>2, <2>1
  <2> QED BY <2>1, <2>2, SameRank
<1>4. /\ Sorted(S, order) \in [1..Cardinality(S) -> S]
      /\ Sorted(S, other) \in [1..Cardinality(S) -> S]
  BY <1>1, SortedProperties
<1>5. Sorted(S, order) = Sorted(S, other)
  <2> DEFINE D == 1..Cardinality(S)  f == Sorted(S, order)  g == Sorted(S, other)
  <2>1. f \in [D -> S] /\ g \in [D -> S] /\ \A i \in D : f[i] = g[i]
    BY <1>3, <1>4
  <2> HIDE DEF D, f, g
  <2>2. f = g
    BY <2>1
  <2> QED BY <2>2 DEF f, g
<1> QED BY <1>1, <1>5

\* What comes first of all is first in the list, whatever comes behind it.
LEMMA SortedBeginning ==
  ASSUME NEW S, IsFiniteSet(S), NEW order, StrictOrder(S, order), NEW T \in SUBSET S,
         \A m \in T, n \in S : <<n, m>> \in order => n \in T
  PROVE  /\ IsFiniteSet(T) /\ StrictOrder(T, order) /\ Cardinality(T) <= Cardinality(S)
         /\ \A i \in 1..Cardinality(T) : Sorted(T, order)[i] = Sorted(S, order)[i]
<1>1. IsFiniteSet(T) /\ Cardinality(T) <= Cardinality(S)
  BY FS_Subset
<1>2. StrictOrder(T, order)
  BY DEF StrictOrder
<1>3. \A m \in T : Below(T, order, m) = Below(S, order, m)
  BY DEF Below
<1>4. ASSUME NEW i \in 1..Cardinality(T) PROVE Sorted(T, order)[i] = Sorted(S, order)[i]
  <2>1. Cardinality(T) \in Nat /\ Cardinality(S) \in Nat
    BY <1>1, FS_CardinalityType
  <2>2. i \in 1..Cardinality(S)
    BY <1>1, <2>1
  <2>3. Sorted(T, order)[i] \in T /\ Cardinality(Below(T, order, Sorted(T, order)[i])) = i - 1
    BY <1>1, <1>2, SortedAt
  <2>4. Sorted(S, order)[i] \in S /\ Cardinality(Below(S, order, Sorted(S, order)[i])) = i - 1
    BY <2>2, SortedAt
  <2>5. Cardinality(Below(S, order, Sorted(T, order)[i])) = Cardinality(Below(S, order, Sorted(S, order)[i]))
    BY <1>3, <2>3, <2>4
  <2> QED BY <2>3, <2>4, <2>5, SameRank
<1> QED BY <1>1, <1>2, <1>4

-----------------------------------------------------------------------------
(* Taking the first ones *)

LEMMA MinOfTwo ==
  ASSUME NEW a \in Int, NEW b \in Int
  PROVE  Min({a, b}) = (IF a <= b THEN a ELSE b) /\ Max({a, b}) = (IF a <= b THEN b ELSE a)
BY DEF Min, Max

LEMMA MaxOfTwo ==
  ASSUME NEW a \in Int, NEW b \in Int
  PROVE  Max({a, b}) = (IF a <= b THEN b ELSE a)
BY MinOfTwo

LEMMA TakeProperties ==
  ASSUME NEW X, NEW s \in Seq(X), NEW n \in Nat
  PROVE  /\ Take(s, n) \in Seq(X) /\ Len(Take(s, n)) = Min({n, Len(s)})
         /\ DOMAIN Take(s, n) = 1..Min({n, Len(s)})
         /\ Min({n, Len(s)}) \in 0..n /\ Min({n, Len(s)}) <= Len(s)
         /\ n <= Len(s) => Min({n, Len(s)}) = n
         /\ Len(s) <= n => Min({n, Len(s)}) = Len(s)
         /\ \A i \in 1..Min({n, Len(s)}) : Take(s, n)[i] = s[i]
<1> DEFINE k == Min({n, Len(s)})
<1>1. k = IF n <= Len(s) THEN n ELSE Len(s)
  BY MinOfTwo
<1>2. k \in 0..n /\ k <= Len(s) /\ (n <= Len(s) => k = n) /\ (Len(s) <= n => k = Len(s))
  BY <1>1
<1>3. k \in Nat
  BY <1>2
<1> HIDE DEF k
<1>4. \A i \in 1..k : s[i] \in X
  BY <1>2, <1>3
<1>5. /\ SubSeq(s, 1, k) \in Seq(X) /\ Len(SubSeq(s, 1, k)) = k
      /\ \A i \in 1..k : SubSeq(s, 1, k)[i] = s[i]
  <2>1. /\ SubSeq(s, 1, k) \in Seq(X)
        /\ Len(SubSeq(s, 1, k)) = IF 1 <= k THEN k - 1 + 1 ELSE 0
        /\ \A i \in 1..(k - 1 + 1) : SubSeq(s, 1, k)[i] = s[1 + i - 1]
    BY <1>3, <1>4, SubSeqProperties
  <2>2. k - 1 + 1 = k /\ (~ (1 <= k) => k = 0) /\ \A i \in 1..k : 1 + i - 1 = i
    BY <1>3
  <2> QED BY <2>1, <2>2
<1>6. Take(s, n) = SubSeq(s, 1, k)
  BY DEF Take, k
<1>7. DOMAIN Take(s, n) = 1..k
  BY <1>3, <1>5, <1>6
<1> QED BY <1>2, <1>5, <1>6, <1>7 DEF k

\* Take gives as many as there are, up to n, from the beginning.
LEMMA TakeIs ==
  ASSUME NEW X, NEW s \in Seq(X), NEW n \in Nat
  PROVE  /\ Len(Take(s, n)) \in Nat /\ Len(Take(s, n)) <= n /\ Len(Take(s, n)) <= Len(s)
         /\ Len(Take(s, n)) = n \/ Len(Take(s, n)) = Len(s)
         /\ \A i \in 1..Len(Take(s, n)) : Take(s, n)[i] = s[i]
<1> DEFINE k == Min({n, Len(s)})  t == Take(s, n)
<1>1. Len(s) \in Nat
  BY LenProperties
<1>2. Len(t) = k
  BY TakeProperties
<1>4. k = IF n <= Len(s) THEN n ELSE Len(s)
  BY <1>1, MinOfTwo
<1>7. t = SubSeq(s, 1, k)
  BY DEF Take
<1> HIDE DEF k, t
<1>3. \A i \in 1..k : t[i] = s[i]
  <2>1. k \in Nat /\ \A i \in 1..k : s[i] \in X
    BY <1>1, <1>4
  <2>2. \A i \in 1..(k - 1 + 1) : SubSeq(s, 1, k)[i] = s[1 + i - 1]
    BY <2>1, SubSeqProperties
  <2>3. k - 1 + 1 = k /\ \A i \in 1..k : 1 + i - 1 = i
    BY <2>1
  <2> QED BY <1>7, <2>2, <2>3
<1>5. Len(t) \in Nat /\ Len(t) <= n /\ Len(t) <= Len(s) /\ (Len(t) = n \/ Len(t) = Len(s))
  BY <1>1, <1>2, <1>4
<1>6. \A i \in 1..Len(t) : t[i] = s[i]
  BY <1>2, <1>3
<1> QED BY <1>5, <1>6 DEF t

\* The first n of a sorted set: as many as there are, in order, and nothing is
\* left that comes before one of them.
First(t, S, order, n) ==
  /\ t \in Seq(S) /\ DOMAIN t = 1..Len(t) /\ Len(t) = Min({n, Cardinality(S)})
  /\ Len(t) \in Nat /\ Len(t) <= n /\ Len(t) <= Cardinality(S)
  /\ Range(t) \subseteq S /\ Cardinality(Range(t)) = Len(t) /\ IsFiniteSet(Range(t))
  /\ \A i, j \in 1..Len(t) : i < j <=> <<t[i], t[j]>> \in order
  /\ \A i, j \in 1..Len(t) : t[i] = t[j] => i = j
  /\ \A m \in Range(t), k \in S \ Range(t) : <<m, k>> \in order
  /\ Cardinality(S) <= n => Range(t) = S

\* A sequence and the set of what it names.
LEMMA SeqMembers ==
  ASSUME NEW X, NEW s \in Seq(X)
  PROVE  /\ Range(s) \subseteq X /\ \A i \in 1..Len(s) : s[i] \in Range(s)
         /\ \A m \in Range(s) : \E i \in 1..Len(s) : s[i] = m
         /\ DOMAIN s = 1..Len(s) /\ Len(s) \in Nat
<1>1. Len(s) \in Nat /\ s \in [1..Len(s) -> X] /\ DOMAIN s = 1..Len(s)
  BY LenProperties
<1>2. Range(s) = {s[i] : i \in 1..Len(s)}
  BY <1>1, Zenon DEF Range
<1>4. \A i \in 1..Len(s) : s[i] \in X
  BY <1>1
<1>5. Range(s) \subseteq X
  BY <1>2, <1>4
<1>6. (\A i \in 1..Len(s) : s[i] \in Range(s)) /\ (\A m \in Range(s) : \E i \in 1..Len(s) : s[i] = m)
  BY <1>2
<1> QED BY <1>1, <1>5, <1>6, Zenon

LEMMA SeqWider ==
  ASSUME NEW X, NEW Y, X \subseteq Y, NEW s \in Seq(X)
  PROVE  s \in Seq(Y)
<1>1. Len(s) \in Nat /\ s = [i \in 1..Len(s) |-> s[i]] /\ \A i \in 1..Len(s) : s[i] \in X
  BY LenProperties
<1> QED BY <1>1

LEMMA SeqOntoRange ==
  ASSUME NEW X, NEW s \in Seq(X)
  PROVE  s \in [1..Len(s) -> Range(s)]
<1>1. s = [i \in 1..Len(s) |-> s[i]]
  BY LenProperties
<1>2. \A i \in 1..Len(s) : s[i] \in Range(s)
  BY SeqMembers
<1> QED BY <1>1, <1>2, Zenon

\* A sequence that names nothing twice is as long as what it names is many.
LEMMA RangeCount ==
  ASSUME NEW X, NEW s \in Seq(X), \A i, j \in 1..Len(s) : s[i] = s[j] => i = j
  PROVE  IsFiniteSet(Range(s)) /\ Cardinality(Range(s)) = Len(s) /\ IsInjective(s)
<1>0. Len(s) \in Nat /\ DOMAIN s = 1..Len(s)
  BY SeqMembers
<1>1. IsFiniteSet(1..Len(s)) /\ Cardinality(1..Len(s)) = Len(s)
  BY <1>0, FS_Interval
<1>2. s \in [1..Len(s) -> Range(s)]
  BY SeqOntoRange
<1>3. IsInjective(s)
  BY <1>0 DEF IsInjective
<1>4. s \in Injection(1..Len(s), Range(s))
  BY <1>2, <1>3 DEF Injection
<1>5. s \in Surjection(1..Len(s), Range(s))
  BY <1>2, SeqMembers DEF Surjection, Range
<1>6. IsFiniteSet(Range(s)) /\ (Cardinality(Range(s)) = Cardinality(1..Len(s)) <=> s \in Injection(1..Len(s), Range(s)))
  BY <1>1, <1>5, FS_Surjection
<1> QED BY <1>1, <1>3, <1>4, <1>6

\* s has every member of S once, in the order.
Lists(s, S, order) ==
  /\ s \in Seq(S) /\ Len(s) = Cardinality(S)
  /\ \A m \in S : \E i \in 1..Cardinality(S) : s[i] = m
  /\ \A i, j \in 1..Cardinality(S) : i < j <=> <<s[i], s[j]>> \in order

\* Sorting lists every member once, in the order.
LEMMA SortedLists ==
  ASSUME NEW S, IsFiniteSet(S), NEW order, StrictOrder(S, order)
  PROVE  Lists(Sorted(S, order), S, order)
BY SortedProperties DEF Lists

Converse(order) == {<<p[2], p[1]>> : p \in order}

LEMMA ConverseTurns ==
  ASSUME NEW D, NEW order \in SUBSET (D \X D)
  PROVE  \A m, n : <<m, n>> \in Converse(order) <=> <<n, m>> \in order
BY DEF Converse

LEMMA ConverseStrict ==
  ASSUME NEW D, NEW order \in SUBSET (D \X D), NEW S, StrictOrder(S, order)
  PROVE  StrictOrder(S, Converse(order))
BY ConverseTurns DEF StrictOrder

LEMMA ReverseSeq ==
  ASSUME NEW X, NEW s \in Seq(X)
  PROVE  /\ Reverse(s) \in Seq(X) /\ Len(Reverse(s)) = Len(s)
         /\ \A i \in 1..Len(s) : Reverse(s)[i] = s[Len(s) - i + 1] /\ Len(s) - i + 1 \in 1..Len(s)
<1>1. Len(s) \in Nat
  BY LenProperties
<1>2. \A i \in 1..Len(s) : Len(s) - i + 1 \in 1..Len(s) /\ (Len(s) - i) + 1 = Len(s) - i + 1
  BY <1>1
<1>3. Reverse(s) = [i \in 1..Len(s) |-> s[Len(s) - i + 1]]
  BY <1>2 DEF Reverse
<1>4. \A i \in 1..Len(s) : s[Len(s) - i + 1] \in X
  BY <1>2
<1>5. Reverse(s) \in Seq(X) /\ Len(Reverse(s)) = Len(s)
  BY <1>1, <1>3, <1>4
<1> QED BY <1>2, <1>3, <1>5

\* A list read from its end is a list in the converse order.
LEMMA ReverseLists ==
  ASSUME NEW S, IsFiniteSet(S), NEW D, NEW order \in SUBSET (D \X D), NEW s, Lists(s, S, order)
  PROVE  Lists(Reverse(s), S, Converse(order))
<1> DEFINE N == Cardinality(S)
           r == Reverse(s)
<1>0. N \in Nat
  BY FS_CardinalityType
<1>1. s \in Seq(S) /\ Len(s) = N
  BY DEF Lists
<1>2. r \in Seq(S) /\ Len(r) = N /\ \A i \in 1..N : r[i] = s[N - i + 1] /\ N - i + 1 \in 1..N
  BY <1>1, ReverseSeq
<1>3. ASSUME NEW m \in S PROVE \E i \in 1..N : r[i] = m
  <2>1. PICK i \in 1..N : s[i] = m
    BY DEF Lists
  <2>2. N - i + 1 \in 1..N /\ N - (N - i + 1) + 1 = i
    BY <1>0
  <2> HIDE DEF r
  <2> QED BY <1>2, <2>1, <2>2
<1>4. ASSUME NEW i \in 1..N, NEW j \in 1..N PROVE i < j <=> <<r[i], r[j]>> \in Converse(order)
  <2>1. N - i + 1 \in 1..N /\ N - j + 1 \in 1..N /\ (i < j <=> N - j + 1 < N - i + 1)
    BY <1>0
  <2>2. N - j + 1 < N - i + 1 <=> <<s[N - j + 1], s[N - i + 1]>> \in order
    BY <2>1 DEF Lists
  <2>3. <<r[i], r[j]>> \in Converse(order) <=> <<r[j], r[i]>> \in order
    BY ConverseTurns
  <2> HIDE DEF r
  <2> QED BY <1>2, <2>1, <2>2, <2>3
<1> QED BY <1>2, <1>3, <1>4 DEF Lists

\* Taking n of a list gives the first n of its set.
LEMMA FirstOfList ==
  ASSUME NEW S, IsFiniteSet(S), NEW order, StrictOrder(S, order), NEW n \in Nat, NEW s, Lists(s, S, order)
  PROVE  First(Take(s, n), S, order, n)
<1> DEFINE N == Cardinality(S)
           t == Take(s, n)
<1>0. N \in Nat
  BY FS_CardinalityType
<1>1. s \in Seq(S) /\ Len(s) = N
  BY DEF Lists
<1>2. \A m \in S : \E i \in 1..N : s[i] = m
  BY DEF Lists
<1>3. \A i, j \in 1..N : i < j <=> <<s[i], s[j]>> \in order
  BY DEF Lists
<1>4. \A i \in 1..N : s[i] \in S /\ <<s[i], s[i]>> \notin order
  BY <1>1 DEF StrictOrder
<1>5. /\ t \in Seq(S) /\ Len(t) = Min({n, Len(s)})
      /\ Min({n, Len(s)}) \in 0..n /\ Min({n, Len(s)}) <= Len(s)
      /\ n <= Len(s) => Min({n, Len(s)}) = n
      /\ Len(s) <= n => Min({n, Len(s)}) = Len(s)
      /\ \A i \in 1..Min({n, Len(s)}) : t[i] = s[i]
  BY <1>1, TakeProperties
<1> HIDE DEF t, N
<1>6. /\ Len(t) = Min({n, N}) /\ DOMAIN t = 1..Len(t)
      /\ Len(t) \in 0..n /\ Len(t) <= N /\ (N <= n => Len(t) = N) /\ (n <= N => Len(t) = n)
      /\ \A i \in 1..Len(t) : t[i] = s[i]
  BY <1>1, <1>5, SeqMembers
<1>7. Len(t) \in Nat /\ \A i \in 1..Len(t) : i \in 1..N
  <2>1. Len(t) \in 0..n /\ Len(t) <= N
    BY <1>6
  <2> QED BY <1>0, <2>1
<1>9. \A i, j \in 1..Len(t) : i < j <=> <<t[i], t[j]>> \in order
  BY <1>3, <1>6, <1>7
<1>8. ASSUME NEW i \in 1..Len(t), NEW j \in 1..Len(t), t[i] = t[j] PROVE i = j
  <2>1. t[i] \in S
    BY <1>4, <1>6, <1>7
  <2>2. <<t[i], t[j]>> \notin order /\ <<t[j], t[i]>> \notin order
    BY <1>8, <2>1 DEF StrictOrder
  <2>3. ~ (i < j) /\ ~ (j < i)
    BY <1>9, <2>2
  <2> QED BY <1>7, <2>3
<1>10. /\ Range(t) \subseteq S /\ \A m \in Range(t) : \E i \in 1..Len(t) : t[i] = m
       /\ \A i \in 1..Len(t) : t[i] \in Range(t)
  BY <1>5, SeqMembers
<1>11. IsFiniteSet(Range(t)) /\ Cardinality(Range(t)) = Len(t)
  BY <1>5, <1>8, RangeCount
<1>12. ASSUME NEW m \in Range(t), NEW k \in S \ Range(t) PROVE <<m, k>> \in order
  <2>1. PICK i \in 1..Len(t) : t[i] = m
    BY <1>10
  <2>2. PICK j \in 1..N : s[j] = k
    BY <1>2
  <2>3. j \notin 1..Len(t)
    BY <1>6, <1>10, <2>2
  <2>4. i < j /\ i \in 1..N
    BY <1>0, <1>7, <2>3
  <2> QED BY <1>3, <1>6, <2>1, <2>2, <2>4
<1>13. ASSUME N <= n PROVE Range(t) = S
  <2>1. ASSUME NEW m \in S PROVE m \in Range(t)
    <3>1. PICK i \in 1..N : s[i] = m
      BY <1>2
    <3>2. i \in 1..Len(t) /\ t[i] = m
      BY <1>6, <1>13, <3>1
    <3> QED BY <1>10, <3>2
  <2> QED BY <1>10, <2>1
<1>14. \A i, j \in 1..Len(t) : t[i] = t[j] => i = j
  BY <1>8
<1>15. First(t, S, order, n)
  <2>1. /\ t \in Seq(S) /\ DOMAIN t = 1..Len(t) /\ Len(t) = Min({n, Cardinality(S)})
        /\ Len(t) \in Nat /\ Len(t) <= n /\ Len(t) <= Cardinality(S)
    BY <1>5, <1>6, <1>7 DEF N
  <2>2. Cardinality(S) <= n => Range(t) = S
    BY <1>13 DEF N
  <2>4. \A m \in Range(t), k \in S \ Range(t) : <<m, k>> \in order
    BY <1>12
  <2> QED BY <1>9, <1>10, <1>11, <1>14, <2>1, <2>2, <2>4, Zenon DEF First
<1> QED BY <1>15 DEF t

\* What is picked from a list keeps its order.
LEMMA AmongSorted ==
  ASSUME NEW S, IsFiniteSet(S), NEW order, StrictOrder(S, order), NEW s \in Seq(S),
         \A i, j \in 1..Len(s) : i < j <=> <<s[i], s[j]>> \in order, NEW T
  PROVE  /\ Range(s) \cap T \in SUBSET S /\ IsFiniteSet(Range(s) \cap T)
         /\ StrictOrder(Range(s) \cap T, order)
         /\ Among(s, T) = Sorted(Range(s) \cap T, order)
<1> DEFINE R == Range(s) \cap T
<1>1. /\ Range(s) \subseteq S /\ (\A m \in Range(s) : \E i \in 1..Len(s) : s[i] = m)
      /\ DOMAIN s = 1..Len(s)
  BY SeqMembers
<1>2. R \in SUBSET S /\ IsFiniteSet(R) /\ StrictOrder(R, order)
  BY <1>1, FS_Subset, StrictBelow
<1>3. ASSUME NEW m \in R, NEW n \in R PROVE <<m, n>> \in order <=> <<m, n>> \in OrderOf(s)
  <2>1. <<m, n>> \in OrderOf(s) <=> \E i, j \in 1..Len(s) : i < j /\ m = s[i] /\ n = s[j]
    BY <1>1 DEF OrderOf
  <2>2. ASSUME <<m, n>> \in order PROVE \E i, j \in 1..Len(s) : i < j /\ m = s[i] /\ n = s[j]
    <3>1. PICK i \in 1..Len(s) : s[i] = m
      BY <1>1
    <3>2. PICK j \in 1..Len(s) : s[j] = n
      BY <1>1
    <3> QED BY <2>2, <3>1, <3>2
  <2>3. ASSUME NEW i \in 1..Len(s), NEW j \in 1..Len(s), i < j /\ m = s[i] /\ n = s[j] PROVE <<m, n>> \in order
    BY <2>3
  <2> QED BY <2>1, <2>2, <2>3
<1> HIDE DEF R
<1>4. Sorted(R, order) = Sorted(R, OrderOf(s))
  BY <1>2, <1>3, SortedInSameOrder
<1> QED BY <1>2, <1>4 DEF R, Among

-----------------------------------------------------------------------------
(* Times as text *)

\* A set of numbers that has a member has a least one: induction, as the provers
\* here can use it.
LEMMA LeastExists ==
  ASSUME NEW S \in SUBSET Nat, S # {}
  PROVE  \E m \in S : \A n \in S : m =< n
<1>1. PICK m \in S : \A n \in S : ~ (<<n, m>> \in OpToRel(<, Nat))
  BY NatLessThanWellFounded, WFMin
<1>2. ASSUME NEW n \in S PROVE m =< n
  <2>1. n < m => <<n, m>> \in OpToRel(<, Nat)
    BY Zenon DEF OpToRel
  <2>2. m \in Nat /\ n \in Nat
    OBVIOUS
  <2>3. ~ (n < m)
    BY <1>1, <2>1
  <2> QED BY <2>2, <2>3
<1> QED BY <1>2

\* How the comparison of text goes: by the first place that differs.
Lex(a, b) == \E i \in DOMAIN a \cap DOMAIN b : a[i] < b[i] /\ \A j \in 1..(i - 1) : a[j] = b[j]

\* A text that has its "Z" at the end and nowhere else.
Ended(a) ==
  /\ a \in Seq(Nat) /\ Len(a) \in Nat /\ Len(a) >= 2 /\ a[Len(a)] = 90
  /\ \A i \in 2..(Len(a) - 1) : a[i] < 90

\* The comparison of text is transitive.
LEMMA LexTransitive ==
  ASSUME NEW a \in Seq(Nat), NEW b \in Seq(Nat), NEW c \in Seq(Nat), Lex(a, b), Lex(b, c)
  PROVE  Lex(a, c)
<1>1. PICK i \in 1..Len(a) \cap 1..Len(b) : a[i] < b[i] /\ \A j \in 1..(i - 1) : a[j] = b[j]
  BY SeqMembers DEF Lex
<1>2. PICK k \in 1..Len(b) \cap 1..Len(c) : b[k] < c[k] /\ \A j \in 1..(k - 1) : b[j] = c[j]
  BY SeqMembers DEF Lex
<1>3. Len(a) \in Nat /\ Len(b) \in Nat /\ Len(c) \in Nat
      /\ DOMAIN a = 1..Len(a) /\ DOMAIN b = 1..Len(b) /\ DOMAIN c = 1..Len(c)
  BY SeqMembers
<1>4. /\ \A j \in 1..Len(a) : a[j] \in Nat
      /\ \A j \in 1..Len(b) : b[j] \in Nat
      /\ \A j \in 1..Len(c) : c[j] \in Nat
  OBVIOUS
<1>5. CASE i <= k
  <2>1. i \in 1..Len(c) /\ \A j \in 1..(i - 1) : j \in 1..(k - 1)
    BY <1>3, <1>5
  <2>2. a[i] < c[i]
    <3>1. i = k \/ (i < k /\ i \in 1..(k - 1))
      BY <1>3, <1>5
    <3>2. i \in 1..Len(a) /\ i \in 1..Len(b) /\ a[i] < b[i]
      BY <1>1
    <3>4. a[i] \in Nat /\ b[i] \in Nat /\ c[i] \in Nat
      BY <1>4, <2>1, <3>2
    <3>5. i = k => b[i] < c[i]
      BY <1>2
    <3>6. i \in 1..(k - 1) => b[i] = c[i]
      BY <1>2
    <3> HIDE <1>1, <1>2
    <3> QED BY <3>1, <3>2, <3>4, <3>5, <3>6
  <2>3. \A j \in 1..(i - 1) : a[j] = c[j]
    BY <1>1, <1>2, <2>1
  <2> QED BY <1>3, <2>1, <2>2, <2>3 DEF Lex
<1>6. CASE k < i
  <2>1. k \in 1..Len(a) /\ k \in 1..(i - 1) /\ \A j \in 1..(k - 1) : j \in 1..(i - 1)
    BY <1>3, <1>6
  <2>2. a[k] < c[k]
    BY <1>1, <1>2, <2>1
  <2>3. \A j \in 1..(k - 1) : a[j] = c[j]
    BY <1>1, <1>2, <2>1
  <2> QED BY <1>3, <2>1, <2>2, <2>3 DEF Lex
<1> QED BY <1>3, <1>5, <1>6

\* Of two texts one goes first, since none ends where the other goes on.
LEMMA LexTotal ==
  ASSUME NEW a, NEW b, Ended(a), Ended(b), a # b
  PROVE  Lex(a, b) \/ Lex(b, a)
<1>1. /\ a \in Seq(Nat) /\ b \in Seq(Nat) /\ Len(a) \in Nat /\ Len(b) \in Nat
      /\ DOMAIN a = 1..Len(a) /\ DOMAIN b = 1..Len(b)
  BY SeqMembers DEF Ended
<1>2. /\ \A j \in 1..Len(a) : a[j] \in Nat
      /\ \A j \in 1..Len(b) : b[j] \in Nat
  BY <1>1
<1> DEFINE D == {i \in Nat : i \in 1..Len(a) /\ i \in 1..Len(b) /\ a[i] # b[i]}
<1>3. CASE D # {}
  <2>1. PICK i \in D : \A j \in D : i =< j
    BY <1>3, LeastExists
  <2>2. i \in 1..Len(a) \cap 1..Len(b) /\ a[i] # b[i]
    OBVIOUS
  <2>3. ASSUME NEW j \in 1..(i - 1) PROVE a[j] = b[j]
    <3>1. j \in Nat /\ j \in 1..Len(a) /\ j \in 1..Len(b) /\ ~ (i =< j)
      BY <1>1, <2>2
    <3> QED BY <2>1, <3>1
  <2>4. a[i] < b[i] \/ b[i] < a[i]
    BY <1>2, <2>2
  <2> QED BY <1>1, <2>2, <2>3, <2>4 DEF Lex
<1>4. CASE D = {}
  <2>1. \A i \in 1..Len(a) : i \in 1..Len(b) => a[i] = b[i]
    BY <1>1, <1>4
  <2> HIDE DEF D
  <2>2. Len(a) = Len(b)
    <3>1. CASE Len(a) < Len(b)
      <4>1. Len(a) \in 1..Len(a) /\ Len(a) \in 1..Len(b) /\ Len(a) \in 2..(Len(b) - 1)
        BY <1>1, <3>1 DEF Ended
      <4>2. b[Len(a)] = 90 /\ b[Len(a)] < 90
        BY <2>1, <4>1 DEF Ended
      <4> QED BY <4>2
    <3>2. CASE Len(b) < Len(a)
      <4>1. Len(b) \in 1..Len(a) /\ Len(b) \in 1..Len(b) /\ Len(b) \in 2..(Len(a) - 1)
        BY <1>1, <3>2 DEF Ended
      <4>2. a[Len(b)] = 90 /\ a[Len(b)] < 90
        BY <2>1, <4>1 DEF Ended
      <4> QED BY <4>2
    <3> HIDE DEF D
    <3>3. Len(a) \in Int /\ Len(b) \in Int
      BY <1>1
    <3> QED BY <3>1, <3>2, <3>3
  <2>3. a = b
    BY <1>1, <2>1, <2>2, SeqEqual
  <2> QED BY <2>3
<1> QED BY <1>3, <1>4

LEMMA ConcatAt ==
  ASSUME NEW X, NEW s \in Seq(X), NEW t \in Seq(X)
  PROVE  /\ s \o t \in Seq(X) /\ Len(s \o t) = Len(s) + Len(t)
         /\ \A i \in 1..Len(s) : (s \o t)[i] = s[i]
         /\ \A i \in 1..Len(t) : (s \o t)[Len(s) + i] = t[i]
<1>1. /\ s \o t \in Seq(X) /\ Len(s \o t) = Len(s) + Len(t)
      /\ \A i \in 1..(Len(s) + Len(t)) : (s \o t)[i] = IF i <= Len(s) THEN s[i] ELSE t[i - Len(s)]
  BY ConcatProperties
<1>2. Len(s) \in Nat /\ Len(t) \in Nat
  BY LenProperties
<1>3. \A i \in 1..Len(s) : i \in 1..(Len(s) + Len(t)) /\ i <= Len(s)
  BY <1>2
<1>4. \A i \in 1..Len(t) : Len(s) + i \in 1..(Len(s) + Len(t)) /\ ~ (Len(s) + i <= Len(s)) /\ (Len(s) + i) - Len(s) = i
  BY <1>2
<1>5. \A i \in 1..Len(s) : (s \o t)[i] = s[i]
  BY <1>1, <1>3
<1>6. \A i \in 1..Len(t) : (s \o t)[Len(s) + i] = t[i]
  BY <1>1, <1>4
<1> QED BY <1>1, <1>5, <1>6

LEMMA ConcatNumbers ==
  ASSUME NEW s \in Seq(Nat), NEW t \in Seq(Nat)
  PROVE  /\ s \o t \in Seq(Nat) /\ Len(s \o t) = Len(s) + Len(t)
         /\ \A i \in 1..Len(s) : (s \o t)[i] = s[i]
         /\ \A i \in 1..Len(t) : (s \o t)[Len(s) + i] = t[i]
BY ConcatAt

LEMMA Single ==
  ASSUME NEW X, NEW n \in X
  PROVE  <<n>> \in Seq(X) /\ Len(<<n>>) = 1 /\ <<n>>[1] = n
OBVIOUS

LEMMA Between ==
  ASSUME NEW n \in Nat, NEW d \in Seq(Nat)
  PROVE  /\ (<<n>> \o d) \o <<90>> \in Seq(Nat) /\ Len((<<n>> \o d) \o <<90>>) = Len(d) + 2
         /\ ((<<n>> \o d) \o <<90>>)[1] = n /\ ((<<n>> \o d) \o <<90>>)[Len(d) + 2] = 90
         /\ \A i \in 1..Len(d) : ((<<n>> \o d) \o <<90>>)[i + 1] = d[i]
<1> DEFINE first == <<n>>
           last == <<90>>
           both == first \o d
<1>0. Len(d) \in Nat
  BY LenProperties
<1>1. first \in Seq(Nat) /\ Len(first) = 1 /\ first[1] = n
  BY Single
<1>2. last \in Seq(Nat) /\ Len(last) = 1 /\ last[1] = 90
  BY Single
<1> HIDE DEF first, last
<1>3. both \in Seq(Nat) /\ Len(both) = 1 + Len(d) /\ (\A i \in 1..1 : both[i] = first[i])
      /\ \A i \in 1..Len(d) : both[1 + i] = d[i]
  <2>1. /\ first \o d \in Seq(Nat) /\ Len(first \o d) = Len(first) + Len(d)
        /\ \A i \in 1..Len(first) : (first \o d)[i] = first[i]
        /\ \A i \in 1..Len(d) : (first \o d)[Len(first) + i] = d[i]
    BY <1>1, ConcatNumbers
  <2> QED BY <1>1, <2>1
<1> HIDE DEF both
<1>4. /\ both \o last \in Seq(Nat) /\ Len(both \o last) = (1 + Len(d)) + 1
      /\ \A i \in 1..(1 + Len(d)) : (both \o last)[i] = both[i]
      /\ \A i \in 1..1 : (both \o last)[(1 + Len(d)) + i] = last[i]
  <2>1. /\ both \o last \in Seq(Nat) /\ Len(both \o last) = Len(both) + Len(last)
        /\ \A i \in 1..Len(both) : (both \o last)[i] = both[i]
        /\ \A i \in 1..Len(last) : (both \o last)[Len(both) + i] = last[i]
    BY <1>2, <1>3, ConcatNumbers
  <2> QED BY <1>2, <1>3, <2>1
<1>5. (1 + Len(d)) + 1 = Len(d) + 2 /\ 1 \in 1..1 /\ 1 \in 1..(1 + Len(d))
      /\ \A i \in 1..Len(d) : i + 1 = 1 + i /\ 1 + i \in 1..(1 + Len(d))
  BY <1>0
<1>6. (both \o last)[1] = n /\ (both \o last)[Len(d) + 2] = 90
  BY <1>1, <1>2, <1>3, <1>4, <1>5
<1>7. \A i \in 1..Len(d) : (both \o last)[i + 1] = d[i]
  BY <1>3, <1>4, <1>5
<1>8. both \o last \in Seq(Nat) /\ Len(both \o last) = Len(d) + 2
  BY <1>4, <1>5
<1> QED BY <1>6, <1>7, <1>8 DEF both, first, last

\* What a time looks like: its second, then its digits, then "Z".
LEMMA TextShape ==
  ASSUME NEW t \in Instants
  PROVE  /\ Ended(Text(t)) /\ Text(t)[1] = t.second
         /\ t.fraction = <<>> => Len(Text(t)) = 2
         /\ t.fraction # <<>> =>
              /\ Len(Text(t)) = Len(t.fraction) + 3 /\ Len(t.fraction) > 0
              /\ \A i \in 1..Len(t.fraction) : Text(t)[i + 2] = 48 + t.fraction[i]
<1> DEFINE f == t.fraction
           digits == [i \in DOMAIN f |-> 48 + f[i]]
           F == IF f = <<>> THEN <<>> ELSE <<46>> \o digits
           n == t.second
<1>1. n \in Nat /\ f \in Seq(0..9)
  BY DEF Instants
<1>2. Len(f) \in Nat /\ DOMAIN f = 1..Len(f) /\ (\A i \in 1..Len(f) : f[i] \in 0..9) /\ (f = <<>> <=> Len(f) = 0)
  BY <1>1, SeqMembers, EmptySeq
<1>6. Text(t) = (<<n>> \o F) \o <<90>>
  BY DEF Text
<1> HIDE DEF f, n
<1>3. digits \in Seq(Nat) /\ Len(digits) = Len(f) /\ \A i \in 1..Len(f) : digits[i] = 48 + f[i] /\ digits[i] < 90
  BY <1>2
<1> HIDE DEF digits, F
<1>4. /\ F \in Seq(Nat)
      /\ f = <<>> => Len(F) = 0
      /\ f # <<>> => Len(F) = Len(f) + 1 /\ F[1] = 46 /\ \A i \in 1..Len(f) : F[i + 1] = digits[i]
  <2>1. CASE f = <<>>
    <3>1. F = <<>>
      BY <2>1 DEF F
    <3> QED BY <2>1, <3>1
  <2>2. CASE f # <<>>
    <3>1. F = <<46>> \o digits
      BY <2>2 DEF F
    <3>2. <<46>> \in Seq(Nat) /\ Len(<<46>>) = 1 /\ <<46>>[1] = 46
      BY Single
    <3> DEFINE dot == <<46>>
    <3> HIDE DEF dot
    <3>3. dot \in Seq(Nat) /\ Len(dot) = 1 /\ dot[1] = 46 /\ F = dot \o digits
      BY <3>1, <3>2 DEF dot
    <3>4. /\ F \in Seq(Nat) /\ Len(F) = Len(dot) + Len(digits)
          /\ \A i \in 1..Len(dot) : F[i] = dot[i]
          /\ \A i \in 1..Len(digits) : F[Len(dot) + i] = digits[i]
      <4>1. /\ dot \o digits \in Seq(Nat) /\ Len(dot \o digits) = Len(dot) + Len(digits)
            /\ \A i \in 1..Len(dot) : (dot \o digits)[i] = dot[i]
            /\ \A i \in 1..Len(digits) : (dot \o digits)[Len(dot) + i] = digits[i]
        BY <1>3, <3>3, ConcatNumbers
      <4> QED BY <3>3, <4>1
    <3>5. Len(F) = Len(f) + 1
      BY <1>2, <1>3, <3>3, <3>4
    <3>6. F[1] = 46
      BY <3>3, <3>4
    <3>7. \A i \in 1..Len(f) : F[i + 1] = digits[i]
      <4>1. \A i \in 1..Len(f) : F[1 + i] = digits[i]
        BY <1>3, <3>3, <3>4
      <4>2. \A i \in 1..Len(f) : i + 1 = 1 + i
        BY <1>2
      <4> QED BY <4>1, <4>2
    <3> QED BY <2>2, <3>4, <3>5, <3>6, <3>7
  <2> QED BY <2>1, <2>2
<1> DEFINE w == Text(t)
<1>5. /\ w \in Seq(Nat) /\ Len(w) = Len(F) + 2 /\ w[1] = n /\ w[Len(F) + 2] = 90
      /\ \A i \in 1..Len(F) : w[i + 1] = F[i]
  BY <1>1, <1>4, <1>6, Between
<1> HIDE DEF w
<1>7. CASE f = <<>>
  <2>1. Len(F) = 0
    BY <1>4, <1>7
  <2>2. w \in Seq(Nat) /\ Len(w) = 2 /\ w[1] = n /\ w[2] = 90
    BY <1>5, <2>1
  <2>3. Ended(w)
    BY <2>2 DEF Ended
  <2>4. Ended(Text(t)) /\ Text(t)[1] = t.second /\ Len(Text(t)) = 2 /\ t.fraction = <<>>
    BY <1>7, <2>2, <2>3 DEF w, f, n
  <2> QED BY <2>4
<1>8. CASE f # <<>>
  <2>1. Len(F) = Len(f) + 1 /\ F[1] = 46 /\ \A i \in 1..Len(f) : F[i + 1] = digits[i]
    BY <1>4, <1>8
  <2>2. w \in Seq(Nat) /\ Len(w) = Len(f) + 3 /\ w[1] = n /\ w[Len(f) + 3] = 90
    <3>1. Len(F) + 2 = Len(f) + 3
      BY <1>2, <2>1
    <3> QED BY <1>5, <3>1
  <2>3. w[2] = 46
    <3>1. 1 \in 1..Len(F) /\ 1 + 1 = 2
      BY <1>2, <2>1
    <3> QED BY <1>5, <2>1, <3>1
  <2>4. \A i \in 1..Len(f) : w[i + 2] = digits[i]
    <3>1. \A i \in 1..Len(f) : i + 1 \in 1..Len(F) /\ (i + 1) + 1 = i + 2
      BY <1>2, <2>1
    <3> QED BY <1>5, <2>1, <3>1
  <2>5. \A i \in 2..(2 + Len(f)) : w[i] < 90
    <3>1. ASSUME NEW i \in 2..(2 + Len(f)), i # 2 PROVE w[i] < 90
      <4>1. i - 2 \in 1..Len(f) /\ (i - 2) + 2 = i
        BY <1>2, <3>1
      <4> QED BY <1>3, <2>4, <4>1
    <3> QED BY <2>3, <3>1
  <2>6. Ended(w)
    <3>1. Len(w) - 1 = 2 + Len(f) /\ Len(w) \in Nat /\ Len(w) >= 2
      BY <1>2, <2>2
    <3> QED BY <2>2, <2>5, <3>1 DEF Ended
  <2>7. Ended(Text(t)) /\ Text(t)[1] = t.second /\ Len(Text(t)) = Len(t.fraction) + 3
    BY <2>2, <2>6 DEF w, f, n
  <2>8. t.fraction # <<>> /\ Len(t.fraction) > 0
    BY <1>2, <1>8 DEF f
  <2>9. \A i \in 1..Len(t.fraction) : Text(t)[i + 2] = 48 + t.fraction[i]
    <3>1. \A i \in 1..Len(f) : w[i + 2] = 48 + f[i]
      BY <1>3, <2>4
    <3> QED BY <3>1 DEF f, w
  <2> QED BY <2>7, <2>8, <2>9
<1> QED BY <1>7, <1>8

\* Two times with one text are one time.
LEMMA TextTells ==
  ASSUME NEW t \in Instants, NEW u \in Instants, Text(t) = Text(u)
  PROVE  t = u
<1>1. t.fraction \in Seq(0..9) /\ u.fraction \in Seq(0..9)
  BY DEF Instants
<1>2. /\ Len(t.fraction) \in Nat /\ Len(u.fraction) \in Nat
      /\ \A i \in 1..Len(t.fraction) : t.fraction[i] \in 0..9
      /\ \A i \in 1..Len(u.fraction) : u.fraction[i] \in 0..9
  BY <1>1
<1>3. t.second = u.second
  BY TextShape
<1>4. t.fraction = u.fraction
  <2>1. CASE t.fraction = <<>> \/ u.fraction = <<>>
    BY <1>2, <2>1, TextShape
  <2>2. CASE t.fraction # <<>> /\ u.fraction # <<>>
    <3>1. Len(t.fraction) = Len(u.fraction)
      BY <1>2, <2>2, TextShape
    <3>2. ASSUME NEW i \in 1..Len(t.fraction) PROVE t.fraction[i] = u.fraction[i]
      <4>1. Text(t)[i + 2] = 48 + t.fraction[i] /\ Text(u)[i + 2] = 48 + u.fraction[i]
        BY <2>2, <3>1, TextShape
      <4>2. t.fraction[i] \in 0..9 /\ u.fraction[i] \in 0..9
        BY <1>2, <3>1
      <4>3. 48 + t.fraction[i] = 48 + u.fraction[i]
        BY <4>1
      <4>4. \A d, e \in 0..9 : 48 + d = 48 + e => d = e
        OBVIOUS
      <4> DEFINE d == t.fraction[i]  e == u.fraction[i]
      <4> HIDE DEF d, e
      <4>5. d \in 0..9 /\ e \in 0..9 /\ 48 + d = 48 + e
        BY <4>2, <4>3 DEF d, e
      <4>6. d = e
        BY <4>4, <4>5
      <4> QED BY <4>6 DEF d, e
    <3> QED BY <1>1, <3>1, <3>2, SeqEqual
  <2> QED BY <2>1, <2>2
<1>5. t = [second |-> t.second, fraction |-> t.fraction] /\ u = [second |-> u.second, fraction |-> u.fraction]
  BY DEF Instants
<1> QED BY <1>3, <1>4, <1>5

\* The order of the times' text: one of two times goes first, and a time that
\* does is not of a later second.
LEMMA TextOrders ==
  ASSUME QueryBounds
  PROVE  /\ \A t \in Times : ~ TextBefore(t, t)
         /\ \A t, u \in Times : t # u => TextBefore(t, u) \/ TextBefore(u, t)
         /\ \A t, u, v \in Times : TextBefore(t, u) /\ TextBefore(u, v) => TextBefore(t, v)
         /\ \A t, u \in Times : TextBefore(t, u) => t.second <= u.second
         /\ \A t, u \in Times : t.second < u.second => TextBefore(t, u)
         /\ \A t \in Times : t.second \in Nat
<1>1. \A m \in Messages : TimeOf[m] \in Instants
  BY DEF QueryBounds
<1>2. \A t \in Times : t \in Instants
  BY <1>1 DEF Times, Range, QueryBounds
<1>3. \A t, u \in Times : TextBefore(t, u) <=> Lex(Text(t), Text(u))
  <2>1. ASSUME NEW t \in Times, NEW u \in Times PROVE <<t, u>> \in TextOrder <=> Lex(Text(t), Text(u))
    BY DEF TextOrder, Lex
  <2> QED BY <2>1 DEF TextBefore
<1>4. ASSUME NEW t \in Instants
      PROVE  /\ t.second \in Nat /\ Ended(Text(t)) /\ Text(t)[1] = t.second
             /\ Text(t) \in Seq(Nat) /\ DOMAIN Text(t) = 1..Len(Text(t)) /\ Len(Text(t)) \in Nat
             /\ 1 \in DOMAIN Text(t) /\ \A i \in DOMAIN Text(t) : Text(t)[i] \in Nat
  <2>1. t.second \in Nat
    BY DEF Instants
  <2>2. Ended(Text(t)) /\ Text(t)[1] = t.second
    BY TextShape
  <2> DEFINE w == Text(t)
  <2> HIDE DEF w
  <2>3. w \in Seq(Nat) /\ Len(w) \in Nat /\ Len(w) >= 2
    BY <2>2 DEF Ended, w
  <2>4. DOMAIN w = 1..Len(w)
    BY <2>3, LenProperties
  <2>5. 1 \in DOMAIN w /\ \A i \in DOMAIN w : w[i] \in Nat
    BY <2>3, <2>4
  <2> QED BY <2>1, <2>2, <2>3, <2>4, <2>5 DEF w
<1>5. \A t \in Times : ~ TextBefore(t, t)
  <2>1. ASSUME NEW t \in Times, Lex(Text(t), Text(t)) PROVE FALSE
    <3>1. PICK i \in DOMAIN Text(t) : Text(t)[i] < Text(t)[i]
      BY <2>1 DEF Lex
    <3>2. Text(t)[i] \in Nat
      BY <1>2, <1>4
    <3> QED BY <3>1, <3>2
  <2> QED BY <1>3, <2>1
<1>6. ASSUME NEW t \in Times, NEW u \in Times, t # u PROVE TextBefore(t, u) \/ TextBefore(u, t)
  <2>1. Text(t) # Text(u)
    BY <1>2, <1>6, TextTells
  <2>2. Ended(Text(t)) /\ Ended(Text(u))
    BY <1>2, <1>4
  <2> QED BY <1>3, <2>1, <2>2, LexTotal
<1>7. ASSUME NEW t \in Times, NEW u \in Times, NEW v \in Times, TextBefore(t, u), TextBefore(u, v)
      PROVE  TextBefore(t, v)
  <2>1. Text(t) \in Seq(Nat) /\ Text(u) \in Seq(Nat) /\ Text(v) \in Seq(Nat)
    BY <1>2, <1>4
  <2>2. Lex(Text(t), Text(u)) /\ Lex(Text(u), Text(v))
    BY <1>3, <1>7
  <2> QED BY <1>3, <2>1, <2>2, LexTransitive
<1>8. ASSUME NEW t \in Times, NEW u \in Times, TextBefore(t, u) PROVE t.second <= u.second
  <2> DEFINE a == Text(t)  b == Text(u)
  <2>1. Lex(a, b)
    BY <1>3, <1>8
  <2>2. t.second \in Nat /\ u.second \in Nat /\ a[1] = t.second /\ b[1] = u.second
    BY <1>2, <1>4
  <2>3. a \in Seq(Nat) /\ Len(a) \in Nat /\ DOMAIN a = 1..Len(a)
    BY <1>2, <1>4
  <2> HIDE DEF a, b
  <2>4. PICK i \in DOMAIN a \cap DOMAIN b : a[i] < b[i] /\ \A j \in 1..(i - 1) : a[j] = b[j]
    BY <2>1 DEF Lex
  <2>5. CASE i = 1
    BY <2>2, <2>4, <2>5
  <2>6. CASE i # 1
    <3>1. 1 \in 1..(i - 1)
      BY <2>3, <2>4, <2>6
    <3> QED BY <2>2, <2>4, <3>1
  <2> QED BY <2>5, <2>6
<1>9. ASSUME NEW t \in Times, NEW u \in Times, t.second < u.second PROVE TextBefore(t, u)
  <2> DEFINE a == Text(t)  b == Text(u)
  <2>1. a[1] < b[1] /\ 1 \in DOMAIN a /\ 1 \in DOMAIN b
    BY <1>2, <1>4, <1>9
  <2> HIDE DEF a, b
  <2>2. \A j \in 1..(1 - 1) : a[j] = b[j]
    OBVIOUS
  <2>3. Lex(a, b)
    BY <2>1, <2>2 DEF Lex
  <2> QED BY <1>3, <2>3 DEF a, b
<1> QED BY <1>2, <1>4, <1>5, <1>6, <1>7, <1>8, <1>9

\* Both orders of messages and the one of users are strict.
LEMMA OrdersStrict ==
  ASSUME QueryBounds
  PROVE  StrictOrder(Messages, ByTime) /\ StrictOrder(Messages, NewestId) /\ StrictOrder(Users, ByName)
<1>1. Messages \subseteq Nat /\ Users \subseteq Nat /\ DOMAIN TimeOf = Messages
  BY DEF QueryBounds
<1>2. \A m \in Messages : TimeOf[m] \in Times
  BY <1>1 DEF Times, Range
<1>3. \A m, n \in Messages : <<m, n>> \in ByTime <=>
        TextBefore(TimeOf[m], TimeOf[n]) \/ (TimeOf[m] = TimeOf[n] /\ m < n)
  BY DEF ByTime
<1>4. \A m, n \in Messages : <<m, n>> \in NewestId <=> m > n
  BY DEF NewestId
<1>5. \A u, v \in Users : <<u, v>> \in ByName <=> u < v
  BY DEF ByName
<1>6. ASSUME NEW m \in Messages PROVE <<m, m>> \notin ByTime
  <2>1. ~ (m < m) /\ ~ TextBefore(TimeOf[m], TimeOf[m])
    BY <1>1, <1>2, TextOrders
  <2> QED BY <1>3, <2>1
<1>7. ASSUME NEW m \in Messages, NEW n \in Messages, m # n PROVE <<m, n>> \in ByTime \/ <<n, m>> \in ByTime
  <2>1. m < n \/ n < m
    BY <1>1, <1>7
  <2>2. TimeOf[m] # TimeOf[n] => TextBefore(TimeOf[m], TimeOf[n]) \/ TextBefore(TimeOf[n], TimeOf[m])
    BY <1>2, TextOrders
  <2> QED BY <1>3, <2>1, <2>2
<1>8. ASSUME NEW m \in Messages, NEW n \in Messages, NEW k \in Messages,
             <<m, n>> \in ByTime, <<n, k>> \in ByTime
      PROVE  <<m, k>> \in ByTime
  <2> DEFINE t == TimeOf[m]  u == TimeOf[n]  v == TimeOf[k]
  <2>1. TextBefore(t, u) /\ TextBefore(u, v) => TextBefore(t, v)
    BY <1>2, TextOrders
  <2>2. m < n /\ n < k => m < k
    BY <1>1
  <2>3. (TextBefore(t, u) \/ (t = u /\ m < n)) /\ (TextBefore(u, v) \/ (u = v /\ n < k))
    BY <1>3, <1>8
  <2>4. TextBefore(t, v) \/ (t = v /\ m < k)
    <3> HIDE DEF t, u, v
    <3> QED BY <2>1, <2>2, <2>3
  <2> QED BY <1>3, <2>4
<1>9. StrictOrder(Messages, ByTime)
  BY <1>6, <1>7, <1>8 DEF StrictOrder
<1>10. StrictOrder(Messages, NewestId)
  BY <1>1, <1>4 DEF StrictOrder
<1>11. StrictOrder(Users, ByName)
  BY <1>1, <1>5 DEF StrictOrder
<1> QED BY <1>9, <1>10, <1>11


-----------------------------------------------------------------------------
(* Searches *)

\* As many candidates as the smallest number of them, or more.
LEMMA CandidatesEnough ==
  ASSUME QueryBounds, NEW limit \in Nat
  PROVE  CandidateLimit(limit) \in Nat /\ CandidateFloor <= CandidateLimit(limit)
<1>1. /\ CandidateFloor \in Nat /\ CandidateCap \in Nat /\ CandidateMultiple \in Nat
      /\ CandidateFloor <= CandidateCap /\ limit \in Nat
  BY DEF QueryBounds
<1> DEFINE candidates == limit * CandidateMultiple
           more == Max({candidates, CandidateFloor})
<1>2. candidates \in Nat
  BY <1>1
<1> HIDE DEF candidates
<1>3. more = IF candidates <= CandidateFloor THEN CandidateFloor ELSE candidates
  <2>1. candidates \in Int /\ CandidateFloor \in Int
    BY <1>1, <1>2
  <2> QED BY <2>1, MaxOfTwo
<1>4. more \in Nat /\ CandidateFloor <= more
  BY <1>1, <1>2, <1>3
<1> HIDE DEF more
<1>5. Min({more, CandidateCap}) = IF more <= CandidateCap THEN more ELSE CandidateCap
  BY <1>1, <1>4, MinOfTwo
<1>6. CandidateLimit(limit) = Min({more, CandidateCap})
  BY DEF CandidateLimit, more, candidates
<1> QED BY <1>1, <1>4, <1>5, <1>6

\* A sequence that says what another says up to its own end is its prefix.
LEMMA BeginningIsPrefix ==
  ASSUME NEW X, NEW s \in Seq(X), NEW t \in Seq(X), Len(s) <= Len(t), \A i \in 1..Len(s) : s[i] = t[i]
  PROVE  IsPrefix(s, t)
<1> DEFINE n == Len(s)
<1>1. n \in Nat /\ Len(t) \in Nat
  BY LenProperties
<1>2. \A i \in 1..n : s[i] \in X /\ t[i] \in X
  BY <1>1
<1>3. /\ SubSeq(s, 1, n) \in Seq(X)
      /\ Len(SubSeq(s, 1, n)) = IF 1 <= n THEN n - 1 + 1 ELSE 0
      /\ \A i \in 1..(n - 1 + 1) : SubSeq(s, 1, n)[i] = s[1 + i - 1]
  BY <1>1, <1>2, SubSeqProperties
<1>4. /\ SubSeq(t, 1, n) \in Seq(X)
      /\ Len(SubSeq(t, 1, n)) = IF 1 <= n THEN n - 1 + 1 ELSE 0
      /\ \A i \in 1..(n - 1 + 1) : SubSeq(t, 1, n)[i] = t[1 + i - 1]
  BY <1>1, <1>2, SubSeqProperties
<1>5. n - 1 + 1 = n /\ (~ (1 <= n) => n = 0) /\ \A i \in 1..n : 1 + i - 1 = i
  BY <1>1
<1> DEFINE a == SubSeq(s, 1, n)  b == SubSeq(t, 1, n)
<1>6. Len(a) = n /\ Len(b) = n /\ \A i \in 1..n : a[i] = s[i] /\ b[i] = t[i]
  BY <1>3, <1>4, <1>5
<1>7. a \in Seq(X) /\ b \in Seq(X)
  BY <1>3, <1>4
<1> HIDE DEF a, b
<1>8. a = b
  <2>1. Len(a) = Len(b) /\ \A i \in 1..Len(a) : a[i] = b[i]
    BY <1>6
  <2> QED BY <1>7, <2>1, SeqEqual
<1> QED BY <1>8 DEF IsPrefix, a, b

\* What a search finds among its candidates.
LEMMA FoundAmongCandidates ==
  ASSUME NEW S, IsFiniteSet(S), NEW order, StrictOrder(S, order), NEW T, NEW room \in Nat, NEW n \in Nat
  PROVE  LET found == Take(Among(Take(Sorted(S, order), room), T), n)
             wanted == Take(Sorted(S \cap T, order), n)
         IN /\ found \in Seq(S \cap T) /\ IsPrefix(found, wanted)
            /\ First(found, Range(Take(Sorted(S, order), room)) \cap T, order, n)
            /\ Cardinality(S \cap T) \in Nat
            /\ Len(found) < n /\ Len(found) < Cardinality(S \cap T) => Cardinality(S) > room
<1> DEFINE c == Take(Sorted(S, order), room)
           R == Range(c) \cap T
           A == S \cap T
           found == Take(Among(c, T), n)
           wanted == Take(Sorted(A, order), n)
<1>1. First(c, S, order, room)
  BY SortedLists, FirstOfList
<1> HIDE DEF c
<1>2. /\ R \in SUBSET S /\ IsFiniteSet(R) /\ StrictOrder(R, order) /\ Among(c, T) = Sorted(R, order)
  <2>1. c \in Seq(S) /\ \A i, j \in 1..Len(c) : i < j <=> <<c[i], c[j]>> \in order
    BY <1>1 DEF First
  <2> QED BY <2>1, AmongSorted
<1>3. A \in SUBSET S /\ IsFiniteSet(A) /\ StrictOrder(A, order) /\ R \in SUBSET A
  <2>1. A \in SUBSET S /\ IsFiniteSet(A)
    BY FS_Subset
  <2>2. StrictOrder(A, order)
    BY <2>1, StrictBelow
  <2>3. R \in SUBSET A
    BY <1>1 DEF First
  <2> QED BY <2>1, <2>2, <2>3
<1>4. ASSUME NEW m \in R, NEW k \in A, <<k, m>> \in order PROVE k \in R
  <2>1. k \notin Range(c) => <<m, k>> \in order
    BY <1>1 DEF First
  <2>2. <<m, k>> \notin order
    BY <1>2, <1>3, <1>4 DEF StrictOrder
  <2> QED BY <2>1, <2>2
<1> HIDE DEF R, A
<1>5. /\ Cardinality(R) <= Cardinality(A)
      /\ \A i \in 1..Cardinality(R) : Sorted(R, order)[i] = Sorted(A, order)[i]
  BY <1>3, <1>4, SortedBeginning
<1>6. Cardinality(R) \in Nat /\ Cardinality(A) \in Nat
  BY <1>2, <1>3, FS_CardinalityType
<1> DEFINE r == Sorted(R, order)  a == Sorted(A, order)
<1>7. r \in Seq(R) /\ Len(r) = Cardinality(R) /\ a \in Seq(A) /\ Len(a) = Cardinality(A)
  BY <1>2, <1>3, SortedProperties
<1>8. First(found, R, order, n) /\ First(wanted, A, order, n)
  BY <1>2, <1>3, SortedLists, FirstOfList
<1>9. found = Take(r, n) /\ wanted = Take(a, n)
  BY <1>2
<1>10. \A i \in 1..Cardinality(R) : r[i] = a[i]
  BY <1>5
<1> HIDE DEF r, a, found, wanted
<1>11. /\ Len(found) \in Nat /\ Len(found) <= n /\ Len(found) <= Len(r)
       /\ Len(found) = n \/ Len(found) = Len(r)
       /\ \A i \in 1..Len(found) : found[i] = r[i]
  <2>1. r \in Seq(R)
    BY <1>7
  <2> QED BY <1>9, <2>1, TakeIs
<1>12. /\ Len(wanted) \in Nat /\ (Len(wanted) = n \/ Len(wanted) = Len(a))
       /\ \A i \in 1..Len(wanted) : wanted[i] = a[i]
  <2>1. a \in Seq(A)
    BY <1>7
  <2> QED BY <1>9, <2>1, TakeIs
<1>13. /\ Len(found) \in Nat /\ Len(found) <= Cardinality(R) /\ Len(found) <= n
       /\ Len(found) < n => Len(found) = Cardinality(R)
  BY <1>7, <1>11
<1>14. Len(wanted) \in Nat /\ (Len(wanted) = n \/ Len(wanted) = Cardinality(A))
       /\ \A i \in 1..Len(wanted) : wanted[i] = a[i]
  BY <1>7, <1>12
<1>15. Len(found) <= Len(wanted)
  BY <1>5, <1>6, <1>13, <1>14
<1>16. \A i \in 1..Len(found) : found[i] = wanted[i]
  <2>1. ASSUME NEW i \in 1..Len(found) PROVE i \in 1..Cardinality(R) /\ i \in 1..Len(wanted)
    BY <1>6, <1>13, <1>14, <1>15
  <2> QED BY <1>10, <1>11, <1>14, <2>1
<1>17. found \in Seq(A) /\ wanted \in Seq(A)
  <2>1. found \in Seq(R) /\ wanted \in Seq(A)
    BY <1>8 DEF First
  <2> QED BY <1>3, <2>1
<1>18. IsPrefix(found, wanted)
  BY <1>15, <1>16, <1>17, BeginningIsPrefix
<1>19. ASSUME Len(found) < n, Len(found) < Cardinality(A) PROVE Cardinality(S) > room
  <2>1. Cardinality(R) < Cardinality(A)
    BY <1>13, <1>19
  <2>2. Cardinality(S) \in Nat
    BY FS_CardinalityType
  <2>3. Cardinality(S) <= room => Range(c) = S
    BY <1>1 DEF First
  <2>4. Range(c) = S => R = A
    BY DEF R, A
  <2>5. ~ (Cardinality(S) <= room)
    BY <1>6, <2>1, <2>3, <2>4
  <2> QED BY <2>2, <2>5
<1>20. /\ found \in Seq(A) /\ IsPrefix(found, wanted) /\ First(found, R, order, n) /\ Cardinality(A) \in Nat
       /\ Len(found) < n /\ Len(found) < Cardinality(A) => Cardinality(S) > room
  BY <1>6, <1>8, <1>17, <1>18, <1>19
<1> QED BY <1>20, Zenon DEF found, wanted, R, A, c

LEMMA MatchesOrdered ==
  ASSUME QueryBounds, NEW c
  PROVE  Matches(c) \subseteq Messages /\ IsFiniteSet(Matches(c)) /\ StrictOrder(Matches(c), NewestId)
<1>1. Matches(c) \in SUBSET Messages
  BY DEF Matches, Have
<1>2. IsFiniteSet(Messages)
  BY DEF QueryBounds
<1> QED BY <1>1, <1>2, FS_Subset, OrdersStrict, StrictBelow

\* SearchFindsNewest, whatever the rows are.
LEMMA SearchRight ==
  ASSUME QueryBounds
  PROVE  SearchFindsNewest
<1> SUFFICES ASSUME NEW limit \in Limits, NEW empty \in BOOLEAN, NEW c \in Channels
             PROVE  LET asked == {m \in Matches(c) : empty \/ Visible(m)}
                        found == SearchMessages(limit, empty, c)
                    IN /\ IsPrefix(found, Take(Sorted(asked, NewestId), limit))
                       /\ Len(found) < limit /\ Len(found) < Cardinality(asked)
                            => Cardinality(Matches(c)) > CandidateFloor
  BY DEF SearchFindsNewest
<1> DEFINE S == Matches(c)
           T == {m \in Messages : empty \/ Visible(m)}
           asked == {m \in Matches(c) : empty \/ Visible(m)}
           room == CandidateLimit(limit)
           found == Take(Among(Take(Sorted(S, NewestId), room), T), limit)
<1>1. S \subseteq Messages /\ IsFiniteSet(S) /\ StrictOrder(S, NewestId)
  BY MatchesOrdered
<1>2. room \in Nat /\ CandidateFloor <= room /\ limit \in Nat /\ CandidateFloor \in Nat
  <2>1. limit \in Nat /\ CandidateFloor \in Nat
    BY DEF QueryBounds
  <2> QED BY <2>1, CandidatesEnough
<1>3. asked = S \cap T
  BY <1>1
<1>4. SearchMessages(limit, empty, c) = found
  BY DEF SearchMessages
<1>5. Cardinality(S) \in Nat
  BY <1>1, FS_CardinalityType
<1> HIDE DEF S, T, room
<1>6. /\ IsPrefix(found, Take(Sorted(S \cap T, NewestId), limit))
      /\ Len(found) < limit /\ Len(found) < Cardinality(S \cap T) => Cardinality(S) > room
  BY <1>1, <1>2, FoundAmongCandidates
<1> HIDE DEF found, asked
<1>7. /\ IsPrefix(found, Take(Sorted(asked, NewestId), limit))
      /\ Len(found) < limit /\ Len(found) < Cardinality(asked) => Cardinality(S) > CandidateFloor
  BY <1>2, <1>3, <1>5, <1>6
<1> QED BY <1>4, <1>7 DEF asked, S

-----------------------------------------------------------------------------
(* Lists *)

LEMMA MessagesOrdered ==
  ASSUME QueryBounds, NEW S \in SUBSET Messages
  PROVE  IsFiniteSet(S) /\ StrictOrder(S, ByTime) /\ StrictOrder(S, Converse(ByTime))
<1>1. ByTime \in SUBSET (Messages \X Messages)
  BY DEF ByTime
<1>2. IsFiniteSet(S)
  BY FS_Subset DEF QueryBounds
<1>3. StrictOrder(S, ByTime)
  BY OrdersStrict, StrictBelow
<1> QED BY <1>1, <1>2, <1>3, ConverseStrict

\* order by created_at, id, up or down, with a limit.
LEMMA ListedFirst ==
  ASSUME QueryBounds, NEW S \in SUBSET Messages, NEW n \in Nat
  PROVE  /\ First(Take(Ascending(S), n), S, ByTime, n)
         /\ First(Take(Descending(S), n), S, Converse(ByTime), n)
<1>1. ByTime \in SUBSET (Messages \X Messages)
  BY DEF ByTime
<1>2. IsFiniteSet(S) /\ StrictOrder(S, ByTime) /\ StrictOrder(S, Converse(ByTime))
  BY MessagesOrdered
<1>3. Lists(Ascending(S), S, ByTime)
  BY <1>2, SortedLists DEF Ascending
<1>4. Lists(Descending(S), S, Converse(ByTime))
  BY <1>1, <1>2, <1>3, ReverseLists DEF Descending
<1> QED BY <1>2, <1>3, <1>4, FirstOfList

\* The order by time is the order of the seconds, within a second it may not be.
LEMMA LaterSecond ==
  ASSUME QueryBounds
  PROVE  /\ \A m \in Messages : Second(m) \in Nat
         /\ \A m, n : <<m, n>> \in ByTime => m \in Messages /\ n \in Messages /\ Second(m) <= Second(n)
         /\ \A m, n : <<m, n>> \in Converse(ByTime) <=> <<n, m>> \in ByTime
<1>1. \A m \in Messages : TimeOf[m] \in Times
  BY DEF Times, Range, QueryBounds
<1>2. \A m \in Messages : Second(m) \in Nat
  BY <1>1, TextOrders DEF Second
<1>3. ASSUME NEW m, NEW n, <<m, n>> \in ByTime PROVE m \in Messages /\ n \in Messages /\ Second(m) <= Second(n)
  <2>1. m \in Messages /\ n \in Messages /\ (TextBefore(TimeOf[m], TimeOf[n]) \/ TimeOf[m] = TimeOf[n])
    BY <1>3 DEF ByTime
  <2>2. Second(m) = TimeOf[m].second /\ Second(n) = TimeOf[n].second
    BY DEF Second
  <2>3. CASE TextBefore(TimeOf[m], TimeOf[n])
    <3>1. TimeOf[m].second <= TimeOf[n].second
      BY <1>1, <2>1, <2>3, TextOrders
    <3> QED BY <2>1, <2>2, <3>1
  <2>4. CASE TimeOf[m] = TimeOf[n]
    <3>1. Second(m) = Second(n) /\ Second(m) \in Nat
      BY <1>2, <2>1, <2>2, <2>4
    <3> QED BY <2>1, <3>1
  <2> QED BY <2>1, <2>3, <2>4
<1>4. ByTime \in SUBSET (Messages \X Messages)
  BY DEF ByTime
<1>5. \A m, n : <<m, n>> \in Converse(ByTime) <=> <<n, m>> \in ByTime
  BY <1>4, ConverseTurns
<1> QED BY <1>2, <1>3, <1>5

\* The first ones in time are the first to the second, and the last the last.
LEMMA OldestRight ==
  ASSUME QueryBounds, NEW S \in SUBSET Messages, NEW n, NEW t, First(t, S, ByTime, n)
  PROVE  InOrder(t) /\ RightToTheSecond(t, S, n, <)
<1>1. /\ DOMAIN t = 1..Len(t) /\ Len(t) = Min({n, Cardinality(S)}) /\ Range(t) \subseteq S
      /\ \A i, j \in 1..Len(t) : i < j <=> <<t[i], t[j]>> \in ByTime
      /\ \A i, j \in 1..Len(t) : t[i] = t[j] => i = j
      /\ \A m \in Range(t), k \in S \ Range(t) : <<m, k>> \in ByTime
  BY DEF First
<1>2. InOrder(t)
  BY <1>1, LaterSecond DEF InOrder
<1>3. IsInjective(t)
  BY <1>1 DEF IsInjective
<1>4. ASSUME NEW m \in Range(t), NEW k \in S \ Range(t) PROVE ~ (Second(k) < Second(m))
  <2>1. Second(m) <= Second(k) /\ Second(m) \in Nat /\ Second(k) \in Nat
    BY <1>1, LaterSecond
  <2> QED BY <2>1
<1>5. RightToTheSecond(t, S, n, <)
  BY <1>1, <1>3, <1>4 DEF RightToTheSecond
<1> QED BY <1>2, <1>5

LEMMA ReverseRange ==
  ASSUME NEW X, NEW s \in Seq(X), \A i, j \in 1..Len(s) : s[i] = s[j] => i = j
  PROVE  /\ Range(Reverse(s)) = Range(s) /\ IsInjective(Reverse(s)) /\ Len(Reverse(s)) = Len(s)
         /\ DOMAIN Reverse(s) = 1..Len(s)
<1> DEFINE r == Reverse(s)
<1>1. Len(s) \in Nat /\ DOMAIN s = 1..Len(s)
  BY LenProperties
<1>2. r \in Seq(X) /\ Len(r) = Len(s) /\ \A i \in 1..Len(s) : r[i] = s[Len(s) - i + 1] /\ Len(s) - i + 1 \in 1..Len(s)
  BY ReverseSeq
<1> HIDE DEF r
<1>3. DOMAIN r = 1..Len(s)
  BY <1>2, LenProperties
<1>4. \A i \in 1..Len(s) : Len(s) - i + 1 \in 1..Len(s) /\ s[i] = r[Len(s) - i + 1]
  <2>1. \A i \in 1..Len(s) : Len(s) - i + 1 \in 1..Len(s) /\ Len(s) - (Len(s) - i + 1) + 1 = i
    BY <1>1
  <2> QED BY <1>2, <2>1
<1>5. /\ \A i \in 1..Len(s) : s[i] \in Range(s)
      /\ \A m \in Range(s) : \E i \in 1..Len(s) : s[i] = m
  BY SeqMembers
<1>6. /\ \A i \in 1..Len(s) : r[i] \in Range(r)
      /\ \A m \in Range(r) : \E i \in 1..Len(s) : r[i] = m
  BY <1>2, SeqMembers
<1>7. Range(r) \subseteq Range(s)
  BY <1>2, <1>5, <1>6
<1>8. Range(s) \subseteq Range(r)
  BY <1>4, <1>5, <1>6
<1>9. ASSUME NEW i \in 1..Len(s), NEW j \in 1..Len(s), r[i] = r[j] PROVE i = j
  <2>1. Len(s) - i + 1 = Len(s) - j + 1
    BY <1>2, <1>9
  <2> QED BY <1>1, <2>1
<1>10. IsInjective(r)
  BY <1>3, <1>9 DEF IsInjective
<1> QED BY <1>2, <1>3, <1>7, <1>8, <1>10 DEF r

\* The last ones in time are the last to the second, read from either end.
LEMMA NewestRight ==
  ASSUME QueryBounds, NEW S \in SUBSET Messages, NEW n, NEW t, First(t, S, Converse(ByTime), n)
  PROVE  /\ InOrder(Reverse(t)) /\ RightToTheSecond(Reverse(t), S, n, >)
         /\ RightToTheSecond(t, S, n, >)
<1>1. /\ t \in Seq(S) /\ DOMAIN t = 1..Len(t) /\ Len(t) = Min({n, Cardinality(S)}) /\ Range(t) \subseteq S
      /\ Len(t) \in Nat
      /\ \A i, j \in 1..Len(t) : i < j <=> <<t[i], t[j]>> \in Converse(ByTime)
      /\ \A i, j \in 1..Len(t) : t[i] = t[j] => i = j
      /\ \A m \in Range(t), k \in S \ Range(t) : <<m, k>> \in Converse(ByTime)
  BY DEF First
<1> DEFINE r == Reverse(t)
<1>2. Range(r) = Range(t) /\ IsInjective(r) /\ Len(r) = Len(t) /\ DOMAIN r = 1..Len(t)
  BY <1>1, ReverseRange
<1>3. \A i \in 1..Len(t) : r[i] = t[Len(t) - i + 1] /\ Len(t) - i + 1 \in 1..Len(t)
  BY <1>1, ReverseSeq
<1> HIDE DEF r
<1>4. ASSUME NEW i \in 1..Len(t), NEW j \in 1..Len(t), i < j PROVE Second(r[i]) <= Second(r[j])
  <2>1. Len(t) - j + 1 < Len(t) - i + 1
    BY <1>1, <1>4
  <2>2. <<r[j], r[i]>> \in Converse(ByTime)
    BY <1>1, <1>3, <2>1
  <2> QED BY <2>2, LaterSecond
<1>5. InOrder(r)
  BY <1>2, <1>4 DEF InOrder
<1>6. IsInjective(t)
  BY <1>1 DEF IsInjective
<1>7. ASSUME NEW m \in Range(t), NEW k \in S \ Range(t) PROVE ~ (Second(k) > Second(m))
  <2>1. Second(k) <= Second(m) /\ Second(m) \in Nat /\ Second(k) \in Nat
    BY <1>1, LaterSecond
  <2> QED BY <2>1
<1>8. RightToTheSecond(t, S, n, >)
  BY <1>1, <1>6, <1>7 DEF RightToTheSecond
<1>9. RightToTheSecond(r, S, n, >)
  BY <1>1, <1>2, <1>7 DEF RightToTheSecond
<1> QED BY <1>5, <1>8, <1>9 DEF r

\* ProfileRight, whatever the table of members is.
LEMMA ProfilesFound ==
  ASSUME QueryBounds
  PROVE  ProfileRight
<1> SUFFICES ASSUME NEW table \in SUBSET Users, NEW u \in Users,
                    Cardinality({v \in table : <<v, u>> \in Quoting}) <= ProfileRows
             PROVE  ProfileOf(table, u) <=> u \in table
  BY DEF ProfileRight
<1> DEFINE S == {v \in table : <<v, u>> \in Quoting}
           t == Take(Sorted(S, ByName), ProfileRows)
<1>1. S \in SUBSET Users /\ ProfileRows \in Nat /\ IsFiniteSet(Users) /\ <<u, u>> \in Quoting
  BY DEF QueryBounds
<1>2. IsFiniteSet(S) /\ StrictOrder(S, ByName)
  BY <1>1, FS_Subset, OrdersStrict, StrictBelow
<1>3. Cardinality(S) <= ProfileRows
  OBVIOUS
<1>4. u \in S <=> u \in table
  BY <1>1
<1> HIDE DEF S
<1>5. First(t, S, ByName, ProfileRows)
  BY <1>1, <1>2, SortedLists, FirstOfList
<1> HIDE DEF t
<1>6. Range(t) = S /\ t \in Seq(S)
  BY <1>3, <1>5 DEF First
<1>7. u \in S <=> \E i \in 1..Len(t) : t[i] = u
  BY <1>6, SeqMembers
<1>8. ProfileOf(table, u) <=> \E i \in 1..Len(t) : t[i] = u
  BY DEF ProfileOf, ProfileCandidates, Contains, S, t
<1> QED BY <1>4, <1>7, <1>8

\* A message within the bounds to the second is listed, and one that is listed
\* is within them to the second.
LEMMA WithinSecond ==
  ASSUME QueryBounds, NEW m \in Messages, NEW since \in Bounds, NEW before \in Bounds
  PROVE  /\ (since # Every => since.second < Second(m)) /\ (before # Every => Second(m) < before.second)
              => Within(m, since, before)
         /\ Within(m, since, before)
              => (since # Every => since.second <= Second(m)) /\ (before # Every => Second(m) <= before.second)
<1>1. TimeOf[m] \in Times
  BY DEF Times, Range, QueryBounds
<1>2. Second(m) = TimeOf[m].second
  BY DEF Second
<1>3. ASSUME NEW t \in Times, NEW u \in Times
      PROVE  /\ t.second \in Nat /\ u.second \in Nat
             /\ TextBefore(t, u) => t.second <= u.second
             /\ t.second < u.second => TextBefore(t, u)
  BY TextOrders
<1>4. since # Every => since \in Times
  BY DEF Bounds
<1>5. before # Every => before \in Times
  BY DEF Bounds
<1>6. since # Every =>
        /\ since.second < Second(m) => ~ TextBefore(TimeOf[m], since)
        /\ ~ TextBefore(TimeOf[m], since) => since.second <= Second(m)
  <2>1. ASSUME since # Every
        PROVE  /\ since.second \in Nat /\ Second(m) \in Nat
               /\ TextBefore(TimeOf[m], since) => Second(m) <= since.second
               /\ Second(m) < since.second => TextBefore(TimeOf[m], since)
    BY <1>1, <1>2, <1>3, <1>4, <2>1
  <2> QED BY <2>1
<1>7. before # Every =>
        /\ Second(m) < before.second => TextBefore(TimeOf[m], before)
        /\ TextBefore(TimeOf[m], before) => Second(m) <= before.second
  BY <1>1, <1>2, <1>3, <1>5
<1> QED BY <1>6, <1>7 DEF Within

\* ListsRight, whatever the rows are.
LEMMA ListsAreRight ==
  ASSUME QueryBounds
  PROVE  ListsRight
<1>1. ASSUME NEW c \in Channels, NEW w \in Windows, NEW empty \in BOOLEAN, NEW n \in Limits
      PROVE  LET o(last, limit) ==
                   [channel |-> c, since |-> w[1], before |-> w[2], empty |-> empty, last |-> last, limit |-> limit]
                 asked     == Listed(o(0, 0))
                 mentioned == {m \in asked : row[m] = "hit"}
                 newest    == ListMessages(o(n, 0))
                 oldest    == ListMessages(o(0, n))
                 mentions  == ListMentions(o(0, n))
             IN /\ \A m \in Have : InChannel(m, c) /\ (empty \/ Visible(m)) =>
                     LET in(Less(_, _)) == /\ w[1] # Every => Less(w[1].second, Second(m))
                                           /\ w[2] # Every => Less(Second(m), w[2].second)
                     IN (in(<) => m \in asked) /\ (m \in asked => in(<=))
                /\ InOrder(newest) /\ RightToTheSecond(newest, asked, n, >)
                /\ InOrder(oldest) /\ RightToTheSecond(oldest, asked, n, <)
                /\ InOrder(Reverse(mentions)) /\ RightToTheSecond(mentions, mentioned, n, >)
                /\ InOrder(Reverse(SearchFallback(n, c)))
  <2> DEFINE o(last, limit) ==
               [channel |-> c, since |-> w[1], before |-> w[2], empty |-> empty, last |-> last, limit |-> limit]
             asked == Listed(o(0, 0))
             A == {m \in Have : InChannel(m, c) /\ Within(m, w[1], w[2]) /\ (empty \/ Visible(m))}
             M == {m \in A : row[m] = "hit"}
             F == {m \in Have : InChannel(m, c) /\ row[m] = "hit"}
  <2>1. \A last, limit : Listed(o(last, limit)) = A
    BY DEF Listed
  <2>2. A \in SUBSET Messages /\ M \in SUBSET Messages /\ F \in SUBSET Messages
    BY DEF Have
  <2>3. n \in Nat /\ n > 0
    BY DEF QueryBounds
  <2>4. w[1] \in Bounds /\ w[2] \in Bounds
    BY DEF Windows, Bounds
  <2>5. \A m \in Have : InChannel(m, c) /\ (empty \/ Visible(m)) => (m \in A <=> Within(m, w[1], w[2]))
    OBVIOUS
  <2>6. ListMessages(o(n, 0)) = Reverse(Take(Descending(A), n))
    <3>1. o(n, 0).last = n
      OBVIOUS
    <3>2. Listed(o(n, 0)) = A
      BY <2>1
    <3> HIDE DEF o, A
    <3> QED BY <2>3, <3>1, <3>2 DEF ListMessages, NewestOf
  <2>7. ListMessages(o(0, n)) = Take(Ascending(A), n)
    <3>1. o(0, n).last = 0 /\ o(0, n).limit = n
      OBVIOUS
    <3>2. Listed(o(0, n)) = A
      BY <2>1
    <3> HIDE DEF o, A
    <3> QED BY <2>3, <3>1, <3>2 DEF ListMessages
  <2>8. ListMentions(o(0, n)) = Take(Descending(M), n)
    <3>1. o(0, n).limit = n
      OBVIOUS
    <3>2. Listed(o(0, n)) = A
      BY <2>1
    <3> HIDE DEF o, A
    <3> QED BY <3>1, <3>2 DEF ListMentions, M
  <2>9. SearchFallback(n, c) = Take(Descending(F), n)
    BY DEF SearchFallback
  <2>10. asked = A
    BY <2>1
  <2> HIDE DEF o, A, M, F, asked
  <2>11. InOrder(Reverse(Take(Descending(A), n))) /\ RightToTheSecond(Reverse(Take(Descending(A), n)), A, n, >)
    BY <2>2, <2>3, ListedFirst, NewestRight
  <2>12. InOrder(Take(Ascending(A), n)) /\ RightToTheSecond(Take(Ascending(A), n), A, n, <)
    BY <2>2, <2>3, ListedFirst, OldestRight
  <2>13. InOrder(Reverse(Take(Descending(M), n))) /\ RightToTheSecond(Take(Descending(M), n), M, n, >)
    BY <2>2, <2>3, ListedFirst, NewestRight
  <2>14. InOrder(Reverse(Take(Descending(F), n)))
    BY <2>2, <2>3, ListedFirst, NewestRight
  <2>15. ASSUME NEW m \in Have, InChannel(m, c) /\ (empty \/ Visible(m))
         PROVE  /\ (w[1] # Every => w[1].second < Second(m)) /\ (w[2] # Every => Second(m) < w[2].second)
                     => m \in A
                /\ m \in A
                     => (w[1] # Every => w[1].second <= Second(m)) /\ (w[2] # Every => Second(m) <= w[2].second)
    BY <2>4, <2>5, <2>15, WithinSecond DEF Have
  <2>16. M = {m \in A : row[m] = "hit"}
    BY DEF M
  <2> QED BY <2>6, <2>7, <2>8, <2>9, <2>10, <2>11, <2>12, <2>13, <2>14, <2>15, <2>16 DEF o, asked
<1> QED BY <1>1, ProfilesFound DEF ListsRight

-----------------------------------------------------------------------------
(* Conversations *)

\* The row behind the first n is there if there are more than n, and then n + 1
\* are not beyond it.
LEMMA OffsetIs ==
  ASSUME NEW S, IsFiniteSet(S), NEW order, StrictOrder(S, order), NEW n \in Nat, NEW s, Lists(s, S, order)
  PROVE  /\ Cardinality(S) <= n => Offset(s, n) = {}
         /\ Cardinality(S) > n =>
              \E f \in S : /\ Offset(s, n) = {f}
                           /\ \E R \in SUBSET S :
                                IsFiniteSet(R) /\ Cardinality(R) = n + 1 /\ \A k \in R : k = f \/ <<k, f>> \in order
<1> DEFINE N == Cardinality(S)
           t == Take(s, n + 1)
<1>0. N \in Nat
  BY FS_CardinalityType
<1>1. s \in Seq(S) /\ Len(s) = N /\ DOMAIN s = 1..N
  <2>1. s \in Seq(S) /\ Len(s) = N
    BY DEF Lists
  <2> QED BY <2>1, LenProperties
<1>2. ASSUME N <= n PROVE Offset(s, n) = {}
  <2>1. n + 1 \notin DOMAIN s
    BY <1>0, <1>1, <1>2
  <2> QED BY <2>1 DEF Offset
<1>3. ASSUME N > n
      PROVE  \E f \in S : /\ Offset(s, n) = {f}
                          /\ \E R \in SUBSET S :
                               IsFiniteSet(R) /\ Cardinality(R) = n + 1 /\ \A k \in R : k = f \/ <<k, f>> \in order
  <2>1. n + 1 \in 1..N /\ n + 1 \in Nat
    BY <1>0, <1>3
  <2> DEFINE f == s[n + 1]
  <2>2. f \in S /\ Offset(s, n) = {f}
    BY <1>1, <2>1 DEF Offset
  <2>3. First(t, S, order, n + 1)
    BY <2>1, FirstOfList
  <2>4. /\ Len(t) \in Nat /\ Len(t) <= n + 1 /\ Len(t) <= Len(s)
        /\ Len(t) = n + 1 \/ Len(t) = Len(s)
        /\ \A i \in 1..Len(t) : t[i] = s[i]
    BY <1>1, <2>1, TakeIs
  <2> HIDE DEF t
  <2>5. Len(t) = n + 1
    BY <1>0, <1>1, <2>1, <2>4
  <2>6. /\ Range(t) \in SUBSET S /\ IsFiniteSet(Range(t)) /\ Cardinality(Range(t)) = n + 1
        /\ t \in Seq(S) /\ \A i, j \in 1..(n + 1) : i < j <=> <<t[i], t[j]>> \in order
    BY <2>3, <2>5 DEF First
  <2>7. ASSUME NEW k \in Range(t) PROVE k = f \/ <<k, f>> \in order
    <3>1. PICK i \in 1..(n + 1) : t[i] = k
      BY <2>5, <2>6, SeqMembers
    <3>2. i = n + 1 \/ i < n + 1
      BY <2>1
    <3>3. t[n + 1] = f /\ n + 1 \in 1..(n + 1)
      BY <2>1, <2>4, <2>5
    <3> HIDE DEF f
    <3> QED BY <2>6, <3>1, <3>2, <3>3
  <2> HIDE DEF f
  <2> QED BY <2>2, <2>6, <2>7
<1> QED BY <1>0, <1>2, <1>3

\* Earlier, or of the same time: what ~TextBefore says of two messages.
LEMMA TimesCompared ==
  ASSUME QueryBounds
  PROVE  /\ \A m \in Messages : TimeOf[m] \in Times /\ Second(m) \in Nat
         /\ \A m, n \in Messages : Second(m) < Second(n) => TextBefore(TimeOf[m], TimeOf[n])
         /\ \A m, n \in Messages : TextBefore(TimeOf[m], TimeOf[n]) => ~ TextBefore(TimeOf[n], TimeOf[m])
         /\ \A m, n, k \in Messages :
              ~ TextBefore(TimeOf[n], TimeOf[m]) /\ ~ TextBefore(TimeOf[k], TimeOf[n])
                => ~ TextBefore(TimeOf[k], TimeOf[m])
         /\ \A m, n, k \in Messages :
              TextBefore(TimeOf[m], TimeOf[n]) /\ TextBefore(TimeOf[n], TimeOf[k])
                => TextBefore(TimeOf[m], TimeOf[k])
         /\ \A m, n \in Messages : <<m, n>> \in ByTime => ~ TextBefore(TimeOf[n], TimeOf[m])
<1>1. \A m \in Messages : TimeOf[m] \in Times
  BY DEF Times, Range, QueryBounds
<1>2. ASSUME NEW t \in Times, NEW u \in Times, NEW v \in Times
      PROVE  /\ ~ TextBefore(t, t) /\ (t # u => TextBefore(t, u) \/ TextBefore(u, t))
             /\ TextBefore(t, u) /\ TextBefore(u, v) => TextBefore(t, v)
             /\ t.second < u.second => TextBefore(t, u)
  BY TextOrders
<1>3. \A m, n \in Messages : Second(m) < Second(n) => TextBefore(TimeOf[m], TimeOf[n])
  BY <1>1, <1>2 DEF Second
<1>4. ASSUME NEW t \in Times, NEW u \in Times, TextBefore(t, u) PROVE ~ TextBefore(u, t)
  BY <1>2, <1>4
<1>5. ASSUME NEW t \in Times, NEW u \in Times, NEW v \in Times, ~ TextBefore(u, t), ~ TextBefore(v, u)
      PROVE  ~ TextBefore(v, t)
  <2>1. (t = u \/ TextBefore(t, u)) /\ (u = v \/ TextBefore(u, v))
    BY <1>2, <1>5
  <2>2. t = v \/ TextBefore(t, v)
    BY <1>2, <2>1
  <2> QED BY <1>2, <1>4, <2>2
<1>6. ASSUME NEW m \in Messages, NEW n \in Messages, <<m, n>> \in ByTime PROVE ~ TextBefore(TimeOf[n], TimeOf[m])
  <2>1. TextBefore(TimeOf[m], TimeOf[n]) \/ TimeOf[m] = TimeOf[n]
    BY <1>6 DEF ByTime
  <2> QED BY <1>1, <1>2, <1>4, <2>1
<1>7. \A m \in Messages : Second(m) \in Nat
  BY LaterSecond
<1>8. \A m, n \in Messages : TextBefore(TimeOf[m], TimeOf[n]) => ~ TextBefore(TimeOf[n], TimeOf[m])
  BY <1>1, <1>4
<1>9. \A m, n, k \in Messages :
        ~ TextBefore(TimeOf[n], TimeOf[m]) /\ ~ TextBefore(TimeOf[k], TimeOf[n])
          => ~ TextBefore(TimeOf[k], TimeOf[m])
  BY <1>1, <1>5
<1>10. ASSUME NEW m \in Messages, NEW n \in Messages, NEW k \in Messages,
              TextBefore(TimeOf[m], TimeOf[n]), TextBefore(TimeOf[n], TimeOf[k])
       PROVE  TextBefore(TimeOf[m], TimeOf[k])
  <2>1. TimeOf[m] \in Times /\ TimeOf[n] \in Times /\ TimeOf[k] \in Times
    BY <1>1
  <2> QED BY <1>2, <1>10, <2>1
<1> QED BY <1>1, <1>3, <1>6, <1>7, <1>8, <1>9, <1>10

\* ConversationWhole, whatever the rows are: both bounds of the conversation
\* exist, or one side is too short.
LEMMA ConversationIsWhole ==
  ASSUME QueryBounds
  PROVE  ConversationWhole
<1> SUFFICES ASSUME NEW m \in Have, NEW before \in Limits, NEW after \in Limits
             PROVE  LET answer == GetConversation(m, before, after)
                        around == {n \in Have : ChannelOf[n] = ChannelOf[m]}
                    IN \/ /\ m \in answer
                          /\ Cardinality({n \in answer : ~TextBefore(TimeOf[m], TimeOf[n])}) > before
                          /\ Cardinality({n \in answer : ~TextBefore(TimeOf[n], TimeOf[m])}) > after
                          /\ \A n \in around \ answer, k \in answer :
                               /\ ~(Second(k) < Second(n) /\ Second(n) < Second(m))
                               /\ ~(Second(m) < Second(n) /\ Second(n) < Second(k))
                       \/ /\ answer = {}
                          /\ \/ Cardinality({n \in around : Second(n) < Second(m)}) < before
                             \/ Cardinality({n \in around : Second(n) > Second(m)}) < after
  BY DEF ConversationWhole
<1> DEFINE Less(a, b) == TextBefore(TimeOf[a], TimeOf[b])
           around == {n \in Have : ChannelOf[n] = ChannelOf[m]}
           A == {n \in around : ~ Less(m, n)}
           B == {n \in around : ~ Less(n, m)}
           answer == GetConversation(m, before, after)
           first == Offset(Descending(A), before)
           last == Offset(Ascending(B), after)
<1>1. answer = {n \in around : \E f \in first, l \in last : ~ Less(n, f) /\ ~ Less(l, n)}
  BY DEF GetConversation
<1>2. before \in Nat \ {0} /\ after \in Nat \ {0}
  BY DEF QueryBounds
<1>3. around \in SUBSET Messages /\ m \in around /\ m \in Messages
  BY DEF Have
<1>4. /\ \A a \in Messages : Second(a) \in Nat
      /\ \A a, b \in Messages : Second(a) < Second(b) => Less(a, b)
      /\ \A a, b \in Messages : Less(a, b) => ~ Less(b, a)
      /\ \A a, b, c \in Messages : ~ Less(b, a) /\ ~ Less(c, b) => ~ Less(c, a)
      /\ \A a, b, c \in Messages : Less(a, b) /\ Less(b, c) => Less(a, c)
      /\ \A a, b \in Messages : <<a, b>> \in ByTime => ~ Less(b, a)
  BY TimesCompared
<1> HIDE DEF answer, around, Less, first, last
<1>5. A \in SUBSET Messages /\ B \in SUBSET Messages /\ m \in A /\ m \in B
  BY <1>3, <1>4
<1>6. /\ IsFiniteSet(A) /\ StrictOrder(A, Converse(ByTime)) /\ Cardinality(A) \in Nat
      /\ IsFiniteSet(B) /\ StrictOrder(B, ByTime) /\ Cardinality(B) \in Nat
      /\ IsFiniteSet(around)
  BY <1>3, <1>5, MessagesOrdered, FS_CardinalityType
<1>7. Lists(Descending(A), A, Converse(ByTime)) /\ Lists(Ascending(B), B, ByTime)
  <2>1. ByTime \in SUBSET (Messages \X Messages)
    BY DEF ByTime
  <2>2. \A S \in SUBSET Messages : IsFiniteSet(S) /\ Lists(Ascending(S), S, ByTime)
    BY MessagesOrdered, SortedLists DEF Ascending
  <2> HIDE DEF A, B
  <2> QED BY <1>5, <2>1, <2>2, ReverseLists DEF Descending
<1>8. /\ \A a \in A : a \in around /\ ~ Less(m, a)
      /\ \A a \in B : a \in around /\ ~ Less(a, m)
      /\ \A a \in around : Second(a) < Second(m) => a \in A \ {m}
      /\ \A a \in around : Second(a) > Second(m) => a \in B \ {m}
  BY <1>3, <1>4
<1> HIDE DEF A, B
<1>9. ASSUME Cardinality(A) <= before
      PROVE  answer = {} /\ Cardinality({n \in around : Second(n) < Second(m)}) < before
  <2>1. first = {}
    BY <1>2, <1>6, <1>7, <1>9, OffsetIs DEF first
  <2> DEFINE E == {n \in around : Second(n) < Second(m)}
  <2>2. E \in SUBSET (A \ {m})
    BY <1>8
  <2>3. IsFiniteSet(A \ {m}) /\ Cardinality(A \ {m}) = Cardinality(A) - 1
    BY <1>5, <1>6, FS_RemoveElement
  <2>4. Cardinality(E) <= Cardinality(A \ {m}) /\ Cardinality(E) \in Nat
    BY <2>2, <2>3, FS_Subset, FS_CardinalityType
  <2> HIDE DEF E
  <2>5. Cardinality(E) < before
    BY <1>2, <1>6, <1>9, <2>3, <2>4
  <2> QED BY <1>1, <2>1, <2>5 DEF E
<1>10. ASSUME Cardinality(B) <= after
       PROVE  answer = {} /\ Cardinality({n \in around : Second(n) > Second(m)}) < after
  <2>1. last = {}
    BY <1>2, <1>6, <1>7, <1>10, OffsetIs DEF last
  <2> DEFINE E == {n \in around : Second(n) > Second(m)}
  <2>2. E \in SUBSET (B \ {m})
    BY <1>8
  <2>3. IsFiniteSet(B \ {m}) /\ Cardinality(B \ {m}) = Cardinality(B) - 1
    BY <1>5, <1>6, FS_RemoveElement
  <2>4. Cardinality(E) <= Cardinality(B \ {m}) /\ Cardinality(E) \in Nat
    BY <2>2, <2>3, FS_Subset, FS_CardinalityType
  <2> HIDE DEF E
  <2>5. Cardinality(E) < after
    BY <1>2, <1>6, <1>10, <2>3, <2>4
  <2> QED BY <1>1, <2>1, <2>5 DEF E
<1>11. ASSUME Cardinality(A) > before, Cardinality(B) > after
       PROVE  /\ m \in answer
              /\ Cardinality({n \in answer : ~ Less(m, n)}) > before
              /\ Cardinality({n \in answer : ~ Less(n, m)}) > after
              /\ \A n \in around \ answer, k \in answer :
                   /\ ~(Second(k) < Second(n) /\ Second(n) < Second(m))
                   /\ ~(Second(m) < Second(n) /\ Second(n) < Second(k))
  <2>1. \E f \in A : /\ first = {f}
                     /\ \E R \in SUBSET A : /\ IsFiniteSet(R) /\ Cardinality(R) = before + 1
                                            /\ \A k \in R : k = f \/ <<k, f>> \in Converse(ByTime)
    BY <1>2, <1>6, <1>7, <1>11, OffsetIs DEF first
  <2>2. \E l \in B : /\ last = {l}
                     /\ \E R \in SUBSET B : /\ IsFiniteSet(R) /\ Cardinality(R) = after + 1
                                            /\ \A k \in R : k = l \/ <<k, l>> \in ByTime
    BY <1>2, <1>6, <1>7, <1>11, OffsetIs DEF last
  <2>3. PICK f \in A : /\ first = {f}
                       /\ \E R \in SUBSET A : /\ IsFiniteSet(R) /\ Cardinality(R) = before + 1
                                              /\ \A k \in R : k = f \/ <<k, f>> \in Converse(ByTime)
    BY <2>1
  <2>4. PICK l \in B : /\ last = {l}
                       /\ \E R \in SUBSET B : /\ IsFiniteSet(R) /\ Cardinality(R) = after + 1
                                              /\ \A k \in R : k = l \/ <<k, l>> \in ByTime
    BY <2>2
  <2>5. PICK P \in SUBSET A : /\ IsFiniteSet(P) /\ Cardinality(P) = before + 1
                              /\ \A k \in P : k = f \/ <<k, f>> \in Converse(ByTime)
    BY <2>3
  <2>6. PICK Q \in SUBSET B : /\ IsFiniteSet(Q) /\ Cardinality(Q) = after + 1
                              /\ \A k \in Q : k = l \/ <<k, l>> \in ByTime
    BY <2>4
  <2>7. answer = {n \in around : ~ Less(n, f) /\ ~ Less(l, n)}
    BY <1>1, <2>3, <2>4
  <2>8. f \in Messages /\ l \in Messages /\ ~ Less(m, f) /\ ~ Less(l, m)
    BY <1>5, <1>8
  <2>9. m \in answer
    BY <1>3, <2>7, <2>8
  <2>10. IsFiniteSet(answer)
    BY <1>6, <2>7, FS_Subset
  <2>11. ASSUME NEW k \in P PROVE k \in answer /\ ~ Less(m, k)
    <3>1. k \in around /\ k \in Messages /\ ~ Less(m, k)
      BY <1>5, <1>8
    <3>2. ~ Less(k, f)
      BY <1>4, <2>5, <2>8, <3>1, LaterSecond
    <3>3. ~ Less(l, k)
      BY <1>3, <1>4, <2>8, <3>1
    <3> QED BY <2>7, <3>1, <3>2, <3>3
  <2>12. ASSUME NEW k \in Q PROVE k \in answer /\ ~ Less(k, m)
    <3>1. k \in around /\ k \in Messages /\ ~ Less(k, m)
      BY <1>5, <1>8
    <3>2. ~ Less(l, k)
      BY <1>4, <2>6, <2>8, <3>1
    <3>3. ~ Less(k, f)
      BY <1>3, <1>4, <2>8, <3>1
    <3> QED BY <2>7, <3>1, <3>2, <3>3
  <2>13. Cardinality({n \in answer : ~ Less(m, n)}) > before
    <3> DEFINE E == {n \in answer : ~ Less(m, n)}
    <3>1. IsFiniteSet(E) /\ P \in SUBSET E
      BY <2>10, <2>11, FS_Subset
    <3>2. Cardinality(P) <= Cardinality(E) /\ Cardinality(E) \in Nat
      BY <3>1, FS_Subset, FS_CardinalityType
    <3> HIDE DEF E
    <3>3. Cardinality(E) > before
      BY <1>2, <2>5, <3>2
    <3> QED BY <3>3 DEF E
  <2>14. Cardinality({n \in answer : ~ Less(n, m)}) > after
    <3> DEFINE E == {n \in answer : ~ Less(n, m)}
    <3>1. IsFiniteSet(E) /\ Q \in SUBSET E
      BY <2>10, <2>12, FS_Subset
    <3>2. Cardinality(Q) <= Cardinality(E) /\ Cardinality(E) \in Nat
      BY <3>1, FS_Subset, FS_CardinalityType
    <3> HIDE DEF E
    <3>3. Cardinality(E) > after
      BY <1>2, <2>6, <3>2
    <3> QED BY <3>3 DEF E
  <2>15. ASSUME NEW n \in around \ answer, NEW k \in answer
         PROVE  /\ ~(Second(k) < Second(n) /\ Second(n) < Second(m))
                /\ ~(Second(m) < Second(n) /\ Second(n) < Second(k))
    <3>1. n \in Messages /\ k \in Messages /\ ~ Less(k, f) /\ ~ Less(l, k) /\ (Less(n, f) \/ Less(l, n))
      BY <1>3, <2>7
    <3>2. ASSUME Second(k) < Second(n), Second(n) < Second(m) PROVE FALSE
      <4>1. Less(k, n) /\ Less(n, m)
        BY <1>3, <1>4, <3>1, <3>2
      <4> QED BY <1>3, <1>4, <2>8, <3>1, <4>1
    <3>3. ASSUME Second(m) < Second(n), Second(n) < Second(k) PROVE FALSE
      <4>1. Less(m, n) /\ Less(n, k)
        BY <1>3, <1>4, <3>1, <3>3
      <4> QED BY <1>3, <1>4, <2>8, <3>1, <4>1
    <3> QED BY <3>2, <3>3
  <2> QED BY <2>9, <2>13, <2>14, <2>15
<1>12. \/ /\ m \in answer
          /\ Cardinality({n \in answer : ~ Less(m, n)}) > before
          /\ Cardinality({n \in answer : ~ Less(n, m)}) > after
          /\ \A n \in around \ answer, k \in answer :
               /\ ~(Second(k) < Second(n) /\ Second(n) < Second(m))
               /\ ~(Second(m) < Second(n) /\ Second(n) < Second(k))
       \/ /\ answer = {}
          /\ \/ Cardinality({n \in around : Second(n) < Second(m)}) < before
             \/ Cardinality({n \in around : Second(n) > Second(m)}) < after
  BY <1>2, <1>6, <1>9, <1>10, <1>11
<1> QED BY <1>12, Zenon DEF answer, around, Less

-----------------------------------------------------------------------------
(* Steps in any order *)

StepsFrom(f, start, step, T) ==
  IF T = {} THEN {start} ELSE UNION {UNION {step[<<x, m>>] : x \in f[T \ {m}]} : m \in T}

UpTo(S, n) == {T \in SUBSET S : Cardinality(T) =< n}

\* f gives the outcomes for every subset of S with at most n members.
Outcomes(f, S, start, step, n) == f = [T \in UpTo(S, n) |-> StepsFrom(f, start, step, T)]

\* What comes of the small subsets defines what comes of the next larger ones.
LEMMA OutcomesExist ==
  ASSUME NEW S, IsFiniteSet(S), NEW start, NEW step, NEW n \in Nat
  PROVE  \E f : Outcomes(f, S, start, step, n)
<1> DEFINE Missing == {k \in Nat : ~ \E f : Outcomes(f, S, start, step, k)}
<1>0. ASSUME NEW T \in SUBSET S
      PROVE  Cardinality(T) \in Nat /\ (Cardinality(T) = 0 <=> T = {})
             /\ \A m \in T : Cardinality(T \ {m}) = Cardinality(T) - 1
  BY FS_Subset, FS_CardinalityType, FS_EmptySet, FS_RemoveElement
<1>1. ASSUME NEW k \in Missing, \A l \in Missing : k =< l PROVE FALSE
  <2>1. k \in Nat /\ ~ \E f : Outcomes(f, S, start, step, k)
    OBVIOUS
  <2>2. CASE k = 0
    <3> DEFINE g == [T \in UpTo(S, 0) |-> {start}]
    <3>1. ASSUME NEW T \in UpTo(S, 0) PROVE StepsFrom(g, start, step, T) = {start}
      <4>1. T = {}
        BY <1>0 DEF UpTo
      <4> QED BY <4>1 DEF StepsFrom
    <3>2. Outcomes(g, S, start, step, 0)
      <4> HIDE DEF g
      <4>1. g = [T \in UpTo(S, 0) |-> {start}]
        BY DEF g
      <4>2. g = [T \in UpTo(S, 0) |-> StepsFrom(g, start, step, T)]
        BY <3>1, <4>1
      <4> QED BY <4>2 DEF Outcomes
    <3> QED BY <2>1, <2>2, <3>2
  <2>3. CASE k # 0
    <3>1. k - 1 \in Nat /\ ~ (k =< k - 1) /\ \A c \in Nat : c - 1 =< k - 1 <=> c =< k
      BY <2>1, <2>3
    <3>2. PICK f : Outcomes(f, S, start, step, k - 1)
      BY <1>1, <3>1
    <3> DEFINE g == [T \in UpTo(S, k) |-> StepsFrom(f, start, step, T)]
    <3> HIDE DEF g
    <3>3. ASSUME NEW T \in UpTo(S, k - 1) PROVE g[T] = f[T]
      <4>1. T \in UpTo(S, k)
        BY <1>0, <2>1, <3>1 DEF UpTo
      <4>2. f[T] = StepsFrom(f, start, step, T)
        BY <3>2, Zenon DEF Outcomes
      <4>3. g[T] = StepsFrom(f, start, step, T)
        BY <4>1, Zenon DEF g
      <4> QED BY <4>2, <4>3
    <3>4. ASSUME NEW T \in UpTo(S, k) PROVE StepsFrom(f, start, step, T) = StepsFrom(g, start, step, T)
      <4>1. \A m \in T : T \ {m} \in UpTo(S, k - 1)
        BY <1>0, <3>1 DEF UpTo
      <4>2. \A m \in T : f[T \ {m}] = g[T \ {m}]
        BY <3>3, <4>1
      <4>3. {UNION {step[<<x, m>>] : x \in f[T \ {m}]} : m \in T} = {UNION {step[<<x, m>>] : x \in g[T \ {m}]} : m \in T}
        BY <4>2
      <4> QED BY <4>3 DEF StepsFrom
    <3>5. g = [T \in UpTo(S, k) |-> StepsFrom(g, start, step, T)]
      BY <3>4 DEF g
    <3>6. Outcomes(g, S, start, step, k)
      BY <3>5 DEF Outcomes
    <3> QED BY <2>1, <3>6
  <2> QED BY <2>2, <2>3
<1>2. Missing = {}
  BY <1>1, LeastExists
<1> QED BY <1>2

AllOutcomes(f, S, start, step) == f = [T \in SUBSET S |-> StepsFrom(f, start, step, T)]

\* The recursion of InAnyOrder has a solution, and it is one.
LEMMA InAnyOrderIs ==
  ASSUME NEW S, IsFiniteSet(S), NEW start, NEW step
  PROVE  \E f : AllOutcomes(f, S, start, step) /\ InAnyOrder(S, start, step) = f[S]
<1>1. PICK f : f = [T \in SUBSET S |-> StepsFrom(f, start, step, T)]
  <2>1. Cardinality(S) \in Nat
    BY FS_CardinalityType
  <2>2. PICK f : Outcomes(f, S, start, step, Cardinality(S))
    BY <2>1, OutcomesExist
  <2>3. UpTo(S, Cardinality(S)) = SUBSET S
    BY FS_Subset DEF UpTo
  <2> QED BY <2>2, <2>3 DEF Outcomes
<1> DEFINE g == CHOOSE g : g = [T \in SUBSET S |-> StepsFrom(g, start, step, T)]
<1>2. g = [T \in SUBSET S |-> StepsFrom(g, start, step, T)]
  BY <1>1
<1>3. InAnyOrder(S, start, step) = g[S]
  BY DEF InAnyOrder, StepsFrom
<1>4. AllOutcomes(g, S, start, step)
  BY <1>2 DEF AllOutcomes
<1> HIDE DEF g
<1> QED BY <1>3, <1>4

\* What holds of the start, and of each step if it holds of what came before,
\* holds of what comes out.
LEMMA InAnyOrderKeeps ==
  ASSUME NEW S, IsFiniteSet(S), NEW start, NEW step, NEW Good, <<{}, start>> \in Good,
         \A T \in SUBSET S : \A m \in T : \A x : <<T \ {m}, x>> \in Good
            => \A y \in step[<<x, m>>] : <<T, y>> \in Good
  PROVE  \A x \in InAnyOrder(S, start, step) : <<S, x>> \in Good
<1>1. PICK f : AllOutcomes(f, S, start, step) /\ InAnyOrder(S, start, step) = f[S]
  BY InAnyOrderIs
<1> DEFINE Bad == {k \in Nat : \E T \in SUBSET S : Cardinality(T) = k /\ \E x \in f[T] : <<T, x>> \notin Good}
<1>0. ASSUME NEW T \in SUBSET S
      PROVE  Cardinality(T) \in Nat /\ \A m \in T : Cardinality(T \ {m}) = Cardinality(T) - 1
  BY FS_Subset, FS_CardinalityType, FS_RemoveElement
<1>2. ASSUME NEW k \in Bad, \A l \in Bad : k =< l PROVE FALSE
  <2>1. PICK T \in SUBSET S : Cardinality(T) = k /\ \E x \in f[T] : <<T, x>> \notin Good
    OBVIOUS
  <2>2. PICK y \in f[T] : <<T, y>> \notin Good
    BY <2>1
  <2>3. f[T] = StepsFrom(f, start, step, T)
    BY <1>1, Zenon DEF AllOutcomes
  <2>4. T # {}
    <3>1. T = {} => y = start
      BY <2>2, <2>3 DEF StepsFrom
    <3> QED BY <2>2, <3>1
  <2>5. PICK m \in T : y \in UNION {step[<<x, m>>] : x \in f[T \ {m}]}
    <3> DEFINE made(m) == UNION {step[<<x, m>>] : x \in f[T \ {m}]}
    <3>1. f[T] = UNION {made(m) : m \in T}
      BY <2>3, <2>4, Zenon DEF StepsFrom
    <3>2. y \in f[T]
      BY <2>2
    <3> HIDE DEF made
    <3>3. \E m \in T : y \in made(m)
      BY <3>1, <3>2
    <3> QED BY <3>3 DEF made
  <2>6. PICK x \in f[T \ {m}] : y \in step[<<x, m>>]
    BY <2>5
  <2>7. T \ {m} \in SUBSET S /\ Cardinality(T \ {m}) = k - 1 /\ k - 1 \in Nat /\ ~ (k =< k - 1)
    <3>1. T \ {m} \in SUBSET S
      OBVIOUS
    <3>2. Cardinality(T \ {m}) \in Nat /\ Cardinality(T \ {m}) = Cardinality(T) - 1 /\ Cardinality(T) \in Nat
      BY <1>0, <3>1
    <3>3. Cardinality(T) = k
      BY <2>1
    <3> QED BY <3>1, <3>2, <3>3
  <2>8. k - 1 \notin Bad
    BY <1>2, <2>7
  <2>9. <<T \ {m}, x>> \in Good
    BY <2>6, <2>7, <2>8
  <2> QED BY <2>2, <2>6, <2>9
<1>3. Bad = {}
  BY <1>2, LeastExists
<1>4. Cardinality(S) \in Nat
  BY FS_CardinalityType
<1> QED BY <1>1, <1>3, <1>4

-----------------------------------------------------------------------------
(* Rankings *)

\* What the heap has kept of those it was given: as many as it may, and none
\* worse than one that it has not.
Kept(k, score) ==
  {p \in (SUBSET DOMAIN score) \X (SUBSET DOMAIN score) :
     /\ p[2] \subseteq p[1] /\ Cardinality(p[2]) <= k
     /\ p[2] = p[1] \/ Cardinality(p[2]) = k
     /\ \A m \in p[2], n \in p[1] \ p[2] : score[m] >= score[n]}

\* The heap stays right with one push: it gives up a worst one for a better one.
LEMMA PushKeeps ==
  ASSUME NEW S, IsFiniteSet(S), NEW score \in [S -> Nat], NEW k \in Nat \ {0},
         NEW T \in SUBSET S, NEW m \in T, NEW kept, <<T \ {m}, kept>> \in Kept(k, score),
         NEW new \in Push(kept, m, k, score)
  PROVE  <<T, new>> \in Kept(k, score)
<1>1. DOMAIN score = S /\ \A n \in S : score[n] \in Nat
  OBVIOUS
<1>2. /\ kept \in SUBSET S /\ kept \subseteq T \ {m} /\ Cardinality(kept) <= k
      /\ kept = T \ {m} \/ Cardinality(kept) = k
      /\ \A a \in kept, b \in (T \ {m}) \ kept : score[a] >= score[b]
  BY <1>1 DEF Kept
<1>3. IsFiniteSet(kept) /\ Cardinality(kept) \in Nat /\ m \notin kept
  BY <1>2, FS_Subset, FS_CardinalityType
<1>4. CASE Cardinality(kept) < k
  <2>1. new = kept \cup {m} /\ kept = T \ {m}
    BY <1>2, <1>3, <1>4 DEF Push
  <2>2. new = T
    BY <2>1
  <2>3. Cardinality(new) = Cardinality(kept) + 1
    BY <1>3, <2>1, FS_AddElement
  <2>4. Cardinality(new) <= k
    BY <1>3, <1>4, <2>3
  <2> QED BY <1>1, <2>2, <2>4 DEF Kept
<1>5. CASE ~ (Cardinality(kept) < k)
  <2>1. Cardinality(kept) = k
    BY <1>2, <1>3, <1>5
  <2>2. new \in {IF score[m] > score[r] THEN (kept \ {r}) \cup {m} ELSE kept : r \in Root(kept, score)}
    BY <1>5 DEF Push
  <2>3. PICK r \in Root(kept, score) : new = IF score[m] > score[r] THEN (kept \ {r}) \cup {m} ELSE kept
    BY <2>2
  <2>4. r \in kept /\ r \in S /\ m \in S /\ \A n \in kept : score[r] <= score[n]
    BY <1>2 DEF Root
  <2>5. \A b \in (T \ {m}) \ kept : b \in S /\ score[r] >= score[b]
    BY <1>2, <2>4
  <2>6. CASE score[m] > score[r]
    <3>1. new = (kept \ {r}) \cup {m}
      BY <2>3, <2>6
    <3>2. IsFiniteSet(kept \ {r}) /\ Cardinality(kept \ {r}) = k - 1
      BY <1>3, <2>1, <2>4, FS_RemoveElement
    <3>3. m \notin kept \ {r}
      BY <1>3
    <3>4. Cardinality(new) = (k - 1) + 1
      BY <3>1, <3>2, <3>3, FS_AddElement
    <3>5. Cardinality(new) = k
      BY <3>4
    <3>6. new \in SUBSET T /\ new \in SUBSET S
      BY <1>2, <3>1
    <3>7. ASSUME NEW a \in new, NEW b \in T \ new PROVE score[a] >= score[b]
      <4>1. b \in S /\ score[r] >= score[b]
        BY <1>1, <2>4, <2>5, <3>1
      <4>2. a \in S /\ score[a] >= score[r]
        BY <1>1, <1>2, <2>4, <2>6, <3>1
      <4>3. score[a] \in Nat /\ score[b] \in Nat /\ score[r] \in Nat
        BY <1>1, <2>4, <4>1, <4>2
      <4> QED BY <4>1, <4>2, <4>3
    <3> QED BY <1>1, <3>5, <3>6, <3>7 DEF Kept
  <2>7. CASE ~ (score[m] > score[r])
    <3>1. new = kept
      BY <2>3, <2>7
    <3>2. ASSUME NEW a \in new, NEW b \in T \ new PROVE score[a] >= score[b]
      <4>1. b \in S /\ score[r] >= score[b]
        BY <1>1, <2>4, <2>5, <2>7, <3>1
      <4>2. a \in S /\ score[a] >= score[r]
        BY <1>2, <2>4, <3>1
      <4>3. score[a] \in Nat /\ score[b] \in Nat /\ score[r] \in Nat
        BY <1>1, <2>4, <4>1, <4>2
      <4> QED BY <4>1, <4>2, <4>3
    <3>3. new \in SUBSET T /\ new \in SUBSET S /\ Cardinality(new) = k
      BY <1>2, <2>1, <3>1
    <3> QED BY <1>1, <3>2, <3>3 DEF Kept
  <2> QED BY <2>6, <2>7
<1> QED BY <1>4, <1>5

\* A list of the k best, the best one first.
Best(s, S, k, score) ==
  /\ s \in Seq(S) /\ Len(s) \in Nat /\ DOMAIN s = 1..Len(s)
  /\ \A i, j \in 1..Len(s) : s[i] = s[j] => i = j
  /\ Range(s) \subseteq S /\ Cardinality(Range(s)) = Len(s) /\ Len(s) <= k
  /\ Range(s) = S \/ Len(s) = k
  /\ \A i, j \in 1..Len(s) : i < j => score[s[i]] >= score[s[j]]
  /\ \A m \in Range(s), n \in S \ Range(s) : score[m] >= score[n]

\* What never rises from one place to the next is in order throughout.
LEMMA StepsDown ==
  ASSUME NEW n \in Nat, NEW v \in [1..n -> Nat], \A i \in 2..n : v[i - 1] >= v[i]
  PROVE  \A i, j \in 1..n : i < j => v[i] >= v[j]
<1> SUFFICES ASSUME NEW i \in 1..n PROVE \A j \in 1..n : i < j => v[i] >= v[j]
  OBVIOUS
<1> DEFINE Bad == {j \in Nat : j \in 1..n /\ i < j /\ ~ (v[i] >= v[j])}
<1>1. ASSUME NEW j \in Bad, \A l \in Bad : j =< l PROVE FALSE
  <2>1. j \in 2..n /\ j - 1 \in 1..n /\ ~ (j =< j - 1) /\ i <= j - 1 /\ j \in 1..n
    OBVIOUS
  <2>2. v[j - 1] >= v[j] /\ v[j - 1] \in Nat /\ v[j] \in Nat /\ v[i] \in Nat
    BY <2>1
  <2>3. ~ (v[i] >= v[j - 1])
    BY <2>2
  <2>4. i < j - 1
    <3>1. i # j - 1
      BY <2>2, <2>3
    <3> QED BY <2>1, <3>1
  <2>5. j - 1 \in Bad
    BY <2>1, <2>3, <2>4
  <2> QED BY <1>1, <2>1, <2>5
<1>2. Bad = {}
  BY <1>1, LeastExists
<1>3. \A j \in 1..n : j \in Nat
  OBVIOUS
<1> QED BY <1>2, <1>3

\* What the heap gives, popped and turned, is a list of the k best.
LEMMA TopKBest ==
  ASSUME NEW S, IsFiniteSet(S), NEW score \in [S -> Nat], NEW k \in Nat \ {0}, NEW s \in TopK(k, score)
  PROVE  Best(s, S, k, score)
<1> DEFINE pushed == [p \in (SUBSET S) \X S |-> Push(p[1], p[2], k, score)]
           Ranked(t) == \A i \in 2..Len(t) : score[t[i - 1]] >= score[t[i]]
<1>1. DOMAIN score = S /\ \A n \in S : score[n] \in Nat
  OBVIOUS
<1>2. TopK(k, score) = UNION {{t \in SetToSeqs(kept) : Ranked(t)} : kept \in InAnyOrder(S, {}, pushed)}
  BY <1>1, Zenon DEF TopK
<1>3. PICK kept \in InAnyOrder(S, {}, pushed) : s \in SetToSeqs(kept) /\ Ranked(s)
  <2> DEFINE seqs(kept) == {t \in SetToSeqs(kept) : Ranked(t)}
  <2>1. s \in UNION {seqs(kept) : kept \in InAnyOrder(S, {}, pushed)}
    BY <1>2
  <2> HIDE DEF seqs
  <2>2. \E kept \in InAnyOrder(S, {}, pushed) : s \in seqs(kept)
    BY <2>1
  <2> QED BY <2>2 DEF seqs
<1>4. <<S, kept>> \in Kept(k, score)
  <2>1. <<{}, {}>> \in Kept(k, score)
    <3>1. Cardinality({}) = 0
      BY FS_EmptySet
    <3>2. Cardinality({}) <= k
      BY <3>1
    <3> QED BY <3>2 DEF Kept
  <2>2. ASSUME NEW T \in SUBSET S, NEW m \in T, NEW x, <<T \ {m}, x>> \in Kept(k, score), NEW y \in pushed[<<x, m>>]
        PROVE  <<T, y>> \in Kept(k, score)
    <3>1. x \in SUBSET S /\ m \in S
      BY <1>1, <2>2 DEF Kept
    <3>2. pushed[<<x, m>>] = Push(x, m, k, score)
      BY <3>1
    <3> QED BY <2>2, <3>2, PushKeeps
  <2> HIDE DEF pushed
  <2> QED BY <1>3, <2>1, <2>2, InAnyOrderKeeps
<1>5. /\ kept \in SUBSET S /\ Cardinality(kept) <= k /\ (kept = S \/ Cardinality(kept) = k)
      /\ \A m \in kept, n \in S \ kept : score[m] >= score[n]
  BY <1>1, <1>4 DEF Kept
<1>6. IsFiniteSet(kept) /\ Cardinality(kept) \in Nat
  BY <1>5, FS_Subset, FS_CardinalityType
<1> DEFINE N == Cardinality(kept)
<1>7. s \in [1..N -> kept] /\ \A i, j \in 1..N : s[i] = s[j] => i = j
  BY <1>3, Zenon DEF SetToSeqs
<1>8. Ranked(s)
  BY <1>3
<1> HIDE DEF Ranked, N, pushed
<1>9. s \in Seq(kept) /\ Len(s) = N /\ s \in Seq(S) /\ DOMAIN s = 1..N
  BY <1>5, <1>6, <1>7 DEF N
<1>10. /\ Range(s) \subseteq kept /\ IsFiniteSet(Range(s)) /\ Cardinality(Range(s)) = N
  <2>1. \A i, j \in 1..Len(s) : s[i] = s[j] => i = j
    BY <1>7, <1>9
  <2> QED BY <1>9, <2>1, SeqMembers, RangeCount
<1>11. Range(s) = kept
  <2>1. Cardinality(Range(s)) = Cardinality(kept)
    BY <1>10 DEF N
  <2> QED BY <1>6, <1>10, <2>1, FS_Subset
<1>12. \A i, j \in 1..N : i < j => score[s[i]] >= score[s[j]]
  <2> DEFINE v == [i \in 1..N |-> score[s[i]]]
  <2>1. v \in [1..N -> Nat]
    BY <1>1, <1>5, <1>7
  <2>2. ASSUME NEW i \in 2..N PROVE v[i - 1] >= v[i]
    <3>1. i - 1 \in 1..N /\ i \in 1..N
      BY <1>6 DEF N
    <3>2. score[s[i - 1]] >= score[s[i]]
      BY <1>8, <1>9 DEF Ranked
    <3> QED BY <3>1, <3>2
  <2>3. \A i \in 1..N : v[i] = score[s[i]]
    OBVIOUS
  <2> HIDE DEF v
  <2>4. \A i, j \in 1..N : i < j => v[i] >= v[j]
    BY <1>6, <2>1, <2>2, StepsDown DEF N
  <2> QED BY <2>3, <2>4
<1> QED BY <1>5, <1>6, <1>7, <1>9, <1>10, <1>11, <1>12 DEF Best, N

\* Similarity is a number of contents, the same from both sides.
LEMMA SimilarityIs ==
  ASSUME NEW c \in Contents, NEW d \in Contents
  PROVE  Similarity(c, d) \in Nat /\ Similarity(c, d) = Similarity(d, c)
<1>1. Direction(c) \in 0..2 /\ Direction(d) \in 0..2
  BY DEF Contents, Direction
<1> DEFINE a == Direction(c) - Direction(d)
           b == Direction(d) - Direction(c)
<1>2. a \in -2..2 /\ b \in -2..2
  BY <1>1
<1>3. Similarity(c, d) = 2 - Max({a, b}) /\ Similarity(d, c) = 2 - Max({b, a})
  BY DEF Similarity
<1> HIDE DEF a, b
<1>4. {a, b} = {b, a}
  OBVIOUS
<1>5. a \in Int /\ b \in Int
  BY <1>2
<1>6. Max({a, b}) = IF a <= b THEN b ELSE a
  BY <1>5, MaxOfTwo
<1> DEFINE top == Max({a, b})
<1>7. top \in Int /\ top <= 2
  BY <1>2, <1>6
<1>8. Similarity(c, d) = 2 - top /\ Similarity(d, c) = 2 - top
  BY <1>3, <1>4
<1> HIDE DEF top
<1> QED BY <1>7, <1>8

RowsTypeOK ==
  /\ row \in [Messages -> Contents \cup {"none"}]
  /\ vec \in [Messages -> Contents \cup {"none"}]

\* A row and a vector are of some content, or are not there.
LEMMA RowsTyped ==
  ASSUME QueryBounds
  PROVE  RowsSpec => []RowsTypeOK
<1>1. RowsInit => RowsTypeOK
  BY DEF RowsInit, RowsTypeOK
<1>2. RowsTypeOK /\ [RowsNext]_rowVars => RowsTypeOK'
  <2> SUFFICES ASSUME RowsTypeOK, [RowsNext]_rowVars PROVE RowsTypeOK'
    OBVIOUS
  <2>1. ASSUME NEW m \in Messages, Upsert(m) PROVE RowsTypeOK'
    BY <2>1 DEF Upsert, RowsTypeOK
  <2>2. ASSUME NEW m \in Messages, Embed(m) PROVE RowsTypeOK'
    BY <2>2 DEF Embed, RowsTypeOK
  <2>3. CASE UNCHANGED rowVars
    BY <2>3 DEF rowVars, RowsTypeOK
  <2> QED BY <2>1, <2>2, <2>3 DEF RowsNext
<1> QED BY <1>1, <1>2, PTL DEF RowsSpec

LEMMA EmbeddedTyped ==
  ASSUME QueryBounds, RowsTypeOK, NEW c
  PROVE  /\ Embedded(c) \in SUBSET Messages /\ IsFiniteSet(Embedded(c))
         /\ \A m \in Embedded(c) : vec[m] \in Contents
<1>1. Embedded(c) \in SUBSET Messages
  BY DEF Embedded, Have
<1>2. IsFiniteSet(Embedded(c))
  BY <1>1, FS_Subset DEF QueryBounds
<1>3. \A m \in Embedded(c) : vec[m] \in Contents
  BY <1>1 DEF Embedded, RowsTypeOK
<1> QED BY <1>1, <1>2, <1>3

\* The k best are k, or all.
LEMMA BestLength ==
  ASSUME NEW S, IsFiniteSet(S), NEW score, NEW k \in Nat, NEW s, Best(s, S, k, score)
  PROVE  Len(s) = Min({k, Cardinality(S)})
<1>1. Cardinality(S) \in Nat
  BY FS_CardinalityType
<1>2. /\ Range(s) \subseteq S /\ Cardinality(Range(s)) = Len(s) /\ Len(s) <= k /\ Len(s) \in Nat
      /\ Range(s) = S \/ Len(s) = k
  BY DEF Best
<1>3. Len(s) <= Cardinality(S)
  BY <1>2, FS_Subset
<1>4. Min({k, Cardinality(S)}) = IF k <= Cardinality(S) THEN k ELSE Cardinality(S)
  BY <1>1, MinOfTwo
<1> QED BY <1>1, <1>2, <1>3, <1>4

\* VectorSearch gives the k most similar.
LEMMA VectorsRight ==
  ASSUME QueryBounds, RowsTypeOK, NEW k \in Limits, NEW c, NEW answer \in VectorSearch(k, c)
  PROVE  LET Score(m) == Similarity(vec[m], "hit") IN Nearest(answer, Embedded(c), k, Score)
<1> DEFINE S == Embedded(c)
           score == [m \in S |-> Similarity(vec[m], "hit")]
<1>1. S \in SUBSET Messages /\ IsFiniteSet(S) /\ \A m \in S : vec[m] \in Contents
  BY EmbeddedTyped
<1>2. k \in Nat \ {0}
  BY DEF QueryBounds
<1>3. "hit" \in Contents
  BY DEF Contents
<1>4. answer \in TopK(k, score)
  BY DEF VectorSearch
<1> HIDE DEF S
<1>5. \A m \in S : Similarity(vec[m], "hit") \in Nat
  BY <1>1, <1>3, SimilarityIs
<1>6. score \in [S -> Nat] /\ \A m \in S : score[m] = Similarity(vec[m], "hit")
  BY <1>5
<1> HIDE DEF score
<1>7. Best(answer, S, k, score)
  BY <1>1, <1>2, <1>4, <1>6, TopKBest
<1>8. Len(answer) = Min({k, Cardinality(S)})
  BY <1>1, <1>2, <1>7, BestLength
<1>9. /\ DOMAIN answer = 1..Len(answer) /\ Range(answer) \subseteq S
      /\ \A i, j \in 1..Len(answer) : answer[i] = answer[j] => i = j
      /\ \A i, j \in 1..Len(answer) : i < j => score[answer[i]] >= score[answer[j]]
      /\ \A m \in Range(answer), n \in S \ Range(answer) : score[m] >= score[n]
      /\ answer \in Seq(S)
  BY <1>7 DEF Best
<1>10. IsInjective(answer)
  BY <1>9 DEF IsInjective
<1>11. \A i \in 1..Len(answer) : answer[i] \in S
  BY <1>9
<1>12. \A i, j \in DOMAIN answer :
         i < j => Similarity(vec[answer[i]], "hit") >= Similarity(vec[answer[j]], "hit")
  BY <1>6, <1>9, <1>11
<1>13. \A m \in Range(answer), n \in S \ Range(answer) : Similarity(vec[m], "hit") >= Similarity(vec[n], "hit")
  BY <1>6, <1>9
<1>14. Range(answer) \subseteq S
  BY <1>9
<1> QED BY <1>8, <1>10, <1>12, <1>13, <1>14 DEF Nearest, S

\* Without the message itself, of one more, as many are left as were asked for.
LEMMA DropOne ==
  ASSUME NEW S, IsFiniteSet(S), NEW m \in S, NEW k \in Nat, NEW R,
         R \subseteq S, Cardinality(R) <= k + 1, R = S \/ Cardinality(R) = k + 1
  PROVE  Min({k, Cardinality(R \ {m})}) = Min({k, Cardinality(S \ {m})}) /\ IsFiniteSet(R \ {m})
<1>1. IsFiniteSet(R) /\ Cardinality(R) <= Cardinality(S)
  BY FS_Subset
<1>2. Cardinality(S \ {m}) = Cardinality(S) - 1 /\ IsFiniteSet(S \ {m}) /\ IsFiniteSet(R \ {m})
  BY <1>1, FS_RemoveElement, FS_Subset
<1>3. m \in R => Cardinality(R \ {m}) = Cardinality(R) - 1
  BY <1>1, FS_RemoveElement
<1>4. m \notin R => R \ {m} = R /\ Cardinality(R) < Cardinality(S)
  <2>1. ASSUME m \notin R PROVE R \ {m} = R /\ R # S
    BY <2>1
  <2>2. Cardinality(R) = Cardinality(S) => R = S
    BY FS_Subset
  <2>3. Cardinality(R) \in Nat /\ Cardinality(S) \in Nat
    BY <1>1, FS_CardinalityType
  <2> QED BY <1>1, <2>1, <2>2, <2>3
<1> DEFINE r == Cardinality(R)  n == Cardinality(S)  p == Cardinality(R \ {m})  q == Cardinality(S \ {m})
<1>5. r \in Nat /\ n \in Nat /\ p \in Nat /\ q \in Nat
  BY <1>1, <1>2, FS_CardinalityType
<1>6. /\ q = n - 1 /\ r <= n /\ r <= k + 1 /\ (r = n \/ r = k + 1)
      /\ p = r - 1 \/ (p = r /\ r < n)
  BY <1>1, <1>2, <1>3, <1>4
<1> HIDE DEF r, n, p, q
<1>7. Min({k, p}) = IF k <= p THEN k ELSE p
  BY <1>5, MinOfTwo
<1>8. Min({k, q}) = IF k <= q THEN k ELSE q
  BY <1>5, MinOfTwo
<1>9. Min({k, p}) = Min({k, q})
  BY <1>5, <1>6, <1>7, <1>8
<1> QED BY <1>2, <1>9 DEF p, q

\* FindSimilar gives the k most similar of the others.
LEMMA SimilarRight ==
  ASSUME QueryBounds, RowsTypeOK, NEW m \in Embedded(Every), NEW k \in Limits, NEW answer \in FindSimilar(m, k)
  PROVE  LET Score(n) == Similarity(vec[m], vec[n]) IN Nearest(answer, Embedded(Every) \ {m}, k, Score)
<1> DEFINE S == Embedded(Every)
           score == [n \in S |-> Similarity(vec[n], vec[m])]
<1>1. S \in SUBSET Messages /\ IsFiniteSet(S) /\ (\A n \in S : vec[n] \in Contents) /\ m \in S
  BY EmbeddedTyped
<1>2. k \in Nat \ {0} /\ k + 1 \in Nat \ {0}
  BY DEF QueryBounds
<1>3. PICK s \in TopK(k + 1, score) : answer = Take(Among(s, Messages \ {m}), k)
  BY DEF FindSimilar
<1> HIDE DEF S
<1>4. \A n \in S : Similarity(vec[n], vec[m]) \in Nat /\ Similarity(vec[n], vec[m]) = Similarity(vec[m], vec[n])
  BY <1>1, SimilarityIs
<1>5. score \in [S -> Nat] /\ \A n \in S : score[n] = Similarity(vec[m], vec[n])
  BY <1>4
<1> HIDE DEF score
<1>6. Best(s, S, k + 1, score)
  BY <1>1, <1>2, <1>3, <1>5, TopKBest
<1>7. /\ s \in Seq(S) /\ DOMAIN s = 1..Len(s) /\ Len(s) \in Nat
      /\ \A i, j \in 1..Len(s) : s[i] = s[j] => i = j
      /\ Range(s) \subseteq S /\ Cardinality(Range(s)) <= k + 1
      /\ Range(s) = S \/ Cardinality(Range(s)) = k + 1
      /\ \A i, j \in 1..Len(s) : i < j => score[s[i]] >= score[s[j]]
      /\ \A a \in Range(s), b \in S \ Range(s) : score[a] >= score[b]
  BY <1>6 DEF Best
<1> DEFINE R == Range(s) \cap (Messages \ {m})
           O == OrderOf(s)
<1>8. R = Range(s) \ {m}
  BY <1>1, <1>7
<1>9. Min({k, Cardinality(R)}) = Min({k, Cardinality(S \ {m})}) /\ IsFiniteSet(R)
  <2> DEFINE Q == Range(s)
  <2>1. Q \subseteq S /\ Cardinality(Q) <= k + 1 /\ (Q = S \/ Cardinality(Q) = k + 1)
    BY <1>7
  <2>2. k \in Nat /\ IsFiniteSet(S) /\ m \in S
    BY <1>1, <1>2
  <2>3. R = Q \ {m}
    BY <1>8
  <2> HIDE DEF Q, R
  <2>4. Min({k, Cardinality(Q \ {m})}) = Min({k, Cardinality(S \ {m})}) /\ IsFiniteSet(Q \ {m})
    BY <2>1, <2>2, DropOne
  <2> QED BY <2>3, <2>4
<1>10. \A a, b : <<a, b>> \in O <=> \E i, j \in 1..Len(s) : i < j /\ a = s[i] /\ b = s[j]
  BY <1>7, SeqMembers DEF OrderOf
<1>11. \A a \in Range(s) : \E i \in 1..Len(s) : s[i] = a
  BY <1>7, SeqMembers
<1> HIDE DEF O
<1>12. StrictOrder(R, O)
  <2>1. ASSUME NEW a \in R PROVE <<a, a>> \notin O
    BY <1>7, <1>10
  <2>2. ASSUME NEW a \in R, NEW b \in R, a # b PROVE <<a, b>> \in O \/ <<b, a>> \in O
    <3>1. PICK i \in 1..Len(s) : s[i] = a
      BY <1>8, <1>11
    <3>2. PICK j \in 1..Len(s) : s[j] = b
      BY <1>8, <1>11
    <3>3. i < j \/ j < i
      BY <1>7, <2>2, <3>1, <3>2
    <3> QED BY <1>10, <3>1, <3>2, <3>3
  <2>3. ASSUME NEW a \in R, NEW b \in R, NEW c \in R, <<a, b>> \in O, <<b, c>> \in O PROVE <<a, c>> \in O
    <3>1. PICK i \in 1..Len(s), j \in 1..Len(s) : i < j /\ a = s[i] /\ b = s[j]
      BY <1>10, <2>3
    <3>2. PICK l \in 1..Len(s), n \in 1..Len(s) : l < n /\ b = s[l] /\ c = s[n]
      BY <1>10, <2>3
    <3>3. j = l
      BY <1>7, <3>1, <3>2
    <3>4. i < n
      BY <3>1, <3>2, <3>3
    <3> QED BY <1>10, <3>1, <3>2, <3>4
  <2> QED BY <2>1, <2>2, <2>3 DEF StrictOrder
<1>13. answer = Take(Sorted(R, O), k)
  BY <1>3 DEF Among, O
<1>14. \A a, b : <<a, b>> \in O => a \in S /\ b \in S /\ score[a] >= score[b]
  BY <1>7, <1>10
<1> HIDE DEF R
<1>15. First(answer, R, O, k)
  BY <1>2, <1>9, <1>12, <1>13, SortedLists, FirstOfList
<1>16. /\ DOMAIN answer = 1..Len(answer) /\ Range(answer) \subseteq R
       /\ Len(answer) = Min({k, Cardinality(R)})
       /\ \A i, j \in 1..Len(answer) : i < j <=> <<answer[i], answer[j]>> \in O
       /\ \A i, j \in 1..Len(answer) : answer[i] = answer[j] => i = j
       /\ \A a \in Range(answer), b \in R \ Range(answer) : <<a, b>> \in O
  BY <1>15 DEF First
<1>17. IsInjective(answer)
  BY <1>16 DEF IsInjective
<1>18. Range(answer) \subseteq S \ {m}
  BY <1>7, <1>8, <1>16
<1>19. ASSUME NEW a \in Range(answer), NEW b \in (S \ {m}) \ Range(answer)
       PROVE  Similarity(vec[m], vec[a]) >= Similarity(vec[m], vec[b])
  <2>1. score[a] >= score[b]
    <3>1. CASE b \in R
      BY <1>14, <1>16, <3>1
    <3>2. CASE b \notin R
      BY <1>7, <1>8, <1>16, <3>2
    <3> QED BY <3>1, <3>2
  <2> QED BY <1>5, <1>18, <2>1
<1>20. \A i, j \in DOMAIN answer :
         i < j => Similarity(vec[m], vec[answer[i]]) >= Similarity(vec[m], vec[answer[j]])
  <2>1. ASSUME NEW i \in DOMAIN answer, NEW j \in DOMAIN answer, i < j
        PROVE  Similarity(vec[m], vec[answer[i]]) >= Similarity(vec[m], vec[answer[j]])
    <3>1. <<answer[i], answer[j]>> \in O
      BY <1>16, <2>1
    <3>2. answer[i] \in S /\ answer[j] \in S /\ score[answer[i]] >= score[answer[j]]
      BY <1>14, <3>1
    <3> QED BY <1>5, <3>2
  <2> QED BY <2>1
<1>21. Len(answer) = Min({k, Cardinality(S \ {m})})
  BY <1>9, <1>16
<1> QED BY <1>17, <1>18, <1>19, <1>20, <1>21 DEF Nearest, S

LEMMA NearestAreFound ==
  ASSUME QueryBounds, RowsTypeOK
  PROVE  NearestFound
BY VectorsRight, SimilarRight, Zenon DEF NearestFound

\* Any two numbers that divide the same one: the smaller goes in more often.
LEMMA SmallerDivides ==
  ASSUME NEW u \in Nat \ {0}, NEW d \in Nat \ {0}, NEW e \in Nat \ {0}, d < e, u % d = 0, u % e = 0
  PROVE  u \div d \in Nat /\ u \div e \in Nat /\ u \div d > u \div e
<1> DEFINE p == u \div d  q == u \div e
<1>1. p \in Nat /\ u = d * p
  OBVIOUS
<1>2. q \in Nat /\ u = e * q
  OBVIOUS
<1> HIDE DEF p, q
<1>3. ASSUME p <= q PROVE FALSE
  <2>1. PICK x \in Nat \ {0} : e = d + x
    <3>1. e - d \in Nat \ {0} /\ e = d + (e - d)
      OBVIOUS
    <3> QED BY <3>1
  <2>2. PICK y \in Nat : q = p + y
    <3>1. q - p \in Nat /\ q = p + (q - p)
      BY <1>1, <1>2, <1>3
    <3> QED BY <3>1
  <2>3. e * q = d * q + x * q
    BY <1>2, <2>1
  <2>4. d * q = d * p + d * y
    BY <1>1, <2>2
  <2>5. d * y \in Nat /\ x * q \in Nat /\ d * p \in Nat /\ d * q \in Nat
    BY <1>1, <1>2
  <2>6. x * q = 0
    BY <1>1, <1>2, <2>3, <2>4, <2>5
  <2>7. q = 0
    BY <1>2, <2>6
  <2>8. e * q = 0
    BY <2>7
  <2> QED BY <1>2, <2>8
<1>4. p > q
  BY <1>1, <1>2, <1>3
<1> QED BY <1>1, <1>2, <1>4 DEF p, q

\* A list in which nothing is twice.
Distinct(s) == s \in Seq(Messages) /\ \A i, j \in 1..Len(s) : s[i] = s[j] => i = j

LEMMA RankIs ==
  ASSUME NEW X, NEW s \in Seq(X), \A i, j \in 1..Len(s) : s[i] = s[j] => i = j
  PROVE  /\ \A m \in Range(s) : Rank(s, m) \in 1..Len(s) /\ s[Rank(s, m)] = m
         /\ \A i \in 1..Len(s) : Rank(s, s[i]) = i
<1>1. DOMAIN s = 1..Len(s) /\ \A m \in Range(s) : \E i \in 1..Len(s) : s[i] = m
  BY SeqMembers
<1>2. ASSUME NEW m \in Range(s) PROVE Rank(s, m) \in 1..Len(s) /\ s[Rank(s, m)] = m
  <2>1. \E i \in DOMAIN s : s[i] = m
    BY <1>1
  <2>2. Rank(s, m) \in DOMAIN s /\ s[Rank(s, m)] = m
    BY <2>1 DEF Rank
  <2> QED BY <1>1, <2>2
<1>3. ASSUME NEW i \in 1..Len(s) PROVE Rank(s, s[i]) = i
  <2>1. s[i] \in Range(s)
    BY SeqMembers
  <2> QED BY <1>2, <2>1
<1> QED BY <1>2, <1>3

\* A term of the fused score falls with the rank, and is 0 without one.
LEMMA TermFalls ==
  ASSUME QueryBounds, NEW s, Distinct(s)
  PROVE  /\ \A m \in Messages : Term(s, m) \in Nat
         /\ \A m, n \in Messages :
              m # n /\ n \in Range(s) /\ m \in Range(s) /\ Rank(s, m) <= Rank(s, n) => Term(s, m) > Term(s, n)
         /\ \A m \in Messages : m \notin Range(s) => Term(s, m) = 0
<1>1. s \in Seq(Messages) /\ \A i, j \in 1..Len(s) : s[i] = s[j] => i = j
  BY DEF Distinct
<1>2. \A m \in Range(s) : Rank(s, m) \in 1..Len(s) /\ s[Rank(s, m)] = m
  BY <1>1, RankIs
<1>3. Len(s) \in Nat /\ Len(s) <= Cardinality(Messages) /\ Cardinality(Messages) \in Nat
  <2>1. IsFiniteSet(Messages)
    BY DEF QueryBounds
  <2>2. Cardinality(Range(s)) = Len(s) /\ Range(s) \subseteq Messages
    BY <1>1, RangeCount, SeqMembers
  <2>3. Cardinality(Range(s)) <= Cardinality(Messages)
    BY <2>1, <2>2, FS_Subset
  <2> QED BY <1>1, <2>1, <2>2, <2>3, FS_CardinalityType, LenProperties
<1>4. Unit \in Nat \ {0} /\ \A r \in 1..Cardinality(Messages) : Unit % (60 + r) = 0
  BY DEF QueryBounds
<1>5. ASSUME NEW a \in 1..Len(s) PROVE 60 + a \in Nat \ {0} /\ Unit % (60 + a) = 0
  <2>1. a \in 1..Cardinality(Messages)
    BY <1>3
  <2> QED BY <1>4, <2>1
<1>6. ASSUME NEW a \in 1..Len(s), NEW b \in 1..Len(s), a < b
      PROVE  Unit \div (60 + a) > Unit \div (60 + b)
  <2> DEFINE d == 60 + a  e == 60 + b
  <2>1. d \in Nat \ {0} /\ e \in Nat \ {0} /\ d < e /\ Unit % d = 0 /\ Unit % e = 0
    BY <1>5, <1>6
  <2> HIDE DEF d, e
  <2>2. Unit \div d > Unit \div e
    BY <1>4, <2>1, SmallerDivides
  <2> QED BY <2>2 DEF d, e
<1>7. ASSUME NEW m \in Range(s) PROVE Term(s, m) = Unit \div (60 + Rank(s, m))
  BY <1>7 DEF Term
<1>8. ASSUME NEW m \in Messages, m \notin Range(s) PROVE Term(s, m) = 0
  BY <1>8 DEF Term
<1>9. ASSUME NEW m \in Range(s) PROVE Term(s, m) \in Nat
  <2> DEFINE d == 60 + Rank(s, m)
  <2>1. d \in Nat \ {0}
    BY <1>2, <1>5
  <2> HIDE DEF d
  <2>2. Unit \div d \in Nat
    BY <1>4, <2>1
  <2> QED BY <1>7, <2>2 DEF d
<1>10. ASSUME NEW m \in Range(s), NEW n \in Range(s), m # n, Rank(s, m) <= Rank(s, n)
       PROVE  Term(s, m) > Term(s, n)
  <2>1. Rank(s, m) \in 1..Len(s) /\ Rank(s, n) \in 1..Len(s) /\ Rank(s, m) # Rank(s, n)
    BY <1>2, <1>10
  <2>2. Rank(s, m) < Rank(s, n)
    BY <1>10, <2>1
  <2> QED BY <1>6, <1>7, <2>1, <2>2
<1>11. \A m \in Messages : Term(s, m) \in Nat
  BY <1>8, <1>9
<1> QED BY <1>8, <1>10, <1>11

\* A set of places with none missing below it is the first so many.
LEMMA BeginningCount ==
  ASSUME NEW n \in Nat, NEW D \in SUBSET (1..n), \A i \in D, j \in 1..n : j < i => j \in D
  PROVE  Cardinality(D) \in 0..n /\ D = 1..Cardinality(D)
<1> DEFINE Out == {i \in Nat : i \in 1..n /\ i \notin D}
<1>1. CASE Out = {}
  <2>1. ASSUME NEW i \in 1..n PROVE i \in D
    <3>1. i \in Nat
      OBVIOUS
    <3> QED BY <1>1, <3>1
  <2>2. D = 1..n
    BY <2>1
  <2>3. Cardinality(1..n) = n
    <3>1. Cardinality(1..n) = IF 1 > n THEN 0 ELSE n - 1 + 1
      BY FS_Interval
    <3> QED BY <3>1
  <2> QED BY <2>2, <2>3
<1>2. CASE Out # {}
  <2>1. PICK l \in Out : \A i \in Out : l =< i
    BY <1>2, LeastExists
  <2>2. l \in 1..n /\ l \notin D /\ \A i \in 1..n : i < l => i \in D
    BY <2>1
  <2>3. D = 1..(l - 1)
    <3>1. ASSUME NEW i \in D PROVE i \in 1..(l - 1)
      <4>1. i \in 1..n /\ i # l /\ ~ (l < i)
        BY <2>2
      <4> QED BY <2>2, <4>1
    <3>2. ASSUME NEW i \in 1..(l - 1) PROVE i \in D
      BY <2>2
    <3> QED BY <3>1, <3>2
  <2>4. l - 1 \in 0..n /\ Cardinality(1..(l - 1)) = l - 1
    <3>1. l - 1 \in Nat /\ 1 \in Int /\ l - 1 \in Int
      BY <2>2
    <3>2. Cardinality(1..(l - 1)) = IF 1 > l - 1 THEN 0 ELSE (l - 1) - 1 + 1
      BY <3>1, FS_Interval
    <3> QED BY <2>2, <3>1, <3>2
  <2> QED BY <2>3, <2>4
<1> QED BY <1>1, <1>2

\* InsertAt moves what is behind the place by one.
LEMMA InsertAtIs ==
  ASSUME NEW X, NEW s \in Seq(X), NEW m \in X, NEW c \in 0..Len(s)
  PROVE  /\ InsertAt(s, c + 1, m) \in Seq(X) /\ Len(InsertAt(s, c + 1, m)) = Len(s) + 1
         /\ InsertAt(s, c + 1, m)[c + 1] = m
         /\ \A i \in 1..c : InsertAt(s, c + 1, m)[i] = s[i]
         /\ \A i \in (c + 1)..Len(s) : InsertAt(s, c + 1, m)[i + 1] = s[i]
<1> DEFINE N == Len(s)
           a == SubSeq(s, 1, c)
           b == <<m>>
           d == SubSeq(s, c + 1, N)
           ab == a \o b
           y == ab \o d
<1>1. N \in Nat /\ c \in Nat /\ c <= N /\ \A i \in 1..N : s[i] \in X
  BY LenProperties
<1>2. InsertAt(s, c + 1, m) = y
  <2>1. (c + 1) - 1 = c
    BY <1>1
  <2> QED BY <2>1 DEF InsertAt
<1>3. a \in Seq(X) /\ Len(a) = c /\ \A i \in 1..c : a[i] = s[i]
  <2>1. \A i \in 1..c : s[i] \in X
    BY <1>1
  <2>2. /\ a \in Seq(X) /\ Len(a) = IF 1 <= c THEN c - 1 + 1 ELSE 0
        /\ \A i \in 1..(c - 1 + 1) : a[i] = s[1 + i - 1]
    BY <1>1, <2>1, SubSeqProperties
  <2>3. c - 1 + 1 = c /\ (~ (1 <= c) => c = 0) /\ \A i \in 1..c : 1 + i - 1 = i
    BY <1>1
  <2> HIDE DEF a
  <2> QED BY <2>2, <2>3
<1>4. b \in Seq(X) /\ Len(b) = 1 /\ b[1] = m
  BY Single
<1>5. d \in Seq(X) /\ Len(d) = N - c /\ \A i \in 1..(N - c) : d[i] = s[c + i]
  <2>1. c + 1 \in Nat /\ \A i \in (c + 1)..N : s[i] \in X
    BY <1>1
  <2>2. /\ d \in Seq(X) /\ Len(d) = IF c + 1 <= N THEN N - (c + 1) + 1 ELSE 0
        /\ \A i \in 1..(N - (c + 1) + 1) : d[i] = s[(c + 1) + i - 1]
    BY <1>1, <2>1, SubSeqProperties
  <2>3. N - (c + 1) + 1 = N - c /\ (~ (c + 1 <= N) => N - c = 0) /\ \A i \in 1..(N - c) : (c + 1) + i - 1 = c + i
    BY <1>1
  <2> HIDE DEF d, N
  <2> QED BY <2>2, <2>3
<1> HIDE DEF a, b, d, N
<1>6. /\ ab \in Seq(X) /\ Len(ab) = c + 1 /\ ab[c + 1] = m /\ \A i \in 1..c : ab[i] = s[i]
  <2>1. /\ a \o b \in Seq(X) /\ Len(a \o b) = Len(a) + Len(b)
        /\ \A i \in 1..Len(a) : (a \o b)[i] = a[i]
        /\ \A i \in 1..Len(b) : (a \o b)[Len(a) + i] = b[i]
    <3>1. a \in Seq(X) /\ b \in Seq(X)
      BY <1>3, <1>4
    <3> QED BY <3>1, ConcatAt
  <2>2. 1 \in 1..Len(b)
    BY <1>4
  <2> QED BY <1>3, <1>4, <2>1, <2>2
<1> HIDE DEF ab
<1>7. /\ y \in Seq(X) /\ Len(y) = (c + 1) + (N - c)
      /\ \A i \in 1..(c + 1) : y[i] = ab[i]
      /\ \A i \in 1..(N - c) : y[(c + 1) + i] = d[i]
  <2>1. /\ ab \o d \in Seq(X) /\ Len(ab \o d) = Len(ab) + Len(d)
        /\ \A i \in 1..Len(ab) : (ab \o d)[i] = ab[i]
        /\ \A i \in 1..Len(d) : (ab \o d)[Len(ab) + i] = d[i]
    <3>1. ab \in Seq(X) /\ d \in Seq(X)
      BY <1>5, <1>6
    <3> QED BY <3>1, ConcatAt
  <2> QED BY <1>5, <1>6, <2>1
<1> HIDE DEF y
<1>8. (c + 1) + (N - c) = N + 1 /\ c + 1 \in 1..(c + 1) /\ \A i \in 1..c : i \in 1..(c + 1)
  BY <1>1
<1>9. \A i \in (c + 1)..N : i - c \in 1..(N - c) /\ (c + 1) + (i - c) = i + 1 /\ c + (i - c) = i
  BY <1>1
<1>10. \A i \in (c + 1)..N : y[i + 1] = s[i]
  BY <1>5, <1>7, <1>9
<1>11. y \in Seq(X) /\ Len(y) = N + 1 /\ y[c + 1] = m /\ \A i \in 1..c : y[i] = s[i]
  BY <1>6, <1>7, <1>8
<1> QED BY <1>2, <1>10, <1>11 DEF N

\* What is sorted of those taken from the map: each once, none behind a worse one.
Falling(S, score) ==
  {p \in (SUBSET S) \X Seq(S) :
     /\ Range(p[2]) = p[1]
     /\ \A i, j \in 1..Len(p[2]) : p[2][i] = p[2][j] => i = j
     /\ \A i, j \in 1..Len(p[2]) : i < j => score[p[2][i]] >= score[p[2][j]]}

PlaceOf(s, m, score) == Cardinality({i \in DOMAIN s : score[s[i]] >= score[m]}) + 1

\* Insertion sort stays sorted with one insertion.
LEMMA InsertKeeps ==
  ASSUME NEW S, NEW score \in [S -> Nat], NEW T \in SUBSET S, NEW m \in T, NEW s,
         <<T \ {m}, s>> \in Falling(S, score)
  PROVE  <<T, InsertAt(s, PlaceOf(s, m, score), m)>> \in Falling(S, score)
<1>1. /\ s \in Seq(S) /\ Range(s) = T \ {m}
      /\ \A i, j \in 1..Len(s) : s[i] = s[j] => i = j
      /\ \A i, j \in 1..Len(s) : i < j => score[s[i]] >= score[s[j]]
  BY DEF Falling
<1> DEFINE N == Len(s)
           D == {i \in DOMAIN s : score[s[i]] >= score[m]}
           c == Cardinality(D)
           y == InsertAt(s, c + 1, m)
<1>2. N \in Nat /\ DOMAIN s = 1..N /\ (\A i \in 1..N : s[i] \in S /\ s[i] \in Range(s)) /\ m \in S
      /\ \A a \in Range(s) : \E i \in 1..N : s[i] = a
  BY <1>1, SeqMembers
<1>3. (\A i \in 1..N : score[s[i]] \in Nat) /\ score[m] \in Nat
  BY <1>2
<1>4. D = {i \in 1..N : score[s[i]] >= score[m]}
  BY <1>2
<1>5. InsertAt(s, PlaceOf(s, m, score), m) = y
  BY DEF PlaceOf
<1> HIDE DEF N, y
<1>6. c \in 0..N /\ D = 1..c
  <2>1. D \in SUBSET (1..N)
    BY <1>4
  <2>2. ASSUME NEW i \in D, NEW j \in 1..N, j < i PROVE j \in D
    <3>1. i \in 1..N /\ score[s[i]] >= score[m]
      BY <1>4
    <3>2. score[s[j]] >= score[s[i]]
      BY <1>1, <2>2, <3>1 DEF N
    <3>3. score[s[j]] >= score[m]
      BY <1>3, <3>1, <3>2
    <3> QED BY <1>4, <3>3
  <2> HIDE DEF D
  <2> QED BY <1>2, <2>1, <2>2, BeginningCount
<1>7. /\ \A i \in 1..c : score[s[i]] >= score[m]
      /\ \A i \in (c + 1)..N : score[m] >= score[s[i]]
  <2>1. \A i \in (c + 1)..N : i \in 1..N /\ i \notin 1..c
    BY <1>2, <1>6
  <2>2. \A i \in 1..c : score[s[i]] >= score[m]
    BY <1>4, <1>6
  <2>3. \A i \in (c + 1)..N : ~ (score[s[i]] >= score[m])
    BY <1>4, <1>6, <2>1
  <2> QED BY <1>3, <2>1, <2>2, <2>3
<1> HIDE DEF D, c
<1>8. /\ y \in Seq(S) /\ Len(y) = N + 1 /\ y[c + 1] = m
      /\ \A i \in 1..c : y[i] = s[i]
      /\ \A i \in (c + 1)..N : y[i + 1] = s[i]
  <2>1. s \in Seq(S) /\ m \in S /\ c \in 0..Len(s)
    BY <1>1, <1>2, <1>6 DEF N
  <2>2. y \in Seq(S) /\ Len(y) = Len(s) + 1 /\ y[c + 1] = m
    BY <2>1, InsertAtIs DEF y
  <2>3. \A i \in 1..c : y[i] = s[i]
    <3>1. ASSUME NEW i \in 1..c PROVE InsertAt(s, c + 1, m)[i] = s[i]
      BY <2>1, InsertAtIs, SMTT(60)
    <3> QED BY <3>1 DEF y
  <2>4. \A i \in (c + 1)..Len(s) : y[i + 1] = s[i]
    BY <2>1, InsertAtIs DEF y
  <2> QED BY <2>2, <2>3, <2>4 DEF N
<1>9. c \in Nat /\ c <= N
  BY <1>2, <1>6
<1>10. \A i \in (c + 2)..(N + 1) : i - 1 \in (c + 1)..N /\ i - 1 \in 1..N /\ (i - 1) + 1 = i
  BY <1>2, <1>9
<1>11. \A i \in (c + 2)..(N + 1) : y[i] = s[i - 1]
  BY <1>8, <1>10
<1>12. \A i \in 1..(N + 1) : i \in 1..c \/ i = c + 1 \/ i \in (c + 2)..(N + 1)
  BY <1>2, <1>9
<1>13. \A i \in 1..c : i \in 1..N
  BY <1>2, <1>9
<1>14. ASSUME NEW i \in 1..(N + 1), NEW j \in 1..(N + 1), i < j
       PROVE  score[y[i]] >= score[y[j]] /\ y[i] # y[j]
  <2>1. \A a \in Range(s) : a # m
    BY <1>1
  <2>2. CASE i \in 1..c /\ j \in 1..c
    <3>1. i \in 1..N /\ j \in 1..N /\ y[i] = s[i] /\ y[j] = s[j]
      BY <1>8, <1>13, <2>2
    <3>2. s[i] # s[j]
      BY <1>1, <1>14, <3>1 DEF N
    <3> QED BY <1>1, <1>14, <3>1, <3>2 DEF N
  <2>3. CASE i \in 1..c /\ j = c + 1
    BY <1>2, <1>7, <1>8, <1>13, <2>1, <2>3
  <2>4. CASE i \in 1..c /\ j \in (c + 2)..(N + 1)
    <3>1. i \in 1..N /\ j - 1 \in 1..N /\ y[i] = s[i] /\ y[j] = s[j - 1] /\ i < j - 1
      <4>1. i < j - 1
        BY <1>2, <1>9, <2>4
      <4> QED BY <1>8, <1>10, <1>11, <1>13, <2>4, <4>1
    <3>2. s[i] # s[j - 1]
      BY <1>1, <3>1 DEF N
    <3> QED BY <1>1, <3>1, <3>2 DEF N
  <2>5. CASE i = c + 1 /\ j \in (c + 2)..(N + 1)
    BY <1>2, <1>7, <1>8, <1>10, <1>11, <2>1, <2>5
  <2>6. CASE i \in (c + 2)..(N + 1) /\ j \in (c + 2)..(N + 1)
    <3>1. i - 1 \in 1..N /\ j - 1 \in 1..N /\ y[i] = s[i - 1] /\ y[j] = s[j - 1]
      BY <1>10, <1>11, <2>6
    <3>2. i - 1 < j - 1
      BY <1>14
    <3>3. s[i - 1] # s[j - 1]
      BY <1>1, <3>1, <3>2 DEF N
    <3> QED BY <1>1, <3>1, <3>2, <3>3 DEF N
  <2>7. ~ (i = c + 1 /\ j \in 1..c) /\ ~ (i = c + 1 /\ j = c + 1)
        /\ ~ (i \in (c + 2)..(N + 1) /\ (j \in 1..c \/ j = c + 1))
    BY <1>2, <1>9, <1>14
  <2> QED BY <1>12, <2>2, <2>3, <2>4, <2>5, <2>6, <2>7
<1>15. ASSUME NEW i \in 1..(N + 1), NEW j \in 1..(N + 1), y[i] = y[j] PROVE i = j
  <2>1. ~ (i < j) /\ ~ (j < i)
    BY <1>14, <1>15
  <2> QED BY <1>2, <2>1
<1>16. Range(y) = T
  <2>1. /\ \A i \in 1..(N + 1) : y[i] \in Range(y)
        /\ \A a \in Range(y) : \E i \in 1..(N + 1) : y[i] = a
    BY <1>8, SeqMembers
  <2>2. ASSUME NEW i \in 1..(N + 1) PROVE y[i] \in T
    <3>1. CASE i \in 1..c
      BY <1>1, <1>2, <1>8, <1>13, <3>1
    <3>2. CASE i = c + 1
      BY <1>8, <3>2
    <3>3. CASE i \in (c + 2)..(N + 1)
      BY <1>1, <1>2, <1>10, <1>11, <3>3
    <3> QED BY <1>12, <3>1, <3>2, <3>3
  <2>3. ASSUME NEW a \in T PROVE a \in Range(y)
    <3>1. CASE a = m
      <4>1. c + 1 \in 1..(N + 1)
        BY <1>2, <1>9
      <4> QED BY <1>8, <2>1, <3>1, <4>1
    <3>2. CASE a # m
      <4>1. PICK i \in 1..N : s[i] = a
        BY <1>1, <1>2, <3>2
      <4>2. CASE i \in 1..c
        <5>1. i \in 1..(N + 1) /\ y[i] = a
          BY <1>2, <1>8, <4>1, <4>2
        <5> QED BY <2>1, <5>1
      <4>3. CASE i \notin 1..c
        <5>1. i \in (c + 1)..N /\ i + 1 \in 1..(N + 1)
          BY <1>2, <1>9, <4>3
        <5>2. y[i + 1] = a
          BY <1>8, <4>1, <5>1
        <5> QED BY <2>1, <5>1, <5>2
      <4> QED BY <4>2, <4>3
    <3> QED BY <3>1, <3>2
  <2> QED BY <2>1, <2>2, <2>3
<1>17. <<T, y>> \in Falling(S, score)
  <2>1. y \in Seq(S) /\ T \in SUBSET S /\ Range(y) = T
    BY <1>8, <1>16
  <2>2. \A i, j \in 1..Len(y) : y[i] = y[j] => i = j
    BY <1>8, <1>15
  <2>3. \A i, j \in 1..Len(y) : i < j => score[y[i]] >= score[y[j]]
    BY <1>8, <1>14
  <2> QED BY <2>1, <2>2, <2>3 DEF Falling
<1> QED BY <1>5, <1>17

\* The fused list has every listed message once, none behind a worse one.
LEMMA FusionSorts ==
  ASSUME NEW keyword, NEW vector, NEW S, S = Range(keyword) \cup Range(vector), IsFiniteSet(S),
         NEW score, score = [m \in S |-> FusedScore(keyword, vector, m)], score \in [S -> Nat],
         NEW s \in ReciprocalRankFusion(keyword, vector)
  PROVE  <<S, s>> \in Falling(S, score)
<1> DEFINE inserted == [p \in Seq(S) \X S |-> {InsertAt(p[1], PlaceOf(p[1], p[2], score), p[2])}]
<1>1. ReciprocalRankFusion(keyword, vector) = InAnyOrder(S, <<>>, inserted)
  BY Zenon DEF ReciprocalRankFusion, PlaceOf
<1>2. <<{}, <<>>>> \in Falling(S, score)
  <2>1. <<>> \in Seq(S) /\ Len(<<>>) = 0 /\ Range(<<>>) = {}
    BY EmptySeq DEF Range
  <2> DEFINE e == <<>>
  <2> HIDE DEF e
  <2>2. e \in Seq(S) /\ Range(e) = {} /\ \A i \in 1..Len(e) : FALSE
    BY <2>1 DEF e
  <2>3. <<{}, e>> \in Falling(S, score)
    BY <2>2 DEF Falling
  <2> QED BY <2>3 DEF e
<1>3. ASSUME NEW T \in SUBSET S, NEW m \in T, NEW x, <<T \ {m}, x>> \in Falling(S, score), NEW y \in inserted[<<x, m>>]
      PROVE  <<T, y>> \in Falling(S, score)
  <2>1. x \in Seq(S) /\ m \in S
    BY <1>3 DEF Falling
  <2>2. inserted[<<x, m>>] = {InsertAt(x, PlaceOf(x, m, score), m)}
    BY <2>1
  <2>3. y = InsertAt(x, PlaceOf(x, m, score), m)
    BY <2>2
  <2> QED BY <1>3, <2>3, InsertKeeps
<1> HIDE DEF inserted
<1> DEFINE Good == Falling(S, score)  start == <<>>
<1> HIDE DEF Good, start
<1>4. \A T \in SUBSET S : \A m \in T : \A x : <<T \ {m}, x>> \in Good
        => \A y \in inserted[<<x, m>>] : <<T, y>> \in Good
  BY <1>3 DEF Good
<1>5. <<{}, start>> \in Good
  BY <1>2 DEF Good, start
<1>6. \A x \in InAnyOrder(S, start, inserted) : <<S, x>> \in Good
  BY <1>4, <1>5, InAnyOrderKeeps
<1>7. s \in InAnyOrder(S, start, inserted)
  BY <1>1 DEF start
<1> QED BY <1>6, <1>7 DEF Good

\* A search names no message twice.
LEMMA SearchDistinct ==
  ASSUME QueryBounds, NEW limit \in Nat, NEW empty, NEW c
  PROVE  Distinct(SearchMessages(limit, empty, c))
<1> DEFINE S == Matches(c)
           T == {m \in Messages : empty \/ Visible(m)}
           room == CandidateLimit(limit)
           R == Range(Take(Sorted(S, NewestId), room)) \cap T
           found == Take(Among(Take(Sorted(S, NewestId), room), T), limit)
<1>1. S \subseteq Messages /\ IsFiniteSet(S) /\ StrictOrder(S, NewestId)
  BY MatchesOrdered
<1>2. room \in Nat
  BY CandidatesEnough
<1>3. SearchMessages(limit, empty, c) = found
  BY DEF SearchMessages
<1> HIDE DEF S, T, room
<1>4. found \in Seq(S \cap T) /\ First(found, R, NewestId, limit)
  BY <1>1, <1>2, FoundAmongCandidates
<1> HIDE DEF found, R
<1>5. found \in Seq(Messages)
  <2>1. S \cap T \subseteq Messages
    BY <1>1
  <2> QED BY <1>4, <2>1
<1>6. \A i, j \in 1..Len(found) : found[i] = found[j] => i = j
  BY <1>4 DEF First
<1> QED BY <1>3, <1>5, <1>6 DEF Distinct

\* Nor does a vector search.
LEMMA VectorDistinct ==
  ASSUME QueryBounds, RowsTypeOK, NEW k \in Nat \ {0}, NEW c, NEW answer \in VectorSearch(k, c)
  PROVE  Distinct(answer)
<1> DEFINE S == Embedded(c)
           score == [m \in S |-> Similarity(vec[m], "hit")]
<1>1. S \in SUBSET Messages /\ IsFiniteSet(S) /\ \A m \in S : vec[m] \in Contents
  BY EmbeddedTyped
<1>2. "hit" \in Contents
  BY DEF Contents
<1>3. answer \in TopK(k, score)
  BY DEF VectorSearch
<1> HIDE DEF S
<1>4. \A m \in S : Similarity(vec[m], "hit") \in Nat
  BY <1>1, <1>2, SimilarityIs
<1>5. score \in [S -> Nat]
  BY <1>4
<1> HIDE DEF score
<1>6. Best(answer, S, k, score)
  BY <1>1, <1>3, <1>5, TopKBest
<1>7. answer \in Seq(S) /\ \A i, j \in 1..Len(answer) : answer[i] = answer[j] => i = j
  BY <1>6 DEF Best
<1>8. answer \in Seq(Messages)
  <2>1. answer \in Seq(S) /\ S \subseteq Messages
    BY <1>1, <1>7
  <2> QED BY <2>1, SeqWider
<1> QED BY <1>7, <1>8 DEF Distinct

\* What is ahead in one of two lists and not behind in the other scores more.
LEMMA AheadScoresMore ==
  ASSUME QueryBounds, NEW keyword, NEW vector, Distinct(keyword), Distinct(vector),
         NEW m \in Messages, NEW n \in Messages, m # n, n \in Range(keyword) \cup Range(vector),
         n \in Range(keyword) => m \in Range(keyword) /\ Rank(keyword, m) <= Rank(keyword, n),
         n \in Range(vector) => m \in Range(vector) /\ Rank(vector, m) <= Rank(vector, n)
  PROVE  FusedScore(keyword, vector, m) > FusedScore(keyword, vector, n)
<1> DEFINE a == Term(keyword, m)  b == Term(keyword, n)  c == Term(vector, m)  d == Term(vector, n)
<1>1. a \in Nat /\ b \in Nat /\ c \in Nat /\ d \in Nat
  BY TermFalls
<1>2. n \in Range(keyword) => a > b
  BY TermFalls
<1>3. n \notin Range(keyword) => b = 0
  BY TermFalls
<1>4. n \in Range(vector) => c > d
  BY TermFalls
<1>5. n \notin Range(vector) => d = 0
  BY TermFalls
<1>6. FusedScore(keyword, vector, m) = a + c /\ FusedScore(keyword, vector, n) = b + d
  BY DEF FusedScore
<1> HIDE DEF a, b, c, d
<1>7. a + c > b + d
  BY <1>1, <1>2, <1>3, <1>4, <1>5
<1> QED BY <1>6, <1>7

\* What FusionKeepsRanks says of any two lists that name nothing twice.
LEMMA FusionRight ==
  ASSUME QueryBounds, NEW limit \in Nat, NEW keyword, NEW vector, Distinct(keyword), Distinct(vector),
         NEW s \in ReciprocalRankFusion(keyword, vector)
  PROVE  LET listed == Range(keyword) \cup Range(vector)
             answer == Take(s, limit)
             NotBehind(t, m, n) == n \in Range(t) => m \in Range(t) /\ Rank(t, m) <= Rank(t, n)
         IN /\ Range(answer) \subseteq listed /\ IsInjective(answer)
            /\ Len(answer) = Min({limit, Cardinality(listed)})
            /\ \A m, n \in listed :
                 m # n /\ NotBehind(keyword, m, n) /\ NotBehind(vector, m, n) /\ n \in Range(answer)
                   => m \in Range(answer) /\ Rank(answer, m) < Rank(answer, n)
<1> DEFINE S == Range(keyword) \cup Range(vector)
           score == [m \in S |-> FusedScore(keyword, vector, m)]
           answer == Take(s, limit)
<1>1. S \subseteq Messages /\ IsFiniteSet(S)
  <2>1. Range(keyword) \subseteq Messages /\ Range(vector) \subseteq Messages
    BY SeqMembers DEF Distinct
  <2> QED BY <2>1, FS_Subset DEF QueryBounds
<1>2. \A m \in S : FusedScore(keyword, vector, m) \in Nat
  <2>1. ASSUME NEW m \in Messages PROVE FusedScore(keyword, vector, m) \in Nat
    <3>1. Term(keyword, m) \in Nat /\ Term(vector, m) \in Nat
      BY TermFalls
    <3> QED BY <3>1 DEF FusedScore
  <2> QED BY <1>1, <2>1
<1>3. score \in [S -> Nat] /\ \A m \in S : score[m] = FusedScore(keyword, vector, m)
  BY <1>2
<1>4. <<S, s>> \in Falling(S, score)
  <2> DEFINE T == S  value == score
  <2>1. /\ T = Range(keyword) \cup Range(vector) /\ IsFiniteSet(T)
        /\ value = [m \in T |-> FusedScore(keyword, vector, m)] /\ value \in [T -> Nat]
    BY <1>1, <1>3
  <2> HIDE DEF T, value
  <2>2. <<T, s>> \in Falling(T, value)
    BY <2>1, FusionSorts
  <2> QED BY <2>2 DEF T, value
<1>5. ASSUME NEW m \in S, NEW n \in S, m # n,
             n \in Range(keyword) => m \in Range(keyword) /\ Rank(keyword, m) <= Rank(keyword, n),
             n \in Range(vector) => m \in Range(vector) /\ Rank(vector, m) <= Rank(vector, n)
      PROVE  score[m] > score[n]
  BY <1>1, <1>3, <1>5, AheadScoresMore
<1> HIDE DEF S, score
<1>6. /\ s \in Seq(S) /\ Range(s) = S
      /\ \A i, j \in 1..Len(s) : s[i] = s[j] => i = j
      /\ \A i, j \in 1..Len(s) : i < j => score[s[i]] >= score[s[j]]
  BY <1>4 DEF Falling
<1>7. Len(s) \in Nat /\ Cardinality(S) = Len(s) /\ \A m \in S : \E i \in 1..Len(s) : s[i] = m
  BY <1>6, SeqMembers, RangeCount
<1>8. answer \in Seq(S) /\ DOMAIN answer = 1..Len(answer)
      /\ Len(answer) \in Nat /\ Len(answer) <= Len(s) /\ \A i \in 1..Len(answer) : answer[i] = s[i]
  <2>1. answer \in Seq(S)
    BY <1>6, TakeProperties
  <2>2. Len(answer) \in Nat /\ Len(answer) <= Len(s) /\ \A i \in 1..Len(answer) : answer[i] = s[i]
    BY <1>6, TakeIs
  <2> HIDE DEF answer
  <2> QED BY <2>1, <2>2, SeqMembers
<1>9. Len(answer) = Min({limit, Cardinality(S)})
  <2>1. Len(answer) = Min({limit, Len(s)})
    BY <1>6, TakeProperties
  <2> QED BY <1>7, <2>1
<1> HIDE DEF answer
<1>10. \A i \in 1..Len(answer) : i \in 1..Len(s)
  BY <1>7, <1>8
<1>11. \A i, j \in 1..Len(answer) : answer[i] = answer[j] => i = j
  BY <1>6, <1>8, <1>10
<1>12. IsInjective(answer)
  BY <1>8, <1>11 DEF IsInjective
<1>13. /\ Range(answer) \subseteq S /\ \A i \in 1..Len(answer) : answer[i] \in Range(answer)
       /\ \A n \in Range(answer) : \E i \in 1..Len(answer) : answer[i] = n
       /\ \A i \in 1..Len(answer) : Rank(answer, answer[i]) = i
  BY <1>8, <1>11, SeqMembers, RankIs
<1>14. ASSUME NEW m \in S, NEW n \in S, m # n, n \in Range(answer),
              n \in Range(keyword) => m \in Range(keyword) /\ Rank(keyword, m) <= Rank(keyword, n),
              n \in Range(vector) => m \in Range(vector) /\ Rank(vector, m) <= Rank(vector, n)
       PROVE  m \in Range(answer) /\ Rank(answer, m) < Rank(answer, n)
  <2>1. PICK j \in 1..Len(answer) : answer[j] = n
    BY <1>13, <1>14
  <2>2. PICK i \in 1..Len(s) : s[i] = m
    BY <1>7
  <2>3. score[m] > score[n] /\ score[m] \in Nat /\ score[n] \in Nat
    BY <1>3, <1>5, <1>14
  <2>4. j \in 1..Len(s) /\ s[j] = n
    BY <1>8, <1>10, <2>1
  <2>5. i < j
    <3>1. j < i => score[n] >= score[m]
      BY <1>6, <2>2, <2>4
    <3>2. i # j
      BY <1>14, <2>2, <2>4
    <3> QED BY <1>7, <2>2, <2>3, <2>4, <3>1, <3>2
  <2>6. i \in 1..Len(answer)
    BY <1>8, <2>1, <2>5
  <2>7. answer[i] = m
    BY <1>8, <2>2, <2>6
  <2>8. Rank(answer, m) = i /\ Rank(answer, n) = j /\ m \in Range(answer)
    BY <1>13, <2>1, <2>6, <2>7
  <2> QED BY <2>5, <2>8
<1>15. Range(answer) \subseteq S
  BY <1>13
<1> QED BY <1>9, <1>12, <1>14, <1>15, Zenon DEF S, answer

LEMMA FusionKeeps ==
  ASSUME QueryBounds, RowsTypeOK
  PROVE  FusionKeepsRanks
<1> SUFFICES ASSUME NEW limit \in Limits, NEW found \in HybridSearch(limit, Every)
             PROVE  LET listed == Range(found.keyword) \cup Range(found.vector)
                        NotBehind(s, m, n) == n \in Range(s) => m \in Range(s) /\ Rank(s, m) <= Rank(s, n)
                    IN /\ Range(found.answer) \subseteq listed /\ IsInjective(found.answer)
                       /\ Len(found.answer) = Min({limit, Cardinality(listed)})
                       /\ \A m, n \in listed :
                            m # n /\ NotBehind(found.keyword, m, n) /\ NotBehind(found.vector, m, n)
                              /\ n \in Range(found.answer)
                              => m \in Range(found.answer) /\ Rank(found.answer, m) < Rank(found.answer, n)
  BY DEF FusionKeepsRanks
<1>1. limit \in Nat /\ HybridLimit \in Nat \ {0}
  BY DEF QueryBounds, HybridLimit
<1> DEFINE keyword == SearchMessages(HybridLimit, FALSE, Every)
<1>2. PICK vector \in VectorSearch(HybridLimit, Every) :
        \E s \in ReciprocalRankFusion(keyword, vector) :
           found = [keyword |-> keyword, vector |-> vector, answer |-> Take(s, limit)]
  BY DEF HybridSearch
<1>3. PICK s \in ReciprocalRankFusion(keyword, vector) :
         found = [keyword |-> keyword, vector |-> vector, answer |-> Take(s, limit)]
  BY <1>2
<1>4. Distinct(keyword) /\ Distinct(vector)
  BY <1>1, SearchDistinct, VectorDistinct
<1> HIDE DEF keyword
<1>5. found.keyword = keyword /\ found.vector = vector /\ found.answer = Take(s, limit)
  BY <1>3
<1> DEFINE answer == Take(s, limit)
           listed == Range(keyword) \cup Range(vector)
<1>6. /\ Range(answer) \subseteq listed /\ IsInjective(answer)
      /\ Len(answer) = Min({limit, Cardinality(listed)})
      /\ \A m, n \in listed :
           m # n /\ (n \in Range(keyword) => m \in Range(keyword) /\ Rank(keyword, m) <= Rank(keyword, n))
             /\ (n \in Range(vector) => m \in Range(vector) /\ Rank(vector, m) <= Rank(vector, n))
             /\ n \in Range(answer)
             => m \in Range(answer) /\ Rank(answer, m) < Rank(answer, n)
  BY <1>1, <1>3, <1>4, FusionRight
<1> HIDE DEF answer, listed
<1>7. found.answer = answer /\ Range(found.keyword) \cup Range(found.vector) = listed
  BY <1>5 DEF answer, listed
<1> QED BY <1>5, <1>6, <1>7

-----------------------------------------------------------------------------
(* Theorems of the rows: QueryBounds is all they assume of the constants. *)

\* query.go SearchMessages: the newest matches in order, and fewer than asked
\* for only when more match than the smallest number of candidates, whatever
\* was written and edited before.
THEOREM SearchesFindNewest == RowsSpec => []SearchFindsNewest
<1>1. SearchFindsNewest
  BY QueryBounds, SearchRight
<1> QED BY <1>1, PTL

\* messages.go ListMessages, mentions.go ListMentions, members_profile.go
\* MemberProfile, query.go's fallback: nothing is left out or added and the
\* order is kept, to the second, for any times of any number of digits.
THEOREM ListsStayRight == RowsSpec => []ListsRight
<1>1. ListsRight
  BY QueryBounds, ListsAreRight
<1> QED BY <1>1, PTL

\* query.go GetConversation: the message, as many as asked for on each side of
\* it and no hole between; or nothing, only when a side is short.
THEOREM ConversationsStayWhole == RowsSpec => []ConversationWhole
<1>1. ConversationWhole
  BY QueryBounds, ConversationIsWhole
<1> QED BY <1>1, PTL

\* embeddings.go VectorSearch, FindSimilar, HybridSearch: both rankings are right
\* in whatever order the rows are scanned and the map is read.
THEOREM RankingsStayRight == RowsSpec => []RankingsRight
<1>1. RowsTypeOK => RankingsRight
  BY QueryBounds, NearestAreFound, FusionKeeps DEF RankingsRight
<1>2. RowsSpec => []RowsTypeOK
  BY QueryBounds, RowsTyped
<1> QED BY <1>1, <1>2, PTL
=============================================================================
