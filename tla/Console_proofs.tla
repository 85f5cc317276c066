----------------------------- MODULE Console_proofs -----------------------------
(***************************************************************************)
(* The programs of the console, which no request goes through.             *)
(*                                                                         *)
(* For any interval, margin and number of torrents, and however imports,   *)
(* readers, uploads and deletions overlap and fail: the health check of    *)
(* the statistics importer fails only while a tick is overdue, or would be *)
(* if it were due an interval earlier for each heartbeat that is missing.  *)
(*                                                                         *)
(* For any database of v1, any use of the target and any number of stops   *)
(* and errors: an upgrade that finishes leaves the image of its source.    *)
(***************************************************************************)
EXTENDS Statistics, Upgrader, SequenceLemmas

USE StatisticsAssumption

-----------------------------------------------------------------------------
(* Type correctness *)

\* Who waits for the tracker, or has its answer, has a torrent.
ImportsHaveTorrents ==
  \A i \in Importers : pc[i] \in {"asked", "heard"} => torrent[i] \in Torrent

TypeInv == TypeOK /\ ImportsHaveTorrents

LEMMA TypeInvInit == Init => TypeInv
BY DEF Init, TypeInv, TypeOK, ImportsHaveTorrents, Importers, Torrent, MaxMissed

\* Whoever asks, hears and writes is one of the two importers.
LEMMA ImportKeepsTypes ==
  ASSUME TypeInv, NEW i \in Importers,
         Hear(i) \/ HearNothing(i) \/ WriteFigure(i) \/ FailToWrite(i)
  PROVE  TypeInv'
<1> USE DEF TypeInv, TypeOK, ImportsHaveTorrents, Importers, GoTo, heart
<1>1. CASE Hear(i)
  <2>1. swarm[torrent[i].info_hash] \in Figures
    BY <1>1 DEF Hear, Torrent
  <2> QED BY <1>1, <2>1 DEF Hear, EndOfWait, tables, tracker
<1>2. CASE HearNothing(i)
  BY <1>2 DEF HearNothing, EndOfWait, tables, tracker
<1>3. CASE WriteFigure(i)
  BY <1>3 DEF WriteFigure, EndOfWrite, AfterWrite, tracker, clocks
<1>4. CASE FailToWrite(i)
  BY <1>4 DEF FailToWrite, EndOfWrite, AfterWrite, tracker, clocks
<1> QED BY <1>1, <1>2, <1>3, <1>4

LEMMA TypeInvNext == TypeInv /\ [Next]_vars => TypeInv'
<1> SUFFICES ASSUME TypeInv, [Next]_vars PROVE TypeInv'
  OBVIOUS
<1> USE DEF TypeInv, TypeOK, ImportsHaveTorrents, Importers, GoTo, Loop, heart
<1>1. CASE UNCHANGED vars
  BY <1>1 DEF vars, tables, tracker, clocks, locals
<1>2. CASE TakeTick
  BY <1>2 DEF TakeTick, NextDue, tables, tracker, locals
<1>3. CASE ReceiveHeartbeat \/ EndHeartbeat \/ LoseHeartbeat
  BY <1>3 DEF ReceiveHeartbeat, EndHeartbeat, LoseHeartbeat, MaxMissed, tables, tracker, clocks,
              locals
<1>4. CASE ListTorrents \/ FailToList
  BY <1>4 DEF ListTorrents, FailToList, tables, tracker, clocks, locals
<1>5. CASE AskNext
  BY <1>5 DEF AskNext, tables, tracker, clocks
<1>6. CASE FinishImport
  BY <1>6 DEF FinishImport, tables, tracker, clocks, locals
<1>7. CASE AskForReader
  BY <1>7 DEF AskForReader, tables, tracker, clocks
<1>8. ASSUME NEW i \in Importers, Hear(i) \/ HearNothing(i) \/ WriteFigure(i) \/ FailToWrite(i)
      PROVE  TypeInv'
  BY <1>8, ImportKeepsTypes
<1>9. ASSUME NEW h \in Hashes, Upload(h) PROVE TypeInv'
  BY <1>9 DEF Upload, Torrent, tracker, clocks, locals
<1>10. ASSUME NEW t \in torrents, Delete(t) PROVE TypeInv'
  BY <1>10 DEF Delete, Torrent, tracker, clocks, locals
<1>11. CASE SwarmChanges
  BY <1>11 DEF SwarmChanges, tables, clocks, locals
<1>12. CASE TrackerChanges
  BY <1>12 DEF TrackerChanges, tables, clocks, locals
<1>13. CASE Tick
  BY <1>13 DEF Tick, tables, tracker, locals
<1> QED
  <2>1. CronStep => TypeInv'
    BY <1>2, <1>3, <1>4, <1>5, <1>6, <1>8 DEF CronStep
  <2>2. ReaderStep \/ DatabaseFails => TypeInv'
    BY <1>4, <1>8 DEF ReaderStep, DatabaseFails
  <2> QED BY <1>1, <1>3, <1>7, <1>9, <1>10, <1>11, <1>12, <1>13, <2>1, <2>2 DEF Next

\* The importer, its timers and its tables keep their types, whatever overlaps
\* (tracker/statistics_importer.rs, console/cronjobs/tracker_statistics_importer.rs).
THEOREM TypeCorrect == Spec => []TypeOK
<1>1. TypeInv => TypeOK
  BY DEF TypeInv
<1> QED BY <1>1, TypeInvInit, TypeInvNext, PTL DEF Spec

-----------------------------------------------------------------------------
(* The heartbeat *)

\* The age of the last heartbeat and the time until the next tick are at most the
\* intervals that ticks without a heartbeat have added to one: a late tick does not
\* move the next, so that this holds over any succession of late ticks, and a
\* heartbeat that fails makes room for another interval.
BeatFollowsTick ==
  /\ untilTick <= Interval
  /\ missed < MaxMissed => beatAge + untilTick <= Interval * (1 + Unheard)

BeatInv == TypeInv /\ BeatFollowsTick

\* The numbers, and what is counted.
LEMMA BeatTypes ==
  ASSUME TypeInv
  PROVE  /\ untilTick \in Int /\ beatAge \in Nat /\ missed \in Nat /\ missed <= MaxMissed
         /\ Interval \in Nat /\ Interval > 0 /\ Margin \in Nat /\ MaxMissed = Margin + 2
         /\ pc \in [Importers -> {"wait", "beat", "beaten", "list", "next", "asked", "heard"}]
         /\ Unheard \in {missed, missed + 1}
BY DEF TypeInv, TypeOK, MaxMissed, Unheard

LEMMA BeatInvInit == Init => BeatInv
<1> SUFFICES ASSUME Init PROVE BeatInv
  OBVIOUS
<1>1. Unheard = 0
  BY DEF Init, Unheard, Importers
<1> QED BY <1>1, TypeInvInit DEF Init, BeatInv, BeatFollowsTick

\* A tick adds an interval to both sides.
LEMMA TakeTickKeepsBeat == BeatInv /\ TakeTick => BeatFollowsTick'
<1> SUFFICES ASSUME BeatInv, TakeTick PROVE BeatFollowsTick'
  OBVIOUS
<1>1. PICK n : n = missed
  OBVIOUS
<1>2. Unheard = n /\ Unheard' = n + 1
  BY <1>1, BeatTypes DEF BeatInv, TakeTick, GoTo, Loop, Unheard, heart, Importers
<1>3. /\ n \in Nat /\ Interval \in Nat /\ untilTick \in Int /\ beatAge \in Nat
      /\ untilTick <= 0 /\ untilTick' = untilTick + Interval /\ beatAge' = beatAge
      /\ missed' = missed
  BY <1>1, BeatTypes DEF BeatInv, TakeTick, NextDue, heart
<1>4. Interval * (1 + (n + 1)) = Interval * (1 + n) + Interval
  BY <1>3
<1>5. n < MaxMissed => beatAge + untilTick <= Interval * (1 + n)
  BY <1>1, <1>2 DEF BeatInv, BeatFollowsTick
<1>6. Interval * (1 + n) \in Int
  BY <1>3
<1>7. n < MaxMissed => beatAge' + untilTick' <= Interval * (1 + (n + 1))
  BY <1>3, <1>4, <1>5, <1>6
<1> QED BY <1>1, <1>2, <1>3, <1>7 DEF BeatFollowsTick, MaxMissed

\* A POST that fails is counted instead of the one that was under way.
LEMMA LoseHeartbeatKeepsBeat == BeatInv /\ LoseHeartbeat => BeatFollowsTick'
<1> SUFFICES ASSUME BeatInv, LoseHeartbeat PROVE BeatFollowsTick'
  OBVIOUS
<1>1. /\ missed < MaxMissed => missed' = missed + 1
      /\ ~ (missed < MaxMissed) => missed' = missed
      /\ UNCHANGED <<untilTick, beatAge>> /\ pc["cronjob"] = "beat" /\ pc'["cronjob"] = "list"
  BY BeatTypes DEF BeatInv, LoseHeartbeat, GoTo, Loop, Importers
<1>2. missed < MaxMissed => Unheard' = Unheard
  BY <1>1, BeatTypes DEF Unheard, BeatInv
<1>3. missed' < MaxMissed' => missed < MaxMissed
  BY <1>1 DEF MaxMissed
<1> QED BY <1>1, <1>2, <1>3 DEF BeatInv, BeatFollowsTick

LEMMA BeatInvNext == BeatInv /\ [Next]_vars => BeatInv'
<1> SUFFICES ASSUME BeatInv, [Next]_vars PROVE BeatInv'
  OBVIOUS
<1>1. TypeInv /\ TypeInv'
  BY TypeInvNext DEF BeatInv
<1>2. CASE TakeTick
  BY <1>1, <1>2, TakeTickKeepsBeat DEF BeatInv
<1>3. CASE LoseHeartbeat
  BY <1>1, <1>3, LoseHeartbeatKeepsBeat DEF BeatInv
<1>4. CASE ReceiveHeartbeat
  <2>1. pc["cronjob"] # pc'["cronjob"] /\ pc'["cronjob"] = "beaten"
    BY <1>1, <1>4, BeatTypes DEF ReceiveHeartbeat, GoTo, Importers
  <2>2. Unheard' = 0 /\ beatAge' = 0 /\ untilTick' = untilTick
    BY <1>4, <2>1 DEF ReceiveHeartbeat, Unheard
  <2> QED BY <1>1, <2>2, BeatTypes DEF BeatInv, BeatFollowsTick
<1>5. CASE Tick
  <2>1. Unheard' = Unheard /\ missed' = missed /\ untilTick' = untilTick - 1
          /\ beatAge' \in {beatAge, beatAge + 1}
    BY <1>5 DEF Tick, Unheard
  <2>2. PICK bound : bound = Interval * (1 + Unheard)
    OBVIOUS
  <2>3. bound \in Int
    BY <1>1, <2>2, BeatTypes
  <2> QED BY <1>1, <2>1, <2>2, <2>3, BeatTypes DEF BeatInv, BeatFollowsTick, MaxMissed
<1>6. ASSUME UNCHANGED <<untilTick, beatAge, missed>>,
             pc["cronjob"] = "beat" <=> pc'["cronjob"] = "beat"
      PROVE  BeatInv'
  BY <1>1, <1>6 DEF BeatInv, BeatFollowsTick, Unheard, MaxMissed
<1>7. TakeTick \/ LoseHeartbeat \/ ReceiveHeartbeat \/ Tick
        \/ (UNCHANGED <<untilTick, beatAge, missed>>
             /\ (pc["cronjob"] = "beat" <=> pc'["cronjob"] = "beat"))
  <2>1. pc \in [Importers -> {"wait", "beat", "beaten", "list", "next", "asked", "heard"}]
    BY <1>1, BeatTypes
  <2> USE <2>1 DEF GoTo, Importers, clocks, heart
  <2>2. CASE UNCHANGED vars
    BY <2>2 DEF vars
  <2>3. CASE CronStep
    BY <2>3 DEF CronStep, EndHeartbeat, ListTorrents, AskNext, FinishImport, Hear, HearNothing,
                EndOfWait, WriteFigure, EndOfWrite, AfterWrite, Loop
  <2>4. CASE ReaderStep \/ AskForReader
    BY <2>4 DEF ReaderStep, AskForReader, Hear, HearNothing, EndOfWait, WriteFigure, EndOfWrite
  <2>5. CASE DatabaseFails
    BY <2>5 DEF DatabaseFails, FailToList, FailToWrite, EndOfWrite, AfterWrite, Loop
  <2>6. CASE Tick \/ SwarmChanges \/ TrackerChanges
    BY <2>6 DEF SwarmChanges, TrackerChanges
  <2>7. CASE (\E h \in Hashes : Upload(h)) \/ (\E t \in torrents : Delete(t))
    BY <2>7 DEF Upload, Delete
  <2> QED BY <2>2, <2>3, <2>4, <2>5, <2>6, <2>7 DEF Next
<1> QED BY <1>2, <1>3, <1>4, <1>5, <1>6, <1>7

\* The container looks dead only when a tick is overdue by more than the margin, or
\* would be if it were due as many intervals earlier as there are ticks whose
\* heartbeats failed or hang: imports that last no longer than an interval and the
\* margin never add up to that
\* (console/cronjobs/tracker_statistics_importer.rs, health_check_handler and the
\* error of send_heartbeat that the loop logs).
THEOREM OnlyOverdueImportersAreUnhealthy == Spec => []UnhealthyMeansOverdue
<1>1. BeatInv => UnhealthyMeansOverdue
  <2> SUFFICES ASSUME BeatInv, ~ Healthy PROVE untilTick - Interval * Unheard < -Margin
    BY DEF UnhealthyMeansOverdue
  <2>1. PICK n : n = Unheard
    OBVIOUS
  <2>2. /\ untilTick \in Int /\ beatAge \in Nat /\ n \in Nat /\ missed \in Nat /\ n >= missed
        /\ Interval \in Nat /\ Interval > 0 /\ Margin \in Nat /\ MaxMissed = Margin + 2
        /\ missed <= MaxMissed /\ untilTick <= Interval /\ beatAge > Interval + Margin
    BY <2>1, BeatTypes DEF BeatInv, BeatFollowsTick, Healthy
  <2>3. Interval * (1 + n) = Interval + Interval * n /\ Interval * n \in Int
    BY <2>2
  <2>4. CASE missed < MaxMissed
    <3>1. beatAge + untilTick <= Interval * (1 + n)
      BY <2>1, <2>4 DEF BeatInv, BeatFollowsTick
    <3> QED BY <2>1, <2>2, <2>3, <3>1
  <2>5. CASE ~ (missed < MaxMissed)
    <3>1. n >= Margin + 2
      BY <2>2, <2>5
    <3>2. Interval * n = (Interval - 1) * (n - 1) + (Interval - 1) + n
      BY <2>2
    <3>3. (Interval - 1) * (n - 1) >= 0 /\ (Interval - 1) * (n - 1) \in Int
      BY <2>2, <3>1
    <3> QED BY <2>1, <2>2, <2>3, <3>1, <3>2, <3>3
  <2> QED BY <2>4, <2>5
<1> QED BY <1>1, BeatInvInit, BeatInvNext, PTL DEF Spec

-----------------------------------------------------------------------------
(* The upgrade: the order of rows *)

HIDE StatisticsAssumption

\* ORDER BY the key: each row comes once.
LEMMA RowsInOrder ==
  ASSUME NEW rows, Keyed(rows)
  PROVE  /\ Cardinality(rows) \in Nat
         /\ InOrder(rows) \in [1 .. Cardinality(rows) -> rows]
         /\ \A r \in rows : \E i \in 1 .. Cardinality(rows) : InOrder(rows)[i] = r
         /\ \A i, j \in 1 .. Cardinality(rows) :
              InOrder(rows)[i] = InOrder(rows)[j] => i = j
<1>1. PICK n : n = Cardinality(rows)
  OBVIOUS
<1>2. IsFiniteSet(rows) /\ n \in Nat
  BY <1>1, FS_CardinalityType DEF Keyed
<1>3. ASSUME NEW r \in rows
      PROVE  /\ IsFiniteSet({q \in rows : q.id < r.id})
             /\ Rank(r, rows) \in 0 .. n - 1
  <2> DEFINE before == {q \in rows : q.id < r.id}
  <2>1. before \in SUBSET rows /\ r \notin before
    BY DEF Keyed
  <2>2. /\ IsFiniteSet(before) /\ Cardinality(before) <= n
        /\ n = Cardinality(before) => rows = before
    BY <1>1, <1>2, <2>1, FS_Subset
  <2>3. Cardinality(before) \in Nat
    BY <2>2, FS_CardinalityType
  <2>4. Cardinality(before) # n
    BY <2>1, <2>2
  <2> QED BY <1>2, <2>2, <2>3, <2>4 DEF Rank
<1>4. ASSUME NEW q \in rows, NEW r \in rows, q.id < r.id PROVE Rank(q, rows) < Rank(r, rows)
  <2> DEFINE A == {p \in rows : p.id < q.id}
             B == {p \in rows : p.id < r.id}
  <2>1. q \in B /\ q \notin A /\ A \in SUBSET B
    BY <1>4 DEF Keyed
  <2>2. IsFiniteSet(A) /\ IsFiniteSet(B)
    BY <1>3
  <2>3. Cardinality(A) <= Cardinality(B) /\ (Cardinality(B) = Cardinality(A) => B = A)
    BY <2>1, <2>2, FS_Subset
  <2>4. Cardinality(A) \in Nat /\ Cardinality(B) \in Nat
    BY <2>2, FS_CardinalityType
  <2>5. Cardinality(A) < Cardinality(B)
    BY <2>1, <2>3, <2>4
  <2> QED BY <2>5 DEF Rank
<1>5. ASSUME NEW q \in rows, NEW r \in rows, Rank(q, rows) = Rank(r, rows) PROVE q = r
  <2>1. q.id \in Nat /\ r.id \in Nat /\ (q.id = r.id => q = r)
    BY DEF Keyed
  <2>2. Rank(q, rows) \in 0 .. n - 1
    BY <1>3
  <2>3. ~(q.id < r.id) /\ ~(r.id < q.id)
    BY <1>2, <1>4, <1>5, <2>2
  <2> QED BY <2>1, <2>3
<1> DEFINE rank == [r \in rows |-> Rank(r, rows)]
<1>6. rank \in Surjection(rows, 0 .. n - 1)
  <2>1. IsFiniteSet(0 .. n - 1) /\ Cardinality(0 .. n - 1) = n
    BY <1>2, FS_Interval
  <2>2. rank \in Injection(rows, 0 .. n - 1)
    BY <1>3, <1>5 DEF Injection, IsInjective
  <2> HIDE DEF rank
  <2>3. PICK places : places = 0 .. n - 1
    OBVIOUS
  <2>4. rank \in Injection(rows, places) /\ IsFiniteSet(places)
    BY <2>1, <2>2, <2>3
  <2>5. Cardinality(rows) = Cardinality(places) <=> rank \in Surjection(rows, places)
    BY <2>4, FS_Injection
  <2> QED BY <1>1, <2>1, <2>3, <2>5
<1>7. \A m \in 0 .. n - 1 : \E r \in rows : Rank(r, rows) = m
  BY <1>6 DEF Surjection
<1>8. ASSUME NEW i \in 1 .. n
      PROVE  InOrder(rows)[i] \in rows /\ Rank(InOrder(rows)[i], rows) = i - 1
  <2>1. i - 1 \in 0 .. n - 1
    BY <1>2
  <2>2. \E r \in rows : Rank(r, rows) = i - 1
    BY <1>7, <2>1
  <2>3. InOrder(rows)[i] = CHOOSE r \in rows : Rank(r, rows) = i - 1
    BY <1>1 DEF InOrder
  <2> QED BY <2>2, <2>3
<1>9. InOrder(rows) \in [1 .. n -> rows]
  <2>1. InOrder(rows) = [i \in 1 .. n |-> InOrder(rows)[i]]
    BY <1>1 DEF InOrder
  <2> QED BY <1>8, <2>1
<1>10. ASSUME NEW r \in rows PROVE \E i \in 1 .. n : InOrder(rows)[i] = r
  <2>1. PICK m \in 0 .. n - 1 : m = Rank(r, rows)
    BY <1>3
  <2>2. m + 1 \in 1 .. n /\ (m + 1) - 1 = m
    BY <1>2
  <2>3. InOrder(rows)[m + 1] \in rows /\ Rank(InOrder(rows)[m + 1], rows) = m
    BY <1>8, <2>2
  <2>4. InOrder(rows)[m + 1] = r
    BY <1>5, <2>1, <2>3
  <2> QED BY <2>2, <2>4
<1>11. ASSUME NEW i \in 1 .. n, NEW j \in 1 .. n, InOrder(rows)[i] = InOrder(rows)[j]
       PROVE  i = j
  <2>1. i - 1 = j - 1
    BY <1>8, <1>11
  <2> QED BY <1>2, <2>1
<1> QED BY <1>1, <1>2, <1>9, <1>10, <1>11

\* What is done for each row, one row after the other.
LEMMA ForEachRow ==
  ASSUME NEW S, NEW T, NEW rows, NEW f \in [rows -> Seq(S)], Keyed(rows),
         \A r \in rows : Once(T, f[r]),
         \A q, r \in rows : q # r => ToSet(f[q]) \intersect ToSet(f[r]) \intersect T = {}
  PROVE  /\ ForEach(rows, f) \in Seq(S)
         /\ ToSet(ForEach(rows, f)) = UNION {ToSet(f[r]) : r \in rows}
         /\ Once(T, ForEach(rows, f))
<1>1. PICK n, ordered, ss :
        /\ n = Cardinality(rows)
        /\ ordered = InOrder(rows)
        /\ ss = [i \in 1 .. n |-> f[ordered[i]]]
  OBVIOUS
<1>2. /\ n \in Nat /\ ordered \in [1 .. n -> rows]
      /\ \A r \in rows : \E i \in 1 .. n : ordered[i] = r
      /\ \A i, j \in 1 .. n : ordered[i] = ordered[j] => i = j
  BY <1>1, RowsInOrder
<1>3. /\ ss \in [1 .. n -> Seq(S)]
      /\ \A i \in 1 .. n : ordered[i] \in rows /\ ss[i] = f[ordered[i]]
  BY <1>1, <1>2
<1>4. ss \in Seq(Seq(S)) /\ Len(ss) = n
  BY <1>2, <1>3
<1>5. ForEach(rows, f) = FlattenSeq(ss)
  BY <1>1 DEF ForEach
<1>6. FlattenSeq(ss) \in Seq(S) /\ ToSet(FlattenSeq(ss)) = UNION {ToSet(ss[i]) : i \in 1 .. n}
  BY <1>4, FlattenElements
<1>7. UNION {ToSet(ss[i]) : i \in 1 .. n} = UNION {ToSet(f[r]) : r \in rows}
  <2>1. ASSUME NEW i \in 1 .. n PROVE ToSet(ss[i]) \in {ToSet(f[r]) : r \in rows}
    BY <1>3
  <2>2. ASSUME NEW r \in rows PROVE ToSet(f[r]) \in {ToSet(ss[i]) : i \in 1 .. n}
    BY <1>2, <1>3
  <2> QED BY <2>1, <2>2
<1>8. Once(T, FlattenSeq(ss))
  <2>1. \A i \in 1 .. Len(ss) : Once(T, ss[i])
    BY <1>3, <1>4
  <2>2. \A i, j \in 1 .. Len(ss) :
          i # j => ToSet(ss[i]) \intersect ToSet(ss[j]) \intersect T = {}
    BY <1>2, <1>3, <1>4
  <2> QED BY <1>4, <2>1, <2>2, FlattenOnce
<1> QED BY <1>5, <1>6, <1>7, <1>8

-----------------------------------------------------------------------------
(* What the statements of an upgrade are *)

\* The statement that copies a row; only details are inserted without unwrap.
StatementOf(t, r) ==
  [do |-> "insert", table |-> t, row |-> r, unwrap |-> t \notin Details]

StatementsFor(t, rows) == {StatementOf(t, r) : r \in rows}

\* Every row of the image, and of them the statements whose row a table can hold.
AllCopies(s) == UNION {StatementsFor(t, Image(s)[t]) : t \in Tables}
Copies(s) == {x \in AllCopies(s) : IsRow(x.table, x.row)}

Requirement == [do : {"require"}, holds : BOOLEAN]
Truncation == {Truncate(t) : t \in Tables}

CopyStatement(s) == Requirement \union Copies(s)

Holds(v) == \A x \in ToSet(v) : x.do = "require" => x.holds

\* Statements that copy X, each row once: all of it unless a requirement fails.
Transfers(v, s, X) ==
  /\ v \in Seq(CopyStatement(s))
  /\ Once(Copies(s), v)
  /\ ToSet(v) \intersect Copies(s) \subseteq X
  /\ Holds(v) => X \subseteq ToSet(v)

LEMMA StatementFields ==
  ASSUME NEW t, NEW r
  PROVE  /\ StatementOf(t, r).do = "insert" /\ StatementOf(t, r).table = t
         /\ StatementOf(t, r).row = r /\ StatementOf(t, r).unwrap = (t \notin Details)
         /\ t \notin Details => Insert(t, r) = StatementOf(t, r)
         /\ t \in Details => TryInsert(t, r) = StatementOf(t, r)
BY DEF StatementOf, Insert, TryInsert

LEMMA CopiesInsert ==
  ASSUME NEW s, NEW x \in AllCopies(s)
  PROVE  /\ x.do = "insert" /\ x.table \in Tables /\ x.row \in Image(s)[x.table]
         /\ x = StatementOf(x.table, x.row)
<1>1. PICK t \in Tables : \E r \in Image(s)[t] : x = StatementOf(t, r)
  BY DEF AllCopies, StatementsFor
<1>2. PICK r \in Image(s)[t] : x = StatementOf(t, r)
  BY <1>1
<1> QED BY <1>2, StatementFields

LEMMA RequirementsDiffer ==
  ASSUME NEW s, NEW x \in Requirement
  PROVE  x.do = "require" /\ x \notin AllCopies(s) /\ x \notin Copies(s)
BY CopiesInsert DEF Requirement, Copies

\* A copy is determined by its table and its row.
LEMMA ACopy ==
  ASSUME NEW s, NEW t \in Tables, NEW r \in Image(s)[t], IsRow(t, r)
  PROVE  StatementOf(t, r) \in Copies(s)
<1>1. StatementOf(t, r) \in StatementsFor(t, Image(s)[t])
  BY DEF StatementsFor
<1>2. StatementOf(t, r) \in AllCopies(s)
  BY <1>1 DEF AllCopies
<1> QED BY <1>2, StatementFields DEF Copies

\* One part of an upgrade after another.
LEMMA TransferBoth ==
  ASSUME NEW s, NEW u, NEW v, NEW X, NEW Y,
         Transfers(u, s, X), Transfers(v, s, Y), X \intersect Y = {}
  PROVE  Transfers(u \o v, s, X \union Y)
<1>1. /\ u \in Seq(CopyStatement(s)) /\ v \in Seq(CopyStatement(s))
      /\ Once(Copies(s), u) /\ Once(Copies(s), v)
      /\ ToSet(u) \intersect Copies(s) \subseteq X
      /\ ToSet(v) \intersect Copies(s) \subseteq Y
  BY DEF Transfers
<1>2. u \o v \in Seq(CopyStatement(s))
  BY <1>1, ConcatProperties
<1>3. ToSet(u \o v) = ToSet(u) \union ToSet(v)
  BY <1>1, ElementsOfConcat
<1>4. ToSet(u) \intersect ToSet(v) \intersect Copies(s) = {}
  BY <1>1
<1>5. Once(Copies(s), u \o v)
  BY <1>1, <1>4, ConcatOnce
<1>6. Holds(u \o v) => Holds(u) /\ Holds(v)
  BY <1>3 DEF Holds
<1>7. Holds(u \o v) => X \union Y \subseteq ToSet(u \o v)
  BY <1>3, <1>6 DEF Transfers
<1> QED BY <1>1, <1>2, <1>3, <1>5, <1>7 DEF Transfers

LEMMA TransferNothing == ASSUME NEW s PROVE Transfers(<<>>, s, {})
<1>1. <<>> \in Seq(CopyStatement(s)) /\ DOMAIN <<>> = {}
  BY EmptySeq
<1>2. ToSet(<<>>) = {}
  BY <1>1 DEF ToSet
<1> QED BY <1>1, <1>2 DEF Transfers, Once

\* A row of the image, a requirement.
LEMMA TransferOne ==
  ASSUME NEW s, NEW x \in Copies(s)
  PROVE  Transfers(<<x>>, s, {x})
<1>1. <<x>> \in Seq(CopyStatement(s)) /\ Len(<<x>>) = 1 /\ ToSet(<<x>>) = {x}
  BY OneElement DEF CopyStatement
<1>2. DOMAIN <<x>> = 1 .. 1
  BY <1>1, LenProperties
<1>3. Once(Copies(s), <<x>>)
  BY <1>2 DEF Once
<1> QED BY <1>1, <1>3 DEF Transfers

LEMMA TransferThree ==
  ASSUME NEW s, NEW x \in Copies(s), NEW y \in Copies(s), NEW z \in Copies(s),
         x # y, x # z, y # z
  PROVE  Transfers(<<x, y, z>>, s, {x, y, z})
<1>1. PICK v : v = <<x, y, z>>
  OBVIOUS
<1>2. DOMAIN v = 1 .. 3 /\ v[1] = x /\ v[2] = y /\ v[3] = z /\ Len(v) = 3
  BY <1>1
<1>3. \A i \in 1 .. 3 : i = 1 \/ i = 2 \/ i = 3
  OBVIOUS
<1>4. v \in Seq(CopyStatement(s))
  BY <1>1 DEF CopyStatement
<1>5. ToSet(v) = {x, y, z}
  BY <1>2, <1>3 DEF ToSet
<1>6. Once(Copies(s), v)
  BY <1>2, <1>3 DEF Once
<1> QED BY <1>1, <1>4, <1>5, <1>6 DEF Transfers

LEMMA TransferRequire ==
  ASSUME NEW s, NEW b \in BOOLEAN
  PROVE  /\ Transfers(<<Require(b)>>, s, {})
         /\ Holds(<<Require(b)>>) => b
<1>1. Require(b) \in Requirement /\ Require(b).holds = b
  BY DEF Require, Requirement
<1>2. /\ <<Require(b)>> \in Seq(CopyStatement(s)) /\ Len(<<Require(b)>>) = 1
      /\ ToSet(<<Require(b)>>) = {Require(b)}
  BY <1>1, OneElement DEF CopyStatement
<1>3. DOMAIN <<Require(b)>> = 1 .. 1
  BY <1>2, LenProperties
<1>4. Once(Copies(s), <<Require(b)>>)
  BY <1>3 DEF Once
<1>5. ToSet(<<Require(b)>>) \intersect Copies(s) = {}
  BY <1>1, <1>2, RequirementsDiffer
<1>6. Holds(<<Require(b)>>) => b
  BY <1>1, <1>2, RequirementsDiffer DEF Holds
<1> QED BY <1>2, <1>4, <1>5, <1>6 DEF Transfers

\* Each row is copied by statements of its own.
TransfersEach(f, s, rows, X) ==
  /\ Keyed(rows) /\ f = [r \in rows |-> f[r]]
  /\ \A r \in rows : Transfers(f[r], s, X[r])
  /\ \A q, r \in rows : q # r => X[q] \intersect X[r] = {}

LEMMA TransferForEach ==
  ASSUME NEW s, NEW rows, NEW f, NEW X, TransfersEach(f, s, rows, X)
  PROVE  Transfers(ForEach(rows, f), s, UNION {X[r] : r \in rows})
<1> USE DEF TransfersEach
<1>1. f \in [rows -> Seq(CopyStatement(s))]
  BY DEF Transfers
<1>2. \A r \in rows : Once(Copies(s), f[r])
  BY DEF Transfers
<1>3. \A q, r \in rows :
        q # r => ToSet(f[q]) \intersect ToSet(f[r]) \intersect Copies(s) = {}
  BY DEF Transfers
<1>4. /\ ForEach(rows, f) \in Seq(CopyStatement(s))
      /\ ToSet(ForEach(rows, f)) = UNION {ToSet(f[r]) : r \in rows}
      /\ Once(Copies(s), ForEach(rows, f))
  BY <1>1, <1>2, <1>3, ForEachRow
<1>5. ToSet(ForEach(rows, f)) \intersect Copies(s) \subseteq UNION {X[r] : r \in rows}
  BY <1>4 DEF Transfers
<1>6. ASSUME Holds(ForEach(rows, f)), NEW r \in rows PROVE X[r] \subseteq ToSet(f[r])
  <2>1. ToSet(f[r]) \subseteq ToSet(ForEach(rows, f))
    BY <1>4
  <2>2. Holds(f[r])
    BY <1>6, <2>1 DEF Holds
  <2> QED BY <2>2 DEF Transfers
<1>7. Holds(ForEach(rows, f)) => UNION {X[r] : r \in rows} \subseteq ToSet(ForEach(rows, f))
  BY <1>4, <1>6
<1> QED BY <1>4, <1>5, <1>7 DEF Transfers

-----------------------------------------------------------------------------
(* What each part of an upgrade copies *)

LEMMA RowFields ==
  ASSUME NEW id, NEW refs, NEW columns
  PROVE  /\ Row(id, refs, columns).id = id /\ Row(id, refs, columns).refs = refs
         /\ Row(id, refs, columns).columns = columns
         /\ DOMAIN Row(id, refs, columns) = {"id", "refs", "columns"}
BY DEF Row

LEMMA ImageOfSettings ==
  ASSUME NEW s
  PROVE  /\ Image(s)["categories"] = {CategoryRow(c) : c \in s.categories}
         /\ Image(s)["users"] = {UserRow(u) : u \in s.users}
         /\ Image(s)["profiles"] = {ProfileRow(u) : u \in s.users}
         /\ Image(s)["authentication"] = {PasswordRow(u) : u \in s.users}
         /\ Image(s)["tracker_keys"] = {KeyRow(k) : k \in s.keys}
BY DEF Image, Tables

LEMMA ImageOfTorrents ==
  ASSUME NEW s
  PROVE  /\ Image(s)["torrents"] = {TorrentRow(s, r) : r \in s.torrents}
         /\ Image(s)["files"] = UNION {ToSet(FileRows(r)) : r \in s.torrents}
         /\ Image(s)["info"] = {InfoRow(r) : r \in s.torrents}
         /\ Image(s)["announce_urls"] = UNION {ToSet(UrlRows(r)) : r \in s.torrents}
BY DEF Image, Tables

LEMMA ImageOfOthers ==
  ASSUME NEW s
  PROVE  /\ Image(s)["tags"] = {} /\ Image(s)["tag_links"] = {}
         /\ Image(s)["tracker_stats"] = {} /\ Image(s)["info_hashes"] = {}
BY DEF Image, Tables

LEMMA CategoriesTransferred ==
  ASSUME NEW s \in Sources
  PROVE  Transfers(transfer_categories(s), s,
                   StatementsFor("categories", Image(s)["categories"]))
<1> DEFINE x(c) == StatementOf("categories", CategoryRow(c))
           X == [c \in s.categories |-> {x(c)}]
           f == [c \in s.categories |-> <<Insert("categories", CategoryRow(c))>>]
<1>1. Keyed(s.categories)
  BY UpgraderAssumption
<1>2. ASSUME NEW c \in s.categories
      PROVE  Transfers(f[c], s, X[c]) /\ X[c] = {x(c)} /\ CategoryRow(c).id = c.id
  <2>1. IsRow("categories", CategoryRow(c)) /\ CategoryRow(c).id = c.id
    BY RowFields DEF CategoryRow, IsRow
  <2>2. CategoryRow(c) \in Image(s)["categories"] /\ "categories" \in Tables
    BY ImageOfSettings DEF Tables
  <2>3. x(c) \in Copies(s)
    BY <2>1, <2>2, ACopy
  <2>4. f[c] = <<x(c)>>
    BY StatementFields DEF Details
  <2> QED BY <2>1, <2>3, <2>4, TransferOne
<1>3. ASSUME NEW b \in s.categories, NEW c \in s.categories, b # c
      PROVE  X[b] \intersect X[c] = {}
  <2>1. CategoryRow(b) # CategoryRow(c)
    BY <1>1, <1>2, <1>3 DEF Keyed
  <2>2. x(b) # x(c)
    BY <2>1, StatementFields
  <2> HIDE DEF x, X
  <2> QED BY <1>2, <2>2
<1>4. UNION {X[c] : c \in s.categories}
        = StatementsFor("categories", Image(s)["categories"])
  <2>1. StatementsFor("categories", Image(s)["categories"]) = {x(c) : c \in s.categories}
    BY ImageOfSettings DEF StatementsFor
  <2> HIDE DEF x
  <2> QED BY <2>1
<1>5. f = [c \in s.categories |-> f[c]]
  OBVIOUS
<1>6. transfer_categories(s) = ForEach(s.categories, f)
  BY DEF transfer_categories
<1> HIDE DEF x, X, f
<1>7. Transfers(ForEach(s.categories, f), s, UNION {X[c] : c \in s.categories})
  <2>1. TransfersEach(f, s, s.categories, X)
    BY <1>1, <1>2, <1>3, <1>5 DEF TransfersEach
  <2> QED BY ONLY <2>1, TransferForEach
<1> QED BY <1>4, <1>6, <1>7

LEMMA KeysTransferred ==
  ASSUME NEW s \in Sources
  PROVE  Transfers(transfer_tracker_keys(s), s,
                   StatementsFor("tracker_keys", Image(s)["tracker_keys"]))
<1> DEFINE x(k) == StatementOf("tracker_keys", KeyRow(k))
           X == [k \in s.keys |-> {x(k)}]
           f == [k \in s.keys |-> <<Insert("tracker_keys", KeyRow(k))>>]
<1>1. Keyed(s.keys)
  BY UpgraderAssumption
<1>2. ASSUME NEW k \in s.keys
      PROVE  Transfers(f[k], s, X[k]) /\ X[k] = {x(k)} /\ KeyRow(k).id = k.id
  <2>1. IsRow("tracker_keys", KeyRow(k)) /\ KeyRow(k).id = k.id
    BY RowFields DEF KeyRow, IsRow, References, Tables
  <2>2. KeyRow(k) \in Image(s)["tracker_keys"] /\ "tracker_keys" \in Tables
    BY ImageOfSettings DEF Tables
  <2>3. x(k) \in Copies(s)
    BY <2>1, <2>2, ACopy
  <2>4. f[k] = <<x(k)>>
    BY StatementFields DEF Details
  <2> QED BY <2>1, <2>3, <2>4, TransferOne
<1>3. ASSUME NEW j \in s.keys, NEW k \in s.keys, j # k
      PROVE  X[j] \intersect X[k] = {}
  <2>1. KeyRow(j) # KeyRow(k)
    BY <1>1, <1>2, <1>3 DEF Keyed
  <2>2. x(j) # x(k)
    BY <2>1, StatementFields
  <2> HIDE DEF x, X
  <2> QED BY <1>2, <2>2
<1>4. UNION {X[k] : k \in s.keys} = StatementsFor("tracker_keys", Image(s)["tracker_keys"])
  <2>1. StatementsFor("tracker_keys", Image(s)["tracker_keys"]) = {x(k) : k \in s.keys}
    BY ImageOfSettings DEF StatementsFor
  <2> HIDE DEF x
  <2> QED BY <2>1
<1>5. f = [k \in s.keys |-> f[k]]
  OBVIOUS
<1> DEFINE allHaveUsers == \A k \in s.keys : k.user # NULL
<1>6. transfer_tracker_keys(s) = <<Require(allHaveUsers)>> \o ForEach(s.keys, f)
  BY DEF transfer_tracker_keys
<1>7. allHaveUsers \in BOOLEAN
  OBVIOUS
<1> HIDE DEF X, f, allHaveUsers
<1>8. Transfers(ForEach(s.keys, f), s, UNION {X[k] : k \in s.keys})
  <2>1. TransfersEach(f, s, s.keys, X)
    BY <1>1, <1>2, <1>3, <1>5 DEF TransfersEach
  <2> QED BY ONLY <2>1, TransferForEach
<1>9. Transfers(<<Require(allHaveUsers)>>, s, {})
  BY <1>7, TransferRequire
<1>10. PICK all : all = UNION {X[k] : k \in s.keys}
  OBVIOUS
<1>11. Transfers(<<Require(allHaveUsers)>> \o ForEach(s.keys, f), s, {} \union all)
  BY <1>8, <1>9, <1>10, TransferBoth
<1> QED BY <1>4, <1>6, <1>10, <1>11

LEMMA UsersTransferred ==
  ASSUME NEW s \in Sources
  PROVE  Transfers(transfer_users(s), s,
                   StatementsFor("users", Image(s)["users"])
                     \union StatementsFor("profiles", Image(s)["profiles"])
                     \union StatementsFor("authentication", Image(s)["authentication"]))
<1> DEFINE x(u) == StatementOf("users", UserRow(u))
           y(u) == StatementOf("profiles", ProfileRow(u))
           z(u) == StatementOf("authentication", PasswordRow(u))
           X == [u \in s.users |-> ({x(u)} \union {y(u)}) \union {z(u)}]
           f == [u \in s.users |-> <<Insert("users", UserRow(u)),
                                     Insert("profiles", ProfileRow(u)),
                                     Insert("authentication", PasswordRow(u))>>]
<1>1. Keyed(s.users)
  BY UpgraderAssumption
<1>2. ASSUME NEW u \in s.users
      PROVE  /\ Transfers(f[u], s, X[u]) /\ X[u] = {x(u), y(u), z(u)}
             /\ UserRow(u).id = u.id /\ ProfileRow(u).id = u.id /\ PasswordRow(u).id = u.id
  <2>1. /\ IsRow("users", UserRow(u)) /\ UserRow(u).id = u.id
        /\ IsRow("profiles", ProfileRow(u)) /\ ProfileRow(u).id = u.id
        /\ IsRow("authentication", PasswordRow(u)) /\ PasswordRow(u).id = u.id
    BY RowFields DEF UserRow, ProfileRow, PasswordRow, IsRow, References, Tables
  <2>2. /\ UserRow(u) \in Image(s)["users"] /\ "users" \in Tables
        /\ ProfileRow(u) \in Image(s)["profiles"] /\ "profiles" \in Tables
        /\ PasswordRow(u) \in Image(s)["authentication"] /\ "authentication" \in Tables
    BY ImageOfSettings DEF Tables
  <2>3. x(u) \in Copies(s) /\ y(u) \in Copies(s) /\ z(u) \in Copies(s)
    BY <2>1, <2>2, ACopy
  <2>4. f[u] = <<x(u), y(u), z(u)>>
    BY StatementFields DEF Details
  <2>5. x(u) # y(u) /\ x(u) # z(u) /\ y(u) # z(u)
    BY StatementFields
  <2>6. Transfers(<<x(u), y(u), z(u)>>, s, {x(u), y(u), z(u)})
    <3> HIDE DEF x, y, z
    <3> QED BY <2>3, <2>5, TransferThree
  <2>7. X[u] = {x(u), y(u), z(u)}
    OBVIOUS
  <2> HIDE DEF x, y, z, X, f
  <2> QED BY <2>1, <2>4, <2>6, <2>7
<1>3. ASSUME NEW t \in s.users, NEW u \in s.users, t # u
      PROVE  X[t] \intersect X[u] = {}
  <2>1. UserRow(t) # UserRow(u) /\ ProfileRow(t) # ProfileRow(u)
        /\ PasswordRow(t) # PasswordRow(u)
    <3>1. t.id # u.id
      BY <1>1, <1>3 DEF Keyed
    <3>2. /\ UserRow(t).id # UserRow(u).id /\ ProfileRow(t).id # ProfileRow(u).id
          /\ PasswordRow(t).id # PasswordRow(u).id
      BY <1>2, <3>1
    <3> QED BY <3>2
  <2>2. x(t) # x(u) /\ y(t) # y(u) /\ z(t) # z(u)
    BY <2>1, StatementFields
  <2>3. /\ x(t) # y(u) /\ x(t) # z(u) /\ y(t) # x(u)
        /\ y(t) # z(u) /\ z(t) # x(u) /\ z(t) # y(u)
    BY StatementFields
  <2> HIDE DEF x, y, z, X
  <2> QED BY <1>2, <2>2, <2>3
<1>4. UNION {X[u] : u \in s.users}
        = StatementsFor("users", Image(s)["users"])
            \union StatementsFor("profiles", Image(s)["profiles"])
            \union StatementsFor("authentication", Image(s)["authentication"])
  <2>1. /\ StatementsFor("users", Image(s)["users"]) = {x(u) : u \in s.users}
        /\ StatementsFor("profiles", Image(s)["profiles"]) = {y(u) : u \in s.users}
        /\ StatementsFor("authentication", Image(s)["authentication"])
             = {z(u) : u \in s.users}
    BY ImageOfSettings DEF StatementsFor
  <2>2. \A u \in s.users : X[u] = {x(u), y(u), z(u)}
    BY <1>2
  <2> HIDE DEF x, y, z, X
  <2>3. \A e : e \in UNION {X[u] : u \in s.users}
          <=> \E u \in s.users : e = x(u) \/ e = y(u) \/ e = z(u)
    BY <2>2
  <2>4. \A e : e \in ({x(u) : u \in s.users} \union {y(u) : u \in s.users})
                     \union {z(u) : u \in s.users}
          <=> \E u \in s.users : e = x(u) \/ e = y(u) \/ e = z(u)
    OBVIOUS
  <2>5. UNION {X[u] : u \in s.users}
          = ({x(u) : u \in s.users} \union {y(u) : u \in s.users})
              \union {z(u) : u \in s.users}
    BY <2>3, <2>4
  <2> QED BY <2>1, <2>5
<1>5. f = [u \in s.users |-> f[u]]
  OBVIOUS
<1>6. transfer_users(s) = ForEach(s.users, f)
  BY DEF transfer_users
<1> HIDE DEF X, f
<1>7. Transfers(ForEach(s.users, f), s, UNION {X[u] : u \in s.users})
  <2>1. TransfersEach(f, s, s.users, X)
    BY <1>1, <1>2, <1>3, <1>5 DEF TransfersEach
  <2> QED BY ONLY <2>1, TransferForEach
<1> QED BY <1>4, <1>6, <1>7

-----------------------------------------------------------------------------
(* What the part of a torrent copies *)

LEMMA PartFields ==
  ASSUME NEW t, NEW i, NEW columns
  PROVE  /\ Part(t, i, columns).id = <<t.id, i>>
         /\ Part(t, i, columns).columns = columns
         /\ IsRow("files", Part(t, i, columns))
         /\ columns # NULL => IsRow("announce_urls", Part(t, i, columns))
BY RowFields DEF Part, IsRow, References, Tables

\* The place in the torrent tells its parts apart.
PlacedIn(rows, t) ==
  /\ Len(rows) \in Nat /\ rows \in Seq(ToSet(rows)) /\ DOMAIN rows = 1 .. Len(rows)
  /\ \A i \in 1 .. Len(rows) : rows[i].id = <<t.id, i>>

\* Functions on the first numbers are sequences of their values.
LEMMA SequenceOfPlaces ==
  ASSUME NEW n \in Nat, NEW rows, NEW t, rows = [i \in 1 .. n |-> rows[i]],
         \A i \in 1 .. n : rows[i].id = <<t.id, i>>
  PROVE  PlacedIn(rows, t) /\ Len(rows) = n
<1>1. DOMAIN rows = 1 .. n
  OBVIOUS
<1>2. \A i \in 1 .. n : rows[i] \in ToSet(rows)
  BY <1>1 DEF ToSet
<1>3. rows \in [1 .. n -> ToSet(rows)]
  BY <1>2
<1>4. rows \in Seq(ToSet(rows)) /\ Len(rows) = n
  <2>1. PICK R : R = ToSet(rows)
    OBVIOUS
  <2>2. rows \in Seq(R)
    BY <1>3, <2>1
  <2> QED BY <1>1, <2>1, <2>2, LenProperties
<1> QED BY <1>1, <1>4 DEF PlacedIn

LEMMA FilesInPlace ==
  ASSUME NEW t, IsTorrentFile(t.file)
  PROVE  /\ PlacedIn(FileRows(t), t)
         /\ \A r \in ToSet(FileRows(t)) : IsRow("files", r)
<1>1. PICK rows : rows = FileRows(t)
  OBVIOUS
<1>2. CASE t.file.files = NULL
  <2>1. rows = <<Part(t, 1, NULL)>>
    BY <1>1, <1>2 DEF FileRows
  <2>2. rows = [i \in 1 .. 1 |-> rows[i]] /\ rows[1] = Part(t, 1, NULL) /\ DOMAIN rows = 1 .. 1
    BY <2>1
  <2>3. \A i \in 1 .. 1 : rows[i] = Part(t, i, NULL)
    BY <2>2
  <2>4. \A i \in 1 .. 1 : rows[i].id = <<t.id, i>> /\ IsRow("files", rows[i])
    BY <2>3, PartFields
  <2>5. PlacedIn(rows, t)
    BY <2>2, <2>4, SequenceOfPlaces
  <2>6. \A r \in ToSet(rows) : IsRow("files", r)
    BY <2>2, <2>4 DEF ToSet
  <2> QED BY <1>1, <2>5, <2>6
<1>3. CASE t.file.files # NULL
  <2>1. PICK n : n = Len(t.file.files)
    OBVIOUS
  <2>2. n \in Nat
    BY <1>3, <2>1, LenProperties DEF IsTorrentFile
  <2>3. rows = [i \in 1 .. n |-> Part(t, i, t.file.files[i])]
    BY <1>1, <1>3, <2>1 DEF FileRows
  <2>4. rows = [i \in 1 .. n |-> rows[i]] /\ DOMAIN rows = 1 .. n
    BY <2>3
  <2>5. \A i \in 1 .. n : rows[i] = Part(t, i, t.file.files[i])
    BY <2>3
  <2>6. \A i \in 1 .. n : rows[i].id = <<t.id, i>> /\ IsRow("files", rows[i])
    BY <2>5, PartFields
  <2>7. PlacedIn(rows, t)
    BY <2>2, <2>4, <2>6, SequenceOfPlaces
  <2>8. \A r \in ToSet(rows) : IsRow("files", r)
    BY <2>4, <2>6 DEF ToSet
  <2> QED BY <1>1, <2>7, <2>8
<1> QED BY <1>2, <1>3

LEMMA UrlsAreTexts ==
  ASSUME NEW file, IsTorrentFile(file)
  PROVE  AnnounceUrls(file) \in Seq(Text)
<1>1. CASE file.announce_list # NULL
  <2>1. file.announce_list \in Seq(Seq(Text))
    BY <1>1 DEF IsTorrentFile
  <2>2. AnnounceUrls(file) = FlattenSeq(file.announce_list)
    BY <1>1 DEF AnnounceUrls
  <2> QED BY <2>1, <2>2, FlattenElements
<1>2. CASE file.announce_list = NULL /\ file.announce # NULL
  <2>1. file.announce \in Text /\ AnnounceUrls(file) = <<file.announce>>
    BY <1>2 DEF IsTorrentFile, AnnounceUrls
  <2> QED BY <2>1, OneElement
<1>3. CASE file.announce_list = NULL /\ file.announce = NULL
  BY <1>3, EmptySeq DEF AnnounceUrls
<1> QED BY <1>1, <1>2, <1>3

LEMMA UrlsInPlace ==
  ASSUME NEW t, IsTorrentFile(t.file)
  PROVE  /\ PlacedIn(UrlRows(t), t)
         /\ \A r \in ToSet(UrlRows(t)) : IsRow("announce_urls", r)
<1>1. PICK rows, urls, n :
        rows = UrlRows(t) /\ urls = AnnounceUrls(t.file) /\ n = Len(urls)
  OBVIOUS
<1>2. n \in Nat /\ \A i \in 1 .. n : urls[i] # NULL
  <2>1. urls \in Seq(Text)
    BY <1>1, UrlsAreTexts
  <2>2. n \in Nat /\ \A i \in 1 .. n : urls[i] \in Text
    BY <1>1, <2>1, LenProperties, ElementOfSeq
  <2> QED BY <2>2, UpgraderAssumption
<1>3. rows = [i \in 1 .. n |-> Part(t, i, urls[i])]
  BY <1>1 DEF UrlRows
<1>4. rows = [i \in 1 .. n |-> rows[i]] /\ DOMAIN rows = 1 .. n
  BY <1>3
<1>5. \A i \in 1 .. n : rows[i] = Part(t, i, urls[i])
  BY <1>3
<1>6. \A i \in 1 .. n : rows[i].id = <<t.id, i>> /\ IsRow("announce_urls", rows[i])
  BY <1>2, <1>5, PartFields
<1>7. PlacedIn(rows, t)
  BY <1>2, <1>4, <1>6, SequenceOfPlaces
<1>8. \A r \in ToSet(rows) : IsRow("announce_urls", r)
  BY <1>4, <1>6 DEF ToSet
<1> QED BY <1>1, <1>7, <1>8

\* Parts belong to their torrent, whatever the file holds.
LEMMA PartsBelong ==
  ASSUME NEW t
  PROVE  \A r \in ToSet(FileRows(t)) \union ToSet(UrlRows(t)) : \E i : r.id = <<t.id, i>>
<1>1. ASSUME NEW r \in ToSet(FileRows(t)) PROVE \E i : r.id = <<t.id, i>>
  <2>1. CASE t.file.files = NULL
    <3>1. ToSet(FileRows(t)) = {Part(t, 1, NULL)}
      BY <2>1, OneElement DEF FileRows
    <3> QED BY <3>1, PartFields
  <2>2. CASE t.file.files # NULL
    <3>1. FileRows(t) = [i \in 1 .. Len(t.file.files) |-> Part(t, i, t.file.files[i])]
      BY <2>2 DEF FileRows
    <3>2. PICK i \in 1 .. Len(t.file.files) : r = Part(t, i, t.file.files[i])
      BY <3>1 DEF ToSet
    <3> QED BY <3>2, PartFields
  <2> QED BY <2>1, <2>2
<1>2. ASSUME NEW r \in ToSet(UrlRows(t)) PROVE \E i : r.id = <<t.id, i>>
  <2>1. PICK i \in 1 .. Len(AnnounceUrls(t.file)) : r = Part(t, i, AnnounceUrls(t.file)[i])
    BY DEF UrlRows, ToSet
  <2> QED BY <2>1, PartFields
<1> QED BY <1>1, <1>2

\* The files of a torrent, or its trackers.
LEMMA PartsTransferred ==
  ASSUME NEW s, NEW t, NEW table \in Tables, table \in Details, NEW rows,
         PlacedIn(rows, t), \A r \in ToSet(rows) : IsRow(table, r),
         ToSet(rows) \subseteq Image(s)[table]
  PROVE  Transfers(TryInsertAll(table, rows), s, StatementsFor(table, ToSet(rows)))
<1>1. PICK n, v : n = Len(rows) /\ v = TryInsertAll(table, rows)
  OBVIOUS
<1>2. /\ n \in Nat /\ DOMAIN rows = 1 .. n
      /\ \A i \in 1 .. n : rows[i].id = <<t.id, i>> /\ rows[i] \in ToSet(rows)
  BY <1>1 DEF PlacedIn, ToSet
<1>3. v = [i \in 1 .. n |-> TryInsert(table, rows[i])]
  BY <1>1 DEF TryInsertAll
<1>4. DOMAIN v = 1 .. n /\ \A i \in 1 .. n : v[i] = StatementOf(table, rows[i])
  BY <1>3, StatementFields
<1>5. \A i \in 1 .. n : v[i] \in Copies(s)
  BY <1>2, <1>4, ACopy
<1>6. v \in Seq(CopyStatement(s))
  <2>1. v \in [1 .. n -> CopyStatement(s)]
    BY <1>3, <1>4, <1>5 DEF CopyStatement
  <2> QED BY <1>2, <2>1
<1>7. ToSet(v) = StatementsFor(table, ToSet(rows))
  BY <1>2, <1>4 DEF ToSet, StatementsFor
<1>8. ASSUME NEW i \in 1 .. n, NEW j \in 1 .. n, v[i] = v[j] PROVE i = j
  <2>1. rows[i] = rows[j]
    BY <1>4, <1>8, StatementFields
  <2>2. <<t.id, i>> = <<t.id, j>>
    BY <1>2, <2>1
  <2> QED BY <2>2
<1>9. Once(Copies(s), v)
  BY <1>4, <1>8 DEF Once
<1> QED BY <1>1, <1>6, <1>7, <1>9 DEF Transfers

-----------------------------------------------------------------------------
(* What the whole upgrade copies *)

\* The row of a torrent, its files, its title and its trackers.
CopiesOf(s, t) ==
  (({StatementOf("torrents", TorrentRow(s, t))}
      \union StatementsFor("files", ToSet(FileRows(t))))
    \union {StatementOf("info", InfoRow(t))})
  \union StatementsFor("announce_urls", ToSet(UrlRows(t)))

TorrentTables == {"torrents", "files", "info", "announce_urls"}

LEMMA CopiesOfTorrent ==
  ASSUME NEW s, NEW t, NEW x \in CopiesOf(s, t)
  PROVE  /\ x.table \in TorrentTables
         /\ x.table \in {"torrents", "info"} => x.row.id = t.id
         /\ x.table \in {"files", "announce_urls"} => \E i : x.row.id = <<t.id, i>>
<1>1. CASE x = StatementOf("torrents", TorrentRow(s, t))
  <2>1. TorrentRow(s, t).id = t.id
    BY RowFields DEF TorrentRow
  <2> QED BY <1>1, <2>1, StatementFields DEF TorrentTables
<1>2. CASE x = StatementOf("info", InfoRow(t))
  <2>1. InfoRow(t).id = t.id
    BY RowFields DEF InfoRow
  <2> QED BY <1>2, <2>1, StatementFields DEF TorrentTables
<1>3. ASSUME NEW r \in ToSet(FileRows(t)), x = StatementOf("files", r)
      PROVE  x.table = "files" /\ \E i : x.row.id = <<t.id, i>>
  BY <1>3, PartsBelong, StatementFields
<1>4. ASSUME NEW r \in ToSet(UrlRows(t)), x = StatementOf("announce_urls", r)
      PROVE  x.table = "announce_urls" /\ \E i : x.row.id = <<t.id, i>>
  BY <1>4, PartsBelong, StatementFields
<1> QED BY <1>1, <1>2, <1>3, <1>4 DEF CopiesOf, StatementsFor, TorrentTables

\* Torrents have no copy in common: their keys differ.
LEMMA TorrentsApart ==
  ASSUME NEW s, NEW t, NEW q, t.id # q.id
  PROVE  CopiesOf(s, t) \intersect CopiesOf(s, q) = {}
<1>1. SUFFICES ASSUME NEW x \in CopiesOf(s, t), x \in CopiesOf(s, q) PROVE FALSE
  OBVIOUS
<1>2. CASE x.table \in {"torrents", "info"}
  BY <1>1, <1>2, CopiesOfTorrent
<1>3. CASE x.table \in {"files", "announce_urls"}
  <2>1. PICK i : x.row.id = <<t.id, i>>
    BY <1>3, CopiesOfTorrent
  <2>2. PICK j : x.row.id = <<q.id, j>>
    BY <1>1, <1>3, CopiesOfTorrent
  <2>3. <<t.id, i>>[1] = <<q.id, j>>[1]
    BY <2>1, <2>2
  <2> QED BY <2>3
<1> QED BY <1>2, <1>3, CopiesOfTorrent DEF TorrentTables

LEMMA TorrentTransferred ==
  ASSUME NEW s \in Sources, NEW t \in s.torrents
  PROVE  Transfers(transfer_torrent(s, t), s, CopiesOf(s, t))
<1> DEFINE known == \E u \in s.users : u.username = t.uploader
           present == t.file # NULL
           first == <<Require(known), Require(present)>>
<1>1. /\ Transfers(first, s, {})
      /\ Holds(first) => known /\ present
  <2>1. known \in BOOLEAN /\ present \in BOOLEAN
    OBVIOUS
  <2> HIDE DEF known, present
  <2>2. PICK a, b : a = Require(known) /\ b = Require(present)
    OBVIOUS
  <2>3. /\ a \in Requirement /\ b \in Requirement /\ a.holds = known /\ b.holds = present
        /\ a.do = "require" /\ b.do = "require"
    BY <2>1, <2>2 DEF Require, Requirement
  <2>4. PICK v : v = <<a, b>>
    OBVIOUS
  <2>5. DOMAIN v = 1 .. 2 /\ v[1] = a /\ v[2] = b /\ \A i \in 1 .. 2 : i = 1 \/ i = 2
    BY <2>4
  <2>6. v \in Seq(CopyStatement(s))
    BY <2>3, <2>4 DEF CopyStatement
  <2>7. ToSet(v) = {a, b}
    BY <2>5 DEF ToSet
  <2>8. a \notin Copies(s) /\ b \notin Copies(s)
    BY <2>3, RequirementsDiffer
  <2>9. Once(Copies(s), v)
    BY <2>5, <2>8 DEF Once
  <2>10. Holds(v) => known /\ present
    BY <2>3, <2>7 DEF Holds
  <2>11. v = first
    BY <2>2, <2>4
  <2>12. Transfers(v, s, {})
    BY <2>6, <2>7, <2>8, <2>9 DEF Transfers
  <2> QED BY <2>10, <2>11, <2>12
<1>2. CASE ~(known /\ present)
  <2>1. transfer_torrent(s, t) = first \o <<>>
    BY <1>2 DEF transfer_torrent
  <2> HIDE DEF known, present, first
  <2>2. first \o <<>> = first
    BY <1>1, ConcatEmptySeq DEF Transfers
  <2>3. ~Holds(first)
    BY <1>1, <1>2
  <2>4. Transfers(first, s, CopiesOf(s, t))
    BY <1>1, <2>3 DEF Transfers
  <2> QED BY <2>1, <2>2, <2>4
<1>3. CASE known /\ present
  <2> DEFINE row == StatementOf("torrents", TorrentRow(s, t))
             title == StatementOf("info", InfoRow(t))
             second == <<Require(t.file.root_hash = NULL), Insert("torrents", TorrentRow(s, t))>>
             files == TryInsertAll("files", FileRows(t))
             third == <<TryInsert("info", InfoRow(t))>>
             urls == TryInsertAll("announce_urls", UrlRows(t))
             whole == ((second \o files) \o third) \o urls
  <2>1. transfer_torrent(s, t) = first \o whole
    BY <1>3 DEF transfer_torrent
  <2>2. IsTorrentFile(t.file)
    BY <1>3, UpgraderAssumption
  <2>3. row \in Copies(s) /\ title \in Copies(s)
    <3>1. IsRow("torrents", TorrentRow(s, t)) /\ IsRow("info", InfoRow(t))
      BY RowFields DEF TorrentRow, InfoRow, IsRow, References, Tables
    <3>2. /\ TorrentRow(s, t) \in Image(s)["torrents"] /\ "torrents" \in Tables
          /\ InfoRow(t) \in Image(s)["info"] /\ "info" \in Tables
      BY ImageOfTorrents DEF Tables
    <3> QED BY <3>1, <3>2, ACopy
  <2>4. third = <<title>> /\ Insert("torrents", TorrentRow(s, t)) = row
    BY StatementFields DEF Details
  <2>5. Transfers(second, s, {row})
    <3>1. PICK b : b = (t.file.root_hash = NULL)
      OBVIOUS
    <3>2. b \in BOOLEAN /\ second = <<Require(b), row>>
      BY <2>4, <3>1
    <3> HIDE DEF second, row
    <3>3. Require(b) \in Requirement /\ Require(b) \notin Copies(s)
      <4>1. Require(b) \in Requirement
        BY <3>2 DEF Require, Requirement
      <4> QED BY <4>1, RequirementsDiffer
    <3>4. PICK a : a = Require(b)
      OBVIOUS
    <3>5. PICK v : v = <<a, row>>
      OBVIOUS
    <3>6. DOMAIN v = 1 .. 2 /\ v[1] = a /\ v[2] = row /\ \A i \in 1 .. 2 : i = 1 \/ i = 2
      BY <3>5
    <3>7. v \in Seq(CopyStatement(s))
      BY <2>3, <3>3, <3>4, <3>5 DEF CopyStatement
    <3>8. ToSet(v) = {a, row}
      BY <3>6 DEF ToSet
    <3>9. Once(Copies(s), v)
      BY <2>3, <3>3, <3>4, <3>6 DEF Once
    <3>10. Transfers(v, s, {row})
      BY <3>3, <3>4, <3>7, <3>8, <3>9 DEF Transfers
    <3> QED BY <3>2, <3>4, <3>5, <3>10
  <2>6. Transfers(files, s, StatementsFor("files", ToSet(FileRows(t))))
    <3>1. ToSet(FileRows(t)) \subseteq Image(s)["files"]
      BY ImageOfTorrents
    <3>2. "files" \in Tables /\ "files" \in Details
      BY DEF Tables, Details
    <3> QED BY <2>2, <3>1, <3>2, FilesInPlace, PartsTransferred
  <2>7. Transfers(urls, s, StatementsFor("announce_urls", ToSet(UrlRows(t))))
    <3>1. ToSet(UrlRows(t)) \subseteq Image(s)["announce_urls"]
      BY ImageOfTorrents
    <3>2. "announce_urls" \in Tables /\ "announce_urls" \in Details
      BY DEF Tables, Details
    <3> QED BY <2>2, <3>1, <3>2, UrlsInPlace, PartsTransferred
  <2>8. Transfers(third, s, {title})
    BY <2>3, <2>4, TransferOne
  <2>9. PICK F, U : /\ F = StatementsFor("files", ToSet(FileRows(t)))
                    /\ U = StatementsFor("announce_urls", ToSet(UrlRows(t)))
    OBVIOUS
  <2>10. /\ row.table = "torrents" /\ title.table = "info"
         /\ \A x \in F : x.table = "files"
         /\ \A x \in U : x.table = "announce_urls"
    BY <2>9, StatementFields DEF StatementsFor
  <2> HIDE DEF row, title, second, files, third, urls
  <2>11. Transfers(second \o files, s, {row} \union F)
    BY <2>5, <2>6, <2>9, <2>10, TransferBoth
  <2>12. Transfers((second \o files) \o third, s, ({row} \union F) \union {title})
    BY <2>8, <2>10, <2>11, TransferBoth
  <2>13. Transfers(whole, s, (({row} \union F) \union {title}) \union U)
    BY <2>7, <2>9, <2>10, <2>12, TransferBoth
  <2>14. (({row} \union F) \union {title}) \union U = CopiesOf(s, t)
    BY <2>9 DEF row, title, CopiesOf
  <2>15. Transfers(first \o whole, s, {} \union CopiesOf(s, t))
    <3> HIDE DEF whole, first, known, present
    <3> QED BY <1>1, <2>13, <2>14, TransferBoth
  <2> QED BY <2>1, <2>15
<1> QED BY <1>2, <1>3

LEMMA TorrentsTransferred ==
  ASSUME NEW s \in Sources
  PROVE  Transfers(transfer_torrents(s), s, UNION {CopiesOf(s, t) : t \in s.torrents})
<1> DEFINE f == [t \in s.torrents |-> transfer_torrent(s, t)]
           X == [t \in s.torrents |-> CopiesOf(s, t)]
<1>1. Keyed(s.torrents)
  BY UpgraderAssumption
<1>2. \A t \in s.torrents : Transfers(f[t], s, X[t]) /\ X[t] = CopiesOf(s, t)
  BY TorrentTransferred
<1>3. \A q, t \in s.torrents : q # t => X[q] \intersect X[t] = {}
  <2>1. \A q, t \in s.torrents : q # t => q.id # t.id
    BY <1>1 DEF Keyed
  <2> QED BY <1>2, <2>1, TorrentsApart
<1>4. f = [t \in s.torrents |-> f[t]] /\ transfer_torrents(s) = ForEach(s.torrents, f)
  BY DEF transfer_torrents
<1>5. UNION {X[t] : t \in s.torrents} = UNION {CopiesOf(s, t) : t \in s.torrents}
  OBVIOUS
<1> HIDE DEF f, X
<1>6. Transfers(ForEach(s.torrents, f), s, UNION {X[t] : t \in s.torrents})
  <2>1. TransfersEach(f, s, s.torrents, X)
    BY <1>1, <1>2, <1>3, <1>4 DEF TransfersEach
  <2> QED BY ONLY <2>1, TransferForEach
<1> QED BY <1>4, <1>5, <1>6

LEMMA AllTorrentCopies ==
  ASSUME NEW s
  PROVE  UNION {CopiesOf(s, t) : t \in s.torrents}
           = ((StatementsFor("torrents", Image(s)["torrents"])
                 \union StatementsFor("files", Image(s)["files"]))
                 \union StatementsFor("info", Image(s)["info"]))
                 \union StatementsFor("announce_urls", Image(s)["announce_urls"])
<1> DEFINE A == StatementsFor("torrents", Image(s)["torrents"])
           F == StatementsFor("files", Image(s)["files"])
           I == StatementsFor("info", Image(s)["info"])
           U == StatementsFor("announce_urls", Image(s)["announce_urls"])
<1>1. A = {StatementOf("torrents", TorrentRow(s, t)) : t \in s.torrents}
  BY ImageOfTorrents DEF StatementsFor
<1>2. I = {StatementOf("info", InfoRow(t)) : t \in s.torrents}
  BY ImageOfTorrents DEF StatementsFor
<1>3. F = UNION {StatementsFor("files", ToSet(FileRows(t))) : t \in s.torrents}
  BY ImageOfTorrents DEF StatementsFor
<1>4. U = UNION {StatementsFor("announce_urls", ToSet(UrlRows(t))) : t \in s.torrents}
  BY ImageOfTorrents DEF StatementsFor
<1> HIDE DEF A, F, I, U
<1>5. ASSUME NEW t \in s.torrents, NEW x \in CopiesOf(s, t)
      PROVE  x \in A \/ x \in F \/ x \in I \/ x \in U
  BY <1>1, <1>2, <1>3, <1>4 DEF CopiesOf
<1>6. ASSUME NEW x, x \in A \/ x \in F \/ x \in I \/ x \in U
      PROVE  \E t \in s.torrents : x \in CopiesOf(s, t)
  BY <1>1, <1>2, <1>3, <1>4, <1>6 DEF CopiesOf
<1>7. UNION {CopiesOf(s, t) : t \in s.torrents} = ((A \union F) \union I) \union U
  BY <1>5, <1>6
<1> QED BY <1>7 DEF A, F, I, U

\* What an upgrade does once the tables are empty.
copying(s) ==
  transfer_categories(s) \o transfer_users(s) \o transfer_tracker_keys(s)
    \o transfer_torrents(s)

LEMMA AllTransferred ==
  ASSUME NEW s \in Sources
  PROVE  Transfers(copying(s), s, AllCopies(s))
<1> DEFINE For(t) == StatementsFor(t, Image(s)[t])
<1>1. PICK C, U, P, A, K, T :
        /\ C = For("categories") /\ U = For("users") /\ P = For("profiles")
        /\ A = For("authentication") /\ K = For("tracker_keys")
        /\ T = UNION {CopiesOf(s, t) : t \in s.torrents}
  OBVIOUS
<1>2. /\ Transfers(transfer_categories(s), s, C)
      /\ Transfers(transfer_users(s), s, U \union P \union A)
      /\ Transfers(transfer_tracker_keys(s), s, K)
      /\ Transfers(transfer_torrents(s), s, T)
  BY <1>1, CategoriesTransferred, UsersTransferred, KeysTransferred, TorrentsTransferred
<1>3. /\ \A x \in C : x.table = "categories"
      /\ \A x \in U : x.table = "users"
      /\ \A x \in P : x.table = "profiles"
      /\ \A x \in A : x.table = "authentication"
      /\ \A x \in K : x.table = "tracker_keys"
  BY <1>1, StatementFields DEF StatementsFor
<1>4. \A x \in T : x.table \in TorrentTables
  BY <1>1, CopiesOfTorrent
<1>5. C \intersect (U \union P \union A) = {}
  BY <1>3
<1>6. (C \union (U \union P \union A)) \intersect K = {}
  BY <1>3
<1>7. ((C \union (U \union P \union A)) \union K) \intersect T = {}
  BY <1>3, <1>4 DEF TorrentTables
<1>8. Transfers(transfer_categories(s) \o transfer_users(s), s, C \union (U \union P \union A))
  BY <1>2, <1>5, TransferBoth
<1>9. Transfers((transfer_categories(s) \o transfer_users(s)) \o transfer_tracker_keys(s), s,
                (C \union (U \union P \union A)) \union K)
  BY <1>2, <1>6, <1>8, TransferBoth
<1>10. Transfers(copying(s), s, ((C \union (U \union P \union A)) \union K) \union T)
  BY <1>2, <1>7, <1>9, TransferBoth DEF copying
<1>11. T = ((For("torrents") \union For("files")) \union For("info")) \union For("announce_urls")
  BY <1>1, AllTorrentCopies
<1>12. /\ For("tags") = {} /\ For("tag_links") = {} /\ For("tracker_stats") = {}
       /\ For("info_hashes") = {}
  BY ImageOfOthers DEF StatementsFor
<1>13. AllCopies(s) = UNION {For(t) : t \in Tables}
  BY DEF AllCopies
<1> HIDE DEF For
<1>14. UNION {For(t) : t \in Tables} = ((C \union (U \union P \union A)) \union K) \union T
  BY <1>1, <1>11, <1>12 DEF Tables
<1> QED BY <1>10, <1>13, <1>14

TruncatedTables == 12

LEMMA Truncations ==
  /\ Len(TABLES_TO_TRUNCATE) = TruncatedTables
  /\ \A i \in 1 .. TruncatedTables : TABLES_TO_TRUNCATE[i] \in Tables
  /\ \A t \in Tables : t # "info_hashes"
       => \E i \in 1 .. TruncatedTables : TABLES_TO_TRUNCATE[i] = t
<1>1. Len(TABLES_TO_TRUNCATE) = 12
  BY DEF TABLES_TO_TRUNCATE
<1>2. /\ TABLES_TO_TRUNCATE[1] = "announce_urls" /\ TABLES_TO_TRUNCATE[2] = "files"
      /\ TABLES_TO_TRUNCATE[3] = "info" /\ TABLES_TO_TRUNCATE[4] = "tag_links"
      /\ TABLES_TO_TRUNCATE[5] = "tracker_stats" /\ TABLES_TO_TRUNCATE[6] = "torrents"
      /\ TABLES_TO_TRUNCATE[7] = "tracker_keys" /\ TABLES_TO_TRUNCATE[8] = "authentication"
      /\ TABLES_TO_TRUNCATE[9] = "profiles" /\ TABLES_TO_TRUNCATE[10] = "users"
      /\ TABLES_TO_TRUNCATE[11] = "categories" /\ TABLES_TO_TRUNCATE[12] = "tags"
  BY DEF TABLES_TO_TRUNCATE
<1>3. \A i \in 1 .. 12 : \/ i = 1 \/ i = 2 \/ i = 3 \/ i = 4 \/ i = 5 \/ i = 6
                         \/ i = 7 \/ i = 8 \/ i = 9 \/ i = 10 \/ i = 11 \/ i = 12
  OBVIOUS
<1>4. \A i \in 1 .. 12 : TABLES_TO_TRUNCATE[i] \in Tables
  BY <1>2, <1>3 DEF Tables
<1>5. ASSUME NEW t \in Tables, t # "info_hashes"
      PROVE  \E i \in 1 .. 12 : TABLES_TO_TRUNCATE[i] = t
  BY <1>2, <1>5 DEF Tables
<1> QED BY <1>1, <1>4, <1>5 DEF TruncatedTables

\* The whole upgrade: the tables are emptied, then every row is copied once.
LEMMA UpgradeStatements ==
  ASSUME NEW s \in Sources
  PROVE  /\ upgrade(s) \in Seq(Truncation \union CopyStatement(s))
         /\ Len(upgrade(s)) \in Nat /\ TruncatedTables <= Len(upgrade(s))
         /\ \A i \in 1 .. TruncatedTables :
              upgrade(s)[i] = Truncate(TABLES_TO_TRUNCATE[i])
         /\ \A i \in 1 .. Len(upgrade(s)) :
              i > TruncatedTables => upgrade(s)[i] \in CopyStatement(s)
         /\ \A i, j \in 1 .. Len(upgrade(s)) :
              upgrade(s)[i] \in Copies(s) /\ upgrade(s)[i] = upgrade(s)[j] => i = j
         /\ (\A i \in 1 .. Len(upgrade(s)) :
               upgrade(s)[i].do = "require" => upgrade(s)[i].holds)
            => \A x \in AllCopies(s) : \E i \in 1 .. Len(upgrade(s)) : upgrade(s)[i] = x
<1> DEFINE S == Truncation \union CopyStatement(s)
<1>1. PICK t, c, u, k, m :
        /\ t = truncate_target_database /\ c = copying(s) /\ u = upgrade(s)
        /\ k = Len(c) /\ m = TruncatedTables
  OBVIOUS
<1>2. Transfers(c, s, AllCopies(s))
  BY <1>1, AllTransferred
<1>3. c \in Seq(CopyStatement(s)) /\ c \in Seq(S)
  BY <1>2 DEF Transfers
<1>4. m \in Nat /\ k \in Nat /\ DOMAIN c = 1 .. k
  BY <1>1, <1>3, LenProperties DEF TruncatedTables
<1>5. t = [i \in 1 .. m |-> Truncate(TABLES_TO_TRUNCATE[i])]
  BY <1>1, Truncations DEF truncate_target_database
<1>6. t \in Seq(S) /\ Len(t) = m /\ \A i \in 1 .. m : t[i] = Truncate(TABLES_TO_TRUNCATE[i])
  <2>1. t \in [1 .. m -> S]
    BY <1>1, <1>5, Truncations DEF Truncation
  <2> QED BY <1>4, <1>5, <2>1
<1>7. u = t \o c
  BY <1>1 DEF upgrade, copying
<1>8. /\ u \in Seq(S) /\ Len(u) = m + k
      /\ \A i \in 1 .. m + k : u[i] = IF i <= m THEN t[i] ELSE c[i - m]
  <2> HIDE DEF S
  <2> QED BY <1>1, <1>3, <1>6, <1>7, ConcatProperties
<1>9. \A i \in 1 .. m : u[i] = Truncate(TABLES_TO_TRUNCATE[i])
  BY <1>4, <1>6, <1>8
<1>10. \A i \in 1 .. m + k : i > m => i - m \in 1 .. k /\ u[i] = c[i - m]
  BY <1>4, <1>8
<1>11. \A i \in 1 .. m + k : i > m => u[i] \in CopyStatement(s)
  BY <1>1, <1>3, <1>10, ElementOfSeq
<1>12. \A i \in 1 .. m : u[i] \notin Copies(s)
  <2>1. ASSUME NEW i \in 1 .. m PROVE u[i].do = "truncate"
    <3>1. u[i] = Truncate(TABLES_TO_TRUNCATE[i])
      BY <1>9
    <3> QED BY <3>1 DEF Truncate
  <2> QED BY <2>1, CopiesInsert DEF Copies
<1>13. ASSUME NEW i \in 1 .. m + k, NEW j \in 1 .. m + k, u[i] \in Copies(s), u[i] = u[j]
       PROVE  i = j
  <2>1. i > m /\ j > m
    BY <1>4, <1>12, <1>13
  <2>2. i - m \in 1 .. k /\ j - m \in 1 .. k /\ c[i - m] = c[j - m] /\ c[i - m] \in Copies(s)
    BY <1>10, <1>13, <2>1
  <2>3. i - m = j - m
    BY <1>2, <1>4, <2>2 DEF Transfers, Once
  <2> QED BY <1>4, <2>3
<1>14. ASSUME NEW j \in 1 .. k PROVE m + j \in 1 .. m + k /\ u[m + j] = c[j]
  <2>1. m + j \in 1 .. m + k /\ ~(m + j <= m) /\ (m + j) - m = j
    BY <1>4
  <2> QED BY <1>8, <2>1
<1>15. ASSUME \A i \in 1 .. m + k : u[i].do = "require" => u[i].holds,
              NEW x \in AllCopies(s)
       PROVE  \E i \in 1 .. m + k : u[i] = x
  <2>1. Holds(c)
    BY <1>4, <1>14, <1>15 DEF Holds, ToSet
  <2>2. x \in ToSet(c)
    BY <1>2, <2>1 DEF Transfers
  <2>3. PICK j \in 1 .. k : x = c[j]
    BY <1>4, <2>2 DEF ToSet
  <2> QED BY <1>14, <2>3
<1>16. m + k \in Nat /\ m <= m + k
  BY <1>4
<1> QED BY <1>1, <1>8, <1>9, <1>11, <1>13, <1>15, <1>16

-----------------------------------------------------------------------------
(* The database *)

\* What foreign keys and NOT NULL guarantee.
Sound(db) ==
  /\ DOMAIN db = Tables
  /\ \A t \in Tables : \A r \in db[t] : IsRow(t, r) /\ \A ref \in r.refs : Exists(ref, db)

LEMMA ReferencesAreTables ==
  \A t \in Tables : References[t] \subseteq Tables
BY DEF References, Tables

\* The tables that others refer to are done before them.
LEMMA ReferencesOfReferences ==
  /\ References["users"] = {} /\ References["categories"] = {} /\ References["tags"] = {}
  /\ References["torrents"] = {"users", "categories"}
  /\ \A t \in Tables : References[t] \subseteq {"users", "categories", "tags", "torrents"}
BY DEF References, Tables

\* A cascade leaves nothing dangling and takes nothing else away.
LEMMA CascadeIsSound ==
  ASSUME NEW db, DOMAIN db = Tables, \A t \in Tables : \A r \in db[t] : IsRow(t, r)
  PROVE  /\ Sound(WithoutDangling(db))
         /\ \A t \in Tables : WithoutDangling(db)[t] \subseteq db[t]
<1>1. PICK one, two : one = DropDangling(db) /\ two = DropDangling(one)
  OBVIOUS
<1>2. /\ DOMAIN one = Tables /\ DOMAIN two = Tables
      /\ \A t \in Tables : one[t] = {r \in db[t] : \A ref \in r.refs : Exists(ref, db)}
      /\ \A t \in Tables : two[t] = {r \in one[t] : \A ref \in r.refs : Exists(ref, one)}
  BY <1>1 DEF DropDangling
<1>3. ASSUME NEW t \in Tables, NEW r \in db[t], NEW ref \in r.refs
      PROVE  ref[1] \in References[t]
  BY DEF IsRow
<1>4. \A t \in {"users", "categories", "tags"} : t \in Tables /\ one[t] = db[t] /\ two[t] = db[t]
  <2>1. ASSUME NEW t \in {"users", "categories", "tags"}
        PROVE  t \in Tables /\ one[t] = db[t] /\ two[t] = db[t]
    <3>1. t \in Tables /\ References[t] = {}
      BY ReferencesOfReferences DEF Tables
    <3>2. \A r \in db[t] : r.refs = {}
      BY <1>3, <3>1
    <3>3. one[t] = db[t]
      BY <1>2, <3>1, <3>2
    <3>4. \A r \in one[t] : r.refs = {}
      BY <3>2, <3>3
    <3>5. two[t] = {r \in one[t] : \A ref \in r.refs : Exists(ref, one)}
      BY <1>2, <3>1
    <3>6. two[t] = one[t]
      BY <3>4, <3>5
    <3> QED BY <3>1, <3>3, <3>6
  <2> QED BY <2>1
<1>5. "torrents" \in Tables /\ two["torrents"] = one["torrents"]
  <2>1. "torrents" \in Tables
    BY DEF Tables
  <2>2. ASSUME NEW r \in one["torrents"], NEW ref \in r.refs PROVE Exists(ref, one)
    <3>1. r \in db["torrents"] /\ Exists(ref, db)
      BY <1>2, <2>1, <2>2
    <3>2. ref[1] \in {"users", "categories"}
      BY <1>3, <2>1, <2>2, <3>1, ReferencesOfReferences
    <3>3. one[ref[1]] = db[ref[1]]
      BY <1>4, <3>2
    <3> QED BY <3>1, <3>3 DEF Exists
  <2> QED BY <1>2, <2>1, <2>2
<1>6. ASSUME NEW t \in Tables, NEW r \in two[t], NEW ref \in r.refs PROVE Exists(ref, two)
  <2>1. r \in one[t] /\ r \in db[t] /\ Exists(ref, one)
    BY <1>2, <1>6
  <2>2. ref[1] \in {"users", "categories", "tags", "torrents"}
    BY <1>3, <1>6, <2>1, ReferencesOfReferences
  <2>3. two[ref[1]] = one[ref[1]]
    BY <1>4, <1>5, <2>2
  <2> QED BY <2>1, <2>3 DEF Exists
<1>7. \A t \in Tables : two[t] \subseteq db[t]
  BY <1>2
<1> QED BY <1>1, <1>2, <1>6, <1>7 DEF Sound, WithoutDangling

\* The hashes go with the torrents.
LEMMA HashesGoWithTorrents ==
  ASSUME NEW db, Sound(db), db["torrents"] = {}
  PROVE  db["info_hashes"] = {}
<1>1. SUFFICES ASSUME NEW r \in db["info_hashes"] PROVE FALSE
  OBVIOUS
<1>2. /\ "info_hashes" \in Tables /\ References["info_hashes"] = {"torrents"}
      /\ IsRow("info_hashes", r) /\ \A ref \in r.refs : Exists(ref, db)
  BY DEF Sound, Tables, References
<1>3. PICK ref \in r.refs : ref[1] = "torrents"
  BY <1>2 DEF IsRow
<1> QED BY <1>2, <1>3 DEF Exists

-----------------------------------------------------------------------------
(* The inductive invariant *)

Done(n) == {upgrade(source)[i] : i \in 1 .. n}

\* The tables are emptied; then they hold what was copied, but for what was lost.
UpgradeProgress(n) ==
  /\ rest = RestAfter(n, source)
  /\ \A x \in Done(n) : x.do = "require" => x.holds
  /\ lost \subseteq Done(n) /\ \A x \in lost : x.do = "insert" /\ ~x.unwrap
  /\ n <= TruncatedTables => \A i \in 1 .. n : target[TABLES_TO_TRUNCATE[i]] = {}
  /\ n >= TruncatedTables =>
       \A t \in Tables : \A r : r \in target[t] <=> StatementOf(t, r) \in Done(n) \ lost

RunsAsTold ==
  status = "running" => \E n \in 0 .. Len(upgrade(source)) : UpgradeProgress(n)

UpgradeInv == UpgradeTypeOK /\ RunsAsTold /\ FinishedIsImage

LEMMA SoundTarget == UpgradeTypeOK => Sound(target)
BY DEF UpgradeTypeOK, Sound

\* The next statement, or none.
LEMMA NextStatement ==
  ASSUME source \in Sources, NEW n \in 0 .. Len(upgrade(source)),
         rest = RestAfter(n, source)
  PROVE  /\ rest # <<>> => /\ n + 1 \in 1 .. Len(upgrade(source))
                           /\ Head(rest) = upgrade(source)[n + 1]
                           /\ Tail(rest) = RestAfter(n + 1, source)
         /\ rest = <<>> => n = Len(upgrade(source))
<1>1. PICK u, m, S : u = upgrade(source) /\ m = Len(u) /\ S = Truncation \union CopyStatement(source)
  OBVIOUS
<1>2. u \in Seq(S) /\ m \in Nat /\ n \in Nat /\ n <= m
  BY <1>1, UpgradeStatements
<1>3. rest = SubSeq(u, n + 1, m)
  BY <1>1 DEF RestAfter
<1>4. CASE n = m
  <2>1. rest = <<>>
    BY <1>2, <1>3, <1>4, SubSeqEmpty
  <2> QED BY <1>1, <1>4, <2>1
<1>5. CASE n # m
  <2>1. n + 1 \in 1 .. m /\ m \in n + 1 .. m
    BY <1>2, <1>5
  <2>2. PICK k : k = n + 1
    OBVIOUS
  <2>3. k \in 1 .. Len(u) /\ m \in k .. Len(u) /\ Len(u) = m
    BY <1>1, <2>1, <2>2
  <2>4. Head(SubSeq(u, k, m)) = u[k] /\ Tail(SubSeq(u, k, m)) = SubSeq(u, k + 1, m)
    BY <1>2, <2>3, HeadTailOfSubSeq
  <2>5. rest # <<>>
    <3>1. \A i \in k .. m : u[i] \in S
      BY <1>2, <2>3, ElementOfSeq
    <3>2. Len(SubSeq(u, k, m)) = m - k + 1
      BY <1>2, <2>3, <3>1, SubSeqProperties
    <3>3. Len(rest) # 0
      BY <1>2, <1>3, <2>2, <2>3, <3>2
    <3> QED BY <3>3
  <2> QED BY <1>1, <1>3, <2>1, <2>2, <2>4, <2>5 DEF RestAfter
<1> QED BY <1>4, <1>5

LEMMA UpgradeInvInit == UpgradeInit => UpgradeInv
<1> SUFFICES ASSUME UpgradeInit PROVE UpgradeInv
  OBVIOUS
<1>1. source \in Sources /\ target = Migrated /\ status = "idle" /\ rest = <<>>
      /\ faults = [all |-> 0, now |-> 0]
  BY DEF UpgradeInit
<1>2. Sound(target)
  <2>1. DOMAIN Migrated = Tables
    BY DEF Migrated
  <2>2. ASSUME NEW t \in Tables, NEW r \in Migrated[t]
        PROVE  IsRow(t, r) /\ r.refs = {}
    <3>1. t = "categories" /\ r = [id |-> 1, refs |-> {}, columns |-> "movies"]
      BY <2>2 DEF Migrated
    <3> QED BY <3>1 DEF IsRow
  <2> QED BY <1>1, <2>1, <2>2 DEF Sound
<1>3. \E n \in 0 .. Len(upgrade(source)) : rest = RestAfter(n, source)
  <2>1. PICK m : m = Len(upgrade(source))
    OBVIOUS
  <2>2. m \in Nat
    BY <1>1, <2>1, UpgradeStatements
  <2>3. SubSeq(upgrade(source), m + 1, m) = <<>>
    BY <2>2, SubSeqEmpty
  <2>4. rest = RestAfter(m, source) /\ m \in 0 .. m
    BY <1>1, <2>1, <2>2, <2>3 DEF RestAfter
  <2> QED BY <2>1, <2>4
<1>4. 0 \in 0 .. MaxFaults
  BY UpgraderAssumption
<1> QED BY <1>1, <1>2, <1>3, <1>4
        DEF UpgradeInv, UpgradeTypeOK, Sound, RunsAsTold, FinishedIsImage

\* What is new in n + 1 statements.
LEMMA DoneOneMore ==
  ASSUME NEW n \in Nat
  PROVE  Done(n + 1) = Done(n) \union {upgrade(source)[n + 1]}
<1>1. \A i \in 1 .. n + 1 : i \in 1 .. n \/ i = n + 1
  OBVIOUS
<1>2. n + 1 \in 1 .. n + 1 /\ \A i \in 1 .. n : i \in 1 .. n + 1
  OBVIOUS
<1> QED BY <1>1, <1>2 DEF Done

\* The kinds of statements, and a copy that has not been done yet.
LEMMA KindsOfStatements ==
  ASSUME source \in Sources, NEW n \in 0 .. Len(upgrade(source)),
         n + 1 \in 1 .. Len(upgrade(source)), NEW x, x = upgrade(source)[n + 1]
  PROVE  /\ n < TruncatedTables => x = Truncate(TABLES_TO_TRUNCATE[n + 1])
         /\ n >= TruncatedTables =>
              \/ x \in Requirement
              \/ x \in Copies(source) /\ x \notin Done(n)
<1>1. PICK u, m : u = upgrade(source) /\ m = Len(u)
  OBVIOUS
<1>2. n \in Nat /\ m \in Nat /\ n + 1 \in 1 .. m /\ n <= m
  BY <1>1, UpgradeStatements
<1>3. CASE n < TruncatedTables
  <2>1. n + 1 \in 1 .. TruncatedTables
    BY <1>2, <1>3 DEF TruncatedTables
  <2>2. ~(n >= TruncatedTables)
    BY <1>2, <1>3 DEF TruncatedTables
  <2> QED BY <2>1, <2>2, UpgradeStatements
<1>4. CASE n >= TruncatedTables
  <2>1. n + 1 > TruncatedTables /\ ~(n < TruncatedTables)
    BY <1>2, <1>4 DEF TruncatedTables
  <2>2. x \in CopyStatement(source)
    BY <1>1, <1>2, <2>1, UpgradeStatements
  <2>3. ASSUME x \in Copies(source), NEW i \in 1 .. n, u[i] = x PROVE FALSE
    <3>1. i \in 1 .. m /\ i # n + 1 /\ u[i] = u[n + 1] /\ u[i] \in Copies(source)
      BY <1>1, <1>2, <2>3
    <3> QED BY <1>1, <1>2, <3>1, UpgradeStatements
  <2>4. x \in Copies(source) => x \notin Done(n)
    BY <1>1, <2>3 DEF Done
  <2> QED BY <2>1, <2>2, <2>4 DEF CopyStatement
<1> QED BY <1>2, <1>3, <1>4 DEF TruncatedTables

\* Only truncations are done before the first copy.
LEMMA NoCopyYet ==
  ASSUME source \in Sources, NEW t, NEW r
  PROVE  StatementOf(t, r) \notin Done(TruncatedTables)
<1>1. ASSUME NEW i \in 1 .. TruncatedTables PROVE upgrade(source)[i].do = "truncate"
  <2>1. upgrade(source)[i] = Truncate(TABLES_TO_TRUNCATE[i])
    BY UpgradeStatements
  <2> QED BY <2>1 DEF Truncate
<1> QED BY <1>1, StatementFields DEF Done

\* The target stays sound whatever statement succeeds.
LEMMA EffectIsSound ==
  ASSUME UpgradeTypeOK, NEW n \in 0 .. Len(upgrade(source)),
         n + 1 \in 1 .. Len(upgrade(source)), NEW x, x = upgrade(source)[n + 1], Succeeds(x)
  PROVE  Sound(Effect(x))
<1>1. source \in Sources /\ Sound(target) /\ DOMAIN target = Tables
  BY SoundTarget DEF UpgradeTypeOK
<1>2. n \in Nat /\ (n < TruncatedTables \/ n >= TruncatedTables)
  BY <1>1, UpgradeStatements DEF TruncatedTables
<1>3. CASE n < TruncatedTables
  <2>1. x = Truncate(TABLES_TO_TRUNCATE[n + 1])
    BY <1>1, <1>3, KindsOfStatements
  <2>2. PICK t : t = TABLES_TO_TRUNCATE[n + 1]
    OBVIOUS
  <2>3. x.do = "truncate" /\ x.table = t
    BY <2>1, <2>2 DEF Truncate
  <2>4. PICK db : db = [target EXCEPT ![t] = {}]
    OBVIOUS
  <2>5. DOMAIN db = Tables /\ \A q \in Tables : db[q] \subseteq target[q]
    BY <1>1, <2>4
  <2>6. \A q \in Tables : \A r \in db[q] : IsRow(q, r)
    BY <1>1, <2>5 DEF Sound
  <2>7. Effect(x) = WithoutDangling(db)
    BY <2>3, <2>4 DEF Effect
  <2> QED BY <2>5, <2>6, <2>7, CascadeIsSound
<1>4. CASE x \in Requirement
  BY <1>1, <1>4, RequirementsDiffer DEF Effect
<1>5. CASE x \in Copies(source)
  <2>1. /\ x.do = "insert" /\ x.table \in Tables /\ IsRow(x.table, x.row)
    BY <1>5, CopiesInsert DEF Copies
  <2>2. \A ref \in x.row.refs : Exists(ref, target)
    BY <1>5, <2>1 DEF Succeeds, CanInsert
  <2>3. PICK db : db = Effect(x)
    OBVIOUS
  <2>4. db = [target EXCEPT ![x.table] = @ \union {x.row}]
    BY <2>1, <2>3 DEF Effect
  <2>5. /\ DOMAIN db = Tables
        /\ \A t \in Tables : target[t] \subseteq db[t]
        /\ \A t \in Tables : \A r \in db[t] : r \in target[t] \/ (t = x.table /\ r = x.row)
    BY <1>1, <2>1, <2>4
  <2>6. ASSUME NEW t \in Tables, NEW r \in db[t], NEW ref \in r.refs PROVE Exists(ref, target)
    BY <1>1, <2>2, <2>5, <2>6 DEF Sound
  <2>7. \A t \in Tables : \A r \in db[t] : IsRow(t, r)
    BY <1>1, <2>1, <2>5 DEF Sound
  <2>8. ASSUME NEW t \in Tables, NEW r \in db[t], NEW ref \in r.refs PROVE Exists(ref, db)
    <3>1. ref[1] \in Tables
      BY <2>7, <2>8, ReferencesAreTables DEF IsRow
    <3>2. target[ref[1]] \subseteq db[ref[1]]
      BY <2>5, <3>1
    <3>3. Exists(ref, target)
      BY <2>6, <2>8
    <3> QED BY <3>2, <3>3 DEF Exists
  <2> QED BY <2>3, <2>5, <2>7, <2>8 DEF Sound
<1> QED BY <1>1, <1>2, <1>3, <1>4, <1>5, KindsOfStatements

\* A run starts at the first statement.
LEMMA StartKeepsInv == UpgradeInv /\ Start => UpgradeInv'
<1> SUFFICES ASSUME UpgradeInv, Start PROVE UpgradeInv'
  OBVIOUS
<1>1. /\ source' = source /\ target' = target /\ status' = "running"
      /\ rest' = upgrade(source) /\ lost' = {} /\ faults' = [faults EXCEPT !.now = 0]
  BY DEF Start
<1>2. source \in Sources /\ Sound(target) /\ Sound(target)'
  <2>1. source \in Sources /\ Sound(target)
    BY SoundTarget DEF UpgradeInv, UpgradeTypeOK
  <2> QED BY <1>1, <2>1 DEF Sound, Exists
<1>3. PICK u, S : u = upgrade(source) /\ S = Truncation \union CopyStatement(source)
  OBVIOUS
<1>4. u \in Seq(S) /\ Len(u) \in Nat
  BY <1>2, <1>3, UpgradeStatements
<1>5. SubSeq(u, 1, Len(u)) = u
  BY <1>4, SubSeqFull
<1>6. RestAfter(0, source) = upgrade(source) /\ 0 \in 0 .. Len(upgrade(source))
  <2>1. 0 + 1 = 1
    OBVIOUS
  <2> QED BY <1>3, <1>4, <1>5, <2>1 DEF RestAfter
<1>7. (rest = RestAfter(0, source))'
  BY <1>1, <1>6 DEF RestAfter
<1>8. UpgradeProgress(0)'
  <2>1. Done(0)' = {}
    BY DEF Done
  <2>2. 0 <= TruncatedTables /\ ~(0 >= TruncatedTables)
    BY DEF TruncatedTables
  <2> QED BY <1>1, <1>7, <2>1, <2>2 DEF UpgradeProgress
<1>9. 0 \in 0 .. Len(upgrade(source))'
  BY <1>1, <1>6
<1>10. /\ faults' = [faults EXCEPT !.now = 0] /\ faults.all \in 0 .. MaxFaults
  BY <1>1 DEF UpgradeInv, UpgradeTypeOK
<1>11. faults.all' \in 0 .. MaxFaults /\ faults.now' \in 0 .. faults.all'
  <2>1. faults' = faults \/ (faults'.all = faults.all /\ faults'.now = 0)
    BY <1>10
  <2> QED BY <1>10, <2>1, UpgraderAssumption DEF UpgradeInv, UpgradeTypeOK
<1>12. UpgradeTypeOK'
  BY <1>1, <1>2, <1>7, <1>9, <1>11 DEF UpgradeTypeOK, Sound
<1>13. RunsAsTold'
  BY <1>8, <1>9 DEF RunsAsTold
<1>14. FinishedIsImage'
  BY <1>1 DEF FinishedIsImage
<1> QED BY <1>12, <1>13, <1>14 DEF UpgradeInv

\* Where a run is, and what it does next.
LEMMA WhereItRuns ==
  ASSUME UpgradeInv, status = "running", rest # <<>>
  PROVE  \E n \in Nat :
           /\ UpgradeProgress(n) /\ n \in 0 .. Len(upgrade(source))
           /\ n + 1 \in 0 .. Len(upgrade(source)) /\ n + 1 \in 1 .. Len(upgrade(source))
           /\ Head(rest) = upgrade(source)[n + 1]
           /\ Tail(rest) = RestAfter(n + 1, source)
<1>1. source \in Sources
  BY DEF UpgradeInv, UpgradeTypeOK
<1>2. PICK n \in 0 .. Len(upgrade(source)) : UpgradeProgress(n)
  BY DEF UpgradeInv, RunsAsTold
<1>3. rest = RestAfter(n, source)
  BY <1>2 DEF UpgradeProgress
<1>4. /\ n + 1 \in 1 .. Len(upgrade(source))
      /\ Head(rest) = upgrade(source)[n + 1]
      /\ Tail(rest) = RestAfter(n + 1, source)
  BY <1>1, <1>3, NextStatement
<1>5. Len(upgrade(source)) \in Nat
  BY <1>1, UpgradeStatements
<1>6. n \in Nat /\ n + 1 \in 0 .. Len(upgrade(source))
  BY <1>4, <1>5
<1> QED BY <1>2, <1>4, <1>6

\* A statement succeeds: one more table is empty, or one more row is there.
LEMMA ExecuteKeepsProgress ==
  ASSUME UpgradeInv, Execute, NEW n \in Nat, UpgradeProgress(n),
         n \in 0 .. Len(upgrade(source)), n + 1 \in 1 .. Len(upgrade(source)),
         NEW x, x = Head(rest), x = upgrade(source)[n + 1],
         Tail(rest) = RestAfter(n + 1, source), Sound(target)'
  PROVE  UpgradeProgress(n + 1)'
<1>1. /\ source' = source /\ rest' = Tail(rest) /\ lost' = lost /\ target' = Effect(x)
      /\ Succeeds(x)
  BY DEF Execute
<1>2. source \in Sources /\ Sound(target) /\ DOMAIN target = Tables
  BY SoundTarget DEF UpgradeInv, UpgradeTypeOK
<1>3. /\ \A y \in Done(n) : y.do = "require" => y.holds
      /\ lost \subseteq Done(n) /\ \A y \in lost : y.do = "insert" /\ ~y.unwrap
      /\ n <= TruncatedTables => \A i \in 1 .. n : target[TABLES_TO_TRUNCATE[i]] = {}
      /\ n >= TruncatedTables =>
           \A t \in Tables : \A r : r \in target[t] <=> StatementOf(t, r) \in Done(n) \ lost
  BY DEF UpgradeProgress
<1>4. PICK done : done = Done(n + 1)
  OBVIOUS
<1>5. done = Done(n) \union {x}
  BY <1>4, DoneOneMore
<1>6. (Done(n + 1))' = done
  BY <1>1, <1>4 DEF Done
<1>7. (rest = RestAfter(n + 1, source))'
  BY <1>1 DEF RestAfter
<1>8. \A y \in done : y.do = "require" => y.holds
  BY <1>1, <1>3, <1>5 DEF Succeeds
<1>9. lost' \subseteq done /\ \A y \in lost' : y.do = "insert" /\ ~y.unwrap
  BY <1>1, <1>3, <1>5
<1>10. /\ n < TruncatedTables <=> n + 1 <= TruncatedTables
       /\ n + 1 >= TruncatedTables => n + 1 = TruncatedTables \/ n >= TruncatedTables
       /\ n < TruncatedTables => n <= TruncatedTables
       /\ n < TruncatedTables \/ n >= TruncatedTables
  BY DEF TruncatedTables
<1>11. ASSUME n < TruncatedTables
       PROVE  \A i \in 1 .. n + 1 : target'[TABLES_TO_TRUNCATE[i]] = {}
  <2>1. x = Truncate(TABLES_TO_TRUNCATE[n + 1])
    BY <1>2, <1>11, KindsOfStatements
  <2>2. PICK t : t = TABLES_TO_TRUNCATE[n + 1]
    OBVIOUS
  <2>3. x.do = "truncate" /\ x.table = t
    BY <2>1, <2>2 DEF Truncate
  <2>4. PICK db : db = [target EXCEPT ![t] = {}]
    OBVIOUS
  <2>5. \A i \in 1 .. n + 1 : TABLES_TO_TRUNCATE[i] \in Tables
    BY <1>11, Truncations DEF TruncatedTables
  <2>6. n + 1 \in 1 .. n + 1
    OBVIOUS
  <2>7. /\ DOMAIN db = Tables /\ db[t] = {}
        /\ \A q \in Tables : db[q] \subseteq target[q]
    BY <1>2, <2>2, <2>4, <2>5, <2>6
  <2>8. \A q \in Tables : \A r \in db[q] : IsRow(q, r)
    BY <1>2, <2>7 DEF Sound
  <2>9. \A q \in Tables : WithoutDangling(db)[q] \subseteq db[q]
    BY <2>7, <2>8, CascadeIsSound
  <2>10. target' = WithoutDangling(db)
    BY <1>1, <2>3, <2>4 DEF Effect
  <2>11. ASSUME NEW i \in 1 .. n + 1 PROVE target'[TABLES_TO_TRUNCATE[i]] = {}
    <3>1. CASE i = n + 1
      BY <2>2, <2>5, <2>7, <2>9, <2>10, <3>1
    <3>2. CASE i # n + 1
      <4>1. i \in 1 .. n
        BY <3>2
      <4>2. target[TABLES_TO_TRUNCATE[i]] = {}
        BY <1>3, <1>10, <1>11, <4>1
      <4> QED BY <2>5, <2>7, <2>9, <2>10, <4>2
    <3> QED BY <3>1, <3>2
  <2> QED BY <2>11
<1>12. ASSUME n < TruncatedTables, n + 1 = TruncatedTables, NEW t \in Tables, NEW r
       PROVE  r \in target'[t] <=> StatementOf(t, r) \in done \ lost'
  <2>1. \A i \in 1 .. TruncatedTables : target'[TABLES_TO_TRUNCATE[i]] = {}
    BY <1>11, <1>12
  <2>2. \A q \in Tables : q # "info_hashes" => target'[q] = {}
    BY <2>1, Truncations
  <2>3. PICK db : db = target'
    OBVIOUS
  <2>4. Sound(db)
    BY <2>3 DEF Sound, Exists
  <2>5. db["torrents"] = {}
    BY <2>2, <2>3 DEF Tables
  <2>6. db["info_hashes"] = {}
    BY <2>4, <2>5, HashesGoWithTorrents
  <2>7. target'[t] = {}
    BY <2>2, <2>3, <2>6
  <2>8. StatementOf(t, r) \notin done
    BY <1>2, <1>4, <1>12, NoCopyYet
  <2> QED BY <2>7, <2>8
<1>13. ASSUME n >= TruncatedTables, x \in Requirement, NEW t \in Tables, NEW r
       PROVE  r \in target'[t] <=> StatementOf(t, r) \in done \ lost'
  <2>1. x.do = "require"
    BY <1>13 DEF Requirement
  <2>2. target' = target
    BY <1>1, <2>1 DEF Effect
  <2>3. StatementOf(t, r) # x
    BY <2>1, StatementFields
  <2> QED BY <1>1, <1>3, <1>5, <1>13, <2>2, <2>3
<1>14. ASSUME n >= TruncatedTables, x \in Copies(source), x \notin Done(n),
              NEW t \in Tables, NEW r
       PROVE  r \in target'[t] <=> StatementOf(t, r) \in done \ lost'
  <2>1. /\ x.do = "insert" /\ x.table \in Tables /\ x = StatementOf(x.table, x.row)
    BY <1>14, CopiesInsert DEF Copies
  <2>2. target' = [target EXCEPT ![x.table] = @ \union {x.row}]
    BY <1>1, <2>1 DEF Effect
  <2>3. r \in target'[t] <=> r \in target[t] \/ (t = x.table /\ r = x.row)
    BY <1>2, <2>1, <2>2
  <2>4. t = x.table /\ r = x.row <=> StatementOf(t, r) = x
    BY <2>1, StatementFields
  <2>5. x \notin lost
    BY <1>3, <1>14
  <2>6. r \in target[t] <=> StatementOf(t, r) \in Done(n) \ lost
    BY <1>3, <1>14
  <2> QED BY <1>1, <1>5, <2>3, <2>4, <2>5, <2>6
<1>15. n >= TruncatedTables => x \in Requirement \/ (x \in Copies(source) /\ x \notin Done(n))
  BY <1>2, KindsOfStatements
<1>16. n + 1 <= TruncatedTables => \A i \in 1 .. n + 1 : target'[TABLES_TO_TRUNCATE[i]] = {}
  BY <1>10, <1>11
<1>17. n + 1 >= TruncatedTables =>
         \A t \in Tables : \A r : r \in target'[t] <=> StatementOf(t, r) \in done \ lost'
  BY <1>10, <1>12, <1>13, <1>14, <1>15
<1> QED BY <1>6, <1>7, <1>8, <1>9, <1>16, <1>17 DEF UpgradeProgress

LEMMA ExecuteKeepsInv == UpgradeInv /\ Execute => UpgradeInv'
<1> SUFFICES ASSUME UpgradeInv, Execute PROVE UpgradeInv'
  OBVIOUS
<1>1. /\ source' = source /\ status = "running" /\ status' = status /\ rest # <<>>
      /\ rest' = Tail(rest) /\ faults' = faults /\ Succeeds(Head(rest))
      /\ target' = Effect(Head(rest))
  BY DEF Execute
<1>2. PICK n \in Nat :
        /\ UpgradeProgress(n) /\ n \in 0 .. Len(upgrade(source))
        /\ n + 1 \in 0 .. Len(upgrade(source)) /\ n + 1 \in 1 .. Len(upgrade(source))
        /\ Head(rest) = upgrade(source)[n + 1]
        /\ Tail(rest) = RestAfter(n + 1, source)
  BY <1>1, WhereItRuns
<1>3. PICK x : x = Head(rest)
  OBVIOUS
<1>4. UpgradeTypeOK
  BY DEF UpgradeInv
<1>5. Sound(Effect(x))
  BY <1>1, <1>2, <1>3, <1>4, EffectIsSound
<1>6. Sound(target)'
  BY <1>1, <1>3, <1>5 DEF Sound, Exists
<1>7. UpgradeProgress(n + 1)'
  BY <1>2, <1>3, <1>6, ExecuteKeepsProgress
<1>8. n + 1 \in 0 .. Len(upgrade(source))'
  BY <1>1, <1>2
<1>9. (rest = RestAfter(n + 1, source))'
  BY <1>7 DEF UpgradeProgress
<1>10. UpgradeTypeOK'
  BY <1>1, <1>4, <1>6, <1>8, <1>9 DEF UpgradeTypeOK, Sound
<1>11. RunsAsTold'
  BY <1>7, <1>8 DEF RunsAsTold
<1>12. FinishedIsImage'
  BY <1>1 DEF FinishedIsImage
<1> QED BY <1>10, <1>11, <1>12 DEF UpgradeInv

\* A run may end anywhere.
LEMMA NothingLeft ==
  ASSUME source \in Sources
  PROVE  \E n \in 0 .. Len(upgrade(source)) : <<>> = RestAfter(n, source)
<1>1. PICK m : m = Len(upgrade(source))
  OBVIOUS
<1>2. m \in Nat
  BY <1>1, UpgradeStatements
<1>3. SubSeq(upgrade(source), m + 1, m) = <<>>
  BY <1>2, SubSeqEmpty
<1>4. <<>> = RestAfter(m, source) /\ m \in 0 .. m
  BY <1>1, <1>2, <1>3 DEF RestAfter
<1> QED BY <1>1, <1>4

\* After an error that is only printed one row is missing; others end the run.
LEMMA AfterErrorKeepsInv ==
  ASSUME UpgradeInv, status = "running", rest # <<>>, AfterError,
         faults.all' \in 0 .. MaxFaults, faults.now' \in 0 .. faults.all'
  PROVE  UpgradeInv'
<1>1. source' = source /\ target' = target
  BY DEF AfterError
<1>2. source \in Sources /\ Sound(target) /\ Sound(target)' /\ UpgradeTypeOK
  <2>1. source \in Sources /\ Sound(target) /\ UpgradeTypeOK
    BY SoundTarget DEF UpgradeInv, UpgradeTypeOK
  <2> QED BY <1>1, <2>1 DEF Sound, Exists
<1>3. PICK x : x = Head(rest)
  OBVIOUS
<1>4. CASE GoesOnAfterError(x)
  <2>1. rest' = Tail(rest) /\ lost' = lost \union {x} /\ status' = status
    BY <1>3, <1>4 DEF AfterError
  <2>2. PICK n \in Nat :
          /\ UpgradeProgress(n) /\ n \in 0 .. Len(upgrade(source))
          /\ n + 1 \in 0 .. Len(upgrade(source)) /\ n + 1 \in 1 .. Len(upgrade(source))
          /\ Head(rest) = upgrade(source)[n + 1]
          /\ Tail(rest) = RestAfter(n + 1, source)
    BY WhereItRuns
  <2>3. x.do = "insert" /\ ~x.unwrap
    BY <1>4 DEF GoesOnAfterError
  <2>4. n >= TruncatedTables /\ x \in Copies(source) /\ x \notin Done(n)
    <3>1. x # Truncate(TABLES_TO_TRUNCATE[n + 1])
      BY <2>3 DEF Truncate
    <3>2. x \notin Requirement
      BY <2>3 DEF Requirement
    <3>3. n < TruncatedTables \/ n >= TruncatedTables
      BY DEF TruncatedTables
    <3> QED BY <1>2, <1>3, <2>2, <3>1, <3>2, <3>3, KindsOfStatements
  <2>5. /\ \A y \in Done(n) : y.do = "require" => y.holds
        /\ lost \subseteq Done(n) /\ \A y \in lost : y.do = "insert" /\ ~y.unwrap
        /\ \A t \in Tables : \A r : r \in target[t] <=> StatementOf(t, r) \in Done(n) \ lost
    BY <2>2, <2>4 DEF UpgradeProgress
  <2>6. PICK done : done = Done(n + 1)
    OBVIOUS
  <2>7. done = Done(n) \union {x}
    BY <1>3, <2>2, <2>6, DoneOneMore
  <2>8. Done(n + 1)' = done
    BY <1>1, <2>6 DEF Done
  <2>9. (rest = RestAfter(n + 1, source))'
    BY <1>1, <2>1, <2>2 DEF RestAfter
  <2>10. \A y \in done : y.do = "require" => y.holds
    BY <2>3, <2>5, <2>7
  <2>11. lost' \subseteq done /\ \A y \in lost' : y.do = "insert" /\ ~y.unwrap
    BY <2>1, <2>3, <2>5, <2>7
  <2>12. ~(n + 1 <= TruncatedTables)
    BY <2>4 DEF TruncatedTables
  <2>13. done \ lost' = Done(n) \ lost
    BY <2>1, <2>4, <2>7
  <2>14. \A t \in Tables : \A r : r \in target'[t] <=> StatementOf(t, r) \in done \ lost'
    BY <1>1, <2>5, <2>13
  <2>15. UpgradeProgress(n + 1)'
    BY <2>8, <2>9, <2>10, <2>11, <2>12, <2>14 DEF UpgradeProgress
  <2>16. n + 1 \in 0 .. Len(upgrade(source))'
    BY <1>1, <2>2
  <2>17. RunsAsTold'
    BY <2>15, <2>16 DEF RunsAsTold
  <2>18. UpgradeTypeOK'
    BY <1>1, <1>2, <2>1, <2>9, <2>16 DEF UpgradeTypeOK, Sound
  <2>19. FinishedIsImage'
    BY <2>1 DEF FinishedIsImage
  <2> QED BY <2>17, <2>18, <2>19 DEF UpgradeInv
<1>5. CASE ~GoesOnAfterError(x)
  <2>1. status' = "panicked" /\ rest' = <<>>
    BY <1>3, <1>5 DEF AfterError
  <2>2. (\E n \in 0 .. Len(upgrade(source)) : rest = RestAfter(n, source))'
    BY <1>1, <1>2, <2>1, NothingLeft DEF RestAfter
  <2>3. UpgradeTypeOK'
    BY <1>1, <1>2, <2>1, <2>2 DEF UpgradeTypeOK, Sound
  <2> QED BY <2>1, <2>3 DEF UpgradeInv, RunsAsTold, FinishedIsImage
<1> QED BY <1>4, <1>5

\* A fault is counted.
LEMMA FaultIsCounted ==
  ASSUME UpgradeTypeOK, Fault
  PROVE  faults.all' \in 0 .. MaxFaults /\ faults.now' \in 0 .. faults.all'
BY UpgraderAssumption DEF UpgradeTypeOK, Fault

LEMMA ErrorsKeepInv == UpgradeInv /\ (StatementFails \/ DatabaseErrs) => UpgradeInv'
<1> SUFFICES ASSUME UpgradeInv, StatementFails \/ DatabaseErrs PROVE UpgradeInv'
  OBVIOUS
<1>1. UpgradeTypeOK
  BY DEF UpgradeInv
<1>2. CASE StatementFails
  <2>1. status = "running" /\ rest # <<>> /\ AfterError /\ faults' = faults
    BY <1>2 DEF StatementFails
  <2>2. faults.all' \in 0 .. MaxFaults /\ faults.now' \in 0 .. faults.all'
    BY <1>1, <2>1 DEF UpgradeTypeOK
  <2> QED BY <2>1, <2>2, AfterErrorKeepsInv
<1>3. CASE DatabaseErrs
  <2>1. status = "running" /\ rest # <<>> /\ AfterError /\ Fault
    BY <1>3 DEF DatabaseErrs
  <2> QED BY <1>1, <2>1, FaultIsCounted, AfterErrorKeepsInv
<1> QED BY <1>2, <1>3

LEMMA StopKeepsInv == UpgradeInv /\ Stop => UpgradeInv'
<1> SUFFICES ASSUME UpgradeInv, Stop PROVE UpgradeInv'
  OBVIOUS
<1>1. /\ source' = source /\ target' = target /\ status' = "stopped" /\ rest' = <<>>
      /\ Fault /\ UpgradeTypeOK
  BY DEF Stop, UpgradeInv
<1>2. source \in Sources
  BY <1>1 DEF UpgradeTypeOK
<1>3. (\E n \in 0 .. Len(upgrade(source)) : rest = RestAfter(n, source))'
  BY <1>1, <1>2, NothingLeft DEF RestAfter
<1>4. Sound(target)'
  BY <1>1, SoundTarget DEF Sound, Exists
<1>5. faults.all' \in 0 .. MaxFaults /\ faults.now' \in 0 .. faults.all'
  BY <1>1, FaultIsCounted
<1>6. UpgradeTypeOK'
  BY <1>1, <1>2, <1>3, <1>4, <1>5 DEF UpgradeTypeOK, Sound
<1> QED BY <1>1, <1>6 DEF UpgradeInv, RunsAsTold, FinishedIsImage

\* Whoever uses the target adds rows of which those stay that nothing is missing for.
LEMMA UseKeepsInv == UpgradeInv /\ UseTarget => UpgradeInv'
<1> SUFFICES ASSUME UpgradeInv, UseTarget PROVE UpgradeInv'
  OBVIOUS
<1>1. /\ source' = source /\ status' = "idle" /\ rest' = rest /\ faults' = faults
      /\ UpgradeTypeOK
  BY DEF UseTarget, UpgradeInv
<1>2. PICK use \in Uses :
        target' = WithoutDangling([t \in Tables |->
                    target[t] \cup {u[2] : u \in {v \in use :
                      v[1] = t /\ \A r \in target[t] : r.id # v[2].id}}])
  BY DEF UseTarget
<1>3. PICK db : db = [t \in Tables |->
                       target[t] \cup {u[2] : u \in {v \in use :
                         v[1] = t /\ \A r \in target[t] : r.id # v[2].id}}]
  OBVIOUS
<1>4. ASSUME NEW t \in Tables, NEW r \in db[t] PROVE IsRow(t, r)
  <2>1. r \in target[t] \/ \E u \in use : u[1] = t /\ r = u[2]
    BY <1>3
  <2>2. CASE r \in target[t]
    BY <1>1, <2>2 DEF UpgradeTypeOK
  <2>3. ASSUME NEW u \in use, u[1] = t, r = u[2] PROVE IsRow(t, r)
    BY <2>3, UpgraderAssumption
  <2> QED BY <2>1, <2>2, <2>3
<1>5. DOMAIN db = Tables
  BY <1>3
<1>6. Sound(WithoutDangling(db))
  BY <1>4, <1>5, CascadeIsSound
<1>7. Sound(target)'
  BY <1>2, <1>3, <1>6 DEF Sound, Exists
<1>8. (\E n \in 0 .. Len(upgrade(source)) : rest = RestAfter(n, source))'
  BY <1>1 DEF UpgradeTypeOK, RestAfter
<1>9. UpgradeTypeOK'
  BY <1>1, <1>7, <1>8 DEF UpgradeTypeOK, Sound
<1> QED BY <1>1, <1>9 DEF UpgradeInv, RunsAsTold, FinishedIsImage

-----------------------------------------------------------------------------
(* The end *)

\* Done is what the image holds, once nothing is left to do.
LEMMA AllIsDone ==
  ASSUME source \in Sources, NEW n, n = Len(upgrade(source)),
         \A x \in Done(n) : x.do = "require" => x.holds
  PROVE  /\ TruncatedTables <= n
         /\ \A x \in Done(n) : x.do = "insert" => x \in AllCopies(source)
         /\ AllCopies(source) \subseteq Done(n)
<1>1. PICK u : u = upgrade(source)
  OBVIOUS
<1>2. /\ n \in Nat /\ TruncatedTables <= n
      /\ \A i \in 1 .. TruncatedTables : u[i] = Truncate(TABLES_TO_TRUNCATE[i])
      /\ \A i \in 1 .. n : i > TruncatedTables => u[i] \in CopyStatement(source)
      /\ (\A i \in 1 .. n : u[i].do = "require" => u[i].holds)
           => \A x \in AllCopies(source) : \E i \in 1 .. n : u[i] = x
  BY <1>1, UpgradeStatements
<1>3. Done(n) = {u[i] : i \in 1 .. n}
  BY <1>1 DEF Done
<1>4. AllCopies(source) \subseteq Done(n)
  BY <1>2, <1>3
<1>5. ASSUME NEW i \in 1 .. n, u[i].do = "insert" PROVE u[i] \in AllCopies(source)
  <2>1. CASE i > TruncatedTables
    <3>1. u[i] \in CopyStatement(source)
      BY <1>2, <2>1
    <3>2. u[i] \notin Requirement
      BY <1>5 DEF Requirement
    <3> QED BY <3>1, <3>2 DEF CopyStatement, Copies
  <2>2. CASE ~(i > TruncatedTables)
    <3>1. i \in 1 .. TruncatedTables
      BY <2>2 DEF TruncatedTables
    <3>2. u[i] = Truncate(TABLES_TO_TRUNCATE[i])
      BY <1>2, <3>1
    <3>3. u[i].do = "truncate"
      BY <3>2 DEF Truncate
    <3> QED BY <1>5, <3>3
  <2> QED BY <2>1, <2>2
<1> QED BY <1>2, <1>3, <1>4, <1>5

LEMMA FinishKeepsInv == UpgradeInv /\ Finish => UpgradeInv'
<1> SUFFICES ASSUME UpgradeInv, Finish PROVE UpgradeInv'
  OBVIOUS
<1>1. /\ source' = source /\ target' = target /\ status' = "finished" /\ rest' = rest
      /\ lost' = lost /\ faults' = faults /\ status = "running" /\ rest = <<>>
  BY DEF Finish
<1>2. source \in Sources /\ UpgradeTypeOK
  BY DEF UpgradeInv, UpgradeTypeOK
<1>3. PICK n \in 0 .. Len(upgrade(source)) : UpgradeProgress(n)
  BY <1>1 DEF UpgradeInv, RunsAsTold
<1>4. rest = RestAfter(n, source)
  BY <1>3 DEF UpgradeProgress
<1>5. n = Len(upgrade(source))
  BY <1>1, <1>2, <1>4, NextStatement
<1>6. \A x \in Done(n) : x.do = "require" => x.holds
  BY <1>3 DEF UpgradeProgress
<1>7. PICK done : done = Done(n)
  OBVIOUS
<1>8. /\ TruncatedTables <= n
      /\ \A x \in done : x.do = "insert" => x \in AllCopies(source)
      /\ AllCopies(source) \subseteq done
  BY <1>2, <1>5, <1>6, <1>7, AllIsDone
<1>9. /\ lost \subseteq done /\ \A x \in lost : x.do = "insert" /\ ~x.unwrap
      /\ \A t \in Tables : \A r : r \in target[t] <=> StatementOf(t, r) \in done \ lost
  <2>1. n >= TruncatedTables
    BY <1>5, <1>8 DEF TruncatedTables
  <2> QED BY <1>3, <1>7, <2>1 DEF UpgradeProgress
<1>10. ASSUME NEW t \in Tables, NEW r
       PROVE  StatementOf(t, r) \in done <=> r \in Image(source)[t]
  <2>1. ASSUME StatementOf(t, r) \in done PROVE r \in Image(source)[t]
    <3>1. StatementOf(t, r) \in AllCopies(source)
      BY <1>8, <2>1, StatementFields
    <3> QED BY <3>1, CopiesInsert, StatementFields
  <2>2. ASSUME r \in Image(source)[t] PROVE StatementOf(t, r) \in done
    <3>1. StatementOf(t, r) \in StatementsFor(t, Image(source)[t])
      BY <2>2 DEF StatementsFor
    <3>2. StatementOf(t, r) \in AllCopies(source)
      BY <3>1 DEF AllCopies
    <3> QED BY <1>8, <3>2
  <2> QED BY <2>1, <2>2
<1>11. ASSUME NEW t \in Tables, NEW r
       PROVE  StatementOf(t, r) \in lost
                <=> r \in {l.row : l \in {k \in lost : k.table = t /\ t \in Details}}
  <2>1. ASSUME StatementOf(t, r) \in lost
        PROVE  r \in {l.row : l \in {k \in lost : k.table = t /\ t \in Details}}
    <3>1. PICK l : l = StatementOf(t, r)
      OBVIOUS
    <3>2. l \in lost /\ l.table = t /\ l.row = r /\ l.unwrap = (t \notin Details)
      BY <2>1, <3>1, StatementFields
    <3>3. t \in Details
      BY <1>9, <3>2
    <3> QED BY <3>2, <3>3
  <2>2. ASSUME NEW l \in lost, l.table = t, l.row = r PROVE StatementOf(t, r) \in lost
    <3>1. l \in AllCopies(source)
      BY <1>8, <1>9
    <3>2. l = StatementOf(t, r)
      BY <2>2, <3>1, CopiesInsert
    <3> QED BY <3>2
  <2> QED BY <2>1, <2>2
<1>12. ASSUME NEW t \in Tables
       PROVE  target[t] = Image(source)[t]
                \ {l.row : l \in {k \in lost : k.table = t /\ t \in Details}}
  <2>1. PICK I, L : /\ I = Image(source)[t]
                    /\ L = {l.row : l \in {k \in lost : k.table = t /\ t \in Details}}
    OBVIOUS
  <2>2. \A r : r \in target[t] <=> r \in I /\ r \notin L
    BY <1>9, <1>10, <1>11, <2>1
  <2>3. target[t] = I \ L
    BY <2>2
  <2> QED BY <2>1, <2>3
<1>13. FinishedIsImage'
  BY <1>1, <1>12 DEF FinishedIsImage
<1>14. Sound(target)'
  BY <1>1, <1>2, SoundTarget DEF Sound, Exists
<1>15. (\E m \in 0 .. Len(upgrade(source)) : rest = RestAfter(m, source))'
  BY <1>1, <1>2 DEF UpgradeTypeOK, RestAfter
<1>16. UpgradeTypeOK'
  BY <1>1, <1>2, <1>14, <1>15 DEF UpgradeTypeOK, Sound
<1> QED BY <1>1, <1>13, <1>16 DEF UpgradeInv, RunsAsTold

LEMMA UpgradeInvStutter == UpgradeInv /\ UNCHANGED upgradeVars => UpgradeInv'
<1> SUFFICES ASSUME UpgradeInv, UNCHANGED upgradeVars PROVE UpgradeInv'
  OBVIOUS
<1>1. /\ source' = source /\ target' = target /\ status' = status /\ rest' = rest
      /\ lost' = lost /\ faults' = faults
  BY DEF upgradeVars
<1>2. UpgradeTypeOK'
  <2>1. Sound(target)'
    BY <1>1, SoundTarget DEF UpgradeInv, Sound, Exists
  <2>2. (\E m \in 0 .. Len(upgrade(source)) : rest = RestAfter(m, source))'
    BY <1>1 DEF UpgradeInv, UpgradeTypeOK, RestAfter
  <2> QED BY <1>1, <2>1, <2>2 DEF UpgradeInv, UpgradeTypeOK, Sound
<1>3. RunsAsTold'
  <2>1. ASSUME status = "running" PROVE RunsAsTold'
    <3>1. PICK n \in 0 .. Len(upgrade(source)) : UpgradeProgress(n)
      BY <2>1 DEF UpgradeInv, RunsAsTold
    <3>2. Done(n)' = Done(n) /\ RestAfter(n, source)' = RestAfter(n, source)
      BY <1>1 DEF Done, RestAfter
    <3>3. UpgradeProgress(n)'
      BY <1>1, <3>1, <3>2 DEF UpgradeProgress
    <3>4. n \in 0 .. Len(upgrade(source))'
      BY <1>1, <3>1
    <3> QED BY <3>3, <3>4 DEF RunsAsTold
  <2> QED BY <1>1, <2>1 DEF RunsAsTold
<1>4. FinishedIsImage'
  BY <1>1 DEF UpgradeInv, FinishedIsImage
<1> QED BY <1>2, <1>3, <1>4 DEF UpgradeInv

LEMMA UpgradeInvKept == UpgradeInv /\ [UpgradeNext]_upgradeVars => UpgradeInv'
<1> SUFFICES ASSUME UpgradeInv, [UpgradeNext]_upgradeVars PROVE UpgradeInv'
  OBVIOUS
<1>1. CASE Start
  BY <1>1, StartKeepsInv
<1>2. CASE Execute
  BY <1>2, ExecuteKeepsInv
<1>3. CASE StatementFails \/ DatabaseErrs
  BY <1>3, ErrorsKeepInv
<1>4. CASE Stop
  BY <1>4, StopKeepsInv
<1>5. CASE Finish
  BY <1>5, FinishKeepsInv
<1>6. CASE UseTarget
  BY <1>6, UseKeepsInv
<1>7. CASE UNCHANGED upgradeVars
  BY <1>7, UpgradeInvStutter
<1> QED BY <1>1, <1>2, <1>3, <1>4, <1>5, <1>6, <1>7 DEF UpgradeNext

(***************************************************************************)
(* Whatever stops or fails and however often the program is started again, *)
(* no row of the target ever refers to one that is not there, and what is  *)
(* left to do is always the end of the statements that upgrade             *)
(* (upgrades/from_v1_0_0_to_v2_0_0/upgrader.rs) is made of.                *)
(***************************************************************************)
THEOREM UpgradeKeepsTypes == UpgradeSpec => []UpgradeTypeOK
<1>1. UpgradeInit => UpgradeInv
  BY UpgradeInvInit
<1>2. UpgradeInv /\ [UpgradeNext]_upgradeVars => UpgradeInv'
  BY UpgradeInvKept
<1>3. UpgradeInv => UpgradeTypeOK
  BY DEF UpgradeInv
<1> QED BY <1>1, <1>2, <1>3, PTL DEF UpgradeSpec

(***************************************************************************)
(* For any database of v1 and any use of the target between the runs: when *)
(* the upgrade says that it has finished, each table holds the image of    *)
(* the source, each row once, and nothing else; only files, titles and     *)
(* trackers whose error this run printed may be missing.                   *)
(***************************************************************************)
THEOREM FinishedUpgradeIsImage == UpgradeSpec => []FinishedIsImage
<1>1. UpgradeInit => UpgradeInv
  BY UpgradeInvInit
<1>2. UpgradeInv /\ [UpgradeNext]_upgradeVars => UpgradeInv'
  BY UpgradeInvKept
<1>3. UpgradeInv => FinishedIsImage
  BY DEF UpgradeInv
<1> QED BY <1>1, <1>2, <1>3, PTL DEF UpgradeSpec

=============================================================================
