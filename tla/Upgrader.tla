------------------------------- MODULE Upgrader -------------------------------
(***************************************************************************)
(* The upgrade of a database from v1.0.0 to v2.0.0                         *)
(* (upgrades/from_v1_0_0_to_v2_0_0).  A run is a straight line of SQL      *)
(* statements without a transaction: it empties the target table by table  *)
(* and then copies row by row.  A run may stop between two statements or   *)
(* panic, and is started again; the target may have been used in between.  *)
(*                                                                         *)
(* A row is its key, the rows it refers to, and the rest of its columns.   *)
(***************************************************************************)
EXTENDS Naturals, FiniteSets, SequencesExt

CONSTANTS
  Sources,       \* databases of v1, with the torrent files of the upload folder
  Uses,          \* what using the target may add: sets of <<table, row>>
  NULL,          \* no value
  Text,          \* what paths and the urls of trackers may be
  MaxFaults      \* bound of the runs that are stopped or meet a database error

VARIABLES
  source,
  target,        \* the rows of each table
  status,        \* "idle", "running", "panicked", "stopped" or "finished"
  rest,          \* the statements still to do
  lost,          \* statements whose error was only printed
  faults         \* how many faults there were, in all and in this run

upgradeVars == <<source, target, status, rest, lost, faults>>

\* Mutant: a table is forgotten.
TABLES_TO_TRUNCATE_NoTags ==
  <<"announce_urls", "files", "info", "tag_links", "tracker_stats", "torrents",
    "tracker_keys", "authentication", "profiles", "users", "categories">>

\* Those that the upgrade or the uses fill
TABLES_TO_TRUNCATE ==
  <<"announce_urls", "files", "info", "tag_links", "tracker_stats", "torrents",
    "tracker_keys", "authentication", "profiles", "users", "categories", "tags">>

\* The rows of info_hashes go with their torrents.
Tables == {"announce_urls", "files", "info", "tag_links", "tracker_stats",
  "torrents", "tracker_keys", "authentication", "profiles", "users",
  "categories", "tags", "info_hashes"}

\* The tables that the foreign keys of a table name.
References == [t \in Tables |->
  CASE t \in {"users", "categories", "tags"} -> {}
    [] t = "torrents" -> {"users", "categories"}
    [] t \in {"profiles", "authentication", "tracker_keys"} -> {"users"}
    [] t = "tag_links" -> {"torrents", "tags"}
    [] OTHER -> {"torrents"}]

\* NOT NULL: a torrent's tracker has a url, a hash belongs to a torrent.
IsRow(table, row) ==
  /\ DOMAIN row = {"id", "refs", "columns"}
  /\ \A ref \in row.refs : ref[1] \in References[table]
  /\ table = "announce_urls" => row.columns # NULL
  /\ table = "info_hashes" => row.refs # {}

\* PRIMARY KEY
Keyed(rows) ==
  /\ IsFiniteSet(rows)
  /\ \A r \in rows : r.id \in Nat
  /\ \A q, r \in rows : q.id = r.id => q = r

\* A file of v1: its paths unless it is a single file, its trackers if any.
IsTorrentFile(file) ==
  /\ file.files = NULL \/ file.files \in Seq(Text)
  /\ file.announce = NULL \/ file.announce \in Text
  /\ file.announce_list = NULL \/ file.announce_list \in Seq(Seq(Text))

ASSUME UpgraderAssumption ==
  /\ NULL \notin Text
  /\ \A s \in Sources :
       /\ Keyed(s.categories) /\ Keyed(s.users) /\ Keyed(s.keys) /\ Keyed(s.torrents)
       /\ \A t \in s.torrents : t.file = NULL \/ IsTorrentFile(t.file)
  /\ \A use \in Uses : \A u \in use : u[1] \in Tables /\ IsRow(u[1], u[2])
  /\ MaxFaults \in Nat

\* What the migrations leave in a new file.
Migrated == [t \in Tables |->
  IF t = "categories"
  THEN {[id |-> 1, refs |-> {}, columns |-> "movies"]}
  ELSE {}]

-----------------------------------------------------------------------------
(* Statements *)

Truncate(table) == [do |-> "truncate", table |-> table]

\* The program panics unless this holds.
Require(condition) == [do |-> "require", holds |-> condition]

Row(id, refs, columns) == [id |-> id, refs |-> refs, columns |-> columns]

\* INSERT whose error panics: .unwrap()
Insert(table, row) ==
  [do |-> "insert", table |-> table, row |-> row, unwrap |-> TRUE]

\* INSERT whose result is only printed
TryInsert(table, row) ==
  [do |-> "insert", table |-> table, row |-> row, unwrap |-> FALSE]

\* How many rows come before one.
Rank(row, rows) == Cardinality({r \in rows : r.id < row.id})

\* ORDER BY the key ASC
InOrder(rows) ==
  [i \in 1 .. Cardinality(rows) |-> CHOOSE r \in rows : Rank(r, rows) = i - 1]

ForEach(rows, statements) ==
  LET ordered == InOrder(rows)
  IN  FlattenSeq([i \in 1 .. Cardinality(rows) |-> statements[ordered[i]]])

-----------------------------------------------------------------------------
(* The upgrade *)

CategoryRow(c) == Row(c.id, {}, c.name)

transfer_categories(s) ==
  ForEach(s.categories,
    [c \in s.categories |-> <<Insert("categories", CategoryRow(c))>>])

UserRow(u) == Row(u.id, {}, u.administrator)
ProfileRow(u) == Row(u.id, {<<"users", u.id>>}, u.username)
PasswordRow(u) == Row(u.id, {<<"users", u.id>>}, u.password)

transfer_users(s) ==
  ForEach(s.users,
    [u \in s.users |-> <<Insert("users", UserRow(u)),
                         Insert("profiles", ProfileRow(u)),
                         Insert("authentication", PasswordRow(u))>>])

KeyRow(k) == Row(k.id, {<<"users", k.user>>}, k.key)

\* The list is not read at all when a key has no user, which v1 allows.
transfer_tracker_keys(s) ==
  <<Require(\A k \in s.keys : k.user # NULL)>>
    \o ForEach(s.keys, [k \in s.keys |-> <<Insert("tracker_keys", KeyRow(k))>>])

\* from_v1_data, private.unwrap_or(0) and the name of the uploader turned into a key
TorrentRow(s, t) ==
  Row(t.id,
      {<<"users", (CHOOSE u \in s.users : u.username = t.uploader).id>>,
       <<"categories", t.category>>},
      [info_hash |-> t.info_hash,
       private |-> IF t.file.private = NULL THEN 0 ELSE t.file.private])

InfoRow(t) == Row(t.id, {<<"torrents", t.id>>}, t.title)

\* Keys are given by the table; the place in the torrent stands for them.
Part(t, i, columns) == Row(<<t.id, i>>, {<<"torrents", t.id>>}, columns)

\* A single file has no path.
FileRows(t) ==
  IF t.file.files = NULL
  THEN <<Part(t, 1, NULL)>>
  ELSE [i \in 1 .. Len(t.file.files) |-> Part(t, i, t.file.files[i])]

\* Mutant: it is not asked whether there is a tracker.
AnnounceUrls_Unasked(file) ==
  IF file.announce_list # NULL
  THEN FlattenSeq(file.announce_list) ELSE <<file.announce>>

\* The tiers are flattened; announce counts only without announce-list.
AnnounceUrls(file) ==
  CASE file.announce_list # NULL -> FlattenSeq(file.announce_list)
    [] file.announce_list = NULL /\ file.announce # NULL -> <<file.announce>>
    [] OTHER -> <<>>

UrlRows(t) ==
  [i \in 1 .. Len(AnnounceUrls(t.file)) |-> Part(t, i, AnnounceUrls(t.file)[i])]

TryInsertAll(table, rows) == [i \in 1 .. Len(rows) |-> TryInsert(table, rows[i])]

\* A root hash that is no number panics in get_root_hash_as_i64.
transfer_torrent(s, t) ==
  <<Require(\E u \in s.users : u.username = t.uploader),
    Require(t.file # NULL)>>
    \o IF t.file = NULL \/ \A u \in s.users : u.username # t.uploader
       THEN <<>>
       ELSE <<Require(t.file.root_hash = NULL), Insert("torrents", TorrentRow(s, t))>>
              \o TryInsertAll("files", FileRows(t))
              \o <<TryInsert("info", InfoRow(t))>>
              \o TryInsertAll("announce_urls", UrlRows(t))

transfer_torrents(s) == ForEach(s.torrents, [t \in s.torrents |-> transfer_torrent(s, t)])

truncate_target_database ==
  [i \in 1 .. Len(TABLES_TO_TRUNCATE) |-> Truncate(TABLES_TO_TRUNCATE[i])]

\* Mutant: the keys of the tracker come before their users.
upgrade_KeysFirst(s) ==
  truncate_target_database
    \o (transfer_categories(s) \o transfer_tracker_keys(s) \o transfer_users(s)
          \o transfer_torrents(s))

upgrade(s) ==
  truncate_target_database
    \o (transfer_categories(s) \o transfer_users(s) \o transfer_tracker_keys(s)
          \o transfer_torrents(s))

-----------------------------------------------------------------------------
(* The database *)

Exists(ref, db) == \E q \in db[ref[1]] : q.id = ref[2]

DropDangling(db) ==
  [t \in Tables |-> {r \in db[t] : \A ref \in r.refs : Exists(ref, db)}]

\* ON DELETE CASCADE: the torrents go with their users, and what refers to them goes
\* with the torrents.  Categories are only emptied when there are no torrents.
WithoutDangling(db) == DropDangling(DropDangling(db))

\* PRIMARY KEY and FOREIGN KEY
CanInsert(table, row) ==
  /\ \A r \in target[table] : r.id # row.id
  /\ \A ref \in row.refs : Exists(ref, target)

Succeeds(s) ==
  CASE s.do = "truncate" -> TRUE
    [] s.do = "require" -> s.holds
    [] s.do = "insert" -> CanInsert(s.table, s.row)

Effect(s) ==
  CASE s.do = "truncate" -> WithoutDangling([target EXCEPT ![s.table] = {}])
    [] s.do = "require" -> target
    [] s.do = "insert" -> [target EXCEPT ![s.table] = @ \cup {s.row}]

-----------------------------------------------------------------------------

UpgradeInit ==
  /\ source \in Sources
  /\ target = Migrated
  /\ status = "idle"
  /\ rest = <<>>
  /\ lost = {}
  /\ faults = [all |-> 0, now |-> 0]

Start ==
  /\ status # "running"
  /\ status' = "running"
  /\ rest' = upgrade(source)
  /\ lost' = {}
  /\ faults' = [faults EXCEPT !.now = 0]
  /\ UNCHANGED <<source, target>>

Execute ==
  /\ status = "running" /\ rest # <<>>
  /\ Succeeds(Head(rest))
  /\ target' = Effect(Head(rest))
  /\ rest' = Tail(rest)
  /\ UNCHANGED <<source, status, lost, faults>>

\* After an error that is only printed the program goes on; others panic.
GoesOnAfterError(s) == s.do = "insert" /\ ~s.unwrap

AfterError ==
  LET s == Head(rest)
  IN  /\ IF GoesOnAfterError(s)
         THEN rest' = Tail(rest) /\ lost' = lost \cup {s} /\ UNCHANGED status
         ELSE status' = "panicked" /\ rest' = <<>> /\ UNCHANGED lost
      /\ UNCHANGED <<source, target>>

StatementFails ==
  /\ status = "running" /\ rest # <<>>
  /\ ~Succeeds(Head(rest))
  /\ AfterError
  /\ UNCHANGED faults

Fault ==
  /\ faults.all < MaxFaults
  /\ faults' = [all |-> faults.all + 1, now |-> faults.now + 1]

\* The disk is full, the file is locked...
DatabaseErrs ==
  /\ status = "running" /\ rest # <<>>
  /\ Head(rest).do # "require"
  /\ Fault
  /\ AfterError

Stop ==
  /\ status = "running"
  /\ Fault
  /\ status' = "stopped"
  /\ rest' = <<>>
  /\ UNCHANGED <<source, target, lost>>

Finish ==
  /\ status = "running" /\ rest = <<>>
  /\ status' = "finished"
  /\ UNCHANGED <<source, target, rest, lost, faults>>

\* The application runs with the target: "Perform some tests."
UseTarget ==
  /\ status \in {"idle", "finished"}
  /\ \E use \in Uses :
       target' = WithoutDangling([t \in Tables |->
                   target[t] \cup {u[2] : u \in {v \in use :
                     v[1] = t /\ \A r \in target[t] : r.id # v[2].id}}])
  /\ target' # target
  /\ status' = "idle"
  /\ UNCHANGED <<source, rest, lost, faults>>

UpgradeNext ==
  \/ Start \/ Execute \/ StatementFails \/ DatabaseErrs \/ Stop \/ Finish
  \/ UseTarget

UpgradeSpec == UpgradeInit /\ [][UpgradeNext]_upgradeVars

\* Whoever upgrades starts the program again until it ends.
FairUpgradeSpec ==
  /\ UpgradeSpec
  /\ WF_upgradeVars(Start /\ status # "finished")
  /\ WF_upgradeVars(Execute \/ StatementFails \/ Finish)

-----------------------------------------------------------------------------
(* Properties *)

Details == {"files", "info", "announce_urls"}

\* After the first n statements.
RestAfter(n, s) == SubSeq(upgrade(s), n + 1, Len(upgrade(s)))

UpgradeTypeOK ==
  /\ source \in Sources
  /\ DOMAIN target = Tables
  /\ \A t \in Tables : \A r \in target[t] :
       IsRow(t, r) /\ \A ref \in r.refs : Exists(ref, target)
  /\ status \in {"idle", "running", "panicked", "stopped", "finished"}
  /\ \E n \in 0 .. Len(upgrade(source)) : rest = RestAfter(n, source)
  /\ faults.all \in 0 .. MaxFaults /\ faults.now \in 0 .. faults.all

\* Table by table, what the source comes to in v2.
Image(s) == [t \in Tables |->
  CASE t = "categories" -> {CategoryRow(c) : c \in s.categories}
    [] t = "users" -> {UserRow(u) : u \in s.users}
    [] t = "profiles" -> {ProfileRow(u) : u \in s.users}
    [] t = "authentication" -> {PasswordRow(u) : u \in s.users}
    [] t = "tracker_keys" -> {KeyRow(k) : k \in s.keys}
    [] t = "torrents" -> {TorrentRow(s, r) : r \in s.torrents}
    [] t = "files" -> UNION {ToSet(FileRows(r)) : r \in s.torrents}
    [] t = "info" -> {InfoRow(r) : r \in s.torrents}
    [] t = "announce_urls" -> UNION {ToSet(UrlRows(r)) : r \in s.torrents}
    [] OTHER -> {}]

(***************************************************************************)
(* When the upgrade says that it has finished, the target holds the image  *)
(* of the source and nothing else, however many runs stopped or failed     *)
(* halfway before and whatever the application stored in between; only     *)
(* files, titles and trackers whose error this run printed may be missing. *)
(***************************************************************************)
FinishedIsImage ==
  status = "finished" =>
    \A t \in Tables :
      target[t] = Image(source)[t]
        \ {l.row : l \in {k \in lost : k.table = t /\ t \in Details}}

\* What transfer_tracker_keys and transfer_torrents demand.
Good(s) ==
  /\ \A k \in s.keys : k.user # NULL
  /\ \A t \in s.torrents :
       /\ \E u \in s.users : u.username = t.uploader
       /\ t.file # NULL
       /\ t.file.root_hash = NULL

\* A source that can be translated is upgraded in the end, by running it again.
GoodSourcesAreUpgraded == Good(source) => <>(status = "finished")

=============================================================================
