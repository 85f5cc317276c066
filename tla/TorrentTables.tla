---------------------------- MODULE TorrentTables ----------------------------
(***************************************************************************)
(* The tables of the index database that hold an uploaded torrent, and the *)
(* SQL statements that change them (databases/sqlite.rs, databases/        *)
(* mysql.rs and the schema in migrations/).  A statement is an action on   *)
(* the table variables; the services that issue the statements are         *)
(* modelled in the modules that extend this one.                           *)
(*                                                                         *)
(* A row of torrust_torrents is kept together with its row of              *)
(* torrust_torrent_info (they share their key and are written in the same  *)
(* transaction).  Columns no property tells apart (sizes, names, dates,    *)
(* files, announce URLs) are left out.                                     *)
(***************************************************************************)
EXTENDS Naturals, InfoHashes

CONSTANTS
  Titles,          \* the titles users give to their torrents
  RollbackFreesId  \* TRUE: SQLite, a rolled back insert gives its id back;
                   \* FALSE: MySQL, an id is used up even by a failed insert

ASSUME DriverAssumption == RollbackFreesId \in BOOLEAN

VARIABLES
  torrents,    \* rows of torrust_torrents (and torrust_torrent_info)
  infoHashes,  \* rows of torrust_torrent_info_hashes
  stats,       \* rows of torrust_torrent_tracker_stats
  nextId       \* the next value of the AUTOINCREMENT key torrent_id

tables == <<torrents, infoHashes, stats, nextId>>

\* Statistics that were not obtained from the tracker are written as zeros.
Zeros == "zeros"

TorrentRow == [torrent_id : Nat, info_hash : Hashes, title : Titles]
InfoHashRow == [info_hash : Hashes, canonical_info_hash : Hashes]
\* "about" is the info-hash the tracker was asked for when the figures were
\* fetched: the figures themselves are abstracted to where they come from.
StatsRow == [torrent_id : Nat, about : Hashes \cup {Zeros}]

TablesTypeOK ==
  /\ torrents \in SUBSET TorrentRow
  /\ infoHashes \in SUBSET InfoHashRow
  /\ stats \in SUBSET StatsRow
  /\ nextId \in Nat \ {0}

TablesInit ==
  /\ torrents = {}
  /\ infoHashes = {}
  /\ stats = {}
  /\ nextId = 1

-----------------------------------------------------------------------------
(* Queries *)

IndexedHashes == {t.info_hash : t \in torrents}

\* get_torrent_canonical_info_hash_group: all the originals of a canonical hash.
OriginalsOf(canonical) ==
  {row.info_hash : row \in {x \in infoHashes : x.canonical_info_hash = canonical}}

KnownOriginals == {row.info_hash : row \in infoHashes}

TorrentsWithHash(hash) == {t \in torrents : t.info_hash = hash}

TorrentsWithId(id) == {t \in torrents : t.torrent_id = id}

-----------------------------------------------------------------------------
(* Statements *)

\* The first constraint the transaction of insert_torrent_and_get_id runs
\* into, in the order of its INSERTs: UNIQUE(info_hash) on torrust_torrents,
\* the primary key of torrust_torrent_info_hashes, UNIQUE(title).
InsertConflict(hash, title) ==
  IF Canonical[hash] \in IndexedHashes THEN "torrent_exists"
  ELSE IF hash \in KnownOriginals THEN "error"
  ELSE IF \E t \in torrents : t.title = title THEN "title_exists"
  ELSE "none"

\* insert_torrent_and_get_id, committed.
InsertTorrentRows(hash, title) ==
  /\ InsertConflict(hash, title) = "none"
  /\ torrents' = torrents \cup
       {[torrent_id |-> nextId, info_hash |-> Canonical[hash], title |-> title]}
  /\ infoHashes' = infoHashes \cup
       {[info_hash |-> hash, canonical_info_hash |-> Canonical[hash]]}
  /\ nextId' = nextId + 1
  /\ UNCHANGED stats

\* Mutant: the counter is set back although the insert never advanced it.
RollbackTorrentRows_Twice ==
  /\ nextId' = nextId - 1
  /\ UNCHANGED <<torrents, infoHashes, stats>>

\* Mutant: MySQL behaves like SQLite and gives the id back.
RollbackTorrentRows_Reuse ==
  /\ nextId' = nextId
  /\ UNCHANGED <<torrents, infoHashes, stats>>

\* insert_torrent_and_get_id, rolled back: the rows are gone and the AUTOINCREMENT
\* counter is restored with them in SQLite but not in MySQL.
RollbackTorrentRows ==
  /\ nextId' = IF RollbackFreesId THEN nextId ELSE nextId + 1
  /\ UNCHANGED <<torrents, infoHashes, stats>>

\* Mutant: no foreign key to torrust_torrents.
CanAddInfoHash_Unreferenced(hash) == hash \notin KnownOriginals

\* add_info_hash_to_canonical_info_hash_group: primary key on the original,
\* foreign key from the canonical hash to torrust_torrents.
CanAddInfoHash(hash) ==
  hash \notin KnownOriginals /\ Canonical[hash] \in IndexedHashes

AddInfoHash(hash) ==
  /\ CanAddInfoHash(hash)
  /\ infoHashes' = infoHashes \cup
       {[info_hash |-> hash, canonical_info_hash |-> Canonical[hash]]}
  /\ UNCHANGED <<torrents, stats, nextId>>

\* Mutant: no ON DELETE CASCADE on torrust_torrent_info_hashes.
DeleteTorrentRows_KeepGroup(id) ==
  /\ torrents' = torrents \ TorrentsWithId(id)
  /\ stats' = {s \in stats : s.torrent_id # id}
  /\ UNCHANGED <<infoHashes, nextId>>

\* delete_torrent: no effect when no row has the id (TorrentNotFound), and
\* ON DELETE CASCADE on the tables that reference the torrent.
DeleteTorrentRows(id) ==
  LET gone == {t.info_hash : t \in TorrentsWithId(id)} IN
  /\ torrents' = torrents \ TorrentsWithId(id)
  /\ infoHashes' = {row \in infoHashes : row.canonical_info_hash \notin gone}
  /\ stats' = {s \in stats : s.torrent_id # id}
  /\ UNCHANGED nextId

\* update_tracker_info: REPLACE on the primary key torrent_id; the foreign key
\* makes it fail, with no effect, when the torrent is not there.
ReplaceStats(id, about) ==
  /\ stats' = IF TorrentsWithId(id) # {}
              THEN {s \in stats : s.torrent_id # id}
                     \cup {[torrent_id |-> id, about |-> about]}
              ELSE stats
  /\ UNCHANGED <<torrents, infoHashes, nextId>>

=============================================================================
