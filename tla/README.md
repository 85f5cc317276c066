# A verification project for torrust-index

TLA+ models of the Torrust Index, the configurations that check them with TLC,
and proofs about them checked by TLAPS. Paths are relative to the repository
root; line numbers are those of the modelled commit.

## 1. The system

Torrust Index is a REST API (axum, `src/web`) over a relational database
(SQLite or MySQL, `src/databases`). It lists torrents, lets registered users
upload them, and manages a separate program, the BitTorrent tracker, through its
HTTP API (`src/tracker`): a private tracker serves only the info-hashes on its
whitelist and only users with a key. Requests are handled concurrently; a
handler is an async function, and every `await` in it is a point where other
handlers run. There is no lock around a handler: what protects the data are the
constraints of the database and the transactions of single statements.

| Part | State | Operations | Hard behaviour | What makes it correct |
|---|---|---|---|---|
| Upload and deletion of torrents (`services/torrent.rs`) | none of its own; local `torrent_id` across awaits | `add_torrent`, `delete_torrent` | check-then-insert, two stores without a transaction, compensation, dropped results, late tracker calls | a success answer means listed and whitelisted; a failure leaves nothing; whitelist and index agree |
| Torrent tables (`databases/sqlite.rs`, `mysql.rs`, `migrations/`) | `torrust_torrents`, `_info_hashes`, `_tracker_stats`, `_info`, `_tag_links`, `_files`, `_announce_urls` | one method per statement or transaction | constraint errors, cascades, ids after a rollback, lost commits | keys unique, every group with a torrent and every torrent with a group |
| Editing torrents (`services/torrent.rs: update_torrent_info`) | tables | title, description, category and tags as separate statements | partial updates, overlapping edits, a tag or category deleted in between | an edit is all or nothing; links refer to existing rows |
| Reading torrents (`get_torrent`, `get_torrent_info`, listings) | none | download, details, search with pages | many reads that are not one snapshot, redirect from original to canonical, `u32` offset | a page is the slice it says; an original leads to its torrent |
| Tracker service and API client (`tracker/service.rs`, `tracker/api.rs`) | user keys (`torrust_tracker_keys`) | whitelist add and remove, new key, torrent info | 5 s timeout with the call carried out anyway, key created but not saved | one usable key per user |
| Statistics importer (`tracker/statistics_importer.rs`, `console/cronjobs`, `console/commands`) | statistics table, heartbeat time | import all, import one, health check | fetch then write without order, list of torrents grows stale, zeros on any error | figures of a torrent are its own and not older than those they replace |
| Users (`services/user.rs`, `services/authentication.rs`, `mailer.rs`) | users, profiles, passwords, bans (written, never read); JWTs held by clients | register, verify e-mail, log in, renew token, ban | first administrator by id, mail fails after insertion, token outlives its user | keys unique, the oldest user is administrator, an address is verified by its owner; a token is accepted until it expires and no longer |
| Categories and tags (`services/category.rs`, `services/tag.rs`) | tables | add, delete, list | check-then-insert; a category in use is deleted | names unique; links cascade |
| Proxy and image cache (`services/proxy.rs`, `cache/`) | `BytesCache`, a quota per user | get image by URL | eviction, quota read before and written after a download | size never above capacity; quota per period |
| Settings and configuration (`services/settings.rs`, `config.rs`) | `RwLock<Settings>` that nothing writes after start | load, read, mask secrets | none | secrets masked |
| Upgrade from v1 (`upgrades/from_v1_0_0_to_v2_0_0`) | two databases | truncate, transfer table by table | crash half-way, id equality by assertion | a second run gives the result of an uninterrupted one |
| Torrent files (`models/torrent_file.rs`, `utils/parse_torrent.rs`) | none | decode, canonical hash, rebuild from tables, announce list | canonical form, rebuilt file against the uploaded one | rebuilding gives the file with the hash it is indexed under |
| Intake and answers (`web/api/server/v1`, `errors.rs`, `services/torrent_file.rs`) | none | read the form of an upload, find the user of a token, turn errors into answers | fields missing, repeated, cut off; errors converted three times | an answer blames the one who failed; the hashes of an answer lead to the torrent |
| Start-up, seeder, API client, routes (`app.rs`, `bootstrap`, `console/commands/seeder`, `web/api/client`, `ui`) | none that lasts | | pure wiring and I/O | |

The parts meet in the database and in the tracker only. The handlers of
`web/api/server/v1` extract the user, call one service method and translate its
result.

What is hard to test in each part is the list `hazards` of `PROJECT.json`: one
entry per place in the code, with the properties that would catch it.

## 2. Modules

| Module | Models | Uses |
|---|---|---|
| `InfoHashes` | original and canonical info-hashes | |
| `TorrentTables` | the rows of the torrent tables that are never edited, and the statements that change them | `InfoHashes` |
| `TrackerApi` | the tracker's whitelist and the calls under way to it (external) | `InfoHashes` |
| `TorrentIndex` | `add_torrent` and `delete_torrent`, overlapping and failing | `TorrentTables`, `TrackerApi`, `Catalogue` |
| `Catalogue` | what the tables promise, abstractly | |
| `LabelTables` | the columns that can be edited, categories, tags and links, and their statements | |
| `TorrentEditing` | `update_torrent_info` with uploads, deletions, categories and tags in between | `LabelTables` |
| `Tokens` | JSON web tokens, the users' keys at the tracker, the clock | |
| `Serving` | log-in, renewal and verification of tokens; download and details of torrents with the reader's key | `Tokens` |
| `Statistics` | the importer, its cronjob with heartbeat and health check, imports for readers | |
| `Upgrader` | the upgrade from v1, statement by statement, stopped and run again | |
| `UserTables`, `Registration` | users with their profiles; `register_user` and `verify_email`, overlapping and failing | |
| `BytesCache`, `ImageCache` | the image cache and its eviction; `get_image_by_url` with the users' quotas, overlapping | |
| `TorrentFiles` | a torrent file through the tables and back, again and again | |
| `Listing` | a client reading the list of torrents page by page while it changes | |
| `Intake` | the form of an upload, its checks, the answer, and the address the answer gives | |
| `Settings` | loading, validating, masking and showing the configuration | |
| `MCTorrentIndex`, `MCTorrentEditing`, `MCServing`, `MCStatistics`, `MCUpgrader`, `MCRegistration`, `MCImageCache` | instances for TLC, symmetry | the module of that name |
| `MCSequential` | one instance of the five modules whose steps do not overlap | `BytesCache`, `TorrentFiles`, `Listing`, `Intake`, `Settings` |
| `TorrentIndex_proofs`, `TorrentEditing_proofs`, `Serving_proofs`, `Registration_proofs`, `ImageCache_proofs` | theorems and proofs | the module of that name, TLAPS |
| `Console_proofs` | theorems about the programs of the console | `Statistics`, `Upgrader`, TLAPS |
| `Sequential_proofs` | theorems about parts whose steps do not overlap | `Settings`, `Listing`, `TorrentFiles`, `Intake`, TLAPS |
| `SequenceLemmas` | lemmas about sequences, finite sets and counting that several of the proofs need | TLAPS |

The components that run concurrently have the same layout: the state and one
operator per SQL statement or method in a module below (`...Tables`, `Tokens`,
`BytesCache`), the handlers above it. A handler is a program counter `pc[r]` per
request and the locals that live across an `await` (`tid`, `uid`, `cid`, `job`);
everything between two awaits that touch shared state is one action. A transaction
is one action, because nothing it writes is seen before it commits; what is visible
earlier - the id that MySQL hands out at the INSERT - is an action of its own
(`TakeId`). A request is served once; a client that repeats a call is another
request. Variables kept for the properties only are marked so where they are
declared.

An operator whose name ends in a suffix after an underscore (`Loop_BeatLast`,
`UsableKeys_NoMargin`) and whose comment begins with "Mutant:" is a plausible bug.
It is used by no specification: it stands in for the definition that follows it when
one wants to see that a property notices. Every property has one.

### Torrents: `TorrentIndex`

| Model | Code |
|---|---|
| `torrents`, `infoHashes`, `stats`, `nextId` | tables `torrust_torrents`, `torrust_torrent_info_hashes`, `torrust_torrent_tracker_stats`; `AUTOINCREMENT` |
| `InsertConflict`, `InsertTorrentRows`, `RollbackTorrentRows` | the transaction `insert_torrent_and_get_id`; SQLite gives the id of a rolled back insert out again, MySQL does not (`RollbackFreesId`) |
| `AddInfoHash`, `DeleteTorrentRows`, `ReplaceStats` | `add_info_hash_to_canonical_info_hash_group`, `delete_torrent` with its cascades, `update_tracker_info` |
| `CheckGroup`, `AssociateOriginal` | `canonical_info_hash_group_checks`, the query and what is done with its result |
| `InsertTorrent`, `RefuseInsert`, `LoseCommit` | `torrent_repository.add`: committed, refused by a constraint, or `drop(tx.commit().await)` with a commit that fails |
| `ImportStatistics` | the import of statistics and the sending of the whitelist call |
| `ConfirmUpload`, `GiveUpWhitelisting`, `Compensate`, `FailToCompensate` | the answer of the tracker, an error or five seconds of silence, the compensating delete and its dropped result |
| `Authorize`, `LookUpTorrent`, `DeleteTorrent`, `ConfirmDelete` | `delete_torrent` |
| `TrackerApplies`, `TrackerLoses` | a call takes effect at any time after it was sent, also when nobody waits any more, or never |
| `Abandon` | the process stops, or hyper drops the handler of a closed connection at an await |

Abstracted: an info-hash is a value with a canonical form (`Canonical`, idempotent);
titles are values; a missing category or tag is the answer `"error"`. A tracker's
figures are reduced to the hash they are about.

### Editing: `LabelTables`, `TorrentEditing`

`AuthorizeEdit` reads the torrent and compares its uploader with the user; then
comes one action for each field the edit carries, in the order of `Order`:
`EditTitle`, `EditDescription`, `EditCategory`, `CompareTags`, `UnlinkTags`,
`LinkTags`, and `Relist` and `Recategory`, which read the answer back. Each is one
statement of `update_torrent_info`, accepted when `Can...` says so and refused with
the error the code returns. `InsertUpload`, `DeleteTorrent` and the six actions
about categories and tags are what gets in between: a category that is deleted
sets the torrents' to NULL, a tag that is deleted takes its links along. `EditedId`
is the id that was authorized, which all statements use. `before` and `lone` record
what an edit found and whether another edit of that torrent was under way.

### Reading and authentication: `Tokens`, `Serving`

`Sign`, `IsAlive` and `NeedsRenewal` are the JWT of `services/authentication.rs`;
`TimeLeft` subtracts as the release build does, in `u64`. Log-in is `LookUpProfile`
and `SignToken`, renewal `CheckToken`, `CompactUser` and `RenewToken`, with the clock
moving and users deleted between them. A download or a page of details is
`Identify`, `RedirectIfNeeded`, `ReadRow`, `ReadFiles`, `ReadName` (details of a
single file only) and `ReadUrls`, each a query of its own, while `Upload` and
`Delete` change the torrents. For a private tracker `LookUpKey`, `IssueKey` and
`SaveKey` are `get_personal_announce_url`; `FailToLookUpKey` is the error that
`.ok()` turns into "no key", and `MissKey` the tracker's silence. A failed query that
ends the handler, and a dropped handler, leave nothing behind and are not actions.
Passwords are right or wrong (`LookUpProfile` may refuse).

### Statistics

The cronjob waits for a tick (`TakeTick`, missed ticks come in a burst), beats,
lists the torrents once, and for each asks the tracker, hears or times out, and
writes; `Loop` is the order of tick, heartbeat and import. The heartbeat is a POST to
the importer's API: its handler runs (`ReceiveHeartbeat`) and the answer or an error
comes back (`EndHeartbeat`), or it does not get through (`LoseHeartbeat`), or it hangs,
when none of these steps is taken while time passes. A reader's import is the same two
steps as the cronjob's. No error ends the loop: that of the heartbeat is logged, those
of the list, of the tracker and of the writing (`FailToList`, `HearNothing`,
`FailToWrite`) are dropped, as in the code. Time is kept in timers so that behaviours
have no end; `untilTick` is negative when a tick is overdue. `missed` counts the
heartbeats that failed since the last one was received, for the property only.

### Upgrade: `Upgrader`

`upgrade(source)` is the list of statements of one run, with those whose error
panics (`Insert`) and those whose error is only printed (`TryInsert`). `Execute`
takes the next; `DatabaseFails` and `Stop` are faults, `Start` runs the program again
from the beginning on the target as it is, and `UseTarget` is the application having
worked with it in between. `References` says which tables the foreign keys of a table
name. They cascade through `WithoutDangling`, in two passes, because a key leads
through at most two tables: rows go with a torrent that goes with its user.
`UpgraderAssumption` says what schemas and formats do: keys of v1 are unique, a file
has typed paths and trackers, and what the application adds to the target are rows of
its tables.

### Users: `UserTables`, `Registration`

| Model | Code |
|---|---|
| `users`, `nextUserId` | `torrust_users` with `torrust_user_profiles`, which are inserted in one transaction and deleted together |
| `Reject` | the checks of address, passwords and username |
| `TakeId`, `InsertUser`, `RefuseUser`, `LoseCommit` | `insert_user_and_get_id`; in SQLite the write lock makes it one step, in MySQL the id is taken before the profile is inserted |
| `GrantAdmin`, `FailToGrant` | `if user_id == 1`, the result dropped |
| `SendMail`, `FailToSendMail`, `Undo`, `FailToUndo` | the verification mail; when sending fails - whether or not it was delivered - the user is deleted and the result of that dropped |
| `VerifyEmail` | `verify_email`, for any mail that was ever delivered, any number of times |

The token in the link is the record `[to, sub]`: the code puts only `sub`, the user
id, in the token (`mailer.rs:138`), and `to` is kept to say whose mailbox it is in.

### Images: `BytesCache`, `ImageCache`

`entries` is the `IndexMap` of `cache/mod.rs` in its order, an image is its size.
`FreeSize` pops as `free_size` does. In `ImageCache`, `LookUp`, `CheckQuota`,
`Download`, `UpdateCache`, `ChargeCopy` and `RecordQuota` are the six steps of
`get_image_by_url`: each takes one lock and releases it. `ChargeCopy` clones and
charges the quota under a read lock, `RecordQuota` writes the clone back under a
write lock; other requests come in between. The size a URL yields may differ from
one download to the next.

### Files, pages, forms, settings

`TorrentFiles`: `Upload` is decoding, the canonical hash, `Customized` announce URLs
and the rows that are inserted; `Download` is `from_database` and
`include_url_as_main_tracker`. The info dictionary stands for its hash. A file that
is downloaded can be uploaded to another index (`trips`). The rows of files and URLs
are taken to come back in the order they were inserted in. Neither `SELECT` has an
`ORDER BY` (`databases/sqlite.rs:699`), so this is how the databases scan a table or
its index and no promise of theirs; any other order would change the hash of a
torrent with several files.

`Listing`: `Specification` is the translation of the request with its `u32` product,
`Rows`, `Sorted` and `Limit` the SQL query. The database may order ties as it likes,
on every page anew. `UploadListed` and `DeleteListed` change the list between pages.

`Intake`: one action per field of the multipart form, with the cursor that
overwrites the one byte it starts with, or the panic of a body that breaks off, then
`AddTorrent` with the checks in the order of the code and any one failure of the
database, at each statement, or the tracker. `RequestStatus`,
`ServiceStatus` and `Of...` are the conversions of `errors.rs`. `DownloadAnswer` is
the download handler for an address. Texts are short sequences of characters,
because the title has a minimal length, tags are parsed and hashes change case.
`IntakeAssumption` says that `Nothing` is no value, that no category has the empty
name, that forms and hashes are typed, and of hashes (`HashesOfFiles`) that a file
whose hash is the original or the canonical one of another has that one's canonical
hash too: a hash determines its info dictionary, and what the index makes of a
dictionary it made is the same again.

`Settings`: every run finds another environment and other files; `GetAll`,
`GetPublic` and `GetSiteName` are the handlers.

## 3. Runs

| Run | Question | Bounds |
|---|---|---|
| `TorrentIndex_failures` | do the tables keep keys and groups and implement `Catalogue`; does a success answer mean listed and whitelisted | 3 requests, SQLite, 3 hashes, 2 titles; tracker, database and abandon failures |
| `TorrentIndex_commits` | does a refused upload leave nothing, does its compensation remove only its own torrent, is every request answered | 2 requests, MySQL, lost commits, tracker failures, abandon; fairness of handlers |
| `TorrentEditing_overlap` | do rows keep their references; is an edit that nobody overtakes visible, and a failed one a prefix; does an upload keep its category and an edit its author | 3 requests of 3 users (one administrator) out of a menu of 14, 3 hashes; failing statements, dropped handlers |
| `Serving_overlap` | does a renewal never shorten a session; does a key last and are spare ones explained; is an answer about one torrent | 2 requests, 1 user, 3 hashes, ids to 2; tokens live 2 and are renewed in the last 1, keys 3 with margin 1, `u64` of 16 values, clock to 2 |
| `Statistics_imports` | is the health check right about a live cronjob; do heartbeats go on; do the figures settle | 2 hashes, ids to 2, figures 0 and 1, interval and timeout 1, margin 0, ticks late by up to 1, heartbeats that fail counted to 2; fairness |
| `Upgrader_again` | does a finished run leave the image of the source; does the upgrade finish in the end | 5 sources, 2 uses of the target, 2 faults; fairness |
| `Registration_failures` | keys, verified addresses, and what the answers promise; is only the own account undone | 3 requests, MySQL, 2 usernames, 2 addresses; lost commits, database, mail and abandon failures |
| `ImageCache_overlap` | usage bounded, never charged for more than was downloaded | 3 requests of one user or an anonymous one, 2 URLs, sizes 1-3 with limit 2, quota 2, period 1, clock to 2 |
| `Sequential_parts` | the cache, files, pages, forms and settings, each alone | cache: 4 keys, sizes 0-4, capacity 5, limit 3; files: 4 trips; listing: 4 torrents, pages of up to 3, `u32` of 8 values, 5 pages; forms: 2 torrents on the index; settings: 2 runs |
| `TorrentIndex_reupload`, `ImageCache_no_reset`, `TorrentFiles_rebuilt` | disagreements, section 5 | |

Why the bounds are enough.

- Every race of the upload that we know involves two uploads, or an upload, a
  deletion and a second upload: three requests. `c1` and `x1` have the same canonical
  form, `c2` is another torrent: that gives a group with two originals beside an
  independent one. Two titles let two torrents exist together and a third collide
  with one of them. What `TorrentIndex_commits` asks is proved for any number of
  requests as far as it is about safety; two suffice for the commit that is lost while
  another request goes on.
- The menu of `TorrentEditing_overlap` has an edit of every column, one whose title
  is taken, one by an administrator, one that lists a tag twice and one by a user who
  may not, all of the same torrent; a deletion and an upload of that torrent by
  another user, so that its hash comes back with another id; and categories and tags
  that go and come back under the same names, one typed with blanks.
- In `Serving_overlap` the clock passes the expiry of tokens and keys between any two
  steps of a request (a token of an earlier log-in is good until 1, an earlier key
  too short-lived from 1 or 2 on), an original redirects to a torrent or is one, and a torrent can be
  deleted and uploaded again with a new id between two queries. The user may start
  with no key or with two that overlapping requests left behind.
- In `Statistics_imports` an import can take longer than interval and margin together,
  a torrent can be deleted and another one listed while an import runs, and a reader's
  import can hear before and write after the cronjob's. Any number of heartbeats can
  fail or hang in turn; `MaxMissed` only bounds what is counted of them, and from there
  on `UnhealthyMeansOverdue` holds of any state (the last step of its proof). Nothing
  tells the two hashes apart before the first upload, so that it is `h1` (`Arrivals`).
  Everything cycles, so the liveness properties are about infinite behaviours and not
  about a clock that ends.
- The sources of `Upgrader_again` are one that can be upgraded, with gaps in its ids
  and both kinds of torrents, one with a torrent without tracker, and three that the
  program panics at. Two faults are a stopped run after a stopped run. The target may
  have been used before: the migrations left a category whose id the source has too,
  and the application added tags, users and torrents that a run must remove.
- In the registration run two usernames and two addresses let the second of three
  registrations collide in either, and the third reuse what was freed. SQLite differs
  in when an id is taken and given out again; the proofs cover both databases.
- In `Sequential_parts` one insertion in the cache can evict none, one, several or
  all entries, zero-sized ones among them. A file has up to two files with paths of
  every odd kind; it is uploaded and downloaded four times, twice after it has
  settled. Pages are cut at every size up to the maximum, with page numbers whose
  product with the size comes close to the `u32` bound. The parts share no state, so
  that one behaviour runs one of them; where a client has read its last page or an
  index has been started twice nothing happens any more, which is why deadlock is not
  checked in this run and in `TorrentFiles_rebuilt`. It is in all others; `Served` and
  `Registered` stutter when every request has been answered.
- In `ImageCache_overlap` one image fills the quota to one below or to the top, all
  three requests can hold a clone of the quota at once, and the clock can pass the end
  of a period (1) with a download on either side of it.

The bounds on counters are `MaxTime`, `MaxId`, `MaxLate`, `MaxMissed`, `MaxFaults`,
`MaxTrips`, `MaxPages`, `MaxShelf` and `MaxRuns`, and the number of requests. Symmetry is used in
safety runs only.

Fairness.

- `TorrentIndex`: weak fairness of the steps of each handler. tokio polls every task
  whose future is ready, and each step that ends a wait is continuously enabled - for
  the wait for the tracker because the client of `tracker/api.rs:31` gives up after
  five seconds (`GiveUpWhitelisting`, and `ConfirmDelete`, which drops the result).
  Nothing is assumed of the tracker, of clients or of administrators: without the
  timeout `EveryRequestIsAnswered` fails, which is its mutant.
- `Statistics`: weak fairness of the cronjob and the clock, for the same reason; of
  readers nothing is assumed. No failure is fair, and strong fairness is assumed of the
  three steps that a failure may take the place of any number of times. Of
  `ReceiveHeartbeat`: not
  all heartbeats fail from some time on, and no POST hangs for ever. The code does not
  guarantee the latter, its client has no timeout (`tracker_statistics_importer.rs:133`);
  the API it calls is a task of the same process at 127.0.0.1. Where that fails - the
  port is taken by another program, say - the loop stands still at the POST and imports
  nothing. Of the list of torrents and of the writing of each torrent's figure: the
  database does not refuse the same statement every time; a database that does leaves
  figures as they were, and no program could do otherwise. `HeartbeatsGoOn` depends on
  the first of the three only, `FiguresSettle` on all of them.
- `Upgrader`: a running program goes on, and whoever upgrades runs it again until it
  finishes; the number of faults is bounded.

## 4. Proofs

Each theorem holds for every value of the constants that the assumptions named in
the modules allow: any sets of requests, hashes, titles, users, categories and sizes,
both databases, every set of failures - except where an assumption is named below.

`TorrentIndex_proofs`. `TypeInv` adds to `TypeOK` that a request in a step of an
upload (a deletion) is an upload (a deletion). The lemmas `UploadStepEffect` and
`DeleteStepEffect` show that whatever a handler does, the tables change by one
statement: `TableEffect`. All that follows is about statements and no longer about
handlers. `TablesInv` = types, `KeysAreUnique` and `GroupsMatchIndex`, which need
each other: that the cascade of a deletion empties exactly one group takes the
uniqueness of hashes, and that an insertion into an empty group meets no torrent
takes `GroupsMatchIndex`. `TablesImplementCatalogue` maps the tables to the
catalogue `[c \in IndexedHashes |-> OriginalsOf(c)]` and each statement to
`Publish`, `Associate`, `Withdraw` or a stutter.

A handler keeps the id of the torrent it inserted over
three awaits. `IdsInv` says that this id means its own torrent or none and that no
other handler has it (`IdsAreOwn`), and that a handler which called the tracker
inserts and deletes no more (`CallsFollowSteps`). It needs `CommitsAreKept`: not both
SQLite and failing commits, because SQLite gives the id of a lost insertion to the
next one. From it follow `UploadsRemoveOnlyTheirOwn`; `RefusedUploadsAreUndone`, with
the invariant `RefusedAreGone`, if the database does not fail at the compensating
delete as well; and `AckedUploadsStayListed`, with the invariant `KeptAreListed`, if
no commit is lost at all - a lost commit is answered with success.
`AckedUploadsStayWhitelisted` needs no assumption about failures: `WhitelistInv` says
that a call is about the hash of its own request and is made once (`CallIsOwn`), that
success is answered after the tracker carried it out, and that a hash which was added
is listed or a removal of it was carried out (`AddedStays`); the removals are all of
deletions.

`TorrentEditing_proofs`. `TablesStayConsistent` proves the schema's promises
(`AreConsistent`: types, unique keys, references, ids below the next) by one lemma
per statement; a step of a handler is one statement or none. `EditsStayAuthorized`
needs that the id an edit was let pass with still means a torrent of the user whom it
was checked for, if it means one: an id is not given out again, so a torrent that was
deleted and uploaded by someone else has another. `UploadsKeepTheirCategory` is the
same argument for categories: once an upload has looked an id up, the id means a
category of that name or none (`HasCategory`), and a deleted category's id comes to
mean no other. What an edit leaves is said of those that nobody overtakes (`lone`).
`IsAlone` says that its torrent, if it is still there, has at each step the title and
description that the edit has written by then or found (`FieldAt`), and of its category
and tags those that still exist - a label that was deleted is gone, and its id comes
to mean no other (`LabelsAreKnown`). `PartialEditsArePrefixes` and
`AckedEditsAreVisible` follow, the second because success is answered only after the
last of the statements.

`Serving_proofs`. `AnswersAreOneTorrent` needs that the id which was read with the row
means the torrent that was asked for or none, and stays below the next id
(`ReadsOneTorrent`). `RenewalsKeepOrExtend` needs that no token outlives one signed
now (`TokensInv`): the wrapped difference of an expired token may then do what it
likes. For keys, `KeysInv` says of every request under way that each key the reader
had when he asked is still there, unless his account is not (`IsKept`), and that who
asks the tracker for a key had none that was good, or could not look, or has no
account (`NoneWasGood`); then `SaveKey` cannot answer for a removed account.
`AnnounceKeysLast` and `SpareKeysAreOfOverlaps` follow. Two of the module's named
assumptions matter here: whoever renews presents a token (`AsksAssumption`), and keys
from before were issued with today's validity (`EarlierKeysAssumption`) - an
administrator who shortens `token_valid_seconds` makes a new key worse than an old
one.

`Registration_proofs`. `KeysStayUnique` needs, for MySQL, that the ids taken by
transactions still running differ from each other and from those of the users
(`TakenIdsAreFree`). `OnlyOwnersVerify` and `RegistrationsUndoOnlyThemselves` need
that each handler that still holds an id means the user it inserted, with its name
and address, and that each mail ever sent for an id went to the address of the user
who has it now (`AccountsAgree`). Both are proved under `CommitsAreKept` and false
without it. `AckedRegistrationsExist` and `RefusedRegistrationsAreUndone` need that
the id a registration has taken is its own for ever, also when it is answered
(`IdsAreOwn`), so that no other undoes it or takes its place. Also under
`CommitsAreKept`; the handlers that dropped an error are excepted in the properties.

`Console_proofs`, of the importer: `TypeCorrect` needs that whoever waits for the tracker has a
torrent. `OnlyOverdueImportersAreUnhealthy`: while no heartbeat is missing the health
check fails only if a tick is overdue by more than the margin, so that no importer which
comes to its ticks is restarted; each tick whose heartbeat failed or hangs (`Unheard`)
takes an interval off that. By `BeatFollowsTick` the age of the last heartbeat and the
time until the next tick together are at most `1 + Unheard` intervals; ticks that come
late in a burst do not break it. When `missed` has reached `MaxMissed`, which is
`Margin + 2`, the property follows from `untilTick <= Interval` alone.

`Console_proofs`, of the upgrade: `UpgradeKeepsTypes` and `FinishedUpgradeIsImage`. The
inductive invariant `UpgradeInv` adds to `UpgradeTypeOK` and `FinishedIsImage` that a
running program is as far as it was told (`RunsAsTold`). After `n` statements
(`UpgradeProgress`) the tables among the first `n` to truncate are empty; later, a
table holds exactly the rows that one of the first `n` statements inserts and whose
error was not printed; and every condition among them holds. That a table, once
emptied, stays so needs that rows refer to rows that exist, so that nothing is left of
the hashes when the torrents are gone (`HashesGoWithTorrents`); that the cascades leave
such a database needs that references do not go deeper than two tables
(`ReferencesOfReferences`). The end of the run then is a question about the list of
statements alone, which is answered for a source of any size: rows sorted by key come
each once (`Rank`, `InOrder`), the statements of a loop are those of its rows, one
behind the other, and those of the whole upgrade insert the rows of `Image` and no
others, if its conditions hold.

`ImageCache_proofs`. `UsageStaysBounded`: the usage recorded for a user is below
`MaxUsage + EntrySizeLimit`. It is not inductive because a clone that was charged
earlier overwrites what is recorded; `UsageInv` says the same of every clone still
held, and that what waits to be charged passed `check_image_size`.
`NobodyIsOvercharged`: a user's usage is at most what was downloaded for him since
its period began, a sum over a set of requests. `ChargesInv` says so of what is
recorded, and of every clone on its way back that it exceeds this sum by the image of
its own handler at most, which is not answered and so not in the sum yet.
`CacheFitsCapacity` and `EvictionKeepsTheNewest` are of the cache alone. The size of
the cache is a fold over a sequence; the lemmas say what it is of two sequences one
after the other and of one without one of its entries, and that there is a least
number of pops that frees enough. `CacheInv` adds that keys differ, so that the entry
which is removed under a key is the only one. `HandlersShareTheCache`: the requests of
`ImageCache`, however they overlap, change the cache as `BytesCache` says or not at
all, so that both theorems hold of the cache they use.

`Sequential_proofs`, about parts whose steps do not overlap.

- `Settings`: `SecretsAreNeverTold`. Whatever environment and file the index is started
  with, the public fields of what runs are those of a text (`PublicPartIsPublic`): the
  environment replaces secrets only. `SettingsAssumption` says that neither mask is a
  secret and that nobody writes one into a public field of a text.
- `Listing`: `OnlyTheAskedIsRead` and `NoTorrentIsMissed`, with requests, pages and
  torrents of any number. `PagesInv` says that the product of the next page and its size
  does not wrap (`OffsetIsExact`), that a torrent of the start was read or has its place,
  its rank in the order, at the next offset or after it, unless one was deleted
  (`NoneIsSkipped`), and that those that were read have theirs before it, unless one was
  uploaded (`NoneIsRepeated`). The lemmas count: the rank of a torrent is the number of
  those sorted before it, and a page is the ranks from its offset on.
  `ListingAssumption` asks that all torrents and one page more fit in `u32`; beyond that
  the product wraps and pages begin again at the front (section 5).
- `TorrentFiles`: `PlainHashesSurvive`, `HashesSettle` and `NoTrackerIsLost`. `FilesInv`
  says that the rows are those of the file that was uploaded, and what form a file has
  after its trips (`FormAfter`): `Rebuilt` after one, with no fields but those that are
  put back, and `Settled` after two, which a further trip does not change. The lemmas
  are round trips of the conversions: a path that is joined and split is itself
  (`SplitUndoesJoin`), digits of piece hashes are read back as the same bytes
  (`DigitsMakeTheSameBytes`), announce URLs that are flattened, stored and read back are
  the same set (`TrackersOfDownloads`). `FilesAssumption` says that the files are typed
  and that a missing value is no value. The texts of files are members of a set,
  `Texts`, with `Empty` for the empty one.
- `Intake`: `AnswersBlameWhoFailed` and `AnswersLeadToTorrents`, for forms of any length
  and hashes of any. `IntakeInv` says that while a form is read the draft is what its
  first fields say (`DraftIsWhatWasRead`): of a text what was said last with a value,
  of files the bytes of all of them, one chunk behind the other (`AllIsWritten`), the
  byte that the buffer starts with overwritten by the first. It also says that of the
  torrents on the index no two have the same canonical hash, and that each of their
  original hashes is that of a file with this canonical hash (`IsShelf`). The first
  theorem then compares each check of `add_torrent`, in the order of the code, with
  what is wrong with the form (`RefusalsAreSorted`, `FaultsOfTheSender`): an error that
  fits the request keeps its side of 500 through the three conversions. The second
  needs that digits written for a hash are read back as the same bytes in either case
  (`HashOfItsText`), and that a hash leads to one row (`HashesLeadToTorrent`):
  `find_canonical_info_hash_for` finds the group of the torrent whichever row it takes,
  and a canonical hash is not redirected to another.

Each of the parts has a specification of its own (`CacheSpec`, `SettingsSpec`,
`ListSpec`, `FilesSpec`, `IntakeSpec`) which the theorems are about; `MCSequential` runs one of them
in each behaviour. The induction theorems of the library take operators, which the
provers cannot instantiate. What a function yields that is defined by recursion over a
natural number (`FlattenSeq`, `Without`, the folds over sequences and sets) is
therefore proved of sets of numbers: a set that does not hold every number lacks a
least one (`Least`, `InductionUpTo`, `InductionFromZero`).

Each property was checked with TLC on the instances above before it was proved.

Every invariant and every action property of the passing runs is a theorem, under the
conditions named above where there are any. Only model-checked is liveness
(`EveryRequestIsAnswered`, `HeartbeatsGoOn`, `FiguresSettle`, `GoodSourcesAreUpgraded`):
it rests on fairness, and ENABLED is out of reach of the prover.

## 5. Disagreements between code and documentation

With a run that shows them:

- `TorrentIndex_reupload`: a deletion's removal from the whitelist is sent after the
  row is gone (`services/torrent.rs:302`), and can arrive after the same torrent was
  uploaded and whitelisted again; "We always whitelist the torrent on the tracker"
  (`services/torrent.rs:155`).
- `ImageCache_no_reset`: the period of a quota is looked at in `add_usage` only, and a
  user who reached the quota does not get there (`cache/image/manager.rs:181`):
  refused until a restart (`config.rs:341`, "a cache quota per period").
- `TorrentFiles_rebuilt`: a folder with one file has the same rows as a single file
  and is rebuilt as one (`models/torrent_file.rs:252`), with another info-hash than it
  was uploaded with; `tests/e2e/web/api/v1/contexts/torrent/contract.rs:303` is named
  for the opposite.

Met while modelling; a property of a passing run excepts it, or it can be seen by
changing the constants of the run that is named:

- Lost commits (`drop(tx.commit().await)`). In SQLite the id of a lost insertion goes
  to the next upload, and the compensating delete of the first removes the torrent of
  the second (`services/torrent.rs:167`; `TorrentIndex_commits` with
  `RollbackFreesId`); the link mailed for a lost id verifies the address of the next
  user (`Registration_failures`, likewise); and a success answer stands for no row
  (`AckedUploadIsListed` with `"commit"` in `Faults`).
- The compensating delete of an upload drops its error: with `"database"` in `Faults`
  a refused upload may stay listed (`TorrentIndex_commits`).
- The first account is administrator because its id is 1 (`services/user.rs:128`).
  When it is deleted because its mail could not be sent, or when in MySQL a
  transaction that is rolled back used up id 1, no account is;
  `tests/e2e/web/api/v1/contexts/user/steps.rs:50` says "The first registered user is
  always an admin".
- A torrent deleted while its upload waits for the tracker is whitelisted afterwards;
  of two files with one canonical form uploaded together, the one that is refused is
  not associated with the torrent.
- Edits: an edit whose category is deleted just before the answer is read back is
  made, and answered with an error. A tag that does not exist is deleted with success.
- Keys: overlapping requests of a user make the tracker issue one key each, and a
  failing look-up one more (`tracker/service.rs:195`).
- Renewal: a token that expires between the check and the subtraction makes the
  difference wrap, and is handed back as it is (`services/authentication.rs:104`).
- Statistics: the heartbeat is sent before the import and the import's error is
  dropped, so that a healthy container says that the loop runs and not that imports
  succeed; a heartbeat that fails is logged and not sent again, so that with an interval
  longer than the margin one lost POST makes a working importer look dead. Any error of the tracker is stored as zeros.
- Files: `source` is stored but not put back, the path of a single file and a file's
  further fields are dropped; every such file changes its hash once and then settles
  (`SettlesInTwoTrips`).
- Pages: the product of page and page size is computed in `u32`
  (`services/torrent.rs:446`), so that pages beyond 2^32 rows begin again at the
  front; a torrent with two of the asked tags shows its seeders twice; unknown names
  filter nothing; torrents with equal sort keys may come twice or not at all; a
  deletion between two pages makes the next miss a row.
- Upgrade: upgraded torrents get no row in `torrust_torrent_info_hashes`; `private`
  becomes 0 where it was not given; files, titles and trackers whose insertion failed
  are printed and the upgrade still says that it has finished. Sources with a key
  without user, a torrent without file or with a root hash are panicked at.
- Answers: a wrong length of `pieces` is answered as a title that is too short
  (`errors.rs:241`); any error of the database at the user's or the category's look-up
  is answered as if there were none; tags that are unknown or listed twice, and files
  with neither pieces nor a root hash, give 500. An `Authorization` header of another
  scheme or of bytes that are no text, a field without name or a file without content
  type make the handler panic (`auth.rs:144`), and a torrent whose name fits in no
  header makes each of its downloads panic. Every error of a token is answered as a
  user who is not logged in.
- Bans are stored and never read.

## 6. Not modelled

Bencoding, SHA-1, password hashing, JWT encoding and mail formatting are library
code and enter as values. The hasher and the validation of strings are pure functions
on strings and bytes with tests of their own; the models take their results as given.
Routes, serialization and the wiring of the program keep no state. The seeder and
the API client are development tools that make one call after another. `ban_user`
writes rows nothing reads. The methods of the configuration that no handler calls
(`load_from_file`, `save_to_file`, `get_all`) are left out. The clock of
`ImageCache` does not run backwards. `cache/cache.rs` is not part of the program: no
`mod` names it. Foreign keys from torrents to users are not modelled: nothing deletes
a user that has torrents but `Undo`, right after the insertion.

The components meet in the tables, of which each module has the columns its handlers
touch; where one needs what another does, it has the outcome as single steps
(`Remove`, `Upload` and `Delete` in `Serving` and `Statistics`), and the module that
has the handler says how that comes about. There is no module with all tables and all
handlers: its instances would be out of reach before three requests met.

## 7. What could come next

1. `TorrentIndex` and `TorrentEditing` over one set of tables: an edit of a torrent whose
   upload is being undone is in `TorrentEditing` only, as a deletion.
2. The theorems that except lost commits and failing compensations (`CommitsAreKept` and
   the conditions beside it) without the exception, once the program checks the results
   it drops today; until then they would be false (section 5).
