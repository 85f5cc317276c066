---------------------------- MODULE TorrentFiles ----------------------------
(***************************************************************************)
(* A torrent file on its way through the index: decoded at the upload,     *)
(* spread over the tables, rebuilt from them at a download, and uploaded   *)
(* again to another index.  Bencoding is library code and SHA-1 has no     *)
(* collisions here, so the info dictionary itself stands for its info-hash.*)
(*                                                                         *)
(* A name in a path is the sequence of its parts between slashes, <<Empty>>*)
(* the empty one; a text that the tables hold is such a sequence too.      *)
(***************************************************************************)
EXTENDS Integers, Sequences, SequencesExt

CONSTANTS
  None,        \* the value of a field that is not there
  Texts,       \* the parts of names, the URLs, checksums and sources there are
  Empty,       \* the empty text
  IndexUrl,    \* settings.tracker.url
  MainUrls,    \* the announce URLs downloads get: the index's and a user's own
  Torrents,    \* the files that are uploaded first
  MaxTrips     \* how often a downloaded file is uploaded again, a bound

\* The parts of a name between slashes.
Name == Seq(Texts) \ {<<>>}
Byte == 0 .. 255
Digit == 0 .. 15

FileEntry == [path : Seq(Name), length : Nat, md5sum : {None} \union Texts]

Info == [pieces : {None} \union Seq(Byte), root_hash : {None} \union Seq(Digit),
         private : {None} \union Nat, length : {None} \union Nat,
         md5sum : {None} \union Texts, path : {None} \union Seq(Name),
         files : {None} \union Seq(FileEntry), source : {None} \union Texts]

TorrentFile == [info : Info, extra : BOOLEAN, announce : {None} \union Texts,
                announce_list : {None} \union Seq(Seq(Texts))]

ASSUME FilesAssumption ==
  /\ Empty \in Texts /\ IndexUrl \in MainUrls /\ MainUrls \subseteq Texts
  /\ Torrents \subseteq TorrentFile
  /\ MaxTrips \in Nat
  /\ None \notin Nat /\ None \notin Texts /\ None \notin Seq(Texts)
  /\ None \notin Seq(Byte) /\ None \notin Seq(FileEntry) /\ None \notin Seq(Seq(Texts))

VARIABLES
  file,      \* the torrent file a user holds
  trips,     \* through how many indexes it has come
  row,       \* what the tables hold of the torrent, or None
  uploaded   \* the file the rows were made of and its trips (history)

fileVars == <<file, trips, row, uploaded>>

-----------------------------------------------------------------------------
(* Conversions.                                                            *)

\* Mutant: {byte:X} instead of {byte:02X}.
FromBytes_NoPadding(bytes) ==
  FlattenSeq([i \in DOMAIN bytes |->
                IF bytes[i] < 16 THEN <<bytes[i]>> ELSE <<bytes[i] \div 16, bytes[i] % 16>>])

\* Each byte is written as two digits.
FromBytes(bytes) == FlattenSeq([i \in DOMAIN bytes |-> <<bytes[i] \div 16, bytes[i] % 16>>])

\* Two digits make a byte again.
IntoBytes(digits) == [i \in 1 .. Len(digits) \div 2 |-> 16 * digits[2 * i - 1] + digits[2 * i]]

\* Mutant: every name is preceded by a slash.
JoinPath_Rooted(path) == <<Empty>> \o FlattenSeq(path)

\* The names of a path, joined with slashes into one text.
JoinPath(path) == IF path = <<>> THEN <<Empty>> ELSE FlattenSeq(path)

\* The names of a path column; one that is NULL is an empty text.
SplitPath(text) == IF text = None THEN <<<<Empty>>>> ELSE [i \in DOMAIN text |-> <<text[i]>>]

FileSize(info) ==
  IF info.length # None THEN info.length
  ELSE IF info.files = None THEN 0
  ELSE FoldLeft(LAMBDA size, f : size + f.length, 0, info.files)

\* An info dictionary made of columns and files: one file gives a length, and a
\* path unless its first name is empty; any other number of files gives a list.
InfoWith(private, rootHash, digits, files) ==
  LET single == Len(files) = 1
      noPath == single /\ Head(files[1].path) = <<Empty>>
  IN [pieces    |-> IF rootHash THEN None ELSE IntoBytes(digits),
      root_hash |-> IF rootHash THEN digits ELSE None,
      private   |-> private,
      length    |-> IF single THEN files[1].length ELSE None,
      md5sum    |-> IF single THEN files[1].md5sum ELSE None,
      path      |-> IF single /\ ~noPath THEN files[1].path ELSE None,
      files     |-> IF single THEN None ELSE files,
      source    |-> None]

\* The torrent that /torrent/random answers with: one small file.
GenerateRandomTorrent(hash, size) ==
  [info |-> InfoWith(None, FALSE, FromBytes(hash),
                     <<[path |-> <<<<Empty>>>>, length |-> size, md5sum |-> None]>>),
   extra |-> FALSE, announce |-> None, announce_list |-> <<>>]

-----------------------------------------------------------------------------
(* Upload.                                                                 *)

\* decode_and_validate_torrent_file; a dictionary with neither pieces nor root
\* hash is refused at the insertion, and one with neither length nor files
\* makes it panic: nothing is stored.
Accepted(torrent) ==
  /\ torrent.info.pieces # None => Len(torrent.info.pieces) % 20 = 0
  /\ torrent.info.pieces # None \/ torrent.info.root_hash # None
  /\ torrent.info.length # None \/ torrent.info.files # None

IsPrivate(torrent) == torrent.info.private = 1

\* canonical_info_hash: the info dictionary that was decoded, encoded again and
\* hashed; what decoding dropped counts no more.
CanonicalInfoHash(torrent) == torrent.info

\* The announce URL becomes the index's; a private torrent has no other tracker.
Customized(torrent) ==
  [torrent EXCEPT !.announce = IndexUrl,
                  !.announce_list = IF IsPrivate(torrent) THEN None ELSE @]

\* A length makes one row without a path, else every file makes a row.
FileRows(info) ==
  IF info.length # None
  THEN <<[path |-> None, length |-> info.length, md5sum |-> info.md5sum]>>
  ELSE [i \in DOMAIN info.files |->
          [info.files[i] EXCEPT !.path = JoinPath(info.files[i].path)]]

\* The tiers of the announce list are flattened, or else the one URL is kept.
AnnounceRows(torrent) ==
  IF torrent.announce_list # None THEN FlattenSeq(torrent.announce_list)
  ELSE <<torrent.announce>>

\* The rows of a torrent, under its canonical info-hash.
RowsOf(torrent) ==
  LET info == torrent.info
  IN [info_hash |-> CanonicalInfoHash(torrent),
      size      |-> FileSize(info),
      private   |-> info.private,
      pieces    |-> IF info.pieces # None THEN FromBytes(info.pieces) ELSE info.root_hash,
      root_hash |-> info.pieces = None,
      source    |-> info.source,
      files     |-> FileRows(info),
      urls      |-> AnnounceRows(torrent)]

\* The file is uploaded to an index that does not have it yet.
Upload ==
  /\ trips < MaxTrips
  /\ Accepted(file)
  /\ row' = RowsOf(Customized(file))
  /\ uploaded' = [torrent |-> file, trips |-> trips]
  /\ UNCHANGED <<file, trips>>

-----------------------------------------------------------------------------
(* Download.                                                               *)

\* Torrent::from_database, with every announce URL in a tier of its own.  The rows
\* of files and of URLs come back in the order they were inserted in: neither SELECT
\* has an ORDER BY, so this rests on the databases' scan of the table or its index.
FromDatabase(r) ==
  [info |-> InfoWith(r.private, r.root_hash, r.pieces,
                     [i \in DOMAIN r.files |-> [r.files[i] EXCEPT !.path = SplitPath(@)]]),
   extra |-> FALSE,
   announce |-> None,
   announce_list |-> [i \in DOMAIN r.urls |-> <<r.urls[i]>>]]

\* retain: an element goes wherever it is, the others keep their order.
Without(list, gone) ==
  LET kept[n \in 0 .. Len(list)] ==
        IF n = 0 THEN <<>>
        ELSE IF list[n] = gone THEN kept[n - 1] ELSE Append(kept[n - 1], list[n])
  IN  kept[Len(list)]

\* Mutant: the URL is put in front before its other occurrences are removed.
IncludeUrlAsMainTracker_InsertFirst(torrent, url) ==
  LET list == <<<<url>>>> \o torrent.announce_list
  IN [torrent EXCEPT
        !.announce = url,
        !.announce_list = Without([i \in DOMAIN list |-> Without(list[i], url)], <<>>)]

\* The URL is taken out of every tier and put in front, in a tier of its own.
IncludeUrlAsMainTracker(torrent, url) ==
  LET list == torrent.announce_list
      others == [i \in DOMAIN list |-> Without(list[i], url)]
  IN [torrent EXCEPT !.announce = url,
                     !.announce_list = <<<<url>>>> \o Without(others, <<>>)]

\* get_torrent, for the URL that the tracker's mode and the user ask for.
Downloaded(url) == IncludeUrlAsMainTracker(FromDatabase(row), url)

Download(url) ==
  /\ row # None
  /\ file' = Downloaded(url)
  /\ trips' = uploaded.trips + 1
  /\ UNCHANGED <<row, uploaded>>

-----------------------------------------------------------------------------

FilesInit ==
  /\ file \in Torrents
  /\ trips = 0
  /\ row = None
  /\ uploaded = None

FilesNext == Upload \/ \E url \in MainUrls : Download(url)

FilesSpec == FilesInit /\ [][FilesNext]_fileVars

-----------------------------------------------------------------------------

\* Info dictionaries of the fields that BEP 3 and BEP 30 name: pieces or a root
\* hash, and the length of one file or the plain paths of files in a folder.
Standard(torrent) ==
  LET info == torrent.info
  IN /\ ~torrent.extra /\ info.source = None /\ info.path = None
     /\ info.pieces = None \/ info.root_hash = None
     /\ \/ info.length # None /\ info.files = None
        \/ /\ info.length = None /\ info.md5sum = None
           /\ \A i \in DOMAIN info.files :
                LET path == info.files[i].path
                IN /\ path # <<>>
                   /\ \A k \in DOMAIN path : Len(path[k]) = 1 /\ path[k] # <<Empty>>

\* Torrents that the tables can hold: a folder with one file is told from a file
\* by nothing.
Plain(torrent) ==
  Standard(torrent) /\ (torrent.info.files # None => Len(torrent.info.files) # 1)

\* Whoever downloads a plain torrent gets the info-hash that was uploaded, the
\* one the index lists and the tracker has on its whitelist: hex digits, path
\* texts and file rows lose nothing between insert_torrent_and_get_id and
\* TorrentInfoDictionary::with.
PlainTorrentsKeepTheirHash ==
  row # None /\ Plain(uploaded.torrent) =>
    \A url \in MainUrls : /\ Downloaded(url).info = uploaded.torrent.info
                          /\ Downloaded(url).info = row.info_hash
                          /\ FileSize(Downloaded(url).info) = row.size

\* A file that has come through two indexes changes no more: what is rebuilt from
\* the tables (with, get_torrent_files_from_id) is a form that, stored and
\* rebuilt again, stays the same, for torrents that are not plain too.
SettlesInTwoTrips ==
  row # None /\ uploaded.trips >= 2 =>
    \A url \in MainUrls : Downloaded(url).info = uploaded.torrent.info

\* The tracker of a download is its announce URL and its first tier and nowhere
\* else, no tier is empty, and no other tracker of the uploaded list is lost or
\* added (customize_announcement_info_for, include_url_as_main_tracker).
TrackersAreKept ==
  row # None =>
    \A url \in MainUrls :
      LET list == Downloaded(url).announce_list
          all == FlattenSeq(list)
          before == IF IsPrivate(uploaded.torrent) \/ uploaded.torrent.announce_list = None
                    THEN {IndexUrl}
                    ELSE ToSet(FlattenSeq(uploaded.torrent.announce_list))
      IN /\ Downloaded(url).announce = url
         /\ list # <<>> /\ list[1] = <<url>>
         /\ \A i \in DOMAIN list : list[i] # <<>>
         /\ \A i \in DOMAIN all : all[i] = url => i = 1
         /\ ToSet(all) = before \union {url}

\* "the_downloaded_torrent_should_keep_the_same_info_hash_if_the_torrent_does_not_
\* have_non_standard_fields_in_the_info_dict", a test of
\* tests/e2e/web/api/v1/contexts/torrent/contract.rs says.
StandardTorrentsKeepTheirHash ==
  row # None /\ Standard(uploaded.torrent) =>
    \A url \in MainUrls : Downloaded(url).info = uploaded.torrent.info

=============================================================================
