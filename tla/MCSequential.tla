---- MODULE MCSequential ----
(* The parts of the index that run in one step at a time: the bytes cache under *)
(* its lock, the way of a torrent file through the tables, the pages of a       *)
(* listing, the form of an upload and the configuration.  They share no state,  *)
(* so a behaviour runs one of them.                                             *)
EXTENDS BytesCache, TorrentFiles, Listing, Intake, Settings

VARIABLE part  \* which of them runs

vars == <<part, entries, fileVars, listVars, intakeVars, settingsVars>>

CacheAlone ==
  part = "cache" /\ CacheNext /\ UNCHANGED <<part, fileVars, listVars, intakeVars, settingsVars>>
FilesAlone ==
  part = "files" /\ FilesNext /\ UNCHANGED <<part, entries, listVars, intakeVars, settingsVars>>
ListAlone ==
  part = "listing" /\ ListNext /\ UNCHANGED <<part, entries, fileVars, intakeVars, settingsVars>>
IntakeAlone ==
  part = "intake" /\ IntakeNext /\ UNCHANGED <<part, entries, fileVars, listVars, settingsVars>>
SettingsAlone ==
  part = "settings" /\ SettingsNext /\ UNCHANGED <<part, entries, fileVars, listVars, intakeVars>>

\* The parts that do not run start in one of their initial states.
Init ==
  /\ part \in {"cache", "files", "listing", "intake", "settings"}
  /\ CacheInit
  /\ \/ part = "files" /\ file \in Torrents
     \/ part # "files" /\ file = CHOOSE t \in Torrents : TRUE
  /\ FilesInit
  /\ \/ part = "listing" /\ listed \in SUBSET Catalog /\ request \in Requests
     \/ part # "listing" /\ listed = {} /\ request = CHOOSE r \in Requests : TRUE
  /\ ListInit
  /\ IntakeInit
  /\ SettingsInit

Next == CacheAlone \/ FilesAlone \/ ListAlone \/ IntakeAlone \/ SettingsAlone

Symmetry == Permutations(Keys)

Spec == Init /\ [][Next]_vars

-----------------------------------------------------------------------------
(* Torrent files.                                                          *)

Hash == [i \in 1 .. 20 |-> 12 * i]
RootHash == <<10, 1>>

Path1 == <<<<"a">>, <<"b">>>>
OddPaths == {<<>>, <<<<"">>>>, <<<<"">>, <<"a">>>>, <<<<"a", "b">>, <<"c">>>>}
FileAt(path, size) == [path |-> path, length |-> size, md5sum |-> "m"]

Contents ==
  [length : {5}, files : {None}, path : {None, Path1}, md5sum : {None, "m"}]
    \union [length : {None}, path : {None}, md5sum : {None, "m"},
            files : {None, <<>>, <<FileAt(Path1, 2), FileAt(<<<<"a">>>>, 3)>>}
                      \union {<<FileAt(path, 4)>> : path \in OddPaths \union {Path1}}
                      \union {<<FileAt(path, 2), FileAt(Path1, 3)>> : path \in OddPaths}]

Hashes == {<<Hash, None>>, <<None, RootHash>>, <<Hash, RootHash>>, <<None, None>>, <<<<7>>, None>>}

InfoOf(content, hashes, private, source) ==
  [length |-> content.length, files |-> content.files, path |-> content.path,
   md5sum |-> content.md5sum, pieces |-> hashes[1], root_hash |-> hashes[2],
   private |-> private, source |-> source]

AnnounceLists == {None, <<>>, <<<<"t1", "t2">>, <<"index">>>>, <<<<>>, <<"own", "t1">>, <<"own">>>>}

MCTorrents ==
  {[info |-> InfoOf(c, h, p, s), extra |-> e, announce |-> "t1", announce_list |-> l] :
     c \in Contents, h \in Hashes, p \in {None, 1}, s \in {None, "src"}, e \in {FALSE},
     l \in AnnounceLists}
  \union {[GenerateRandomTorrent(Hash, 5) EXCEPT !.extra = e] : e \in BOOLEAN}

-----------------------------------------------------------------------------
(* Listing.                                                                *)

TorrentOf(id, category, tags, seeders, leechers, title, size) ==
  [id |-> id, category |-> category, tags |-> tags, date |-> id,
   seeders |-> seeders, leechers |-> leechers, title |-> title, size |-> size]

MCCatalog ==
  {TorrentOf(1, "c1", {"x"}, 1, 2, 3, 1), TorrentOf(2, "c1", {"x", "y"}, 2, 1, 1, 1),
   TorrentOf(3, "c2", {}, 2, 3, 4, 2), TorrentOf(4, "c2", {"y"}, 0, 0, 2, 2)}

Ask(categories, tags, search, sort, size) ==
  [categories |-> categories, tags |-> tags, search |-> search, sort |-> sort, page_size |-> size]

MCRequests ==
  {Ask(Unset, Unset, Unset, sort, size) :
     sort \in {Unset, "UploadedAsc", "NameAsc", "SizeDesc", "SeedersDesc", "LeechersAsc"},
     size \in {Unset, 0, 1, 5}}
  \union
  {Ask(c, t, s, Unset, 1) :
     c \in {Unset, <<"">>, <<"c1">>, <<"c2", "no">>, <<"no", "">>},
     t \in {Unset, <<"x">>, <<"y", "x">>, <<"no">>},
     s \in {Unset, {1, 2, 3}}}
-----------------------------------------------------------------------------
(* The form of an upload.                                                  *)

Text(name, data) == [name |-> name, data |-> data]
File(type, chunks) == [name |-> "torrent", type |-> type, chunks |-> chunks]

BitTorrent == "application/x-bittorrent"
Title == <<"a", "b", "c">>
Other == <<"d", "e", "f">>

\* Two hashes of files that become the same, one of another file.
MCTorrentsOf ==
  LET Holds(original, canonical, pieces, root) ==
        [original |-> original, canonical |-> canonical, pieces |-> pieces, root_hash |-> root,
         name |-> "file"]
  IN (   <<1, 2>> :> Holds(<<10, 255>>, <<10, 255>>, 20, FALSE)
      @@ <<1, 3>> :> Holds(<<7, 161>>, <<10, 255>>, 40, FALSE)
      @@ <<4>>    :> Holds(<<176, 3>>, <<176, 3>>, Nothing, TRUE)
      @@ <<5>>    :> Holds(<<1, 1>>, <<1, 1>>, 19, FALSE)
      @@ <<6>>    :> Holds(<<2, 2>>, <<2, 2>>, Nothing, FALSE)
      @@ <<7>>    :> [Holds(<<9, 200>>, <<13, 3>>, 20, FALSE) EXCEPT !.name = "unprintable"])

MCKnownCategories == {<<"c">>}
MCTagLists == <<"[]">> :> <<>> @@ <<"[1]">> :> <<1>> @@ <<"[1,1]">> :> <<1, 1>> @@ <<"[9]">> :> <<9>>

Complete(title, files) == <<Text("title", title), Text("category", <<"c">>)>> \o files

MCForms ==
  \* files
  {Complete(title, files) :
     title \in {Title, Other},
     files \in {<<>>, <<File("text/plain", <<<<1, 2>>>>)>>, <<File(Nothing, <<<<1, 2>>>>)>>,
               <<File(BitTorrent, <<<<1>>, Lost>>)>>, <<File(BitTorrent, <<<<1>>, <<2>>>>)>>,
               <<File(BitTorrent, <<<<1>>>>), File("application/octet-stream", <<<<3>>>>)>>}
              \union {<<File(BitTorrent, <<<<b>>>>)>> : b \in {0, 4, 5, 6, 7}}}
  \* one more field, before or after the others
  \union
  {IF first THEN <<field>> \o form0 ELSE form0 \o <<field>> :
     first \in BOOLEAN,
     form0 \in {Complete(Title, <<File(BitTorrent, <<<<4>>>>)>>)},
     field \in {Text("title", data) : data \in {<<>>, <<"a">>, Other, NotUtf8, Lost}}
           \union {Text("description", data) : data \in {<<>>, <<"t">>, NotUtf8}}
           \union {Text("category", data) : data \in {<<>>, <<"x">>, NotUtf8}}
           \union {Text("tags", data) : data \in DOMAIN TagLists \union {<<>>, <<"[">>, NotUtf8}}
           \union {Text("other", <<"o">>), Text(Nothing, <<"o">>), Text(Lost, Lost)}}
  \* mandatory fields that are missing, and tags that are sent again
  \union
  {<<Text("title", Title)>> \o <<File(BitTorrent, <<<<4>>>>)>>,
   <<Text("category", <<"c">>), File(BitTorrent, <<<<4>>>>)>>,
   Complete(Title, <<Text("tags", <<"[1]">>), Text("tags", <<>>), File(BitTorrent, <<<<4>>>>)>>)}

-----------------------------------------------------------------------------
(* The configuration.                                                      *)

Document(n, scheme, mode) ==
  [website_name |-> "site", tracker_scheme |-> scheme, mode |-> mode, email_on_signup |-> "optional",
   token |-> "token" \o n, connect_url |-> "db" \o n, password |-> "mail" \o n,
   secret_key |-> "key" \o n]

MCDocuments ==
  {Document("1", "udp", "Public"), Document("2", "http", "Private"),
   Document("3", "udp", "PrivateWhitelisted"), Document("4", "none", "Whitelisted"), Garbage}
=============================================================================
