------------------------------ MODULE MCUpgrader ------------------------------
(***************************************************************************)
(* Instances of Upgrader: a source that can be upgraded and three that     *)
(* cannot.  The ids of v1 have gaps.                                       *)
(***************************************************************************)
EXTENDS Upgrader

File(private, files, announce, list) ==
  [private |-> private, files |-> files, announce |-> announce,
   announce_list |-> list, root_hash |-> NULL]

Single == File(NULL, NULL, "x", NULL)
Many == File(1, <<"a", "b">>, "x", <<<<"x", "y">>, <<"z">>>>)
Trackerless == File(0, <<"a">>, NULL, NULL)

Upload(id, category, file) ==
  [id |-> id, uploader |-> "bob", info_hash |-> ToString(id),
   title |-> ToString(id), category |-> category, file |-> file]

User(id, name) ==
  [id |-> id, administrator |-> id = 1, username |-> name, password |-> "p"]

Plain ==
  [categories |-> {[id |-> 1, name |-> "movies"], [id |-> 3, name |-> "books"]},
   users |-> {User(1, "ann"), User(4, "bob")},
   keys |-> {[id |-> 2, user |-> 4, key |-> "k"]},
   torrents |-> {Upload(2, 3, Single), Upload(5, 1, Many)}]

KeyOfNobody == [Plain EXCEPT !.keys = {[id |-> 2, user |-> NULL, key |-> "k"]}]
FileMissing == [Plain EXCEPT !.torrents = {Upload(2, 3, NULL)}]
RootHash ==
  [Plain EXCEPT !.torrents = {Upload(2, 3, [Trackerless EXCEPT !.root_hash = "h"])}]
NoTracker == [Plain EXCEPT !.torrents = {Upload(2, 3, Trackerless)}]

MCText == {"a", "b", "x", "y", "z"}

MCSources == {Plain, KeyOfNobody, FileMissing, RootHash, NoTracker}

\* A tag on an upgraded torrent with its statistics, or a new user's upload.
MCUses == {
  {<<"tags", Row(1, {}, "tag")>>,
   <<"tag_links", Row(<<2, 1>>, {<<"torrents", 2>>, <<"tags", 1>>}, NULL)>>,
   <<"tracker_stats", Row(2, {<<"torrents", 2>>}, 0)>>},
  {<<"users", Row(5, {}, FALSE)>>,
   <<"profiles", Row(5, {<<"users", 5>>}, "cem")>>,
   <<"authentication", Row(5, {<<"users", 5>>}, "p")>>,
   <<"torrents", Row(6, {<<"users", 5>>, <<"categories", 1>>},
                    [info_hash |-> "new", private |-> 0])>>,
   <<"info", Row(6, {<<"torrents", 6>>}, "new")>>,
   <<"info_hashes", Row("new", {<<"torrents", 6>>}, "new")>>}}

=============================================================================
