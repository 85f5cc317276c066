--------------------------- MODULE MCTorrentEditing ---------------------------
(***************************************************************************)
(* An instance of TorrentEditing for TLC: two torrents of two users, one   *)
(* category, two tags, and a menu of requests that can get in each other's *)
(* way.  padded is a name typed with blanks around it.                     *)
(***************************************************************************)
EXTENDS TorrentEditing, TLC

CONSTANTS alice, bob, admin, h1, h2, h3, A, B, C, D, E, music, films, padded, blank

MCInputs == {music, films, padded, blank}
MCTrimmed == (music :> music) @@ (films :> films) @@ (padded :> films) @@ (blank :> Blank)

Torrent(id, hash, user, title) ==
  [torrent_id |-> id, info_hash |-> hash, uploader |-> user, title |-> title,
   description |-> D, category |-> Null]

MCSetup ==
  [categories |-> {[category_id |-> 1, name |-> music]},
   tags |-> {[tag_id |-> 1, name |-> music], [tag_id |-> 2, name |-> films]},
   torrents |-> {Torrent(1, h1, alice, A), Torrent(2, h2, bob, B)},
   links |-> {<<1, 1>>},
   nextIds |-> [category |-> 2, tag |-> 3, torrent |-> 3]]

Edit(user, title, description, category, list) ==
  [op |-> "edit", user |-> user, info_hash |-> h1, title |-> title,
   description |-> description, category |-> category, tags |-> list]

Upload(hash) ==
  [op |-> "upload", user |-> bob, info_hash |-> hash, title |-> C,
   description |-> D, category |-> music, tags |-> <<2>>]

Name(op, user, name) == [op |-> op, user |-> user, name |-> name]

MCAsks ==
  { Edit(alice, C, E, 1, <<1, 2>>),       \* every column
    Edit(alice, B, E, Keep, Keep),        \* a title that another torrent has
    Edit(admin, Keep, E, Keep, <<2>>),    \* for another user
    Edit(alice, Keep, Keep, 1, <<2, 2>>), \* a tag listed twice
    Edit(bob, C, Keep, Keep, Keep),       \* not his torrent
    Upload(h1), Upload(h3),
    [op |-> "delete", user |-> admin, info_hash |-> h1],
    Name("add_category", admin, padded), Name("add_category", bob, films),
    Name("add_category", admin, blank), Name("delete_category", admin, music),
    Name("add_tag", admin, padded), [op |-> "delete_tag", user |-> admin, tag_id |-> 2] }

Symmetry == Permutations(Requests)
=============================================================================
