----------------------------- MODULE LabelTables -----------------------------
(***************************************************************************)
(* The columns of a torrent that its uploader may edit, the categories and *)
(* the tags they refer to, and the SQL statements that change them         *)
(* (databases/sqlite.rs, databases/mysql.rs and the foreign keys in        *)
(* migrations/).  TorrentTables has the columns that are never edited.     *)
(*                                                                         *)
(* Where a statement can be refused, one operator says when it is accepted *)
(* and one what it does then; a refused statement changes nothing.         *)
(***************************************************************************)
EXTENDS Naturals, Sequences, FiniteSets, Functions

CONSTANTS
  Users,
  Administrators,
  Hashes,         \* canonical info-hashes
  Titles,
  Descriptions,
  Inputs,         \* names of categories and tags as administrators type them
  Trimmed,        \* str::trim
  Blank,          \* the empty name
  Null            \* NULL, the category of a torrent whose category was deleted

Names == {Trimmed[input] : input \in Inputs} \ {Blank}

ASSUME LabelAssumption ==
  /\ Administrators \subseteq Users
  /\ Names \subseteq Inputs
  /\ Blank \notin Names
  /\ Null \notin Nat

VARIABLES
  categories,  \* rows of torrust_categories
  tags,        \* rows of torrust_torrent_tags
  torrents,    \* rows of torrust_torrents with torrust_torrent_info
  links,       \* rows of torrust_torrent_tag_links
  nextIds      \* the next AUTOINCREMENT key of the three tables with ids

labelTables == <<categories, tags, torrents, links, nextIds>>

CategoryRow == [category_id : Nat, name : Names]
TagRow == [tag_id : Nat, name : Names]
TorrentRow == [torrent_id : Nat, info_hash : Hashes, uploader : Users, title : Titles,
               description : Descriptions, category : Nat \cup {Null}]

AreRows(cs, ts, rs, ls, ids) ==
  /\ cs \in SUBSET CategoryRow
  /\ ts \in SUBSET TagRow
  /\ rs \in SUBSET TorrentRow
  /\ ls \in SUBSET (Nat \X Nat)
  /\ ids \in [{"category", "tag", "torrent"} -> Nat]

CategoryIds == {c.category_id : c \in categories}
CategoryNames == {c.name : c \in categories}
TagIds == {t.tag_id : t \in tags}
TorrentIds == {t.torrent_id : t \in torrents}

\* Rows of categories, tags, torrents and links, and next ids, that the schema
\* allows: unique keys, references to rows that are there, and ids below the next.
AreConsistent(cs, ts, rs, ls, ids) ==
  /\ AreRows(cs, ts, rs, ls, ids)
  /\ \A c, d \in cs : c.category_id = d.category_id \/ c.name = d.name => c = d
  /\ \A s, t \in ts : s.tag_id = t.tag_id \/ s.name = t.name => s = t
  /\ \A s, t \in rs :
       \/ s.torrent_id = t.torrent_id \/ s.info_hash = t.info_hash \/ s.title = t.title
       => s = t
  /\ \A t \in rs : t.category = Null \/ \E c \in cs : t.category = c.category_id
  /\ \A l \in ls : /\ \E t \in rs : l[1] = t.torrent_id
                   /\ \E t \in ts : l[2] = t.tag_id
  /\ \A c \in cs : c.category_id < ids.category
  /\ \A t \in ts : t.tag_id < ids.tag
  /\ \A t \in rs : t.torrent_id < ids.torrent

\* What the schema promises holds across overlapping requests: rows of their types
\* (names trimmed and not empty), unique keys, references to rows that are there,
\* and ids that are not given out again, so that a request that kept an id over an
\* await finds the same row or none.
TablesConsistent == AreConsistent(categories, tags, torrents, links, nextIds)

-----------------------------------------------------------------------------
(* Categories and tags *)

CanInsertCategory(name) == name \notin CategoryNames

InsertCategoryRow(name) ==
  /\ categories' = categories \cup {[category_id |-> nextIds.category, name |-> name]}
  /\ nextIds' = [nextIds EXCEPT !.category = @ + 1]
  /\ UNCHANGED <<tags, torrents, links>>

\* Mutant: the id of the last category is given out again.
DeleteCategoryRow_FreeId(name) ==
  LET gone == {c.category_id : c \in {c \in categories : c.name = name}} IN
  /\ categories' = {c \in categories : c.name # name}
  /\ torrents' = {[t EXCEPT !.category = IF @ \in gone THEN Null ELSE @] : t \in torrents}
  /\ nextIds' = [nextIds EXCEPT !.category = IF @ - 1 \in gone THEN @ - 1 ELSE @]
  /\ UNCHANGED <<tags, links>>

\* delete_category: ON DELETE SET NULL on the torrents.
DeleteCategoryRow(name) ==
  LET gone == {c.category_id : c \in {c \in categories : c.name = name}} IN
  /\ categories' = {c \in categories : c.name # name}
  /\ torrents' = {[t EXCEPT !.category = IF @ \in gone THEN Null ELSE @] : t \in torrents}
  /\ UNCHANGED <<tags, links, nextIds>>

\* get_category_from_name
CategoriesNamed(name) == {c \in categories : c.name = name}

CanInsertTag(name) == \A t \in tags : t.name # name

InsertTagRow(name) ==
  /\ tags' = tags \cup {[tag_id |-> nextIds.tag, name |-> name]}
  /\ nextIds' = [nextIds EXCEPT !.tag = @ + 1]
  /\ UNCHANGED <<categories, torrents, links>>

\* Mutant: no ON DELETE CASCADE on the links.
DeleteTagRow_KeepLinks(id) ==
  /\ tags' = {t \in tags : t.tag_id # id}
  /\ UNCHANGED <<categories, torrents, links, nextIds>>

\* delete_tag: ON DELETE CASCADE on the links; the number of rows it deleted is
\* not looked at.
DeleteTagRow(id) ==
  /\ tags' = {t \in tags : t.tag_id # id}
  /\ links' = {l \in links : l[2] # id}
  /\ UNCHANGED <<categories, torrents, nextIds>>

-----------------------------------------------------------------------------
(* Torrents *)

TorrentsWithId(id) == {t \in torrents : t.torrent_id = id}
TorrentsWithHash(hash) == {t \in torrents : t.info_hash = hash}
TitleIsFree(title, id) == \A t \in torrents : t.title = title => t.torrent_id = id

\* get_tags_for_torrent_id
TagsOf(id) == {l[2] : l \in {l \in links : l[1] = id}}

\* The rows of a list of tags go into an empty set of links: a tag that does not
\* exist violates a foreign key, one that is listed twice the primary key.
CanLink(list) == IsInjective(list) /\ Range(list) \subseteq TagIds

LinksTo(id, list) == {id} \X Range(list)

CanInsertTorrent(hash, title, category, list) ==
  /\ TorrentsWithHash(hash) = {}
  /\ \A t \in torrents : t.title # title
  /\ category \in CategoryIds
  /\ CanLink(list)

\* insert_torrent_and_get_id
InsertTorrentRow(hash, user, title, description, category, list) ==
  /\ torrents' = torrents \cup
       {[torrent_id |-> nextIds.torrent, info_hash |-> hash, uploader |-> user,
         title |-> title, description |-> description, category |-> category]}
  /\ links' = links \cup LinksTo(nextIds.torrent, list)
  /\ nextIds' = [nextIds EXCEPT !.torrent = @ + 1]
  /\ UNCHANGED <<categories, tags>>

DeleteTorrentRow(id) ==
  /\ torrents' = torrents \ TorrentsWithId(id)
  /\ links' = {l \in links : l[1] # id}
  /\ UNCHANGED <<categories, tags, nextIds>>

\* update_torrent_title: an error when no row has the id or another has the title.
CanSetTitle(id, title) == TorrentsWithId(id) # {} /\ TitleIsFree(title, id)

SetTitle(id, title) ==
  /\ torrents' = {IF t.torrent_id = id THEN [t EXCEPT !.title = title] ELSE t : t \in torrents}
  /\ UNCHANGED <<categories, tags, links, nextIds>>

\* update_torrent_description: an error when no row has the id.
CanSetDescription(id) == TorrentsWithId(id) # {}

SetDescription(id, text) ==
  /\ torrents' = {IF t.torrent_id = id THEN [t EXCEPT !.description = text] ELSE t : t \in torrents}
  /\ UNCHANGED <<categories, tags, links, nextIds>>

\* update_torrent_category: an error when no row has the id, or no category its.
CanSetCategory(id, category) == TorrentsWithId(id) # {} /\ category \in CategoryIds

SetCategory(id, category) ==
  /\ torrents' = {IF t.torrent_id = id THEN [t EXCEPT !.category = category] ELSE t : t \in torrents}
  /\ UNCHANGED <<categories, tags, links, nextIds>>

\* delete_all_torrent_tag_links
UnlinkAll(id) ==
  /\ links' = {l \in links : l[1] # id}
  /\ UNCHANGED <<categories, tags, torrents, nextIds>>

\* add_torrent_tag_links, one transaction.
CanLinkAll(id, list) ==
  /\ id \in TorrentIds \/ list = <<>>
  /\ CanLink(list)
  /\ LinksTo(id, list) \cap links = {}

LinkAll(id, list) ==
  /\ links' = links \cup LinksTo(id, list)
  /\ UNCHANGED <<categories, tags, torrents, nextIds>>

=============================================================================
