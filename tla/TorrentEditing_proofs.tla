------------------------ MODULE TorrentEditing_proofs ------------------------
(***************************************************************************)
(* For any number of requests that edit, upload and delete torrents and    *)
(* add and delete categories and tags, overlapping and failing anywhere:   *)
(* the rows of the tables stay consistent, a torrent is edited for nobody  *)
(* but its uploader and administrators, an uploaded torrent keeps the      *)
(* category it was sent with, and an edit that no other edit of its        *)
(* torrent overlaps leaves its own values there and nothing else.          *)
(***************************************************************************)
EXTENDS TorrentEditing, TLAPS

-----------------------------------------------------------------------------
(* The statements: each keeps the tables consistent *)

USE LabelAssumption DEF TablesConsistent, AreConsistent, AreRows

\* A statement that rewrites rows of torrents and keeps their ids and hashes, as
\* an UPDATE and the ON DELETE SET NULL of a category do.
LEMMA RewrittenTorrents ==
  ASSUME TablesConsistent, NEW f \in [torrents -> TorrentRow],
         \A t \in torrents : f[t].torrent_id = t.torrent_id /\ f[t].info_hash = t.info_hash,
         \A s, t \in torrents : f[s].title = f[t].title => s = t,
         \A t \in torrents : \/ f[t].category = Null
                             \/ \E c \in categories' : f[t].category = c.category_id,
         torrents' = {f[t] : t \in torrents},
         categories' \subseteq categories,
         UNCHANGED <<tags, links, nextIds>>
  PROVE  TablesConsistent'
<1>1. AreRows(categories, tags, torrents, links, nextIds)'
  OBVIOUS
<1>2. \A s, t \in torrents' :
        \/ s.torrent_id = t.torrent_id \/ s.info_hash = t.info_hash \/ s.title = t.title
        => s = t
  OBVIOUS
<1>3. \A t \in torrents' : t.category = Null \/ \E c \in categories' : t.category = c.category_id
  OBVIOUS
<1>4. \A l \in links' : \E t \in torrents' : l[1] = t.torrent_id
  OBVIOUS
<1>5. \A t \in torrents' : t.torrent_id < nextIds'.torrent
  OBVIOUS
<1> QED BY <1>1, <1>2, <1>3, <1>4, <1>5

LEMMA InsertCategoryKeeps ==
  ASSUME TablesConsistent, NEW name \in Names, CanInsertCategory(name), InsertCategoryRow(name)
  PROVE  TablesConsistent'
<1> DEFINE new == [category_id |-> nextIds.category, name |-> name]
<1>1. /\ categories' = categories \cup {new} /\ UNCHANGED <<tags, torrents, links>>
      /\ nextIds' = [nextIds EXCEPT !.category = @ + 1]
  BY DEF InsertCategoryRow
<1>2. nextIds.category \in Nat /\ new \in CategoryRow
  BY DEF CategoryRow
<1>3. /\ nextIds'.category = nextIds.category + 1
      /\ nextIds'.tag = nextIds.tag /\ nextIds'.torrent = nextIds.torrent
      /\ nextIds' \in [{"category", "tag", "torrent"} -> Nat]
  BY <1>1, <1>2
<1>4. \A c \in categories : c.category_id \in Nat /\ c.category_id # new.category_id /\ c.name # new.name
  BY <1>2 DEF CanInsertCategory, CategoryNames, CategoryRow
<1>5. AreRows(categories, tags, torrents, links, nextIds)'
  BY <1>1, <1>2, <1>3
<1>6. \A c, d \in categories' : c.category_id = d.category_id \/ c.name = d.name => c = d
  BY <1>1, <1>4
<1>7. \A c \in categories' : c.category_id < nextIds'.category
  BY <1>1, <1>2, <1>3, <1>4
<1> QED BY <1>1, <1>3, <1>5, <1>6, <1>7

LEMMA DeleteCategoryKeeps ==
  ASSUME TablesConsistent, NEW name, DeleteCategoryRow(name)
  PROVE  TablesConsistent'
<1> DEFINE gone == {c.category_id : c \in {c \in categories : c.name = name}}
           f == [t \in torrents |-> [t EXCEPT !.category = IF @ \in gone THEN Null ELSE @]]
<1>1. /\ categories' = {c \in categories : c.name # name}
      /\ torrents' = {f[t] : t \in torrents}
      /\ UNCHANGED <<tags, links, nextIds>>
  BY DEF DeleteCategoryRow
<1>2. \A t \in torrents : /\ f[t] \in TorrentRow
                          /\ f[t].torrent_id = t.torrent_id /\ f[t].info_hash = t.info_hash
                          /\ f[t].title = t.title
                          /\ f[t].category = IF t.category \in gone THEN Null ELSE t.category
  BY DEF TorrentRow
<1>3. f \in [torrents -> TorrentRow]
  BY <1>2
<1> HIDE DEF f
<1>4. \A t \in torrents : \/ f[t].category = Null
                          \/ \E c \in categories' : f[t].category = c.category_id
  <2> SUFFICES ASSUME NEW t \in torrents, t.category \notin gone, t.category # Null
               PROVE  \E c \in categories' : t.category = c.category_id
    BY <1>2
  <2>1. PICK c \in categories : t.category = c.category_id
    OBVIOUS
  <2> QED BY <1>1, <2>1
<1> QED BY <1>1, <1>2, <1>3, <1>4, RewrittenTorrents

LEMMA InsertTagKeeps ==
  ASSUME TablesConsistent, NEW name \in Names, CanInsertTag(name), InsertTagRow(name)
  PROVE  TablesConsistent'
<1> DEFINE new == [tag_id |-> nextIds.tag, name |-> name]
<1>1. /\ tags' = tags \cup {new} /\ UNCHANGED <<categories, torrents, links>>
      /\ nextIds' = [nextIds EXCEPT !.tag = @ + 1]
  BY DEF InsertTagRow
<1>2. nextIds.tag \in Nat /\ new \in TagRow
  BY DEF TagRow
<1>3. /\ nextIds'.tag = nextIds.tag + 1
      /\ nextIds'.category = nextIds.category /\ nextIds'.torrent = nextIds.torrent
      /\ nextIds' \in [{"category", "tag", "torrent"} -> Nat]
  BY <1>1, <1>2
<1>4. \A t \in tags : t.tag_id \in Nat /\ t.tag_id # new.tag_id /\ t.name # new.name
  BY <1>2 DEF CanInsertTag, TagRow
<1>5. AreRows(categories, tags, torrents, links, nextIds)'
  BY <1>1, <1>2, <1>3
<1>6. \A s, t \in tags' : s.tag_id = t.tag_id \/ s.name = t.name => s = t
  BY <1>1, <1>4
<1>7. \A t \in tags' : t.tag_id < nextIds'.tag
  BY <1>1, <1>2, <1>3, <1>4
<1>8. \A l \in links' : \E t \in tags' : l[2] = t.tag_id
  BY <1>1
<1> QED BY <1>1, <1>3, <1>5, <1>6, <1>7, <1>8

LEMMA DeleteTagKeeps ==
  ASSUME TablesConsistent, NEW id, DeleteTagRow(id)
  PROVE  TablesConsistent'
<1>1. /\ tags' = {t \in tags : t.tag_id # id}
      /\ links' = {l \in links : l[2] # id}
      /\ UNCHANGED <<categories, torrents, nextIds>>
  BY DEF DeleteTagRow
<1>2. \A l \in links' : \E t \in tags' : l[2] = t.tag_id
  BY <1>1
<1> QED BY <1>1, <1>2

LEMMA InsertTorrentKeeps ==
  ASSUME TablesConsistent, NEW hash \in Hashes, NEW user \in Users, NEW title \in Titles,
         NEW description \in Descriptions, NEW category, NEW list,
         CanInsertTorrent(hash, title, category, list),
         InsertTorrentRow(hash, user, title, description, category, list)
  PROVE  TablesConsistent'
<1> DEFINE id == nextIds.torrent
           new == [torrent_id |-> id, info_hash |-> hash, uploader |-> user,
                   title |-> title, description |-> description, category |-> category]
<1>1. /\ torrents' = torrents \cup {new} /\ UNCHANGED <<categories, tags>>
      /\ links' = links \cup LinksTo(id, list)
      /\ nextIds' = [nextIds EXCEPT !.torrent = @ + 1]
  BY DEF InsertTorrentRow
<1>2. \E c \in categories : category = c.category_id
  BY DEF CanInsertTorrent, CategoryIds
<1>3. id \in Nat /\ new \in TorrentRow
  BY <1>2 DEF TorrentRow, CategoryRow
<1>4. /\ nextIds'.torrent = id + 1
      /\ nextIds'.category = nextIds.category /\ nextIds'.tag = nextIds.tag
      /\ nextIds' \in [{"category", "tag", "torrent"} -> Nat]
  BY <1>1, <1>3
<1>5. \A t \in torrents : /\ t.torrent_id \in Nat /\ t.torrent_id # id
                          /\ t.info_hash # hash /\ t.title # title
  BY <1>3 DEF CanInsertTorrent, TorrentsWithHash, TorrentRow
<1>6. \A l \in LinksTo(id, list) : /\ l \in Nat \X Nat /\ l[1] = id
                                   /\ \E t \in tags : l[2] = t.tag_id
  BY <1>3 DEF LinksTo, CanInsertTorrent, CanLink, TagIds, TagRow
<1>7. AreRows(categories, tags, torrents, links, nextIds)'
  BY <1>1, <1>3, <1>4, <1>6
<1>8. \A s, t \in torrents' :
        \/ s.torrent_id = t.torrent_id \/ s.info_hash = t.info_hash \/ s.title = t.title
        => s = t
  BY <1>1, <1>5
<1>9. \A t \in torrents' : t.category = Null \/ \E c \in categories' : t.category = c.category_id
  BY <1>1, <1>2
<1>10. \A l \in links' : /\ \E t \in torrents' : l[1] = t.torrent_id
                         /\ \E t \in tags' : l[2] = t.tag_id
  <2>1. new \in torrents' /\ new.torrent_id = id
    BY <1>1
  <2> QED BY <1>1, <1>6, <2>1
<1>11. \A t \in torrents' : t.torrent_id < nextIds'.torrent
  BY <1>1, <1>3, <1>4, <1>5
<1> QED BY <1>1, <1>4, <1>7, <1>8, <1>9, <1>10, <1>11

LEMMA DeleteTorrentKeeps ==
  ASSUME TablesConsistent, NEW id, DeleteTorrentRow(id)
  PROVE  TablesConsistent'
<1>1. /\ torrents' = {t \in torrents : t.torrent_id # id}
      /\ links' = {l \in links : l[1] # id}
      /\ UNCHANGED <<categories, tags, nextIds>>
  BY DEF DeleteTorrentRow, TorrentsWithId
<1>2. \A l \in links' : \E t \in torrents' : l[1] = t.torrent_id
  BY <1>1
<1> QED BY <1>1, <1>2

LEMMA SetTitleKeeps ==
  ASSUME TablesConsistent, NEW id, NEW title \in Titles, CanSetTitle(id, title), SetTitle(id, title)
  PROVE  TablesConsistent'
<1> DEFINE f == [t \in torrents |-> IF t.torrent_id = id THEN [t EXCEPT !.title = title] ELSE t]
<1>1. torrents' = {f[t] : t \in torrents} /\ UNCHANGED <<categories, tags, links, nextIds>>
  BY DEF SetTitle
<1>2. \A t \in torrents : /\ f[t] \in TorrentRow
                          /\ f[t].torrent_id = t.torrent_id /\ f[t].info_hash = t.info_hash
                          /\ f[t].title = IF t.torrent_id = id THEN title ELSE t.title
                          /\ f[t].category = t.category
  BY DEF TorrentRow
<1>3. \A t \in torrents : t.title = title => t.torrent_id = id
  BY DEF CanSetTitle, TitleIsFree
<1>4. f \in [torrents -> TorrentRow]
  BY <1>2
<1> HIDE DEF f
<1>5. \A s, t \in torrents : f[s].title = f[t].title => s = t
  BY <1>2, <1>3
<1> QED BY <1>1, <1>2, <1>4, <1>5, RewrittenTorrents

LEMMA SetDescriptionKeeps ==
  ASSUME TablesConsistent, NEW id, NEW text \in Descriptions, SetDescription(id, text)
  PROVE  TablesConsistent'
<1> DEFINE f == [t \in torrents |-> IF t.torrent_id = id THEN [t EXCEPT !.description = text] ELSE t]
<1>1. torrents' = {f[t] : t \in torrents} /\ UNCHANGED <<categories, tags, links, nextIds>>
  BY DEF SetDescription
<1>2. \A t \in torrents : /\ f[t] \in TorrentRow
                          /\ f[t].torrent_id = t.torrent_id /\ f[t].info_hash = t.info_hash
                          /\ f[t].title = t.title /\ f[t].category = t.category
  BY DEF TorrentRow
<1>3. f \in [torrents -> TorrentRow]
  BY <1>2
<1> HIDE DEF f
<1> QED BY <1>1, <1>2, <1>3, RewrittenTorrents

LEMMA SetCategoryKeeps ==
  ASSUME TablesConsistent, NEW id, NEW category, CanSetCategory(id, category),
         SetCategory(id, category)
  PROVE  TablesConsistent'
<1> DEFINE f == [t \in torrents |-> IF t.torrent_id = id THEN [t EXCEPT !.category = category] ELSE t]
<1>1. torrents' = {f[t] : t \in torrents} /\ UNCHANGED <<categories, tags, links, nextIds>>
  BY DEF SetCategory
<1>2. category \in Nat /\ \E c \in categories : category = c.category_id
  BY DEF CanSetCategory, CategoryIds, CategoryRow
<1>3. \A t \in torrents : /\ f[t] \in TorrentRow
                          /\ f[t].torrent_id = t.torrent_id /\ f[t].info_hash = t.info_hash
                          /\ f[t].title = t.title
                          /\ f[t].category \in {t.category, category}
  BY <1>2 DEF TorrentRow
<1>4. f \in [torrents -> TorrentRow]
  BY <1>3
<1> HIDE DEF f
<1>5. \A t \in torrents : \/ f[t].category = Null
                          \/ \E c \in categories' : f[t].category = c.category_id
  BY <1>1, <1>2, <1>3
<1> QED BY <1>1, <1>3, <1>4, <1>5, RewrittenTorrents

LEMMA UnlinkAllKeeps ==
  ASSUME TablesConsistent, NEW id, UnlinkAll(id)
  PROVE  TablesConsistent'
BY DEF UnlinkAll

LEMMA LinkAllKeeps ==
  ASSUME TablesConsistent, NEW id, NEW list, CanLinkAll(id, list), LinkAll(id, list)
  PROVE  TablesConsistent'
<1>1. links' = links \cup LinksTo(id, list) /\ UNCHANGED <<categories, tags, torrents, nextIds>>
  BY DEF LinkAll
<1>2. CASE list = <<>>
  <2>1. LinksTo(id, list) = {}
    BY <1>2 DEF LinksTo, Range
  <2> QED BY <1>1, <2>1
<1>3. CASE \E t \in torrents : id = t.torrent_id
  <2>1. \A l \in LinksTo(id, list) : /\ l \in Nat \X Nat /\ l[1] = id
                                     /\ \E t \in tags : l[2] = t.tag_id
    BY <1>3 DEF LinksTo, CanLinkAll, CanLink, TagIds, TagRow, TorrentRow
  <2>2. \A l \in links' : /\ \E t \in torrents' : l[1] = t.torrent_id
                          /\ \E t \in tags' : l[2] = t.tag_id
    BY <1>1, <1>3, <2>1
  <2> QED BY <1>1, <2>1, <2>2
<1> QED BY <1>2, <1>3 DEF CanLinkAll, TorrentIds

-----------------------------------------------------------------------------
(* The handlers: types, and what a handler at a step knows *)

HIDE LabelAssumption DEF TablesConsistent, AreConsistent, AreRows

LEMMA ConsistentRows == TablesConsistent => AreRows(categories, tags, torrents, links, nextIds)
BY DEF TablesConsistent, AreConsistent

\* An edit comes to a column only if it sets it, and a category to be added has a
\* name that is not blank.
StepsMatchAsks ==
  \A r \in Requests :
    /\ pc[r] # "idle" => asked[r] \in Asks
    /\ pc[r] \in EditSteps => asked[r].op = "edit"
    /\ pc[r] = "title" => asked[r].title # Keep
    /\ pc[r] = "description" => asked[r].description # Keep
    /\ pc[r] = "insert" /\ asked[r].op = "add_category" => NameToAdd(r) # Blank

TypeInv == TypeOK /\ TablesConsistent /\ StepsMatchAsks

\* What is asked for is told by op.
LEMMA AskOfOp ==
  ASSUME NEW ask \in Asks
  PROVE  /\ ask.op = "edit" => ask \in EditAsk
         /\ ask.op = "upload" => ask \in UploadAsk
         /\ ask.op \in {"add_category", "add_tag"} => ask.name \in Inputs
BY EditingAssumption DEF EditAsk, UploadAsk, DeleteAsk, NameAsk, TagAsk

LEMMA OrderOfSteps ==
  /\ Order[1] = "authorize" /\ Order[2] = "title" /\ Order[3] = "description"
  /\ Order[4] = "category" /\ Order[5] = "tags" /\ Order[6] = "relist"
BY DEF Order

\* The next statement is the first one, after the one that was made, of a column
\* that the edit sets, or the listing when there is none.
LEMMA NextStepIsFirst ==
  ASSUME NEW r \in Requests, NEW now \in 1 .. 5
  PROVE  \E next \in (now + 1) .. 6 :
           /\ NextStep(r, Order[now]) = Order[next]
           /\ next = 6 \/ asked[r][Order[next]] # Keep
           /\ \A i \in (now + 1) .. (next - 1) : asked[r][Order[i]] = Keep
<1> DEFINE at == CHOOSE i \in 1 .. 5 : Order[i] = Order[now]
           due == {i \in (now + 1) .. 6 : Order[i] = "relist" \/ asked[r][Order[i]] # Keep}
           next == CHOOSE i \in due : \A j \in due : i <= j
<1>1. at = now
  <2>1. \A i \in 1 .. 5 : Order[i] = Order[now] => i = now
    BY OrderOfSteps
  <2> QED BY <2>1
<1>2. NextStep(r, Order[now]) = Order[next]
  BY <1>1 DEF NextStep
<1>3. due \subseteq {2, 3, 4, 5, 6} /\ 6 \in due
  BY OrderOfSteps
<1>4. \E i \in due : \A j \in due : i <= j
  <2> HIDE DEF due
  <2>1. CASE 2 \in due
    BY <1>3, <2>1
  <2>2. CASE 2 \notin due /\ 3 \in due
    BY <1>3, <2>2
  <2>3. CASE 2 \notin due /\ 3 \notin due /\ 4 \in due
    BY <1>3, <2>3
  <2>4. CASE 2 \notin due /\ 3 \notin due /\ 4 \notin due /\ 5 \in due
    BY <1>3, <2>4
  <2>5. CASE 2 \notin due /\ 3 \notin due /\ 4 \notin due /\ 5 \notin due
    BY <1>3, <2>5
  <2> QED BY <2>1, <2>2, <2>3, <2>4, <2>5
<1>5. next \in due /\ \A j \in due : next <= j
  <2> HIDE DEF due
  <2> QED BY <1>4
<1>6. next \in (now + 1) .. 6 /\ (Order[next] = "relist" \/ asked[r][Order[next]] # Keep)
  BY <1>5
<1>7. next = 6 \/ asked[r][Order[next]] # Keep
  <2> HIDE DEF next
  <2> QED BY <1>6, OrderOfSteps
<1>8. ASSUME NEW i \in (now + 1) .. (next - 1) PROVE asked[r][Order[i]] = Keep
  <2>1. i \notin due
    <3>1. next \in Nat /\ i \in Nat /\ i < next
      <4> HIDE DEF due, next
      <4> QED BY <1>6
    <3> HIDE DEF due, next
    <3>2. due \subseteq Nat
      BY <1>3
    <3> QED BY <1>5, <3>1, <3>2
  <2>2. i \in (now + 1) .. 6
    <3> HIDE DEF next
    <3> QED BY <1>6
  <2> QED BY <2>1, <2>2
<1> HIDE DEF next
<1> QED BY <1>2, <1>6, <1>7, <1>8

\* The column after the one that was written is one that the edit sets.
LEMMA NextStepIsSet ==
  ASSUME NEW r \in Requests,
         NEW step \in {"authorize", "title", "description", "category", "tags"}
  PROVE  /\ NextStep(r, step) \in Columns \cup {"relist"}
         /\ NextStep(r, step) # "relist" => asked[r][NextStep(r, step)] # Keep
<1>1. PICK now \in 1 .. 5 : Order[now] = step
  BY OrderOfSteps
<1>2. PICK next \in (now + 1) .. 6 : /\ NextStep(r, step) = Order[next]
                                     /\ next = 6 \/ asked[r][Order[next]] # Keep
  BY <1>1, NextStepIsFirst
<1>3. next \in {2, 3, 4, 5, 6}
  OBVIOUS
<1>4. Order[next] \in Columns \cup {"relist"} /\ (next = 6 => Order[next] = "relist")
  BY <1>3, OrderOfSteps DEF Columns
<1> QED BY <1>2, <1>4

\* One handler goes a step and the others stay where they are.
LEMMA OneHandlerMoves ==
  ASSUME TypeInv, TablesConsistent', NEW r \in Requests, UNCHANGED asked,
         tid' \in [Requests -> Nat], cid' \in [Requests -> Nat \cup {Null}],
         before' \in [Requests -> Sight \cup {Nothing}], lone' \in SUBSET Requests,
         NEW step \in Steps, GoTo(r, step) \/ \E answer \in Answers : Answer(r, answer),
         pc[r] # "idle",
         step # "idle",
         step \in EditSteps => asked[r].op = "edit",
         step = "title" => asked[r].title # Keep,
         step = "description" => asked[r].description # Keep,
         step = "insert" /\ asked[r].op = "add_category" => NameToAdd(r) # Blank
  PROVE  TypeInv'
<1>1. /\ pc' = [pc EXCEPT ![r] = step] \/ pc' = [pc EXCEPT ![r] = "done"]
      /\ response' \in [Requests -> {"none"} \cup Answers]
  BY DEF GoTo, Answer, TypeInv, TypeOK
<1>2. TypeOK'
  <2>1. pc' \in [Requests -> Steps]
    BY <1>1 DEF TypeInv, TypeOK, Steps
  <2>2. AreRows(categories, tags, torrents, links, nextIds)'
    BY ConsistentRows, PTL
  <2> QED BY <1>1, <2>1, <2>2 DEF TypeInv, TypeOK
<1>3. /\ pc'[r] \in {step, "done"}
      /\ \A q \in Requests \ {r} : pc'[q] = pc[q]
  BY <1>1 DEF TypeInv, TypeOK
<1>4. StepsMatchAsks'
  <2>1. \A q \in Requests : NameToAdd(q)' = NameToAdd(q)
    BY DEF NameToAdd
  <2>2. "done" \notin EditSteps
    BY DEF EditSteps, Columns
  <2> QED BY <1>3, <2>1, <2>2 DEF TypeInv, StepsMatchAsks
<1> QED BY <1>2, <1>4 DEF TypeInv

LEMMA UnchangedTables ==
  ASSUME TablesConsistent, UNCHANGED labelTables
  PROVE  TablesConsistent'
BY DEF TablesConsistent, AreConsistent, AreRows, labelTables

\* The steps of update_torrent_info.
LEMMA EditStepKeeps ==
  ASSUME TypeInv, NEW r \in Requests, EditStep(r)
  PROVE  TypeInv'
<1> USE DEF EditSteps, Columns, Steps, Answers, Refusals
<1>0. /\ tid \in [Requests -> Nat] /\ cid \in [Requests -> Nat \cup {Null}]
      /\ before \in [Requests -> Sight \cup {Nothing}] /\ lone \in SUBSET Requests
      /\ pc \in [Requests -> Steps] /\ TablesConsistent
  BY DEF TypeInv, TypeOK
<1>1. CASE AuthorizeEdit(r)
  <2>1. /\ pc[r] = "authorize" /\ asked[r].op = "edit" /\ UNCHANGED <<labelTables, asked, cid>>
    BY <1>1 DEF AuthorizeEdit
  <2>2. TablesConsistent'
    BY <1>0, <2>1, UnchangedTables
  <2>3. NextStep(r, "authorize") \in Columns \cup {"relist"}
        /\ (NextStep(r, "authorize") # "relist" => asked[r][NextStep(r, "authorize")] # Keep)
    BY NextStepIsSet
  <2>4. CASE \E answer \in Answers : Answer(r, answer) /\ UNCHANGED <<tid, before, lone>>
    BY <1>0, <2>1, <2>2, <2>3, <2>4, OneHandlerMoves
  <2>5. ASSUME NEW t \in torrents, tid' = [tid EXCEPT ![r] = t.torrent_id],
               before' = [before EXCEPT ![r] = Shown(t)],
               lone' = {q \in lone : tid[q] # t.torrent_id} \cup {q \in {r} : UnderWay(t) = {}},
               GoTo(r, NextStep(r, "authorize"))
        PROVE  TypeInv'
    <3>1. t \in TorrentRow /\ links \in SUBSET (Nat \X Nat)
      BY <1>0, ConsistentRows DEF AreRows
    <3>2. Shown(t) \in Sight
      BY <3>1 DEF Shown, Sight, TorrentRow, TagsOf
    <3>3. /\ tid' \in [Requests -> Nat]
          /\ before' \in [Requests -> Sight \cup {Nothing}] /\ lone' \in SUBSET Requests
      BY <1>0, <2>5, <3>1, <3>2 DEF TorrentRow
    <3> QED BY <1>0, <2>1, <2>2, <2>3, <2>5, <3>3, OneHandlerMoves
  <2>6. \/ \E answer \in Answers : Answer(r, answer) /\ UNCHANGED <<tid, before, lone>>
        \/ \E t \in torrents : /\ tid' = [tid EXCEPT ![r] = t.torrent_id]
                               /\ before' = [before EXCEPT ![r] = Shown(t)]
                               /\ lone' = {q \in lone : tid[q] # t.torrent_id}
                                            \cup {q \in {r} : UnderWay(t) = {}}
                               /\ GoTo(r, NextStep(r, "authorize"))
    BY <1>1 DEF AuthorizeEdit, TorrentsWithHash
  <2> QED BY <2>4, <2>5, <2>6
<1>2. CASE EditTitle(r)
  <2>1. /\ pc[r] = "title" /\ UNCHANGED <<asked, tid, cid, before, lone>>
    BY <1>2 DEF EditTitle
  <2>2. asked[r].op = "edit" /\ asked[r].title \in Titles
    BY <2>1, AskOfOp DEF TypeInv, StepsMatchAsks, EditAsk
  <2>3. TablesConsistent'
    BY <1>0, <1>2, <2>2, SetTitleKeeps, UnchangedTables DEF EditTitle, Do
  <2>4. NextStep(r, "title") \in Columns \cup {"relist"}
        /\ (NextStep(r, "title") # "relist" => asked[r][NextStep(r, "title")] # Keep)
    BY NextStepIsSet
  <2>5. GoTo(r, NextStep(r, "title")) \/ \E answer \in Answers : Answer(r, answer)
    BY <1>2 DEF EditTitle, Do
  <2> QED BY <1>0, <2>1, <2>2, <2>3, <2>4, <2>5, OneHandlerMoves
<1>3. CASE EditDescription(r)
  <2>1. /\ pc[r] = "description" /\ UNCHANGED <<asked, tid, cid, before, lone>>
    BY <1>3 DEF EditDescription
  <2>2. asked[r].op = "edit" /\ asked[r].description \in Descriptions
    BY <2>1, AskOfOp DEF TypeInv, StepsMatchAsks, EditAsk
  <2>3. TablesConsistent'
    BY <1>0, <1>3, <2>2, SetDescriptionKeeps, UnchangedTables DEF EditDescription, Do
  <2>4. NextStep(r, "description") \in Columns \cup {"relist"}
        /\ (NextStep(r, "description") # "relist" => asked[r][NextStep(r, "description")] # Keep)
    BY NextStepIsSet
  <2>5. GoTo(r, NextStep(r, "description")) \/ \E answer \in Answers : Answer(r, answer)
    BY <1>3 DEF EditDescription, Do
  <2> QED BY <1>0, <2>1, <2>2, <2>3, <2>4, <2>5, OneHandlerMoves
<1>4. CASE EditCategory(r)
  <2>1. /\ pc[r] = "category" /\ UNCHANGED <<asked, tid, cid, before, lone>>
    BY <1>4 DEF EditCategory
  <2>2. asked[r].op = "edit"
    BY <2>1 DEF TypeInv, StepsMatchAsks
  <2>3. TablesConsistent'
    BY <1>0, <1>4, SetCategoryKeeps, UnchangedTables DEF EditCategory, Do
  <2>4. NextStep(r, "category") \in Columns \cup {"relist"}
        /\ (NextStep(r, "category") # "relist" => asked[r][NextStep(r, "category")] # Keep)
    BY NextStepIsSet
  <2>5. GoTo(r, NextStep(r, "category")) \/ \E answer \in Answers : Answer(r, answer)
    BY <1>4 DEF EditCategory, Do
  <2> QED BY <1>0, <2>1, <2>2, <2>3, <2>4, <2>5, OneHandlerMoves
<1>5. CASE CompareTags(r) \/ Recategory(r)
  <2>1. /\ pc[r] \in {"tags", "recategory"} /\ UNCHANGED <<labelTables, asked, tid, cid, before, lone>>
    BY <1>5 DEF CompareTags, Recategory
  <2>2. asked[r].op = "edit" /\ TablesConsistent'
    BY <1>0, <2>1, UnchangedTables DEF TypeInv, StepsMatchAsks
  <2>3. PICK step \in {"relist", "unlink"} : GoTo(r, step) \/ \E answer \in Answers : Answer(r, answer)
    BY <1>5 DEF CompareTags, Recategory
  <2> QED BY <1>0, <2>1, <2>2, <2>3, OneHandlerMoves
<1>6. CASE UnlinkTags(r)
  <2>1. /\ pc[r] = "unlink" /\ UNCHANGED <<asked, tid, cid, before, lone>> /\ GoTo(r, "link")
    BY <1>6 DEF UnlinkTags
  <2>2. asked[r].op = "edit" /\ TablesConsistent'
    BY <1>0, <1>6, <2>1, UnlinkAllKeeps DEF UnlinkTags, TypeInv, StepsMatchAsks
  <2> QED BY <1>0, <2>1, <2>2, OneHandlerMoves
<1>7. CASE LinkTags(r)
  <2>1. /\ pc[r] = "link" /\ UNCHANGED <<asked, tid, cid, before, lone>>
        /\ GoTo(r, "relist") \/ \E answer \in Answers : Answer(r, answer)
    BY <1>7 DEF LinkTags, Do
  <2>2. TablesConsistent'
    BY <1>0, <1>7, LinkAllKeeps, UnchangedTables DEF LinkTags, Do
  <2>3. asked[r].op = "edit"
    BY <2>1 DEF TypeInv, StepsMatchAsks
  <2> QED BY <1>0, <2>1, <2>2, <2>3, OneHandlerMoves
<1>8. CASE Relist(r)
  <2>1. /\ pc[r] = "relist" /\ UNCHANGED <<labelTables, asked, tid, before, lone>>
        /\ GoTo(r, "recategory") \/ \E answer \in Answers : Answer(r, answer)
    BY <1>8 DEF Relist
  <2>2. torrents \subseteq TorrentRow
    BY <1>0, ConsistentRows DEF AreRows
  <2>3. cid' \in [Requests -> Nat \cup {Null}]
    BY <1>0, <1>8, <2>2 DEF Relist, TorrentsWithId, TorrentRow
  <2>4. asked[r].op = "edit" /\ TablesConsistent'
    BY <1>0, <2>1, UnchangedTables DEF TypeInv, StepsMatchAsks
  <2> QED BY <1>0, <2>1, <2>3, <2>4, OneHandlerMoves
<1> QED BY <1>1, <1>2, <1>3, <1>4, <1>5, <1>6, <1>7, <1>8 DEF EditStep

\* Uploads, deletions, categories and tags.
LEMMA OtherStepKeeps ==
  ASSUME TypeInv, NEW r \in Requests, OtherStep(r)
  PROVE  TypeInv'
<1> USE DEF EditSteps, Columns, Steps, Answers, Refusals
<1>0. /\ tid \in [Requests -> Nat] /\ cid \in [Requests -> Nat \cup {Null}]
      /\ before \in [Requests -> Sight \cup {Nothing}] /\ lone \in SUBSET Requests
      /\ pc \in [Requests -> Steps] /\ asked \in [Requests -> Asks \cup {NoAsk}]
      /\ TablesConsistent
  BY DEF TypeInv, TypeOK
<1>00. /\ categories \subseteq CategoryRow /\ torrents \subseteq TorrentRow
       /\ nextIds.torrent \in Nat
  BY <1>0, ConsistentRows DEF AreRows
<1>1. CASE Submit(r)
  <2>1. /\ pc[r] = "idle" /\ pc' = [pc EXCEPT ![r] = "authorize"]
        /\ asked' \in [Requests -> Asks \cup {NoAsk}] /\ asked'[r] \in Asks
        /\ \A q \in Requests \ {r} : asked'[q] = asked[q]
        /\ UNCHANGED <<labelTables, tid, cid, before, lone, response>>
    BY <1>0, <1>1 DEF Submit, GoTo
  <2>2. TablesConsistent'
    BY <1>0, <2>1, UnchangedTables
  <2>3. AreRows(categories, tags, torrents, links, nextIds)'
    BY <2>2, ConsistentRows, PTL
  <2>4. TypeOK'
    BY <1>0, <2>1, <2>3 DEF TypeInv, TypeOK
  <2>5. pc'[r] = "authorize" /\ \A q \in Requests \ {r} : pc'[q] = pc[q]
    BY <1>0, <2>1
  <2>6. \A q \in Requests \ {r} : NameToAdd(q)' = NameToAdd(q)
    BY <2>1 DEF NameToAdd
  <2>7. StepsMatchAsks'
    BY <2>1, <2>5, <2>6 DEF TypeInv, StepsMatchAsks
  <2> QED BY <2>2, <2>4, <2>7 DEF TypeInv
<1>2. CASE RefuseUser(r) \/ FailInDatabase(r) \/ Abandon(r)
  <2>1. /\ pc[r] # "idle" /\ UNCHANGED <<labelTables, asked, tid, cid, before, lone>>
        /\ \E answer \in Answers : Answer(r, answer)
    BY <1>2 DEF RefuseUser, FailInDatabase, Abandon
  <2>2. TablesConsistent'
    BY <1>0, <2>1, UnchangedTables
  <2> QED BY <1>0, <2>1, <2>2, OneHandlerMoves
<1>3. CASE ValidateUpload(r)
  <2>1. /\ pc[r] = "authorize" /\ asked[r].op = "upload"
        /\ UNCHANGED <<labelTables, asked, tid, before, lone>>
        /\ GoTo(r, "insert") \/ \E answer \in Answers : Answer(r, answer)
    BY <1>3 DEF ValidateUpload
  <2>2. cid' \in [Requests -> Nat \cup {Null}]
    BY <1>0, <1>00, <1>3 DEF ValidateUpload, CategoriesNamed, CategoryRow
  <2>3. TablesConsistent'
    BY <1>0, <2>1, UnchangedTables
  <2> QED BY <1>0, <2>1, <2>2, <2>3, OneHandlerMoves
<1>4. CASE InsertUpload(r)
  <2>1. /\ pc[r] = "insert" /\ asked[r].op = "upload" /\ UNCHANGED <<asked, cid, before, lone>>
        /\ \E answer \in Answers : Answer(r, answer)
    BY <1>4 DEF InsertUpload
  <2>2. asked[r] \in UploadAsk
    BY <2>1, AskOfOp DEF TypeInv, StepsMatchAsks
  <2>3. /\ asked[r].info_hash \in Hashes /\ asked[r].user \in Users
        /\ asked[r].title \in Titles /\ asked[r].description \in Descriptions
    BY <2>2 DEF UploadAsk
  <2>4. TablesConsistent'
    BY <1>0, <1>4, <2>3, InsertTorrentKeeps, UnchangedTables DEF InsertUpload
  <2>5. tid' \in [Requests -> Nat]
    BY <1>0, <1>00, <1>4 DEF InsertUpload
  <2> QED BY <1>0, <2>1, <2>4, <2>5, OneHandlerMoves
<1>5. CASE LookUpTorrent(r)
  <2>1. /\ pc[r] = "authorize" /\ UNCHANGED <<labelTables, asked, cid, before, lone>>
        /\ GoTo(r, "delete") \/ \E answer \in Answers : Answer(r, answer)
    BY <1>5 DEF LookUpTorrent
  <2>2. tid' \in [Requests -> Nat]
    BY <1>0, <1>00, <1>5 DEF LookUpTorrent, TorrentsWithHash, TorrentRow
  <2>3. TablesConsistent'
    BY <1>0, <2>1, UnchangedTables
  <2> QED BY <1>0, <2>1, <2>2, <2>3, OneHandlerMoves
<1>6. CASE DeleteTorrent(r)
  <2>1. /\ pc[r] = "delete" /\ UNCHANGED <<asked, tid, cid, before, lone>>
        /\ \E answer \in Answers : Answer(r, answer)
    BY <1>6 DEF DeleteTorrent
  <2>2. TablesConsistent'
    BY <1>0, <1>6, DeleteTorrentKeeps DEF DeleteTorrent
  <2> QED BY <1>0, <2>1, <2>2, OneHandlerMoves
<1>7. CASE LookUpCategory(r)
  <2>1. /\ pc[r] = "authorize" /\ UNCHANGED <<labelTables, asked, tid, cid, before, lone>>
        /\ \/ GoTo(r, "insert") /\ NameToAdd(r) # Blank
           \/ \E answer \in Answers : Answer(r, answer)
    BY <1>7 DEF LookUpCategory, NameToAdd
  <2>2. TablesConsistent'
    BY <1>0, <2>1, UnchangedTables
  <2> QED BY <1>0, <2>1, <2>2, OneHandlerMoves
<1>8. CASE AddCategory(r)
  <2>1. /\ pc[r] = "insert" /\ asked[r].op = "add_category"
        /\ UNCHANGED <<asked, tid, cid, before, lone>>
        /\ \E answer \in Answers : Answer(r, answer)
    BY <1>8 DEF AddCategory
  <2>2. NameToAdd(r) \in Names
    BY <2>1, AskOfOp DEF TypeInv, StepsMatchAsks, NameToAdd, Names
  <2>3. TablesConsistent'
    BY <1>0, <1>8, <2>2, InsertCategoryKeeps, UnchangedTables DEF AddCategory
  <2> QED BY <1>0, <2>1, <2>3, OneHandlerMoves
<1>9. CASE DeleteCategory(r)
  <2>1. /\ pc[r] = "authorize" /\ UNCHANGED <<asked, tid, cid, before, lone>>
        /\ \E answer \in Answers : Answer(r, answer)
    BY <1>9 DEF DeleteCategory
  <2>2. TablesConsistent'
    BY <1>0, <1>9, DeleteCategoryKeeps DEF DeleteCategory
  <2> QED BY <1>0, <2>1, <2>2, OneHandlerMoves
<1>10. CASE AddTag(r)
  <2>1. /\ pc[r] = "authorize" /\ asked[r].op = "add_tag"
        /\ UNCHANGED <<asked, tid, cid, before, lone>>
        /\ \E answer \in Answers : Answer(r, answer)
    BY <1>10 DEF AddTag
  <2>2. NameToAdd(r) # Blank => NameToAdd(r) \in Names
    BY <2>1, AskOfOp DEF TypeInv, StepsMatchAsks, NameToAdd, Names
  <2>3. TablesConsistent'
    BY <1>0, <1>10, <2>2, InsertTagKeeps, UnchangedTables DEF AddTag
  <2> QED BY <1>0, <2>1, <2>3, OneHandlerMoves
<1>11. CASE DeleteTag(r)
  <2>1. /\ pc[r] = "authorize" /\ UNCHANGED <<asked, tid, cid, before, lone>>
        /\ \E answer \in Answers : Answer(r, answer)
    BY <1>11 DEF DeleteTag
  <2>2. TablesConsistent'
    BY <1>0, <1>11, DeleteTagKeeps DEF DeleteTag
  <2> QED BY <1>0, <2>1, <2>2, OneHandlerMoves
<1> QED BY <1>1, <1>2, <1>3, <1>4, <1>5, <1>6, <1>7, <1>8, <1>9, <1>10, <1>11 DEF OtherStep

LEMMA TypeInvInit == Init => TypeInv
<1> SUFFICES ASSUME Init PROVE TypeInv
  OBVIOUS
<1>1. TablesConsistent
  BY EditingAssumption DEF Init, TablesConsistent
<1>2. AreRows(categories, tags, torrents, links, nextIds)
  BY <1>1, ConsistentRows
<1>3. TypeOK
  BY <1>2 DEF Init, TypeOK, Steps
<1>4. StepsMatchAsks
  BY DEF Init, StepsMatchAsks, EditSteps, Columns
<1> QED BY <1>1, <1>3, <1>4 DEF TypeInv

LEMMA TypeInvNext == TypeInv /\ [Next]_vars => TypeInv'
<1> SUFFICES ASSUME TypeInv, [Next]_vars PROVE TypeInv'
  OBVIOUS
<1>1. CASE UNCHANGED vars
  <2>1. TablesConsistent'
    BY <1>1, UnchangedTables DEF TypeInv, vars
  <2>2. AreRows(categories, tags, torrents, links, nextIds)'
    BY <2>1, ConsistentRows, PTL
  <2>3. TypeOK'
    BY <1>1, <2>2 DEF TypeInv, TypeOK, vars, handlers
  <2>4. StepsMatchAsks'
    BY <1>1 DEF TypeInv, StepsMatchAsks, NameToAdd, vars, handlers
  <2> QED BY <2>1, <2>3, <2>4 DEF TypeInv
<1> QED BY <1>1, EditStepKeeps, OtherStepKeeps DEF Next, Served

\* Tables and handlers are well formed in every reachable state.
THEOREM TypeCorrect == Spec => []TypeOK
<1>1. TypeInv => TypeOK
  BY DEF TypeInv
<1> QED BY <1>1, TypeInvInit, TypeInvNext, PTL DEF Spec

\* Keys stay unique, references lead to rows that are there, and ids are never
\* given out again, whichever edits, uploads and deletions of torrents, categories
\* and tags overlap and wherever they fail (sqlite.rs:236-281, 437-590, 800-934).
THEOREM TablesStayConsistent == Spec => []TablesConsistent
<1>1. TypeInv => TablesConsistent
  BY DEF TypeInv
<1> QED BY <1>1, TypeInvInit, TypeInvNext, PTL DEF Spec

-----------------------------------------------------------------------------
(* Whose torrents are edited *)

\* Rows of torrents keep their ids and uploaders, and new ones get new ids.
RowsFollow ==
  /\ nextIds.torrent <= nextIds'.torrent
  /\ \A t \in torrents' :
       \/ t.torrent_id = nextIds.torrent
       \/ \E s \in torrents : s.torrent_id = t.torrent_id /\ s.uploader = t.uploader

\* A handler that edits holds the id of a row it may edit, or of no row any more.
EditsAreAuthorized ==
  \A r \in Requests : pc[r] \in EditSteps =>
    /\ tid[r] < nextIds.torrent
    /\ \A t \in torrents : t.torrent_id = tid[r] =>
         t.uploader = asked[r].user \/ IsAdministrator(r)

EditInv == TypeInv /\ EditsAreAuthorized

\* An edit rewrites the row it was authorized for and no other.
LEMMA EditTouchesItsRow ==
  ASSUME TypeInv, NEW r \in Requests, EditStep(r)
  PROVE  /\ RowsFollow
         /\ \A t \in torrents :
              t \notin torrents' \/ TagsOf(t.torrent_id)' # TagsOf(t.torrent_id) =>
                t.torrent_id = tid[r] /\ pc[r] \in EditSteps
<1>0. torrents \subseteq TorrentRow /\ nextIds.torrent \in Nat
  BY ConsistentRows DEF TypeInv, AreRows
<1>1. CASE UNCHANGED labelTables
  BY <1>0, <1>1 DEF labelTables, RowsFollow, TagsOf
<1>2. ASSUME pc[r] \in EditSteps, UNCHANGED <<links, nextIds>>,
             NEW f \in [torrents -> TorrentRow], torrents' = {f[t] : t \in torrents},
             \A t \in torrents : /\ f[t].torrent_id = t.torrent_id /\ f[t].uploader = t.uploader
                                 /\ t.torrent_id # tid[r] => f[t] = t
      PROVE  /\ RowsFollow
             /\ \A t \in torrents :
                  t \notin torrents' \/ TagsOf(t.torrent_id)' # TagsOf(t.torrent_id) =>
                    t.torrent_id = tid[r] /\ pc[r] \in EditSteps
  BY <1>0, <1>2 DEF RowsFollow, TagsOf
<1>3. CASE EditTitle(r) /\ ~UNCHANGED labelTables
  <2> DEFINE f == [t \in torrents |->
                     IF t.torrent_id = tid[r] THEN [t EXCEPT !.title = asked[r].title] ELSE t]
  <2>1. /\ pc[r] \in EditSteps /\ torrents' = {f[t] : t \in torrents} /\ UNCHANGED <<links, nextIds>>
    BY <1>3 DEF EditTitle, Do, SetTitle, EditedId, EditSteps, Columns
  <2>2. asked[r].title \in Titles
    BY <1>3, AskOfOp DEF EditTitle, TypeInv, StepsMatchAsks, EditAsk, EditSteps, Columns
  <2>3. \A t \in torrents : /\ f[t] \in TorrentRow
                            /\ f[t].torrent_id = t.torrent_id /\ f[t].uploader = t.uploader
                            /\ t.torrent_id # tid[r] => f[t] = t
    BY <1>0, <2>2 DEF TorrentRow
  <2>4. f \in [torrents -> TorrentRow]
    BY <2>3
  <2> HIDE DEF f
  <2> QED BY <1>2, <2>1, <2>3, <2>4
<1>4. CASE EditDescription(r) /\ ~UNCHANGED labelTables
  <2> DEFINE f == [t \in torrents |->
                     IF t.torrent_id = tid[r] THEN [t EXCEPT !.description = asked[r].description] ELSE t]
  <2>1. /\ pc[r] \in EditSteps /\ torrents' = {f[t] : t \in torrents} /\ UNCHANGED <<links, nextIds>>
    BY <1>4 DEF EditDescription, Do, SetDescription, EditedId, EditSteps, Columns
  <2>2. asked[r].description \in Descriptions
    BY <1>4, AskOfOp DEF EditDescription, TypeInv, StepsMatchAsks, EditAsk, EditSteps, Columns
  <2>3. \A t \in torrents : /\ f[t] \in TorrentRow
                            /\ f[t].torrent_id = t.torrent_id /\ f[t].uploader = t.uploader
                            /\ t.torrent_id # tid[r] => f[t] = t
    BY <1>0, <2>2 DEF TorrentRow
  <2>4. f \in [torrents -> TorrentRow]
    BY <2>3
  <2> HIDE DEF f
  <2> QED BY <1>2, <2>1, <2>3, <2>4
<1>5. CASE EditCategory(r) /\ ~UNCHANGED labelTables
  <2> DEFINE f == [t \in torrents |->
                     IF t.torrent_id = tid[r] THEN [t EXCEPT !.category = asked[r].category] ELSE t]
  <2>1. /\ pc[r] \in EditSteps /\ torrents' = {f[t] : t \in torrents} /\ UNCHANGED <<links, nextIds>>
        /\ asked[r].category \in CategoryIds
    BY <1>5 DEF EditCategory, Do, SetCategory, CanSetCategory, EditedId, EditSteps, Columns
  <2>2. asked[r].category \in Nat
    BY <2>1, ConsistentRows DEF TypeInv, AreRows, CategoryIds, CategoryRow
  <2>3. \A t \in torrents : /\ f[t] \in TorrentRow
                            /\ f[t].torrent_id = t.torrent_id /\ f[t].uploader = t.uploader
                            /\ t.torrent_id # tid[r] => f[t] = t
    BY <1>0, <2>2 DEF TorrentRow
  <2>4. f \in [torrents -> TorrentRow]
    BY <2>3
  <2> HIDE DEF f
  <2> QED BY <1>2, <2>1, <2>3, <2>4
<1>6. CASE (UnlinkTags(r) \/ LinkTags(r)) /\ ~UNCHANGED labelTables
  <2>1. /\ pc[r] \in EditSteps /\ UNCHANGED <<torrents, nextIds>>
        /\ \/ links' = {l \in links : l[1] # tid[r]}
           \/ links' = links \cup ({tid[r]} \X Range(asked[r].tags))
    BY <1>6 DEF UnlinkTags, LinkTags, Do, UnlinkAll, LinkAll, LinksTo, EditedId, EditSteps, Columns
  <2>2. \A l \in {tid[r]} \X Range(asked[r].tags) : l[1] = tid[r]
    OBVIOUS
  <2>3. ASSUME NEW id, id # tid[r] PROVE TagsOf(id)' = TagsOf(id)
    <3>1. {l \in links' : l[1] = id} = {l \in links : l[1] = id}
      BY <2>1, <2>2, <2>3
    <3> QED BY <3>1 DEF TagsOf
  <2> QED BY <1>0, <2>1, <2>3 DEF RowsFollow
<1>7. UNCHANGED labelTables \/ EditTitle(r) \/ EditDescription(r) \/ EditCategory(r)
      \/ UnlinkTags(r) \/ LinkTags(r)
  BY DEF EditStep, AuthorizeEdit, CompareTags, Relist, Recategory
<1> QED BY <1>1, <1>3, <1>4, <1>5, <1>6, <1>7

LEMMA OtherRowsFollow ==
  ASSUME TypeInv, NEW r \in Requests, OtherStep(r)
  PROVE  RowsFollow
<1>0. torrents \subseteq TorrentRow /\ nextIds \in [{"category", "tag", "torrent"} -> Nat]
  BY ConsistentRows DEF TypeInv, AreRows
<1>1. CASE UNCHANGED <<torrents, nextIds>>
  BY <1>0, <1>1 DEF RowsFollow
<1>2. CASE InsertUpload(r) /\ ~UNCHANGED <<torrents, nextIds>>
  BY <1>0, <1>2 DEF InsertUpload, InsertTorrentRow, RowsFollow, labelTables
<1>3. CASE DeleteTorrent(r)
  BY <1>0, <1>3 DEF DeleteTorrent, DeleteTorrentRow, RowsFollow
<1>4. CASE AddCategory(r) \/ AddTag(r)
  BY <1>0, <1>4 DEF AddCategory, AddTag, InsertCategoryRow, InsertTagRow, RowsFollow, labelTables
<1>5. CASE DeleteCategory(r)
  <2> DEFINE gone == {c.category_id : c \in {c \in categories : c.name = asked[r].name}}
             f(t) == [t EXCEPT !.category = IF @ \in gone THEN Null ELSE @]
  <2>1. torrents' = {f(t) : t \in torrents} /\ UNCHANGED nextIds
    BY <1>5 DEF DeleteCategory, DeleteCategoryRow
  <2>2. \A t \in torrents : f(t).torrent_id = t.torrent_id /\ f(t).uploader = t.uploader
    BY <1>0 DEF TorrentRow
  <2> HIDE DEF f
  <2> QED BY <1>0, <2>1, <2>2 DEF RowsFollow
<1>6. \/ UNCHANGED <<torrents, nextIds>>
      \/ InsertUpload(r) \/ DeleteTorrent(r) \/ AddCategory(r) \/ DeleteCategory(r) \/ AddTag(r)
  BY DEF OtherStep, Submit, RefuseUser, ValidateUpload, LookUpTorrent, LookUpCategory, DeleteTag,
     DeleteTagRow, FailInDatabase, Abandon, labelTables
<1> QED BY <1>1, <1>2, <1>3, <1>4, <1>5, <1>6

\* A handler that edits after a step was editing before, or was just authorized.
LEMMA EditorsGoOn ==
  ASSUME TypeInv, NEW r \in Requests, EditStep(r) \/ OtherStep(r)
  PROVE  /\ \A q \in Requests \ {r} : pc'[q] = pc[q] /\ tid'[q] = tid[q] /\ asked'[q] = asked[q]
         /\ pc'[r] \in EditSteps =>
              \/ AuthorizeEdit(r)
              \/ pc[r] \in EditSteps /\ tid'[r] = tid[r] /\ asked'[r] = asked[r]
<1> USE DEF EditSteps, Columns
<1>0. pc \in [Requests -> Steps] /\ tid \in [Requests -> Nat] /\ asked \in [Requests -> Asks \cup {NoAsk}]
  BY DEF TypeInv, TypeOK
<1>1. CASE AuthorizeEdit(r)
  BY <1>0, <1>1 DEF AuthorizeEdit, GoTo, Answer
<1>2. CASE EditStep(r) /\ ~AuthorizeEdit(r)
  BY <1>0, <1>2 DEF EditStep, EditTitle, EditDescription, EditCategory, CompareTags, UnlinkTags,
     LinkTags, Relist, Recategory, Do, GoTo, Answer
<1>3. CASE Submit(r)
  BY <1>0, <1>3 DEF Submit, GoTo
<1>4. CASE RefuseUser(r) \/ FailInDatabase(r) \/ Abandon(r) \/ InsertUpload(r) \/ DeleteTorrent(r)
           \/ AddCategory(r) \/ DeleteCategory(r) \/ AddTag(r) \/ DeleteTag(r)
  BY <1>0, <1>4 DEF RefuseUser, FailInDatabase, Abandon, InsertUpload, DeleteTorrent,
     AddCategory, DeleteCategory, AddTag, DeleteTag, Answer
<1>5. CASE ValidateUpload(r) \/ LookUpTorrent(r) \/ LookUpCategory(r)
  BY <1>0, <1>5 DEF ValidateUpload, LookUpTorrent, LookUpCategory, GoTo, Answer
<1> QED BY <1>1, <1>2, <1>3, <1>4, <1>5 DEF OtherStep

LEMMA EditInvNext == EditInv /\ [Next]_vars => EditInv'
<1> SUFFICES ASSUME EditInv, [Next]_vars PROVE EditInv'
  OBVIOUS
<1>1. TypeInv'
  BY TypeInvNext DEF EditInv
<1>2. CASE UNCHANGED vars
  BY <1>1, <1>2 DEF EditInv, EditsAreAuthorized, IsAdministrator, vars, handlers, labelTables
<1>3. ASSUME NEW r \in Requests, EditStep(r) \/ OtherStep(r),
             NEW q \in Requests, pc'[q] \in EditSteps
      PROVE  /\ tid'[q] < nextIds'.torrent
             /\ \A t \in torrents' : t.torrent_id = tid'[q] =>
                  t.uploader = asked'[q].user \/ IsAdministrator(q)'
  <2>1. /\ tid \in [Requests -> Nat] /\ torrents \subseteq TorrentRow
        /\ nextIds.torrent \in Nat /\ nextIds'.torrent \in Nat
    BY <1>1 DEF EditInv, TypeInv, TypeOK, AreRows
  <2>2. RowsFollow
    BY <1>3, EditTouchesItsRow, OtherRowsFollow DEF EditInv
  <2>3. CASE pc[q] \in EditSteps /\ tid'[q] = tid[q] /\ asked'[q] = asked[q]
    <3>1. /\ tid[q] < nextIds.torrent
          /\ \A t \in torrents : t.torrent_id = tid[q] =>
               t.uploader = asked[q].user \/ IsAdministrator(q)
      BY <2>3 DEF EditInv, EditsAreAuthorized
    <3> QED BY <2>1, <2>2, <2>3, <3>1 DEF RowsFollow, IsAdministrator
  <2>4. CASE q = r /\ AuthorizeEdit(r)
    <3>1. UNCHANGED <<torrents, nextIds, asked>>
      BY <2>4 DEF AuthorizeEdit, labelTables
    <3>2. \E t \in torrents : /\ tid' = [tid EXCEPT ![r] = t.torrent_id]
                              /\ t.uploader = asked[r].user \/ IsAdministrator(r)
      <4>1. pc'[r] # "done"
        BY <1>3, <2>4 DEF EditSteps, Columns
      <4>2. pc \in [Requests -> Steps]
        BY DEF EditInv, TypeInv, TypeOK
      <4> QED BY <2>4, <4>1, <4>2 DEF AuthorizeEdit, Answer, TorrentsWithHash
    <3>3. ASSUME NEW t \in torrents, tid' = [tid EXCEPT ![r] = t.torrent_id],
                 t.uploader = asked[r].user \/ IsAdministrator(r)
          PROVE  /\ tid'[r] < nextIds.torrent
                 /\ \A s \in torrents : s.torrent_id = tid'[r] =>
                      s.uploader = asked[r].user \/ IsAdministrator(r)
      <4>1. /\ t.torrent_id < nextIds.torrent
            /\ \A s \in torrents : s.torrent_id = t.torrent_id => s = t
        BY DEF EditInv, TypeInv, TablesConsistent, AreConsistent
      <4>2. tid'[r] = t.torrent_id
        BY <2>1, <3>3
      <4> QED BY <3>3, <4>1, <4>2
    <3>4. /\ tid'[r] < nextIds.torrent
          /\ \A s \in torrents : s.torrent_id = tid'[r] =>
               s.uploader = asked[r].user \/ IsAdministrator(r)
      BY <3>2, <3>3
    <3>5. torrents' = torrents /\ nextIds' = nextIds /\ asked' = asked
      BY <3>1
    <3>6. q = r
      BY <2>4
    <3> QED BY <3>4, <3>5, <3>6 DEF IsAdministrator
  <2> QED BY <1>3, <2>3, <2>4, EditorsGoOn DEF EditInv
<1>4. ASSUME NEW r \in Requests, EditStep(r) \/ OtherStep(r) PROVE EditsAreAuthorized'
  BY <1>3, <1>4 DEF EditsAreAuthorized
<1> QED BY <1>1, <1>2, <1>4 DEF Next, Served, EditInv

\* A torrent is edited only for its uploader or an administrator, although the
\* right is checked once and the statements come later, when the torrent may have
\* been deleted and uploaded again by another user (torrent.rs:481-508).
THEOREM EditsStayAuthorized == Spec => EditStaysAuthorized
<1>1. Init => EditInv
  BY TypeInvInit DEF Init, EditInv, EditsAreAuthorized, EditSteps, Columns
<1>2. ASSUME EditInv, NEW r \in Requests, EditStep(r),
             NEW t \in torrents,
             t \notin torrents' \/ TagsOf(t.torrent_id)' # TagsOf(t.torrent_id)
      PROVE  t.uploader = asked[r].user \/ IsAdministrator(r)
  <2>1. t.torrent_id = tid[r] /\ pc[r] \in EditSteps
    BY <1>2, EditTouchesItsRow DEF EditInv
  <2> QED BY <1>2, <2>1 DEF EditInv, EditsAreAuthorized
<1>3. EditInv => [\A r \in Requests : EditStep(r) =>
                   \A t \in torrents :
                     t \notin torrents' \/ TagsOf(t.torrent_id)' # TagsOf(t.torrent_id) =>
                       t.uploader = asked[r].user \/ IsAdministrator(r)]_vars
  BY <1>2
<1> QED BY <1>1, <1>3, EditInvNext, PTL DEF Spec, EditStaysAuthorized

-----------------------------------------------------------------------------
(* Which category an upload gets *)

\* Categories keep their names, and new ones get new ids.
CategoriesFollow ==
  /\ nextIds.category <= nextIds'.category
  /\ \A c \in categories' : c \in categories \/ c.category_id = nextIds.category

\* The id that a name became means a category of that name, or none any more.
IdIsNamed(r) ==
  /\ cid[r] \in Nat /\ cid[r] < nextIds.category
  /\ \A c \in categories : c.category_id = cid[r] => c.name = asked[r].category

\* Uploads that have an id for their category, and were not refused.
HasCategory(r) == asked[r].op = "upload" /\ (pc[r] = "insert" \/ response[r] = "ok")

UploadsAreNamed ==
  \A r \in Requests :
    /\ pc[r] = "delete" => asked[r].op = "delete"
    /\ response[r] # "none" => pc[r] = "done"
    /\ HasCategory(r) => IdIsNamed(r)

UploadInv == TypeInv /\ UploadsAreNamed

LEMMA StepsFollowCategories ==
  ASSUME TypeInv, NEW r \in Requests, EditStep(r) \/ OtherStep(r)
  PROVE  CategoriesFollow
<1>0. nextIds \in [{"category", "tag", "torrent"} -> Nat]
  BY ConsistentRows DEF TypeInv, AreRows
<1>1. CASE UNCHANGED <<categories, nextIds>>
  BY <1>0, <1>1 DEF CategoriesFollow
<1>2. CASE AddCategory(r) /\ ~UNCHANGED <<categories, nextIds>>
  BY <1>0, <1>2 DEF AddCategory, InsertCategoryRow, CategoriesFollow, labelTables
<1>3. CASE DeleteCategory(r)
  BY <1>0, <1>3 DEF DeleteCategory, DeleteCategoryRow, CategoriesFollow
<1>4. CASE (InsertUpload(r) \/ AddTag(r)) /\ ~UNCHANGED <<categories, nextIds>>
  BY <1>0, <1>4 DEF InsertUpload, InsertTorrentRow, AddTag, InsertTagRow, CategoriesFollow, labelTables
<1>5. EditStep(r) => UNCHANGED <<categories, nextIds>>
  BY DEF EditStep, AuthorizeEdit, EditTitle, EditDescription, EditCategory, CompareTags, UnlinkTags,
     LinkTags, Relist, Recategory, Do, SetTitle, SetDescription, SetCategory, UnlinkAll, LinkAll,
     labelTables
<1>6. OtherStep(r) => \/ UNCHANGED <<categories, nextIds>>
                      \/ AddCategory(r) \/ DeleteCategory(r) \/ InsertUpload(r) \/ AddTag(r)
  BY DEF OtherStep, Submit, RefuseUser, ValidateUpload, LookUpTorrent, DeleteTorrent, DeleteTorrentRow,
     LookUpCategory, DeleteTag, DeleteTagRow, FailInDatabase, Abandon, labelTables
<1> QED BY <1>1, <1>2, <1>3, <1>4, <1>5, <1>6

\* A step moves its own handler only, and an upload that has a category after it had
\* the same one before, or has just looked it up.
LEMMA UploadersGoOn ==
  ASSUME UploadInv, NEW r \in Requests, EditStep(r) \/ OtherStep(r)
  PROVE  /\ \A q \in Requests \ {r} : /\ pc'[q] = pc[q] /\ cid'[q] = cid[q]
                                      /\ asked'[q] = asked[q] /\ response'[q] = response[q]
         /\ pc'[r] = "delete" => asked'[r].op = "delete"
         /\ response'[r] # "none" => pc'[r] = "done"
         /\ HasCategory(r)' =>
              \/ HasCategory(r) /\ UNCHANGED <<cid, asked>>
              \/ ValidateUpload(r) /\ pc'[r] = "insert"
<1>0. /\ pc \in [Requests -> Steps] /\ cid \in [Requests -> Nat \cup {Null}]
      /\ asked \in [Requests -> Asks \cup {NoAsk}]
      /\ response \in [Requests -> {"none"} \cup Answers]
      /\ response[r] # "none" => pc[r] = "done"
  BY DEF UploadInv, UploadsAreNamed, TypeInv, TypeOK
<1>1. pc[r] \in EditSteps => asked[r].op = "edit"
  BY DEF UploadInv, TypeInv, StepsMatchAsks
<1>2. pc[r] = "delete" => asked[r].op = "delete"
  BY DEF UploadInv, UploadsAreNamed
<1>3. CASE AuthorizeEdit(r)
  <2>1. NextStep(r, "authorize") \in Columns \cup {"relist"}
    BY NextStepIsSet
  <2> QED BY <1>0, <1>3, <2>1 DEF AuthorizeEdit, GoTo, Answer, HasCategory, Columns
<1>4. CASE EditStep(r) /\ ~AuthorizeEdit(r)
  <2>1. /\ pc[r] \in EditSteps /\ UNCHANGED asked
        /\ \/ \E step \in EditSteps : GoTo(r, step)
           \/ \E answer \in Answers : Answer(r, answer)
        /\ \A q \in Requests \ {r} : cid'[q] = cid[q]
    BY <1>0, <1>4, NextStepIsSet DEF EditStep, EditTitle, EditDescription, EditCategory, CompareTags,
       UnlinkTags, LinkTags, Relist, Recategory, Do, Answers, Refusals, EditSteps, Columns
  <2> QED BY <1>0, <1>1, <2>1 DEF GoTo, Answer, HasCategory, EditSteps, Columns, Answers, Refusals
<1>5. CASE Submit(r)
  BY <1>0, <1>5 DEF Submit, GoTo, HasCategory
<1>6. CASE RefuseUser(r) \/ FailInDatabase(r) \/ Abandon(r)
  BY <1>0, <1>6 DEF RefuseUser, FailInDatabase, Abandon, Answer, HasCategory
<1>7. CASE ValidateUpload(r)
  BY <1>0, <1>7 DEF ValidateUpload, GoTo, Answer, HasCategory
<1>8. CASE InsertUpload(r)
  BY <1>0, <1>8 DEF InsertUpload, Answer, HasCategory
<1>9. CASE LookUpTorrent(r) \/ LookUpCategory(r) \/ DeleteTorrent(r)
  BY <1>0, <1>2, <1>9 DEF LookUpTorrent, LookUpCategory, DeleteTorrent, GoTo, Answer, HasCategory
<1>10. CASE AddCategory(r) \/ DeleteCategory(r) \/ AddTag(r) \/ DeleteTag(r)
  BY <1>0, <1>10 DEF AddCategory, DeleteCategory, AddTag, DeleteTag, Answer, HasCategory
<1> QED BY <1>3, <1>4, <1>5, <1>6, <1>7, <1>8, <1>9, <1>10 DEF OtherStep

LEMMA UploadInvInit == Init => UploadInv
BY TypeInvInit DEF Init, UploadInv, UploadsAreNamed, HasCategory

LEMMA UploadInvNext == UploadInv /\ [Next]_vars => UploadInv'
<1> SUFFICES ASSUME UploadInv, [Next]_vars PROVE UploadInv'
  OBVIOUS
<1>1. TypeInv'
  BY TypeInvNext DEF UploadInv
<1>2. CASE UNCHANGED vars
  BY <1>1, <1>2 DEF UploadInv, UploadsAreNamed, HasCategory, IdIsNamed, vars, handlers, labelTables
<1>3. ASSUME NEW r \in Requests, EditStep(r) \/ OtherStep(r),
             NEW q \in Requests, HasCategory(q)'
      PROVE  IdIsNamed(q)'
  <2>1. CategoriesFollow
    BY <1>3, StepsFollowCategories DEF UploadInv
  <2>2. /\ nextIds.category \in Nat /\ nextIds'.category \in Nat
        /\ cid \in [Requests -> Nat \cup {Null}]
    BY <1>1 DEF UploadInv, TypeInv, TypeOK, AreRows
  <2>3. CASE HasCategory(q) /\ cid'[q] = cid[q] /\ asked'[q] = asked[q]
    <3>1. IdIsNamed(q)
      BY <2>3 DEF UploadInv, UploadsAreNamed
    <3> QED BY <2>1, <2>2, <2>3, <3>1 DEF IdIsNamed, CategoriesFollow
  <2>4. CASE q = r /\ ValidateUpload(r) /\ pc'[r] = "insert"
    <3>1. pc \in [Requests -> Steps]
      BY DEF UploadInv, TypeInv, TypeOK
    <3>2. PICK c \in categories : c.name = asked[r].category /\ cid' = [cid EXCEPT ![r] = c.category_id]
      BY <2>4, <3>1 DEF ValidateUpload, CategoriesNamed, Answer
    <3>3. /\ c.category_id \in Nat /\ c.category_id < nextIds.category
          /\ \A d \in categories : d.category_id = c.category_id => d = c
      BY ConsistentRows DEF UploadInv, TypeInv, TablesConsistent, AreConsistent, AreRows, CategoryRow
    <3>4. UNCHANGED <<categories, nextIds, asked>>
      BY <2>4 DEF ValidateUpload, labelTables
    <3>5. cid'[r] = c.category_id
      BY <2>2, <3>2
    <3> QED BY <2>4, <3>2, <3>3, <3>4, <3>5 DEF IdIsNamed
  <2>5. q # r => HasCategory(q) /\ cid'[q] = cid[q] /\ asked'[q] = asked[q]
    BY <1>3, UploadersGoOn DEF HasCategory
  <2>6. q = r => \/ HasCategory(q) /\ cid'[q] = cid[q] /\ asked'[q] = asked[q]
                 \/ ValidateUpload(r) /\ pc'[r] = "insert"
    BY <1>3, UploadersGoOn
  <2> QED BY <2>3, <2>4, <2>5, <2>6
<1>4. ASSUME NEW r \in Requests, EditStep(r) \/ OtherStep(r) PROVE UploadsAreNamed'
  <2>1. \A q \in Requests : /\ pc[q] = "delete" => asked[q].op = "delete"
                            /\ response[q] # "none" => pc[q] = "done"
    BY DEF UploadInv, UploadsAreNamed
  <2>2. ASSUME NEW q \in Requests
        PROVE  /\ pc'[q] = "delete" => asked'[q].op = "delete"
               /\ response'[q] # "none" => pc'[q] = "done"
    BY <1>4, <2>1, UploadersGoOn
  <2> QED BY <1>3, <1>4, <2>2 DEF UploadsAreNamed
<1> QED BY <1>1, <1>2, <1>4 DEF Next, Served, UploadInv

\* A torrent is in the category that its upload named, whatever categories are added
\* and deleted between the look-up of the name and the insertion, or later
\* (torrent.rs:180-199): an id is not given out again under another name.
THEOREM UploadsKeepTheirCategory == Spec => []UploadKeepsItsCategory
<1>1. UploadInv => UploadKeepsItsCategory
  BY DEF UploadInv, UploadsAreNamed, HasCategory, IdIsNamed, UploadKeepsItsCategory
<1> QED BY <1>1, UploadInvInit, UploadInvNext, PTL DEF Spec

-----------------------------------------------------------------------------
(* What an edit leaves in its torrent *)

\* The columns that are done with when an edit comes to a step.
WrittenAt(step) ==
  {c \in Columns :
     \/ c = "title" /\ step # "title"
     \/ c = "description" /\ step \notin {"title", "description"}
     \/ c = "category" /\ step \notin {"title", "description", "category"}
     \/ c = "tags" /\ step \in {"link", "relist", "recategory"}}

\* What the columns of the torrent were set to, or left at, when it comes there.
FieldAt(r, step, c) ==
  IF c \notin WrittenAt(step) \/ asked[r][c] = Keep THEN before[r][c]
  ELSE IF c # "tags" THEN asked[r][c]
  ELSE IF step = "link" THEN {} ELSE Range(asked[r].tags)

\* Labels that exist or once did, so that their ids are not given out again.
LabelsAreKnown(r, step) ==
  /\ \/ FieldAt(r, step, "category") = Null
     \/ FieldAt(r, step, "category") \in Nat /\ FieldAt(r, step, "category") < nextIds.category
  /\ \A n \in FieldAt(r, step, "tags") : n \in Nat /\ n < nextIds.tag

\* The torrent shows this, but for the labels that were deleted.
IsSeen(r, step) ==
  \A t \in torrents : t.torrent_id = tid[r] =>
    /\ t.title = FieldAt(r, step, "title")
    /\ t.description = FieldAt(r, step, "description")
    /\ t.category = IF FieldAt(r, step, "category") \in CategoryIds
                    THEN FieldAt(r, step, "category") ELSE Null
    /\ TagsOf(tid[r]) = FieldAt(r, step, "tags") \cap TagIds

\* An edit that no other one overlaps: its torrent is seen as the edit has left it
\* so far, or as it was left when the edit ended.
IsAlone(r) ==
  /\ asked[r].op = "edit"
  /\ tid[r] < nextIds.torrent
  /\ \A q \in Requests : pc[q] \in EditSteps /\ tid[q] = tid[r] => q = r
  /\ \E step \in EditSteps :
       /\ LabelsAreKnown(r, step) /\ IsSeen(r, step)
       /\ step = "link" => asked[r].tags # Keep
       /\ \/ pc[r] = step
          \/ pc[r] = "done" /\ (response[r] = "ok" => step = "relist")

\* An edit comes to the category and the tags only if it sets them.
LabelsAreSet ==
  \A r \in Requests :
    /\ pc[r] = "category" => asked[r].category # Keep
    /\ pc[r] \in {"tags", "unlink", "link"} => asked[r].tags # Keep

LoneInv == TypeInv /\ LabelsAreSet /\ \A r \in lone : IsAlone(r)

\* Labels that appear have new ids.
LabelsFollow ==
  /\ nextIds.category <= nextIds'.category /\ nextIds.tag <= nextIds'.tag
  /\ \A n \in CategoryIds' : n \in CategoryIds \/ n = nextIds.category
  /\ \A n \in TagIds' : n \in TagIds \/ n = nextIds.tag

\* The torrent with an id loses labels that are deleted, and nothing else.
RowFollows(id) ==
  \A u \in torrents' : u.torrent_id = id =>
    \E t \in torrents :
      /\ t.torrent_id = id /\ t.title = u.title /\ t.description = u.description
      /\ u.category = IF t.category \in CategoryIds' THEN t.category ELSE Null
      /\ TagsOf(id)' = TagsOf(id) \cap TagIds'

\* Ids of labels are below the next ones, and references lead to labels.
LabelIdsBounded ==
  /\ CategoryIds \subseteq Nat /\ TagIds \subseteq Nat
  /\ nextIds.category \in Nat /\ nextIds.tag \in Nat /\ nextIds.torrent \in Nat
  /\ \A n \in CategoryIds : n < nextIds.category
  /\ \A n \in TagIds : n < nextIds.tag
  /\ \A t \in torrents : /\ t.category = Null \/ t.category \in CategoryIds
                         /\ t.torrent_id \in Nat /\ t.torrent_id < nextIds.torrent
  /\ \A l \in links : l[2] \in TagIds

LEMMA LabelIds == TypeInv => LabelIdsBounded
BY DEF TypeInv, TablesConsistent, AreConsistent, AreRows, CategoryIds, TagIds, CategoryRow,
   TagRow, TorrentRow, LabelIdsBounded

\* What was seen of a torrent is seen of it after a step that does not edit it.
LEMMA SeenStays ==
  ASSUME TypeInv, TypeInv', NEW r \in Requests, NEW step, LabelsFollow, RowFollows(tid[r]),
         LabelsAreKnown(r, step), IsSeen(r, step),
         tid'[r] = tid[r], before'[r] = before[r], asked'[r] = asked[r]
  PROVE  LabelsAreKnown(r, step)' /\ IsSeen(r, step)'
<1>1. \A c : FieldAt(r, step, c)' = FieldAt(r, step, c)
  BY DEF FieldAt
<1>2. LabelIdsBounded /\ LabelIdsBounded'
  BY LabelIds, PTL
<1>3. LabelsAreKnown(r, step)'
  BY <1>1, <1>2 DEF LabelsAreKnown, LabelsFollow, LabelIdsBounded
<1>4. ASSUME NEW u \in torrents', u.torrent_id = tid[r]
      PROVE  /\ u.title = FieldAt(r, step, "title")
             /\ u.description = FieldAt(r, step, "description")
             /\ u.category = IF FieldAt(r, step, "category") \in CategoryIds'
                             THEN FieldAt(r, step, "category") ELSE Null
             /\ TagsOf(tid[r])' = FieldAt(r, step, "tags") \cap TagIds'
  <2>1. PICK t \in torrents :
          /\ t.torrent_id = tid[r] /\ t.title = u.title /\ t.description = u.description
          /\ u.category = IF t.category \in CategoryIds' THEN t.category ELSE Null
          /\ TagsOf(tid[r])' = TagsOf(tid[r]) \cap TagIds'
    BY <1>4 DEF RowFollows
  <2> DEFINE c == FieldAt(r, step, "category")
             ts == FieldAt(r, step, "tags")
  <2>2. /\ t.title = FieldAt(r, step, "title")
        /\ t.description = FieldAt(r, step, "description")
        /\ t.category = IF c \in CategoryIds THEN c ELSE Null
        /\ TagsOf(tid[r]) = ts \cap TagIds
    BY <2>1 DEF IsSeen
  <2>3. /\ c = Null \/ (c \in Nat /\ c < nextIds.category)
        /\ \A n \in ts : n \in Nat /\ n < nextIds.tag
    BY DEF LabelsAreKnown
  <2> HIDE DEF c, ts
  <2>4. \A n \in ts : n \in TagIds' => n \in TagIds
    BY <1>2, <2>3 DEF LabelsFollow, LabelIdsBounded
  <2>5. Null \notin CategoryIds'
    BY <1>2, LabelAssumption DEF LabelIdsBounded
  <2>6. c \in CategoryIds' => c \in CategoryIds
    BY <1>2, <2>3, <2>5 DEF LabelsFollow, LabelIdsBounded
  <2>7. u.category = IF c \in CategoryIds' THEN c ELSE Null
    BY <2>1, <2>2, <2>5, <2>6
  <2>8. TagsOf(tid[r])' = ts \cap TagIds'
    BY <2>1, <2>2, <2>4
  <2> QED BY <2>1, <2>2, <2>7, <2>8 DEF c, ts
<1> QED BY <1>1, <1>3, <1>4 DEF IsSeen

\* An edit of another torrent, uploads, deletions, categories and tags leave what
\* a torrent shows, but for the labels that go.
LEMMA EditsOfOthersFollow ==
  ASSUME TypeInv, TypeInv', NEW q \in Requests, EditStep(q),
         NEW id, id \in Nat /\ id < nextIds.torrent, pc[q] \in EditSteps => tid[q] # id
  PROVE  LabelsFollow /\ RowFollows(id)
<1>1. LabelIdsBounded /\ LabelIdsBounded'
  BY LabelIds, PTL
<1>2. UNCHANGED <<categories, tags, nextIds>>
  BY DEF EditStep, AuthorizeEdit, EditTitle, EditDescription, EditCategory, CompareTags, UnlinkTags,
     LinkTags, Relist, Recategory, Do, SetTitle, SetDescription, SetCategory, UnlinkAll, LinkAll,
     labelTables
<1>3. CategoryIds' = CategoryIds /\ TagIds' = TagIds
  BY <1>2 DEF CategoryIds, TagIds
<1>4. LabelsFollow
  BY <1>1, <1>2, <1>3 DEF LabelsFollow, LabelIdsBounded
<1>5. /\ RowsFollow
      /\ \A t \in torrents :
           t \notin torrents' \/ TagsOf(t.torrent_id)' # TagsOf(t.torrent_id) =>
             t.torrent_id = tid[q] /\ pc[q] \in EditSteps
  BY EditTouchesItsRow
<1>6. \A s, t \in torrents' : s.torrent_id = t.torrent_id => s = t
  BY DEF TypeInv, TablesConsistent, AreConsistent
<1>7. ASSUME NEW u \in torrents', u.torrent_id = id
      PROVE  u \in torrents /\ TagsOf(id)' = TagsOf(id)
  <2>1. u.torrent_id # nextIds.torrent
    BY <1>1, <1>7 DEF LabelIdsBounded
  <2>2. PICK s \in torrents : s.torrent_id = u.torrent_id
    BY <1>5, <2>1 DEF RowsFollow
  <2>3. s \in torrents' /\ TagsOf(s.torrent_id)' = TagsOf(s.torrent_id)
    BY <1>5, <1>7, <2>2
  <2>4. s = u
    BY <1>6, <2>2, <2>3
  <2> QED BY <1>7, <2>3, <2>4
<1>8. TagsOf(id) \subseteq TagIds
  BY <1>1 DEF LabelIdsBounded, TagsOf
<1>9. \A t \in torrents : t.category = Null \/ t.category \in CategoryIds
  BY <1>1 DEF LabelIdsBounded
<1>10. RowFollows(id)
  <2> SUFFICES ASSUME NEW u \in torrents', u.torrent_id = id
               PROVE  /\ u \in torrents
                      /\ u.category = IF u.category \in CategoryIds' THEN u.category ELSE Null
                      /\ TagsOf(id)' = TagsOf(id) \cap TagIds'
    BY DEF RowFollows
  <2> QED BY <1>3, <1>7, <1>8, <1>9
<1> QED BY <1>4, <1>10

LEMMA OthersFollow ==
  ASSUME TypeInv, TypeInv', NEW q \in Requests, OtherStep(q),
         NEW id, id \in Nat /\ id < nextIds.torrent
  PROVE  LabelsFollow /\ RowFollows(id)
<1>1. LabelIdsBounded /\ LabelIdsBounded'
  BY LabelIds, PTL
<1>2. TagsOf(id) \subseteq TagIds
  BY <1>1 DEF LabelIdsBounded, TagsOf
<1>3. \A t \in torrents : t.category = Null \/ t.category \in CategoryIds
  BY <1>1 DEF LabelIdsBounded
<1>4. /\ categories \subseteq CategoryRow /\ tags \subseteq TagRow /\ torrents \subseteq TorrentRow
      /\ nextIds \in [{"category", "tag", "torrent"} -> Nat]
  BY ConsistentRows DEF TypeInv, AreRows
\* Labels stay, or new ones come, and the row and its tags are left alone.
<1>5. ASSUME CategoryIds \subseteq CategoryIds', TagIds \subseteq TagIds',
             TagsOf(id)' = TagsOf(id), \A u \in torrents' : u.torrent_id = id => u \in torrents
      PROVE  RowFollows(id)
  <2> SUFFICES ASSUME NEW u \in torrents', u.torrent_id = id
               PROVE  /\ u \in torrents
                      /\ u.category = IF u.category \in CategoryIds' THEN u.category ELSE Null
                      /\ TagsOf(id)' = TagsOf(id) \cap TagIds'
    BY DEF RowFollows
  <2> QED BY <1>2, <1>3, <1>5
<1>6. CASE UNCHANGED labelTables
  <2>1. /\ CategoryIds' = CategoryIds /\ TagIds' = TagIds /\ TagsOf(id)' = TagsOf(id)
        /\ torrents' = torrents /\ nextIds' = nextIds
    BY <1>6 DEF labelTables, CategoryIds, TagIds, TagsOf
  <2> QED BY <1>1, <1>5, <2>1 DEF LabelsFollow, LabelIdsBounded
<1>7. CASE InsertUpload(q) /\ ~UNCHANGED labelTables
  <2> DEFINE a == asked[q]
             new == [torrent_id |-> nextIds.torrent, info_hash |-> a.info_hash, uploader |-> a.user,
                     title |-> a.title, description |-> a.description, category |-> cid[q]]
  <2>1. /\ torrents' = torrents \cup {new}
        /\ links' = links \cup LinksTo(nextIds.torrent, a.tags)
        /\ nextIds' = [nextIds EXCEPT !.torrent = @ + 1]
        /\ UNCHANGED <<categories, tags>>
    BY <1>7 DEF InsertUpload, InsertTorrentRow, labelTables
  <2>2. /\ CategoryIds' = CategoryIds /\ TagIds' = TagIds
        /\ nextIds'.category = nextIds.category /\ nextIds'.tag = nextIds.tag
    BY <1>4, <2>1 DEF CategoryIds, TagIds
  <2>3. new.torrent_id # id
    BY <1>4
  <2>4. {l \in links' : l[1] = id} = {l \in links : l[1] = id}
    <3>1. \A l \in LinksTo(nextIds.torrent, a.tags) : l[1] # id
      BY <1>4 DEF LinksTo
    <3> QED BY <2>1, <3>1
  <2>5. TagsOf(id)' = TagsOf(id)
    BY <2>4 DEF TagsOf
  <2>6. \A u \in torrents' : u.torrent_id = id => u \in torrents
    BY <2>1, <2>3
  <2> QED BY <1>1, <1>5, <2>2, <2>5, <2>6 DEF LabelsFollow, LabelIdsBounded
<1>8. CASE DeleteTorrent(q)
  <2>1. /\ torrents' = torrents \ TorrentsWithId(tid[q])
        /\ links' = {l \in links : l[1] # tid[q]}
        /\ UNCHANGED <<categories, tags, nextIds>>
    BY <1>8 DEF DeleteTorrent, DeleteTorrentRow
  <2>2. CategoryIds' = CategoryIds /\ TagIds' = TagIds
    BY <2>1 DEF CategoryIds, TagIds
  <2>3. CASE tid[q] = id
    BY <1>1, <2>1, <2>2, <2>3 DEF RowFollows, TorrentsWithId, LabelsFollow, LabelIdsBounded
  <2>4. CASE tid[q] # id
    <3>1. {l \in links' : l[1] = id} = {l \in links : l[1] = id}
      BY <2>1, <2>4
    <3>2. TagsOf(id)' = TagsOf(id)
      BY <3>1 DEF TagsOf
    <3> QED BY <1>1, <1>5, <2>1, <2>2, <3>2 DEF LabelsFollow, LabelIdsBounded
  <2> QED BY <2>3, <2>4
<1>9. CASE AddCategory(q) /\ ~UNCHANGED labelTables
  <2> DEFINE new == [category_id |-> nextIds.category, name |-> NameToAdd(q)]
  <2>1. /\ categories' = categories \cup {new} /\ UNCHANGED <<tags, torrents, links>>
        /\ nextIds' = [nextIds EXCEPT !.category = @ + 1]
    BY <1>9 DEF AddCategory, InsertCategoryRow, labelTables
  <2>2. /\ CategoryIds \subseteq CategoryIds' /\ TagIds' = TagIds /\ TagsOf(id)' = TagsOf(id)
        /\ \A n \in CategoryIds' : n \in CategoryIds \/ n = nextIds.category
    <3>1. new.category_id = nextIds.category
      OBVIOUS
    <3> HIDE DEF new
    <3> QED BY <2>1, <3>1 DEF CategoryIds, TagIds, TagsOf
  <2>3. nextIds'.category = nextIds.category + 1 /\ nextIds'.tag = nextIds.tag
    BY <1>4, <2>1
  <2> QED BY <1>1, <1>5, <2>1, <2>2, <2>3 DEF LabelsFollow, LabelIdsBounded
<1>10. CASE AddTag(q) /\ ~UNCHANGED labelTables
  <2> DEFINE new == [tag_id |-> nextIds.tag, name |-> NameToAdd(q)]
  <2>1. /\ tags' = tags \cup {new} /\ UNCHANGED <<categories, torrents, links>>
        /\ nextIds' = [nextIds EXCEPT !.tag = @ + 1]
    BY <1>10 DEF AddTag, InsertTagRow, labelTables
  <2>2. /\ TagIds \subseteq TagIds' /\ CategoryIds' = CategoryIds /\ TagsOf(id)' = TagsOf(id)
        /\ \A n \in TagIds' : n \in TagIds \/ n = nextIds.tag
    <3>1. new.tag_id = nextIds.tag
      OBVIOUS
    <3> HIDE DEF new
    <3> QED BY <2>1, <3>1 DEF CategoryIds, TagIds, TagsOf
  <2>3. nextIds'.category = nextIds.category /\ nextIds'.tag = nextIds.tag + 1
    BY <1>4, <2>1
  <2> QED BY <1>1, <1>5, <2>1, <2>2, <2>3 DEF LabelsFollow, LabelIdsBounded
<1>11. CASE DeleteCategory(q)
  <2> DEFINE gone == {c.category_id : c \in {c \in categories : c.name = asked[q].name}}
             f(t) == [t EXCEPT !.category = IF @ \in gone THEN Null ELSE @]
  <2>1. /\ categories' = {c \in categories : c.name # asked[q].name}
        /\ torrents' = {f(t) : t \in torrents} /\ UNCHANGED <<tags, links, nextIds>>
    BY <1>11 DEF DeleteCategory, DeleteCategoryRow
  <2>2. \A t \in torrents : /\ f(t).torrent_id = t.torrent_id /\ f(t).title = t.title
                            /\ f(t).description = t.description
                            /\ f(t).category = IF t.category \in gone THEN Null ELSE t.category
    BY <1>4 DEF TorrentRow
  <2> HIDE DEF f
  <2>3. TagIds' = TagIds /\ TagsOf(id)' = TagsOf(id) /\ CategoryIds' \subseteq CategoryIds
    BY <2>1 DEF TagIds, TagsOf, CategoryIds
  <2>4. \A n \in CategoryIds : n \in CategoryIds' <=> n \notin gone
    <3>1. \A c, d \in categories : c.category_id = d.category_id => c = d
      BY DEF TypeInv, TablesConsistent, AreConsistent
    <3> QED BY <2>1, <3>1 DEF CategoryIds
  <2>5. Null \notin CategoryIds' /\ Null \notin CategoryIds
    BY <1>1, LabelAssumption DEF LabelIdsBounded
  <2>6. gone \subseteq CategoryIds
    BY DEF CategoryIds
  <2> HIDE DEF gone
  <2>7. ASSUME NEW t \in torrents
        PROVE  f(t).category = IF t.category \in CategoryIds' THEN t.category ELSE Null
    BY <1>3, <2>2, <2>3, <2>4, <2>5, <2>6
  <2>8. RowFollows(id)
    BY <1>2, <2>1, <2>2, <2>3, <2>7 DEF RowFollows
  <2> QED BY <1>1, <2>1, <2>3, <2>8 DEF LabelsFollow, LabelIdsBounded
<1>12. CASE DeleteTag(q)
  <2>1. /\ tags' = {t \in tags : t.tag_id # asked[q].tag_id}
        /\ links' = {l \in links : l[2] # asked[q].tag_id}
        /\ UNCHANGED <<categories, torrents, nextIds>>
    BY <1>12 DEF DeleteTag, DeleteTagRow
  <2>2. CategoryIds' = CategoryIds /\ TagIds' = TagIds \ {asked[q].tag_id}
    BY <2>1 DEF CategoryIds, TagIds
  <2>3. TagsOf(id)' = TagsOf(id) \ {asked[q].tag_id}
    BY <2>1 DEF TagsOf
  <2>4. TagsOf(id)' = TagsOf(id) \cap TagIds'
    BY <1>2, <2>2, <2>3
  <2>5. RowFollows(id)
    BY <1>3, <2>1, <2>2, <2>4 DEF RowFollows
  <2> QED BY <1>1, <2>1, <2>2, <2>5 DEF LabelsFollow, LabelIdsBounded
<1>13. \/ UNCHANGED labelTables
       \/ InsertUpload(q) \/ DeleteTorrent(q) \/ AddCategory(q) \/ AddTag(q)
       \/ DeleteCategory(q) \/ DeleteTag(q)
  BY DEF OtherStep, Submit, RefuseUser, ValidateUpload, LookUpTorrent, LookUpCategory,
     FailInDatabase, Abandon
<1> QED BY <1>6, <1>7, <1>8, <1>9, <1>10, <1>11, <1>12, <1>13

\* The columns that are done with after a statement of an edit.
WrittenAfter(step) == IF step = "authorize" THEN {} ELSE WrittenAt(step) \cup {step}

\* Columns that the handler passes over are those the edit leaves out.
LEMMA NextStepSkips ==
  ASSUME NEW r \in Requests, NEW step \in {"authorize", "title", "description", "category"}
  PROVE  \E next \in {"title", "description", "category", "tags", "relist"} :
           /\ next = NextStep(r, step)
           /\ next # "relist" => asked[r][next] # Keep
           /\ \A c \in Columns : asked[r][c] = Keep \/ (c \in WrittenAt(next) <=> c \in WrittenAfter(step))
<1>1. PICK now \in 1 .. 4 : Order[now] = step
  BY OrderOfSteps
<1>2. PICK i \in (now + 1) .. 6 : /\ NextStep(r, step) = Order[i]
                                  /\ \A j \in (now + 1) .. (i - 1) : asked[r][Order[j]] = Keep
  BY <1>1, NextStepIsFirst
<1>3. /\ NextStep(r, step) \in {"title", "description", "category", "tags", "relist"}
      /\ NextStep(r, step) # "relist" => asked[r][NextStep(r, step)] # Keep
  <2>1. i \in {2, 3, 4, 5, 6}
    OBVIOUS
  <2>2. NextStep(r, step) \in {"title", "description", "category", "tags", "relist"}
    BY <1>2, <2>1, OrderOfSteps
  <2> QED BY <2>2, NextStepIsSet
<1>4. ASSUME NEW c \in Columns, asked[r][c] # Keep
      PROVE  c \in WrittenAt(Order[i]) <=> c \in WrittenAfter(step)
  <2>1. PICK k \in 2 .. 5 : Order[k] = c
    BY OrderOfSteps DEF Columns
  <2>2. k \notin (now + 1) .. (i - 1)
    BY <1>2, <1>4, <2>1
  <2>3. k <= now \/ i <= k
    BY <2>2
  <2>4. c \in WrittenAt(Order[i]) <=> k < i
    <3>1. i \in {2, 3, 4, 5, 6} /\ k \in {2, 3, 4, 5}
      OBVIOUS
    <3>2. /\ (k = 2 <=> c = "title") /\ (k = 3 <=> c = "description")
          /\ (k = 4 <=> c = "category") /\ (k = 5 <=> c = "tags")
      BY <2>1, <3>1, OrderOfSteps
    <3>3. /\ (i = 2 <=> Order[i] = "title") /\ (i = 3 <=> Order[i] = "description")
          /\ (i = 4 <=> Order[i] = "category") /\ (i = 5 <=> Order[i] = "tags")
          /\ (i = 6 <=> Order[i] = "relist")
      BY <3>1, OrderOfSteps
    <3> QED BY <3>1, <3>2, <3>3 DEF WrittenAt
  <2>5. c \in WrittenAfter(step) <=> k <= now
    <3>1. now \in {1, 2, 3, 4} /\ k \in {2, 3, 4, 5}
      OBVIOUS
    <3>2. /\ (k = 2 <=> c = "title") /\ (k = 3 <=> c = "description")
          /\ (k = 4 <=> c = "category") /\ (k = 5 <=> c = "tags")
      BY <2>1, <3>1, OrderOfSteps
    <3>3. /\ (now = 1 <=> step = "authorize") /\ (now = 2 <=> step = "title")
          /\ (now = 3 <=> step = "description") /\ (now = 4 <=> step = "category")
      BY <1>1, <3>1, OrderOfSteps
    <3> QED BY <3>1, <3>2, <3>3 DEF WrittenAt, WrittenAfter
  <2> QED BY <2>3, <2>4, <2>5
<1> QED BY <1>2, <1>3, <1>4

\* What the columns were set to after each statement.
LEMMA FieldsGoOn ==
  ASSUME NEW r \in Requests
  PROVE  /\ \A step \in {"title", "description", "category"} : asked[r][step] # Keep =>
              \E next \in EditSteps :
                /\ next = NextStep(r, step)
                /\ next \in Columns => asked[r][next] # Keep
                /\ next \notin {"unlink", "link"}
                /\ \A c \in Columns :
                     FieldAt(r, next, c) = IF c = step THEN asked[r][c] ELSE FieldAt(r, step, c)
         /\ \A c \in Columns : /\ FieldAt(r, "unlink", c) = FieldAt(r, "tags", c)
                               /\ FieldAt(r, "recategory", c) = FieldAt(r, "relist", c)
         /\ asked[r].tags # Keep =>
              \A c \in Columns :
                /\ FieldAt(r, "relist", c) = IF c = "tags" THEN Range(asked[r].tags)
                                             ELSE FieldAt(r, "tags", c)
                /\ FieldAt(r, "link", c) = IF c = "tags" THEN {} ELSE FieldAt(r, "tags", c)
<1>1. ASSUME NEW step \in {"title", "description", "category"}, asked[r][step] # Keep
      PROVE  \E next \in EditSteps :
               /\ next = NextStep(r, step)
               /\ next \in Columns => asked[r][next] # Keep
               /\ next \notin {"unlink", "link"}
               /\ \A c \in Columns :
                    FieldAt(r, next, c) = IF c = step THEN asked[r][c] ELSE FieldAt(r, step, c)
  <2>1. PICK next \in {"title", "description", "category", "tags", "relist"} :
           /\ next = NextStep(r, step)
           /\ next # "relist" => asked[r][next] # Keep
           /\ \A c \in Columns : asked[r][c] = Keep \/ (c \in WrittenAt(next) <=> c \in WrittenAfter(step))
    BY NextStepSkips
  <2>2. \A c \in Columns : c \in WrittenAfter(step) <=> (c \in WrittenAt(step) \/ c = step)
    BY DEF WrittenAfter
  <2>3. "tags" \notin WrittenAt(step)
    BY DEF WrittenAt
  <2>4. ASSUME NEW c \in Columns
        PROVE  FieldAt(r, next, c) = IF c = step THEN asked[r][c] ELSE FieldAt(r, step, c)
    <3>1. CASE asked[r][c] = Keep
      BY <1>1, <3>1 DEF FieldAt
    <3>2. CASE asked[r][c] # Keep /\ c # "tags"
      BY <2>1, <2>2, <3>2 DEF FieldAt
    <3>3. CASE c = "tags"
      BY <2>1, <2>2, <2>3, <3>3 DEF FieldAt
    <3> QED BY <3>1, <3>2, <3>3
  <2> QED BY <2>1, <2>4 DEF EditSteps, Columns
<1>2. \A c \in Columns : /\ FieldAt(r, "unlink", c) = FieldAt(r, "tags", c)
                         /\ FieldAt(r, "recategory", c) = FieldAt(r, "relist", c)
  BY DEF FieldAt, WrittenAt
<1>3. ASSUME asked[r].tags # Keep, NEW c \in Columns
      PROVE  /\ FieldAt(r, "relist", c) = IF c = "tags" THEN Range(asked[r].tags)
                                          ELSE FieldAt(r, "tags", c)
             /\ FieldAt(r, "link", c) = IF c = "tags" THEN {} ELSE FieldAt(r, "tags", c)
  <2>1. /\ \A d \in Columns : d \in WrittenAt("relist") /\ d \in WrittenAt("link")
        /\ \A d \in Columns : d \in WrittenAt("tags") <=> d # "tags"
    BY DEF WrittenAt, Columns
  <2> QED BY <1>3, <2>1 DEF FieldAt
<1> QED BY <1>1, <1>2, <1>3

\* A step that sees the torrent as the step before, perhaps with a column changed.
LEMMA SeenAnew ==
  ASSUME LabelIdsBounded, NEW r \in Requests, NEW step, NEW next,
         LabelsAreKnown(r, step), IsSeen(r, step),
         \A c \in Columns : FieldAt(r, next, c) = FieldAt(r, step, c)
  PROVE  LabelsAreKnown(r, next) /\ IsSeen(r, next)
BY DEF LabelsAreKnown, IsSeen, Columns

\* The statements of an edit that nobody overlaps do to its torrent what they are for.
LEMMA AloneGoesOn ==
  ASSUME LoneInv, NEW r \in Requests, IsAlone(r), EditStep(r), ~AuthorizeEdit(r)
  PROVE  /\ pc[r] \in EditSteps /\ UNCHANGED <<asked, tid, before, lone>>
         /\ \E step \in EditSteps :
              /\ LabelsAreKnown(r, step)' /\ IsSeen(r, step)'
              /\ step = "category" => asked[r].category # Keep
              /\ step \in {"tags", "unlink", "link"} => asked[r].tags # Keep
              /\ \/ GoTo(r, step)
                 \/ \E answer : Answer(r, answer) /\ (answer = "ok" => step = "relist")
<1>0. /\ pc[r] \in EditSteps /\ UNCHANGED <<asked, tid, before, lone>>
  BY DEF EditStep, EditTitle, EditDescription, EditCategory, CompareTags, UnlinkTags, LinkTags,
     Relist, Recategory, EditSteps, Columns
<1>1. LabelsAreKnown(r, pc[r]) /\ IsSeen(r, pc[r])
  <2>1. pc[r] # "done"
    BY <1>0 DEF EditSteps, Columns
  <2> QED BY <2>1 DEF IsAlone
<1>2. /\ LabelIdsBounded /\ torrents \subseteq TorrentRow /\ \A c \in CategoryIds : c \in Nat
      /\ asked[r] \in EditAsk
  BY <1>0, LabelIds, ConsistentRows, AskOfOp DEF LoneInv, TypeInv, StepsMatchAsks, AreRows,
     LabelIdsBounded, EditSteps, Columns
<1>3. /\ pc[r] = "title" => asked[r].title # Keep
      /\ pc[r] = "description" => asked[r].description # Keep
      /\ pc[r] = "category" => asked[r].category # Keep
      /\ pc[r] \in {"tags", "unlink", "link"} => asked[r].tags # Keep
  BY DEF LoneInv, LabelsAreSet, TypeInv, StepsMatchAsks
<1>4. \A step, c : FieldAt(r, step, c)' = FieldAt(r, step, c)
  BY <1>0 DEF FieldAt
\* The tables are left alone: the handler reads them, or a statement is refused.
<1>5. ASSUME UNCHANGED labelTables, NEW step, LabelsAreKnown(r, step), IsSeen(r, step)
      PROVE  LabelsAreKnown(r, step)' /\ IsSeen(r, step)'
  BY <1>0, <1>4, <1>5 DEF LabelsAreKnown, IsSeen, labelTables, CategoryIds, TagIds, TagsOf
\* A statement is refused.
<1>6. ASSUME UNCHANGED labelTables, NEW answer, answer # "ok", Answer(r, answer)
      PROVE  \E step \in EditSteps :
              /\ LabelsAreKnown(r, step)' /\ IsSeen(r, step)'
              /\ step = "category" => asked[r].category # Keep
              /\ step \in {"tags", "unlink", "link"} => asked[r].tags # Keep
              /\ \E a : Answer(r, a) /\ (a = "ok" => step = "relist")
  <2>1. PICK step \in EditSteps : step = pc[r]
    BY <1>0
  <2> QED BY <1>1, <1>3, <1>5, <1>6, <2>1
<1>7. CASE EditTitle(r)
  <2>1. pc[r] = "title" /\ asked[r].title # Keep
    BY <1>3, <1>7 DEF EditTitle
  <2>2. PICK next \in EditSteps :
          /\ next = NextStep(r, "title")
          /\ next \in Columns => asked[r][next] # Keep
          /\ next \notin {"unlink", "link"}
          /\ \A c \in Columns :
               FieldAt(r, next, c) = IF c = "title" THEN asked[r][c] ELSE FieldAt(r, "title", c)
    BY <2>1, FieldsGoOn
  <2>3. CASE SetTitle(EditedId(r), asked[r].title) /\ GoTo(r, next)
    <3> DEFINE f(t) == IF t.torrent_id = tid[r] THEN [t EXCEPT !.title = asked[r].title] ELSE t
    <3>1. torrents' = {f(t) : t \in torrents} /\ UNCHANGED <<categories, tags, links, nextIds>>
      BY <2>3 DEF SetTitle, EditedId
    <3>2. \A t \in torrents : /\ f(t).torrent_id = t.torrent_id
                              /\ t.torrent_id = tid[r] =>
                                   /\ f(t).title = asked[r].title
                                   /\ f(t).description = t.description
                                   /\ f(t).category = t.category
      BY <1>2 DEF TorrentRow
    <3> HIDE DEF f
    <3>3. /\ CategoryIds' = CategoryIds /\ TagIds' = TagIds /\ TagsOf(tid[r])' = TagsOf(tid[r])
      BY <1>0, <3>1 DEF CategoryIds, TagIds, TagsOf
    <3>4. /\ FieldAt(r, next, "title") = asked[r].title
          /\ FieldAt(r, next, "description") = FieldAt(r, "title", "description")
          /\ FieldAt(r, next, "category") = FieldAt(r, "title", "category")
          /\ FieldAt(r, next, "tags") = FieldAt(r, "title", "tags")
      BY <2>2 DEF Columns
    <3>5. LabelsAreKnown(r, "title") /\ IsSeen(r, "title")
      BY <1>1, <2>1
    <3>6. LabelsAreKnown(r, next)'
      BY <1>2, <1>4, <3>1, <3>4, <3>5 DEF LabelsAreKnown
    <3>7. IsSeen(r, next)'
      BY <1>0, <1>4, <3>1, <3>2, <3>3, <3>4, <3>5 DEF IsSeen
    <3> QED BY <1>0, <2>2, <2>3, <3>6, <3>7 DEF Columns
  <2>4. \/ SetTitle(EditedId(r), asked[r].title) /\ GoTo(r, next)
        \/ \E answer : answer # "ok" /\ UNCHANGED labelTables /\ Answer(r, answer)
    BY <1>7, <2>2 DEF EditTitle, Do, EditedId
  <2> QED BY <1>0, <1>6, <2>3, <2>4
<1>8. CASE EditDescription(r)
  <2>1. pc[r] = "description" /\ asked[r].description # Keep
    BY <1>3, <1>8 DEF EditDescription
  <2>2. PICK next \in EditSteps :
          /\ next = NextStep(r, "description")
          /\ next \in Columns => asked[r][next] # Keep
          /\ next \notin {"unlink", "link"}
          /\ \A c \in Columns :
               FieldAt(r, next, c) = IF c = "description" THEN asked[r][c] ELSE FieldAt(r, "description", c)
    BY <2>1, FieldsGoOn
  <2>3. CASE SetDescription(EditedId(r), asked[r].description) /\ GoTo(r, next)
    <3> DEFINE f(t) == IF t.torrent_id = tid[r] THEN [t EXCEPT !.description = asked[r].description] ELSE t
    <3>1. torrents' = {f(t) : t \in torrents} /\ UNCHANGED <<categories, tags, links, nextIds>>
      BY <2>3 DEF SetDescription, EditedId
    <3>2. \A t \in torrents : /\ f(t).torrent_id = t.torrent_id
                              /\ t.torrent_id = tid[r] =>
                                   /\ f(t).title = t.title
                                   /\ f(t).description = asked[r].description
                                   /\ f(t).category = t.category
      BY <1>2 DEF TorrentRow
    <3> HIDE DEF f
    <3>3. /\ CategoryIds' = CategoryIds /\ TagIds' = TagIds /\ TagsOf(tid[r])' = TagsOf(tid[r])
      BY <1>0, <3>1 DEF CategoryIds, TagIds, TagsOf
    <3>4. /\ FieldAt(r, next, "title") = FieldAt(r, "description", "title")
          /\ FieldAt(r, next, "description") = asked[r].description
          /\ FieldAt(r, next, "category") = FieldAt(r, "description", "category")
          /\ FieldAt(r, next, "tags") = FieldAt(r, "description", "tags")
      BY <2>2 DEF Columns
    <3>5. LabelsAreKnown(r, "description") /\ IsSeen(r, "description")
      BY <1>1, <2>1
    <3>6. LabelsAreKnown(r, next)'
      BY <1>2, <1>4, <3>1, <3>4, <3>5 DEF LabelsAreKnown
    <3>7. IsSeen(r, next)'
      BY <1>0, <1>4, <3>1, <3>2, <3>3, <3>4, <3>5 DEF IsSeen
    <3> QED BY <1>0, <2>2, <2>3, <3>6, <3>7 DEF Columns
  <2>4. \/ SetDescription(EditedId(r), asked[r].description) /\ GoTo(r, next)
        \/ \E answer : answer # "ok" /\ UNCHANGED labelTables /\ Answer(r, answer)
    BY <1>8, <2>2 DEF EditDescription, Do, EditedId
  <2> QED BY <1>0, <1>6, <2>3, <2>4
<1>9. CASE EditCategory(r)
  <2>1. pc[r] = "category" /\ asked[r].category # Keep
    BY <1>3, <1>9 DEF EditCategory
  <2>2. PICK next \in EditSteps :
          /\ next = NextStep(r, "category")
          /\ next \in Columns => asked[r][next] # Keep
          /\ next \notin {"unlink", "link"}
          /\ \A c \in Columns :
               FieldAt(r, next, c) = IF c = "category" THEN asked[r][c] ELSE FieldAt(r, "category", c)
    BY <2>1, FieldsGoOn
  <2>3. CASE SetCategory(EditedId(r), asked[r].category) /\ GoTo(r, next) /\ asked[r].category \in CategoryIds
    <3> DEFINE f(t) == IF t.torrent_id = tid[r] THEN [t EXCEPT !.category = asked[r].category] ELSE t
    <3>1. torrents' = {f(t) : t \in torrents} /\ UNCHANGED <<categories, tags, links, nextIds>>
      BY <2>3 DEF SetCategory, EditedId
    <3>2. \A t \in torrents : /\ f(t).torrent_id = t.torrent_id
                              /\ t.torrent_id = tid[r] =>
                                   /\ f(t).title = t.title
                                   /\ f(t).description = t.description
                                   /\ f(t).category = asked[r].category
      BY <1>2 DEF TorrentRow
    <3> HIDE DEF f
    <3>3. /\ CategoryIds' = CategoryIds /\ TagIds' = TagIds /\ TagsOf(tid[r])' = TagsOf(tid[r])
      BY <1>0, <3>1 DEF CategoryIds, TagIds, TagsOf
    <3>4. /\ FieldAt(r, next, "title") = FieldAt(r, "category", "title")
          /\ FieldAt(r, next, "description") = FieldAt(r, "category", "description")
          /\ FieldAt(r, next, "category") = asked[r].category
          /\ FieldAt(r, next, "tags") = FieldAt(r, "category", "tags")
      BY <2>2 DEF Columns
    <3>5. LabelsAreKnown(r, "category") /\ IsSeen(r, "category")
      BY <1>1, <2>1
    <3>6. LabelsAreKnown(r, next)'
      BY <1>2, <1>4, <2>3, <3>1, <3>4, <3>5 DEF LabelsAreKnown, LabelIdsBounded
    <3>7. IsSeen(r, next)'
      BY <1>0, <1>4, <2>3, <3>1, <3>2, <3>3, <3>4, <3>5 DEF IsSeen
    <3> QED BY <1>0, <2>2, <2>3, <3>6, <3>7 DEF Columns
  <2>4. \/ SetCategory(EditedId(r), asked[r].category) /\ GoTo(r, next) /\ asked[r].category \in CategoryIds
        \/ \E answer : answer # "ok" /\ UNCHANGED labelTables /\ Answer(r, answer)
    BY <1>9, <2>2 DEF EditCategory, Do, EditedId, CanSetCategory
  <2> QED BY <1>0, <1>6, <2>3, <2>4
<1>10. CASE CompareTags(r)
  <2>1. pc[r] = "tags" /\ UNCHANGED labelTables /\ asked[r].tags # Keep
    BY <1>3, <1>10 DEF CompareTags
  <2>2. CASE SameTags(EditedId(r), asked[r].tags) /\ GoTo(r, "relist")
    <3>1. Range(asked[r].tags) = TagsOf(tid[r])
      BY <2>2 DEF SameTags, EditedId
    <3>2. /\ FieldAt(r, "relist", "title") = FieldAt(r, "tags", "title")
          /\ FieldAt(r, "relist", "description") = FieldAt(r, "tags", "description")
          /\ FieldAt(r, "relist", "category") = FieldAt(r, "tags", "category")
          /\ FieldAt(r, "relist", "tags") = Range(asked[r].tags)
      BY <2>1, FieldsGoOn DEF Columns
    <3>3. TagsOf(tid[r]) \subseteq TagIds
      BY <1>2 DEF LabelIdsBounded, TagsOf
    <3>4. LabelsAreKnown(r, "relist")
      BY <1>1, <1>2, <2>1, <3>1, <3>2, <3>3 DEF LabelsAreKnown, LabelIdsBounded
    <3>5. IsSeen(r, "relist")
      BY <1>1, <2>1, <3>1, <3>2, <3>3 DEF IsSeen
    <3> QED BY <1>0, <1>5, <2>1, <2>2, <3>4, <3>5 DEF EditSteps
  <2>3. CASE GoTo(r, "unlink")
    <3>1. LabelsAreKnown(r, "unlink") /\ IsSeen(r, "unlink")
      BY <1>1, <1>2, <2>1, FieldsGoOn, SeenAnew
    <3> QED BY <1>0, <1>5, <2>1, <2>3, <3>1 DEF EditSteps
  <2> QED BY <1>10, <2>2, <2>3 DEF CompareTags
<1>11. CASE UnlinkTags(r)
  <2>1. /\ pc[r] = "unlink" /\ GoTo(r, "link") /\ asked[r].tags # Keep
        /\ links' = {l \in links : l[1] # tid[r]}
        /\ UNCHANGED <<categories, tags, torrents, nextIds>>
    BY <1>3, <1>11 DEF UnlinkTags, UnlinkAll, EditedId
  <2>2. /\ CategoryIds' = CategoryIds /\ TagIds' = TagIds /\ TagsOf(tid[r])' = {}
    BY <1>0, <2>1 DEF CategoryIds, TagIds, TagsOf
  <2>3. /\ FieldAt(r, "link", "title") = FieldAt(r, "unlink", "title")
        /\ FieldAt(r, "link", "description") = FieldAt(r, "unlink", "description")
        /\ FieldAt(r, "link", "category") = FieldAt(r, "unlink", "category")
        /\ FieldAt(r, "link", "tags") = {}
    BY <2>1, FieldsGoOn DEF Columns
  <2>4. LabelsAreKnown(r, "link")'
    BY <1>1, <1>4, <2>1, <2>3 DEF LabelsAreKnown
  <2>5. IsSeen(r, "link")'
    BY <1>0, <1>1, <1>4, <2>1, <2>2, <2>3 DEF IsSeen
  <2> QED BY <1>0, <2>1, <2>4, <2>5 DEF EditSteps
<1>12. CASE LinkTags(r)
  <2>1. pc[r] = "link" /\ asked[r].tags # Keep
    BY <1>3, <1>12 DEF LinkTags
  <2>2. CASE /\ CanLinkAll(tid[r], asked[r].tags) /\ LinkAll(tid[r], asked[r].tags)
             /\ GoTo(r, "relist")
    <3>1. /\ links' = links \cup ({tid[r]} \X Range(asked[r].tags))
          /\ UNCHANGED <<categories, tags, torrents, nextIds>>
          /\ Range(asked[r].tags) \subseteq TagIds
      BY <2>2 DEF LinkAll, LinksTo, CanLinkAll, CanLink
    <3>2. CategoryIds' = CategoryIds /\ TagIds' = TagIds
      BY <3>1 DEF CategoryIds, TagIds
    <3>3. TagsOf(tid[r])' = TagsOf(tid[r]) \cup Range(asked[r].tags)
      <4>1. TagsOf(tid[r])' = {l[2] : l \in {l \in links' : l[1] = tid[r]}}
        BY <1>0 DEF TagsOf
      <4>2. \A n \in Range(asked[r].tags) : /\ <<tid[r], n>> \in links'
                                           /\ <<tid[r], n>>[1] = tid[r] /\ <<tid[r], n>>[2] = n
        BY <3>1
      <4>3. \A l \in {tid[r]} \X Range(asked[r].tags) : l[1] = tid[r] /\ l[2] \in Range(asked[r].tags)
        OBVIOUS
      <4>4. Range(asked[r].tags) \subseteq TagsOf(tid[r])'
        BY <4>1, <4>2
      <4> QED BY <3>1, <4>1, <4>3, <4>4 DEF TagsOf
    <3>4. /\ FieldAt(r, "relist", "title") = FieldAt(r, "link", "title")
          /\ FieldAt(r, "relist", "description") = FieldAt(r, "link", "description")
          /\ FieldAt(r, "relist", "category") = FieldAt(r, "link", "category")
          /\ FieldAt(r, "relist", "tags") = Range(asked[r].tags)
          /\ FieldAt(r, "link", "tags") = {}
      BY <2>1, FieldsGoOn DEF Columns
    <3>5. LabelsAreKnown(r, "relist")'
      BY <1>1, <1>2, <1>4, <2>1, <3>1, <3>4 DEF LabelsAreKnown, LabelIdsBounded
    <3>6. IsSeen(r, "relist")'
      BY <1>0, <1>1, <1>4, <2>1, <3>1, <3>2, <3>3, <3>4 DEF IsSeen
    <3> QED BY <1>0, <2>1, <2>2, <3>5, <3>6 DEF EditSteps
  <2>3. CASE UNCHANGED labelTables /\ Answer(r, "error")
    BY <1>0, <1>6, <2>3
  <2> QED BY <1>12, <2>2, <2>3 DEF LinkTags, Do, EditedId
<1>13. CASE Relist(r) \/ Recategory(r)
  <2>1. /\ pc[r] \in {"relist", "recategory"} /\ UNCHANGED labelTables
        /\ GoTo(r, "recategory") \/ \E answer : Answer(r, answer)
    BY <1>13 DEF Relist, Recategory
  <2>2. /\ LabelsAreKnown(r, "relist") /\ IsSeen(r, "relist")
        /\ LabelsAreKnown(r, "recategory") /\ IsSeen(r, "recategory")
    BY <1>1, <1>2, <2>1, FieldsGoOn, SeenAnew
  <2> QED BY <1>0, <1>5, <2>1, <2>2 DEF EditSteps
<1> QED BY <1>0, <1>7, <1>8, <1>9, <1>10, <1>11, <1>12, <1>13 DEF EditStep

LEMMA OthersStay ==
  ASSUME TypeInv, NEW r \in Requests, EditStep(r) \/ OtherStep(r)
  PROVE  /\ \A q \in Requests \ {r} :
              /\ pc'[q] = pc[q] /\ tid'[q] = tid[q] /\ asked'[q] = asked[q]
              /\ before'[q] = before[q] /\ response'[q] = response[q]
         /\ AuthorizeEdit(r) \/ UNCHANGED lone
         /\ OtherStep(r) /\ pc[r] \in EditSteps =>
              /\ UNCHANGED <<labelTables, asked, tid, before>>
              /\ \E answer : answer # "ok" /\ Answer(r, answer)
         /\ pc[r] # "done"
<1> USE DEF EditSteps, Columns
<1>0. /\ pc \in [Requests -> Steps] /\ tid \in [Requests -> Nat]
      /\ asked \in [Requests -> Asks \cup {NoAsk}]
      /\ before \in [Requests -> Sight \cup {Nothing}]
      /\ response \in [Requests -> {"none"} \cup Answers]
  BY DEF TypeInv, TypeOK
<1>1. CASE AuthorizeEdit(r)
  <2>1. pc[r] = "authorize" /\ UNCHANGED asked
    BY <1>1 DEF AuthorizeEdit
  <2>2. \A q \in Requests \ {r} : /\ pc'[q] = pc[q] /\ tid'[q] = tid[q]
                                 /\ before'[q] = before[q] /\ response'[q] = response[q]
    BY <1>0, <1>1 DEF AuthorizeEdit, GoTo, Answer
  <2>3. OtherStep(r) => pc[r] \notin {"title", "description", "category", "tags", "unlink", "link",
                                     "relist", "recategory"}
    BY <2>1
  <2> QED BY <1>1, <2>1, <2>2, <2>3
<1>2. CASE EditStep(r) /\ ~AuthorizeEdit(r)
  <2>1. UNCHANGED <<asked, tid, before, lone>>
    BY <1>2 DEF EditStep, EditTitle, EditDescription, EditCategory, CompareTags, UnlinkTags, LinkTags,
       Relist, Recategory
  <2>2. pc[r] \in EditSteps
    BY <1>2 DEF EditStep, EditTitle, EditDescription, EditCategory, CompareTags, UnlinkTags, LinkTags,
       Relist, Recategory
  <2>3. \A q \in Requests \ {r} : pc'[q] = pc[q] /\ response'[q] = response[q]
    BY <1>0, <1>2 DEF EditStep, EditTitle, EditDescription, EditCategory, CompareTags, UnlinkTags,
       LinkTags, Relist, Recategory, Do, GoTo, Answer
  <2>4. OtherStep(r) => FailInDatabase(r) \/ Abandon(r)
    BY <2>2 DEF OtherStep, Submit, RefuseUser, ValidateUpload, InsertUpload, LookUpTorrent,
       DeleteTorrent, LookUpCategory, AddCategory, DeleteCategory, AddTag, DeleteTag
  <2> QED BY <2>1, <2>2, <2>3, <2>4 DEF FailInDatabase, Abandon
<1>3. CASE OtherStep(r)
  <2>1. /\ UNCHANGED <<before, lone>> /\ pc[r] # "done"
        /\ \A q \in Requests \ {r} : asked'[q] = asked[q] /\ tid'[q] = tid[q]
    BY <1>0, <1>3 DEF OtherStep, Submit, RefuseUser, ValidateUpload, InsertUpload, LookUpTorrent,
       DeleteTorrent, LookUpCategory, AddCategory, DeleteCategory, AddTag, DeleteTag,
       FailInDatabase, Abandon
  <2>2. \A q \in Requests \ {r} : pc'[q] = pc[q] /\ response'[q] = response[q]
    BY <1>0, <1>3 DEF OtherStep, Submit, RefuseUser, ValidateUpload, InsertUpload, LookUpTorrent,
       DeleteTorrent, LookUpCategory, AddCategory, DeleteCategory, AddTag, DeleteTag,
       FailInDatabase, Abandon, GoTo, Answer
  <2>3. pc[r] \in EditSteps => FailInDatabase(r) \/ Abandon(r)
    BY <1>3 DEF OtherStep, Submit, RefuseUser, ValidateUpload, InsertUpload, LookUpTorrent,
       DeleteTorrent, LookUpCategory, AddCategory, DeleteCategory, AddTag, DeleteTag
  <2>4. FailInDatabase(r) \/ Abandon(r) =>
          /\ UNCHANGED <<labelTables, asked, tid, before>>
          /\ \E answer : answer # "ok" /\ Answer(r, answer)
    BY DEF FailInDatabase, Abandon
  <2> QED BY <2>1, <2>2, <2>3, <2>4
<1> QED BY <1>1, <1>2, <1>3

LEMMA LabelsAreSetNext ==
  ASSUME LoneInv, NEW r \in Requests, EditStep(r) \/ OtherStep(r)
  PROVE  LabelsAreSet'
<1> USE DEF EditSteps, Columns
<1>0. pc \in [Requests -> Steps] /\ response \in [Requests -> {"none"} \cup Answers]
  BY DEF LoneInv, TypeInv, TypeOK
<1>1. \A q \in Requests \ {r} : pc'[q] = pc[q] /\ asked'[q] = asked[q]
  BY OthersStay DEF LoneInv
<1>2. ASSUME pc'[r] \in {"category", "tags", "unlink", "link"}
      PROVE  /\ UNCHANGED asked
             /\ pc'[r] = "category" => asked[r].category # Keep
             /\ pc'[r] \in {"tags", "unlink", "link"} => asked[r].tags # Keep
  <2>1. EditStep(r)
    <3>1. CASE Submit(r) \/ ValidateUpload(r) \/ LookUpTorrent(r) \/ LookUpCategory(r)
      BY <1>0, <1>2, <3>1 DEF Submit, ValidateUpload, LookUpTorrent, LookUpCategory, GoTo, Answer
    <3>2. CASE RefuseUser(r) \/ InsertUpload(r) \/ DeleteTorrent(r) \/ AddCategory(r)
               \/ DeleteCategory(r) \/ AddTag(r) \/ DeleteTag(r) \/ FailInDatabase(r) \/ Abandon(r)
      BY <1>0, <1>2, <3>2 DEF RefuseUser, InsertUpload, DeleteTorrent, AddCategory, DeleteCategory,
         AddTag, DeleteTag, FailInDatabase, Abandon, Answer
    <3> QED BY <3>1, <3>2 DEF OtherStep
  <2>2. UNCHANGED asked
    BY <2>1 DEF EditStep, AuthorizeEdit, EditTitle, EditDescription, EditCategory, CompareTags,
       UnlinkTags, LinkTags, Relist, Recategory
  <2>3. \/ \E step \in {"authorize", "title", "description", "category"} : GoTo(r, NextStep(r, step))
        \/ pc[r] \in {"tags", "unlink"} /\ GoTo(r, IF pc[r] = "unlink" THEN "link" ELSE "unlink")
        \/ \E step \in {"relist", "recategory"} : GoTo(r, step)
        \/ \E answer : Answer(r, answer)
    BY <2>1 DEF EditStep, AuthorizeEdit, EditTitle, EditDescription, EditCategory, CompareTags,
       UnlinkTags, LinkTags, Relist, Recategory, Do
  <2>4. CASE \E step \in {"authorize", "title", "description", "category"} : GoTo(r, NextStep(r, step))
    <3>1. PICK step \in {"authorize", "title", "description", "category"} : GoTo(r, NextStep(r, step))
      BY <2>4
    <3>2. /\ NextStep(r, step) \in Columns \cup {"relist"}
          /\ NextStep(r, step) # "relist" => asked[r][NextStep(r, step)] # Keep
      BY NextStepIsSet
    <3>3. pc'[r] = NextStep(r, step)
      BY <1>0, <3>1 DEF GoTo
    <3> QED BY <2>2, <3>2, <3>3
  <2>5. CASE pc[r] \in {"tags", "unlink"} /\ GoTo(r, IF pc[r] = "unlink" THEN "link" ELSE "unlink")
    BY <1>0, <2>2, <2>5 DEF LoneInv, LabelsAreSet, GoTo
  <2>6. CASE \/ \E step \in {"relist", "recategory"} : GoTo(r, step)
             \/ \E answer : Answer(r, answer)
    BY <1>0, <1>2, <2>6 DEF GoTo, Answer
  <2> QED BY <2>3, <2>4, <2>5, <2>6
<1> QED BY <1>1, <1>2 DEF LoneInv, LabelsAreSet

\* An edit that begins has found the torrent as it is.
LEMMA BeginsAlone ==
  ASSUME LoneInv, NEW r \in Requests, AuthorizeEdit(r), r \in lone'
  PROVE  IsAlone(r)'
<1>0. /\ pc \in [Requests -> Steps] /\ tid \in [Requests -> Nat]
      /\ before \in [Requests -> Sight \cup {Nothing}]
      /\ LabelIdsBounded /\ links \subseteq Nat \X Nat
  BY LabelIds, ConsistentRows DEF LoneInv, TypeInv, TypeOK, AreRows
<1>1. pc[r] = "authorize" /\ asked[r].op = "edit" /\ UNCHANGED <<labelTables, asked>>
  BY DEF AuthorizeEdit
<1>2. r \notin lone
  BY <1>1 DEF LoneInv, IsAlone, EditSteps, Columns
<1>3. PICK t \in torrents :
        /\ tid' = [tid EXCEPT ![r] = t.torrent_id]
        /\ before' = [before EXCEPT ![r] = Shown(t)]
        /\ lone' = {q \in lone : tid[q] # t.torrent_id} \cup {q \in {r} : UnderWay(t) = {}}
        /\ GoTo(r, NextStep(r, "authorize"))
  BY <1>2 DEF AuthorizeEdit, TorrentsWithHash
<1>4. UnderWay(t) = {}
  BY <1>2, <1>3
<1>5. PICK next \in {"title", "description", "category", "tags", "relist"} :
        /\ next = NextStep(r, "authorize")
        /\ \A c \in Columns : asked[r][c] = Keep \/ (c \in WrittenAt(next) <=> c \in WrittenAfter("authorize"))
  BY NextStepSkips
<1>6. /\ tid'[r] = t.torrent_id /\ before'[r] = Shown(t) /\ pc'[r] = next
      /\ \A q \in Requests \ {r} : pc'[q] = pc[q] /\ tid'[q] = tid[q]
  BY <1>0, <1>3, <1>5 DEF GoTo
<1>7. \A c \in Columns : FieldAt(r, next, c)' = before'[r][c]
  <2>1. WrittenAfter("authorize") = {}
    BY DEF WrittenAfter
  <2> QED BY <1>1, <1>5, <2>1 DEF FieldAt
<1>8. /\ FieldAt(r, next, "title")' = t.title /\ FieldAt(r, next, "description")' = t.description
      /\ FieldAt(r, next, "category")' = t.category
      /\ FieldAt(r, next, "tags")' = TagsOf(t.torrent_id)
  BY <1>6, <1>7 DEF Columns, Shown
<1>9. TagsOf(t.torrent_id) \subseteq TagIds
  BY <1>0 DEF LabelIdsBounded, TagsOf
<1>10. LabelsAreKnown(r, next)'
  BY <1>0, <1>1, <1>8, <1>9 DEF LabelsAreKnown, LabelIdsBounded, labelTables
<1>11. IsSeen(r, next)'
  <2>1. \A u \in torrents : u.torrent_id = t.torrent_id => u = t
    BY DEF LoneInv, TypeInv, TablesConsistent, AreConsistent
  <2>2. /\ CategoryIds' = CategoryIds /\ TagIds' = TagIds /\ TagsOf(tid[r])' = TagsOf(t.torrent_id)
        /\ torrents' = torrents
    BY <1>1, <1>6 DEF labelTables, CategoryIds, TagIds, TagsOf
  <2>3. t.category = IF t.category \in CategoryIds THEN t.category ELSE Null
    BY <1>0 DEF LabelIdsBounded
  <2> QED BY <1>6, <1>8, <1>9, <2>1, <2>2, <2>3 DEF IsSeen
<1>12. tid'[r] < nextIds'.torrent
  BY <1>0, <1>1, <1>6 DEF LabelIdsBounded, labelTables
<1>13. \A q \in Requests : pc'[q] \in EditSteps /\ tid'[q] = tid'[r] => q = r
  BY <1>4, <1>6 DEF UnderWay
<1>14. next \in EditSteps
  BY DEF EditSteps, Columns
<1> QED BY <1>1, <1>6, <1>10, <1>11, <1>12, <1>13, <1>14 DEF IsAlone

LEMMA LoneInvNext == LoneInv /\ [Next]_vars => LoneInv'
<1> SUFFICES ASSUME LoneInv, [Next]_vars PROVE LoneInv'
  OBVIOUS
<1>1. TypeInv'
  BY TypeInvNext DEF LoneInv
<1>2. CASE UNCHANGED vars
  <2>1. \A r, step : (LabelsAreKnown(r, step) => LabelsAreKnown(r, step)')
                     /\ (IsSeen(r, step) => IsSeen(r, step)')
    BY <1>2 DEF LabelsAreKnown, IsSeen, FieldAt, CategoryIds, TagIds, TagsOf, vars, handlers, labelTables
  <2>2. \A r \in lone' : IsAlone(r)'
    BY <1>2, <2>1 DEF LoneInv, IsAlone, vars, handlers, labelTables
  <2>3. LabelsAreSet'
    BY <1>2 DEF LoneInv, LabelsAreSet, vars, handlers
  <2> QED BY <1>1, <2>2, <2>3 DEF LoneInv
<1>3. ASSUME NEW r \in Requests, EditStep(r) \/ OtherStep(r) PROVE LoneInv'
  <2>0. /\ TypeInv /\ LabelIdsBounded /\ lone \subseteq Requests /\ tid \in [Requests -> Nat]
        /\ pc \in [Requests -> Steps] /\ response \in [Requests -> {"none"} \cup Answers]
    BY LabelIds DEF LoneInv, TypeInv, TypeOK
  <2>1. /\ \A q \in Requests \ {r} :
             /\ pc'[q] = pc[q] /\ tid'[q] = tid[q] /\ asked'[q] = asked[q]
             /\ before'[q] = before[q] /\ response'[q] = response[q]
        /\ AuthorizeEdit(r) \/ UNCHANGED lone
        /\ OtherStep(r) /\ pc[r] \in EditSteps =>
             /\ UNCHANGED <<labelTables, asked, tid, before>>
             /\ \E answer : answer # "ok" /\ Answer(r, answer)
        /\ pc[r] # "done"
    BY <1>3, <2>0, OthersStay
  <2>2. ASSUME NEW q \in lone', q # r PROVE IsAlone(q)'
    <3>1. /\ q \in lone /\ q \in Requests
          /\ AuthorizeEdit(r) /\ pc'[r] \in EditSteps => tid'[r] # tid[q]
      <4>1. CASE ~AuthorizeEdit(r)
        BY <2>0, <2>1, <2>2, <4>1
      <4>2. CASE AuthorizeEdit(r) /\ UNCHANGED <<lone, tid>> /\ pc'[r] = "done"
        BY <2>0, <2>2, <4>2 DEF EditSteps, Columns
      <4>3. CASE \E t \in torrents :
                   /\ tid' = [tid EXCEPT ![r] = t.torrent_id]
                   /\ lone' = {p \in lone : tid[p] # t.torrent_id} \cup {p \in {r} : UnderWay(t) = {}}
        BY <2>0, <2>2, <4>3
      <4> QED BY <2>0, <4>1, <4>2, <4>3 DEF AuthorizeEdit, TorrentsWithHash, Answer
    <3>2. IsAlone(q)
      BY <3>1 DEF LoneInv
    <3>3. /\ tid[q] \in Nat /\ tid[q] < nextIds.torrent
          /\ \A p \in Requests : pc[p] \in EditSteps /\ tid[p] = tid[q] => p = q
      BY <2>0, <3>1, <3>2 DEF IsAlone
    <3>4. LabelsFollow /\ RowFollows(tid[q])
      <4>1. PICK id : id = tid[q]
        OBVIOUS
      <4>2. pc[r] \in EditSteps => tid[r] # id
        BY <2>2, <3>3, <4>1
      <4>3. LabelsFollow /\ RowFollows(id)
        BY <1>1, <1>3, <2>0, <3>3, <4>1, <4>2, EditsOfOthersFollow, OthersFollow
      <4>4. TagsOf(tid[q])' = TagsOf(id)'
        BY <2>1, <2>2, <3>1, <4>1 DEF TagsOf
      <4> QED BY <4>1, <4>3, <4>4 DEF RowFollows
    <3>5. PICK step \in EditSteps :
            /\ LabelsAreKnown(q, step) /\ IsSeen(q, step)
            /\ step = "link" => asked[q].tags # Keep
            /\ \/ pc[q] = step
               \/ pc[q] = "done" /\ (response[q] = "ok" => step = "relist")
      BY <3>2 DEF IsAlone
    <3>6. LabelsAreKnown(q, step)' /\ IsSeen(q, step)'
      BY <1>1, <2>0, <2>1, <2>2, <3>1, <3>4, <3>5, SeenStays
    <3>7. nextIds.torrent <= nextIds'.torrent
      BY <1>3, <2>0, EditTouchesItsRow, OtherRowsFollow DEF RowsFollow
    <3>8. nextIds'.torrent \in Nat /\ nextIds.torrent \in Nat
      BY <1>1, <2>0, LabelIds, ConsistentRows DEF TypeInv, TypeOK, AreRows
    <3>9. tid'[q] < nextIds'.torrent
      BY <2>1, <2>2, <3>1, <3>3, <3>7, <3>8
    <3>10. \A p \in Requests : pc'[p] \in EditSteps /\ tid'[p] = tid'[q] => p = q
      <4> SUFFICES ASSUME pc'[r] \in EditSteps, tid'[r] = tid[q] PROVE FALSE
        BY <2>1, <2>2, <3>1, <3>3
      <4>1. ~AuthorizeEdit(r)
        BY <3>1
      <4>2. pc[r] \in EditSteps /\ tid'[r] = tid[r]
        BY <1>3, <2>0, <4>1, EditorsGoOn
      <4> QED BY <2>2, <3>3, <4>2
    <3> QED BY <2>1, <2>2, <3>1, <3>2, <3>5, <3>6, <3>9, <3>10 DEF IsAlone
  <2>3. ASSUME r \in lone' PROVE IsAlone(r)'
    <3>1. CASE AuthorizeEdit(r)
      BY <2>3, <3>1, BeginsAlone
    <3>2. CASE ~AuthorizeEdit(r)
      <4>1. IsAlone(r) /\ pc[r] \in EditSteps
        BY <2>1, <2>3, <3>2 DEF LoneInv, IsAlone
      <4>2. /\ UNCHANGED <<asked, tid>> /\ nextIds'.torrent = nextIds.torrent
            /\ \E step \in EditSteps :
                 /\ LabelsAreKnown(r, step)' /\ IsSeen(r, step)'
                 /\ step = "link" => asked[r].tags # Keep
                 /\ \/ GoTo(r, step)
                    \/ \E answer : Answer(r, answer) /\ (answer = "ok" => step = "relist")
        <5>1. CASE EditStep(r)
          <6>1. UNCHANGED nextIds
            BY <5>1 DEF EditStep, AuthorizeEdit, EditTitle, EditDescription, EditCategory, CompareTags,
               UnlinkTags, LinkTags, Relist, Recategory, Do, SetTitle, SetDescription, SetCategory,
               UnlinkAll, LinkAll, labelTables
          <6> QED BY <3>2, <4>1, <5>1, <6>1, AloneGoesOn
        <5>2. CASE OtherStep(r)
          <6>1. /\ UNCHANGED <<labelTables, asked, tid, before>>
                /\ \E answer : answer # "ok" /\ Answer(r, answer)
            BY <2>1, <4>1, <5>2
          <6>2. PICK step \in EditSteps : /\ LabelsAreKnown(r, step) /\ IsSeen(r, step)
                                          /\ step = "link" => asked[r].tags # Keep
            BY <4>1 DEF IsAlone
          <6>3. LabelsAreKnown(r, step)' /\ IsSeen(r, step)'
            BY <6>1, <6>2 DEF LabelsAreKnown, IsSeen, FieldAt, CategoryIds, TagIds, TagsOf, labelTables
          <6> QED BY <6>1, <6>2, <6>3 DEF labelTables
        <5> QED BY <1>3, <5>1, <5>2
      <4>3. \A p \in Requests : pc'[p] \in EditSteps /\ tid'[p] = tid'[r] => p = r
        BY <2>1, <4>1, <4>2 DEF IsAlone
      <4>4. asked'[r].op = "edit" /\ tid'[r] < nextIds'.torrent
        BY <4>1, <4>2 DEF IsAlone
      <4>5. PICK step \in EditSteps :
              /\ LabelsAreKnown(r, step)' /\ IsSeen(r, step)'
              /\ step = "link" => asked[r].tags # Keep
              /\ \/ GoTo(r, step)
                 \/ \E answer : Answer(r, answer) /\ (answer = "ok" => step = "relist")
        BY <4>2
      <4>6. \/ pc'[r] = step
            \/ pc'[r] = "done" /\ (response'[r] = "ok" => step = "relist")
        BY <2>0, <4>5 DEF GoTo, Answer
      <4> QED BY <4>2, <4>3, <4>4, <4>5, <4>6 DEF IsAlone
    <3> QED BY <3>1, <3>2
  <2>4. LabelsAreSet'
    BY <1>3, LabelsAreSetNext
  <2> QED BY <1>1, <2>2, <2>3, <2>4 DEF LoneInv
<1> QED BY <1>2, <1>3, <1>1 DEF Next, Served

LEMMA FourColumns ==
  ASSUME NEW f, f = [c \in Columns |-> f[c]]
  PROVE  f = [title |-> f.title, description |-> f.description, category |-> f.category,
              tags |-> f.tags]
BY DEF Columns

LEMMA SurvivingColumns ==
  ASSUME NEW w, w = [c \in Columns |-> w[c]]
  PROVE  /\ Surviving(w) = [c \in Columns |-> Surviving(w)[c]]
         /\ Surviving(w).title = w.title /\ Surviving(w).description = w.description
         /\ Surviving(w).category = IF w.category \in CategoryIds THEN w.category ELSE Null
         /\ Surviving(w).tags = w.tags \cap TagIds
<1>1. DOMAIN w = Columns /\ {"title", "description", "category", "tags"} \subseteq DOMAIN w
  BY DEF Columns
<1>2. Surviving(w) = [c \in Columns |-> Surviving(w)[c]]
  BY <1>1 DEF Surviving
<1> QED BY <1>1, <1>2 DEF Surviving

\* What an edit has left is what the properties say, whole or in part.
LEMMA SeenAsWritten ==
  ASSUME TypeInv, NEW r \in Requests, NEW step \in EditSteps, IsSeen(r, step),
         NEW t \in torrents, t.torrent_id = tid[r], step = "link" => asked[r].tags # Keep
  PROVE  /\ step # "link" => Shown(t) = Surviving(Written(r, WrittenAt(step)))
         /\ step = "link" => Shown(t) = [Surviving(Written(r, Columns)) EXCEPT !.tags = {}]
<1>1. Shown(t) = [title |-> FieldAt(r, step, "title"), description |-> FieldAt(r, step, "description"),
                  category |-> IF FieldAt(r, step, "category") \in CategoryIds
                               THEN FieldAt(r, step, "category") ELSE Null,
                  tags |-> FieldAt(r, step, "tags") \cap TagIds]
  BY DEF Shown, IsSeen
<1>2. CASE step # "link"
  <2> DEFINE w == Written(r, WrittenAt(step))
  <2>1. w = [c \in Columns |-> w[c]]
    BY DEF Written
  <2>2. \A c \in Columns : w[c] = FieldAt(r, step, c)
    BY <1>2 DEF Written, FieldAt
  <2> HIDE DEF w
  <2>3. Shown(t) = Surviving(w)
    <3>1. /\ Surviving(w) = [c \in Columns |-> Surviving(w)[c]]
          /\ Surviving(w).title = w.title /\ Surviving(w).description = w.description
          /\ Surviving(w).category = IF w.category \in CategoryIds THEN w.category ELSE Null
          /\ Surviving(w).tags = w.tags \cap TagIds
      BY <2>1, SurvivingColumns
    <3>2. Surviving(w) = [title |-> Surviving(w).title, description |-> Surviving(w).description,
                          category |-> Surviving(w).category, tags |-> Surviving(w).tags]
      BY <3>1, FourColumns
    <3> QED BY <1>1, <2>2, <3>1, <3>2 DEF Columns
  <2> QED BY <1>2, <2>3 DEF w
<1>3. CASE step = "link"
  <2> DEFINE w == Written(r, Columns)
             bare == [Surviving(w) EXCEPT !.tags = {}]
  <2>1. w = [c \in Columns |-> w[c]]
    BY DEF Written
  <2>2. \A c \in Columns : c \in WrittenAt(step)
    BY <1>3 DEF WrittenAt, Columns
  <2>3. /\ w.title = FieldAt(r, step, "title") /\ w.description = FieldAt(r, step, "description")
        /\ w.category = FieldAt(r, step, "category") /\ FieldAt(r, step, "tags") = {}
    BY <1>3, <2>2 DEF Written, FieldAt, Columns
  <2> HIDE DEF w
  <2>4. /\ Surviving(w) = [c \in Columns |-> Surviving(w)[c]]
        /\ Surviving(w).title = w.title /\ Surviving(w).description = w.description
        /\ Surviving(w).category = IF w.category \in CategoryIds THEN w.category ELSE Null
    BY <2>1, SurvivingColumns
  <2>5. /\ bare = [c \in Columns |-> bare[c]] /\ bare.title = w.title
        /\ bare.description = w.description /\ bare.category = Surviving(w).category /\ bare.tags = {}
    BY <2>4 DEF Columns
  <2> HIDE DEF bare
  <2>6. bare = [title |-> bare.title, description |-> bare.description, category |-> bare.category,
                tags |-> bare.tags]
    BY <2>5, FourColumns
  <2>7. Shown(t) = bare
    BY <1>1, <2>3, <2>4, <2>5, <2>6
  <2> QED BY <1>3, <2>7 DEF w, bare
<1> QED BY <1>2, <1>3

LEMMA LoneInvInit == Init => LoneInv
BY TypeInvInit DEF Init, LoneInv, LabelsAreSet

\* An edit that was answered with success is what its torrent shows, in every
\* column and with exactly its tags, until another edit of the torrent begins: no
\* upload, deletion, category or tag takes more of it than the labels that are
\* deleted, wherever their statements come between its own (torrent.rs:472-508).
THEOREM AckedEditsAreVisible == Spec => []AckedEditIsVisible
<1>1. UploadInv /\ LoneInv => AckedEditIsVisible
  <2> SUFFICES ASSUME UploadInv, LoneInv, NEW r \in lone, response[r] = "ok",
                      NEW t \in torrents, t.torrent_id = tid[r]
               PROVE  Shown(t) = Surviving(Written(r, Columns))
    BY DEF AckedEditIsVisible, TorrentsWithId
  <2>1. TypeInv /\ r \in Requests
    BY DEF LoneInv, TypeInv, TypeOK
  <2>2. IsSeen(r, "relist")
    <3>1. PICK step \in EditSteps :
            /\ IsSeen(r, step)
            /\ \/ pc[r] = step
               \/ pc[r] = "done" /\ (response[r] = "ok" => step = "relist")
      BY DEF LoneInv, IsAlone
    <3>2. pc[r] = "done"
      BY <2>1 DEF UploadInv, UploadsAreNamed
    <3>3. step # "done"
      BY DEF EditSteps, Columns
    <3>4. step = "relist"
      BY <3>1, <3>2, <3>3
    <3> QED BY <3>1, <3>4
  <2>3. WrittenAt("relist") = Columns
    BY DEF WrittenAt, Columns
  <2> QED BY <2>1, <2>2, <2>3, SeenAsWritten DEF EditSteps
<1> QED BY <1>1, UploadInvInit, UploadInvNext, LoneInvInit, LoneInvNext, PTL DEF Spec

\* An edit that is under way or that ended half-way has written its columns in
\* their order up to some column, and the tags are the old ones, the new ones or
\* none; nothing of another request is mixed in (torrent.rs:677-719).
THEOREM PartialEditsArePrefixes == Spec => []PartialEditIsPrefix
<1>1. LoneInv => PartialEditIsPrefix
  <2> SUFFICES ASSUME LoneInv, NEW r \in lone, NEW t \in torrents, t.torrent_id = tid[r]
               PROVE  \/ \E columns \in {{}, {"title"}, {"title", "description"},
                                          {"title", "description", "category"}, Columns} :
                            Shown(t) = Surviving(Written(r, columns))
                      \/ Shown(t) = [Surviving(Written(r, Columns)) EXCEPT !.tags = {}]
    BY DEF PartialEditIsPrefix, TorrentsWithId
  <2>1. TypeInv /\ r \in Requests
    BY DEF LoneInv, TypeInv, TypeOK
  <2>2. PICK step \in EditSteps : IsSeen(r, step) /\ (step = "link" => asked[r].tags # Keep)
    BY DEF LoneInv, IsAlone
  <2>3. CASE step = "link"
    BY <2>1, <2>2, <2>3, SeenAsWritten
  <2>4. CASE step # "link"
    <3>1. Shown(t) = Surviving(Written(r, WrittenAt(step)))
      BY <2>1, <2>2, <2>4, SeenAsWritten
    <3>2. WrittenAt(step) \in {{}, {"title"}, {"title", "description"},
                               {"title", "description", "category"}, Columns}
      <4>1. CASE step = "title"
        BY <4>1 DEF WrittenAt, Columns
      <4>2. CASE step = "description"
        BY <4>2 DEF WrittenAt, Columns
      <4>3. CASE step = "category"
        BY <4>3 DEF WrittenAt, Columns
      <4>4. CASE step \in {"tags", "unlink"}
        BY <4>4 DEF WrittenAt, Columns
      <4>5. CASE step \in {"relist", "recategory"}
        BY <4>5 DEF WrittenAt, Columns
      <4> QED BY <2>4, <4>1, <4>2, <4>3, <4>4, <4>5 DEF EditSteps, Columns
    <3> QED BY <3>1, <3>2
  <2> QED BY <2>3, <2>4
<1> QED BY <1>1, LoneInvInit, LoneInvNext, PTL DEF Spec

=============================================================================
