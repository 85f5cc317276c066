---------------------------- MODULE TorrentEditing ----------------------------
(***************************************************************************)
(* Editing torrents (update_torrent_info in services/torrent.rs) while     *)
(* categories and tags come and go (services/category.rs, services/tag.rs) *)
(* and torrents are uploaded and deleted.  An edit is a sequence of        *)
(* statements without a transaction around it, and what one statement      *)
(* relied on may be gone at the next.                                      *)
(*                                                                         *)
(* Uploading and deleting are here what they do to the labels; TorrentIndex *)
(* has the rest of them.  A request is served once.                        *)
(***************************************************************************)
EXTENDS LabelTables

CONSTANTS
  Requests,
  Asks,     \* what the clients may ask for
  Keep,     \* a field that an edit leaves out
  Setup,    \* the tables at the beginning
  Faults    \* the failures that can happen

Columns == {"title", "description", "category", "tags"}

EditAsk == [op : {"edit"}, user : Users, info_hash : Hashes,
            title : Titles \cup {Keep}, description : Descriptions \cup {Keep},
            category : Nat \cup {Keep}, tags : Seq(Nat) \cup {Keep}]
UploadAsk == [op : {"upload"}, user : Users, info_hash : Hashes, title : Titles,
              description : Descriptions, category : Inputs, tags : Seq(Nat)]
DeleteAsk == [op : {"delete"}, user : Users, info_hash : Hashes]
NameAsk == [op : {"add_category", "delete_category", "add_tag"}, user : Users, name : Inputs]
TagAsk == [op : {"delete_tag"}, user : Users, tag_id : Nat]
NoAsk == [op |-> "none"]

ASSUME EditingAssumption ==
  /\ Asks \subseteq EditAsk \cup UploadAsk \cup DeleteAsk \cup NameAsk \cup TagAsk
  /\ Keep \notin Titles \cup Descriptions \cup Nat \cup Seq(Nat)
  /\ Faults \subseteq {"database", "abandon"}
  /\ AreConsistent(Setup.categories, Setup.tags, Setup.torrents, Setup.links, Setup.nextIds)

VARIABLES
  pc,         \* where the handler of a request is
  asked,      \* what the client asks for
  tid,        \* the handler's local torrent_id; 0 before it has one
  cid,        \* the handler's local category_id
  response,   \* what the client was answered
  before,     \* for the properties: the torrent as an edit found it
  lone        \* for the properties: the last edit of a torrent, if no other
              \* edit of the torrent was under way when it began

handlers == <<pc, asked, tid, cid, response>>
vars == <<labelTables, handlers, before, lone>>

EditSteps == Columns \cup {"unlink", "link", "relist", "recategory"}
Steps == {"idle", "authorize", "insert", "delete", "done"} \cup EditSteps
Refusals == {"unauthorized", "not_found", "title_exists", "name_empty", "name_exists",
             "invalid_category", "error"}
Answers == {"ok", "abandoned"} \cup Refusals

Shown(t) == [title |-> t.title, description |-> t.description, category |-> t.category,
             tags |-> TagsOf(t.torrent_id)]
Sight == [title : Titles, description : Descriptions, category : Nat \cup {Null},
          tags : SUBSET Nat]
Nothing == [title |-> Keep]

TypeOK ==
  /\ AreRows(categories, tags, torrents, links, nextIds)
  /\ pc \in [Requests -> Steps]
  /\ asked \in [Requests -> Asks \cup {NoAsk}]
  /\ tid \in [Requests -> Nat]
  /\ cid \in [Requests -> Nat \cup {Null}]
  /\ response \in [Requests -> {"none"} \cup Answers]
  /\ before \in [Requests -> Sight \cup {Nothing}]
  /\ lone \in SUBSET Requests

Init ==
  /\ categories = Setup.categories
  /\ tags = Setup.tags
  /\ torrents = Setup.torrents
  /\ links = Setup.links
  /\ nextIds = Setup.nextIds
  /\ pc = [r \in Requests |-> "idle"]
  /\ asked = [r \in Requests |-> NoAsk]
  /\ tid = [r \in Requests |-> 0]
  /\ cid = [r \in Requests |-> Null]
  /\ response = [r \in Requests |-> "none"]
  /\ before = [r \in Requests |-> Nothing]
  /\ lone = {}

-----------------------------------------------------------------------------

GoTo(r, step) ==
  /\ pc' = [pc EXCEPT ![r] = step]
  /\ UNCHANGED response

Answer(r, answer) ==
  /\ pc' = [pc EXCEPT ![r] = "done"]
  /\ response' = [response EXCEPT ![r] = answer]

\* The statement is made and the handler goes on, or is refused and ends.
Do(r, can, statement, step, refusal) ==
  \/ can /\ statement /\ GoTo(r, step)
  \/ ~can /\ UNCHANGED labelTables /\ Answer(r, refusal)

Submit(r) ==
  /\ pc[r] = "idle"
  /\ \E ask \in Asks : asked' = [asked EXCEPT ![r] = ask]
  /\ GoTo(r, "authorize")
  /\ UNCHANGED <<labelTables, tid, cid, before, lone>>

IsAdministrator(r) == asked[r].user \in Administrators

\* All that is administrators' to do.
RefuseUser(r) ==
  /\ pc[r] = "authorize"
  /\ asked[r].op \notin {"edit", "upload"}
  /\ ~IsAdministrator(r)
  /\ Answer(r, "unauthorized")
  /\ UNCHANGED <<labelTables, asked, tid, cid, before, lone>>

-----------------------------------------------------------------------------
(* update_torrent_info *)

Order == <<"authorize", "title", "description", "category", "tags", "relist">>

\* The next statement, one for each field that the edit does not leave out.
NextStep(r, step) ==
  LET now == CHOOSE i \in 1 .. 5 : Order[i] = step
      due == {i \in (now + 1) .. 6 : Order[i] = "relist" \/ asked[r][Order[i]] # Keep}
  IN Order[CHOOSE i \in due : \A j \in due : i <= j]

UnderWay(t) == {r \in Requests : pc[r] \in EditSteps /\ tid[r] = t.torrent_id}

\* one_torrent_by_info_hash, and only the uploader and administrators may edit.
AuthorizeEdit(r) ==
  LET found == TorrentsWithHash(asked[r].info_hash) IN
  /\ pc[r] = "authorize" /\ asked[r].op = "edit"
  /\ \/ \E t \in found :
          /\ t.uploader = asked[r].user \/ IsAdministrator(r)
          /\ tid' = [tid EXCEPT ![r] = t.torrent_id]
          /\ before' = [before EXCEPT ![r] = Shown(t)]
          /\ lone' = {q \in lone : tid[q] # t.torrent_id}
                       \cup {q \in {r} : UnderWay(t) = {}}
          /\ GoTo(r, NextStep(r, "authorize"))
     \/ /\ \E t \in found : t.uploader # asked[r].user /\ ~IsAdministrator(r)
        /\ Answer(r, "unauthorized")
        /\ UNCHANGED <<tid, before, lone>>
     \/ /\ found = {}
        /\ Answer(r, "not_found")
        /\ UNCHANGED <<tid, before, lone>>
  /\ UNCHANGED <<labelTables, asked, cid>>

\* Mutant: the statements look the torrent up by its info-hash again.
EditedId_ByHash(r) ==
  LET found == TorrentsWithHash(asked[r].info_hash)
  IN IF found = {} THEN tid[r] ELSE (CHOOSE t \in found : TRUE).torrent_id

\* The torrent that was authorized.
EditedId(r) == tid[r]

\* Mutant: the error of the title is overlooked.
EditTitle_GoOn(r) ==
  LET can == CanSetTitle(EditedId(r), asked[r].title) IN
  /\ pc[r] = "title"
  /\ \/ can /\ SetTitle(EditedId(r), asked[r].title)
     \/ ~can /\ UNCHANGED labelTables
  /\ GoTo(r, NextStep(r, "title"))
  /\ UNCHANGED <<asked, tid, cid, before, lone>>

EditTitle(r) ==
  /\ pc[r] = "title"
  /\ Do(r, CanSetTitle(EditedId(r), asked[r].title),
           SetTitle(EditedId(r), asked[r].title),
           NextStep(r, "title"),
           IF TorrentsWithId(EditedId(r)) = {} THEN "not_found" ELSE "title_exists")
  /\ UNCHANGED <<asked, tid, cid, before, lone>>

EditDescription(r) ==
  /\ pc[r] = "description"
  /\ Do(r, CanSetDescription(EditedId(r)),
           SetDescription(EditedId(r), asked[r].description),
           NextStep(r, "description"), "not_found")
  /\ UNCHANGED <<asked, tid, cid, before, lone>>

EditCategory(r) ==
  /\ pc[r] = "category"
  /\ Do(r, CanSetCategory(EditedId(r), asked[r].category),
           SetCategory(EditedId(r), asked[r].category),
           NextStep(r, "category"), "error")
  /\ UNCHANGED <<asked, tid, cid, before, lone>>

\* Mutant: the lists are compared by their lengths.
SameTags_ByLength(id, list) == Len(list) = Cardinality(TagsOf(id))

\* The sorted lists are equal.
SameTags(id, list) == IsInjective(list) /\ Range(list) = TagsOf(id)

CompareTags(r) ==
  /\ pc[r] = "tags"
  /\ GoTo(r, IF SameTags(EditedId(r), asked[r].tags) THEN "relist" ELSE "unlink")
  /\ UNCHANGED <<labelTables, asked, tid, cid, before, lone>>

UnlinkTags(r) ==
  /\ pc[r] = "unlink"
  /\ UnlinkAll(EditedId(r))
  /\ GoTo(r, "link")
  /\ UNCHANGED <<asked, tid, cid, before, lone>>

LinkTags(r) ==
  /\ pc[r] = "link"
  /\ Do(r, CanLinkAll(EditedId(r), asked[r].tags),
           LinkAll(EditedId(r), asked[r].tags), "relist", "error")
  /\ UNCHANGED <<asked, tid, cid, before, lone>>

\* The listing for the answer, read back by id ...
Relist(r) ==
  LET found == TorrentsWithId(tid[r]) IN
  /\ pc[r] = "relist"
  /\ \/ \E t \in found :
          /\ cid' = [cid EXCEPT ![r] = t.category]
          /\ IF t.category = Null THEN Answer(r, "ok") ELSE GoTo(r, "recategory")
     \/ found = {} /\ Answer(r, "not_found") /\ UNCHANGED cid
  /\ UNCHANGED <<labelTables, asked, tid, before, lone>>

\* ... and its category, which may be gone: the edit is made, and answered with
\* an error.
Recategory(r) ==
  /\ pc[r] = "recategory"
  /\ Answer(r, IF cid[r] \in CategoryIds THEN "ok" ELSE "error")
  /\ UNCHANGED <<labelTables, asked, tid, cid, before, lone>>

-----------------------------------------------------------------------------
(* add_torrent and delete_torrent *)

\* validate_and_build_metadata: the category is named and becomes an id.
ValidateUpload(r) ==
  LET found == CategoriesNamed(asked[r].category) IN
  /\ pc[r] = "authorize" /\ asked[r].op = "upload"
  /\ \/ \E c \in found : cid' = [cid EXCEPT ![r] = c.category_id] /\ GoTo(r, "insert")
     \/ found = {} /\ Answer(r, "invalid_category") /\ UNCHANGED cid
  /\ UNCHANGED <<labelTables, asked, tid, before, lone>>

InsertUpload(r) ==
  LET a == asked[r]
      can == CanInsertTorrent(a.info_hash, a.title, cid[r], a.tags) IN
  /\ pc[r] = "insert" /\ a.op = "upload"
  /\ \/ /\ can
        /\ InsertTorrentRow(a.info_hash, a.user, a.title, a.description, cid[r], a.tags)
        /\ tid' = [tid EXCEPT ![r] = nextIds.torrent]
        /\ Answer(r, "ok")
     \/ ~can /\ Answer(r, "error") /\ UNCHANGED <<labelTables, tid>>
  /\ UNCHANGED <<asked, cid, before, lone>>

LookUpTorrent(r) ==
  LET found == TorrentsWithHash(asked[r].info_hash) IN
  /\ pc[r] = "authorize" /\ asked[r].op = "delete" /\ IsAdministrator(r)
  /\ \/ \E t \in found : tid' = [tid EXCEPT ![r] = t.torrent_id] /\ GoTo(r, "delete")
     \/ found = {} /\ Answer(r, "not_found") /\ UNCHANGED tid
  /\ UNCHANGED <<labelTables, asked, cid, before, lone>>

DeleteTorrent(r) ==
  /\ pc[r] = "delete"
  /\ DeleteTorrentRow(tid[r])
  /\ Answer(r, IF TorrentsWithId(tid[r]) # {} THEN "ok" ELSE "not_found")
  /\ UNCHANGED <<asked, tid, cid, before, lone>>

-----------------------------------------------------------------------------
(* Categories and tags *)

NameToAdd(r) == Trimmed[asked[r].name]

LookUpCategory(r) ==
  LET name == Trimmed[asked[r].name] IN
  /\ pc[r] = "authorize" /\ asked[r].op = "add_category" /\ IsAdministrator(r)
  /\ \/ name = Blank /\ Answer(r, "name_empty")
     \/ name \in CategoryNames /\ Answer(r, "name_exists")
     \/ name \notin CategoryNames \cup {Blank} /\ GoTo(r, "insert")
  /\ UNCHANGED <<labelTables, asked, tid, cid, before, lone>>

\* Another category of that name may have come in between.
AddCategory(r) ==
  LET can == CanInsertCategory(NameToAdd(r)) IN
  /\ pc[r] = "insert" /\ asked[r].op = "add_category"
  /\ \/ can /\ InsertCategoryRow(NameToAdd(r)) /\ Answer(r, "ok")
     \/ ~can /\ Answer(r, "error") /\ UNCHANGED labelTables
  /\ UNCHANGED <<asked, tid, cid, before, lone>>

\* By the name as it was typed.
DeleteCategory(r) ==
  LET found == CategoriesNamed(asked[r].name) IN
  /\ pc[r] = "authorize" /\ asked[r].op = "delete_category" /\ IsAdministrator(r)
  /\ DeleteCategoryRow(asked[r].name)
  /\ Answer(r, IF found # {} THEN "ok" ELSE "not_found")
  /\ UNCHANGED <<asked, tid, cid, before, lone>>

AddTag(r) ==
  LET name == NameToAdd(r) IN
  /\ pc[r] = "authorize" /\ asked[r].op = "add_tag" /\ IsAdministrator(r)
  /\ \/ name = Blank /\ Answer(r, "name_empty") /\ UNCHANGED labelTables
     \/ name # Blank /\ ~CanInsertTag(name) /\ Answer(r, "name_exists") /\ UNCHANGED labelTables
     \/ name # Blank /\ CanInsertTag(name) /\ InsertTagRow(name) /\ Answer(r, "ok")
  /\ UNCHANGED <<asked, tid, cid, before, lone>>

\* A tag that does not exist is deleted with success all the same.
DeleteTag(r) ==
  /\ pc[r] = "authorize" /\ asked[r].op = "delete_tag" /\ IsAdministrator(r)
  /\ DeleteTagRow(asked[r].tag_id)
  /\ Answer(r, "ok")
  /\ UNCHANGED <<asked, tid, cid, before, lone>>

-----------------------------------------------------------------------------

\* A statement fails and the handler returns the error.
FailInDatabase(r) ==
  /\ "database" \in Faults
  /\ pc[r] \notin {"idle", "done"}
  /\ Answer(r, "error")
  /\ UNCHANGED <<labelTables, asked, tid, cid, before, lone>>

\* The process stops, or the client disconnects and the server drops the handler.
Abandon(r) ==
  /\ "abandon" \in Faults
  /\ pc[r] \notin {"idle", "done"}
  /\ Answer(r, "abandoned")
  /\ UNCHANGED <<labelTables, asked, tid, cid, before, lone>>

Served ==
  /\ \A r \in Requests : pc[r] = "done"
  /\ UNCHANGED vars

EditStep(r) ==
  \/ AuthorizeEdit(r) \/ EditTitle(r) \/ EditDescription(r) \/ EditCategory(r)
  \/ CompareTags(r) \/ UnlinkTags(r) \/ LinkTags(r) \/ Relist(r) \/ Recategory(r)

OtherStep(r) ==
  \/ Submit(r) \/ RefuseUser(r) \/ ValidateUpload(r) \/ InsertUpload(r)
  \/ LookUpTorrent(r) \/ DeleteTorrent(r) \/ LookUpCategory(r) \/ AddCategory(r)
  \/ DeleteCategory(r) \/ AddTag(r) \/ DeleteTag(r) \/ FailInDatabase(r) \/ Abandon(r)

Next == (\E r \in Requests : EditStep(r) \/ OtherStep(r)) \/ Served

Spec == Init /\ [][Next]_vars

-----------------------------------------------------------------------------
(* Properties *)

\* A state of a torrent after some of the columns of an edit were written.
Written(r, columns) ==
  [c \in Columns |->
     IF c \notin columns \/ asked[r][c] = Keep THEN before[r][c]
     ELSE IF c = "tags" THEN Range(asked[r].tags) ELSE asked[r][c]]

\* What is left of it when categories and tags were deleted since.
Surviving(shown) ==
  [shown EXCEPT !.category = IF @ \in CategoryIds THEN @ ELSE Null,
                !.tags = @ \cap TagIds]

\* An edit that was answered with success, and that no other edit overlapped or
\* followed, is what the torrent shows: all of its columns and exactly its tags,
\* but for labels that were deleted (torrent.rs:472-508).
AckedEditIsVisible ==
  \A r \in lone : response[r] = "ok" =>
    \A t \in TorrentsWithId(tid[r]) : Shown(t) = Surviving(Written(r, Columns))

\* An edit that is under way or that failed half-way, and that no other edit
\* overlapped, has written title, description, category and tags in this order,
\* up to where it came: a refused title leaves all of the torrent alone, and the
\* tags are the old ones, the new ones or none (torrent.rs:677-719).
PartialEditIsPrefix ==
  \A r \in lone : \A t \in TorrentsWithId(tid[r]) :
    \/ \E columns \in {{}, {"title"}, {"title", "description"},
                       {"title", "description", "category"}, Columns} :
         Shown(t) = Surviving(Written(r, columns))
    \/ Shown(t) = [Surviving(Written(r, Columns)) EXCEPT !.tags = {}]

\* A torrent is edited only for its uploader or an administrator, although the
\* check is made once and the statements that follow come later, when the torrent
\* may have been deleted and uploaded again by another user.
EditStaysAuthorized ==
  [][\A r \in Requests : EditStep(r) =>
       \A t \in torrents :
         t \notin torrents' \/ TagsOf(t.torrent_id)' # TagsOf(t.torrent_id) =>
           t.uploader = asked[r].user \/ IsAdministrator(r)]_vars

\* A torrent is in the category that its upload named, although the name became
\* an id before the insertion and the category may be deleted, and another one be
\* added, in between.
UploadKeepsItsCategory ==
  \A r \in Requests : response[r] = "ok" /\ asked[r].op = "upload" =>
    \A t \in TorrentsWithId(tid[r]) : \A c \in categories :
      t.category = c.category_id /\ cid[r] = c.category_id => c.name = asked[r].category

=============================================================================
