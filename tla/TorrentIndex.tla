---------------------------- MODULE TorrentIndex ----------------------------
(***************************************************************************)
(* Uploading and deleting torrents (services/torrent.rs), served           *)
(* concurrently.  Every await in a handler is a point where other requests *)
(* run: a handler is a sequence of steps, each of which makes one query,   *)
(* one transaction or one wait for the tracker.                            *)
(*                                                                         *)
(* A request is served once; a client that tries again is another request. *)
(***************************************************************************)
EXTENDS TorrentTables, TrackerApi, FiniteSets

CONSTANTS
  MaxInFlight,  \* how many requests the server works on at the same time
  Faults        \* the failures that can happen

FaultKinds == {"commit", "database", "tracker", "abandon"}

ASSUME FaultsAssumption == Faults \subseteq FaultKinds

VARIABLES
  pc,         \* where the handler of a request is
  request,    \* what the client asks for
  tid,        \* the handler's local torrent_id; 0 before it has one
  response    \* what the client was answered

handlers == <<pc, request, tid, response>>
vars == <<tables, tracker, handlers>>

UploadRequest == [op : {"upload"}, info_hash : Hashes, title : Titles]
DeleteRequest == [op : {"delete"}, info_hash : Hashes]
NoRequest == [op |-> "none"]

UploadSteps == {"check_group", "associate", "insert", "import", "whitelist", "compensate"}
DeleteSteps == {"authorize", "lookup", "delete", "unlist"}

Refusals == {"rejected", "info_hash_exists", "canonical_exists", "torrent_exists",
             "title_exists", "error", "tracker_error", "unauthorized", "not_found"}

HandlersTypeOK ==
  /\ pc \in [Requests -> {"idle", "done"} \cup UploadSteps \cup DeleteSteps]
  /\ request \in [Requests -> UploadRequest \cup DeleteRequest \cup {NoRequest}]
  /\ tid \in [Requests -> Nat]
  /\ response \in [Requests -> {"none", "created", "deleted", "abandoned"} \cup Refusals]

TypeOK == TablesTypeOK /\ TrackerTypeOK /\ HandlersTypeOK

Init ==
  /\ TablesInit
  /\ TrackerInit
  /\ pc = [r \in Requests |-> "idle"]
  /\ request = [r \in Requests |-> NoRequest]
  /\ tid = [r \in Requests |-> 0]
  /\ response = [r \in Requests |-> "none"]

-----------------------------------------------------------------------------

InFlight == {r \in Requests : pc[r] \notin {"idle", "done"}}

GoTo(r, step) ==
  /\ pc' = [pc EXCEPT ![r] = step]
  /\ UNCHANGED response

Answer(r, answer) ==
  /\ pc' = [pc EXCEPT ![r] = "done"]
  /\ response' = [response EXCEPT ![r] = answer]

\* The hash the torrent of an upload is indexed under.
CanonicalOf(r) == Canonical[request[r].info_hash]

Submit(r, what, step) ==
  /\ pc[r] = "idle"
  /\ Cardinality(InFlight) < MaxInFlight
  /\ request' = [request EXCEPT ![r] = what]
  /\ GoTo(r, step)
  /\ UNCHANGED <<tables, tracker, tid>>

-----------------------------------------------------------------------------
(* add_torrent *)

SubmitUpload(r) == \E what \in UploadRequest : Submit(r, what, "check_group")

\* The uploader, the category, the title or the file is not valid.
RejectUpload(r) ==
  /\ pc[r] = "check_group"
  /\ Answer(r, "rejected")
  /\ UNCHANGED <<tables, tracker, request, tid>>

\* canonical_info_hash_group_checks, the query.
CheckGroup(r) ==
  LET originals == OriginalsOf(CanonicalOf(r)) IN
  /\ pc[r] = "check_group"
  /\ \/ originals = {} /\ GoTo(r, "insert")
     \/ request[r].info_hash \in originals /\ Answer(r, "info_hash_exists")
     \/ /\ originals # {} /\ request[r].info_hash \notin originals
        /\ GoTo(r, "associate")
  /\ UNCHANGED <<tables, tracker, request, tid>>

\* canonical_info_hash_group_checks, adding the new original to the group: the
\* upload is refused, and remembered as another name of an indexed torrent.
AssociateOriginal(r) ==
  /\ pc[r] = "associate"
  /\ \/ AddInfoHash(request[r].info_hash) /\ Answer(r, "canonical_exists")
     \/ ~CanAddInfoHash(request[r].info_hash) /\ Answer(r, "error") /\ UNCHANGED tables
  /\ UNCHANGED <<tracker, request, tid>>

InsertTorrent(r) ==
  /\ pc[r] = "insert"
  /\ InsertTorrentRows(request[r].info_hash, request[r].title)
  /\ tid' = [tid EXCEPT ![r] = nextId]
  /\ GoTo(r, "import")
  /\ UNCHANGED <<tracker, request>>

\* The transaction runs into a constraint; "error" also stands for a tag or a
\* category that is not (or no longer) there.
RefuseInsert(r) ==
  LET conflict == InsertConflict(request[r].info_hash, request[r].title) IN
  /\ pc[r] = "insert"
  /\ RollbackTorrentRows
  /\ \E answer \in {conflict, "error"} \ {"none"} : Answer(r, answer)
  /\ UNCHANGED <<tracker, request, tid>>

\* The COMMIT fails: its result is dropped, and the handler goes on with an id
\* of which no row exists.
LoseCommit(r) ==
  /\ "commit" \in Faults
  /\ pc[r] = "insert"
  /\ InsertConflict(request[r].info_hash, request[r].title) = "none"
  /\ RollbackTorrentRows
  /\ tid' = [tid EXCEPT ![r] = nextId]
  /\ GoTo(r, "import")
  /\ UNCHANGED <<tracker, request>>

\* import_torrent_statistics_from_tracker, whose result is dropped, then the
\* whitelist call is sent.
ImportStatistics(r) ==
  /\ pc[r] = "import"
  /\ \/ ReplaceStats(tid[r], CanonicalOf(r))
     \/ ReplaceStats(tid[r], Zeros)
  /\ SendCall(r, "add", CanonicalOf(r))
  /\ GoTo(r, "whitelist")
  /\ UNCHANGED <<request, tid>>

\* Mutant: the upload is confirmed without waiting for the tracker.
ConfirmUpload_Early(r) ==
  /\ pc[r] = "whitelist"
  /\ Answer(r, "created")
  /\ UNCHANGED <<tables, tracker, request, tid>>

ConfirmUpload(r) ==
  /\ pc[r] = "whitelist"
  /\ Applied(r)
  /\ Answer(r, "created")
  /\ UNCHANGED <<tables, tracker, request, tid>>

\* Mutant: no timeout, only a call that is lost ends the wait.
GiveUpWhitelisting_NoTimeout(r) ==
  /\ "tracker" \in Faults
  /\ pc[r] = "whitelist"
  /\ call[r].status = "lost"
  /\ GoTo(r, "compensate")
  /\ UNCHANGED <<tables, tracker, request, tid>>

\* Mutant: the error is returned before the torrent is deleted again.
GiveUpWhitelisting_KeepTorrent(r) ==
  /\ "tracker" \in Faults
  /\ pc[r] = "whitelist"
  /\ Answer(r, "tracker_error")
  /\ UNCHANGED <<tables, tracker, request, tid>>

\* whitelist_info_hash returns an error: five seconds passed, the connection
\* broke, or the answer is not the expected one.  The tracker may have added
\* the hash all the same, or may still do so.
GiveUpWhitelisting(r) ==
  /\ "tracker" \in Faults
  /\ pc[r] = "whitelist"
  /\ GoTo(r, "compensate")
  /\ UNCHANGED <<tables, tracker, request, tid>>

\* Mutant: the torrent is deleted by its hash instead of its id.
Compensate_ByHash(r) ==
  /\ pc[r] = "compensate"
  /\ IF CanonicalOf(r) \in IndexedHashes
     THEN \E t \in TorrentsWithHash(CanonicalOf(r)) : DeleteTorrentRows(t.torrent_id)
     ELSE UNCHANGED tables
  /\ Answer(r, "tracker_error")
  /\ UNCHANGED <<tracker, request, tid>>

\* The torrent that cannot be whitelisted is deleted again ...
Compensate(r) ==
  /\ pc[r] = "compensate"
  /\ DeleteTorrentRows(tid[r])
  /\ Answer(r, "tracker_error")
  /\ UNCHANGED <<tracker, request, tid>>

\* ... and an error in deleting it is dropped.
FailToCompensate(r) ==
  /\ "database" \in Faults
  /\ pc[r] = "compensate"
  /\ Answer(r, "tracker_error")
  /\ UNCHANGED <<tables, tracker, request, tid>>

-----------------------------------------------------------------------------
(* delete_torrent *)

SubmitDelete(r) == \E what \in DeleteRequest : Submit(r, what, "authorize")

\* Only administrators delete torrents.
Authorize(r) ==
  /\ pc[r] = "authorize"
  /\ GoTo(r, "lookup") \/ Answer(r, "unauthorized")
  /\ UNCHANGED <<tables, tracker, request, tid>>

\* one_torrent_by_info_hash: by the canonical hash only.
LookUpTorrent(r) ==
  LET found == TorrentsWithHash(request[r].info_hash) IN
  /\ pc[r] = "lookup"
  /\ \/ \E t \in found : tid' = [tid EXCEPT ![r] = t.torrent_id] /\ GoTo(r, "delete")
     \/ found = {} /\ Answer(r, "not_found") /\ UNCHANGED tid
  /\ UNCHANGED <<tables, tracker, request>>

\* The row is deleted and the removal from the whitelist is sent.
DeleteTorrent(r) ==
  /\ pc[r] = "delete"
  /\ DeleteTorrentRows(tid[r])
  /\ \/ /\ TorrentsWithId(tid[r]) # {}
        /\ SendCall(r, "remove", request[r].info_hash)
        /\ GoTo(r, "unlist")
     \/ /\ TorrentsWithId(tid[r]) = {}
        /\ Answer(r, "not_found")
        /\ UNCHANGED tracker
  /\ UNCHANGED <<request, tid>>

\* The result of the removal is dropped: an answer or a failure, all the same.
ConfirmDelete(r) ==
  /\ pc[r] = "unlist"
  /\ Applied(r) \/ "tracker" \in Faults
  /\ Answer(r, "deleted")
  /\ UNCHANGED <<tables, tracker, request, tid>>

-----------------------------------------------------------------------------
(* Failures *)

\* A query or a transaction fails and the handler returns the error.
FailInDatabase(r) ==
  /\ "database" \in Faults
  /\ pc[r] \in {"check_group", "associate", "insert", "authorize", "lookup", "delete"}
  /\ Answer(r, "error")
  /\ UNCHANGED <<tables, tracker, request, tid>>

\* The process stops, or the client disconnects and the server drops the
\* handler at the await where it is.
Abandon(r) ==
  /\ "abandon" \in Faults
  /\ r \in InFlight
  /\ Answer(r, "abandoned")
  /\ UNCHANGED <<tables, tracker, request, tid>>

TrackerStep(r) ==
  /\ \/ TrackerApplies(r)
     \/ /\ "tracker" \in Faults \/ response[r] = "abandoned"
        /\ TrackerLoses(r)
  /\ UNCHANGED <<tables, handlers>>

\* Nothing is left to do.
Served ==
  /\ \A r \in Requests : pc[r] = "done" /\ ~Pending(r)
  /\ UNCHANGED vars

UploadStep(r) ==
  \/ RejectUpload(r) \/ CheckGroup(r) \/ AssociateOriginal(r)
  \/ InsertTorrent(r) \/ RefuseInsert(r) \/ LoseCommit(r)
  \/ ImportStatistics(r) \/ ConfirmUpload(r) \/ GiveUpWhitelisting(r)
  \/ Compensate(r) \/ FailToCompensate(r)

DeleteStep(r) ==
  Authorize(r) \/ LookUpTorrent(r) \/ DeleteTorrent(r) \/ ConfirmDelete(r)

HandlerStep(r) == UploadStep(r) \/ DeleteStep(r) \/ FailInDatabase(r)

Next ==
  \/ \E r \in Requests :
       \/ SubmitUpload(r) \/ SubmitDelete(r)
       \/ HandlerStep(r) \/ Abandon(r) \/ TrackerStep(r)
  \/ Served

Spec == Init /\ [][Next]_vars

\* The runtime polls every handler that can go on.
FairSpec == Spec /\ \A r \in Requests : WF_vars(HandlerStep(r))

-----------------------------------------------------------------------------
(* What the tables promise *)

\* The keys that the code looks rows up by are keys: the schema's UNIQUE and
\* PRIMARY KEY columns, and ids that are never handed out while still in use.
KeysAreUnique ==
  /\ \A t, u \in torrents :
       \/ t.torrent_id = u.torrent_id \/ t.info_hash = u.info_hash \/ t.title = u.title
       => t = u
  /\ \A x, y \in infoHashes : x.info_hash = y.info_hash => x = y
  /\ \A s, u \in stats : s.torrent_id = u.torrent_id => s = u
  /\ \A t \in torrents : t.torrent_id \in 1 .. (nextId - 1)

\* The group checks of add_torrent look for a canonical hash in
\* torrust_torrent_info_hashes and never in torrust_torrents: that is right only
\* because a torrent is indexed exactly when its group has an original, whatever
\* uploads, deletions and failures overlap.  An original leads to the canonical
\* hash it was uploaded with.
GroupsMatchIndex ==
  /\ \A t \in torrents : OriginalsOf(t.info_hash) # {}
  /\ \A row \in infoHashes :
       /\ row.canonical_info_hash \in IndexedHashes
       /\ row.canonical_info_hash = Canonical[row.info_hash]

\* The tables of torrents and of info-hashes, changed by separate statements of
\* overlapping requests, implement the catalogue of Catalogue.tla: every commit
\* publishes, renames or withdraws one torrent with all its originals.
catalogueOfTables == [c \in IndexedHashes |-> OriginalsOf(c)]

Promise == INSTANCE Catalogue WITH catalogue <- catalogueOfTables

RefinesCatalogue == Promise!Spec

-----------------------------------------------------------------------------
(* What the answers promise *)

DeletedBy(d, id) ==
  request[d].op = "delete" /\ tid[d] = id /\ call[d].kind # "none"

\* An upload that was answered with success is in the index until an
\* administrator deletes it: no failure and no other upload takes it away.
AckedUploadIsListed ==
  \A r \in Requests : response[r] = "created" =>
    \/ \E t \in torrents : t.torrent_id = tid[r] /\ t.info_hash = CanonicalOf(r)
    \/ \E d \in Requests : DeletedBy(d, tid[r])

\* An upload that was answered with success is on the tracker's whitelist, unless
\* the removal that belongs to a deletion of the same hash reached the tracker.
AckedUploadIsWhitelisted ==
  \A r \in Requests : response[r] = "created" =>
    \/ CanonicalOf(r) \in whitelist
    \/ \E d \in Requests : /\ request[d].op = "delete"
                           /\ request[d].info_hash = CanonicalOf(r)
                           /\ Applied(d)

\* An upload that was answered with an error leaves no torrent: what it inserted
\* before the failure was rolled back or deleted again (torrent.rs:165).
RefusedUploadIsNotListed ==
  \A r \in Requests : response[r] \in Refusals /\ request[r].op = "upload" =>
    \A t \in torrents : t.torrent_id # tid[r]

\* A step of an upload never removes a torrent other than the one of that upload:
\* "remove the torrent from database" (torrent.rs:166) means the torrent that
\* could not be whitelisted.
UploadRemovesOnlyItsOwn ==
  [][\A r \in Requests : UploadStep(r) =>
       \A t \in torrents \ torrents' : t.info_hash = CanonicalOf(r)]_vars

\* Every request that was submitted is answered, even when the tracker never
\* answers (the client of tracker/api.rs gives up after five seconds).
EveryRequestIsAnswered ==
  \A r \in Requests : pc[r] # "idle" ~> pc[r] = "done"

-----------------------------------------------------------------------------
(* What index and tracker promise together *)

Quiet == \A r \in Requests : pc[r] \in {"idle", "done"} /\ ~Pending(r)

\* "We always whitelist the torrent on the tracker" (torrent.rs:155): when
\* nothing is going on, every indexed torrent is on the whitelist.
IndexedIsWhitelisted == Quiet => IndexedHashes \subseteq whitelist

=============================================================================
