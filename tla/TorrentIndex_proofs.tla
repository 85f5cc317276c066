------------------------- MODULE TorrentIndex_proofs -------------------------
(***************************************************************************)
(* Proofs about TorrentIndex, for every set of requests, info-hashes and   *)
(* titles, every canonical form, both databases and every set of failures: *)
(* what the tables are at any time, and what the answers promise.          *)
(***************************************************************************)
EXTENDS TorrentIndex, TLAPS

USE CanonicalAssumption, DriverAssumption

-----------------------------------------------------------------------------
(* Type correctness *)

LEMMA CallsKeepTypes ==
  ASSUME TrackerTypeOK, NEW r \in Requests, NEW kind \in {"add", "remove"}, NEW hash \in Hashes,
         SendCall(r, kind, hash) \/ TrackerApplies(r) \/ TrackerLoses(r) \/ UNCHANGED tracker
  PROVE  TrackerTypeOK'
<1>1. CASE SendCall(r, kind, hash)
  BY <1>1 DEF SendCall, TrackerTypeOK, Call
<1>2. CASE TrackerApplies(r)
  BY <1>2 DEF TrackerApplies, Pending, TrackerTypeOK, Call, NoCall
<1>3. CASE TrackerLoses(r)
  BY <1>3 DEF TrackerLoses, Pending, TrackerTypeOK, Call, NoCall
<1>4. CASE UNCHANGED tracker
  BY <1>4 DEF tracker, TrackerTypeOK
<1>. QED BY <1>1, <1>2, <1>3, <1>4

\* A request that has been submitted names a hash, and an upload a title.
RequestsMatchSteps ==
  \A r \in Requests :
    /\ pc[r] \in UploadSteps => request[r] \in UploadRequest
    /\ pc[r] \in DeleteSteps => request[r] \in DeleteRequest

TypeInv == TypeOK /\ RequestsMatchSteps

LEMMA InitTypeInv == Init => TypeInv
BY DEF Init, TypeInv, TypeOK, RequestsMatchSteps, TablesInit, TablesTypeOK, TrackerInit,
       TrackerTypeOK, HandlersTypeOK, UploadSteps, DeleteSteps

\* Whatever the handlers do, the tables change by one statement at a time.
TableEffect ==
  \/ UNCHANGED tables
  \/ RollbackTorrentRows
  \/ \E hash \in Hashes, title \in Titles : InsertTorrentRows(hash, title)
  \/ \E hash \in Hashes : AddInfoHash(hash)
  \/ \E id \in Nat : DeleteTorrentRows(id)
  \/ \E id \in Nat, about \in Hashes \cup {Zeros} : ReplaceStats(id, about)

TrackerEffect(r) ==
  \/ UNCHANGED tracker
  \/ \E kind \in {"add", "remove"}, hash \in Hashes : SendCall(r, kind, hash)
  \/ TrackerApplies(r) \/ TrackerLoses(r)

\* A handler stays in the steps of its kind of request.
HandlerEffect(r) ==
  /\ UNCHANGED request
  /\ tid' \in [Requests -> Nat]
  /\ \/ \E step \in UploadSteps : pc[r] \in UploadSteps /\ GoTo(r, step)
     \/ \E step \in DeleteSteps : pc[r] \in DeleteSteps /\ GoTo(r, step)
     \/ \E answer \in {"created", "deleted", "abandoned"} \cup Refusals : Answer(r, answer)

\* The arguments of a step of an upload are well formed.
LEMMA UploadArguments ==
  ASSUME TypeInv, NEW r \in Requests, pc[r] \in UploadSteps
  PROVE  /\ request[r].info_hash \in Hashes
         /\ request[r].title \in Titles
         /\ CanonicalOf(r) \in Hashes
         /\ tid[r] \in Nat
         /\ nextId \in Nat
BY DEF TypeInv, TypeOK, RequestsMatchSteps, UploadRequest, CanonicalOf, HandlersTypeOK, TablesTypeOK

LEMMA DeleteArguments ==
  ASSUME TypeInv, NEW r \in Requests, pc[r] \in DeleteSteps
  PROVE  request[r].info_hash \in Hashes /\ tid[r] \in Nat
BY DEF TypeInv, TypeOK, RequestsMatchSteps, DeleteRequest, HandlersTypeOK

LEMMA UploadStepEffect ==
  ASSUME TypeInv, NEW r \in Requests, UploadStep(r)
  PROVE  TableEffect /\ TrackerEffect(r) /\ HandlerEffect(r)
<1>. tid \in [Requests -> Nat]
  BY DEF TypeInv, TypeOK, HandlersTypeOK
<1>. USE UploadArguments DEF UploadSteps, TableEffect, TrackerEffect, HandlerEffect, Refusals
<1>1. CASE RejectUpload(r)
  BY <1>1 DEF RejectUpload
<1>2. CASE CheckGroup(r)
  BY <1>2 DEF CheckGroup
<1>3. CASE AssociateOriginal(r)
  BY <1>3 DEF AssociateOriginal
<1>4. CASE InsertTorrent(r)
  BY <1>4 DEF InsertTorrent
<1>5. CASE RefuseInsert(r)
  BY <1>5 DEF RefuseInsert, InsertConflict
<1>6. CASE LoseCommit(r)
  BY <1>6 DEF LoseCommit
<1>7. CASE ImportStatistics(r)
  BY <1>7 DEF ImportStatistics
<1>8. CASE ConfirmUpload(r)
  BY <1>8 DEF ConfirmUpload
<1>9. CASE GiveUpWhitelisting(r)
  BY <1>9 DEF GiveUpWhitelisting
<1>10. CASE Compensate(r)
  BY <1>10 DEF Compensate
<1>11. CASE FailToCompensate(r)
  BY <1>11 DEF FailToCompensate
<1>. QED BY <1>1, <1>2, <1>3, <1>4, <1>5, <1>6, <1>7, <1>8, <1>9, <1>10, <1>11 DEF UploadStep

LEMMA DeleteStepEffect ==
  ASSUME TypeInv, NEW r \in Requests, DeleteStep(r)
  PROVE  TableEffect /\ TrackerEffect(r) /\ HandlerEffect(r)
<1>. tid \in [Requests -> Nat]
  BY DEF TypeInv, TypeOK, HandlersTypeOK
<1>. USE DeleteArguments DEF DeleteSteps, TableEffect, TrackerEffect, HandlerEffect, Refusals
<1>1. CASE Authorize(r)
  BY <1>1 DEF Authorize
<1>2. CASE LookUpTorrent(r)
  BY <1>2 DEF LookUpTorrent, TorrentsWithHash, TypeInv, TypeOK, TablesTypeOK, TorrentRow
<1>3. CASE DeleteTorrent(r)
  BY <1>3 DEF DeleteTorrent
<1>4. CASE ConfirmDelete(r)
  BY <1>4 DEF ConfirmDelete
<1>. QED BY <1>1, <1>2, <1>3, <1>4 DEF DeleteStep

LEMMA RequestStepEffect ==
  ASSUME TypeInv, NEW r \in Requests,
         HandlerStep(r) \/ Abandon(r)
  PROVE  TableEffect /\ TrackerEffect(r) /\ HandlerEffect(r)
<1>. tid \in [Requests -> Nat]
  BY DEF TypeInv, TypeOK, HandlersTypeOK
<1>1. CASE UploadStep(r)
  BY <1>1, UploadStepEffect
<1>2. CASE DeleteStep(r)
  BY <1>2, DeleteStepEffect
<1>3. CASE FailInDatabase(r)
  BY <1>3 DEF FailInDatabase, TableEffect, TrackerEffect, HandlerEffect, Refusals
<1>4. CASE Abandon(r)
  BY <1>4 DEF Abandon, TableEffect, TrackerEffect, HandlerEffect
<1>. QED BY <1>1, <1>2, <1>3, <1>4 DEF HandlerStep

LEMMA TableEffectKeepsTypes ==
  ASSUME TablesTypeOK, TableEffect
  PROVE  TablesTypeOK'
<1>1. CASE UNCHANGED tables
  BY <1>1 DEF tables, TablesTypeOK
<1>2. CASE RollbackTorrentRows
  BY <1>2 DEF RollbackTorrentRows, TablesTypeOK
<1>3. ASSUME NEW hash \in Hashes, NEW title \in Titles, InsertTorrentRows(hash, title)
      PROVE  TablesTypeOK'
  BY <1>3 DEF InsertTorrentRows, TablesTypeOK, TorrentRow, InfoHashRow
<1>4. ASSUME NEW hash \in Hashes, AddInfoHash(hash)
      PROVE  TablesTypeOK'
  BY <1>4 DEF AddInfoHash, TablesTypeOK, InfoHashRow
<1>5. ASSUME NEW id \in Nat, DeleteTorrentRows(id)
      PROVE  TablesTypeOK'
  BY <1>5 DEF DeleteTorrentRows, TablesTypeOK
<1>6. ASSUME NEW id \in Nat, NEW about \in Hashes \cup {Zeros}, ReplaceStats(id, about)
      PROVE  TablesTypeOK'
  BY <1>6 DEF ReplaceStats, TablesTypeOK, StatsRow
<1>. QED BY <1>1, <1>2, <1>3, <1>4, <1>5, <1>6 DEF TableEffect

LEMMA HandlerEffectKeepsTypes ==
  ASSUME HandlersTypeOK, RequestsMatchSteps, NEW r \in Requests, HandlerEffect(r)
  PROVE  HandlersTypeOK' /\ RequestsMatchSteps'
<1>. /\ "done" \notin UploadSteps \cup DeleteSteps
     /\ UploadSteps \cap DeleteSteps = {}
  BY DEF UploadSteps, DeleteSteps
<1>1. ASSUME NEW step \in UploadSteps, pc[r] \in UploadSteps, GoTo(r, step)
      PROVE  HandlersTypeOK' /\ RequestsMatchSteps'
  BY <1>1 DEF GoTo, HandlerEffect, HandlersTypeOK, RequestsMatchSteps
<1>2. ASSUME NEW step \in DeleteSteps, pc[r] \in DeleteSteps, GoTo(r, step)
      PROVE  HandlersTypeOK' /\ RequestsMatchSteps'
  BY <1>2 DEF GoTo, HandlerEffect, HandlersTypeOK, RequestsMatchSteps
<1>3. ASSUME NEW answer \in {"created", "deleted", "abandoned"} \cup Refusals, Answer(r, answer)
      PROVE  HandlersTypeOK' /\ RequestsMatchSteps'
  BY <1>3 DEF Answer, HandlerEffect, HandlersTypeOK, RequestsMatchSteps
<1>. QED BY <1>1, <1>2, <1>3 DEF HandlerEffect

LEMMA SubmitKeepsTypes ==
  ASSUME HandlersTypeOK, RequestsMatchSteps, NEW r \in Requests,
         SubmitUpload(r) \/ SubmitDelete(r)
  PROVE  HandlersTypeOK' /\ RequestsMatchSteps'
<1>. "check_group" \in UploadSteps \ DeleteSteps /\ "authorize" \in DeleteSteps \ UploadSteps
  BY DEF UploadSteps, DeleteSteps
<1>1. ASSUME NEW what \in UploadRequest, Submit(r, what, "check_group")
      PROVE  HandlersTypeOK' /\ RequestsMatchSteps'
  BY <1>1 DEF Submit, GoTo, HandlersTypeOK, RequestsMatchSteps
<1>2. ASSUME NEW what \in DeleteRequest, Submit(r, what, "authorize")
      PROVE  HandlersTypeOK' /\ RequestsMatchSteps'
  BY <1>2 DEF Submit, GoTo, HandlersTypeOK, RequestsMatchSteps
<1>. QED BY <1>1, <1>2 DEF SubmitUpload, SubmitDelete

\* Every step is a statement at most, and a statement by a single request.
LEMMA NextTableEffect ==
  ASSUME TypeInv, [Next]_vars
  PROVE  TableEffect
<1>1. ASSUME NEW r \in Requests, SubmitUpload(r) \/ SubmitDelete(r) \/ TrackerStep(r)
      PROVE  TableEffect
  BY <1>1 DEF SubmitUpload, SubmitDelete, Submit, TrackerStep, TableEffect
<1>2. ASSUME NEW r \in Requests, HandlerStep(r) \/ Abandon(r)
      PROVE  TableEffect
  BY <1>2, RequestStepEffect
<1>3. CASE Served \/ UNCHANGED vars
  BY <1>3 DEF Served, vars, TableEffect
<1>. QED BY <1>1, <1>2, <1>3 DEF Next

LEMMA StepKeepsTypeInv ==
  ASSUME TypeInv, [Next]_vars
  PROVE  TypeInv'
<1>. USE DEF TypeInv, TypeOK
<1>1. TablesTypeOK'
  BY NextTableEffect, TableEffectKeepsTypes
<1>2. ASSUME NEW r \in Requests, SubmitUpload(r) \/ SubmitDelete(r)
      PROVE  TypeInv'
  <2>1. UNCHANGED tracker
    BY <1>2 DEF SubmitUpload, SubmitDelete, Submit
  <2>. QED BY <1>1, <1>2, <2>1, SubmitKeepsTypes DEF tracker, TrackerTypeOK
<1>3. ASSUME NEW r \in Requests, HandlerStep(r) \/ Abandon(r)
      PROVE  TypeInv'
  <2>1. TrackerEffect(r) /\ HandlerEffect(r)
    BY <1>3, RequestStepEffect
  <2>2. TrackerTypeOK'
    <3>1. ASSUME NEW kind \in {"add", "remove"}, NEW hash \in Hashes, SendCall(r, kind, hash)
          PROVE  TrackerTypeOK'
      BY <3>1, CallsKeepTypes
    <3>2. ASSUME TrackerApplies(r) \/ TrackerLoses(r)
          PROVE  TrackerTypeOK'
      <4>1. call[r].info_hash \in Hashes
        BY <3>2 DEF TrackerApplies, TrackerLoses, Pending, TrackerTypeOK, Call, NoCall
      <4>. QED BY <3>2, <4>1, CallsKeepTypes
    <3>3. CASE UNCHANGED tracker
      BY <3>3 DEF tracker, TrackerTypeOK
    <3>. QED BY <2>1, <3>1, <3>2, <3>3 DEF TrackerEffect
  <2>3. HandlersTypeOK' /\ RequestsMatchSteps'
    BY <2>1, HandlerEffectKeepsTypes
  <2>. QED BY <1>1, <2>2, <2>3
<1>4. ASSUME NEW r \in Requests, TrackerStep(r)
      PROVE  TypeInv'
  <2>1. TrackerApplies(r) \/ TrackerLoses(r)
    BY <1>4 DEF TrackerStep
  <2>2. call[r].info_hash \in Hashes
    BY <2>1 DEF TrackerApplies, TrackerLoses, Pending, TrackerTypeOK, Call, NoCall
  <2>3. TrackerTypeOK'
    BY <2>1, <2>2, CallsKeepTypes
  <2>4. HandlersTypeOK' /\ RequestsMatchSteps'
    BY <1>4 DEF TrackerStep, handlers, HandlersTypeOK, RequestsMatchSteps
  <2>. QED BY <1>1, <2>3, <2>4
<1>5. CASE Served \/ UNCHANGED vars
  BY <1>1, <1>5 DEF Served, vars, tracker, handlers, TrackerTypeOK, HandlersTypeOK, RequestsMatchSteps
<1>. QED BY <1>2, <1>3, <1>4, <1>5 DEF Next

\* The state of the index, of the tracker and of every handler is well formed at
\* all times, and a handler works on a request of its own kind.
THEOREM TypeCorrect == Spec => []TypeOK
<1>1. TypeInv /\ [Next]_vars => TypeInv'
  BY StepKeepsTypeInv
<1>2. TypeInv => TypeOK
  BY DEF TypeInv
<1>. QED BY InitTypeInv, <1>1, <1>2, PTL DEF Spec

-----------------------------------------------------------------------------
(* Integrity of the tables *)

\* The keys of torrents and of info-hashes, and the group of every torrent, hold
\* each other up: a deletion takes the group of one torrent only because no
\* other torrent has its hash.
TablesInv == TablesTypeOK /\ KeysAreUnique /\ GroupsMatchIndex

LEMMA InitTablesInv == TablesInit => TablesInv
BY DEF TablesInit, TablesInv, TablesTypeOK, KeysAreUnique, GroupsMatchIndex

\* A torrent is indexed exactly when its group is not empty: what
\* canonical_info_hash_group_checks relies on.
LEMMA GroupTellsIndexed ==
  ASSUME TablesInv, NEW c \in Hashes
  PROVE  c \in IndexedHashes <=> OriginalsOf(c) # {}
BY DEF TablesInv, GroupsMatchIndex, IndexedHashes, OriginalsOf

LEMMA InsertKeepsTablesInv ==
  ASSUME TablesInv, NEW hash \in Hashes, NEW title \in Titles, InsertTorrentRows(hash, title)
  PROVE  TablesInv'
<1>. DEFINE t0 == [torrent_id |-> nextId, info_hash |-> Canonical[hash], title |-> title]
            row0 == [info_hash |-> hash, canonical_info_hash |-> Canonical[hash]]
<1>1. /\ Canonical[hash] \notin IndexedHashes
      /\ hash \notin KnownOriginals
      /\ \A t \in torrents : t.title # title
  BY DEF InsertTorrentRows, InsertConflict
<1>2. /\ torrents' = torrents \cup {t0} /\ infoHashes' = infoHashes \cup {row0}
      /\ nextId' = nextId + 1 /\ stats' = stats
  BY DEF InsertTorrentRows
<1>3. TablesTypeOK'
  BY TableEffectKeepsTypes DEF TablesInv, TableEffect
<1>4. KeysAreUnique'
  BY <1>1, <1>2 DEF TablesInv, TablesTypeOK, KeysAreUnique, IndexedHashes, KnownOriginals, TorrentRow
<1>5. t0 \in torrents' /\ row0 \in infoHashes' /\ torrents \subseteq torrents' /\ infoHashes \subseteq infoHashes'
  BY <1>2
<1>6. t0.info_hash = Canonical[hash] /\ row0.info_hash = hash /\ row0.canonical_info_hash = Canonical[hash]
  OBVIOUS
<1>. HIDE DEF t0, row0
<1>7. \A t \in torrents' : OriginalsOf(t.info_hash)' # {}
  BY <1>2, <1>5, <1>6 DEF TablesInv, GroupsMatchIndex, OriginalsOf
<1>8. \A row \in infoHashes' : /\ row.canonical_info_hash \in IndexedHashes'
                              /\ row.canonical_info_hash = Canonical[row.info_hash]
  BY <1>2, <1>5, <1>6 DEF TablesInv, GroupsMatchIndex, IndexedHashes
<1>. QED BY <1>3, <1>4, <1>7, <1>8 DEF TablesInv, GroupsMatchIndex

LEMMA AddInfoHashKeepsTablesInv ==
  ASSUME TablesInv, NEW hash \in Hashes, AddInfoHash(hash)
  PROVE  TablesInv'
<1>1. TablesTypeOK'
  BY TableEffectKeepsTypes DEF TablesInv, TableEffect
<1>2. KeysAreUnique'
  BY DEF AddInfoHash, CanAddInfoHash, TablesInv, KeysAreUnique, KnownOriginals
<1>3. GroupsMatchIndex'
  BY DEF AddInfoHash, CanAddInfoHash, TablesInv, GroupsMatchIndex, IndexedHashes, OriginalsOf
<1>. QED BY <1>1, <1>2, <1>3 DEF TablesInv

LEMMA DeleteKeepsTablesInv ==
  ASSUME TablesInv, NEW id \in Nat, DeleteTorrentRows(id)
  PROVE  TablesInv'
<1>1. TablesTypeOK'
  BY TableEffectKeepsTypes DEF TablesInv, TableEffect
<1>2. KeysAreUnique'
  BY DEF DeleteTorrentRows, TablesInv, KeysAreUnique
<1>3. ASSUME NEW t \in torrents'
      PROVE  OriginalsOf(t.info_hash)' # {}
  <2>1. t \in torrents /\ t.torrent_id # id
    BY <1>3 DEF DeleteTorrentRows, TorrentsWithId
  <2>2. PICK row \in infoHashes : row.canonical_info_hash = t.info_hash
    BY <2>1 DEF TablesInv, GroupsMatchIndex, OriginalsOf
  <2>3. \A u \in TorrentsWithId(id) : u.info_hash # t.info_hash
    BY <2>1 DEF TablesInv, KeysAreUnique, TorrentsWithId
  <2>4. row \in infoHashes'
    BY <2>2, <2>3 DEF DeleteTorrentRows
  <2>. QED BY <2>2, <2>4 DEF OriginalsOf
<1>4. ASSUME NEW row \in infoHashes'
      PROVE  row.canonical_info_hash \in IndexedHashes'
  <2>1. /\ row \in infoHashes
        /\ \A u \in TorrentsWithId(id) : u.info_hash # row.canonical_info_hash
    BY <1>4 DEF DeleteTorrentRows
  <2>2. PICK t \in torrents : t.info_hash = row.canonical_info_hash
    BY <2>1 DEF TablesInv, GroupsMatchIndex, IndexedHashes
  <2>3. t \in torrents'
    BY <2>1, <2>2 DEF DeleteTorrentRows
  <2>. QED BY <2>2, <2>3 DEF IndexedHashes
<1>5. \A row \in infoHashes' : row.canonical_info_hash = Canonical[row.info_hash]
  BY DEF DeleteTorrentRows, TablesInv, GroupsMatchIndex
<1>. QED BY <1>1, <1>2, <1>3, <1>4, <1>5 DEF TablesInv, GroupsMatchIndex

LEMMA TableEffectKeepsTablesInv ==
  ASSUME TablesInv, TableEffect
  PROVE  TablesInv'
<1>0. TablesTypeOK'
  BY TableEffectKeepsTypes DEF TablesInv
<1>1. CASE UNCHANGED tables
  BY <1>0, <1>1 DEF tables, TablesInv, KeysAreUnique, GroupsMatchIndex, IndexedHashes, OriginalsOf
<1>2. CASE RollbackTorrentRows
  BY <1>0, <1>2 DEF RollbackTorrentRows, TablesInv, TablesTypeOK, KeysAreUnique, GroupsMatchIndex,
                    IndexedHashes, OriginalsOf
<1>3. ASSUME NEW id \in Nat, NEW about \in Hashes \cup {Zeros}, ReplaceStats(id, about)
      PROVE  TablesInv'
  BY <1>0, <1>3 DEF ReplaceStats, TablesInv, KeysAreUnique, GroupsMatchIndex, IndexedHashes, OriginalsOf
<1>. QED BY <1>1, <1>2, <1>3, InsertKeepsTablesInv, AddInfoHashKeepsTablesInv, DeleteKeepsTablesInv
         DEF TableEffect

LEMMA TablesInvariant == Spec => []TablesInv
<1>1. Init => TablesInv
  BY InitTablesInv DEF Init
<1>2. TypeInv /\ TablesInv /\ [Next]_vars => TablesInv'
  BY NextTableEffect, TableEffectKeepsTablesInv
<1>3. TypeInv /\ [Next]_vars => TypeInv'
  BY StepKeepsTypeInv
<1>. QED BY <1>1, <1>2, <1>3, InitTypeInv, PTL DEF Spec

\* Two torrents never share an id, an info-hash or a title, and an original
\* belongs to one group.
THEOREM KeysStayUnique == Spec => []KeysAreUnique
<1>. TablesInv => KeysAreUnique
  BY DEF TablesInv
<1>. QED BY TablesInvariant, PTL

\* A torrent is indexed exactly when its group has an original, and every
\* original leads to the indexed torrent it is a form of.
THEOREM GroupsAlwaysMatchIndex == Spec => []GroupsMatchIndex
<1>. TablesInv => GroupsMatchIndex
  BY DEF TablesInv
<1>. QED BY TablesInvariant, PTL

-----------------------------------------------------------------------------
(* The tables implement the catalogue *)

\* A new row adds its original to the group of its canonical hash only.
LEMMA NewRowJoinsGroup ==
  ASSUME NEW hash, NEW C,
         infoHashes' = infoHashes \cup {[info_hash |-> hash, canonical_info_hash |-> C]}
  PROVE  /\ OriginalsOf(C)' = OriginalsOf(C) \cup {hash}
         /\ \A c : c # C => OriginalsOf(c)' = OriginalsOf(c)
<1>. DEFINE row0 == [info_hash |-> hash, canonical_info_hash |-> C]
<1>1. row0.info_hash = hash /\ row0.canonical_info_hash = C
  OBVIOUS
<1>2. infoHashes' = infoHashes \cup {row0}
  OBVIOUS
<1>. HIDE DEF row0
<1>3. {x \in infoHashes' : x.canonical_info_hash = C}
        = {x \in infoHashes : x.canonical_info_hash = C} \cup {row0}
  BY <1>1, <1>2
<1>4. ASSUME NEW c, c # C
      PROVE  {x \in infoHashes' : x.canonical_info_hash = c}
               = {x \in infoHashes : x.canonical_info_hash = c}
  BY <1>1, <1>2, <1>4
<1>5. OriginalsOf(C)' = OriginalsOf(C) \cup {hash}
  <2>1. ASSUME NEW h PROVE h \in OriginalsOf(C)' <=> h \in OriginalsOf(C) \cup {hash}
    BY <1>1, <1>3, Zenon DEF OriginalsOf
  <2>. QED BY <2>1
<1>6. ASSUME NEW c, c # C PROVE OriginalsOf(c)' = OriginalsOf(c)
  BY <1>4, <1>6 DEF OriginalsOf
<1>. QED BY <1>5, <1>6

LEMMA NewTorrentIsIndexed ==
  ASSUME NEW hash, NEW title, InsertTorrentRows(hash, title)
  PROVE  IndexedHashes' = IndexedHashes \cup {Canonical[hash]}
<1>. DEFINE t0 == [torrent_id |-> nextId, info_hash |-> Canonical[hash], title |-> title]
<1>1. torrents' = torrents \cup {t0} /\ t0.info_hash = Canonical[hash]
  BY DEF InsertTorrentRows
<1>. HIDE DEF t0
<1>2. ASSUME NEW h PROVE h \in IndexedHashes' <=> h \in IndexedHashes \cup {Canonical[hash]}
  BY <1>1, Zenon DEF IndexedHashes
<1>. QED BY <1>2

LEMMA InsertPublishes ==
  ASSUME TablesInv, NEW hash \in Hashes, NEW title \in Titles, InsertTorrentRows(hash, title)
  PROVE  Promise!Publish(Canonical[hash], hash)
<1>. DEFINE C == Canonical[hash]
<1>1. C \in Hashes /\ C \notin IndexedHashes /\ hash \notin KnownOriginals
  BY DEF InsertTorrentRows, InsertConflict
<1>2. IndexedHashes' = IndexedHashes \cup {C}
  BY NewTorrentIsIndexed
<1>3. OriginalsOf(C) = {}
  BY <1>1, GroupTellsIndexed
<1>4. /\ OriginalsOf(C)' = {hash}
      /\ \A c \in IndexedHashes : OriginalsOf(c)' = OriginalsOf(c)
  BY <1>1, <1>3, NewRowJoinsGroup DEF InsertTorrentRows
<1>5. DOMAIN catalogueOfTables = IndexedHashes
  BY DEF catalogueOfTables
<1>6. Promise!IsNew(hash)
  BY <1>1 DEF Promise!IsNew, catalogueOfTables, OriginalsOf, KnownOriginals
<1>7. catalogueOfTables' = [c \in IndexedHashes \cup {C} |->
                              IF c = C THEN {hash} ELSE catalogueOfTables[c]]
  BY <1>1, <1>2, <1>4 DEF catalogueOfTables
<1>. QED BY <1>1, <1>5, <1>6, <1>7 DEF Promise!Publish

LEMMA AddInfoHashAssociates ==
  ASSUME TablesInv, NEW hash \in Hashes, AddInfoHash(hash)
  PROVE  Promise!Associate(Canonical[hash], hash)
<1>. DEFINE C == Canonical[hash]
<1>1. C \in IndexedHashes /\ hash \notin KnownOriginals
  BY DEF AddInfoHash, CanAddInfoHash
<1>2. IndexedHashes' = IndexedHashes
  BY DEF AddInfoHash, IndexedHashes
<1>3. /\ OriginalsOf(C)' = OriginalsOf(C) \cup {hash}
      /\ \A c \in IndexedHashes \ {C} : OriginalsOf(c)' = OriginalsOf(c)
  BY NewRowJoinsGroup DEF AddInfoHash
<1>4. DOMAIN catalogueOfTables = IndexedHashes
  BY DEF catalogueOfTables
<1>5. Promise!IsNew(hash)
  BY <1>1 DEF Promise!IsNew, catalogueOfTables, OriginalsOf, KnownOriginals
<1>6. catalogueOfTables' = [catalogueOfTables EXCEPT ![C] = @ \cup {hash}]
  BY <1>1, <1>2, <1>3 DEF catalogueOfTables
<1>. QED BY <1>1, <1>4, <1>5, <1>6 DEF Promise!Associate

LEMMA DeleteWithdraws ==
  ASSUME TablesInv, NEW id \in Nat, DeleteTorrentRows(id)
  PROVE  \/ \E c \in Hashes : Promise!Withdraw(c)
         \/ catalogueOfTables' = catalogueOfTables
<1>1. CASE TorrentsWithId(id) = {}
  <2>1. torrents' = torrents /\ infoHashes' = infoHashes
    BY <1>1 DEF DeleteTorrentRows
  <2>. QED BY <2>1 DEF catalogueOfTables, IndexedHashes, OriginalsOf
<1>2. ASSUME NEW t \in TorrentsWithId(id)
      PROVE  Promise!Withdraw(t.info_hash) /\ t.info_hash \in Hashes
  <2>. DEFINE C == t.info_hash
  <2>1. TorrentsWithId(id) = {t} /\ t \in torrents
    BY DEF TablesInv, KeysAreUnique, TorrentsWithId
  <2>2. C \in Hashes /\ C \in IndexedHashes
    BY <2>1 DEF TablesInv, TablesTypeOK, TorrentRow, IndexedHashes
  <2>3. torrents' = torrents \ {t}
    BY <2>1 DEF DeleteTorrentRows
  <2>4. infoHashes' = {row \in infoHashes : row.canonical_info_hash # C}
    BY <2>1 DEF DeleteTorrentRows
  <2>5. \A u \in torrents' : u.info_hash # C
    BY <2>1, <2>3 DEF TablesInv, KeysAreUnique
  <2>6. IndexedHashes' = IndexedHashes \ {C}
    BY <2>1, <2>3, <2>5 DEF IndexedHashes
  <2>7. \A c \in IndexedHashes \ {C} : OriginalsOf(c)' = OriginalsOf(c)
    BY <2>4 DEF OriginalsOf
  <2>8. catalogueOfTables' = [c \in IndexedHashes \ {C} |-> catalogueOfTables[c]]
    BY <2>6, <2>7 DEF catalogueOfTables
  <2>. QED BY <2>2, <2>8 DEF Promise!Withdraw, catalogueOfTables
<1>. QED BY <1>1, <1>2

LEMMA TableEffectRefines ==
  ASSUME TablesInv, TableEffect
  PROVE  [Promise!Next]_catalogueOfTables
<1>1. CASE torrents' = torrents /\ infoHashes' = infoHashes
  BY <1>1 DEF catalogueOfTables, IndexedHashes, OriginalsOf
<1>2. ASSUME NEW hash \in Hashes, NEW title \in Titles, InsertTorrentRows(hash, title)
      PROVE  Promise!Next
  BY <1>2, InsertPublishes DEF Promise!Next
<1>3. ASSUME NEW hash \in Hashes, AddInfoHash(hash)
      PROVE  Promise!Next
  BY <1>3, AddInfoHashAssociates DEF Promise!Next
<1>4. ASSUME NEW id \in Nat, DeleteTorrentRows(id)
      PROVE  [Promise!Next]_catalogueOfTables
  BY <1>4, DeleteWithdraws DEF Promise!Next
<1>. QED BY <1>1, <1>2, <1>3, <1>4
         DEF TableEffect, tables, RollbackTorrentRows, ReplaceStats

\* The tables, changed by overlapping uploads and deletions that fail anywhere,
\* implement the catalogue: an upload publishes a torrent or one more original,
\* and a deletion withdraws one torrent with all its originals.
THEOREM TablesImplementCatalogue == Spec => RefinesCatalogue
<1>1. Init => Promise!Init
  BY DEF Init, TablesInit, Promise!Init, catalogueOfTables, IndexedHashes
<1>2. TypeInv /\ TablesInv /\ [Next]_vars => [Promise!Next]_catalogueOfTables
  BY NextTableEffect, TableEffectRefines
<1>3. TypeInv /\ [Next]_vars => TypeInv'
  BY StepKeepsTypeInv
<1>. QED BY <1>1, <1>2, <1>3, InitTypeInv, TablesInvariant, PTL
         DEF Spec, RefinesCatalogue, Promise!Spec

-----------------------------------------------------------------------------
(* What answers promise: a handler holds the id of its torrent across three awaits, *)
(* while other requests delete torrents and insert them.                          *)

\* SQLite hands the id of a lost COMMIT out again: the one case left out.
CommitsAreKept == ~ ("commit" \in Faults /\ RollbackFreesId)

\* Requests that hold the id of a torrent they inserted.
HoldsId(r) == pc[r] \in {"import", "whitelist", "compensate"} \/ response[r] = "created"

\* The id means the request's own torrent, and no other request holds it.
IdsAreOwn ==
  \A r \in Requests : HoldsId(r) =>
    /\ tid[r] < nextId
    /\ \A t \in torrents : t.torrent_id = tid[r] => t.info_hash = CanonicalOf(r)
    /\ \A q \in Requests \ {r} : HoldsId(q) => tid[q] # tid[r]

AckedAreDone == \A r \in Requests : response[r] = "created" => pc[r] = "done"

\* A request that has made its whitelist call inserts and deletes no more.
CallsFollowSteps ==
  \A r \in Requests : call[r].kind # "none" =>
    pc[r] \in {"whitelist", "compensate", "unlist", "done"}

IdsInv == TypeInv /\ TablesInv /\ IdsAreOwn /\ AckedAreDone /\ CallsFollowSteps

\* Requests whose torrent is to stay, unless a deletion was asked for.
Keeps(r) == pc[r] \in {"import", "whitelist"} \/ response[r] = "created"

IsListed(r) ==
  \/ \E t \in torrents : t.torrent_id = tid[r]
  \/ \E d \in Requests : DeletedBy(d, tid[r])

KeptAreListed == \A r \in Requests : Keeps(r) => IsListed(r)

LEMMA IdsInvInit == Init => IdsInv /\ KeptAreListed
BY InitTypeInv, InitTablesInv
   DEF Init, IdsInv, IdsAreOwn, AckedAreDone, CallsFollowSteps, KeptAreListed, Keeps, HoldsId,
       TrackerInit, NoCall

-----------------------------------------------------------------------------
(* What a step does to the handlers *)

HandlerTypes ==
  /\ pc \in [Requests -> {"idle", "done"} \cup UploadSteps \cup DeleteSteps]
  /\ request \in [Requests -> UploadRequest \cup DeleteRequest \cup {NoRequest}]
  /\ tid \in [Requests -> Nat]
  /\ response \in [Requests -> {"none", "created", "deleted", "abandoned"} \cup Refusals]
  /\ call \in [Requests -> Call \cup {NoCall}]

\* Nothing of another request changes, and a request goes on with the id it
\* holds or holds none.
GoesOn(r) ==
  /\ \A q \in Requests \ {r} :
       /\ pc'[q] = pc[q] /\ request'[q] = request[q] /\ tid'[q] = tid[q]
       /\ response'[q] = response[q] /\ call'[q].kind = call[q].kind
  /\ response'[r] = "created" => pc'[r] = "done"
  /\ call'[r].kind # "none" => pc'[r] \in {"whitelist", "compensate", "unlist", "done"}

KeepsId(r) ==
  /\ HoldsId(r)' => HoldsId(r) /\ tid'[r] = tid[r] /\ request'[r] = request[r]
  /\ Keeps(r)' => Keeps(r)
  /\ request[r].op = "delete" /\ call[r].kind # "none" =>
       request'[r] = request[r] /\ tid'[r] = tid[r] /\ call'[r].kind # "none"

LEMMA InsertionGoesOn ==
  ASSUME IdsInv, NEW r \in Requests, InsertTorrent(r) \/ LoseCommit(r)
  PROVE  /\ GoesOn(r) /\ call[r].kind = "none"
         /\ pc'[r] = "import" /\ tid'[r] = nextId /\ request'[r] = request[r]
<1>1. HandlerTypes
  BY DEF IdsInv, TypeInv, TypeOK, HandlersTypeOK, TrackerTypeOK, HandlerTypes
<1>2. /\ pc[r] = "insert" /\ pc' = [pc EXCEPT ![r] = "import"]
      /\ tid' = [tid EXCEPT ![r] = nextId]
      /\ UNCHANGED <<request, response, call>>
  BY DEF InsertTorrent, LoseCommit, GoTo, tracker
<1>3. call[r].kind = "none" /\ response[r] # "created"
  BY <1>2 DEF IdsInv, CallsFollowSteps, AckedAreDone
<1> QED BY <1>1, <1>2, <1>3 DEF HandlerTypes, GoesOn

LEMMA UploadGoesOn ==
  ASSUME IdsInv, NEW r \in Requests, UploadStep(r), ~InsertTorrent(r), ~LoseCommit(r)
  PROVE  GoesOn(r) /\ KeepsId(r)
<1>1. HandlerTypes
  BY DEF IdsInv, TypeInv, TypeOK, HandlersTypeOK, TrackerTypeOK, HandlerTypes
<1>2. /\ response[r] = "created" => pc[r] = "done"
      /\ call[r].kind # "none" => pc[r] \in {"whitelist", "compensate", "unlist", "done"}
  BY DEF IdsInv, AckedAreDone, CallsFollowSteps
<1> USE <1>1, <1>2 DEF HandlerTypes, GoesOn, KeepsId, HoldsId, Keeps, GoTo, Answer, tracker
<1>3. CASE RejectUpload(r)
  BY <1>3 DEF RejectUpload
<1>4. CASE CheckGroup(r)
  BY <1>4 DEF CheckGroup
<1>5. CASE AssociateOriginal(r)
  BY <1>5 DEF AssociateOriginal
<1>6. CASE RefuseInsert(r)
  BY <1>6 DEF RefuseInsert, InsertConflict
<1>7. CASE ImportStatistics(r)
  BY <1>7 DEF ImportStatistics, SendCall
<1>8. CASE ConfirmUpload(r) \/ GiveUpWhitelisting(r)
  <2>1. request[r].op # "delete"
    BY <1>8 DEF ConfirmUpload, GiveUpWhitelisting, UploadSteps, IdsInv, TypeInv,
       RequestsMatchSteps, UploadRequest
  <2> QED BY <1>8, <2>1 DEF ConfirmUpload, GiveUpWhitelisting
<1>9. CASE Compensate(r) \/ FailToCompensate(r)
  BY <1>9 DEF Compensate, FailToCompensate
<1> QED BY <1>3, <1>4, <1>5, <1>6, <1>7, <1>8, <1>9 DEF UploadStep

LEMMA OtherStepGoesOn ==
  ASSUME IdsInv, NEW r \in Requests,
         \/ DeleteStep(r) \/ FailInDatabase(r) \/ Abandon(r) \/ TrackerStep(r)
         \/ SubmitUpload(r) \/ SubmitDelete(r)
  PROVE  GoesOn(r) /\ KeepsId(r)
<1>1. HandlerTypes
  BY DEF IdsInv, TypeInv, TypeOK, HandlersTypeOK, TrackerTypeOK, HandlerTypes
<1>2. /\ response[r] = "created" => pc[r] = "done"
      /\ call[r].kind # "none" => pc[r] \in {"whitelist", "compensate", "unlist", "done"}
  BY DEF IdsInv, AckedAreDone, CallsFollowSteps
<1> USE <1>1, <1>2 DEF HandlerTypes, GoesOn, KeepsId, HoldsId, Keeps, GoTo, Answer, tracker
<1>3. CASE Authorize(r)
  BY <1>3 DEF Authorize
<1>4. CASE LookUpTorrent(r)
  BY <1>4 DEF LookUpTorrent
<1>5. CASE DeleteTorrent(r)
  BY <1>5 DEF DeleteTorrent, SendCall
<1>6. CASE ConfirmDelete(r)
  BY <1>6 DEF ConfirmDelete
<1>7. CASE FailInDatabase(r)
  BY <1>7 DEF FailInDatabase
<1>8. CASE Abandon(r)
  BY <1>8 DEF Abandon
<1>9. CASE TrackerStep(r)
  BY <1>9 DEF TrackerStep, TrackerApplies, TrackerLoses, Pending, handlers, Call, NoCall
<1>10. CASE SubmitUpload(r) \/ SubmitDelete(r)
  BY <1>10 DEF SubmitUpload, SubmitDelete, Submit
<1> QED BY <1>3, <1>4, <1>5, <1>6, <1>7, <1>8, <1>9, <1>10 DEF DeleteStep

-----------------------------------------------------------------------------
(* What a step does to the torrents *)

LEMMA InsertionRows ==
  ASSUME CommitsAreKept, IdsInv, NEW r \in Requests, InsertTorrent(r) \/ LoseCommit(r)
  PROVE  /\ nextId' = nextId + 1
         /\ torrents \subseteq torrents'
         /\ \A t \in torrents' \ torrents :
              t.torrent_id = nextId /\ t.info_hash = CanonicalOf(r)
         /\ InsertTorrent(r) => \E t \in torrents' : t.torrent_id = nextId
<1>1. CASE InsertTorrent(r)
  <2> DEFINE row == [torrent_id |-> nextId, info_hash |-> CanonicalOf(r),
                     title |-> request[r].title]
  <2>1. nextId' = nextId + 1 /\ torrents' = torrents \cup {row}
    BY <1>1 DEF InsertTorrent, InsertTorrentRows, CanonicalOf
  <2>2. row.torrent_id = nextId /\ row.info_hash = CanonicalOf(r)
    OBVIOUS
  <2> HIDE DEF row
  <2>3. row \in torrents' /\ torrents \subseteq torrents'
    BY <2>1
  <2> QED BY <2>1, <2>2, <2>3
<1>2. CASE LoseCommit(r) /\ ~InsertTorrent(r)
  BY <1>2 DEF LoseCommit, RollbackTorrentRows, CommitsAreKept
<1> QED BY <1>1, <1>2

\* All other steps of an upload but its compensation leave the torrents alone.
LEMMA UploadRows ==
  ASSUME IdsInv, NEW r \in Requests, UploadStep(r), ~InsertTorrent(r), ~LoseCommit(r)
  PROVE  /\ nextId <= nextId'
         /\ \/ UNCHANGED torrents
            \/ Compensate(r) /\ torrents' = torrents \ TorrentsWithId(tid[r])
<1>0. nextId \in Nat
  BY DEF IdsInv, TypeInv, TypeOK, TablesTypeOK
<1>1. CASE AssociateOriginal(r)
  BY <1>0, <1>1 DEF AssociateOriginal, AddInfoHash, tables
<1>2. CASE RefuseInsert(r)
  BY <1>0, <1>2 DEF RefuseInsert, RollbackTorrentRows
<1>3. CASE ImportStatistics(r)
  BY <1>0, <1>3 DEF ImportStatistics, ReplaceStats
<1>4. CASE Compensate(r)
  BY <1>0, <1>4 DEF Compensate, DeleteTorrentRows
<1>5. CASE \/ RejectUpload(r) \/ CheckGroup(r) \/ ConfirmUpload(r)
           \/ GiveUpWhitelisting(r) \/ FailToCompensate(r)
  BY <1>0, <1>5 DEF RejectUpload, CheckGroup, ConfirmUpload, GiveUpWhitelisting,
     FailToCompensate, tables
<1> QED BY <1>1, <1>2, <1>3, <1>4, <1>5 DEF UploadStep

\* A deletion removes the torrent it looked up, and says so to the tracker.
LEMMA OtherRows ==
  ASSUME IdsInv, NEW r \in Requests,
         \/ DeleteStep(r) \/ FailInDatabase(r) \/ Abandon(r) \/ TrackerStep(r)
         \/ SubmitUpload(r) \/ SubmitDelete(r)
  PROVE  /\ nextId <= nextId'
         /\ \/ UNCHANGED torrents
            \/ /\ torrents' = torrents \ TorrentsWithId(tid[r])
               /\ DeletedBy(r, tid[r])' /\ tid'[r] = tid[r]
<1>0. nextId \in Nat
  BY DEF IdsInv, TypeInv, TypeOK, TablesTypeOK
<1>1. CASE DeleteTorrent(r)
  <2>1. /\ torrents' = torrents \ TorrentsWithId(tid[r])
        /\ UNCHANGED <<nextId, request, tid>>
    BY <1>1 DEF DeleteTorrent, DeleteTorrentRows
  <2>2. CASE TorrentsWithId(tid[r]) = {}
    BY <1>0, <2>1, <2>2
  <2>3. CASE TorrentsWithId(tid[r]) # {}
    <3>1. SendCall(r, "remove", request[r].info_hash) /\ pc[r] = "delete"
      BY <1>1, <2>3 DEF DeleteTorrent
    <3>2. request[r].op = "delete"
      BY <3>1 DEF DeleteSteps, IdsInv, TypeInv, RequestsMatchSteps, DeleteRequest
    <3>3. call \in [Requests -> Call \cup {NoCall}]
      BY DEF IdsInv, TypeInv, TypeOK, TrackerTypeOK
    <3>4. call'[r].kind = "remove"
      BY <3>1, <3>3 DEF SendCall
    <3> QED BY <1>0, <2>1, <3>2, <3>4 DEF DeletedBy
  <2> QED BY <2>2, <2>3
<1>2. CASE \/ Authorize(r) \/ LookUpTorrent(r) \/ ConfirmDelete(r) \/ FailInDatabase(r)
           \/ Abandon(r) \/ TrackerStep(r) \/ SubmitUpload(r) \/ SubmitDelete(r)
  BY <1>0, <1>2 DEF Authorize, LookUpTorrent, ConfirmDelete, FailInDatabase, Abandon,
     TrackerStep, SubmitUpload, SubmitDelete, Submit, tables
<1> QED BY <1>1, <1>2 DEF DeleteStep

-----------------------------------------------------------------------------
(* The invariants are preserved *)

LEMMA GoingOnKeepsIds ==
  ASSUME IdsInv, TypeInv', TablesInv', NEW r \in Requests, GoesOn(r), KeepsId(r),
         nextId <= nextId', torrents' \subseteq torrents
  PROVE  IdsInv'
<1>1. \A q \in Requests : HoldsId(q)' =>
        HoldsId(q) /\ tid'[q] = tid[q] /\ CanonicalOf(q)' = CanonicalOf(q)
  BY DEF GoesOn, KeepsId, HoldsId, CanonicalOf
<1>2. /\ nextId \in Nat /\ nextId' \in Nat
      /\ \A q \in Requests : tid[q] \in Nat
  BY DEF IdsInv, TypeInv, TypeOK, TablesTypeOK, HandlersTypeOK
<1>3. IdsAreOwn'
  BY <1>1, <1>2 DEF IdsInv, IdsAreOwn
<1>4. AckedAreDone' /\ CallsFollowSteps'
  BY DEF IdsInv, AckedAreDone, CallsFollowSteps, GoesOn
<1> QED BY <1>3, <1>4 DEF IdsInv

LEMMA InsertionKeepsIds ==
  ASSUME CommitsAreKept, IdsInv, TypeInv', TablesInv', NEW r \in Requests,
         InsertTorrent(r) \/ LoseCommit(r)
  PROVE  IdsInv'
<1>1. /\ GoesOn(r) /\ pc'[r] = "import" /\ tid'[r] = nextId
      /\ CanonicalOf(r)' = CanonicalOf(r)
  BY InsertionGoesOn DEF CanonicalOf
<1>2. /\ nextId' = nextId + 1 /\ nextId \in Nat
      /\ \A t \in torrents' \ torrents :
           t.torrent_id = nextId /\ t.info_hash = CanonicalOf(r)
      /\ \A t \in torrents : t.torrent_id # nextId
  BY InsertionRows DEF IdsInv, TablesInv, TablesTypeOK, KeysAreUnique
<1>3. \A q \in Requests \ {r} : HoldsId(q)' =>
        HoldsId(q) /\ tid'[q] = tid[q] /\ CanonicalOf(q)' = CanonicalOf(q)
  BY <1>1 DEF GoesOn, HoldsId, CanonicalOf
<1>4. \A q \in Requests : tid[q] \in Nat
  BY DEF IdsInv, TypeInv, TypeOK, HandlersTypeOK
<1>5. IdsAreOwn'
  <2>1. ASSUME NEW q \in Requests, HoldsId(q)'
        PROVE  /\ tid'[q] < nextId'
               /\ \A t \in torrents' : t.torrent_id = tid'[q] => t.info_hash = CanonicalOf(q)'
    <3>1. CASE q = r
      BY <1>1, <1>2, <3>1
    <3>2. CASE q # r
      BY <1>2, <1>3, <1>4, <2>1, <3>2 DEF IdsInv, IdsAreOwn
    <3> QED BY <3>1, <3>2
  <2>2. ASSUME NEW q \in Requests, HoldsId(q)', NEW p \in Requests \ {q}, HoldsId(p)'
        PROVE  tid'[p] # tid'[q]
    BY <1>1, <1>2, <1>3, <1>4, <2>2 DEF IdsInv, IdsAreOwn
  <2> QED BY <2>1, <2>2 DEF IdsAreOwn
<1>6. AckedAreDone' /\ CallsFollowSteps'
  BY <1>1 DEF IdsInv, AckedAreDone, CallsFollowSteps, GoesOn
<1> QED BY <1>5, <1>6 DEF IdsInv

LEMMA IdsInvNext ==
  ASSUME CommitsAreKept, IdsInv, [Next]_vars PROVE IdsInv'
<1>0. TypeInv' /\ TablesInv'
  BY StepKeepsTypeInv, NextTableEffect, TableEffectKeepsTablesInv DEF IdsInv
<1>1. ASSUME NEW r \in Requests, InsertTorrent(r) \/ LoseCommit(r) PROVE IdsInv'
  BY <1>0, <1>1, InsertionKeepsIds
<1>2. ASSUME NEW r \in Requests, UploadStep(r), ~InsertTorrent(r), ~LoseCommit(r)
      PROVE  IdsInv'
  BY <1>0, <1>2, UploadGoesOn, UploadRows, GoingOnKeepsIds
<1>3. ASSUME NEW r \in Requests,
             \/ DeleteStep(r) \/ FailInDatabase(r) \/ Abandon(r) \/ TrackerStep(r)
             \/ SubmitUpload(r) \/ SubmitDelete(r)
      PROVE  IdsInv'
  BY <1>0, <1>3, OtherStepGoesOn, OtherRows, GoingOnKeepsIds
<1>4. CASE Served \/ UNCHANGED vars
  BY <1>0, <1>4 DEF Served, vars, tables, tracker, handlers, IdsInv, IdsAreOwn, HoldsId,
     CanonicalOf, AckedAreDone, CallsFollowSteps
<1> QED BY <1>1, <1>2, <1>3, <1>4 DEF Next, HandlerStep

\* Unless a COMMIT is lost in SQLite, an upload whose whitelisting fails deletes
\* its own torrent and never another's, although it deletes by an id that it has
\* held since before it asked the tracker (services/torrent.rs:155-170).
THEOREM UploadsRemoveOnlyTheirOwn ==
  ASSUME CommitsAreKept
  PROVE  Spec => UploadRemovesOnlyItsOwn
<1>1. ASSUME IdsInv, NEW r \in Requests, UploadStep(r), NEW t \in torrents \ torrents'
      PROVE  t.info_hash = CanonicalOf(r)
  <2>1. ~InsertTorrent(r) /\ ~LoseCommit(r)
    BY <1>1, InsertionRows
  <2>2. Compensate(r) /\ t.torrent_id = tid[r]
    BY <1>1, <2>1, UploadRows DEF TorrentsWithId
  <2> QED BY <1>1, <2>2 DEF Compensate, IdsInv, IdsAreOwn, HoldsId
<1>2. IdsInv => [\A r \in Requests : UploadStep(r) =>
                   \A t \in torrents \ torrents' : t.info_hash = CanonicalOf(r)]_vars
  BY <1>1
<1>3. IdsInv /\ [Next]_vars => IdsInv'
  BY IdsInvNext
<1>4. Init => IdsInv
  BY IdsInvInit
<1> QED BY <1>2, <1>3, <1>4, PTL DEF Spec, UploadRemovesOnlyItsOwn

-----------------------------------------------------------------------------
(* Uploads that were answered with success *)

LEMMA KeptStayListed ==
  ASSUME "commit" \notin Faults, IdsInv, KeptAreListed, [Next]_vars PROVE KeptAreListed'
<1>0. CommitsAreKept
  BY DEF CommitsAreKept
<1>1. ASSUME NEW r \in Requests, UploadStep(r), InsertTorrent(r) \/ LoseCommit(r)
      PROVE  KeptAreListed'
  <2>1. GoesOn(r) /\ call[r].kind = "none" /\ pc'[r] = "import" /\ tid'[r] = nextId
    BY <1>1, InsertionGoesOn
  <2>2. InsertTorrent(r)
    BY <1>1 DEF LoseCommit
  <2>3. torrents \subseteq torrents' /\ \E t \in torrents' : t.torrent_id = nextId
    BY <1>0, <2>2, InsertionRows
  <2>4. \A q \in Requests \ {r} : Keeps(q)' => Keeps(q) /\ tid'[q] = tid[q]
    BY <2>1 DEF GoesOn, Keeps
  <2>5. \A d \in Requests : \A id \in Nat : DeletedBy(d, id) => DeletedBy(d, id)'
    BY <2>1 DEF GoesOn, DeletedBy
  <2>6. \A q \in Requests : tid[q] \in Nat
    BY DEF IdsInv, TypeInv, TypeOK, HandlersTypeOK
  <2> QED BY <2>1, <2>3, <2>4, <2>5, <2>6 DEF KeptAreListed, IsListed
<1>2. ASSUME NEW r \in Requests, GoesOn(r), KeepsId(r),
             \/ UNCHANGED torrents
             \/ /\ torrents' = torrents \ TorrentsWithId(tid[r])
                /\ pc[r] = "compensate" \/ (DeletedBy(r, tid[r])' /\ tid'[r] = tid[r])
      PROVE  KeptAreListed'
  <2>1. \A q \in Requests : tid[q] \in Nat
    BY DEF IdsInv, TypeInv, TypeOK, HandlersTypeOK
  <2>2. \A d \in Requests : \A id \in Nat : DeletedBy(d, id) => DeletedBy(d, id)'
    BY <1>2 DEF GoesOn, KeepsId, DeletedBy
  <2>3. ASSUME NEW q \in Requests, Keeps(q)'
        PROVE  Keeps(q) /\ HoldsId(q) /\ tid'[q] = tid[q]
    BY <1>2, <2>3 DEF GoesOn, KeepsId, Keeps, HoldsId
  <2>4. ASSUME NEW q \in Requests, Keeps(q)' PROVE IsListed(q)'
    <3>1. Keeps(q) /\ HoldsId(q) /\ tid'[q] = tid[q] /\ IsListed(q) /\ tid[q] \in Nat
      BY <2>1, <2>3, <2>4 DEF KeptAreListed
    <3>2. CASE \E d \in Requests : DeletedBy(d, tid[q])
      BY <2>2, <3>1, <3>2 DEF IsListed
    <3>3. CASE \E t \in torrents' : t.torrent_id = tid[q]
      BY <3>1, <3>3 DEF IsListed
    <3>4. CASE /\ \E t \in torrents : t.torrent_id = tid[q]
               /\ ~ \E t \in torrents' : t.torrent_id = tid[q]
      <4>1. torrents' = torrents \ TorrentsWithId(tid[r]) /\ tid[r] = tid[q]
        BY <1>2, <3>4 DEF TorrentsWithId
      <4>2. pc[r] # "compensate"
        <5>1. CASE q = r
          BY <3>1, <5>1 DEF Keeps, IdsInv, AckedAreDone
        <5>2. CASE q # r
          BY <3>1, <4>1, <5>2 DEF HoldsId, IdsInv, IdsAreOwn
        <5> QED BY <5>1, <5>2
      <4>3. DeletedBy(r, tid[r])'
        BY <1>2, <3>4, <4>2
      <4> QED BY <1>2, <3>1, <3>4, <4>1, <4>2, <4>3 DEF IsListed, DeletedBy
    <3> QED BY <3>1, <3>2, <3>3, <3>4 DEF IsListed
  <2> QED BY <2>4 DEF KeptAreListed
<1>3. ASSUME NEW r \in Requests, UploadStep(r), ~InsertTorrent(r), ~LoseCommit(r)
      PROVE  KeptAreListed'
  BY <1>2, <1>3, UploadGoesOn, UploadRows DEF Compensate
<1>4. ASSUME NEW r \in Requests,
             \/ DeleteStep(r) \/ FailInDatabase(r) \/ Abandon(r) \/ TrackerStep(r)
             \/ SubmitUpload(r) \/ SubmitDelete(r)
      PROVE  KeptAreListed'
  BY <1>2, <1>4, OtherStepGoesOn, OtherRows
<1>5. CASE Served \/ UNCHANGED vars
  BY <1>5 DEF Served, vars, tables, tracker, handlers, KeptAreListed, Keeps, IsListed, DeletedBy
<1> QED BY <1>1, <1>3, <1>4, <1>5 DEF Next, HandlerStep, UploadStep

\* Unless a COMMIT is lost, an upload that was answered with success is in the
\* index until an administrator deletes it: no other upload, no compensation and
\* no failure takes it away (services/torrent.rs:130-180).
THEOREM AckedUploadsStayListed ==
  ASSUME "commit" \notin Faults
  PROVE  Spec => []AckedUploadIsListed
<1>1. Init => IdsInv /\ KeptAreListed
  BY IdsInvInit
<1>2. IdsInv /\ KeptAreListed /\ [Next]_vars => IdsInv' /\ KeptAreListed'
  <2>1. CommitsAreKept
    BY DEF CommitsAreKept
  <2> QED BY <2>1, IdsInvNext, KeptStayListed
<1>3. IdsInv /\ KeptAreListed => AckedUploadIsListed
  BY DEF IdsInv, IdsAreOwn, HoldsId, KeptAreListed, Keeps, IsListed, AckedUploadIsListed
<1> QED BY <1>1, <1>2, <1>3, PTL DEF Spec

-----------------------------------------------------------------------------
(* Uploads that were answered with an error *)

Early == {"idle", "check_group", "associate", "insert"}

IsRefused(r) == response[r] \in Refusals /\ request[r].op = "upload"

\* A refused upload never had an id, or its id is one that no torrent has and
\* none will be given.
RefusedAreGone ==
  \A r \in Requests :
    /\ pc[r] \in Early => tid[r] = 0
    /\ response[r] \in Refusals => pc[r] = "done"
    /\ IsRefused(r) => /\ tid[r] < nextId
                       /\ \A t \in torrents : t.torrent_id # tid[r]

\* A step of a request that is refused by it, or was refused before.
LEMMA StepTowardsRefusal ==
  ASSUME "database" \notin Faults, IdsInv, RefusedAreGone, NEW r \in Requests,
         \/ UploadStep(r) \/ DeleteStep(r) \/ FailInDatabase(r) \/ Abandon(r)
         \/ TrackerStep(r) \/ SubmitUpload(r) \/ SubmitDelete(r)
  PROVE  /\ pc'[r] \in Early => pc[r] \in Early /\ tid'[r] = tid[r]
         /\ response'[r] \in Refusals => pc'[r] = "done"
         /\ IsRefused(r)' =>
              /\ tid'[r] = tid[r]
              /\ IsRefused(r) \/ tid[r] = 0 \/ Compensate(r)
<1>1. HandlerTypes
  BY DEF IdsInv, TypeInv, TypeOK, HandlersTypeOK, TrackerTypeOK, HandlerTypes
<1>2. /\ pc[r] \in Early => tid[r] = 0
      /\ response[r] \in Refusals => pc[r] = "done"
  BY DEF RefusedAreGone
<1>3. pc[r] \in DeleteSteps => request[r].op = "delete"
  BY DEF IdsInv, TypeInv, RequestsMatchSteps, DeleteRequest
<1>4. "created" \notin Refusals /\ "deleted" \notin Refusals /\ "abandoned" \notin Refusals
  BY DEF Refusals
<1> USE <1>1, <1>2, <1>4 DEF HandlerTypes, IsRefused, GoTo, Answer, Early
<1>5. CASE RejectUpload(r)
  BY <1>5 DEF RejectUpload
<1>6. CASE CheckGroup(r)
  BY <1>6 DEF CheckGroup
<1>7. CASE AssociateOriginal(r)
  BY <1>7 DEF AssociateOriginal
<1>8. CASE InsertTorrent(r) \/ LoseCommit(r)
  BY <1>8 DEF InsertTorrent, LoseCommit
<1>9. CASE RefuseInsert(r)
  BY <1>9 DEF RefuseInsert
<1>10. CASE ImportStatistics(r) \/ ConfirmUpload(r) \/ GiveUpWhitelisting(r)
  BY <1>10 DEF ImportStatistics, ConfirmUpload, GiveUpWhitelisting
<1>11. CASE Compensate(r)
  BY <1>11 DEF Compensate
<1>12. CASE DeleteStep(r)
  <2>1. pc[r] \in DeleteSteps /\ UNCHANGED request
    BY <1>12 DEF DeleteStep, Authorize, LookUpTorrent, DeleteTorrent, ConfirmDelete, DeleteSteps
  <2>2. /\ pc'[r] \notin Early
        /\ response'[r] \in Refusals => pc'[r] = "done"
    BY <1>12 DEF DeleteStep, Authorize, LookUpTorrent, DeleteTorrent, ConfirmDelete
  <2>3. ~IsRefused(r)'
    BY <1>3, <2>1
  <2> QED BY <2>2, <2>3
<1>13. CASE FailInDatabase(r) \/ FailToCompensate(r)
  BY <1>13 DEF FailInDatabase, FailToCompensate
<1>14. CASE Abandon(r)
  BY <1>14 DEF Abandon
<1>15. CASE TrackerStep(r)
  BY <1>15 DEF TrackerStep, handlers
<1>16. CASE SubmitUpload(r) \/ SubmitDelete(r)
  BY <1>16 DEF SubmitUpload, SubmitDelete, Submit
<1> QED BY <1>5, <1>6, <1>7, <1>8, <1>9, <1>10, <1>11, <1>12, <1>13, <1>14, <1>15, <1>16
    DEF UploadStep

LEMMA RefusedStayGone ==
  ASSUME CommitsAreKept, "database" \notin Faults, IdsInv, RefusedAreGone, [Next]_vars
  PROVE  RefusedAreGone'
<1>1. ASSUME NEW r \in Requests,
             \/ UploadStep(r) \/ DeleteStep(r) \/ FailInDatabase(r) \/ Abandon(r)
             \/ TrackerStep(r) \/ SubmitUpload(r) \/ SubmitDelete(r)
      PROVE  RefusedAreGone'
  <2>1. GoesOn(r)
    BY <1>1, InsertionGoesOn, UploadGoesOn, OtherStepGoesOn
  <2>2. /\ nextId \in Nat \ {0} /\ nextId' \in Nat /\ nextId <= nextId'
        /\ \A t \in torrents' : t \in torrents \/ t.torrent_id = nextId
        /\ \A t \in torrents : t.torrent_id # 0
    <3>1. nextId <= nextId' /\ \A t \in torrents' : t \in torrents \/ t.torrent_id = nextId
      <4>1. CASE InsertTorrent(r) \/ LoseCommit(r)
        BY <4>1, InsertionRows DEF IdsInv, TablesInv, TablesTypeOK
      <4>2. CASE UploadStep(r) /\ ~InsertTorrent(r) /\ ~LoseCommit(r)
        BY <4>2, UploadRows
      <4>3. CASE ~UploadStep(r)
        BY <1>1, <4>3, OtherRows
      <4> QED BY <4>1, <4>2, <4>3
    <3>2. nextId' \in Nat
      BY NextTableEffect, TableEffectKeepsTablesInv DEF IdsInv, TablesInv, TablesTypeOK
    <3> QED BY <3>1, <3>2 DEF IdsInv, TablesInv, TablesTypeOK, KeysAreUnique
  <2>3. \A q \in Requests : tid[q] \in Nat
    BY DEF IdsInv, TypeInv, TypeOK, HandlersTypeOK
  <2>4. /\ pc'[r] \in Early => tid'[r] = 0
        /\ response'[r] \in Refusals => pc'[r] = "done"
    BY <1>1, StepTowardsRefusal DEF RefusedAreGone
  <2>5. ASSUME IsRefused(r)'
        PROVE  tid'[r] < nextId' /\ \A t \in torrents' : t.torrent_id # tid'[r]
    <3>1. /\ tid'[r] = tid[r]
          /\ IsRefused(r) \/ tid[r] = 0 \/ Compensate(r)
      BY <1>1, <2>5, StepTowardsRefusal
    <3>2. CASE IsRefused(r)
      BY <2>2, <2>3, <3>1, <3>2 DEF RefusedAreGone
    <3>3. CASE tid[r] = 0
      BY <2>2, <3>1, <3>3
    <3>4. CASE Compensate(r)
      <4>1. tid[r] < nextId
        BY <3>4 DEF Compensate, IdsInv, IdsAreOwn, HoldsId
      <4>2. torrents' = torrents \ TorrentsWithId(tid[r])
        BY <3>4 DEF Compensate, DeleteTorrentRows
      <4> QED BY <2>2, <2>3, <3>1, <4>1, <4>2 DEF TorrentsWithId
    <3> QED BY <3>1, <3>2, <3>3, <3>4
  <2>6. ASSUME NEW q \in Requests \ {r}
        PROVE  /\ pc'[q] \in Early => tid'[q] = 0
               /\ response'[q] \in Refusals => pc'[q] = "done"
               /\ IsRefused(q)' => /\ tid'[q] < nextId'
                                   /\ \A t \in torrents' : t.torrent_id # tid'[q]
    <3>1. /\ pc'[q] = pc[q] /\ tid'[q] = tid[q] /\ response'[q] = response[q]
          /\ IsRefused(q)' = IsRefused(q)
      BY <2>1 DEF GoesOn, IsRefused
    <3> QED BY <2>2, <2>3, <3>1 DEF RefusedAreGone
  <2> QED BY <2>4, <2>5, <2>6 DEF RefusedAreGone
<1>2. CASE Served \/ UNCHANGED vars
  BY <1>2 DEF Served, vars, tables, handlers, RefusedAreGone, IsRefused
<1> QED BY <1>1, <1>2 DEF Next, HandlerStep

\* Unless a COMMIT is lost in SQLite or the database fails, an upload that was
\* answered with an error leaves no torrent behind, whatever it had inserted
\* before the failure (services/torrent.rs:155-170).
THEOREM RefusedUploadsAreUndone ==
  ASSUME CommitsAreKept, "database" \notin Faults
  PROVE  Spec => []RefusedUploadIsNotListed
<1>1. Init => IdsInv /\ RefusedAreGone
  BY IdsInvInit DEF Init, RefusedAreGone, Early, IsRefused, Refusals
<1>2. IdsInv /\ RefusedAreGone /\ [Next]_vars => IdsInv' /\ RefusedAreGone'
  BY IdsInvNext, RefusedStayGone
<1>3. IdsInv /\ RefusedAreGone => RefusedUploadIsNotListed
  BY DEF RefusedAreGone, IsRefused, RefusedUploadIsNotListed
<1> QED BY <1>1, <1>2, <1>3, PTL DEF Spec

-----------------------------------------------------------------------------
(* The calls to the tracker: it carries them out in any order and at any   *)
(* time, and what undoes the call of an upload that succeeded is the call  *)
(* of a deletion.                                                          *)

\* The call of a handler is about the hash it was asked for, it is made once,
\* and success is answered after the tracker carried it out.
CallIsOwn(r) ==
  /\ call[r].kind # "none" => pc[r] \in {"whitelist", "compensate", "unlist", "done"}
  /\ call[r].kind = "add" => call[r].info_hash = CanonicalOf(r)
  /\ call[r].kind = "remove" =>
       request[r].op = "delete" /\ call[r].info_hash = request[r].info_hash
  /\ pc[r] = "whitelist" => call[r].kind = "add"
  /\ response[r] = "created" => pc[r] = "done" /\ call[r].kind = "add" /\ Applied(r)

\* A hash that was added is listed, or a removal of it was carried out.
AddedStays(r) ==
  call[r].kind = "add" /\ Applied(r) =>
    \/ call[r].info_hash \in whitelist
    \/ \E d \in Requests : /\ call[d].kind = "remove" /\ Applied(d)
                           /\ call[d].info_hash = call[r].info_hash

WhitelistInv == TypeInv /\ \A r \in Requests : CallIsOwn(r) /\ AddedStays(r)

LEMMA WhitelistInvInit == Init => WhitelistInv
BY InitTypeInv DEF Init, TrackerInit, NoCall, WhitelistInv, CallIsOwn, AddedStays

-----------------------------------------------------------------------------
(* What a step does to the calls *)

CallerTypes ==
  /\ pc \in [Requests -> {"idle", "done"} \cup UploadSteps \cup DeleteSteps]
  /\ request \in [Requests -> UploadRequest \cup DeleteRequest \cup {NoRequest}]
  /\ response \in [Requests -> {"none", "created", "deleted", "abandoned"} \cup Refusals]
  /\ call \in [Requests -> Call \cup {NoCall}]

OthersKeep(r) ==
  \A q \in Requests \ {r} :
    /\ pc'[q] = pc[q] /\ request'[q] = request[q]
    /\ response'[q] = response[q] /\ call'[q] = call[q]

\* A handler leaves the calls alone or makes its first.
CallsOnce(r) ==
  /\ UNCHANGED whitelist
  /\ \/ UNCHANGED call
     \/ call[r].kind = "none" /\ ~Applied(r)'

LEMMA UploadCalls ==
  ASSUME WhitelistInv, NEW r \in Requests, UploadStep(r)
  PROVE  OthersKeep(r) /\ CallIsOwn(r)' /\ CallsOnce(r)
<1>1. CallerTypes /\ CallIsOwn(r)
  BY DEF WhitelistInv, TypeInv, TypeOK, HandlersTypeOK, TrackerTypeOK, CallerTypes
<1> USE <1>1 DEF CallerTypes, OthersKeep, CallsOnce, CallIsOwn, CanonicalOf, GoTo, Answer,
        tracker, Applied, Refusals
<1>2. CASE RejectUpload(r) \/ CheckGroup(r)
  BY <1>2 DEF RejectUpload, CheckGroup
<1>3. CASE AssociateOriginal(r)
  BY <1>3 DEF AssociateOriginal
<1>4. CASE InsertTorrent(r) \/ LoseCommit(r)
  BY <1>4 DEF InsertTorrent, LoseCommit
<1>5. CASE RefuseInsert(r)
  BY <1>5 DEF RefuseInsert, InsertConflict
<1>6. CASE ImportStatistics(r)
  BY <1>6 DEF ImportStatistics, SendCall
<1>7. CASE ConfirmUpload(r)
  BY <1>7 DEF ConfirmUpload
<1>8. CASE GiveUpWhitelisting(r)
  BY <1>8 DEF GiveUpWhitelisting
<1>9. CASE Compensate(r) \/ FailToCompensate(r)
  BY <1>9 DEF Compensate, FailToCompensate
<1> QED BY <1>2, <1>3, <1>4, <1>5, <1>6, <1>7, <1>8, <1>9 DEF UploadStep

LEMMA OtherCalls ==
  ASSUME WhitelistInv, NEW r \in Requests,
         \/ DeleteStep(r) \/ FailInDatabase(r) \/ Abandon(r)
         \/ SubmitUpload(r) \/ SubmitDelete(r)
  PROVE  OthersKeep(r) /\ CallIsOwn(r)' /\ CallsOnce(r)
<1>1. /\ CallerTypes /\ CallIsOwn(r)
      /\ pc[r] = "delete" => request[r].op = "delete"
  BY DEF WhitelistInv, TypeInv, TypeOK, HandlersTypeOK, TrackerTypeOK, CallerTypes,
     RequestsMatchSteps, DeleteSteps, DeleteRequest
<1> USE <1>1 DEF CallerTypes, OthersKeep, CallsOnce, CallIsOwn, CanonicalOf, GoTo, Answer,
        tracker, Applied
<1>2. CASE Authorize(r) \/ LookUpTorrent(r)
  BY <1>2 DEF Authorize, LookUpTorrent
<1>3. CASE DeleteTorrent(r)
  BY <1>3 DEF DeleteTorrent, SendCall
<1>4. CASE ConfirmDelete(r)
  BY <1>4 DEF ConfirmDelete
<1>5. CASE FailInDatabase(r)
  BY <1>5 DEF FailInDatabase
<1>6. CASE Abandon(r)
  BY <1>6 DEF Abandon
<1>7. CASE SubmitUpload(r) \/ SubmitDelete(r)
  BY <1>7 DEF SubmitUpload, SubmitDelete, Submit
<1> QED BY <1>2, <1>3, <1>4, <1>5, <1>6, <1>7 DEF DeleteStep

\* Handlers do not undo what the tracker did.
LEMMA HandlersKeepListed ==
  ASSUME WhitelistInv, NEW r \in Requests, OthersKeep(r), CallIsOwn(r)', CallsOnce(r)
  PROVE  \A q \in Requests : CallIsOwn(q)' /\ AddedStays(q)'
<1>1. ASSUME NEW q \in Requests PROVE CallIsOwn(q)'
  <2>1. CallIsOwn(q)
    BY DEF WhitelistInv
  <2> QED BY <2>1 DEF OthersKeep, CallIsOwn, CanonicalOf, Applied
<1>2. \A q \in Requests : Applied(q)' => Applied(q) /\ call'[q] = call[q]
  BY DEF OthersKeep, CallsOnce, Applied
<1>3. \A q \in Requests : Applied(q) => Applied(q)' /\ call'[q] = call[q]
  BY DEF OthersKeep, CallsOnce, Applied
<1>4. ASSUME NEW q \in Requests PROVE AddedStays(q)'
  <2>1. AddedStays(q) /\ UNCHANGED whitelist
    BY DEF WhitelistInv, CallsOnce
  <2> QED BY <1>2, <1>3, <2>1 DEF AddedStays
<1> QED BY <1>1, <1>4

\* The tracker unlists a hash only by a removal of it that it carries out.
LEMMA TrackerKeepsListed ==
  ASSUME WhitelistInv, NEW r \in Requests, TrackerStep(r)
  PROVE  \A q \in Requests : CallIsOwn(q)' /\ AddedStays(q)'
<1>1. CallerTypes
  BY DEF WhitelistInv, TypeInv, TypeOK, HandlersTypeOK, TrackerTypeOK, CallerTypes
<1>2. /\ call[r].kind # "none" /\ call[r].status = "sent"
      /\ call[r] \in Call
      /\ UNCHANGED <<pc, request, response>>
  BY <1>1 DEF TrackerStep, TrackerApplies, TrackerLoses, Pending, handlers, CallerTypes, NoCall
<1>3. /\ call'[r].kind = call[r].kind /\ call'[r].info_hash = call[r].info_hash
      /\ \A q \in Requests \ {r} : call'[q] = call[q]
  BY <1>1, <1>2 DEF TrackerStep, TrackerApplies, TrackerLoses, CallerTypes, Call
<1>4. \A q \in Requests : Applied(q) => q # r
  BY <1>2 DEF Applied
<1>5. ASSUME NEW q \in Requests PROVE CallIsOwn(q)'
  <2>1. CallIsOwn(q)
    BY DEF WhitelistInv
  <2> QED BY <1>2, <1>3, <1>4, <2>1 DEF CallIsOwn, CanonicalOf, Applied
<1>6. CASE TrackerLoses(r)
  <2>1. UNCHANGED whitelist /\ ~Applied(r)'
    BY <1>1, <1>2, <1>6 DEF TrackerLoses, CallerTypes, Call, Applied
  <2>2. ASSUME NEW q \in Requests PROVE AddedStays(q)'
    <3>1. AddedStays(q)
      BY DEF WhitelistInv
    <3> QED BY <1>3, <1>4, <2>1, <3>1 DEF AddedStays, Applied
  <2> QED BY <1>5, <2>2
<1>7. CASE TrackerApplies(r)
  <2>1. Applied(r)'
    BY <1>1, <1>2, <1>3, <1>7 DEF TrackerApplies, CallerTypes, Call, Applied
  <2>2. ASSUME NEW q \in Requests, call'[q].kind = "add", Applied(q)'
        PROVE  \/ call'[q].info_hash \in whitelist'
               \/ \E d \in Requests : /\ call'[d].kind = "remove" /\ Applied(d)'
                                      /\ call'[d].info_hash = call'[q].info_hash
    <3>1. CASE q = r
      BY <1>3, <1>7, <2>2, <3>1 DEF TrackerApplies
    <3>2. CASE q # r
      <4>1. AddedStays(q) /\ call[q].kind = "add" /\ Applied(q) /\ call'[q] = call[q]
        BY <1>3, <2>2, <3>2 DEF WhitelistInv, Applied
      <4>2. CASE call[q].info_hash \in whitelist
        <5>1. call[q].info_hash \in whitelist' \/ call[r].info_hash = call[q].info_hash
          BY <1>7, <4>2 DEF TrackerApplies
        <5>2. call[r].kind = "add" => call[q].info_hash \in whitelist'
          BY <1>7, <4>2 DEF TrackerApplies
        <5>3. call[r].kind \in {"add", "remove"}
          BY <1>2 DEF Call
        <5> QED BY <1>3, <2>1, <4>1, <5>1, <5>2, <5>3
      <4>3. CASE \E d \in Requests : /\ call[d].kind = "remove" /\ Applied(d)
                                     /\ call[d].info_hash = call[q].info_hash
        BY <1>3, <1>4, <4>1, <4>3 DEF Applied
      <4> QED BY <4>1, <4>2, <4>3 DEF AddedStays
    <3> QED BY <3>1, <3>2
  <2>3. \A q \in Requests : AddedStays(q)'
    BY <2>2 DEF AddedStays
  <2> QED BY <1>5, <2>3
<1> QED BY <1>6, <1>7 DEF TrackerStep

LEMMA WhitelistInvNext ==
  ASSUME WhitelistInv, [Next]_vars PROVE WhitelistInv'
<1>1. TypeInv'
  BY StepKeepsTypeInv DEF WhitelistInv
<1>2. ASSUME NEW r \in Requests,
             \/ UploadStep(r) \/ DeleteStep(r) \/ FailInDatabase(r) \/ Abandon(r)
             \/ SubmitUpload(r) \/ SubmitDelete(r)
      PROVE  WhitelistInv'
  BY <1>1, <1>2, UploadCalls, OtherCalls, HandlersKeepListed DEF WhitelistInv
<1>3. ASSUME NEW r \in Requests, TrackerStep(r) PROVE WhitelistInv'
  BY <1>1, <1>3, TrackerKeepsListed DEF WhitelistInv
<1>4. CASE Served \/ UNCHANGED vars
  BY <1>1, <1>4 DEF Served, vars, tracker, handlers, WhitelistInv, CallIsOwn, AddedStays,
     CanonicalOf, Applied
<1> QED BY <1>2, <1>3, <1>4 DEF Next, HandlerStep

\* An upload that was answered with success is on the whitelist, or a deletion of
\* the same hash had it removed: nothing else takes it off, neither the timeout of
\* another upload nor its compensation, and whatever fails (services/torrent.rs:155).
THEOREM AckedUploadsStayWhitelisted == Spec => []AckedUploadIsWhitelisted
<1>1. Init => WhitelistInv
  BY WhitelistInvInit
<1>2. WhitelistInv /\ [Next]_vars => WhitelistInv'
  BY WhitelistInvNext
<1>3. WhitelistInv => AckedUploadIsWhitelisted
  <2> SUFFICES ASSUME WhitelistInv, NEW r \in Requests, response[r] = "created"
               PROVE  \/ CanonicalOf(r) \in whitelist
                      \/ \E d \in Requests : /\ request[d].op = "delete"
                                             /\ request[d].info_hash = CanonicalOf(r)
                                             /\ Applied(d)
    BY DEF AckedUploadIsWhitelisted
  <2>1. /\ call[r].kind = "add" /\ Applied(r) /\ call[r].info_hash = CanonicalOf(r)
        /\ AddedStays(r)
    BY DEF WhitelistInv, CallIsOwn
  <2>2. \A d \in Requests : call[d].kind = "remove" =>
          request[d].op = "delete" /\ call[d].info_hash = request[d].info_hash
    BY DEF WhitelistInv, CallIsOwn
  <2> QED BY <2>1, <2>2 DEF AddedStays
<1> QED BY <1>1, <1>2, <1>3, PTL DEF Spec

=============================================================================
