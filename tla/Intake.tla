------------------------------- MODULE Intake -------------------------------
(***************************************************************************)
(* An upload as its sender sees it: the multipart form is read field by    *)
(* field, the request is checked and put on the index, and every error on  *)
(* the way becomes an answer with a status; the hash of the answer is then *)
(* the address of the torrent.  Uploads do not overlap here, TorrentIndex  *)
(* has what happens when they do.                                          *)
(*                                                                         *)
(* A text is a sequence of characters, a file the sequence of its bytes.   *)
(***************************************************************************)
EXTENDS Integers, Sequences, SequencesExt

CONSTANTS
  Nothing,          \* what is not there
  Lost,             \* a field, a body or a chunk that cannot be read
  NotUtf8,          \* bytes that are no text
  Forms,            \* the forms that are sent, sequences of fields
  TagLists,         \* the texts that are JSON, and the tags they list
  TorrentsOf,       \* the bytes that are torrent files, and what they hold
  KnownCategories,  \* names that get_category_from_name finds
  KnownTags,        \* ids that tag links may have
  MIN_TORRENT_TITLE_LENGTH,
  MaxShelf          \* torrents on the index, a bound

Bytes == 0 .. 255

\* The name and the data or the chunks of every field; Lost is the name of the
\* field, or the end, that a body which breaks off has no boundary for.
IsForm(fields) ==
  /\ fields \in Seq(ToSet(fields))
  /\ \A i \in DOMAIN fields :
       fields[i].name = "torrent" => fields[i].chunks \in Seq({Lost} \union Seq(Bytes))

\* What torrent files hold: the original hash is that of the info dictionary as it
\* is sent, the canonical one that of the dictionary the index makes of it, and to
\* make one of that again changes nothing.
HashesOfFiles ==
  \A a, b \in DOMAIN TorrentsOf :
    /\ TorrentsOf[a].original \in Seq(Bytes) /\ TorrentsOf[a].canonical \in Seq(Bytes)
    /\ Len(TorrentsOf[a].original) = Len(TorrentsOf[a].canonical)
    /\ TorrentsOf[b].original \in {TorrentsOf[a].original, TorrentsOf[a].canonical}
         => TorrentsOf[b].canonical = TorrentsOf[a].canonical

TrackerErrors == {"TrackerOffline", "InternalServerError", "InvalidToken",
                  "UnexpectedResponseStatus", "MissingResponseBody"}

\* What of the system may not work: the database at one of the statements, or
\* the tracker.
Faults == {"user", "category", "group", "association", "insert"} \union TrackerErrors
Failures == {Nothing} \union Faults

\* The errors that are told from Nothing.
Errors ==
  {"LoggedInUserNotFound", "TokenNotFound", "TokenExpired", "TokenInvalid",
   "NotValidUtf8", "TagsArrayIsNotValidJson", "MissingTorrentTitle",
   "InvalidTorrentTitleLength", "InvalidInfoDictionary", "InvalidTorrentPiecesLength",
   "InvalidTorrentFile", "MissingMandatoryMetadataFields", "InvalidCategory", "UserNotFound",
   "InfoHashAlreadyExists", "CanonicalInfoHashAlreadyExists", "TorrentTitleAlreadyExists",
   "Error", "ErrorWithText", "InternalServerError", "TrackerOffline", "TrackerResponseError",
   "InvalidTrackerToken", "TrackerUnknownResponse"}

ASSUME IntakeAssumption ==
  /\ MIN_TORRENT_TITLE_LENGTH \in Nat \ {0}
  /\ <<>> \notin KnownCategories
  /\ Nothing \notin Errors \union Faults \union {"chunk"} \union Nat \union Seq(Bytes)
  /\ \A fields \in Forms : IsForm(fields)
  /\ HashesOfFiles

VARIABLES
  header, \* the Authorization header of the request
  form,   \* the form that is being read, or was read last, if any was
  at,     \* the number of its fields that have been read, or Nothing
  draft,  \* what has been read of it
  shelf,  \* the torrents on the index
  reply,  \* the answer to the form, or Nothing
  before  \* the index as it was when the form was sent (history)

intakeVars == <<header, form, at, draft, shelf, reply, before>>

-----------------------------------------------------------------------------
(* Info-hashes as texts.                                                   *)

HexDigits == <<"0", "1", "2", "3", "4", "5", "6", "7",
               "8", "9", "a", "b", "c", "d", "e", "f">>
Capitals == [a |-> "A", b |-> "B", c |-> "C", d |-> "D", e |-> "E", f |-> "F"]

Uppercase(text) ==
  [i \in DOMAIN text |-> IF text[i] \in DOMAIN Capitals THEN Capitals[text[i]] ELSE text[i]]

\* InfoHashParam::lowercase
Lowercase(text) ==
  [i \in DOMAIN text |->
     IF \E c \in DOMAIN Capitals : Capitals[c] = text[i]
     THEN CHOOSE c \in DOMAIN Capitals : Capitals[c] = text[i]
     ELSE text[i]]

\* InfoHash::fmt: two lower case digits for every byte.
HashText(hash) ==
  FlattenSeq([i \in DOMAIN hash |-> <<HexDigits[1 + (hash[i] \div 16)],
                                      HexDigits[1 + (hash[i] % 16)]>>])

\* InfoHash::from_str, for the number of bytes that hashes have.
HashOfText(text, bytes) ==
  LET digits == ToSet(HexDigits)
      Value(c) == (CHOOSE i \in DOMAIN HexDigits : HexDigits[i] = c) - 1
  IN IF Len(text) # 2 * bytes \/ ~(ToSet(Lowercase(text)) \subseteq digits) THEN Nothing
     ELSE [i \in 1 .. bytes |->
             16 * Value(Lowercase(text)[2 * i - 1]) + Value(Lowercase(text)[2 * i])]

-----------------------------------------------------------------------------
(* Errors and the statuses they are answered with.                         *)

\* http_status_code_for_handler_error
RequestStatus(error) ==
  IF error \in {"CannotWriteChunkFromUploadedBinary", "CannotReadChunkFromUploadedBinary"}
  THEN 500 ELSE 400

\* http_status_code_for_service_error
ServiceStatus(error) ==
  CASE error \in {"ClosedForRegistration", "WrongPasswordOrUsername", "EmailNotVerified",
                  "Unauthorized"} -> 403
    [] error \in {"TokenNotFound", "TokenExpired", "TokenInvalid", "LoggedInUserNotFound"} -> 401
    [] error \in {"UsernameNotFound", "UserNotFound", "AccountNotFound", "TorrentNotFound",
                  "EmailMissing", "CategoryNotFound", "TagNotFound",
                  "TorrentNotFoundInTracker"} -> 404
    [] error \in {"InternalServerError", "FailedToSendVerificationEmail", "WhitelistingError",
                  "DatabaseError", "TrackerResponseError", "TrackerUnknownResponse",
                  "InvalidTrackerToken"} -> 500
    [] error = "TrackerOffline" -> 503
    [] OTHER -> 400

\* impl From<MetadataError>
OfMetadata(error) ==
  IF error = "MissingTorrentTitle" THEN "MissingMandatoryMetadataFields" ELSE error

\* impl From<DecodeTorrentFileError>
OfDecoding(error) ==
  IF error = "InvalidTorrentPiecesLength" THEN "InvalidTorrentTitleLength" ELSE "InvalidTorrentFile"

\* impl From<TrackerAPIError>
OfTracker(error) ==
  CASE error = "TrackerOffline" -> "TrackerOffline"
    [] error = "InternalServerError" -> "TrackerResponseError"
    [] error = "TorrentNotFound" -> "TorrentNotFoundInTracker"
    [] error = "CannotSaveUserKey" -> "DatabaseError"
    [] error = "InvalidToken" -> "InvalidTrackerToken"
    [] OTHER -> "TrackerUnknownResponse"

\* Mutant: a title that is taken is an error like any other.
OfDatabase_NoTitle(error) ==
  CASE error = "CategoryNotFound" -> "InvalidCategory"
    [] error = "TagNotFound" -> "InvalidTag"
    [] error = "TorrentAlreadyExists" -> "InfoHashAlreadyExists"
    [] error = "TorrentInfoHashNotFound" -> "TorrentNotFound"
    [] error \in {"UsernameTaken", "EmailTaken", "UserNotFound", "TagAlreadyExists",
                  "TorrentNotFound"} -> error
    [] OTHER -> "InternalServerError"

\* map_database_error_to_service_error
OfDatabase(error) ==
  CASE error = "CategoryNotFound" -> "InvalidCategory"
    [] error = "TagNotFound" -> "InvalidTag"
    [] error = "TorrentAlreadyExists" -> "InfoHashAlreadyExists"
    [] error = "TorrentInfoHashNotFound" -> "TorrentNotFound"
    [] error \in {"UsernameTaken", "EmailTaken", "UserNotFound", "TagAlreadyExists",
                  "TorrentNotFound", "TorrentTitleAlreadyExists"} -> error
    [] OTHER -> "InternalServerError"

\* json_error_response; failed is the part of the system that did not work.
Refused(status, error, failed) ==
  [status |-> status, error |-> error, info_hash |-> Nothing, original_info_hash |-> Nothing,
   failed |-> failed]

\* new_torrent_response
Accepts(torrent) ==
  [status |-> 200, error |-> Nothing, info_hash |-> HashText(torrent.canonical),
   original_info_hash |-> HashText(torrent.original), failed |-> Nothing]

\* A handler that panics drops the connection.
Dropped == Refused(0, "panic", Nothing)

-----------------------------------------------------------------------------
(* build_add_torrent_request_from_payload.                                 *)

TextFields == {"title", "description", "category", "tags"}

\* The buffer has one byte before anything is written at its start.
EmptyDraft ==
  [title |-> <<>>, description |-> <<>>, category |-> <<>>, tags |-> <<>>,
   buffer |-> <<0>>, position |-> 0]

\* The cursor overwrites what is there and goes on behind it.
Write(d, chunk) ==
  LET end == d.position + Len(chunk)
  IN [d EXCEPT
        !.buffer = [i \in 1 .. IF end > Len(@) THEN end ELSE Len(@) |->
                      IF i \in d.position + 1 .. end THEN chunk[i - d.position] ELSE @[i]],
        !.position = end]

\* The chunks are written as they come.
WriteAll(d, chunks) ==
  LET written[n \in 0 .. Len(chunks)] ==
        IF n = 0 THEN d ELSE Write(written[n - 1], chunks[n])
  IN written[Len(chunks)]

\* The error a text makes, in the order it is looked for.
TextError(field) ==
  CASE field.data = NotUtf8 -> "NotValidUtf8"
    [] field.name = "tags" /\ field.data \notin DOMAIN TagLists -> "TagsArrayIsNotValidJson"
    [] OTHER -> Nothing

\* Mutant: a field that is sent without a value clears what was read before.
TextValue_Clear(field) ==
  IF field.name = "tags" THEN (IF field.data = <<>> THEN <<>> ELSE TagLists[field.data])
  ELSE field.data

\* The value a field has after it was sent once more; an empty one is passed over.
TextValue(field) ==
  IF field.data = <<>> THEN draft[field.name]
  ELSE IF field.name = "tags" THEN TagLists[field.data]
  ELSE field.data

\* Authorization headers: none, text of another scheme, bytes that are no text, a
\* token that is forged, expired or good.
Headers == {"none", "Basic", "bytes", "forged", "expired", "good"}

\* parse_token takes what comes after "Bearer".
ParsesToken(h) == h \notin {"Basic", "bytes"}

\* get_claims_from_bearer_token
ClaimsError(h) ==
  CASE h = "none" -> "TokenNotFound"
    [] h = "expired" -> "TokenExpired"
    [] h = "forged" -> "TokenInvalid"
    [] OTHER -> Nothing

\* ExtractLoggedInUser: whatever is wrong with the token, the answer is the same.
LoginError(h) == IF ClaimsError(h) # Nothing THEN "LoggedInUserNotFound" ELSE Nothing

\* upload_torrent_handler gets a request; the one before it was answered.  The user
\* is looked for before the form is read.
Send(h) ==
  LET error == LoginError(h)
  IN /\ at = Nothing
     /\ Cardinality(shelf) < MaxShelf
     /\ header' = h
     /\ \/ /\ ParsesToken(h) /\ error = Nothing
           /\ form' \in Forms
           /\ reply' = Nothing /\ at' = 0
        \/ /\ ~ParsesToken(h) \/ error # Nothing
           /\ form' = <<>>
           /\ reply' = IF ParsesToken(h) THEN Refused(ServiceStatus(error), error, Nothing)
                       ELSE Dropped
           /\ at' = Nothing
     /\ draft' = EmptyDraft
     /\ before' = shelf
     /\ UNCHANGED shelf

Field == form[at + 1]

Reading == at # Nothing /\ at < Len(form)

Answer(r) == reply' = r /\ at' = Nothing

ReadText ==
  /\ Reading
  /\ Field.name \in TextFields /\ Field.data # Lost
  /\ LET error == IF Field.data = <<>> THEN Nothing ELSE TextError(Field)
     IN IF error # Nothing
        THEN Answer(Refused(RequestStatus(error), error, Nothing)) /\ UNCHANGED draft
        ELSE /\ draft' = [draft EXCEPT ![Field.name] = TextValue(Field)]
             /\ at' = at + 1
             /\ UNCHANGED reply
  /\ UNCHANGED <<header, form, shelf, before>>

ReadTorrent ==
  /\ Reading
  /\ Field.name = "torrent" /\ Field.type # Nothing
  /\ \/ /\ Field.type \notin {"application/x-bittorrent", "application/octet-stream"}
        /\ Answer(Refused(RequestStatus("InvalidFileType"), "InvalidFileType", Nothing))
        /\ UNCHANGED draft
     \/ /\ Field.type \in {"application/x-bittorrent", "application/octet-stream"}
        /\ Lost \in ToSet(Field.chunks)
        /\ LET error == "CannotReadChunkFromUploadedBinary"
           IN Answer(Refused(RequestStatus(error), error, "chunk"))
        /\ UNCHANGED draft
     \/ /\ Field.type \in {"application/x-bittorrent", "application/octet-stream"}
        /\ Lost \notin ToSet(Field.chunks)
        /\ draft' = WriteAll(draft, Field.chunks)
        /\ at' = at + 1
        /\ UNCHANGED reply
  /\ UNCHANGED <<header, form, shelf, before>>

SkipField ==
  /\ Reading
  /\ Field.name \notin TextFields \union {"torrent", Nothing, Lost}
  /\ at' = at + 1
  /\ UNCHANGED <<header, form, draft, shelf, reply, before>>

\* unwrap() of a field, its name, a content type or a body that is not there.
Panics(field) ==
  \/ field.name \in {Nothing, Lost}
  \/ field.name \in TextFields /\ field.data = Lost
  \/ field.name = "torrent" /\ field.type = Nothing

Panic ==
  /\ Reading
  /\ Panics(Field)
  /\ Answer(Dropped)
  /\ UNCHANGED <<header, form, draft, shelf, before>>

-----------------------------------------------------------------------------
(* add_torrent.                                                            *)

\* Metadata::validate_format
MetadataError(d) ==
  CASE d.title = <<>> -> "MissingTorrentTitle"
    [] d.title # <<>> /\ Len(d.title) < MIN_TORRENT_TITLE_LENGTH -> "InvalidTorrentTitleLength"
    [] OTHER -> Nothing

\* decode_and_validate_torrent_file
DecodeError(bytes) ==
  IF bytes \notin DOMAIN TorrentsOf THEN "InvalidInfoDictionary"
  ELSE LET pieces == TorrentsOf[bytes].pieces
       IN IF pieces # Nothing /\ pieces % 20 # 0 THEN "InvalidTorrentPiecesLength" ELSE Nothing

TagsCanBeLinked(tags) == ToSet(tags) \subseteq KnownTags /\ IsInjective(tags)

\* The first error of insert_torrent_and_get_id, once the group was checked.
InsertError(d, torrent) ==
  CASE torrent.pieces = Nothing /\ ~torrent.root_hash -> "Error"
    [] (torrent.pieces # Nothing \/ torrent.root_hash) /\ ~TagsCanBeLinked(d.tags)
       -> "ErrorWithText"
    [] (torrent.pieces # Nothing \/ torrent.root_hash) /\ TagsCanBeLinked(d.tags)
       /\ d.title \in {row.title : row \in shelf} -> "TorrentTitleAlreadyExists"
    [] OTHER -> Nothing

\* get_torrent_canonical_info_hash_group, of the one row that has the hash.
GroupOf(canonical) == UNION {row.originals : row \in {r \in shelf : r.canonical = canonical}}

\* The error of add_torrent until the insertion, the first that applies: any error
\* of the first two lookups means that there is no such user or category.
Refusal(failed) ==
  LET d == draft
      torrent == TorrentsOf[d.buffer]
  IN IF failed = "user" THEN OfDatabase("UserNotFound")
     ELSE IF d.category = <<>> THEN "MissingMandatoryMetadataFields"
     ELSE IF failed = "category" \/ d.category \notin KnownCategories THEN "InvalidCategory"
     ELSE IF MetadataError(d) # Nothing THEN OfMetadata(MetadataError(d))
     ELSE IF DecodeError(d.buffer) # Nothing THEN OfDecoding(DecodeError(d.buffer))
     ELSE IF failed = "group" THEN OfDatabase("Error")
     ELSE IF torrent.original \in GroupOf(torrent.canonical) THEN "InfoHashAlreadyExists"
     ELSE IF GroupOf(torrent.canonical) # {} /\ failed = "association" THEN OfDatabase("Error")
     ELSE IF GroupOf(torrent.canonical) # {} THEN "CanonicalInfoHashAlreadyExists"
     ELSE IF failed = "insert" THEN OfDatabase("Error")
     ELSE IF InsertError(d, torrent) # Nothing THEN OfDatabase(InsertError(d, torrent))
     ELSE IF failed \in TrackerErrors THEN OfTracker(failed)
     ELSE Nothing

\* The group of the torrent is told what was uploaded, also when that is refused.
Associated(torrent) ==
  {IF row.canonical = torrent.canonical
   THEN [row EXCEPT !.originals = @ \union {torrent.original}] ELSE row : row \in shelf}

RowOf(d, torrent) ==
  [title |-> d.title, description |-> d.description, category |-> d.category, tags |-> d.tags,
   name |-> torrent.name, canonical |-> torrent.canonical, originals |-> {torrent.original}]

AddTorrent(failed) ==
  LET torrent == TorrentsOf[draft.buffer]
      error == Refusal(failed)
  IN /\ at = Len(form)
     /\ IF error = Nothing
        THEN Answer(Accepts(torrent)) /\ shelf' = shelf \union {RowOf(draft, torrent)}
        ELSE /\ Answer(Refused(ServiceStatus(error), error, failed))
             /\ shelf' = IF error = "CanonicalInfoHashAlreadyExists" THEN Associated(torrent)
                         ELSE shelf
     /\ UNCHANGED <<header, form, draft, before>>

-----------------------------------------------------------------------------
(* download_torrent_handler.                                               *)

\* find_canonical_info_hash_for
CanonicalFor(hash) ==
  LET rows == {row \in shelf : hash \in row.originals}
  IN IF rows = {} THEN Nothing ELSE (CHOOSE row \in rows : TRUE).canonical

\* torrent_file_response: the name becomes part of a header, and a name that no
\* header can have makes it panic.
FileResponse(row) ==
  IF row.name = "unprintable" THEN Dropped
  ELSE [status |-> 200, info_hash |-> HashText(row.canonical)]

\* The answer to a request for the file at an address.
DownloadAnswer(address, bytes) ==
  LET hash == HashOfText(Lowercase(address), bytes)
      rows == {row \in shelf : row.canonical = hash}
  IN IF hash = Nothing
     THEN Refused(RequestStatus("InvalidInfoHashParam"), "InvalidInfoHashParam", Nothing)
     ELSE IF CanonicalFor(hash) \notin {hash, Nothing}
     THEN [status |-> 307, info_hash |-> HashText(CanonicalFor(hash))]
     ELSE IF rows = {}
     THEN Refused(ServiceStatus("TorrentNotFound"), "TorrentNotFound", Nothing)
     ELSE FileResponse(CHOOSE row \in rows : TRUE)

-----------------------------------------------------------------------------

IntakeInit ==
  /\ header = "none"
  /\ form = <<>>
  /\ at = Nothing
  /\ draft = EmptyDraft
  /\ shelf = {}
  /\ reply = Nothing
  /\ before = {}

IntakeNext ==
  \/ \E h \in Headers : Send(h)
  \/ ReadText \/ ReadTorrent \/ SkipField \/ Panic
  \/ \E failed \in Failures : AddTorrent(failed)

IntakeSpec == IntakeInit /\ [][IntakeNext]_intakeVars

-----------------------------------------------------------------------------

\* What the first n fields of a form say under one name: what the last of them says
\* that has a value.
SaidUpTo(fields, n, name) ==
  LET said == {i \in 1 .. n : fields[i].name = name /\ fields[i].data # <<>>}
      last == fields[Max(said)]
  IN IF said = {} THEN <<>>
     ELSE IF name = "tags" THEN TagLists[last.data] ELSE last.data

\* The bytes of all their files.
BytesUpTo(fields, n) ==
  FlattenSeq([i \in 1 .. n |->
    IF fields[i].name = "torrent" THEN FlattenSeq(fields[i].chunks) ELSE <<>>])

LastSaid(name) == SaidUpTo(form, Len(form), name)

\* The bytes that were sent, or the one byte that no file leaves.
BytesSent ==
  LET bytes == BytesUpTo(form, Len(form)) IN IF bytes = <<>> THEN <<0>> ELSE bytes

\* A client follows the redirection to the canonical info-hash.
Followed(address, bytes) ==
  LET first == DownloadAnswer(address, bytes)
  IN IF first.status = 307 THEN DownloadAnswer(first.info_hash, bytes) ELSE first

\* A sender who is answered with hashes finds under them what the form said: the
\* torrent with the info-hash of the answer has the last title, description,
\* category and tags of the form and was made of its file, whatever the order, the
\* repetition and the chunks of its fields; and both hashes, in either case of their
\* digits, are addresses its file is downloaded from, unless its name fits in no
\* header (build_add_torrent_request_from_payload, InfoHash::from_str, the
\* redirection to the canonical info-hash).
AnswerLeadsToTheTorrent ==
  reply # Nothing /\ reply.status = 200 =>
    LET torrent == TorrentsOf[BytesSent]
        bytes == Len(torrent.canonical)
        hashes == {reply.info_hash, reply.original_info_hash}
    IN /\ \E row \in shelf :
            /\ row.canonical = torrent.canonical
            /\ torrent.original \in row.originals
            /\ row.title = LastSaid("title")
            /\ row.description = LastSaid("description")
            /\ row.category = LastSaid("category")
            /\ row.tags = LastSaid("tags")
       /\ \A address \in hashes \union {Uppercase(text) : text \in hashes} :
            Followed(address, bytes) =
              IF torrent.name = "unprintable" THEN Dropped
              ELSE [status |-> 200, info_hash |-> HashText(torrent.canonical)]

\* The form is one that should be refused: it is unreadable, lacks or misuses a
\* field, or repeats what is on the index.
SenderAtFault ==
  \/ \E i \in DOMAIN form : \/ form[i].name \in TextFields /\ form[i].data # <<>>
                               /\ TextError(form[i]) # Nothing
                            \/ form[i].name = "torrent"
                               /\ form[i].type \notin {"application/x-bittorrent",
                                                       "application/octet-stream"}
  \/ Len(LastSaid("title")) < MIN_TORRENT_TITLE_LENGTH
  \/ LastSaid("category") \notin KnownCategories
  \/ DecodeError(BytesSent) # Nothing
  \/ \E row \in before : \/ row.title = LastSaid("title")
                         \/ row.canonical = TorrentsOf[BytesSent].canonical

\* Requests that fail in the database instead of being refused: tags that are not
\* known or come twice, and a file with neither pieces nor a root hash.
FailsInDatabase ==
  \/ ~TagsCanBeLinked(LastSaid("tags"))
  \/ /\ BytesSent \in DOMAIN TorrentsOf
     /\ TorrentsOf[BytesSent].pieces = Nothing /\ ~TorrentsOf[BytesSent].root_hash

\* An answer blames the one who failed: 400 and 404 go to forms that are at fault,
\* except that a database that fails at the user's or the category's row is told
\* from a missing row by nobody; 500 and 503 mean that a chunk, the database or the
\* tracker failed or the form broke a key of the tables; 401 goes to who is not logged
\* in, whose form is not read; and only a form without a fault, when nothing failed,
\* is accepted (the conversions and statuses of errors.rs
\* and contexts/torrent/errors.rs).
RefusalsBlameWhoFailed ==
  reply # Nothing =>
    /\ reply.status \in {400, 404} => SenderAtFault \/ reply.failed \in {"user", "category"}
    /\ reply.status >= 500 => reply.failed # Nothing \/ FailsInDatabase
    /\ reply.status = 200 => ~SenderAtFault /\ ~FailsInDatabase /\ reply.failed = Nothing
    /\ reply.status = 401 <=> header \in {"none", "forged", "expired"}
    /\ reply.status = 401 => draft = EmptyDraft /\ shelf = before
    /\ reply.status = 0 => ~ParsesToken(header) \/ \E i \in DOMAIN form : Panics(form[i])

=============================================================================
