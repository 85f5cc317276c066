------------------------------- MODULE Serving -------------------------------
(***************************************************************************)
(* Users log in and renew their tokens, and readers download torrents or   *)
(* look at their details (services/authentication.rs, get_torrent and      *)
(* get_torrent_info in services/torrent.rs).  A torrent is read in several *)
(* queries that are not one snapshot, and who is logged in to a private    *)
(* tracker gets an announce URL with a key of his, which the tracker is    *)
(* asked for when there is none.                                           *)
(*                                                                         *)
(* Accounts and torrents come and go in single steps: Registration and     *)
(* TorrentIndex have how.  A request is served once.  A query that fails   *)
(* ends the handler with an error, and a handler that is dropped ends too: *)
(* neither leaves anything behind, so that for what is stated here it is   *)
(* as if the handler never went on.  Only the failures after which the     *)
(* code does go on are actions.                                            *)
(***************************************************************************)
EXTENDS Tokens

CONSTANTS
  Hashes, Canonical,   \* info-hashes, and the canonical form of each
  SingleFile,          \* the canonical hashes of torrents with one file
  Earlier,             \* the info-hashes that may have been uploaded before
  Asks,                \* what clients may ask for
  MaxTime, MaxId       \* bounds of the clock and of the torrents' ids

NoHash == "none"

ASSUME ServingAssumption ==
  /\ Canonical \in [Hashes -> Hashes]
  /\ \A h \in Hashes : Canonical[Canonical[h]] = Canonical[h]
  /\ Earlier \subseteq Hashes
  /\ NoHash \notin Hashes
  /\ MaxTime \in Nat /\ MaxId \in Nat \ {0}

\* Clients renew and verify a token that they present.
ASSUME AsksAssumption ==
  /\ Asks \subseteq [op : {"login", "renew", "verify", "download", "details"},
                    user : Users, bearer : BOOLEAN, hash : Hashes]
  /\ \A asked \in Asks : asked.op \in {"renew", "verify"} => asked.bearer

\* Keys were issued before with the validity that the settings have now.
ASSUME EarlierKeysAssumption ==
  \A rows \in EarlierKeys : \A k \in rows :
    k \in Key /\ k.key \notin Requests /\ k.valid_until <= KeyValidity

VARIABLES
  mode,        \* tracker.mode in the settings
  accounts,    \* what is known of each user
  tokens,      \* the tokens that clients hold
  torrents,    \* torrents with their files, announce URLs and originals
  nextId,      \* the next AUTOINCREMENT key of torrents
  pc,          \* where the handler of a request is
  job,         \* what the client asked for, and the handler's locals
  response     \* what the client was answered

vars == <<now, keys, mode, accounts, tokens, torrents, nextId, pc, job, response>>

Guest == "guest"
NoKey == [key |-> "none"]
NoToken == [exp |-> 0]

Torrent == [torrent_id : 1 .. MaxId, info_hash : Hashes, originals : SUBSET Hashes]
Reading == {"download", "details"}

Job == [op : {"none", "login", "renew", "verify"} \cup Reading,
        token : Token \cup {NoToken},      \* presented, then answered
        hash : Hashes \cup {NoHash},          \* that was asked for
        reader : Users \cup {Guest},
        tid : 0 .. MaxId,                  \* the torrent that was found
        files : Hashes \cup {NoHash},      \* whose files were read
        key : Key \cup {NoKey},
        since : Nat,                       \* for the properties: asked when
        had : SUBSET Nat,                  \* ... and when the keys expire that he had
        shown : Token \cup {NoToken},      \* ... and with which token
        blind : BOOLEAN]                   \* ... whether the look-up of a key failed

Steps == {"profile", "sign", "check", "compact", "renew", "identify", "redirect",
          "row", "files", "name", "urls", "key", "issue", "save"}

TypeOK ==
  /\ now \in 0 .. MaxTime
  /\ keys \in SUBSET Key
  /\ mode \in {"open", "private"}
  /\ accounts \in [Users -> {"unverified", "verified", "removed"}]
  /\ tokens \in SUBSET Token
  /\ torrents \in SUBSET Torrent
  /\ nextId \in 1 .. MaxId + 1
  /\ pc \in [Requests -> {"idle", "done"} \cup Steps]
  /\ job \in [Requests -> Job]
  /\ response \in [Requests -> {"none", "ok", "redirect", "refused", "not_found",
                                "tracker_offline", "error"}]

Listed(hash) == {t \in torrents : t.info_hash = hash}
WithId(id) == {t \in torrents : t.torrent_id = id}

Uploaded(id, hash) ==
  [torrent_id |-> id, info_hash |-> Canonical[hash], originals |-> {hash}]

\* When the keys expire that the holder of the token has.
ExpiriesOf(token) ==
  {k.valid_until : k \in {k \in keys : token # NoToken /\ k.user = token.user}}

\* What a handler starts with.
JobAbout(op, reader, token, hash) ==
  [op |-> op, token |-> token, hash |-> hash, reader |-> reader, tid |-> 0,
   files |-> NoHash, key |-> NoKey, since |-> now, had |-> ExpiriesOf(token),
   shown |-> token, blind |-> FALSE]

\* The server starts with accounts, and clients with tokens of earlier log-ins.
Init ==
  /\ now = 0
  /\ mode \in {"open", "private"}
  /\ keys \in IF mode = "open" THEN {{}} ELSE EarlierKeys
  /\ accounts \in [Users -> {"unverified", "verified"}]
  /\ tokens = {[user |-> u, exp |-> TokenValidity - 1] : u \in {u \in Users : accounts[u] = "verified"}}
  /\ torrents \in {{Uploaded(1, hash)} : hash \in Earlier}
  /\ nextId = 2
  /\ pc = [r \in Requests |-> "idle"]
  /\ job = [r \in Requests |-> JobAbout("none", Guest, NoToken, NoHash)]
  /\ response = [r \in Requests |-> "none"]

-----------------------------------------------------------------------------

world == <<now, keys, mode, accounts, tokens, torrents, nextId>>

GoTo(r, step) ==
  /\ pc' = [pc EXCEPT ![r] = step]
  /\ UNCHANGED response

Answer(r, answer) ==
  /\ pc' = [pc EXCEPT ![r] = "done"]
  /\ response' = [response EXCEPT ![r] = answer]

Submit(r) ==
  /\ pc[r] = "idle"
  /\ \E asked \in Asks, token \in tokens \cup {NoToken} :
       /\ token # NoToken <=> asked.bearer
       /\ job' = [job EXCEPT ![r] = JobAbout(asked.op,
                   IF asked.op = "login" THEN asked.user ELSE Guest, token, asked.hash)]
       /\ GoTo(r, CASE asked.op = "login" -> "profile"
                    [] asked.op \in {"renew", "verify"} -> "check"
                    [] OTHER -> "identify")
  /\ UNCHANGED world

-----------------------------------------------------------------------------
(* login and renew_token *)

MayLogIn(user) == accounts[user] = "verified"

\* The profile and the password; mail.email_verification_enabled is set.
LookUpProfile(r) ==
  /\ pc[r] = "profile"
  /\ \/ MayLogIn(job[r].reader) /\ GoTo(r, "sign")
     \/ Answer(r, "refused")     \* also for a wrong password
  /\ UNCHANGED <<world, job>>

Hand(r, token) ==
  /\ tokens' = tokens \cup {token}
  /\ job' = [job EXCEPT ![r].token = token]
  /\ Answer(r, "ok")

\* get_compact and sign
SignToken(r) ==
  /\ pc[r] = "sign"
  /\ \/ accounts[job[r].reader] # "removed" /\ Hand(r, Sign(job[r].reader))
     \/ accounts[job[r].reader] = "removed" /\ Answer(r, "error") /\ UNCHANGED <<tokens, job>>
  /\ UNCHANGED <<now, keys, mode, accounts, torrents, nextId>>

\* JsonWebToken::verify
CheckToken(r) ==
  /\ pc[r] = "check"
  /\ IF ~IsAlive(job[r].token) THEN Answer(r, "refused")
     ELSE IF job[r].op = "verify" THEN Answer(r, "ok") ELSE GoTo(r, "compact")
  /\ UNCHANGED <<world, job>>

CompactUser(r) ==
  /\ pc[r] = "compact"
  /\ IF accounts[job[r].token.user] = "removed" THEN Answer(r, "error") ELSE GoTo(r, "renew")
  /\ UNCHANGED <<world, job>>

\* The token may have expired since it was checked.
RenewToken(r) ==
  /\ pc[r] = "renew"
  /\ Hand(r, IF NeedsRenewal(job[r].token) THEN Sign(job[r].token.user) ELSE job[r].token)
  /\ UNCHANGED <<now, keys, mode, accounts, torrents, nextId>>

-----------------------------------------------------------------------------
(* Downloads and details *)

\* ExtractOptionalLoggedInUser: an expired token makes a guest.
Identify(r) ==
  /\ pc[r] = "identify"
  /\ job' = [job EXCEPT ![r].reader =
       IF job[r].token # NoToken /\ IsAlive(job[r].token) THEN job[r].token.user ELSE Guest]
  /\ GoTo(r, "redirect")
  /\ UNCHANGED world

\* find_canonical_info_hash_for
RedirectIfNeeded(r) ==
  /\ pc[r] = "redirect"
  /\ IF \E t \in torrents : job[r].hash \in t.originals /\ t.info_hash # job[r].hash
     THEN Answer(r, "redirect")
     ELSE GoTo(r, "row")
  /\ UNCHANGED <<world, job>>

\* get_torrent_info_from_info_hash or one_torrent_by_info_hash
ReadRow(r) ==
  LET found == Listed(job[r].hash) IN
  /\ pc[r] = "row"
  /\ \/ \E t \in found : job' = [job EXCEPT ![r].tid = t.torrent_id] /\ GoTo(r, "files")
     \/ found = {} /\ Answer(r, "not_found") /\ UNCHANGED job
  /\ UNCHANGED world

\* get_torrent_files_from_id: none when the torrent was deleted in between.
ReadFiles(r) ==
  LET found == WithId(job[r].tid)
      hash == IF found = {} THEN NoHash ELSE (CHOOSE t \in found : TRUE).info_hash IN
  /\ pc[r] = "files"
  /\ job' = [job EXCEPT ![r].files = hash]
  /\ GoTo(r, IF job[r].op = "details" /\ hash \in SingleFile THEN "name" ELSE "urls")
  /\ UNCHANGED world

\* The details of a torrent with one file: its name, looked up by the hash again.
ReadName(r) ==
  LET found == Listed(job[r].hash) IN
  /\ pc[r] = "name"
  /\ IF found = {} THEN Answer(r, "not_found") ELSE GoTo(r, "urls")
  /\ UNCHANGED <<world, job>>

\* The announce URLs; then the main tracker's, a personal one for whom is logged in.
ReadUrls(r) ==
  /\ pc[r] = "urls"
  /\ IF mode = "private" /\ job[r].reader # Guest THEN GoTo(r, "key") ELSE Answer(r, "ok")
  /\ UNCHANGED <<world, job>>

\* get_user_tracker_key
LookUpKey(r) ==
  LET usable == UsableKeys(job[r].reader) IN
  /\ pc[r] = "key"
  /\ \/ \E k \in FirstOf(usable) : job' = [job EXCEPT ![r].key = k] /\ Answer(r, "ok")
     \/ usable = {} /\ GoTo(r, "issue") /\ UNCHANGED job
  /\ UNCHANGED world

\* A failed query is taken for no key: .ok()
FailToLookUpKey(r) ==
  /\ pc[r] = "key"
  /\ job' = [job EXCEPT ![r].blind = TRUE]
  /\ GoTo(r, "issue")
  /\ UNCHANGED world

\* The tracker issues a key, and says so.
IssueKey(r) ==
  /\ pc[r] = "issue"
  /\ job' = [job EXCEPT ![r].key =
       [user |-> job[r].reader, key |-> r, valid_until |-> now + KeyValidity]]
  /\ GoTo(r, "save")
  /\ UNCHANGED world

\* The tracker refuses, cannot be reached or is not heard in time.
MissKey(r) ==
  /\ pc[r] = "issue"
  /\ Answer(r, "tracker_offline")
  /\ UNCHANGED <<world, job>>

\* The row refers to the user, who may have been removed.
SaveKey(r) ==
  /\ pc[r] = "save"
  /\ \/ /\ accounts[job[r].reader] # "removed"
        /\ InsertKey(job[r].key)
        /\ Answer(r, "ok")
     \/ /\ accounts[job[r].reader] = "removed"
        /\ Answer(r, "tracker_offline")
        /\ UNCHANGED keys
  /\ UNCHANGED <<now, mode, accounts, tokens, torrents, nextId, job>>

-----------------------------------------------------------------------------
(* The rest of the program and the world *)

Tick ==
  /\ now < MaxTime
  /\ now' = now + 1
  /\ UNCHANGED <<keys, mode, accounts, tokens, torrents, nextId, pc, job, response>>

\* delete_user, when the mail to a new user is reported as not sent.
Remove(u) ==
  /\ accounts[u] # "removed"
  /\ accounts' = [accounts EXCEPT ![u] = "removed"]
  /\ DeleteKeysOf(u)
  /\ UNCHANGED <<now, mode, tokens, torrents, nextId, pc, job, response>>

Upload(hash) ==
  /\ Listed(Canonical[hash]) = {}
  /\ nextId <= MaxId
  /\ torrents' = torrents \cup {Uploaded(nextId, hash)}
  /\ nextId' = nextId + 1
  /\ UNCHANGED <<now, keys, mode, accounts, tokens, pc, job, response>>

\* Mutant: the id of the last torrent is given out again.
Delete_FreeId(t) ==
  /\ torrents' = torrents \ {t}
  /\ nextId' = IF t.torrent_id = nextId - 1 THEN nextId - 1 ELSE nextId
  /\ UNCHANGED <<now, keys, mode, accounts, tokens, pc, job, response>>

Delete(t) ==
  /\ torrents' = torrents \ {t}
  /\ UNCHANGED <<now, keys, mode, accounts, tokens, nextId, pc, job, response>>

Step(r) ==
  \/ Submit(r) \/ LookUpProfile(r) \/ SignToken(r) \/ CheckToken(r) \/ CompactUser(r)
  \/ RenewToken(r) \/ Identify(r) \/ RedirectIfNeeded(r) \/ ReadRow(r) \/ ReadFiles(r)
  \/ ReadName(r) \/ ReadUrls(r) \/ LookUpKey(r) \/ FailToLookUpKey(r) \/ IssueKey(r) \/ MissKey(r) \/ SaveKey(r)

Served ==
  /\ \A r \in Requests : pc[r] = "done"
  /\ UNCHANGED vars

Next ==
  \/ \E r \in Requests : Step(r)
  \/ Served
  \/ Tick
  \/ \E u \in Users : Remove(u)
  \/ \E h \in Hashes : Upload(h)
  \/ \E t \in torrents : Delete(t)

Spec == Init /\ [][Next]_vars

-----------------------------------------------------------------------------
(* Properties *)

Answered(r, ops) == response[r] = "ok" /\ job[r].op \in ops

\* A renewal gives the token that was presented, or one of the same user that
\* outlives it by more than the time a token must have run to be renewed; also
\* when the token expires between the check and the subtraction, which then wraps
\* (authentication.rs:98-109).
RenewalKeepsOrExtends ==
  \A r \in Requests : Answered(r, {"renew"}) =>
    \/ job[r].token = job[r].shown
    \/ /\ job[r].token.user = job[r].shown.user
       /\ job[r].token.exp > job[r].shown.exp + TokenValidity - RenewalWindow

\* The key in an announce URL is the reader's own, good for an hour from when the
\* torrent was asked for also when it is not a new one, and no worse than any
\* the reader had, although overlapping requests leave a user several keys; guests
\* and readers of an open tracker get none (torrent.rs:264-271,
\* tracker/service.rs:187-200, sqlite.rs:147-160).
AnnounceKeyLasts ==
  \A r \in Requests : Answered(r, Reading) =>
    IF mode = "open" \/ job[r].reader = Guest THEN job[r].key = NoKey
    ELSE /\ job[r].key.user = job[r].reader
         /\ job[r].key.valid_until > job[r].since + KeyMargin
         /\ \A t \in job[r].had : t > now + KeyMargin => job[r].key.valid_until >= t

\* The tracker is asked for one more key of a user only when those the user had
\* before the request are about to expire, or when they could not be looked up: it
\* takes overlapping requests to leave a user two good keys.
SpareKeysComeFromOverlaps ==
  \A k \in keys : k.key \in Requests =>
    (\A t \in job[k.key].had : t <= now + KeyMargin) \/ job[k.key].blind

\* What a reader is shown is one torrent: the files that were read after its row
\* are its own, or missing because it was deleted in between (database.rs:202-210,
\* torrent.rs:324-350).
AnswerIsOneTorrent ==
  \A r \in Requests : Answered(r, Reading) =>
    /\ job[r].files \in {job[r].hash, NoHash}
    /\ job[r].files = NoHash => WithId(job[r].tid) = {}

=============================================================================
