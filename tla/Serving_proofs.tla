---------------------------- MODULE Serving_proofs ----------------------------
(***************************************************************************)
(* Proofs about Serving, for every set of users and requests, all times    *)
(* and margins and whatever clients ask for: what a reader is given while  *)
(* torrents, keys and accounts come and go and the clock runs.             *)
(***************************************************************************)
EXTENDS Serving, TLAPS

USE TimesAssumption, ServingAssumption, AsksAssumption, EarlierKeysAssumption

-----------------------------------------------------------------------------
(* Type correctness *)

\* What a handler has in its locals when it gets to a step.
StepMatchesJob(r) ==
  /\ pc[r] \in {"profile", "sign"} => job[r].op = "login" /\ job[r].reader \in Users
  /\ pc[r] \in {"check", "compact", "renew"} =>
       job[r].op \in {"renew", "verify"} /\ job[r].token \in Token /\ job[r].token = job[r].shown
  /\ pc[r] \in Steps \ {"profile", "sign", "check", "compact", "renew"} =>
       job[r].op \in Reading /\ job[r].token = job[r].shown
  /\ pc[r] \in {"key", "issue", "save"} =>
       mode = "private" /\ job[r].reader \in Users /\ job[r].reader # Guest
  /\ pc[r] = "save" => job[r].key \in Key

StepsMatchJobs == \A r \in Requests : StepMatchesJob(r)

TypeInv == TypeOK /\ StepsMatchJobs

LEMMA InitTypeInv == Init => TypeInv
<1> SUFFICES ASSUME Init PROVE TypeInv
  OBVIOUS
<1>1. /\ now \in 0 .. MaxTime /\ mode \in {"open", "private"}
      /\ keys \in SUBSET Key /\ nextId \in 1 .. MaxId + 1
      /\ accounts \in [Users -> {"unverified", "verified", "removed"}]
  BY DEF Init
<1>2. tokens \in SUBSET Token
  BY DEF Init, Token
<1>3. torrents \in SUBSET Torrent
  BY DEF Init, Torrent, Uploaded
<1>4. JobAbout("none", Guest, NoToken, NoHash) \in Job
  BY DEF Init, JobAbout, ExpiriesOf, Job, NoToken, NoKey, Guest, Reading
<1>5. /\ pc \in [Requests -> {"idle", "done"} \cup Steps]
      /\ job \in [Requests -> Job]
      /\ response \in [Requests -> {"none", "ok", "redirect", "refused", "not_found",
                                    "tracker_offline", "error"}]
  BY <1>4 DEF Init
<1>6. StepsMatchJobs
  BY DEF Init, StepsMatchJobs, StepMatchesJob, Steps
<1> QED BY <1>1, <1>2, <1>3, <1>5, <1>6 DEF TypeInv, TypeOK

HandlerTypes ==
  /\ pc \in [Requests -> {"idle", "done"} \cup Steps]
  /\ job \in [Requests -> Job]
  /\ response \in [Requests -> {"none", "ok", "redirect", "refused", "not_found",
                                "tracker_offline", "error"}]

\* A step of a handler leaves the others alone.
OthersKeep(r) ==
  \A q \in Requests \ {r} : pc'[q] = pc[q] /\ job'[q] = job[q] /\ response'[q] = response[q]

LEMMA JobsKeepTypes ==
  ASSUME TypeInv, NEW r \in Requests, NEW new \in Job, job' = [job EXCEPT ![r] = new],
         NEW step \in {"done"} \cup Steps, pc' = [pc EXCEPT ![r] = step],
         NEW answer \in {"none", "ok", "redirect", "refused", "not_found",
                         "tracker_offline", "error"},
         response' = [response EXCEPT ![r] = answer]
  PROVE  HandlerTypes' /\ OthersKeep(r)
BY DEF TypeInv, TypeOK, HandlerTypes, OthersKeep

LEMMA SubmitTypes ==
  ASSUME TypeInv, NEW r \in Requests, Submit(r)
  PROVE  HandlerTypes' /\ OthersKeep(r) /\ StepMatchesJob(r)'
<1>1. HandlerTypes /\ now \in Nat /\ tokens \subseteq Token /\ keys \subseteq Key
  BY DEF TypeInv, TypeOK, HandlerTypes
<1>2. PICK asked \in Asks, token \in tokens \cup {NoToken} :
        /\ token # NoToken <=> asked.bearer
        /\ job' = [job EXCEPT ![r] = JobAbout(asked.op,
                     IF asked.op = "login" THEN asked.user ELSE Guest, token, asked.hash)]
        /\ GoTo(r, CASE asked.op = "login" -> "profile"
                     [] asked.op \in {"renew", "verify"} -> "check"
                     [] OTHER -> "identify")
  BY DEF Submit
<1>3. /\ asked.op \in {"login", "renew", "verify", "download", "details"}
      /\ asked.user \in Users /\ asked.hash \in Hashes
      /\ asked.op \in {"renew", "verify"} => token \in Token
  BY <1>1, <1>2
<1>4. ExpiriesOf(token) \in SUBSET Nat
  BY <1>1 DEF ExpiriesOf, Key
<1> DEFINE new == [op |-> asked.op, token |-> token, hash |-> asked.hash,
                   reader |-> IF asked.op = "login" THEN asked.user ELSE Guest, tid |-> 0,
                   files |-> NoHash, key |-> NoKey, since |-> now, had |-> ExpiriesOf(token),
                   shown |-> token, blind |-> FALSE]
           step == CASE asked.op = "login" -> "profile"
                     [] asked.op \in {"renew", "verify"} -> "check"
                     [] OTHER -> "identify"
<1>5. new \in Job
  BY <1>1, <1>3, <1>4 DEF Job, Reading
<1>6. job' = [job EXCEPT ![r] = new]
  BY <1>2 DEF JobAbout
<1>7. step \in Steps /\ pc' = [pc EXCEPT ![r] = step] /\ UNCHANGED response
  BY <1>2 DEF GoTo, Steps
<1>8. HandlerTypes' /\ OthersKeep(r)
  <2>1. response' = [response EXCEPT ![r] = response[r]]
    BY <1>1, <1>7 DEF HandlerTypes
  <2> QED BY <1>1, <1>5, <1>6, <1>7, <2>1, JobsKeepTypes DEF HandlerTypes
<1>9. job'[r] = new /\ pc'[r] = step
  BY <1>1, <1>6, <1>7 DEF HandlerTypes
<1> QED BY <1>3, <1>8, <1>9 DEF StepMatchesJob, Reading, Steps

LEMMA HandTypes ==
  ASSUME TypeInv, NEW r \in Requests, NEW token \in Token, Hand(r, token)
  PROVE  /\ HandlerTypes' /\ OthersKeep(r) /\ pc'[r] = "done"
         /\ job'[r].since = job[r].since
<1>1. HandlerTypes /\ job[r] \in Job
  BY DEF TypeInv, TypeOK, HandlerTypes
<1>2. [job[r] EXCEPT !.token = token] \in Job
  BY <1>1 DEF Job
<1>3. job' = [job EXCEPT ![r] = [job[r] EXCEPT !.token = token]]
  BY DEF Hand
<1> QED BY <1>1, <1>2, <1>3 DEF Hand, Answer, HandlerTypes, OthersKeep, Job

LEMMA IssuedKey ==
  ASSUME NEW user \in Users, NEW r \in Requests, NEW t \in Nat
  PROVE  [user |-> user, key |-> r, valid_until |-> t + KeyValidity] \in Key
BY DEF Key

\* A handler writes a local or two and goes on.
LEMMA StepTypes ==
  ASSUME TypeInv, NEW r \in Requests, Step(r), ~Submit(r)
  PROVE  HandlerTypes' /\ OthersKeep(r) /\ StepMatchesJob(r)' /\ job'[r].since = job[r].since
<1>1. /\ HandlerTypes /\ StepMatchesJob(r)
      /\ now \in Nat /\ keys \subseteq Key /\ tokens \subseteq Token /\ torrents \subseteq Torrent
  BY DEF TypeInv, TypeOK, HandlerTypes, StepsMatchJobs
<1>2. job[r] \in Job /\ pc[r] \in {"idle", "done"} \cup Steps
  BY <1>1 DEF HandlerTypes
<1> USE <1>1, <1>2 DEF HandlerTypes, OthersKeep, StepMatchesJob, GoTo, Answer, world, Reading, Steps
<1>3. CASE LookUpProfile(r)
  BY <1>3 DEF LookUpProfile
<1>4. CASE SignToken(r)
  <2>1. Sign(job[r].reader) \in Token
    BY <1>4 DEF SignToken, Sign, Token
  <2>2. CASE Hand(r, Sign(job[r].reader))
    BY <2>1, <2>2, HandTypes
  <2>3. CASE Answer(r, "error") /\ UNCHANGED job
    BY <1>4, <2>3
  <2> QED BY <1>4, <2>2, <2>3 DEF SignToken
<1>5. CASE CheckToken(r)
  BY <1>5 DEF CheckToken
<1>6. CASE CompactUser(r)
  BY <1>6 DEF CompactUser
<1>7. CASE RenewToken(r)
  <2>1. Sign(job[r].token.user) \in Token /\ job[r].token \in Token
    BY <1>7 DEF RenewToken, Sign, Token
  <2> QED BY <1>7, <2>1, HandTypes DEF RenewToken
<1>8. CASE Identify(r)
  <2> DEFINE reader == IF job[r].token # NoToken /\ IsAlive(job[r].token)
                       THEN job[r].token.user ELSE Guest
             new == [job[r] EXCEPT !.reader = reader]
  <2>1. reader \in Users \cup {Guest}
    BY DEF Job, Token
  <2> HIDE DEF reader
  <2>2. /\ new \in Job /\ new.op = job[r].op /\ new.since = job[r].since
        /\ new.token = job[r].token /\ new.shown = job[r].shown
    BY <2>1 DEF Job
  <2>3. job' = [job EXCEPT ![r] = new]
    BY <1>8 DEF Identify, reader
  <2> HIDE DEF new
  <2> QED BY <1>8, <2>2, <2>3 DEF Identify
<1>9. CASE RedirectIfNeeded(r)
  BY <1>9 DEF RedirectIfNeeded
<1>10. CASE ReadRow(r)
  BY <1>10, SMTT(30) DEF ReadRow, Listed, Torrent, Job
<1>11. CASE ReadFiles(r)
  BY <1>11 DEF ReadFiles, WithId, Torrent, Job
<1>12. CASE ReadName(r)
  BY <1>12 DEF ReadName
<1>13. CASE ReadUrls(r)
  BY <1>13 DEF ReadUrls, Job
<1>14. CASE LookUpKey(r)
  <2>1. CASE GoTo(r, "issue") /\ UNCHANGED job
    BY <1>14, <2>1 DEF LookUpKey
  <2>2. CASE \E k \in FirstOf(UsableKeys(job[r].reader)) :
               job' = [job EXCEPT ![r].key = k] /\ Answer(r, "ok")
    <3>1. PICK k \in keys : job' = [job EXCEPT ![r].key = k] /\ Answer(r, "ok")
      BY <2>2 DEF FirstOf, UsableKeys
    <3>2. [job[r] EXCEPT !.key = k] \in Job
      BY DEF Job
    <3>3. job' = [job EXCEPT ![r] = [job[r] EXCEPT !.key = k]]
      BY <3>1
    <3> QED BY <3>1, <3>2, <3>3, <1>14, SMTT(30) DEF LookUpKey, Job
  <2> QED BY <1>14, <2>1, <2>2 DEF LookUpKey
<1>15. CASE FailToLookUpKey(r)
  BY <1>15, ZenonT(30) DEF FailToLookUpKey, Job
<1>16. CASE IssueKey(r)
  <2> DEFINE key == [user |-> job[r].reader, key |-> r, valid_until |-> now + KeyValidity]
             new == [job[r] EXCEPT !.key = key]
  <2>0. /\ pc[r] = "issue" /\ UNCHANGED mode /\ GoTo(r, "save")
        /\ job[r].reader \in Users /\ job[r].reader # Guest /\ mode = "private"
        /\ job[r].op \in Reading /\ job[r].token = job[r].shown
    BY <1>16 DEF IssueKey
  <2>1. key \in Key
    BY <2>0, IssuedKey
  <2> HIDE DEF key
  <2>2. /\ new \in Job /\ new.op = job[r].op /\ new.since = job[r].since
        /\ new.token = job[r].token /\ new.shown = job[r].shown
        /\ new.reader = job[r].reader /\ new.key = key
    BY <2>1 DEF Job
  <2>3. job' = [job EXCEPT ![r] = new]
    BY <1>16 DEF IssueKey, key
  <2> HIDE DEF new
  <2> QED BY <2>0, <2>1, <2>2, <2>3
<1>17. CASE MissKey(r)
  BY <1>17 DEF MissKey
<1>18. CASE SaveKey(r)
  BY <1>18 DEF SaveKey
<1> QED BY <1>3, <1>4, <1>5, <1>6, <1>7, <1>8, <1>9, <1>10, <1>11, <1>12, <1>13, <1>14, <1>15,
    <1>16, <1>17, <1>18 DEF Step

WorldTypes ==
  /\ now \in 0 .. MaxTime
  /\ keys \in SUBSET Key
  /\ mode \in {"open", "private"}
  /\ accounts \in [Users -> {"unverified", "verified", "removed"}]
  /\ tokens \in SUBSET Token
  /\ torrents \in SUBSET Torrent
  /\ nextId \in 1 .. MaxId + 1

\* What the handlers change of the world.
HandlerWorld(r) ==
  /\ UNCHANGED <<now, mode, accounts, torrents, nextId>>
  /\ \/ UNCHANGED <<keys, tokens>>
     \/ /\ UNCHANGED keys
        /\ \E token \in Token : tokens' = tokens \cup {token}
     \/ UNCHANGED tokens /\ pc[r] = "save" /\ InsertKey(job[r].key)

LEMMA StepWorld ==
  ASSUME TypeInv, NEW r \in Requests, Step(r)
  PROVE  HandlerWorld(r)
<1>1. StepMatchesJob(r) /\ now \in Nat
  BY DEF TypeInv, TypeOK, StepsMatchJobs
<1>2. CASE SignToken(r)
  <2>1. Sign(job[r].reader) \in Token
    BY <1>1, <1>2 DEF SignToken, Sign, Token, StepMatchesJob
  <2> QED BY <1>2, <2>1 DEF SignToken, Hand, HandlerWorld
<1>3. CASE RenewToken(r)
  <2>1. Sign(job[r].token.user) \in Token /\ job[r].token \in Token
    BY <1>1, <1>3 DEF RenewToken, Sign, Token, StepMatchesJob
  <2> QED BY <1>3, <2>1 DEF RenewToken, Hand, HandlerWorld
<1>4. CASE SaveKey(r)
  BY <1>4 DEF SaveKey, HandlerWorld
<1>5. CASE ~(SignToken(r) \/ RenewToken(r) \/ SaveKey(r))
  BY <1>5 DEF Step, world, HandlerWorld, Submit, LookUpProfile, CheckToken, CompactUser, Identify,
     RedirectIfNeeded, ReadRow, ReadFiles, ReadName, ReadUrls, LookUpKey, FailToLookUpKey,
     IssueKey, MissKey
<1> QED BY <1>2, <1>3, <1>4, <1>5

LEMMA TypeInvNext == TypeInv /\ [Next]_vars => TypeInv'
<1> SUFFICES ASSUME TypeInv, [Next]_vars PROVE TypeInv'
  OBVIOUS
<1>1. HandlerTypes /\ WorldTypes /\ StepsMatchJobs
  BY DEF TypeInv, TypeOK, HandlerTypes, WorldTypes
<1>2. ASSUME NEW r \in Requests, Step(r) PROVE TypeInv'
  <2>1. HandlerTypes' /\ OthersKeep(r) /\ StepMatchesJob(r)'
    BY <1>2, SubmitTypes, StepTypes
  <2>2. HandlerWorld(r)
    BY <1>2, StepWorld
  <2>3. pc[r] = "save" => job[r].key \in Key
    BY <1>1 DEF StepsMatchJobs, StepMatchesJob
  <2>4. WorldTypes'
    BY <1>1, <2>2, <2>3 DEF WorldTypes, HandlerWorld, InsertKey
  <2>5. StepsMatchJobs'
    BY <1>1, <2>1, <2>2 DEF StepsMatchJobs, StepMatchesJob, OthersKeep, HandlerWorld
  <2> QED BY <2>1, <2>4, <2>5 DEF TypeInv, TypeOK, HandlerTypes, WorldTypes
<1>3. ASSUME UNCHANGED <<mode, pc, job, response>>, WorldTypes' PROVE TypeInv'
  BY <1>1, <1>3 DEF TypeInv, TypeOK, HandlerTypes, WorldTypes, StepsMatchJobs, StepMatchesJob
<1>4. CASE Served \/ UNCHANGED vars
  BY <1>1, <1>3, <1>4 DEF Served, vars, WorldTypes
<1>5. CASE Tick
  BY <1>1, <1>3, <1>5 DEF Tick, WorldTypes
<1>6. ASSUME NEW u \in Users, Remove(u) PROVE TypeInv'
  BY <1>1, <1>3, <1>6 DEF Remove, DeleteKeysOf, WorldTypes
<1>7. ASSUME NEW h \in Hashes, Upload(h) PROVE TypeInv'
  <2>1. Uploaded(nextId, h) \in Torrent
    BY <1>1, <1>7 DEF Upload, Uploaded, Torrent, WorldTypes
  <2> QED BY <1>1, <1>3, <1>7, <2>1 DEF Upload, WorldTypes
<1>8. ASSUME NEW t \in torrents, Delete(t) PROVE TypeInv'
  BY <1>1, <1>3, <1>8 DEF Delete, WorldTypes
<1> QED BY <1>2, <1>4, <1>5, <1>6, <1>7, <1>8 DEF Next

\* What handlers keep over their queries is well formed in every reachable state.
THEOREM TypeCorrect == Spec => []TypeOK
<1>1. TypeInv => TypeOK
  BY DEF TypeInv
<1> QED BY <1>1, InitTypeInv, TypeInvNext, PTL DEF Spec

-----------------------------------------------------------------------------
(* One torrent in several queries *)

HasTorrent(r) ==
  pc[r] \in {"files", "name", "urls", "key", "issue", "save"} \/ Answered(r, Reading)

HasFiles(r) ==
  pc[r] \in {"name", "urls", "key", "issue", "save"} \/ Answered(r, Reading)

\* The id that was read with the row means the torrent that was asked for or none.
ReadsOneTorrent(r) ==
  /\ response[r] # "none" => pc[r] = "done"
  /\ HasTorrent(r) =>
       /\ job[r].tid < nextId
       /\ \A t \in torrents : t.torrent_id = job[r].tid => t.info_hash = job[r].hash
  /\ HasFiles(r) =>
       /\ job[r].files \in {job[r].hash, NoHash}
       /\ job[r].files = NoHash => \A t \in torrents : t.torrent_id # job[r].tid

TorrentsInv ==
  /\ \A t \in torrents : t.torrent_id < nextId
  /\ \A t, u \in torrents : t.torrent_id = u.torrent_id => t = u
  /\ \A r \in Requests : ReadsOneTorrent(r)

\* Torrents come one at a time with a new id, and change no more.
TorrentsGoOn ==
  /\ nextId <= nextId'
  /\ \A t, u \in torrents' \ torrents : t = u
  /\ \A t \in torrents' : t \in torrents \/ (t.torrent_id = nextId /\ nextId < nextId')

LEMMA TorrentsStep ==
  ASSUME TypeInv, [Next]_vars
  PROVE  TorrentsGoOn
<1>1. nextId \in Nat
  BY DEF TypeInv, TypeOK
<1>2. ASSUME UNCHANGED <<torrents, nextId>> PROVE TorrentsGoOn
  BY <1>1, <1>2 DEF TorrentsGoOn
<1>3. ASSUME NEW r \in Requests, Step(r) PROVE TorrentsGoOn
  BY <1>2, <1>3, StepWorld DEF HandlerWorld
<1>4. ASSUME NEW h \in Hashes, Upload(h) PROVE TorrentsGoOn
  <2> DEFINE row == Uploaded(nextId, h)
  <2>1. row.torrent_id = nextId
    BY DEF Uploaded
  <2>2. torrents' = torrents \cup {row} /\ nextId' = nextId + 1
    BY <1>4 DEF Upload
  <2> HIDE DEF row
  <2> QED BY <1>1, <2>1, <2>2 DEF TorrentsGoOn
<1>5. ASSUME NEW t \in torrents, Delete(t) PROVE TorrentsGoOn
  BY <1>1, <1>5 DEF Delete, TorrentsGoOn
<1>6. ASSUME NEW u \in Users, Remove(u) PROVE TorrentsGoOn
  BY <1>2, <1>6 DEF Remove
<1>7. CASE Tick \/ Served \/ UNCHANGED vars
  BY <1>2, <1>7 DEF Tick, Served, vars
<1> QED BY <1>3, <1>4, <1>5, <1>6, <1>7 DEF Next

\* What is known of a torrent stays true while others come and go.
LEMMA ReadingStaysOne ==
  ASSUME TypeInv, TorrentsInv, TorrentsGoOn, nextId' \in Nat, NEW r \in Requests,
         pc'[r] = pc[r], job'[r] = job[r], response'[r] = response[r]
  PROVE  ReadsOneTorrent(r)'
<1>1. job[r].tid \in Nat /\ nextId \in Nat
  BY DEF TypeInv, TypeOK, Job
<1>2. ReadsOneTorrent(r)
  BY DEF TorrentsInv
<1> QED BY <1>1, <1>2 DEF ReadsOneTorrent, HasTorrent, HasFiles, Answered, TorrentsGoOn

LEMMA ReadingStepIsOne ==
  ASSUME TypeInv, TorrentsInv, NEW r \in Requests, Step(r)
  PROVE  ReadsOneTorrent(r)'
<1>1. /\ HandlerTypes /\ StepMatchesJob(r) /\ ReadsOneTorrent(r)
      /\ \A t \in torrents : t.torrent_id < nextId
      /\ \A t, u \in torrents : t.torrent_id = u.torrent_id => t = u
      /\ UNCHANGED <<torrents, nextId>>
  BY StepWorld DEF TypeInv, TypeOK, HandlerTypes, StepsMatchJobs, TorrentsInv, HandlerWorld
<1>2. job[r] \in Job
  BY <1>1 DEF HandlerTypes
<1> USE <1>1, <1>2 DEF HandlerTypes, StepMatchesJob, ReadsOneTorrent, HasTorrent, HasFiles,
        Answered, GoTo, Answer, Reading, Steps
<1>3. CASE Submit(r)
  <2>1. pc[r] = "idle" /\ UNCHANGED response
    BY <1>3 DEF Submit
  <2>2. pc'[r] \in {"profile", "check", "identify"}
    BY <1>3 DEF Submit
  <2> QED BY <2>1, <2>2
<1>4. CASE LookUpProfile(r) \/ CheckToken(r) \/ CompactUser(r)
  BY <1>4 DEF LookUpProfile, CheckToken, CompactUser
<1>5. CASE SignToken(r) \/ RenewToken(r)
  <2>1. job'[r].op = job[r].op \/ UNCHANGED job
    BY <1>5 DEF SignToken, RenewToken, Hand, Job
  <2> QED BY <1>5, <2>1 DEF SignToken, RenewToken, Hand
<1>6. CASE Identify(r)
  BY <1>6 DEF Identify
<1>7. CASE RedirectIfNeeded(r)
  BY <1>7 DEF RedirectIfNeeded
<1>8. CASE ReadRow(r)
  <2>1. CASE Answer(r, "not_found") /\ UNCHANGED job
    BY <1>8, <2>1 DEF ReadRow
  <2>2. CASE \E t \in Listed(job[r].hash) :
               job' = [job EXCEPT ![r].tid = t.torrent_id] /\ GoTo(r, "files")
    <3>1. PICK t \in torrents : /\ t.info_hash = job[r].hash
                                /\ job' = [job EXCEPT ![r].tid = t.torrent_id]
                                /\ GoTo(r, "files")
      BY <2>2 DEF Listed
    <3>2. job' = [job EXCEPT ![r] = [job[r] EXCEPT !.tid = t.torrent_id]]
      BY <3>1
    <3>3. job'[r].tid = t.torrent_id /\ job'[r].hash = job[r].hash /\ job'[r].op = job[r].op
      BY <3>2 DEF Job
    <3>4. pc'[r] = "files" /\ response'[r] = response[r] /\ pc[r] = "row"
      BY <1>8, <3>1 DEF ReadRow
    <3> QED BY <3>1, <3>3, <3>4
  <2> QED BY <1>8, <2>1, <2>2 DEF ReadRow
<1>9. CASE ReadFiles(r)
  <2> DEFINE found == WithId(job[r].tid)
             hash == IF found = {} THEN NoHash ELSE (CHOOSE t \in found : TRUE).info_hash
  <2>1. \/ found = {} /\ hash = NoHash
        \/ \E t \in found : hash = t.info_hash
    OBVIOUS
  <2>2. pc[r] = "files" /\ job' = [job EXCEPT ![r].files = hash]
    BY <1>9 DEF ReadFiles
  <2>3. pc'[r] \in {"name", "urls"} /\ UNCHANGED response
    BY <1>9 DEF ReadFiles
  <2>4. hash \in {job[r].hash, NoHash} /\ (hash = NoHash => found = {})
    <3>1. job[r].hash # NoHash \/ found = {}
      BY <2>2 DEF WithId, TypeInv, TypeOK, Torrent
    <3> QED BY <2>1, <2>2, <3>1 DEF WithId
  <2> HIDE DEF hash
  <2>5. /\ job'[r].files = hash /\ job'[r].hash = job[r].hash
        /\ job'[r].tid = job[r].tid /\ job'[r].op = job[r].op
    BY <2>2 DEF Job
  <2> QED BY <2>2, <2>3, <2>4, <2>5 DEF WithId
<1>10. CASE ReadName(r) \/ ReadUrls(r)
  BY <1>10 DEF ReadName, ReadUrls
<1>11. CASE LookUpKey(r)
  <2>1. CASE UNCHANGED job /\ GoTo(r, "issue")
    BY <1>11, <2>1 DEF LookUpKey
  <2>2. CASE \E k \in FirstOf(UsableKeys(job[r].reader)) :
               job' = [job EXCEPT ![r].key = k] /\ Answer(r, "ok")
    BY <1>11, <2>2 DEF LookUpKey, Job
  <2> QED BY <1>11, <2>1, <2>2 DEF LookUpKey
<1>12. CASE FailToLookUpKey(r)
  BY <1>12 DEF FailToLookUpKey, Job
<1>13. CASE IssueKey(r) 
  BY <1>13 DEF IssueKey, Job
<1>14. CASE MissKey(r) \/ SaveKey(r)
  BY <1>14 DEF MissKey, SaveKey, world
<1> QED BY <1>3, <1>4, <1>5, <1>6, <1>7, <1>8, <1>9, <1>10, <1>11, <1>12, <1>13, <1>14 DEF Step

LEMMA TorrentsInvNext == TypeInv /\ TorrentsInv /\ [Next]_vars => TorrentsInv'
<1> SUFFICES ASSUME TypeInv, TorrentsInv, [Next]_vars PROVE TorrentsInv'
  OBVIOUS
<1>1. TorrentsGoOn /\ nextId \in Nat /\ nextId' \in Nat
  BY TorrentsStep, TypeInvNext DEF TypeInv, TypeOK
<1>2. \A t \in torrents : t.torrent_id \in Nat
  BY DEF TypeInv, TypeOK, Torrent
<1>3. /\ \A t \in torrents' : t.torrent_id < nextId'
      /\ \A t, u \in torrents' : t.torrent_id = u.torrent_id => t = u
  BY <1>1, <1>2 DEF TorrentsInv, TorrentsGoOn
<1>4. ASSUME NEW r \in Requests PROVE ReadsOneTorrent(r)'
  <2>1. CASE pc'[r] = pc[r] /\ job'[r] = job[r] /\ response'[r] = response[r]
    BY <1>1, <2>1, ReadingStaysOne
  <2>2. ASSUME NEW q \in Requests, Step(q) PROVE ReadsOneTorrent(r)'
    BY <2>1, <2>2, ReadingStepIsOne, SubmitTypes, StepTypes DEF OthersKeep
  <2>3. CASE UNCHANGED <<pc, job, response>>
    BY <2>1, <2>3
  <2> QED BY <2>2, <2>3 DEF Next, Served, Tick, Remove, Upload, Delete, vars
<1> QED BY <1>3, <1>4 DEF TorrentsInv

LEMMA TorrentsInvInit == Init => TorrentsInv
<1> SUFFICES ASSUME Init PROVE TorrentsInv
  OBVIOUS
<1>1. PICK hash \in Earlier : torrents = {Uploaded(1, hash)}
  BY DEF Init
<1>2. Uploaded(1, hash).torrent_id = 1 /\ nextId = 2
  BY DEF Init, Uploaded
<1>3. \A r \in Requests : ReadsOneTorrent(r)
  BY DEF Init, ReadsOneTorrent, HasTorrent, HasFiles, Answered
<1> QED BY <1>1, <1>2, <1>3 DEF TorrentsInv

\* The files that a reader is given belong to the torrent that was asked for, or
\* are missing because it was deleted in between: an id is not given out again, so
\* that what is uploaded after a deletion is not mixed in (database.rs:202-210,
\* services/torrent.rs:324-350).
THEOREM AnswersAreOneTorrent == Spec => []AnswerIsOneTorrent
<1>1. Init => TorrentsInv
  BY TorrentsInvInit
<1>2. TorrentsInv => AnswerIsOneTorrent
  BY DEF TorrentsInv, ReadsOneTorrent, HasFiles, AnswerIsOneTorrent, WithId
<1> QED BY <1>1, <1>2, InitTypeInv, TypeInvNext, TorrentsInvNext, PTL DEF Spec

-----------------------------------------------------------------------------
(* Renewal of tokens *)

\* A token that has not expired is not a wrapped one.
LEMMA LiveTokensDoNotWrap ==
  ASSUME NEW left \in 0 .. U64 - 1
  PROVE  left % U64 = left
BY SMT

RenewsOrKeeps(r) ==
  /\ job[r].token \in tokens \cup {NoToken}
  /\ Answered(r, {"renew"}) =>
       \/ job[r].token = job[r].shown
       \/ /\ job[r].token.user = job[r].shown.user
          /\ job[r].token.exp > job[r].shown.exp + TokenValidity - RenewalWindow

\* No token outlives what was signed just now.
TokensInv ==
  /\ \A token \in tokens : token.exp <= now + TokenValidity
  /\ \A r \in Requests : RenewsOrKeeps(r)

LEMMA RenewalExtends ==
  ASSUME TypeInv, TokensInv, NEW token \in tokens, NeedsRenewal(token)
  PROVE  /\ Sign(token.user).user = token.user
         /\ Sign(token.user).exp > token.exp + TokenValidity - RenewalWindow
<1>1. /\ now \in Nat /\ token.exp \in Nat /\ token.exp <= now + TokenValidity
  BY DEF TypeInv, TypeOK, Token, TokensInv
<1>2. token.exp - now < RenewalWindow
  <2>1. CASE token.exp < now
    BY <1>1, <2>1
  <2>2. CASE token.exp >= now
    <3>1. token.exp - now \in 0 .. U64 - 1
      BY <1>1, <2>2
    <3> QED BY <3>1, LiveTokensDoNotWrap DEF NeedsRenewal, TimeLeft
  <2> QED BY <1>1, <2>1, <2>2
<1> QED BY <1>1, <1>2 DEF Sign

LEMMA RenewalStep ==
  ASSUME TypeInv, TorrentsInv, TokensInv, NEW r \in Requests, Step(r)
  PROVE  /\ RenewsOrKeeps(r)' /\ tokens \subseteq tokens'
         /\ tokens' \subseteq tokens \cup {Sign(u) : u \in Users}
<1>1. /\ HandlerTypes /\ StepMatchesJob(r) /\ RenewsOrKeeps(r)
      /\ response[r] # "none" => pc[r] = "done"
  BY DEF TypeInv, TypeOK, HandlerTypes, StepsMatchJobs, TorrentsInv, ReadsOneTorrent, TokensInv
<1>2. job[r] \in Job
  BY <1>1 DEF HandlerTypes
<1> USE <1>1, <1>2 DEF HandlerTypes, StepMatchesJob, RenewsOrKeeps, Answered, GoTo, Answer,
        Reading, Steps
<1>3. CASE Submit(r)
  <2>1. PICK token \in tokens \cup {NoToken} : job'[r].token = token
    BY <1>3 DEF Submit, JobAbout
  <2>2. pc[r] = "idle" /\ UNCHANGED <<response, tokens>>
    BY <1>3 DEF Submit, world
  <2> QED BY <2>1, <2>2
<1>4. CASE LookUpProfile(r) \/ CheckToken(r) \/ CompactUser(r)
  BY <1>4 DEF LookUpProfile, CheckToken, CompactUser, world
<1>5. CASE SignToken(r)
  <2>1. CASE Answer(r, "error") /\ UNCHANGED <<tokens, job>>
    BY <1>5, <2>1
  <2>2. CASE Hand(r, Sign(job[r].reader))
    <3>1. job'[r].token = Sign(job[r].reader) /\ job'[r].op = "login"
      BY <1>5, <2>2 DEF Hand, SignToken, Job
    <3> QED BY <1>5, <2>2, <3>1 DEF Hand, SignToken
  <2> QED BY <1>5, <2>1, <2>2 DEF SignToken
<1>6. CASE RenewToken(r)
  <2> DEFINE token == IF NeedsRenewal(job[r].token) THEN Sign(job[r].token.user) ELSE job[r].token
  <2>1. /\ job[r].token \in Token /\ job[r].token = job[r].shown /\ pc[r] = "renew"
        /\ Hand(r, token)
    BY <1>6 DEF RenewToken
  <2>2. job[r].token \in tokens
    <3>1. job[r].token # NoToken
      BY <2>1 DEF Token, NoToken
    <3> QED BY <3>1
  <2>3. token \in tokens \cup {Sign(u) : u \in Users}
    BY <2>1, <2>2 DEF Token
  <2>4. \/ token = job[r].shown
        \/ /\ token.user = job[r].shown.user
           /\ token.exp > job[r].shown.exp + TokenValidity - RenewalWindow
    BY <2>1, <2>2, RenewalExtends
  <2> HIDE DEF token
  <2>5. job'[r].token = token /\ job'[r].shown = job[r].shown /\ tokens' = tokens \cup {token}
    BY <2>1 DEF Hand, Job
  <2> QED BY <2>3, <2>4, <2>5
<1>7. CASE Identify(r)
  BY <1>7 DEF Identify, Job, world
<1>8. CASE RedirectIfNeeded(r) \/ ReadName(r) \/ ReadUrls(r) \/ MissKey(r) \/ SaveKey(r)
  BY <1>8 DEF RedirectIfNeeded, ReadName, ReadUrls, MissKey, SaveKey, world
<1>9. CASE ReadRow(r) \/ ReadFiles(r)
  <2>1. /\ job'[r].token = job[r].token /\ job'[r].op = job[r].op /\ response'[r] # "ok"
        /\ UNCHANGED tokens
    BY <1>9 DEF ReadRow, ReadFiles, Job, world
  <2> QED BY <2>1
<1>10. CASE LookUpKey(r) \/ FailToLookUpKey(r) \/ IssueKey(r)
  <2>1. /\ job'[r].token = job[r].token /\ job'[r].op = job[r].op /\ job[r].op \in Reading
        /\ UNCHANGED tokens
    BY <1>10 DEF LookUpKey, FailToLookUpKey, IssueKey, Job, world
  <2> QED BY <2>1
<1> QED BY <1>3, <1>4, <1>5, <1>6, <1>7, <1>8, <1>9, <1>10 DEF Step

LEMMA TokensInvNext == TypeInv /\ TorrentsInv /\ TokensInv /\ [Next]_vars => TokensInv'
<1> SUFFICES ASSUME TypeInv, TorrentsInv, TokensInv, [Next]_vars PROVE TokensInv'
  OBVIOUS
<1>1. /\ now \in Nat /\ tokens \subseteq Token
      /\ \A token \in tokens : token.exp \in Nat
  BY DEF TypeInv, TypeOK, Token
<1>2. ASSUME NEW r \in Requests, Step(r) PROVE TokensInv'
  <2>1. /\ RenewsOrKeeps(r)' /\ OthersKeep(r) /\ tokens \subseteq tokens' /\ UNCHANGED now
        /\ tokens' \subseteq tokens \cup {Sign(u) : u \in Users}
    BY <1>2, RenewalStep, SubmitTypes, StepTypes, StepWorld DEF HandlerWorld
  <2>2. \A q \in Requests : RenewsOrKeeps(q)'
    BY <2>1 DEF TokensInv, RenewsOrKeeps, Answered, OthersKeep
  <2>3. \A u \in Users : Sign(u).exp = now + TokenValidity
    BY DEF Sign
  <2> QED BY <1>1, <2>1, <2>2, <2>3 DEF TokensInv
<1>3. CASE UNCHANGED <<tokens, pc, job, response>> /\ now' \in Nat /\ now <= now'
  BY <1>1, <1>3 DEF TokensInv, RenewsOrKeeps, Answered
<1> QED BY <1>1, <1>2, <1>3 DEF Next, Served, Tick, Remove, Upload, Delete, vars

\* A renewal gives the token that was presented or a longer one of the same user,
\* although the token may expire after it was checked and the subtraction of
\* unsigned numbers then wraps (services/authentication.rs:98-109).
THEOREM RenewalsKeepOrExtend == Spec => []RenewalKeepsOrExtends
<1>1. Init => TokensInv
  BY DEF Init, TokensInv, RenewsOrKeeps, Answered, JobAbout
<1>2. TokensInv => RenewalKeepsOrExtends
  BY DEF TokensInv, RenewsOrKeeps, RenewalKeepsOrExtends
<1>3. Init => TorrentsInv
  BY TorrentsInvInit
<1> QED BY <1>1, <1>2, <1>3, InitTypeInv, TypeInvNext, TorrentsInvNext, TokensInvNext, PTL DEF Spec

-----------------------------------------------------------------------------
(* Keys of readers *)

Identified(r) == pc[r] \in {"redirect", "row", "files", "name", "urls", "key", "issue", "save"}

\* A key that the reader had is still there, unless the account is not.
IsKept(user, t) ==
  accounts[user] = "removed" \/ \E k \in keys : k.user = user /\ k.valid_until = t

NoneWasGood(r) == \A t \in job[r].had : t <= now + KeyMargin

KeyIsGood(r) ==
  /\ mode = "open" \/ job[r].reader = Guest => job[r].key = NoKey
  /\ ~(mode = "open" \/ job[r].reader = Guest) =>
       /\ job[r].key.user = job[r].reader
       /\ job[r].key.valid_until > job[r].since + KeyMargin
       /\ \A t \in job[r].had : t > now + KeyMargin => job[r].key.valid_until >= t

ReaderHasKeys(r) ==
  /\ job[r].since <= now /\ \A t \in job[r].had : t <= job[r].since + KeyValidity
  /\ pc[r] \notin {"save", "done"} => job[r].key = NoKey
  /\ Identified(r) /\ job[r].reader # Guest =>
       job[r].token # NoToken /\ job[r].reader = job[r].token.user
  /\ pc[r] # "done" /\ job[r].token # NoToken =>
       \A t \in job[r].had : IsKept(job[r].token.user, t)
  /\ pc[r] \in {"issue", "save"} =>
       NoneWasGood(r) \/ job[r].blind \/ accounts[job[r].reader] = "removed"
  /\ pc[r] = "save" =>
       /\ job[r].key.key = r /\ job[r].key.user = job[r].reader
       /\ job[r].key.valid_until > job[r].since + KeyMargin
       /\ job[r].key.valid_until <= now + KeyValidity
       /\ \A t \in job[r].had : job[r].key.valid_until >= t
  /\ Answered(r, Reading) => KeyIsGood(r)

KeysInv ==
  /\ \A k \in keys :
       /\ k.valid_until <= now + KeyValidity
       /\ accounts[k.user] # "removed"
       /\ k.key \in Requests =>
            pc[k.key] = "done" /\ (NoneWasGood(k.key) \/ job[k.key].blind)
  /\ \A r \in Requests : ReaderHasKeys(r)

LEMMA KeysInvInit == Init => KeysInv
<1> SUFFICES ASSUME Init PROVE KeysInv
  OBVIOUS
<1>1. now = 0 /\ \A k \in keys : k \in Key /\ k.key \notin Requests /\ k.valid_until <= KeyValidity
  BY DEF Init
<1>2. \A k \in keys : accounts[k.user] # "removed"
  BY <1>1 DEF Init, Key
<1>3. \A r \in Requests : ReaderHasKeys(r)
  BY DEF Init, ReaderHasKeys, JobAbout, ExpiriesOf, Identified, Answered
<1> QED BY <1>1, <1>2, <1>3 DEF KeysInv, Key

\* Time goes on, accounts that are gone stay gone, and only theirs lose keys.
KeysGoOn ==
  /\ now' \in Nat /\ now <= now' /\ UNCHANGED mode
  /\ \A u \in Users : accounts[u] = "removed" => accounts'[u] = "removed"
  /\ \A k \in keys : k \in keys' \/ accounts'[k.user] = "removed"

LEMMA ReaderKeepsKeys ==
  ASSUME TypeInv, KeysInv, KeysGoOn, NEW r \in Requests,
         pc'[r] = pc[r], job'[r] = job[r], response'[r] = response[r]
  PROVE  ReaderHasKeys(r)'
<1>1. /\ now \in Nat /\ keys \subseteq Key /\ job[r] \in Job
      /\ ReaderHasKeys(r)
      /\ pc[r] \in {"key", "issue", "save"} => job[r].reader \in Users
  BY DEF TypeInv, TypeOK, KeysInv, StepsMatchJobs, StepMatchesJob
<1>2. job[r].since \in Nat /\ job[r].had \subseteq Nat
  BY <1>1 DEF Job
<1>3. job[r].token # NoToken => job[r].token.user \in Users
  BY <1>1 DEF Job, Token
<1>4. \A u \in Users : \A t : IsKept(u, t) => IsKept(u, t)'
  BY <1>1 DEF IsKept, KeysGoOn
<1>5. NoneWasGood(r) => NoneWasGood(r)'
  BY <1>1, <1>2 DEF NoneWasGood, KeysGoOn
<1>6. KeyIsGood(r) => KeyIsGood(r)'
  BY <1>1, <1>2 DEF KeyIsGood, KeysGoOn
<1>7. pc[r] = "save" => job[r].key.valid_until \in Nat
  BY DEF TypeInv, StepsMatchJobs, StepMatchesJob, Key
<1> QED BY <1>1, <1>2, <1>3, <1>4, <1>5, <1>6, <1>7
    DEF ReaderHasKeys, Identified, Answered, KeysGoOn

\* A handler that was asked for something knows the keys that there are.
LEMMA SubmitHasKeys ==
  ASSUME TypeInv, TorrentsInv, KeysInv, NEW r \in Requests, Submit(r)
  PROVE  ReaderHasKeys(r)'
<1>1. PICK asked \in Asks, token \in tokens \cup {NoToken} :
        job' = [job EXCEPT ![r] = JobAbout(asked.op,
                 IF asked.op = "login" THEN asked.user ELSE Guest, token, asked.hash)]
  BY DEF Submit
<1>2. /\ HandlerTypes /\ now \in Nat /\ keys \subseteq Key
      /\ response[r] # "none" => pc[r] = "done"
  BY DEF TypeInv, TypeOK, HandlerTypes, TorrentsInv, ReadsOneTorrent
<1>3. /\ pc[r] = "idle" /\ pc'[r] \in {"profile", "check", "identify"}
      /\ UNCHANGED <<response, now, keys, accounts, mode>>
  BY <1>2 DEF Submit, GoTo, world, HandlerTypes
<1>4. /\ job'[r].since = now /\ job'[r].token = token /\ job'[r].key = NoKey
      /\ job'[r].had = ExpiriesOf(token)
  BY <1>1, <1>2 DEF JobAbout, HandlerTypes
<1>5. /\ \A t \in ExpiriesOf(token) : t <= now + KeyValidity
      /\ token # NoToken => \A t \in ExpiriesOf(token) : IsKept(token.user, t)
  <2>1. \A k \in keys : k.valid_until <= now + KeyValidity
    BY DEF KeysInv
  <2>2. \A t \in ExpiriesOf(token) : \E k \in keys :
          k.valid_until = t /\ token # NoToken /\ k.user = token.user
    BY DEF ExpiriesOf
  <2> QED BY <2>1, <2>2 DEF IsKept
<1>6. token # NoToken => \A t \in ExpiriesOf(token) : IsKept(token.user, t)'
  BY <1>3, <1>5 DEF IsKept
<1> QED BY <1>2, <1>3, <1>4, <1>5, <1>6 DEF ReaderHasKeys, Identified, Answered

\* The steps that do not touch the keys of the job.
LEMMA PlainStepHasKeys ==
  ASSUME TypeInv, TorrentsInv, KeysInv, NEW r \in Requests,
         \/ LookUpProfile(r) \/ SignToken(r) \/ CheckToken(r) \/ CompactUser(r) \/ RenewToken(r)
         \/ Identify(r) \/ RedirectIfNeeded(r) \/ ReadRow(r) \/ ReadFiles(r) \/ ReadName(r)
         \/ ReadUrls(r) \/ MissKey(r)
  PROVE  ReaderHasKeys(r)'
<1>1. /\ HandlerTypes /\ StepMatchesJob(r) /\ ReaderHasKeys(r)
      /\ response[r] # "none" => pc[r] = "done"
      /\ mode \in {"open", "private"}
  BY DEF TypeInv, TypeOK, HandlerTypes, StepsMatchJobs, TorrentsInv, ReadsOneTorrent, KeysInv
<1>2. job[r] \in Job
  BY <1>1 DEF HandlerTypes
<1>3. UNCHANGED <<now, keys, accounts, mode>>
  BY DEF LookUpProfile, SignToken, CheckToken, CompactUser, RenewToken, Identify, RedirectIfNeeded,
     ReadRow, ReadFiles, ReadName, ReadUrls, MissKey, world
<1>4. /\ job'[r].op = job[r].op /\ job'[r].since = job[r].since /\ job'[r].had = job[r].had
      /\ job'[r].key = job[r].key /\ job'[r].blind = job[r].blind
  BY <1>1, <1>2 DEF LookUpProfile, SignToken, CheckToken, CompactUser, RenewToken, Hand, Identify,
     RedirectIfNeeded, ReadRow, ReadFiles, ReadName, ReadUrls, MissKey, HandlerTypes, Job
<1>5. pc[r] \notin {"issue", "save", "done", "idle"} \/ MissKey(r)
  BY DEF LookUpProfile, SignToken, CheckToken, CompactUser, RenewToken, Identify, RedirectIfNeeded,
     ReadRow, ReadFiles, ReadName, ReadUrls
<1>6. pc'[r] \notin {"issue", "save"}
  BY <1>1 DEF LookUpProfile, SignToken, CheckToken, CompactUser, RenewToken, Hand, Identify,
     RedirectIfNeeded, ReadRow, ReadFiles, ReadName, ReadUrls, MissKey, HandlerTypes, GoTo, Answer
<1>7. pc'[r] # "done" => job'[r].token = job[r].token /\ pc[r] # "done"
  BY <1>1, <1>2, <1>5 DEF LookUpProfile, SignToken, CheckToken, CompactUser, RenewToken, Hand,
     Identify, RedirectIfNeeded, ReadRow, ReadFiles, ReadName, ReadUrls, MissKey, HandlerTypes,
     Job, GoTo, Answer
<1>8. Identified(r)' /\ job'[r].reader # Guest =>
        job'[r].token # NoToken /\ job'[r].reader = job'[r].token.user
  BY <1>1, <1>2 DEF LookUpProfile, SignToken, CheckToken, CompactUser, RenewToken, Hand, Identify,
     RedirectIfNeeded, ReadRow, ReadFiles, ReadName, ReadUrls, MissKey, HandlerTypes, Job, GoTo,
     Answer, Identified, ReaderHasKeys
<1>9. Answered(r, Reading)' => KeyIsGood(r)'
  <2>1. CASE ReadUrls(r)
    BY <1>1, <1>3, <1>4, <2>1 DEF ReadUrls, KeyIsGood, ReaderHasKeys, HandlerTypes, GoTo, Answer,
       Answered, NoKey
  <2>2. CASE ~ReadUrls(r)
    BY <1>1, <1>4, <2>2 DEF LookUpProfile, SignToken, CheckToken, CompactUser, RenewToken, Hand,
       Identify, RedirectIfNeeded, ReadRow, ReadFiles, ReadName, MissKey, HandlerTypes, GoTo,
       Answer, Answered, Reading, StepMatchesJob
  <2> QED BY <2>1, <2>2
<1>10. /\ job'[r].since <= now' /\ \A t \in job'[r].had : t <= job'[r].since + KeyValidity
       /\ pc'[r] \notin {"save", "done"} => job'[r].key = NoKey
  <2>1. /\ job[r].since <= now /\ \A t \in job[r].had : t <= job[r].since + KeyValidity
        /\ pc[r] \notin {"save", "done"} => job[r].key = NoKey
    BY <1>1 DEF ReaderHasKeys
  <2>2. pc'[r] \notin {"save", "done"} => pc[r] \notin {"save", "done"}
    BY <1>5, <1>7 DEF MissKey
  <2> QED BY <1>3, <1>4, <2>1, <2>2
<1>11. pc'[r] # "done" /\ job[r].token # NoToken =>
         \A t \in job[r].had : IsKept(job[r].token.user, t)'
  <2>1. pc[r] # "done" /\ job[r].token # NoToken =>
          \A t \in job[r].had : IsKept(job[r].token.user, t)
    BY <1>1 DEF ReaderHasKeys
  <2> QED BY <1>3, <1>4, <1>7, <2>1 DEF IsKept
<1> QED BY <1>4, <1>6, <1>7, <1>8, <1>9, <1>10, <1>11 DEF ReaderHasKeys

\* A key that is good for an hour is one of those the reader had, or newer.
LEMMA LookUpHasKeys ==
  ASSUME TypeInv, TorrentsInv, KeysInv, NEW r \in Requests, LookUpKey(r) \/ FailToLookUpKey(r)
  PROVE  ReaderHasKeys(r)'
<1>1. /\ HandlerTypes /\ StepMatchesJob(r) /\ ReaderHasKeys(r) /\ job[r] \in Job
      /\ response[r] # "none" => pc[r] = "done"
      /\ now \in Nat /\ keys \subseteq Key
  BY DEF TypeInv, TypeOK, HandlerTypes, StepsMatchJobs, TorrentsInv, ReadsOneTorrent, KeysInv
<1>2. /\ pc[r] = "key" /\ UNCHANGED <<now, keys, accounts, mode>>
  BY DEF LookUpKey, FailToLookUpKey, world
<1>3. /\ mode = "private" /\ job[r].reader \in Users /\ job[r].reader # Guest
      /\ job[r].token # NoToken /\ job[r].reader = job[r].token.user
  BY <1>1, <1>2 DEF StepMatchesJob, ReaderHasKeys, Identified
<1>4. /\ job[r].since <= now /\ job[r].since \in Nat /\ job[r].had \subseteq Nat
      /\ \A t \in job[r].had : t <= job[r].since + KeyValidity
      /\ \A t \in job[r].had : IsKept(job[r].reader, t)
      /\ job[r].key = NoKey
  BY <1>1, <1>2, <1>3 DEF ReaderHasKeys, Job
<1>5. CASE FailToLookUpKey(r)
  <2>1. job' = [job EXCEPT ![r] = [job[r] EXCEPT !.blind = TRUE]]
    BY <1>5 DEF FailToLookUpKey
  <2>2. /\ job'[r].since = job[r].since /\ job'[r].had = job[r].had /\ job'[r].key = job[r].key
        /\ job'[r].token = job[r].token /\ job'[r].reader = job[r].reader /\ job'[r].blind
    BY <1>1, <2>1 DEF HandlerTypes, Job
  <2>3. pc'[r] = "issue" /\ response'[r] # "ok"
    BY <1>1, <1>2, <1>5 DEF FailToLookUpKey, GoTo, HandlerTypes
  <2>4. \A t \in job[r].had : IsKept(job[r].reader, t)'
    BY <1>2, <1>4, <2>2 DEF IsKept
  <2> QED BY <1>2, <1>3, <1>4, <2>2, <2>3, <2>4 DEF ReaderHasKeys, Answered
<1>6. CASE UsableKeys(job[r].reader) = {} /\ GoTo(r, "issue") /\ UNCHANGED job
  <2>1. pc'[r] = "issue" /\ response'[r] # "ok"
    BY <1>1, <1>2, <1>6 DEF GoTo, HandlerTypes
  <2>2. NoneWasGood(r) \/ accounts[job[r].reader] = "removed"
    <3>1. \A k \in keys : k.user = job[r].reader => ~(k.valid_until > now + KeyMargin)
      BY <1>6 DEF UsableKeys
    <3>2. \A k \in keys : k.user = job[r].reader => k.valid_until <= now + KeyMargin
      BY <1>1, <3>1 DEF Key
    <3> QED BY <1>4, <3>2 DEF NoneWasGood, IsKept
  <2>3. NoneWasGood(r) => NoneWasGood(r)'
    BY <1>2, <1>6 DEF NoneWasGood
  <2>4. \A t \in job[r].had : IsKept(job[r].reader, t)'
    BY <1>2, <1>4, <1>6 DEF IsKept
  <2> QED BY <1>2, <1>3, <1>4, <1>6, <2>1, <2>2, <2>3, <2>4 DEF ReaderHasKeys, Answered
<1>7. ASSUME NEW k \in FirstOf(UsableKeys(job[r].reader)),
             job' = [job EXCEPT ![r].key = k], Answer(r, "ok")
      PROVE  ReaderHasKeys(r)'
  <2>1. /\ k \in keys /\ k.user = job[r].reader /\ k.valid_until > now + KeyMargin
        /\ \A l \in keys : l.user = job[r].reader /\ l.valid_until > now + KeyMargin =>
             k.valid_until >= l.valid_until
    BY DEF FirstOf, UsableKeys
  <2>2. k.valid_until \in Nat /\ accounts[job[r].reader] # "removed"
    BY <1>1, <2>1 DEF Key, KeysInv
  <2>3. /\ job'[r].since = job[r].since /\ job'[r].had = job[r].had /\ job'[r].key = k
        /\ job'[r].token = job[r].token /\ job'[r].reader = job[r].reader
    BY <1>1, <1>7 DEF HandlerTypes, Job
  <2>4. pc'[r] = "done"
    BY <1>1, <1>7 DEF Answer, HandlerTypes
  <2>5. k.valid_until > job[r].since + KeyMargin
    BY <1>1, <1>4, <2>1, <2>2
  <2>6. \A t \in job[r].had : t > now + KeyMargin => k.valid_until >= t
    BY <1>4, <2>1, <2>2 DEF IsKept
  <2>7. KeyIsGood(r)'
    BY <1>2, <1>3, <2>1, <2>3, <2>5, <2>6 DEF KeyIsGood
  <2> QED BY <1>2, <1>4, <2>3, <2>4, <2>7 DEF ReaderHasKeys, Identified
<1> QED BY <1>5, <1>6, <1>7 DEF LookUpKey

LEMMA IssueHasKeys ==
  ASSUME TypeInv, TorrentsInv, KeysInv, NEW r \in Requests, IssueKey(r)
  PROVE  ReaderHasKeys(r)'
<1>1. /\ HandlerTypes /\ StepMatchesJob(r) /\ ReaderHasKeys(r) /\ job[r] \in Job
      /\ response[r] # "none" => pc[r] = "done"
      /\ now \in Nat
  BY DEF TypeInv, TypeOK, HandlerTypes, StepsMatchJobs, TorrentsInv, ReadsOneTorrent, KeysInv
<1>2. /\ pc[r] = "issue" /\ UNCHANGED <<now, keys, accounts, mode>>
  BY DEF IssueKey, world
<1>3. /\ job[r].reader # Guest
      /\ job[r].token # NoToken /\ job[r].reader = job[r].token.user
  BY <1>1, <1>2 DEF StepMatchesJob, ReaderHasKeys, Identified
<1>4. /\ job[r].since <= now /\ job[r].since \in Nat /\ job[r].had \subseteq Nat
      /\ \A t \in job[r].had : t <= job[r].since + KeyValidity
      /\ \A t \in job[r].had : IsKept(job[r].reader, t)
      /\ NoneWasGood(r) \/ job[r].blind \/ accounts[job[r].reader] = "removed"
  BY <1>1, <1>2, <1>3 DEF ReaderHasKeys, Job
<1> DEFINE new == [user |-> job[r].reader, key |-> r, valid_until |-> now + KeyValidity]
<1>5. /\ new.user = job[r].reader /\ new.key = r /\ new.valid_until = now + KeyValidity
  OBVIOUS
<1>6. job' = [job EXCEPT ![r].key = new]
  BY DEF IssueKey
<1> HIDE DEF new
<1>7. /\ job'[r].since = job[r].since /\ job'[r].had = job[r].had /\ job'[r].key = new
      /\ job'[r].token = job[r].token /\ job'[r].reader = job[r].reader
      /\ job'[r].blind = job[r].blind
  BY <1>1, <1>6 DEF HandlerTypes, Job
<1>8. pc'[r] = "save" /\ response'[r] # "ok"
  BY <1>1, <1>2 DEF IssueKey, GoTo, HandlerTypes
<1>9. \A t \in job[r].had : IsKept(job[r].reader, t)'
  BY <1>2, <1>4, <1>7 DEF IsKept
<1>10. NoneWasGood(r) => NoneWasGood(r)'
  BY <1>2, <1>7 DEF NoneWasGood
<1>11. /\ new.valid_until > job[r].since + KeyMargin
       /\ \A t \in job[r].had : new.valid_until >= t
  BY <1>1, <1>4, <1>5
<1> QED BY <1>1, <1>2, <1>3, <1>4, <1>5, <1>7, <1>8, <1>9, <1>10, <1>11
    DEF ReaderHasKeys, Answered

LEMMA SaveHasKeys ==
  ASSUME TypeInv, TorrentsInv, KeysInv, NEW r \in Requests, SaveKey(r)
  PROVE  ReaderHasKeys(r)'
<1>1. /\ HandlerTypes /\ StepMatchesJob(r) /\ ReaderHasKeys(r)
  BY DEF TypeInv, TypeOK, HandlerTypes, StepsMatchJobs, KeysInv
<1>2. /\ pc[r] = "save" /\ pc'[r] = "done" /\ UNCHANGED <<now, mode, job>>
  BY <1>1 DEF SaveKey, Answer, HandlerTypes
<1>3. mode = "private" /\ job[r].reader # Guest
  BY <1>1, <1>2 DEF StepMatchesJob
<1>4. /\ job[r].since <= now /\ \A t \in job[r].had : t <= job[r].since + KeyValidity
      /\ job[r].key.user = job[r].reader
      /\ job[r].key.valid_until > job[r].since + KeyMargin
      /\ \A t \in job[r].had : job[r].key.valid_until >= t
  BY <1>1, <1>2 DEF ReaderHasKeys
<1>5. KeyIsGood(r)'
  BY <1>2, <1>3, <1>4 DEF KeyIsGood
<1> QED BY <1>2, <1>4, <1>5 DEF ReaderHasKeys, Identified

LEMMA KeysStep ==
  ASSUME TypeInv, KeysInv, [Next]_vars
  PROVE  KeysGoOn
<1>1. /\ now \in Nat /\ keys \subseteq Key
      /\ accounts \in [Users -> {"unverified", "verified", "removed"}]
  BY DEF TypeInv, TypeOK
<1>2. ASSUME NEW r \in Requests, Step(r) PROVE KeysGoOn
  BY <1>1, <1>2, StepWorld DEF HandlerWorld, InsertKey, KeysGoOn
<1>3. ASSUME NEW u \in Users, Remove(u) PROVE KeysGoOn
  BY <1>1, <1>3 DEF Remove, DeleteKeysOf, KeysGoOn
<1>4. CASE UNCHANGED <<keys, mode, accounts>> /\ (now' = now \/ now' = now + 1)
  BY <1>1, <1>4 DEF KeysGoOn
<1> QED BY <1>2, <1>3, <1>4 DEF Next, Served, Tick, Upload, Delete, vars

\* The keys that are there were needed when they were asked for.
LEMMA KeysStayNeeded ==
  ASSUME TypeInv, KeysInv, KeysGoOn, NEW k \in keys,
         k.key \in Requests => pc'[k.key] = pc[k.key] /\ job'[k.key] = job[k.key]
  PROVE  /\ k.valid_until <= now' + KeyValidity
         /\ k.key \in Requests =>
              pc'[k.key] = "done" /\ (NoneWasGood(k.key)' \/ job'[k.key].blind)
<1>1. /\ now \in Nat /\ k.valid_until \in Nat
      /\ \A r \in Requests : job[r].had \subseteq Nat
  BY DEF TypeInv, TypeOK, Key, Job
<1>2. k.key \in Requests /\ NoneWasGood(k.key) => NoneWasGood(k.key)'
  BY <1>1 DEF NoneWasGood, KeysGoOn
<1> QED BY <1>1, <1>2 DEF KeysInv, KeysGoOn

LEMMA KeysInvNext == TypeInv /\ TorrentsInv /\ KeysInv /\ [Next]_vars => KeysInv'
<1> SUFFICES ASSUME TypeInv, TorrentsInv, KeysInv, [Next]_vars PROVE KeysInv'
  OBVIOUS
<1>1. KeysGoOn
  BY KeysStep
<1>2. ASSUME NEW r \in Requests, Step(r) PROVE KeysInv'
  <2>1. HandlerTypes' /\ OthersKeep(r) /\ pc[r] # "done"
    BY <1>2, SubmitTypes, StepTypes DEF Step, Submit, LookUpProfile, SignToken, CheckToken,
       CompactUser, RenewToken, Identify, RedirectIfNeeded, ReadRow, ReadFiles, ReadName,
       ReadUrls, LookUpKey, FailToLookUpKey, IssueKey, MissKey, SaveKey
  <2>2. ReaderHasKeys(r)'
    BY <1>2, SubmitHasKeys, PlainStepHasKeys, LookUpHasKeys, IssueHasKeys, SaveHasKeys DEF Step
  <2>3. \A q \in Requests \ {r} : ReaderHasKeys(q)'
    BY <1>1, <2>1, ReaderKeepsKeys DEF OthersKeep
  <2>4. \A k \in keys : k.key \in Requests => k.key # r
    BY <2>1 DEF KeysInv
  <2>5. UNCHANGED <<now, accounts>>
    BY <1>2, StepWorld DEF HandlerWorld
  <2>6. ASSUME NEW k \in keys
        PROVE  /\ k.valid_until <= now' + KeyValidity
               /\ accounts'[k.user] # "removed"
               /\ k.key \in Requests =>
                    pc'[k.key] = "done" /\ (NoneWasGood(k.key)' \/ job'[k.key].blind)
    BY <1>1, <2>1, <2>4, <2>5, KeysStayNeeded DEF OthersKeep, KeysInv
  <2>7. CASE keys' = keys
    BY <2>2, <2>3, <2>6, <2>7 DEF KeysInv
  <2>8. CASE keys' # keys
    <3>1. SaveKey(r)
      BY <1>2, <2>8 DEF Step, world, Submit, LookUpProfile, SignToken, CheckToken, CompactUser,
         RenewToken, Identify, RedirectIfNeeded, ReadRow, ReadFiles, ReadName, ReadUrls,
         LookUpKey, FailToLookUpKey, IssueKey, MissKey
    <3>2. /\ pc[r] = "save" /\ keys' = keys \cup {job[r].key} /\ UNCHANGED job
          /\ accounts[job[r].reader] # "removed"
      BY <2>8, <3>1 DEF SaveKey, InsertKey
    <3>3. pc'[r] = "done"
      <4>1. pc \in [Requests -> {"idle", "done"} \cup Steps]
        BY DEF TypeInv, TypeOK
      <4> QED BY <3>1, <4>1 DEF SaveKey, Answer
    <3>4. /\ job[r].key.key = r /\ job[r].key.user = job[r].reader
          /\ job[r].key.valid_until <= now + KeyValidity
          /\ NoneWasGood(r) \/ job[r].blind
      BY <3>2 DEF KeysInv, ReaderHasKeys
    <3>5. NoneWasGood(r) => NoneWasGood(r)'
      BY <2>5, <3>2 DEF NoneWasGood
    <3> QED BY <2>2, <2>3, <2>5, <2>6, <3>2, <3>3, <3>4, <3>5 DEF KeysInv
  <2> QED BY <2>7, <2>8
<1>3. ASSUME UNCHANGED <<pc, job, response>>, keys' \subseteq keys,
             \A k \in keys' : accounts'[k.user] # "removed"
      PROVE  KeysInv'
  <2>1. \A r \in Requests : ReaderHasKeys(r)'
    BY <1>1, <1>3, ReaderKeepsKeys
  <2>2. \A k \in keys' : /\ k.valid_until <= now' + KeyValidity
                         /\ k.key \in Requests =>
                              pc'[k.key] = "done" /\ (NoneWasGood(k.key)' \/ job'[k.key].blind)
    BY <1>1, <1>3, KeysStayNeeded
  <2> QED BY <1>3, <2>1, <2>2 DEF KeysInv
<1>4. ASSUME NEW u \in Users, Remove(u) PROVE KeysInv'
  <2>1. /\ keys' \subseteq keys
        /\ \A k \in keys' : accounts'[k.user] # "removed"
    BY <1>4 DEF Remove, DeleteKeysOf, KeysInv, TypeInv, TypeOK
  <2> QED BY <1>3, <1>4, <2>1 DEF Remove
<1>5. CASE UNCHANGED <<keys, accounts, pc, job, response>>
  BY <1>3, <1>5 DEF KeysInv
<1> QED BY <1>2, <1>4, <1>5 DEF Next, Served, Tick, Upload, Delete, vars

LEMMA KeysInvariant == Spec => []KeysInv
BY InitTypeInv, TypeInvNext, TorrentsInvInit, TorrentsInvNext, KeysInvInit, KeysInvNext, PTL DEF
   Spec

\* Every announce URL that a reader of a private tracker is given carries a key of
\* his that was good for an hour when he asked, and no worse than those he had then,
\* although overlapping requests of his leave several keys, the look-up may fail and
\* the account may be removed in between (tracker/service.rs:187-200).
THEOREM AnnounceKeysLast == Spec => []AnnounceKeyLasts
<1>1. KeysInv => AnnounceKeyLasts
  BY DEF KeysInv, ReaderHasKeys, KeyIsGood, AnnounceKeyLasts
<1> QED BY <1>1, KeysInvariant, PTL

\* A key beyond those that were good comes only of overlapping requests, or of a
\* look-up that failed (tracker/service.rs:187-200).
THEOREM SpareKeysAreOfOverlaps == Spec => []SpareKeysComeFromOverlaps
<1>1. KeysInv => SpareKeysComeFromOverlaps
  BY DEF KeysInv, NoneWasGood, SpareKeysComeFromOverlaps
<1> QED BY <1>1, KeysInvariant, PTL

=============================================================================
