----------------------------- MODULE ImageCache -----------------------------
(***************************************************************************)
(* The image proxy: get_image_by_url of cache/image/manager.rs, served     *)
(* concurrently, with the cache and the quotas of the users, each behind a *)
(* lock of its own that is held for one step at a time.                    *)
(*                                                                         *)
(* A request is served once; a client that tries again is another request. *)
(***************************************************************************)
EXTENDS BytesCache, FiniteSets

CONSTANTS
  Users,
  Anonymous,     \* the user of a token is not in the database (any more)
  Requests,
  MaxInFlight,   \* how many requests the server works on at the same time
  MaxUsage,      \* user_quota_bytes
  Period,        \* user_quota_period_seconds
  MaxTime        \* bound on the clock

ASSUME QuotaAssumption ==
  /\ MaxUsage \in Nat
  /\ Period \in Nat
  /\ MaxTime \in Nat
  /\ Anonymous \notin Users

VARIABLES
  now,          \* now_in_secs()
  quotas,       \* user_quotas
  pc,           \* where the handler of a request is
  request,      \* user and URL
  bytes,        \* the size of the image that was downloaded
  copy,         \* the handler's clone of the user's quota
  chargedAt,    \* when add_usage was called on it
  response

handlers == <<pc, request, bytes, copy, chargedAt, response>>
vars == <<entries, now, quotas, handlers>>

Quota == [usage : Nat, date_start : Nat]
NoQuota == [usage |-> 0]  \* no entry in user_quotas

Asked == [user : Users \cup {Anonymous}, url : Keys]
NotAsked == [url |-> "none"]

TypeOK ==
  /\ CacheTypeOK
  /\ now \in Nat
  /\ quotas \in [Users -> Quota \cup {NoQuota}]
  /\ pc \in [Requests -> {"idle", "lookup", "quota", "download", "cache",
                          "charge", "record", "done"}]
  /\ request \in [Requests -> Asked \cup {NotAsked}]
  /\ bytes \in [Requests -> Nat]
  /\ copy \in [Requests -> Quota \cup {NoQuota}]
  /\ chargedAt \in [Requests -> Nat]
  /\ response \in [Requests -> {"none", "cached", "downloaded", "unauthenticated",
                                "quota_met", "no_image", "too_big", "abandoned"}]

Init ==
  /\ CacheInit
  /\ now = 0
  /\ quotas = [u \in Users |-> NoQuota]
  /\ pc = [r \in Requests |-> "idle"]
  /\ request = [r \in Requests |-> NotAsked]
  /\ bytes = [r \in Requests |-> 0]
  /\ copy = [r \in Requests |-> NoQuota]
  /\ chargedAt = [r \in Requests |-> 0]
  /\ response = [r \in Requests |-> "none"]

-----------------------------------------------------------------------------
(* ImageCacheQuota *)

Reached(quota) == quota # NoQuota /\ quota.usage >= MaxUsage

\* The quota add_usage works on: a new one for a user who has none, and the
\* period starts again when it is over.
InPeriod(quota) ==
  IF quota = NoQuota \/ now - quota.date_start > Period
  THEN [usage |-> 0, date_start |-> now]
  ELSE quota

\* Mutant: the usage is not reset with the period.
AddUsage_KeepUsage(quota, amount) ==
  LET current == InPeriod(quota)
      before == IF quota = NoQuota THEN 0 ELSE quota.usage
  IN IF Reached(current) THEN current
     ELSE [current EXCEPT !.usage = before + amount]

\* Mutant: usage is added to a quota that is reached already.
AddUsage_Always(quota, amount) ==
  LET current == InPeriod(quota)
  IN [current EXCEPT !.usage = @ + amount]

\* add_usage, whose error is dropped by its caller.
AddUsage(quota, amount) ==
  LET current == InPeriod(quota)
  IN IF Reached(current) THEN current
     ELSE [current EXCEPT !.usage = @ + amount]

-----------------------------------------------------------------------------
(* get_image_by_url *)

InFlight == {r \in Requests : pc[r] \notin {"idle", "done"}}

GoTo(r, step) ==
  /\ pc' = [pc EXCEPT ![r] = step]
  /\ UNCHANGED response

Answer(r, answer) ==
  /\ pc' = [pc EXCEPT ![r] = "done"]
  /\ response' = [response EXCEPT ![r] = answer]

Submit(r) ==
  /\ pc[r] = "idle"
  /\ Cardinality(InFlight) < MaxInFlight
  /\ \E asked \in Asked : request' = [request EXCEPT ![r] = asked]
  /\ GoTo(r, "lookup")
  /\ UNCHANGED <<entries, now, quotas, bytes, copy, chargedAt>>

LookUp(r) ==
  LET cached == IsCached(request[r].url) IN
  /\ pc[r] = "lookup"
  /\ \/ cached /\ Answer(r, "cached")
     \/ ~cached /\ request[r].user = Anonymous /\ Answer(r, "unauthenticated")
     \/ ~cached /\ request[r].user # Anonymous /\ GoTo(r, "quota")
  /\ UNCHANGED <<entries, now, quotas, request, bytes, copy, chargedAt>>

\* check_user_quota: the quota as it was left, its period is not looked at.
CheckQuota(r) ==
  LET met == Reached(quotas[request[r].user]) IN
  /\ pc[r] = "quota"
  /\ \/ met /\ Answer(r, "quota_met")
     \/ ~met /\ GoTo(r, "download")
  /\ UNCHANGED <<entries, now, quotas, request, bytes, copy, chargedAt>>

\* get_image_from_url_as_bytes and check_image_size: what is at the URL may
\* change from one download to the next.
Download(r) ==
  /\ pc[r] = "download"
  /\ \/ Answer(r, "no_image") /\ UNCHANGED bytes
     \/ \E size \in Sizes :
          /\ bytes' = [bytes EXCEPT ![r] = size]
          /\ \/ size > EntrySizeLimit /\ Answer(r, "too_big")
             \/ size <= EntrySizeLimit /\ GoTo(r, "cache")
  /\ UNCHANGED <<entries, now, quotas, request, copy, chargedAt>>

\* update_image_cache
UpdateCache(r) ==
  /\ pc[r] = "cache"
  /\ CacheSet(request[r].url, bytes[r])
  /\ GoTo(r, "charge")
  /\ UNCHANGED <<now, quotas, request, bytes, copy, chargedAt>>

\* update_user_quota under the read lock: a clone of the quota is charged ...
ChargeCopy(r) ==
  /\ pc[r] = "charge"
  /\ copy' = [copy EXCEPT ![r] = AddUsage(quotas[request[r].user], bytes[r])]
  /\ chargedAt' = [chargedAt EXCEPT ![r] = now]
  /\ GoTo(r, "record")
  /\ UNCHANGED <<entries, now, quotas, request, bytes>>

\* ... and takes its place under the write lock.
RecordQuota(r) ==
  /\ pc[r] = "record"
  /\ quotas' = [quotas EXCEPT ![request[r].user] = copy[r]]
  /\ Answer(r, "downloaded")
  /\ UNCHANGED <<entries, now, request, bytes, copy, chargedAt>>

\* The client disconnects and the server drops the handler.
Abandon(r) ==
  /\ r \in InFlight
  /\ Answer(r, "abandoned")
  /\ UNCHANGED <<entries, now, quotas, request, bytes, copy, chargedAt>>

Tick ==
  /\ now < MaxTime
  /\ now' = now + 1
  /\ UNCHANGED <<entries, quotas, handlers>>

Served ==
  /\ \A r \in Requests : pc[r] = "done"
  /\ UNCHANGED vars

Next ==
  \/ \E r \in Requests :
       \/ Submit(r) \/ LookUp(r) \/ CheckQuota(r) \/ Download(r)
       \/ UpdateCache(r) \/ ChargeCopy(r) \/ RecordQuota(r) \/ Abandon(r)
  \/ Tick
  \/ Served

Spec == Init /\ [][Next]_vars

-----------------------------------------------------------------------------
(* Properties *)

\* What the server has downloaded for a user since their period began, as far
\* as the requests were answered.
DownloadedInPeriod(u) ==
  LET start == IF quotas[u] = NoQuota THEN 0 ELSE quotas[u].date_start
  IN SumFunctionOnSet(bytes,
       {r \in Requests : /\ response[r] = "downloaded"
                         /\ request[r].user = u
                         /\ chargedAt[r] >= start})

Charged(u) == IF quotas[u] = NoQuota THEN 0 ELSE quotas[u].usage

\* However many downloads of a user overlap, the recorded usage exceeds the
\* quota by less than one image: add_usage adds only to a quota that is not
\* reached, and what it adds passed check_image_size.
UsageIsBounded ==
  \A u \in Users : Charged(u) > 0 => Charged(u) < MaxUsage + EntrySizeLimit

\* No user is charged for more than what was downloaded for them in the period
\* that is running, whichever clones of the quota overwrite each other and
\* whichever of the downloads found the period over.
NeverOvercharged == \A u \in Users : Charged(u) <= DownloadedInPeriod(u)

\* "Users have a cache quota per period" (config.rs:341): nobody is refused for
\* what they downloaded in a period that is over.
RefusedOnlyWithinPeriod ==
  [][\A r \in Requests :
       response[r] = "none" /\ response'[r] = "quota_met"
         => now - quotas[request[r].user].date_start <= Period]_vars

=============================================================================
