--------------------------- MODULE Sequential_proofs ---------------------------
(***************************************************************************)
(* Proofs about the parts of the index that run in one step at a time: the *)
(* configuration tells no secret; pages that are read one after the other  *)
(* miss no torrent and show only what was asked for; torrent files that go *)
(* through the tables keep their trackers, and their hash but once; and    *)
(* the answer to an upload blames who failed, or leads to the torrent.     *)
(***************************************************************************)
EXTENDS Listing, Settings, TorrentFiles, Intake, SequenceLemmas

-----------------------------------------------------------------------------
(* The configuration *)

\* What runs has the fields of a text, and its public ones are that text's: the
\* environment replaces secrets only.
PublicPartIsPublic ==
  settings # NotSet =>
    /\ DOMAIN settings = PublicFields \union SecretFields
    /\ \A field \in PublicFields : settings[field] \notin Secrets

SettingsInv == PublicPartIsPublic /\ SecretsStayHidden

LEMMA RunsAText ==
  ASSUME NEW env \in Environments, NEW disk \in Disks, Run(env, disk)
  PROVE  PublicPartIsPublic'
<1> DEFINE config == InitialConfiguration(env, disk)
<1>1. IndexToml(env, disk) \in Documents \union {NotSet}
  BY SettingsAssumption DEF IndexToml, Environments, Disks
<1>2. ASSUME IndexToml(env, disk) \notin {NotSet, Garbage}
      PROVE  /\ DOMAIN config = PublicFields \union SecretFields
             /\ \A field \in PublicFields : config[field] \notin Secrets
  <2>1. config = Loaded(IndexToml(env, disk), env)
    BY <1>2 DEF InitialConfiguration
  <2>2. PICK document \in Documents \ {Garbage} : config = Loaded(document, env)
    BY <1>1, <1>2, <2>1
  <2>3. PICK token, key : config = [document EXCEPT !.token = token, !.secret_key = key]
    BY <2>2 DEF Loaded
  <2>4. /\ DOMAIN document = PublicFields \union SecretFields
        /\ \A field \in PublicFields : document[field] \notin Secrets
    BY SettingsAssumption
  <2> HIDE DEF config
  <2> QED BY <2>3, <2>4 DEF PublicFields
<1>3. settings' = NotSet \/ (settings' = config /\ config # NotSet)
  BY DEF Run
<1>4. config # NotSet => IndexToml(env, disk) \notin {NotSet, Garbage}
  BY DEF InitialConfiguration
<1> HIDE DEF config
<1> QED BY <1>2, <1>3, <1>4 DEF PublicPartIsPublic

\* What is answered is public, or the answer to an administrator has it masked.
LEMMA AnswersHideSecrets ==
  ASSUME SettingsInv, NEW user \in UserIds, GetAll(user) \/ GetPublic(user) \/ GetSiteName(user)
  PROVE  SecretsStayHidden'
<1>1. /\ DOMAIN settings = PublicFields \union SecretFields
      /\ \A field \in PublicFields : settings[field] \notin Secrets
  BY DEF SettingsInv, PublicPartIsPublic, GetAll, GetPublic, GetSiteName
<1>2. "***" \notin Secrets /\ "Unauthorized" \notin Secrets
  BY SettingsAssumption
<1> USE DEF SecretsStayHidden, PublicFields, SecretFields
<1>3. CASE GetPublic(user)
  BY <1>1, <1>3 DEF GetPublic, Public
<1>4. CASE GetSiteName(user)
  BY <1>1, <1>4 DEF GetSiteName
<1>5. CASE GetAll(user) /\ user \notin admins
  BY <1>2, <1>5 DEF GetAll, AllMaskingSecrets
<1>6. CASE GetAll(user) /\ user \in admins
  <2>1. \A key \in DOMAIN WithoutSecrets(settings) : WithoutSecrets(settings)[key] \notin Secrets
    BY <1>1, <1>2 DEF WithoutSecrets
  <2>2. served' = [to |-> user, all |-> TRUE, data |-> WithoutSecrets(settings)] /\ admins' = admins
    BY <1>6 DEF GetAll, AllMaskingSecrets
  <2> QED BY <1>6, <2>1, <2>2
<1> QED BY <1>3, <1>4, <1>5, <1>6

LEMMA SettingsInvNext == SettingsInv /\ [SettingsNext]_settingsVars => SettingsInv'
<1> SUFFICES ASSUME SettingsInv, [SettingsNext]_settingsVars PROVE SettingsInv'
  OBVIOUS
<1>1. ASSUME NEW env \in Environments, NEW disk \in Disks, Run(env, disk) PROVE SettingsInv'
  BY <1>1, RunsAText DEF SettingsInv, SecretsStayHidden, Run
<1>2. CASE Stop \/ UNCHANGED settingsVars
  BY <1>2 DEF SettingsInv, PublicPartIsPublic, SecretsStayHidden, Stop, settingsVars
<1>3. ASSUME NEW user \in UserIds, Grant(user) PROVE SettingsInv'
  BY <1>3 DEF SettingsInv, PublicPartIsPublic, SecretsStayHidden, Grant
<1>4. ASSUME NEW user \in UserIds, GetAll(user) \/ GetPublic(user) \/ GetSiteName(user)
      PROVE  SettingsInv'
  BY <1>4, AnswersHideSecrets
     DEF SettingsInv, PublicPartIsPublic, GetAll, GetPublic, GetSiteName
<1> QED BY <1>1, <1>2, <1>3, <1>4 DEF SettingsNext

\* Whatever texts, variables and files the runs of the index find, and whoever is
\* granted and asks what: no answer tells a secret, and only administrators are
\* told more than the public settings (config.rs, services/settings.rs:47-72).
THEOREM SecretsAreNeverTold == SettingsSpec => []SecretsStayHidden
<1>1. SettingsInit => SettingsInv
  BY DEF SettingsInit, SettingsInv, PublicPartIsPublic, SecretsStayHidden
<1>2. SettingsInv => SecretsStayHidden
  BY DEF SettingsInv
<1> QED BY <1>1, <1>2, SettingsInvNext, PTL DEF SettingsSpec

-----------------------------------------------------------------------------
(* The pages of a listing *)

Asked(req) == Specification(req, 0)
Size(req) == PageSize(req.page_size)

\* The rows that some torrents make for a request.
Matched(req, torrents) ==
  {Listed(Asked(req), t) : t \in {u \in torrents : Matches(Asked(req), u)}}

Ahead(req, torrents, r) ==
  {x \in Matched(req, torrents) : x # r /\ InOrder(Asked(req).sort, x, r)}

\* How many rows come before a row.
Rank(req, torrents, r) == Cardinality(Ahead(req, torrents, r))

LEMMA SizeType == \A req \in Requests : Size(req) \in Nat /\ Size(req) <= MaxPageSize
<1> USE ListingAssumption
<1> QED BY DEF Size, PageSize

LEMMA MatchedIsFinite ==
  ASSUME NEW req, NEW torrents \in SUBSET Catalog
  PROVE  /\ IsFiniteSet(Matched(req, torrents))
         /\ Cardinality(Matched(req, torrents)) <= Cardinality(Catalog)
         /\ Cardinality(Matched(req, torrents)) \in Nat
<1> DEFINE S == {u \in torrents : Matches(Asked(req), u)}
           f == [t \in S |-> Listed(Asked(req), t)]
<1>1. IsFiniteSet(S) /\ Cardinality(S) <= Cardinality(Catalog)
  BY FS_Subset, ListingAssumption
<1>2. f \in Surjection(S, Matched(req, torrents))
  BY DEF Surjection, Matched
<1> HIDE DEF S, f
<1>3. /\ IsFiniteSet(Matched(req, torrents))
      /\ Cardinality(Matched(req, torrents)) <= Cardinality(S)
  BY <1>1, <1>2, FS_Surjection
<1>4. /\ Cardinality(Matched(req, torrents)) \in Nat /\ Cardinality(S) \in Nat
      /\ Cardinality(Catalog) \in Nat
  BY <1>1, <1>3, FS_CardinalityType, ListingAssumption
<1> QED BY <1>1, <1>3, <1>4

LEMMA RankGrows ==
  ASSUME NEW req, NEW torrents \in SUBSET Catalog, NEW some \in SUBSET torrents, NEW r
  PROVE  /\ Matched(req, some) \subseteq Matched(req, torrents)
         /\ Rank(req, some, r) \in Nat /\ Rank(req, torrents, r) \in Nat
         /\ Rank(req, some, r) <= Rank(req, torrents, r)
<1>1. Matched(req, some) \subseteq Matched(req, torrents)
  BY DEF Matched
<1>2. Ahead(req, some, r) \in SUBSET Ahead(req, torrents, r)
  BY <1>1 DEF Ahead
<1>3. IsFiniteSet(Ahead(req, torrents, r))
  <2>1. Ahead(req, torrents, r) \in SUBSET Matched(req, torrents)
    BY DEF Ahead
  <2> QED BY <2>1, MatchedIsFinite, FS_Subset
<1> QED BY <1>1, <1>2, <1>3, FS_Subset, FS_CardinalityType DEF Rank

LEMMA FewerKeysDiffer ==
  ASSUME NEW spec, NEW torrents, NEW some \in SUBSET torrents, KeysDiffer(spec, torrents)
  PROVE  KeysDiffer(spec, some)
<1>1. {Listed(spec, v) : v \in {w \in some : Matches(spec, w)}}
        \subseteq {Listed(spec, v) : v \in {w \in torrents : Matches(spec, w)}}
  OBVIOUS
<1> QED BY <1>1 DEF KeysDiffer

\* The page changes the offset of the query and not its rows or their order.
LEMMA PagesOfOneQuery ==
  ASSUME NEW req, NEW p
  PROVE  /\ Rows(Specification(req, p)) = Matched(req, listed)
         /\ Specification(req, p).sort = Asked(req).sort
         /\ Specification(req, p).offset = (p * Size(req)) % U32
         /\ Specification(req, p).page_size = Size(req)
<1> DEFINE s == Specification(req, p)
           s0 == Asked(req)
<1>1. /\ s.search = s0.search /\ s.categories = s0.categories /\ s.tags = s0.tags
      /\ s.sort = s0.sort
  BY DEF Specification, Asked
<1>2. s.offset = (p * Size(req)) % U32 /\ s.page_size = Size(req)
  BY DEF Specification, Size, Offset
<1> HIDE DEF s, s0
<1>3. \A t : Matches(s, t) <=> Matches(s0, t)
  BY <1>1 DEF Matches
<1>4. \A t : Listed(s, t) = Listed(s0, t)
  BY <1>1 DEF Listed
<1>5. Rows(s) = Matched(req, listed)
  BY <1>3, <1>4 DEF Rows, Matched, s0
<1> QED BY <1>1, <1>2, <1>5 DEF s, s0

\* The rows of a query come once each.
LEMMA RowsComeOnce ==
  ASSUME listed \in SUBSET Catalog, NEW req, NEW p, NEW rows \in Sorted(Specification(req, p))
  PROVE  LET n == Cardinality(Matched(req, listed))
         IN /\ n \in Nat /\ rows \in [1 .. n -> Matched(req, listed)] /\ Len(rows) = n
            /\ \A i, j \in 1 .. n : i # j => rows[i] # rows[j]
            /\ \A r \in Matched(req, listed) : \E i \in 1 .. n : r = rows[i]
            /\ \A i, j \in 1 .. n : i < j => InOrder(Asked(req).sort, rows[i], rows[j])
<1> DEFINE R == Matched(req, listed)
           n == Cardinality(R)
<1>1. IsFiniteSet(R) /\ n \in Nat
  BY MatchedIsFinite
<1>2. /\ rows \in SetToSeqs(R)
      /\ \A i, j \in 1 .. Len(rows) : i < j => InOrder(Asked(req).sort, rows[i], rows[j])
  BY PagesOfOneQuery DEF Sorted
<1>3. rows \in [1 .. n -> R] /\ \A i, j \in 1 .. n : i # j => rows[i] # rows[j]
  BY <1>2 DEF SetToSeqs
<1> HIDE DEF n, R
<1>4. Len(rows) = n
  BY <1>1, <1>3
<1>5. rows \in Surjection(1 .. n, R)
  <2>1. rows \in Injection(1 .. n, R)
    BY <1>3 DEF Injection, IsInjective
  <2>2. Cardinality(1 .. n) = n
    BY <1>1, FS_Interval
  <2> QED BY <1>1, <2>1, <2>2, FS_Injection DEF n
<1>6. \A r \in R : \E i \in 1 .. n : r = rows[i]
  BY <1>5 DEF Surjection
<1> QED BY <1>1, <1>2, <1>3, <1>4, <1>6 DEF n, R

\* The place of a row in the query is its rank, when keys differ.
LEMMA PlaceIsRank ==
  ASSUME listed \in SUBSET Catalog, NEW req, NEW p, NEW rows \in Sorted(Specification(req, p)),
         KeysDiffer(Asked(req), listed), NEW i \in 1 .. Cardinality(Matched(req, listed))
  PROVE  Rank(req, listed, rows[i]) = i - 1
<1> DEFINE R == Matched(req, listed)
           n == Cardinality(R)
           earlier == [j \in 1 .. i - 1 |-> rows[j]]
           A == Ahead(req, listed, rows[i])
<1>1. /\ n \in Nat /\ rows \in [1 .. n -> R]
      /\ \A j, k \in 1 .. n : j # k => rows[j] # rows[k]
      /\ \A r \in R : \E j \in 1 .. n : r = rows[j]
      /\ \A j, k \in 1 .. n : j < k => InOrder(Asked(req).sort, rows[j], rows[k])
  BY RowsComeOnce
<1>2. \A a, b \in R : a # b =>
        ~(InOrder(Asked(req).sort, a, b) /\ InOrder(Asked(req).sort, b, a))
  BY DEF KeysDiffer, Matched
<1> HIDE DEF R, n
<1>3. i \in 1 .. n
  BY DEF n, R
<1>4. A = {x \in R : x # rows[i] /\ InOrder(Asked(req).sort, x, rows[i])}
  BY DEF Ahead, R
<1> HIDE DEF A
<1>5. ASSUME NEW j \in 1 .. i - 1 PROVE j \in 1 .. n /\ rows[j] \in A
  <2>1. j \in 1 .. n /\ j < i
    BY <1>1, <1>3
  <2> QED BY <1>1, <1>3, <1>4, <2>1
<1>6. ASSUME NEW x \in A PROVE \E j \in 1 .. i - 1 : x = rows[j]
  <2>1. PICK j \in 1 .. n : x = rows[j]
    BY <1>1, <1>4
  <2>2. j # i
    BY <1>4, <2>1
  <2>3. ~(i < j)
    <3> SUFFICES ASSUME i < j PROVE FALSE
      OBVIOUS
    <3>1. InOrder(Asked(req).sort, rows[i], rows[j]) /\ rows[i] \in R /\ rows[j] \in R
      BY <1>1, <1>3
    <3> QED BY <1>2, <1>4, <2>1, <3>1
  <2>4. j \in 1 .. i - 1
    BY <1>1, <1>3, <2>2, <2>3
  <2> QED BY <2>1, <2>4
<1>7. earlier \in Bijection(1 .. i - 1, A)
  <2>1. earlier \in [1 .. i - 1 -> A]
    BY <1>5
  <2>2. \A j, k \in 1 .. i - 1 : earlier[j] = earlier[k] => j = k
    BY <1>1, <1>5
  <2>3. \A x \in A : \E j \in 1 .. i - 1 : earlier[j] = x
    BY <1>6
  <2> HIDE DEF earlier
  <2> QED BY <2>1, <2>2, <2>3 DEF Bijection, Injection, Surjection, IsInjective
<1>8. i - 1 \in Nat
  BY <1>1, <1>3
<1>9. Cardinality(A) = i - 1
  BY <1>7, <1>8, FS_CountingElements DEF ExistsBijection
<1> QED BY <1>9 DEF Rank, A

\* The rows of a page, by their places in the query.
LEMMA PageIsCut ==
  ASSUME listed \in SUBSET Catalog, NEW req \in Requests, NEW p \in Nat, p * Size(req) < U32,
         NEW rows \in Sorted(Specification(req, p))
  PROVE  LET results == Limit(rows, Specification(req, p))
             n == Cardinality(Matched(req, listed))
             start == p * Size(req)
             end == IF start + Size(req) <= n THEN start + Size(req) ELSE n
         IN /\ start \in Nat /\ n \in Nat
            /\ results \in Seq(Matched(req, listed))
            /\ Len(results) = IF start < end THEN end - start ELSE 0
            /\ \A k \in 1 .. Len(results) : start + k \in 1 .. n /\ results[k] = rows[start + k]
<1> DEFINE R == Matched(req, listed)
           n == Cardinality(R)
           size == Size(req)
           start == p * size
           end == IF start + size <= n THEN start + size ELSE n
           spec == Specification(req, p)
<1>1. n \in Nat /\ rows \in [1 .. n -> R] /\ Len(rows) = n
  BY RowsComeOnce
<1>2. size \in Nat /\ U32 \in Nat \ {0}
  BY SizeType, ListingAssumption
<1>3. start \in Nat /\ start < U32
  BY <1>2
<1>4. spec.offset = start % U32 /\ spec.page_size = size
  BY PagesOfOneQuery
<1> HIDE DEF start, size, n, spec, R
<1>5. start % U32 = start
  BY <1>2, <1>3
<1>6. Limit(rows, spec) = SubSeq(rows, start + 1, Min({start + size, n}))
  BY <1>1, <1>4, <1>5 DEF Limit
<1>7. Min({start + size, n}) = end
  <2>1. start + size \in Nat
    BY <1>2, <1>3
  <2>2. end \in {start + size, n} /\ \A y \in {start + size, n} : end <= y
    BY <1>1, <2>1
  <2>3. \A x \in {start + size, n} : (\A y \in {start + size, n} : x <= y) => x = end
    BY <1>1, <2>1
  <2> HIDE DEF end
  <2> QED BY <2>2, <2>3 DEF Min
<1>8. end \in Nat /\ end <= n
  BY <1>1, <1>2, <1>3
<1> HIDE DEF end
<1>9. PICK results : results = SubSeq(rows, start + 1, end)
  OBVIOUS
<1>10. /\ results \in Seq(R)
       /\ Len(results) = IF start + 1 <= end THEN end - (start + 1) + 1 ELSE 0
       /\ \A k \in 1 .. end - (start + 1) + 1 : results[k] = rows[(start + 1) + k - 1]
  <2>1. start + 1 \in Int /\ end \in Int /\ \A k \in start + 1 .. end : rows[k] \in R
    BY <1>1, <1>3, <1>8
  <2> QED BY <1>9, <2>1, SubSeqProperties
<1>11. Len(results) = IF start < end THEN end - start ELSE 0
  <2>1. Len(results) = IF start + 1 <= end THEN end - (start + 1) + 1 ELSE 0
    BY <1>10
  <2> QED BY <1>3, <1>8, <2>1
<1>12. ASSUME NEW k \in 1 .. Len(results)
       PROVE  start + k \in 1 .. n /\ results[k] = rows[start + k]
  <2>1. /\ k \in 1 .. end - (start + 1) + 1 /\ (start + 1) + k - 1 = start + k
        /\ start + k \in 1 .. n
    BY <1>1, <1>3, <1>8, <1>11
  <2>2. results[k] = rows[(start + 1) + k - 1]
    BY <1>10, <2>1
  <2> QED BY <2>1, <2>2
<1>13. Limit(rows, spec) = results
  BY <1>6, <1>7, <1>9
<1> QED BY <1>1, <1>3, <1>10, <1>11, <1>12, <1>13 DEF R, n, size, start, end, spec

PagesTypeOK ==
  /\ listed \in SUBSET Catalog /\ atStart \in SUBSET Catalog /\ request \in Requests
  /\ page \in Nat \union {Unset} /\ page # 0 => page = Unset \/ page > 0
  /\ read \in Seq(Matched(request, Catalog))
  /\ page = 0 => read = <<>> /\ atStart = {}

\* The next offset is no larger than what was listed when the page before it was
\* read, so that its product does not wrap.
OffsetIsExact == page \in Nat => page * Size(request) < U32

\* What was listed at the start is read or its place is still to come.
NoneIsSkipped ==
  "deletions" \notin changes =>
    /\ atStart \subseteq listed
    /\ KeysDiffer(Asked(request), listed) =>
         \A r \in Matched(request, atStart) :
           \/ r \in ToSet(read)
           \/ page \in Nat /\ page * Size(request) <= Rank(request, listed, r)
           \/ page = Unset /\ Size(request) = 0

\* What was read and is still listed has a place before the next page.
NoneIsRepeated ==
  "uploads" \notin changes =>
    /\ page # 0 => listed \subseteq atStart
    /\ KeysDiffer(Asked(request), listed \union atStart) =>
         /\ \A i, j \in DOMAIN read : read[i] = read[j] => i = j
         /\ page \in Nat =>
              \A r \in ToSet(read) \intersect Matched(request, listed) :
                Rank(request, listed, r) < page * Size(request)

PagesInv == PagesTypeOK /\ OffsetIsExact /\ NoneIsSkipped /\ NoneIsRepeated

LEMMA PageIsRead == PagesInv /\ ReadPage => PagesInv'
<1> SUFFICES ASSUME PagesInv, ReadPage PROVE PagesInv'
  OBVIOUS
<1>1. page \in Nat /\ listed' = listed /\ request' = request
  BY ListingAssumption DEF ReadPage, PagesInv, PagesTypeOK
<1>2. PICK rows, results :
        /\ rows \in Sorted(Specification(request, page))
        /\ results = Limit(rows, Specification(request, page))
        /\ read' = read \o results
        /\ page' = IF results = <<>> THEN Unset ELSE page + 1
  BY DEF ReadPage
<1>3. PICK p, R, n, size, start, q :
        /\ p = page /\ R = Matched(request, listed) /\ n = Cardinality(R)
        /\ size = Size(request) /\ start = p * size /\ q = (p + 1) * size
  OBVIOUS
<1>4. /\ listed \in SUBSET Catalog /\ atStart \in SUBSET Catalog /\ request \in Requests
      /\ p \in Nat /\ start < U32 /\ (p # 0 => p > 0)
      /\ read \in Seq(Matched(request, Catalog))
      /\ p = 0 => read = <<>> /\ atStart = {}
  BY <1>1, <1>3, ListingAssumption DEF PagesInv, PagesTypeOK, OffsetIsExact
<1>5. size \in Nat /\ size <= MaxPageSize /\ MaxPageSize \in Nat /\ U32 \in Nat
  BY <1>3, <1>4, SizeType, ListingAssumption
<1>6. q = start + size
  BY <1>3, <1>4, <1>5
<1> DEFINE end == IF start + size <= n THEN start + size ELSE n
<1>7. /\ start \in Nat /\ n \in Nat
      /\ results \in Seq(R)
      /\ Len(results) = IF start < end THEN end - start ELSE 0
      /\ \A k \in 1 .. Len(results) : start + k \in 1 .. n /\ results[k] = rows[start + k]
  BY <1>1, <1>2, <1>3, <1>4, PageIsCut, ZenonT(60)
<1>8. /\ rows \in [1 .. n -> R]
      /\ \A i, j \in 1 .. n : i # j => rows[i] # rows[j]
      /\ \A r \in R : \E i \in 1 .. n : r = rows[i]
  BY <1>2, <1>3, <1>4, RowsComeOnce
<1>9. ASSUME KeysDiffer(Asked(request), listed), NEW i \in 1 .. n
      PROVE  Rank(request, listed, rows[i]) = i - 1
  BY <1>2, <1>3, <1>4, <1>9, PlaceIsRank
<1>10. n <= Cardinality(Catalog) /\ Cardinality(Catalog) \in Nat
       /\ Cardinality(Catalog) + MaxPageSize <= U32
  BY <1>3, <1>4, MatchedIsFinite, FS_CardinalityType, ListingAssumption
<1>11. R \subseteq Matched(request, Catalog) /\ results \in Seq(Matched(request, Catalog))
  <2>1. R \subseteq Matched(request, Catalog)
    BY <1>3, <1>4 DEF Matched
  <2> QED BY <1>7, <2>1, SeqMonotonic
<1>12. /\ results = <<>> => Len(results) = 0 /\ page' = Unset /\ page' \notin Nat
       /\ results # <<>> => Len(results) > 0 /\ page' = p + 1 /\ page' # Unset
  <2>1. results # <<>> => Len(results) \in Nat \ {0}
    BY <1>7, EmptySeq
  <2>2. Len(<<>>) = 0
    BY EmptySeq
  <2>3. p + 1 \in Nat /\ p + 1 # Unset
    BY <1>4, ListingAssumption
  <2> QED BY <1>2, <1>3, <2>1, <2>2, <2>3, ListingAssumption
<1>13. DOMAIN results = 1 .. Len(results) /\ Len(results) \in Nat
  BY <1>7, LenProperties
<1>15. /\ atStart' = IF p = 0 THEN listed ELSE atStart
       /\ changes' = IF p = 0 THEN {} ELSE changes
  BY <1>3 DEF ReadPage
<1>16. ToSet(read') = ToSet(read) \union ToSet(results)
  BY <1>2, <1>4, <1>11, ElementsOfConcat
<1>17. p = 0 => start = 0
  BY <1>3, <1>5
<1>18. PagesTypeOK'
  <2>1. read' \in Seq(Matched(request, Catalog))
    BY <1>2, <1>4, <1>11, ConcatProperties
  <2>2. page' \in Nat \union {Unset} /\ page' # 0 /\ (page' = Unset \/ page' > 0)
    BY <1>4, <1>12, ListingAssumption
  <2>3. atStart' \in SUBSET Catalog
    BY <1>4, <1>15
  <2> QED BY <1>1, <1>4, <2>1, <2>2, <2>3 DEF PagesTypeOK
<1>19. OffsetIsExact'
  <2> SUFFICES ASSUME page' \in Nat PROVE page' * Size(request') < U32
    BY DEF OffsetIsExact
  <2>1. page' = p + 1 /\ Len(results) > 0
    BY <1>12
  <2>2. start < n
    BY <1>5, <1>7, <2>1
  <2>3. q < U32
    BY <1>5, <1>6, <1>7, <1>10, <2>2
  <2> QED BY <1>1, <1>3, <2>1, <2>3
<1>20. NoneIsSkipped'
  <2> SUFFICES ASSUME "deletions" \notin changes'
               PROVE  /\ atStart' \subseteq listed'
                      /\ KeysDiffer(Asked(request'), listed') =>
                           \A r \in Matched(request', atStart') :
                             \/ r \in ToSet(read')
                             \/ page' \in Nat /\ page' * Size(request')
                                                   <= Rank(request', listed', r)
                             \/ page' = Unset /\ Size(request') = 0
    BY DEF NoneIsSkipped
  <2>1. atStart' \subseteq listed
    BY <1>15 DEF PagesInv, NoneIsSkipped
  <2> SUFFICES ASSUME KeysDiffer(Asked(request), listed), NEW r \in Matched(request, atStart'),
                      r \notin ToSet(read), r \notin ToSet(results)
               PROVE  \/ page' \in Nat /\ page' * size <= Rank(request, listed, r)
                      \/ page' = Unset /\ size = 0
    BY <1>1, <1>3, <1>16, <2>1
  <2>2. r \in R
    BY <1>3, <2>1 DEF Matched
  <2>3. PICK i \in 1 .. n : r = rows[i]
    BY <1>8, <2>2
  <2>4. Rank(request, listed, r) = i - 1
    BY <1>9, <2>3
  <2>5. start <= i - 1
    <3>1. CASE p = 0
      BY <1>7, <1>17, <2>3, <3>1
    <3>2. CASE p # 0
      BY <1>3, <1>4, <1>15, <2>4, <3>2, ListingAssumption DEF PagesInv, NoneIsSkipped
    <3> QED BY <3>1, <3>2
  <2>6. ~(i <= start + size)
    <3> SUFFICES ASSUME i <= start + size PROVE FALSE
      OBVIOUS
    <3>1. i - start \in 1 .. Len(results) /\ start + (i - start) = i
      BY <1>5, <1>7, <2>3, <2>5
    <3>2. results[i - start] = r
      BY <1>7, <2>3, <3>1
    <3> QED BY <1>13, <3>1, <3>2 DEF ToSet
  <2>7. CASE results = <<>>
    <3>1. Len(results) = 0 /\ page' = Unset
      BY <1>12, <2>7
    <3>2. size = 0
      BY <1>5, <1>7, <2>3, <2>5, <2>6, <3>1
    <3> QED BY <3>1, <3>2
  <2>8. CASE results # <<>>
    <3>1. page' \in Nat /\ page' = p + 1
      BY <1>4, <1>12, <2>8
    <3>2. q <= i - 1
      BY <1>5, <1>6, <1>7, <2>3, <2>6
    <3> QED BY <1>3, <2>4, <3>1, <3>2
  <2> QED BY <2>7, <2>8
<1>21. NoneIsRepeated'
  <2> SUFFICES ASSUME "uploads" \notin changes'
               PROVE  /\ page' # 0 => listed' \subseteq atStart'
                      /\ KeysDiffer(Asked(request'), listed' \union atStart') =>
                           /\ \A i, j \in DOMAIN read' : read'[i] = read'[j] => i = j
                           /\ page' \in Nat =>
                                \A r \in ToSet(read') \intersect Matched(request', listed') :
                                  Rank(request', listed', r) < page' * Size(request')
    BY DEF NoneIsRepeated
  <2>1. listed \subseteq atStart' /\ listed \union atStart' = atStart'
    BY <1>3, <1>15 DEF PagesInv, NoneIsRepeated
  <2> SUFFICES ASSUME KeysDiffer(Asked(request), atStart')
               PROVE  /\ \A i, j \in DOMAIN read' : read'[i] = read'[j] => i = j
                      /\ page' \in Nat =>
                           \A r \in ToSet(read') \intersect R :
                             Rank(request, listed, r) < page' * size
    BY <1>1, <1>3, <2>1
  <2>2. KeysDiffer(Asked(request), listed)
    BY <2>1, FewerKeysDiffer
  <2>3. /\ \A i, j \in DOMAIN read : read[i] = read[j] => i = j
        /\ \A r \in ToSet(read) \intersect R : Rank(request, listed, r) < start
    <3>1. CASE p = 0
      <4>1. DOMAIN read = {}
        BY <1>4, <3>1
      <4> QED BY <4>1 DEF ToSet
    <3>2. CASE p # 0
      <4>1. listed \union atStart = atStart' /\ "uploads" \notin changes
        BY <1>15, <2>1, <3>2
      <4> QED BY <1>1, <1>3, <4>1 DEF PagesInv, NoneIsRepeated
    <3> QED BY <3>1, <3>2
  <2>4. ASSUME NEW k \in 1 .. Len(results)
        PROVE  /\ results[k] \in R /\ start + k \in 1 .. n /\ results[k] = rows[start + k]
               /\ Rank(request, listed, results[k]) = (start + k) - 1
    <3>1. start + k \in 1 .. n /\ results[k] = rows[start + k]
      BY <1>7
    <3> QED BY <1>8, <1>9, <2>2, <3>1
  <2>5. \A i, j \in DOMAIN results : results[i] = results[j] => i = j
    <3> SUFFICES ASSUME NEW i \in 1 .. Len(results), NEW j \in 1 .. Len(results),
                        results[i] = results[j]
                 PROVE  i = j
      BY <1>13
    <3>1. start + i = start + j
      BY <1>8, <2>4
    <3> QED BY <1>7, <1>13, <3>1
  <2>6. ToSet(read) \intersect ToSet(results) = {}
    <3> SUFFICES ASSUME NEW k \in 1 .. Len(results), results[k] \in ToSet(read) PROVE FALSE
      BY <1>13 DEF ToSet
    <3>1. Rank(request, listed, results[k]) < start
      BY <2>3, <2>4
    <3>2. Rank(request, listed, results[k]) = (start + k) - 1
      BY <2>4
    <3> QED BY <1>7, <1>13, <3>1, <3>2
  <2>7. \A i, j \in DOMAIN read' : read'[i] = read'[j] => i = j
    <3>1. \A i, j \in DOMAIN (read \o results) :
            (read \o results)[i] = (read \o results)[j] => i = j
      BY <1>4, <1>11, <2>3, <2>5, <2>6, ElementsOfConcat
    <3> QED BY <1>2, <3>1
  <2>8. ASSUME page' \in Nat, NEW r \in ToSet(read') \intersect R
        PROVE  Rank(request, listed, r) < page' * size
    <3>1. page' * size = start + size
      BY <1>3, <1>6, <1>12, <2>8
    <3>2. Rank(request, listed, r) \in Nat
      BY <1>4, RankGrows
    <3>3. CASE r \in ToSet(read)
      <4>1. PICK rank, next : rank = Rank(request, listed, r) /\ next = page' * size
        OBVIOUS
      <4>2. rank < start /\ rank \in Nat /\ next = start + size
        BY <2>3, <2>8, <3>1, <3>2, <3>3, <4>1
      <4>3. rank < next
        BY ONLY <1>5, <1>7, <4>2
      <4> QED BY <4>1, <4>3
    <3>4. CASE r \in ToSet(results)
      <4>1. PICK k \in 1 .. Len(results) : r = results[k]
        BY <1>13, <3>4 DEF ToSet
      <4>2. k <= size
        BY <1>5, <1>7, <4>1
      <4> QED BY <1>5, <1>7, <1>13, <2>4, <3>1, <4>1, <4>2
    <3> QED BY <1>16, <2>8, <3>3, <3>4
  <2> QED BY <2>7, <2>8
<1> QED BY <1>18, <1>19, <1>20, <1>21 DEF PagesInv

LEMMA UploadKeepsPages ==
  ASSUME PagesInv, NEW t \in Catalog, UploadListed(t)
  PROVE  PagesInv'
<1>1. /\ listed' = listed \union {t} /\ "uploads" \in changes' /\ page # Unset
      /\ "deletions" \notin changes' => "deletions" \notin changes
      /\ request' = request /\ page' = page /\ read' = read /\ atStart' = atStart
  BY DEF UploadListed
<1>2. PagesTypeOK' /\ OffsetIsExact'
  BY <1>1 DEF PagesInv, PagesTypeOK, OffsetIsExact
<1>3. NoneIsRepeated'
  BY <1>1 DEF NoneIsRepeated
<1>4. NoneIsSkipped'
  <2>1. listed' \in SUBSET Catalog /\ listed \in SUBSET listed'
    BY <1>1 DEF PagesInv, PagesTypeOK
  <2>2. ASSUME "deletions" \notin changes'
        PROVE  atStart' \subseteq listed'
    BY <1>1, <2>1, <2>2 DEF PagesInv, NoneIsSkipped
  <2>3. ASSUME "deletions" \notin changes', KeysDiffer(Asked(request), listed'),
               NEW r \in Matched(request, atStart), r \notin ToSet(read)
        PROVE  page \in Nat /\ page * Size(request) <= Rank(request, listed', r)
    <3>1. KeysDiffer(Asked(request), listed)
      BY <2>1, <2>3, FewerKeysDiffer
    <3>2. page \in Nat /\ page * Size(request) <= Rank(request, listed, r)
      BY <1>1, <2>3, <3>1 DEF PagesInv, NoneIsSkipped
    <3>3. /\ Rank(request, listed, r) \in Nat /\ Rank(request, listed', r) \in Nat
          /\ Rank(request, listed, r) <= Rank(request, listed', r)
      BY <2>1, RankGrows
    <3>4. page * Size(request) \in Nat
      BY <3>2, SizeType DEF PagesInv, PagesTypeOK
    <3> QED BY <3>2, <3>3, <3>4
  <2> QED BY <1>1, <2>2, <2>3 DEF NoneIsSkipped
<1> QED BY <1>2, <1>3, <1>4 DEF PagesInv

LEMMA DeletionKeepsPages ==
  ASSUME PagesInv, NEW t \in Catalog, DeleteListed(t)
  PROVE  PagesInv'
<1>1. /\ listed' = listed \ {t} /\ "deletions" \in changes' /\ page # Unset
      /\ "uploads" \notin changes' => "uploads" \notin changes
      /\ request' = request /\ page' = page /\ read' = read /\ atStart' = atStart
  BY DEF DeleteListed
<1>2. PagesTypeOK' /\ OffsetIsExact'
  BY <1>1 DEF PagesInv, PagesTypeOK, OffsetIsExact
<1>3. NoneIsSkipped'
  BY <1>1 DEF NoneIsSkipped
<1>4. NoneIsRepeated'
  <2>1. listed \in SUBSET Catalog /\ listed' \in SUBSET listed
    BY <1>1 DEF PagesInv, PagesTypeOK
  <2>2. ASSUME "uploads" \notin changes', page # 0
        PROVE  listed' \subseteq atStart /\ listed' \union atStart = listed \union atStart
    BY <1>1, <2>1, <2>2 DEF PagesInv, NoneIsRepeated
  <2>3. ASSUME "uploads" \notin changes', KeysDiffer(Asked(request), listed' \union atStart),
               page # 0
        PROVE  /\ \A i, j \in DOMAIN read : read[i] = read[j] => i = j
               /\ page \in Nat =>
                    \A r \in ToSet(read) \intersect Matched(request, listed') :
                      Rank(request, listed', r) < page * Size(request)
    <3>1. KeysDiffer(Asked(request), listed \union atStart)
      BY <2>2, <2>3
    <3>2. /\ \A i, j \in DOMAIN read : read[i] = read[j] => i = j
          /\ page \in Nat =>
               \A r \in ToSet(read) \intersect Matched(request, listed) :
                 Rank(request, listed, r) < page * Size(request)
      BY <1>1, <2>3, <3>1 DEF PagesInv, NoneIsRepeated
    <3>3. ASSUME page \in Nat, NEW r \in ToSet(read) \intersect Matched(request, listed')
          PROVE  Rank(request, listed', r) < page * Size(request)
      <4>1. /\ Matched(request, listed') \subseteq Matched(request, listed)
            /\ Rank(request, listed', r) \in Nat /\ Rank(request, listed, r) \in Nat
            /\ Rank(request, listed', r) <= Rank(request, listed, r)
        BY <2>1, RankGrows
      <4>2. Rank(request, listed, r) < page * Size(request)
        BY <3>2, <3>3, <4>1
      <4>3. page * Size(request) \in Nat
        BY <3>3, SizeType DEF PagesInv, PagesTypeOK
      <4> QED BY <4>1, <4>2, <4>3
    <3> QED BY <3>2, <3>3
  <2>4. ASSUME page = 0
        PROVE  /\ \A i, j \in DOMAIN read : read[i] = read[j] => i = j
               /\ ToSet(read) = {}
    <3>1. DOMAIN read = {}
      BY <2>4 DEF PagesInv, PagesTypeOK
    <3> QED BY <3>1 DEF ToSet
  <2>5. CASE page = 0
    BY <1>1, <2>4, <2>5 DEF NoneIsRepeated
  <2>6. CASE page # 0
    BY <1>1, <2>2, <2>3, <2>6 DEF NoneIsRepeated
  <2> QED BY <2>5, <2>6
<1> QED BY <1>2, <1>3, <1>4 DEF PagesInv

LEMMA PagesInvInit == ListInit => PagesInv
<1> SUFFICES ASSUME ListInit PROVE PagesInv
  OBVIOUS
<1>1. PagesTypeOK
  BY EmptySeq DEF ListInit, PagesTypeOK
<1>2. OffsetIsExact
  <2>1. page = 0 /\ Size(request) \in Nat
    BY SizeType DEF ListInit
  <2>2. page * Size(request) = 0
    BY <2>1
  <2> QED BY <2>2, ListingAssumption DEF OffsetIsExact
<1>3. NoneIsSkipped
  <2>1. Matched(request, atStart) = {}
    BY DEF ListInit, Matched
  <2> QED BY <2>1 DEF ListInit, NoneIsSkipped
<1>4. NoneIsRepeated
  <2>1. DOMAIN read = {} /\ page = 0
    BY DEF ListInit
  <2>2. ToSet(read) = {}
    BY <2>1 DEF ToSet
  <2> QED BY <2>1, <2>2 DEF NoneIsRepeated
<1> QED BY <1>1, <1>2, <1>3, <1>4 DEF PagesInv

LEMMA PagesInvNext == PagesInv /\ [ListNext]_listVars => PagesInv'
<1> SUFFICES ASSUME PagesInv, [ListNext]_listVars PROVE PagesInv'
  OBVIOUS
<1>1. CASE ReadPage
  BY <1>1, PageIsRead
<1>2. ASSUME NEW t \in Catalog, UploadListed(t) \/ DeleteListed(t) PROVE PagesInv'
  BY <1>2, UploadKeepsPages, DeletionKeepsPages
<1>3. CASE UNCHANGED listVars
  BY <1>3 DEF listVars, PagesInv, PagesTypeOK, OffsetIsExact, NoneIsSkipped, NoneIsRepeated
<1> QED BY <1>1, <1>2, <1>3 DEF ListNext

\* Whoever reads a list of any length page by page, while torrents are uploaded,
\* misses none that matched at the first page: the offsets neither leave a gap
\* nor wrap around 32 bits (services/torrent.rs, the queries of sqlite.rs and
\* mysql.rs).
THEOREM NoTorrentIsMissed == ListSpec => []PagesMissNothing
<1>1. PagesInv => PagesMissNothing
  <2> SUFFICES ASSUME PagesInv, Finished, "deletions" \notin changes,
                      KeysDiffer(Asked(request), listed),
                      NEW t \in atStart, Matches(Asked(request), t)
               PROVE  Listed(Asked(request), t) \in ToSet(read)
    BY DEF PagesMissNothing, Asked
  <2>1. page = Unset /\ page \notin Nat /\ Size(request) # 0
    BY ListingAssumption DEF Finished, Size
  <2>2. Listed(Asked(request), t) \in Matched(request, atStart)
    BY DEF Matched
  <2> QED BY <2>1, <2>2 DEF PagesInv, NoneIsSkipped
<1> QED BY <1>1, PagesInvInit, PagesInvNext, PTL DEF ListSpec

\* A row that was read is one that was asked for.
LEMMA RowsAreAskedFor ==
  ASSUME NEW req \in Requests, NEW t \in Catalog, Matches(Asked(req), t),
         NEW r, r = Listed(Asked(req), t)
  PROVE  LET categories == Filter(AsCsv(req.categories), Categories)
             tags == Filter(AsCsv(req.tags), Tags)
         IN /\ categories # {} => r.category \in categories
            /\ tags # {} => r.tags \intersect tags # {}
            /\ req.search # Unset => r.title \in req.search
            /\ Cardinality(r.tags \intersect tags) <= 1 => r \in Catalog
<1> DEFINE s == Asked(req)
           categories == Filter(s.categories, Categories)
           tags == Filter(s.tags, Tags)
           links == Cardinality(t.tags \intersect tags)
<1>1. s.search = req.search /\ s.categories = AsCsv(req.categories) /\ s.tags = AsCsv(req.tags)
  BY DEF Asked, Specification
<1> HIDE DEF s
<1>2. /\ s.search = Unset \/ t.title \in s.search
      /\ categories = {} \/ t.category \in categories
      /\ tags = {} \/ t.tags \intersect tags # {}
  BY DEF Matches, s
<1> DEFINE times == IF links = 0 THEN 1 ELSE links
<1>3. r = [t EXCEPT !.seeders = times * @, !.leechers = times * @]
  BY DEF Listed, s
<1> HIDE DEF categories, tags
<1>4. /\ t \in [id : Nat, category : Categories, tags : SUBSET Tags, date : Nat,
                seeders : Nat, leechers : Nat, title : Nat, size : Nat]
      /\ t.seeders \in Nat /\ t.leechers \in Nat /\ IsFiniteSet(t.tags)
  <2>1. t \in [id : Nat, category : Categories, tags : SUBSET Tags, date : Nat,
               seeders : Nat, leechers : Nat, title : Nat, size : Nat]
    BY ListingAssumption
  <2>2. t.tags \in SUBSET Tags /\ IsFiniteSet(Tags)
    BY <2>1, ListingAssumption
  <2> QED BY <2>1, <2>2, FS_Subset
<1>5. links \in Nat
  BY <1>4, FS_Intersection, FS_CardinalityType
<1> HIDE DEF links
<1>6. PICK seeding, leeching : /\ seeding = times * t.seeders /\ leeching = times * t.leechers
                                /\ r = [t EXCEPT !.seeders = seeding, !.leechers = leeching]
  BY <1>3
<1>7. r.category = t.category /\ r.tags = t.tags /\ r.title = t.title
  BY <1>4, <1>6
<1>8. ASSUME links <= 1 PROVE r \in Catalog
  <2>1. links = 0 \/ links = 1
    BY <1>5, <1>8
  <2>2. seeding = t.seeders /\ leeching = t.leechers
    BY <1>4, <1>6, <2>1
  <2>3. r = t
    BY <1>4, <1>6, <2>2
  <2> QED BY <2>3
<1> QED BY <1>1, <1>2, <1>7, <1>8 DEF links, categories, tags

\* What a client reads is what it asked for, and comes once as long as nothing is
\* uploaded, for any catalog, request and page size (services/torrent.rs, the
\* queries of sqlite.rs and mysql.rs).
THEOREM OnlyTheAskedIsRead == ListSpec => []PagesAreWhatWasAsked
<1>1. PagesInv => PagesAreWhatWasAsked
  <2> SUFFICES ASSUME PagesInv PROVE PagesAreWhatWasAsked
    OBVIOUS
  <2> DEFINE categories == Filter(AsCsv(request.categories), Categories)
             tags == Filter(AsCsv(request.tags), Tags)
  <2>1. ASSUME NEW r \in ToSet(read)
        PROVE  /\ categories # {} => r.category \in categories
               /\ tags # {} => r.tags \intersect tags # {}
               /\ request.search # Unset => r.title \in request.search
               /\ Cardinality(r.tags \intersect tags) <= 1 => r \in Catalog
    <3>1. r \in Matched(request, Catalog)
      <4>1. PICK i \in DOMAIN read : r = read[i]
        BY DEF ToSet
      <4>2. read \in Seq(Matched(request, Catalog))
        BY DEF PagesInv, PagesTypeOK
      <4> QED BY <4>1, <4>2, LenProperties, ElementOfSeq
    <3>2. PICK t \in Catalog : Matches(Asked(request), t) /\ r = Listed(Asked(request), t)
      BY <3>1 DEF Matched
    <3> HIDE DEF categories, tags
    <3> QED BY <3>2, RowsAreAskedFor DEF PagesInv, PagesTypeOK, categories, tags
  <2>2. ASSUME "uploads" \notin changes, KeysDiffer(Asked(request), listed \union atStart)
        PROVE  \A i, j \in DOMAIN read : read[i] = read[j] => i = j
    BY <2>2 DEF PagesInv, NoneIsRepeated
  <2> HIDE DEF categories, tags
  <2> QED BY <2>1, <2>2 DEF PagesAreWhatWasAsked, Asked, categories, tags
<1> QED BY <1>1, PagesInvInit, PagesInvNext, PTL DEF ListSpec
-----------------------------------------------------------------------------
(* Elements that are taken out of a sequence *)


\* What is left has all elements but one, whatever their order.
LEMMA WithoutKeepsTheRest ==
  ASSUME NEW S, NEW list \in Seq(S), NEW gone
  PROVE  /\ Without(list, gone) \in Seq(S)
         /\ ToSet(Without(list, gone)) = ToSet(list) \ {gone}
<1>1. PICK n : n = Len(list)
  OBVIOUS
<1>2. n \in Nat /\ DOMAIN list = 1 .. n /\ \A i \in 1 .. n : list[i] \in S
  BY <1>1, LenProperties, ElementOfSeq
<1> DEFINE Step(kept, x) == IF x = gone THEN kept ELSE Append(kept, x)
           F(h) == [m \in 0 .. n |-> IF m = 0 THEN <<>>
                                     ELSE IF list[m] = gone THEN h[m - 1]
                                     ELSE Append(h[m - 1], list[m])]
           it == CHOOSE h : h = F(h)
           Upto(m, f) == /\ f \in [0 .. m -> Seq(S)] /\ f[0] = <<>>
                         /\ \A i \in 1 .. m : f[i] = Step(f[i - 1], list[i])
           Rest(m, f) == ToSet(f[m]) = {list[i] : i \in 1 .. m} \ {gone}
           P == {m \in Nat : \E f : Upto(m, f) /\ Rest(m, f)}
<1>3. ASSUME NEW m \in Nat, m < n, NEW f, Upto(m, f), Rest(m, f)
      PROVE  m + 1 \in P
  <2>1. PICK x, s, t : x = list[m + 1] /\ s = f[m] /\ t = Step(s, x)
    OBVIOUS
  <2>2. m + 1 \in 1 .. n /\ x \in S /\ s \in Seq(S)
    <3>1. m + 1 \in 1 .. n /\ m \in 0 .. m
      BY <1>2, <1>3
    <3>2. f \in [0 .. m -> Seq(S)]
      BY <1>3
    <3> QED BY <1>2, <2>1, <3>1, <3>2
  <2>3. t \in Seq(S) /\ ToSet(t) = (ToSet(s) \cup {x}) \ {gone}
    <3>1. gone \notin ToSet(s)
      BY <1>3, <2>1
    <3>2. CASE x = gone
      BY <2>1, <2>2, <3>1, <3>2
    <3>3. CASE x # gone
      <4>1. t = Append(s, x)
        BY <2>1, <3>3
      <4>2. /\ t \in Seq(S) /\ Len(t) = Len(s) + 1 /\ t[Len(s) + 1] = x
            /\ \A i \in 1 .. Len(s) : t[i] = s[i]
        BY <2>2, <4>1, AppendProperties
      <4>3. Len(s) \in Nat /\ DOMAIN s = 1 .. Len(s) /\ DOMAIN t = 1 .. Len(s) + 1
        BY <2>2, <4>2, LenProperties
      <4>4. ToSet(t) = ToSet(s) \cup {x}
        <5>1. ASSUME NEW i \in DOMAIN t PROVE t[i] \in ToSet(s) \cup {x}
          BY <4>2, <4>3 DEF ToSet
        <5>2. ASSUME NEW i \in DOMAIN s PROVE i \in DOMAIN t /\ t[i] = s[i]
          BY <4>2, <4>3
        <5>3. Len(s) + 1 \in DOMAIN t
          BY <4>3
        <5> QED BY <4>2, <5>1, <5>2, <5>3 DEF ToSet
      <4> QED BY <3>1, <3>3, <4>2, <4>4
    <3> QED BY <3>2, <3>3
  <2> DEFINE g == [i \in 0 .. m + 1 |-> IF i = m + 1 THEN t ELSE f[i]]
  <2>4. g[m + 1] = t /\ \A i \in 0 .. m : g[i] = f[i]
    BY <1>3
  <2>5. g \in [0 .. m + 1 -> Seq(S)]
    BY <1>3, <2>3
  <2> HIDE DEF g
  <2>6. ASSUME NEW i \in 1 .. m + 1 PROVE g[i] = Step(g[i - 1], list[i])
    <3>1. i - 1 \in 0 .. m /\ g[i - 1] = f[i - 1]
      BY <2>4
    <3>2. CASE i = m + 1
      <4>1. i - 1 = m
        BY <3>2
      <4> HIDE DEF Step
      <4> QED BY <2>1, <2>4, <3>1, <3>2, <4>1
    <3>3. CASE i # m + 1
      <4>1. i \in 1 .. m /\ i \in 0 .. m
        BY <3>3
      <4>2. f[i] = Step(f[i - 1], list[i])
        BY <1>3, <4>1
      <4> HIDE DEF Step
      <4> QED BY <2>4, <3>1, <4>1, <4>2
    <3> QED BY <3>2, <3>3
  <2>7. Upto(m + 1, g)
    <3>1. g[0] = <<>>
      BY <1>3, <2>4
    <3> HIDE DEF Step
    <3> QED BY <2>5, <2>6, <3>1
  <2>8. Rest(m + 1, g)
    <3>1. {list[i] : i \in 1 .. m + 1} = {list[i] : i \in 1 .. m} \cup {x}
      BY <2>1
    <3>2. ToSet(s) = {list[i] : i \in 1 .. m} \ {gone}
      BY <1>3, <2>1
    <3> QED BY <2>3, <2>4, <3>1, <3>2
  <2> HIDE DEF Upto, Rest
  <2> QED BY <2>7, <2>8
<1>4. 0 \in P
  <2>1. Upto(0, [i \in 0 .. 0 |-> <<>>])
    BY EmptySeq
  <2>2. Rest(0, [i \in 0 .. 0 |-> <<>>])
    BY EmptySeq DEF ToSet
  <2> HIDE DEF Upto, Rest
  <2> QED BY <2>1, <2>2
<1>5. n \in P
  <2>1. P \in SUBSET Nat
    OBVIOUS
  <2>2. ASSUME NEW m \in P, m < n PROVE m + 1 \in P
    <3>1. PICK f : Upto(m, f) /\ Rest(m, f)
      OBVIOUS
    <3>2. m \in Nat
      OBVIOUS
    <3> HIDE DEF P, Upto, Rest
    <3> QED BY <1>3, <2>2, <3>1, <3>2
  <2> HIDE DEF P
  <2>3. 0 .. n \subseteq P
    BY <1>2, <1>4, <2>1, <2>2, InductionFromZero
  <2>4. n \in 0 .. n
    BY <1>2
  <2> QED BY <2>3, <2>4
<1>6. PICK f : Upto(n, f) /\ Rest(n, f)
  <2> HIDE DEF Upto, Rest
  <2> QED BY <1>5
<1>7. f = F(f)
  <2>1. f = [m \in 0 .. n |-> f[m]]
    BY <1>6
  <2>2. \A m \in 0 .. n : m # 0 => f[m] = Step(f[m - 1], list[m])
    <3> SUFFICES ASSUME NEW m \in 0 .. n, m # 0 PROVE f[m] = Step(f[m - 1], list[m])
      OBVIOUS
    <3>1. m \in 1 .. n
      BY <1>2
    <3> HIDE DEF Step
    <3> QED BY <1>6, <3>1
  <2> QED BY <1>6, <2>1, <2>2
<1>8. it = F(it)
  BY <1>7
<1>9. Without(list, gone) = it[n]
  BY <1>1 DEF Without
<1> HIDE DEF it
<1>10. 0 .. n \subseteq {m \in Nat : m <= n => it[m] = f[m]}
  <2> DEFINE Q == {m \in Nat : m <= n => it[m] = f[m]}
  <2>1. 0 \in Q
    BY <1>2, <1>6, <1>8
  <2>2. ASSUME NEW m \in Q, m < n PROVE m + 1 \in Q
    <3>1. m + 1 \in 0 .. n /\ m + 1 # 0 /\ (m + 1) - 1 = m /\ it[m] = f[m]
      BY <1>2, <2>2
    <3>2. it[m + 1] = Step(it[m], list[m + 1])
      BY <1>8, <3>1
    <3>3. f[m + 1] = Step(f[m], list[m + 1])
      BY <1>7, <3>1
    <3> QED BY <3>1, <3>2, <3>3
  <2>3. Q \in SUBSET Nat
    OBVIOUS
  <2> HIDE DEF Q
  <2>4. 0 .. n \subseteq Q
    BY <1>2, <2>1, <2>2, <2>3, InductionFromZero
  <2> QED BY <2>4 DEF Q
<1>11. it[n] = f[n] /\ f[n] \in Seq(S)
  <2>1. n \in 0 .. n
    BY <1>2
  <2> QED BY <1>6, <1>10, <2>1
<1>12. ToSet(list) = {list[i] : i \in 1 .. n}
  BY <1>2 DEF ToSet
<1>13. Rest(n, f)
  BY <1>6
<1> QED BY <1>9, <1>11, <1>12, <1>13

-----------------------------------------------------------------------------
(* Conversions of a torrent file *)

\* The digits of a piece make that piece again.
LEMMA DigitsMakeTheSameBytes ==
  ASSUME NEW bytes \in Seq(Byte)
  PROVE  FromBytes(bytes) \in Seq(Digit) /\ IntoBytes(FromBytes(bytes)) = bytes
<1>1. PICK n : n = Len(bytes)
  OBVIOUS
<1>2. n \in Nat /\ DOMAIN bytes = 1 .. n /\ \A i \in 1 .. n : bytes[i] \in Byte
  BY <1>1, LenProperties, ElementOfSeq
<1> DEFINE pairs == [i \in DOMAIN bytes |-> <<bytes[i] \div 16, bytes[i] % 16>>]
<1>3. ASSUME NEW i \in 1 .. n
      PROVE  /\ pairs[i] \in Seq(Digit) /\ Len(pairs[i]) = 2
             /\ pairs[i][1] = bytes[i] \div 16 /\ pairs[i][2] = bytes[i] % 16
  <2>1. PICK b \in Byte : b = bytes[i]
    BY <1>2
  <2>2. b \div 16 \in Digit /\ b % 16 \in Digit
    BY DEF Byte, Digit
  <2>3. pairs[i] = <<b \div 16, b % 16>>
    BY <1>2, <2>1
  <2>4. PICK high \in Digit, low \in Digit : high = b \div 16 /\ low = b % 16
    BY <2>2
  <2>5. <<high, low>> \in Seq(Digit) /\ Len(<<high, low>>) = 2
    OBVIOUS
  <2>6. pairs[i] = <<high, low>>
    BY <2>3, <2>4
  <2>7. pairs[i] \in Seq(Digit) /\ Len(pairs[i]) = 2
    BY <2>5, <2>6
  <2>8. pairs[i][1] = high /\ pairs[i][2] = low
    BY <2>6
  <2> QED BY <2>1, <2>4, <2>7, <2>8
<1>4. pairs \in Seq(Seq(Digit)) /\ Len(pairs) = n
  <2>1. pairs = [i \in 1 .. n |-> pairs[i]]
    BY <1>2
  <2> HIDE DEF pairs
  <2> QED BY <1>2, <1>3, <2>1, IsASeq
<1>5. PICK digits : digits = FromBytes(bytes)
  OBVIOUS
<1>6. /\ digits \in Seq(Digit) /\ Len(digits) = 2 * n
      /\ \A i \in 1 .. n : digits[2 * i - 1] = pairs[i][1] /\ digits[2 * i] = pairs[i][2]
  <2>1. digits = FlattenSeq(pairs)
    BY <1>5 DEF FromBytes
  <2>2. \A i \in 1 .. Len(pairs) : Len(pairs[i]) = 2
    BY <1>3, <1>4
  <2>3. 2 \in {1, 2}
    OBVIOUS
  <2> HIDE DEF pairs
  <2> QED BY <1>4, <2>1, <2>2, <2>3, FlattenBlocks
<1>7. Len(digits) \div 2 = n
  BY <1>2, <1>6
<1>8. ASSUME NEW i \in 1 .. n PROVE 16 * digits[2 * i - 1] + digits[2 * i] = bytes[i]
  <2>1. PICK b \in Byte : b = bytes[i]
    BY <1>2
  <2>2. digits[2 * i - 1] = b \div 16 /\ digits[2 * i] = b % 16
    <3> HIDE DEF pairs
    <3> QED BY <1>3, <1>6, <2>1
  <2>3. 16 * (b \div 16) + (b % 16) = b
    BY DEF Byte
  <2> QED BY <2>1, <2>2, <2>3
<1>9. bytes = [i \in 1 .. n |-> bytes[i]]
  BY <1>1, LenProperties
<1>10. IntoBytes(digits) = [i \in 1 .. n |-> 16 * digits[2 * i - 1] + digits[2 * i]]
  BY <1>7 DEF IntoBytes
<1> QED BY <1>5, <1>6, <1>8, <1>9, <1>10

LEMMA DigitsMakeBytes ==
  ASSUME NEW digits \in Seq(Digit)
  PROVE  IntoBytes(digits) \in Seq(Byte)
<1>1. PICK n, m : n = Len(digits) /\ m = n \div 2
  OBVIOUS
<1>2. n \in Nat /\ m \in Nat /\ 2 * m <= n /\ \A i \in 1 .. n : digits[i] \in Digit
  BY <1>1, LenProperties, ElementOfSeq
<1>3. ASSUME NEW i \in 1 .. m PROVE 16 * digits[2 * i - 1] + digits[2 * i] \in Byte
  <2>1. 2 * i - 1 \in 1 .. n /\ 2 * i \in 1 .. n
    BY <1>2
  <2>2. digits[2 * i - 1] \in Digit /\ digits[2 * i] \in Digit
    BY <1>2, <2>1
  <2>3. \A high, low \in Digit : 16 * high + low \in Byte
    BY DEF Byte, Digit
  <2> QED BY <2>2, <2>3
<1> QED BY <1>1, <1>2, <1>3, IsASeq DEF IntoBytes

\* Paths of plain names, as the index makes them of its path columns.
PlainPath ==
  {path \in Seq(Name) : path # <<>> /\ \A k \in DOMAIN path : Len(path[k]) = 1}

LEMMA JoinedIsText ==
  ASSUME NEW path \in Seq(Name)
  PROVE  JoinPath(path) \in Name
<1>1. CASE path = <<>>
  <2>1. JoinPath(path) = <<Empty>>
    BY <1>1 DEF JoinPath
  <2>2. <<Empty>> \in Seq(Texts) /\ <<Empty>> # <<>>
    BY OneElement, FilesAssumption
  <2> QED BY <2>1, <2>2 DEF Name
<1>2. CASE path # <<>>
  <2>1. Len(path) # 0 /\ 1 \in 1 .. Len(path)
    BY <1>2, EmptySeq, LenProperties
  <2>2. path \in Seq(Seq(Texts))
    <3>1. \A i \in 1 .. Len(path) : path[i] \in Seq(Texts)
      BY ElementOfSeq DEF Name
    <3>2. path = [i \in 1 .. Len(path) |-> path[i]] /\ Len(path) \in Nat
      BY LenProperties
    <3> QED BY <3>1, <3>2, IsASeq
  <2>3. FlattenSeq(path) \in Seq(Texts) /\ Len(path[1]) <= Len(FlattenSeq(path))
    BY <2>1, <2>2, FlattenParts
  <2>4. Len(path[1]) \in Nat /\ Len(path[1]) # 0
    <3>1. path[1] \in Seq(Texts) /\ path[1] # <<>>
      BY <2>1, ElementOfSeq DEF Name
    <3> QED BY <3>1, EmptySeq, LenProperties
  <2>5. FlattenSeq(path) # <<>>
    BY <2>3, <2>4, EmptySeq
  <2> QED BY <1>2, <2>3, <2>5 DEF JoinPath, Name
<1> QED BY <1>1, <1>2

LEMMA SplitIsPlain ==
  ASSUME NEW text \in {None} \union Name
  PROVE  SplitPath(text) \in PlainPath
<1>1. CASE text = None
  <2>2. PICK name : name = <<Empty>>
    OBVIOUS
  <2>3. SplitPath(text) = <<name>>
    BY <1>1, <2>2 DEF SplitPath
  <2>4. name \in Name /\ Len(name) = 1
    BY <2>2, OneElement, FilesAssumption DEF Name
  <2>5. <<name>> \in Seq(Name) /\ Len(<<name>>) = 1 /\ <<name>> # <<>>
    BY <2>4, OneElement
  <2>6. \A k \in DOMAIN <<name>> : <<name>>[k] = name
    BY <2>5, LenProperties
  <2> QED BY <2>3, <2>4, <2>5, <2>6 DEF PlainPath
<1>2. CASE text # None
  <2>1. PICK n : n = Len(text)
    OBVIOUS
  <2>2. text \in Seq(Texts) /\ text # <<>>
    BY <1>2 DEF Name
  <2>3. n \in Nat /\ n # 0 /\ DOMAIN text = 1 .. n /\ \A i \in 1 .. n : text[i] \in Texts
    BY <2>1, <2>2, EmptySeq, LenProperties, ElementOfSeq
  <2>4. PICK path : path = SplitPath(text)
    OBVIOUS
  <2>5. path = [i \in 1 .. n |-> <<text[i]>>]
    BY <1>2, <2>3, <2>4 DEF SplitPath
  <2>6. ASSUME NEW i \in 1 .. n PROVE path[i] \in Name /\ Len(path[i]) = 1
    <3>1. PICK x \in Texts : x = text[i]
      BY <2>3
    <3>2. <<x>> \in Seq(Texts) /\ <<x>> # <<>> /\ Len(<<x>>) = 1
      BY OneElement
    <3> QED BY <2>5, <3>1, <3>2 DEF Name
  <2>7. path \in Seq(Name) /\ Len(path) = n /\ DOMAIN path = 1 .. n
    <3>1. path = [i \in 1 .. n |-> path[i]]
      BY <2>5
    <3> QED BY <2>3, <2>6, <3>1, IsASeq
  <2>8. path # <<>>
    BY <2>3, <2>7, EmptySeq
  <2> QED BY <2>4, <2>6, <2>7, <2>8 DEF PlainPath
<1> QED BY <1>1, <1>2

\* A path of plain names is what its text is split into.
LEMMA SplitUndoesJoin ==
  ASSUME NEW path \in PlainPath
  PROVE  SplitPath(JoinPath(path)) = path
<1>1. PICK n, text : n = Len(path) /\ text = JoinPath(path)
  OBVIOUS
<1>2. /\ path \in Seq(Name) /\ path # <<>> /\ n \in Nat /\ DOMAIN path = 1 .. n
      /\ path = [i \in 1 .. n |-> path[i]]
      /\ \A k \in 1 .. n : path[k] \in Seq(Texts) /\ Len(path[k]) = 1
  BY <1>1, LenProperties, ElementOfSeq DEF PlainPath, Name
<1>3. path \in Seq(Seq(Texts))
  BY <1>2, IsASeq
<1>4. text = FlattenSeq(path)
  BY <1>1, <1>2 DEF JoinPath
<1>5. /\ text \in Seq(Texts) /\ Len(text) = n
      /\ \A i \in 1 .. n : text[i] = path[i][1]
  <2>1. \A i \in 1 .. Len(path) : Len(path[i]) = 1
    BY <1>1, <1>2
  <2>2. 1 \in {1, 2}
    OBVIOUS
  <2> QED BY <1>1, <1>3, <1>4, <2>1, <2>2, FlattenBlocks
<1>6. text # None /\ DOMAIN text = 1 .. n
  BY <1>5, LenProperties, FilesAssumption
<1>7. SplitPath(text) = [i \in 1 .. n |-> <<text[i]>>]
  BY <1>6 DEF SplitPath
<1>8. ASSUME NEW i \in 1 .. n PROVE <<text[i]>> = path[i]
  <2>1. PICK name \in Seq(Texts) : name = path[i] /\ Len(name) = 1
    BY <1>2
  <2>2. name = <<name[1]>>
    BY <2>1
  <2> QED BY <1>5, <2>1, <2>2
<1> QED BY <1>1, <1>2, <1>7, <1>8

-----------------------------------------------------------------------------
(* What is rebuilt from the tables *)

\* The files of a torrent as they come out of the tables.
StoredFiles(info) ==
  [i \in DOMAIN FileRows(info) |-> [FileRows(info)[i] EXCEPT !.path = SplitPath(@)]]

\* The forms an info dictionary has once it was rebuilt: one hash, no source, and
\* a file or else any other number of files with plain paths.
Rebuilt(info) ==
  /\ info \in Info /\ info.source = None
  /\ info.pieces = None <=> info.root_hash # None
  /\ \/ info.length # None /\ info.files = None
     \/ /\ info.length = None /\ info.md5sum = None /\ info.path = None
        /\ info.files # None /\ Len(info.files) # 1
        /\ \A i \in 1 .. Len(info.files) : info.files[i].path \in PlainPath

\* Of these the ones that stay the same: a file has no path.
Settled(info) == Rebuilt(info) /\ info.path = None

LEMMA FilesOutOfTables ==
  ASSUME NEW info \in Info, info.length # None \/ info.files # None
  PROVE  /\ StoredFiles(info) \in Seq(FileEntry)
         /\ \A i \in 1 .. Len(StoredFiles(info)) : StoredFiles(info)[i].path \in PlainPath
         /\ info.length # None =>
              /\ Len(StoredFiles(info)) = 1
              /\ StoredFiles(info)[1].path = SplitPath(None)
              /\ StoredFiles(info)[1].length = info.length
              /\ StoredFiles(info)[1].md5sum = info.md5sum
         /\ info.length = None =>
              /\ Len(StoredFiles(info)) = Len(info.files)
              /\ (\A i \in 1 .. Len(info.files) : info.files[i].path \in PlainPath) =>
                   StoredFiles(info) = info.files
<1>1. PICK files : files = StoredFiles(info)
  OBVIOUS
<1>2. CASE info.length # None
  <2>1. PICK path : path = SplitPath(None)
    OBVIOUS
  <2>2. path \in PlainPath /\ path \in Seq(Name)
    BY <2>1, SplitIsPlain DEF PlainPath
  <2>3. PICK entry, length, md5sum :
          /\ length = info.length /\ md5sum = info.md5sum
          /\ entry = [path |-> path, length |-> length, md5sum |-> md5sum]
    OBVIOUS
  <2>4. entry \in FileEntry
    <3>1. length \in Nat /\ md5sum \in {None} \union Texts
      BY <1>2, <2>3 DEF Info
    <3> QED BY <2>2, <2>3, <3>1 DEF FileEntry
  <2>5. FileRows(info) = <<[path |-> None, length |-> length, md5sum |-> md5sum]>>
    BY <1>2, <2>3 DEF FileRows
  <2>6. files = <<entry>>
    <3>1. PICK one : one = [path |-> None, length |-> length, md5sum |-> md5sum]
      OBVIOUS
    <3>2. [one EXCEPT !.path = SplitPath(@)] = entry
      BY <2>1, <2>3, <3>1
    <3>3. FileRows(info) = <<one>>
      BY <2>5, <3>1
    <3>4. files = [i \in DOMAIN <<one>> |-> [<<one>>[i] EXCEPT !.path = SplitPath(@)]]
      BY <1>1, <3>3 DEF StoredFiles
    <3>5. DOMAIN <<one>> = {1} /\ <<one>>[1] = one
      OBVIOUS
    <3>6. files = [i \in {1} |-> entry]
      BY <3>2, <3>4, <3>5
    <3>7. <<entry>> = [i \in {1} |-> entry]
      OBVIOUS
    <3> QED BY <3>6, <3>7
  <2>7. files \in Seq(FileEntry) /\ Len(files) = 1 /\ files[1] = entry
    BY <2>4, <2>6
  <2>8. \A i \in 1 .. Len(files) : files[i].path \in PlainPath
    BY <2>2, <2>3, <2>7
  <2> QED BY <1>1, <1>2, <2>1, <2>3, <2>7, <2>8
<1>3. CASE info.length = None
  <2>1. PICK old, n : old = info.files /\ n = Len(old)
    OBVIOUS
  <2>2. old \in Seq(FileEntry)
    BY <1>3, <2>1 DEF Info
  <2>3. /\ n \in Nat /\ DOMAIN old = 1 .. n /\ \A i \in 1 .. n : old[i] \in FileEntry
        /\ old = [i \in 1 .. n |-> old[i]]
    BY <2>1, <2>2, LenProperties, ElementOfSeq
  <2> DEFINE At(i) == [old[i] EXCEPT !.path = SplitPath(JoinPath(old[i].path))]
  <2>4. files = [i \in 1 .. n |-> At(i)]
    <3>1. PICK rows : rows = FileRows(info)
      OBVIOUS
    <3>2. rows = [i \in 1 .. n |-> [old[i] EXCEPT !.path = JoinPath(old[i].path)]]
      BY <1>3, <2>1, <2>3, <3>1 DEF FileRows
    <3>3. files = [i \in 1 .. n |-> [rows[i] EXCEPT !.path = SplitPath(@)]]
      BY <1>1, <3>1, <3>2 DEF StoredFiles
    <3>4. ASSUME NEW i \in 1 .. n PROVE [rows[i] EXCEPT !.path = SplitPath(@)] = At(i)
      <4>1. PICK entry \in FileEntry : entry = old[i]
        BY <2>3
      <4>2. PICK text, path : text = JoinPath(entry.path) /\ path = SplitPath(text)
        OBVIOUS
      <4>3. rows[i] = [entry EXCEPT !.path = text] /\ At(i) = [entry EXCEPT !.path = path]
        BY <3>2, <4>1, <4>2
      <4>4. [entry EXCEPT !.path = text].path = text
        BY DEF FileEntry
      <4>5. [rows[i] EXCEPT !.path = SplitPath(@)] = [entry EXCEPT !.path = path]
        <5>1. PICK stored : stored = [entry EXCEPT !.path = text]
          OBVIOUS
        <5>2. [stored EXCEPT !.path = path] = [entry EXCEPT !.path = path] /\ stored.path = text
          BY <5>1 DEF FileEntry
        <5> QED BY <4>2, <4>3, <5>1, <5>2
      <4> QED BY <4>3, <4>5
    <3> HIDE DEF At
    <3> QED BY <3>3, <3>4
  <2>5. ASSUME NEW i \in 1 .. n
        PROVE  /\ At(i) \in FileEntry /\ At(i).path \in PlainPath
               /\ old[i].path \in PlainPath => At(i) = old[i]
    <3>1. PICK entry \in FileEntry : entry = old[i]
      BY <2>3
    <3>2. PICK path : path = SplitPath(JoinPath(entry.path))
      OBVIOUS
    <3>3. entry.path \in Seq(Name)
      BY DEF FileEntry
    <3>4. path \in PlainPath
      BY <3>2, <3>3, JoinedIsText, SplitIsPlain
    <3>5. At(i) = [entry EXCEPT !.path = path]
      BY <3>1, <3>2
    <3>6. [entry EXCEPT !.path = path] \in FileEntry /\ [entry EXCEPT !.path = path].path = path
      BY <3>4 DEF FileEntry, PlainPath
    <3>7. entry.path \in PlainPath => [entry EXCEPT !.path = path] = entry
      <4>1. entry.path \in PlainPath => path = entry.path
        BY <3>2, SplitUndoesJoin
      <4>2. [entry EXCEPT !.path = entry.path] = entry
        BY DEF FileEntry
      <4> QED BY <4>1, <4>2
    <3> HIDE DEF At
    <3> QED BY <3>1, <3>4, <3>5, <3>6, <3>7
  <2> HIDE DEF At
  <2>6. files \in Seq(FileEntry) /\ Len(files) = n /\ \A i \in 1 .. n : files[i] = At(i)
    <3>1. [i \in 1 .. n |-> At(i)] \in Seq(FileEntry)
      BY <2>3, <2>5, IsASeq
    <3> QED BY <2>3, <2>4, <3>1
  <2>7. ASSUME \A i \in 1 .. n : old[i].path \in PlainPath PROVE files = old
    <3>1. \A i \in 1 .. n : At(i) = old[i]
      BY <2>5, <2>7
    <3> QED BY <2>3, <2>4, <3>1
  <2> QED BY <1>1, <1>3, <2>1, <2>5, <2>6, <2>7
<1> QED BY <1>2, <1>3

\* What is made of columns and files has one of those forms.
LEMMA InfoWithIsRebuilt ==
  ASSUME NEW private \in {None} \union Nat, NEW rootHash \in BOOLEAN,
         NEW digits \in Seq(Digit), NEW files \in Seq(FileEntry),
         \A i \in 1 .. Len(files) : files[i].path \in PlainPath
  PROVE  /\ Rebuilt(InfoWith(private, rootHash, digits, files))
         /\ InfoWith(private, rootHash, digits, files).path # None =>
              Len(files) = 1 /\ files[1].path # SplitPath(None)
<1>1. PICK info : info = InfoWith(private, rootHash, digits, files)
  OBVIOUS
<1>2. PICK bytes \in Seq(Byte) : bytes = IntoBytes(digits)
  BY DigitsMakeBytes
<1>3. None \notin Seq(Digit)
  <2>1. Digit \subseteq Byte
    BY DEF Digit, Byte
  <2>2. \A s \in Seq(Digit) : s \in Seq(Byte)
    BY <2>1, SeqMonotonic
  <2> QED BY <2>2, FilesAssumption
<1>4. PICK hashes : hashes = [pieces |-> IF rootHash THEN None ELSE bytes,
                              root_hash |-> IF rootHash THEN digits ELSE None]
  OBVIOUS
<1>5. /\ hashes.pieces \in {None} \union Seq(Byte)
      /\ hashes.root_hash \in {None} \union Seq(Digit)
      /\ hashes.pieces = None <=> hashes.root_hash # None
  BY <1>3, <1>4, FilesAssumption
<1>6. CASE Len(files) = 1
  <2>1. PICK entry \in FileEntry : entry = files[1] /\ entry.path \in PlainPath
    BY <1>6, ElementOfSeq
  <2>2. PICK length \in Nat, md5sum \in {None} \union Texts :
          length = entry.length /\ md5sum = entry.md5sum
    BY DEF FileEntry
  <2>3. PICK path : path = IF Head(entry.path) = <<Empty>> THEN None ELSE entry.path
    OBVIOUS
  <2>4. path \in {None} \union Seq(Name)
    BY <2>1, <2>3 DEF PlainPath
  <2>5. info = [pieces |-> hashes.pieces, root_hash |-> hashes.root_hash, private |-> private,
                length |-> length, md5sum |-> md5sum, path |-> path, files |-> None,
                source |-> None]
    BY <1>1, <1>2, <1>4, <1>6, <2>1, <2>2, <2>3 DEF InfoWith
  <2>6. info \in Info
    BY <1>5, <2>4, <2>5 DEF Info
  <2>7. length # None
    BY FilesAssumption
  <2>8. Rebuilt(info)
    BY <1>5, <2>5, <2>6, <2>7 DEF Rebuilt
  <2>9. entry.path = SplitPath(None) => path = None
    <3>1. PICK name : name = <<Empty>>
      OBVIOUS
    <3>2. SplitPath(None) = <<name>> /\ Head(<<name>>) = name
      BY <3>1 DEF SplitPath
    <3> QED BY <2>3, <3>1, <3>2
  <2> QED BY <1>1, <1>6, <2>1, <2>5, <2>8, <2>9
<1>7. CASE Len(files) # 1
  <2>1. info = [pieces |-> hashes.pieces, root_hash |-> hashes.root_hash, private |-> private,
                length |-> None, md5sum |-> None, path |-> None, files |-> files,
                source |-> None]
    BY <1>1, <1>2, <1>4, <1>7 DEF InfoWith
  <2>2. info \in Info
    BY <1>5, <2>1 DEF Info
  <2>3. files # None
    BY FilesAssumption
  <2>4. Rebuilt(info)
    BY <1>5, <1>7, <2>1, <2>2, <2>3 DEF Rebuilt
  <2> QED BY <1>1, <2>1, <2>4
<1> QED BY <1>6, <1>7

\* What an index rebuilds of a torrent it stored.
RebuiltInfo(torrent) == FromDatabase(RowsOf(Customized(torrent))).info

LEMMA RebuiltFromRows ==
  ASSUME NEW torrent \in TorrentFile, Accepted(torrent),
         NEW info, info = torrent.info
  PROVE  /\ info \in Info /\ (info.length # None \/ info.files # None)
         /\ \E digits \in Seq(Digit) :
              /\ info.pieces # None => digits = FromBytes(info.pieces)
              /\ info.pieces = None => digits = info.root_hash
              /\ RebuiltInfo(torrent) =
                   InfoWith(info.private, info.pieces = None, digits, StoredFiles(info))
<1>1. info \in Info /\ (info.length # None \/ info.files # None)
  BY DEF Accepted, TorrentFile
<1>2. Customized(torrent).info = info
  BY DEF Customized, TorrentFile
<1>3. PICK rows : rows = RowsOf(Customized(torrent))
  OBVIOUS
<1>4. PICK digits : digits = IF info.pieces # None THEN FromBytes(info.pieces) ELSE info.root_hash
  OBVIOUS
<1>5. digits \in Seq(Digit)
  <2>1. CASE info.pieces # None
    <3>1. info.pieces \in Seq(Byte)
      BY <1>1, <2>1 DEF Info
    <3> QED BY <1>4, <2>1, <3>1, DigitsMakeTheSameBytes
  <2>2. CASE info.pieces = None
    <3>1. info.root_hash # None
      BY <2>2 DEF Accepted
    <3> QED BY <1>1, <1>4, <2>2, <3>1 DEF Info
  <2> QED BY <2>1, <2>2
<1>6. /\ rows.private = info.private /\ rows.root_hash = (info.pieces = None)
      /\ rows.pieces = digits /\ rows.files = FileRows(info)
  BY <1>2, <1>3, <1>4 DEF RowsOf
<1>7. RebuiltInfo(torrent) =
        InfoWith(rows.private, rows.root_hash, rows.pieces,
                 [i \in DOMAIN rows.files |-> [rows.files[i] EXCEPT !.path = SplitPath(@)]])
  BY <1>3 DEF RebuiltInfo, FromDatabase
<1>8. [i \in DOMAIN rows.files |-> [rows.files[i] EXCEPT !.path = SplitPath(@)]]
        = StoredFiles(info)
  BY <1>6 DEF StoredFiles
<1>9. RebuiltInfo(torrent) =
        InfoWith(info.private, info.pieces = None, digits, StoredFiles(info))
  BY <1>6, <1>7, <1>8
<1> QED BY <1>1, <1>4, <1>5, <1>9

\* Every download has one of the rebuilt forms, and it has a path only if the
\* upload was a list of one file.
LEMMA DownloadsAreRebuilt ==
  ASSUME NEW torrent \in TorrentFile, Accepted(torrent)
  PROVE  /\ Rebuilt(RebuiltInfo(torrent))
         /\ RebuiltInfo(torrent).path # None =>
              torrent.info.length = None /\ Len(torrent.info.files) = 1
<1>1. PICK info : info = torrent.info
  OBVIOUS
<1>2. info \in Info /\ (info.length # None \/ info.files # None)
  BY <1>1, RebuiltFromRows
<1>3. PICK digits \in Seq(Digit) :
        RebuiltInfo(torrent) =
          InfoWith(info.private, info.pieces = None, digits, StoredFiles(info))
  BY <1>1, RebuiltFromRows
<1>4. PICK files : files = StoredFiles(info)
  OBVIOUS
<1>5. /\ files \in Seq(FileEntry)
      /\ \A i \in 1 .. Len(files) : files[i].path \in PlainPath
      /\ info.length # None => files[1].path = SplitPath(None)
      /\ info.length = None => Len(files) = Len(info.files)
  BY <1>2, <1>4, FilesOutOfTables
<1>6. PICK private \in {None} \union Nat, rootHash \in BOOLEAN :
        private = info.private /\ rootHash = (info.pieces = None)
  BY <1>2 DEF Info
<1>7. PICK new : new = InfoWith(private, rootHash, digits, files)
  OBVIOUS
<1>8. Rebuilt(new) /\ (new.path # None => Len(files) = 1 /\ files[1].path # SplitPath(None))
  BY <1>5, <1>7, InfoWithIsRebuilt
<1>9. new = RebuiltInfo(torrent)
  BY <1>3, <1>4, <1>6, <1>7
<1> QED BY <1>1, <1>5, <1>8, <1>9

\* A settled dictionary comes out of the tables as it went in.
LEMMA SettledStays ==
  ASSUME NEW torrent \in TorrentFile, Accepted(torrent), Settled(torrent.info)
  PROVE  RebuiltInfo(torrent) = torrent.info
<1>1. PICK info : info = torrent.info
  OBVIOUS
<1>2. info \in Info /\ (info.length # None \/ info.files # None)
  BY <1>1, RebuiltFromRows
<1>3. PICK digits \in Seq(Digit) :
        /\ info.pieces # None => digits = FromBytes(info.pieces)
        /\ info.pieces = None => digits = info.root_hash
        /\ RebuiltInfo(torrent) =
             InfoWith(info.private, info.pieces = None, digits, StoredFiles(info))
  BY <1>1, RebuiltFromRows
<1>4. PICK files : files = StoredFiles(info)
  OBVIOUS
<1>5. PICK new : new = InfoWith(info.private, info.pieces = None, digits, files)
  OBVIOUS
<1>6. /\ info.source = None /\ info.path = None
      /\ info.pieces = None <=> info.root_hash # None
      /\ info.length = None <=> info.files # None
      /\ info.length = None =>
           /\ info.md5sum = None /\ Len(info.files) # 1
           /\ \A i \in 1 .. Len(info.files) : info.files[i].path \in PlainPath
  BY <1>1 DEF Settled, Rebuilt
<1>7. info.pieces # None => IntoBytes(digits) = info.pieces
  <2>1. info.pieces # None => info.pieces \in Seq(Byte)
    BY <1>2 DEF Info
  <2> QED BY <1>3, <2>1, DigitsMakeTheSameBytes
<1>8. PICK pieces, root :
        /\ pieces = info.pieces /\ root = info.root_hash
        /\ pieces = IF info.pieces = None THEN None ELSE IntoBytes(digits)
        /\ root = IF info.pieces = None THEN digits ELSE None
  BY <1>3, <1>6, <1>7
<1>9. CASE info.length # None
  <2>1. /\ Len(files) = 1 /\ files[1].path = SplitPath(None)
        /\ files[1].length = info.length /\ files[1].md5sum = info.md5sum
    BY <1>2, <1>4, <1>9, FilesOutOfTables
  <2>2. Head(files[1].path) = <<Empty>>
    <3>1. PICK name : name = <<Empty>>
      OBVIOUS
    <3>2. files[1].path = <<name>> /\ Head(<<name>>) = name
      BY <2>1, <3>1 DEF SplitPath
    <3> QED BY <3>1, <3>2
  <2>3. new = [pieces |-> pieces, root_hash |-> root, private |-> info.private,
               length |-> info.length, md5sum |-> info.md5sum, path |-> None, files |-> None,
               source |-> None]
    BY <1>5, <1>8, <2>1, <2>2 DEF InfoWith
  <2>4. info = [pieces |-> pieces, root_hash |-> root, private |-> info.private,
                length |-> info.length, md5sum |-> info.md5sum, path |-> info.path,
                files |-> info.files, source |-> info.source]
    BY <1>2, <1>8 DEF Info
  <2> QED BY <1>1, <1>3, <1>4, <1>5, <1>6, <1>9, <2>3, <2>4
<1>10. CASE info.length = None
  <2>1. files = info.files /\ Len(files) # 1
    BY <1>2, <1>4, <1>6, <1>10, FilesOutOfTables
  <2>2. new = [pieces |-> pieces, root_hash |-> root, private |-> info.private,
               length |-> None, md5sum |-> None, path |-> None, files |-> files,
               source |-> None]
    BY <1>5, <1>8, <2>1 DEF InfoWith
  <2>3. info = [pieces |-> pieces, root_hash |-> root, private |-> info.private,
                length |-> info.length, md5sum |-> info.md5sum, path |-> info.path,
                files |-> info.files, source |-> info.source]
    BY <1>2, <1>8 DEF Info
  <2> QED BY <1>1, <1>3, <1>4, <1>5, <1>6, <1>10, <2>1, <2>2, <2>3
<1> QED BY <1>9, <1>10

LEMMA PlainIsSettled ==
  ASSUME NEW torrent \in TorrentFile, Accepted(torrent), Plain(torrent)
  PROVE  Settled(torrent.info)
<1>1. PICK info : info = torrent.info
  OBVIOUS
<1>2. info \in Info
  BY <1>1 DEF TorrentFile
<1>3. /\ info.source = None /\ info.path = None
      /\ info.pieces = None \/ info.root_hash = None
      /\ info.pieces # None \/ info.root_hash # None
      /\ info.length # None \/ info.files # None
      /\ info.files # None => Len(info.files) # 1
  BY <1>1 DEF Plain, Standard, Accepted
<1>4. CASE info.length # None /\ info.files = None
  BY <1>1, <1>2, <1>3, <1>4 DEF Settled, Rebuilt
<1>5. CASE ~(info.length # None /\ info.files = None)
  <2>1. /\ info.length = None /\ info.md5sum = None
        /\ \A i \in DOMAIN info.files :
             LET path == info.files[i].path
             IN /\ path # <<>>
                /\ \A k \in DOMAIN path : Len(path[k]) = 1 /\ path[k] # <<Empty>>
    BY <1>1, <1>5 DEF Plain, Standard
  <2>2. PICK files : files = info.files
    OBVIOUS
  <2>3. files # None /\ files \in Seq(FileEntry)
    BY <1>2, <1>3, <2>1, <2>2 DEF Info
  <2>4. ASSUME NEW i \in 1 .. Len(files) PROVE files[i].path \in PlainPath
    <3>1. files[i] \in FileEntry /\ i \in DOMAIN files
      BY <2>3, ElementOfSeq, LenProperties
    <3>2. PICK path : path = files[i].path
      OBVIOUS
    <3>3. path # <<>> /\ \A k \in DOMAIN path : Len(path[k]) = 1
      BY <2>1, <2>2, <3>1, <3>2
    <3>4. path \in Seq(Name)
      BY <3>1, <3>2 DEF FileEntry
    <3> QED BY <3>2, <3>3, <3>4 DEF PlainPath
  <2> QED BY <1>1, <1>2, <1>3, <2>1, <2>2, <2>3, <2>4 DEF Settled, Rebuilt
<1> QED BY <1>4, <1>5

-----------------------------------------------------------------------------
(* Trackers *)

\* The announce URLs of an upload, the index's when it names no other or is private.
TrackersOf(torrent) ==
  IF IsPrivate(torrent) \/ torrent.announce_list = None
  THEN {IndexUrl}
  ELSE ToSet(FlattenSeq(torrent.announce_list))

LEMMA StoredTrackers ==
  ASSUME NEW torrent \in TorrentFile
  PROVE  /\ RowsOf(Customized(torrent)).urls \in Seq(Texts)
         /\ ToSet(RowsOf(Customized(torrent)).urls) = TrackersOf(torrent)
<1>1. PICK customized : customized = Customized(torrent)
  OBVIOUS
<1>2. /\ customized.announce = IndexUrl
      /\ customized.announce_list =
           IF IsPrivate(torrent) THEN None ELSE torrent.announce_list
  BY <1>1 DEF Customized, TorrentFile
<1>3. PICK urls : urls = RowsOf(customized).urls
  OBVIOUS
<1>4. urls = AnnounceRows(customized)
  BY <1>3 DEF RowsOf
<1>5. CASE IsPrivate(torrent) \/ torrent.announce_list = None
  <2>1. urls = <<IndexUrl>>
    BY <1>2, <1>4, <1>5 DEF AnnounceRows
  <2>2. IndexUrl \in Texts
    BY FilesAssumption
  <2> QED BY <1>1, <1>3, <1>5, <2>1, <2>2, OneElement DEF TrackersOf
<1>6. CASE ~(IsPrivate(torrent) \/ torrent.announce_list = None)
  <2>1. PICK tiers \in Seq(Seq(Texts)) : tiers = torrent.announce_list
    BY <1>6 DEF TorrentFile
  <2>2. urls = FlattenSeq(tiers)
    BY <1>2, <1>4, <1>6, <2>1 DEF AnnounceRows
  <2> QED BY <1>1, <1>3, <1>6, <2>1, <2>2, FlattenElements DEF TrackersOf
<1> QED BY <1>5, <1>6

\* The tiers of a download are the URL and, in tiers of their own, the others.
TiersOf(urls, url) ==
  <<<<url>>>> \o Without([i \in DOMAIN urls |-> Without(<<urls[i]>>, url)], <<>>)

FirstIsTheTracker(list, urls, url) ==
  /\ list \in Seq(Seq(Texts)) /\ Len(list) # 0 /\ list[1] = <<url>>
  /\ \A i \in 2 .. Len(list) :
       list[i] # <<>> /\ ToSet(list[i]) \subseteq ToSet(urls) \ {url}
  /\ \A x \in ToSet(urls) \ {url} : \E i \in 2 .. Len(list) : x \in ToSet(list[i])

LEMMA TiersOfDownloads ==
  ASSUME NEW urls \in Seq(Texts), NEW url \in Texts
  PROVE  FirstIsTheTracker(TiersOf(urls, url), urls, url)
<1> SUFFICES ASSUME NEW list, list = TiersOf(urls, url)
             PROVE  FirstIsTheTracker(list, urls, url)
  OBVIOUS
<1>1. PICK n : n = Len(urls)
  OBVIOUS
<1>2. n \in Nat /\ DOMAIN urls = 1 .. n /\ \A i \in 1 .. n : urls[i] \in Texts
  BY <1>1, LenProperties, ElementOfSeq
<1>3. PICK others : others = [i \in 1 .. n |-> Without(<<urls[i]>>, url)]
  OBVIOUS
<1>5. ASSUME NEW i \in 1 .. n
      PROVE  others[i] \in Seq(Texts) /\ ToSet(others[i]) = {urls[i]} \ {url}
  <2>1. PICK one : one = <<urls[i]>>
    OBVIOUS
  <2>2. one \in Seq(Texts) /\ ToSet(one) = {urls[i]}
    BY <1>2, <2>1, OneElement
  <2>3. others[i] = Without(one, url)
    BY <1>3, <2>1
  <2> QED BY <2>2, <2>3, WithoutKeepsTheRest
<1>6. others \in Seq(Seq(Texts)) /\ DOMAIN others = 1 .. n
  <2>1. others = [i \in 1 .. n |-> others[i]]
    BY <1>3
  <2> QED BY <1>2, <1>3, <1>5, <2>1, IsASeq
<1>7. PICK rest : rest = Without(others, <<>>)
  OBVIOUS
<1>8. rest \in Seq(Seq(Texts)) /\ ToSet(rest) = ToSet(others) \ {<<>>}
  BY <1>6, <1>7, WithoutKeepsTheRest
<1>9. PICK first : first = <<url>>
  OBVIOUS
<1>10. first \in Seq(Texts) /\ <<first>> \in Seq(Seq(Texts)) /\ Len(<<first>>) = 1
  BY <1>9, OneElement
<1>11. list = <<first>> \o rest
  <2>1. others = [i \in DOMAIN urls |-> Without(<<urls[i]>>, url)]
    BY <1>2, <1>3
  <2> QED BY <1>7, <1>9, <2>1 DEF TiersOf
<1>12. Len(rest) \in Nat /\ DOMAIN rest = 1 .. Len(rest)
  BY <1>8, LenProperties
<1>13. /\ list \in Seq(Seq(Texts)) /\ Len(list) = 1 + Len(rest)
       /\ \A i \in 1 .. 1 + Len(rest) : list[i] = IF i <= 1 THEN <<first>>[i] ELSE rest[i - 1]
  <2>1. PICK front \in Seq(Seq(Texts)) : front = <<first>>
    BY <1>10
  <2>2. list = front \o rest /\ Len(front) = 1
    BY <1>10, <1>11, <2>1
  <2>3. /\ list \in Seq(Seq(Texts)) /\ Len(list) = Len(front) + Len(rest)
        /\ \A i \in 1 .. Len(front) + Len(rest) :
             list[i] = IF i <= Len(front) THEN front[i] ELSE rest[i - Len(front)]
    BY <1>8, <2>2, ConcatProperties, ZenonT(30)
  <2> QED BY <2>1, <2>2, <2>3
<1>14. list[1] = first
  <2>1. 1 \in 1 .. 1 + Len(rest) /\ <<first>>[1] = first
    BY <1>12
  <2> QED BY <1>13, <2>1
<1>15. \A i \in 2 .. Len(list) : i - 1 \in DOMAIN rest /\ list[i] = rest[i - 1]
  <2> SUFFICES ASSUME NEW i \in 2 .. Len(list)
               PROVE  i - 1 \in DOMAIN rest /\ list[i] = rest[i - 1]
    OBVIOUS
  <2>1. i \in 1 .. 1 + Len(rest) /\ ~(i <= 1) /\ i - 1 \in 1 .. Len(rest)
    BY <1>12, <1>13
  <2> QED BY <1>12, <1>13, <2>1
<1>16. ASSUME NEW i \in 2 .. Len(list)
       PROVE  list[i] # <<>> /\ ToSet(list[i]) \subseteq ToSet(urls) \ {url}
  <2>1. list[i] \in ToSet(rest)
    BY <1>15 DEF ToSet
  <2>2. PICK j \in 1 .. n : list[i] = others[j] /\ list[i] # <<>>
    BY <1>6, <1>8, <2>1 DEF ToSet
  <2>3. urls[j] \in ToSet(urls)
    BY <1>2 DEF ToSet
  <2> QED BY <1>5, <2>2, <2>3
<1>17. ASSUME NEW x \in ToSet(urls) \ {url}
       PROVE  \E i \in 2 .. Len(list) : x \in ToSet(list[i])
  <2>1. PICK j \in 1 .. n : urls[j] = x
    BY <1>2 DEF ToSet
  <2>2. x \in ToSet(others[j]) /\ others[j] \in ToSet(others)
    BY <1>5, <1>6, <2>1 DEF ToSet
  <2>3. others[j] # <<>>
    BY <2>2, EmptySeq DEF ToSet
  <2>4. PICK k \in DOMAIN rest : rest[k] = others[j]
    <3>1. others[j] \in ToSet(rest)
      BY <1>8, <2>2, <2>3
    <3> QED BY <3>1 DEF ToSet
  <2>5. k + 1 \in 2 .. Len(list) /\ (k + 1) - 1 = k
    BY <1>12, <1>13
  <2>6. list[k + 1] = rest[k]
    BY <1>15, <2>5
  <2> QED BY <2>2, <2>4, <2>5, <2>6
<1>18. list \in Seq(Seq(Texts)) /\ Len(list) # 0 /\ list[1] = <<url>>
  BY <1>9, <1>12, <1>13, <1>14
<1> QED BY <1>16, <1>17, <1>18 DEF FirstIsTheTracker

DownloadOf(torrent, url) ==
  IncludeUrlAsMainTracker(FromDatabase(RowsOf(Customized(torrent))), url)

LEMMA TrackersOfDownloads ==
  ASSUME NEW torrent \in TorrentFile, NEW url \in MainUrls
  PROVE  LET download == DownloadOf(torrent, url)
             list == download.announce_list
             all == FlattenSeq(list)
         IN /\ download.info = RebuiltInfo(torrent) /\ download.announce = url
            /\ Rebuilt(RebuiltInfo(torrent)) => download \in TorrentFile
            /\ list # <<>> /\ list[1] = <<url>>
            /\ \A i \in DOMAIN list : list[i] # <<>>
            /\ \A i \in DOMAIN all : all[i] = url => i = 1
            /\ ToSet(all) = TrackersOf(torrent) \union {url}
<1>0. PICK download : download = DownloadOf(torrent, url)
  OBVIOUS
<1>1. PICK rebuilt : rebuilt = FromDatabase(RowsOf(Customized(torrent)))
  OBVIOUS
<1>2. PICK urls : urls = RowsOf(Customized(torrent)).urls
  OBVIOUS
<1>3. urls \in Seq(Texts) /\ ToSet(urls) = TrackersOf(torrent)
  BY <1>2, StoredTrackers
<1>4. PICK info, tiers :
        /\ info = RebuiltInfo(torrent)
        /\ tiers = [i \in DOMAIN urls |-> <<urls[i]>>]
        /\ rebuilt = [info |-> info, extra |-> FALSE, announce |-> None, announce_list |-> tiers]
  BY <1>1, <1>2 DEF FromDatabase, RebuiltInfo
<1>5. PICK list : list = TiersOf(urls, url)
  OBVIOUS
<1>6. download = [rebuilt EXCEPT !.announce = url, !.announce_list = list]
  <2>1. DOMAIN tiers = DOMAIN urls /\ \A i \in DOMAIN urls : tiers[i] = <<urls[i]>>
    BY <1>4
  <2>2. rebuilt.announce_list = tiers
    BY <1>4
  <2>3. list = <<<<url>>>> \o Without([i \in DOMAIN tiers |-> Without(tiers[i], url)], <<>>)
    BY <1>5, <2>1 DEF TiersOf
  <2> QED BY <1>0, <1>1, <2>2, <2>3 DEF DownloadOf, IncludeUrlAsMainTracker
<1>7. download = [info |-> info, extra |-> FALSE, announce |-> url, announce_list |-> list]
  BY <1>4, <1>6
<1>8. url \in Texts
  BY FilesAssumption
<1>9. /\ list \in Seq(Seq(Texts)) /\ Len(list) # 0 /\ list[1] = <<url>>
      /\ \A i \in 2 .. Len(list) :
           list[i] # <<>> /\ ToSet(list[i]) \subseteq ToSet(urls) \ {url}
      /\ \A x \in ToSet(urls) \ {url} : \E i \in 2 .. Len(list) : x \in ToSet(list[i])
  <2>1. urls \in Seq(Texts) /\ url \in Texts
    BY <1>3, <1>8
  <2>2. FirstIsTheTracker(list, urls, url)
    BY <1>5, <2>1, TiersOfDownloads
  <2> QED BY <2>2 DEF FirstIsTheTracker
<1>10. Rebuilt(info) => download \in TorrentFile
  BY <1>7, <1>8, <1>9 DEF TorrentFile, Rebuilt
<1>11. PICK n, first, all : n = Len(list) /\ first = list[1] /\ all = FlattenSeq(list)
  OBVIOUS
<1>12. /\ n \in Nat /\ DOMAIN list = 1 .. n
       /\ first = <<url>> /\ Len(first) = 1 /\ first[1] = url /\ ToSet(first) = {url} /\ first # <<>>
  BY <1>8, <1>9, <1>11, LenProperties, OneElement
<1>13. /\ all \in Seq(Texts)
       /\ \A k \in 1 .. Len(all) : k > 1 => \E i \in 2 .. n : all[k] \in ToSet(list[i])
  BY <1>9, <1>11, <1>12, FlattenParts
<1>14. ToSet(all) = UNION {ToSet(list[i]) : i \in 1 .. n}
  BY <1>9, <1>11, FlattenElements
<1>15. DOMAIN all = 1 .. Len(all) /\ Len(all) \in Nat
  BY <1>13, LenProperties
<1>16. ASSUME NEW k \in DOMAIN all, all[k] = url PROVE k = 1
  <2>1. CASE k > 1
    BY <1>9, <1>11, <1>13, <1>15, <1>16, <2>1
  <2> QED BY <1>15, <2>1
<1>17. \A i \in DOMAIN list : list[i] # <<>>
  <2>1. \A i \in 1 .. n : i = 1 \/ i \in 2 .. n
    BY <1>12
  <2> QED BY <1>9, <1>11, <1>12, <2>1
<1>18. ToSet(all) = ToSet(urls) \union {url}
  <2>1. \A i \in 1 .. n : i = 1 \/ i \in 2 .. n
    BY <1>12
  <2>2. 1 \in 1 .. n /\ \A i \in 2 .. n : i \in 1 .. n
    BY <1>9, <1>11, <1>12
  <2>3. ToSet(list[1]) = {url} /\ \A i \in 2 .. n : ToSet(list[i]) \subseteq ToSet(urls) \ {url}
    BY <1>9, <1>11, <1>12
  <2>4. \A x \in ToSet(urls) \ {url} : \E i \in 2 .. n : x \in ToSet(list[i])
    BY <1>9, <1>11
  <2>5. ASSUME NEW x PROVE x \in ToSet(all) <=> x \in ToSet(urls) \union {url}
    <3>1. x \in ToSet(all) <=> \E i \in 1 .. n : x \in ToSet(list[i])
      BY <1>14
    <3> QED BY <2>1, <2>2, <2>3, <2>4, <3>1
  <2> QED BY <2>5
<1>19. list # <<>>
  BY <1>9, EmptySeq
<1>20. download.announce_list = list /\ download.info = RebuiltInfo(torrent) /\ download.announce = url
  BY <1>4, <1>7
<1> QED BY <1>0, <1>3, <1>4, <1>9, <1>10, <1>11, <1>16, <1>17, <1>18, <1>19, <1>20

-----------------------------------------------------------------------------
(* The way of a torrent file *)

\* After one trip through an index a file has a rebuilt form, after two a settled one.
FormAfter(n, info) == (n >= 1 => Rebuilt(info)) /\ (n >= 2 => Settled(info))

FilesTypeOK ==
  /\ file \in TorrentFile /\ trips \in Nat
  /\ row # None => uploaded \in [torrent : TorrentFile, trips : Nat]

\* The rows are those of an upload that was accepted.
RowsAreUploaded ==
  row # None =>
    /\ Accepted(uploaded.torrent)
    /\ row = RowsOf(Customized(uploaded.torrent))
    /\ FormAfter(uploaded.trips, uploaded.torrent.info)

FilesInv == FilesTypeOK /\ RowsAreUploaded /\ FormAfter(trips, file.info)

LEMMA FilesInvInit == FilesInit => FilesInv
<1> SUFFICES ASSUME FilesInit PROVE FilesInv
  OBVIOUS
<1>1. file \in TorrentFile /\ trips = 0 /\ row = None
  BY FilesAssumption DEF FilesInit
<1> QED BY <1>1 DEF FilesInv, FilesTypeOK, RowsAreUploaded, FormAfter

\* What is downloaded of the rows there are.
LEMMA DownloadsOfRows ==
  ASSUME FilesInv, row # None, NEW url \in MainUrls
  PROVE  /\ Downloaded(url) = DownloadOf(uploaded.torrent, url)
         /\ uploaded.torrent \in TorrentFile /\ Accepted(uploaded.torrent)
         /\ Downloaded(url) \in TorrentFile
         /\ Downloaded(url).info = RebuiltInfo(uploaded.torrent)
<1>1. /\ uploaded.torrent \in TorrentFile /\ Accepted(uploaded.torrent)
      /\ row = RowsOf(Customized(uploaded.torrent))
  BY DEF FilesInv, FilesTypeOK, RowsAreUploaded
<1>2. Downloaded(url) = DownloadOf(uploaded.torrent, url)
  BY <1>1 DEF Downloaded, DownloadOf
<1>3. Rebuilt(RebuiltInfo(uploaded.torrent))
  BY <1>1, DownloadsAreRebuilt
<1>4. PICK torrent, download :
        torrent = uploaded.torrent /\ download = DownloadOf(torrent, url)
  OBVIOUS
<1>5. download \in TorrentFile /\ download.info = RebuiltInfo(torrent)
  <2>1. torrent \in TorrentFile /\ Rebuilt(RebuiltInfo(torrent))
    BY <1>1, <1>3, <1>4
  <2> QED BY <1>4, <2>1, TrackersOfDownloads
<1> QED BY <1>1, <1>2, <1>4, <1>5

LEMMA FilesInvNext == FilesInv /\ [FilesNext]_fileVars => FilesInv'
<1> SUFFICES ASSUME FilesInv, [FilesNext]_fileVars PROVE FilesInv'
  OBVIOUS
<1>1. CASE Upload
  <2>1. PICK torrent, n : torrent = file /\ n = trips
    OBVIOUS
  <2>2. torrent \in TorrentFile /\ n \in Nat /\ Accepted(torrent) /\ FormAfter(n, torrent.info)
    BY <1>1, <2>1 DEF Upload, FilesInv, FilesTypeOK
  <2>3. /\ file' = torrent /\ trips' = n
        /\ row' = RowsOf(Customized(torrent))
        /\ uploaded' = [torrent |-> torrent, trips |-> n]
    BY <1>1, <2>1 DEF Upload
  <2>4. uploaded'.torrent = torrent /\ uploaded'.trips = n
        /\ uploaded' \in [torrent : TorrentFile, trips : Nat]
    BY <2>2, <2>3
  <2> QED BY <2>2, <2>3, <2>4 DEF FilesInv, FilesTypeOK, RowsAreUploaded
<1>2. ASSUME NEW url \in MainUrls, Download(url) PROVE FilesInv'
  <2>1. row # None /\ file' = Downloaded(url) /\ trips' = uploaded.trips + 1
        /\ row' = row /\ uploaded' = uploaded
    BY <1>2 DEF Download
  <2>2. PICK torrent, n, download :
          torrent = uploaded.torrent /\ n = uploaded.trips /\ download = Downloaded(url)
    OBVIOUS
  <2>3. /\ torrent \in TorrentFile /\ Accepted(torrent) /\ download \in TorrentFile
        /\ download.info = RebuiltInfo(torrent)
    BY <2>1, <2>2, DownloadsOfRows
  <2>4. n \in Nat /\ FormAfter(n, torrent.info)
    BY <2>1, <2>2 DEF FilesInv, FilesTypeOK, RowsAreUploaded
  <2>5. Rebuilt(download.info)
    BY <2>3, DownloadsAreRebuilt
  <2>6. ASSUME n >= 1 PROVE Settled(download.info)
    <3>1. Rebuilt(torrent.info)
      BY <2>4, <2>6 DEF FormAfter
    <3>2. ~(torrent.info.length = None /\ Len(torrent.info.files) = 1)
      BY <3>1 DEF Rebuilt
    <3>3. download.info.path = None
      BY <2>3, <3>2, DownloadsAreRebuilt
    <3> QED BY <2>5, <3>3 DEF Settled
  <2>7. FormAfter(n + 1, download.info)
    BY <2>4, <2>5, <2>6 DEF FormAfter
  <2>8. FilesTypeOK'
    BY <2>1, <2>2, <2>3, <2>4 DEF FilesInv, FilesTypeOK
  <2>9. RowsAreUploaded'
    BY <2>1 DEF FilesInv, RowsAreUploaded
  <2>10. FormAfter(trips, file.info)'
    <3>1. trips' = n + 1 /\ file' = download
      BY <2>1, <2>2
    <3> QED BY <2>7, <3>1
  <2> QED BY <2>8, <2>9, <2>10 DEF FilesInv
<1>3. CASE UNCHANGED fileVars
  BY <1>3 DEF FilesInv, FilesTypeOK, RowsAreUploaded, fileVars
<1> QED BY <1>1, <1>2, <1>3 DEF FilesNext

LEMMA PlainKeeps == FilesInv => PlainTorrentsKeepTheirHash
<1> SUFFICES ASSUME FilesInv, row # None, Plain(uploaded.torrent), NEW url \in MainUrls
             PROVE  /\ Downloaded(url).info = uploaded.torrent.info
                    /\ Downloaded(url).info = row.info_hash
                    /\ FileSize(Downloaded(url).info) = row.size
  BY DEF PlainTorrentsKeepTheirHash
<1>1. PICK torrent, info : torrent = uploaded.torrent /\ info = torrent.info
  OBVIOUS
<1>2. torrent \in TorrentFile /\ Accepted(torrent) /\ Downloaded(url).info = RebuiltInfo(torrent)
  BY <1>1, DownloadsOfRows
<1>3. Settled(info)
  BY <1>1, <1>2, PlainIsSettled
<1>4. Downloaded(url).info = info
  BY <1>1, <1>2, <1>3, SettledStays
<1>5. row = RowsOf(Customized(torrent))
  BY <1>1 DEF FilesInv, RowsAreUploaded
<1>6. Customized(torrent).info = info
  BY <1>1, <1>2 DEF Customized, TorrentFile
<1>7. row.info_hash = info /\ row.size = FileSize(info)
  BY <1>5, <1>6 DEF RowsOf, CanonicalInfoHash
<1> QED BY <1>1, <1>4, <1>7

LEMMA TwoTripsSettle == FilesInv => SettlesInTwoTrips
<1> SUFFICES ASSUME FilesInv, row # None, uploaded.trips >= 2, NEW url \in MainUrls
             PROVE  Downloaded(url).info = uploaded.torrent.info
  BY DEF SettlesInTwoTrips
<1>1. Settled(uploaded.torrent.info)
  BY DEF FilesInv, RowsAreUploaded, FormAfter
<1>2. /\ uploaded.torrent \in TorrentFile /\ Accepted(uploaded.torrent)
      /\ Downloaded(url).info = RebuiltInfo(uploaded.torrent)
  BY DownloadsOfRows
<1> QED BY <1>1, <1>2, SettledStays

LEMMA DownloadsKeepTrackers == FilesInv => TrackersAreKept
<1> SUFFICES ASSUME FilesInv, row # None, NEW url \in MainUrls
             PROVE  LET list == Downloaded(url).announce_list
                        all == FlattenSeq(list)
                    IN /\ Downloaded(url).announce = url
                       /\ list # <<>> /\ list[1] = <<url>>
                       /\ \A i \in DOMAIN list : list[i] # <<>>
                       /\ \A i \in DOMAIN all : all[i] = url => i = 1
                       /\ ToSet(all) = TrackersOf(uploaded.torrent) \union {url}
  BY DEF TrackersAreKept, TrackersOf
<1>1. PICK torrent, download :
        torrent = uploaded.torrent /\ download = DownloadOf(torrent, url)
  OBVIOUS
<1>2. torrent \in TorrentFile /\ Downloaded(url) = download
  BY <1>1, DownloadsOfRows
<1>3. PICK list, all : list = download.announce_list /\ all = FlattenSeq(list)
  OBVIOUS
<1>4. /\ download.announce = url
      /\ list # <<>> /\ list[1] = <<url>>
      /\ \A i \in DOMAIN list : list[i] # <<>>
      /\ \A i \in DOMAIN all : all[i] = url => i = 1
      /\ ToSet(all) = TrackersOf(torrent) \union {url}
  BY <1>1, <1>2, <1>3, TrackersOfDownloads
<1> QED BY <1>1, <1>2, <1>3, <1>4

\* Whoever downloads a plain torrent has the info-hash that was uploaded, after any
\* number of trips through indexes: what insert_torrent_and_get_id spreads over the
\* tables, from_database puts together again (torrent_file.rs:73-97, 228-282).
THEOREM PlainHashesSurvive == FilesSpec => []PlainTorrentsKeepTheirHash
<1> QED BY FilesInvInit, FilesInvNext, PlainKeeps, PTL DEF FilesSpec

\* Any torrent that is accepted, plain or not, has the hash of its second download
\* for good (torrent_file.rs:73-97, 228-282).
THEOREM HashesSettle == FilesSpec => []SettlesInTwoTrips
<1> QED BY FilesInvInit, FilesInvNext, TwoTripsSettle, PTL DEF FilesSpec

\* Every download has its tracker in front and nowhere else, and the other trackers of
\* the upload behind it, each in a tier of its own (torrent_file.rs:100-132).
THEOREM NoTrackerIsLost == FilesSpec => []TrackersAreKept
<1> QED BY FilesInvInit, FilesInvNext, DownloadsKeepTrackers, PTL DEF FilesSpec

-----------------------------------------------------------------------------
(* The draft of an upload: bytes that are written *)

BufferOf(bytes) == IF bytes = <<>> THEN <<0>> ELSE bytes

\* The bytes are in the buffer of a draft, and its cursor is behind them.
Buffered(d, bytes) ==
  /\ {"buffer", "position"} \subseteq DOMAIN d
  /\ d.buffer = BufferOf(bytes) /\ d.position = Len(bytes)

Holding(d, bytes) == [d EXCEPT !.buffer = BufferOf(bytes), !.position = Len(bytes)]

\* To hold other bytes changes nothing else of a draft.
LEMMA HoldingIsBuffered ==
  ASSUME NEW d, {"buffer", "position"} \subseteq DOMAIN d, NEW bytes
  PROVE  /\ Buffered(Holding(d, bytes), bytes)
         /\ DOMAIN Holding(d, bytes) = DOMAIN d
         /\ \A name \in DOMAIN d \ {"buffer", "position"} : Holding(d, bytes)[name] = d[name]
         /\ \A more : Holding(Holding(d, bytes), more) = Holding(d, more)
BY DEF Buffered, Holding

\* A chunk that is written is appended to the bytes of the draft; the byte that was
\* there before any is overwritten by the first.
LEMMA WriteAppends ==
  ASSUME NEW h, NEW b \in Seq(Bytes), NEW c \in Seq(Bytes), Buffered(h, b)
  PROVE  Write(h, c) = Holding(h, b \o c)
<1>1. PICK m, n, bc : m = Len(b) /\ n = Len(c) /\ bc = b \o c
  OBVIOUS
<1>2. /\ m \in Nat /\ n \in Nat /\ DOMAIN bc = 1 .. m + n /\ Len(bc) = m + n
      /\ b \in [1 .. m -> Bytes] /\ c \in [1 .. n -> Bytes] /\ bc \in [1 .. m + n -> Bytes]
      /\ \A i \in 1 .. m + n : bc[i] = IF i <= m THEN b[i] ELSE c[i - m]
  <2>1. /\ bc \in Seq(Bytes) /\ Len(bc) = m + n
        /\ \A i \in 1 .. m + n : bc[i] = IF i <= m THEN b[i] ELSE c[i - m]
    BY <1>1, ConcatProperties
  <2>2. m \in Nat /\ b \in [1 .. m -> Bytes]
    BY <1>1, LenProperties
  <2>3. n \in Nat /\ c \in [1 .. n -> Bytes]
    BY <1>1, LenProperties
  <2>4. DOMAIN bc = 1 .. m + n /\ bc \in [1 .. m + n -> Bytes]
    BY <2>1, LenProperties
  <2> QED BY <2>1, <2>2, <2>3, <2>4
<1>4. h.buffer = BufferOf(b) /\ h.position = m
  BY <1>1 DEF Buffered
<1>5. PICK buffer : buffer = [i \in 1 .. IF m + n > Len(h.buffer) THEN m + n ELSE Len(h.buffer) |->
                                IF i \in m + 1 .. m + n THEN c[i - m] ELSE h.buffer[i]]
  OBVIOUS
<1>6. Write(h, c) = [h EXCEPT !.buffer = buffer, !.position = m + n]
  BY <1>1, <1>4, <1>5 DEF Write
<1>7. buffer = BufferOf(bc)
  <2>1. CASE m = 0 /\ n = 0
    <3>1. b = <<>> /\ c = <<>> /\ bc = <<>>
      BY <1>1, <1>2, <2>1, EmptySeq, ConcatProperties
    <3>2. h.buffer = <<0>> /\ Len(h.buffer) = 1 /\ BufferOf(bc) = <<0>>
      BY <1>4, <3>1 DEF BufferOf
    <3>3. buffer = [i \in 1 .. 1 |-> <<0>>[i]]
      BY <1>5, <2>1, <3>2
    <3> QED BY <3>2, <3>3
  <2>2. CASE m = 0 /\ n # 0
    <3>1. b = <<>> /\ bc # <<>>
      BY <1>1, <1>2, <2>2, EmptySeq
    <3>2. h.buffer = <<0>> /\ Len(h.buffer) = 1 /\ BufferOf(bc) = bc
      BY <1>4, <3>1 DEF BufferOf
    <3>3. buffer = [i \in 1 .. n |-> c[i]]
      BY <1>2, <1>5, <2>2, <3>2
    <3>4. bc = [i \in 1 .. n |-> c[i]]
      BY <1>2, <2>2
    <3> QED BY <3>2, <3>3, <3>4
  <2>3. CASE m # 0
    <3>1. b # <<>> /\ bc # <<>>
      BY <1>1, <1>2, <2>3, EmptySeq
    <3>2. h.buffer = b /\ Len(h.buffer) = m /\ BufferOf(bc) = bc
      BY <1>1, <1>4, <3>1 DEF BufferOf
    <3>3. buffer = [i \in 1 .. m + n |-> IF i \in m + 1 .. m + n THEN c[i - m] ELSE b[i]]
      <4>1. (IF m + n > Len(h.buffer) THEN m + n ELSE Len(h.buffer)) = m + n
        BY <1>2, <3>2
      <4> QED BY <1>5, <3>2, <4>1
    <3>4. bc = [i \in 1 .. m + n |-> bc[i]]
      BY <1>2
    <3>5. \A i \in 1 .. m + n : bc[i] = IF i \in m + 1 .. m + n THEN c[i - m] ELSE b[i]
      BY <1>2
    <3> QED BY <3>2, <3>3, <3>4, <3>5
  <2> QED BY <2>1, <2>2, <2>3
<1>8. Len(bc) = m + n
  BY <1>2
<1> QED BY <1>1, <1>6, <1>7, <1>8 DEF Holding

\* All the chunks of a file, one behind the other.
LEMMA AllIsWritten ==
  ASSUME NEW d, NEW b \in Seq(Bytes), NEW chunks \in Seq(Seq(Bytes)), Buffered(d, b)
  PROVE  /\ b \o FlattenSeq(chunks) \in Seq(Bytes)
         /\ Buffered(WriteAll(d, chunks), b \o FlattenSeq(chunks))
         /\ DOMAIN WriteAll(d, chunks) = DOMAIN d
         /\ \A name \in DOMAIN d \ {"buffer", "position"} :
              WriteAll(d, chunks)[name] = d[name]
<1>1. PICK n : n = Len(chunks)
  OBVIOUS
<1>2. n \in Nat /\ \A i \in 1 .. n : chunks[i] \in Seq(Bytes)
  BY <1>1, LenProperties, ElementOfSeq
<1> DEFINE F(w) == [k \in 0 .. n |-> IF k = 0 THEN d ELSE Write(w[k - 1], chunks[k])]
           it == CHOOSE w : w = F(w)
<1>3. WriteAll(d, chunks) = it[n]
  BY <1>1 DEF WriteAll
<1>4. CASE n = 0
  <2>1. chunks = <<>> /\ FlattenSeq(chunks) = <<>>
    <3>1. chunks = <<>>
      BY <1>1, <1>4, EmptySeq
    <3> QED BY <3>1, EmptySeq DEF FlattenSeq
  <2>2. \E w : w = F(w)
    <3>1. [k \in 0 .. 0 |-> d] = F([k \in 0 .. 0 |-> d])
      BY <1>4
    <3> HIDE DEF F
    <3> QED BY <3>1
  <2>3. it = F(it)
    <3> HIDE DEF F
    <3> QED BY <2>2
  <2>4. it[0] = d
    <3> HIDE DEF it
    <3> QED BY <1>4, <2>3
  <2> HIDE DEF it
  <2>5. b \o FlattenSeq(chunks) = b
    BY <2>1, ConcatEmptySeq
  <2> QED BY <1>1, <1>3, <1>4, <2>4, <2>5
<1>5. CASE n # 0
  <2>1. PICK f \in [1 .. n -> Seq(Bytes)] :
          /\ FlattenSeq(chunks) = f[n] /\ f[1] = chunks[1]
          /\ \A i \in 1 .. n - 1 : f[i + 1] = f[i] \o chunks[i + 1]
    <3>1. Len(chunks) # 0
      BY <1>1, <1>5
    <3> QED BY ONLY <1>1, <3>1, FlattenStepByStep
  <2> DEFINE so == [k \in 0 .. n |-> IF k = 0 THEN b ELSE b \o f[k]]
             W == [k \in 0 .. n |-> IF k = 0 THEN d ELSE Holding(d, so[k])]
  <2>2. so[0] = b /\ \A k \in 1 .. n : so[k] = b \o f[k]
    BY <1>2
  <2>3. \A k \in 0 .. n : so[k] \in Seq(Bytes)
    <3> SUFFICES ASSUME NEW k \in 0 .. n PROVE so[k] \in Seq(Bytes)
      OBVIOUS
    <3>1. CASE k = 0
      BY <2>2, <3>1
    <3>2. CASE k # 0
      <4>1. k \in 1 .. n
        BY <1>2, <3>2
      <4>2. f[k] \in Seq(Bytes)
        BY <4>1
      <4> HIDE DEF so
      <4> QED BY <2>2, <4>1, <4>2, ConcatProperties
    <3> QED BY <3>1, <3>2
  <2>4. \A k \in 1 .. n : so[k] = so[k - 1] \o chunks[k]
    <3> SUFFICES ASSUME NEW k \in 1 .. n PROVE so[k] = so[k - 1] \o chunks[k]
      OBVIOUS
    <3>1. CASE k = 1
      <4>1. k - 1 = 0 /\ f[k] = chunks[k]
        BY <2>1, <3>1
      <4> HIDE DEF so
      <4> QED BY <2>2, <4>1
    <3>2. CASE k # 1
      <4>1. k - 1 \in 1 .. n - 1 /\ k - 1 \in 1 .. n /\ (k - 1) + 1 = k
        BY <1>2, <3>2
      <4>2. PICK u, v, x : u = f[k - 1] /\ v = chunks[k] /\ x = f[k]
        OBVIOUS
      <4>3. u \in Seq(Bytes) /\ v \in Seq(Bytes) /\ x = u \o v
        BY <1>2, <2>1, <4>1, <4>2
      <4>4. (b \o u) \o v = b \o (u \o v)
        BY ONLY <4>3, ConcatAssociative
      <4>5. so[k] = b \o x /\ so[k - 1] = b \o u
        <5> HIDE DEF so
        <5> QED BY <2>2, <4>1, <4>2
      <4> HIDE DEF so
      <4> QED BY ONLY <4>2, <4>3, <4>4, <4>5
    <3> QED BY <3>1, <3>2
  <2> HIDE DEF so
  <2>5. W = F(W)
    <3>1. ASSUME NEW k \in 1 .. n PROVE W[k] = Write(W[k - 1], chunks[k])
      <4>1. k \in 0 .. n /\ k - 1 \in 0 .. n
        BY <1>2
      <4>2. PICK w : w = W[k - 1]
        OBVIOUS
      <4>3. so[k - 1] \in Seq(Bytes) /\ chunks[k] \in Seq(Bytes)
        BY <1>2, <2>3, <4>1
      <4>4. W[k] = Holding(d, so[k])
        BY <4>1
      <4>5. Buffered(w, so[k - 1]) /\ \A more : Holding(w, more) = Holding(d, more)
        <5>1. CASE k = 1
          <6>1. k - 1 = 0 /\ W[0] = d
            BY <4>1, <5>1
          <6> HIDE DEF W
          <6> QED BY <2>2, <4>2, <6>1
        <5>2. CASE k # 1
          <6>1. k - 1 # 0 /\ W[k - 1] = Holding(d, so[k - 1])
            BY <4>1, <5>2
          <6>2. {"buffer", "position"} \subseteq DOMAIN d
            BY DEF Buffered
          <6> HIDE DEF W
          <6> QED BY <4>2, <6>1, <6>2, HoldingIsBuffered
        <5> QED BY <5>1, <5>2
      <4>6. Write(w, chunks[k]) = Holding(w, so[k - 1] \o chunks[k])
        BY <4>3, <4>5, WriteAppends
      <4> HIDE DEF W
      <4> QED BY <2>4, <4>2, <4>4, <4>5, <4>6
    <3>2. W[0] = d
      BY <1>2
    <3>3. W = [k \in 0 .. n |-> W[k]]
      OBVIOUS
    <3>4. \A k \in 0 .. n : W[k] = IF k = 0 THEN d ELSE Write(W[k - 1], chunks[k])
      <4> HIDE DEF W
      <4> QED BY <1>2, <3>1, <3>2
    <3> HIDE DEF W
    <3> QED BY <3>3, <3>4
  <2>6. it = F(it)
    <3> HIDE DEF F, W
    <3> QED BY <2>5
  <2> HIDE DEF it
  <2>7. it[0] = d /\ \A k \in 1 .. n : it[k] = Write(it[k - 1], chunks[k])
    BY <1>2, <2>6
  <2> DEFINE P == {k \in Nat : k <= n => it[k] = W[k]}
  <2>8. W[0] = d /\ \A k \in 1 .. n : W[k] = Write(W[k - 1], chunks[k])
    <3> HIDE DEF W
    <3> QED BY <1>2, <2>5
  <2> HIDE DEF F, W
  <2>9. 0 \in P
    BY <2>7, <2>8
  <2>10. ASSUME NEW k \in P, k < n PROVE k + 1 \in P
    <3>1. k + 1 \in 1 .. n /\ (k + 1) - 1 = k /\ it[k] = W[k]
      BY <1>2, <2>10
    <3>2. it[k + 1] = W[k + 1]
      BY <2>7, <2>8, <3>1
    <3> QED BY <3>2
  <2>11. n \in 0 .. n /\ 0 .. n \subseteq P
    <3>1. P \in SUBSET Nat /\ n \in 0 .. n
      BY <1>2
    <3> HIDE DEF P
    <3> QED BY <1>2, <2>9, <2>10, <3>1, InductionFromZero
  <2>12. it[n] = W[n]
    BY <2>11
  <2>13. W[n] = Holding(d, so[n]) /\ so[n] \in Seq(Bytes) /\ so[n] = b \o FlattenSeq(chunks)
    <3>1. n \in 1 .. n
      BY <1>2, <1>5
    <3>2. n # 0 /\ n \in 0 .. n
      BY <2>11, <3>1
    <3>3. \A k \in 0 .. n : W[k] = IF k = 0 THEN d ELSE Holding(d, so[k])
      BY DEF W
    <3> HIDE DEF W
    <3> QED BY <2>1, <2>2, <2>3, <3>1, <3>2, <3>3
  <2>14. {"buffer", "position"} \subseteq DOMAIN d
    BY DEF Buffered
  <2> QED BY <1>3, <2>12, <2>13, <2>14, HoldingIsBuffered
<1> QED BY <1>2, <1>4, <1>5

-----------------------------------------------------------------------------
(* What the fields of a form say *)

SaysSo(field, name) == field.name = name /\ field.data # <<>>

LEMMA NothingSaid == ASSUME NEW fields, NEW name PROVE SaidUpTo(fields, 0, name) = <<>>
BY DEF SaidUpTo

\* A field of another name, or one without a value, says nothing.
LEMMA NothingNewSaid ==
  ASSUME NEW fields, NEW n \in Nat, NEW name, ~SaysSo(fields[n + 1], name)
  PROVE  SaidUpTo(fields, n + 1, name) = SaidUpTo(fields, n, name)
<1>1. {i \in 1 .. n + 1 : fields[i].name = name /\ fields[i].data # <<>>}
        = {i \in 1 .. n : fields[i].name = name /\ fields[i].data # <<>>}
  BY DEF SaysSo
<1> QED BY <1>1 DEF SaidUpTo

\* What was said last is what counts.
LEMMA SaidLast ==
  ASSUME NEW fields, NEW n \in Nat, NEW name, SaysSo(fields[n + 1], name)
  PROVE  SaidUpTo(fields, n + 1, name)
           = IF name = "tags" THEN TagLists[fields[n + 1].data] ELSE fields[n + 1].data
<1> DEFINE said == {i \in 1 .. n + 1 : fields[i].name = name /\ fields[i].data # <<>>}
           i0 == Max(said)
<1>1. n + 1 \in said /\ \A j \in said : j <= n + 1 /\ j \in Nat
  BY DEF SaysSo
<1>2. i0 \in said /\ \A j \in said : j <= i0
  <2> HIDE DEF said
  <2> QED BY <1>1 DEF Max
<1>3. i0 = n + 1
  <2> HIDE DEF i0, said
  <2> QED BY <1>1, <1>2
<1>4. SaidUpTo(fields, n + 1, name)
        = IF said = {} THEN <<>>
          ELSE IF name = "tags" THEN TagLists[fields[i0].data] ELSE fields[i0].data
  BY DEF SaidUpTo
<1> HIDE DEF i0, said
<1> QED BY <1>1, <1>3, <1>4

\* The bytes of a field, none unless it is a file.
FileOf(field) == IF field.name = "torrent" THEN FlattenSeq(field.chunks) ELSE <<>>

\* A field that was read without an error.
WasRead(field) ==
  /\ field.name \in TextFields /\ field.data # <<>> => TextError(field) = Nothing
  /\ field.name = "torrent" =>
       /\ field.type \in {"application/x-bittorrent", "application/octet-stream"}
       /\ field.chunks \in Seq(Seq(Bytes))

LEMMA FileIsBytes ==
  ASSUME NEW field, WasRead(field)
  PROVE  FileOf(field) \in Seq(Bytes)
BY FlattenElements, EmptySeq DEF FileOf, WasRead

LEMMA NoBytes == ASSUME NEW fields PROVE BytesUpTo(fields, 0) = <<>>
<1>1. [i \in 1 .. 0 |-> FileOf(fields[i])] = <<>>
  OBVIOUS
<1> QED BY <1>1, EmptySeq DEF BytesUpTo, FlattenSeq, FileOf

LEMMA BytesGrow ==
  ASSUME NEW fields, NEW n \in Nat, \A i \in 1 .. n + 1 : WasRead(fields[i])
  PROVE  BytesUpTo(fields, n + 1) = BytesUpTo(fields, n) \o FileOf(fields[n + 1])
<1> DEFINE ss == [i \in 1 .. n + 1 |-> FileOf(fields[i])]
           tt == [i \in 1 .. n |-> FileOf(fields[i])]
<1>1. \A i \in 1 .. n + 1 : FileOf(fields[i]) \in Seq(Bytes)
  BY FileIsBytes
<1>2. ss \in Seq(Seq(Bytes)) /\ Len(ss) = n + 1 /\ ss[n + 1] = FileOf(fields[n + 1])
  BY <1>1
<1>3. tt \in Seq(Seq(Bytes)) /\ Len(tt) = n /\ \A i \in 1 .. n : tt[i] = ss[i]
  BY <1>1
<1>4. BytesUpTo(fields, n + 1) = FlattenSeq(ss) /\ BytesUpTo(fields, n) = FlattenSeq(tt)
  BY DEF BytesUpTo, FileOf
<1> HIDE DEF ss, tt
<1>5. FlattenSeq(ss) = FlattenSeq(tt) \o ss[n + 1]
  BY ONLY <1>2, <1>3, FlattenGrows
<1> QED BY <1>2, <1>4, <1>5

-----------------------------------------------------------------------------
(* Reading a form *)

\* The draft is what the first n fields say.
IsDraft(d, fields, n) ==
  /\ DOMAIN d = TextFields \union {"buffer", "position"}
  /\ \A name \in TextFields : d[name] = SaidUpTo(fields, n, name)
  /\ BytesUpTo(fields, n) \in Seq(Bytes)
  /\ Buffered(d, BytesUpTo(fields, n))

LEMMA FieldIsRead ==
  ASSUME NEW fields, NEW n \in Nat, NEW d, IsDraft(d, fields, n),
         \A i \in 1 .. n : WasRead(fields[i]), NEW field, field = fields[n + 1], WasRead(field),
         NEW e, DOMAIN e = DOMAIN d,
         \A name \in TextFields :
           e[name] = IF SaysSo(field, name)
                     THEN (IF name = "tags" THEN TagLists[field.data] ELSE field.data)
                     ELSE d[name],
         Buffered(e, BytesUpTo(fields, n) \o FileOf(field))
  PROVE  IsDraft(e, fields, n + 1) /\ \A i \in 1 .. n + 1 : WasRead(fields[i])
<1>1. \A i \in 1 .. n + 1 : WasRead(fields[i])
  <2>1. \A i \in 1 .. n + 1 : i \in 1 .. n \/ i = n + 1
    OBVIOUS
  <2> QED BY <2>1
<1>2. ASSUME NEW name \in TextFields PROVE e[name] = SaidUpTo(fields, n + 1, name)
  <2>1. CASE SaysSo(field, name)
    BY <2>1, SaidLast
  <2>2. CASE ~SaysSo(field, name)
    <3>1. SaidUpTo(fields, n + 1, name) = SaidUpTo(fields, n, name)
      BY <2>2, NothingNewSaid
    <3>2. e[name] = d[name]
      BY <2>2
    <3> QED BY <3>1, <3>2 DEF IsDraft
  <2> QED BY <2>1, <2>2
<1>3. BytesUpTo(fields, n + 1) = BytesUpTo(fields, n) \o FileOf(field)
  BY <1>1, BytesGrow
<1>4. BytesUpTo(fields, n + 1) \in Seq(Bytes)
  <2>1. BytesUpTo(fields, n) \in Seq(Bytes)
    BY DEF IsDraft
  <2>2. FileOf(field) \in Seq(Bytes)
    BY FileIsBytes
  <2> QED BY <1>3, <2>1, <2>2, ConcatProperties
<1>5. Buffered(e, BytesUpTo(fields, n + 1)) /\ DOMAIN e = TextFields \union {"buffer", "position"}
  BY <1>3 DEF IsDraft
<1> QED BY <1>1, <1>2, <1>4, <1>5 DEF IsDraft

\* A field that is no file leaves the buffer as it was.
LEMMA NoFile ==
  ASSUME NEW fields, NEW n, NEW d, IsDraft(d, fields, n), NEW field, field.name # "torrent"
  PROVE  BytesUpTo(fields, n) \o FileOf(field) = BytesUpTo(fields, n)
BY ConcatEmptySeq DEF IsDraft, FileOf

\* While a form is read, what was read of it had no error and is in the draft.
DraftIsWhatWasRead ==
  at # Nothing =>
    /\ form \in Forms /\ at \in 0 .. Len(form)
    /\ reply = Nothing /\ before = shelf
    /\ header \notin {"none", "forged", "expired"}
    /\ IsDraft(draft, form, at)
    /\ \A i \in 1 .. at : WasRead(form[i])

\* The fields of a form are numbered.
LEMMA FormsAreSequences ==
  ASSUME NEW fields \in Forms
  PROVE  Len(fields) \in Nat /\ DOMAIN fields = 1 .. Len(fields)
<1>1. fields \in Seq(ToSet(fields))
  BY IntakeAssumption DEF IsForm
<1> QED BY <1>1, LenProperties

LEMMA NothingIsNoNumber == Nothing \notin Nat /\ Nothing \notin Seq(Bytes) /\ Nothing \notin Errors
                           /\ Nothing \notin Faults /\ Nothing # "chunk"
BY IntakeAssumption

\* One field was read: the draft is what was said until and with it.
LEMMA AfterOneField ==
  ASSUME DraftIsWhatWasRead, Reading, at' = at + 1, WasRead(Field),
         UNCHANGED <<header, form, shelf, before, reply>>, DOMAIN draft' = DOMAIN draft,
         \A name \in TextFields :
           draft'[name] = IF SaysSo(Field, name)
                          THEN (IF name = "tags" THEN TagLists[Field.data] ELSE Field.data)
                          ELSE draft[name],
         Buffered(draft', BytesUpTo(form, at) \o FileOf(Field))
  PROVE  DraftIsWhatWasRead'
<1>1. PICK fields, n, d, e, field :
        fields = form /\ n = at /\ d = draft /\ e = draft' /\ field = Field
  OBVIOUS
<1>2. /\ fields \in Forms /\ n \in 0 .. Len(fields) /\ n < Len(fields)
      /\ IsDraft(d, fields, n) /\ \A i \in 1 .. n : WasRead(fields[i])
      /\ reply = Nothing /\ before = shelf /\ header \notin {"none", "forged", "expired"}
  BY <1>1 DEF DraftIsWhatWasRead, Reading
<1>3. n \in Nat /\ n + 1 \in 0 .. Len(fields) /\ field = fields[n + 1]
  BY <1>1, <1>2, FormsAreSequences DEF Field
<1>4. IsDraft(e, fields, n + 1) /\ \A i \in 1 .. n + 1 : WasRead(fields[i])
  <2>1. WasRead(field) /\ DOMAIN e = DOMAIN d /\ Buffered(e, BytesUpTo(fields, n) \o FileOf(field))
    BY <1>1
  <2>2. \A name \in TextFields :
          e[name] = IF SaysSo(field, name)
                    THEN (IF name = "tags" THEN TagLists[field.data] ELSE field.data)
                    ELSE d[name]
    BY <1>1
  <2> QED BY <1>2, <1>3, <2>1, <2>2, FieldIsRead
<1>5. form' = fields /\ at' = n + 1 /\ draft' = e /\ reply' = reply /\ shelf' = shelf
      /\ before' = before /\ header' = header
  BY <1>1
<1> QED BY <1>2, <1>3, <1>4, <1>5 DEF DraftIsWhatWasRead

\* A text that was read replaces what its field had, an empty one does not.
LEMMA TextIsRead ==
  ASSUME DraftIsWhatWasRead, ReadText
  PROVE  DraftIsWhatWasRead'
<1>1. at # Nothing /\ IsDraft(draft, form, at) /\ Reading
  BY DEF ReadText, Reading, DraftIsWhatWasRead
<1> DEFINE error == IF Field.data = <<>> THEN Nothing ELSE TextError(Field)
<1>2. CASE error # Nothing
  BY <1>2 DEF ReadText, Answer, DraftIsWhatWasRead
<1>3. CASE error = Nothing
  <2>1. PICK field, value : field = Field /\ value = TextValue(Field)
    OBVIOUS
  <2>2. /\ field.name \in TextFields
        /\ draft' = [draft EXCEPT ![field.name] = value] /\ at' = at + 1
        /\ UNCHANGED <<header, form, shelf, before, reply>>
    BY <1>3, <2>1 DEF ReadText
  <2>3. field.name # "torrent"
    BY <2>2 DEF TextFields
  <2>4. WasRead(field)
    BY <1>3, <2>1, <2>3 DEF WasRead
  <2>5. DOMAIN draft = TextFields \union {"buffer", "position"}
    BY <1>1 DEF IsDraft
  <2>6. /\ DOMAIN draft' = DOMAIN draft
        /\ draft'.buffer = draft.buffer /\ draft'.position = draft.position
        /\ draft'[field.name] = value
        /\ \A name \in TextFields \ {field.name} : draft'[name] = draft[name]
    BY <2>2, <2>5 DEF TextFields
  <2>7. \A name \in TextFields :
          draft'[name] = IF SaysSo(field, name)
                         THEN (IF name = "tags" THEN TagLists[field.data] ELSE field.data)
                         ELSE draft[name]
    BY <2>1, <2>2, <2>6 DEF SaysSo, TextValue
  <2>8. Buffered(draft', BytesUpTo(form, at) \o FileOf(field))
    <3>1. BytesUpTo(form, at) \o FileOf(field) = BytesUpTo(form, at)
      BY <1>1, <2>3, NoFile
    <3>2. Buffered(draft, BytesUpTo(form, at))
      BY <1>1 DEF IsDraft
    <3> QED BY <2>6, <3>1, <3>2 DEF Buffered
  <2> QED BY <1>1, <2>1, <2>2, <2>4, <2>6, <2>7, <2>8, AfterOneField
<1> QED BY <1>2, <1>3

\* The chunks of a file are written behind the bytes of the files before it.
LEMMA TorrentIsRead ==
  ASSUME DraftIsWhatWasRead, ReadTorrent
  PROVE  DraftIsWhatWasRead'
<1>1. /\ at # Nothing /\ IsDraft(draft, form, at) /\ Reading /\ form \in Forms
      /\ at \in 0 .. Len(form) /\ at < Len(form)
  BY DEF ReadTorrent, Reading, DraftIsWhatWasRead
<1>2. CASE at' = Nothing
  BY <1>2 DEF DraftIsWhatWasRead
<1>3. CASE at' # Nothing
  <2>1. PICK field : field = Field
    OBVIOUS
  <2>2. /\ field.name = "torrent"
        /\ field.type \in {"application/x-bittorrent", "application/octet-stream"}
        /\ Lost \notin ToSet(field.chunks)
        /\ draft' = WriteAll(draft, field.chunks) /\ at' = at + 1
        /\ UNCHANGED <<header, form, shelf, before, reply>>
    BY <1>3, <2>1 DEF ReadTorrent, Answer
  <2>3. field.chunks \in Seq(Seq(Bytes))
    <3>1. at + 1 \in DOMAIN form
      BY <1>1, FormsAreSequences
    <3>2. field.chunks \in Seq({Lost} \union Seq(Bytes))
      BY <1>1, <2>1, <2>2, <3>1, IntakeAssumption DEF IsForm, Field
    <3>3. PICK chunks, k : chunks = field.chunks /\ k = Len(chunks)
      OBVIOUS
    <3>4. k \in Nat /\ chunks \in [1 .. k -> {Lost} \union Seq(Bytes)] /\ DOMAIN chunks = 1 .. k
      BY <3>2, <3>3, LenProperties
    <3>5. \A i \in 1 .. k : chunks[i] \in Seq(Bytes)
      BY <2>2, <3>3, <3>4 DEF ToSet
    <3> QED BY <3>3, <3>4, <3>5
  <2>4. WasRead(field)
    BY <2>2, <2>3 DEF WasRead, TextFields
  <2>5. BytesUpTo(form, at) \in Seq(Bytes) /\ Buffered(draft, BytesUpTo(form, at))
    BY <1>1 DEF IsDraft
  <2>6. /\ Buffered(draft', BytesUpTo(form, at) \o FlattenSeq(field.chunks))
        /\ DOMAIN draft' = DOMAIN draft
        /\ \A name \in DOMAIN draft \ {"buffer", "position"} : draft'[name] = draft[name]
    BY <2>2, <2>3, <2>5, AllIsWritten
  <2>7. Buffered(draft', BytesUpTo(form, at) \o FileOf(field))
    BY <2>2, <2>6 DEF FileOf
  <2>8. \A name \in TextFields :
          ~SaysSo(field, name) /\ name \in DOMAIN draft \ {"buffer", "position"}
    BY <1>1, <2>2 DEF SaysSo, TextFields, IsDraft
  <2>9. \A name \in TextFields :
          draft'[name] = IF SaysSo(field, name)
                         THEN (IF name = "tags" THEN TagLists[field.data] ELSE field.data)
                         ELSE draft[name]
    BY <2>6, <2>8
  <2> QED BY <1>1, <2>1, <2>2, <2>4, <2>6, <2>7, <2>9, AfterOneField
<1> QED BY <1>2, <1>3

\* A field that nobody asks for changes nothing.
LEMMA OtherIsSkipped ==
  ASSUME DraftIsWhatWasRead, SkipField
  PROVE  DraftIsWhatWasRead'
<1>1. PICK field : field = Field
  OBVIOUS
<1>2. /\ IsDraft(draft, form, at) /\ Reading /\ field.name \notin TextFields
      /\ field.name # "torrent" /\ at' = at + 1
      /\ UNCHANGED <<header, form, draft, shelf, reply, before>>
  BY <1>1 DEF SkipField, Reading, DraftIsWhatWasRead
<1>3. WasRead(field) /\ \A name \in TextFields : ~SaysSo(field, name)
  BY <1>2 DEF WasRead, SaysSo
<1>4. Buffered(draft', BytesUpTo(form, at) \o FileOf(field))
  <2>1. BytesUpTo(form, at) \o FileOf(field) = BytesUpTo(form, at)
    BY <1>2, NoFile
  <2> QED BY <1>2, <2>1 DEF IsDraft
<1> QED BY <1>1, <1>2, <1>3, <1>4, AfterOneField

-----------------------------------------------------------------------------
(* Refusals and their statuses *)

IsShelf(rows) ==
  /\ \A entry \in rows :
       /\ DOMAIN entry = {"title", "description", "category", "tags", "name", "canonical",
                        "originals"}
       /\ entry.originals # {}
       /\ \A hash \in entry.originals :
            \E b \in DOMAIN TorrentsOf : /\ TorrentsOf[b].original = hash
                                         /\ TorrentsOf[b].canonical = entry.canonical
  /\ \A q, r \in rows : q.canonical = r.canonical => q = r

FormWasSent == form \in Forms \/ form = <<>>

LEMMA FormHasLength == ASSUME FormWasSent PROVE Len(form) \in Nat /\ Len(form) # Nothing
                                                /\ DOMAIN form = 1 .. Len(form)
BY FormsAreSequences, NothingIsNoNumber, EmptySeq DEF FormWasSent

\* The whole form is in the draft.
LEMMA WholeFormIsRead ==
  ASSUME FormWasSent, DraftIsWhatWasRead, at = Len(form)
  PROVE  /\ \A name \in TextFields : draft[name] = LastSaid(name)
         /\ draft.title = LastSaid("title") /\ draft.category = LastSaid("category")
         /\ draft.description = LastSaid("description") /\ draft.tags = LastSaid("tags")
         /\ draft.buffer = BytesSent
         /\ \A i \in DOMAIN form : WasRead(form[i])
         /\ before = shelf /\ header \notin {"none", "forged", "expired"}
<1>1. /\ IsDraft(draft, form, Len(form)) /\ \A i \in 1 .. Len(form) : WasRead(form[i])
      /\ before = shelf /\ header \notin {"none", "forged", "expired"}
      /\ DOMAIN form = 1 .. Len(form)
  BY FormHasLength DEF DraftIsWhatWasRead
<1>2. \A name \in TextFields : draft[name] = LastSaid(name)
  BY <1>1 DEF IsDraft, LastSaid
<1>3. draft.buffer = BytesSent
  BY <1>1 DEF IsDraft, Buffered, BufferOf, BytesSent
<1> QED BY <1>1, <1>2, <1>3 DEF TextFields

\* The statuses of the errors that uploads have.
LEMMA Statuses ==
  /\ \A e \in {"MissingMandatoryMetadataFields", "InvalidCategory", "InvalidTorrentTitleLength",
               "InvalidTorrentFile", "InfoHashAlreadyExists", "CanonicalInfoHashAlreadyExists",
               "TorrentTitleAlreadyExists"} : ServiceStatus(e) = 400
  /\ ServiceStatus("UserNotFound") = 404 /\ ServiceStatus("LoggedInUserNotFound") = 401
  /\ \A e \in {"InternalServerError", "TrackerOffline", "TrackerResponseError",
               "InvalidTrackerToken", "TrackerUnknownResponse"} : ServiceStatus(e) \in {500, 503}
BY DEF ServiceStatus

\* What the tracker answers is never the fault of the sender.
LEMMA TrackerStatuses ==
  ASSUME NEW failed \in TrackerErrors
  PROVE  OfTracker(failed) \in {"TrackerOffline", "TrackerResponseError", "InvalidTrackerToken",
                                "TrackerUnknownResponse"}
BY DEF TrackerErrors, OfTracker

\* What the errors of the database become.
LEMMA DatabaseErrors ==
  /\ OfDatabase("UserNotFound") = "UserNotFound"
  /\ OfDatabase("Error") = "InternalServerError"
  /\ OfDatabase("ErrorWithText") = "InternalServerError"
  /\ OfDatabase("TorrentTitleAlreadyExists") = "TorrentTitleAlreadyExists"
BY DEF OfDatabase

\* The request breaks a rule that is checked before the insertion, or a title is taken.
RequestIsBad(d) ==
  \/ d.category \notin KnownCategories
  \/ MetadataError(d) # Nothing
  \/ DecodeError(d.buffer) # Nothing
  \/ DecodeError(d.buffer) = Nothing /\ GroupOf(TorrentsOf[d.buffer].canonical) # {}
  \/ d.title \in {entry.title : entry \in shelf}

\* The insertion breaks a key, or nothing can be inserted.
InsertionFails(d) ==
  /\ DecodeError(d.buffer) = Nothing
  /\ \/ ~TagsCanBeLinked(d.tags)
     \/ TorrentsOf[d.buffer].pieces = Nothing /\ ~TorrentsOf[d.buffer].root_hash

\* The insertion fails for what cannot be inserted, or for a title that is taken.
LEMMA InsertErrors ==
  ASSUME NEW d, NEW error, error = InsertError(d, TorrentsOf[d.buffer])
  PROVE  \/ /\ error \in {"Error", "ErrorWithText"}
            /\ \/ ~TagsCanBeLinked(d.tags)
               \/ TorrentsOf[d.buffer].pieces = Nothing /\ ~TorrentsOf[d.buffer].root_hash
         \/ error = "TorrentTitleAlreadyExists" /\ d.title \in {entry.title : entry \in shelf}
         \/ /\ error = Nothing
            /\ TagsCanBeLinked(d.tags) /\ d.title \notin {entry.title : entry \in shelf}
            /\ ~(TorrentsOf[d.buffer].pieces = Nothing /\ ~TorrentsOf[d.buffer].root_hash)
<1> PICK torrent : torrent = TorrentsOf[d.buffer]
  OBVIOUS
<1> PICK p, h, t, s : /\ p = torrent.pieces /\ h = torrent.root_hash /\ t \in BOOLEAN
                      /\ t = TagsCanBeLinked(d.tags) /\ s = {entry.title : entry \in shelf}
  BY DEF TagsCanBeLinked
<1> QED BY DEF InsertError

\* Conversions of errors keep the fault with the request.
LEMMA ErrorsAreSomething ==
  ASSUME NEW d
  PROVE  /\ MetadataError(d) # Nothing => OfMetadata(MetadataError(d)) \in
              {"MissingMandatoryMetadataFields", "InvalidTorrentTitleLength"}
         /\ OfDecoding(DecodeError(d.buffer)) \in
              {"InvalidTorrentTitleLength", "InvalidTorrentFile"}
         /\ DecodeError(d.buffer) = Nothing => d.buffer \in DOMAIN TorrentsOf
<1>1. Nothing # "InvalidInfoDictionary"
  BY NothingIsNoNumber DEF Errors
<1>2. MetadataError(d) \in {"MissingTorrentTitle", "InvalidTorrentTitleLength", Nothing}
  BY DEF MetadataError
<1> QED BY <1>1, <1>2 DEF OfMetadata, OfDecoding, DecodeError

\* An error of the request has a status below 500, one of the system or of a key of
\* the tables one from 500 on; a request without a fault is accepted if nothing fails.
FitsTheRequest(d, error, failed) ==
  \/ /\ error = Nothing /\ failed \in {Nothing, "association"}
     /\ ~RequestIsBad(d) /\ ~InsertionFails(d)
  \/ /\ error # Nothing /\ ServiceStatus(error) \in {400, 404}
     /\ RequestIsBad(d) \/ failed \in {"user", "category"}
     /\ error = "CanonicalInfoHashAlreadyExists" => d.buffer \in DOMAIN TorrentsOf
  \/ /\ error # Nothing /\ ServiceStatus(error) \in {500, 503}
     /\ InsertionFails(d) \/ failed # Nothing
     /\ error # "CanonicalInfoHashAlreadyExists"

\* Every refusal of an upload fits what is wrong with it: by the check that refuses it.
LEMMA RefusalsAreSorted ==
  ASSUME NEW failed \in Failures
  PROVE  FitsTheRequest(draft, Refusal(failed), failed)
<1>1. PICK d, error, torrent :
        d = draft /\ error = Refusal(failed) /\ torrent = TorrentsOf[d.buffer]
  OBVIOUS
<1>2. \A e \in {"UserNotFound", "MissingMandatoryMetadataFields", "InvalidCategory",
                "InvalidTorrentTitleLength", "InvalidTorrentFile", "InternalServerError",
                "InfoHashAlreadyExists", "CanonicalInfoHashAlreadyExists",
                "TorrentTitleAlreadyExists", "TrackerOffline", "TrackerResponseError",
                "InvalidTrackerToken", "TrackerUnknownResponse"} : e # Nothing
  BY NothingIsNoNumber DEF Errors
<1>3. /\ failed \in {Nothing, "user", "category", "group", "association", "insert"}
                      \union TrackerErrors
      /\ Nothing \notin {"user", "category", "group", "association", "insert"} \union TrackerErrors
  BY NothingIsNoNumber DEF Failures, Faults
<1>4. CASE failed = "user"
  <2>1. error = "UserNotFound"
    BY <1>1, <1>4, DatabaseErrors DEF Refusal
  <2> QED BY <1>1, <1>2, <1>4, <2>1, Statuses DEF FitsTheRequest
<1>5. CASE failed # "user" /\ d.category = <<>>
  <2>1. error = "MissingMandatoryMetadataFields"
    BY <1>1, <1>5 DEF Refusal
  <2>2. RequestIsBad(d)
    BY <1>5, IntakeAssumption DEF RequestIsBad
  <2> QED BY <1>1, <1>2, <2>1, <2>2, Statuses DEF FitsTheRequest
<1>6. CASE /\ failed # "user" /\ d.category # <<>>
           /\ failed = "category" \/ d.category \notin KnownCategories
  <2>1. error = "InvalidCategory"
    BY <1>1, <1>6 DEF Refusal
  <2>2. RequestIsBad(d) \/ failed = "category"
    BY <1>6 DEF RequestIsBad
  <2> QED BY <1>1, <1>2, <2>1, <2>2, Statuses DEF FitsTheRequest
<1> DEFINE known == /\ failed \notin {"user", "category"} /\ d.category # <<>>
                    /\ d.category \in KnownCategories
<1>7. CASE known /\ MetadataError(d) # Nothing
  <2>1. error = OfMetadata(MetadataError(d))
    BY <1>1, <1>7 DEF Refusal
  <2>2. RequestIsBad(d)
    BY <1>7 DEF RequestIsBad
  <2> QED BY <1>1, <1>2, <1>7, <2>1, <2>2, ErrorsAreSomething, Statuses DEF FitsTheRequest
<1>8. CASE known /\ MetadataError(d) = Nothing /\ DecodeError(d.buffer) # Nothing
  <2>1. error = OfDecoding(DecodeError(d.buffer))
    BY <1>1, <1>8 DEF Refusal
  <2>2. RequestIsBad(d)
    BY <1>8 DEF RequestIsBad
  <2> QED BY <1>1, <1>2, <1>8, <2>1, <2>2, ErrorsAreSomething, Statuses DEF FitsTheRequest
<1> DEFINE decoded == known /\ MetadataError(d) = Nothing /\ DecodeError(d.buffer) = Nothing
<1>9. CASE decoded /\ failed = "group"
  <2>1. error = "InternalServerError"
    BY <1>1, <1>9, DatabaseErrors DEF Refusal
  <2> QED BY <1>1, <1>2, <1>3, <1>9, <2>1, Statuses DEF FitsTheRequest
<1>10. CASE decoded /\ failed # "group" /\ GroupOf(torrent.canonical) # {}
  <2>1. \/ error \in {"InfoHashAlreadyExists", "CanonicalInfoHashAlreadyExists"}
        \/ error = "InternalServerError" /\ failed = "association"
    BY <1>1, <1>10, DatabaseErrors DEF Refusal
  <2>2. RequestIsBad(d) /\ d.buffer \in DOMAIN TorrentsOf
    BY <1>1, <1>10, ErrorsAreSomething DEF RequestIsBad
  <2> QED BY <1>1, <1>2, <1>3, <2>1, <2>2, Statuses DEF FitsTheRequest
<1> DEFINE new == decoded /\ failed # "group" /\ GroupOf(torrent.canonical) = {}
<1>11. CASE new /\ failed = "insert"
  <2>1. error = "InternalServerError"
    BY <1>1, <1>11, DatabaseErrors DEF Refusal
  <2> QED BY <1>1, <1>2, <1>3, <1>11, <2>1, Statuses DEF FitsTheRequest
<1>12. CASE new /\ failed # "insert" /\ InsertError(d, torrent) # Nothing
  <2>1. error = OfDatabase(InsertError(d, torrent))
    BY <1>1, <1>12 DEF Refusal
  <2>2. CASE InsertError(d, torrent) = "TorrentTitleAlreadyExists"
    <3>1. RequestIsBad(d) /\ error = "TorrentTitleAlreadyExists"
      BY <1>1, <2>1, <2>2, InsertErrors, DatabaseErrors, NothingIsNoNumber DEF RequestIsBad, Errors
    <3> QED BY <1>1, <1>2, <3>1, Statuses DEF FitsTheRequest
  <2>3. CASE InsertError(d, torrent) # "TorrentTitleAlreadyExists"
    <3>1. /\ InsertError(d, torrent) \in {"Error", "ErrorWithText"}
          /\ \/ ~TagsCanBeLinked(d.tags)
             \/ TorrentsOf[d.buffer].pieces = Nothing /\ ~TorrentsOf[d.buffer].root_hash
      BY <1>1, <1>12, <2>3, InsertErrors
    <3>2. InsertionFails(d)
      BY <1>12, <3>1 DEF InsertionFails
    <3>3. error = "InternalServerError"
      BY <2>1, <3>1, DatabaseErrors
    <3> QED BY <1>1, <1>2, <3>2, <3>3, Statuses DEF FitsTheRequest
  <2> QED BY <2>2, <2>3
<1>13. CASE new /\ failed # "insert" /\ InsertError(d, torrent) = Nothing
  <2>1. error = IF failed \in TrackerErrors THEN OfTracker(failed) ELSE Nothing
    BY <1>1, <1>13 DEF Refusal
  <2>2. CASE failed \in TrackerErrors
    BY <1>1, <1>2, <1>3, <2>1, <2>2, TrackerStatuses, Statuses DEF FitsTheRequest
  <2>3. CASE failed \notin TrackerErrors
    <3>1. error = Nothing /\ failed \in {Nothing, "association"}
      BY <1>3, <1>13, <2>1, <2>3
    <3>2. /\ TagsCanBeLinked(d.tags) /\ d.title \notin {entry.title : entry \in shelf}
          /\ ~(TorrentsOf[d.buffer].pieces = Nothing /\ ~TorrentsOf[d.buffer].root_hash)
      BY <1>1, <1>13, InsertErrors, NothingIsNoNumber DEF Errors
    <3>3. ~RequestIsBad(d) /\ ~InsertionFails(d)
      BY <1>1, <1>13, <3>2 DEF RequestIsBad, InsertionFails
    <3> QED BY <1>1, <3>1, <3>3 DEF FitsTheRequest
  <2> QED BY <2>2, <2>3
<1> QED BY <1>4, <1>5, <1>6, <1>7, <1>8, <1>9, <1>10, <1>11, <1>12, <1>13

-----------------------------------------------------------------------------
(* Who is blamed *)

\* A torrent on the index has a group.
LEMMA GroupOfARow ==
  ASSUME IsShelf(shelf), NEW entry \in shelf
  PROVE  GroupOf(entry.canonical) # {}
<1>1. PICK hash : hash \in entry.originals
  BY DEF IsShelf
<1>2. hash \in GroupOf(entry.canonical)
  BY <1>1 DEF GroupOf
<1> QED BY <1>2

\* What a sender is at fault for, of a form that was read without an error.
LEMMA FaultsOfTheSender ==
  ASSUME IsShelf(shelf), FormWasSent, DraftIsWhatWasRead, at = Len(form)
  PROVE  RequestIsBad(draft) <=> SenderAtFault
<1>1. PICK d : d = draft
  OBVIOUS
<1>2. /\ d.title = LastSaid("title") /\ d.category = LastSaid("category")
      /\ d.buffer = BytesSent /\ before = shelf
      /\ \A i \in DOMAIN form : WasRead(form[i])
  BY <1>1, WholeFormIsRead
<1>3. ~\E i \in DOMAIN form :
         \/ form[i].name \in TextFields /\ form[i].data # <<>> /\ TextError(form[i]) # Nothing
         \/ form[i].name = "torrent"
            /\ form[i].type \notin {"application/x-bittorrent", "application/octet-stream"}
  BY <1>2 DEF WasRead
<1>4. MetadataError(d) # Nothing <=> Len(d.title) < MIN_TORRENT_TITLE_LENGTH
  <2>1. Nothing \notin {"MissingTorrentTitle", "InvalidTorrentTitleLength"}
    BY NothingIsNoNumber DEF Errors
  <2>2. Len(<<>>) < MIN_TORRENT_TITLE_LENGTH
    BY IntakeAssumption, EmptySeq
  <2> QED BY <2>1, <2>2 DEF MetadataError
<1> DEFINE canonical == TorrentsOf[d.buffer].canonical
<1>5. GroupOf(canonical) # {} <=> \E entry \in shelf : entry.canonical = canonical
  <2> HIDE DEF canonical
  <2>1. ASSUME NEW entry \in shelf, entry.canonical = canonical PROVE GroupOf(canonical) # {}
    BY <2>1, GroupOfARow
  <2>2. ASSUME GroupOf(canonical) # {} PROVE \E entry \in shelf : entry.canonical = canonical
    BY <2>2 DEF GroupOf
  <2> QED BY <2>1, <2>2
<1>6. SenderAtFault <=>
        \/ Len(d.title) < MIN_TORRENT_TITLE_LENGTH
        \/ d.category \notin KnownCategories
        \/ DecodeError(d.buffer) # Nothing
        \/ \E entry \in shelf : entry.title = d.title \/ entry.canonical = canonical
  BY <1>2, <1>3 DEF SenderAtFault
<1>7. RequestIsBad(d) <=>
        \/ d.category \notin KnownCategories
        \/ MetadataError(d) # Nothing
        \/ DecodeError(d.buffer) # Nothing
        \/ GroupOf(canonical) # {}
        \/ \E entry \in shelf : entry.title = d.title
  BY DEF RequestIsBad
<1> HIDE DEF canonical
<1> QED BY <1>1, <1>4, <1>5, <1>6, <1>7

\* What breaks a key of the tables is seen in the form.
LEMMA FailuresOfTheForm ==
  ASSUME FormWasSent, DraftIsWhatWasRead, at = Len(form)
  PROVE  /\ InsertionFails(draft) => FailsInDatabase
         /\ ~RequestIsBad(draft) /\ ~InsertionFails(draft) => ~FailsInDatabase
<1>1. draft.tags = LastSaid("tags") /\ draft.buffer = BytesSent
  BY WholeFormIsRead
<1> QED BY <1>1, ErrorsAreSomething DEF InsertionFails, FailsInDatabase, RequestIsBad

\* What is at fault stays at fault while the form and the index before it are the same.
LEMMA FaultsStay ==
  ASSUME UNCHANGED <<header, form, before>>
  PROVE  /\ SenderAtFault' <=> SenderAtFault
         /\ FailsInDatabase' <=> FailsInDatabase
         /\ (\E i \in DOMAIN form' : Panics(form'[i])) <=> \E i \in DOMAIN form : Panics(form[i])
<1>1. \A name : LastSaid(name)' = LastSaid(name)
  BY DEF LastSaid
<1>2. BytesSent' = BytesSent
  BY DEF BytesSent
<1>3. \A b : (DecodeError(b))' = DecodeError(b)
  BY DEF DecodeError
<1>4. SenderAtFault' <=> SenderAtFault
  BY <1>1, <1>2, <1>3 DEF SenderAtFault
<1>5. FailsInDatabase' <=> FailsInDatabase
  BY <1>1, <1>2 DEF FailsInDatabase
<1> QED BY <1>4, <1>5

\* An answer stays right while nothing that it is about changes.
LEMMA RefusalStands ==
  ASSUME RefusalsBlameWhoFailed, UNCHANGED <<header, form, before, reply, draft, shelf>>
  PROVE  RefusalsBlameWhoFailed'
BY FaultsStay DEF RefusalsBlameWhoFailed

\* The answer of add_torrent blames who failed.
LEMMA AddedOrRefused ==
  ASSUME IsShelf(shelf), FormWasSent, DraftIsWhatWasRead, NEW failed \in Failures,
         AddTorrent(failed)
  PROVE  RefusalsBlameWhoFailed'
<1>1. /\ at = Len(form) /\ header \notin {"none", "forged", "expired"}
      /\ UNCHANGED <<header, form, draft, before>>
  BY WholeFormIsRead DEF AddTorrent
<1>2. PICK error : error = Refusal(failed)
  OBVIOUS
<1>3. FitsTheRequest(draft, error, failed)
  BY <1>2, RefusalsAreSorted
<1>4. CASE error = Nothing
  <2>1. reply'.status = 200 /\ reply'.failed = Nothing
    BY <1>2, <1>4 DEF AddTorrent, Answer, Accepts
  <2>2. ~RequestIsBad(draft) /\ ~InsertionFails(draft)
    BY <1>3, <1>4 DEF FitsTheRequest
  <2>3. ~SenderAtFault /\ ~FailsInDatabase
    BY <1>1, <2>2, FaultsOfTheSender, FailuresOfTheForm
  <2> QED BY <1>1, <2>1, <2>3, FaultsStay DEF RefusalsBlameWhoFailed
<1>5. CASE error # Nothing
  <2>1. reply'.status = ServiceStatus(error) /\ reply'.failed = failed
    BY <1>2, <1>5 DEF AddTorrent, Answer, Refused
  <2>2. \/ /\ reply'.status \in {400, 404}
           /\ SenderAtFault \/ failed \in {"user", "category"}
        \/ /\ reply'.status \in {500, 503}
           /\ FailsInDatabase \/ failed # Nothing
    BY <1>1, <1>3, <1>5, <2>1, FaultsOfTheSender, FailuresOfTheForm DEF FitsTheRequest
  <2> QED BY <1>1, <2>1, <2>2, FaultsStay DEF RefusalsBlameWhoFailed
<1> QED BY <1>4, <1>5

\* Who is not logged in is refused before the form is read.
LEMMA SentOrRefused ==
  ASSUME NEW h \in Headers, Send(h)
  PROVE  FormWasSent' /\ DraftIsWhatWasRead' /\ RefusalsBlameWhoFailed'
<1>1. Nothing \notin {"TokenNotFound", "TokenExpired", "TokenInvalid", "LoggedInUserNotFound"}
      /\ Nothing # 0
  BY NothingIsNoNumber DEF Errors
<1>2. LoginError(h) = IF h \in {"none", "forged", "expired"} THEN "LoggedInUserNotFound" ELSE Nothing
  BY <1>1 DEF LoginError, ClaimsError
<1>3. CASE ParsesToken(h) /\ LoginError(h) = Nothing
  <2>1. /\ form' \in Forms /\ reply' = Nothing /\ at' = 0 /\ draft' = EmptyDraft
        /\ before' = shelf' /\ header' = h
    BY <1>3 DEF Send
  <2>2. IsDraft(EmptyDraft, form', 0)
    <3>1. BytesUpTo(form', 0) = <<>> /\ \A name : SaidUpTo(form', 0, name) = <<>>
      BY NoBytes, NothingSaid
    <3>2. PICK e : e = EmptyDraft
      OBVIOUS
    <3>3. /\ DOMAIN e = {"title", "description", "category", "tags", "buffer", "position"}
          /\ e.title = <<>> /\ e.description = <<>> /\ e.category = <<>> /\ e.tags = <<>>
          /\ e.buffer = <<0>> /\ e.position = 0
      BY <3>2 DEF EmptyDraft
    <3>4. <<>> \in Seq(Bytes) /\ Len(<<>>) = 0
      BY EmptySeq
    <3>5. Buffered(e, <<>>)
      BY <3>3, <3>4 DEF Buffered, BufferOf
    <3>6. \A name \in TextFields : e[name] = <<>>
      BY <3>3 DEF TextFields
    <3>7. DOMAIN e = TextFields \union {"buffer", "position"}
      BY <3>3 DEF TextFields
    <3> QED BY <3>1, <3>2, <3>4, <3>5, <3>6, <3>7 DEF IsDraft
  <2>3. Len(form') \in Nat
    BY <2>1, FormsAreSequences
  <2>4. DraftIsWhatWasRead'
    BY <1>1, <1>2, <1>3, <2>1, <2>2, <2>3 DEF DraftIsWhatWasRead
  <2> QED BY <2>1, <2>4 DEF FormWasSent, RefusalsBlameWhoFailed
<1>4. CASE ~ParsesToken(h) \/ LoginError(h) # Nothing
  <2>1. /\ form' = <<>> /\ at' = Nothing /\ draft' = EmptyDraft
        /\ before' = shelf' /\ header' = h
        /\ reply' = IF ParsesToken(h)
                    THEN Refused(ServiceStatus(LoginError(h)), LoginError(h), Nothing) ELSE Dropped
    BY <1>4 DEF Send
  <2>2. CASE ParsesToken(h)
    <3>1. reply'.status = 401 /\ h \in {"none", "forged", "expired"}
      BY <1>2, <1>4, <2>1, <2>2, Statuses DEF Refused
    <3> QED BY <2>1, <3>1 DEF FormWasSent, DraftIsWhatWasRead, RefusalsBlameWhoFailed
  <2>3. CASE ~ParsesToken(h)
    <3>1. reply'.status = 0 /\ h \notin {"none", "forged", "expired"}
      BY <2>1, <2>3 DEF Dropped, Refused, ParsesToken
    <3>2. ~ParsesToken(header)'
      BY <2>1, <2>3 DEF ParsesToken
    <3> QED BY <2>1, <3>1, <3>2 DEF FormWasSent, DraftIsWhatWasRead, RefusalsBlameWhoFailed
  <2> QED BY <2>2, <2>3
<1> QED BY <1>3, <1>4

\* A step of the reading has no answer, or refuses a field of the form.
LEMMA ReadingAnswers ==
  ASSUME FormWasSent, DraftIsWhatWasRead, ReadText \/ ReadTorrent \/ SkipField \/ Panic
  PROVE  /\ RefusalsBlameWhoFailed'
         /\ UNCHANGED <<header, form, shelf, before>>
         /\ at' = Nothing \/ reply' = Nothing
         /\ reply' # Nothing => reply'.status # 200
<1>1. /\ Reading /\ reply = Nothing /\ header \notin {"none", "forged", "expired"}
      /\ UNCHANGED <<header, form, shelf, before>>
  BY DEF ReadText, ReadTorrent, SkipField, Panic, Reading, DraftIsWhatWasRead
<1>2. at + 1 \in DOMAIN form /\ Field = form[at + 1]
  <2>1. at \in 0 .. Len(form) /\ at < Len(form) /\ Len(form) \in Nat
    BY <1>1, FormHasLength DEF Reading, DraftIsWhatWasRead
  <2>2. at + 1 \in 1 .. Len(form)
    BY <2>1
  <2> QED BY <2>2, FormHasLength DEF Field
<1>3. CASE reply' = Nothing
  BY <1>1, <1>3 DEF RefusalsBlameWhoFailed
<1>4. CASE reply' # Nothing
  <2>1. CASE ReadText
    <3> DEFINE error == IF Field.data = <<>> THEN Nothing ELSE TextError(Field)
    <3>1. error # Nothing /\ Field.name \in TextFields
      BY <1>1, <1>4, <2>1 DEF ReadText
    <3>2. SenderAtFault
      BY <1>2, <3>1 DEF SenderAtFault
    <3>3. /\ reply' = Refused(RequestStatus(TextError(Field)), TextError(Field), Nothing)
          /\ at' = Nothing
      BY <2>1, <3>1 DEF ReadText, Answer
    <3>4. TextError(Field) \in {"NotValidUtf8", "TagsArrayIsNotValidJson"}
      BY <3>1 DEF TextError
    <3>5. reply'.status = 400
      BY <3>3, <3>4 DEF Refused, RequestStatus
    <3> QED BY <1>1, <3>2, <3>3, <3>5, FaultsStay DEF RefusalsBlameWhoFailed
  <2>2. CASE ReadTorrent
    <3>1. CASE Field.type \notin {"application/x-bittorrent", "application/octet-stream"}
      <4>1. SenderAtFault
        BY <1>2, <2>2, <3>1 DEF SenderAtFault, ReadTorrent
      <4>2. /\ reply' = Refused(RequestStatus("InvalidFileType"), "InvalidFileType", Nothing)
            /\ at' = Nothing
        BY <2>2, <3>1 DEF ReadTorrent, Answer
      <4>3. reply'.status = 400
        BY <4>2 DEF Refused, RequestStatus
      <4> QED BY <1>1, <4>1, <4>2, <4>3, FaultsStay DEF RefusalsBlameWhoFailed
    <3>2. CASE Field.type \in {"application/x-bittorrent", "application/octet-stream"}
      <4> DEFINE error == "CannotReadChunkFromUploadedBinary"
      <4>1. reply' = Refused(RequestStatus(error), error, "chunk") /\ at' = Nothing
        BY <1>1, <1>4, <2>2, <3>2 DEF ReadTorrent, Answer
      <4>2. reply'.status = 500 /\ reply'.failed # Nothing
        BY <4>1, NothingIsNoNumber DEF Refused, RequestStatus
      <4> QED BY <1>1, <4>1, <4>2 DEF RefusalsBlameWhoFailed
    <3> QED BY <3>1, <3>2
  <2>3. CASE SkipField
    BY <1>1, <1>4, <2>3 DEF SkipField
  <2>4. CASE Panic
    <3>1. reply' = Dropped /\ at' = Nothing /\ Panics(Field)
      BY <2>4 DEF Panic, Answer
    <3>2. reply'.status = 0
      BY <3>1 DEF Dropped, Refused
    <3>3. \E i \in DOMAIN form : Panics(form[i])
      BY <1>2, <3>1
    <3> QED BY <1>1, <3>1, <3>2, <3>3, FaultsStay DEF RefusalsBlameWhoFailed
  <2> QED BY <2>1, <2>2, <2>3, <2>4
<1> QED BY <1>1, <1>3, <1>4

\* Reading keeps the draft in step with the form.
LEMMA FormIsRead ==
  ASSUME DraftIsWhatWasRead, ReadText \/ ReadTorrent \/ SkipField \/ Panic
  PROVE  DraftIsWhatWasRead'
<1>1. CASE Panic
  BY <1>1 DEF Panic, Answer, DraftIsWhatWasRead
<1> QED BY <1>1, TextIsRead, TorrentIsRead, OtherIsSkipped

LEMMA AddTorrentEnds ==
  ASSUME NEW failed, AddTorrent(failed) PROVE at' = Nothing /\ UNCHANGED form
BY DEF AddTorrent, Answer

\* The group of a torrent takes one more hash: rows differ as before.
LEMMA GroupTakesHash ==
  ASSUME IsShelf(shelf), NEW b \in DOMAIN TorrentsOf
  PROVE  IsShelf(Associated(TorrentsOf[b]))
<1> PICK torrent, rows : torrent = TorrentsOf[b] /\ rows = Associated(torrent)
  OBVIOUS
<1> DEFINE More(entry) == [entry EXCEPT !.originals = @ \union {torrent.original}]
           Told(entry) == IF entry.canonical = torrent.canonical THEN More(entry) ELSE entry
<1>1. rows = {Told(entry) : entry \in shelf}
  BY DEF Associated
<1>2. ASSUME NEW entry \in shelf
      PROVE  /\ DOMAIN Told(entry) = DOMAIN entry /\ Told(entry).canonical = entry.canonical
             /\ Told(entry).originals = entry.originals
                \/ /\ entry.canonical = torrent.canonical
                   /\ Told(entry).originals = entry.originals \union {torrent.original}
  BY DEF IsShelf
<1> HIDE DEF Told
<1>3. ASSUME NEW entry \in shelf
      PROVE  /\ DOMAIN Told(entry) = {"title", "description", "category", "tags", "name",
                                    "canonical", "originals"}
             /\ Told(entry).originals # {}
             /\ \A hash \in Told(entry).originals :
                  \E a \in DOMAIN TorrentsOf : /\ TorrentsOf[a].original = hash
                                               /\ TorrentsOf[a].canonical = Told(entry).canonical
  BY <1>2 DEF IsShelf
<1>4. ASSUME NEW q \in shelf, NEW r \in shelf, Told(q).canonical = Told(r).canonical
      PROVE  Told(q) = Told(r)
  BY <1>2, <1>4 DEF IsShelf
<1> QED BY <1>1, <1>3, <1>4 DEF IsShelf

\* A torrent that is new has a canonical hash that no other has.
LEMMA ShelfTakesRow ==
  ASSUME IsShelf(shelf), NEW b \in DOMAIN TorrentsOf, GroupOf(TorrentsOf[b].canonical) = {}, NEW d
  PROVE  IsShelf(shelf \union {RowOf(d, TorrentsOf[b])})
<1> PICK torrent, entry : torrent = TorrentsOf[b] /\ entry = RowOf(d, torrent)
  OBVIOUS
<1>1. /\ DOMAIN entry = {"title", "description", "category", "tags", "name", "canonical",
                       "originals"}
      /\ entry.originals = {torrent.original} /\ entry.canonical = torrent.canonical
  BY DEF RowOf
<1>2. \A r \in shelf : r.canonical # torrent.canonical
  BY GroupOfARow
<1> QED BY <1>1, <1>2 DEF IsShelf

\* An upload keeps the rows of the index one per canonical hash.
LEMMA ShelfIsKept ==
  ASSUME IsShelf(shelf), NEW failed \in Failures, AddTorrent(failed)
  PROVE  IsShelf(shelf')
<1>1. PICK error, d, torrent :
        error = Refusal(failed) /\ d = draft /\ torrent = TorrentsOf[d.buffer]
  OBVIOUS
<1>2. FitsTheRequest(d, error, failed)
  BY <1>1, RefusalsAreSorted
<1>3. CASE error = Nothing
  <2>1. d.buffer \in DOMAIN TorrentsOf /\ GroupOf(torrent.canonical) = {}
    BY <1>1, <1>2, <1>3, ErrorsAreSomething DEF FitsTheRequest, RequestIsBad
  <2>2. shelf' = shelf \union {RowOf(d, torrent)}
    BY <1>1, <1>3 DEF AddTorrent
  <2> QED BY <1>1, <2>1, <2>2, ShelfTakesRow
<1>4. CASE error = "CanonicalInfoHashAlreadyExists"
  <2>1. error # Nothing
    BY <1>4, NothingIsNoNumber DEF Errors
  <2>2. d.buffer \in DOMAIN TorrentsOf
    BY <1>2, <1>4, <2>1 DEF FitsTheRequest
  <2>3. shelf' = Associated(torrent)
    BY <1>1, <1>4, <2>1 DEF AddTorrent
  <2> QED BY <1>1, <2>2, <2>3, GroupTakesHash
<1>5. CASE error \notin {Nothing, "CanonicalInfoHashAlreadyExists"}
  BY <1>1, <1>5 DEF AddTorrent
<1> QED BY <1>3, <1>4, <1>5

\* The inductive invariant: torrents on the index differ in their canonical hashes, the
\* draft is what was read of the form so far, and the last answer blames who failed.
IntakeInv == IsShelf(shelf) /\ FormWasSent /\ DraftIsWhatWasRead /\ RefusalsBlameWhoFailed

\* The inductive invariant holds of an index without torrents and without a request.
LEMMA IntakeInvInit == IntakeInit => IntakeInv
BY DEF IntakeInit, IntakeInv, IsShelf, FormWasSent, DraftIsWhatWasRead, RefusalsBlameWhoFailed

LEMMA IntakeInvNext == IntakeInv /\ [IntakeNext]_intakeVars => IntakeInv'
<1> SUFFICES ASSUME IntakeInv, [IntakeNext]_intakeVars PROVE IntakeInv'
  OBVIOUS
<1>1. ASSUME NEW h \in Headers, Send(h) PROVE IntakeInv'
  <2>1. UNCHANGED shelf
    BY <1>1 DEF Send
  <2> QED BY <1>1, <2>1, SentOrRefused DEF IntakeInv
<1>2. CASE ReadText \/ ReadTorrent \/ SkipField \/ Panic
  BY <1>2, ReadingAnswers, FormIsRead DEF IntakeInv, FormWasSent
<1>3. ASSUME NEW failed \in Failures, AddTorrent(failed) PROVE IntakeInv'
  <2>1. IsShelf(shelf') /\ RefusalsBlameWhoFailed'
    BY <1>3, ShelfIsKept, AddedOrRefused DEF IntakeInv
  <2>2. FormWasSent' /\ DraftIsWhatWasRead'
    BY <1>3, AddTorrentEnds DEF IntakeInv, FormWasSent, DraftIsWhatWasRead
  <2> QED BY <2>1, <2>2 DEF IntakeInv
<1>4. CASE UNCHANGED intakeVars
  <2>1. UNCHANGED <<header, form, at, draft, shelf, reply, before>>
    BY <1>4 DEF intakeVars
  <2>2. FormWasSent' /\ IsShelf(shelf') /\ RefusalsBlameWhoFailed'
    BY <2>1, RefusalStands DEF IntakeInv, FormWasSent
  <2>3. DraftIsWhatWasRead'
    BY <2>1 DEF IntakeInv, DraftIsWhatWasRead
  <2> QED BY <2>2, <2>3 DEF IntakeInv
<1> QED BY <1>1, <1>2, <1>3, <1>4 DEF IntakeNext

\* Whatever forms are sent and whatever fails meanwhile, a refusal with 400 or 404 is
\* for a form at fault, one with 500 or 503 for a part that failed or a form that
\* breaks the tables, one with 401 for who is not logged in, and 200 only for a form
\* without a fault when nothing failed: the checks of add_torrent, the conversions of
\* its errors and their statuses (services/torrent.rs 127-233, errors.rs 193-339,
\* contexts/torrent/errors.rs) agree about every upload.
THEOREM AnswersBlameWhoFailed == IntakeSpec => []RefusalsBlameWhoFailed
<1>1. IntakeInv => RefusalsBlameWhoFailed
  BY DEF IntakeInv
<1> QED BY <1>1, IntakeInvInit, IntakeInvNext, PTL DEF IntakeSpec

-----------------------------------------------------------------------------
(* Info-hashes as texts *)

Digits == ToSet(HexDigits)

LowerOf(c) ==
  IF \E x \in DOMAIN Capitals : Capitals[x] = c
  THEN CHOOSE x \in DOMAIN Capitals : Capitals[x] = c ELSE c
UpperOf(c) == IF c \in DOMAIN Capitals THEN Capitals[c] ELSE c
ValueOf(c) == (CHOOSE i \in DOMAIN HexDigits : HexDigits[i] = c) - 1

LEMMA DigitsAre ==
  /\ DOMAIN HexDigits = 1 .. 16
  /\ Digits = {"0", "1", "2", "3", "4", "5", "6", "7", "8", "9", "a", "b", "c", "d", "e", "f"}
  /\ \A i, j \in 1 .. 16 : HexDigits[i] = HexDigits[j] => i = j
<1>1. DOMAIN HexDigits = 1 .. 16
  BY DEF HexDigits
<1>2. \A i \in 1 .. 16 : \/ i = 1 /\ HexDigits[i] = "0"
                         \/ i = 2 /\ HexDigits[i] = "1"
                         \/ i = 3 /\ HexDigits[i] = "2"
                         \/ i = 4 /\ HexDigits[i] = "3"
                         \/ i = 5 /\ HexDigits[i] = "4"
                         \/ i = 6 /\ HexDigits[i] = "5"
                         \/ i = 7 /\ HexDigits[i] = "6"
                         \/ i = 8 /\ HexDigits[i] = "7"
                         \/ i = 9 /\ HexDigits[i] = "8"
                         \/ i = 10 /\ HexDigits[i] = "9"
                         \/ i = 11 /\ HexDigits[i] = "a"
                         \/ i = 12 /\ HexDigits[i] = "b"
                         \/ i = 13 /\ HexDigits[i] = "c"
                         \/ i = 14 /\ HexDigits[i] = "d"
                         \/ i = 15 /\ HexDigits[i] = "e"
                         \/ i = 16 /\ HexDigits[i] = "f"
  BY DEF HexDigits
<1>3. \A i, j \in 1 .. 16 : HexDigits[i] = HexDigits[j] => i = j
  BY <1>2
<1>4. /\ 1 \in 1 .. 16 /\ 2 \in 1 .. 16 /\ 3 \in 1 .. 16 /\ 4 \in 1 .. 16
      /\ 5 \in 1 .. 16 /\ 6 \in 1 .. 16 /\ 7 \in 1 .. 16 /\ 8 \in 1 .. 16
      /\ 9 \in 1 .. 16 /\ 10 \in 1 .. 16 /\ 11 \in 1 .. 16 /\ 12 \in 1 .. 16
      /\ 13 \in 1 .. 16 /\ 14 \in 1 .. 16 /\ 15 \in 1 .. 16 /\ 16 \in 1 .. 16
  OBVIOUS
<1>5. Digits = {HexDigits[i] : i \in 1 .. 16}
  BY <1>1 DEF Digits, ToSet
<1>6. /\ HexDigits[1] = "0" /\ HexDigits[2] = "1" /\ HexDigits[3] = "2" /\ HexDigits[4] = "3"
      /\ HexDigits[5] = "4" /\ HexDigits[6] = "5" /\ HexDigits[7] = "6" /\ HexDigits[8] = "7"
      /\ HexDigits[9] = "8" /\ HexDigits[10] = "9" /\ HexDigits[11] = "a" /\ HexDigits[12] = "b"
      /\ HexDigits[13] = "c" /\ HexDigits[14] = "d" /\ HexDigits[15] = "e" /\ HexDigits[16] = "f"
  BY DEF HexDigits
<1>7. \A c : c \in Digits
             <=> c \in {"0", "1", "2", "3", "4", "5", "6", "7", "8", "9", "a", "b", "c", "d", "e", "f"}
  BY <1>2, <1>4, <1>5, <1>6
<1> QED BY <1>1, <1>3, <1>7

\* A digit is found again from either case.
LEMMA CasesOfDigits ==
  ASSUME NEW c \in Digits
  PROVE  LowerOf(c) = c /\ LowerOf(UpperOf(c)) = c
<1>1. PICK caps : caps = Capitals
  OBVIOUS
<1>2. /\ DOMAIN caps = {"a", "b", "c", "d", "e", "f"}
      /\ caps["a"] = "A" /\ caps["b"] = "B" /\ caps["c"] = "C"
      /\ caps["d"] = "D" /\ caps["e"] = "E" /\ caps["f"] = "F"
  BY <1>1 DEF Capitals
<1>3. \A x \in DOMAIN caps : caps[x] \notin Digits
  BY <1>2, DigitsAre
<1>4. \A x, y \in DOMAIN caps : caps[x] = caps[y] => x = y
  BY <1>2
<1>5. LowerOf(c) = c
  BY <1>1, <1>3 DEF LowerOf
<1>6. CASE c \in DOMAIN caps
  <2>1. UpperOf(c) = caps[c]
    BY <1>1, <1>6 DEF UpperOf
  <2>2. \E x \in DOMAIN caps : caps[x] = caps[c]
    BY <1>6
  <2>3. (CHOOSE x \in DOMAIN caps : caps[x] = caps[c]) = c
    BY <1>4, <1>6
  <2> QED BY <1>1, <1>5, <2>1, <2>2, <2>3 DEF LowerOf
<1>7. CASE c \notin DOMAIN caps
  BY <1>1, <1>5, <1>7 DEF UpperOf
<1> QED BY <1>5, <1>6, <1>7

\* The digit for a number has that number as its value.
LEMMA DigitsHaveValues ==
  ASSUME NEW v \in 0 .. 15
  PROVE  HexDigits[1 + v] \in Digits /\ ValueOf(HexDigits[1 + v]) = v
<1>1. PICK i : i = 1 + v
  OBVIOUS
<1>2. i \in 1 .. 16 /\ i - 1 = v
  BY <1>1
<1>3. HexDigits[i] \in Digits
  BY <1>2, DigitsAre DEF Digits, ToSet
<1>4. (CHOOSE j \in DOMAIN HexDigits : HexDigits[j] = HexDigits[i]) = i
  BY <1>2, DigitsAre
<1> QED BY <1>1, <1>2, <1>3, <1>4 DEF ValueOf

\* A byte is its two halves.
LEMMA HalvesOfBytes ==
  ASSUME NEW x \in Bytes
  PROVE  x \div 16 \in 0 .. 15 /\ x % 16 \in 0 .. 15 /\ 16 * (x \div 16) + (x % 16) = x
BY DEF Bytes

\* Two digits for each of the n bytes of a hash.
IsTextOf(text, hash, n) ==
  /\ n \in Nat /\ text \in [1 .. 2 * n -> Digits] /\ Len(text) = 2 * n
  /\ \A i \in 1 .. n : /\ text[2 * i - 1] = HexDigits[1 + (hash[i] \div 16)]
                       /\ text[2 * i] = HexDigits[1 + (hash[i] % 16)]

\* The text of a hash has two digits for each of its bytes.
LEMMA TextOfHash ==
  ASSUME NEW hash \in Seq(Bytes)
  PROVE  IsTextOf(HashText(hash), hash, Len(hash))
<1> PICK n, text : n = Len(hash) /\ text = HashText(hash)
  OBVIOUS
<1> DEFINE pairs == [i \in DOMAIN hash |-> <<HexDigits[1 + (hash[i] \div 16)],
                                              HexDigits[1 + (hash[i] % 16)]>>]
<1>1. n \in Nat /\ hash \in [1 .. n -> Bytes] /\ DOMAIN hash = 1 .. n
  BY LenProperties
<1>2. ASSUME NEW i \in 1 .. n
      PROVE  /\ pairs[i] \in Seq(Digits) /\ Len(pairs[i]) = 2
             /\ pairs[i][1] = HexDigits[1 + (hash[i] \div 16)]
             /\ pairs[i][2] = HexDigits[1 + (hash[i] % 16)]
  <2>1. hash[i] \in Bytes
    BY <1>1
  <2>2. PICK p, q : p = HexDigits[1 + (hash[i] \div 16)] /\ q = HexDigits[1 + (hash[i] % 16)]
    OBVIOUS
  <2>3. p \in Digits /\ q \in Digits
    BY <2>1, <2>2, HalvesOfBytes, DigitsHaveValues
  <2>4. pairs[i] = <<p, q>>
    BY <1>1, <2>2
  <2> HIDE DEF pairs
  <2> QED BY <2>2, <2>3, <2>4
<1>3. pairs = [i \in 1 .. n |-> pairs[i]]
  BY <1>1
<1>4. text = FlattenSeq(pairs)
  BY DEF HashText
<1> HIDE DEF pairs
<1>5. pairs \in Seq(Seq(Digits)) /\ Len(pairs) = n
  BY <1>1, <1>2, <1>3
<1>6. /\ FlattenSeq(pairs) \in Seq(Digits) /\ Len(FlattenSeq(pairs)) = 2 * Len(pairs)
      /\ \A i \in 1 .. Len(pairs) : /\ FlattenSeq(pairs)[2 * i - 1] = pairs[i][1]
                                    /\ FlattenSeq(pairs)[2 * i] = pairs[i][2]
  <2>1. \A i \in 1 .. Len(pairs) : Len(pairs[i]) = 2
    BY <1>2, <1>5
  <2>2. 2 \in {1, 2}
    OBVIOUS
  <2> QED BY <1>5, <2>1, <2>2, FlattenBlocks
<1>7. text \in Seq(Digits) /\ Len(text) = 2 * n
  BY <1>4, <1>5, <1>6
<1>8. text \in [1 .. 2 * n -> Digits]
  BY <1>7, LenProperties
<1>9. \A i \in 1 .. n : /\ text[2 * i - 1] = HexDigits[1 + (hash[i] \div 16)]
                         /\ text[2 * i] = HexDigits[1 + (hash[i] % 16)]
  BY <1>2, <1>4, <1>5, <1>6
<1> QED BY <1>1, <1>7, <1>8, <1>9 DEF IsTextOf

\* A text in either case of its digits.
LEMMA EitherCase ==
  ASSUME NEW n \in Nat, NEW text \in [1 .. 2 * n -> Digits]
  PROVE  Lowercase(text) = text /\ Lowercase(Uppercase(text)) = text
<1>1. DOMAIN text = 1 .. 2 * n /\ text = [i \in 1 .. 2 * n |-> text[i]]
  OBVIOUS
<1>2. \A t : Lowercase(t) = [i \in DOMAIN t |-> LowerOf(t[i])]
  BY DEF Lowercase, LowerOf
<1>3. PICK upper : upper = Uppercase(text)
  OBVIOUS
<1>4. upper = [i \in 1 .. 2 * n |-> UpperOf(text[i])]
  BY <1>1, <1>3 DEF Uppercase, UpperOf
<1>5. DOMAIN upper = 1 .. 2 * n /\ \A i \in 1 .. 2 * n : upper[i] = UpperOf(text[i])
  BY <1>4
<1>6. \A i \in 1 .. 2 * n : LowerOf(text[i]) = text[i] /\ LowerOf(upper[i]) = text[i]
  BY <1>5, CasesOfDigits
<1> QED BY <1>1, <1>2, <1>3, <1>5, <1>6

\* The text of a hash, in either case, is read as that hash.
LEMMA HashOfItsText ==
  ASSUME NEW hash \in Seq(Bytes), NEW address, Lowercase(address) = HashText(hash)
  PROVE  HashOfText(Lowercase(address), Len(hash)) = hash
<1>1. PICK n, text : n = Len(hash) /\ text = HashText(hash)
  OBVIOUS
<1>2. /\ n \in Nat /\ text \in [1 .. 2 * n -> Digits] /\ Len(text) = 2 * n
      /\ \A i \in 1 .. n : /\ text[2 * i - 1] = HexDigits[1 + (hash[i] \div 16)]
                           /\ text[2 * i] = HexDigits[1 + (hash[i] % 16)]
  BY <1>1, TextOfHash DEF IsTextOf
<1>3. Lowercase(text) = text /\ ToSet(text) \subseteq Digits
  BY <1>2, EitherCase DEF ToSet
<1>4. HashOfText(text, n) = [i \in 1 .. n |-> 16 * ValueOf(text[2 * i - 1]) + ValueOf(text[2 * i])]
  <2>1. PICK lower : lower = Lowercase(text)
    OBVIOUS
  <2>2. HashOfText(text, n)
          = IF Len(text) # 2 * n \/ ~(ToSet(lower) \subseteq Digits) THEN Nothing
            ELSE [i \in 1 .. n |-> 16 * ValueOf(lower[2 * i - 1]) + ValueOf(lower[2 * i])]
    BY <2>1 DEF HashOfText, ValueOf, Digits
  <2>3. lower = text /\ ToSet(lower) \subseteq Digits /\ Len(text) = 2 * n
    BY <1>2, <1>3, <2>1
  <2> QED BY <2>2, <2>3
<1>5. \A i \in 1 .. n : 16 * ValueOf(text[2 * i - 1]) + ValueOf(text[2 * i]) = hash[i]
  <2> SUFFICES ASSUME NEW i \in 1 .. n
               PROVE  16 * ValueOf(text[2 * i - 1]) + ValueOf(text[2 * i]) = hash[i]
    OBVIOUS
  <2>1. hash[i] \in Bytes
    BY <1>1, ElementOfSeq
  <2>2. PICK x, p, q : x = hash[i] /\ p = x \div 16 /\ q = x % 16
    OBVIOUS
  <2>3. p \in 0 .. 15 /\ q \in 0 .. 15 /\ 16 * p + q = x
    BY <2>1, <2>2, HalvesOfBytes
  <2>4. ValueOf(text[2 * i - 1]) = p /\ ValueOf(text[2 * i]) = q
    BY <1>2, <2>2, <2>3, DigitsHaveValues
  <2> QED BY <2>2, <2>3, <2>4
<1>6. hash = [i \in 1 .. n |-> hash[i]]
  BY <1>1, LenProperties
<1> QED BY <1>1, <1>4, <1>5, <1>6

-----------------------------------------------------------------------------
(* Answers lead to torrents *)

\* What an answer with hashes says of the index.
AcceptedIsListed ==
  reply # Nothing /\ reply.status = 200 =>
    /\ BytesSent \in DOMAIN TorrentsOf
    /\ LET torrent == TorrentsOf[BytesSent]
       IN /\ reply.info_hash = HashText(torrent.canonical)
          /\ reply.original_info_hash = HashText(torrent.original)
          /\ \E entry \in shelf :
               /\ entry.canonical = torrent.canonical /\ entry.name = torrent.name
               /\ torrent.original \in entry.originals
               /\ entry.title = LastSaid("title")
               /\ entry.description = LastSaid("description")
               /\ entry.category = LastSaid("category")
               /\ entry.tags = LastSaid("tags")

\* What is accepted is on the index as the form has it.
LEMMA AcceptedIsPutOnShelf ==
  ASSUME IsShelf(shelf), FormWasSent, DraftIsWhatWasRead, NEW failed \in Failures,
         AddTorrent(failed)
  PROVE  AcceptedIsListed'
<1>1. PICK error, d, torrent :
        error = Refusal(failed) /\ d = draft /\ torrent = TorrentsOf[d.buffer]
  OBVIOUS
<1>2. FitsTheRequest(d, error, failed)
  BY <1>1, RefusalsAreSorted
<1>3. CASE error # Nothing
  <2>1. reply'.status = ServiceStatus(error)
    BY <1>1, <1>3 DEF AddTorrent, Answer, Refused
  <2>2. reply'.status \in {400, 404, 500, 503}
    BY <1>2, <1>3, <2>1 DEF FitsTheRequest
  <2> QED BY <2>2 DEF AcceptedIsListed
<1>4. CASE error = Nothing
  <2>1. /\ at = Len(form) /\ reply' = Accepts(torrent) /\ form' = form
        /\ shelf' = shelf \union {RowOf(d, torrent)}
    BY <1>1, <1>4 DEF AddTorrent, Answer
  <2>2. /\ d.title = LastSaid("title") /\ d.category = LastSaid("category")
        /\ d.description = LastSaid("description") /\ d.tags = LastSaid("tags")
        /\ d.buffer = BytesSent
    BY <1>1, <2>1, WholeFormIsRead
  <2>3. d.buffer \in DOMAIN TorrentsOf
    BY <1>2, <1>4, ErrorsAreSomething DEF FitsTheRequest, RequestIsBad
  <2>4. (\A name : LastSaid(name)' = LastSaid(name)) /\ BytesSent' = BytesSent
    BY <2>1 DEF LastSaid, BytesSent
  <2>5. /\ reply'.info_hash = HashText(torrent.canonical)
        /\ reply'.original_info_hash = HashText(torrent.original)
    BY <2>1 DEF Accepts
  <2>6. PICK entry : entry = RowOf(d, torrent)
    OBVIOUS
  <2>7. /\ entry.canonical = torrent.canonical /\ entry.name = torrent.name
        /\ torrent.original \in entry.originals
        /\ entry.title = d.title /\ entry.description = d.description
        /\ entry.category = d.category /\ entry.tags = d.tags
    BY <2>6 DEF RowOf
  <2>8. entry \in shelf'
    BY <2>1, <2>6
  <2> QED BY <1>1, <2>2, <2>3, <2>4, <2>5, <2>7, <2>8 DEF AcceptedIsListed
<1> QED BY <1>3, <1>4

\* An answer is about an index that does not change until the next request.
LEMMA AcceptedStays ==
  ASSUME AcceptedIsListed, UNCHANGED <<form, reply, shelf>>
  PROVE  AcceptedIsListed'
<1>1. (\A name : LastSaid(name)' = LastSaid(name)) /\ BytesSent' = BytesSent
  BY DEF LastSaid, BytesSent
<1> QED BY <1>1 DEF AcceptedIsListed

\* A request that is only sent is answered with no hash.
LEMMA SendAnswersNoHash ==
  ASSUME NEW h \in Headers, Send(h)
  PROVE  AcceptedIsListed'
<1>1. CASE reply' = Nothing
  BY <1>1 DEF AcceptedIsListed
<1>2. CASE reply' # Nothing
  <2>1. LoginError(h) \in {"LoggedInUserNotFound", Nothing}
    BY DEF LoginError
  <2>2. /\ ParsesToken(h) => LoginError(h) # Nothing
        /\ reply' = IF ParsesToken(h)
                    THEN Refused(ServiceStatus(LoginError(h)), LoginError(h), Nothing) ELSE Dropped
    BY <1>2 DEF Send
  <2>3. reply'.status \in {0, 401}
    BY <2>1, <2>2, Statuses DEF Refused, Dropped
  <2> QED BY <2>3 DEF AcceptedIsListed
<1> QED BY <1>1, <1>2

\* The text of a hash is lower case, and its upper case becomes it.
LEMMA EitherCaseOfHash ==
  ASSUME NEW hash \in Seq(Bytes)
  PROVE  /\ Lowercase(HashText(hash)) = HashText(hash)
         /\ Lowercase(Uppercase(HashText(hash))) = HashText(hash)
<1>1. PICK text, n : text = HashText(hash) /\ n = Len(hash)
  OBVIOUS
<1>2. n \in Nat /\ text \in [1 .. 2 * n -> Digits]
  BY <1>1, TextOfHash DEF IsTextOf
<1> QED BY <1>1, <1>2, EitherCase

\* The hash a file has, and the one it gets, lead to the one torrent that has it.
LEMMA HashesLeadToTorrent ==
  ASSUME IsShelf(shelf), NEW b \in DOMAIN TorrentsOf, NEW entry \in shelf,
         entry.canonical = TorrentsOf[b].canonical, entry.name = TorrentsOf[b].name,
         TorrentsOf[b].original \in entry.originals, NEW address,
         Lowercase(address) \in {HashText(TorrentsOf[b].canonical), HashText(TorrentsOf[b].original)}
  PROVE  Followed(address, Len(TorrentsOf[b].canonical))
           = IF TorrentsOf[b].name = "unprintable" THEN Dropped
             ELSE [status |-> 200, info_hash |-> HashText(TorrentsOf[b].canonical)]
<1>1. PICK c, o, n, name :
        /\ c = TorrentsOf[b].canonical /\ o = TorrentsOf[b].original
        /\ n = Len(c) /\ name = TorrentsOf[b].name
  OBVIOUS
<1>2. /\ c \in Seq(Bytes) /\ o \in Seq(Bytes) /\ Len(o) = n /\ c # Nothing /\ o # Nothing
  BY <1>1, IntakeAssumption, NothingIsNoNumber DEF HashesOfFiles
<1>3. ASSUME NEW r \in shelf, c \in r.originals \/ o \in r.originals PROVE r.canonical = c
  <2>1. PICK a \in DOMAIN TorrentsOf :
          TorrentsOf[a].original \in {c, o} /\ TorrentsOf[a].canonical = r.canonical
    BY <1>3 DEF IsShelf
  <2> QED BY <1>1, <2>1, IntakeAssumption DEF HashesOfFiles
<1>4. CanonicalFor(c) \in {c, Nothing}
  <2>1. PICK rows : rows = {r \in shelf : c \in r.originals}
    OBVIOUS
  <2>2. CanonicalFor(c) = IF rows = {} THEN Nothing ELSE (CHOOSE r \in rows : TRUE).canonical
    BY <2>1 DEF CanonicalFor
  <2>3. rows # {} => (CHOOSE r \in rows : TRUE) \in rows
    OBVIOUS
  <2> QED BY <1>3, <2>1, <2>2, <2>3
<1>5. CanonicalFor(o) = c
  <2>1. PICK rows : rows = {r \in shelf : o \in r.originals}
    OBVIOUS
  <2>2. CanonicalFor(o) = IF rows = {} THEN Nothing ELSE (CHOOSE r \in rows : TRUE).canonical
    BY <2>1 DEF CanonicalFor
  <2>3. entry \in rows
    BY <1>1, <2>1
  <2>4. (CHOOSE r \in rows : TRUE) \in rows
    BY <2>3
  <2> QED BY <1>3, <2>1, <2>2, <2>3, <2>4
<1>6. FileResponse(CHOOSE r \in {q \in shelf : q.canonical = c} : TRUE)
        = IF name = "unprintable" THEN Dropped ELSE [status |-> 200, info_hash |-> HashText(c)]
  <2>1. {q \in shelf : q.canonical = c} = {entry}
    BY <1>1 DEF IsShelf
  <2>2. (CHOOSE r \in {entry} : TRUE) = entry
    OBVIOUS
  <2>3. FileResponse(entry)
          = IF name = "unprintable" THEN Dropped ELSE [status |-> 200, info_hash |-> HashText(c)]
    BY <1>1 DEF FileResponse
  <2> QED BY <2>1, <2>2, <2>3
<1>7. {q \in shelf : q.canonical = c} # {}
  BY <1>1
<1>8. ASSUME NEW there, HashOfText(Lowercase(there), n) = c
      PROVE  DownloadAnswer(there, n)
               = IF name = "unprintable" THEN Dropped
                 ELSE [status |-> 200, info_hash |-> HashText(c)]
  <2>1. DownloadAnswer(there, n) = FileResponse(CHOOSE r \in {q \in shelf : q.canonical = c} : TRUE)
    BY <1>2, <1>4, <1>7, <1>8 DEF DownloadAnswer
  <2> QED BY <1>6, <2>1
<1>9. PICK answer :
        answer = IF name = "unprintable" THEN Dropped ELSE [status |-> 200, info_hash |-> HashText(c)]
  OBVIOUS
<1>10. answer.status # 307
  BY <1>9 DEF Dropped, Refused
<1>11. CASE HashOfText(Lowercase(address), n) = c
  <2>1. DownloadAnswer(address, n) = answer
    BY <1>8, <1>9, <1>11
  <2>2. Followed(address, n) = answer
    BY <1>10, <2>1 DEF Followed
  <2> QED BY <1>1, <1>9, <2>2
<1>12. CASE HashOfText(Lowercase(address), n) # c
  <2>1. Lowercase(address) = HashText(o)
    BY <1>1, <1>2, <1>12, HashOfItsText
  <2>2. HashOfText(Lowercase(address), n) = o
    BY <1>2, <2>1, HashOfItsText
  <2>3. DownloadAnswer(address, n) = [status |-> 307, info_hash |-> HashText(c)]
    BY <1>2, <1>5, <1>12, <2>2 DEF DownloadAnswer
  <2>4. Lowercase(HashText(c)) = HashText(c)
    BY <1>2, EitherCaseOfHash
  <2>5. HashOfText(Lowercase(HashText(c)), n) = c
    BY <1>1, <1>2, <2>4, HashOfItsText
  <2>6. DownloadAnswer(HashText(c), n) = answer
    BY <1>8, <1>9, <2>5
  <2>7. Followed(address, n) = DownloadAnswer(HashText(c), n)
    BY <2>3 DEF Followed
  <2> QED BY <1>1, <1>9, <2>6, <2>7
<1> QED BY <1>11, <1>12

\* What is on the index is found under both hashes of the answer.
LEMMA ListedIsFound == IntakeInv /\ AcceptedIsListed => AnswerLeadsToTheTorrent
<1> SUFFICES ASSUME IntakeInv, AcceptedIsListed, reply # Nothing, reply.status = 200
             PROVE  AnswerLeadsToTheTorrent
  BY DEF AnswerLeadsToTheTorrent
<1> PICK b : b = BytesSent
  OBVIOUS
<1> PICK torrent : torrent = TorrentsOf[b]
  OBVIOUS
<1>1. PICK n : n = Len(torrent.canonical)
  OBVIOUS
<1>2. /\ b \in DOMAIN TorrentsOf
      /\ reply.info_hash = HashText(torrent.canonical)
      /\ reply.original_info_hash = HashText(torrent.original)
  BY <1>1 DEF AcceptedIsListed
<1>3. PICK entry \in shelf :
        /\ entry.canonical = torrent.canonical /\ entry.name = torrent.name
        /\ torrent.original \in entry.originals
        /\ entry.title = LastSaid("title")
        /\ entry.description = LastSaid("description")
        /\ entry.category = LastSaid("category")
        /\ entry.tags = LastSaid("tags")
  BY <1>1 DEF AcceptedIsListed
<1>4. torrent.canonical \in Seq(Bytes) /\ torrent.original \in Seq(Bytes)
  BY <1>1, <1>2, IntakeAssumption DEF HashesOfFiles
<1> DEFINE hashes == {reply.info_hash, reply.original_info_hash}
<1>5. \A text \in hashes : Lowercase(text) = text /\ Lowercase(Uppercase(text)) = text
  BY <1>2, <1>4, EitherCaseOfHash
<1>6. ASSUME NEW address \in hashes \union {Uppercase(text) : text \in hashes}
      PROVE  Followed(address, n) = IF torrent.name = "unprintable" THEN Dropped
                                    ELSE [status |-> 200, info_hash |-> HashText(torrent.canonical)]
  <2>1. Lowercase(address) \in {HashText(torrent.canonical), HashText(torrent.original)}
    BY <1>2, <1>5
  <2>2. IsShelf(shelf)
    BY DEF IntakeInv
  <2> QED BY <1>1, <1>2, <1>3, <2>1, <2>2, HashesLeadToTorrent
<1> QED BY <1>1, <1>3, <1>6 DEF AnswerLeadsToTheTorrent

LEMMA AcceptedNext ==
  IntakeInv /\ AcceptedIsListed /\ [IntakeNext]_intakeVars => AcceptedIsListed'
<1> SUFFICES ASSUME IntakeInv, AcceptedIsListed, [IntakeNext]_intakeVars PROVE AcceptedIsListed'
  OBVIOUS
<1>1. ASSUME NEW h \in Headers, Send(h) PROVE AcceptedIsListed'
  BY <1>1, SendAnswersNoHash
<1>2. CASE ReadText \/ ReadTorrent \/ SkipField \/ Panic
  BY <1>2, ReadingAnswers DEF IntakeInv, AcceptedIsListed
<1>3. ASSUME NEW failed \in Failures, AddTorrent(failed) PROVE AcceptedIsListed'
  BY <1>3, AcceptedIsPutOnShelf DEF IntakeInv
<1>4. CASE UNCHANGED intakeVars
  BY <1>4, AcceptedStays DEF intakeVars
<1> QED BY <1>1, <1>2, <1>3, <1>4 DEF IntakeNext

\* For forms of any length, with fields in any order, repeated or in any number of
\* chunks, and hashes of any length: the torrent on the index is what the form said
\* last (build_add_torrent_request_from_payload, contexts/torrent/handlers.rs 308-376),
\* and both hashes of the answer, written by InfoHash::fmt and read by
\* InfoHash::from_str in either case of their digits (models/info_hash.rs 237-256),
\* lead to its file.
THEOREM AnswersLeadToTorrents == IntakeSpec => []AnswerLeadsToTheTorrent
<1>1. IntakeInit => AcceptedIsListed
  BY DEF IntakeInit, AcceptedIsListed
<1> QED BY <1>1, IntakeInvInit, IntakeInvNext, AcceptedNext, ListedIsFound, PTL DEF IntakeSpec

=============================================================================
