------------------------------ MODULE Listing ------------------------------
(***************************************************************************)
(* A client reads the list of torrents page by page while torrents are     *)
(* uploaded and deleted: the request becomes a specification with an       *)
(* offset, the specification a query with filters, a sort order and a      *)
(* LIMIT (services/torrent.rs, get_torrents_search_sorted_paginated).      *)
(* Ties of the sort order are broken as the database likes.                *)
(***************************************************************************)
EXTENDS Naturals, Sequences, SequencesExt

CONSTANTS
  Unset,             \* a parameter that is not given
  Catalog,           \* the torrents there can be, as records of their rows
  Categories, Tags,  \* the names that are known
  Requests,          \* what clients ask for, without the page
  DefaultPageSize,   \* settings.api.default_torrent_page_size
  MaxPageSize,       \* settings.api.max_torrent_page_size
  U32,               \* 2^32, the range of the product of page and page size
  MaxPages           \* pages a client reads, a bound

ASSUME ListingAssumption ==
  /\ Unset \notin Nat
  /\ {DefaultPageSize, MaxPageSize} \subseteq Nat
  /\ U32 \in Nat \ {0}  \* more torrents than that have no page of their own
  /\ IsFiniteSet(Catalog) /\ IsFiniteSet(Tags)
  /\ Cardinality(Catalog) + MaxPageSize <= U32
  /\ Catalog \subseteq [id : Nat, category : Categories, tags : SUBSET Tags, date : Nat,
                        seeders : Nat, leechers : Nat, title : Nat, size : Nat]
  /\ \A r \in Requests : r.page_size \in Nat \union {Unset}

VARIABLES
  listed,    \* the torrents that are in the tables
  request,   \* what the client asks for, the same on every page
  page,      \* the next page it asks for
  read,      \* the rows it has read (history)
  atStart,   \* the torrents that were listed at its first page (history)
  changes    \* "uploads" and "deletions" since its first page (history)

listVars == <<listed, request, page, read, atStart, changes>>

-----------------------------------------------------------------------------
(* From a request to a specification.                                      *)

\* A text of names between commas; one that is empty gives no list.
AsCsv(text) == IF text \in {Unset, <<"">>} THEN Unset ELSE text

\* Mutant: the page size is clamped after the offset was computed.
Offset_Unclamped(p, size) ==
  (p * (IF request.page_size = Unset THEN DefaultPageSize ELSE request.page_size)) % U32

\* page * page_size, two 32-bit numbers, before it becomes a 64-bit one.
Offset(p, size) == (p * size) % U32

PageSize(requested) ==
  LET size == IF requested = Unset THEN DefaultPageSize ELSE requested
  IN IF size > MaxPageSize THEN MaxPageSize ELSE size

Specification(req, p) ==
  LET size == PageSize(req.page_size)
  IN [search     |-> req.search,
      categories |-> AsCsv(req.categories),
      tags       |-> AsCsv(req.tags),
      sort       |-> IF req.sort = Unset THEN "UploadedDesc" ELSE req.sort,
      offset     |-> Offset(p, size),
      page_size  |-> size]

-----------------------------------------------------------------------------
(* The query.                                                              *)

\* Names that are not known make no filter; nor does a list of such names only.
Filter(names, known) == IF names = Unset THEN {} ELSE ToSet(names) \intersect known

\* Mutant: the torrents of any asked category or any asked tag.
Matches_Either(spec, t) ==
  LET categories == Filter(spec.categories, Categories)
      tags == Filter(spec.tags, Tags)
  IN /\ spec.search = Unset \/ t.title \in spec.search
     /\ categories \union tags = {} \/ t.category \in categories \/ t.tags \intersect tags # {}

\* The joins and the LIKE of the query; a search is the set of titles it is in.
Matches(spec, t) ==
  LET categories == Filter(spec.categories, Categories)
      tags == Filter(spec.tags, Tags)
  IN /\ spec.search = Unset \/ t.title \in spec.search
     /\ categories = {} \/ t.category \in categories
     /\ tags = {} \/ t.tags \intersect tags # {}

\* The join with the tag links makes a row for every asked tag of the torrent,
\* and the figures of all its rows are summed up.
Listed(spec, t) ==
  LET links == Cardinality(t.tags \intersect Filter(spec.tags, Tags))
      times == IF links = 0 THEN 1 ELSE links
  IN [t EXCEPT !.seeders = times * @, !.leechers = times * @]

Rows(spec) == {Listed(spec, t) : t \in {u \in listed : Matches(spec, u)}}

\* sort_query: whether a row may come before another.
InOrder(sort, a, b) ==
  CASE sort = "UploadedAsc"  -> a.date <= b.date
    [] sort = "UploadedDesc" -> a.date >= b.date
    [] sort = "SeedersAsc"   -> a.seeders <= b.seeders
    [] sort = "SeedersDesc"  -> a.seeders >= b.seeders
    [] sort = "LeechersAsc"  -> a.leechers <= b.leechers
    [] sort = "LeechersDesc" -> a.leechers >= b.leechers
    [] sort = "NameAsc"      -> a.title <= b.title
    [] sort = "NameDesc"     -> a.title >= b.title
    [] sort = "SizeAsc"      -> a.size <= b.size
    [] sort = "SizeDesc"     -> a.size >= b.size

\* The orders the database may give the rows of the query.
Sorted(spec) ==
  {rows \in SetToSeqs(Rows(spec)) :
     \A i, j \in 1 .. Len(rows) : i < j => InOrder(spec.sort, rows[i], rows[j])}

\* LIMIT offset, page_size
Limit(rows, spec) == SubSeq(rows, spec.offset + 1, Min({spec.offset + spec.page_size, Len(rows)}))

-----------------------------------------------------------------------------
(* The client, and what changes under it.                                  *)

ListInit ==
  /\ listed \in SUBSET Catalog
  /\ request \in Requests
  /\ page = 0
  /\ read = <<>>
  /\ atStart = {}
  /\ changes = {}

\* get_torrents: the next page; the client that gets an empty one has finished.
ReadPage ==
  /\ page \in 0 .. MaxPages - 1
  /\ \E rows \in Sorted(Specification(request, page)) :
       LET results == Limit(rows, Specification(request, page))
       IN /\ read' = read \o results
          /\ page' = IF results = <<>> THEN Unset ELSE page + 1
  /\ atStart' = IF page = 0 THEN listed ELSE atStart
  /\ changes' = IF page = 0 THEN {} ELSE changes
  /\ UNCHANGED <<listed, request>>

\* A torrent is uploaded, with a date that is not before the others'.
UploadListed(t) ==
  /\ page # Unset
  /\ t \notin listed
  /\ \A u \in listed : u.date <= t.date
  /\ listed' = listed \union {t}
  /\ changes' = changes \union {"uploads"}
  /\ UNCHANGED <<request, page, read, atStart>>

DeleteListed(t) ==
  /\ page # Unset
  /\ t \in listed
  /\ listed' = listed \ {t}
  /\ changes' = changes \union {"deletions"}
  /\ UNCHANGED <<request, page, read, atStart>>

ListNext == ReadPage \/ \E t \in Catalog : UploadListed(t) \/ DeleteListed(t)

ListSpec == ListInit /\ [][ListNext]_listVars

-----------------------------------------------------------------------------

\* Every listed torrent that matches could be told from the others by its key.
KeysDiffer(spec, torrents) ==
  \A t, u \in {Listed(spec, v) : v \in {w \in torrents : Matches(spec, w)}} :
    t # u => ~(InOrder(spec.sort, t, u) /\ InOrder(spec.sort, u, t))

\* The client got an empty page, and not because it asked for no rows.
Finished == page = Unset /\ PageSize(request.page_size) > 0

\* A client that reads until an empty page has seen every torrent that matched at
\* its first page, whatever was uploaded meanwhile, as long as nothing was
\* deleted and no two torrents have the same sort key:
\* the offset and the limit that listing_specification_from_user_request
\* computes cut the list into pages without gaps.
PagesMissNothing ==
  LET spec == Specification(request, 0)
  IN Finished /\ "deletions" \notin changes /\ KeysDiffer(spec, listed) =>
       \A t \in atStart : Matches(spec, t) => Listed(spec, t) \in ToSet(read)

\* What a client reads is what it asked for: it has the category and a tag that
\* were asked for, when they are known; a row comes once as long as nothing is
\* uploaded; and the figures of a row are the torrent's own, as long as it has
\* no two of the asked tags, for which the query counts them twice.
PagesAreWhatWasAsked ==
  LET spec == Specification(request, 0)
      categories == Filter(AsCsv(request.categories), Categories)
      tags == Filter(AsCsv(request.tags), Tags)
      all == listed \union atStart
  IN /\ \A row \in ToSet(read) :
          /\ categories # {} => row.category \in categories
          /\ tags # {} => row.tags \intersect tags # {}
          /\ request.search # Unset => row.title \in request.search
          /\ Cardinality(row.tags \intersect tags) <= 1 => row \in Catalog
     /\ "uploads" \notin changes /\ KeysDiffer(spec, all) =>
          \A i, j \in DOMAIN read : read[i] = read[j] => i = j

=============================================================================
