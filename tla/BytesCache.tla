----------------------------- MODULE BytesCache -----------------------------
(***************************************************************************)
(* The in-memory cache of cache/mod.rs: entries in the order they were     *)
(* inserted, a limit for one entry and a capacity for all of them.  Adding *)
(* an entry evicts the oldest ones.  The methods run under the write lock  *)
(* of cache/image/manager.rs, so each is one step; an entry is abstracted  *)
(* to its key and its size.                                                *)
(***************************************************************************)
EXTENDS Naturals, Sequences, SequencesExt

CONSTANTS
  Keys,            \* the URLs of images
  Sizes,           \* how many bytes an image can have
  Capacity,        \* total_capacity
  EntrySizeLimit   \* entry_size_limit

\* with_capacity_and_entry_size_limit refuses to build any other cache.
ASSUME CacheAssumption ==
  /\ Sizes \subseteq Nat
  /\ Capacity \in Nat
  /\ EntrySizeLimit \in 0 .. Capacity

VARIABLE entries  \* bytes_table, the oldest entry first

Entry == [key : Keys, size : Nat]

CacheTypeOK == entries \in Seq(Entry)

CacheInit == entries = <<>>

TotalSize(es) == FoldLeft(LAMBDA total, e : total + e.size, 0, es)

IsCached(key) == \E i \in DOMAIN entries : entries[i].key = key

\* Mutant: swap_remove instead of shift_remove, the last entry takes the place.
WithoutKey_Swap(key) ==
  LET last == Len(entries)
      moved == [i \in DOMAIN entries |->
                  IF entries[i].key = key THEN entries[last] ELSE entries[i]]
  IN IF IsCached(key) THEN Front(moved) ELSE entries

\* shift_remove: the old entry of the key goes, the others keep their order.
WithoutKey(key) ==
  IF IsCached(key) THEN RemoveAt(entries, CHOOSE i \in DOMAIN entries : entries[i].key = key)
  ELSE entries

\* Mutant: the entries that are there already are not counted.
SizeToBeFreed_Empty(es, size) ==
  IF size > Capacity THEN size - Capacity ELSE 0

\* free_size, the saturating difference between what is needed and the room left.
SizeToBeFreed(es, size) ==
  LET free == Capacity - TotalSize(es)
  IN IF size > free THEN size - free ELSE 0

\* How many of the oldest entries can be popped to free that much.
EnoughPops(es, size) ==
  {k \in 0 .. Len(es) : TotalSize(SubSeq(es, 1, k)) >= SizeToBeFreed(es, size)}

\* free_size: entries are popped, the oldest first, until enough is freed.
FreeSize(es, size) == SubSeq(es, Min(EnoughPops(es, size)) + 1, Len(es))

\* set.  An image above the limit is refused and nothing changes.
CacheSet(key, size) ==
  /\ size <= EntrySizeLimit
  /\ EnoughPops(WithoutKey(key), size) # {}
  /\ entries' = Append(FreeSize(WithoutKey(key), size), [key |-> key, size |-> size])

CacheNext == \E key \in Keys, size \in Sizes : CacheSet(key, size)

CacheSpec == CacheInit /\ [][CacheNext]_entries

-----------------------------------------------------------------------------

\* The two places where free_size could panic never do: the cache holds no more
\* bytes than its capacity, from which their number is subtracted, and for every
\* image that passes the entry limit the entries that are left hold enough bytes
\* to make room ("bytes cache has no more entries, yet there isn't enough space").
FitsCapacity ==
  /\ TotalSize(entries) <= Capacity
  /\ \A key \in Keys, size \in Sizes :
       size <= EntrySizeLimit => EnoughPops(WithoutKey(key), size) # {}

\* Reference definition of eviction: the other entries are the longest run of the
\* newest ones that fits beside the image that was added, in their old order.
AddsAfterNewestThatFit ==
  LET added == Last(entries')
      differ(i) == \A j \in 1 .. i : entries[j].key # added.key
      others == [i \in 1 .. IF IsCached(added.key) THEN Len(entries) - 1 ELSE Len(entries) |->
                   IF differ(i) THEN entries[i] ELSE entries[i + 1]]
      newest(n) == SubSeq(others, Len(others) - n + 1, Len(others))
      kept == CHOOSE n \in 0 .. Len(others) :
                /\ TotalSize(newest(n)) + added.size <= Capacity
                /\ \A m \in (n + 1) .. Len(others) :
                     TotalSize(newest(m)) + added.size > Capacity
  IN entries' = Append(newest(kept), added)

\* Whatever changes the cache adds an image after the newest entries that fit.
KeepsNewestThatFit == [][entries' # <<>> /\ AddsAfterNewestThatFit]_entries

=============================================================================
