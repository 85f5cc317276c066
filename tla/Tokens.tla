-------------------------------- MODULE Tokens --------------------------------
(***************************************************************************)
(* JSON web tokens (services/authentication.rs) and the keys of users at   *)
(* the tracker (torrust_tracker_keys, tracker/service.rs).  Times are      *)
(* seconds; a key is named for the request it was issued for, if that is   *)
(* one of those that are modelled.                                         *)
(***************************************************************************)
EXTENDS Integers

CONSTANTS
  Users,
  Requests,
  EarlierKeys,     \* sets of keys, issued before, that the table may start with
  TokenValidity,   \* two weeks
  RenewalWindow,   \* one week
  KeyValidity,     \* tracker.token_valid_seconds
  KeyMargin,       \* one hour
  U64              \* the number of values of a u64

ASSUME TimesAssumption ==
  /\ TokenValidity \in Nat \ {0}
  /\ RenewalWindow \in 0 .. TokenValidity
  /\ KeyMargin \in Nat
  /\ KeyValidity \in Nat /\ KeyValidity > KeyMargin
  /\ U64 \in Nat /\ U64 > RenewalWindow + TokenValidity

VARIABLES
  now,
  keys             \* rows of torrust_tracker_keys

Token == [user : Users, exp : Nat]
Key == [user : Users, key : Requests \cup {"earlier", "older"}, valid_until : Nat]

Sign(user) == [user |-> user, exp |-> now + TokenValidity]

IsAlive(token) == token.exp >= now

\* The subtraction of two u64, as a release build does it: it wraps.
TimeLeft(token) == (token.exp - now) % U64

\* Mutant: a token that has a week left is renewed too.
NeedsRenewal_AtMost(token) == TimeLeft(token) <= RenewalWindow

NeedsRenewal(token) == TimeLeft(token) < RenewalWindow

-----------------------------------------------------------------------------

\* Mutant: a key that is about to expire will do.
UsableKeys_NoMargin(user) == {k \in keys : k.user = user /\ k.valid_until >= now}

\* Mutant: the margin is added twice.
UsableKeys_LongMargin(user) ==
  {k \in keys : k.user = user /\ k.valid_until > now + KeyMargin + KeyMargin}

UsableKeys(user) == {k \in keys : k.user = user /\ k.valid_until > now + KeyMargin}

\* ORDER BY date_expiry DESC; fetch_one takes the first row.
FirstOf(rows) == {k \in rows : \A l \in rows : k.valid_until >= l.valid_until}

\* add_tracker_key
InsertKey(key) == keys' = keys \cup {key}

\* ON DELETE CASCADE
DeleteKeysOf(user) == keys' = {k \in keys : k.user # user}

=============================================================================
