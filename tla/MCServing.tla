------------------------------ MODULE MCServing ------------------------------
(* An instance of Serving for TLC: x1 is an original whose torrent is c1. *)
EXTENDS Serving, TLC

CONSTANTS alice, c1, x1, c2

MCHashes == {c1, x1, c2}
MCCanonical == (c1 :> c1) @@ (x1 :> c1) @@ (c2 :> c2)

Ask(op, bearer, hash) == [op |-> op, user |-> alice, bearer |-> bearer, hash |-> hash]

MCAsks ==
  { Ask("login", FALSE, c1), Ask("renew", TRUE, c1), Ask("verify", TRUE, c1),
    Ask("download", TRUE, c1), Ask("details", TRUE, c1), Ask("download", FALSE, x1) }

\* None, or two that overlapping requests were given.
MCEarlierKeys ==
  { {}, {[user |-> alice, key |-> "earlier", valid_until |-> 3],
         [user |-> alice, key |-> "older", valid_until |-> 2]} }

Symmetry == Permutations(Requests)
=============================================================================
