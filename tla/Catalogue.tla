----------------------------- MODULE Catalogue -----------------------------
(***************************************************************************)
(* What the index promises about info-hashes: a catalogue of torrents,     *)
(* each with the originals it was uploaded as, where an original leads to  *)
(* one torrent at most and no torrent is without an original.              *)
(***************************************************************************)
CONSTANT Hashes

VARIABLE catalogue  \* from the canonical hash of each torrent to its originals

IsNew(original) == \A c \in DOMAIN catalogue : original \notin catalogue[c]

Publish(canonical, original) ==
  /\ canonical \notin DOMAIN catalogue
  /\ IsNew(original)
  /\ catalogue' = [c \in DOMAIN catalogue \cup {canonical} |->
                     IF c = canonical THEN {original} ELSE catalogue[c]]

Associate(canonical, original) ==
  /\ canonical \in DOMAIN catalogue
  /\ IsNew(original)
  /\ catalogue' = [catalogue EXCEPT ![canonical] = @ \cup {original}]

\* A torrent goes with all its originals.
Withdraw(canonical) ==
  /\ canonical \in DOMAIN catalogue
  /\ catalogue' = [c \in DOMAIN catalogue \ {canonical} |-> catalogue[c]]

Init == catalogue = [c \in {} |-> {}]

Next == \E canonical \in Hashes :
  \/ Withdraw(canonical)
  \/ \E original \in Hashes : Publish(canonical, original) \/ Associate(canonical, original)

Spec == Init /\ [][Next]_catalogue

=============================================================================
