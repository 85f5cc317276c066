---------------------------- MODULE MCTorrentIndex ----------------------------
(***************************************************************************)
(* Instances of TorrentIndex for TLC.  x1 and c1 are two files with the    *)
(* same canonical form, c1 being that form; c2 is another torrent.         *)
(***************************************************************************)
EXTENDS TorrentIndex, TLC

CONSTANTS c1, x1, c2

MCHashes == {c1, x1, c2}
MCCanonical == (c1 :> c1) @@ (x1 :> c1) @@ (c2 :> c2)

Symmetry == Permutations(Requests) \cup Permutations(Titles)
=============================================================================
