----------------------------- MODULE InfoHashes -----------------------------
(***************************************************************************)
(* Info-hashes.  The index drops the non-standard fields of the info       *)
(* dictionary of an uploaded file, and so changes its info-hash: several   *)
(* originals have the same canonical info-hash (models/torrent_file.rs,    *)
(* utils/parse_torrent.rs).                                                *)
(***************************************************************************)
CONSTANTS
  Hashes,    \* the info-hashes of the files that users hold
  Canonical  \* info-hash of a file once its non-standard fields are dropped

ASSUME CanonicalAssumption == Canonical \in [Hashes -> Hashes]
=============================================================================
