----------------------------- MODULE TrackerApi -----------------------------
(***************************************************************************)
(* The whitelist of the BitTorrent tracker and the calls the index makes   *)
(* to change it (tracker/api.rs, tracker/service.rs).  The tracker is a    *)
(* program of its own: it is external, and modelled from what the index    *)
(* sends it and what answers the index is written to expect.               *)
(*                                                                         *)
(* A request of the index makes at most one whitelist call.  The tracker   *)
(* may carry it out at any time after it was sent, also after the index    *)
(* gave up waiting for the answer, or never.                               *)
(***************************************************************************)
EXTENDS InfoHashes

CONSTANT Requests  \* the requests the index serves

VARIABLES
  whitelist, \* the info-hashes the tracker accepts
  call       \* the whitelist call of each request

tracker == <<whitelist, call>>

NoCall == [kind |-> "none"]

\* status: "sent" until the tracker carries it out ("applied") or it is lost,
\* on the way or because the tracker refuses it ("lost").
Call == [kind : {"add", "remove"}, info_hash : Hashes,
         status : {"sent", "applied", "lost"}]

TrackerTypeOK ==
  /\ whitelist \in SUBSET Hashes
  /\ call \in [Requests -> Call \cup {NoCall}]

TrackerInit ==
  /\ whitelist = {}
  /\ call = [r \in Requests |-> NoCall]

Pending(r) == call[r].kind # "none" /\ call[r].status = "sent"
Applied(r) == call[r].kind # "none" /\ call[r].status = "applied"

\* whitelist_info_hash / remove_info_hash_from_whitelist put the call on the wire.
SendCall(r, kind, hash) ==
  /\ call' = [call EXCEPT ![r] = [kind |-> kind, info_hash |-> hash, status |-> "sent"]]
  /\ UNCHANGED whitelist

\* The tracker carries out the call.  Adding a listed hash or removing an
\* unlisted one has no effect.
TrackerApplies(r) ==
  /\ Pending(r)
  /\ call' = [call EXCEPT ![r].status = "applied"]
  /\ whitelist' = IF call[r].kind = "add"
                  THEN whitelist \cup {call[r].info_hash}
                  ELSE whitelist \ {call[r].info_hash}

\* The call never has an effect: connection refused, invalid token, error 500.
TrackerLoses(r) ==
  /\ Pending(r)
  /\ call' = [call EXCEPT ![r].status = "lost"]
  /\ UNCHANGED whitelist

=============================================================================
