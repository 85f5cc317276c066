---------------------------- MODULE MCStatistics ----------------------------
(* Instances of Statistics. *)
EXTENDS Statistics

CONSTANTS h1, h2

AllHashes == {h1, h2}
TwoFigures == {0, 1}

\* Nothing tells the two apart before one of them is uploaded: let it be h1.
FirstIsH1 == [id \in 1 .. MaxId |-> IF id = 1 THEN {h1} ELSE AllHashes]

=============================================================================
