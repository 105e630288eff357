------------------------- MODULE MCProfileMigration -------------------------
(* Small instances of ProfileMigration for TLC.                            *)
EXTENDS ProfileMigration, TLC

CONSTANTS V1, V2

Legacy(u, v) == [shape |-> "legacy", id |-> u, val |-> v, created |-> 1, updated |-> 3]
Canonical(u, v) == [shape |-> "canonical", id |-> u, val |-> v, created |-> 0, updated |-> 2]

(* Retired, under its own id or another, and with timestamps out of order  *)
(* by less than the millisecond that the conversion keeps.                 *)
Disordered == [Legacy(1, V1) EXCEPT !.created = 3, !.updated = 2]
Starts == {NoDoc, Legacy(1, V1), Legacy(2, V1), Disordered}
Writes == {NoDoc, Legacy(1, V2), Canonical(1, V2)}

RunSymmetry == Permutations(Runs)
=============================================================================
