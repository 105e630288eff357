-------------------------- MODULE MCProfileService --------------------------
(* Small instances of ProfileService for TLC.                              *)
EXTENDS ProfileService, TLC

CONSTANTS F1, F2, V0, V1, U1

(* A profile at the last timestamp, one that no write can follow, and one  *)
(* that was stored earlier with the first value in every field.            *)
Old == [content |-> [f \in Fields |-> V0], created |-> 0, updated |-> 0]
Exhausted == [Old EXCEPT !.updated = MaxTime]

Create(u) == [op |-> "create", user |-> u, arg |-> [f \in Fields |-> V0]]
Update(u, f, v) == [op |-> "update", user |-> u, arg |-> [g \in {f} |-> v]]
Plain(op, u) == [op |-> op, user |-> u, arg |-> [g \in {} |-> V0]]

CallsOneUser ==
    {Create(U1), Plain("delete", U1), Plain("get", U1)}
        \cup {Update(U1, f, V1) : f \in Fields}
CreateOrGet == {Create(U1), Plain("get", U1)}

AnyStart == {NoDoc, Foreign, Old, Exhausted}
OldStart == {Old}
EmptyStart == {NoDoc}

RequestSymmetry == Permutations(Requests)
=============================================================================
