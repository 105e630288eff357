------------------------- MODULE MCTokenVerification -------------------------
(* Instances of TokenVerification for TLC: one good token and those that   *)
(* differ from it in one respect or in a pair of them.                     *)
EXTENDS TokenVerification

Good == [header |-> TRUE, payload |-> TRUE, alg |-> "RS256", kid |-> "k1",
         signer |-> "k1", sub |-> "valid", tenant |-> FALSE, exp |-> 2, iat |-> 1,
         auth_time |-> 1, iss |-> "ours", aud |-> "ours"]
Unsecured == [Good EXCEPT !.alg = "none", !.kid = Missing, !.signer = "nobody"]

MCTokens ==
    {Good, Unsecured, [Good EXCEPT !.header = FALSE], [Good EXCEPT !.payload = FALSE],
     [Unsecured EXCEPT !.payload = FALSE], [Unsecured EXCEPT !.signer = "k1"]}
    \cup {[Good EXCEPT !.alg = alg] : alg \in {"HS256", "junk"}}
    \cup {[Good EXCEPT !.kid = kid] : kid \in {Missing, "k2", "broken"}}
    \cup {[Good EXCEPT !.kid = "broken", !.signer = "broken"]}
    \cup {[Good EXCEPT !.signer = signer] : signer \in {"k2", "nobody"}}
    \cup {[Good EXCEPT !.sub = sub] : sub \in {Missing, "invalid"}}
    \cup {[Good EXCEPT !.tenant = TRUE]}
    \cup {[Good EXCEPT !.iss = who] : who \in {Missing, "other"}}
    \cup {[Good EXCEPT !.aud = who] : who \in {Missing, "other"}}
    \cup {[Good EXCEPT !.exp = time] : time \in {Missing, 0}}
    \cup {[Good EXCEPT !.iat = time] : time \in {Missing, 4}}
    \cup {[Good EXCEPT !.auth_time = time] : time \in {Missing, 0, 4}}
    \cup {[Good EXCEPT !.exp = 0, !.iss = "other"], [Good EXCEPT !.exp = 0, !.signer = "k2"],
          [Unsecured EXCEPT !.exp = 0], [Unsecured EXCEPT !.auth_time = 3],
          [Unsecured EXCEPT !.sub = "invalid"]}
=============================================================================
