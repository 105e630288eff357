----------------------------- MODULE MCJwksCache -----------------------------
(* A small instance of JwksCache for TLC.                                  *)
EXTENDS JwksCache, TLC

RequestSymmetry == Permutations(Requests)
=============================================================================
