------------------------------- MODULE MCAuth -------------------------------
(* Four logins, three of them with one key, a limit of two, one table      *)
(* entry less than there are keys and one hashing permit, so that every    *)
(* bound is met; two setups at the same time; two calls with the token of  *)
(* the fourth login.                                                       *)
EXTENDS Auth, TLC

CONSTANTS l1, l2, l3, l4, k1, k2, s1, s2, c1, c2

MCKeyOf == (l1 :> k1) @@ (l2 :> k1) @@ (l3 :> k1) @@ (l4 :> k2)

Symmetry == Permutations({l1, l2, l3}) \cup Permutations({s1, s2}) \cup Permutations({c1, c2})
=============================================================================
