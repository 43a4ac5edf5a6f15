---------------------------- MODULE MCTokenEngine ----------------------------
(* Finite instances of TokenEngine. *)
EXTENDS TokenEngine, TLC

CONSTANTS r1, r2, c1, l1

OneLock == [r \in Role |-> l1]

\* One role on one config; it opts in to /revoke.
RevokingSpec == {[config |-> c1, ttl |-> 2, skew |-> 1, revoke |-> TRUE]}

\* One role on one config; the token lifetime is the default.
PlainSpec == {[config |-> c1, ttl |-> 0, skew |-> 1, revoke |-> FALSE]}

ReqSymmetry == Permutations(Req)
=============================================================================
