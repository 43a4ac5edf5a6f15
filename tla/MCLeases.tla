------------------------------- MODULE MCLeases -------------------------------
(***************************************************************************)
(* Finite instances of Leases.                                             *)
(***************************************************************************)
EXTENDS Leases

\* A role without lease settings, with a short maximum, and with a longer one.
Terms == {[ttl |-> 0, max_ttl |-> 0], [ttl |-> 1, max_ttl |-> 1], [ttl |-> 1, max_ttl |-> 2]}
===============================================================================
