------------------------------ MODULE TokenCache ------------------------------
(***************************************************************************)
(* What the engine promises about the cache entry of each role, without    *)
(* requests, locks, clocks or Salesforce: a role holds the token of one    *)
(* mint or of none, only what is held is handed out, and the mint that     *)
(* replaces it, now or after the entry was dropped, comes after all that   *)
(* were handed out.  Mints are numbered in the order in which Salesforce   *)
(* granted them; two may have returned the same access token.              *)
(***************************************************************************)
EXTENDS Naturals

CONSTANT Role

VARIABLES
    held,    \* the number of the mint each role holds, 0 for none
    handed   \* the mints handed out: a role and a number

vars == <<held, handed>>

Init == held = [r \in Role |-> 0] /\ handed = {}

\* The held token is handed out.
Hand(r) ==
    /\ held[r] # 0
    /\ handed' = handed \cup {[role |-> r, id |-> held[r]]}
    /\ UNCHANGED held

\* The role gets the token of a later mint, which may be handed out at once.
Renew(r) ==
    /\ held'[r] \in Nat /\ held'[r] > held[r]
    /\ \A h \in handed : h.role = r => h.id < held'[r]
    /\ held' = [held EXCEPT ![r] = held'[r]]
    /\ handed' \in {handed, handed \cup {[role |-> r, id |-> held'[r]]}}

\* The role loses its token.
Drop(r) ==
    /\ held' = [held EXCEPT ![r] = 0]
    /\ UNCHANGED handed

Next == \E r \in Role : Hand(r) \/ Renew(r) \/ Drop(r)

Spec == Init /\ [][Next]_vars
===============================================================================
