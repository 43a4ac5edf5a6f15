----------------------------- MODULE LeasesProofs -----------------------------
(***************************************************************************)
(* Leases for any set of leases, terms and increments: a renewal obeys the *)
(* role as it is at that moment.                                           *)
(***************************************************************************)
EXTENDS Leases, TLAPS

Terms == [ttl : Nat, max_ttl : Nat]

\* The facts the argument needs: a lease has an instant of issue, and a role that
\* is not stored has no term, so that its absence never stands for a bound.
LeaseInv ==
    /\ now \in Nat
    /\ role.term \in Terms
    /\ role.stored \/ role.term = Unset
    /\ DOMAIN lease = Lease
    /\ \A l \in Lease : lease[l].issue \in Nat /\ lease[l].term \in Terms

LEMMA UnsetTyped == Unset \in Terms
BY DEF Unset, Terms

\* The end of a lease is within its term's maximum (CalculateTTL).
LEMMA EndBounded ==
    ASSUME now \in Nat, NEW inc \in Nat, NEW t \in Terms, NEW i \in Nat, t.max_ttl > 0
    PROVE  leaseEnd(inc, t, i) <= i + t.max_ttl
BY LeaseAssumption DEF leaseEnd, maxEnd, Least, Terms

\* LeaseInv is inductive.
LEMMA LeaseInvariant == Spec => []LeaseInv
<1>1. Init => LeaseInv
  <2>1. Init => role.term \in Terms /\ role.stored
    BY LeaseAssumption DEF Init, Terms
  <2> QED BY <2>1, UnsetTyped DEF Init, LeaseInv, NoLease
<1>2. LeaseInv /\ [Next]_vars => LeaseInv'
  <2> SUFFICES ASSUME LeaseInv, [Next]_vars PROVE LeaseInv'
    OBVIOUS
  <2> USE DEF LeaseInv
  <2>1. ASSUME NEW l \in Lease, Issue(l) PROVE LeaseInv'
    BY <2>1 DEF Issue
  <2>2. ASSUME NEW l \in Lease, NEW inc \in Increment, Renew(l, inc) PROVE LeaseInv'
    BY <2>2 DEF Renew, renewTerm
  <2>3. ASSUME NEW l \in Lease, Expire(l) \/ Revoke(l) PROVE LeaseInv'
    BY <2>3, UnsetTyped DEF Expire, Revoke, secretAccessTokenRevoke, NoLease
  <2>4. ASSUME NEW l \in Lease, RevokeFails(l) PROVE LeaseInv'
    BY <2>4 DEF RevokeFails
  <2>5. CASE Rotate
    BY <2>5 DEF Rotate
  <2>6. ASSUME NEW t \in Term, WriteRole(t) PROVE LeaseInv'
    BY <2>6, LeaseAssumption DEF WriteRole, Terms
  <2>7. CASE DeleteRole
    BY <2>7, UnsetTyped DEF DeleteRole
  <2>8. CASE Tick
    BY <2>8 DEF Tick
  <2>9. CASE UNCHANGED vars
    BY <2>9 DEF vars
  <2> QED BY <2>1, <2>2, <2>3, <2>4, <2>5, <2>6, <2>7, <2>8, <2>9 DEF Next
<1> QED BY <1>1, <1>2, PTL DEF Spec

\* For every instance: a renewal ends within the max_ttl that the role has at that
\* moment, counted from the issue of the lease (secretAccessTokenRenew).
THEOREM RenewalCorrect == Spec => RenewalObeysRole
<1>1. LeaseInv /\ [Next]_vars
        => [\A l \in Lease : Renews(l) /\ role.term.max_ttl > 0
              => lease'[l].end <= lease[l].issue + role.term.max_ttl]_vars
  <2> SUFFICES ASSUME LeaseInv, Next, NEW l \in Lease, Renews(l), role.term.max_ttl > 0
               PROVE  lease'[l].end <= lease[l].issue + role.term.max_ttl
    BY DEF vars
  <2> USE DEF LeaseInv
  <2>1. role.stored
    BY DEF Unset
  <2>2. ASSUME NEW k \in Lease, NEW inc \in Increment, Renew(k, inc)
        PROVE  lease'[l].end <= lease[l].issue + role.term.max_ttl
    <3>1. k = l
      BY <2>2 DEF Renew, Renews
    <3>2. lease'[l].end = leaseEnd(inc, role.term, lease[l].issue)
      BY <2>1, <2>2, <3>1 DEF Renew, renewTerm
    <3>3. inc \in Nat
      BY LeaseAssumption
    <3> QED BY <3>2, <3>3, EndBounded
  <2>3. ASSUME NEW k \in Lease, Issue(k) PROVE FALSE
    BY <2>3 DEF Issue, Renews
  <2>4. ASSUME NEW k \in Lease, Expire(k) \/ Revoke(k) PROVE FALSE
    BY <2>4 DEF Expire, Revoke, secretAccessTokenRevoke, NoLease, Renews
  <2>5. ASSUME lease' = lease PROVE FALSE
    BY <2>5 DEF Renews
  <2> QED BY <2>2, <2>3, <2>4, <2>5 DEF Next, RevokeFails, Rotate, WriteRole, DeleteRole, Tick
<1> QED BY <1>1, LeaseInvariant, PTL DEF Spec, RenewalObeysRole
===============================================================================
