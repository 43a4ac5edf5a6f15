-------------------------------- MODULE Leases --------------------------------
(***************************************************************************)
(* The leases of one role: pathCredsRead grants them, secretAccessToken's  *)
(* Renew extends them and its Revoke ends them.  Vault's expiration        *)
(* manager, which calls these and keeps the clock of each lease, is        *)
(* modelled from how the handlers use it.  Handlers are single steps here: *)
(* their interleaving is the subject of TokenEngine.                       *)
(***************************************************************************)
EXTENDS Tokens

CONSTANTS
    Lease,         \* lease slots
    Term,          \* the [ttl, max_ttl] a role may be written with (0: unset)
    Increment,     \* what a client may ask for in a renewal (0: nothing)
    TokenTTL,      \* the role's token_ttl and renew_skew
    RenewSkew,
    MountDefault,  \* the mount's default and maximum lease TTL
    MountMax,
    MaxTime, MaxTokens, MaxFaults   \* bounds of a finite instance

ASSUME LeaseAssumption ==
    /\ Term \subseteq [ttl : Nat, max_ttl : Nat] /\ Increment \subseteq Nat
    /\ \A t \in Term : t.max_ttl > 0 => t.ttl <= t.max_ttl
    /\ TokenTTL \in Nat /\ RenewSkew \in Nat
    /\ MountDefault \in Nat \ {0} /\ MountMax \in Nat /\ MountDefault <= MountMax
    /\ MaxTime \in Nat /\ MaxTokens \in Nat /\ MaxFaults \in Nat

VARIABLES
    now,     \* the clock
    role,    \* storage role/<name>: its lease term, and whether it is there
    cached,  \* storage cache/<name>: id and expiry of the token, id 0 when absent
    issued,  \* the number of mints, which name the tokens here
    lease,   \* Vault's leases
    faults   \* the revocations that failed so far

vars == <<now, role, cached, issued, lease, faults>>

NoToken == [id |-> 0, exp |-> 0]
Unset   == [ttl |-> 0, max_ttl |-> 0]
NoLease == [live |-> FALSE, tok |-> NoToken, issue |-> 0, term |-> Unset, end |-> 0]

-----------------------------------------------------------------------------
Least(a, b) == IF a < b THEN a ELSE b

\* Vault's CalculateTTL: the end of a lease, for an increment asked by the client,
\* the term of the handler's response and the instant of issue.
maxEnd(term, issue) ==
    issue + (IF term.max_ttl > 0 THEN Least(term.max_ttl, MountMax) ELSE MountMax)

leaseEnd(inc, term, issue) ==
    LET ttl == IF inc > 0 THEN inc ELSE IF term.ttl > 0 THEN term.ttl ELSE MountDefault
    IN  Least(now + ttl, maxEnd(term, issue))

\* The token a read answers with: the cached one if it is fresh, else a new one.
Token == IF cached.id # 0 /\ fresh(cached.exp, now, RenewSkew) THEN cached
         ELSE [id |-> issued + 1, exp |-> computeExpiry(now, TokenTTL, 0)]

\* pathCredsRead: the response carries the role's TTL and MaxTTL.
Issue(l) ==
    /\ role.stored /\ ~lease[l].live
    /\ Token.id <= MaxTokens /\ now + MountMax <= MaxTime
    /\ cached' = Token
    /\ issued' = IF Token = cached THEN issued ELSE issued + 1
    /\ lease' = [lease EXCEPT ![l] =
         [live |-> TRUE, tok |-> Token, issue |-> now, term |-> role.term,
          end |-> leaseEnd(0, role.term, now)]]
    /\ UNCHANGED <<now, role, faults>>

\* Mutant of renewTerm: the lease keeps the term it was issued with.
renewTermOfLease(l) == lease[l].term

\* secretAccessTokenRenew: the role's TTL and MaxTTL; without the role, its own.
renewTerm(l) == IF role.stored THEN role.term ELSE lease[l].term

\* Vault renews a lease that has not ended; past its maximum it answers an error.
Renew(l, inc) ==
    /\ lease[l].live /\ now < lease[l].end
    /\ now < maxEnd(renewTerm(l), lease[l].issue)
    /\ lease' = [lease EXCEPT ![l].term = renewTerm(l),
                              ![l].end = leaseEnd(inc, renewTerm(l), lease[l].issue)]
    /\ UNCHANGED <<now, role, cached, issued, faults>>

\* Mutant of secretAccessTokenRevoke: the lease of a deleted role is an error.
RevokeNeedsRole(l) ==
    /\ lease[l].live /\ role.stored
    /\ cached' = NoToken
    /\ lease' = [lease EXCEPT ![l] = NoLease]
    /\ UNCHANGED <<now, role, issued, faults>>

\* secretAccessTokenRevoke clears the role's cached token, whichever it is, and
\* Vault forgets the lease.
secretAccessTokenRevoke(l) ==
    /\ lease[l].live
    /\ cached' = NoToken
    /\ lease' = [lease EXCEPT ![l] = NoLease]
    /\ UNCHANGED <<now, role, issued, faults>>

\* The lease has ended: Vault revokes it.
Expire(l) == now >= lease[l].end /\ secretAccessTokenRevoke(l)

\* An operator revokes a lease early.
Revoke(l) == now < lease[l].end /\ secretAccessTokenRevoke(l)

\* The deletion of the cached token fails: Vault keeps the lease and tries again.
RevokeFails(l) ==
    /\ lease[l].live /\ faults < MaxFaults
    /\ faults' = faults + 1
    /\ UNCHANGED <<now, role, cached, issued, lease>>

\* pathRotate replaces the shared token, whoever holds it.
Rotate ==
    /\ role.stored /\ issued < MaxTokens
    /\ issued' = issued + 1
    /\ cached' = [id |-> issued + 1, exp |-> computeExpiry(now, TokenTTL, 0)]
    /\ UNCHANGED <<now, role, lease, faults>>

\* pathRoleWrite and pathRoleDelete also drop the cached token.
WriteRole(t) ==
    /\ role' = [stored |-> TRUE, term |-> t]
    /\ cached' = NoToken
    /\ UNCHANGED <<now, issued, lease, faults>>

DeleteRole ==
    /\ role' = [stored |-> FALSE, term |-> Unset]
    /\ cached' = NoToken
    /\ UNCHANGED <<now, issued, lease, faults>>

Tick ==
    /\ now < MaxTime /\ now' = now + 1
    /\ UNCHANGED <<role, cached, issued, lease, faults>>

Init ==
    /\ now = 0 /\ issued = 0 /\ faults = 0
    /\ role \in [stored : {TRUE}, term : Term]
    /\ cached = NoToken
    /\ lease = [l \in Lease |-> NoLease]

Next ==
    \/ \E l \in Lease : \/ Issue(l) \/ Expire(l) \/ Revoke(l) \/ RevokeFails(l)
                        \/ \E inc \in Increment : Renew(l, inc)
    \/ Rotate \/ DeleteRole \/ Tick
    \/ \E t \in Term : WriteRole(t)

\* Time goes on, and Vault's expiration manager revokes what has ended, again if
\* it must.  Nobody is obliged to read, renew or revoke.
Spec == Init /\ [][Next]_vars /\ WF_vars(Tick) /\ \A l \in Lease : WF_vars(Expire(l))

-----------------------------------------------------------------------------
(* Properties. *)

\* The step is a renewal of l.
Renews(l) == lease[l].live /\ lease'[l].live /\ lease'[l] # lease[l]

\* A renewal obeys the role as it is now, also when the role was written after the
\* lease was issued, whatever the client asks for: the lease ends within the
\* max_ttl of the role, counted from its issue (secretAccessTokenRenew).
RenewalObeysRole ==
    [][\A l \in Lease : Renews(l) /\ role.term.max_ttl > 0
          => lease'[l].end <= lease[l].issue + role.term.max_ttl]_vars

\* Every lease comes to its end, however often it is renewed, when revocations
\* fail, and when the role is written or deleted under it (the handlers answer
\* the lease of a role that is no longer there).
EveryLeaseEnds == \A l \in Lease : lease[l].live ~> ~lease[l].live
===============================================================================
