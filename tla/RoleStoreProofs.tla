--------------------------- MODULE RoleStoreProofs ---------------------------
(***************************************************************************)
(* RoleStore for any set of requests, configs, users, durations and        *)
(* updates: what is stored under a role's name is admissible and has the   *)
(* identity of a creation, although reads, checks and Puts interleave.     *)
(***************************************************************************)
EXTENDS RoleStore, TLAPS

\* The absent role is a role.
LEMMA NoRoleTyped == NoRole \in salesforceRole
BY DEF NoRole, salesforceRole, Times

\* A merge of a role with a request, defaults included, is a role.
LEMMA MergeTyped ==
    ASSUME NEW r \in salesforceRole, NEW u \in Update
    PROVE  merge(r, u) \in salesforceRole
<1>1. merge(NoRole, u) \in salesforceRole
  BY RoleAssumption
<1>2. /\ pick(r, u, "config") \in Config \cup {None}
      /\ pick(r, u, "grant_type") \in Grants \cup {None}
      /\ pick(r, u, "username") \in User \cup {None}
      /\ pick(r, u, "ttl") \in Times /\ pick(r, u, "max_ttl") \in Times
  BY <1>1 DEF merge, pick, salesforceRole
<1>3. /\ pickOr(r, u, "token_ttl", DefaultTokenTTL) \in Times
      /\ pickOr(r, u, "renew_skew", DefaultSkew) \in Times
      /\ pickOr(r, u, "jwt_expiry", DefaultJWTExpiry) \in Times
  BY <1>1 DEF merge, pickOr, salesforceRole, Times
<1> QED BY <1>2, <1>3 DEF merge, salesforceRole

\* A role that passes the checks of its fields is bound to a config.
LEMMA ValidBound ==
    ASSUME NEW r \in salesforceRole, fieldsValid(r)
    PROVE  /\ r.config \in Config /\ r # NoRole
           /\ Identity(r) \in [config : Config, username : User \cup {None}]
BY DEF fieldsValid, salesforceRole, NoRole, Identity

-----------------------------------------------------------------------------
\* Type correctness of every role store: validateRole looks up a config only for
\* a role that names one.
THEOREM TypeCorrect == Spec => []TypeOK
<1>1. Init => TypeOK
  BY NoRoleTyped, RoleAssumption DEF Init, TypeOK, Label, SomeUpdate
<1>2. TypeOK /\ [Next]_vars => TypeOK'
  <2> SUFFICES ASSUME TypeOK, [Next]_vars PROVE TypeOK'
    OBVIOUS
  <2> USE NoRoleTyped DEF TypeOK
  <2>1. SomeUpdate \in Update
    BY RoleAssumption DEF SomeUpdate
  <2>2. ASSUME NEW q \in Req, BeginWrite(q) PROVE TypeOK'
    BY <2>2 DEF BeginWrite, Goto, Label
  <2>3. ASSUME NEW q \in Req, Read(q) PROVE TypeOK'
    <3>1. merge(role, upd[q]) \in salesforceRole
      BY MergeTyped
    <3>2. fieldsValid(merge(role, upd[q])) =>
            /\ merge(role, upd[q]).config \in Config
            /\ Identity(merge(role, upd[q])) \in [config : Config, username : User \cup {None}]
      BY <3>1, ValidBound
    <3> QED BY <2>1, <2>3, <3>1, <3>2 DEF Read, Return, Goto, Label
  <2>4. ASSUME NEW q \in Req, Check(q) PROVE TypeOK'
    BY <2>1, <2>4 DEF Check, Return, Goto, Label
  <2>5. ASSUME NEW q \in Req, Put(q) PROVE TypeOK'
    BY <2>1, <2>5 DEF Put, Return, Goto, Label
  <2>6. ASSUME NEW q \in Req, BeginDelete(q) PROVE TypeOK'
    BY <2>6 DEF BeginDelete, Goto, Label
  <2>7. ASSUME NEW q \in Req, Delete(q) PROVE TypeOK'
    BY <2>1, <2>7 DEF Delete, Return, Goto, Label
  <2>8. ASSUME NEW q \in Req, StorageError(q) PROVE TypeOK'
    BY <2>1, <2>8 DEF StorageError, Return, Goto, Label
  <2>9. CASE ChangeConfig
    <3>1. PICK c \in Config, cfg \in [stored : BOOLEAN, secrets : SUBSET Secrets] :
            configs' = [configs EXCEPT ![c] = cfg]
      <4>1. [stored |-> FALSE, secrets |-> {}] \in [stored : BOOLEAN, secrets : SUBSET Secrets]
        OBVIOUS
      <4>2. [stored : {TRUE}, secrets : SUBSET Secrets]
              \subseteq [stored : BOOLEAN, secrets : SUBSET Secrets]
        OBVIOUS
      <4> QED BY <2>9, <4>1, <4>2 DEF ChangeConfig
    <3> QED BY <2>9, <3>1 DEF ChangeConfig
  <2>10. CASE UNCHANGED vars
    BY <2>10 DEF vars
  <2> QED BY <2>2, <2>3, <2>4, <2>5, <2>6, <2>7, <2>8, <2>9, <2>10 DEF Next
<1> QED BY <1>1, <1>2, PTL DEF Spec

-----------------------------------------------------------------------------
\* A fact about roles that the checks of a write establish, once for a stored
\* role and for the one a write is about to put.
AdmissibleInv ==
    /\ role # NoRole => fieldsValid(role)
    /\ \A q \in Req : pc[q] \in {"check", "put"} => fieldsValid(new[q])

\* The durations of a role are natural numbers.
LEMMA TimesNat == Times \subseteq Nat
BY RoleAssumption, DefaultTTLAssumption DEF Times

\* For every instance: a stored role is what the engine and the client assume.
THEOREM AdmissibleCorrect == Spec => []StoredRoleAdmissible
<1>1. Init => AdmissibleInv
  BY DEF Init, AdmissibleInv
<1>2. TypeOK /\ AdmissibleInv /\ [Next]_vars => AdmissibleInv'
  <2> SUFFICES ASSUME TypeOK, AdmissibleInv, [Next]_vars PROVE AdmissibleInv'
    OBVIOUS
  <2> USE DEF TypeOK, AdmissibleInv
  <2>1. ASSUME NEW q \in Req, Read(q) PROVE AdmissibleInv'
    BY <2>1 DEF Read, Return, Goto
  <2>2. ASSUME NEW q \in Req,
               BeginWrite(q) \/ Check(q) \/ BeginDelete(q) \/ StorageError(q)
        PROVE  AdmissibleInv'
    BY <2>2 DEF BeginWrite, Check, BeginDelete, StorageError, Return, Goto
  <2>3. ASSUME NEW q \in Req, Put(q) PROVE AdmissibleInv'
    BY <2>3 DEF Put, Return, Goto
  <2>4. ASSUME NEW q \in Req, Delete(q) PROVE AdmissibleInv'
    BY <2>4 DEF Delete, Return, Goto
  <2>5. CASE ChangeConfig \/ UNCHANGED vars
    BY <2>5 DEF ChangeConfig, vars
  <2> QED BY <2>1, <2>2, <2>3, <2>4, <2>5 DEF Next
<1>3. TypeOK /\ AdmissibleInv => StoredRoleAdmissible
  <2> SUFFICES ASSUME TypeOK, AdmissibleInv, role # NoRole
               PROVE  /\ role.grant_type \in Grants
                      /\ role.max_ttl > 0 => role.ttl <= role.max_ttl
                      /\ role.jwt_expiry <= MaxJWTExpiry
                      /\ role.token_ttl > 0
                           => fresh(lifetime(role.token_ttl, 0), 0, role.renew_skew)
    BY DEF StoredRoleAdmissible
  <2>1. fieldsValid(role)
    BY DEF AdmissibleInv
  <2>2. role.token_ttl \in Nat /\ role.renew_skew \in Nat
    BY TimesNat DEF TypeOK, salesforceRole
  <2> QED BY <2>1, <2>2 DEF fieldsValid, fresh, lifetime
<1> QED BY <1>1, <1>2, <1>3, TypeCorrect, PTL DEF Spec

-----------------------------------------------------------------------------
\* The inductive form of IdentityFromCreation: the same of what is about to be
\* put.  An update reads a role whose identity is a creation's and keeps it.
IdentityInv ==
    /\ IdentityFromCreation
    /\ \A q \in Req : pc[q] \in {"check", "put"} => Identity(new[q]) \in created

\* For every instance: updates make up no identity; it comes from a creation.
THEOREM IdentityCorrect == Spec => []IdentityFromCreation
<1>1. Init => IdentityInv
  BY DEF Init, IdentityInv, IdentityFromCreation
<1>2. TypeOK /\ IdentityInv /\ [Next]_vars => IdentityInv'
  <2> SUFFICES ASSUME TypeOK, IdentityInv, [Next]_vars PROVE IdentityInv'
    OBVIOUS
  <2> USE DEF TypeOK, IdentityInv, IdentityFromCreation
  <2>1. ASSUME NEW q \in Req, Read(q) PROVE IdentityInv'
    <3>1. ~repoints(role, merge(role, upd[q])) /\ role # NoRole
             => Identity(merge(role, upd[q])) \in created
      BY DEF repoints
    <3>2. created \subseteq created' /\ role' = role
      BY <2>1 DEF Read
    <3>3. ASSUME NEW p \in Req, pc'[p] \in {"check", "put"}
          PROVE  Identity(new'[p]) \in created'
      <4>1. CASE p # q
        BY <2>1, <3>2, <3>3, <4>1 DEF Read, Return, Goto
      <4>2. CASE p = q
        <5>1. /\ ~repoints(role, merge(role, upd[q]))
              /\ new'[q] = merge(role, upd[q])
              /\ created' = IF role = NoRole THEN created \cup {Identity(merge(role, upd[q]))}
                            ELSE created
          BY <2>1, <3>3, <4>2 DEF Read, Return, Goto
        <5> QED BY <3>1, <4>2, <5>1
      <4> QED BY <4>1, <4>2
    <3> QED BY <3>2, <3>3
  <2>2. ASSUME NEW q \in Req,
               BeginWrite(q) \/ Check(q) \/ BeginDelete(q) \/ StorageError(q)
        PROVE  IdentityInv'
    BY <2>2 DEF BeginWrite, Check, BeginDelete, StorageError, Return, Goto
  <2>3. ASSUME NEW q \in Req, Put(q) PROVE IdentityInv'
    BY <2>3 DEF Put, Return, Goto
  <2>4. ASSUME NEW q \in Req, Delete(q) PROVE IdentityInv'
    BY <2>4 DEF Delete, Return, Goto
  <2>5. CASE ChangeConfig \/ UNCHANGED vars
    BY <2>5 DEF ChangeConfig, vars
  <2> QED BY <2>1, <2>2, <2>3, <2>4, <2>5 DEF Next
<1>3. IdentityInv => IdentityFromCreation
  BY DEF IdentityInv
<1> QED BY <1>1, <1>2, <1>3, TypeCorrect, PTL DEF Spec
===============================================================================
