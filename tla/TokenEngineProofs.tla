--------------------------- MODULE TokenEngineProofs ---------------------------
(* Theorems about TokenEngine, for every value of its constants. *)
EXTENDS TokenEngine, TLAPS

USE DEF deleteCachedToken

\* The default values that stand for an absent role, token or job are typed.
LEMMA DefaultsTyped ==
    /\ SomeRole \in Role /\ SomeConfig \in Config /\ SomeSpec \in RoleSpec
    /\ NoToken \in Token /\ NoRole \in RoleEntry /\ NoJob \in Job
<1>1. SomeRole \in Role /\ SomeConfig \in Config /\ SomeSpec \in RoleSpec
  BY RoleSpecAssumption DEF SomeRole, SomeConfig, SomeSpec
<1>2. NoToken \in Token
  BY DEF NoToken, Token
<1>3. NoRole \in RoleEntry
  BY <1>1 DEF NoRole, RoleEntry
<1>4. NoJob \in Job
  BY <1>1, <1>2 DEF NoJob, Job, AllOps
<1> QED
  BY <1>1, <1>2, <1>3, <1>4

\* The fields of a role definition have their types (salesforceRole).
LEMMA SpecTyped ==
    ASSUME NEW s \in RoleSpec
    PROVE  s.config \in Config /\ s.ttl \in Nat /\ s.skew \in Nat /\ s.revoke \in BOOLEAN
BY RoleSpecAssumption

\* The fields of a request's local variables have their types.
LEMMA JobTyped ==
    ASSUME NEW j \in Job
    PROVE  /\ j.op \in AllOps /\ j.role \in Role /\ j.config \in Config
           /\ j.spec \in RoleSpec /\ j.lease \in Nat /\ j.cfg \in Nat /\ j.since \in Nat
           /\ j.tok \in Token /\ j.t0 \in Nat /\ j.definitive \in BOOLEAN
           /\ j.todo \subseteq Role
BY DEF Job

\* A handler that returns leaves typed control state, and no token to store.
LEMMA ReturnTyped ==
    ASSUME TypeOK, NEW q \in Req, NEW l \in {"ok", "fail"}, NEW t \in Token,
           Return(q, l, t)
    PROVE  /\ pc' \in [Req -> Label] /\ job' \in [Req -> Job]
           /\ owner' \in [Lock -> Req \cup {NoReq}]
           /\ \A p \in Req : pc'[p] = "store" => Present(job'[p].tok)
<1>1. pc' \in [Req -> Label]
  BY DEF TypeOK, Return, Goto, Label, Done
<1>2. [NoJob EXCEPT !.tok = t] \in Job
  BY DefaultsTyped DEF Job
<1>3. job' \in [Req -> Job]
  BY <1>2 DEF TypeOK, Return
<1>4. owner' \in [Lock -> Req \cup {NoReq}]
  BY DEF TypeOK, Return, Released
<1>5. \A p \in Req : pc'[p] = "store" => Present(job'[p].tok)
  BY DEF TypeOK, Return, Goto, Present
<1> QED
  BY <1>1, <1>3, <1>4, <1>5

\* A freshly mounted backend is typed (newBackend over any stored entries).
LEMMA InitTyped == Init => TypeOK
<1> SUFFICES ASSUME Init PROVE TypeOK
  OBVIOUS
<1>1. roles \in [Role -> RoleEntry]
  BY DefaultsTyped DEF Init, RoleEntry
<1>2. cache \in [Role -> Token] /\ job \in [Req -> Job]
  BY DefaultsTyped DEF Init
<1>3. pc \in [Req -> Label]
  BY DEF Init, Label, Done
<1>4. \A q \in Req : pc[q] = "store" => Present(job[q].tok)
  BY DEF Init
<1> QED
  BY <1>1, <1>2, <1>3, <1>4 DEF Init, TypeOK

\* The arrival of a request preserves the types.
LEMMA StartTyped ==
    ASSUME TypeOK, NEW q \in Req, Start(q)
    PROVE  TypeOK'
<1> DEFINE R(op, r)   == [NoJob EXCEPT !.op = op, !.role = r]
<1> DEFINE V(r, i)    == [NoJob EXCEPT !.op = "revoke", !.role = r, !.lease = i]
<1> DEFINE C(op, c)   == [NoJob EXCEPT !.op = op, !.config = c]
<1> DEFINE W(r, s)    == [NoJob EXCEPT !.op = "rwrite", !.role = r, !.spec = s]
<1>1. ASSUME NEW l \in Label \ {"store"}, NEW j \in Job, Begin(q, l, j)
      PROVE  TypeOK'
  BY <1>1 DEF TypeOK, Begin, Goto, storage, history, remote, Present
<1>2. \A op \in AllOps, r \in Role : R(op, r) \in Job
  BY DefaultsTyped DEF Job
<1>3. \A r \in Role, i \in Nat : V(r, i) \in Job
  BY DefaultsTyped DEF Job, AllOps
<1>4. \A op \in AllOps, c \in Config : C(op, c) \in Job
  BY DefaultsTyped DEF Job
<1>5. \A r \in Role, s \in RoleSpec : W(r, s) \in Job
  BY DefaultsTyped DEF Job, AllOps
<1>6. {"role", "cread", "list", "rread", "drop"} \subseteq Label \ {"store"}
  BY DEF Label
<1> HIDE DEF R, V, C, W
<1>7. CASE \E op \in {"creds", "rotate"} : BeginRole(q, op)
  BY <1>1, <1>2, <1>6, <1>7 DEF BeginRole, R, AllOps
<1>8. CASE BeginRevoke(q)
  <2>1. PICK l \in leases : Begin(q, "role", V(l.role, l.id))
    BY <1>8 DEF BeginRevoke, V
  <2>2. l.role \in Role /\ l.id \in Nat
    BY DEF TypeOK
  <2> QED
    BY <1>1, <1>3, <1>6, <2>1, <2>2
<1>9. CASE \E op \in {"cwrite", "cdelete"} : BeginConfig(q, op)
  BY <1>1, <1>4, <1>6, <1>9 DEF BeginConfig, C, AllOps
<1>10. CASE BeginRoleWrite(q)
  BY <1>1, <1>5, <1>6, <1>10 DEF BeginRoleWrite, W
<1>11. CASE BeginRoleDelete(q)
  BY <1>1, <1>2, <1>6, <1>11 DEF BeginRoleDelete, R, AllOps
<1> QED
  BY <1>7, <1>8, <1>9, <1>10, <1>11 DEF Start

\* A step that returns a typed token and otherwise changes typed state only.
LEMMA ServeTyped ==
    ASSUME TypeOK, NEW q \in Req, NEW t \in Token, Serve(q, t)
    PROVE  /\ pc' \in [Req -> Label] /\ job' \in [Req -> Job]
           /\ owner' \in [Lock -> Req \cup {NoReq}]
           /\ leases' \subseteq [role : Role, id : Nat]
           /\ \A p \in Req : pc'[p] = "store" => Present(job'[p].tok)
<1>1. Return(q, "ok", t)
  BY DEF Serve
<1>2. job[q].role \in Role /\ t.id \in Nat
  BY JobTyped DEF TypeOK, Token
<1>3. leases' \subseteq [role : Role, id : Nat]
  BY <1>2 DEF Serve, TypeOK
<1> QED
  BY <1>1, <1>3, ReturnTyped

\* What Salesforce may answer with is a session.
LEMMA GrantedTyped ==
    ASSUME issued \in Nat, sessions \subseteq Session, NEW i \in Nat, NEW s \in Granted(i)
    PROVE  s \in Session
BY SessionAssumption DEF Granted, Session

\* A step of pathCredsRead or pathRotate on the way to a token preserves the types;
\* MintSucceeds is where a token is about to be stored, and it is a real one.
LEMMA IssueTyped ==
    ASSUME TypeOK, NEW q \in Req, IssueStep(q)
    PROVE  TypeOK'
<1>a. job[q] \in Job /\ job[q].role \in Role /\ job[q].spec \in RoleSpec /\ job[q].tok \in Token
      /\ job[q].t0 \in Nat /\ job[q].cfg \in Nat
  BY JobTyped DEF TypeOK
<1>b. cache[job[q].role] \in Token /\ roles[job[q].role].spec \in RoleSpec
  BY <1>a DEF TypeOK, RoleEntry
<1> USE DEF At
<1>1. CASE LoadRole(q)
  <2>1. CASE Fail(q)
    BY <1>1, <2>1, ReturnTyped, DefaultsTyped
       DEF LoadRole, Fail, TypeOK, storage, history, remote
  <2>2. CASE Goto(q, "drop") /\ UNCHANGED <<job, owner>>
    BY <1>1, <2>2 DEF LoadRole, Goto, TypeOK, storage, history, remote, Label
  <2>3. CASE /\ job' = [job EXCEPT ![q].spec = roles[job[q].role].spec]
             /\ Goto(q, IF job[q].op = "revoke" THEN RevokeOrDrop(roles[job[q].role].spec)
                        ELSE "config")
             /\ UNCHANGED owner
    <3>1. job' \in [Req -> Job]
      BY <2>3, <1>b DEF TypeOK, Job
    <3>2. pc' \in [Req -> Label]
      BY <2>3 DEF TypeOK, Goto, RevokeOrDrop, Label
    <3>3. \A p \in Req : pc'[p] = "store" => Present(job'[p].tok)
      BY <2>3 DEF TypeOK, Goto, RevokeOrDrop, Present
    <3> QED
      BY <1>1, <2>3, <3>1, <3>2, <3>3 DEF LoadRole, TypeOK, storage, history, remote
  <2> QED
    BY <1>1, <2>1, <2>2, <2>3 DEF LoadRole
<1>2. CASE LoadConfig(q)
  <2>1. CASE Fail(q)
    BY <1>2, <2>1, ReturnTyped, DefaultsTyped
       DEF LoadConfig, Fail, TypeOK, storage, history, remote
  <2>2. CASE /\ job' = [job EXCEPT ![q].cfg = configs[job[q].spec.config],
                                   ![q].since = done[job[q].spec.config]]
             /\ Goto(q, IF job[q].op = "creds" THEN "fast" ELSE "lock")
             /\ UNCHANGED owner
    <3>0. configs[job[q].spec.config] \in Nat /\ done[job[q].spec.config] \in Nat
      BY <1>a, SpecTyped DEF TypeOK
    <3> DEFINE j == [job[q] EXCEPT !.cfg = configs[job[q].spec.config],
                                   !.since = done[job[q].spec.config]]
    <3>4. j \in Job
      BY <1>a, <3>0 DEF Job
    <3>5. job' = [job EXCEPT ![q] = j]
      BY <2>2, <1>a DEF TypeOK
    <3> HIDE DEF j
    <3>1. job' \in [Req -> Job]
      BY <3>4, <3>5 DEF TypeOK
    <3>2. pc' \in [Req -> Label]
      BY <2>2 DEF TypeOK, Goto, Label
    <3>3. \A p \in Req : pc'[p] = "store" => Present(job'[p].tok)
      BY <2>2 DEF TypeOK, Goto, Present
    <3> QED
      BY <1>2, <2>2, <3>1, <3>2, <3>3 DEF LoadConfig, TypeOK, storage, history, remote
  <2> QED
    BY <1>2, <2>1, <2>2 DEF LoadConfig
<1>3. CASE FastPath(q)
  <2>1. CASE Serve(q, cache[job[q].role])
    BY <1>3, <1>b, <2>1, ServeTyped DEF FastPath, TypeOK, storage, history
  <2>2. CASE Goto(q, "trylock") /\ UNCHANGED <<job, owner, leases>>
    BY <1>3, <2>2 DEF FastPath, Goto, TypeOK, storage, history, Label
  <2> QED
    BY <1>3, <2>1, <2>2 DEF FastPath
<1>4. CASE TryLock(q)
  BY <1>4, <1>a, RequestAssumption
     DEF TryLock, TakeLock, Goto, TypeOK, storage, history, remote, Label
<1>5. CASE ServeWhileBusy(q)
  <2>1. CASE Serve(q, cache[job[q].role])
    BY <1>5, <1>b, <2>1, ServeTyped DEF ServeWhileBusy, TypeOK, storage, history
  <2>2. CASE Goto(q, "lock") /\ UNCHANGED <<job, owner, leases>>
    BY <1>5, <2>2 DEF ServeWhileBusy, Goto, TypeOK, storage, history, Label
  <2> QED
    BY <1>5, <2>1, <2>2 DEF ServeWhileBusy
<1>6. CASE Recheck(q)
  <2>1. CASE Serve(q, cache[job[q].role])
    BY <1>6, <1>b, <2>1, ServeTyped DEF Recheck, TypeOK, storage, history
  <2>2. CASE /\ job' = [job EXCEPT ![q].t0 = now] /\ Goto(q, "wait")
             /\ UNCHANGED <<owner, leases>>
    <3>2. [job[q] EXCEPT !.t0 = now] \in Job
      BY <1>a DEF TypeOK, Job
    <3>1. job' \in [Req -> Job]
      BY <2>2, <3>2 DEF TypeOK
    <3> QED
      BY <1>6, <2>2, <3>1 DEF Recheck, Goto, TypeOK, storage, history, Label, Present
  <2> QED
    BY <1>6, <2>1, <2>2 DEF Recheck
<1>7. CASE MintSucceeds(q)
  <2>1. PICK e \in ExpiresIn, i \in job[q].t0 .. now : \E s \in Granted(i) :
             /\ job' = [job EXCEPT ![q].tok = NewToken(q, e, s)]
             /\ sessions' = sessions \cup {s}
    BY <1>7 DEF MintSucceeds
  <2>6. PICK s \in Granted(i) : /\ job' = [job EXCEPT ![q].tok = NewToken(q, e, s)]
                               /\ sessions' = sessions \cup {s}
    BY <2>1
  <2>7. s \in Session
    BY <1>a, <2>6, GrantedTyped DEF TypeOK
  <2>2. lifetime(job[q].spec.ttl, e) \in Nat
    BY <1>a, SpecTyped, DefaultTTLAssumption, SessionAssumption DEF lifetime
  <2>3. NewToken(q, e, s) \in Token /\ Present(NewToken(q, e, s))
    BY <1>a, <2>2, <2>7 DEF NewToken, computeExpiry, Token, Session, Present, TypeOK
  <2>4. job' \in [Req -> Job] /\ Present(job'[q].tok)
    <3> DEFINE j == [job[q] EXCEPT !.tok = NewToken(q, e, s)]
    <3>1. j \in Job /\ Present(j.tok)
      BY <1>a, <2>3 DEF Job
    <3>2. job' = [job EXCEPT ![q] = j]
      BY <2>6
    <3> HIDE DEF j
    <3> QED BY <3>1, <3>2 DEF TypeOK
  <2>5. \A p \in Req : pc'[p] = "store" => Present(job'[p].tok)
    BY <1>7, <2>6, <2>4 DEF MintSucceeds, Goto, TypeOK
  <2>8. sessions' \subseteq Session
    BY <2>6, <2>7 DEF TypeOK
  <2> QED
    BY <1>7, <2>4, <2>5, <2>8 DEF MintSucceeds, Goto, TypeOK, storage, history, Label
<1>8. CASE \E d \in BOOLEAN : MintFails(q, d)
  <2>0. PICK d \in BOOLEAN : MintFails(q, d)
    BY <1>8
  <2>1. CASE job[q].op = "creds"
    <3>1. job' = [job EXCEPT ![q].definitive = d] /\ Goto(q, "salvage") /\ UNCHANGED owner
      BY <2>0, <2>1 DEF MintFails
    <3>2. job' \in [Req -> Job]
      <4> DEFINE j == [job[q] EXCEPT !.definitive = d]
      <4>1. j \in Job
        BY <1>a DEF Job
      <4>2. job' = [job EXCEPT ![q] = j]
        BY <3>1
      <4> HIDE DEF j
      <4> QED BY <4>1, <4>2 DEF TypeOK
    <3>3. condemned' \subseteq Nat
      BY <2>0, <2>1, <1>b DEF MintFails, TypeOK, Token
    <3> QED
      BY <2>0, <3>1, <3>2, <3>3 DEF MintFails, Goto, TypeOK, storage, history, Label, Present
  <2>2. CASE job[q].op # "creds"
    BY <2>0, <2>2, ReturnTyped, DefaultsTyped DEF MintFails, Fail, TypeOK, storage, history
  <2> QED
    BY <2>1, <2>2
<1>9. CASE StoreToken(q)
  <2> DEFINE t == [job[q].tok EXCEPT !.at = ver]
  <2>1. t \in Token
    BY <1>a DEF TypeOK, Token
  <2>2. cache' \in [Role -> Token]
    BY <1>9, <2>1, <1>a DEF StoreToken, TypeOK
  <2> HIDE DEF t
  <2>3. CASE Serve(q, t)
    BY <1>9, <2>1, <2>2, <2>3, ServeTyped DEF StoreToken, TypeOK, storage, history
  <2>4. CASE Return(q, "ok", NoToken) /\ UNCHANGED leases
    BY <1>9, <2>2, <2>4, ReturnTyped, DefaultsTyped DEF StoreToken, TypeOK, storage, history
  <2> QED
    BY <1>9, <2>3, <2>4 DEF StoreToken, t
<1>10. CASE Salvage(q)
  <2>1. CASE Serve(q, cache[job[q].role])
    BY <1>10, <1>b, <2>1, ServeTyped DEF Salvage, TypeOK, storage, history
  <2>2. CASE Goto(q, "purge") /\ UNCHANGED <<job, owner, leases>>
    BY <1>10, <2>2 DEF Salvage, Goto, TypeOK, storage, history, Label
  <2>3. CASE Fail(q) /\ UNCHANGED leases
    BY <1>10, <2>3, ReturnTyped, DefaultsTyped DEF Salvage, Fail, TypeOK, storage, history
  <2> QED
    BY <1>10, <2>1, <2>2, <2>3 DEF Salvage
<1>11. CASE PurgeRejected(q)
  BY <1>11, <1>a, ReturnTyped, DefaultsTyped DEF PurgeRejected, Fail, TypeOK, history, remote
<1> QED
  BY <1>1, <1>2, <1>3, <1>4, <1>5, <1>6, <1>7, <1>8, <1>9, <1>10, <1>11
     DEF IssueStep, MintReturns

\* A step of revokeCachedTokenAtSalesforce and the deletion after it preserve the types.
LEMMA RevokeTyped ==
    ASSUME TypeOK, NEW q \in Req, RevokeStep(q)
    PROVE  TypeOK'
<1>a. job[q] \in Job /\ job[q].role \in Role /\ job[q].tok \in Token /\ job[q].cfg \in Nat
      /\ job[q].lease \in Nat
  BY JobTyped DEF TypeOK
<1>b. cache[job[q].role] \in Token /\ NoToken \in Token
  BY <1>a, DefaultsTyped DEF TypeOK
<1> USE DEF At
<1>c. ASSUME NEW t \in Token PROVE [job EXCEPT ![q].tok = t] \in [Req -> Job]
  <2>1. [job[q] EXCEPT !.tok = t] \in Job
    BY <1>a DEF Job
  <2> QED
    BY <2>1 DEF TypeOK
<1>1. CASE RevokeRead(q)
  BY <1>1, <1>b, <1>c DEF RevokeRead, Goto, TypeOK, storage, history, remote, Label, Present
<1>2. CASE RevokeConfig(q)
  <2>1. job' \in [Req -> Job]
    <3>1. CASE configs[job[q].spec.config] = 0
      BY <1>2, <1>b, <1>c, <3>1 DEF RevokeConfig
    <3>2. CASE configs[job[q].spec.config] # 0
      BY <1>2, <1>a, <1>c, <3>2 DEF RevokeConfig
    <3> QED
      BY <3>1, <3>2
  <2> QED
    BY <1>2, <2>1 DEF RevokeConfig, Goto, TypeOK, storage, history, remote, Label, Present
<1>3. CASE \E reached, answered \in BOOLEAN : RevokePost(q, reached, answered)
  <2>0. PICK reached \in BOOLEAN, answered \in BOOLEAN : RevokePost(q, reached, answered)
    BY <1>3
  <2>1. job' \in [Req -> Job]
    BY <2>0, <1>a, <1>b, <1>c DEF RevokePost
  <2>2. condemned' \subseteq Nat
    BY <2>0, <1>a DEF RevokePost, TypeOK, Token
  <2>3. sessions' \subseteq Session
    BY <2>0 DEF RevokePost, TypeOK
  <2> QED
    BY <2>0, <2>1, <2>2, <2>3 DEF RevokePost, Goto, TypeOK, storage, history, Label, Present
<1>4. CASE DropToken(q)
  <2>1. cache' \in [Role -> Token]
    BY <1>4, <1>a, <1>b DEF DropToken, TypeOK
  <2>2. CASE job[q].op = "rotate"
    <3>1. [job[q] EXCEPT !.t0 = now] \in Job
      BY <1>a DEF TypeOK, Job
    <3>2. job' = [job EXCEPT ![q].t0 = now] /\ Goto(q, "wait")
          /\ UNCHANGED <<owner, condemned, rdone>>
      BY <1>4, <2>2 DEF DropToken
    <3>3. job' \in [Req -> Job]
      BY <3>1, <3>2 DEF TypeOK
    <3> QED
      BY <1>4, <2>1, <3>2, <3>3 DEF DropToken, Goto, TypeOK, storage, Label, Present
  <2>3. CASE job[q].op = "revoke"
    <3>1. condemned' \subseteq Nat
      BY <1>4, <2>3, <1>a DEF DropToken, TypeOK
    <3> QED
      BY <1>4, <2>1, <2>3, <3>1, <1>b, ReturnTyped DEF DropToken, TypeOK
  <2>4. CASE job[q].op = "rwrite"
    <3>1. rdone' \in [Role -> Nat]
      BY <1>4, <2>4, <1>a DEF DropToken, TypeOK
    <3> QED
      BY <1>4, <2>1, <2>4, <3>1, <1>b, ReturnTyped DEF DropToken, TypeOK
  <2>5. CASE job[q].op = "rdelete"
    BY <1>4, <2>1, <2>5 DEF DropToken, Goto, TypeOK, Label, Present
  <2> QED
    BY <1>4, <2>2, <2>3, <2>4, <2>5 DEF DropToken
<1> QED
  BY <1>1, <1>2, <1>3, <1>4 DEF RevokeStep

\* A step of a config or role handler preserves the types.
LEMMA AdminTyped ==
    ASSUME TypeOK, NEW q \in Req, AdminStep(q)
    PROVE  TypeOK'
<1>a. job[q] \in Job /\ job[q].role \in Role /\ job[q].config \in Config
      /\ job[q].spec \in RoleSpec /\ job[q].cfg \in Nat
  BY JobTyped DEF TypeOK
<1>b. NoToken \in Token /\ NoRole \in RoleEntry
  BY DefaultsTyped
<1>c. [job EXCEPT ![q].cfg = ver + 1] \in [Req -> Job]
  <2>1. [job[q] EXCEPT !.cfg = ver + 1] \in Job
    BY <1>a DEF Job, TypeOK
  <2> QED
    BY <2>1 DEF TypeOK
<1> USE DEF At
<1>1. CASE ReadConfig(q)
  BY <1>1, <1>b, ReturnTyped
     DEF ReadConfig, Fail, Goto, TypeOK, storage, history, remote, Label, Present
<1>2. CASE PutConfig(q)
  BY <1>2, <1>a, <1>c DEF PutConfig, Goto, TypeOK, remote, Label, Present
<1>3. CASE ListRoles(q)
  <2>1. [job[q] EXCEPT !.todo = {r \in Role : roles[r].ver # 0}] \in Job
    BY <1>a DEF Job
  <2>2. job' \in [Req -> Job]
    BY <1>3, <2>1 DEF ListRoles, TypeOK
  <2> QED
    BY <1>3, <2>2 DEF ListRoles, Goto, TypeOK, storage, history, remote, Label, Present
<1>4. CASE EvictToken(q)
  BY <1>4, <1>a, <1>b DEF EvictToken, Goto, TypeOK, history, remote, Label, Present
<1>5. CASE PurgeDone(q)
  <2>1. CASE job[q].op = "cwrite"
    <3>1. done' \in [Config -> Nat]
      BY <1>5, <2>1, <1>a DEF PurgeDone, TypeOK
    <3> QED
      BY <1>5, <2>1, <3>1, <1>b, ReturnTyped DEF PurgeDone, TypeOK, storage, remote
  <2>2. CASE job[q].op = "cdelete"
    BY <1>5, <2>2 DEF PurgeDone, Goto, TypeOK, storage, remote, Label, Present
  <2> QED
    BY <1>5, <2>1, <2>2 DEF PurgeDone
<1>6. CASE DeleteConfig(q)
  BY <1>6, <1>a, <1>b, ReturnTyped DEF DeleteConfig, TypeOK, history, remote
<1>7. CASE \E r \in Role : VisitRole(q, r)
  <2>1. PICK r \in Role : VisitRole(q, r)
    BY <1>7
  <2>2. [job[q] EXCEPT !.role = r, !.todo = @ \ {r}] \in Job
    BY <1>a, JobTyped DEF Job
  <2>3. job' = [job EXCEPT ![q] = [job[q] EXCEPT !.role = r, !.todo = @ \ {r}]]
    BY <2>1, <1>a DEF VisitRole, TypeOK
  <2>4. job' \in [Req -> Job]
    BY <2>2, <2>3 DEF TypeOK
  <2>5. \A p \in Req : pc'[p] = "store" => Present(job'[p].tok)
    BY <2>1, <2>3 DEF VisitRole, Goto, TypeOK
  <2> QED
    BY <2>1, <2>4, <2>5 DEF VisitRole, Goto, TypeOK, storage, history, remote, Label
<1>8. CASE ReadRole(q)
  BY <1>8, <1>b, ReturnTyped
     DEF ReadRole, Fail, Goto, TypeOK, storage, history, remote, Label, Present
<1>9. CASE ValidateRole(q)
  BY <1>9, <1>b, ReturnTyped
     DEF ValidateRole, Fail, Goto, TypeOK, storage, history, remote, Label, Present
<1>10. CASE PutRole(q)
  <2>1. roles' \in [Role -> RoleEntry]
    BY <1>10, <1>a DEF PutRole, TypeOK, RoleEntry
  <2> QED
    BY <1>10, <1>c, <2>1 DEF PutRole, Goto, TypeOK, remote, Label, Present
<1>11. CASE DeleteRole(q)
  BY <1>11, <1>a, <1>b, ReturnTyped DEF DeleteRole, TypeOK, history, remote
<1> QED
  BY <1>1, <1>2, <1>3, <1>4, <1>5, <1>6, <1>7, <1>8, <1>9, <1>10, <1>11 DEF AdminStep

\* Storage errors, crashes, the clock and the blocking Lock preserve the types.
LEMMA FaultTyped ==
    ASSUME TypeOK, \/ Crash \/ Tick
                   \/ \E q \in Req : StorageError(q) \/ AcquireLock(q)
    PROVE  TypeOK'
<1>1. CASE Crash
  BY <1>1, DefaultsTyped DEF Crash, TypeOK, storage, history, remote, Label, Done
<1>2. CASE Tick
  BY <1>2 DEF Tick, TypeOK, storage, history, remote
<1>3. ASSUME NEW q \in Req, StorageError(q) PROVE TypeOK'
  <2>1. CASE Fail(q)
    BY <1>3, <2>1, ReturnTyped, DefaultsTyped
       DEF StorageError, Fail, TypeOK, storage, history, remote
  <2>2. CASE /\ \E l \in {"drop", "salvage"} : Goto(q, l)
             /\ job' = [job EXCEPT ![q].tok = NoToken] /\ UNCHANGED owner
    <3>1. [job[q] EXCEPT !.tok = NoToken] \in Job
      BY DefaultsTyped DEF TypeOK, Job
    <3>2. job' \in [Req -> Job]
      BY <2>2, <3>1 DEF TypeOK
    <3> QED
      BY <1>3, <2>2, <3>2
         DEF StorageError, Goto, TypeOK, storage, history, remote, Label, Present
  <2>3. CASE (\E l \in {"lock", "purge"} : Goto(q, l)) /\ UNCHANGED <<job, owner>>
    BY <1>3, <2>3 DEF StorageError, Goto, TypeOK, storage, history, remote, Label, Present
  <2> QED
    BY <1>3, <2>1, <2>2, <2>3 DEF StorageError
<1>4. ASSUME NEW q \in Req, AcquireLock(q) PROVE TypeOK'
  <2>1. job[q].role \in Role
    BY JobTyped DEF TypeOK
  <2> QED
    BY <1>4, <2>1, RequestAssumption
       DEF AcquireLock, TakeLock, RevokeOrDrop, Goto, TypeOK, storage, history, remote, Label,
           Present
<1> QED
  BY <1>1, <1>2, <1>3, <1>4

\* Every reachable state is well typed, whatever the sets of requests, roles,
\* configs and role definitions.
THEOREM TypeCorrect == Spec => []TypeOK
<1>1. TypeOK /\ [Next]_vars => TypeOK'
  <2> SUFFICES ASSUME TypeOK, [Next]_vars PROVE TypeOK'
    OBVIOUS
  <2>1. CASE UNCHANGED vars
    BY <2>1 DEF TypeOK, vars, storage, history, remote, Present
  <2>2. ASSUME NEW q \in Req, Start(q) \/ Step(q) PROVE TypeOK'
    BY <2>2, StartTyped, IssueTyped, RevokeTyped, AdminTyped DEF Step
  <2> QED
    BY <2>1, <2>2, FaultTyped DEF Next
<1> QED
  BY InitTyped, <1>1, PTL DEF Spec

--------------------------------------------------------------------------------
(* Each handler only takes the steps of its own code. *)

\* The labels of each handler.
Steps(op) ==
    CASE op = "creds"   -> {"role", "config", "fast", "trylock", "busy", "lock", "recheck",
                            "wait", "store", "salvage", "purge"}
      [] op = "rotate"  -> {"role", "config", "lock", "rvread", "rvcfg", "rvpost", "drop",
                            "wait", "store"}
      [] op = "revoke"  -> {"role", "rvread", "rvcfg", "rvpost", "drop"}
      [] op = "cwrite"  -> {"cread", "cput", "list", "bound", "evict"}
      [] op = "cdelete" -> {"list", "bound", "evict", "cdel"}
      [] op = "rwrite"  -> {"rread", "rcheck", "rput", "drop"}
      [] op = "rdelete" -> {"drop", "rdel"}

\* The label of a request is one of its handler, or an end state.
ControlInv == \A q \in Req : pc[q] \in Done \cup Steps(job[q].op)

\* The other requests do not notice a step of q.
Alone(q) == \A p \in Req \ {q} : pc'[p] = pc[p] /\ job'[p] = job[p]

\* What a returning handler leaves behind: its outcome and the token it served.
LEMMA ReturnEffect ==
    ASSUME TypeOK, NEW q \in Req, NEW l, NEW t, Return(q, l, t)
    PROVE  Alone(q) /\ pc'[q] = l /\ job'[q].op = "creds" /\ job'[q].tok = t
BY DEF TypeOK, Return, Goto, Alone, NoJob

\* A step of q leaves its op alone and moves it along its handler, or ends it.
LEMMA ControlStep ==
    ASSUME TypeOK, ControlInv, NEW q \in Req,
           Step(q) \/ AcquireLock(q) \/ StorageError(q)
    PROVE  /\ Alone(q)
           /\ \/ pc'[q] \in {"ok", "fail"} /\ job'[q].op = "creds"
              \/ job'[q].op = job[q].op /\ pc'[q] \in Steps(job[q].op)
<1>a. job[q] \in Job /\ job[q].op \in AllOps /\ pc[q] \in Done \cup Steps(job[q].op)
  BY JobTyped DEF TypeOK, ControlInv
<1> USE DEF At, Alone
<1>1. CASE LoadRole(q)
  <2>1. job[q].op \in {"creds", "rotate", "revoke"}
    BY <1>1, <1>a DEF LoadRole, Done, Steps, AllOps
  <2>2. CASE Fail(q)
    BY <2>2, ReturnEffect DEF Fail
  <2>3. CASE ~Fail(q)
    <3>1. Alone(q) /\ job'[q].op = job[q].op
      BY <1>1, <2>3 DEF LoadRole, Goto, TypeOK, Job
    <3>2. \/ pc'[q] \in {"drop", "rvread"} /\ job[q].op = "revoke"
          \/ pc'[q] = "config" /\ job[q].op # "revoke"
      BY <1>1, <2>3 DEF LoadRole, Goto, RevokeOrDrop, TypeOK
    <3> QED
      BY <2>1, <3>1, <3>2 DEF Steps
  <2> QED
    BY <2>2, <2>3
<1>2. CASE LoadConfig(q)
  <2>1. job[q].op \in {"creds", "rotate"}
    BY <1>2, <1>a DEF LoadConfig, Done, Steps, AllOps
  <2>2. CASE Fail(q)
    BY <2>2, ReturnEffect DEF Fail
  <2>3. CASE ~Fail(q)
    <3>1. Alone(q) /\ job'[q].op = job[q].op
      BY <1>2, <2>3 DEF LoadConfig, Goto, TypeOK, Job
    <3>2. pc'[q] = IF job[q].op = "creds" THEN "fast" ELSE "lock"
      BY <1>2, <2>3 DEF LoadConfig, Goto, TypeOK
    <3> QED
      BY <2>1, <3>1, <3>2 DEF Steps
  <2> QED
    BY <2>2, <2>3
<1>3. CASE FastPath(q)
  BY <1>3, <1>a, ReturnEffect DEF FastPath, Serve, Goto, TypeOK, Done, Steps, AllOps
<1>4. CASE TryLock(q)
  BY <1>4, <1>a, ReturnEffect DEF TryLock, Goto, TypeOK, Done, Steps, AllOps
<1>5. CASE ServeWhileBusy(q)
  BY <1>5, <1>a, ReturnEffect DEF ServeWhileBusy, Serve, Goto, TypeOK, Done, Steps, AllOps
<1>6. CASE Recheck(q)
  <2>1. job[q].op = "creds"
    BY <1>6, <1>a DEF Recheck, Done, Steps, AllOps
  <2>2. CASE CachedAndFresh(q)
    BY <1>6, <2>2, ReturnEffect DEF Recheck, Serve
  <2>3. CASE ~CachedAndFresh(q)
    <3>1. Alone(q) /\ job'[q].op = job[q].op /\ pc'[q] = "wait"
      BY <1>6, <2>3 DEF Recheck, Goto, TypeOK, Job
    <3> QED
      BY <2>1, <3>1 DEF Steps
  <2> QED
    BY <2>2, <2>3
<1>7. CASE MintSucceeds(q)
  BY <1>7, <1>a, ReturnEffect DEF MintSucceeds, Goto, TypeOK, Done, Steps, AllOps
<1>8. CASE \E d \in BOOLEAN : MintFails(q, d)
  <2>1. CASE job[q].op = "creds"
    <3>1. Alone(q) /\ job'[q].op = job[q].op /\ pc'[q] = "salvage"
      BY <1>8, <2>1 DEF MintFails, Goto, TypeOK, Job
    <3> QED
      BY <2>1, <3>1 DEF Steps
  <2>2. CASE job[q].op # "creds"
    BY <1>8, <2>2, ReturnEffect DEF MintFails, Fail
  <2> QED
    BY <2>1, <2>2
<1>9. CASE StoreToken(q)
  BY <1>9, <1>a, ReturnEffect DEF StoreToken, Serve, Goto, TypeOK, Done, Steps, AllOps
<1>10. CASE Salvage(q)
  BY <1>10, <1>a, ReturnEffect DEF Salvage, Serve, Fail, Goto, TypeOK, Done, Steps, AllOps
<1>11. CASE PurgeRejected(q)
  BY <1>11, <1>a, ReturnEffect DEF PurgeRejected, Fail, Goto, TypeOK, Done, Steps, AllOps
<1>12. CASE RevokeRead(q)
  BY <1>12, <1>a, ReturnEffect DEF RevokeRead, Goto, TypeOK, Done, Steps, AllOps
<1>13. CASE RevokeConfig(q)
  BY <1>13, <1>a, ReturnEffect DEF RevokeConfig, Goto, TypeOK, Done, Steps, AllOps
<1>14. CASE \E a, b \in BOOLEAN : RevokePost(q, a, b)
  BY <1>14, <1>a, ReturnEffect DEF RevokePost, Goto, TypeOK, Done, Steps, AllOps
<1>15. CASE DropToken(q)
  <2>1. job[q].op \in {"rotate", "revoke", "rwrite", "rdelete"}
    BY <1>15 DEF DropToken
  <2>2. CASE job[q].op \in {"revoke", "rwrite"}
    BY <1>15, <2>2, ReturnEffect DEF DropToken
  <2>3. CASE job[q].op = "rotate"
    <3>1. Alone(q) /\ job'[q].op = job[q].op /\ pc'[q] = "wait"
      BY <1>15, <2>3 DEF DropToken, Goto, TypeOK, Job
    <3> QED
      BY <2>3, <3>1 DEF Steps
  <2>4. CASE job[q].op = "rdelete"
    <3>1. Alone(q) /\ job'[q].op = job[q].op /\ pc'[q] = "rdel"
      BY <1>15, <2>4 DEF DropToken, Goto, TypeOK, Job
    <3> QED
      BY <2>4, <3>1 DEF Steps
  <2> QED
    BY <2>1, <2>2, <2>3, <2>4
<1>16. CASE ReadConfig(q)
  BY <1>16, <1>a, ReturnEffect DEF ReadConfig, Fail, Goto, TypeOK, Done, Steps, AllOps
<1>17. CASE PutConfig(q)
  BY <1>17, <1>a, ReturnEffect DEF PutConfig, Goto, TypeOK, Done, Steps, AllOps
<1>18. CASE ListRoles(q)
  BY <1>18, <1>a, ReturnEffect DEF ListRoles, Goto, TypeOK, Done, Steps, AllOps
<1>19. CASE EvictToken(q)
  BY <1>19, <1>a, ReturnEffect DEF EvictToken, Goto, TypeOK, Done, Steps, AllOps
<1>20. CASE PurgeDone(q)
  BY <1>20, <1>a, ReturnEffect DEF PurgeDone, Goto, TypeOK, Done, Steps, AllOps
<1>21. CASE DeleteConfig(q)
  BY <1>21, <1>a, ReturnEffect DEF DeleteConfig, Goto, TypeOK, Done, Steps, AllOps
<1>22. CASE \E r \in Role : VisitRole(q, r)
  BY <1>22, <1>a, ReturnEffect DEF VisitRole, Goto, TypeOK, Done, Steps, AllOps
<1>23. CASE ReadRole(q)
  BY <1>23, <1>a, ReturnEffect DEF ReadRole, Fail, Goto, TypeOK, Done, Steps, AllOps
<1>24. CASE ValidateRole(q)
  BY <1>24, <1>a, ReturnEffect DEF ValidateRole, Fail, Goto, TypeOK, Done, Steps, AllOps
<1>25. CASE PutRole(q)
  BY <1>25, <1>a, ReturnEffect DEF PutRole, Goto, TypeOK, Done, Steps, AllOps
<1>26. CASE DeleteRole(q)
  BY <1>26, <1>a, ReturnEffect DEF DeleteRole, Goto, TypeOK, Done, Steps, AllOps
<1>27. CASE AcquireLock(q)
  BY <1>27, <1>a, ReturnEffect DEF AcquireLock, RevokeOrDrop, Goto, TypeOK, Done, Steps, AllOps
<1>28. CASE StorageError(q)
  <2>1. CASE Fail(q)
    BY <2>1, ReturnEffect DEF Fail
  <2>2. CASE ~Fail(q)
    <3>1. Alone(q) /\ job'[q].op = job[q].op
      BY <1>28, <2>2 DEF StorageError, Goto, TypeOK, Job
    <3>2. \/ pc'[q] = "drop" /\ (pc[q] \in {"rvread", "rvcfg"} \/ job[q].op = "revoke")
          \/ pc'[q] = "lock" /\ pc[q] = "busy"
          \/ pc'[q] = "salvage" /\ job[q].op = "creds"
          \/ pc'[q] = "purge" /\ pc[q] = "salvage"
      BY <1>28, <2>2 DEF StorageError, Goto, TypeOK
    <3> QED
      BY <1>a, <3>1, <3>2 DEF Steps, Done, AllOps
  <2> QED
    BY <2>1, <2>2
<1> QED
  BY <1>1, <1>2, <1>3, <1>4, <1>5, <1>6, <1>7, <1>8, <1>9, <1>10, <1>11, <1>12, <1>13, <1>14,
     <1>15, <1>16, <1>17, <1>18, <1>19, <1>20, <1>21, <1>22, <1>23, <1>24, <1>25, <1>26, <1>27, <1>28
     DEF Step, IssueStep, RevokeStep, AdminStep, MintReturns

\* A request that arrives starts at the first step of its handler, holding nothing.
LEMMA ControlStart ==
    ASSUME TypeOK, NEW q \in Req, Start(q)
    PROVE  /\ Alone(q) /\ pc[q] \in Done /\ UNCHANGED owner
           /\ pc'[q] \in Steps(job'[q].op) /\ job'[q].tok = NoToken
           /\ \/ pc'[q] \in {"role", "cread", "list", "rread"}
              \/ pc'[q] = "drop" /\ job'[q].op = "rdelete"
<1>1. CASE \E op \in {"creds", "rotate"} : BeginRole(q, op)
  BY <1>1 DEF BeginRole, Begin, Goto, TypeOK, NoJob, Steps, Alone
<1>2. CASE BeginRevoke(q)
  BY <1>2 DEF BeginRevoke, Begin, Goto, TypeOK, NoJob, Steps, Alone
<1>3. CASE \E op \in {"cwrite", "cdelete"} : BeginConfig(q, op)
  BY <1>3 DEF BeginConfig, Begin, Goto, TypeOK, NoJob, Steps, Alone
<1>4. CASE BeginRoleWrite(q)
  BY <1>4 DEF BeginRoleWrite, Begin, Goto, TypeOK, NoJob, Steps, Alone
<1>5. CASE BeginRoleDelete(q)
  BY <1>5 DEF BeginRoleDelete, Begin, Goto, TypeOK, NoJob, Steps, Alone
<1> QED
  BY <1>1, <1>2, <1>3, <1>4, <1>5 DEF Start

\* Every request is always at a step of the handler it runs.
LEMMA ControlCorrect == Spec => []ControlInv
<1>1. Init => ControlInv
  BY DEF Init, ControlInv, Done
<1>2. TypeOK /\ ControlInv /\ [Next]_vars => ControlInv'
  <2> SUFFICES ASSUME TypeOK, ControlInv, [Next]_vars PROVE ControlInv'
    OBVIOUS
  <2>1. ASSUME NEW q \in Req, Alone(q), pc'[q] \in Done \cup Steps(job'[q].op)
        PROVE  ControlInv'
    BY <2>1 DEF ControlInv, Alone
  <2>2. ASSUME NEW q \in Req, Start(q) PROVE ControlInv'
    BY <2>1, <2>2, ControlStart
  <2>3. ASSUME NEW q \in Req, Step(q) \/ AcquireLock(q) \/ StorageError(q) PROVE ControlInv'
    BY <2>1, <2>3, ControlStep DEF Done
  <2>4. CASE Crash
    BY <2>4 DEF Crash, ControlInv, Done
  <2>5. CASE Tick \/ UNCHANGED vars
    BY <2>5 DEF Tick, vars, ControlInv
  <2> QED
    BY <2>2, <2>3, <2>4, <2>5 DEF Next
<1> QED
  BY <1>1, <1>2, TypeCorrect, PTL DEF Spec

--------------------------------------------------------------------------------
(* The lock: who holds it is read off the control state. *)

\* A step of q that neither enters nor leaves the guarded section.
LEMMA LockKept ==
    ASSUME LockInv, NEW q \in Req, Alone(q), owner' = owner,
           HoldsLock(q)' <=> HoldsLock(q),
           HoldsLock(q) => job'[q].role = job[q].role
    PROVE  LockInv'
BY DEF LockInv, HoldsLock, Alone

\* A handler that returns gives back the lock it holds, if any.
LEMMA LockReturned ==
    ASSUME TypeOK, LockInv, NEW q \in Req, NEW l \in {"ok", "fail"}, NEW t, Return(q, l, t)
    PROVE  LockInv'
<1>1. Alone(q) /\ pc'[q] = l
  BY ReturnEffect
<1>2. ~HoldsLock(q)'
  BY <1>1 DEF HoldsLock
<1>3. owner' = [k \in Lock |-> IF owner[k] = q THEN NoReq ELSE owner[k]]
  BY DEF Return, Released
<1>4. \A p \in Req \ {q} : HoldsLock(p)' <=> HoldsLock(p)
  BY <1>1 DEF Alone, HoldsLock
<1> QED
  BY <1>1, <1>2, <1>3, <1>4, RequestAssumption DEF LockInv, Alone

\* Taking a free lock enters the section.
LEMMA LockTaken ==
    ASSUME TypeOK, LockInv, NEW q \in Req, Alone(q), LockFree(q), TakeLock(q),
           job'[q] = job[q], HoldsLock(q)'
    PROVE  LockInv'
<1>1. job[q].role \in Role /\ LockOf[job[q].role] \in Lock
  BY JobTyped, RequestAssumption DEF TypeOK
<1>2. \A p \in Req \ {q} : HoldsLock(p)' <=> HoldsLock(p)
  BY DEF Alone, HoldsLock
<1>3. \A k \in Lock : owner'[k] = IF k = LockOf[job[q].role] THEN q ELSE owner[k]
  BY <1>1 DEF TakeLock, TypeOK
<1>4. \A k \in Lock : owner[k] # q
  BY <1>1, RequestAssumption DEF LockInv, LockFree, TypeOK
<1> QED
  BY <1>1, <1>2, <1>3, <1>4, RequestAssumption DEF LockInv, LockFree, Alone

\* Every step of a request preserves the lock invariant: one case per action, by
\* whether it stays where it is relative to the guarded section, returns or enters.
LEMMA LockStep ==
    ASSUME TypeOK, ControlInv, LockInv, NEW q \in Req,
           Step(q) \/ AcquireLock(q) \/ StorageError(q)
    PROVE  LockInv'
<1>a. job[q] \in Job /\ job[q].op \in AllOps /\ pc[q] \in Done \cup Steps(job[q].op)
  BY JobTyped DEF TypeOK, ControlInv
<1>b. Alone(q)
  BY ControlStep
<1>c. ASSUME Fail(q) PROVE LockInv'
  BY <1>c, LockReturned DEF Fail
<1>d. ASSUME NEW t, Serve(q, t) PROVE LockInv'
  BY <1>d, LockReturned DEF Serve
<1>e. ASSUME owner' = owner, HoldsLock(q)' <=> HoldsLock(q),
             HoldsLock(q) => job'[q].role = job[q].role
      PROVE  LockInv'
  BY <1>b, <1>e, LockKept
<1> USE DEF At, HoldsLock
<1>1. CASE LoadRole(q)
  BY <1>1, <1>c, <1>e DEF LoadRole, Goto, RevokeOrDrop, TypeOK, Job
<1>2. CASE LoadConfig(q)
  BY <1>2, <1>c, <1>e DEF LoadConfig, Goto, TypeOK, Job
<1>3. CASE FastPath(q)
  BY <1>3, <1>d, <1>e DEF FastPath, Goto, TypeOK
<1>4. CASE TryLock(q)
  <2>1. CASE LockFree(q)
    BY <1>4, <1>b, <2>1, LockTaken DEF TryLock, Goto, TypeOK
  <2>2. CASE ~LockFree(q)
    BY <1>4, <1>e, <2>2 DEF TryLock, Goto, TypeOK
  <2> QED
    BY <2>1, <2>2
<1>5. CASE ServeWhileBusy(q)
  BY <1>5, <1>d, <1>e DEF ServeWhileBusy, Goto, TypeOK
<1>6. CASE Recheck(q)
  BY <1>6, <1>d, <1>e DEF Recheck, Goto, TypeOK, Job
<1>7. CASE MintSucceeds(q)
  BY <1>7, <1>e DEF MintSucceeds, Goto, TypeOK, Job
<1>8. CASE \E d \in BOOLEAN : MintFails(q, d)
  <2>1. CASE job[q].op = "creds"
    BY <1>8, <1>e, <2>1 DEF MintFails, Goto, TypeOK, Job
  <2>2. CASE job[q].op # "creds"
    BY <1>8, <1>c, <2>2 DEF MintFails
  <2> QED
    BY <2>1, <2>2
<1>9. CASE StoreToken(q)
  BY <1>9, <1>d, LockReturned DEF StoreToken
<1>10. CASE Salvage(q)
  BY <1>10, <1>c, <1>d, <1>e DEF Salvage, Goto, TypeOK
<1>11. CASE PurgeRejected(q)
  BY <1>11, <1>c DEF PurgeRejected
<1>12. CASE RevokeRead(q)
  BY <1>12, <1>e DEF RevokeRead, Goto, TypeOK, Job
<1>13. CASE RevokeConfig(q)
  BY <1>13, <1>e DEF RevokeConfig, Goto, TypeOK, Job
<1>14. CASE \E a, b \in BOOLEAN : RevokePost(q, a, b)
  BY <1>14, <1>e DEF RevokePost, Goto, TypeOK, Job
<1>15. CASE DropToken(q)
  <2>1. CASE job[q].op \in {"revoke", "rwrite"}
    BY <1>15, <2>1, LockReturned DEF DropToken
  <2>2. CASE job[q].op = "rotate"
    BY <1>15, <1>e, <2>2 DEF DropToken, Goto, TypeOK, Job
  <2>3. CASE job[q].op = "rdelete"
    BY <1>15, <1>e, <2>3 DEF DropToken, Goto, TypeOK
  <2> QED
    BY <1>15, <2>1, <2>2, <2>3 DEF DropToken
<1>16. CASE ReadConfig(q)
  BY <1>16, <1>c, <1>e DEF ReadConfig, Goto, TypeOK
<1>17. CASE PutConfig(q)
  BY <1>17, <1>e DEF PutConfig, Goto, TypeOK, Job
<1>18. CASE ListRoles(q)
  BY <1>18, <1>e DEF ListRoles, Goto, TypeOK, Job
<1>19. CASE EvictToken(q)
  BY <1>19, <1>e DEF EvictToken, Goto, TypeOK
<1>20. CASE PurgeDone(q)
  BY <1>20, <1>e, LockReturned DEF PurgeDone, Goto, TypeOK
<1>21. CASE DeleteConfig(q)
  BY <1>21, LockReturned DEF DeleteConfig
<1>22. CASE \E r \in Role : VisitRole(q, r)
  BY <1>22, <1>e DEF VisitRole, Goto, TypeOK, Job
<1>23. CASE ReadRole(q)
  BY <1>23, <1>c, <1>e DEF ReadRole, Goto, TypeOK
<1>24. CASE ValidateRole(q)
  BY <1>24, <1>c, <1>e DEF ValidateRole, Goto, TypeOK
<1>25. CASE PutRole(q)
  <2>1. job[q].op = "rwrite"
    BY <1>25, <1>a DEF PutRole, Steps, Done, AllOps
  <2> QED
    BY <1>25, <1>e, <2>1 DEF PutRole, Goto, TypeOK, Job
<1>26. CASE DeleteRole(q)
  BY <1>26, LockReturned DEF DeleteRole
<1>27. CASE AcquireLock(q)
  <2>1. job[q].op \in {"creds", "rotate"}
    BY <1>27, <1>a DEF AcquireLock, Steps, Done, AllOps
  <2> QED
    BY <1>27, <1>b, <2>1, LockTaken DEF AcquireLock, RevokeOrDrop, Goto, TypeOK
<1>28. CASE StorageError(q)
  <2>1. CASE Fail(q)
    BY <1>c, <2>1
  <2>2. CASE ~Fail(q)
    <3>1. owner' = owner /\ job'[q].role = job[q].role /\ job'[q].op = job[q].op
      BY <1>28, <2>2 DEF StorageError, Goto, TypeOK, Job
    <3>2. HoldsLock(q)' <=> HoldsLock(q)
      BY <1>28, <2>2, <3>1 DEF StorageError, Goto, TypeOK
    <3> QED
      BY <1>e, <3>1, <3>2
  <2> QED
    BY <2>1, <2>2
<1> QED
  BY <1>1, <1>2, <1>3, <1>4, <1>5, <1>6, <1>7, <1>8, <1>9, <1>10, <1>11, <1>12, <1>13, <1>14,
     <1>15, <1>16, <1>17, <1>18, <1>19, <1>20, <1>21, <1>22, <1>23, <1>24, <1>25, <1>26,
     <1>27, <1>28
     DEF Step, IssueStep, RevokeStep, AdminStep, MintReturns

\* The lock of a role is held exactly by the request inside the section it
\* guards: no path through issueToken, pathRotate or an error keeps it or enters
\* without it.
THEOREM LockCorrect == Spec => []LockInv
<1>1. Init => LockInv
  BY RequestAssumption DEF Init, LockInv, HoldsLock
<1>2. TypeOK /\ ControlInv /\ LockInv /\ [Next]_vars => LockInv'
  <2> SUFFICES ASSUME TypeOK, ControlInv, LockInv, [Next]_vars PROVE LockInv'
    OBVIOUS
  <2>1. ASSUME NEW q \in Req, Start(q) PROVE LockInv'
    <3>1. /\ Alone(q) /\ pc[q] \in Done /\ owner' = owner
          /\ \/ pc'[q] \in {"role", "cread", "list", "rread"}
             \/ pc'[q] = "drop" /\ job'[q].op = "rdelete"
      BY <2>1, ControlStart
    <3>2. ~HoldsLock(q) /\ ~HoldsLock(q)'
      BY <3>1 DEF HoldsLock, Done
    <3> QED
      BY <3>1, <3>2, LockKept
  <2>2. ASSUME NEW q \in Req, Step(q) \/ AcquireLock(q) \/ StorageError(q) PROVE LockInv'
    BY <2>2, LockStep
  <2>3. CASE Crash
    BY <2>3, RequestAssumption DEF Crash, LockInv, HoldsLock
  <2>4. CASE Tick \/ UNCHANGED vars
    BY <2>4 DEF Tick, vars, LockInv, HoldsLock
  <2> QED
    BY <2>1, <2>2, <2>3, <2>4 DEF Next
<1> QED
  BY <1>1, <1>2, TypeCorrect, ControlCorrect, PTL DEF Spec

\* At most one token request per role is under way, however reads, rotations,
\* storage errors and crashes interleave, even when roles share a lock.
THEOREM SingleFlightCorrect == Spec => []SingleFlight
<1>1. TypeOK /\ LockInv => SingleFlight
  <2> SUFFICES ASSUME TypeOK, LockInv, NEW p \in Req, NEW q \in Req,
                      pc[p] \in {"wait", "store"}, pc[q] \in {"wait", "store"},
                      job[p].role = job[q].role
               PROVE  p = q
    BY DEF SingleFlight
  <2>1. LockOf[job[q].role] \in Lock
    BY JobTyped, RequestAssumption DEF TypeOK
  <2>2. owner[LockOf[job[q].role]] = p /\ owner[LockOf[job[q].role]] = q
    BY <2>1 DEF LockInv, HoldsLock
  <2> QED
    BY <2>2
<1> QED
  BY <1>1, TypeCorrect, LockCorrect, PTL

--------------------------------------------------------------------------------
(* What a step may do to the cache and to the clock. *)

\* A step of a request leaves the cache alone, deletes the entry of its role or
\* stores a token it minted; time does not pass in it.
LEMMA CacheStep ==
    ASSUME TypeOK, NEW q \in Req,
           Start(q) \/ Step(q) \/ AcquireLock(q) \/ StorageError(q)
    PROVE  /\ now' = now
           /\ \/ cache' = cache
              \/ cache' = [cache EXCEPT ![job[q].role] = NoToken]
              \/ StoreToken(q)
<1>1. CASE Start(q)
  BY <1>1 DEF Start, BeginRole, BeginRevoke, BeginConfig, BeginRoleWrite, BeginRoleDelete,
              Begin, storage
<1>2. CASE IssueStep(q)
  BY <1>2 DEF IssueStep, LoadRole, LoadConfig, FastPath, TryLock, ServeWhileBusy, Recheck,
              MintReturns, MintSucceeds, MintFails, StoreToken, Salvage, PurgeRejected, storage
<1>3. CASE RevokeStep(q)
  BY <1>3 DEF RevokeStep, RevokeRead, RevokeConfig, RevokePost, DropToken, storage
<1>4. CASE AdminStep(q)
  BY <1>4 DEF AdminStep, ReadConfig, PutConfig, ListRoles, EvictToken, PurgeDone,
              DeleteConfig, VisitRole, ReadRole, ValidateRole, PutRole, DeleteRole, storage
<1>5. CASE AcquireLock(q) \/ StorageError(q)
  BY <1>5 DEF AcquireLock, StorageError, storage
<1> QED
  BY <1>1, <1>2, <1>3, <1>4, <1>5 DEF Step

\* The ways into a token request and out of it.
LEMMA MintControl ==
    ASSUME TypeOK, NEW q \in Req, pc'[q] \in {"wait", "store"},
           Start(q) \/ Step(q) \/ AcquireLock(q) \/ StorageError(q)
    PROVE  \/ Recheck(q) /\ ~CachedAndFresh(q) /\ job'[q] = [job[q] EXCEPT !.t0 = now]
           \/ DropToken(q) /\ job[q].op = "rotate" /\ job'[q] = [job[q] EXCEPT !.t0 = now]
           \/ MintSucceeds(q)
<1> USE DEF At, Goto
<1>1. CASE Start(q)
  BY <1>1, ControlStart
<1>2. ASSUME NEW l \in {"ok", "fail"}, NEW t, Return(q, l, t) PROVE FALSE
  BY <1>2, ReturnEffect
<1>3. CASE IssueStep(q)
  <2>1. Recheck(q) \/ MintSucceeds(q)
    BY <1>2, <1>3 DEF IssueStep, LoadRole, LoadConfig, FastPath, TryLock, ServeWhileBusy,
       MintReturns, MintFails, StoreToken, Salvage, PurgeRejected, Serve, Fail,
       RevokeOrDrop, TypeOK
  <2>2. CASE Recheck(q)
    BY <1>2, <2>2 DEF Recheck, Serve, TypeOK
  <2> QED
    BY <2>1, <2>2
<1>4. CASE RevokeStep(q)
  <2>1. DropToken(q)
    BY <1>4 DEF RevokeStep, RevokeRead, RevokeConfig, RevokePost, TypeOK
  <2> QED
    BY <1>2, <2>1 DEF DropToken, TypeOK
<1>5. CASE AdminStep(q)
  BY <1>2, <1>5 DEF AdminStep, ReadConfig, PutConfig, ListRoles, EvictToken, PurgeDone,
     DeleteConfig, VisitRole, ReadRole, ValidateRole, PutRole, DeleteRole, Fail, TypeOK
<1>6. CASE AcquireLock(q) \/ StorageError(q)
  BY <1>2, <1>6 DEF AcquireLock, StorageError, RevokeOrDrop, Fail, TypeOK
<1> QED
  BY <1>1, <1>3, <1>4, <1>5, <1>6 DEF Step

\* Whoever waited for the lock, no token request is under way while the cache
\* holds a token that is fresh for it.
THEOREM MintOnlyWhenStaleCorrect == Spec => []MintOnlyWhenStale
<1>1. Init => MintOnlyWhenStale
  BY DEF Init, MintOnlyWhenStale
<1>2. TypeOK /\ ControlInv /\ SingleFlight /\ MintOnlyWhenStale /\ [Next]_vars
        => MintOnlyWhenStale'
  <2> SUFFICES ASSUME TypeOK, ControlInv, SingleFlight, MintOnlyWhenStale, [Next]_vars
               PROVE  MintOnlyWhenStale'
    OBVIOUS
  <2>a. \A p \in Req : job[p].role \in Role /\ job[p].spec.skew \in Nat
    BY JobTyped, SpecTyped DEF TypeOK
  <2>b. \A r \in Role : cache[r].exp \in Nat /\ now \in Nat
    BY DEF TypeOK, Token
  <2>1. ASSUME NEW q \in Req, Start(q) \/ Step(q) \/ AcquireLock(q) \/ StorageError(q)
        PROVE  MintOnlyWhenStale'
    <3>0. Alone(q) /\ now' = now
      BY <2>1, ControlStart, ControlStep, CacheStep
    <3>1. ASSUME NEW p \in Req, p # q, pc'[p] \in {"wait", "store"}
          PROVE  ~CachedAndFresh(p)'
      <4>1. pc[p] = pc'[p] /\ job[p] = job'[p] /\ ~CachedAndFresh(p)
        BY <3>0, <3>1 DEF Alone, MintOnlyWhenStale
      <4>2. CASE cache' = cache
        BY <3>0, <4>1, <4>2 DEF CachedAndFresh
      <4>3. CASE cache' = [cache EXCEPT ![job[q].role] = NoToken]
        BY <2>a, <3>0, <4>1, <4>3 DEF CachedAndFresh, Present, NoToken, TypeOK
      <4>4. CASE StoreToken(q)
        <5>1. job[p].role # job[q].role
          BY <3>1, <4>1, <4>4 DEF SingleFlight, StoreToken, At
        <5>2. cache'[job[p].role] = cache[job[p].role]
          BY <2>a, <4>4, <5>1 DEF StoreToken, TypeOK
        <5> QED
          BY <3>0, <4>1, <5>2 DEF CachedAndFresh
      <4> QED
        BY <2>1, <4>2, <4>3, <4>4, CacheStep
    <3>2. ASSUME pc'[q] \in {"wait", "store"} PROVE ~CachedAndFresh(q)'
      <4>1. CASE /\ Recheck(q) /\ ~CachedAndFresh(q)
                 /\ job'[q] = [job[q] EXCEPT !.t0 = now]
        <5>1. job'[q].role = job[q].role /\ job'[q].spec = job[q].spec
          BY <4>1 DEF TypeOK, Job
        <5>2. cache' = cache
          BY <4>1 DEF Recheck, storage
        <5> QED
          BY <3>0, <4>1, <5>1, <5>2 DEF CachedAndFresh
      <4>2. CASE /\ DropToken(q) /\ job[q].op = "rotate"
                 /\ job'[q] = [job[q] EXCEPT !.t0 = now]
        <5>1. job'[q].role = job[q].role
          BY <4>2 DEF TypeOK, Job
        <5>2. cache'[job[q].role] = NoToken
          BY <2>a, <4>2 DEF DropToken, TypeOK
        <5> QED
          BY <5>1, <5>2 DEF CachedAndFresh, Present, NoToken
      <4>3. CASE MintSucceeds(q)
        <5>1. job'[q].role = job[q].role /\ job'[q].spec = job[q].spec
          BY <4>3 DEF MintSucceeds, TypeOK, Job
        <5>2. cache' = cache /\ ~CachedAndFresh(q)
          BY <4>3 DEF MintSucceeds, MintOnlyWhenStale, At, storage
        <5> QED
          BY <3>0, <5>1, <5>2 DEF CachedAndFresh
      <4> QED
        BY <2>1, <3>2, <4>1, <4>2, <4>3, MintControl
    <3> QED
      BY <3>1, <3>2 DEF MintOnlyWhenStale
  <2>2. CASE Crash
    BY <2>2 DEF Crash, MintOnlyWhenStale
  <2>3. CASE Tick
    BY <2>3, <2>a, <2>b DEF Tick, MintOnlyWhenStale, CachedAndFresh, fresh, storage
  <2>4. CASE UNCHANGED vars
    BY <2>4 DEF vars, storage, MintOnlyWhenStale, CachedAndFresh
  <2> QED
    BY <2>1, <2>2, <2>3, <2>4 DEF Next
<1> QED
  BY <1>1, <1>2, TypeCorrect, ControlCorrect, SingleFlightCorrect, PTL DEF Spec

--------------------------------------------------------------------------------
(* Expiry: how long the engine believes a token compared with Salesforce.    *)

\* A step is a mint, or leaves Salesforce no session that it did not have.
LEMMA SessionStep ==
    ASSUME TypeOK, NEW q \in Req, Start(q) \/ Step(q) \/ AcquireLock(q) \/ StorageError(q)
    PROVE  MintSucceeds(q) \/ (sessions' \subseteq sessions /\ issued' = issued)
<1>1. CASE Start(q)
  BY <1>1 DEF Start, BeginRole, BeginRevoke, BeginConfig, BeginRoleWrite, BeginRoleDelete,
              Begin, remote
<1>2. CASE IssueStep(q)
  BY <1>2 DEF IssueStep, LoadRole, LoadConfig, FastPath, TryLock, ServeWhileBusy, Recheck,
              MintReturns, MintFails, StoreToken, Salvage, PurgeRejected, remote
<1>3. CASE RevokeStep(q)
  BY <1>3 DEF RevokeStep, RevokeRead, RevokeConfig, RevokePost, DropToken, remote
<1>4. CASE AdminStep(q)
  BY <1>4 DEF AdminStep, ReadConfig, PutConfig, ListRoles, EvictToken, PurgeDone,
              DeleteConfig, VisitRole, ReadRole, ValidateRole, PutRole, DeleteRole, remote
<1>5. CASE AcquireLock(q) \/ StorageError(q)
  BY <1>5 DEF AcquireLock, StorageError, remote
<1> QED
  BY <1>1, <1>2, <1>3, <1>4, <1>5 DEF Step

\* A recorded expiry outlasts the session by less than Overrun.
Honest(t) == t.exp <= t.sfExp + Overrun(t)

\* The engine's side of ServesUnexpired, and what it needs of Salesforce: a session
\* that a mint continues was begun by an earlier mint.
ExpiryInv ==
    /\ \A r \in Role : Present(cache[r]) => Honest(cache[r])
    /\ \A q \in Req : pc[q] = "store" => Honest(job[q].tok)
    /\ \A s \in sessions : s.acc <= issued

\* A mint records an honest expiry: a new session begins after the clock was read,
\* and one that goes on had not ended when Salesforce answered.
LEMMA MintHonest ==
    ASSUME TypeOK, ExpiryInv, NEW q \in Req, NEW e \in ExpiresIn,
           NEW i \in job[q].t0 .. now, NEW s \in Granted(i)
    PROVE  Honest(NewToken(q, e, s)) /\ s.acc <= issued + 1
<1>1. /\ job[q].t0 \in Nat /\ now \in Nat /\ i \in Nat /\ job[q].t0 <= i
      /\ job[q].spec \in RoleSpec /\ issued \in Nat
  BY JobTyped DEF TypeOK
<1>2. lifetime(job[q].spec.ttl, e) \in Nat /\ SessionLife \in Nat
      /\ lifetime(job[q].spec.ttl, e) <= SessionLife
  BY <1>1, SpecTyped, DefaultTTLAssumption, SessionAssumption DEF lifetime
<1>3. s \in Session
  BY <1>1, GrantedTyped DEF TypeOK
<1>4. computeExpiry(job[q].t0, job[q].spec.ttl, e) <= i + SessionLife
  BY <1>1, <1>2 DEF computeExpiry
<1>5. computeExpiry(job[q].t0, job[q].spec.ttl, e) \in Nat
  BY <1>1, <1>2 DEF computeExpiry
<1>6. CASE s = [acc |-> issued + 1, exp |-> i + SessionLife]
  BY <1>1, <1>2, <1>4, <1>5, <1>6 DEF NewToken, Honest, Overrun
<1>7. CASE s \in sessions /\ i < s.exp
  <2>1. s.acc \in Nat /\ s.exp \in Nat /\ s.acc <= issued
    BY <1>3, <1>7 DEF Session, ExpiryInv
  <2>2. computeExpiry(job[q].t0, job[q].spec.ttl, e) <= s.exp + SessionLife
    BY <1>1, <1>2, <1>4, <1>5, <1>7, <2>1
  <2> QED
    BY <1>1, <2>1, <2>2 DEF NewToken, Honest, Overrun
<1> QED
  BY <1>6, <1>7 DEF Granted

\* The recorded expiry of a token never outlasts its real one by more than Overrun.
LEMMA ExpiryCorrect == Spec => []ExpiryInv
<1>1. Init => ExpiryInv
  BY DEF Init, ExpiryInv, Present, NoToken
<1>2. TypeOK /\ ControlInv /\ ExpiryInv /\ [Next]_vars => ExpiryInv'
  <2> SUFFICES ASSUME TypeOK, ControlInv, ExpiryInv, [Next]_vars PROVE ExpiryInv'
    OBVIOUS
  <2>1. ASSUME NEW q \in Req, Start(q) \/ Step(q) \/ AcquireLock(q) \/ StorageError(q)
        PROVE  ExpiryInv'
    <3>0. Alone(q) /\ job[q] \in Job /\ job[q].role \in Role /\ job[q].tok \in Token
      BY <2>1, ControlStart, ControlStep, JobTyped DEF TypeOK
    <3>1. \A r \in Role : Present(cache'[r]) => Honest(cache'[r])
      <4>1. CASE cache' = cache
        BY <4>1 DEF ExpiryInv
      <4>2. CASE cache' = [cache EXCEPT ![job[q].role] = NoToken]
        BY <3>0, <4>2 DEF ExpiryInv, Present, NoToken, TypeOK
      <4>3. CASE StoreToken(q)
        <5>1. cache' = [cache EXCEPT ![job[q].role] = [job[q].tok EXCEPT !.at = ver]]
              /\ Honest(job[q].tok)
          BY <4>3 DEF StoreToken, At, ExpiryInv
        <5>2. Honest([job[q].tok EXCEPT !.at = ver])
          BY <3>0, <5>1 DEF Token, Honest, Overrun
        <5> QED
          BY <3>0, <5>1, <5>2 DEF ExpiryInv, TypeOK
      <4> QED
        BY <2>1, <4>1, <4>2, <4>3, CacheStep
    <3>2. CASE MintSucceeds(q)
      <4>1. PICK e \in ExpiresIn, i \in job[q].t0 .. now : \E s \in Granted(i) :
                 /\ job' = [job EXCEPT ![q].tok = NewToken(q, e, s)]
                 /\ sessions' = sessions \cup {s}
        BY <3>2 DEF MintSucceeds
      <4>2. PICK s \in Granted(i) : /\ job' = [job EXCEPT ![q].tok = NewToken(q, e, s)]
                                   /\ sessions' = sessions \cup {s}
        BY <4>1
      <4>3. job'[q].tok = NewToken(q, e, s) /\ issued' = issued + 1
        BY <3>2, <4>2 DEF MintSucceeds, TypeOK, Job
      <4>4. Honest(job'[q].tok)
        BY <4>3, MintHonest
      <4>5. s.acc <= issued + 1
        BY MintHonest
      <4>6. \A x \in sessions : x.acc \in Nat /\ x.acc <= issued /\ issued \in Nat
        BY DEF ExpiryInv, TypeOK, Session
      <4>7. \A x \in sessions' : x.acc <= issued'
        BY <4>2, <4>3, <4>5, <4>6
      <4> QED
        BY <3>0, <3>1, <4>4, <4>7 DEF ExpiryInv, Alone
    <3>3. CASE sessions' \subseteq sessions /\ issued' = issued /\ ~MintSucceeds(q)
      <4>1. pc'[q] # "store"
        BY <2>1, <3>3, MintControl DEF Recheck, DropToken, Goto, Serve, Return, TypeOK
      <4> QED
        BY <3>0, <3>1, <3>3, <4>1 DEF ExpiryInv, Alone
    <3> QED
      BY <2>1, <3>2, <3>3, SessionStep
  <2>2. CASE Crash
    BY <2>2 DEF Crash, ExpiryInv, storage, remote
  <2>3. CASE Tick \/ UNCHANGED vars
    BY <2>3 DEF Tick, vars, storage, remote, ExpiryInv
  <2> QED
    BY <2>1, <2>2, <2>3 DEF Next
<1> QED
  BY <1>1, <1>2, TypeCorrect, ControlCorrect, PTL DEF Spec

\* Outside the Put of its own mint, a read answers with the cached token, and has
\* just compared its expiry with the clock.
LEMMA ServedFromCache ==
    ASSUME TypeOK, ControlInv, NEW q \in Req, Serves(q), pc[q] # "store",
           Start(q) \/ Step(q) \/ AcquireLock(q) \/ StorageError(q)
    PROVE  /\ job'[q].tok = cache[job[q].role]
           /\ CachedAndFresh(q) \/ CachedAndUsable(q)
<1>a. pc[q] \in Steps("creds") /\ pc'[q] = "ok" /\ job[q].op = "creds"
  BY DEF Serves, ControlInv
<1>b. ASSUME Fail(q) PROVE FALSE
  BY <1>a, <1>b, ReturnEffect DEF Fail
<1>c. ASSUME NEW t, Serve(q, t) PROVE job'[q].tok = t
  BY <1>c, ReturnEffect DEF Serve
<1> USE DEF At, Goto
<1>1. CASE Start(q)
  BY <1>1, <1>a, ControlStart
<1>2. CASE IssueStep(q)
  <2>1. FastPath(q) \/ ServeWhileBusy(q) \/ Recheck(q) \/ Salvage(q)
    BY <1>2, <1>a, <1>b DEF IssueStep, LoadRole, LoadConfig, TryLock, MintReturns,
       MintSucceeds, MintFails, StoreToken, PurgeRejected, RevokeOrDrop, TypeOK
  <2>2. CASE FastPath(q)
    BY <2>2, <1>a, <1>c DEF FastPath, TypeOK
  <2>3. CASE ServeWhileBusy(q)
    BY <2>3, <1>a, <1>c DEF ServeWhileBusy, TypeOK
  <2>4. CASE Recheck(q)
    BY <2>4, <1>a, <1>c DEF Recheck, TypeOK
  <2>5. CASE Salvage(q)
    BY <2>5, <1>a, <1>b, <1>c DEF Salvage, TypeOK
  <2> QED
    BY <2>1, <2>2, <2>3, <2>4, <2>5
<1>3. CASE RevokeStep(q)
  BY <1>3, <1>a DEF RevokeStep, RevokeRead, RevokeConfig, RevokePost, DropToken, TypeOK
<1>4. CASE AdminStep(q)
  <2>1. pc[q] \notin {"cread", "cput", "list", "bound", "evict", "cdel", "rread", "rcheck",
                      "rput", "rdel"}
    BY <1>a DEF Steps
  <2> QED
    BY <1>4, <2>1 DEF AdminStep, ReadConfig, PutConfig, ListRoles, EvictToken, PurgeDone,
       DeleteConfig, VisitRole, ReadRole, ValidateRole, PutRole, DeleteRole
<1>5. CASE AcquireLock(q) \/ StorageError(q)
  BY <1>5, <1>a, <1>b DEF AcquireLock, StorageError, RevokeOrDrop, TypeOK
<1> QED
  BY <1>1, <1>2, <1>3, <1>4, <1>5 DEF Step

\* A token served from the cache is one that Salesforce still honours if it was new
\* when it was minted, and is within one session lifetime of its end if Salesforce
\* had returned it to an earlier mint; provided the assumed lifetime of a role does
\* not exceed the org's session lifetime.
THEOREM ServesUnexpiredCorrect == Spec => ServesUnexpired
<1> DEFINE A == \A q \in Req : Serves(q) /\ pc[q] # "store"
                  => now < job'[q].tok.sfExp + Overrun(job'[q].tok)
<1>1. TypeOK /\ ControlInv /\ ExpiryInv /\ [Next]_vars => [A]_vars
  <2> SUFFICES ASSUME TypeOK, ControlInv, ExpiryInv, Next,
                      NEW q \in Req, Serves(q), pc[q] # "store"
               PROVE  now < job'[q].tok.sfExp + Overrun(job'[q].tok)
    OBVIOUS
  <2>1. ASSUME NEW p \in Req, Start(p) \/ Step(p) \/ AcquireLock(p) \/ StorageError(p)
        PROVE  p = q
    BY <2>1, ControlStart, ControlStep DEF Alone, Serves, Done
  <2>2. ~Crash /\ ~Tick
    BY DEF Crash, Tick, Serves, Done
  <2>3. Start(q) \/ Step(q) \/ AcquireLock(q) \/ StorageError(q)
    BY <2>1, <2>2 DEF Next
  <2>4. /\ job'[q].tok = cache[job[q].role]
        /\ CachedAndFresh(q) \/ CachedAndUsable(q)
    BY <2>3, ServedFromCache
  <2>5. job[q].role \in Role /\ job[q].spec.skew \in Nat
    BY JobTyped, SpecTyped DEF TypeOK
  <2>6. cache[job[q].role].exp \in Nat /\ cache[job[q].role].sfExp \in Nat /\ now \in Nat
    BY <2>5 DEF TypeOK, Token
  <2>7. Honest(cache[job[q].role]) /\ now < cache[job[q].role].exp
    BY <2>4, <2>5, <2>6 DEF CachedAndFresh, CachedAndUsable, fresh, unexpired, ExpiryInv
  <2>8. Overrun(cache[job[q].role]) \in Nat
    BY SessionAssumption DEF Overrun
  <2> QED
    BY <2>4, <2>6, <2>7, <2>8 DEF Honest
<1> QED
  BY <1>1, TypeCorrect, ControlCorrect, ExpiryCorrect, PTL DEF Spec, ServesUnexpired

--------------------------------------------------------------------------------
(* Rotation: what is revoked at Salesforce is what is dropped. *)

RotateInv ==
    \A q \in Req : job[q].op = "rotate" =>
        /\ pc[q] \in {"role", "config", "lock", "rvread"} => ~Present(job[q].tok)
        /\ DropsOnlyWhatItRevoked(q)

\* How a step of a rotation moves it and what it does to its token.
LEMMA RotateStep ==
    ASSUME TypeOK, ControlInv, NEW q \in Req, job'[q].op = "rotate",
           Start(q) \/ Step(q) \/ AcquireLock(q) \/ StorageError(q)
    PROVE  \/ pc'[q] \in {"wait", "store"}
           \/ pc'[q] = "role" /\ ~Present(job'[q].tok)
           \/ /\ pc[q] \in {"role", "config", "lock"} /\ job[q].op = "rotate"
              /\ pc'[q] \in {"config", "lock", "rvread", "drop"} /\ job'[q].tok = job[q].tok
           \/ /\ cache' = cache /\ pc'[q] \in {"rvcfg", "drop"}
              /\ job'[q].role = job[q].role /\ job'[q].tok = cache[job[q].role]
           \/ /\ cache' = cache /\ pc'[q] \in {"rvpost", "drop"}
              /\ pc[q] \in {"rvcfg", "rvpost"} /\ job[q].op = "rotate"
              /\ job'[q].role = job[q].role /\ job'[q].tok \in {job[q].tok, NoToken}
           \/ ~Present(job'[q].tok) /\ pc'[q] = "drop"
<1> USE DEF At, Goto
<1>a. ASSUME NEW l, NEW t, Return(q, l, t) PROVE FALSE
  BY <1>a, ReturnEffect
<1>b. ASSUME NEW t, Serve(q, t) PROVE FALSE
  BY <1>a, <1>b DEF Serve
<1>c. ASSUME Fail(q) PROVE FALSE
  BY <1>a, <1>c DEF Fail
<1>1. CASE Start(q)
  BY <1>1, ControlStart DEF Steps, NoToken, Present
<1>2. CASE Step(q) \/ AcquireLock(q) \/ StorageError(q)
  <2>0. job[q].op = "rotate" /\ pc[q] \in Done \cup Steps("rotate")
    BY <1>2, ControlStep DEF ControlInv
  <2>1. CASE LoadRole(q)
    BY <1>c, <2>0, <2>1 DEF LoadRole, TypeOK, Job
  <2>2. CASE LoadConfig(q)
    BY <1>c, <2>0, <2>2 DEF LoadConfig, TypeOK, Job
  <2>3. CASE Recheck(q) \/ MintSucceeds(q)
    BY <1>b, <2>3 DEF Recheck, MintSucceeds, TypeOK
  <2>4. CASE FastPath(q) \/ TryLock(q) \/ ServeWhileBusy(q) \/ Salvage(q) \/ PurgeRejected(q)
    BY <2>0, <2>4 DEF FastPath, TryLock, ServeWhileBusy, Salvage, PurgeRejected, Steps, Done
  <2>5. CASE StoreToken(q) \/ \E d \in BOOLEAN : MintFails(q, d)
    BY <1>a, <1>c, <2>0, <2>5 DEF StoreToken, MintFails
  <2>6. CASE RevokeRead(q)
    BY <2>6 DEF RevokeRead, TypeOK, Job, storage
  <2>7. CASE RevokeConfig(q)
    BY <2>0, <2>7 DEF RevokeConfig, TypeOK, Job, storage
  <2>8. CASE \E x, y \in BOOLEAN : RevokePost(q, x, y)
    BY <2>0, <2>8 DEF RevokePost, TypeOK, Job, storage
  <2>9. CASE DropToken(q)
    BY <2>0, <2>9 DEF DropToken, TypeOK
  <2>10. CASE AdminStep(q)
    BY <2>0, <2>10 DEF AdminStep, ReadConfig, PutConfig, ListRoles, EvictToken, PurgeDone,
       DeleteConfig, VisitRole, ReadRole, ValidateRole, PutRole, DeleteRole, Steps, Done
  <2>11. CASE AcquireLock(q)
    BY <2>0, <2>11 DEF AcquireLock, RevokeOrDrop, TypeOK
  <2>12. CASE StorageError(q)
    <3>1. pc[q] \in {"rvread", "rvcfg"}
      BY <1>c, <2>0, <2>12 DEF StorageError, Steps, Done
    <3> QED
      BY <1>c, <2>12, <3>1 DEF StorageError, TypeOK, Job, NoToken, Present
  <2> QED
    BY <1>2, <2>1, <2>2, <2>3, <2>4, <2>5, <2>6, <2>7, <2>8, <2>9, <2>10, <2>11, <2>12
       DEF Step, IssueStep, RevokeStep, MintReturns
<1> QED
  BY <1>1, <1>2

\* A rotation revokes at Salesforce the token it drops: the lock keeps every
\* other Put of the role's token out between the read and the deletion.
THEOREM RotateCorrect == Spec => []RotateRevokesWhatItDrops
<1>1. Init => RotateInv
  BY DEF Init, RotateInv, NoJob
<1>2. TypeOK /\ ControlInv /\ LockInv /\ RotateInv /\ [Next]_vars => RotateInv'
  <2> SUFFICES ASSUME TypeOK, ControlInv, LockInv, RotateInv, [Next]_vars PROVE RotateInv'
    OBVIOUS
  <2>1. ASSUME NEW q \in Req, Start(q) \/ Step(q) \/ AcquireLock(q) \/ StorageError(q)
        PROVE  RotateInv'
    <3>0. Alone(q)
      BY <2>1, ControlStart, ControlStep
    <3>a. \A p \in Req : job[p].role \in Role
      BY JobTyped DEF TypeOK
    <3>1. ASSUME NEW p \in Req, p # q, job'[p].op = "rotate"
          PROVE  /\ pc'[p] \in {"role", "config", "lock", "rvread"} => ~Present(job'[p].tok)
                 /\ DropsOnlyWhatItRevoked(p)'
      <4>1. pc'[p] = pc[p] /\ job'[p] = job[p]
        BY <3>0, <3>1 DEF Alone
      <4>2. SUFFICES ASSUME pc[p] \in {"rvcfg", "rvpost", "drop"}, Present(job[p].tok)
                     PROVE  cache'[job[p].role].id \in {0, job[p].tok.id}
        BY <3>1, <4>1 DEF RotateInv, DropsOnlyWhatItRevoked, Present
      <4>3. cache[job[p].role].id \in {0, job[p].tok.id}
        BY <3>1, <4>1, <4>2 DEF RotateInv, DropsOnlyWhatItRevoked
      <4>4. CASE cache' = cache
        BY <4>3, <4>4
      <4>5. CASE cache' = [cache EXCEPT ![job[q].role] = NoToken]
        BY <3>a, <4>3, <4>5 DEF NoToken, TypeOK
      <4>6. CASE StoreToken(q)
        <5>1. HoldsLock(p) /\ HoldsLock(q)
          BY <3>1, <4>1, <4>2, <4>6 DEF HoldsLock, StoreToken, At
        <5>2. LockOf[job[p].role] \in Lock /\ LockOf[job[q].role] \in Lock
          BY <3>a, RequestAssumption
        <5>3. job[p].role # job[q].role
          BY <3>1, <5>1, <5>2 DEF LockInv
        <5> QED
          BY <3>a, <4>3, <4>6, <5>3 DEF StoreToken, TypeOK
      <4> QED
        BY <2>1, <4>4, <4>5, <4>6, CacheStep
    <3>2. ASSUME job'[q].op = "rotate"
          PROVE  /\ pc'[q] \in {"role", "config", "lock", "rvread"} => ~Present(job'[q].tok)
                 /\ DropsOnlyWhatItRevoked(q)'
      BY <2>1, <3>2, RotateStep DEF RotateInv, DropsOnlyWhatItRevoked, Present, NoToken
    <3> QED
      BY <3>1, <3>2 DEF RotateInv
  <2>2. CASE Crash
    BY <2>2 DEF Crash, RotateInv, NoJob
  <2>3. CASE Tick \/ UNCHANGED vars
    BY <2>3 DEF Tick, vars, storage, RotateInv, DropsOnlyWhatItRevoked, Present
  <2> QED
    BY <2>1, <2>2, <2>3 DEF Next
<1>3. RotateInv => RotateRevokesWhatItDrops
  BY DEF RotateInv, RotateRevokesWhatItDrops
<1> QED
  BY <1>1, <1>2, <1>3, TypeCorrect, ControlCorrect, LockCorrect, PTL DEF Spec
================================================================================
