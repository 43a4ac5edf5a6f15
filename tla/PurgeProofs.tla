------------------------------ MODULE PurgeProofs ------------------------------
(***************************************************************************)
(* What the deletions of cached tokens achieve although they run without   *)
(* the role's lock, for any number of requests, roles and configs: a write *)
(* that has returned has purged, and an entry that was condemned leaves    *)
(* the cache.                                                              *)
(***************************************************************************)
EXTENDS TokenCacheProofs

USE DEF deleteCachedToken

\* No stamp is from the future.
StampInv ==
    /\ \A c \in Config : configs[c] <= ver /\ done[c] <= ver
    /\ \A r \in Role : rdone[r] <= ver
    /\ \A q \in Req : job[q].cfg <= ver

\* Role r was bound to config c when stamp v was taken, and still has a token
\* that was cached before.
Outdated(r, c, v) ==
    /\ roles[r].ver # 0 /\ roles[r].ver < v /\ roles[r].spec.config = c
    /\ Present(cache[r]) /\ cache[r].at < v

\* Role r is among those that the purge of q has yet to look at or to evict.
Pending(q, r) == r \in job[q].todo \/ (pc[q] = "evict" /\ r = job[q].role)

\* A purge under way has yet to visit every role whose token it must evict,
\* whatever was written, deleted and minted since it listed the roles.
SweepInv ==
    \A q \in Req : pc[q] \in {"bound", "evict"} =>
        \A r \in Role : Outdated(r, job[q].config, job[q].cfg) => Pending(q, r)

PurgeInv == StampInv /\ SweepInv /\ ConfigWritePurges /\ RoleWritePurges

\* The parts of the state that the invariant compares have their types.
LEMMA StampsTyped ==
    ASSUME TypeOK
    PROVE  /\ ver \in Nat
           /\ \A c \in Config : configs[c] \in Nat /\ done[c] \in Nat
           /\ \A r \in Role : /\ rdone[r] \in Nat /\ roles[r].ver \in Nat
                              /\ roles[r].spec.config \in Config
                              /\ cache[r].at \in Nat /\ cache[r].id \in Nat
           /\ \A q \in Req : /\ job[q] \in Job /\ job[q].cfg \in Nat /\ job[q].role \in Role
                             /\ job[q].config \in Config /\ job[q].spec \in RoleSpec
                             /\ job[q].spec.config \in Config
BY JobTyped, SpecTyped DEF TypeOK, Token, RoleEntry

\* The steps other than these load no stamp, take none and are not in a purge.
Still(q) ==
    /\ UNCHANGED <<configs, roles, history>>
    /\ job'[q].cfg \in {0, job[q].cfg}
    /\ pc'[q] \notin {"bound", "evict"}

Stamping(q) ==
    \/ LoadConfig(q) \/ DropToken(q) \/ PutConfig(q) \/ ListRoles(q) \/ EvictToken(q)
    \/ PurgeDone(q) \/ DeleteConfig(q) \/ PutRole(q) \/ DeleteRole(q)
    \/ \E r \in Role : VisitRole(q, r)

LEMMA StillOrStamping ==
    ASSUME TypeOK, NEW q \in Req,
           Start(q) \/ Step(q) \/ AcquireLock(q) \/ StorageError(q)
    PROVE  Still(q) \/ Stamping(q)
<1> USE DEF At, Goto, storage, history, Still
<1>b. job[q] \in Job
  BY DEF TypeOK
<1>c. ASSUME NEW l \in {"ok", "fail"}, NEW t, Return(q, l, t)
      PROVE  job'[q].cfg = 0 /\ pc'[q] \notin {"bound", "evict"}
  BY <1>c DEF Return, NoJob, TypeOK
<1>1. CASE Start(q)
  <2>1. job'[q].cfg = 0
    <3>1. CASE \E op \in {"creds", "rotate"} : BeginRole(q, op)
      BY <3>1 DEF BeginRole, Begin, NoJob, TypeOK
    <3>2. CASE BeginRevoke(q)
      BY <3>2 DEF BeginRevoke, Begin, NoJob, TypeOK
    <3>3. CASE \E op \in {"cwrite", "cdelete"} : BeginConfig(q, op)
      BY <3>3 DEF BeginConfig, Begin, NoJob, TypeOK
    <3>4. CASE BeginRoleWrite(q)
      BY <3>4 DEF BeginRoleWrite, Begin, NoJob, TypeOK
    <3>5. CASE BeginRoleDelete(q)
      BY <3>5 DEF BeginRoleDelete, Begin, NoJob, TypeOK
    <3> QED BY <1>1, <3>1, <3>2, <3>3, <3>4, <3>5 DEF Start
  <2>2. UNCHANGED <<configs, roles, history>>
    BY <1>1 DEF Start, BeginRole, BeginRevoke, BeginConfig, BeginRoleWrite,
                BeginRoleDelete, Begin
  <2>3. pc'[q] \notin {"bound", "evict"}
    BY <1>1, ControlStart
  <2> QED BY <2>1, <2>2, <2>3
<1>2. CASE IssueStep(q)
  <2>1. CASE LoadRole(q)
    BY <2>1, <1>b, <1>c DEF LoadRole, Fail, RevokeOrDrop, TypeOK, Job
  <2>2. CASE FastPath(q) \/ ServeWhileBusy(q) \/ Salvage(q)
    BY <2>2, <1>c DEF FastPath, ServeWhileBusy, Salvage, Serve, Fail, TypeOK
  <2>3. CASE TryLock(q) \/ PurgeRejected(q)
    BY <2>3, <1>c DEF TryLock, PurgeRejected, Fail, TypeOK
  <2>4. CASE Recheck(q)
    BY <2>4, <1>b, <1>c DEF Recheck, Serve, TypeOK, Job
  <2>5. CASE MintReturns(q)
    BY <2>5, <1>b, <1>c DEF MintReturns, MintSucceeds, MintFails, Fail, TypeOK, Job
  <2>6. CASE StoreToken(q)
    BY <2>6, <1>c DEF StoreToken, Serve, TypeOK
  <2> QED BY <1>2, <2>1, <2>2, <2>3, <2>4, <2>5, <2>6 DEF IssueStep, Stamping
<1>3. CASE RevokeStep(q)
  BY <1>3, <1>b DEF RevokeStep, RevokeRead, RevokeConfig, RevokePost, TypeOK, Job, Stamping
<1>4. CASE AdminStep(q)
  BY <1>4, <1>c DEF AdminStep, ReadConfig, ReadRole, ValidateRole, Fail, TypeOK, Stamping
<1>5. CASE AcquireLock(q)
  BY <1>5 DEF AcquireLock, RevokeOrDrop, TypeOK
<1>6. CASE StorageError(q)
  BY <1>6, <1>b, <1>c DEF StorageError, Fail, TypeOK, Job
<1> QED BY <1>1, <1>2, <1>3, <1>4, <1>5, <1>6 DEF Step

\* A step stores no token and no role under an old stamp, so nothing becomes
\* outdated with respect to a stamp already taken.
LEMMA OutdatedStep ==
    ASSUME TypeOK, StampInv, NEW q \in Req,
           Start(q) \/ Step(q) \/ AcquireLock(q) \/ StorageError(q),
           NEW r \in Role, NEW c \in Config, NEW v \in Nat, v <= ver, Outdated(r, c, v)'
    PROVE  Outdated(r, c, v)
<1> USE StampsTyped
<1>1. Present(cache'[r]) => cache'[r] = cache[r] \/ cache'[r].at = ver
  <2>1. CASE StoreToken(q)
    BY <2>1 DEF StoreToken, TypeOK, Token, Job
  <2>2. CASE cache' = [cache EXCEPT ![job[q].role] = NoToken]
    BY <2>2 DEF Present, NoToken, TypeOK
  <2> QED BY <2>1, <2>2, CacheStep
<1>2. roles'[r] = roles[r] \/ roles'[r].ver = 0 \/ roles'[r].ver = ver + 1
  <2>1. CASE PutRole(q)
    BY <2>1 DEF PutRole, TypeOK
  <2>2. CASE DeleteRole(q)
    BY <2>2 DEF DeleteRole, NoRole, TypeOK
  <2>3. CASE ~PutRole(q) /\ ~DeleteRole(q)
    BY <2>3, StillOrStamping DEF Still, Stamping, LoadConfig, DropToken, PutConfig, ListRoles,
       EvictToken, PurgeDone, DeleteConfig, VisitRole, storage
  <2> QED BY <2>1, <2>2, <2>3
<1> QED BY <1>1, <1>2 DEF Outdated

\* ConfigWritePurges in terms of Outdated.
LEMMA PurgesMeansNoneOutdated ==
    ASSUME TypeOK
    PROVE  ConfigWritePurges <=>
             \A r \in Role, c \in Config : ~Outdated(r, c, done[c])
BY StampsTyped DEF ConfigWritePurges, Outdated

\* A step of a handler keeps every stamp in the past.
LEMMA StampStep ==
    ASSUME TypeOK, StampInv, NEW q \in Req, Alone(q),
           Start(q) \/ Step(q) \/ AcquireLock(q) \/ StorageError(q)
    PROVE  StampInv' /\ ver <= ver'
<1> USE StampsTyped DEF StampInv, Alone
<1>1. CASE Still(q)
  BY <1>1 DEF Still, history
<1>2. CASE LoadConfig(q)
  <2>1. UNCHANGED <<configs, ver, done, rdone>>
    BY <1>2 DEF LoadConfig, storage, history
  <2>2. job'[q].cfg = 0 \/ job'[q].cfg = configs[job[q].spec.config]
    BY <1>2 DEF LoadConfig, Fail, Return, NoJob, TypeOK, Job
  <2>3. job[q].spec.config \in Config
    BY JobTyped, SpecTyped DEF TypeOK
  <2>4. job'[q].cfg <= ver
    BY <2>2, <2>3
  <2> QED BY <2>1, <2>4
<1>3. CASE PutConfig(q) \/ PutRole(q)
  <2>1. /\ ver' = ver + 1 /\ job'[q].cfg = ver + 1 /\ UNCHANGED <<done, rdone>>
        /\ \A c \in Config : configs'[c] \in {configs[c], ver + 1}
    BY <1>3 DEF PutConfig, PutRole, TypeOK, Job
  <2> QED BY <2>1
<1>4. CASE DropToken(q)
  <2>1. /\ job'[q].cfg \in {0, job[q].cfg} /\ UNCHANGED <<configs, ver, done>>
        /\ \A r \in Role : rdone'[r] \in {rdone[r], job[q].cfg}
    BY <1>4 DEF DropToken, Return, NoJob, TypeOK, Job
  <2> QED BY <2>1
<1>5. CASE ListRoles(q) \/ EvictToken(q) \/ \E r \in Role : VisitRole(q, r)
  <2>1. job'[q].cfg = job[q].cfg /\ UNCHANGED <<configs, ver, done, rdone>>
    <3>1. CASE ListRoles(q) \/ EvictToken(q)
      BY <3>1 DEF ListRoles, EvictToken, TypeOK, Job, storage, history
    <3>2. ASSUME NEW r \in Role, VisitRole(q, r)
          PROVE  job'[q].cfg = job[q].cfg /\ UNCHANGED <<configs, ver, done, rdone>>
      BY <3>2 DEF VisitRole, TypeOK, Job, storage, history
    <3> QED BY <1>5, <3>1, <3>2
  <2> QED BY <2>1
<1>6. CASE PurgeDone(q)
  <2>1. /\ job'[q].cfg \in {0, job[q].cfg} /\ UNCHANGED <<configs, ver, rdone>>
        /\ \A c \in Config : done'[c] \in {done[c], job[q].cfg}
    BY <1>6 DEF PurgeDone, Return, NoJob, TypeOK, storage
  <2> QED BY <2>1
<1>7. CASE DeleteConfig(q) \/ DeleteRole(q)
  <2>1. job'[q].cfg = 0 /\ UNCHANGED history
    BY <1>7 DEF DeleteConfig, DeleteRole, Return, NoJob, TypeOK
  <2>2. \A c \in Config : configs'[c] \in {0, configs[c]}
    BY <1>7 DEF DeleteConfig, DeleteRole, TypeOK
  <2> QED BY <2>1, <2>2 DEF history
<1> QED
  BY <1>1, <1>2, <1>3, <1>4, <1>5, <1>6, <1>7, StillOrStamping DEF Stamping

\* A step of a handler keeps the invariant of the purges.
LEMMA PurgeStep ==
    ASSUME TypeOK, ControlInv, PurgeInv, NEW q \in Req,
           Start(q) \/ Step(q) \/ AcquireLock(q) \/ StorageError(q)
    PROVE  PurgeInv'
<1> USE StampsTyped
<1>a. Alone(q) /\ StampInv
  BY ControlStart, ControlStep DEF PurgeInv
<1>b. StampInv' /\ ver <= ver'
  BY <1>a, StampStep
<1>t. TypeOK'
  BY StartTyped, IssueTyped, RevokeTyped, AdminTyped, FaultTyped DEF Step
<1>u. /\ \A p \in Req : job'[p].config \in Config /\ job'[p].cfg \in Nat
      /\ \A r \in Role : /\ roles'[r].spec.config \in Config /\ cache'[r].at \in Nat
                         /\ rdone'[r] \in Nat
      /\ \A c \in Config : done'[c] \in Nat
  BY <1>t, JobTyped, SpecTyped DEF TypeOK, Token, RoleEntry
<1>c. SweepInv'
  <2> SUFFICES ASSUME NEW p \in Req, pc'[p] \in {"bound", "evict"}, NEW r \in Role,
                      NEW c \in Config, c = job'[p].config, NEW v \in Nat, v = job'[p].cfg,
                      Outdated(r, c, v)'
               PROVE  Pending(p, r)'
    BY <1>u DEF SweepInv, Outdated
  <2>1. ASSUME job'[p].config = job[p].config, job'[p].cfg = job[p].cfg
        PROVE  Outdated(r, job[p].config, job[p].cfg)
    BY <1>a, <2>1, OutdatedStep DEF StampInv
  <2>2. CASE p # q
    BY <1>a, <2>1, <2>2 DEF Alone, PurgeInv, SweepInv, Pending
  <2>3. CASE p = q /\ ListRoles(q)
    BY <2>3 DEF ListRoles, Pending, Outdated, TypeOK, Job, storage
  <2>4. CASE p = q /\ EvictToken(q)
    <3>1. cache'[job[q].role].id = 0
      BY <2>4 DEF EvictToken, NoToken, TypeOK
    <3>2. r # job[q].role
      BY <3>1 DEF Outdated, Present
    <3> QED BY <2>1, <2>4, <3>2 DEF EvictToken, Goto, At, Pending, PurgeInv, SweepInv, TypeOK
  <2>5. CASE p = q /\ \E s \in Role : VisitRole(q, s)
    <3>1. PICK s \in Role : VisitRole(q, s)
      BY <2>5
    <3>2. /\ job'[q].todo = job[q].todo \ {s} /\ job'[q].role = s
          /\ job'[q].config = job[q].config /\ job'[q].cfg = job[q].cfg
          /\ pc[q] = "bound"
      BY <3>1 DEF VisitRole, At, TypeOK, Job
    <3>3. r \in job[q].todo
      BY <2>1, <2>5, <3>2 DEF PurgeInv, SweepInv, Pending
    <3>4. CASE r = s
      BY <2>1, <2>5, <3>1, <3>2, <3>4
         DEF VisitRole, Goto, BoundTo, Outdated, Pending, TypeOK
    <3> QED BY <2>5, <3>2, <3>3, <3>4 DEF Pending
  <2>6. Still(q) => p # q
    BY DEF Still
  <2>7. pc'[q] \in {"bound", "evict"} => \/ ListRoles(q) \/ EvictToken(q)
                                         \/ \E s \in Role : VisitRole(q, s)
    <3>1. ASSUME NEW l \in {"ok", "fail"}, NEW t, Return(q, l, t)
          PROVE  pc'[q] \notin {"bound", "evict"}
      BY <3>1, ReturnEffect
    <3> QED
      BY <3>1, StillOrStamping DEF Still, Stamping, LoadConfig, DropToken, PutConfig,
         PurgeDone, DeleteConfig, PutRole, DeleteRole, Fail, Goto, TypeOK
  <2> QED BY <2>2, <2>3, <2>4, <2>5, <2>7
<1>d. ConfigWritePurges'
  <2> SUFFICES ASSUME NEW r \in Role, NEW c \in Config, Outdated(r, c, done[c])'
               PROVE  FALSE
    BY <1>u DEF ConfigWritePurges, Outdated, Present
  <2>1. CASE done'[c] = done[c]
    BY <1>a, <2>1, OutdatedStep, PurgesMeansNoneOutdated DEF PurgeInv, StampInv
  <2>2. CASE done'[c] # done[c]
    <3>1. PurgeDone(q)
      BY <2>2, StillOrStamping DEF Still, Stamping, LoadConfig, DropToken, PutConfig, ListRoles,
         EvictToken, DeleteConfig, PutRole, DeleteRole, VisitRole, history
    <3>2. /\ c = job[q].config /\ done'[c] = job[q].cfg
          /\ pc[q] = "bound" /\ job[q].todo = {}
      BY <2>2, <3>1 DEF PurgeDone, At, TypeOK
    <3>3. Outdated(r, job[q].config, job[q].cfg)
      BY <1>a, <3>2, OutdatedStep DEF StampInv
    <3> QED BY <3>2, <3>3 DEF PurgeInv, SweepInv, Pending
  <2> QED BY <2>1, <2>2
<1>e. RoleWritePurges'
  <2> SUFFICES ASSUME NEW r \in Role, Present(cache'[r]) PROVE cache'[r].at >= rdone'[r]
    BY DEF RoleWritePurges, Present
  <2>1. CASE StoreToken(q)
    BY <1>a, <2>1 DEF StoreToken, PurgeInv, StampInv, RoleWritePurges, TypeOK, Token, history
  <2>2. CASE DropToken(q)
    <3>1. r # job[q].role
      BY <2>2 DEF DropToken, Present, NoToken, TypeOK
    <3>2. cache'[r] = cache[r] /\ rdone'[r] = rdone[r]
      BY <2>2, <3>1 DEF DropToken, TypeOK
    <3> QED BY <3>2 DEF PurgeInv, RoleWritePurges
  <2>3. CASE ~StoreToken(q) /\ ~DropToken(q)
    <3>1. rdone' = rdone
      BY <2>3, StillOrStamping DEF Still, Stamping, LoadConfig, PutConfig, ListRoles,
         EvictToken, PurgeDone, DeleteConfig, PutRole, DeleteRole, VisitRole, history
    <3>2. cache'[r] = cache[r]
      BY <2>3, CacheStep DEF Present, NoToken, TypeOK
    <3> QED BY <3>1, <3>2 DEF PurgeInv, RoleWritePurges
  <2> QED BY <2>1, <2>2, <2>3
<1> QED BY <1>b, <1>c, <1>d, <1>e DEF PurgeInv

LEMMA PurgeInvCorrect == Spec => []PurgeInv
<1>1. Init => PurgeInv
  <2> SUFFICES ASSUME Init PROVE PurgeInv
    OBVIOUS
  <2>1. StampInv
    BY DEF Init, StampInv, NoJob
  <2>2. SweepInv
    BY DEF Init, SweepInv
  <2>3. ConfigWritePurges /\ RoleWritePurges
    BY DEF Init, ConfigWritePurges, RoleWritePurges, Present, NoToken
  <2> QED BY <2>1, <2>2, <2>3 DEF PurgeInv
<1>2. TypeOK /\ ControlInv /\ PurgeInv /\ [Next]_vars => PurgeInv'
  <2> SUFFICES ASSUME TypeOK, ControlInv, PurgeInv, [Next]_vars PROVE PurgeInv'
    OBVIOUS
  <2> USE DEF PurgeInv, StampInv, SweepInv, ConfigWritePurges, RoleWritePurges, Outdated,
              Pending, Present
  <2>1. ASSUME NEW q \in Req, Start(q) \/ Step(q) \/ AcquireLock(q) \/ StorageError(q)
        PROVE  PurgeInv'
    BY <2>1, PurgeStep
  <2>2. CASE Crash
    BY <2>2, StampsTyped DEF Crash, storage, history, NoJob
  <2>3. CASE Tick
    BY <2>3 DEF Tick, storage, history
  <2>4. CASE UNCHANGED vars
    BY <2>4 DEF vars, storage, history
  <2> QED BY <2>1, <2>2, <2>3, <2>4 DEF Next
<1> QED
  BY <1>1, <1>2, TypeCorrect, ControlCorrect, PTL DEF Spec

\* For every instance: a config write that has returned leaves no token that was
\* cached before its Put for a role bound to the config all along, although
\* deleteCachedTokensForConfig lists the roles once, takes no lock, and roles are
\* written, deleted and minted for meanwhile.
THEOREM ConfigWritePurgesCorrect == Spec => []ConfigWritePurges
<1>1. PurgeInv => ConfigWritePurges
  BY DEF PurgeInv
<1> QED BY <1>1, PurgeInvCorrect, PTL

\* For every instance: a role write that has returned leaves no token of the role
\* that was cached before its Put (the deleteCachedToken of pathRoleWrite).
THEOREM RoleWritePurgesCorrect == Spec => []RoleWritePurges
<1>1. PurgeInv => RoleWritePurges
  BY DEF PurgeInv
<1> QED BY <1>1, PurgeInvCorrect, PTL

-----------------------------------------------------------------------------
\* Something other than the request that sent it refers to mint i.
Known(i) ==
    \/ i \in condemned
    \/ \E r \in Role : cache[r].id = i
    \/ \E l \in leases : l.id = i
    \/ \E q \in Req : pc[q] \in {"rvcfg", "rvpost"} /\ job[q].tok.id = i

\* Each mint was for one role, and only that role's entry, leases and requests
\* refer to it.
Owned(origin) ==
    /\ condemned \subseteq 1 .. issued
    /\ \A r \in Role : Present(cache[r]) =>
          cache[r].id \in 1 .. issued /\ origin[cache[r].id] = r
    /\ \A l \in leases : l.id \in 1 .. issued /\ origin[l.id] = l.role
    /\ \A q \in Req : pc[q] \in {"rvcfg", "rvpost", "store"} =>
          job[q].tok.id \in 1 .. issued /\ origin[job[q].tok.id] = job[q].role

OriginInv == \E origin \in [1 .. issued -> Role] : Owned(origin)

\* A mint that is about to be stored is known to nobody else.
PrivateInv == \A q \in Req : pc[q] = "store" => ~Known(job[q].tok.id)

\* A lease revocation is for a lease that was granted.
LeaseInv ==
    \A q \in Req : job[q].op = "revoke" =>
        [role |-> job[q].role, id |-> job[q].lease] \in leases

CondemnedInv == OriginInv /\ PrivateInv /\ LeaseInv /\ CondemnedLeavesCache

\* How a request comes to hold a token it means to revoke: it reads the cache.
LEMMA RevokeControl ==
    ASSUME TypeOK, ControlInv, NEW q \in Req, pc'[q] \in {"rvcfg", "rvpost"},
           Start(q) \/ Step(q) \/ AcquireLock(q) \/ StorageError(q)
    PROVE  /\ job'[q].role = job[q].role
           /\ \/ job'[q].tok = cache[job[q].role] /\ Present(cache[job[q].role])
              \/ pc[q] = "rvcfg" /\ job'[q].tok = job[q].tok
<1> USE DEF At, Goto
<1>a. ASSUME NEW l \in {"ok", "fail"}, NEW t, Return(q, l, t) PROVE FALSE
  BY <1>a, ReturnEffect
<1>1. CASE Start(q)
  BY <1>1, ControlStart
<1>2. CASE IssueStep(q)
  BY <1>2, <1>a, MintControl DEF IssueStep, LoadRole, LoadConfig, FastPath, TryLock,
     ServeWhileBusy, Recheck, MintReturns, MintSucceeds, MintFails, StoreToken, Salvage,
     PurgeRejected, Serve, Fail, RevokeOrDrop, TypeOK
<1>3. CASE RevokeStep(q)
  <2>1. CASE RevokeRead(q)
    BY <2>1 DEF RevokeRead, TypeOK, Job
  <2>2. CASE RevokeConfig(q)
    BY <2>2 DEF RevokeConfig, TypeOK, Job
  <2>3. CASE DropToken(q) \/ \E reached, answered \in BOOLEAN : RevokePost(q, reached, answered)
    BY <2>3, <1>a DEF DropToken, RevokePost, TypeOK
  <2> QED BY <1>3, <2>1, <2>2, <2>3 DEF RevokeStep
<1>4. CASE AdminStep(q)
  BY <1>4, <1>a DEF AdminStep, ReadConfig, PutConfig, ListRoles, EvictToken, PurgeDone,
     DeleteConfig, VisitRole, ReadRole, ValidateRole, PutRole, DeleteRole, Fail, TypeOK
<1>5. CASE AcquireLock(q) \/ StorageError(q)
  BY <1>5, <1>a DEF AcquireLock, StorageError, RevokeOrDrop, Fail, TypeOK
<1> QED BY <1>1, <1>2, <1>3, <1>4, <1>5 DEF Step

\* A lease revocation keeps the lease it was started for.
LEMMA LeaseControl ==
    ASSUME TypeOK, ControlInv, NEW q \in Req, job'[q].op = "revoke",
           Start(q) \/ Step(q) \/ AcquireLock(q) \/ StorageError(q)
    PROVE  \/ [role |-> job'[q].role, id |-> job'[q].lease] \in leases
           \/ /\ job[q].op = "revoke" /\ job'[q].role = job[q].role
              /\ job'[q].lease = job[q].lease
<1> USE DEF At, Goto
<1>a. job[q] \in Job /\ pc[q] \in Done \cup Steps(job[q].op)
  BY DEF TypeOK, ControlInv
<1>b. ASSUME NEW l, NEW t, Return(q, l, t) PROVE FALSE
  BY <1>b DEF Return, NoJob, TypeOK
<1>1. CASE Start(q)
  <2>1. CASE BeginRevoke(q)
    <3>1. PICK l \in leases :
             job' = [job EXCEPT ![q] = [NoJob EXCEPT !.op = "revoke", !.role = l.role,
                                                     !.lease = l.id]]
      BY <2>1 DEF BeginRevoke, Begin
    <3>2. job'[q].role = l.role /\ job'[q].lease = l.id
      BY <3>1 DEF TypeOK, NoJob
    <3>3. l = [role |-> l.role, id |-> l.id]
      BY DEF TypeOK
    <3> QED BY <3>2, <3>3
  <2>2. CASE \E op \in {"creds", "rotate"} : BeginRole(q, op)
    BY <2>2 DEF BeginRole, Begin, NoJob, TypeOK
  <2>3. CASE \E op \in {"cwrite", "cdelete"} : BeginConfig(q, op)
    BY <2>3 DEF BeginConfig, Begin, NoJob, TypeOK
  <2>4. CASE BeginRoleWrite(q)
    BY <2>4 DEF BeginRoleWrite, Begin, NoJob, TypeOK
  <2>5. CASE BeginRoleDelete(q)
    BY <2>5 DEF BeginRoleDelete, Begin, NoJob, TypeOK
  <2> QED BY <1>1, <2>1, <2>2, <2>3, <2>4, <2>5 DEF Start
<1>2. CASE IssueStep(q)
  <2>1. CASE LoadRole(q) \/ LoadConfig(q) \/ Recheck(q)
    BY <2>1, <1>a, <1>b DEF LoadRole, LoadConfig, Recheck, Serve, Fail, TypeOK, Job
  <2>2. CASE FastPath(q) \/ TryLock(q) \/ ServeWhileBusy(q) \/ StoreToken(q) \/ Salvage(q)
             \/ PurgeRejected(q)
    BY <2>2, <1>b DEF FastPath, TryLock, ServeWhileBusy, StoreToken, Salvage, PurgeRejected,
                      Serve, Fail
  <2>3. CASE MintReturns(q)
    BY <2>3, <1>a, <1>b DEF MintReturns, MintSucceeds, MintFails, Fail, TypeOK, Job
  <2> QED BY <1>2, <2>1, <2>2, <2>3 DEF IssueStep
<1>3. CASE RevokeStep(q)
  BY <1>3, <1>a, <1>b DEF RevokeStep, RevokeRead, RevokeConfig, RevokePost, DropToken, TypeOK,
                          Job
<1>4. CASE AdminStep(q)
  <2>1. job[q].op = "revoke" => pc[q] \in {"role", "rvread", "rvcfg", "rvpost", "drop"} \cup Done
    BY <1>a DEF Steps
  <2>2. CASE \E r \in Role : VisitRole(q, r)
    BY <2>1, <2>2, <1>a DEF VisitRole, TypeOK, Job, Done
  <2>3. CASE PutConfig(q) \/ ListRoles(q) \/ PutRole(q)
    BY <2>3, <1>a DEF PutConfig, ListRoles, PutRole, TypeOK, Job
  <2>4. CASE ReadConfig(q) \/ EvictToken(q) \/ PurgeDone(q) \/ DeleteConfig(q) \/ ReadRole(q)
             \/ ValidateRole(q) \/ DeleteRole(q)
    BY <2>4, <1>b DEF ReadConfig, EvictToken, PurgeDone, DeleteConfig, ReadRole, ValidateRole,
                      DeleteRole, Fail
  <2> QED BY <1>4, <2>2, <2>3, <2>4 DEF AdminStep
<1>5. CASE AcquireLock(q) \/ StorageError(q)
  BY <1>5, <1>a, <1>b DEF AcquireLock, StorageError, Fail, TypeOK, Job
<1> QED BY <1>1, <1>2, <1>3, <1>4, <1>5 DEF Step

\* The three ways in which a token is condemned.  In the first two the request
\* goes on to delete the entry of its role, in the last it just has.
Rejects(q) ==
    /\ Present(cache[job[q].role])
    /\ condemned' = condemned \cup {cache[job[q].role].id}
    /\ pc'[q] = "salvage" /\ job'[q].definitive /\ job'[q].role = job[q].role
    /\ cache' = cache

Revokes(q) ==
    /\ pc[q] = "rvpost" /\ condemned' = condemned \cup {job[q].tok.id}
    /\ pc'[q] = "drop" /\ job'[q].role = job[q].role
    /\ cache' = cache

EndsLease(q) ==
    /\ job[q].op = "revoke" /\ condemned' = condemned \cup {job[q].lease}
    /\ cache' = [cache EXCEPT ![job[q].role] = NoToken]

LEMMA CondemnStep ==
    ASSUME TypeOK, NEW q \in Req,
           Start(q) \/ Step(q) \/ AcquireLock(q) \/ StorageError(q)
    PROVE  condemned' = condemned \/ Rejects(q) \/ Revokes(q) \/ EndsLease(q)
<1> USE DEF At, Goto, remote, storage
<1>1. CASE Start(q)
  BY <1>1 DEF Start, BeginRole, BeginRevoke, BeginConfig, BeginRoleWrite, BeginRoleDelete,
              Begin
<1>2. CASE \E d \in BOOLEAN : MintFails(q, d)
  BY <1>2 DEF MintFails, Rejects, TypeOK, Job
<1>3. CASE \E reached, answered \in BOOLEAN : RevokePost(q, reached, answered)
  BY <1>3 DEF RevokePost, Revokes, TypeOK, Job
<1>4. CASE DropToken(q)
  BY <1>4 DEF DropToken, EndsLease
<1>5. CASE IssueStep(q) /\ ~\E d \in BOOLEAN : MintFails(q, d)
  BY <1>5 DEF IssueStep, LoadRole, LoadConfig, FastPath, TryLock, ServeWhileBusy, Recheck,
              MintReturns, MintSucceeds, StoreToken, Salvage, PurgeRejected
<1>6. CASE RevokeRead(q) \/ RevokeConfig(q) \/ AcquireLock(q) \/ StorageError(q)
  BY <1>6 DEF RevokeRead, RevokeConfig, AcquireLock, StorageError
<1>7. CASE AdminStep(q)
  BY <1>7 DEF AdminStep, ReadConfig, PutConfig, ListRoles, EvictToken, PurgeDone,
              DeleteConfig, VisitRole, ReadRole, ValidateRole, PutRole, DeleteRole
<1> QED BY <1>1, <1>2, <1>3, <1>4, <1>5, <1>6, <1>7 DEF Step, RevokeStep

\* Request q is about to delete the cached token of role r.
Deletes(q, r) ==
    /\ job[q].role = r
    /\ pc[q] \in {"drop", "purge"} \/ (pc[q] = "salvage" /\ job[q].definitive)

\* Without a fault it does.
LEMMA DeleteControl ==
    ASSUME TypeOK, NEW q \in Req, NEW r \in Role, Deletes(q, r), faults' = 0,
           Start(q) \/ Step(q) \/ AcquireLock(q) \/ StorageError(q)
    PROVE  Deletes(q, r)' \/ cache' = [cache EXCEPT ![r] = NoToken]
<1> USE DEF At, Deletes
<1>1. ~StorageError(q)
  BY DEF StorageError, TypeOK
<1>2. pc[q] \notin Done
  BY DEF Done
<1>3. CASE Start(q)
  BY <1>2, <1>3, ControlStart
<1>4. CASE IssueStep(q)
  <2>1. Salvage(q) \/ PurgeRejected(q)
    BY <1>4 DEF IssueStep, LoadRole, LoadConfig, FastPath, TryLock, ServeWhileBusy, Recheck,
                MintReturns, MintSucceeds, MintFails, StoreToken
  <2>2. CASE Salvage(q)
    BY <2>2 DEF Salvage, Goto, TypeOK
  <2> QED BY <2>1, <2>2 DEF PurgeRejected
<1>5. CASE RevokeStep(q)
  BY <1>5 DEF RevokeStep, RevokeRead, RevokeConfig, RevokePost, DropToken
<1>6. CASE AdminStep(q)
  BY <1>6 DEF AdminStep, ReadConfig, PutConfig, ListRoles, EvictToken, PurgeDone,
              DeleteConfig, VisitRole, ReadRole, ValidateRole, PutRole, DeleteRole
<1>7. CASE AcquireLock(q)
  BY <1>7 DEF AcquireLock
<1> QED BY <1>1, <1>3, <1>4, <1>5, <1>6, <1>7 DEF Step
-----------------------------------------------------------------------------
\* The ids that a step of q makes known were known before, but for the token it
\* stores.
LEMMA KnownStep ==
    ASSUME TypeOK, ControlInv, LeaseInv, NEW q \in Req,
           Start(q) \/ Step(q) \/ AcquireLock(q) \/ StorageError(q),
           NEW i \in Nat \ {0}, Known(i)'
    PROVE  Known(i) \/ (StoreToken(q) /\ i = job[q].tok.id)
<1> USE IdsTyped
<1>a. Alone(q)
  BY ControlStart, ControlStep
<1>1. CASE i \in condemned'
  BY <1>1, CondemnStep DEF Rejects, Revokes, EndsLease, LeaseInv, Known
<1>2. CASE \E r \in Role : cache'[r].id = i
  <2>1. CASE StoreToken(q)
    BY <1>2, <2>1 DEF StoreToken, TypeOK, Token, Known
  <2>2. CASE cache' = [cache EXCEPT ![job[q].role] = NoToken]
    BY <1>2, <2>2 DEF NoToken, TypeOK, Known
  <2> QED BY <1>2, <2>1, <2>2, CacheStep DEF Known
<1>3. CASE \E l \in leases' : l.id = i
  <2>1. CASE Quiet(q) \/ MintSucceeds(q)
    BY <1>3, <2>1 DEF Quiet, MintSucceeds, Known
  <2>2. CASE Hands(q)
    BY <1>3, <2>2 DEF Hands, CachedLease, Known
  <2>3. CASE StoreToken(q)
    <3>1. leases' = leases \/ leases' = leases \cup {[role |-> job[q].role, id |-> job[q].tok.id]}
      BY <2>3 DEF StoreToken, Serve, Token
    <3> QED BY <1>3, <2>3, <3>1 DEF Known
  <2> QED BY <2>1, <2>2, <2>3, HandlerStep
<1>4. CASE \E p \in Req : pc'[p] \in {"rvcfg", "rvpost"} /\ job'[p].tok.id = i
  <2>1. PICK p \in Req : pc'[p] \in {"rvcfg", "rvpost"} /\ job'[p].tok.id = i
    BY <1>4
  <2>2. CASE p = q
    BY <2>1, <2>2, RevokeControl DEF Known
  <2>3. CASE p # q
    BY <1>a, <2>1, <2>3 DEF Alone, Known
  <2> QED BY <2>2, <2>3
<1> QED BY <1>1, <1>2, <1>3, <1>4 DEF Known

\* A step of a handler keeps the role of every mint.
LEMMA OriginStep ==
    ASSUME TypeOK, ControlInv, LeaseInv, OriginInv, NEW q \in Req,
           Start(q) \/ Step(q) \/ AcquireLock(q) \/ StorageError(q)
    PROVE  OriginInv'
<1> USE IdsTyped
<1>a. Alone(q)
  BY ControlStart, ControlStep
<1>b. PICK origin \in [1 .. issued -> Role] : Owned(origin)
  BY DEF OriginInv
<1>1. ASSUME ~MintSucceeds(q) PROVE Owned(origin)' /\ issued' = issued
  <2>0. issued' = issued
    BY <1>1, HandlerStep DEF Quiet, Hands, StoreToken
  <2>1. (condemned \subseteq 1 .. issued)'
    <3>1. Revokes(q) => job[q].tok.id \in 1 .. issued
      BY <1>b DEF Revokes, Owned
    <3>2. EndsLease(q) => job[q].lease \in 1 .. issued
      BY <1>b DEF EndsLease, LeaseInv, Owned
    <3>3. Rejects(q) => cache[job[q].role].id \in 1 .. issued
      BY <1>b DEF Rejects, Owned
    <3>4. condemned \subseteq 1 .. issued
      BY <1>b DEF Owned
    <3>5. \A i \in condemned' : i \in 1 .. issued
      <4>1. CASE condemned' = condemned
        BY <3>4, <4>1
      <4>2. CASE Rejects(q)
        BY <3>3, <3>4, <4>2 DEF Rejects
      <4>3. CASE Revokes(q)
        BY <3>1, <3>4, <4>3 DEF Revokes
      <4>4. CASE EndsLease(q)
        BY <3>2, <3>4, <4>4 DEF EndsLease
      <4>5. condemned' = condemned \/ Rejects(q) \/ Revokes(q) \/ EndsLease(q)
        BY CondemnStep
      <4> QED BY <4>1, <4>2, <4>3, <4>4, <4>5
    <3> QED BY <2>0, <3>5
  <2>2. ASSUME NEW r \in Role, Present(cache'[r])
        PROVE  cache'[r].id \in 1 .. issued /\ origin[cache'[r].id] = r
    <3>1. CASE StoreToken(q)
      <4>1. job[q].tok.id \in 1 .. issued /\ origin[job[q].tok.id] = job[q].role
        BY <1>b, <3>1 DEF StoreToken, At, Owned
      <4>2. (cache'[r].id = job[q].tok.id /\ r = job[q].role) \/ cache'[r] = cache[r]
        BY <3>1 DEF StoreToken, TypeOK, Token
      <4> QED BY <1>b, <2>2, <4>1, <4>2 DEF Owned
    <3>2. CASE ~StoreToken(q)
      <4>1. cache'[r] = cache[r]
        <5>1. CASE cache' = [cache EXCEPT ![job[q].role] = NoToken]
          BY <2>2, <5>1 DEF Present, NoToken, TypeOK
        <5> QED BY <3>2, <5>1, CacheStep
      <4> QED BY <1>b, <2>2, <4>1 DEF Owned
    <3> QED BY <3>1, <3>2
  <2>3. ASSUME NEW l \in leases' PROVE l.id \in 1 .. issued /\ origin[l.id] = l.role
    <3>1. CASE Quiet(q)
      BY <1>b, <2>3, <3>1 DEF Quiet, Owned
    <3>2. CASE Hands(q)
      BY <1>b, <2>3, <3>2 DEF Hands, CachedLease, Owned
    <3>3. CASE StoreToken(q)
      <4>1. leases' = leases \/ leases' = leases \cup {[role |-> job[q].role, id |-> job[q].tok.id]}
        BY <3>3 DEF StoreToken, Serve, Token
      <4> QED BY <1>b, <2>3, <3>3, <4>1 DEF StoreToken, At, Owned
    <3> QED BY <1>1, <3>1, <3>2, <3>3, HandlerStep
  <2>4. ASSUME NEW p \in Req, pc'[p] \in {"rvcfg", "rvpost", "store"}
        PROVE  job'[p].tok.id \in 1 .. issued /\ origin[job'[p].tok.id] = job'[p].role
    <3>1. CASE p # q
      BY <1>a, <1>b, <2>4, <3>1 DEF Alone, Owned
    <3>2. CASE p = q
      <4>1. pc'[q] # "store"
        BY <1>1, StoreControl
      <4> QED BY <1>b, <2>4, <3>2, <4>1, RevokeControl DEF Owned
    <3> QED BY <3>1, <3>2
  <2> QED BY <2>0, <2>1, <2>2, <2>3, <2>4 DEF Owned, Present
<1>2. CASE MintSucceeds(q)
  <2>1. /\ issued' = issued + 1 /\ cache' = cache /\ leases' = leases
        /\ condemned' = condemned /\ pc'[q] = "store"
    BY <1>2 DEF MintSucceeds, storage, Goto, TypeOK
  <2>2. job'[q].role = job[q].role /\ job'[q].tok.id = issued + 1
    BY <1>2 DEF MintSucceeds, NewToken, TypeOK, Job
  <2>3. PICK o \in [1 .. (issued + 1) -> Role] :
            o = [i \in 1 .. (issued + 1) |-> IF i = issued + 1 THEN job[q].role ELSE origin[i]]
    <3> DEFINE w == [i \in 1 .. (issued + 1) |->
                       IF i = issued + 1 THEN job[q].role ELSE origin[i]]
    <3>1. w \in [1 .. (issued + 1) -> Role]
      OBVIOUS
    <3> QED BY <3>1
  <2>4. /\ o[issued + 1] = job[q].role
        /\ \A i \in 1 .. issued : o[i] = origin[i]
    BY <2>3
  <2>5. ASSUME NEW p \in Req, p # q, pc'[p] \in {"rvcfg", "rvpost", "store"}
        PROVE  job'[p].tok.id \in 1 .. issued /\ o[job'[p].tok.id] = job'[p].role
    BY <1>a, <1>b, <2>4, <2>5 DEF Alone, Owned
  <2>6. Owned(o)'
    BY <1>b, <2>1, <2>2, <2>4, <2>5 DEF Owned, Present
  <2> QED BY <2>1, <2>3, <2>6 DEF OriginInv
<1> QED BY <1>1, <1>2 DEF OriginInv

\* A step of a handler keeps the invariant of the condemned tokens.
LEMMA CondemnedInvStep ==
    ASSUME TypeOK, ControlInv, SingleFlight, CondemnedInv, NEW q \in Req,
           Start(q) \/ Step(q) \/ AcquireLock(q) \/ StorageError(q)
    PROVE  CondemnedInv'
<1> USE IdsTyped
<1>a. Alone(q)
  BY ControlStart, ControlStep
<1>b. OriginInv /\ PrivateInv /\ LeaseInv /\ CondemnedLeavesCache
  BY DEF CondemnedInv
<1>c. PICK origin \in [1 .. issued -> Role] : Owned(origin)
  BY <1>b DEF OriginInv
<1>1. OriginInv'
  BY <1>b, OriginStep
<1>2. LeaseInv'
  <2> SUFFICES ASSUME NEW p \in Req, job'[p].op = "revoke"
               PROVE  [role |-> job'[p].role, id |-> job'[p].lease] \in leases'
    BY DEF LeaseInv
  <2>1. leases \subseteq leases'
    BY HandlerStep DEF Quiet, Hands, StoreToken, Serve, MintSucceeds
  <2>2. CASE p = q
    BY <1>b, <2>1, <2>2, LeaseControl DEF LeaseInv
  <2>3. CASE p # q
    BY <1>a, <1>b, <2>1, <2>3 DEF Alone, LeaseInv
  <2> QED BY <2>2, <2>3
<1>3. PrivateInv'
  <2> SUFFICES ASSUME NEW p \in Req, pc'[p] = "store", Known(job[p].tok.id)'
               PROVE  FALSE
    BY DEF PrivateInv
  <2>1. CASE p = q
    <3>1. MintSucceeds(q)
      BY <2>1, StoreControl
    <3>2. job'[q].tok.id = issued + 1
      BY <3>1 DEF MintSucceeds, NewToken, TypeOK, Job
    <3>3. Known(issued + 1)
      <4>1. PICK i \in Nat \ {0} : i = issued + 1
        OBVIOUS
      <4>2. Known(i)'
        BY <2>1, <3>2, <4>1 DEF Known
      <4>3. ~StoreToken(q)
        BY <3>1 DEF MintSucceeds, StoreToken, At
      <4> QED BY <1>b, <4>1, <4>2, <4>3, KnownStep
    <3> QED BY <1>c, <3>3 DEF Known, Owned, Present
  <2>2. CASE p # q
    <3>1. pc[p] = "store" /\ job'[p] = job[p]
      BY <1>a, <2>2 DEF Alone
    <3>2. PICK i \in Nat \ {0} : i = job[p].tok.id
      BY <3>1 DEF TypeOK, Present
    <3>3. Known(i)'
      BY <3>1, <3>2 DEF Known
    <3>4. ~Known(i)
      BY <1>b, <3>1, <3>2 DEF PrivateInv
    <3>5. StoreToken(q) /\ i = job[q].tok.id
      BY <1>b, <3>3, <3>4, KnownStep
    <3>6. job[p].role = job[q].role /\ pc[q] = "store"
      <4>1. pc[q] = "store"
        BY <3>5 DEF StoreToken, At
      <4>2. origin[i] = job[p].role
        BY <1>c, <3>1, <3>2 DEF Owned
      <4>3. origin[i] = job[q].role
        BY <1>c, <3>5, <4>1 DEF Owned
      <4> QED BY <4>1, <4>2, <4>3
    <3> QED BY <2>2, <3>1, <3>6 DEF SingleFlight
  <2> QED BY <2>1, <2>2
<1>4. CondemnedLeavesCache'
  <2> SUFFICES ASSUME faults' = 0, NEW r \in Role, cache'[r].id \in condemned'
               PROVE  \E p \in Req : Deletes(p, r)'
    BY DEF CondemnedLeavesCache, Deletes
  <2>1. faults = 0
    <3>1. faults \in Nat /\ (faults' = faults \/ faults' = faults + 1)
      BY DEF Start, BeginRole, BeginRevoke, BeginConfig, BeginRoleWrite, BeginRoleDelete,
             Begin, Step, IssueStep, LoadRole, LoadConfig, FastPath, TryLock, ServeWhileBusy,
             Recheck, MintReturns, MintSucceeds, MintFails, StoreToken, Salvage, PurgeRejected,
             RevokeStep, RevokeRead, RevokeConfig, RevokePost, DropToken, AdminStep, ReadConfig,
             PutConfig, ListRoles, EvictToken, PurgeDone, DeleteConfig, VisitRole, ReadRole,
             ValidateRole, PutRole, DeleteRole, AcquireLock, StorageError, TypeOK
    <3> QED BY <3>1
  <2>2. Present(cache'[r])
    <3>1. 0 \notin condemned'
      BY <1>1 DEF OriginInv, Owned
    <3> QED BY <3>1 DEF Present
  <2>3. cache'[r] = cache[r]
    <3>1. CASE StoreToken(q)
      <4>1. cache'[r].id = job[q].tok.id \/ cache'[r] = cache[r]
        BY <3>1 DEF StoreToken, TypeOK, Token
      <4>2. job[q].tok.id \notin condemned'
        BY <1>b, <3>1 DEF StoreToken, At, PrivateInv, Known
      <4> QED BY <4>1, <4>2
    <3>2. CASE cache' = [cache EXCEPT ![job[q].role] = NoToken]
      BY <2>2, <3>2 DEF Present, NoToken, TypeOK
    <3> QED BY <3>1, <3>2, CacheStep
  <2>4. CASE cache[r].id \in condemned
    <3>1. PICK p \in Req : Deletes(p, r)
      BY <1>b, <2>1, <2>4 DEF CondemnedLeavesCache, Deletes
    <3>2. CASE p # q
      BY <1>a, <3>1, <3>2 DEF Alone, Deletes
    <3>3. CASE p = q
      <4>1. cache' # [cache EXCEPT ![r] = NoToken]
        BY <2>2 DEF Present, NoToken, TypeOK
      <4> QED BY <3>1, <3>3, <4>1, DeleteControl
    <3> QED BY <3>2, <3>3
  <2>5. CASE cache[r].id \notin condemned
    <3>1. origin[cache[r].id] = r
      BY <1>c, <2>2, <2>3 DEF Owned
    <3>2. CASE Rejects(q)
      BY <1>c, <2>3, <2>5, <3>1, <3>2 DEF Rejects, Owned, Deletes
    <3>3. CASE Revokes(q)
      BY <1>c, <2>3, <2>5, <3>1, <3>3 DEF Revokes, Owned, Deletes
    <3>4. CASE EndsLease(q)
      <4>1. r = job[q].role
        <5>1. PICK l \in leases : l.role = job[q].role /\ l.id = job[q].lease
          BY <1>b, <3>4 DEF EndsLease, LeaseInv
        <5>2. origin[job[q].lease] = job[q].role
          BY <1>c, <5>1 DEF Owned
        <5>3. cache[r].id = job[q].lease
          BY <2>3, <2>5, <3>4 DEF EndsLease
        <5> QED BY <3>1, <5>2, <5>3
      <4> QED BY <2>2, <3>4, <4>1 DEF EndsLease, Present, NoToken, TypeOK
    <3> QED BY <2>3, <2>5, <3>2, <3>3, <3>4, CondemnStep
  <2> QED BY <2>4, <2>5
<1> QED BY <1>1, <1>2, <1>3, <1>4 DEF CondemnedInv

\* The invariant of the condemned tokens holds through errors and crashes too.
LEMMA CondemnedInvCorrect == Spec => []CondemnedInv
<1>1. Init => CondemnedInv
  <2> SUFFICES ASSUME Init PROVE CondemnedInv
    OBVIOUS
  <2>1. OriginInv
    <3>1. PICK o \in [1 .. issued -> Role] : o = [i \in 1 .. issued |-> SomeRole]
      BY DefaultsTyped
    <3>2. Owned(o)
      BY DEF Init, Owned, Present, NoToken
    <3> QED BY <3>2 DEF OriginInv
  <2> QED
    BY <2>1 DEF Init, CondemnedInv, PrivateInv, LeaseInv, CondemnedLeavesCache, NoJob
<1>2. TypeOK /\ ControlInv /\ SingleFlight /\ CondemnedInv /\ [Next]_vars => CondemnedInv'
  <2> SUFFICES ASSUME TypeOK, ControlInv, SingleFlight, CondemnedInv, [Next]_vars
               PROVE  CondemnedInv'
    OBVIOUS
  <2>1. ASSUME NEW q \in Req, Start(q) \/ Step(q) \/ AcquireLock(q) \/ StorageError(q)
        PROVE  CondemnedInv'
    BY <2>1, CondemnedInvStep
  <2>2. PICK origin \in [1 .. issued -> Role] : Owned(origin)
    BY DEF CondemnedInv, OriginInv
  <2>3. CASE Crash
    <3>1. OriginInv'
      <4>1. issued' = issued /\ Owned(origin)'
        BY <2>2, <2>3 DEF Crash, storage, remote, Owned, Present
      <4> QED BY <4>1 DEF OriginInv
    <3>2. PrivateInv' /\ LeaseInv'
      BY <2>3 DEF Crash, PrivateInv, LeaseInv, NoJob
    <3>3. CondemnedLeavesCache'
      BY <2>3 DEF Crash, CondemnedLeavesCache, TypeOK
    <3> QED BY <3>1, <3>2, <3>3 DEF CondemnedInv
  <2>4. CASE Tick \/ UNCHANGED vars
    <3>1. UNCHANGED <<issued, condemned, leases, cache, pc, job, faults>>
      BY <2>4 DEF Tick, vars, storage, remote
    <3>2. OriginInv'
      <4>1. issued' = issued /\ Owned(origin)'
        BY <2>2, <3>1 DEF Owned, Present
      <4> QED BY <4>1 DEF OriginInv
    <3>3. PrivateInv' /\ LeaseInv'
      BY <3>1 DEF CondemnedInv, PrivateInv, LeaseInv, Known
    <3>4. CondemnedLeavesCache'
      BY <3>1 DEF CondemnedInv, CondemnedLeavesCache
    <3> QED BY <3>2, <3>3, <3>4 DEF CondemnedInv
  <2> QED BY <2>1, <2>3, <2>4 DEF Next
<1> QED
  BY <1>1, <1>2, TypeCorrect, ControlCorrect, SingleFlightCorrect, PTL DEF Spec

\* For every instance: as long as nothing fails or crashes, an entry whose token was
\* revoked, whose lease was revoked or whose credentials were rejected is in the
\* cache only while the handler that deletes it is running, and no late store or
\* fallback brings the entry back.  The next mint may return the same access token.
THEOREM CondemnedLeavesCacheCorrect == Spec => []CondemnedLeavesCache
<1>1. CondemnedInv => CondemnedLeavesCache
  BY DEF CondemnedInv
<1> QED BY <1>1, CondemnedInvCorrect, PTL

-----------------------------------------------------------------------------
\* The completed write that a request has seen when it loaded its config is still
\* the last of that config or an earlier one.
SinceInv ==
    \A q \in Req :
        /\ pc[q] = "role" => job[q].since = 0
        /\ job[q].since <= done[job[q].spec.config]

\* A step of q loads the stamp, keeps it with the definition it belongs to, or
\* forgets it.
LEMMA SinceControl ==
    ASSUME TypeOK, NEW q \in Req,
           Start(q) \/ Step(q) \/ AcquireLock(q) \/ StorageError(q)
    PROVE  \/ job'[q].since = 0
           \/ /\ job'[q].since \in {job[q].since, done[job[q].spec.config]}
              /\ job'[q].spec = job[q].spec /\ pc'[q] # "role"
           \/ job'[q].since = job[q].since /\ pc[q] = "role" /\ pc'[q] # "role"
<1> USE DEF At, Goto
<1>a. job[q] \in Job
  BY DEF TypeOK
<1>b. ASSUME NEW l, NEW t, Return(q, l, t) PROVE job'[q].since = 0
  BY <1>b DEF Return, NoJob, TypeOK
<1>1. CASE Start(q)
  <2>1. ASSUME NEW op, BeginRole(q, op) PROVE job'[q].since = 0
    BY <2>1 DEF BeginRole, Begin, NoJob, TypeOK
  <2>2. ASSUME NEW op, BeginConfig(q, op) PROVE job'[q].since = 0
    BY <2>2 DEF BeginConfig, Begin, NoJob, TypeOK
  <2>3. CASE BeginRevoke(q)
    BY <2>3 DEF BeginRevoke, Begin, NoJob, TypeOK
  <2>4. CASE BeginRoleWrite(q)
    BY <2>4 DEF BeginRoleWrite, Begin, NoJob, TypeOK
  <2>5. CASE BeginRoleDelete(q)
    BY <2>5 DEF BeginRoleDelete, Begin, NoJob, TypeOK
  <2> QED BY <1>1, <2>1, <2>2, <2>3, <2>4, <2>5 DEF Start
<1>2. CASE IssueStep(q)
  <2>1. CASE LoadRole(q) \/ LoadConfig(q) \/ Recheck(q)
    BY <2>1, <1>a, <1>b DEF LoadRole, LoadConfig, Recheck, RevokeOrDrop, Serve, Fail, TypeOK, Job
  <2>2. CASE FastPath(q) \/ TryLock(q) \/ ServeWhileBusy(q) \/ StoreToken(q) \/ Salvage(q)
             \/ PurgeRejected(q)
    BY <2>2, <1>b DEF FastPath, TryLock, ServeWhileBusy, StoreToken, Salvage, PurgeRejected,
                      Serve, Fail, TypeOK
  <2>3. CASE MintReturns(q)
    BY <2>3, <1>a, <1>b DEF MintReturns, MintSucceeds, MintFails, Fail, TypeOK, Job
  <2> QED BY <1>2, <2>1, <2>2, <2>3 DEF IssueStep
<1>3. CASE RevokeStep(q)
  BY <1>3, <1>a, <1>b DEF RevokeStep, RevokeRead, RevokeConfig, RevokePost, DropToken, TypeOK,
                          Job
<1>4. CASE AdminStep(q)
  <2>1. CASE \E r \in Role : VisitRole(q, r)
    BY <2>1, <1>a DEF VisitRole, TypeOK, Job
  <2>2. CASE PutConfig(q) \/ ListRoles(q) \/ PutRole(q)
    BY <2>2, <1>a DEF PutConfig, ListRoles, PutRole, TypeOK, Job
  <2>3. CASE ReadConfig(q) \/ EvictToken(q) \/ PurgeDone(q) \/ DeleteConfig(q) \/ ReadRole(q)
             \/ ValidateRole(q) \/ DeleteRole(q)
    BY <2>3, <1>b DEF ReadConfig, EvictToken, PurgeDone, DeleteConfig, ReadRole, ValidateRole,
                      DeleteRole, Fail, TypeOK
  <2> QED BY <1>4, <2>1, <2>2, <2>3 DEF AdminStep
<1>5. CASE AcquireLock(q) \/ StorageError(q)
  BY <1>5, <1>a, <1>b DEF AcquireLock, RevokeOrDrop, StorageError, Fail, TypeOK, Job
<1> QED BY <1>1, <1>2, <1>3, <1>4, <1>5 DEF Step

\* The stamp of the last completed write of a config never goes back.
LEMMA DoneGrows ==
    ASSUME TypeOK, [Next]_vars, NEW c \in Config
    PROVE  done[c] <= done'[c]
<1>1. ASSUME NEW q \in Req, PurgeDone(q) PROVE done[c] <= done'[c]
  BY <1>1, StampsTyped DEF PurgeDone, TypeOK
<1>2. ASSUME NEW q \in Req, Start(q) \/ Step(q) \/ AcquireLock(q) \/ StorageError(q)
      PROVE  PurgeDone(q) \/ done' = done
  <2>1. CASE Still(q)
    BY <2>1 DEF Still, history
  <2>2. CASE Stamping(q)
    BY <2>2 DEF Stamping, LoadConfig, DropToken, PutConfig, ListRoles, EvictToken, DeleteConfig,
                PutRole, DeleteRole, VisitRole, history
  <2> QED BY <1>2, <2>1, <2>2, StillOrStamping
<1>3. CASE Crash \/ Tick \/ UNCHANGED vars
  BY <1>3, StampsTyped DEF Crash, Tick, vars, history
<1> QED BY <1>1, <1>2, <1>3, StampsTyped DEF Next

\* A read that answers from the Put of its own mint does so by StoreToken.
LEMMA StoreServes ==
    ASSUME TypeOK, ControlInv, NEW q \in Req, Serves(q), pc[q] = "store",
           Start(q) \/ Step(q) \/ AcquireLock(q) \/ StorageError(q)
    PROVE  StoreToken(q)
<1> USE DEF At, Goto
<1>1. ~Start(q)
  BY ControlStart DEF Serves
<1>2. CASE Step(q)
  BY <1>2 DEF Step, IssueStep, RevokeStep, AdminStep, LoadRole, LoadConfig, FastPath, TryLock,
     ServeWhileBusy, Recheck, MintReturns, MintSucceeds, MintFails, Salvage, PurgeRejected,
     RevokeRead, RevokeConfig, DropToken, RevokePost, ReadConfig, PutConfig, ListRoles,
     EvictToken, PurgeDone, DeleteConfig, VisitRole, ReadRole, ValidateRole, PutRole, DeleteRole
<1>3. ~AcquireLock(q)
  BY DEF AcquireLock
<1>4. ~StorageError(q)
  <2> SUFFICES ASSUME StorageError(q) PROVE FALSE
    OBVIOUS
  <2>1. pc'[q] = "salvage"
    BY DEF StorageError, Serves, TypeOK
  <2> QED BY <2>1 DEF Serves
<1> QED BY <1>1, <1>2, <1>3, <1>4

LEMMA SinceCorrect == Spec => []SinceInv
<1>1. Init => SinceInv
  <2> SUFFICES ASSUME Init, NEW q \in Req
               PROVE  job[q].since = 0 /\ job[q].since <= done[job[q].spec.config]
    BY DEF SinceInv
  <2>1. SomeSpec \in RoleSpec
    BY DefaultsTyped
  <2>2. job[q].since = 0 /\ job[q].spec.config \in Config
    BY <2>1, RoleSpecAssumption DEF Init, NoJob
  <2> QED BY <2>2 DEF Init
<1>2. TypeOK /\ TypeOK' /\ ControlInv /\ SinceInv /\ [Next]_vars => SinceInv'
  <2> SUFFICES ASSUME TypeOK, TypeOK', ControlInv, SinceInv, [Next]_vars, NEW p \in Req
               PROVE  /\ pc'[p] = "role" => job'[p].since = 0
                      /\ job'[p].since <= done'[job'[p].spec.config]
    BY DEF SinceInv
  <2> DEFINE c == job[p].spec.config
             d == job'[p].spec.config
  <2>1. c \in Config /\ d \in Config
    BY SpecTyped, JobTyped DEF TypeOK
  <2>2. /\ done[c] \in Nat /\ done'[c] \in Nat /\ done'[d] \in Nat
        /\ job[p].since \in Nat /\ job'[p].since \in Nat
    BY <2>1, JobTyped DEF TypeOK
  <2>3. done[c] <= done'[c]
    BY <2>1, DoneGrows
  <2>4. CASE pc'[p] = pc[p] /\ job'[p] = job[p]
    BY <2>2, <2>3, <2>4 DEF SinceInv
  <2>5. CASE Start(p) \/ Step(p) \/ AcquireLock(p) \/ StorageError(p)
    BY <2>2, <2>3, <2>5, SinceControl DEF SinceInv
  <2>6. ASSUME NEW q \in Req \ {p}, Start(q) \/ Step(q) \/ AcquireLock(q) \/ StorageError(q)
        PROVE  pc'[p] = pc[p] /\ job'[p] = job[p]
    BY <2>6, ControlStart, ControlStep DEF Alone
  <2>7. CASE Crash
    BY <2>2, <2>7 DEF Crash, NoJob
  <2>8. CASE Tick \/ UNCHANGED vars
    BY <2>4, <2>8 DEF Tick, vars
  <2> QED BY <2>4, <2>5, <2>6, <2>7, <2>8 DEF Next
<1> QED
  BY <1>1, <1>2, TypeCorrect, ControlCorrect, PTL DEF Spec

\* For every instance, with any number of writes, purges and reads in flight: a read
\* that loaded its config after a write of it returned answers with a token that was
\* cached after the new config was stored, unless the role was written since.
THEOREM ServesCachedSinceCorrect == Spec => ServesCachedSince
<1> DEFINE A == \A q \in Req :
                  LET r == roles[job[q].role] IN
                  /\ Serves(q)
                  /\ r.ver # 0 /\ r.ver < job[q].since /\ r.spec.config = job[q].spec.config
                  => job'[q].tok.at >= job[q].since
<1>1. TypeOK /\ ControlInv /\ PurgeInv /\ SinceInv /\ [Next]_vars => [A]_vars
  <2> SUFFICES ASSUME TypeOK, ControlInv, PurgeInv, SinceInv, Next,
                      NEW q \in Req, Serves(q),
                      roles[job[q].role].ver # 0,
                      roles[job[q].role].ver < job[q].since,
                      roles[job[q].role].spec.config = job[q].spec.config
               PROVE  job'[q].tok.at >= job[q].since
    OBVIOUS
  <2> DEFINE r == job[q].role
             c == job[q].spec.config
  <2>1. ASSUME NEW p \in Req, Start(p) \/ Step(p) \/ AcquireLock(p) \/ StorageError(p)
        PROVE  p = q
    BY <2>1, ControlStart, ControlStep DEF Alone, Serves, Done
  <2>2. ~Crash /\ ~Tick
    BY DEF Crash, Tick, Serves, Done
  <2>3. Start(q) \/ Step(q) \/ AcquireLock(q) \/ StorageError(q)
    BY <2>1, <2>2 DEF Next
  <2>4. r \in Role /\ c \in Config /\ job[q].since \in Nat
    BY JobTyped, SpecTyped DEF TypeOK
  <2>5. /\ roles[r].ver \in Nat /\ done[c] \in Nat /\ ver \in Nat
        /\ cache[r].at \in Nat /\ job[q].since <= done[c]
    BY <2>4, StampsTyped DEF TypeOK, SinceInv, Token, RoleEntry
  <2>6. CASE pc[q] # "store"
    <3>1. job'[q].tok = cache[r] /\ Present(cache[r])
      BY <2>3, <2>6, ServedFromCache DEF CachedAndFresh, CachedAndUsable
    <3>2. cache[r].at >= done[c]
      BY <2>4, <2>5, <3>1 DEF PurgeInv, ConfigWritePurges
    <3> QED BY <2>4, <2>5, <3>1, <3>2
  <2>7. CASE pc[q] = "store"
    <3>1. StoreToken(q)
      BY <2>3, <2>7, StoreServes
    <3>2. job'[q].tok = [job[q].tok EXCEPT !.at = ver]
      BY <3>1, ReturnEffect DEF StoreToken, Serve, Serves
    <3>3. job'[q].tok.at = ver
      BY <3>2, JobTyped DEF Token, TypeOK
    <3>4. done[c] <= ver
      BY <2>4 DEF PurgeInv, StampInv
    <3> QED BY <2>4, <2>5, <3>3, <3>4
  <2> QED BY <2>6, <2>7
<1> QED
  BY <1>1, TypeCorrect, ControlCorrect, PurgeInvCorrect, SinceCorrect, PTL
     DEF Spec, ServesCachedSince
===============================================================================
