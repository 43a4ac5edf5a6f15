--------------------------- MODULE TokenCacheProofs ---------------------------
(***************************************************************************)
(* The engine implements TokenCache for any number of requests, roles,     *)
(* configs and locks: the order in which Salesforce granted the mints of a *)
(* role is the order in which the role caches and hands out their tokens.  *)
(* Nothing depends on whether two mints returned the same access token.    *)
(***************************************************************************)
EXTENDS TokenEngineProofs

\* The lease of the cached token of a request's role.
CachedLease(q) == [role |-> job[q].role, id |-> cache[job[q].role].id]

\* What a handler's step does to the cache, the leases and the count of mints:
\* nothing, or it drops an entry, hands out the cached token, stores its own
\* token, or receives one from Salesforce.
Quiet(q) ==
    /\ leases' = leases /\ issued' = issued
    /\ cache' = cache \/ cache' = [cache EXCEPT ![job[q].role] = NoToken]

Hands(q) ==
    /\ leases' = leases \cup {CachedLease(q)} /\ issued' = issued
    /\ cache' = cache /\ Present(cache[job[q].role])

\* Every step of a handler is one of these.
LEMMA HandlerStep ==
    ASSUME TypeOK, NEW q \in Req,
           Start(q) \/ Step(q) \/ AcquireLock(q) \/ StorageError(q)
    PROVE  Quiet(q) \/ Hands(q) \/ StoreToken(q) \/ MintSucceeds(q)
<1> USE DEF remote, storage, deleteCachedToken
<1>1. CASE Start(q)
  BY <1>1 DEF Start, BeginRole, BeginRevoke, BeginConfig, BeginRoleWrite, BeginRoleDelete,
              Begin, Quiet
<1>2. CASE FastPath(q) \/ ServeWhileBusy(q) \/ Recheck(q) \/ Salvage(q)
  BY <1>2 DEF FastPath, ServeWhileBusy, Recheck, Salvage, Serve, CachedAndFresh,
              CachedAndUsable, Quiet, Hands, CachedLease
<1>3. CASE LoadRole(q) \/ LoadConfig(q) \/ TryLock(q) \/ PurgeRejected(q)
           \/ \E d \in BOOLEAN : MintFails(q, d)
  BY <1>3 DEF LoadRole, LoadConfig, TryLock, PurgeRejected, MintFails, Quiet
<1>4. CASE RevokeStep(q)
  BY <1>4 DEF RevokeStep, RevokeRead, RevokeConfig, RevokePost, DropToken, Quiet
<1>5. CASE AdminStep(q)
  BY <1>5 DEF AdminStep, ReadConfig, PutConfig, ListRoles, EvictToken, PurgeDone,
              DeleteConfig, VisitRole, ReadRole, ValidateRole, PutRole, DeleteRole, Quiet
<1>6. CASE AcquireLock(q) \/ StorageError(q)
  BY <1>6 DEF AcquireLock, StorageError, Quiet
<1> QED
  BY <1>1, <1>2, <1>3, <1>4, <1>5, <1>6 DEF Step, IssueStep, MintReturns

\* A request is at its Put only after it has received a token.
LEMMA StoreControl ==
    ASSUME TypeOK, NEW q \in Req, pc'[q] = "store",
           Start(q) \/ Step(q) \/ AcquireLock(q) \/ StorageError(q)
    PROVE  MintSucceeds(q)
<1>1. CASE Recheck(q)
  <2>1. ASSUME NEW t, Return(q, "ok", t) PROVE FALSE
    BY <2>1, ReturnEffect
  <2> QED BY <1>1, <2>1 DEF Recheck, Serve, Goto, TypeOK
<1>2. CASE DropToken(q) /\ job[q].op = "rotate"
  BY <1>2 DEF DropToken, Goto, TypeOK
<1> QED BY <1>1, <1>2, MintControl

-----------------------------------------------------------------------------
\* The token that request q is about to store comes from a later mint than the
\* cached token of its role and than all the role has handed out.
NewerThanAll(q) ==
    /\ job[q].tok.id <= issued
    /\ cache[job[q].role].id < job[q].tok.id
    /\ \A l \in leases : l.role = job[q].role => l.id < job[q].tok.id

\* NewestWins is not inductive: it needs that mints are numbered in order and
\* that the one mint under way for a role is the latest.
NewestInv ==
    /\ NewestWins
    /\ \A r \in Role : cache[r].id <= issued
    /\ \A l \in leases : l.id <= issued
    /\ \A q \in Req : pc[q] = "store" => NewerThanAll(q)

\* The ids that the invariant compares are numbers.
LEMMA IdsTyped ==
    ASSUME TypeOK
    PROVE  /\ issued \in Nat
           /\ \A r \in Role : cache[r].id \in Nat
           /\ \A l \in leases : l.role \in Role /\ l.id \in Nat
           /\ \A q \in Req : job[q].role \in Role /\ job[q].tok \in Token /\ job[q].tok.id \in Nat
BY JobTyped DEF TypeOK, Token

\* A step of a handler keeps NewestInv.
LEMMA NewestStep ==
    ASSUME TypeOK, ControlInv, SingleFlight, NewestInv, NEW q \in Req,
           Start(q) \/ Step(q) \/ AcquireLock(q) \/ StorageError(q)
    PROVE  NewestInv'
<1>a. Alone(q)
  BY ControlStart, ControlStep
<1>b. ASSUME NEW p \in Req, p # q, pc'[p] = "store"
      PROVE  pc[p] = "store" /\ job'[p] = job[p] /\ NewerThanAll(p)
  BY <1>a, <1>b DEF Alone, NewestInv
<1>c. pc'[q] = "store" => MintSucceeds(q)
  BY StoreControl
<1> USE IdsTyped
<1>1. CASE Quiet(q)
  <2>1. \A r \in Role : cache'[r].id \in {0, cache[r].id}
    BY <1>1 DEF Quiet, NoToken, TypeOK
  <2>2. (\A r \in Role : cache[r].id <= issued)' /\ (\A l \in leases : l.id <= issued)'
    BY <1>1, <2>1 DEF Quiet, NewestInv
  <2>3. NewestWins'
    BY <1>1, <2>1 DEF Quiet, NewestInv, NewestWins, Present
  <2>4. ASSUME NEW p \in Req, pc'[p] = "store" PROVE NewerThanAll(p)'
    <3>1. p # q
      BY <1>1, <1>c, <2>4 DEF Quiet, MintSucceeds
    <3> QED BY <1>1, <1>b, <2>1, <2>4, <3>1 DEF Quiet, NewerThanAll
  <2> QED BY <2>2, <2>3, <2>4 DEF NewestInv
<1>2. CASE Hands(q)
  <2>1. CachedLease(q).role = job[q].role /\ CachedLease(q).id = cache[job[q].role].id
    BY DEF CachedLease
  <2>2. (\A r \in Role : cache[r].id <= issued)' /\ (\A l \in leases : l.id <= issued)'
    BY <1>2, <2>1 DEF Hands, NewestInv
  <2>3. NewestWins'
    BY <1>2, <2>1 DEF Hands, NewestInv, NewestWins, Present
  <2>4. ASSUME NEW p \in Req, pc'[p] = "store" PROVE NewerThanAll(p)'
    <3>1. p # q
      BY <1>2, <1>c, <2>4 DEF Hands, MintSucceeds
    <3> QED BY <1>2, <1>b, <2>1, <2>4, <3>1 DEF Hands, NewerThanAll
  <2> QED BY <2>2, <2>3, <2>4 DEF NewestInv
<1>3. CASE StoreToken(q)
  <2> DEFINE r == job[q].role
             i == job[q].tok.id
             l == [role |-> r, id |-> i]
  <2>1. pc[q] = "store" /\ NewerThanAll(q) /\ issued' = issued
    BY <1>3 DEF StoreToken, At, NewestInv
  <2>2. cache'[r].id = i /\ \A s \in Role : s # r => cache'[s] = cache[s]
    BY <1>3 DEF StoreToken, TypeOK, Token
  <2>3. leases' = leases \/ leases' = leases \cup {l}
    BY <1>3 DEF StoreToken, Serve, Token
  <2>4. (\A s \in Role : cache[s].id <= issued)' /\ (\A m \in leases : m.id <= issued)'
    BY <2>1, <2>2, <2>3 DEF NewestInv, NewerThanAll
  <2>5. NewestWins'
    <3>1. ASSUME NEW m \in leases', Present(cache'[m.role]) PROVE m.id <= cache'[m.role].id
      <4>1. CASE m = l
        BY <2>2, <4>1
      <4>2. CASE m \in leases /\ m.role = r
        BY <2>1, <2>2, <4>2 DEF NewerThanAll
      <4>3. CASE m \in leases /\ m.role # r
        BY <2>2, <3>1, <4>3 DEF NewestInv, NewestWins
      <4> QED BY <2>3, <4>1, <4>2, <4>3
    <3> QED BY <3>1 DEF NewestWins, Present
  <2>6. ASSUME NEW p \in Req, pc'[p] = "store" PROVE NewerThanAll(p)'
    <3>1. p # q
      BY <1>3, <1>c, <2>1, <2>6 DEF MintSucceeds, At
    <3>2. pc[p] = "store" /\ job'[p] = job[p] /\ NewerThanAll(p)
      BY <1>b, <2>6, <3>1
    <3>3. job[p].role # r
      BY <2>1, <3>1, <3>2 DEF SingleFlight
    <3> QED BY <2>1, <2>2, <2>3, <3>2, <3>3 DEF NewerThanAll
  <2> HIDE DEF r, i, l
  <2> QED BY <2>4, <2>5, <2>6 DEF NewestInv
<1>4. CASE MintSucceeds(q)
  <2>1. cache' = cache /\ leases' = leases /\ issued' = issued + 1
    BY <1>4 DEF MintSucceeds, storage
  <2>2. job'[q].role = job[q].role /\ job'[q].tok.id = issued + 1
    BY <1>4 DEF MintSucceeds, NewToken, TypeOK, Job
  <2>3. (\A r \in Role : cache[r].id <= issued)' /\ (\A l \in leases : l.id <= issued)'
    BY <2>1 DEF NewestInv
  <2>4. NewestWins'
    BY <2>1 DEF NewestInv, NewestWins
  <2>5. NewerThanAll(q)'
    BY <2>1, <2>2 DEF NewestInv, NewerThanAll
  <2>6. ASSUME NEW p \in Req, p # q, pc'[p] = "store" PROVE NewerThanAll(p)'
    BY <1>b, <2>1, <2>6 DEF NewerThanAll
  <2> QED BY <2>3, <2>4, <2>5, <2>6 DEF NewestInv
<1> QED BY <1>1, <1>2, <1>3, <1>4, HandlerStep

\* The invariant that both theorems rest on.
LEMMA NewestCorrect == Spec => []NewestInv
<1>1. Init => NewestInv
  BY DEF Init, NewestInv, NewestWins, NoToken
<1>2. TypeOK /\ ControlInv /\ SingleFlight /\ NewestInv /\ [Next]_vars => NewestInv'
  <2> SUFFICES ASSUME TypeOK, ControlInv, SingleFlight, NewestInv, [Next]_vars
               PROVE  NewestInv'
    OBVIOUS
  <2>1. ASSUME NEW q \in Req, Start(q) \/ Step(q) \/ AcquireLock(q) \/ StorageError(q)
        PROVE  NewestInv'
    BY <2>1, NewestStep
  <2>2. CASE Crash
    BY <2>2 DEF Crash, NewestInv, NewestWins, storage, remote
  <2>3. CASE Tick
    BY <2>3 DEF Tick, NewestInv, NewestWins, NewerThanAll, storage, remote
  <2>4. CASE UNCHANGED vars
    BY <2>4 DEF vars, NewestInv, NewestWins, NewerThanAll, storage, remote
  <2> QED BY <2>1, <2>2, <2>3, <2>4 DEF Next
<1> QED
  BY <1>1, <1>2, TypeCorrect, ControlCorrect, SingleFlightCorrect, PTL DEF Spec

\* For every instance: the cached token of a role comes from the latest mint it has
\* handed out, so no mint that finishes late puts the answer of an earlier one back.
THEOREM NewestWinsCorrect == Spec => []NewestWins
<1>1. NewestInv => NewestWins
  BY DEF NewestInv
<1> QED BY <1>1, NewestCorrect, PTL

-----------------------------------------------------------------------------
\* For every instance: the engine implements TokenCache, so what a role hands out is
\* what its entry holds, and an entry is replaced by that of a later mint only,
\* through every interleaving of reads, rotations, purges, errors and crashes.
THEOREM TokenCacheImplemented == Spec => ImplementsTokenCache
<1>1. Init => Cache!Init
  BY DEF Init, Cache!Init, NoToken
<1>2. TypeOK /\ NewestInv /\ [Next]_vars => [Cache!Next]_(Cache!vars)
  <2> SUFFICES ASSUME TypeOK, NewestInv, [Next]_vars
               PROVE  Cache!Next \/ UNCHANGED <<cache, leases>>
    BY DEF Cache!vars
  <2>1. ASSUME NEW q \in Req, Start(q) \/ Step(q) \/ AcquireLock(q) \/ StorageError(q)
        PROVE  Cache!Next \/ UNCHANGED <<cache, leases>>
    <3>0. PICK r \in Role : r = job[q].role
      BY IdsTyped
    <3>1. CASE Quiet(q)
      <4>1. CASE cache' = cache
        BY <3>1, <4>1 DEF Quiet
      <4>2. CASE cache' = [cache EXCEPT ![r] = NoToken]
        <5>1. Cache!Drop(r)
          BY <3>0, <3>1, <4>2 DEF Quiet, Cache!Drop, NoToken, TypeOK
        <5> QED BY <3>0, <5>1 DEF Cache!Next
      <4> QED BY <3>0, <3>1, <4>1, <4>2 DEF Quiet
    <3>2. CASE Hands(q)
      <4>1. Cache!Hand(r)
        BY <3>0, <3>2 DEF Hands, CachedLease, Present, Cache!Hand
      <4> QED BY <3>0, <4>1 DEF Cache!Next
    <3>3. CASE StoreToken(q)
      <4>1. NewerThanAll(q)
        BY <3>3 DEF StoreToken, At, NewestInv
      <4>2. /\ cache'[r].id = job[q].tok.id
            /\ \A s \in Role : s # r => cache'[s] = cache[s]
        BY <3>0, <3>3, IdsTyped DEF StoreToken, TypeOK, Token
      <4>3. leases' = leases \/ leases' = leases \cup {[role |-> r, id |-> job[q].tok.id]}
        BY <3>0, <3>3, IdsTyped DEF StoreToken, Serve, Token
      <4>4. Cache!Renew(r)
        BY <3>0, <4>1, <4>2, <4>3, IdsTyped DEF NewerThanAll, Cache!Renew
      <4> QED BY <3>0, <4>4 DEF Cache!Next
    <3>4. CASE MintSucceeds(q)
      BY <3>4 DEF MintSucceeds, storage
    <3> QED BY <2>1, <3>1, <3>2, <3>3, <3>4, HandlerStep
  <2>2. CASE Crash \/ Tick \/ UNCHANGED vars
    BY <2>2 DEF Crash, Tick, vars, storage, remote
  <2> QED BY <2>1, <2>2 DEF Next
<1> QED
  BY <1>1, <1>2, TypeCorrect, NewestCorrect, PTL DEF Spec, Cache!Spec, ImplementsTokenCache
===============================================================================
