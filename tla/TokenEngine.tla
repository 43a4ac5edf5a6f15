----------------------------- MODULE TokenEngine -----------------------------
(***************************************************************************)
(* The Salesforce secrets engine as a concurrent program.  Vault runs each *)
(* request in a goroutine of its own; the goroutines share the mount's     *)
(* storage (configs, roles, one cached token per role) and a fixed pool of *)
(* locks, and talk to Salesforce over HTTP.                                *)
(*                                                                         *)
(* A step is one storage operation, one HTTP exchange or one lock          *)
(* operation, with the local computation that follows it.  Reads and       *)
(* writes of different goroutines interleave between steps.                *)
(***************************************************************************)
EXTENDS Tokens, FiniteSets

CONSTANTS
    Req,          \* the request slots: how many requests can be in flight
    NoReq,        \* the owner of a free lock
    Role,         \* role names
    Config,       \* config names
    Lock,         \* the locks of locksutil.CreateLocks
    LockOf,       \* the hash of locksutil.LockForKey: roles may share a lock
    RoleSpec,     \* the role definitions an operator may write
    ExpiresIn,    \* the expires_in values Salesforce may answer (0: omitted)
    SessionLife,  \* how long Salesforce really honours a token
    Ops,          \* the kinds of request issued
    MaxTime, MaxWrites, MaxTokens, MaxFaults   \* bounds of a finite instance

AllOps == {"creds", "rotate", "revoke", "cwrite", "cdelete", "rwrite", "rdelete"}

ASSUME RequestAssumption ==
    /\ NoReq \notin Req
    /\ Ops \subseteq AllOps
    /\ LockOf \in [Role -> Lock]

\* What validateRole admits: the skew is below a token_ttl that is given, and an
\* operator keeps the assumed lifetime within the session lifetime of the org.
ASSUME RoleSpecAssumption ==
    /\ RoleSpec \subseteq [config : Config, ttl : Nat, skew : Nat, revoke : BOOLEAN]
    /\ RoleSpec # {} /\ Role # {} /\ Config # {}
    /\ \A s \in RoleSpec : s.ttl > 0 => s.skew < s.ttl

ASSUME SessionAssumption ==
    /\ SessionLife \in Nat /\ ExpiresIn \subseteq Nat
    /\ \A s \in RoleSpec, e \in ExpiresIn : lifetime(s.ttl, e) <= SessionLife

ASSUME BoundAssumption ==
    MaxTime \in Nat /\ MaxWrites \in Nat /\ MaxTokens \in Nat /\ MaxFaults \in Nat

VARIABLES
    configs,    \* storage config/<name>: the stamp of its last Put, 0 when absent
    roles,      \* storage role/<name>: stamp and definition, stamp 0 when absent
    cache,      \* storage cache/<role>: the cached token, NoToken when absent
    owner,      \* the request that holds each lock, NoReq when free
    pc, job,    \* where each request is, and its local variables
    now,        \* the clock
    issued,     \* Salesforce: how many token requests it has granted
    sessions,   \* Salesforce: the access tokens it has issued and not revoked
    condemned,  \* mints whose entry was revoked, of an ended lease, or rejected
    leases,     \* the leases Vault holds: a role and the mint it was handed
    ver,        \* history: the number of config and role Puts, the write stamp
    done, rdone,\* history: the stamp of the last completed write of each entry
    faults      \* the storage errors and crashes so far

storage == <<configs, roles, cache>>
history == <<ver, done, rdone>>
remote  == <<issued, sessions, condemned, leases>>
vars    == <<storage, owner, pc, job, now, remote, history, faults>>

-----------------------------------------------------------------------------
(* Data. *)

\* cachedToken.  acc is AccessToken and exp ExpiresAt.  The rest is history: id
\* (the number of the mint that returned it), sfExp (when Salesforce stops
\* honouring acc), cfg (the config stamp it was minted under) and at (the write
\* stamp when it was stored).  Salesforce may return one access token to several
\* mints; acc is the number of the first of them.
Token   == [id : Nat, acc : Nat, exp : Nat, sfExp : Nat, cfg : Nat, at : Nat]
NoToken == [id |-> 0, acc |-> 0, exp |-> 0, sfExp |-> 0, cfg |-> 0, at |-> 0]

\* An access token at Salesforce, and the end of its session.
Session == [acc : Nat, exp : Nat]

SomeRole   == CHOOSE r \in Role : TRUE
SomeConfig == CHOOSE c \in Config : TRUE
SomeSpec   == CHOOSE s \in RoleSpec : TRUE

RoleEntry == [ver : Nat, spec : RoleSpec]
NoRole    == [ver |-> 0, spec |-> SomeSpec]

\* The local variables of a request: its inputs (op, role, config, the role
\* definition to write, the token id of the lease to revoke), the definition of
\* the role as loaded (spec), the config stamp as loaded or written (cfg), the
\* last completed config write when it was loaded (since), a token, the instant
\* sampled before a mint (t0), whether the mint error is definitive, and the
\* role names a purge has yet to visit.
Job == [op : AllOps, role : Role, config : Config, spec : RoleSpec, lease : Nat,
        cfg : Nat, since : Nat, tok : Token, t0 : Nat, definitive : BOOLEAN,
        todo : SUBSET Role]
NoJob == [op |-> "creds", role |-> SomeRole, config |-> SomeConfig,
          spec |-> SomeSpec, lease |-> 0, cfg |-> 0, since |-> 0, tok |-> NoToken,
          t0 |-> 0, definitive |-> FALSE, todo |-> {}]

Done  == {"idle", "ok", "fail"}
Label == Done \cup
    {"role", "config", "fast", "trylock", "busy", "lock", "recheck", "wait",
     "store", "salvage", "purge", "rvread", "rvcfg", "rvpost", "drop",
     "cread", "cput", "list", "bound", "evict", "cdel",
     "rread", "rcheck", "rput", "rdel"}

-----------------------------------------------------------------------------
(* Helpers. *)

At(q, l)   == pc[q] = l
Goto(q, l) == pc' = [pc EXCEPT ![q] = l]

\* Mutant of Released: the deferred Unlock is missing.
NeverReleased(q) == owner

\* The deferred Unlock of a handler that returns, if it holds a lock.
Released(q) == [l \in Lock |-> IF owner[l] = q THEN NoReq ELSE owner[l]]

\* A handler returns with outcome l; t is the token it serves, if any.
Return(q, l, t) ==
    /\ Goto(q, l)
    /\ job' = [job EXCEPT ![q] = [NoJob EXCEPT !.tok = t]]
    /\ owner' = Released(q)

Fail(q) == Return(q, "fail", NoToken)

\* The response of a credentials read: token t of the role, under a new lease.
Serve(q, t) ==
    /\ Return(q, "ok", t)
    /\ leases' = leases \cup {[role |-> job[q].role, id |-> t.id]}

Present(t) == t.id # 0

\* The cached token a read may serve without minting (lines 100 and 120).
CachedAndFresh(q) ==
    LET ct == cache[job[q].role]
    IN  Present(ct) /\ fresh(ct.exp, now, job[q].spec.skew)

\* The cached token a read may fall back on (lines 110 and 130).
CachedAndUsable(q) ==
    LET ct == cache[job[q].role] IN Present(ct) /\ unexpired(ct.exp, now)

\* Mutant of deleteCachedToken: the entry stays.
deleteCachedTokenNot(r) == UNCHANGED cache

deleteCachedToken(r) == cache' = [cache EXCEPT ![r] = NoToken]

\* Mutant of LockFree: the lock is not shared between requests.
LockFreeUnshared(q) == TRUE

LockFree(q) == owner[LockOf[job[q].role]] = NoReq
TakeLock(q) == owner' = [owner EXCEPT ![LockOf[job[q].role]] = q]

\* The first step of revokeCachedTokenAtSalesforce, or past it when the role
\* does not opt in.
RevokeOrDrop(s) == IF s.revoke THEN "rvread" ELSE "drop"

-----------------------------------------------------------------------------
(* A request arrives.  Writing bounds the stamps that writes in flight will  *)
(* still take.                                                               *)

Writing == {q \in Req : pc[q] \in {"cread", "cput", "rread", "rcheck", "rput"}}
MayWrite == ver + Cardinality(Writing) < MaxWrites

Begin(q, l, j) ==
    /\ pc[q] \in Done
    /\ Goto(q, l)
    /\ job' = [job EXCEPT ![q] = j]
    /\ UNCHANGED <<storage, owner, now, remote, history, faults>>

BeginRole(q, op) ==
    /\ op \in Ops \cap {"creds", "rotate"}
    /\ \E r \in Role : Begin(q, "role", [NoJob EXCEPT !.op = op, !.role = r])

\* Vault revokes a lease: explicitly, at its end, or again after an error.
BeginRevoke(q) ==
    /\ "revoke" \in Ops
    /\ \E l \in leases :
         Begin(q, "role", [NoJob EXCEPT !.op = "revoke", !.role = l.role, !.lease = l.id])

BeginConfig(q, op) ==
    /\ op \in Ops \cap {"cwrite", "cdelete"}
    /\ op = "cwrite" => MayWrite
    /\ \E c \in Config :
         Begin(q, IF op = "cwrite" THEN "cread" ELSE "list",
               [NoJob EXCEPT !.op = op, !.config = c])

BeginRoleWrite(q) ==
    /\ "rwrite" \in Ops /\ MayWrite
    /\ \E r \in Role, s \in RoleSpec :
         Begin(q, "rread", [NoJob EXCEPT !.op = "rwrite", !.role = r, !.spec = s])

\* pathRoleDelete starts by dropping the cached token.
BeginRoleDelete(q) ==
    /\ "rdelete" \in Ops
    /\ \E r \in Role : Begin(q, "drop", [NoJob EXCEPT !.op = "rdelete", !.role = r])
-----------------------------------------------------------------------------
(* creds/<role> (pathCredsRead, issueToken) and rotate/<role> (pathRotate).  *)

\* getRole, at the start of a read, a rotation or a lease revocation.  A lease
\* of a deleted role still clears the cache.
LoadRole(q) ==
    LET r == roles[job[q].role] IN
    /\ At(q, "role")
    /\ \/ /\ r.ver = 0 /\ job[q].op # "revoke"
          /\ Fail(q)
       \/ /\ r.ver = 0 /\ job[q].op = "revoke"
          /\ Goto(q, "drop")
          /\ UNCHANGED <<job, owner>>
       \/ /\ r.ver # 0
          /\ job' = [job EXCEPT ![q].spec = r.spec]
          /\ Goto(q, IF job[q].op = "revoke" THEN RevokeOrDrop(r.spec) ELSE "config")
          /\ UNCHANGED owner
    /\ UNCHANGED <<storage, now, remote, history, faults>>

\* getConfig of the role's config, before any lock is taken.
LoadConfig(q) ==
    LET c == job[q].spec.config IN
    /\ At(q, "config")
    /\ \/ configs[c] = 0 /\ Fail(q)
       \/ /\ configs[c] # 0
          /\ job' = [job EXCEPT ![q].cfg = configs[c], ![q].since = done[c]]
          /\ Goto(q, IF job[q].op = "creds" THEN "fast" ELSE "lock")
          /\ UNCHANGED owner
    /\ UNCHANGED <<storage, now, remote, history, faults>>

\* The fast path: a fresh cached token is served without the lock.
FastPath(q) ==
    /\ At(q, "fast")
    /\ \/ CachedAndFresh(q) /\ Serve(q, cache[job[q].role])
       \/ ~CachedAndFresh(q) /\ Goto(q, "trylock") /\ UNCHANGED <<job, owner, leases>>
    /\ UNCHANGED <<storage, now, issued, sessions, condemned, history, faults>>

TryLock(q) ==
    /\ At(q, "trylock")
    /\ \/ LockFree(q) /\ TakeLock(q) /\ Goto(q, "recheck")
       \/ ~LockFree(q) /\ Goto(q, "busy") /\ UNCHANGED owner
    /\ UNCHANGED <<storage, job, now, remote, history, faults>>

\* The lock is taken: a token that has not expired is served all the same.
ServeWhileBusy(q) ==
    /\ At(q, "busy")
    /\ \/ CachedAndUsable(q) /\ Serve(q, cache[job[q].role])
       \/ ~CachedAndUsable(q) /\ Goto(q, "lock") /\ UNCHANGED <<job, owner, leases>>
    /\ UNCHANGED <<storage, now, issued, sessions, condemned, history, faults>>

\* The blocking Lock of a read without a usable token, and of a rotation.
AcquireLock(q) ==
    /\ At(q, "lock") /\ LockFree(q)
    /\ TakeLock(q)
    /\ Goto(q, IF job[q].op = "creds" THEN "recheck" ELSE RevokeOrDrop(job[q].spec))
    /\ UNCHANGED <<storage, job, now, remote, history, faults>>

\* Mutant of Recheck: a waiter mints without looking at the cache again.
RecheckSkipped(q) ==
    /\ At(q, "recheck")
    /\ job' = [job EXCEPT ![q].t0 = now] /\ Goto(q, "wait") /\ UNCHANGED <<owner, leases>>
    /\ UNCHANGED <<storage, now, issued, sessions, condemned, history, faults>>

\* The second look at the cache, under the lock.  When it finds nothing fresh the
\* clock is sampled and the token request leaves.
Recheck(q) ==
    /\ At(q, "recheck")
    /\ \/ CachedAndFresh(q) /\ Serve(q, cache[job[q].role])
       \/ /\ ~CachedAndFresh(q)
          /\ job' = [job EXCEPT ![q].t0 = now] /\ Goto(q, "wait")
          /\ UNCHANGED <<owner, leases>>
    /\ UNCHANGED <<storage, now, issued, sessions, condemned, history, faults>>

\* Mutant of NewToken: a response without access_token is taken for a token.
NewTokenUnchecked(q, e, s) ==
    [NoToken EXCEPT !.exp = computeExpiry(job[q].t0, job[q].spec.ttl, e),
                    !.sfExp = s.exp, !.cfg = job[q].cfg]

\* Mutant of NewToken: the lifetime is counted from the answer.
NewTokenLateClock(q, e, s) ==
    [id |-> issued + 1, acc |-> s.acc, exp |-> computeExpiry(now, job[q].spec.ttl, e),
     sfExp |-> s.exp, cfg |-> job[q].cfg, at |-> 0]

\* What mintAndCache records of the answer to q, the access token of session s.
NewToken(q, e, s) ==
    [id |-> issued + 1, acc |-> s.acc, exp |-> computeExpiry(job[q].t0, job[q].spec.ttl, e),
     sfExp |-> s.exp, cfg |-> job[q].cfg, at |-> 0]

\* The sessions whose token Salesforce may answer with at instant i: a new one, or
\* one that is under way, as grants for the same user, app and scope return "the
\* identical access token while it remains valid" (considerations.mdx).  Roles may
\* have user, app and scope in common, so it may be the token of another role.
Granted(i) ==
    {[acc |-> issued + 1, exp |-> i + SessionLife]} \cup
    {s \in sessions : s.exp - SessionLife <= i /\ i < s.exp}

\* The token request succeeds, possibly after retries: Salesforce answered it at
\* some instant since it began.
MintSucceeds(q) ==
    /\ At(q, "wait") /\ issued < MaxTokens
    /\ \E e \in ExpiresIn, i \in job[q].t0 .. now : \E s \in Granted(i) :
         /\ job' = [job EXCEPT ![q].tok = NewToken(q, e, s)]
         /\ sessions' = sessions \cup {s}
    /\ issued' = issued + 1
    /\ Goto(q, "store")
    /\ UNCHANGED <<storage, owner, now, condemned, leases, history, faults>>

\* The token request fails.  A definitive OAuth error means that Salesforce
\* rejects the credentials the cached token was minted under.
MintFails(q, definitive) ==
    /\ At(q, "wait")
    /\ \/ /\ job[q].op = "creds"
          /\ job' = [job EXCEPT ![q].definitive = definitive]
          /\ Goto(q, "salvage")
          /\ condemned' = IF definitive /\ Present(cache[job[q].role])
                          THEN condemned \cup {cache[job[q].role].id} ELSE condemned
          /\ UNCHANGED owner
       \/ job[q].op = "rotate" /\ Fail(q) /\ UNCHANGED condemned
    /\ UNCHANGED <<storage, now, issued, sessions, leases, history, faults>>

\* putCachedToken, then the response of the read or of the rotation.
StoreToken(q) ==
    LET t == [job[q].tok EXCEPT !.at = ver] IN
    /\ At(q, "store")
    /\ cache' = [cache EXCEPT ![job[q].role] = t]
    /\ \/ job[q].op = "creds" /\ Serve(q, t)
       \/ job[q].op = "rotate" /\ Return(q, "ok", NoToken) /\ UNCHANGED leases
    /\ UNCHANGED <<configs, roles, now, issued, sessions, condemned, history, faults>>

\* After a failed mint: a transient error is ridden out on a cached token that
\* has not expired; a definitive one goes on to purge it.
Salvage(q) ==
    LET ride == CachedAndUsable(q) /\ ~job[q].definitive IN
    /\ At(q, "salvage")
    /\ \/ ride /\ Serve(q, cache[job[q].role])
       \/ ~ride /\ job[q].definitive /\ Goto(q, "purge") /\ UNCHANGED <<job, owner, leases>>
       \/ ~ride /\ ~job[q].definitive /\ Fail(q) /\ UNCHANGED leases
    /\ UNCHANGED <<storage, now, issued, sessions, condemned, history, faults>>

\* deleteCachedToken after a definitive error; the read fails closed.
PurgeRejected(q) ==
    /\ At(q, "purge")
    /\ deleteCachedToken(job[q].role)
    /\ Fail(q)
    /\ UNCHANGED <<configs, roles, now, remote, history, faults>>

-----------------------------------------------------------------------------
(* revokeCachedTokenAtSalesforce: from a rotation under the lock, from a     *)
(* lease revocation without one.                                             *)

RevokeRead(q) ==
    LET ct == cache[job[q].role] IN
    /\ At(q, "rvread")
    /\ job' = [job EXCEPT ![q].tok = ct]
    /\ Goto(q, IF Present(ct) THEN "rvcfg" ELSE "drop")
    /\ UNCHANGED <<storage, owner, now, remote, history, faults>>

\* The config is loaded again; without it the revocation is given up.
RevokeConfig(q) ==
    LET gone == configs[job[q].spec.config] = 0 IN
    /\ At(q, "rvcfg")
    /\ job' = [job EXCEPT ![q].tok = IF gone THEN NoToken ELSE @]
    /\ Goto(q, IF gone THEN "drop" ELSE "rvpost")
    /\ UNCHANGED <<storage, owner, now, remote, history, faults>>

\* The /revoke exchange.  Its errors are swallowed: reached says whether it took
\* effect, answered whether the engine learns of it.  job.tok keeps a token known
\* to be revoked.
RevokePost(q, reached, answered) ==
    /\ At(q, "rvpost")
    /\ answered => reached
    /\ condemned' = IF reached THEN condemned \cup {job[q].tok.id} ELSE condemned
    /\ sessions' = IF reached THEN {s \in sessions : s.acc # job[q].tok.acc} ELSE sessions
    /\ job' = [job EXCEPT ![q].tok = IF answered THEN @ ELSE NoToken]
    /\ Goto(q, "drop")
    /\ UNCHANGED <<storage, owner, now, issued, leases, history, faults>>

\* deleteCachedToken, in a rotation (which goes on to mint), at the end of a
\* lease revocation, at the end of a role write, and first in a role deletion.
DropToken(q) ==
    LET r == job[q].role IN
    /\ At(q, "drop")
    /\ deleteCachedToken(r)
    /\ \/ /\ job[q].op = "rotate"
          /\ job' = [job EXCEPT ![q].t0 = now] /\ Goto(q, "wait")
          /\ UNCHANGED <<owner, condemned, rdone>>
       \/ /\ job[q].op = "revoke"
          /\ Return(q, "ok", NoToken)
          /\ condemned' = condemned \cup {job[q].lease}
          /\ UNCHANGED rdone
       \/ /\ job[q].op = "rwrite"
          /\ Return(q, "ok", NoToken)
          /\ rdone' = [rdone EXCEPT ![r] = IF @ < job[q].cfg THEN job[q].cfg ELSE @]
          /\ UNCHANGED condemned
       \/ /\ job[q].op = "rdelete"
          /\ Goto(q, "rdel")
          /\ UNCHANGED <<job, owner, condemned, rdone>>
    /\ UNCHANGED <<configs, roles, now, issued, sessions, leases, ver, done, faults>>

-----------------------------------------------------------------------------
(* config/<name>: pathConfigWrite and pathConfigDelete.                      *)

\* The stored config is read and merged with the request; a request that does
\* not pass the checks is refused.
ReadConfig(q) ==
    /\ At(q, "cread")
    /\ \/ Goto(q, "cput") /\ UNCHANGED <<job, owner>>
       \/ Fail(q)
    /\ UNCHANGED <<storage, now, remote, history, faults>>

PutConfig(q) ==
    /\ At(q, "cput")
    /\ ver' = ver + 1
    /\ configs' = [configs EXCEPT ![job[q].config] = ver + 1]
    /\ job' = [job EXCEPT ![q].cfg = ver + 1]
    /\ Goto(q, "list")
    /\ UNCHANGED <<roles, cache, owner, now, remote, done, rdone, faults>>

\* deleteCachedTokensForConfig: List once, then visit the names one by one (the
\* order is the backend's), deleting the token of each role bound to the config.
ListRoles(q) ==
    /\ At(q, "list")
    /\ job' = [job EXCEPT ![q].todo = {r \in Role : roles[r].ver # 0}]
    /\ Goto(q, "bound")
    /\ UNCHANGED <<storage, owner, now, remote, history, faults>>

\* Mutant of BoundTo: the config name is not compared.
BoundToNothing(r, c) == FALSE

BoundTo(r, c) == roles[r].ver # 0 /\ roles[r].spec.config = c

VisitRole(q, r) ==
    /\ At(q, "bound") /\ r \in job[q].todo
    /\ job' = [job EXCEPT ![q].role = r, ![q].todo = @ \ {r}]
    /\ Goto(q, IF BoundTo(r, job[q].config) THEN "evict" ELSE "bound")
    /\ UNCHANGED <<storage, owner, now, remote, history, faults>>

EvictToken(q) ==
    /\ At(q, "evict")
    /\ deleteCachedToken(job[q].role)
    /\ Goto(q, "bound")
    /\ UNCHANGED <<configs, roles, owner, job, now, remote, history, faults>>

\* The purge is over: a write returns, a deletion goes on to the entry itself.
PurgeDone(q) ==
    LET c == job[q].config IN
    /\ At(q, "bound") /\ job[q].todo = {}
    /\ \/ /\ job[q].op = "cwrite"
          /\ done' = [done EXCEPT ![c] = IF @ < job[q].cfg THEN job[q].cfg ELSE @]
          /\ Return(q, "ok", NoToken)
       \/ /\ job[q].op = "cdelete"
          /\ Goto(q, "cdel")
          /\ UNCHANGED <<job, owner, done>>
    /\ UNCHANGED <<storage, now, remote, ver, rdone, faults>>

DeleteConfig(q) ==
    /\ At(q, "cdel")
    /\ configs' = [configs EXCEPT ![job[q].config] = 0]
    /\ Return(q, "ok", NoToken)
    /\ UNCHANGED <<roles, cache, now, remote, history, faults>>

-----------------------------------------------------------------------------
(* roles/<name>: pathRoleWrite and pathRoleDelete.                           *)

\* The stored role is read; on an update its config cannot be changed.
ReadRole(q) ==
    LET r == roles[job[q].role]
        rebinds == r.ver # 0 /\ r.spec.config # job[q].spec.config
    IN
    /\ At(q, "rread")
    /\ \/ rebinds /\ Fail(q)
       \/ ~rebinds /\ Goto(q, "rcheck") /\ UNCHANGED <<job, owner>>
    /\ UNCHANGED <<storage, now, remote, history, faults>>

\* validateRole: the config must exist and suit the role's grant.
ValidateRole(q) ==
    /\ At(q, "rcheck")
    /\ \/ Fail(q)
       \/ /\ configs[job[q].spec.config] # 0
          /\ Goto(q, "rput")
          /\ UNCHANGED <<job, owner>>
    /\ UNCHANGED <<storage, now, remote, history, faults>>

PutRole(q) ==
    /\ At(q, "rput")
    /\ ver' = ver + 1
    /\ roles' = [roles EXCEPT ![job[q].role] = [ver |-> ver + 1, spec |-> job[q].spec]]
    /\ job' = [job EXCEPT ![q].cfg = ver + 1]
    /\ Goto(q, "drop")
    /\ UNCHANGED <<configs, cache, owner, now, remote, done, rdone, faults>>

DeleteRole(q) ==
    /\ At(q, "rdel")
    /\ roles' = [roles EXCEPT ![job[q].role] = NoRole]
    /\ Return(q, "ok", NoToken)
    /\ UNCHANGED <<configs, cache, now, remote, history, faults>>

-----------------------------------------------------------------------------
(* Faults and time.                                                          *)

\* A storage operation returns an error (an outage, or the request's context is
\* cancelled); the entry is as it was.  Most handlers return it.  The fallback
\* reads of issueToken and the whole of revokeCachedTokenAtSalesforce carry on,
\* and a failed Put of a minted token is treated as a transient mint error.
StorageError(q) ==
    LET at == pc[q] IN
    /\ faults < MaxFaults /\ faults' = faults + 1
    /\ \/ /\ \/ at \in {"config", "fast", "recheck", "purge", "drop", "cread", "cput", "list",
                        "evict", "cdel", "rread", "rcheck", "rput", "rdel"}
             \/ at = "bound" /\ job[q].todo # {}
             \/ at = "role" /\ job[q].op # "revoke"
             \/ at = "store" /\ job[q].op = "rotate"
             \/ at = "salvage" /\ ~job[q].definitive
          /\ Fail(q)
       \/ /\ \/ at = "role" /\ job[q].op = "revoke"
             \/ at \in {"rvread", "rvcfg"}
          /\ Goto(q, "drop")
          /\ job' = [job EXCEPT ![q].tok = NoToken]
          /\ UNCHANGED owner
       \/ at = "busy" /\ Goto(q, "lock") /\ UNCHANGED <<job, owner>>
       \/ /\ at = "store" /\ job[q].op = "creds"
          /\ job' = [job EXCEPT ![q].tok = NoToken]
          /\ Goto(q, "salvage")
          /\ UNCHANGED owner
       \/ at = "salvage" /\ job[q].definitive /\ Goto(q, "purge") /\ UNCHANGED <<job, owner>>
    /\ UNCHANGED <<storage, now, remote, history>>

\* The plugin process dies and is restarted: handlers and locks are gone,
\* storage and Salesforce keep what they have.
Crash ==
    /\ faults < MaxFaults /\ faults' = faults + 1
    /\ \E q \in Req : pc[q] \notin Done
    /\ pc' = [q \in Req |-> "idle"]
    /\ job' = [q \in Req |-> NoJob]
    /\ owner' = [l \in Lock |-> NoReq]
    /\ UNCHANGED <<storage, now, remote, history>>

Tick ==
    /\ now < MaxTime /\ now' = now + 1
    /\ UNCHANGED <<storage, owner, pc, job, remote, history, faults>>

-----------------------------------------------------------------------------
Init ==
    /\ configs \in [Config -> {0, 1}]
    /\ roles \in [Role -> {NoRole} \cup [ver : {1}, spec : RoleSpec]]
    /\ cache = [r \in Role |-> NoToken]
    /\ owner = [l \in Lock |-> NoReq]
    /\ pc = [q \in Req |-> "idle"]
    /\ job = [q \in Req |-> NoJob]
    /\ now = 0 /\ issued = 0 /\ sessions = {} /\ condemned = {} /\ leases = {}
    /\ ver = 1 /\ done = [c \in Config |-> 0] /\ rdone = [r \in Role |-> 0]
    /\ faults = 0

Start(q) ==
    \/ \E op \in {"creds", "rotate"} : BeginRole(q, op)
    \/ BeginRevoke(q)
    \/ \E op \in {"cwrite", "cdelete"} : BeginConfig(q, op)
    \/ BeginRoleWrite(q)
    \/ BeginRoleDelete(q)

\* The token request ends: the HTTP client times out, so an answer or an error
\* always comes.
MintReturns(q) == MintSucceeds(q) \/ \E d \in BOOLEAN : MintFails(q, d)

IssueStep(q) ==
    \/ LoadRole(q) \/ LoadConfig(q) \/ FastPath(q) \/ TryLock(q) \/ ServeWhileBusy(q)
    \/ Recheck(q) \/ MintReturns(q) \/ StoreToken(q) \/ Salvage(q) \/ PurgeRejected(q)

RevokeStep(q) ==
    \/ RevokeRead(q) \/ RevokeConfig(q) \/ DropToken(q)
    \/ \E reached, answered \in BOOLEAN : RevokePost(q, reached, answered)

AdminStep(q) ==
    \/ ReadConfig(q) \/ PutConfig(q) \/ ListRoles(q) \/ EvictToken(q)
    \/ PurgeDone(q) \/ DeleteConfig(q) \/ (\E r \in Role : VisitRole(q, r))
    \/ ReadRole(q) \/ ValidateRole(q) \/ PutRole(q) \/ DeleteRole(q)

Step(q) == IssueStep(q) \/ RevokeStep(q) \/ AdminStep(q)

Next ==
    \/ \E q \in Req : Start(q) \/ Step(q) \/ AcquireLock(q) \/ StorageError(q)
    \/ Crash
    \/ Tick

Spec == Init /\ [][Next]_vars

\* A handler that can run does run, a token request ends, and Go's mutex does
\* not starve a waiter.  Nothing obliges a request, a fault or the end of time.
FairSpec ==
    /\ Spec
    /\ \A q \in Req : WF_vars(Step(q)) /\ SF_vars(AcquireLock(q))
-----------------------------------------------------------------------------
(* Properties. *)

\* Type correctness; and what is about to be cached is a real token, never the
\* result of a response without access_token (doTokenRequestOnce refuses it).
TypeOK ==
    /\ configs \in [Config -> Nat]
    /\ roles \in [Role -> RoleEntry]
    /\ cache \in [Role -> Token]
    /\ owner \in [Lock -> Req \cup {NoReq}]
    /\ pc \in [Req -> Label]
    /\ job \in [Req -> Job]
    /\ now \in Nat /\ issued \in Nat /\ ver \in Nat /\ faults \in Nat
    /\ sessions \subseteq Session
    /\ condemned \subseteq Nat
    /\ leases \subseteq [role : Role, id : Nat]
    /\ done \in [Config -> Nat]
    /\ rdone \in [Role -> Nat]
    /\ \A q \in Req : pc[q] = "store" => Present(job[q].tok)

\* Requests that hold the lock of their role.
HoldsLock(q) ==
    \/ pc[q] \in {"recheck", "wait", "store", "salvage", "purge"}
    \/ job[q].op = "rotate" /\ pc[q] \in {"rvread", "rvcfg", "rvpost", "drop"}

\* The lock of LockForKey is held exactly by the request inside the section it
\* guards, on every path through issueToken and pathRotate.
LockInv ==
    \A l \in Lock, q \in Req :
        owner[l] = q <=> HoldsLock(q) /\ LockOf[job[q].role] = l

\* A burst of reads and rotations of a role never has two token requests under
\* way: a request between the send and the Put of its token is alone (issueToken:
\* "a single token request to Salesforce ... rather than a mint stampede").
SingleFlight ==
    \A p, q \in Req :
        /\ pc[p] \in {"wait", "store"} /\ pc[q] \in {"wait", "store"}
        /\ job[p].role = job[q].role
        => p = q

\* No token request is under way while the cache holds a token that is fresh for
\* the request, however long it waited for the lock and whoever minted meanwhile
\* (the re-check of issueToken; a rotation drops the token first).
MintOnlyWhenStale ==
    \A q \in Req : pc[q] \in {"wait", "store"} => ~CachedAndFresh(q)

\* A cache entry whose token was revoked at Salesforce or definitively rejected,
\* or that a revoked lease was on, stays only while the handler that will remove
\* it is still running, as long as nothing crashes; no later step puts that entry
\* back.  It is about entries, each the answer of one mint: Salesforce may return
\* the access token of a dropped entry to the next mint.
CondemnedLeavesCache ==
    faults = 0 =>
        \A r \in Role : cache[r].id \in condemned =>
            \E q \in Req :
                /\ job[q].role = r
                /\ \/ pc[q] \in {"drop", "purge"}
                   \/ pc[q] = "salvage" /\ job[q].definitive

\* The cached token of a role comes from the latest mint that the role has handed
\* out: the entry of a mint that was rotated away, evicted or revoked is never put
\* back by a mint that finishes late (rotate's help text: "Subsequent reads ...
\* serve the new token").
NewestWins ==
    \A l \in leases : Present(cache[l.role]) => l.id <= cache[l.role].id

\* The engine implements TokenCache: through every interleaving of mints,
\* fallbacks, rotations, purges and crashes, what a role hands out is what its
\* cache entry holds at that moment, and the entry is only ever replaced by a
\* token minted later than all that were handed out (issueToken, mintAndCache).
Cache == INSTANCE TokenCache WITH held <- [r \in Role |-> cache[r].id], handed <- leases

ImplementsTokenCache == Cache!Spec

\* The request holds, or has just revoked, a token that it is going to drop from
\* the cache: nothing newer is dropped in its place.
DropsOnlyWhatItRevoked(q) ==
    pc[q] \in {"rvcfg", "rvpost", "drop"} /\ Present(job[q].tok)
        => cache[job[q].role].id \in {0, job[q].tok.id}

\* A rotation invalidates at Salesforce the very token it drops (pathRotate:
\* "invalidate the outgoing token at Salesforce before dropping it").
RotateRevokesWhatItDrops ==
    \A q \in Req : job[q].op = "rotate" => DropsOnlyWhatItRevoked(q)

\* Once a config write has returned, a role that was bound to the config all
\* along has no token that was cached before the new config was stored
\* (deleteCachedTokensForConfig), whatever else ran during the purge.
ConfigWritePurges ==
    \A r \in Role :
        LET c == roles[r].spec.config IN
        /\ roles[r].ver # 0 /\ roles[r].ver < done[c]
        /\ Present(cache[r])
        => cache[r].at >= done[c]

\* Once a role write has returned, the role has no token that was cached before
\* the new definition was stored (pathRoleWrite's trailing deleteCachedToken).
RoleWritePurges ==
    \A r \in Role : Present(cache[r]) => cache[r].at >= rdone[r]

\* The step in which a credentials read answers with a token.
Serves(q) == pc[q] \notin Done /\ pc'[q] = "ok" /\ job[q].op = "creds"

\* How much longer than Salesforce the engine may honour token t: not at all if it
\* was new when it was minted, less than one session if it had been issued before.
Overrun(t) == IF t.acc = t.id THEN 0 ELSE SessionLife

\* A token that comes from the cache, on the fast path, in place of waiting for
\* the lock, after waiting or in place of a failed mint, is one Salesforce has
\* not yet expired if it was new when it was minted, and one it expired less than a
\* session lifetime ago in any case: the expiry is counted from before the token
\* request (mintAndCache), and the token was valid when Salesforce answered.
ServesUnexpired ==
    [][\A q \in Req : Serves(q) /\ pc[q] # "store"
                       => now < job'[q].tok.sfExp + Overrun(job'[q].tok)]_vars

\* concepts.mdx: the engine "re-mints the token slightly before it actually
\* expires, so consumers never receive a token that is about to lapse".  A token
\* that comes from the cache has not expired, also when Salesforce has answered
\* the re-mint with the token that was about to expire.
NeverServesExpired ==
    [][\A q \in Req : Serves(q) /\ pc[q] # "store" => now < job'[q].tok.sfExp]_vars

\* Every request ends, and so gives its lock back: no error path keeps a lock,
\* and no waiter is passed over for ever.
EveryRequestReturns == \A q \in Req : pc[q] \notin Done ~> pc[q] \in Done

\* deleteCachedTokensForConfig: "a stale token minted under the old config is
\* never served".  A read that loads the config after a write of it returned is
\* not answered with a token minted under an earlier config.
NeverServesStaleConfig ==
    [][\A q \in Req : Serves(q) => job'[q].tok.cfg >= job[q].since]_vars

\* What the purge of a config write does give a read that begins after the write
\* returned: unless the role was written since, the token it is served was cached
\* after the new config was stored.  A token minted under the old config is served
\* only when its mint was under way during the write.
ServesCachedSince ==
    [][\A q \in Req :
         LET r == roles[job[q].role] IN
         /\ Serves(q)
         /\ r.ver # 0 /\ r.ver < job[q].since /\ r.spec.config = job[q].spec.config
         => job'[q].tok.at >= job[q].since]_vars

\* secretAccessTokenRevoke: with revoke_tokens a lease revocation invalidates at
\* Salesforce the token it clears from the cache.
LeaseRevokesWhatItDrops ==
    \A q \in Req : job[q].op = "revoke" => DropsOnlyWhatItRevoked(q)
=============================================================================
