# Verification of the Salesforce secrets engine

TLA+ models of `vault-plugin-secrets-salesforce`, a HashiCorp Vault plugin that
obtains Salesforce OAuth access tokens, caches one per role and hands them out
under leases. The models are checked with TLC on small instances; the main safety
properties are proved with TLAPS for every instance.

## 1. The system

Vault runs every request in a goroutine of its own. The goroutines share the
mount's storage and a pool of locks inside the plugin process, and call Salesforce
over HTTP. Storage operations are atomic one by one; nothing makes two of them
atomic together except the role's lock, and only the reads and rotations take it.

| component | state | operations | talks to |
|---|---|---|---|
| token cache (`cache.go`) | storage `cache/<role>`: one token per role | get, put, delete, purge by config, /revoke of the cached token | roles, configs, Salesforce |
| credential issuance (`path_creds.go`) | none | `creds/<role>`: fast path, TryLock, wait, re-check, mint, store, salvage, purge | all of them |
| rotation (`path_rotate.go`) | none | `roles/<name>/rotate`: lock, /revoke, delete, mint, store | cache, client |
| lease secret (`secret_access_token.go`) | the lease, kept by Vault | revoke: /revoke and delete, without the lock; renew | cache, roles |
| config store (`path_config.go`) | storage `config/<name>` | write (merge, checks, Put, purge), delete (purge, Delete), read, list | cache, roles |
| role store (`path_roles.go`) | storage `role/<name>` | write (merge, immutability, validation, Put, delete token), delete (token, role), read, list | cache, configs |
| backend (`backend.go`) | 256 locks; a role name hashes to one, so roles may share it | mount, restart | |
| token client (`client.go`) | none between calls | grant requests, retry loop, error classes, /revoke | Salesforce |
| assertion (`jwt.go`) | a cache of parsed keys | build and sign | |
| host check (`hostcheck.go`) | none | `validateTokenHost` | |
| mock server (`internal/sftest`) | recorded requests, answers set by the test, mint counter, revoked tokens | token and revoke endpoints, setters, readers | called by the client in tests |

What is hard here, and what makes each part correct:

* *Issuance and rotation.* A burst of reads must mint once; the lock is waited for
  between two looks at the cache; a mint lasts up to three HTTP timeouts under the
  lock, during which everything else can happen. Correct means: never two token
  requests for a role, none while a fresh token is there, no superseded entry put
  back, no token believed longer than Salesforce honours it, the lock returned on every
  path. Salesforce may answer a mint with a token it issued before, which limits what can
  be said of a token's life.
* *Invalidation.* Config writes, role writes, lease revocations and definitive
  rejections delete cached tokens without the lock. Correct means: what was cached
  before the write is gone once it returns, and an entry that was revoked leaves the cache.
* *Failure.* Storage can fail and the plugin can die between any two steps; storage
  survives, locks do not. The /revoke call may take effect although its answer is lost.
* *The client.* Retries, backoff, cancellation, and the distinction between an outage
  (keep serving the cached token) and a rejection (purge it).
* *Stores.* Configs and roles are written by unlocked read-modify-writes of the whole
  record, from requests that name only some fields. Correct means: whatever updates
  run one after another or at once, stored secrets belong to an endpoint that a write
  supplying a secret has named, the endpoint passes the host check, a stored role
  is one the engine can work with, and its identity comes from a creation.
* *Leases.* Vault renews and revokes leases long after the role and the token behind
  them changed. Correct means: a renewal goes by the role as it is, and every lease ends.

`PROJECT.json` lists the hazards line by line with the properties that cover them.

## 2. Modules

`Tokens` is the arithmetic of a token's life: `fresh`, `unexpired`, `lifetime`,
`computeExpiry`.

`TokenEngine` is the core: all the handlers that change state, as a concurrent program.
`Req` is a set of slots for requests in flight. `pc[q]` is where the handler of `q` is
and `job[q]` its local variables. A step is one storage operation, HTTP exchange or
lock operation with the local computation behind it, so the steps of different
requests interleave exactly where the goroutines can.

| state | code |
|---|---|
| `configs`, `roles`, `cache` | the three storage prefixes. A config is the stamp of its last Put (0: absent); a role is its stamp and the fields that steer the engine: config, `token_ttl`, `renew_skew`, `revoke_tokens` |
| `owner` | who holds each lock; `LockOf` is the hash of `LockForKey` |
| `issued`, `sessions` | Salesforce: the mints it has granted so far, which number them; the access tokens it has issued and not revoked, each with the end of its session |
| a token: `id`, `acc`, `exp` | the number of the mint that returned it; the access token, named by the first mint that returned it (so it was new exactly when `acc = id`); the recorded `ExpiresAt` |
| `condemned` | the mints whose token was revoked at Salesforce, whose lease was revoked or whose credentials were definitively rejected |
| `leases` | the role and mint of every lease Vault may revoke. An entry is never removed: leases share tokens and Vault retries a revocation that failed |
| `ver`, `done`, `rdone`; `sfExp`, `cfg`, `at`, `since` | history: write stamps, the last completed write of each entry, when Salesforce really expires the access token, the config it was minted under, the stamp when it was cached |

| handler | steps |
|---|---|
| `pathCredsRead`, `issueToken`, `mintAndCache` | `BeginRole`, `LoadRole`, `LoadConfig`, `FastPath`, `TryLock`, `ServeWhileBusy`, `AcquireLock`, `Recheck`, `MintSucceeds` or `MintFails`, `StoreToken`, `Salvage`, `PurgeRejected` |
| `pathRotate` | `BeginRole`, `LoadRole`, `LoadConfig`, `AcquireLock`, `RevokeRead`, `RevokeConfig`, `RevokePost`, `DropToken`, `MintSucceeds` or `MintFails`, `StoreToken` |
| `secretAccessTokenRevoke` | `BeginRevoke`, `LoadRole`, `RevokeRead`, `RevokeConfig`, `RevokePost`, `DropToken` |
| `pathConfigWrite` / `pathConfigDelete` | `BeginConfig`, `ReadConfig`, `PutConfig`, then `ListRoles`, `VisitRole`, `EvictToken`, `PurgeDone` / the same purge, then `DeleteConfig` |
| `pathRoleWrite` / `pathRoleDelete` | `BeginRoleWrite`, `ReadRole`, `ValidateRole`, `PutRole`, `DropToken` / `BeginRoleDelete`, `DropToken`, `DeleteRole` |
| any | `StorageError` (what each handler does with an error of the storage call it is at), `Crash` |

*Token reuse.* `considerations.mdx:34-40` reports that "repeated grants for the same user,
app, and scope return the identical access token while it remains valid". So `MintSucceeds`
takes any session of `Granted(i)`, where `i` is the instant of the answer: a new one, or
one that is under way and not revoked, with the end it has. Users, apps and scopes are not
in the model, so the token of any role may come back; this allows more than Salesforce does
and nothing less. A mint is therefore not the same as a token: properties about the order
and the presence of cache entries speak of mints (`id`), those about lifetimes of access
tokens (`acc`, `sfExp`).

`MintCall` is the abstract interface of a mint: the call ends within a deadline with a
token granted while it ran, a transient error or a definitive one. `MintSucceeds` and
`MintFails` of `TokenEngine` are exactly this. `TokenClient` models one `mintToken`
call down to the wire (assertion, attempts, backoff with jitter, classes of errors,
cancellation) and is shown to implement `MintCall`. `Promise` of `MintCall` is what a
caller can count on: no call outlasts the deadline, and Salesforce answered with the
token during it.

`TokenCache` is the abstract specification of the cache entry of each role: it holds the
token of one mint or none, only what is held is handed out, and what replaces it comes from
a mint later than all that were handed out. `TokenEngine` implements it with `held` read off the
cache and `handed` off the leases (`ImplementsTokenCache`).

`HostCheck` has `validateTokenHost` and `tokenURL` over URLs that are a scheme, a host of
one of three classes (Salesforce, loopback, other) and a kind of path.

`ConfigStore` is one entry `config/<name>` with all its fields. A request is a function
from the fields it names to their values; `merge` is the chain of `data.GetOk`, and
`Verdict` the checks in their order (required fields, re-supply rule, host check). `Read`
is `getConfig` with the merge and the checks, `Put` and `Delete` the storage writes;
other requests run in between. `confirmed` is history: the configs put by writes that
supplied some secret. Any one secret in a request counts as confirmation of all that are
kept, as in the code (line 200) and against the comment above it: see `resupply` below.

`RoleStore` is one entry `role/<name>` with the fields that the checks read: `merge` with
the defaults for omitted fields, the immutability check and the field checks in `Read`,
the look at the bound config in `Check`, then `Put`. Configs change at any time
(`ChangeConfig`). `created` is history: the identities of writes that found no role.

`Leases` is the lease clock of one role: `Issue` (a read), `Renew`, `Expire`, `Revoke`,
`RevokeFails`, and `Rotate`, `WriteRole`, `DeleteRole` that change what is behind the
leases. Vault's expiration manager and `CalculateTTL` are modelled from how the handlers
use them: a lease lasts what the client or the response asks for, at most the role's
`max_ttl` and the mount's maximum counted from the issue, and a failed revocation is
tried again. Handlers are single steps here; their interleaving is `TokenEngine`'s.

`MockServer` is the fake Salesforce of the tests: `Record` and `Mint` are the two
sections of `handleToken` under the mutex, `Decide` what happens between them, and the
setters may run at any time. The callers are retry loops as in `client.go`.

`MCTokenEngine`, `MCConfigStore`, `MCRoleStore` and `MCLeases` hold the constants of the
finite instances; `TokenClient` and `MockServer` are their own run modules.
`TokenEngineProofs`, `TokenCacheProofs`, `PurgeProofs`, `TokenClientProofs`,
`ConfigStoreProofs`, `RoleStoreProofs`, `LeasesProofs` and `MockServerProofs` hold the
theorems.

### Abstractions

* In `TokenEngine` the content of a config and of a token is abstracted to stamps and
  ids. Whether a config write passes its checks is a free choice, and so is the part of
  `validateRole` that depends on the grant; `ConfigStore` and `RoleStore` model these
  choices. A role write carries the merged definition. What `TokenEngine` assumes of a
  role (`RoleSpecAssumption`) is part of what `StoredRoleAdmissible` shows.
* `ConfigStore` and `RoleStore` have one entry: handlers of different names share
  nothing. The zero value of the struct stands for the absent entry; the type invariants
  show that no stored record equals it.
* A storage call that fails leaves the entry as it was.
* Durations are natural numbers: the framework refuses a negative one, so the check
  `renew_skew < 0` of `validateRole` never fires and `fieldsValid` leaves it out.
* `List` order is free: `VisitRole` takes any name left.
* Salesforce may answer or fail as it likes, at any instant since the clock sample
  `t0`. `SessionAssumption` says that the lifetime the engine assumes (`expires_in`,
  `token_ttl` or the 15 minutes) does not exceed what the org grants; the documentation
  makes this the operator's duty. Only `ServesUnexpired` uses it. A session lasts
  `SessionLife` from its first mint and is not prolonged by another.
* Times are ticks. `TokenClient`'s ticks are not to scale: what matters is that the
  default assertion (3 min) outlives three 30 s attempts and their backoffs, as 16
  outlives 15.

## 3. Runs

Passing runs:

| run | instance | shows |
|---|---|---|
| `reads` | 3 requests, 1 role that revokes, 2 mints (new or reused), 2 instants; 1.2 M states | the issuing core without faults: `LockInv`, `SingleFlight`, `MintOnlyWhenStale`, `NewestWins`, `CondemnedLeavesCache`, `RotateRevokesWhatItDrops`; the engine implements `TokenCache` (`ImplementsTokenCache`) |
| `admin` | 2 requests, 2 roles on one config and one lock, two config or role writes, one mint, one storage error or crash anywhere; 2.6 M states | `ConfigWritePurges`, `RoleWritePurges` while roles appear, vanish and are minted for during the purge, and for writes that reported success in spite of a fault; what a later read gets (`ServesCachedSince`) |
| `live` | 2 requests, 1 role that revokes, 1 mint, 3 instants, one storage error or crash anywhere; 83 k states | `EveryRequestReturns`; the lock survives faults (`LockInv`); `ServesUnexpired` |
| `config` | 2 requests, 13 different updates over two orgs, a gateway and a loopback host, 4 writes; 74 k states | `EndpointConfirmed`, `EndpointAllowed` |
| `role` | 2 requests, 10 different updates over two configs and two users; 644 k states | `StoredRoleAdmissible`, `IdentityFromCreation` |
| `leases` | 2 leases, 3 role terms, 2 tokens, 5 instants, one failed revocation; 20 k states | `RenewalObeysRole`, `EveryLeaseEnds` |
| `mock` | 2 calls of two attempts, `SetTransientFailures` twice, the other setters at will; 1.9 M states | `EachMintObservable`, `RequestsExplained` |
| `client` | 3 attempts; 7 k states | the client implements `MintCall`; its error classes; the default assertion outlives the retries |

*Why the bounds are enough.* The properties are about two requests in conflict, or
two and the lock's holder: 3 requests in `reads` give a holder, a waiter and an
unlocked revocation. Requests are started again and again from finished slots, so a
run is not three requests long. Two mints give an old and a new one, or one token twice;
with a lifetime of 2 and a skew of 1, two instants reach fresh and inside the skew, three
also expired. Two roles are needed for a purge that visits more than one and for a shared
lock. Initial storage holds any combination of absent and present entries.
In `config` four writes reach
create, move, relax and tighten, with the reads and Puts of a second operator in between;
in `role` the times are minutes, so that 15 (the default lifetime), 1 (the default skew),
3 and 5 (the assertion) keep the code's relations. In `leases` the mount's maximum is
longer than a token's life, so that a lease outlives its token. `mock` has two attempts
in place of three: exhaustion and success after a retry both happen, for two calls that
compete for the promised failures.

*Fairness* (`FairSpec`). Weak fairness of each request's steps: a goroutine that can
run does; a token request ends because the HTTP client has a 30 s timeout and the loop
three attempts (this is what `client` shows). Strong fairness of the blocking `Lock`:
Go's mutex hands over to a waiter after 1 ms. Nothing is assumed about new requests,
faults or the clock. In `Leases`, weak fairness of the clock and of the revocation of a
lease that has ended: Vault's expiration manager has a timer per lease and retries a
revocation that failed; failures are bounded by `MaxFaults`. Nothing obliges anyone to
renew, and an endless supply of renewals is allowed. `config`, `role` and `mock` check
safety only and assume no fairness.

Violation runs. Each states something a comment or a page says, and TLC's trace shows
the code doing otherwise:

| run | property | trace |
|---|---|---|
| `stale_config` | `NeverServesStaleConfig` | a read loads the config and misses the cache; a config write stores the new config, purges and returns; the read mints under the old config and caches; a new read is served that token |
| `lease_revoke` | `LeaseRevokesWhatItDrops` | a revocation reads token 1; a rotation replaces it by token 2; the revocation posts token 1 and deletes token 2, which is never revoked |
| `reuse` | `NeverServesExpired` | the re-mint inside the skew is answered with the token that is about to expire; it is recorded for a full lifetime, and a read is served it after its end |
| `resupply` | `SecretsResupplied` | a config holds a `client_secret`; an update with another token endpoint and a `private_key` alone is accepted, and the `client_secret` is kept for the new endpoint |

`ConfigWritePurges` is the part of the purge that does hold: nothing *cached* before
the Put of a config survives a write that returned, so a read that begins later is
served a token cached after that Put, unless the role itself was written since
(`ServesCachedSince`). `stale_config` shows that
tokens *minted* under the old config can still be cached later; the same window follows a
role write. `ServesUnexpired` is what holds next to `reuse`: a served token that was new when
it was minted has not expired, and one that Salesforce returned again ended less than a
session lifetime ago. The `live` run has a single mint and so checks the first part; the
`reuse` trace needs two, and the theorem covers both parts. `EndpointConfirmed` is the weaker
fact that holds next to `resupply`: what is kept is kept for an endpoint, TLS setting and
guards that were put together by a write supplying at least one secret, also when updates of
several operators cross.

Each property of a passing run has a mutant in `PROJECT.json`: a variant of one mapped
definition (a missing Unlock, a missing re-check, a clock sampled late, a purge that
compares nothing, one attempt too many, ...) under which TLC refutes the property.

### Where comments and pages differ from the code

Seen while modelling, each in one expression or one handler, and not worth a run:

| code | what it does | what is said |
|---|---|---|
| `path_creds.go:110`, `:130` | while a mint is under way, or has failed transiently, a cached token is served up to its very expiry | `concepts.mdx:98-99`: consumers never receive a token that is about to lapse |
| `path_config.go:147` | an update that read the config before a secret was rotated puts the old secret back: the read-modify-write takes no lock | `path_config.go:193-194`: secrets are preserved across partial updates |
| `path_rotate.go:72` | without `revoke_tokens`, or with several roles of one user and app, the mint of a rotation may return the token it was to replace (`considerations.mdx:37-40`) | `path_rotate.go:29-31`: "Force a fresh" token, "mints a new one" |
| `cache.go:97` | two roles of one user, app and scope may hold the same access token; /revoke for one ends it for the other, whose entry stays | `cache.go:81-83`: shared across all leases of the role, invalidated for every current holder |
| `path_creds.go:166` | a lock-free lease revocation may revoke, during a mint, the token that the mint returns; it is then cached although revoked | nothing; `considerations.mdx:37-40` alone makes it possible |
| `path_creds.go:124` | a failed mint caches nothing, so every waiter of a burst sends its own request in turn | `concepts.mdx:148-149`: exactly one token request per burst |
| `path_roles.go:210` | of two concurrent creations of a role the second replaces the first, config included | `path_roles.go:209`: immutable |
| `path_roles.go:233` | a read that loaded the old role can cache its token after the role write dropped the entry | `path_roles.go:231-232`: the next read re-mints under the updated role |
| `path_roles.go:263` | `renew_skew` is not bounded when `token_ttl` is 0, which stands for 15 minutes | `api-docs/.../index.mdx:175-176`: strictly less than `token_ttl` |
| `client.go:82` | the assertion is signed once; with a short `jwt_expiry` a retry carries an expired one, and its rejection is definitive | `path_creds.go:135-136`: the server now rejects the credentials |
| `path_config.go:49` | with a `token_url` that does not end in `/token`, /revoke goes to `login_url` | `path_config.go:42-43`: shares the already-validated host |
| `hostcheck.go:52` | a loopback host is refused without `allow_non_salesforce_host` | `path_config.go:93`: loopback is always allowed |
| `secret_access_token.go:70` | a renewal never looks at the token | `secret_access_token.go:57-58`: while the cached token is still fresh |

## 4. Proofs

All theorems hold for all values of the constants that satisfy the named assumptions
(any number of requests, roles, configs, locks, leases, any hash, any updates, and any
bounds).

| module | theorem | states | rests on |
|---|---|---|---|
| `TokenEngineProofs` | `TypeCorrect` | `[]TypeOK` | `RoleSpecAssumption`, one lemma per group of actions |
| | `LockCorrect` | `[]LockInv` | `ControlInv`, `RequestAssumption` |
| | `SingleFlightCorrect` | `[]SingleFlight` | `LockInv` |
| | `MintOnlyWhenStaleCorrect` | `[]MintOnlyWhenStale` | `LockInv`; the clock only moves forward |
| | `ServesUnexpiredCorrect` | `ServesUnexpired` | `ExpiryInv`, `SessionAssumption` |
| | `RotateCorrect` | `[]RotateRevokesWhatItDrops` | `LockInv`, `RotateInv` |
| `TokenCacheProofs` | `NewestWinsCorrect` | `[]NewestWins` | `NewestInv`, `SingleFlight` |
| | `TokenCacheImplemented` | `ImplementsTokenCache` | `NewestInv` |
| `PurgeProofs` | `ConfigWritePurgesCorrect` | `[]ConfigWritePurges` | `PurgeInv` |
| | `RoleWritePurgesCorrect` | `[]RoleWritePurges` | `PurgeInv` |
| | `CondemnedLeavesCacheCorrect` | `[]CondemnedLeavesCache` | `CondemnedInv`, `SingleFlight` |
| | `ServesCachedSinceCorrect` | `ServesCachedSince` | `PurgeInv`, `SinceInv` |
| `TokenClientProofs` | `TypeCorrect` | `[]TypeOK` | `ClientAssumption`, `BackoffTyped` |
| | `DefinitiveCorrect` | `[]DefinitiveMeansRejected` | `ControlInv` |
| | `NoRetryCorrect` | `NoRetryAfterRejection` | `ControlInv` |
| | `AssertionCorrect` | `[]AssertionOutlivesRetries` | `TimeInv`, and `Deadline < jwtLifetime` |
| | `MintCallImplemented` | the safety part of `ImplementsMintCall` | `TimeInv`, `ControlInv` |
| | `MintPromiseKept` | `[]Promise` of `MintCall` | `MintCallImplemented`, `DeadlineBounds` |
| `ConfigStoreProofs` | `TypeCorrect` | `[]TypeOK` | `UpdateAssumption` |
| | `EndpointConfirmedCorrect` | `[]EndpointConfirmed` | `ConfirmedInv` |
| | `EndpointAllowedCorrect` | `[]EndpointAllowed` | `AllowedInv` |
| `RoleStoreProofs` | `TypeCorrect` | `[]TypeOK` | `RoleAssumption` |
| | `AdmissibleCorrect` | `[]StoredRoleAdmissible` | `AdmissibleInv`, `DefaultTTLAssumption` |
| | `IdentityCorrect` | `[]IdentityFromCreation` | `IdentityInv` |
| `LeasesProofs` | `RenewalCorrect` | `RenewalObeysRole` | `LeaseInv`, `LeaseAssumption` |
| `MockServerProofs` | `EachMintCorrect` | `[]EachMintObservable` | `MintInv` |
| | `RequestsExplainedCorrect` | `[]RequestsExplained` | `PromiseInv`, `SentInv`, `MockAssumption` |

The arguments.

*The lock.* `LockInv` is not inductive by itself: whether the return of a handler
gives a lock back depends on which handler it is. `ControlInv` adds that a request is
only ever at a label of its own handler (`Steps(op)`). With it, each action either
stays on its side of the guarded section (`LockKept`), leaves it by returning
(`LockReturned`) or enters it with a free lock (`LockTaken`). `SingleFlight` is then a
consequence: two requests for the same role inside the section would own the same
lock. For `MintOnlyWhenStale`, `CacheStep` says that a step leaves the cache alone,
deletes an entry or stores a minted token; deletions and the clock make tokens less
fresh, and a store for the role is excluded by `SingleFlight`. `ExpiryInv` says
that a recorded expiry exceeds Salesforce's by at most `Overrun`, nothing for a new token
and one session lifetime for a reused one, and that a session under way was begun by an
earlier mint, so that the two can be told apart. `MintHonest` gets it from the clock
sample taken before the call and from the session having been valid at the answer; `ServedFromCache` says that any served token that was not just minted passed a
comparison with the clock. `RotateInv` says that between its read and its deletion a
rotation's token is the cached one or the entry is gone, because only the lock's
holder stores.

*The cache.* `NewestWins` is not inductive: a mint under way may hold any id. `NewestInv`
adds that ids are bounded by `issued` and that a request about to store has a later mint
than everything its role holds or has handed out; it stays the newest because
`SingleFlight` keeps a second mint of the role away until it is stored. The refinement
follows step by step: `HandlerStep` sorts the steps into those that leave cache and leases
alone or drop an entry, those that hand out the cached token, the store and the mint, and
these map to a stutter or `Drop`, `Hand`, `Renew` and a stutter.

*The purges.* What a completed write promises about the cache has to be carried through
the writes under way. `StampInv` says that no stamp is from the future, so a token cached
after the stamp of a write never has to go. `SweepInv` is the loop invariant of
`deleteCachedTokensForConfig`: every role that was bound to the config when the stamp was
taken and still has a token cached before is among the names that the purge has yet to
look at. It holds although the names are listed once and no lock is taken, because a
role that is written meanwhile gets a later stamp and a token that is stored meanwhile a
later `at`. When no name is left it is `ConfigWritePurges`. For a read, `SinceInv` says
that the completed write it saw when it loaded its config is no later than the last one
now (`DoneGrows`: completed stamps never go back, even when two writes of a config finish
out of order). A served token is the cached one (`ServedFromCache`), to which
`ConfigWritePurges` applies, or the read's own, whose `at` is the present stamp
(`StoreServes`).

*Condemned mints.* That the handler which condemns a mint also takes it out of the
cache is clear from each handler alone; the proof is about everything else that could
hold it. `OriginInv` says that every mint belongs to one role, so no other role's entry
can have it; `PrivateInv` that a mint about to be stored is known to no entry, lease or
revocation, so nothing condemned it before it was stored; `LeaseInv` that a revocation is
of a lease that was granted. `SingleFlight` keeps a second mint of the role from spoiling
`PrivateInv`. `CondemnedLeavesCache` is for behaviours without storage errors and
crashes: with one of them the entry may stay, which the hazards list. It says that the
entry goes, not that its access token never comes back: the next mint may return the same
token if it was not revoked at Salesforce.

*The client.* `ControlInv` ties the outcome to the place in the loop, and gives the type
invariant, the error class and the action property. `TimeInv` bounds the clock by
`budget[attempt]` when an attempt begins and by the previous budget and one exchange
when a backoff begins. `backoff` and `budget` are recursive functions: `Induction`
(from the well-foundedness of the naturals, for a set in place of a predicate) and
`Recursion` (a step function has a function that iterates it) show that both exist, are
natural and monotone, and so that no attempt begins too late for `Deadline`.
`AssertionCorrect` needs `Deadline < jwtLifetime` and says so: the code does not check
it. With its constants the deadline is 90.9 s and the default lifetime 180 s; a role with
a `jwt_expiry` below 91 s is not covered, and there a late attempt is rejected by
Salesforce. `MintPromiseKept` is proved about `MintCall` and carried over by the
refinement; the deadline's type is all it takes from the client.

*The stores.* Each invariant of the stored record is extended to the record that a write
is about to put (`new[q]` while `pc[q]` is past the checks), since other writes run between
the check and the Put. `ConfirmedInv` leaves out writes that supply a secret, which confirm
what they put; for the others `MergeKeepsConfirmation` shows that a merge that passes the
re-supply rule keeps the secrets, the endpoint and the guards of the config it was made
from. `IdentityInv` works the same way: an update keeps the identity it has read, which was
a creation's. `AdmissibleInv` carries `fieldsValid`, from which freshness at the moment of
the mint follows by the arithmetic of `Tokens`.

*Renewal.* `LeaseInv` says that a role that is not stored has no term; so a bound in force
is one that the renewal has read.

*The mock server.* `MintInv` adds that no token is above the counter and that a call
without an answer has none. For the requests, `PromiseInv` says that the failures left
are promised to exactly the requests to come, so the next request is promised one exactly
when `handleToken` finds the counter positive. `SentInv` follows each call: while it
sends, all its requests have failed and there are as many as attempts behind it; while
its handler decides, the last is open and ends as the handler saw it.

All invariants that the runs check are proved. The inductive invariants were checked by
TLC on the runs' instances before they were proved. Only model-checked is liveness,
which TLAPS does not reach: `EveryRequestReturns`, `EveryLeaseEnds` and the part of
`ImplementsMintCall` that says that the call returns.

## 5. Not modelled

Config and role read and list (no state change; secrets are redacted there), the info
endpoint (constants), the plugin binary, signing, TLS, URL and JSON handling, logging (and
`hostOf`, which only feeds it), the reserved `use_introspection`, `scopes` and `audience`
of a role, which no check reads. The cache of parsed RSA keys is a memo that never changes
a result (and is never evicted). Nothing else of the repository changes state.

## 6. Plan

Done: the engine, the client, the stores, the leases, the mock server, the abstract token
cache and mint, and a proof of every invariant and action property that the passing runs
check. Left: users, apps and scopes in `TokenEngine`, so that Salesforce returns a token only
to the roles it would return it to; and for how long a token that
Salesforce has revoked can stay cached after a crash between /revoke and the deletion
(until its recorded expiry, a rotation, a purge or a definitive rejection), which needs
liveness under the faults.
