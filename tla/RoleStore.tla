------------------------------ MODULE RoleStore ------------------------------
(***************************************************************************)
(* One entry role/<name> and the handlers of path_roles.go, field by       *)
(* field.  A write reads the entry, merges the fields of the request and   *)
(* the defaults into it, checks the result, looks at the bound config and  *)
(* puts the record back whole; no lock spans these steps.  The fields that *)
(* no check reads (scopes, audience, use_introspection, revoke_tokens) are *)
(* left out, and so is the deletion of the cached token, which TokenEngine *)
(* models.                                                                 *)
(***************************************************************************)
EXTENDS Tokens, FiniteSets

CONSTANTS
    Req,               \* the request slots
    Config,            \* config names
    User,              \* Salesforce usernames
    Duration,          \* the durations an operator may write
    None,              \* the empty string
    Update,            \* the requests: functions from some of the fields to values
    DefaultSkew,       \* 60 s
    DefaultJWTExpiry,  \* 3 minutes
    MaxJWTExpiry,      \* 5 minutes
    MaxPuts            \* bounds the number of writes

Grants  == {"jwt_bearer", "client_credentials"}
Secrets == {"client_secret", "private_key"}
Times   == Duration \cup {0, DefaultTokenTTL, DefaultSkew, DefaultJWTExpiry}

salesforceRole ==
    [config : Config \cup {None}, grant_type : Grants \cup {None},
     username : User \cup {None}, token_ttl : Times, ttl : Times, max_ttl : Times,
     renew_skew : Times, jwt_expiry : Times]

\* The zero value of the struct.  A stored role has a config, so it also stands
\* for the absent entry.
NoRole ==
    [config |-> None, grant_type |-> None, username |-> None, token_ttl |-> 0,
     ttl |-> 0, max_ttl |-> 0, renew_skew |-> 0, jwt_expiry |-> 0]

\* data.GetOk of one field.
pick(r, u, f) == IF f \in DOMAIN u THEN u[f] ELSE r[f]

\* data.GetOk of a field with a default, which also replaces a stored zero.
pickOr(r, u, f, d) ==
    IF f \in DOMAIN u THEN u[f] ELSE IF r[f] = 0 THEN d ELSE r[f]

merge(r, u) ==
    [config |-> pick(r, u, "config"), grant_type |-> pick(r, u, "grant_type"),
     username |-> pick(r, u, "username"),
     token_ttl |-> pickOr(r, u, "token_ttl", DefaultTokenTTL),
     ttl |-> pick(r, u, "ttl"), max_ttl |-> pick(r, u, "max_ttl"),
     renew_skew |-> pickOr(r, u, "renew_skew", DefaultSkew),
     jwt_expiry |-> pickOr(r, u, "jwt_expiry", DefaultJWTExpiry)]

ASSUME RoleAssumption ==
    /\ Duration \subseteq Nat /\ DefaultSkew \in Nat /\ DefaultJWTExpiry \in Nat
    /\ MaxJWTExpiry \in Nat /\ MaxPuts \in Nat
    /\ None \notin Config /\ Update # {}
    /\ \A u \in Update : merge(NoRole, u) \in salesforceRole

VARIABLES
    role,      \* storage role/<name>, NoRole when absent
    configs,   \* the configs: whether each is stored and which secrets it holds
    pc,        \* where each request is
    upd, new,  \* the request, and the merged role a write is going to put
    created,   \* history: the identities of writes that found no role
    puts       \* the number of Puts so far

vars == <<role, configs, pc, upd, new, created, puts>>

\* The storage operation a handler is at; "idle" before it and after it.
Label == {"idle", "read", "check", "put", "delete"}

-----------------------------------------------------------------------------
(* The checks of pathRoleWrite and validateRole. *)

Identity(r) == [config |-> r.config, username |-> r.username]

\* Mutant of repoints: only the config is compared.
repointsConfigOnly(old, r) == old # NoRole /\ r.config # old.config

\* The Salesforce identity of an existing role is immutable.
repoints(old, r) == old # NoRole /\ Identity(r) # Identity(old)

\* Mutant of fieldsValid: the skew may be as long as the token_ttl.
fieldsValidOffByOne(r) ==
    /\ r.config # None /\ r.grant_type \in Grants
    /\ r.max_ttl > 0 => r.ttl <= r.max_ttl
    /\ r.jwt_expiry <= MaxJWTExpiry
    /\ r.token_ttl > 0 => r.renew_skew <= r.token_ttl

\* Mutant of fieldsValid: a role without a config goes on to the lookup.
fieldsValidNoConfig(r) ==
    /\ r.grant_type \in Grants
    /\ r.max_ttl > 0 => r.ttl <= r.max_ttl
    /\ r.jwt_expiry <= MaxJWTExpiry
    /\ r.token_ttl > 0 => r.renew_skew < r.token_ttl

\* The part of validateRole that looks at the role alone.
fieldsValid(r) ==
    /\ r.config # None /\ r.grant_type \in Grants
    /\ r.max_ttl > 0 => r.ttl <= r.max_ttl
    /\ r.jwt_expiry <= MaxJWTExpiry
    /\ r.token_ttl > 0 => r.renew_skew < r.token_ttl

\* The part that looks at the bound config: it exists and holds what the grant
\* signs or authenticates with.
suits(r, cfg) ==
    /\ cfg.stored
    /\ r.grant_type = "jwt_bearer" => r.username # None /\ "private_key" \in cfg.secrets
    /\ r.grant_type = "client_credentials" => "client_secret" \in cfg.secrets

-----------------------------------------------------------------------------
SomeUpdate == CHOOSE u \in Update : TRUE

Goto(q, l) == pc' = [pc EXCEPT ![q] = l]

\* The handler returns, with success or a refusal; its local variables are gone.
Return(q) ==
    /\ Goto(q, "idle")
    /\ upd' = [upd EXCEPT ![q] = SomeUpdate]
    /\ new' = [new EXCEPT ![q] = NoRole]

Writing == {q \in Req : pc[q] \in {"read", "check", "put"}}

BeginWrite(q) ==
    /\ pc[q] = "idle" /\ puts + Cardinality(Writing) < MaxPuts
    /\ \E u \in Update : upd' = [upd EXCEPT ![q] = u]
    /\ Goto(q, "read")
    /\ UNCHANGED <<role, configs, new, created, puts>>

\* getRole, the merge, the immutability check and the checks of the fields.
Read(q) ==
    LET r == merge(role, upd[q]) IN
    /\ pc[q] = "read"
    /\ \/ /\ repoints(role, r) \/ ~fieldsValid(r)
          /\ Return(q) /\ UNCHANGED created
       \/ /\ ~repoints(role, r) /\ fieldsValid(r)
          /\ new' = [new EXCEPT ![q] = r]
          /\ created' = IF role = NoRole THEN created \cup {Identity(r)} ELSE created
          /\ Goto(q, "check") /\ UNCHANGED upd
    /\ UNCHANGED <<role, configs, puts>>

\* getConfig and the check of its material.
Check(q) ==
    LET ok == suits(new[q], configs[new[q].config]) IN
    /\ pc[q] = "check"
    /\ \/ ok /\ Goto(q, "put") /\ UNCHANGED <<upd, new>>
       \/ ~ok /\ Return(q)
    /\ UNCHANGED <<role, configs, created, puts>>

Put(q) ==
    /\ pc[q] = "put"
    /\ role' = new[q]
    /\ puts' = puts + 1
    /\ Return(q)
    /\ UNCHANGED <<configs, created>>

BeginDelete(q) ==
    /\ pc[q] = "idle"
    /\ Goto(q, "delete")
    /\ UNCHANGED <<role, configs, upd, new, created, puts>>

Delete(q) ==
    /\ pc[q] = "delete"
    /\ role' = NoRole
    /\ Return(q)
    /\ UNCHANGED <<configs, created, puts>>

\* A storage call, or the deletion of the cached token before that of the role,
\* returns an error (in the check of the config it is an error response).
StorageError(q) ==
    /\ pc[q] # "idle"
    /\ Return(q)
    /\ UNCHANGED <<role, configs, created, puts>>

\* A config is written or deleted.  Nothing ties it to the roles bound to it.
ChangeConfig ==
    /\ \E c \in Config, cfg \in [stored : {TRUE}, secrets : SUBSET Secrets]
                                \cup {[stored |-> FALSE, secrets |-> {}]} :
         configs' = [configs EXCEPT ![c] = cfg]
    /\ UNCHANGED <<role, pc, upd, new, created, puts>>

Init ==
    /\ role = NoRole
    /\ configs = [c \in Config |-> [stored |-> TRUE, secrets |-> Secrets]]
    /\ pc = [q \in Req |-> "idle"]
    /\ upd = [q \in Req |-> SomeUpdate]
    /\ new = [q \in Req |-> NoRole]
    /\ created = {}
    /\ puts = 0

Next ==
    \/ \E q \in Req : \/ BeginWrite(q) \/ Read(q) \/ Check(q) \/ Put(q)
                      \/ BeginDelete(q) \/ Delete(q) \/ StorageError(q)
    \/ ChangeConfig

Spec == Init /\ [][Next]_vars

-----------------------------------------------------------------------------
(* Properties. *)

\* Type correctness; and a write that has passed its checks has a config to
\* look up, so a stored role is never mistaken for an absent one.
TypeOK ==
    /\ role \in salesforceRole
    /\ configs \in [Config -> [stored : BOOLEAN, secrets : SUBSET Secrets]]
    /\ pc \in [Req -> Label]
    /\ upd \in [Req -> Update]
    /\ new \in [Req -> salesforceRole]
    /\ created \subseteq [config : Config, username : User \cup {None}]
    /\ puts \in Nat
    /\ \A q \in Req : pc[q] \in {"check", "put"} => new[q].config \in Config

\* A stored role is what the engine and the client assume of one: the skew below
\* a token_ttl that is given (RoleSpecAssumption of TokenEngine), the lease
\* within its maximum, an assertion Salesforce accepts.  Defaults filled in for
\* omitted fields obey the same bounds as fields that were given.
StoredRoleAdmissible ==
    role # NoRole =>
        /\ role.grant_type \in Grants
        /\ role.max_ttl > 0 => role.ttl <= role.max_ttl
        /\ role.jwt_expiry <= MaxJWTExpiry
        /\ role.token_ttl > 0 => fresh(lifetime(role.token_ttl, 0), 0, role.renew_skew)

\* The identity of a stored role (config and username) was supplied by a write
\* that found no role under the name: no sequence of updates makes up another
\* one (pathRoleWrite: "Treat them as immutable; require delete+recreate").
IdentityFromCreation == role # NoRole => Identity(role) \in created
===============================================================================
