----------------------------- MODULE ConfigStore -----------------------------
(***************************************************************************)
(* One entry config/<name> and the handlers of path_config.go, field by    *)
(* field.  A write reads the entry, merges the fields of the request into  *)
(* it, checks the result and puts it back whole; no lock spans the read    *)
(* and the Put.  The purge of cached tokens that a write ends with and a   *)
(* deletion starts with is in TokenEngine: it does not touch the entry.    *)
(***************************************************************************)
EXTENDS HostCheck, Naturals, FiniteSets

CONSTANTS
    Req,      \* the request slots
    Update,   \* the requests: functions from some of the fields to values
    NoText,   \* the empty string, in a field that is not a URL
    Text,     \* the strings a client_id, secret, key or CA bundle can be
    MaxPuts   \* bounds the number of writes

Secrets == {"client_secret", "private_key"}

salesforceConfig ==
    [login_url : URL, token_url : URL, client_id : Text \cup {NoText},
     client_secret : Text \cup {NoText}, private_key : Text \cup {NoText},
     ca_cert : Text \cup {NoText},
     tls_skip_verify : BOOLEAN, allow_non_salesforce_host : BOOLEAN]

\* The zero value of the struct.  A stored config has a login_url, so it also
\* stands for the absent entry.
NoConfig ==
    [login_url |-> NoURL, token_url |-> NoURL, client_id |-> NoText,
     client_secret |-> NoText, private_key |-> NoText, ca_cert |-> NoText,
     tls_skip_verify |-> FALSE, allow_non_salesforce_host |-> FALSE]

\* The fields that the request of update u supplies.
Supplies(u, fs) == DOMAIN u \cap fs # {}

\* data.GetOk of one field: what the request gives replaces what is there.
pick(cfg, u, f) == IF f \in DOMAIN u THEN u[f] ELSE cfg[f]

merge(cfg, u) ==
    [login_url |-> pick(cfg, u, "login_url"), token_url |-> pick(cfg, u, "token_url"),
     client_id |-> pick(cfg, u, "client_id"),
     client_secret |-> pick(cfg, u, "client_secret"),
     private_key |-> pick(cfg, u, "private_key"), ca_cert |-> pick(cfg, u, "ca_cert"),
     tls_skip_verify |-> pick(cfg, u, "tls_skip_verify"),
     allow_non_salesforce_host |-> pick(cfg, u, "allow_non_salesforce_host")]

ASSUME UpdateAssumption ==
    /\ \A u \in Update : merge(NoConfig, u) \in salesforceConfig
    /\ NoText \notin Text
    /\ Update # {} /\ MaxPuts \in Nat

VARIABLES
    config,     \* storage config/<name>, NoConfig when absent
    pc,         \* where each request is
    upd,        \* the fields each request supplies
    new,        \* the merged config a write is going to put
    confirmed,  \* history: the configs put by writes that supplied some secret
    puts        \* the number of Puts so far

vars == <<config, pc, upd, new, confirmed, puts>>

\* How a handler ended (required, resupply, badhost: refused by a check), and
\* the storage operation a running one is at.
Done  == {"idle", "ok", "error", "required", "resupply", "badhost"}
Label == Done \cup {"read", "put", "delete"}

-----------------------------------------------------------------------------
(* The checks of pathConfigWrite. *)

HoldsSecret(cfg) == \E f \in Secrets : cfg[f] # NoText

\* Mutant of sensitiveChange: login_url, the default of token_url, is forgotten.
sensitiveTokenURLOnly(old, cfg) ==
    \/ cfg.token_url # old.token_url
    \/ cfg.allow_non_salesforce_host /\ ~old.allow_non_salesforce_host
    \/ cfg.tls_skip_verify /\ ~old.tls_skip_verify

\* The endpoint moves or a transport guard is relaxed.
sensitiveChange(old, cfg) ==
    \/ cfg.token_url # old.token_url
    \/ cfg.login_url # old.login_url
    \/ cfg.allow_non_salesforce_host /\ ~old.allow_non_salesforce_host
    \/ cfg.tls_skip_verify /\ ~old.tls_skip_verify

\* Re-supply-on-sensitive-change: any one secret in the request confirms it.
mustReSupply(old, u) ==
    /\ old # NoConfig /\ HoldsSecret(old)
    /\ sensitiveChange(old, merge(old, u))
    /\ ~Supplies(u, Secrets)

\* Mutant of hostAllowed: the host is checked only when the request names a URL.
hostAllowedIfGiven(old, u) ==
    LET cfg == merge(old, u) IN
    Supplies(u, {"login_url", "token_url"})
        => validateTokenHost(tokenURL(cfg), cfg.allow_non_salesforce_host)

hostAllowed(old, u) ==
    LET cfg == merge(old, u) IN
    validateTokenHost(tokenURL(cfg), cfg.allow_non_salesforce_host)

\* Mutant of Verdict: the required fields are looked for in nothing.
VerdictNothingRequired(old, u) ==
    IF mustReSupply(old, u) THEN "resupply"
    ELSE IF ~hostAllowed(old, u) THEN "badhost"
    ELSE "put"

\* The checks in their order: where a write of u goes that has read old.
Verdict(old, u) ==
    LET cfg == merge(old, u) IN
    IF cfg.login_url = NoURL \/ cfg.client_id = NoText THEN "required"
    ELSE IF mustReSupply(old, u) THEN "resupply"
    ELSE IF ~hostAllowed(old, u) THEN "badhost"
    ELSE "put"

-----------------------------------------------------------------------------
SomeUpdate == CHOOSE u \in Update : TRUE

Goto(q, l) == pc' = [pc EXCEPT ![q] = l]

\* The handler returns; its local variables are gone.
Return(q, l) ==
    /\ Goto(q, l)
    /\ upd' = [upd EXCEPT ![q] = SomeUpdate]
    /\ new' = [new EXCEPT ![q] = NoConfig]

Writing == {q \in Req : pc[q] \in {"read", "put"}}

BeginWrite(q) ==
    /\ pc[q] \in Done /\ puts + Cardinality(Writing) < MaxPuts
    /\ \E u \in Update : upd' = [upd EXCEPT ![q] = u]
    /\ Goto(q, "read")
    /\ UNCHANGED <<config, new, confirmed, puts>>

\* getConfig, the merge and the checks.
Read(q) ==
    LET v == Verdict(config, upd[q]) IN
    /\ pc[q] = "read"
    /\ \/ /\ v = "put"
          /\ new' = [new EXCEPT ![q] = merge(config, upd[q])]
          /\ Goto(q, "put")
          /\ UNCHANGED upd
       \/ v # "put" /\ Return(q, v)
    /\ UNCHANGED <<config, confirmed, puts>>

Put(q) ==
    /\ pc[q] = "put"
    /\ config' = new[q]
    /\ confirmed' = IF Supplies(upd[q], Secrets) THEN confirmed \cup {new[q]} ELSE confirmed
    /\ puts' = puts + 1
    /\ Return(q, "ok")

BeginDelete(q) ==
    /\ pc[q] \in Done
    /\ Goto(q, "delete")
    /\ UNCHANGED <<config, upd, new, confirmed, puts>>

Delete(q) ==
    /\ pc[q] = "delete"
    /\ config' = NoConfig
    /\ Return(q, "ok")
    /\ UNCHANGED <<confirmed, puts>>

\* A storage call, or the purge before a deletion, returns an error; the handler
\* returns it and the entry is as it was.
StorageError(q) ==
    /\ pc[q] \notin Done
    /\ Return(q, "error")
    /\ UNCHANGED <<config, confirmed, puts>>

Init ==
    /\ config = NoConfig
    /\ pc = [q \in Req |-> "idle"]
    /\ upd = [q \in Req |-> SomeUpdate]
    /\ new = [q \in Req |-> NoConfig]
    /\ confirmed = {}
    /\ puts = 0

Next ==
    \E q \in Req : \/ BeginWrite(q) \/ Read(q) \/ Put(q)
                   \/ BeginDelete(q) \/ Delete(q) \/ StorageError(q)

Spec == Init /\ [][Next]_vars

-----------------------------------------------------------------------------
(* Properties. *)

\* Type correctness; and what is about to be put has passed the required fields,
\* so a stored config is never mistaken for an absent one.
TypeOK ==
    /\ config \in salesforceConfig
    /\ pc \in [Req -> Label]
    /\ upd \in [Req -> Update]
    /\ new \in [Req -> salesforceConfig]
    /\ confirmed \subseteq salesforceConfig
    /\ puts \in Nat
    /\ \A q \in Req : pc[q] = "put" => new[q].login_url # NoURL /\ new[q].client_id # NoText

\* The secrets of cfg were stored by d, for the same endpoint, under transport
\* guards no stricter than those of d.
ConfirmedBy(d, cfg) ==
    /\ \A f \in Secrets \cup {"login_url", "token_url"} : cfg[f] = d[f]
    /\ cfg.tls_skip_verify => d.tls_skip_verify
    /\ cfg.allow_non_salesforce_host => d.allow_non_salesforce_host

\* The secrets of a stored config are kept for the endpoint and the transport
\* guards of a write that supplied some secret itself, whatever partial updates
\* and deletions ran before or at the same time.  This is what line 200 gives: one
\* secret in the request confirms all that are kept; SecretsResupplied is what the
\* comment above it asks.  The check compares with a config that may have been
\* replaced by the time of the Put; what makes it hold is that the record is put
\* back whole.
EndpointConfirmed == HoldsSecret(config) => \E d \in confirmed : ConfirmedBy(d, config)

\* The token endpoint of a stored config passes the host check under the flag
\* stored with it: clearing allow_non_salesforce_host on its own cannot leave a
\* gateway behind as the endpoint (validateTokenHost).
EndpointAllowed ==
    config # NoConfig
        => validateTokenHost(tokenURL(config), config.allow_non_salesforce_host)

\* pathConfigWrite: "an update that changes the token endpoint or weakens transport
\* security must re-supply the secret(s) the config holds".  A write that does so
\* names every secret that the stored config had and that it keeps.
SecretsResupplied ==
    [][\A q \in Req :
         /\ pc[q] = "put" /\ pc'[q] = "ok"
         /\ config # NoConfig /\ sensitiveChange(config, config')
         => \A f \in Secrets :
              config[f] # NoText /\ config'[f] = config[f] => f \in DOMAIN upd[q]]_vars
===============================================================================
