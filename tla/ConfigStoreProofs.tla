-------------------------- MODULE ConfigStoreProofs --------------------------
(***************************************************************************)
(* ConfigStore for any set of requests, hosts and updates: the secrets of  *)
(* a stored config are bound to an endpoint that a write supplying one of  *)
(* them has confirmed.                                                     *)
(***************************************************************************)
EXTENDS ConfigStore, TLAPS

\* The absent config is a config.
LEMMA NoConfigTyped == NoConfig \in salesforceConfig
BY DEF NoConfig, salesforceConfig, NoURL, URL

\* A merge of a config with a request is a config.
LEMMA MergeTyped ==
    ASSUME NEW cfg \in salesforceConfig, NEW u \in Update
    PROVE  merge(cfg, u) \in salesforceConfig
<1>1. merge(NoConfig, u) \in salesforceConfig
  BY UpdateAssumption
<1> QED BY <1>1 DEF merge, pick, salesforceConfig

\* A verdict is a label, and it is "put" only for a config with the required
\* fields, confirmed by the re-supply rule, whose endpoint the host check admits.
LEMMA VerdictMeans ==
    ASSUME NEW old \in salesforceConfig, NEW u \in Update
    PROVE  /\ Verdict(old, u) \in Label
           /\ Verdict(old, u) = "put" =>
                /\ merge(old, u).login_url # NoURL /\ merge(old, u).client_id # NoText
                /\ ~mustReSupply(old, u)
                /\ hostAllowed(old, u)
BY DEF Verdict, Label, Done

-----------------------------------------------------------------------------
\* Type correctness of every configuration store: pathConfigWrite stores only
\* records that have the required fields.
THEOREM TypeCorrect == Spec => []TypeOK
<1>1. Init => TypeOK
  BY NoConfigTyped, UpdateAssumption DEF Init, TypeOK, Label, Done, SomeUpdate
<1>2. TypeOK /\ [Next]_vars => TypeOK'
  <2> SUFFICES ASSUME TypeOK, [Next]_vars PROVE TypeOK'
    OBVIOUS
  <2> USE NoConfigTyped DEF TypeOK
  <2>1. SomeUpdate \in Update
    BY UpdateAssumption DEF SomeUpdate
  <2>2. ASSUME NEW q \in Req, BeginWrite(q) PROVE TypeOK'
    BY <2>2 DEF BeginWrite, Goto, Label
  <2>3. ASSUME NEW q \in Req, Read(q) PROVE TypeOK'
    <3>1. merge(config, upd[q]) \in salesforceConfig
      BY MergeTyped
    <3>2. Verdict(config, upd[q]) \in Label
      BY VerdictMeans
    <3>3. Verdict(config, upd[q]) = "put" =>
             merge(config, upd[q]).login_url # NoURL /\ merge(config, upd[q]).client_id # NoText
      BY VerdictMeans
    <3> QED BY <2>1, <2>3, <3>1, <3>2, <3>3 DEF Read, Return, Goto, Label
  <2>4. ASSUME NEW q \in Req, Put(q) PROVE TypeOK'
    BY <2>1, <2>4 DEF Put, Return, Goto, Label, Done
  <2>5. ASSUME NEW q \in Req, BeginDelete(q) PROVE TypeOK'
    BY <2>5 DEF BeginDelete, Goto, Label
  <2>6. ASSUME NEW q \in Req, Delete(q) PROVE TypeOK'
    BY <2>1, <2>6 DEF Delete, Return, Goto, Label, Done
  <2>7. ASSUME NEW q \in Req, StorageError(q) PROVE TypeOK'
    BY <2>1, <2>7 DEF StorageError, Return, Goto, Label, Done
  <2>8. CASE UNCHANGED vars
    BY <2>8 DEF vars
  <2> QED BY <2>2, <2>3, <2>4, <2>5, <2>6, <2>7, <2>8 DEF Next
<1> QED BY <1>1, <1>2, PTL DEF Spec

-----------------------------------------------------------------------------
\* The inductive form of EndpointConfirmed: the same of every config that a
\* write is about to put, unless the write supplies a secret itself.
ConfirmedInv ==
    /\ EndpointConfirmed
    /\ \A q \in Req : pc[q] = "put" /\ HoldsSecret(new[q]) /\ ~Supplies(upd[q], Secrets)
          => \E d \in confirmed : ConfirmedBy(d, new[q])

\* A partial update that passes the re-supply rule keeps the confirmation that
\* the config it has read carries.
LEMMA MergeKeepsConfirmation ==
    ASSUME NEW old \in salesforceConfig, NEW u \in Update, NEW D,
           HoldsSecret(old) => \E d \in D : ConfirmedBy(d, old),
           ~mustReSupply(old, u), ~Supplies(u, Secrets),
           HoldsSecret(merge(old, u))
    PROVE  \E d \in D : ConfirmedBy(d, merge(old, u))
<1>1. \A f \in Secrets : merge(old, u)[f] = old[f]
  BY DEF Secrets, Supplies, merge, pick
<1>2. HoldsSecret(old)
  BY <1>1 DEF HoldsSecret
<1>3. old # NoConfig
  BY <1>2 DEF HoldsSecret, NoConfig, Secrets
<1>4. ~sensitiveChange(old, merge(old, u))
  BY <1>2, <1>3 DEF mustReSupply
<1>5. PICK d \in D : ConfirmedBy(d, old)
  BY <1>2
<1>6. ConfirmedBy(d, merge(old, u))
  <2>1. \A f \in {"login_url", "token_url"} : merge(old, u)[f] = old[f]
    BY <1>4 DEF sensitiveChange
  <2>2. /\ merge(old, u).tls_skip_verify => old.tls_skip_verify
        /\ merge(old, u).allow_non_salesforce_host => old.allow_non_salesforce_host
    BY <1>4 DEF sensitiveChange
  <2> QED BY <1>1, <1>5, <2>1, <2>2 DEF ConfirmedBy
<1> QED BY <1>6

\* For every instance: the secrets of a stored config are kept for an endpoint
\* and guards of a write that supplied some secret, although the check and the
\* Put of a write are not atomic.  One secret confirms all, as in the code.
THEOREM EndpointConfirmedCorrect == Spec => []EndpointConfirmed
<1>1. Init => ConfirmedInv
  BY DEF Init, ConfirmedInv, EndpointConfirmed, HoldsSecret, NoConfig, Secrets
<1>2. TypeOK /\ ConfirmedInv /\ [Next]_vars => ConfirmedInv'
  <2> SUFFICES ASSUME TypeOK, ConfirmedInv, [Next]_vars PROVE ConfirmedInv'
    OBVIOUS
  <2> USE DEF TypeOK, ConfirmedInv, EndpointConfirmed
  <2>2. ASSUME NEW q \in Req, BeginWrite(q) PROVE ConfirmedInv'
    BY <2>2 DEF BeginWrite, Goto
  <2>3. ASSUME NEW q \in Req, Read(q) PROVE ConfirmedInv'
    <3>1. CASE Verdict(config, upd[q]) = "put"
      <4>1. ~mustReSupply(config, upd[q])
        BY <3>1, VerdictMeans
      <4>2. HoldsSecret(merge(config, upd[q])) /\ ~Supplies(upd[q], Secrets)
               => \E d \in confirmed : ConfirmedBy(d, merge(config, upd[q]))
        BY <4>1, MergeKeepsConfirmation
      <4> QED BY <2>3, <3>1, <4>2 DEF Read, Goto, Return
    <3>2. CASE Verdict(config, upd[q]) # "put"
      BY <2>3, <3>2 DEF Read, Goto, Return
    <3> QED BY <3>1, <3>2
  <2>4. ASSUME NEW q \in Req, Put(q) PROVE ConfirmedInv'
    <3>1. confirmed \subseteq confirmed'
      BY <2>4 DEF Put
    <3>2. ConfirmedBy(new[q], new[q])
      BY DEF ConfirmedBy
    <3>3. EndpointConfirmed'
      <4>1. CASE Supplies(upd[q], Secrets)
        BY <2>4, <3>2, <4>1 DEF Put
      <4>2. CASE ~Supplies(upd[q], Secrets)
        BY <2>4, <4>2 DEF Put
      <4> QED BY <4>1, <4>2
    <3>4. ASSUME NEW p \in Req, pc'[p] = "put" PROVE pc[p] = "put" /\ new'[p] = new[p] /\ upd'[p] = upd[p]
      BY <2>4, <3>4 DEF Put, Return, Goto
    <3> QED BY <3>1, <3>3, <3>4
  <2>5. ASSUME NEW q \in Req, BeginDelete(q) PROVE ConfirmedInv'
    BY <2>5 DEF BeginDelete, Goto
  <2>6. ASSUME NEW q \in Req, Delete(q) PROVE ConfirmedInv'
    <3>1. ~HoldsSecret(config')
      BY <2>6 DEF Delete, HoldsSecret, NoConfig, Secrets
    <3> QED BY <2>6, <3>1 DEF Delete, Return, Goto
  <2>7. ASSUME NEW q \in Req, StorageError(q) PROVE ConfirmedInv'
    BY <2>7 DEF StorageError, Return, Goto
  <2>8. CASE UNCHANGED vars
    BY <2>8 DEF vars
  <2> QED BY <2>2, <2>3, <2>4, <2>5, <2>6, <2>7, <2>8 DEF Next
<1>3. ConfirmedInv => EndpointConfirmed
  BY DEF ConfirmedInv
<1> QED BY <1>1, <1>2, <1>3, TypeCorrect, PTL DEF Spec

-----------------------------------------------------------------------------
\* A config whose endpoint the host check admits.
Allowed(cfg) == validateTokenHost(tokenURL(cfg), cfg.allow_non_salesforce_host)

\* The inductive form of EndpointAllowed: the same of what is about to be put.
AllowedInv ==
    /\ config # NoConfig => Allowed(config)
    /\ \A q \in Req : pc[q] = "put" => Allowed(new[q])

\* For every instance: the endpoint of a stored config passes the host check
\* under the flag that is stored with it.
THEOREM EndpointAllowedCorrect == Spec => []EndpointAllowed
<1>1. Init => AllowedInv
  BY DEF Init, AllowedInv
<1>2. TypeOK /\ AllowedInv /\ [Next]_vars => AllowedInv'
  <2> SUFFICES ASSUME TypeOK, AllowedInv, [Next]_vars PROVE AllowedInv'
    OBVIOUS
  <2> USE DEF TypeOK, AllowedInv
  <2>1. ASSUME NEW q \in Req, Read(q) PROVE AllowedInv'
    <3>1. Verdict(config, upd[q]) = "put" => Allowed(merge(config, upd[q]))
      BY VerdictMeans DEF hostAllowed, Allowed
    <3> QED BY <2>1, <3>1 DEF Read, Return, Goto
  <2>2. ASSUME NEW q \in Req, BeginWrite(q) \/ BeginDelete(q) \/ StorageError(q)
        PROVE  AllowedInv'
    BY <2>2 DEF BeginWrite, BeginDelete, StorageError, Return, Goto
  <2>3. ASSUME NEW q \in Req, Put(q) PROVE AllowedInv'
    BY <2>3 DEF Put, Return, Goto
  <2>4. ASSUME NEW q \in Req, Delete(q) PROVE AllowedInv'
    BY <2>4 DEF Delete, Return, Goto
  <2>5. CASE UNCHANGED vars
    BY <2>5 DEF vars
  <2> QED BY <2>1, <2>2, <2>3, <2>4, <2>5 DEF Next
<1>3. AllowedInv => EndpointAllowed
  BY DEF AllowedInv, EndpointAllowed, Allowed
<1> QED BY <1>1, <1>2, <1>3, TypeCorrect, PTL DEF Spec
===============================================================================
