---------------------------- MODULE MCConfigStore ----------------------------
(***************************************************************************)
(* Finite instances of ConfigStore: a Salesforce org, a second one, a      *)
(* private gateway and a loopback server, and the requests of an operator  *)
(* who creates a config, rotates its secret, moves it and relaxes or       *)
(* tightens its guards.                                                    *)
(***************************************************************************)
EXTENDS ConfigStore, TLC

Login(h) == [scheme |-> "https", host |-> h, path |-> "base"]
Mock     == [scheme |-> "http", host |-> "localhost", path |-> "base"]
Gateway  == [scheme |-> "https", host |-> "gateway", path |-> "other"]

\* The requests; a field that a request does not name is left as it is.
Requests ==
    {"login_url" :> Login("org") @@ "client_id" :> "app",
     "login_url" :> Login("org") @@ "client_id" :> "app" @@ "client_secret" :> "s1",
     "login_url" :> Login("sandbox"),
     "login_url" :> Login("sandbox") @@ "client_secret" :> "s2",
     "private_key" :> "k1",
     "client_secret" :> NoText,
     "ca_cert" :> "ca",
     "tls_skip_verify" :> TRUE,
     "tls_skip_verify" :> FALSE,
     "token_url" :> Gateway @@ "allow_non_salesforce_host" :> TRUE @@ "private_key" :> "k1",
     "allow_non_salesforce_host" :> FALSE,
     "token_url" :> NoURL,
     "login_url" :> Mock @@ "client_id" :> "app"}

ReqSymmetry == Permutations(Req)
=============================================================================
