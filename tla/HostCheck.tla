------------------------------ MODULE HostCheck ------------------------------
(***************************************************************************)
(* The endpoints of a config and the check of the host that receives its   *)
(* secrets (hostcheck.go, and the URL helpers of path_config.go).  A URL   *)
(* is its scheme, its host and the kind of its path.                       *)
(***************************************************************************)

CONSTANTS
    SalesforceHost,   \* hosts under one of salesforceHostSuffixes
    LoopbackHost,     \* localhost and the loopback addresses
    OtherHost,        \* any other host: a private gateway
    NoHost            \* what url.Parse finds in "" or in a URL without scheme

Host == SalesforceHost \cup LoopbackHost \cup OtherHost

ASSUME HostAssumption ==
    /\ NoHost \notin Host
    /\ SalesforceHost \cap LoopbackHost = {}

URL == [scheme : {"", "http", "https"}, host : Host \cup {NoHost},
        path : {"base", "token", "other"}]

\* The empty string.
NoURL == [scheme |-> "", host |-> NoHost, path |-> "base"]

isLoopbackHost(h) == h \in LoopbackHost

\* No error: there is a host, reached over https unless it is loopback, and it
\* is a Salesforce host unless the operator has opted out.
validateTokenHost(u, allowNonSalesforce) ==
    /\ u.host # NoHost
    /\ u.scheme = "https" \/ isLoopbackHost(u.host)
    /\ allowNonSalesforce \/ u.host \in SalesforceHost

\* The token endpoint: token_url, else the standard path under login_url.
tokenURL(cfg) ==
    IF cfg.token_url # NoURL THEN cfg.token_url ELSE [cfg.login_url EXCEPT !.path = "token"]
===============================================================================
