-------------------------------- MODULE Tokens --------------------------------
(***************************************************************************)
(* The arithmetic of a cached access token: when it is still handed out    *)
(* and when it expires (cache.go, path_creds.go).  Time is an integer      *)
(* number of ticks.                                                        *)
(***************************************************************************)
EXTENDS Integers

CONSTANT DefaultTokenTTL    \* the 15 minutes assumed when a role has no token_ttl

ASSUME DefaultTTLAssumption == DefaultTokenTTL \in Nat \ {0}

\* cachedToken.fresh: the token is worth serving without a new mint.
fresh(expiresAt, t, skew) == t < expiresAt - skew

\* time.Now().Before(ct.ExpiresAt): usable, although possibly due for renewal.
unexpired(expiresAt, t) == t < expiresAt

\* The lifetime assumed for a token: expires_in when Salesforce sent one (it is
\* 0 when omitted), else the role's token_ttl, else the default.
lifetime(tokenTTL, expiresIn) ==
    IF expiresIn > 0 THEN expiresIn
    ELSE IF tokenTTL <= 0 THEN DefaultTokenTTL ELSE tokenTTL

\* computeExpiry, with the instant sampled before the token request was sent.
computeExpiry(t, tokenTTL, expiresIn) == t + lifetime(tokenTTL, expiresIn)
===============================================================================
