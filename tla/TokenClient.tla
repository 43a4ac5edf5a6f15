------------------------------ MODULE TokenClient ------------------------------
(***************************************************************************)
(* One call of mintToken down to the wire: client.go and the assertion of  *)
(* jwt.go.  The form (and with it the signed assertion) is built once; the *)
(* retry loop of doTokenRequest posts it up to MaxAttempts times.          *)
(* Time is counted in ticks from the start of the call.                    *)
(***************************************************************************)
EXTENDS Integers

CONSTANTS
    MaxAttempts,       \* tokenRetryMaxAttempts
    BaseBackoff,       \* tokenRetryBaseBackoff
    Timeout,           \* the http.Client timeout of one exchange
    JWTExpiry,         \* the role's jwt_expiry, 0 for the default
    DefaultJWTExpiry,  \* 3 minutes
    Grants             \* the grant flows of the roles

ASSUME ClientAssumption ==
    /\ MaxAttempts \in Nat \ {0} /\ BaseBackoff \in Nat \ {0} /\ Timeout \in Nat
    /\ JWTExpiry \in Nat /\ DefaultJWTExpiry \in Nat \ {0}
    /\ Grants \subseteq {"jwt_bearer", "client_credentials"}

VARIABLES
    pc,         \* "start", "try", "backoff", "done"
    grant,      \* the role's grant_type
    attempt,    \* the loop variable
    elapsed,    \* the clock
    exp,        \* the exp claim of the assertion
    sends,      \* history: the instants at which a request reached Salesforce
    verdict,    \* how the last exchange ended
    result,     \* what the caller sees
    tokenAt     \* when the returned token was granted

vars == <<pc, grant, attempt, elapsed, exp, sends, verdict, result, tokenAt>>

-----------------------------------------------------------------------------
\* How an exchange can end: with a token; with a 429 or 5xx; with another status
\* (an OAuth error); with a 200 that does not decode or has no access_token; on
\* the network, before the request arrived or after Salesforce answered it.
Verdicts == {"token", "retryable", "rejected", "malformed", "unsent", "lost"}

\* Mutant of isTransientMintError: any OAuth error passes for an outage.
isTransientAlways(v) == TRUE

\* isTransientMintError of the error made of a verdict.
isTransientMintError(v) == v # "rejected"

\* Mutant of retryable: an OAuth error is tried again.
retryableRejected(v) == v \in {"retryable", "unsent", "lost", "rejected"}

\* The second result of doTokenRequestOnce.
retryable(v) == v \in {"retryable", "unsent", "lost"}

\* The backoff before attempt n, without jitter.
backoff[n \in Nat] == IF n <= 1 THEN BaseBackoff ELSE 2 * backoff[n - 1]

\* With jitter it is at most half as long again.
maxWait(n) == backoff[n] + backoff[n] \div 2

\* Mutant of jwtLifetime: the default is missing.
jwtLifetimeNoDefault == JWTExpiry

\* The expiry of buildJWTAssertion.
jwtLifetime == IF JWTExpiry <= 0 THEN DefaultJWTExpiry ELSE JWTExpiry

-----------------------------------------------------------------------------
Finish(kind) == pc' = "done" /\ result' = kind

Failure(v) == IF isTransientMintError(v) THEN "transient" ELSE "definitive"

\* buildJWTAssertion and httpClientFor: a bad key or CA is a (transient) error
\* before anything is sent.
Prepare ==
    /\ pc = "start"
    /\ \/ exp' = jwtLifetime /\ pc' = "try" /\ UNCHANGED result
       \/ Finish("transient") /\ UNCHANGED exp
    /\ UNCHANGED <<grant, attempt, elapsed, sends, verdict, tokenAt>>

\* Salesforce refuses an assertion that has expired when it arrives.
Accepts(at) == grant = "client_credentials" \/ at < exp

\* Mutant of Continues: one attempt too many.
ContinuesOnceMore(v) == retryable(v) /\ attempt < MaxAttempts

\* The loop goes round again.
Continues(v) == retryable(v) /\ attempt + 1 < MaxAttempts

\* doTokenRequestOnce: the request reaches Salesforce after i ticks and the
\* exchange ends after d with verdict v; then the rest of the loop body.
Exchange(i, d, v) ==
    LET at == elapsed + i IN
    /\ pc = "try"
    /\ i <= d
    /\ v \in {"token", "malformed"} => Accepts(at)
    /\ elapsed' = elapsed + d
    /\ verdict' = v
    /\ sends' = IF v = "unsent" THEN sends ELSE sends \cup {at}
    /\ tokenAt' = IF v = "token" THEN at ELSE tokenAt
    /\ \/ v = "token" /\ Finish("token") /\ UNCHANGED attempt
       \/ Continues(v) /\ attempt' = attempt + 1 /\ pc' = "backoff" /\ UNCHANGED result
       \/ v # "token" /\ ~Continues(v) /\ Finish(Failure(v)) /\ UNCHANGED attempt
    /\ UNCHANGED <<grant, exp>>

\* time.After wins the select.
Backoff ==
    /\ pc = "backoff"
    /\ \E w \in backoff[attempt] .. maxWait(attempt) : elapsed' = elapsed + w
    /\ pc' = "try"
    /\ UNCHANGED <<grant, attempt, exp, sends, verdict, result, tokenAt>>

\* The request's context ends, in the select or during an exchange (in which the
\* request may have reached Salesforce after i ticks): its error is not retried.
Cancelled(i, d, reached) ==
    /\ pc \in {"try", "backoff"}
    /\ i <= d /\ d <= (IF pc = "try" THEN Timeout ELSE maxWait(attempt))
    /\ reached => pc = "try"
    /\ sends' = IF reached THEN sends \cup {elapsed + i} ELSE sends
    /\ elapsed' = elapsed + d
    /\ Finish("transient")
    /\ UNCHANGED <<grant, attempt, exp, verdict, tokenAt>>

-----------------------------------------------------------------------------
Init ==
    /\ pc = "start" /\ grant \in Grants
    /\ attempt = 0 /\ elapsed = 0 /\ exp = 0
    /\ sends = {} /\ verdict = "unsent"
    /\ result = "pending" /\ tokenAt = -1

Next ==
    \/ Prepare
    \/ \E i, d \in 0 .. Timeout, v \in Verdicts : Exchange(i, d, v)
    \/ Backoff
    \/ \E d \in 0 .. (Timeout + maxWait(attempt)), reached \in BOOLEAN :
          \E i \in 0 .. d : Cancelled(i, d, reached)

\* The http.Client timeout and time.After oblige the call to go on.
Spec == Init /\ [][Next]_vars /\ WF_vars(Next)

-----------------------------------------------------------------------------
\* The longest the loop can have run before attempt n.
budget[n \in Nat] == IF n = 0 THEN 0 ELSE budget[n - 1] + Timeout + maxWait(n)

Deadline == budget[MaxAttempts - 1] + Timeout

Abstract == INSTANCE MintCall

\* The client keeps the promise that the engine relies on: whatever the network
\* and Salesforce do, the call ends within MaxAttempts exchanges and their
\* backoffs, and a token it returns was granted while it ran.
ImplementsMintCall == Abstract!Spec

\* Type correctness; the loop never goes past its last attempt, and a result is
\* a token exactly when one was received.
TypeOK ==
    /\ pc \in {"start", "try", "backoff", "done"}
    /\ grant \in Grants
    /\ attempt \in 0 .. MaxAttempts - 1
    /\ elapsed \in Nat /\ exp \in Nat
    /\ sends \subseteq Nat
    /\ verdict \in Verdicts
    /\ result \in {"pending", "token", "transient", "definitive"}
    /\ tokenAt \in Nat \cup {-1}
    /\ (result = "token") <=> (tokenAt # -1)

\* A definitive error, which makes issueToken purge the cached token, is reported
\* exactly when the last answer of Salesforce is a rejection: no outage, lost
\* answer or cancellation is taken for one, and no rejection for an outage.
DefinitiveMeansRejected ==
    pc = "done" => ((result = "definitive") <=> (verdict = "rejected"))

\* Once Salesforce has rejected the request it is not sent again in this call.
NoRetryAfterRejection == [][verdict = "rejected" => UNCHANGED sends]_vars

\* An assertion signed once outlives the whole retry loop: no attempt reaches
\* Salesforce with an assertion that has expired.
AssertionOutlivesRetries ==
    grant = "jwt_bearer" => \A at \in sends : at < exp
===============================================================================
