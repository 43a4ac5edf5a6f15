------------------------------ MODULE MockServer ------------------------------
(***************************************************************************)
(* The fake Salesforce of the tests (internal/sftest), called by the retry *)
(* loop of client.go.  net/http runs each request in a goroutine of its    *)
(* own; handleToken holds the mutex twice, to record the request and again *)
(* to mint, and a test may set another answer in between.  A section under *)
(* the mutex is one step.  The tests read their verdicts off what it kept. *)
(***************************************************************************)
EXTENDS Naturals, Sequences, FiniteSets

CONSTANTS
    Call,         \* the calls of doTokenRequest
    MaxAttempts,  \* tokenRetryMaxAttempts
    Failures,     \* the n a test passes to SetTransientFailures
    MaxSets       \* bounds the calls of SetTransientFailures

ASSUME MockAssumption ==
    MaxAttempts \in Nat \ {0} /\ Failures \subseteq Nat /\ MaxSets \in Nat

VARIABLES
    requests,        \* m.requests: the calls that sent them, in order
    failMode,        \* m.failMode
    validator,       \* whether the m.assertionValidator installed refuses
    mintCounter,     \* m.mintCounter
    transientFails,  \* m.transientFails
    revokedTokens,   \* m.revokedTokens
    pc, grant,       \* where each call is, and its grant
    seen,            \* per call: what its handler copied under the mutex
    attempt, token,  \* per call: the loop variable, and the token received
    due, down, sets  \* history: the requests promised a transient failure, those
                     \* that met server_error, and the number of promises

server  == <<requests, failMode, validator, mintCounter, transientFails, revokedTokens>>
client  == <<grant, attempt, token>>
promise == <<due, down, sets>>
vars    == <<server, pc, client, seen, promise>>

Modes == {"", "server_error", "invalid_grant"}

\* What handleToken keeps from its first section: the mode, the validator and
\* whether to fail transiently.
NoSnapshot == [mode |-> "", validator |-> FALSE, transient |-> FALSE]

Goto(c, l) == pc' = [pc EXCEPT ![c] = l]

-----------------------------------------------------------------------------
(* The setters, called by the test while requests are in flight. *)

SetFailMode(mode) ==
    /\ failMode' = mode
    /\ UNCHANGED <<requests, validator, mintCounter, transientFails, revokedTokens,
                   pc, client, seen, promise>>

SetAssertionValidator(refuses) ==
    /\ validator' = refuses
    /\ UNCHANGED <<requests, failMode, mintCounter, transientFails, revokedTokens,
                   pc, client, seen, promise>>

\* A later promise replaces what is left of an earlier one.
SetTransientFailures(n) ==
    /\ sets < MaxSets /\ sets' = sets + 1
    /\ transientFails' = n
    /\ due' = {i \in due : i <= Len(requests)} \cup (Len(requests) + 1 .. Len(requests) + n)
    /\ UNCHANGED <<requests, failMode, validator, mintCounter, revokedTokens,
                   pc, client, seen, down>>

-----------------------------------------------------------------------------
(* handleToken and the loop of doTokenRequest around it. *)

\* Mutant of Decremented: the failures are never used up.
NotDecremented == transientFails

Decremented == IF transientFails > 0 THEN transientFails - 1 ELSE 0

\* The first section under the mutex.
Record(c) ==
    /\ pc[c] = "send"
    /\ requests' = Append(requests, c)
    /\ seen' = [seen EXCEPT ![c] =
         [mode |-> failMode, validator |-> validator, transient |-> transientFails > 0]]
    /\ transientFails' = Decremented
    /\ down' = IF failMode = "server_error" THEN down \cup {Len(requests) + 1} ELSE down
    /\ Goto(c, "decide")
    /\ UNCHANGED <<failMode, validator, mintCounter, revokedTokens, client, due, sets>>

\* Mutant of Unavailable: server_error is forgotten.
UnavailableTransient(s) == s.transient

\* A 503, 429 or 500: the client retries it.
Unavailable(s) == s.transient \/ s.mode = "server_error"

\* An OAuth error: the client does not.
Refused(c, s) ==
    /\ ~s.transient
    /\ \/ s.mode = "invalid_grant"
       \/ s.mode = "" /\ grant[c] = "jwt_bearer" /\ s.validator

\* Outside the mutex the request is answered with an error, or goes on (after
\* mintDelay) to mint.
Decide(c) ==
    LET s == seen[c] IN
    /\ pc[c] = "decide"
    /\ \/ /\ Unavailable(s) /\ attempt[c] + 1 < MaxAttempts
          /\ attempt' = [attempt EXCEPT ![c] = @ + 1]
          /\ Goto(c, "send")
       \/ Unavailable(s) /\ attempt[c] + 1 = MaxAttempts /\ Goto(c, "gaveup") /\ UNCHANGED attempt
       \/ Refused(c, s) /\ Goto(c, "rejected") /\ UNCHANGED attempt
       \/ ~Unavailable(s) /\ ~Refused(c, s) /\ Goto(c, "mint") /\ UNCHANGED attempt
    /\ seen' = [seen EXCEPT ![c] = NoSnapshot]
    /\ UNCHANGED <<server, grant, token, promise>>

\* Mutant of Minted: the requests recorded stand in for the counter.
MintedByRequests == Len(requests)

\* The number in the name of the token.
Minted == mintCounter + 1

\* The second section under the mutex, and the answer.
Mint(c) ==
    /\ pc[c] = "mint"
    /\ mintCounter' = mintCounter + 1
    /\ token' = [token EXCEPT ![c] = Minted]
    /\ Goto(c, "ok")
    /\ UNCHANGED <<requests, failMode, validator, transientFails, revokedTokens,
                   grant, attempt, seen, promise>>

\* handleRevoke, for a caller that gives its token back.
handleRevoke(c) ==
    /\ pc[c] = "ok"
    /\ revokedTokens' = Append(revokedTokens, token[c])
    /\ Goto(c, "revoked")
    /\ UNCHANGED <<requests, failMode, validator, mintCounter, transientFails,
                   client, seen, promise>>

-----------------------------------------------------------------------------
Init ==
    /\ requests = <<>> /\ failMode = "" /\ validator = FALSE
    /\ mintCounter = 0 /\ transientFails = 0 /\ revokedTokens = <<>>
    /\ pc = [c \in Call |-> "send"]
    /\ grant \in [Call -> {"jwt_bearer", "client_credentials"}]
    /\ attempt = [c \in Call |-> 0] /\ token = [c \in Call |-> 0]
    /\ seen = [c \in Call |-> NoSnapshot]
    /\ due = {} /\ down = {} /\ sets = 0

Next ==
    \/ \E mode \in Modes : SetFailMode(mode)
    \/ \E refuses \in BOOLEAN : SetAssertionValidator(refuses)
    \/ \E n \in Failures : SetTransientFailures(n)
    \/ \E c \in Call : Record(c) \/ Decide(c) \/ Mint(c) \/ handleRevoke(c)

Spec == Init /\ [][Next]_vars

-----------------------------------------------------------------------------
(* Properties. *)

\* MintCount is the number of tokens received, and each has a name of its own:
\* two requests delayed at the same time are not given one token, so a test that
\* compares tokens or counts mints sees every mint (tokenBase: "makes each mint
\* observably unique so caching tests can detect re-mints").
EachMintObservable ==
    LET got == {c \in Call : token[c] # 0} IN
    /\ mintCounter = Cardinality(got)
    /\ \A c, d \in got : c # d => token[c] # token[d]

\* The requests that c sent, and those of them answered with 503, 429 or 500.
SentBy(c)       == {i \in DOMAIN requests : requests[i] = c}
UnavailableTo(c) == SentBy(c) \cap (due \cup down)

\* What the retry tests read off Requests: a call that ended with a token or an
\* OAuth error sent one request more than the failures set up for it, in
\* whatever order calls and setters interleave; one that gave up met
\* MaxAttempts of them (client_test.go: "expected 3 token requests (2 fail + 1
\* success)").  A promise of n failures is kept for the next n requests, no more.
RequestsExplained ==
    \A c \in Call :
        /\ pc[c] \in {"ok", "revoked", "rejected"}
              => Cardinality(SentBy(c)) = Cardinality(UnavailableTo(c)) + 1
        /\ pc[c] = "gaveup"
              => SentBy(c) = UnavailableTo(c) /\ Cardinality(SentBy(c)) = MaxAttempts
===============================================================================
