------------------------------- MODULE MintCall -------------------------------
(***************************************************************************)
(* What a mint promises to its caller (mintToken as mintAndCache and       *)
(* issueToken use it): the call ends within a deadline with one of three   *)
(* results, a token that Salesforce granted during the call (new, or one   *)
(* it had issued before), a transient error or a definitive one.           *)
(* TokenEngine's MintSucceeds and MintFails are this interface;            *)
(* TokenClient implements it.                                              *)
(***************************************************************************)
EXTENDS Integers

CONSTANT Deadline       \* the longest a call may last

VARIABLES result,       \* "pending", then the outcome of the call
          elapsed,      \* time since the call began
          tokenAt       \* when the returned token was granted, -1 without one

Outcomes == {"token", "transient", "definitive"}

Init == result = "pending" /\ elapsed = 0 /\ tokenAt = -1

Passes == elapsed' \in elapsed .. Deadline

Wait == result = "pending" /\ Passes /\ UNCHANGED <<result, tokenAt>>

Succeed ==
    /\ result = "pending" /\ Passes
    /\ result' = "token" /\ tokenAt' \in 0 .. elapsed'

FailWith(kind) ==
    /\ result = "pending" /\ Passes
    /\ result' = kind /\ UNCHANGED tokenAt

Next == Wait \/ Succeed \/ \E kind \in {"transient", "definitive"} : FailWith(kind)

Safety == Init /\ [][Next]_<<result, elapsed, tokenAt>>

\* What the caller relies on: no call outlasts the deadline, and a token was
\* granted during the call and comes only with success.
Promise ==
    /\ elapsed \in 0 .. Deadline
    /\ IF result = "token" THEN tokenAt \in 0 .. elapsed ELSE tokenAt = -1

\* The call returns: it does not wait for ever.
Spec == Safety /\ <>(result # "pending")
===============================================================================
