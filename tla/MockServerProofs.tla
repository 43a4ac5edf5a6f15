---------------------------- MODULE MockServerProofs ----------------------------
(***************************************************************************)
(* What the tests read off the fake Salesforce, for any number of calls,   *)
(* attempts and promised failures.                                         *)
(***************************************************************************)
EXTENDS MockServer, FiniteSetTheorems, TLAPS

Snapshot == [mode : Modes, validator : BOOLEAN, transient : BOOLEAN]

Label == {"send", "decide", "mint", "ok", "revoked", "rejected", "gaveup"}

TypeInv ==
    /\ requests \in Seq(Call) /\ failMode \in Modes /\ validator \in BOOLEAN
    /\ mintCounter \in Nat /\ transientFails \in Nat
    /\ pc \in [Call -> Label] /\ seen \in [Call -> Snapshot]
    /\ attempt \in [Call -> 0 .. MaxAttempts - 1] /\ token \in [Call -> Nat]
    /\ due \subseteq Nat /\ down \subseteq Nat

\* The calls that have received a token.
Got == {c \in Call : token[c] # 0}

\* The counter has counted the tokens handed out, and is the last of them.
MintInv ==
    /\ \A c \in Call : token[c] # 0 => token[c] <= mintCounter /\ pc[c] \in {"ok", "revoked"}
    /\ IsFiniteSet(Got) /\ mintCounter = Cardinality(Got)
    /\ \A c, d \in Got : c # d => token[c] # token[d]

\* The failures left are promised to the requests to come.
PromiseInv ==
    /\ \A i \in down : i <= Len(requests)
    /\ \A i \in Nat : i > Len(requests) =>
          (i \in due <=> i <= Len(requests) + transientFails)

\* One of the requests that c sent is not known to have failed: its last.
AllButOne(c, failed) ==
    \E i \in SentBy(c) : SentBy(c) \ {i} \subseteq UnavailableTo(c)
                         /\ (i \in UnavailableTo(c) <=> failed)

\* The failures that c has met are the attempts behind it.
SentOK(c) ==
    /\ pc[c] = "send" =>
          SentBy(c) = UnavailableTo(c) /\ Cardinality(SentBy(c)) = attempt[c]
    /\ pc[c] = "decide" =>
          /\ AllButOne(c, Unavailable(seen[c]))
          /\ Cardinality(SentBy(c)) = attempt[c] + 1
    /\ pc[c] \in {"mint", "ok", "revoked", "rejected"} => AllButOne(c, FALSE)
    /\ pc[c] = "gaveup" =>
          SentBy(c) = UnavailableTo(c) /\ Cardinality(SentBy(c)) = MaxAttempts

SentInv == \A c \in Call : SentOK(c)

-----------------------------------------------------------------------------
(* Types, and the requests of a call. *)

LEMMA TypeCorrect == Spec => []TypeInv
<1>1. Init => TypeInv
  <2> SUFFICES ASSUME Init PROVE TypeInv
    OBVIOUS
  <2>1. NoSnapshot \in Snapshot
    BY DEF NoSnapshot, Snapshot, Modes
  <2>2. seen \in [Call -> Snapshot]
    BY <2>1 DEF Init
  <2>3. attempt \in [Call -> 0 .. MaxAttempts - 1] /\ token \in [Call -> Nat]
    <3>1. 0 \in 0 .. MaxAttempts - 1 /\ 0 \in Nat
      BY MockAssumption
    <3>2. QED BY <3>1, Zenon DEF Init
  <2>4. requests \in Seq(Call)
    <3>1. requests = <<>>
      BY DEF Init
    <3>2. QED BY <3>1
  <2>5. pc \in [Call -> Label]
    BY DEF Init, Label
  <2>6. QED BY <2>2, <2>3, <2>4, <2>5 DEF Init, TypeInv, Modes
<1>2. TypeInv /\ [Next]_vars => TypeInv'
  <2> SUFFICES ASSUME TypeInv, [Next]_vars PROVE TypeInv'
    OBVIOUS
  <2>t. /\ requests \in Seq(Call) /\ failMode \in Modes /\ validator \in BOOLEAN
        /\ transientFails \in Nat /\ due \subseteq Nat /\ down \subseteq Nat
        /\ seen \in [Call -> Snapshot] /\ attempt \in [Call -> 0 .. MaxAttempts - 1]
        /\ Len(requests) \in Nat
    BY DEF TypeInv
  <2>1. ASSUME NEW mode \in Modes, SetFailMode(mode) PROVE TypeInv'
    BY <2>1 DEF SetFailMode, client, promise, TypeInv
  <2>2. ASSUME NEW refuses \in BOOLEAN, SetAssertionValidator(refuses) PROVE TypeInv'
    BY <2>2 DEF SetAssertionValidator, client, promise, TypeInv
  <2>3. ASSUME NEW n \in Failures, SetTransientFailures(n) PROVE TypeInv'
    <3>1. n \in Nat
      BY MockAssumption
    <3>2. due' \subseteq Nat
      <4>1. (Len(requests) + 1 .. Len(requests) + n) \subseteq Nat
        BY <2>t, <3>1
      <4>2. QED BY <2>t, <2>3, <4>1 DEF SetTransientFailures
    <3>3. QED BY <2>3, <3>1, <3>2 DEF SetTransientFailures, client, TypeInv
  <2>4. ASSUME NEW c \in Call, Record(c) PROVE TypeInv'
    <3>1. requests' \in Seq(Call)
      <4>1. requests' = Append(requests, c)
        BY <2>4 DEF Record
      <4>2. QED BY <2>t, <4>1
    <3>2. transientFails' \in Nat
      BY <2>t, <2>4 DEF Record, Decremented
    <3>3. down' \subseteq Nat
      <4>1. down' \subseteq down \cup {Len(requests) + 1}
        BY <2>4, Zenon DEF Record
      <4>2. QED BY <2>t, <4>1
    <3>4. seen' \in [Call -> Snapshot]
      <4> DEFINE s == [mode |-> failMode, validator |-> validator,
                       transient |-> transientFails > 0]
      <4>1. (transientFails > 0) \in BOOLEAN
        BY <2>t
      <4>2. s \in Snapshot
        BY <2>t, <4>1 DEF Snapshot
      <4>3. seen' = [seen EXCEPT ![c] = s]
        BY <2>4 DEF Record
      <4> HIDE DEF s
      <4>4. QED BY <2>t, <4>2, <4>3
    <3>5. QED BY <2>4, <3>1, <3>2, <3>3, <3>4 DEF Record, Goto, client, TypeInv, Label
  <2>5. ASSUME NEW c \in Call, Decide(c) PROVE TypeInv'
    <3>1. attempt' \in [Call -> 0 .. MaxAttempts - 1]
      <4>1. \/ attempt' = attempt
            \/ attempt[c] + 1 < MaxAttempts /\ attempt' = [attempt EXCEPT ![c] = @ + 1]
        BY <2>5 DEF Decide
      <4>2. QED BY <2>t, <4>1, MockAssumption
    <3>2. NoSnapshot \in Snapshot
      BY DEF NoSnapshot, Snapshot, Modes
    <3>3. seen' \in [Call -> Snapshot]
      BY <2>t, <2>5, <3>2 DEF Decide
    <3>4. QED BY <2>5, <3>1, <3>3 DEF Decide, Goto, server, promise, TypeInv, Label
  <2>6. ASSUME NEW c \in Call, Mint(c) PROVE TypeInv'
    <3>1. mintCounter + 1 \in Nat
      BY DEF TypeInv
    <3>2. token' \in [Call -> Nat]
      BY <2>6, <3>1 DEF Mint, Minted, TypeInv
    <3>3. QED BY <2>6, <3>1, <3>2 DEF Mint, Goto, promise, TypeInv, Label
  <2>7. ASSUME NEW c \in Call, handleRevoke(c) PROVE TypeInv'
    BY <2>7 DEF handleRevoke, Goto, client, promise, TypeInv, Label
  <2>8. CASE UNCHANGED vars
    BY <2>8 DEF vars, server, client, promise, TypeInv
  <2>9. QED BY <2>1, <2>2, <2>3, <2>4, <2>5, <2>6, <2>7, <2>8 DEF Next
<1>3. QED BY <1>1, <1>2, PTL DEF Spec

\* The requests of a call are finitely many.
LEMMA SentFinite ==
    ASSUME TypeInv, NEW c \in Call
    PROVE  /\ IsFiniteSet(SentBy(c)) /\ SentBy(c) \subseteq 1 .. Len(requests)
           /\ IsFiniteSet(UnavailableTo(c)) /\ UnavailableTo(c) \subseteq SentBy(c)
<1>1. SentBy(c) \subseteq 1 .. Len(requests)
  BY DEF SentBy, TypeInv
<1>2. IsFiniteSet(1 .. Len(requests))
  BY FS_Interval DEF TypeInv
<1>3. UnavailableTo(c) \subseteq SentBy(c)
  BY DEF UnavailableTo
<1>4. QED BY <1>1, <1>2, <1>3, FS_Subset

-----------------------------------------------------------------------------
(* Every mint is observable. *)

LEMMA MintCorrect == Spec => []MintInv
<1>1. Init => MintInv
  <2> SUFFICES ASSUME Init PROVE MintInv
    OBVIOUS
  <2>1. Got = {}
    BY DEF Init, Got
  <2>2. QED BY <2>1, FS_EmptySet DEF Init, MintInv
<1>2. TypeInv /\ MintInv /\ [Next]_vars => MintInv'
  <2> SUFFICES ASSUME TypeInv, MintInv, [Next]_vars PROVE MintInv'
    OBVIOUS
  <2>1. ASSUME NEW c \in Call, Mint(c) PROVE MintInv'
    <3>t. mintCounter \in Nat /\ token \in [Call -> Nat] /\ pc \in [Call -> Label]
      BY DEF TypeInv
    <3>1. /\ token' = [token EXCEPT ![c] = mintCounter + 1]
          /\ mintCounter' = mintCounter + 1 /\ pc[c] = "mint"
          /\ pc' = [pc EXCEPT ![c] = "ok"]
      BY <2>1 DEF Mint, Minted, Goto
    <3>2. token[c] = 0 /\ c \notin Got
      BY <3>1 DEF MintInv, Got
    <3>3. Got' = Got \cup {c}
      BY <3>t, <3>1, <3>2 DEF Got
    <3>4. IsFiniteSet(Got') /\ Cardinality(Got') = mintCounter'
      BY <3>1, <3>2, <3>3, FS_AddElement DEF MintInv
    <3>5. \A d \in Call : token'[d] # 0 =>
             token'[d] <= mintCounter' /\ pc'[d] \in {"ok", "revoked"}
      BY <3>t, <3>1 DEF MintInv
    <3>6. \A d, e \in Got' : d # e => token'[d] # token'[e]
      <4>1. \A d \in Got : token[d] \in Nat /\ token[d] <= mintCounter /\ token'[d] = token[d]
        BY <3>t, <3>1, <3>2 DEF MintInv, Got
      <4>2. token'[c] = mintCounter + 1
        BY <3>t, <3>1
      <4>3. QED BY <3>t, <3>3, <4>1, <4>2 DEF MintInv
    <3>7. QED BY <3>4, <3>5, <3>6 DEF MintInv
  <2>2. ASSUME NEW c \in Call, Record(c) \/ Decide(c) \/ handleRevoke(c) PROVE MintInv'
    <3>1. mintCounter' = mintCounter /\ token' = token /\ Got' = Got
      BY <2>2 DEF Record, Decide, handleRevoke, server, client, Got
    <3>2. \A d \in Call : pc[d] \in {"ok", "revoked"} => pc'[d] \in {"ok", "revoked"}
      BY <2>2 DEF Record, Decide, handleRevoke, Goto, TypeInv
    <3>3. QED BY <3>1, <3>2 DEF MintInv
  <2>3. CASE \/ \E mode \in Modes : SetFailMode(mode)
             \/ \E refuses \in BOOLEAN : SetAssertionValidator(refuses)
             \/ \E n \in Failures : SetTransientFailures(n)
             \/ UNCHANGED vars
    BY <2>3 DEF SetFailMode, SetAssertionValidator, SetTransientFailures, vars, server,
       client, MintInv, Got
  <2>4. QED BY <2>1, <2>2, <2>3 DEF Next
<1>3. QED BY <1>1, <1>2, TypeCorrect, PTL DEF Spec

\* For any number of calls: mintCounter is the number of calls that received a
\* token and no two received the same, although handleToken leaves its mutex
\* between recording a request and minting for it.
THEOREM EachMintCorrect == Spec => []EachMintObservable
<1>1. MintInv => EachMintObservable
  BY DEF MintInv, EachMintObservable, Got
<1>2. QED BY <1>1, MintCorrect, PTL

-----------------------------------------------------------------------------
(* The requests are explained. *)

\* A request recorded before keeps its answer: only those to come can be promised
\* a failure or meet server_error.
Settled ==
    \A i \in 1 .. Len(requests) : i \in (due \cup down)' <=> i \in due \cup down

\* Calls and setters that record no request keep what every call has sent and met.
LEMMA NothingSent ==
    ASSUME TypeInv, UNCHANGED requests, Settled, NEW c \in Call
    PROVE  SentBy(c)' = SentBy(c) /\ UnavailableTo(c)' = UnavailableTo(c)
<1>1. SentBy(c)' = SentBy(c)
  BY DEF SentBy
<1>2. SentBy(c) \subseteq 1 .. Len(requests)
  BY SentFinite
<1>3. QED BY <1>1, <1>2 DEF UnavailableTo, Settled

\* A call that took no step keeps its account.
LEMMA SentFrame ==
    ASSUME NEW c \in Call, SentOK(c),
           SentBy(c)' = SentBy(c), UnavailableTo(c)' = UnavailableTo(c),
           pc'[c] = pc[c], attempt'[c] = attempt[c], seen'[c] = seen[c]
    PROVE  SentOK(c)'
BY DEF SentOK, AllButOne, Unavailable

LEMMA SetTransientFailuresSettles ==
    ASSUME TypeInv, PromiseInv, NEW n \in Failures, SetTransientFailures(n)
    PROVE  PromiseInv' /\ Settled
<1>t. n \in Nat /\ Len(requests) \in Nat /\ due \subseteq Nat /\ down \subseteq Nat
  BY MockAssumption DEF TypeInv
<1>1. /\ requests' = requests /\ transientFails' = n /\ down' = down
      /\ due' = {i \in due : i <= Len(requests)} \cup (Len(requests) + 1 .. Len(requests) + n)
  BY DEF SetTransientFailures
<1>2. \A i \in Nat : i > Len(requests) => (i \in due' <=> i <= Len(requests) + n)
  BY <1>t, <1>1
<1>3. \A i \in Nat : i <= Len(requests) => (i \in due' <=> i \in due)
  BY <1>t, <1>1
<1>4. Settled
  BY <1>t, <1>1, <1>3 DEF Settled
<1>5. QED BY <1>1, <1>2, <1>4 DEF PromiseInv

\* The request that is recorded takes the first of the failures promised.
LEMMA RecordSettles ==
    ASSUME TypeInv, PromiseInv, NEW c \in Call, Record(c)
    PROVE  LET n == Len(requests) + 1 IN
           /\ PromiseInv' /\ Settled
           /\ SentBy(c)' = SentBy(c) \cup {n} /\ n \notin SentBy(c)
           /\ UnavailableTo(c)' = UnavailableTo(c)
                  \cup (IF Unavailable(seen'[c]) THEN {n} ELSE {})
           /\ \A d \in Call \ {c} : SentBy(d)' = SentBy(d) /\ UnavailableTo(d)' = UnavailableTo(d)
<1> DEFINE len == Len(requests)
           n   == len + 1
<1>t. /\ len \in Nat /\ n \in Nat /\ transientFails \in Nat /\ requests \in Seq(Call)
      /\ due \subseteq Nat /\ down \subseteq Nat
  BY DEF TypeInv
<1>1. /\ requests' = Append(requests, c) /\ due' = due
      /\ down' = IF failMode = "server_error" THEN down \cup {n} ELSE down
  BY DEF Record
<1>2. Len(requests') = n /\ DOMAIN requests' = (1 .. len) \cup {n}
      /\ requests'[n] = c /\ \A i \in 1 .. len : requests'[i] = requests[i]
  BY <1>t, <1>1
<1>3. seen'[c].transient = (transientFails > 0) /\ seen'[c].mode = failMode
  BY DEF Record, TypeInv
<1>4. n \in due <=> transientFails > 0
  BY <1>t DEF PromiseInv
<1>5. n \notin down
  BY <1>t DEF PromiseInv
<1>6. n \in (due \cup down)' <=> Unavailable(seen'[c])
  BY <1>1, <1>3, <1>4, <1>5 DEF Unavailable
<1>7. Settled
  BY <1>t, <1>1 DEF Settled
<1>8. PromiseInv'
  <2>1. \A i \in down' : i <= n
    BY <1>t, <1>1 DEF PromiseInv
  <2>2. transientFails' = IF transientFails > 0 THEN transientFails - 1 ELSE 0
    BY DEF Record, Decremented
  <2>3. ASSUME NEW i \in Nat, i > n
        PROVE  i \in due' <=> i <= n + transientFails'
    <3>1. i > len /\ (i \in due <=> i <= len + transientFails)
      BY <1>t, <2>3 DEF PromiseInv
    <3>2. QED BY <1>t, <1>1, <2>2, <2>3, <3>1
  <2>4. QED BY <1>2, <2>1, <2>3 DEF PromiseInv
<1>9. \A d \in Call : SentBy(d) \subseteq 1 .. len
  BY SentFinite
<1>10. SentBy(c)' = SentBy(c) \cup {n} /\ n \notin SentBy(c)
  <2>1. DOMAIN requests = 1 .. len
    BY <1>t
  <2>2. QED BY <1>t, <1>2, <2>1 DEF SentBy
<1>11. ASSUME NEW d \in Call \ {c}
       PROVE  SentBy(d)' = SentBy(d) /\ UnavailableTo(d)' = UnavailableTo(d)
  <2>1. DOMAIN requests = 1 .. len
    BY <1>t
  <2>2. SentBy(d)' = SentBy(d)
    BY <1>2, <2>1 DEF SentBy
  <2>3. QED BY <1>7, <1>9, <2>2 DEF UnavailableTo, Settled
<1>12. UnavailableTo(c)' = UnavailableTo(c) \cup (IF Unavailable(seen'[c]) THEN {n} ELSE {})
  <2>1. \A i \in SentBy(c) : i \in (due \cup down)' <=> i \in due \cup down
    BY <1>7, <1>9 DEF Settled
  <2> HIDE DEF n
  <2>2. QED BY <1>6, <1>10, <2>1 DEF UnavailableTo
<1>13. QED BY <1>7, <1>8, <1>10, <1>11, <1>12

\* A request that is sent is one more, answered later as it was seen now.
LEMMA RecordSent ==
    ASSUME TypeInv, PromiseInv, SentInv, NEW c \in Call, Record(c)
    PROVE  SentInv'
<1> DEFINE n == Len(requests) + 1
<1>1. /\ SentBy(c)' = SentBy(c) \cup {n} /\ n \notin SentBy(c)
      /\ UnavailableTo(c)' = UnavailableTo(c) \cup (IF Unavailable(seen'[c]) THEN {n} ELSE {})
      /\ \A d \in Call \ {c} : SentBy(d)' = SentBy(d) /\ UnavailableTo(d)' = UnavailableTo(d)
  BY RecordSettles
<1> HIDE DEF n
<1>2. pc[c] = "send" /\ pc' = [pc EXCEPT ![c] = "decide"] /\ attempt' = attempt
      /\ \A d \in Call \ {c} : seen'[d] = seen[d]
  BY DEF Record, Goto, client, TypeInv
<1>3. pc'[c] = "decide" /\ \A d \in Call \ {c} : pc'[d] = pc[d]
  BY <1>2 DEF TypeInv
<1>4. SentBy(c) = UnavailableTo(c) /\ Cardinality(SentBy(c)) = attempt[c]
  BY <1>2 DEF SentInv, SentOK
<1>5. SentOK(c)'
  <2>1. AllButOne(c, Unavailable(seen[c]))'
    <3>1. n \in SentBy(c)' /\ SentBy(c)' \ {n} \subseteq UnavailableTo(c)'
      BY <1>1, <1>4
    <3>2. n \in UnavailableTo(c)' <=> Unavailable(seen'[c])
      BY <1>1, <1>4
    <3>3. QED BY <3>1, <3>2 DEF AllButOne
  <2>2. Cardinality(SentBy(c)') = attempt'[c] + 1
    <3>1. IsFiniteSet(SentBy(c)) /\ n \notin SentBy(c)
      BY <1>1, SentFinite
    <3>2. Cardinality(SentBy(c) \cup {n}) = Cardinality(SentBy(c)) + 1
      BY <3>1, FS_AddElement
    <3>3. QED BY <1>1, <1>2, <1>4, <3>2
  <2>3. QED BY <1>3, <2>1, <2>2 DEF SentOK
<1>6. ASSUME NEW d \in Call \ {c} PROVE SentOK(d)'
  BY <1>1, <1>2, <1>3, SentFrame DEF SentInv
<1>7. QED BY <1>5, <1>6 DEF SentInv

\* The answer moves the request from those under way to those accounted for.
LEMMA DecideSent ==
    ASSUME TypeInv, SentInv, NEW c \in Call, Decide(c)
    PROVE  SentInv'
<1>1. Settled /\ UNCHANGED requests
  BY DEF Decide, server, promise, Settled
<1>2. \A d \in Call : SentBy(d)' = SentBy(d) /\ UnavailableTo(d)' = UnavailableTo(d)
  BY <1>1, NothingSent
<1>3. /\ pc[c] = "decide" /\ \A d \in Call \ {c} : pc'[d] = pc[d]
      /\ \A d \in Call \ {c} : seen'[d] = seen[d] /\ attempt'[d] = attempt[d]
  BY DEF Decide, Goto, TypeInv
<1>4. AllButOne(c, Unavailable(seen[c])) /\ Cardinality(SentBy(c)) = attempt[c] + 1
  BY <1>3 DEF SentInv, SentOK
<1>5. UnavailableTo(c) \subseteq SentBy(c)
  BY SentFinite
<1>6. Unavailable(seen[c]) => SentBy(c) = UnavailableTo(c)
  BY <1>4, <1>5 DEF AllButOne
<1>7. ~Unavailable(seen[c]) => AllButOne(c, FALSE)
  BY <1>4 DEF AllButOne
<1>8. SentOK(c)'
  <2>1. CASE Unavailable(seen[c]) /\ Goto(c, "send") /\ attempt' = [attempt EXCEPT ![c] = @ + 1]
    <3>1. pc'[c] = "send" /\ attempt'[c] = attempt[c] + 1
      BY <2>1 DEF Goto, TypeInv
    <3>2. QED BY <1>2, <1>4, <1>6, <2>1, <3>1 DEF SentOK
  <2>2. CASE Unavailable(seen[c]) /\ attempt[c] + 1 = MaxAttempts /\ Goto(c, "gaveup")
    <3>1. pc'[c] = "gaveup"
      BY <2>2 DEF Goto, TypeInv
    <3>2. QED BY <1>2, <1>4, <1>6, <2>2, <3>1 DEF SentOK
  <2>3. CASE ~Unavailable(seen[c]) /\ (Goto(c, "mint") \/ Goto(c, "rejected"))
    <3>1. pc'[c] \in {"mint", "rejected"}
      BY <2>3 DEF Goto, TypeInv
    <3>2. AllButOne(c, FALSE)'
      BY <1>2, <1>7, <2>3 DEF AllButOne
    <3>3. QED BY <3>1, <3>2 DEF SentOK
  <2>4. Refused(c, seen[c]) => ~Unavailable(seen[c])
    BY DEF Refused, Unavailable
  <2>5. QED BY <2>1, <2>2, <2>3, <2>4 DEF Decide
<1>9. ASSUME NEW d \in Call \ {c} PROVE SentOK(d)'
  BY <1>2, <1>3, SentFrame DEF SentInv
<1>10. QED BY <1>8, <1>9 DEF SentInv

LEMMA SentCorrect == Spec => [](PromiseInv /\ SentInv)
<1>1. Init => PromiseInv /\ SentInv
  <2> SUFFICES ASSUME Init PROVE PromiseInv /\ SentInv
    OBVIOUS
  <2>1. requests = <<>> /\ Len(requests) = 0 /\ transientFails = 0 /\ due = {} /\ down = {}
    BY DEF Init
  <2>2. PromiseInv
    BY <2>1 DEF PromiseInv
  <2>3. ASSUME NEW c \in Call PROVE SentOK(c)
    <3>1. SentBy(c) = {} /\ UnavailableTo(c) = {}
      BY <2>1 DEF SentBy, UnavailableTo
    <3>2. pc[c] = "send" /\ attempt[c] = 0
      BY DEF Init
    <3>3. QED BY <3>1, <3>2, FS_EmptySet DEF SentOK
  <2>4. QED BY <2>2, <2>3 DEF SentInv
<1>2. TypeInv /\ PromiseInv /\ SentInv /\ [Next]_vars => PromiseInv' /\ SentInv'
  <2> SUFFICES ASSUME TypeInv, PromiseInv, SentInv, [Next]_vars
               PROVE  PromiseInv' /\ SentInv'
    OBVIOUS
  <2>0. ASSUME UNCHANGED <<requests, pc, attempt, seen>>, Settled PROVE SentInv'
    BY <2>0, NothingSent, SentFrame DEF SentInv
  <2>1. CASE \/ \E mode \in Modes : SetFailMode(mode)
             \/ \E refuses \in BOOLEAN : SetAssertionValidator(refuses)
             \/ UNCHANGED vars
    <3>1. UNCHANGED <<requests, transientFails, pc, attempt, seen, due, down>>
      BY <2>1 DEF SetFailMode, SetAssertionValidator, vars, server, client, promise
    <3>2. QED BY <2>0, <3>1 DEF PromiseInv, Settled
  <2>2. ASSUME NEW n \in Failures, SetTransientFailures(n) PROVE PromiseInv' /\ SentInv'
    <3>1. UNCHANGED <<requests, pc, attempt, seen>>
      BY <2>2 DEF SetTransientFailures, client
    <3>2. QED BY <2>0, <2>2, <3>1, SetTransientFailuresSettles
  <2>3. ASSUME NEW c \in Call, Record(c) PROVE PromiseInv' /\ SentInv'
    BY <2>3, RecordSettles, RecordSent
  <2>4. ASSUME NEW c \in Call, Decide(c) PROVE PromiseInv' /\ SentInv'
    <3>1. UNCHANGED <<requests, transientFails, due, down>>
      BY <2>4 DEF Decide, server, promise
    <3>2. QED BY <2>4, <3>1, DecideSent DEF PromiseInv
  <2>5. ASSUME NEW c \in Call, Mint(c) \/ handleRevoke(c) PROVE PromiseInv' /\ SentInv'
    <3>1. UNCHANGED <<requests, transientFails, attempt, seen, due, down>>
      BY <2>5 DEF Mint, handleRevoke, client, promise
    <3>2. Settled
      BY <3>1 DEF Settled
    <3>3. \A d \in Call : SentBy(d)' = SentBy(d) /\ UnavailableTo(d)' = UnavailableTo(d)
      BY <3>1, <3>2, NothingSent
    <3>4. /\ pc[c] \in {"mint", "ok"} /\ pc'[c] \in {"ok", "revoked"}
          /\ \A d \in Call \ {c} : pc'[d] = pc[d]
      BY <2>5 DEF Mint, handleRevoke, Goto, TypeInv
    <3>5. SentOK(c)'
      <4>1. AllButOne(c, FALSE)
        BY <3>4 DEF SentInv, SentOK
      <4>2. AllButOne(c, FALSE)'
        BY <3>3, <4>1 DEF AllButOne
      <4>3. QED BY <3>4, <4>2 DEF SentOK
    <3>6. ASSUME NEW d \in Call \ {c} PROVE SentOK(d)'
      BY <3>1, <3>3, <3>4, SentFrame DEF SentInv
    <3>7. QED BY <3>1, <3>5, <3>6 DEF PromiseInv, SentInv
  <2>6. QED BY <2>1, <2>2, <2>3, <2>4, <2>5 DEF Next
<1>3. QED BY <1>1, <1>2, TypeCorrect, PTL DEF Spec

\* For any number of calls, attempts and promised failures: a call that got a token
\* or an OAuth error sent one request more than the failures it met, one that
\* gave up met MaxAttempts of them, and a promise of SetTransientFailures is kept
\* for the next requests in whatever order calls and setters interleave.
THEOREM RequestsExplainedCorrect == Spec => []RequestsExplained
<1>1. TypeInv /\ SentInv => RequestsExplained
  <2> SUFFICES ASSUME TypeInv, SentInv, NEW c \in Call
               PROVE  /\ pc[c] \in {"ok", "revoked", "rejected"}
                            => Cardinality(SentBy(c)) = Cardinality(UnavailableTo(c)) + 1
                      /\ pc[c] = "gaveup"
                            => SentBy(c) = UnavailableTo(c)
                               /\ Cardinality(SentBy(c)) = MaxAttempts
    BY DEF RequestsExplained
  <2>1. ASSUME pc[c] \in {"ok", "revoked", "rejected"}
        PROVE  Cardinality(SentBy(c)) = Cardinality(UnavailableTo(c)) + 1
    <3>1. PICK i \in SentBy(c) : /\ SentBy(c) \ {i} \subseteq UnavailableTo(c)
                                 /\ i \notin UnavailableTo(c)
      BY <2>1 DEF SentInv, SentOK, AllButOne
    <3>2. SentBy(c) = UnavailableTo(c) \cup {i}
      BY <3>1, SentFinite
    <3>3. QED BY <3>1, <3>2, SentFinite, FS_AddElement
  <2>2. QED BY <2>1 DEF SentInv, SentOK
<1>2. QED BY <1>1, TypeCorrect, SentCorrect, PTL
===============================================================================
