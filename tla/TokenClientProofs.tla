--------------------------- MODULE TokenClientProofs ---------------------------
(***************************************************************************)
(* The retry loop of doTokenRequest for any number of attempts, any        *)
(* backoff and any timeout.                                                *)
(***************************************************************************)
EXTENDS TokenClient, WellFoundedInduction, TLAPS

-----------------------------------------------------------------------------
(* The recursive functions backoff and budget. *)

\* Induction on the natural numbers, for a set in place of a predicate.
LEMMA Induction ==
    ASSUME NEW S, 0 \in S, \A n \in Nat : n \in S => n + 1 \in S
    PROVE  Nat \subseteq S
<1> DEFINE T == Nat \ S
           R == OpToRel(<, Nat)
<1>1. SUFFICES ASSUME T # {} PROVE FALSE
  OBVIOUS
<1>2. PICK x \in T : \A y \in T : ~(<<y, x>> \in R)
  <2>1. IsWellFoundedOn(R, Nat)
    BY NatLessThanWellFounded
  <2>2. T \subseteq Nat
    OBVIOUS
  <2> HIDE DEF T, R
  <2>3. QED BY <1>1, <2>1, <2>2, WFMin
<1>3. x \in Nat /\ x # 0
  OBVIOUS
<1>4. x - 1 \in Nat /\ x - 1 < x /\ (x - 1) + 1 = x
  BY <1>3
<1>5. x - 1 \in T
  BY <1>3, <1>4
<1>6. <<x - 1, x>> \in R
  BY <1>3, <1>4 DEF OpToRel
<1>7. QED BY <1>2, <1>5, <1>6

\* A function on the naturals may be defined by its value at 0 and by a step
\* that computes each value from the one before.
LEMMA Recursion ==
    ASSUME NEW a \in Nat, NEW h \in [Nat -> [Nat -> Nat]]
    PROVE  \E f \in [Nat -> Nat] :
              f[0] = a /\ \A n \in Nat : f[n + 1] = h[n][f[n]]
<1> DEFINE Upto(n) == {f \in [Nat -> Nat] :
                         /\ f[0] = a
                         /\ \A i \in Nat : i < n => f[i + 1] = h[i][f[i]]}
<1>1. \A n \in Nat : Upto(n) # {}
  <2> DEFINE S == {n \in Nat : Upto(n) # {}}
  <2>1. 0 \in S
    <3>1. [n \in Nat |-> a] \in Upto(0)
      OBVIOUS
    <3>2. QED BY <3>1
  <2>2. ASSUME NEW n \in Nat, n \in S PROVE n + 1 \in S
    <3>1. PICK f \in [Nat -> Nat] :
             f[0] = a /\ \A i \in Nat : i < n => f[i + 1] = h[i][f[i]]
      BY <2>2
    <3> DEFINE g == [f EXCEPT ![n + 1] = h[n][f[n]]]
    <3>2. g \in [Nat -> Nat] /\ g[0] = a
      <4>1. h[n] \in [Nat -> Nat] /\ f[n] \in Nat
        OBVIOUS
      <4>2. h[n][f[n]] \in Nat
        BY <4>1
      <4>3. n + 1 \in Nat /\ n + 1 # 0
        OBVIOUS
      <4>4. QED BY <3>1, <4>2, <4>3
    <3>3. ASSUME NEW i \in Nat, i < n + 1 PROVE g[i + 1] = h[i][g[i]]
      <4>1. g[i] = f[i]
        BY <3>3
      <4>2. CASE i = n
        BY <4>1, <4>2
      <4>3. CASE i < n
        <5>1. f[i + 1] = h[i][f[i]]
          BY <3>1, <4>3
        <5>2. g[i + 1] = f[i + 1]
          BY <4>3
        <5>3. QED BY <4>1, <5>1, <5>2
      <4>4. QED BY <3>3, <4>2, <4>3
    <3>4. g \in Upto(n + 1)
      <4> HIDE DEF g
      <4>1. QED BY <3>2, <3>3
    <3>5. QED
      <4> HIDE DEF g, Upto
      <4>1. QED BY <3>4
  <2> HIDE DEF S
  <2>3. Nat \subseteq S
    BY <2>1, <2>2, Induction
  <2>4. QED BY <2>3 DEF S
<1>2. ASSUME NEW n \in Nat, NEW f \in Upto(n), NEW g \in Upto(n),
             NEW i \in Nat, i <= n
      PROVE  f[i] = g[i]
  <2> DEFINE S == {k \in Nat : k <= n => f[k] = g[k]}
  <2>1. 0 \in S
    OBVIOUS
  <2>2. ASSUME NEW k \in Nat, k \in S PROVE k + 1 \in S
    <3>1. k < n => f[k + 1] = h[k][f[k]] /\ g[k + 1] = h[k][g[k]]
      OBVIOUS
    <3>2. k + 1 <= n => k < n /\ k <= n
      OBVIOUS
    <3>3. k <= n => f[k] = g[k]
      BY <2>2
    <3>4. k + 1 <= n => f[k + 1] = g[k + 1]
      BY <3>1, <3>2, <3>3
    <3>5. QED BY <3>4
  <2> HIDE DEF S
  <2>3. Nat \subseteq S
    BY <2>1, <2>2, Induction
  <2>4. QED BY <1>2, <2>3 DEF S
<1> DEFINE G(n) == CHOOSE f : f \in Upto(n)
           F    == [n \in Nat |-> G(n)[n]]
<1>3. \A n \in Nat : G(n) \in Upto(n)
  BY <1>1
<1>4. \A n \in Nat : Upto(n + 1) \subseteq Upto(n)
  <2>1. \A n, i \in Nat : i < n => i < n + 1
    OBVIOUS
  <2>2. QED BY <2>1, Zenon
<1>5. \A n \in Nat : Upto(n) \subseteq [Nat -> Nat]
  OBVIOUS
<1>6. F \in [Nat -> Nat]
  <2> HIDE DEF G, Upto
  <2>1. QED BY <1>3, <1>5
<1>7. F[0] = a
  <2>1. G(0) \in Upto(0)
    BY <1>3
  <2> HIDE DEF G
  <2>2. QED BY <2>1
<1>8. ASSUME NEW n \in Nat PROVE F[n + 1] = h[n][F[n]]
  <2>1. G(n + 1) \in Upto(n + 1) /\ G(n + 1) \in Upto(n) /\ G(n) \in Upto(n)
    <3>1. n + 1 \in Nat
      OBVIOUS
    <3> HIDE DEF G, Upto
    <3>2. QED BY <1>3, <1>4, <3>1
  <2>2. F[n] = G(n)[n] /\ F[n + 1] = G(n + 1)[n + 1]
    <3> HIDE DEF G
    <3>1. QED OBVIOUS
  <2>3. G(n + 1)[n + 1] = h[n][G(n + 1)[n]]
    <3> HIDE DEF G
    <3>1. QED BY <2>1
  <2>4. G(n + 1)[n] = G(n)[n]
    <3> HIDE DEF G, Upto
    <3>1. QED BY <2>1, <1>2
  <2> HIDE DEF F, G, Upto
  <2>5. QED BY <2>2, <2>3, <2>4
<1>9. QED
  <2> HIDE DEF F
  <2>1. QED BY <1>6, <1>7, <1>8

\* The backoff of every attempt is a natural number.
LEMMA BackoffTyped ==
    \A n \in Nat : backoff[n] \in Nat /\ maxWait(n) \in Nat /\ backoff[n] <= maxWait(n)
<1> USE ClientAssumption
<1> DEFINE Body(f) == [n \in Nat |-> IF n <= 1 THEN BaseBackoff ELSE 2 * f[n - 1]]
           h == [n \in Nat |-> [x \in Nat |-> IF n = 0 THEN BaseBackoff ELSE 2 * x]]
<1>1. h \in [Nat -> [Nat -> Nat]]
  OBVIOUS
<1>2. PICK f \in [Nat -> Nat] : f[0] = BaseBackoff /\ \A n \in Nat : f[n + 1] = h[n][f[n]]
  <2> HIDE DEF h
  <2>1. BaseBackoff \in Nat
    OBVIOUS
  <2>2. QED BY <1>1, <2>1, Recursion, Zenon
<1>3. f = Body(f)
  <2>1. ASSUME NEW n \in Nat
        PROVE  f[n] = IF n <= 1 THEN BaseBackoff ELSE 2 * f[n - 1]
    <3>1. CASE n = 0
      BY <3>1, <1>2
    <3>2. CASE n # 0
      <4>1. n - 1 \in Nat /\ (n - 1) + 1 = n
        BY <3>2
      <4>2. f[n] = h[n - 1][f[n - 1]]
        BY <4>1, <1>2
      <4>3. QED BY <4>1, <4>2
    <3>3. QED BY <3>1, <3>2
  <2>2. QED BY <2>1
<1>4. backoff = Body(backoff)
  <2>1. backoff = CHOOSE g : g = Body(g)
    BY DEF backoff
  <2> HIDE DEF Body
  <2>2. QED BY <1>3, <2>1
<1>5. \A n \in Nat : backoff[n] = IF n <= 1 THEN BaseBackoff ELSE 2 * backoff[n - 1]
  BY <1>4
<1> DEFINE S == {n \in Nat : backoff[n] \in Nat}
<1>6. 0 \in S
  BY <1>5
<1>7. ASSUME NEW n \in Nat, n \in S PROVE n + 1 \in S
  <2>1. backoff[n + 1] = IF n + 1 <= 1 THEN BaseBackoff ELSE 2 * backoff[n]
    BY <1>5
  <2>2. QED BY <1>7, <2>1
<1> HIDE DEF S
<1>8. Nat \subseteq S
  BY <1>6, <1>7, Induction
<1>9. \A n \in Nat : backoff[n] \in Nat
  BY <1>8 DEF S
<1>10. QED BY <1>9 DEF maxWait

\* So is the budget; it grows by an exchange and a backoff with every attempt.
LEMMA BudgetTyped ==
    /\ budget[0] = 0
    /\ \A n \in Nat : /\ budget[n] \in Nat
                      /\ budget[n + 1] = budget[n] + Timeout + maxWait(n + 1)
<1> USE ClientAssumption
<1> DEFINE Body(f) == [n \in Nat |-> IF n = 0 THEN 0 ELSE f[n - 1] + Timeout + maxWait(n)]
           h == [n \in Nat |-> [x \in Nat |-> x + Timeout + maxWait(n + 1)]]
<1>1. h \in [Nat -> [Nat -> Nat]]
  BY BackoffTyped
<1>2. PICK f \in [Nat -> Nat] : f[0] = 0 /\ \A n \in Nat : f[n + 1] = h[n][f[n]]
  <2> HIDE DEF h
  <2>1. QED BY <1>1, Recursion
<1>3. f = Body(f)
  <2>1. ASSUME NEW n \in Nat
        PROVE  f[n] = IF n = 0 THEN 0 ELSE f[n - 1] + Timeout + maxWait(n)
    <3>1. CASE n = 0
      BY <3>1, <1>2
    <3>2. CASE n # 0
      <4>1. n - 1 \in Nat /\ (n - 1) + 1 = n
        BY <3>2
      <4>2. f[n] = h[n - 1][f[n - 1]]
        BY <4>1, <1>2
      <4>3. QED BY <3>2, <4>1, <4>2
    <3>3. QED BY <3>1, <3>2
  <2>2. QED BY <2>1
<1>4. budget = Body(budget)
  <2>1. budget = CHOOSE g : g = Body(g)
    BY DEF budget
  <2> HIDE DEF Body
  <2>2. QED BY <1>3, <2>1
<1>5. \A n \in Nat : budget[n] = IF n = 0 THEN 0 ELSE budget[n - 1] + Timeout + maxWait(n)
  BY <1>4
<1>6. budget[0] = 0 /\ \A n \in Nat : budget[n + 1] = budget[n] + Timeout + maxWait(n + 1)
  BY <1>5
<1> DEFINE S == {n \in Nat : budget[n] \in Nat}
<1>7. 0 \in S
  BY <1>6
<1>8. ASSUME NEW n \in Nat, n \in S PROVE n + 1 \in S
  BY <1>6, <1>8, BackoffTyped
<1> HIDE DEF S
<1>9. Nat \subseteq S
  BY <1>7, <1>8, Induction
<1>10. QED BY <1>6, <1>9 DEF S

LEMMA BudgetMonotone ==
    ASSUME NEW m \in Nat, NEW n \in 0 .. m
    PROVE  budget[n] <= budget[m]
<1> DEFINE S == {k \in Nat : \A i \in 0 .. k : budget[i] <= budget[k]}
<1>1. 0 \in S
  BY BudgetTyped
<1>2. ASSUME NEW k \in Nat, k \in S PROVE k + 1 \in S
  <2>1. budget[k] <= budget[k + 1]
    BY BudgetTyped, BackoffTyped, ClientAssumption
  <2>2. ASSUME NEW i \in 0 .. k + 1 PROVE budget[i] <= budget[k + 1]
    <3>1. CASE i = k + 1
      BY <3>1, BudgetTyped
    <3>2. CASE i \in 0 .. k
      BY <1>2, <2>1, <3>2, BudgetTyped
    <3>3. QED BY <2>2, <3>1, <3>2
  <2>3. QED BY <2>2
<1> HIDE DEF S
<1>3. Nat \subseteq S
  BY <1>1, <1>2, Induction
<1>4. QED BY <1>3 DEF S

\* Every attempt that the loop can make begins early enough to end in time.
LEMMA DeadlineBounds ==
    /\ Deadline \in Nat
    /\ \A n \in 0 .. MaxAttempts - 1 : budget[n] + Timeout <= Deadline
<1>1. MaxAttempts - 1 \in Nat /\ Timeout \in Nat
  BY ClientAssumption
<1>2. QED BY <1>1, BudgetTyped, BudgetMonotone DEF Deadline

-----------------------------------------------------------------------------
(* The inductive invariant. *)

\* A call that has not ended has no outcome yet and was not rejected.
ControlInv ==
    /\ pc = "done" <=> result # "pending"
    /\ pc # "done" => tokenAt = -1 /\ verdict # "rejected"
    /\ DefinitiveMeansRejected

\* The loop is within its budget, the more so while it waits for the next
\* attempt, and no request has left before the assertion was signed.
TimeInv ==
    /\ pc = "start" => elapsed = 0 /\ attempt = 0
    /\ pc = "try" => elapsed <= budget[attempt]
    /\ pc = "backoff" => attempt # 0 /\ elapsed <= budget[attempt - 1] + Timeout
    /\ pc \in {"try", "backoff"} => exp = jwtLifetime
    /\ elapsed <= Deadline
    /\ \A at \in sends : at <= elapsed /\ exp = jwtLifetime

Inv == TypeOK /\ ControlInv /\ TimeInv

LEMMA InitInv == Init => Inv
<1> SUFFICES ASSUME Init PROVE Inv
  OBVIOUS
<1> USE ClientAssumption DEF Init
<1>1. TypeOK
  BY DEF TypeOK, Verdicts
<1>2. ControlInv
  BY DEF ControlInv, DefinitiveMeansRejected
<1>3. TimeInv
  BY DeadlineBounds DEF TimeInv
<1>4. QED BY <1>1, <1>2, <1>3 DEF Inv

\* An exchange takes the loop from its budget to that of the backoff.
LEMMA ExchangeInv ==
    ASSUME Inv, NEW i \in 0 .. Timeout, NEW d \in 0 .. Timeout, NEW v \in Verdicts,
           Exchange(i, d, v)
    PROVE  Inv'
<1> USE ClientAssumption
<1>t. /\ elapsed \in Nat /\ attempt \in 0 .. MaxAttempts - 1 /\ sends \subseteq Nat
      /\ i \in Nat /\ d \in Nat /\ i <= d /\ d <= Timeout
      /\ elapsed' = elapsed + d
      /\ pc = "try" /\ result = "pending" /\ tokenAt = -1
  BY DEF Inv, TypeOK, ControlInv, Exchange
<1>1. TypeOK'
  <2>1. attempt' \in 0 .. MaxAttempts - 1
    BY <1>t DEF Exchange, Finish, Continues
  <2>2. sends' \subseteq Nat
    BY <1>t DEF Exchange
  <2>3. /\ pc' \in {"start", "try", "backoff", "done"}
        /\ result' \in {"pending", "token", "transient", "definitive"}
    BY DEF Exchange, Finish, Failure, Inv, TypeOK
  <2>4. tokenAt' \in Nat \cup {-1} /\ ((result' = "token") <=> (tokenAt' # -1))
    <3>1. CASE v = "token"
      BY <1>t, <3>1 DEF Exchange, Finish, Continues, retryable
    <3>2. CASE v # "token"
      BY <1>t, <3>2 DEF Exchange, Finish, Failure
    <3>3. QED BY <3>1, <3>2
  <2>5. QED BY <1>t, <2>1, <2>2, <2>3, <2>4 DEF TypeOK, Inv, Exchange
<1>2. ControlInv'
  BY <1>t DEF ControlInv, DefinitiveMeansRejected, Exchange, Finish, Failure, Continues,
     retryable, isTransientMintError
<1>3. TimeInv'
  <2>1. elapsed <= budget[attempt] /\ budget[attempt] \in Nat /\ attempt \in Nat
    BY <1>t, BudgetTyped DEF Inv, TimeInv
  <2>2. elapsed' <= budget[attempt] + Timeout /\ elapsed' <= Deadline
    BY <1>t, <2>1, DeadlineBounds
  <2>3. pc' = "backoff" => attempt' = attempt + 1
    BY <1>t DEF Exchange, Finish
  <2>4. pc' = "backoff" => attempt' # 0 /\ elapsed' <= budget[attempt' - 1] + Timeout
    <3>1. (attempt + 1) - 1 = attempt /\ attempt + 1 # 0
      BY <2>1
    <3>2. QED BY <2>2, <2>3, <3>1
  <2>5. pc' \in {"backoff", "done"}
    BY DEF Exchange, Finish
  <2>6. exp' = exp /\ exp = jwtLifetime
    BY <1>t DEF Exchange, Inv, TimeInv
  <2>7. \A at \in sends' : at <= elapsed'
    <3>1. sends' \subseteq sends \cup {elapsed + i}
      BY DEF Exchange
    <3>2. \A at \in sends : at <= elapsed /\ at \in Nat
      BY <1>t DEF Inv, TimeInv
    <3>3. QED BY <1>t, <3>1, <3>2
  <2>8. QED BY <2>2, <2>4, <2>5, <2>6, <2>7 DEF TimeInv
<1>4. QED BY <1>1, <1>2, <1>3 DEF Inv

\* A backoff takes it to the budget of the next attempt.
LEMMA BackoffInv ==
    ASSUME Inv, Backoff
    PROVE  Inv'
<1> USE ClientAssumption
<1>t. /\ elapsed \in Nat /\ attempt \in 0 .. MaxAttempts - 1 /\ sends \subseteq Nat
      /\ attempt \in Nat /\ attempt # 0
  BY DEF Inv, TypeOK, TimeInv, Backoff
<1>1. PICK w \in backoff[attempt] .. maxWait(attempt) : elapsed' = elapsed + w
  BY DEF Backoff
<1>2. w \in Nat /\ w <= maxWait(attempt) /\ maxWait(attempt) \in Nat
  BY <1>t, BackoffTyped
<1>3. TypeOK'
  BY <1>t, <1>1, <1>2 DEF Inv, TypeOK, Backoff
<1>4. ControlInv'
  BY DEF Inv, ControlInv, DefinitiveMeansRejected, Backoff
<1>5. TimeInv'
  <2>1. /\ attempt - 1 \in Nat /\ (attempt - 1) + 1 = attempt
        /\ elapsed <= budget[attempt - 1] + Timeout
    BY <1>t DEF Inv, TimeInv, Backoff
  <2>2. /\ budget[attempt] = budget[attempt - 1] + Timeout + maxWait(attempt)
        /\ budget[attempt - 1] \in Nat /\ budget[attempt] \in Nat
    BY <1>t, <2>1, BudgetTyped
  <2>3. elapsed' <= budget[attempt]
    BY <1>t, <1>1, <1>2, <2>1, <2>2
  <2>4. elapsed' <= Deadline
    BY <1>t, <1>1, <1>2, <2>2, <2>3, DeadlineBounds
  <2>5. \A at \in sends : at <= elapsed'
    BY <1>t, <1>1, <1>2 DEF Inv, TimeInv
  <2>6. QED BY <2>3, <2>4, <2>5 DEF Inv, TimeInv, Backoff
<1>6. QED BY <1>3, <1>4, <1>5 DEF Inv

\* A cancellation ends the call wherever it is, before its deadline.
LEMMA CancelledInv ==
    ASSUME Inv, NEW d \in 0 .. (Timeout + maxWait(attempt)), NEW reached \in BOOLEAN,
           NEW i \in 0 .. d, Cancelled(i, d, reached)
    PROVE  Inv'
<1> USE ClientAssumption
<1>t. /\ elapsed \in Nat /\ attempt \in 0 .. MaxAttempts - 1 /\ sends \subseteq Nat
      /\ attempt \in Nat /\ maxWait(attempt) \in Nat /\ budget[attempt] \in Nat
      /\ i \in Nat /\ d \in Nat /\ i <= d
      /\ elapsed' = elapsed + d
      /\ pc # "done" /\ tokenAt = -1
  BY BackoffTyped, BudgetTyped DEF Inv, TypeOK, ControlInv, Cancelled
<1>1. sends' \subseteq sends \cup {elapsed + i}
  BY DEF Cancelled
<1>2. TypeOK'
  <2>1. sends' \subseteq Nat
    BY <1>t, <1>1
  <2>2. QED BY <1>t, <2>1 DEF Inv, TypeOK, Cancelled, Finish
<1>3. ControlInv'
  BY <1>t DEF Inv, ControlInv, DefinitiveMeansRejected, Cancelled, Finish
<1>4. TimeInv'
  <2>1. elapsed' <= Deadline
    <3>1. CASE pc = "try"
      <4>1. elapsed <= budget[attempt] /\ d <= Timeout
        BY <3>1 DEF Inv, TimeInv, Cancelled
      <4>2. QED BY <1>t, <4>1, DeadlineBounds
    <3>2. CASE pc = "backoff"
      <4>1. /\ attempt - 1 \in Nat /\ (attempt - 1) + 1 = attempt
            /\ elapsed <= budget[attempt - 1] + Timeout /\ d <= maxWait(attempt)
        BY <1>t, <3>2 DEF Inv, TimeInv, Cancelled
      <4>2. /\ budget[attempt] = budget[attempt - 1] + Timeout + maxWait(attempt)
            /\ budget[attempt - 1] \in Nat
        BY <4>1, BudgetTyped
      <4>3. QED BY <1>t, <4>1, <4>2, DeadlineBounds
    <3>3. QED BY <3>1, <3>2 DEF Cancelled
  <2>2. \A at \in sends' : at <= elapsed'
    <3>1. \A at \in sends : at <= elapsed /\ at \in Nat
      BY <1>t DEF Inv, TimeInv
    <3>2. QED BY <1>t, <1>1, <3>1
  <2>3. pc' = "done" /\ exp' = exp /\ exp = jwtLifetime
    BY DEF Cancelled, Finish, Inv, TimeInv
  <2>4. QED BY <2>1, <2>2, <2>3 DEF TimeInv
<1>5. QED BY <1>2, <1>3, <1>4 DEF Inv

LEMMA NextInv == Inv /\ [Next]_vars => Inv'
<1> SUFFICES ASSUME Inv, [Next]_vars PROVE Inv'
  OBVIOUS
<1>1. CASE Prepare
  <2> USE <1>1, ClientAssumption
  <2>1. jwtLifetime \in Nat
    BY DEF jwtLifetime
  <2>2. TypeOK'
    BY <2>1 DEF Inv, TypeOK, ControlInv, Prepare, Finish
  <2>3. ControlInv'
    BY DEF Inv, ControlInv, DefinitiveMeansRejected, Prepare, Finish
  <2>4. TimeInv'
    <3>1. elapsed = 0 /\ attempt = 0 /\ elapsed' = elapsed /\ attempt' = attempt
      BY DEF Inv, TimeInv, Prepare
    <3>2. elapsed' <= budget[attempt']
      BY <3>1, BudgetTyped
    <3>3. \A at \in sends' : at <= elapsed' /\ exp' = jwtLifetime
      BY DEF Inv, TimeInv, Prepare
    <3>4. QED BY <3>1, <3>2, <3>3 DEF Inv, TimeInv, Prepare, Finish
  <2>5. QED BY <2>2, <2>3, <2>4 DEF Inv
<1>2. CASE \E i, d \in 0 .. Timeout, v \in Verdicts : Exchange(i, d, v)
  BY <1>2, ExchangeInv
<1>3. CASE Backoff
  BY <1>3, BackoffInv
<1>4. CASE \E d \in 0 .. (Timeout + maxWait(attempt)), reached \in BOOLEAN :
              \E i \in 0 .. d : Cancelled(i, d, reached)
  BY <1>4, CancelledInv
<1>5. CASE UNCHANGED vars
  BY <1>5 DEF vars, Inv, TypeOK, ControlInv, DefinitiveMeansRejected, TimeInv
<1>6. QED BY <1>1, <1>2, <1>3, <1>4, <1>5 DEF Next

THEOREM InvCorrect == Spec => []Inv
BY InitInv, NextInv, PTL DEF Spec

-----------------------------------------------------------------------------
(* The theorems. *)

\* For every retry policy: the loop never goes past its last attempt, and the
\* call returns a token exactly when one was received.
THEOREM TypeCorrect == Spec => []TypeOK
<1>1. Inv => TypeOK
  BY DEF Inv
<1>2. QED BY <1>1, InvCorrect, PTL

\* For every retry policy: the caller sees a definitive error, on which issueToken
\* purges the cached token, exactly when Salesforce's last answer is a rejection.
THEOREM DefinitiveCorrect == Spec => []DefinitiveMeansRejected
<1>1. Inv => DefinitiveMeansRejected
  BY DEF Inv, ControlInv
<1>2. QED BY <1>1, InvCorrect, PTL

\* For every retry policy: a request that Salesforce has rejected is not sent again
\* by this call of doTokenRequest.
THEOREM NoRetryCorrect == Spec => NoRetryAfterRejection
<1>1. Inv /\ [Next]_vars => [verdict = "rejected" => UNCHANGED sends]_vars
  <2> SUFFICES ASSUME Inv, Next, verdict = "rejected" PROVE UNCHANGED sends
    BY DEF vars
  <2>1. pc = "done"
    BY DEF Inv, ControlInv
  <2>2. QED BY <2>1 DEF Next, Prepare, Exchange, Backoff, Cancelled
<1>2. QED BY <1>1, InvCorrect, PTL DEF Spec, NoRetryAfterRejection

\* For every retry policy whose worst case is shorter than the assertion's
\* lifetime (with the code's constants 91 s against the default of 180 s): the one
\* assertion that buildJWTAssertion signs is still valid at every attempt.
THEOREM AssertionCorrect ==
    ASSUME Deadline < jwtLifetime
    PROVE  Spec => []AssertionOutlivesRetries
<1>1. Inv => AssertionOutlivesRetries
  <2> SUFFICES ASSUME Inv, NEW at \in sends PROVE at < exp
    BY DEF AssertionOutlivesRetries
  <2>1. at \in Nat /\ elapsed \in Nat /\ Deadline \in Nat /\ jwtLifetime \in Nat
    BY DeadlineBounds, ClientAssumption DEF Inv, TypeOK, jwtLifetime
  <2>2. at <= elapsed /\ elapsed <= Deadline /\ exp = jwtLifetime
    BY DEF Inv, TimeInv
  <2>3. QED BY <2>1, <2>2
<1>2. QED BY <1>1, InvCorrect, PTL

\* For every retry policy: a step of the client is a step of the promise that
\* mintToken makes to the engine, so time never runs past the deadline, one
\* outcome is reported once, and a returned token was granted during the call.
\* (That the call ends is left to TLC.)
THEOREM MintCallImplemented == Spec => Abstract!Safety
<1>1. Init => Abstract!Init
  BY DEF Init, Abstract!Init
<1>2. ASSUME Inv, Inv', [Next]_vars
      PROVE  [Abstract!Next]_<<result, elapsed, tokenAt>>
  <2> USE <1>2 DEF Abstract!Next, Abstract!Wait, Abstract!Succeed, Abstract!FailWith,
                   Abstract!Passes
  <2>t. /\ elapsed \in Nat /\ elapsed' \in Nat /\ Deadline \in Nat /\ elapsed' <= Deadline
        /\ pc # "done" => result = "pending" /\ tokenAt = -1
    BY DeadlineBounds DEF Inv, TypeOK, TimeInv, ControlInv
  <2>1. CASE Prepare \/ UNCHANGED vars
    BY <2>1, <2>t DEF Prepare, Finish, vars
  <2>2. ASSUME NEW i \in 0 .. Timeout, NEW d \in 0 .. Timeout, NEW v \in Verdicts,
               Exchange(i, d, v)
        PROVE  Abstract!Next
    <3>1. /\ i \in Nat /\ d \in Nat /\ i <= d /\ elapsed' = elapsed + d
          /\ pc = "try" /\ result = "pending"
      BY <2>2, <2>t, ClientAssumption DEF Exchange
    <3>2. elapsed' \in elapsed .. Deadline
      BY <3>1, <2>t
    <3>3. CASE v = "token"
      <4>1. tokenAt' = elapsed + i /\ result' = "token"
        BY <2>2, <3>3 DEF Exchange, Finish, Continues, retryable
      <4>2. tokenAt' \in 0 .. elapsed'
        BY <4>1, <3>1, <2>t
      <4>3. QED BY <3>1, <3>2, <4>1, <4>2
    <3>4. CASE v # "token"
      BY <2>2, <3>1, <3>2, <3>4 DEF Exchange, Finish, Failure
    <3>5. QED BY <3>3, <3>4
  <2>3. CASE Backoff
    <3>1. elapsed' \in elapsed .. Deadline
      <4>1. PICK w \in backoff[attempt] .. maxWait(attempt) : elapsed' = elapsed + w
        BY <2>3 DEF Backoff
      <4>2. attempt \in Nat
        BY DEF Inv, TypeOK
      <4>3. w \in Nat
        BY <4>2, BackoffTyped
      <4>4. QED BY <4>1, <4>3, <2>t
    <3>2. QED BY <2>3, <2>t, <3>1 DEF Backoff
  <2>4. ASSUME NEW d \in 0 .. (Timeout + maxWait(attempt)), NEW reached \in BOOLEAN,
               NEW i \in 0 .. d, Cancelled(i, d, reached)
        PROVE  Abstract!Next
    <3>1. attempt \in Nat /\ maxWait(attempt) \in Nat /\ Timeout \in Nat
      BY BackoffTyped, ClientAssumption DEF Inv, TypeOK
    <3>2. elapsed' \in elapsed .. Deadline
      BY <2>4, <2>t, <3>1 DEF Cancelled
    <3>3. QED BY <2>4, <2>t, <3>2 DEF Cancelled, Finish
  <2> QED BY <2>1, <2>2, <2>3, <2>4 DEF Next
<1>3. QED BY <1>1, <1>2, InvCorrect, PTL DEF Spec, Abstract!Safety

\* For every retry policy: no call of mintToken outlasts its deadline, and a token
\* is returned with success only and was granted during the call.  The abstract mint
\* promises it by itself, and so every client that implements the mint.
THEOREM MintPromiseKept == Spec => []Abstract!Promise
<1>1. Abstract!Init => Abstract!Promise
  BY DeadlineBounds DEF Abstract!Init, Abstract!Promise
<1>2. Abstract!Promise /\ [Abstract!Next]_<<result, elapsed, tokenAt>> => Abstract!Promise'
  BY DeadlineBounds DEF Abstract!Promise, Abstract!Next, Abstract!Wait, Abstract!Succeed,
                        Abstract!FailWith, Abstract!Passes
<1> QED BY <1>1, <1>2, MintCallImplemented, PTL DEF Abstract!Safety
===============================================================================
