--------------------------- MODULE ServicesProofs ---------------------------
(***************************************************************************)
(* Theorems about LoginLimiter, HubUpdate, JobLogs and Snapshots, and      *)
(* about these and Routes together, for any addresses, limits, requests,   *)
(* watchers, nodes and jobs, and any order of their steps.                 *)
(***************************************************************************)
EXTENDS MCServices, RoutesProofs, SequenceTheorems

(* LoginLimiter: the guesses an address gets, and the wait it is told.       *)

AttemptRow == [from : {{a} : a \in Addresses}, as : {{n} : n \in Names}]

\* Failures are kept in the order they happened, the oldest first.
OldestFirst(ages) == \A i, j \in DOMAIN ages : i < j => ages[i] >= ages[j]

Checking(a) == {r \in Attempts : a \in attempt[r].from}

LimiterTyped ==
    /\ failures \in [LimiterKeys -> Seq(Nat)]
    /\ attempt \in [Attempts -> AttemptRow \cup {Resting}]
    /\ guesses \in [Addresses -> Seq(Nat)]

\* What was guessed from an address is what counts against it, and what is being
\* checked was let in below the limit: the guesses that may still fail are part
\* of what it can come to.
LimiterInv ==
    /\ LimiterTyped
    /\ \A k \in LimiterKeys : OldestFirst(failures[k])
    /\ \A a \in Addresses :
          /\ guesses[a] = failures[a]
          /\ Len(failures[a]) + Cardinality(Checking(a)) <= PerAddress - 1 + Cardinality(Attempts)

LEMMA LimiterBounds ==
    /\ Window \in Nat \ {0} /\ PerAddress \in Nat \ {0} /\ PerName \in Nat \ {0}
    /\ Cardinality(Attempts) \in Nat /\ Addresses \cap Names = {}
    /\ \A k \in LimiterKeys : Limit(k) \in Nat \ {0}
BY LimiterAssumption, FS_CardinalityType DEF Limit

LEMMA CheckingBounds ==
    \A a : /\ IsFiniteSet(Checking(a))
           /\ Cardinality(Checking(a)) \in Nat /\ Cardinality(Checking(a)) <= Cardinality(Attempts)
<1>1. \A a : Checking(a) \subseteq Attempts
  BY DEF Checking
<1>2. QED
  BY <1>1, FS_Subset, FS_CardinalityType, LimiterAssumption

\* What is left of a key's failures a tick later.
LEMMA OlderKeeps ==
    ASSUME NEW ages \in Seq(Nat), OldestFirst(ages)
    PROVE  Older(ages) \in Seq(Nat) /\ Len(Older(ages)) <= Len(ages) /\ OldestFirst(Older(ages))
<1> DEFINE aged == [i \in DOMAIN ages |-> ages[i] + 1]
           old == {i \in DOMAIN ages : \A j \in 1 .. i : aged[j] >= Window}
<1>1. PICK n \in Nat : n = Len(ages) /\ DOMAIN ages = 1 .. n
  OBVIOUS
<1>2. \A i \in 1 .. n : ages[i] \in Nat /\ aged[i] = ages[i] + 1
  BY <1>1
<1>3. old \subseteq 1 .. n
  BY <1>1
<1>4. PICK c \in Nat : c = Cardinality(old) /\ c <= n
  <2>1. IsFiniteSet(1 .. n) /\ Cardinality(1 .. n) = n
    BY FS_Interval
  <2> HIDE DEF old
  <2>2. IsFiniteSet(old) /\ Cardinality(old) <= n
    BY <1>3, <2>1, FS_Subset
  <2>3. Cardinality(old) \in Nat
    BY <2>2, FS_CardinalityType
  <2>4. QED
    BY <2>2, <2>3
<1>5. Older(ages) = SubSeq(aged, c + 1, n)
  BY <1>1, <1>4 DEF Older
<1> HIDE DEF aged, old
<1>6. /\ Older(ages) \in Seq(Nat)
      /\ Len(Older(ages)) = n - c
      /\ \A i \in 1 .. n - c : Older(ages)[i] = aged[c + i]
  <2>1. \A i \in c + 1 .. n : aged[i] \in Nat
    BY <1>2, <1>4
  <2>2. PICK m \in Int : m = c + 1
    OBVIOUS
  <2>3. /\ SubSeq(aged, m, n) \in Seq(Nat)
        /\ Len(SubSeq(aged, m, n)) = IF m <= n THEN n - m + 1 ELSE 0
        /\ \A i \in 1 .. n - m + 1 : SubSeq(aged, m, n)[i] = aged[m + i - 1]
    BY <2>1, <2>2, SubSeqProperties
  <2>4. n - m + 1 = n - c
    BY <1>4, <2>2
  <2>5. ~(m <= n) => n - c = 0
    BY <1>4, <2>2
  <2>6. ASSUME NEW i \in 1 .. n - c PROVE m + i - 1 = c + i
    BY <1>4, <2>2
  <2>7. QED
    BY <1>5, <2>2, <2>3, <2>4, <2>5, <2>6
<1>7. DOMAIN Older(ages) = 1 .. n - c
  BY <1>6
<1>8. ASSUME NEW i \in 1 .. n - c, NEW j \in 1 .. n - c, i < j
      PROVE  Older(ages)[i] >= Older(ages)[j]
  <2>1. c + i \in 1 .. n /\ c + j \in 1 .. n /\ c + i < c + j
    BY <1>4, <1>8
  <2>2. ages[c + i] >= ages[c + j]
    BY <1>1, <2>1 DEF OldestFirst
  <2>3. QED
    <3>1. Older(ages)[i] = ages[c + i] + 1 /\ Older(ages)[j] = ages[c + j] + 1
      BY <1>2, <1>6, <2>1
    <3>2. ages[c + i] \in Nat /\ ages[c + j] \in Nat
      BY <1>2, <2>1
    <3>3. QED
      BY <2>2, <3>1, <3>2
<1>9. QED
  BY <1>1, <1>4, <1>6, <1>7, <1>8 DEF OldestFirst

LEMMA LaterIsLast ==
    ASSUME NEW ages \in Seq(Nat), OldestFirst(ages)
    PROVE  /\ Append(ages, 0) \in Seq(Nat) /\ Len(Append(ages, 0)) = Len(ages) + 1
           /\ OldestFirst(Append(ages, 0))
<1>1. /\ Append(ages, 0) \in Seq(Nat) /\ Len(Append(ages, 0)) = Len(ages) + 1 /\ Len(ages) \in Nat
      /\ DOMAIN ages = 1 .. Len(ages) /\ DOMAIN Append(ages, 0) = 1 .. Len(ages) + 1
      /\ \A i \in 1 .. Len(ages) : Append(ages, 0)[i] = ages[i] /\ ages[i] \in Nat
      /\ Append(ages, 0)[Len(ages) + 1] = 0
  OBVIOUS
<1>2. ASSUME NEW i \in 1 .. Len(ages) + 1, NEW j \in 1 .. Len(ages) + 1, i < j
      PROVE  Append(ages, 0)[i] >= Append(ages, 0)[j]
  <2>1. i \in 1 .. Len(ages)
    BY <1>1, <1>2
  <2>2. CASE j = Len(ages) + 1
    BY <1>1, <2>1, <2>2
  <2>3. CASE j \in 1 .. Len(ages)
    BY <1>1, <1>2, <2>1, <2>3 DEF OldestFirst
  <2>4. QED
    BY <1>1, <1>2, <2>2, <2>3
<1>3. QED
  BY <1>1, <1>2 DEF OldestFirst

LEMMA LimiterInvInit == LimiterInit => LimiterInv
<1> SUFFICES ASSUME LimiterInit PROVE LimiterInv
  OBVIOUS
<1>1. LimiterTyped
  BY DEF LimiterInit, LimiterTyped
<1>2. \A k \in LimiterKeys : OldestFirst(failures[k])
  BY DEF LimiterInit, OldestFirst
<1>3. ASSUME NEW a \in Addresses
      PROVE  /\ guesses[a] = failures[a]
             /\ Len(failures[a]) + Cardinality(Checking(a)) <= PerAddress - 1 + Cardinality(Attempts)
  <2>1. guesses[a] = <<>> /\ failures[a] = <<>>
    BY DEF LimiterInit, LimiterKeys
  <2>2. Cardinality(Checking(a)) \in Nat /\ Cardinality(Checking(a)) <= Cardinality(Attempts)
    BY CheckingBounds
  <2>3. QED
    BY <2>1, <2>2, LimiterBounds
<1>4. QED
  BY <1>1, <1>2, <1>3 DEF LimiterInv

\* Nothing new is checked, and no key has more failures than it had.
LEMMA FewerFailures ==
    ASSUME LimiterInv, LimiterTyped', \A k \in LimiterKeys : OldestFirst(failures[k])',
           \A r \in Attempts : attempt'[r] \in {attempt[r], Resting},
           \A a \in Addresses : guesses'[a] = failures'[a] /\ Len(failures'[a]) <= Len(failures[a])
    PROVE  LimiterInv'
<1>1. ASSUME NEW a \in Addresses
      PROVE  Len(failures'[a]) + Cardinality(Checking(a)') <= PerAddress - 1 + Cardinality(Attempts)
  <2>1. Checking(a)' \subseteq Checking(a)
    BY DEF Checking, Resting
  <2>2. /\ Cardinality(Checking(a)') \in Nat /\ Cardinality(Checking(a)) \in Nat
        /\ Cardinality(Checking(a)') <= Cardinality(Checking(a))
    BY <2>1, CheckingBounds, FS_Subset, FS_CardinalityType
  <2>3. /\ Len(failures'[a]) \in Nat /\ Len(failures[a]) \in Nat /\ Len(failures'[a]) <= Len(failures[a])
        /\ Len(failures[a]) + Cardinality(Checking(a)) <= PerAddress - 1 + Cardinality(Attempts)
    BY DEF LimiterInv, LimiterTyped, LimiterKeys
  <2>4. QED
    BY <2>2, <2>3, LimiterBounds
<1>2. QED
  BY <1>1 DEF LimiterInv

\* A wrong answer was let in before, and counts once more.
LEMMA FailedKeeps ==
    ASSUME LimiterInv, NEW r \in Attempts, Failed(r)
    PROVE  LimiterInv'
<1>1. /\ LimiterTyped /\ attempt[r] \in AttemptRow
      /\ attempt' = [attempt EXCEPT ![r] = Resting]
  BY DEF Failed, LimiterInv, LimiterTyped
<1>2. PICK b \in Addresses, n \in Names : attempt[r].from = {b} /\ attempt[r].as = {n}
  BY <1>1 DEF AttemptRow
<1>3. /\ \A k \in LimiterKeys : failures'[k] = IF k \in {b, n} THEN Append(failures[k], 0) ELSE failures[k]
      /\ \A a \in Addresses : guesses'[a] = IF a \in {b, n} THEN Append(guesses[a], 0) ELSE guesses[a]
      /\ failures' = [k \in LimiterKeys |-> failures'[k]] /\ guesses' = [a \in Addresses |-> guesses'[a]]
  BY <1>2 DEF Failed
<1>4. ASSUME NEW k \in LimiterKeys
      PROVE  /\ failures[k] \in Seq(Nat) /\ OldestFirst(failures[k])
             /\ failures'[k] \in Seq(Nat) /\ OldestFirst(failures'[k])
             /\ Len(failures'[k]) = IF k \in {b, n} THEN Len(failures[k]) + 1 ELSE Len(failures[k])
  <2>1. failures[k] \in Seq(Nat) /\ OldestFirst(failures[k])
    BY <1>1 DEF LimiterInv, LimiterTyped
  <2>2. /\ Append(failures[k], 0) \in Seq(Nat) /\ OldestFirst(Append(failures[k], 0))
        /\ Len(Append(failures[k], 0)) = Len(failures[k]) + 1
    BY <2>1, LaterIsLast
  <2>3. failures'[k] = IF k \in {b, n} THEN Append(failures[k], 0) ELSE failures[k]
    BY <1>3
  <2>4. CASE k \in {b, n}
    BY <2>1, <2>2, <2>3, <2>4
  <2>5. CASE k \notin {b, n}
    BY <2>1, <2>3, <2>5
  <2>6. QED
    BY <2>4, <2>5
<1>5. \A a \in Addresses : guesses'[a] = failures'[a] /\ guesses'[a] \in Seq(Nat)
  BY <1>3, <1>4 DEF LimiterInv, LimiterKeys
<1>6. LimiterTyped'
  BY <1>1, <1>3, <1>4, <1>5 DEF LimiterTyped
<1>7. ASSUME NEW a \in Addresses
      PROVE  Len(failures'[a]) + Cardinality(Checking(a)') <= PerAddress - 1 + Cardinality(Attempts)
  <2>1. /\ Len(failures[a]) \in Nat /\ Cardinality(Checking(a)) \in Nat
        /\ Len(failures[a]) + Cardinality(Checking(a)) <= PerAddress - 1 + Cardinality(Attempts)
    BY <1>4, CheckingBounds DEF LimiterInv, LimiterKeys
  <2>2. CASE a = b
    <3>1. r \in Checking(a) /\ Checking(a)' = Checking(a) \ {r}
      BY <1>1, <1>2, <2>2 DEF Checking, Resting, LimiterTyped
    <3>2. Cardinality(Checking(a)') = Cardinality(Checking(a)) - 1
      BY <3>1, CheckingBounds, FS_RemoveElement
    <3>3. Len(failures'[a]) = Len(failures[a]) + 1
      BY <1>4, <2>2 DEF LimiterKeys
    <3>4. QED
      BY <2>1, <3>2, <3>3, LimiterBounds
  <2>3. CASE a # b
    <3>1. Checking(a)' = Checking(a)
      BY <1>1, <1>2, <2>3 DEF Checking, Resting, LimiterTyped
    <3>2. Len(failures'[a]) = Len(failures[a])
      BY <1>4, <2>3, LimiterBounds DEF LimiterKeys
    <3>3. QED
      BY <2>1, <3>1, <3>2
  <2>4. QED
    BY <2>2, <2>3
<1>8. QED
  BY <1>4, <1>5, <1>6, <1>7 DEF LimiterInv

LEMMA LimiterInvStep == LimiterInv /\ [LimiterNext]_limiterVars => LimiterInv'
<1> SUFFICES ASSUME LimiterInv, [LimiterNext]_limiterVars PROVE LimiterInv'
  OBVIOUS
<1>1. /\ LimiterTyped
      /\ \A k \in LimiterKeys : failures[k] \in Seq(Nat) /\ OldestFirst(failures[k])
      /\ \A a \in Addresses : /\ guesses[a] = failures[a] /\ a \in LimiterKeys /\ Len(failures[a]) \in Nat
  BY DEF LimiterInv, LimiterTyped, LimiterKeys
<1>2. <<>> \in Seq(Nat) /\ OldestFirst(<<>>) /\ Len(<<>>) = 0
  BY DEF OldestFirst
<1>3. ASSUME NEW r \in Attempts, NEW b \in Addresses, NEW n \in Names, Ask(r, b, n) PROVE LimiterInv'
  <2>1. /\ attempt[r] = Resting /\ attempt' = [attempt EXCEPT ![r] = [from |-> {b}, as |-> {n}]]
        /\ ~KeyBlocked(b) /\ UNCHANGED <<failures, guesses>>
    BY <1>3 DEF Ask, Blocked
  <2>2. LimiterTyped'
    <3>1. [from |-> {b}, as |-> {n}] \in AttemptRow
      BY DEF AttemptRow
    <3>2. QED
      BY <1>1, <2>1, <3>1 DEF LimiterTyped
  <2>3. ASSUME NEW a \in Addresses
        PROVE  Len(failures'[a]) + Cardinality(Checking(a)') <= PerAddress - 1 + Cardinality(Attempts)
    <3>1. CASE a = b
      <4>1. Cardinality(Checking(a)') \in Nat /\ Cardinality(Checking(a)') <= Cardinality(Attempts)
        <5>1. Checking(a)' \subseteq Attempts
          BY DEF Checking
        <5>2. QED
          BY <5>1, FS_Subset, FS_CardinalityType, LimiterAssumption
      <4>2. Len(failures[a]) < PerAddress
        BY <1>1, <2>1, <3>1, LimiterBounds DEF KeyBlocked, Limit
      <4>3. QED
        BY <1>1, <2>1, <4>1, <4>2, LimiterBounds
    <3>2. CASE a # b
      <4>1. Checking(a)' = Checking(a)
        BY <1>1, <2>1, <3>2 DEF Checking, Resting, LimiterTyped
      <4>2. QED
        BY <2>1, <4>1 DEF LimiterInv
    <3>3. QED
      BY <3>1, <3>2
  <2>4. QED
    BY <2>1, <2>2, <2>3 DEF LimiterInv
<1>4. ASSUME NEW r \in Attempts, Succeeded(r) PROVE LimiterInv'
  <2>1. /\ attempt[r] \in AttemptRow /\ attempt' = [attempt EXCEPT ![r] = Resting] /\ guesses' = guesses
        /\ failures' = [k \in LimiterKeys |-> IF k \in attempt[r].as THEN <<>> ELSE failures[k]]
    BY <1>1, <1>4 DEF Succeeded, Forgiven, LimiterTyped
  <2>2. attempt[r].as \subseteq Names
    BY <2>1 DEF AttemptRow
  <2>3. LimiterTyped'
    BY <1>1, <1>2, <2>1 DEF LimiterTyped
  <2>4. \A a \in Addresses : failures'[a] = failures[a] /\ Len(failures'[a]) <= Len(failures[a])
    BY <1>1, <2>1, <2>2, LimiterBounds
  <2>5. \A k \in LimiterKeys : OldestFirst(failures[k])'
    BY <1>1, <1>2, <2>1
  <2>6. \A q \in Attempts : attempt'[q] \in {attempt[q], Resting}
    BY <1>1, <2>1 DEF LimiterTyped
  <2>7. QED
    BY <1>1, <2>1, <2>3, <2>4, <2>5, <2>6, FewerFailures
<1>5. ASSUME NEW r \in Attempts, Neither(r) PROVE LimiterInv'
  <2>1. LimiterTyped' /\ UNCHANGED <<failures, guesses>> /\ \A q \in Attempts : attempt'[q] \in {attempt[q], Resting}
    BY <1>1, <1>5 DEF Neither, LimiterTyped
  <2>2. QED
    BY <1>1, <2>1, FewerFailures
<1>6. CASE LimiterRestart
  <2>1. LimiterTyped' /\ \A k \in LimiterKeys : failures'[k] = <<>>
    BY <1>2, <1>6 DEF LimiterRestart, LimiterTyped
  <2>2. \A a \in Addresses : guesses'[a] = failures'[a] /\ Len(failures'[a]) <= Len(failures[a])
    BY <1>1, <1>2, <1>6, <2>1 DEF LimiterRestart
  <2>3. \A q \in Attempts : attempt'[q] \in {attempt[q], Resting}
    BY <1>6 DEF LimiterRestart
  <2>4. QED
    BY <1>2, <2>1, <2>2, <2>3, FewerFailures
<1>7. CASE LimiterTick
  <2>1. \A k \in LimiterKeys : /\ failures'[k] = Older(failures[k]) /\ Older(failures[k]) \in Seq(Nat)
                               /\ Len(Older(failures[k])) <= Len(failures[k])
                               /\ OldestFirst(Older(failures[k]))
    BY <1>1, <1>7, OlderKeeps DEF LimiterTick
  <2>2. \A a \in Addresses : guesses'[a] = failures'[a]
    BY <1>1, <1>7, <2>1 DEF LimiterTick
  <2>3. LimiterTyped'
    BY <1>1, <1>7, <2>1, <2>2 DEF LimiterTick, LimiterTyped
  <2>4. \A q \in Attempts : attempt'[q] \in {attempt[q], Resting}
    BY <1>7 DEF LimiterTick
  <2>5. QED
    BY <1>1, <2>1, <2>2, <2>3, <2>4, FewerFailures
<1>8. CASE UNCHANGED limiterVars
  <2>1. LimiterTyped' /\ UNCHANGED <<failures, guesses, attempt>>
    BY <1>1, <1>8 DEF limiterVars, LimiterTyped
  <2>2. QED
    BY <1>1, <2>1, FewerFailures
<1>9. QED
  BY <1>3, <1>4, <1>5, <1>6, <1>7, <1>8, FailedKeeps DEF LimiterNext, Answered

LEMMA LimiterInvHolds == LimiterSpec => []LimiterInv
<1>1. LimiterInv /\ [LimiterNext]_limiterVars => LimiterInv'
  BY LimiterInvStep
<1>2. QED
  BY <1>1, LimiterInvInit, PTL DEF LimiterSpec

\* However many requests are let in before the first of them fails, an address
\* gets no more wrong answers within a window than its limit and those requests
\* (loginlimit.go, auth.go).
THEOREM GuessesAreBounded == LimiterSpec => []GuessesPerWindow
<1>1. ASSUME LimiterInv, NEW a \in Addresses
      PROVE  Len(guesses[a]) <= PerAddress + Cardinality(Attempts) - 1
  <2>1. /\ Len(failures[a]) \in Nat /\ guesses[a] = failures[a]
        /\ Len(failures[a]) + Cardinality(Checking(a)) <= PerAddress - 1 + Cardinality(Attempts)
    BY <1>1 DEF LimiterInv, LimiterTyped, LimiterKeys
  <2>2. QED
    BY <2>1, CheckingBounds, LimiterBounds
<1>2. LimiterInv => GuessesPerWindow
  BY <1>1 DEF GuessesPerWindow
<1>3. QED
  BY <1>2, LimiterInvHolds, PTL

\* The wait a blocked key is told ends when it is free again, and no later: the
\* failures that were kept are in order, so those younger than the one that is
\* waited for are fewer than the limit, and with it they are as many
\* (loginlimit.go).
THEOREM WaitsAreExact == LimiterSpec => []RetryAfterIsExact
<1> DEFINE left(k, w) == {i \in DOMAIN failures[k] : failures[k][i] + w < Window}
<1>1. ASSUME LimiterInv, NEW k \in LimiterKeys, KeyBlocked(k)
      PROVE  /\ Cardinality(left(k, Wait(k))) < Limit(k)
             /\ Cardinality(left(k, Wait(k) - 1)) >= Limit(k)
  <2>1. PICK f \in Seq(Nat) : f = failures[k] /\ OldestFirst(f)
    BY <1>1 DEF LimiterInv, LimiterTyped
  <2>2. PICK n \in Nat : n = Len(f) /\ DOMAIN f = 1 .. n /\ \A i \in 1 .. n : f[i] \in Nat
    BY <2>1
  <2>3. PICK limit \in Nat \ {0} : limit = Limit(k)
    BY LimiterBounds
  <2>4. n >= limit
    BY <1>1, <2>1, <2>2, <2>3 DEF KeyBlocked
  <2>5. PICK m \in 1 .. n : m = n - limit + 1
    BY <2>3, <2>4
  <2>6. PICK age \in Nat : age = f[m]
    BY <2>2
  <2>7. Wait(k) = Window - age /\ Window \in Nat
    BY <2>1, <2>2, <2>3, <2>5, <2>6, LimiterBounds DEF Wait
  <2>8. left(k, Wait(k)) \subseteq m + 1 .. n
    <3>1. ASSUME NEW i \in 1 .. n, f[i] + Wait(k) < Window PROVE i \in m + 1 .. n
      <4>1. f[i] < f[m]
        BY <2>2, <2>6, <2>7, <3>1
      <4>2. i < m => f[i] >= f[m]
        BY <2>1, <2>2 DEF OldestFirst
      <4>3. i # m /\ ~(i < m)
        BY <2>2, <2>6, <4>1, <4>2
      <4>4. QED
        BY <4>3
    <3>2. QED
      BY <2>1, <2>2, <3>1
  <2>9. m .. n \subseteq left(k, Wait(k) - 1)
    <3>1. ASSUME NEW i \in m .. n PROVE i \in 1 .. n /\ f[i] + (Wait(k) - 1) < Window
      <4>1. i \in 1 .. n /\ f[i] \in Nat
        BY <2>2
      <4>2. f[m] >= f[i]
        <5>1. CASE i = m
          BY <2>6, <5>1
        <5>2. CASE i # m
          BY <2>1, <2>2, <4>1, <5>2 DEF OldestFirst
        <5>3. QED
          BY <5>1, <5>2
      <4>3. QED
        BY <2>6, <2>7, <4>1, <4>2
    <3>2. QED
      BY <2>1, <2>2, <3>1
  <2> HIDE DEF left
  <2>10. Cardinality(left(k, Wait(k))) < limit
    <3>1. PICK b \in Int : b = m + 1
      OBVIOUS
    <3>2. IsFiniteSet(b .. n) /\ Cardinality(b .. n) = IF b > n THEN 0 ELSE n - b + 1
      BY FS_Interval
    <3>3. Cardinality(b .. n) < limit
      BY <2>3, <2>5, <3>1, <3>2
    <3>4. /\ IsFiniteSet(left(k, Wait(k))) /\ Cardinality(left(k, Wait(k))) <= Cardinality(b .. n)
      BY <2>8, <3>1, <3>2, FS_Subset
    <3>5. Cardinality(left(k, Wait(k))) \in Nat /\ Cardinality(b .. n) \in Nat
      BY <3>2, <3>4, FS_CardinalityType
    <3>6. QED
      BY <2>3, <3>3, <3>4, <3>5
  <2>11. Cardinality(left(k, Wait(k) - 1)) >= limit
    <3>1. PICK b \in Int : b = m
      OBVIOUS
    <3>2. IsFiniteSet(b .. n) /\ Cardinality(b .. n) = IF b > n THEN 0 ELSE n - b + 1
      BY FS_Interval
    <3>3. Cardinality(b .. n) = limit
      BY <2>3, <2>5, <3>1, <3>2
    <3>4. IsFiniteSet(left(k, Wait(k) - 1))
      <4>1. IsFiniteSet(1 .. n)
        BY FS_Interval
      <4>2. left(k, Wait(k) - 1) \subseteq 1 .. n
        BY <2>1, <2>2 DEF left
      <4>3. QED
        BY <4>1, <4>2, FS_Subset
    <3>5. Cardinality(b .. n) <= Cardinality(left(k, Wait(k) - 1)) /\ Cardinality(left(k, Wait(k) - 1)) \in Nat
      BY <2>9, <3>1, <3>4, FS_Subset, FS_CardinalityType
    <3>6. QED
      BY <2>3, <3>3, <3>5
  <2>12. QED
    BY <2>3, <2>10, <2>11
<1>2. LimiterInv => RetryAfterIsExact
  BY <1>1 DEF RetryAfterIsExact
<1>3. QED
  BY <1>2, LimiterInvHolds, PTL

-----------------------------------------------------------------------------
(* HubUpdate: one update at a time.                                          *)

PressRow == [step : {"away", "taken", "waiting", "starting"}, target : 0 .. MaxRelease]
HubRow == [version : 1 .. MaxRelease, latest : 0 .. MaxRelease, announced : 0 .. MaxRelease,
           upgrading : 0 .. MaxRelease]

\* A request past the lock is the only one, and upgrading names its release,
\* which keeps the others out.
OneGoing == \A p, q \in Presses : Going(p) /\ Going(q) => p = q
Named(p) == Going(p) => hub.upgrading = press[p].target /\ press[p].target # 0
UpdateInv == UpdateTypeOK /\ OneGoing /\ \A p \in Presses : Named(p)

LEMMA UpdateBounds ==
    /\ Patience \in Nat \ {0} /\ MaxRelease \in Nat \ {0} /\ MaxRestarts \in Nat
    /\ 1 \in 1 .. MaxRelease /\ {0, 1} \subseteq 0 .. MaxRelease /\ 0 \in 0 .. Patience
BY UpdateAssumption

LEMMA JustStartedFits ==
    /\ \A v \in 1 .. MaxRelease : JustStarted(v) \in HubRow
    /\ [step |-> "away", target |-> 0] \in PressRow
BY UpdateBounds DEF JustStarted, HubRow, PressRow

LEMMA UpdateInvInit == UpdateInit => UpdateInv
<1> SUFFICES ASSUME UpdateInit PROVE UpdateInv
  OBVIOUS
<1>1. UpdateTypeOK
  BY UpdateBounds, JustStartedFits DEF UpdateInit, UpdateTypeOK, HubRow, PressRow
<1>2. \A p \in Presses : ~Going(p)
  BY DEF UpdateInit, Going
<1>3. QED
  BY <1>1, <1>2 DEF UpdateInv, OneGoing, Named

\* No request goes on that did not, for another release, or past an upgrading
\* that was taken back.
LEMMA PressesKeep ==
    ASSUME UpdateInv, UpdateTypeOK',
           \A p \in Presses : Going(p)' => /\ Going(p) /\ press'[p].target = press[p].target
                                           /\ hub'.upgrading = hub.upgrading
    PROVE  UpdateInv'
BY DEF UpdateInv, OneGoing, Named

LEMMA UpdateInvStep == UpdateInv /\ [UpdateNext]_updateVars => UpdateInv'
<1> SUFFICES ASSUME UpdateInv, [UpdateNext]_updateVars PROVE UpdateInv'
  OBVIOUS
<1>1. /\ UpdateTypeOK /\ hub \in HubRow /\ press \in [Presses -> PressRow]
      /\ release \in 1 .. MaxRelease /\ looks \subseteq 1 .. MaxRelease
      /\ patience \in 0 .. Patience /\ installer \in 0 .. MaxRelease /\ restarts \in 0 .. MaxRestarts
  BY DEF UpdateInv, UpdateTypeOK, HubRow, PressRow
<1>2. CASE \/ \E t \in Tasks : TaskComes(t) \/ TaskStarts(t) \/ TaskEnds(t)
           \/ NodeGoes \/ NodeIsBack
  <2>1. UNCHANGED <<release, hub, looks, press, patience, installer>>
    BY <1>2 DEF TaskComes, TaskStarts, TaskEnds, NodeGoes, NodeIsBack
  <2>2. task' \in [Tasks -> {"none", "in line", "running", "left behind", "log stream"}]
    BY <1>1, <1>2 DEF TaskComes, TaskStarts, TaskEnds, NodeGoes, NodeIsBack, UpdateTypeOK
  <2>3. reachable' \in BOOLEAN
    BY <1>1, <1>2 DEF TaskComes, TaskStarts, TaskEnds, NodeGoes, NodeIsBack, UpdateTypeOK
  <2>4. restarts' \in 0 .. MaxRestarts
    <3>1. restarts' = restarts \/ (restarts < MaxRestarts /\ restarts' = restarts + 1)
      BY <1>2 DEF TaskComes, TaskStarts, TaskEnds, NodeGoes, NodeIsBack
    <3>2. QED
      BY <1>1, <3>1, UpdateBounds
  <2>5. UpdateTypeOK'
    BY <1>1, <2>1, <2>2, <2>3, <2>4 DEF UpdateTypeOK
  <2>6. QED
    BY <2>1, <2>5, PressesKeep DEF Going
<1>3. CASE Publish \/ ReadRelease \/ UNCHANGED updateVars
  <2>1. release' \in 1 .. MaxRelease /\ looks' \subseteq 1 .. MaxRelease
    <3>1. CASE Publish
      BY <1>1, <3>1, UpdateBounds DEF Publish
    <3>2. CASE ReadRelease \/ UNCHANGED updateVars
      BY <1>1, <3>2 DEF ReadRelease, updateVars
    <3>3. QED
      BY <1>3, <3>1, <3>2
  <2>2. UNCHANGED <<hub, press, patience, installer, task, reachable, restarts>>
    BY <1>3 DEF Publish, ReadRelease, updateVars
  <2>3. UpdateTypeOK'
    BY <1>1, <2>1, <2>2 DEF UpdateTypeOK
  <2>4. QED
    BY <2>2, <2>3, PressesKeep DEF Going
<1>4. ASSUME NEW r \in looks, WriteRelease(r) PROVE UpdateInv'
  <2>1. r \in 0 .. MaxRelease
    <3>1. r \in 1 .. MaxRelease
      BY <1>1
    <3>2. QED
      BY <3>1
  <2>2. hub' \in HubRow /\ hub'.upgrading = hub.upgrading
    BY <1>1, <1>4, <2>1 DEF WriteRelease, HubRow
  <2>3. looks' \subseteq looks /\ UNCHANGED <<release, press, patience, installer, task, reachable, restarts>>
    BY <1>4 DEF WriteRelease
  <2>4. UpdateTypeOK'
    BY <1>1, <2>2, <2>3 DEF UpdateTypeOK, HubRow
  <2>5. QED
    BY <2>2, <2>3, <2>4, PressesKeep DEF Going
<1>5. ASSUME NEW p \in Presses, Take(p) PROVE UpdateInv'
  <2>1. /\ hub.upgrading = 0 /\ hub.latest \in 1 .. MaxRelease
        /\ hub' = [hub EXCEPT !.upgrading = hub.latest]
        /\ press' = [press EXCEPT ![p] = [step |-> "taken", target |-> hub.latest]]
        /\ UNCHANGED <<release, looks, patience, installer, task, reachable, restarts>>
    BY <1>1, <1>5, UpdateBounds DEF Take, MayTake, HubRow
  <2>2. hub' \in HubRow /\ hub'.upgrading = hub.latest
    BY <1>1, <2>1 DEF HubRow
  <2>3. /\ [step |-> "taken", target |-> hub.latest] \in PressRow
        /\ press' \in [Presses -> PressRow] /\ press'[p].target = hub.latest
        /\ \A q \in Presses \ {p} : press'[q] = press[q]
    BY <1>1, <2>1 DEF PressRow
  <2>4. \A q \in Presses : ~Going(q)
    BY <2>1 DEF UpdateInv, Named
  <2>5. UpdateTypeOK'
    BY <1>1, <2>1, <2>2, <2>3 DEF UpdateTypeOK, HubRow, PressRow
  <2>6. QED
    BY <2>1, <2>2, <2>3, <2>4, <2>5 DEF UpdateInv, OneGoing, Named, Going
<1>6. ASSUME NEW p \in Presses, WaitForJobs(p) \/ GoAhead(p) \/ LookAtJobs(p) PROVE UpdateInv'
  <2>1. /\ press[p].step \in {"taken", "waiting"}
        /\ \E step \in {"waiting", "starting", press[p].step} : press' = [press EXCEPT ![p].step = step]
        /\ UNCHANGED <<release, hub, looks, installer, task, reachable, restarts>>
    <3>1. press = [press EXCEPT ![p].step = press[p].step]
      BY <1>1 DEF PressRow
    <3>2. QED
      BY <1>6, <3>1 DEF WaitForJobs, GoAhead, LookAtJobs
  <2>2. PICK step \in {"taken", "waiting", "starting"} : press' = [press EXCEPT ![p].step = step]
    BY <2>1
  <2>3. press' \in [Presses -> PressRow] /\ \A q \in Presses : press'[q].target = press[q].target /\ (Going(q)' => Going(q))
    BY <1>1, <2>1, <2>2 DEF PressRow, Going
  <2>4. patience' \in 0 .. Patience
    <3>1. patience' \in {patience, Patience, 0, patience - 1} /\ (patience' = patience - 1 => patience # 0)
      <4>1. CASE WaitForJobs(p) \/ GoAhead(p)
        BY <1>1, <4>1, UpdateBounds DEF WaitForJobs, GoAhead
      <4>2. CASE LookAtJobs(p)
        BY <1>1, <4>2, UpdateBounds DEF LookAtJobs
      <4>3. QED
        BY <1>6, <4>1, <4>2
    <3>2. QED
      BY <1>1, <3>1, UpdateBounds
  <2>5. UpdateTypeOK'
    BY <1>1, <2>1, <2>3, <2>4 DEF UpdateTypeOK, PressRow
  <2>6. QED
    BY <2>1, <2>3, <2>5, PressesKeep
<1>7. ASSUME NEW p \in Presses, StartUpgrade(p) PROVE UpdateInv'
  <2>1. /\ Going(p) /\ press' = [press EXCEPT ![p].step = "away"]
        /\ UNCHANGED <<release, looks, patience, task, reachable, restarts>>
    BY <1>7 DEF StartUpgrade, Going
  <2>2. press' \in [Presses -> PressRow] /\ press'[p].step = "away" /\ \A q \in Presses \ {p} : press'[q] = press[q]
    BY <1>1, <2>1 DEF PressRow
  <2>3. \A q \in Presses : ~Going(q)'
    BY <2>1, <2>2 DEF UpdateInv, OneGoing, Going
  <2>4. installer' \in 0 .. MaxRelease
    <3>1. press[p].target \in 0 .. MaxRelease
      BY <1>1 DEF PressRow
    <3>2. installer' \in {installer, press[p].target}
      BY <1>7 DEF StartUpgrade
    <3>3. QED
      BY <1>1, <3>1, <3>2
  <2>5. hub' \in HubRow
    BY <1>1, <1>7, UpdateBounds DEF StartUpgrade, HubRow
  <2>6. UpdateTypeOK'
    BY <1>1, <2>1, <2>2, <2>4, <2>5 DEF UpdateTypeOK, HubRow, PressRow
  <2>7. QED
    BY <2>3, <2>6, PressesKeep
<1>8. CASE InstallFails
  <2>1. installer' \in 0 .. MaxRelease /\ UNCHANGED <<release, hub, looks, press, patience, task, reachable, restarts>>
    BY <1>8, UpdateBounds DEF InstallFails
  <2>2. UpdateTypeOK'
    BY <1>1, <2>1 DEF UpdateTypeOK
  <2>3. QED
    BY <2>1, <2>2, PressesKeep DEF Going
<1>9. CASE Installed \/ HubRestarts
  <2>1. /\ \E v \in 1 .. MaxRelease : Restarted(v)
        /\ installer' \in 0 .. MaxRelease /\ UNCHANGED <<release, task, reachable>>
    <3>1. hub.version \in 1 .. MaxRelease /\ (installer # 0 => installer \in 1 .. MaxRelease)
      BY <1>1, UpdateBounds DEF HubRow
    <3>2. CASE Installed
      BY <3>1, <3>2, UpdateBounds DEF Installed
    <3>3. CASE HubRestarts
      BY <1>1, <3>1, <3>3 DEF HubRestarts
    <3>4. QED
      BY <1>9, <3>2, <3>3
  <2>2. restarts' \in 0 .. MaxRestarts
    <3>1. restarts' = restarts \/ (restarts < MaxRestarts /\ restarts' = restarts + 1)
      BY <1>9 DEF Installed, HubRestarts
    <3>2. QED
      BY <1>1, <3>1, UpdateBounds
  <2>3. /\ hub' \in HubRow /\ looks' = {} /\ patience' \in 0 .. Patience
        /\ press' \in [Presses -> PressRow] /\ \A p \in Presses : press'[p].step = "away"
    BY <2>1, JustStartedFits, UpdateBounds DEF Restarted
  <2>4. UpdateTypeOK'
    BY <1>1, <2>1, <2>2, <2>3 DEF UpdateTypeOK, HubRow, PressRow
  <2>5. QED
    BY <2>3, <2>4, PressesKeep DEF Going
<1>10. QED
  BY <1>2, <1>3, <1>4, <1>5, <1>6, <1>7, <1>8, <1>9 DEF UpdateNext

LEMMA UpdateInvHolds == UpdateSpec => []UpdateInv
<1>1. UpdateInv /\ [UpdateNext]_updateVars => UpdateInv'
  BY UpdateInvStep
<1>2. QED
  BY <1>1, UpdateInvInit, PTL DEF UpdateSpec

\* Every variable of an update has its type.
THEOREM UpdateTypeCorrect == UpdateSpec => []UpdateTypeOK
<1>1. UpdateInv => UpdateTypeOK
  BY DEF UpdateInv
<1>2. QED
  BY <1>1, UpdateInvHolds, PTL

\* However many people press Update, and however checks for releases, jobs,
\* helpers that fail and restarts fall in between, one update goes on at a time
\* and upgrading names what it installs (update_service.go).
THEOREM OneUpdate == UpdateSpec => []OneUpdateAtATime
<1>1. UpdateInv => OneUpdateAtATime
  BY DEF UpdateInv, OneGoing, Named, OneUpdateAtATime
<1>2. QED
  BY <1>1, UpdateInvHolds, PTL

-----------------------------------------------------------------------------
(* JobLogs: what a watcher of a running job sees.                            *)

Event == Seq(Nat) \ {<<>>}

LogRow == [buf : Seq(Nat), total : Nat, over : BOOLEAN, subs : SUBSET Watchers]
WatcherRow == [doing : {"away", "let in", "watching", "told", "cut off"},
               shown : Seq(Nat), chan : Seq(Event), missed : BOOLEAN]
AgentRow == [out : 0 .. MaxOutput, at : Nat, sending : SUBSET [from : Nat, to : Nat]]

LogTyped ==
    /\ logStatus \in {"running", "reported", "swept"} /\ restarted \in BOOLEAN
    /\ live = {} \/ \E l \in LogRow : live = {l}
    /\ agent \in AgentRow /\ agent.at <= agent.out
    /\ watcher \in [Watchers -> WatcherRow]

\* No channel and no buffer holds too much; who is not let in yet has seen
\* nothing, and who gets events is watching.
LogKept ==
    /\ Len(Of(live).buf) <= MaxLive
    /\ \A w \in Watchers :
          /\ Len(watcher[w].chan) <= Room
          /\ watcher[w].doing \in {"away", "let in"} =>
                watcher[w].shown = <<>> /\ watcher[w].chan = <<>> /\ ~watcher[w].missed
          /\ w \in Of(live).subs => watcher[w].doing = "watching"

\* The pieces of a view up to the n-th go on one after the other, up to total.
GoesOn(seen, n, total) ==
    /\ n > 0 /\ n <= Len(seen)
    /\ InTurn(seen[1])
    /\ \A i \in 2 .. n : InTurn(seen[i]) /\ seen[i][1] = EndOf(seen[i - 1]) + 1
    /\ EndOf(seen[n]) = total

\* What w sees goes on to where the Hub is, and then comes the end.
ViewIsExact(w) ==
    watcher[w].doing = "watching" /\ ~watcher[w].missed =>
        IF Of(live).over
        THEN /\ GoesOn(Seen(w), Len(Seen(w)) - 1, Of(live).total)
             /\ Seen(w)[Len(Seen(w))] = Done
        ELSE GoesOn(Seen(w), Len(Seen(w)), Of(live).total)

\* The Hub's tail ends where it is.  The agent sends nothing it has not had an
\* answer for before the job has reported, and nothing after.
Counted ==
    /\ InTurn(Of(live).buf) /\ EndOf(Of(live).buf) = Of(live).total
    /\ Of(live).over => logStatus = "reported"
    /\ logStatus = "reported" => agent.sending = {}
    /\ logStatus # "reported" => /\ agent.at <= Of(live).total
                                 /\ \A s \in agent.sending : s.from <= Of(live).total

LogInv ==
    /\ LogTyped /\ LogKept
    /\ ~restarted => Counted /\ \A w \in Of(live).subs : ViewIsExact(w)

LEMMA LogBounds == MaxLive \in Nat \ {0} /\ Room \in Nat \ {0} /\ MaxOutput \in Nat \ {0}
BY JobLogAssumption

LEMMA OfOne == Of({}) = NoLog /\ \A l : Of({l}) = l
BY DEF Of

LEMMA NoLogTyped == NoLog \in LogRow /\ NoLog.buf = <<>> /\ NoLog.total = 0 /\ ~NoLog.over /\ NoLog.subs = {}
BY DEF NoLog, LogRow

LEMMA LiveTyped ==
    ASSUME LogTyped
    PROVE  Of(live) \in LogRow /\ (live = {} \/ live = {Of(live)})
BY OfOne, NoLogTyped DEF LogTyped

LEMMA AwayTyped ==
    /\ Away.doing = "away" /\ Away.shown = <<>> /\ Away.chan = <<>> /\ ~Away.missed
    /\ Away \in WatcherRow
<1>1. <<>> \in Seq(Nat) /\ <<>> \in Seq(Event)
  OBVIOUS
<1>2. QED
  BY <1>1 DEF Away, WatcherRow

LEMMA DoneEvent == Done \in Event /\ Done[1] = 0
BY DEF Done, Event

\* An event behind a view that goes on.
LEMMA EventGoesOn ==
    ASSUME NEW seen \in Seq(Seq(Nat)), NEW total \in Nat, GoesOn(seen, Len(seen), total),
           NEW e \in Event, InTurn(e), e[1] = total + 1
    PROVE  GoesOn(Append(seen, e), Len(Append(seen, e)), EndOf(e))
<1>1. PICK n \in Nat : n = Len(seen) /\ n > 0
  BY DEF GoesOn
<1> DEFINE more == Append(seen, e)
<1>2. /\ Len(more) = n + 1 /\ more[n + 1] = e
      /\ \A i \in 1 .. n : more[i] = seen[i]
  BY <1>1 DEF Event
<1>3. /\ InTurn(seen[1]) /\ EndOf(seen[n]) = total
      /\ \A i \in 2 .. n : InTurn(seen[i]) /\ seen[i][1] = EndOf(seen[i - 1]) + 1
  BY <1>1 DEF GoesOn
<1>4. ASSUME NEW i \in 2 .. n + 1
      PROVE  InTurn(more[i]) /\ more[i][1] = EndOf(more[i - 1]) + 1
  <2>1. CASE i = n + 1
    BY <1>1, <1>2, <1>3, <2>1
  <2>2. CASE i # n + 1
    <3>1. i \in 2 .. n /\ i \in 1 .. n /\ i - 1 \in 1 .. n
      BY <1>1, <2>2
    <3>2. QED
      BY <1>2, <1>3, <3>1
  <2>3. QED
    BY <2>1, <2>2
<1>5. InTurn(more[1])
  BY <1>1, <1>2, <1>3
<1>6. QED
  BY <1>1, <1>2, <1>4, <1>5 DEF GoesOn

\* The end behind a view.
LEMMA EndGoesOn ==
    ASSUME NEW seen \in Seq(Seq(Nat)), NEW total \in Nat, GoesOn(seen, Len(seen), total)
    PROVE  /\ GoesOn(Append(seen, Done), Len(Append(seen, Done)) - 1, total)
           /\ Append(seen, Done)[Len(Append(seen, Done))] = Done
<1>1. PICK n \in Nat : n = Len(seen) /\ n > 0
  BY DEF GoesOn
<1> DEFINE more == Append(seen, Done)
<1>2. Done \in Seq(Nat)
  BY DEF Done
<1>3. /\ Len(more) = n + 1 /\ more[n + 1] = Done
      /\ \A i \in 1 .. n : more[i] = seen[i]
  BY <1>1, <1>2
<1>4. /\ InTurn(seen[1]) /\ EndOf(seen[n]) = total
      /\ \A i \in 2 .. n : InTurn(seen[i]) /\ seen[i][1] = EndOf(seen[i - 1]) + 1
  BY <1>1 DEF GoesOn
<1>5. \A i \in 2 .. n : InTurn(more[i]) /\ more[i][1] = EndOf(more[i - 1]) + 1
  <2>1. \A i \in 2 .. n : i \in 1 .. n /\ i - 1 \in 1 .. n
    BY <1>1
  <2>2. QED
    BY <1>3, <1>4, <2>1
<1>6. InTurn(more[1]) /\ EndOf(more[n]) = total
  BY <1>1, <1>3, <1>4
<1>7. GoesOn(more, n, total)
  BY <1>1, <1>3, <1>5, <1>6 DEF GoesOn
<1>8. Len(more) - 1 = n
  BY <1>1, <1>3
<1>9. QED
  BY <1>1, <1>3, <1>7, <1>8

\* Output that follows other output.
LEMMA TurnsJoin ==
    ASSUME NEW s \in Seq(Nat), NEW t \in Event, InTurn(s), InTurn(t), t[1] = EndOf(s) + 1
    PROVE  s \o t \in Seq(Nat) /\ InTurn(s \o t) /\ EndOf(s \o t) = EndOf(t)
<1>1. PICK m \in Nat : m = Len(s)
  OBVIOUS
<1>2. PICK n \in Nat : n = Len(t) /\ n > 0 /\ t \in Seq(Nat)
  BY DEF Event
<1> DEFINE st == s \o t
<1>3. /\ st \in Seq(Nat) /\ Len(st) = m + n
      /\ \A i \in 1 .. m : st[i] = s[i]
      /\ \A i \in 1 .. n : st[m + i] = t[i]
  BY <1>1, <1>2
<1> HIDE DEF st
<1>4. ASSUME NEW i \in 1 .. m + n - 1 PROVE st[i + 1] = st[i] + 1
  <2>1. CASE i < m
    <3>1. i \in 1 .. m - 1 /\ i \in 1 .. m /\ i + 1 \in 1 .. m
      BY <2>1
    <3>2. s[i + 1] = s[i] + 1
      BY <1>1, <3>1 DEF InTurn
    <3>3. QED
      BY <1>3, <3>1, <3>2
  <2>2. CASE i = m
    <3>1. s # <<>> /\ EndOf(s) = s[m] /\ st[m] = s[m] /\ st[m + 1] = t[1]
      BY <1>1, <1>2, <1>3, <2>2 DEF EndOf
    <3>2. QED
      BY <2>2, <3>1
  <2>3. CASE i > m
    <3>1. PICK k \in 1 .. n - 1 : i = m + k
      <4>1. i - m \in 1 .. n - 1 /\ i = m + (i - m)
        BY <1>1, <1>2, <2>3
      <4>2. QED
        BY <4>1
    <3>2. t[k + 1] = t[k] + 1
      BY <1>2 DEF InTurn
    <3>3. k \in 1 .. n /\ k + 1 \in 1 .. n /\ i + 1 = m + (k + 1)
      BY <1>1, <1>2, <3>1
    <3>4. QED
      BY <1>3, <3>1, <3>2, <3>3
  <2>4. QED
    BY <1>1, <1>2, <2>1, <2>2, <2>3
<1>5. InTurn(st)
  BY <1>3, <1>4 DEF InTurn
<1>6. EndOf(st) = EndOf(t)
  <2>1. st # <<>> /\ t # <<>>
    BY <1>1, <1>2, <1>3
  <2>2. st[m + n] = t[n]
    BY <1>2, <1>3
  <2>3. QED
    BY <1>2, <1>3, <2>1, <2>2 DEF EndOf
<1>7. QED
  BY <1>3, <1>5, <1>6 DEF st

\* A view whose second piece is shown: it is joined to the first.
LEMMA ShownGoesOn ==
    ASSUME NEW shown \in Seq(Nat), NEW chan \in Seq(Event), chan # <<>>, NEW total \in Nat,
           NEW n \in Nat, n > 1, GoesOn(<<shown>> \o chan, n, total)
    PROVE  GoesOn(<<shown \o Head(chan)>> \o Tail(chan), n - 1, total)
<1> DEFINE old == <<shown>> \o chan
           new == <<shown \o Head(chan)>> \o Tail(chan)
<1>1. PICK k \in Nat : k = Len(chan) /\ k > 0
  OBVIOUS
<1>2. /\ Len(old) = k + 1 /\ old[1] = shown /\ \A i \in 1 .. k : old[i + 1] = chan[i]
  BY <1>1
<1>3. /\ Head(chan) = chan[1] /\ chan[1] \in Event
      /\ Tail(chan) \in Seq(Event) /\ Len(Tail(chan)) = k - 1
      /\ \A i \in 1 .. k - 1 : Tail(chan)[i] = chan[i + 1]
  BY <1>1
<1>4. shown \o Head(chan) \in Seq(Nat)
  BY <1>3 DEF Event
<1>5. /\ Len(new) = k /\ new[1] = shown \o chan[1]
      /\ \A i \in 1 .. k - 1 : new[i + 1] = chan[i + 1]
  BY <1>1, <1>3, <1>4
<1>6. /\ n <= k + 1 /\ InTurn(old[1]) /\ EndOf(old[n]) = total
      /\ \A i \in 2 .. n : InTurn(old[i]) /\ old[i][1] = EndOf(old[i - 1]) + 1
  BY <1>2 DEF GoesOn
<1> HIDE DEF old, new
<1>7. old[2] = chan[1]
  BY <1>1, <1>2
<1>8. InTurn(chan[1]) /\ chan[1][1] = EndOf(shown) + 1 /\ InTurn(shown)
  BY <1>2, <1>6, <1>7
<1>9. InTurn(new[1]) /\ EndOf(new[1]) = EndOf(old[2])
  BY <1>3, <1>5, <1>7, <1>8, TurnsJoin
<1>10. \A i \in 2 .. k : new[i] = old[i + 1]
  <2> SUFFICES ASSUME NEW i \in 2 .. k PROVE new[i] = old[i + 1]
    OBVIOUS
  <2>1. i - 1 \in 1 .. k - 1 /\ (i - 1) + 1 = i /\ i \in 1 .. k
    BY <1>1
  <2>2. new[(i - 1) + 1] = chan[(i - 1) + 1]
    BY <1>5, <2>1
  <2>3. QED
    BY <1>2, <2>1, <2>2
<1>11. ASSUME NEW i \in 2 .. n - 1 PROVE InTurn(new[i]) /\ new[i][1] = EndOf(new[i - 1]) + 1
  <2>1. i \in 2 .. k /\ i + 1 \in 2 .. n /\ (i + 1) - 1 = i
    BY <1>1, <1>6
  <2>2. InTurn(new[i]) /\ new[i][1] = EndOf(old[i]) + 1
    BY <1>6, <1>10, <2>1
  <2>3. EndOf(new[i - 1]) = EndOf(old[i])
    <3>1. CASE i = 2
      BY <1>9, <3>1
    <3>2. CASE i # 2
      <4>1. i - 1 \in 2 .. k /\ (i - 1) + 1 = i
        BY <1>1, <2>1, <3>2
      <4>2. QED
        BY <1>10, <4>1
    <3>3. QED
      BY <3>1, <3>2
  <2>4. QED
    BY <2>2, <2>3
<1>12. EndOf(new[n - 1]) = total
  <2>1. CASE n = 2
    BY <1>6, <1>9, <2>1
  <2>2. CASE n # 2
    <3>1. n - 1 \in 2 .. k /\ (n - 1) + 1 = n
      BY <1>1, <1>6, <2>2
    <3>2. QED
      BY <1>6, <1>10, <3>1
  <2>3. QED
    BY <2>1, <2>2
<1>13. n - 1 > 0 /\ n - 1 <= Len(new)
  BY <1>1, <1>5, <1>6
<1>14. GoesOn(new, n - 1, total)
  BY <1>9, <1>11, <1>12, <1>13 DEF GoesOn
<1>15. QED
  BY <1>14 DEF new

\* The lines the Hub has not seen: they go on where it is, when the agent sends
\* nothing that lies further ahead.
LEMMA NewLines ==
    ASSUME NEW l \in LogRow, NEW from \in Nat, NEW to \in Nat
    PROVE  /\ NewOf(l, from, to) \in Seq(Nat)
           /\ NewOf(l, from, to) # <<>> /\ from <= l.total =>
                 /\ InTurn(NewOf(l, from, to)) /\ NewOf(l, from, to)[1] = l.total + 1
                 /\ EndOf(NewOf(l, from, to)) = l.total + Len(NewOf(l, from, to))
<1> DEFINE skip == IF from < l.total THEN l.total - from ELSE 0
           count == IF to - from > skip THEN to - from - skip ELSE 0
           new == [i \in 1 .. count |-> from + skip + i]
<1>1. l.total \in Nat
  BY DEF LogRow
<1>2. PICK k \in Nat : k = skip
  BY <1>1
<1>3. PICK c \in Nat : c = count
  BY <1>2
<1>4. NewOf(l, from, to) = new
  BY DEF NewOf
<1>5. new = [i \in 1 .. c |-> from + k + i]
  BY <1>2, <1>3
<1>6. \A i \in 1 .. c : from + k + i \in Nat
  BY <1>2, <1>3
<1> HIDE DEF new
<1>7. new \in Seq(Nat) /\ Len(new) = c /\ \A i \in 1 .. c : new[i] = from + k + i
  BY <1>5, <1>6
<1>8. ASSUME new # <<>>, from <= l.total
      PROVE  InTurn(new) /\ new[1] = l.total + 1 /\ EndOf(new) = l.total + c
  <2>1. from + k = l.total
    BY <1>1, <1>2, <1>8
  <2>2. c > 0
    BY <1>3, <1>7, <1>8
  <2>3. InTurn(new)
    <3> SUFFICES ASSUME NEW i \in 1 .. c - 1 PROVE new[i + 1] = new[i] + 1
      BY <1>7 DEF InTurn
    <3>1. i \in 1 .. c /\ i + 1 \in 1 .. c
      BY <1>3
    <3>2. new[i] = from + k + i /\ new[i + 1] = from + k + (i + 1)
      BY <1>7, <3>1
    <3>3. QED
      BY <1>2, <3>1, <3>2
  <2>4. 1 \in 1 .. c /\ c \in 1 .. c
    BY <1>3, <2>2
  <2>5. new[1] = l.total + 1 /\ new[c] = l.total + c
    BY <1>7, <2>1, <2>4
  <2>6. QED
    BY <1>7, <1>8, <2>3, <2>5 DEF EndOf
<1>9. QED
  BY <1>4, <1>7, <1>8

\* The tail the Hub keeps.
LEMMA TailKept ==
    ASSUME NEW s \in Seq(Nat)
    PROVE  /\ LastOf(s) \in Seq(Nat) /\ Len(LastOf(s)) <= MaxLive
           /\ InTurn(s) => InTurn(LastOf(s))
           /\ EndOf(LastOf(s)) = EndOf(s)
<1>1. CASE Len(s) <= MaxLive
  BY <1>1 DEF LastOf
<1>2. CASE Len(s) > MaxLive
  <2>1. PICK m \in Nat : m = MaxLive /\ m > 0
    BY LogBounds
  <2>2. PICK n \in Nat : n = Len(s) /\ n > m
    BY <1>2, <2>1
  <2>3. PICK b \in Nat : b = n - m
    <3>1. n - m \in Nat
      BY <2>1, <2>2
    <3>2. QED
      BY <3>1
  <2> DEFINE t == SubSeq(s, b + 1, n)
  <2>4. LastOf(s) = t
    BY <1>2, <2>1, <2>2, <2>3 DEF LastOf
  <2>5. \A i \in b + 1 .. n : s[i] \in Nat
    BY <2>2, <2>3
  <2>6. t \in Seq(Nat) /\ Len(t) = m /\ \A i \in 1 .. m : t[i] = s[b + i]
    <3>1. t = [i \in 1 .. (1 + n - (b + 1)) |-> s[i + (b + 1) - 1]]
      BY <2>2, <2>3
    <3>2. 1 + n - (b + 1) = m
      BY <2>1, <2>2, <2>3
    <3>3. \A i \in 1 .. m : i + (b + 1) - 1 = b + i /\ b + i \in b + 1 .. n
      BY <2>1, <2>2, <2>3
    <3>4. t = [i \in 1 .. m |-> s[b + i]] /\ \A i \in 1 .. m : s[b + i] \in Nat
      BY <2>5, <3>1, <3>2, <3>3
    <3>5. t = [i \in 1 .. m |-> s[b + i]] => t \in Seq(Nat) /\ Len(t) = m /\ \A i \in 1 .. m : t[i] = s[b + i]
      <4> HIDE DEF t
      <4>1. QED
        BY <2>1, <3>4
    <3>6. QED
      BY <3>4, <3>5
  <2> HIDE DEF t
  <2>7. InTurn(s) => InTurn(t)
    <3> SUFFICES ASSUME InTurn(s), NEW i \in 1 .. m - 1 PROVE t[i + 1] = t[i] + 1
      BY <2>6 DEF InTurn
    <3>1. b + i \in 1 .. n - 1 /\ b + (i + 1) = (b + i) + 1 /\ i \in 1 .. m /\ i + 1 \in 1 .. m
      BY <2>1, <2>2, <2>3
    <3>2. s[(b + i) + 1] = s[b + i] + 1
      BY <2>2, <3>1 DEF InTurn
    <3>3. QED
      BY <2>6, <3>1, <3>2
  <2>8. EndOf(t) = EndOf(s)
    <3>1. t[m] = s[n] /\ t # <<>> /\ s # <<>>
      BY <2>1, <2>2, <2>3, <2>6
    <3>2. QED
      BY <2>2, <2>6, <3>1 DEF EndOf
  <2>9. QED
    BY <2>1, <2>4, <2>6, <2>7, <2>8
<1>3. QED
  <2>1. Len(s) \in Nat /\ MaxLive \in Nat
    BY LogBounds
  <2>2. QED
    BY <1>1, <1>2, <2>1

\* What an event changes for the watchers.
LEMMA GivenKeeps ==
    ASSUME LogTyped, LogKept, NEW e \in Event
    PROVE  /\ Given(Of(live), e) \in [Watchers -> WatcherRow]
           /\ \A w \in Watchers : LET x == Given(Of(live), e)[w] IN
                 /\ x.doing = watcher[w].doing /\ x.shown = watcher[w].shown
                 /\ Len(x.chan) <= Room
                 /\ w \notin Of(live).subs \/ watcher[w].doing # "watching" => x = watcher[w]
                 /\ w \in Of(live).subs /\ ~x.missed => ~watcher[w].missed /\ x.chan = Append(watcher[w].chan, e)
<1> DEFINE given(w) == IF w \notin Of(live).subs \/ watcher[w].doing # "watching" THEN watcher[w]
                       ELSE IF Len(watcher[w].chan) < Room THEN [watcher[w] EXCEPT !.chan = Append(@, e)]
                       ELSE [watcher[w] EXCEPT !.missed = TRUE]
<1>1. ASSUME NEW w \in Watchers
      PROVE  /\ given(w) \in WatcherRow
             /\ given(w).doing = watcher[w].doing /\ given(w).shown = watcher[w].shown
             /\ Len(given(w).chan) <= Room
             /\ w \notin Of(live).subs \/ watcher[w].doing # "watching" => given(w) = watcher[w]
             /\ w \in Of(live).subs /\ ~given(w).missed => ~watcher[w].missed /\ given(w).chan = Append(watcher[w].chan, e)
  <2>1. watcher[w] \in WatcherRow
    BY DEF LogTyped
  <2>2. watcher[w].chan \in Seq(Event) /\ Len(watcher[w].chan) <= Room /\ Room \in Nat
    BY <2>1, LogBounds DEF WatcherRow, LogKept
  <2>3. Append(watcher[w].chan, e) \in Seq(Event) /\ Len(Append(watcher[w].chan, e)) = Len(watcher[w].chan) + 1
    BY <2>2
  <2>4. Len(watcher[w].chan) \in Nat
    BY <2>2
  <2> HIDE DEF Event
  <2>5. CASE w \notin Of(live).subs \/ watcher[w].doing # "watching"
    <3>1. given(w) = watcher[w]
      BY <2>5
    <3>2. w \in Of(live).subs => watcher[w].doing = "watching"
      BY DEF LogKept
    <3>3. QED
      BY <2>1, <2>2, <2>5, <3>1, <3>2
  <2>6. CASE ~(w \notin Of(live).subs \/ watcher[w].doing # "watching") /\ Len(watcher[w].chan) < Room
    <3>1. given(w) = [watcher[w] EXCEPT !.chan = Append(@, e)]
      BY <2>6
    <3>2. given(w) \in WatcherRow /\ given(w).doing = watcher[w].doing /\ given(w).shown = watcher[w].shown
          /\ given(w).chan = Append(watcher[w].chan, e) /\ given(w).missed = watcher[w].missed
      BY <2>1, <2>3, <3>1 DEF WatcherRow
    <3>3. Len(given(w).chan) <= Room
      BY <2>2, <2>3, <2>4, <2>6, <3>2
    <3>4. QED
      BY <2>6, <3>2, <3>3
  <2>7. CASE ~(w \notin Of(live).subs \/ watcher[w].doing # "watching") /\ ~(Len(watcher[w].chan) < Room)
    <3>1. given(w) = [watcher[w] EXCEPT !.missed = TRUE]
      BY <2>7
    <3>2. given(w) \in WatcherRow /\ given(w).doing = watcher[w].doing /\ given(w).shown = watcher[w].shown
          /\ given(w).chan = watcher[w].chan /\ given(w).missed
      BY <2>1, <3>1 DEF WatcherRow
    <3>3. QED
      BY <2>2, <2>7, <3>2
  <2>8. QED
    BY <2>5, <2>6, <2>7
<1>2. Given(Of(live), e) = [w \in Watchers |-> given(w)]
  BY DEF Given
<1> HIDE DEF given
<1>3. \A w \in Watchers : Given(Of(live), e)[w] = given(w)
  BY <1>2
<1>4. QED
  BY <1>1, <1>2, <1>3

LEMMA SeenTyped ==
    ASSUME NEW x \in WatcherRow
    PROVE  /\ <<x.shown>> \o x.chan \in Seq(Seq(Nat))
           /\ Len(<<x.shown>> \o x.chan) = Len(x.chan) + 1
           /\ \A e \in Event : <<x.shown>> \o Append(x.chan, e) = Append(<<x.shown>> \o x.chan, e)
<1>1. x.shown \in Seq(Nat) /\ x.chan \in Seq(Event)
  BY DEF WatcherRow
<1>2. x.chan \in Seq(Seq(Nat)) /\ <<x.shown>> \in Seq(Seq(Nat))
  BY <1>1 DEF Event
<1>3. \A e \in Event : e \in Seq(Nat)
  BY DEF Event
<1> HIDE DEF Event
<1>4. \A e \in Event : <<x.shown>> \o Append(x.chan, e) = Append(<<x.shown>> \o x.chan, e)
  BY <1>2, <1>3
<1>5. QED
  BY <1>2, <1>4

LEMMA LogInvInit == LogInit => LogInv
<1> SUFFICES ASSUME LogInit PROVE LogInv
  OBVIOUS
<1>1. LogTyped
  <2>1. agent \in AgentRow /\ agent.at <= agent.out
    BY LogBounds DEF LogInit, AgentRow
  <2>2. watcher \in [Watchers -> WatcherRow]
    BY AwayTyped DEF LogInit
  <2>3. QED
    BY <2>1, <2>2 DEF LogInit, LogTyped
<1>2. Of(live) = NoLog
  BY OfOne DEF LogInit
<1>3. LogKept
  <2>1. \A w \in Watchers : watcher[w] = Away
    BY DEF LogInit
  <2>2. 0 <= MaxLive /\ 0 <= Room
    BY LogBounds
  <2>3. Len(<<>>) = 0
    OBVIOUS
  <2>4. QED
    BY <1>2, <2>1, <2>2, <2>3, AwayTyped, NoLogTyped DEF LogKept
<1>4. Counted
  BY <1>2, NoLogTyped DEF LogInit, Counted, InTurn, EndOf
<1>5. QED
  BY <1>1, <1>2, <1>3, <1>4, NoLogTyped DEF LogInv

\* Steps that only the agent's or the job's row shows.
LEMMA LogInvQuiet ==
    ASSUME LogInv, UNCHANGED <<live, watcher, restarted>>,
           logStatus' \in {"running", "reported", "swept"},
           agent' \in AgentRow, agent'.at <= agent'.out,
           ~restarted => Counted'
    PROVE  LogInv'
<1>1. LogTyped' /\ LogKept'
  BY DEF LogInv, LogTyped, LogKept
<1>2. ~restarted => \A w \in Of(live').subs : ViewIsExact(w)'
  BY DEF LogInv, ViewIsExact, Seen
<1>3. QED
  BY <1>1, <1>2 DEF LogInv

\* Output arrives, which the Hub has not seen.
LEMMA LogInvAppend ==
    ASSUME LogInv, NEW lost \in BOOLEAN, AppendLog(lost)
    PROVE  LogInv'
<1>1. PICK s \in agent.sending :
        LET l == Of(live)
            new == NewOf(l, s.from, s.to)
            after == IF l.over \/ new = <<>> THEN l
                     ELSE [l EXCEPT !.total = @ + Len(new), !.buf = LastOf(@ \o new)] IN
        /\ live' = {after}
        /\ watcher' = IF after = l THEN watcher ELSE Given(l, new)
        /\ agent' = [agent EXCEPT !.sending = {},
                                  !.at = IF lost THEN @ ELSE IF after.total < agent.out THEN after.total ELSE agent.out]
        /\ UNCHANGED <<logStatus, restarted>>
  BY DEF AppendLog
<1>2. LogTyped /\ LogKept /\ s.from \in Nat /\ s.to \in Nat
  BY DEF LogInv, LogTyped, AgentRow
<1>3. PICK l \in LogRow : l = Of(live)
  BY <1>2, LiveTyped
<1>4. PICK new \in Seq(Nat) : new = NewOf(l, s.from, s.to)
  BY <1>2, NewLines
<1>5. Len(new) \in Nat /\ l.total \in Nat /\ l.buf \in Seq(Nat) /\ l.subs \subseteq Watchers /\ l.over \in BOOLEAN
  BY DEF LogRow
<1>6. ASSUME NEW after \in LogRow, live' = {after}, Len(after.buf) <= MaxLive, after.subs = l.subs,
             agent' = [agent EXCEPT !.sending = {},
                         !.at = IF lost THEN @ ELSE IF after.total < agent.out THEN after.total ELSE agent.out],
             watcher' = watcher \/ (l.over = FALSE /\ watcher' = Given(l, new) /\ new \in Event)
      PROVE  LogTyped' /\ LogKept' /\ Of(live') = after /\ agent' \in AgentRow /\ agent'.sending = {}
             /\ (agent'.at = agent.at \/ agent'.at <= after.total)
  <2>1. Of(live') = after
    BY <1>6, OfOne
  <2>2. agent \in AgentRow /\ after.total \in Nat /\ agent.out \in Nat /\ agent.at <= agent.out
    BY <1>2 DEF LogTyped, AgentRow, LogRow
  <2>3. agent' \in AgentRow /\ agent'.sending = {} /\ agent'.at <= agent'.out
        /\ (agent'.at = agent.at \/ agent'.at <= after.total)
    <3>1. PICK at \in Nat : at = IF lost THEN agent.at ELSE IF after.total < agent.out THEN after.total ELSE agent.out
      BY <2>2 DEF AgentRow
    <3>2. agent' = [agent EXCEPT !.sending = {}, !.at = at]
      BY <1>6, <3>1
    <3>3. agent' \in AgentRow /\ agent'.sending = {} /\ agent'.at = at /\ agent'.out = agent.out
      BY <2>2, <3>2 DEF AgentRow
    <3>4. at <= agent.out /\ (at = agent.at \/ at <= after.total)
      BY <2>2, <3>1 DEF AgentRow
    <3>5. QED
      BY <3>3, <3>4
  <2>4. watcher' \in [Watchers -> WatcherRow] /\ \A w \in Watchers :
          /\ Len(watcher'[w].chan) <= Room
          /\ watcher'[w].doing = watcher[w].doing
          /\ w \notin l.subs \/ watcher[w].doing # "watching" => watcher'[w] = watcher[w]
    <3>1. CASE watcher' = watcher
      BY <1>2, <3>1 DEF LogTyped, LogKept
    <3>2. CASE watcher' = Given(l, new) /\ new \in Event
      BY <1>2, <1>3, <3>2, GivenKeeps
    <3>3. QED
      BY <1>6, <3>1, <3>2
  <2>5. LogTyped'
    BY <1>1, <1>2, <1>6, <2>3, <2>4 DEF LogTyped
  <2>6. LogKept'
    <3>1. ASSUME NEW w \in Watchers
          PROVE  /\ watcher'[w].doing \in {"away", "let in"} =>
                        watcher'[w].shown = <<>> /\ watcher'[w].chan = <<>> /\ ~watcher'[w].missed
                 /\ w \in after.subs => watcher'[w].doing = "watching"
      <4>1. w \in l.subs => watcher[w].doing = "watching"
        BY <1>2, <1>3 DEF LogKept
      <4>2. watcher[w].doing \in {"away", "let in"} =>
                watcher[w].shown = <<>> /\ watcher[w].chan = <<>> /\ ~watcher[w].missed
        BY <1>2 DEF LogKept
      <4>3. QED
        BY <1>6, <2>4, <4>1, <4>2
    <3>2. QED
      BY <1>6, <2>1, <2>4, <3>1 DEF LogKept
  <2>7. QED
    BY <2>1, <2>3, <2>5, <2>6
<1>7. CASE l.over \/ new = <<>>
  <2>1. live' = {l} /\ watcher' = watcher
        /\ agent' = [agent EXCEPT !.sending = {},
                         !.at = IF lost THEN @ ELSE IF l.total < agent.out THEN l.total ELSE agent.out]
        /\ UNCHANGED <<logStatus, restarted>>
    BY <1>1, <1>3, <1>4, <1>7
  <2>2. Len(l.buf) <= MaxLive
    BY <1>2, <1>3 DEF LogKept
  <2>3. LogTyped' /\ LogKept' /\ Of(live') = l /\ agent'.sending = {} /\ (agent'.at = agent.at \/ agent'.at <= l.total)
    BY <1>6, <2>1, <2>2
  <2>4. ASSUME ~restarted PROVE Counted' /\ \A w \in Of(live').subs : ViewIsExact(w)'
    <3>1. Counted /\ \A w \in l.subs : ViewIsExact(w)
      BY <1>3, <2>4 DEF LogInv
    <3>2. Counted'
      BY <1>3, <2>1, <2>3, <3>1 DEF Counted
    <3>3. \A w \in l.subs : ViewIsExact(w)'
      BY <1>3, <2>1, <2>3, <3>1 DEF ViewIsExact, Seen
    <3>4. QED
      BY <2>3, <3>2, <3>3
  <2>5. QED
    BY <2>1, <2>3, <2>4 DEF LogInv
<1>8. CASE ~(l.over \/ new = <<>>)
  <2>1. PICK buf \in Seq(Nat) : buf = LastOf(l.buf \o new) /\ Len(buf) <= MaxLive
    <3>1. l.buf \o new \in Seq(Nat)
      BY <1>5
    <3>2. QED
      BY <3>1, TailKept
  <2>2. PICK after \in LogRow : /\ after = [l EXCEPT !.total = @ + Len(new), !.buf = LastOf(@ \o new)]
                                /\ after.total = l.total + Len(new) /\ after.buf = buf
                                /\ after.subs = l.subs /\ after.over = l.over
    <3> DEFINE a == [l EXCEPT !.total = @ + Len(new), !.buf = LastOf(@ \o new)]
    <3>1. PICK t \in Nat : t = l.total + Len(new)
      BY <1>5
    <3>2. a = [l EXCEPT !.total = t, !.buf = buf]
      BY <2>1, <3>1
    <3> HIDE DEF a
    <3>3. a \in LogRow /\ a.total = t /\ a.buf = buf /\ a.subs = l.subs /\ a.over = l.over
      BY <2>1, <3>2 DEF LogRow
    <3>4. QED
      BY <3>1, <3>3 DEF a
  <2>3. Len(new) > 0 /\ new \in Event
    BY <1>5, <1>8 DEF Event
  <2>4. after # l
    <3>1. after.total = l.total + Len(new)
      BY <2>2
    <3>2. after.total # l.total
      BY <1>5, <2>3, <3>1
    <3>3. QED
      BY <3>2
  <2>5. /\ live' = {after} /\ watcher' = Given(l, new)
        /\ agent' = [agent EXCEPT !.sending = {},
                         !.at = IF lost THEN @ ELSE IF after.total < agent.out THEN after.total ELSE agent.out]
        /\ UNCHANGED <<logStatus, restarted>>
    BY <1>1, <1>3, <1>4, <1>8, <2>2, <2>4
  <2>6. LogTyped' /\ LogKept' /\ Of(live') = after /\ agent'.sending = {}
        /\ (agent'.at = agent.at \/ agent'.at <= after.total)
    BY <1>6, <1>5, <1>8, <2>1, <2>2, <2>3, <2>5
  <2>7. ASSUME ~restarted PROVE Counted' /\ \A w \in Of(live').subs : ViewIsExact(w)'
    <3>1. Counted /\ \A w \in l.subs : ViewIsExact(w)
      BY <1>3, <2>7 DEF LogInv
    <3>2. logStatus # "reported" /\ s.from <= l.total /\ agent.at <= l.total /\ InTurn(l.buf) /\ EndOf(l.buf) = l.total
      BY <1>3, <3>1 DEF Counted
    <3>3. InTurn(new) /\ new[1] = l.total + 1 /\ EndOf(new) = after.total
      BY <1>2, <1>4, <1>8, <2>2, <3>2, NewLines
    <3>4. InTurn(buf) /\ EndOf(buf) = after.total
      <4>1. l.buf \o new \in Seq(Nat) /\ InTurn(l.buf \o new) /\ EndOf(l.buf \o new) = after.total
        BY <1>5, <2>3, <3>2, <3>3, TurnsJoin
      <4>2. QED
        BY <2>1, <4>1, TailKept
    <3>5. Counted'
      <4>1. agent.at <= l.total + Len(new) /\ agent.at \in Nat
        BY <1>2, <1>5, <3>2 DEF LogTyped, AgentRow
      <4>2. agent'.at <= after.total
        BY <2>2, <2>6, <4>1
      <4>3. QED
        BY <1>8, <2>2, <2>5, <2>6, <3>2, <3>4, <4>2 DEF Counted
    <3>6. ASSUME NEW w \in l.subs PROVE ViewIsExact(w)'
      <4>1. w \in Watchers /\ watcher[w] \in WatcherRow
        BY <1>2, <1>5, <3>6 DEF LogTyped
      <4> SUFFICES ASSUME watcher'[w].doing = "watching", ~watcher'[w].missed
                   PROVE  GoesOn(Seen(w)', Len(Seen(w)'), after.total)
        BY <1>8, <2>2, <2>6 DEF ViewIsExact
      <4>2. /\ ~watcher[w].missed /\ watcher'[w].chan = Append(watcher[w].chan, new)
            /\ watcher'[w].shown = watcher[w].shown /\ watcher[w].doing = "watching"
        BY <1>2, <1>3, <2>3, <2>5, <3>6, <4>1, GivenKeeps
      <4>3. GoesOn(Seen(w), Len(Seen(w)), l.total)
        BY <1>3, <1>8, <3>1, <3>6, <4>2 DEF ViewIsExact
      <4>4. Seen(w) \in Seq(Seq(Nat)) /\ Seen(w)' = Append(Seen(w), new)
        BY <2>3, <4>1, <4>2, SeenTyped DEF Seen
      <4>5. QED
        BY <1>5, <2>3, <3>3, <4>3, <4>4, EventGoesOn
    <3>7. QED
      BY <2>2, <2>6, <3>5, <3>6
  <2>8. QED
    BY <2>5, <2>6, <2>7 DEF LogInv
<1>9. QED
  BY <1>7, <1>8

\* The job reports; whoever watches is told.
LEMMA LogInvEnd ==
    ASSUME LogInv, ReportEnd
    PROVE  LogInv'
<1>1. LogTyped /\ LogKept /\ agent.sending = {} /\ logStatus # "reported"
      /\ logStatus' = "reported" /\ agent' = agent /\ restarted' = restarted
  BY DEF LogInv, ReportEnd
<1>2. CASE live = {}
  <2>1. UNCHANGED <<live, watcher>>
    BY <1>2 DEF ReportEnd
  <2>2. LogTyped' /\ LogKept'
    BY <1>1, <2>1 DEF LogTyped, LogKept
  <2>3. ~restarted => Counted'
    BY <1>1, <2>1 DEF LogInv, Counted
  <2>4. ~restarted => \A w \in Of(live').subs : ViewIsExact(w)'
    BY <2>1 DEF LogInv, ViewIsExact, Seen
  <2>5. QED
    BY <1>1, <2>2, <2>3, <2>4 DEF LogInv
<1>3. CASE live # {}
  <2>1. PICK l \in LogRow : l = Of(live)
    BY <1>1, LiveTyped
  <2>2. live' = {[l EXCEPT !.over = TRUE]} /\ watcher' = Given(Of(live), Done)
    BY <1>3, <2>1 DEF ReportEnd
  <2>3. PICK after \in LogRow : /\ live' = {after} /\ after.over /\ after.total = l.total
                                /\ after.buf = l.buf /\ after.subs = l.subs
    <3> DEFINE a == [l EXCEPT !.over = TRUE]
    <3>1. a \in LogRow /\ a.over /\ a.total = l.total /\ a.buf = l.buf /\ a.subs = l.subs
      BY DEF LogRow
    <3>2. QED
      BY <2>2, <3>1
  <2>4. Of(live') = after
    BY <2>3, OfOne
  <2>5. watcher' \in [Watchers -> WatcherRow] /\ \A w \in Watchers :
          /\ Len(watcher'[w].chan) <= Room
          /\ watcher'[w].doing = watcher[w].doing /\ watcher'[w].shown = watcher[w].shown
          /\ w \notin l.subs \/ watcher[w].doing # "watching" => watcher'[w] = watcher[w]
          /\ w \in l.subs /\ ~watcher'[w].missed => ~watcher[w].missed /\ watcher'[w].chan = Append(watcher[w].chan, Done)
    BY <1>1, <2>1, <2>2, GivenKeeps, DoneEvent
  <2>6. LogTyped'
    BY <1>1, <2>3, <2>5 DEF LogTyped
  <2>7. ASSUME NEW w \in Watchers
        PROVE  /\ watcher'[w].doing \in {"away", "let in"} =>
                      watcher'[w].shown = <<>> /\ watcher'[w].chan = <<>> /\ ~watcher'[w].missed
               /\ w \in after.subs => watcher'[w].doing = "watching"
    <3>1. w \in l.subs => watcher[w].doing = "watching"
      BY <1>1, <2>1 DEF LogKept
    <3>2. watcher[w].doing \in {"away", "let in"} =>
              watcher[w].shown = <<>> /\ watcher[w].chan = <<>> /\ ~watcher[w].missed
      BY <1>1 DEF LogKept
    <3>3. QED
      BY <2>3, <2>5, <3>1, <3>2
  <2>8. LogKept'
    <3>1. Len(after.buf) <= MaxLive
      BY <1>1, <2>1, <2>3 DEF LogKept
    <3>2. QED
      BY <2>4, <2>5, <2>7, <3>1 DEF LogKept
  <2>9. ASSUME ~restarted PROVE Counted' /\ \A w \in Of(live').subs : ViewIsExact(w)'
    <3>1. Counted /\ \A w \in l.subs : ViewIsExact(w)
      BY <2>1, <2>9 DEF LogInv
    <3>2. ~l.over
      BY <1>1, <2>1, <3>1 DEF Counted
    <3>3. Counted'
      BY <1>1, <2>1, <2>3, <2>4, <3>1 DEF Counted
    <3>4. ASSUME NEW w \in l.subs PROVE ViewIsExact(w)'
      <4>1. w \in Watchers /\ watcher[w] \in WatcherRow /\ l.total \in Nat
        BY <1>1, <3>4 DEF LogTyped, LogRow
      <4> SUFFICES ASSUME watcher'[w].doing = "watching", ~watcher'[w].missed
                   PROVE  /\ GoesOn(Seen(w)', Len(Seen(w)') - 1, l.total)
                          /\ Seen(w)'[Len(Seen(w)')] = Done
        BY <2>3, <2>4 DEF ViewIsExact
      <4>2. /\ ~watcher[w].missed /\ watcher'[w].chan = Append(watcher[w].chan, Done)
            /\ watcher'[w].shown = watcher[w].shown /\ watcher[w].doing = "watching"
        BY <2>5, <3>4, <4>1
      <4>3. GoesOn(Seen(w), Len(Seen(w)), l.total)
        BY <2>1, <3>1, <3>2, <3>4, <4>2 DEF ViewIsExact
      <4>4. Seen(w) \in Seq(Seq(Nat)) /\ Seen(w)' = Append(Seen(w), Done)
        BY <4>1, <4>2, SeenTyped, DoneEvent DEF Seen
      <4>5. QED
        BY <4>1, <4>3, <4>4, EndGoesOn
    <3>5. QED
      BY <2>3, <2>4, <3>3, <3>4
  <2>10. QED
    BY <1>1, <2>6, <2>8, <2>9 DEF LogInv
<1>4. QED
  BY <1>2, <1>3

\* The log is forgotten, or the Hub starts again.
LEMMA LogInvForgotten ==
    ASSUME LogInv, Forget \/ LogHubRestart
    PROVE  LogInv'
<1>1. LogTyped /\ LogKept /\ live' = {} /\ Of(live') = NoLog
  BY OfOne DEF LogInv, Forget, LogHubRestart
<1>2. CASE Forget
  <2>1. UNCHANGED <<logStatus, agent, watcher, restarted>> /\ Of(live).over
    BY <1>2 DEF Forget
  <2>2. LogTyped'
    BY <1>1, <2>1 DEF LogTyped
  <2>3. LogKept'
    <3>1. Len(NoLog.buf) <= MaxLive
      BY NoLogTyped, LogBounds
    <3>2. QED
      BY <1>1, <2>1, <3>1, NoLogTyped DEF LogKept
  <2>4. ~restarted => Counted'
    <3>1. InTurn(<<>>) /\ EndOf(<<>>) = 0
      BY DEF InTurn, EndOf
    <3>2. ~restarted => logStatus = "reported" /\ agent.sending = {}
      BY <2>1 DEF LogInv, Counted
    <3>3. QED
      BY <1>1, <2>1, <3>1, <3>2, NoLogTyped DEF Counted
  <2>5. QED
    BY <1>1, <2>1, <2>2, <2>3, <2>4, NoLogTyped DEF LogInv
<1>3. CASE LogHubRestart
  <2>1. restarted' = TRUE /\ logStatus' = logStatus
        /\ agent' = [agent EXCEPT !.sending = {}]
        /\ watcher' = [w \in Watchers |-> IF watcher[w].doing \in {"let in", "watching"}
                                          THEN [Away EXCEPT !.doing = "cut off"] ELSE watcher[w]]
    BY <1>3 DEF LogHubRestart
  <2>2. agent' \in AgentRow /\ agent'.at <= agent'.out
    BY <1>1, <2>1 DEF LogTyped, AgentRow
  <2>3. [Away EXCEPT !.doing = "cut off"] \in WatcherRow /\ [Away EXCEPT !.doing = "cut off"].doing = "cut off"
        /\ [Away EXCEPT !.doing = "cut off"].chan = <<>>
    BY AwayTyped DEF WatcherRow
  <2>4. watcher' \in [Watchers -> WatcherRow]
    BY <1>1, <2>1, <2>3 DEF LogTyped
  <2>5. LogTyped'
    BY <1>1, <2>1, <2>2, <2>4 DEF LogTyped
  <2>6. LogKept'
    <3>1. Len(NoLog.buf) <= MaxLive /\ 0 <= Room
      BY NoLogTyped, LogBounds
    <3>2. \A w \in Watchers : watcher'[w] = watcher[w] \/ watcher'[w] = [Away EXCEPT !.doing = "cut off"]
      BY <2>1
    <3>3. Len(<<>>) = 0
      OBVIOUS
    <3>4. \A w \in Watchers :
             /\ Len(watcher'[w].chan) <= Room
             /\ watcher'[w].doing \in {"away", "let in"} => watcher'[w] = watcher[w]
      BY <1>1, <2>3, <3>1, <3>2, <3>3 DEF LogKept
    <3>5. \A w \in Watchers : watcher'[w].doing \in {"away", "let in"} =>
             watcher'[w].shown = <<>> /\ watcher'[w].chan = <<>> /\ ~watcher'[w].missed
      BY <1>1, <3>4 DEF LogKept
    <3>6. QED
      BY <1>1, <3>1, <3>4, <3>5, NoLogTyped DEF LogKept
  <2>7. QED
    BY <2>1, <2>5, <2>6 DEF LogInv
<1>4. QED
  BY <1>2, <1>3

LEMMA ShownTyped ==
    ASSUME NEW x \in WatcherRow, x.chan # <<>>
    PROVE  /\ Head(x.chan) \in Event /\ Tail(x.chan) \in Seq(Event)
           /\ Len(Tail(x.chan)) = Len(x.chan) - 1 /\ Len(x.chan) \in Nat \ {0}
           /\ x.shown \o Head(x.chan) \in Seq(Nat)
           /\ (<<x.shown>> \o x.chan)[2] = Head(x.chan)
<1>1. x.shown \in Seq(Nat) /\ x.chan \in Seq(Event)
  BY DEF WatcherRow
<1>2. Head(x.chan) \in Event /\ Tail(x.chan) \in Seq(Event)
      /\ Len(Tail(x.chan)) = Len(x.chan) - 1 /\ Len(x.chan) \in Nat \ {0}
  BY <1>1
<1>3. Head(x.chan) \in Seq(Nat)
  BY <1>2 DEF Event
<1>4. QED
  BY <1>1, <1>2, <1>3

\* A watcher asks, is let in, shows what comes, goes away.
LEMMA LogInvWatch ==
    ASSUME LogInv, NEW w \in Watchers, Open(w) \/ Subscribe(w) \/ Show(w) \/ Leave(w)
    PROVE  LogInv'
<1>1. LogTyped /\ LogKept /\ UNCHANGED <<logStatus, agent, restarted>>
  BY DEF LogInv, Open, Subscribe, Show, Leave
<1>2. PICK l \in LogRow : l = Of(live) /\ (live = {} \/ live = {l})
  BY <1>1, LiveTyped
<1>3. PICK x \in WatcherRow : x = watcher[w]
  BY <1>1 DEF LogTyped
<1>4. /\ Len(l.buf) <= MaxLive /\ Len(x.chan) <= Room
      /\ x.doing \in {"away", "let in"} => x.shown = <<>> /\ x.chan = <<>> /\ ~x.missed
      /\ w \in l.subs => x.doing = "watching"
  BY <1>1, <1>2, <1>3 DEF LogKept
\* What holds of the others, and of the log, stays.
<1>5. ASSUME NEW y \in WatcherRow, watcher' = [watcher EXCEPT ![w] = y],
             NEW after \in LogRow, (live' = {} /\ after = NoLog) \/ live' = {after},
             after.buf = l.buf, after.total = l.total, after.over = l.over,
             after.subs \subseteq l.subs \cup {w},
             Len(y.chan) <= Room,
             y.doing \in {"away", "let in"} => y.shown = <<>> /\ y.chan = <<>> /\ ~y.missed,
             w \in after.subs => y.doing = "watching",
             ~restarted /\ Counted /\ (w \in l.subs => ViewIsExact(w)) /\ w \in after.subs => ViewIsExact(w)'
      PROVE  LogInv'
  <2>1. Of(live') = after
    BY <1>5, OfOne
  <2>2. watcher' \in [Watchers -> WatcherRow] /\ watcher'[w] = y
        /\ \A v \in Watchers \ {w} : watcher'[v] = watcher[v]
    BY <1>1, <1>5 DEF LogTyped
  <2>3. live' = {} \/ live' = {after}
    BY <1>5
  <2>4. LogTyped'
    BY <1>1, <2>2, <2>3 DEF LogTyped
  <2>5. LogKept'
    <3>1. Len(after.buf) <= MaxLive
      BY <1>4, <1>5
    <3>2. ASSUME NEW v \in Watchers
          PROVE  /\ Len(watcher'[v].chan) <= Room
                 /\ watcher'[v].doing \in {"away", "let in"} =>
                        watcher'[v].shown = <<>> /\ watcher'[v].chan = <<>> /\ ~watcher'[v].missed
                 /\ v \in after.subs => watcher'[v].doing = "watching"
      <4>1. CASE v = w
        BY <1>5, <2>2, <4>1
      <4>2. CASE v # w
        <5>1. v \in after.subs => v \in Of(live).subs
          BY <1>2, <1>5, <4>2
        <5>2. QED
          BY <1>1, <2>2, <4>2, <5>1 DEF LogKept
      <4>3. QED
        BY <4>1, <4>2
    <3>3. QED
      BY <2>1, <3>1, <3>2 DEF LogKept
  <2>6. ASSUME ~restarted PROVE Counted' /\ \A v \in Of(live').subs : ViewIsExact(v)'
    <3>1. Counted /\ \A v \in l.subs : ViewIsExact(v)
      BY <1>2, <2>6 DEF LogInv
    <3>2. Counted'
      BY <1>1, <1>2, <1>5, <2>1, <3>1 DEF Counted
    <3>3. ASSUME NEW v \in after.subs PROVE ViewIsExact(v)'
      <4>1. CASE v = w
        BY <1>5, <2>6, <3>1, <3>3, <4>1
      <4>2. CASE v # w
        <5>1. v \in l.subs /\ v \in Watchers
          BY <1>5, <4>2 DEF LogRow
        <5>2. watcher'[v] = watcher[v]
          BY <2>2, <4>2, <5>1
        <5>3. QED
          BY <1>2, <1>5, <2>1, <3>1, <5>1, <5>2 DEF ViewIsExact, Seen
      <4>3. QED
        BY <4>1, <4>2
    <3>4. QED
      BY <2>1, <3>2, <3>3
  <2>7. QED
    BY <1>1, <2>4, <2>5, <2>6 DEF LogInv
<1>6. CASE Open(w)
  <2>1. PICK y \in WatcherRow : /\ watcher' = [watcher EXCEPT ![w] = y]
                                /\ y.doing \in {"let in", "told"} /\ y.shown = x.shown /\ y.chan = x.chan
                                /\ y.missed = x.missed
    <3>1. PICK d \in {"let in", "told"} : watcher' = [watcher EXCEPT ![w].doing = d]
      BY <1>6 DEF Open
    <3>2. [x EXCEPT !.doing = d] \in WatcherRow
      BY DEF WatcherRow
    <3>3. watcher' = [watcher EXCEPT ![w] = [x EXCEPT !.doing = d]]
      BY <1>1, <1>3, <3>1 DEF LogTyped
    <3>4. QED
      BY <3>2, <3>3 DEF WatcherRow
  <2>2. live' = live /\ x.doing = "away"
    BY <1>3, <1>6 DEF Open
  <2>3. w \notin l.subs
    BY <1>4, <2>2
  <2>4. (live' = {} /\ l = NoLog) \/ live' = {l}
    BY <1>2, <2>2, OfOne
  <2>5. QED
    BY <1>4, <1>5, <2>1, <2>2, <2>3, <2>4
<1>7. CASE Subscribe(w)
  <2>1. x.doing = "let in" /\ x.chan = <<>> /\ ~x.missed
    BY <1>3, <1>4, <1>7 DEF Subscribe
  <2>2. live' = {IF l.over THEN l ELSE [l EXCEPT !.subs = @ \cup {w}]}
        /\ watcher' = [watcher EXCEPT ![w].shown = l.buf, ![w].doing = IF l.over THEN "told" ELSE "watching"]
    BY <1>2, <1>7 DEF Subscribe
  <2>3. PICK after \in LogRow : /\ live' = {after} /\ after.buf = l.buf /\ after.total = l.total
                                /\ after.over = l.over /\ after.subs = IF l.over THEN l.subs ELSE l.subs \cup {w}
    <3>1. CASE l.over
      BY <2>2, <3>1
    <3>2. CASE ~l.over
      <4> DEFINE a == [l EXCEPT !.subs = @ \cup {w}]
      <4>1. live' = {a}
        BY <2>2, <3>2
      <4>2. a \in LogRow /\ a.buf = l.buf /\ a.total = l.total /\ a.over = l.over /\ a.subs = l.subs \cup {w}
        BY DEF LogRow
      <4>3. QED
        BY <3>2, <4>1, <4>2
    <3>3. QED
      BY <3>1, <3>2
  <2>4. l.buf \in Seq(Nat)
    BY DEF LogRow
  <2>5. PICK y \in WatcherRow : /\ watcher' = [watcher EXCEPT ![w] = y]
                                /\ y.doing = (IF l.over THEN "told" ELSE "watching")
                                /\ y.shown = l.buf /\ y.chan = x.chan
    <3>1. PICK d \in {"told", "watching"} : d = IF l.over THEN "told" ELSE "watching"
      OBVIOUS
    <3>2. [x EXCEPT !.shown = l.buf, !.doing = d] \in WatcherRow
      BY <2>4 DEF WatcherRow
    <3>3. watcher' = [watcher EXCEPT ![w] = [x EXCEPT !.shown = l.buf, !.doing = d]]
      BY <1>1, <1>3, <2>2, <3>1 DEF LogTyped
    <3>4. QED
      BY <3>1, <3>2, <3>3 DEF WatcherRow
  <2>6. w \notin l.subs
    BY <1>4, <2>1
  <2>7. ASSUME Counted, w \in after.subs PROVE ViewIsExact(w)'
    <3>1. ~l.over /\ y.doing = "watching" /\ Of(live') = after
      BY <2>3, <2>5, <2>6, <2>7, OfOne
    <3>2. watcher'[w] = y
      BY <1>1, <2>5 DEF LogTyped
    <3>3. Seen(w)' = <<l.buf>>
      <4>1. Seen(w)' = <<y.shown>> \o y.chan
        BY <3>2 DEF Seen
      <4>2. y.shown = l.buf /\ y.chan = <<>>
        BY <2>1, <2>5
      <4>3. <<l.buf>> \o <<>> = <<l.buf>>
        BY <2>4
      <4>4. QED
        BY <4>1, <4>2, <4>3
    <3>4. InTurn(l.buf) /\ EndOf(l.buf) = l.total
      BY <1>2, <2>7 DEF Counted
    <3>5. GoesOn(<<l.buf>>, 1, l.total) /\ Len(<<l.buf>>) = 1
      BY <3>4 DEF GoesOn
    <3>6. QED
      BY <2>3, <3>1, <3>3, <3>5 DEF ViewIsExact
  <2>8. y.doing \notin {"away", "let in"} /\ (w \in after.subs => y.doing = "watching")
    BY <2>3, <2>5, <2>6
  <2>9. Len(y.chan) <= Room /\ after.subs \subseteq l.subs \cup {w}
    BY <1>4, <2>3, <2>5
  <2>10. QED
    BY <1>5, <2>3, <2>5, <2>7, <2>8, <2>9
<1>8. CASE Show(w)
  <2>1. PICK event \in Event : event = Head(x.chan)
    BY <1>3, <1>8, ShownTyped DEF Show
  <2>2. /\ x.doing = "watching" /\ x.chan # <<>>
        /\ watcher' = [watcher EXCEPT ![w].chan = Tail(@),
                                      ![w].shown = IF event = Done THEN @ ELSE @ \o event,
                                      ![w].doing = IF event = Done THEN "told" ELSE @]
        /\ live' = {[m EXCEPT !.subs = IF event = Done THEN @ \ {w} ELSE @] : m \in live}
    BY <1>3, <1>8, <2>1 DEF Show
  <2>3. x.shown \in Seq(Nat) /\ Tail(x.chan) \in Seq(Event) /\ x.shown \o event \in Seq(Nat)
        /\ Len(Tail(x.chan)) <= Room
    <3>1. Len(Tail(x.chan)) = Len(x.chan) - 1 /\ Len(x.chan) \in Nat /\ Room \in Nat
      BY <2>2, ShownTyped, LogBounds
    <3>2. Len(Tail(x.chan)) <= Room
      <4>1. PICK k \in Nat : k = Len(x.chan)
        BY <3>1
      <4>2. Len(Tail(x.chan)) = k - 1 /\ k <= Room
        BY <1>4, <3>1, <4>1
      <4>3. k - 1 <= Room
        BY <3>1, <4>2
      <4>4. QED
        BY <4>2, <4>3
    <3>3. QED
      BY <2>1, <2>2, <3>2, ShownTyped DEF WatcherRow
  <2>4. PICK y \in WatcherRow : /\ watcher' = [watcher EXCEPT ![w] = y]
                                /\ y.doing = (IF event = Done THEN "told" ELSE "watching")
                                /\ y.shown = (IF event = Done THEN x.shown ELSE x.shown \o event)
                                /\ y.chan = Tail(x.chan) /\ y.missed = x.missed
    <3>1. PICK d \in {"told", "watching"} : d = IF event = Done THEN "told" ELSE x.doing
      BY <2>2
    <3>2. PICK s \in Seq(Nat) : s = IF event = Done THEN x.shown ELSE x.shown \o event
      BY <2>3
    <3>3. [x EXCEPT !.chan = Tail(x.chan), !.shown = s, !.doing = d] \in WatcherRow
      BY <2>3 DEF WatcherRow
    <3>4. watcher' = [watcher EXCEPT ![w] = [x EXCEPT !.chan = Tail(x.chan), !.shown = s, !.doing = d]]
      BY <1>1, <1>3, <2>2, <3>1, <3>2 DEF LogTyped
    <3>5. QED
      BY <2>2, <3>1, <3>2, <3>3, <3>4 DEF WatcherRow
  <2>5. PICK after \in LogRow : /\ (live' = {} /\ after = NoLog) \/ live' = {after}
                                /\ after.buf = l.buf /\ after.total = l.total /\ after.over = l.over
                                /\ after.subs = IF event = Done THEN l.subs \ {w} ELSE l.subs
    <3>1. CASE live = {}
      <4>1. live' = {} /\ l = NoLog
        BY <1>2, <2>2, <3>1, OfOne
      <4>2. QED
        BY <4>1, NoLogTyped
    <3>2. CASE live = {l}
      <4> DEFINE a == [l EXCEPT !.subs = IF event = Done THEN @ \ {w} ELSE @]
      <4>1. live' = {a}
        BY <2>2, <3>2
      <4>2. a \in LogRow /\ a.buf = l.buf /\ a.total = l.total /\ a.over = l.over
            /\ a.subs = IF event = Done THEN l.subs \ {w} ELSE l.subs
        BY DEF LogRow
      <4>3. QED
        BY <4>1, <4>2
    <3>3. QED
      BY <1>2, <3>1, <3>2
  <2>6. ASSUME w \in l.subs => ViewIsExact(w), w \in after.subs PROVE ViewIsExact(w)'
    <3> SUFFICES ASSUME ~x.missed
                 PROVE  IF l.over
                        THEN /\ GoesOn(Seen(w)', Len(Seen(w)') - 1, l.total)
                             /\ Seen(w)'[Len(Seen(w)')] = Done
                        ELSE GoesOn(Seen(w)', Len(Seen(w)'), l.total)
      <4>1. Of(live') = after /\ watcher'[w] = y
        BY <1>1, <2>4, <2>5, OfOne DEF LogTyped
      <4>2. QED
        BY <2>4, <2>5, <4>1 DEF ViewIsExact
    <3>1. event # Done /\ w \in l.subs
      BY <2>5, <2>6
    <3>2. IF l.over
          THEN GoesOn(Seen(w), Len(Seen(w)) - 1, l.total) /\ Seen(w)[Len(Seen(w))] = Done
          ELSE GoesOn(Seen(w), Len(Seen(w)), l.total)
      BY <1>2, <1>3, <2>2, <2>6, <3>1 DEF ViewIsExact
    <3>3. PICK k \in Nat \ {0} : k = Len(x.chan) /\ Len(Tail(x.chan)) = k - 1
      BY <2>2, ShownTyped
    <3>4. /\ Seen(w) = <<x.shown>> \o x.chan /\ Len(Seen(w)) = k + 1 /\ Seen(w)[2] = event
      BY <1>3, <2>1, <2>2, <3>3, SeenTyped, ShownTyped DEF Seen
    <3>5. /\ Seen(w)' = <<x.shown \o event>> \o Tail(x.chan) /\ Len(Seen(w)') = k
      <4>1. watcher'[w] = y
        BY <1>1, <2>4 DEF LogTyped
      <4>2. Seen(w)' = <<y.shown>> \o y.chan /\ y.shown = x.shown \o event /\ y.chan = Tail(x.chan)
        BY <2>4, <3>1, <4>1 DEF Seen
      <4>3. Len(Seen(w)') = (k - 1) + 1
        BY <3>3, <4>2, SeenTyped
      <4>4. QED
        BY <4>2, <4>3
    <3>6. l.total \in Nat /\ l.over \in BOOLEAN /\ x.shown \in Seq(Nat) /\ x.chan \in Seq(Event)
      BY DEF LogRow, WatcherRow
    <3>7. CASE l.over
      <4>1. k > 1
        BY <3>1, <3>2, <3>4, <3>7
      <4>2. GoesOn(Seen(w), k, l.total)
        BY <3>2, <3>4, <3>7
      <4>3. GoesOn(Seen(w)', k - 1, l.total)
        BY <2>1, <2>2, <3>4, <3>5, <3>6, <4>1, <4>2, ShownGoesOn
      <4>4. Seen(w)'[k] = Seen(w)[k + 1]
        <5>1. /\ x.shown \o event \in Seq(Nat) /\ Tail(x.chan) \in Seq(Event)
          BY <2>3
        <5>2. Seen(w)[k + 1] = x.chan[k]
          BY <3>3, <3>4, <3>6
        <5>3. Tail(x.chan)[k - 1] = x.chan[k]
          BY <3>3, <3>6, <4>1
        <5>4. (<<x.shown \o event>> \o Tail(x.chan))[(k - 1) + 1] = Tail(x.chan)[k - 1]
          BY <3>3, <4>1, <5>1
        <5>5. (k - 1) + 1 = k
          BY <3>3
        <5>6. (<<x.shown \o event>> \o Tail(x.chan))[k] = Tail(x.chan)[k - 1]
          BY <5>4, <5>5
        <5>7. Seen(w)'[k] = Tail(x.chan)[k - 1]
          BY <3>5, <5>6
        <5>8. QED
          BY <5>2, <5>3, <5>7
      <4>5. QED
        BY <3>2, <3>4, <3>5, <3>7, <4>3, <4>4
    <3>8. CASE ~l.over
      <4>1. k + 1 > 1 /\ k + 1 \in Nat
        BY <3>3
      <4>2. GoesOn(<<x.shown>> \o x.chan, k + 1, l.total)
        BY <3>2, <3>4, <3>8
      <4>3. GoesOn(<<x.shown \o Head(x.chan)>> \o Tail(x.chan), (k + 1) - 1, l.total)
        BY <2>2, <3>6, <4>1, <4>2, ShownGoesOn
      <4>4. QED
        BY <2>1, <3>5, <3>8, <4>3
    <3>9. QED
      BY <3>7, <3>8
  <2>7. y.doing \notin {"away", "let in"} /\ (w \in after.subs => y.doing = "watching")
    BY <2>4, <2>5
  <2>8. after.subs \subseteq l.subs \cup {w} /\ Len(y.chan) <= Room
    BY <2>3, <2>4, <2>5
  <2>9. QED
    BY <1>5, <2>4, <2>5, <2>6, <2>7, <2>8
<1>9. CASE Leave(w)
  <2>1. /\ watcher' = [watcher EXCEPT ![w] = [Away EXCEPT !.doing = "cut off"]]
        /\ live' = {[m EXCEPT !.subs = @ \ {w}] : m \in live}
    BY <1>9 DEF Leave
  <2>2. PICK y \in WatcherRow : watcher' = [watcher EXCEPT ![w] = y] /\ y.doing = "cut off" /\ Len(y.chan) <= Room
    <3>1. [Away EXCEPT !.doing = "cut off"] \in WatcherRow /\ [Away EXCEPT !.doing = "cut off"].doing = "cut off"
          /\ [Away EXCEPT !.doing = "cut off"].chan = <<>>
      BY AwayTyped DEF WatcherRow
    <3>2. Len(<<>>) <= Room
      BY LogBounds
    <3>3. QED
      BY <2>1, <3>1, <3>2
  <2>3. PICK after \in LogRow : /\ (live' = {} /\ after = NoLog) \/ live' = {after}
                                /\ after.buf = l.buf /\ after.total = l.total /\ after.over = l.over
                                /\ after.subs = l.subs \ {w}
    <3>1. CASE live = {}
      <4>1. live' = {} /\ l = NoLog
        BY <1>2, <2>1, <3>1, OfOne
      <4>2. QED
        BY <4>1, NoLogTyped
    <3>2. CASE live = {l}
      <4> DEFINE a == [l EXCEPT !.subs = @ \ {w}]
      <4>1. live' = {a}
        BY <2>1, <3>2
      <4>2. a \in LogRow /\ a.buf = l.buf /\ a.total = l.total /\ a.over = l.over /\ a.subs = l.subs \ {w}
        BY DEF LogRow
      <4>3. QED
        BY <4>1, <4>2
    <3>3. QED
      BY <1>2, <3>1, <3>2
  <2>4. w \notin after.subs /\ after.subs \subseteq l.subs \cup {w}
    BY <2>3
  <2>5. QED
    BY <1>5, <2>2, <2>3, <2>4
<1>10. QED
  BY <1>6, <1>7, <1>8, <1>9

LEMMA LogInvStep == LogInv /\ [LogNext]_logVars => LogInv'
<1> SUFFICES ASSUME LogInv, [LogNext]_logVars PROVE LogInv'
  OBVIOUS
<1>0. LogTyped /\ agent \in AgentRow /\ agent.at <= agent.out
      /\ agent.out \in 0 .. MaxOutput /\ agent.at \in Nat /\ MaxOutput \in Nat
  BY LogBounds DEF LogInv, LogTyped, AgentRow
<1>1. CASE Print1
  <2>1. agent' \in AgentRow /\ agent'.out = agent.out + 1 /\ agent'.at = agent.at /\ agent'.sending = agent.sending
    <3>1. agent.out + 1 \in 0 .. MaxOutput /\ agent' = [agent EXCEPT !.out = agent.out + 1]
      BY <1>0, <1>1 DEF Print1
    <3>2. QED
      BY <1>0, <3>1 DEF AgentRow
  <2>2. agent'.at <= agent'.out
    BY <1>0, <2>1
  <2>3. UNCHANGED <<live, watcher, restarted, logStatus>>
    BY <1>1 DEF Print1
  <2>4. ~restarted => Counted'
    BY <2>1, <2>3 DEF LogInv, Counted
  <2>5. QED
    BY <1>0, <2>1, <2>2, <2>3, <2>4, LogInvQuiet DEF LogTyped
<1>2. CASE Send
  <2>1. [from |-> agent.at, to |-> agent.out] \in [from : Nat, to : Nat]
    BY <1>0
  <2>2. agent' \in AgentRow /\ agent'.out = agent.out /\ agent'.at = agent.at
        /\ agent'.sending = {[from |-> agent.at, to |-> agent.out]}
    BY <1>0, <1>2, <2>1 DEF Send, AgentRow
  <2>3. UNCHANGED <<live, watcher, restarted, logStatus>> /\ logStatus = "running"
    BY <1>2 DEF Send
  <2>4. ~restarted => Counted'
    BY <2>2, <2>3 DEF LogInv, Counted
  <2>5. QED
    BY <1>0, <2>2, <2>3, <2>4, LogInvQuiet DEF LogTyped
<1>3. CASE SweepJob
  <2>1. UNCHANGED <<live, watcher, restarted, agent>> /\ logStatus = "running" /\ logStatus' = "swept"
    BY <1>3 DEF SweepJob
  <2>2. ~restarted => Counted'
    BY <2>1 DEF LogInv, Counted
  <2>3. QED
    BY <1>0, <2>1, <2>2, LogInvQuiet
<1>4. CASE UNCHANGED logVars
  <2>1. UNCHANGED <<live, watcher, restarted, agent, logStatus>>
    BY <1>4 DEF logVars
  <2>2. ~restarted => Counted'
    BY <2>1 DEF LogInv, Counted
  <2>3. QED
    BY <1>0, <2>1, <2>2, LogInvQuiet DEF LogTyped
<1>5. QED
  BY <1>1, <1>2, <1>3, <1>4, LogInvAppend, LogInvEnd, LogInvForgotten, LogInvWatch DEF LogNext

LEMMA LogInvHolds == LogSpec => []LogInv
BY LogInvInit, LogInvStep, PTL DEF LogSpec

\* The Hub's log of a job and the watchers' channels stay within their limits,
\* and the agent never counts more lines sent than printed.
LEMMA LogInvTypes == LogInv => LogTypeOK
<1> SUFFICES ASSUME LogInv PROVE LogTypeOK
  OBVIOUS
<1>1. LogTyped /\ LogKept /\ Of(live) \in LogRow /\ (live = {} \/ live = {Of(live)})
  BY LiveTyped DEF LogInv
<1>2. Cardinality(live) <= 1
  <2>1. Cardinality({}) = 0 /\ Cardinality({Of(live)}) = 1
    BY FS_EmptySet, FS_Singleton
  <2>2. QED
    BY <1>1, <2>1
<1>3. Of(live).subs \subseteq Watchers /\ agent.out \in 0 .. MaxOutput /\ agent.at <= agent.out
  BY <1>1 DEF LogTyped, LogRow, AgentRow
<1>4. \A w \in Watchers : watcher[w].doing \in {"away", "let in", "watching", "told", "cut off"}
  BY <1>1 DEF LogTyped, WatcherRow
<1>5. QED
  BY <1>1, <1>2, <1>3, <1>4 DEF LogTyped, LogKept, LogTypeOK

\* Who watches a job and keeps up sees every line once and in order, and then the
\* end, for any output, buffer, channel and number of watchers.
THEOREM ViewsAreExact == LogSpec => []LiveViewIsExact
<1>1. LogInv => LiveViewIsExact
  <2> SUFFICES ASSUME LogInv, ~restarted, NEW w \in Of(live).subs,
                      watcher[w].doing = "watching", ~watcher[w].missed
               PROVE  LET seen == Seen(w)
                          lines == IF Of(live).over THEN Len(seen) - 1 ELSE Len(seen)
                      IN  /\ lines > 0
                          /\ InTurn(seen[1])
                          /\ \A i \in 2 .. lines : InTurn(seen[i]) /\ seen[i][1] = EndOf(seen[i - 1]) + 1
                          /\ EndOf(seen[lines]) = Of(live).total
                          /\ Of(live).over => seen[lines + 1] = Done
    BY DEF LiveViewIsExact
  <2>1. ViewIsExact(w)
    BY DEF LogInv
  <2>2. PICK n \in Nat : n = Len(Seen(w))
    <3>1. w \in Watchers
      BY LiveTyped DEF LogInv, LogRow
    <3>2. watcher[w] \in WatcherRow
      BY <3>1 DEF LogInv, LogTyped
    <3>3. QED
      BY <3>2, SeenTyped DEF Seen
  <2>3. CASE Of(live).over
    <3>1. GoesOn(Seen(w), n - 1, Of(live).total) /\ Seen(w)[n] = Done
      BY <2>1, <2>2, <2>3 DEF ViewIsExact
    <3>2. (n - 1) + 1 = n
      OBVIOUS
    <3>3. QED
      BY <2>2, <2>3, <3>1, <3>2 DEF GoesOn
  <2>4. CASE ~Of(live).over
    <3>1. GoesOn(Seen(w), n, Of(live).total)
      BY <2>1, <2>2, <2>4 DEF ViewIsExact
    <3>2. QED
      BY <2>2, <2>4, <3>1 DEF GoesOn
  <2>5. QED
    BY <2>3, <2>4
<1>2. QED
  BY <1>1, LogInvHolds, PTL

\* Every variable of a job's log keeps its type.
THEOREM LogTypeCorrect == LogSpec => []LogTypeOK
BY LogInvHolds, LogInvTypes, PTL

-----------------------------------------------------------------------------
(* Snapshots: generations, and where data came from.                         *)

LEMMA SnapBounds ==
    /\ Keep \in Nat \ {0} /\ MoveWait \in Nat /\ MaxWrites \in Nat
    /\ MaxJobs \in Nat /\ MaxGenerations \in Nat /\ SnapNodes # {}
BY SnapshotAssumption

LEMMA LeastOf ==
    ASSUME NEW S, S \subseteq Nat, S # {}
    PROVE  \E x \in S : \A y \in S : x <= y
<1>1. PICK x \in S : \A y \in S : ~(<<y, x>> \in OpToRel(<, Nat))
  BY NatLessThanWellFounded, WFMin
<1>2. ASSUME NEW y \in S, y < x
      PROVE  FALSE
  <2>1. <<y, x>> \in OpToRel(<, Nat)
    BY <1>2 DEF OpToRel
  <2>2. QED
    BY <1>1, <2>1
<1>3. \A y \in S : x <= y
  BY <1>2
<1>4. QED
  BY <1>3

LEMMA MaxOf ==
    ASSUME NEW S, NEW b \in Nat, S \subseteq 0 .. b, S # {}
    PROVE  Max(S) \in S /\ \A y \in S : y <= Max(S)
<1> DEFINE T == {b - y : y \in S}
<1>1. T \subseteq Nat /\ T # {}
  <2>1. \A y \in 0 .. b : b - y \in Nat
    OBVIOUS
  <2>2. QED
    BY <2>1
<1> HIDE DEF T
<1>2. PICK t \in T : \A u \in T : t <= u
  BY <1>1, LeastOf
<1>3. PICK x \in S : t = b - x
  BY DEF T
<1>4. \A y \in S : b - y \in T /\ y \in Int
  BY DEF T
<1>5. \A y \in S : x >= y
  <2> SUFFICES ASSUME NEW y \in S PROVE x >= y
    OBVIOUS
  <2>1. b - x <= b - y /\ x \in Int /\ y \in Int
    BY <1>2, <1>3, <1>4
  <2>2. QED
    BY <2>1
<1>6. \E z \in S : \A y \in S : z >= y
  BY <1>5
<1> DEFINE m == CHOOSE z \in S : \A y \in S : z >= y
<1>7. m \in S /\ \A y \in S : m >= y
  BY <1>6
<1>8. \A y \in S : y <= m
  BY <1>4, <1>7
<1>9. QED
  BY <1>7, <1>8 DEF Max

\* The newest generation of a set of copies.
TopOf(S) == IF S = {} THEN 0 ELSE Max({s.gen : s \in S})

CopyRows(w) == [gen : 1 .. MaxGenerations, data : 0 .. w, job : 0 .. MaxJobs, why : {"node", "restore"}]
Distinct(S) == \A s, t \in S : s.gen = t.gen => s = t

LEMMA TopIs == Top = TopOf(stored) /\ Top' = TopOf(stored')
BY DEF Top, TopOf

LEMMA TopOfIs ==
    ASSUME NEW w, NEW S \in SUBSET CopyRows(w)
    PROVE  /\ TopOf(S) \in 0 .. MaxGenerations
           /\ S = {} => TopOf(S) = 0
           /\ S # {} => TopOf(S) > 0 /\ \E s \in S : s.gen = TopOf(S)
           /\ \A s \in S : s.gen <= TopOf(S) /\ s.gen \in 1 .. MaxGenerations
<1>1. \A s \in S : s.gen \in 1 .. MaxGenerations
  BY DEF CopyRows
<1>2. CASE S = {}
  BY <1>2, SnapBounds DEF TopOf
<1>3. CASE S # {}
  <2> DEFINE gens == {s.gen : s \in S}
  <2>1. gens \subseteq 0 .. MaxGenerations /\ gens # {}
    BY <1>1, <1>3, SnapBounds
  <2>2. \A s \in S : s.gen \in gens
    OBVIOUS
  <2>3. \A g \in gens : \E s \in S : s.gen = g
    OBVIOUS
  <2>4. TopOf(S) = Max(gens)
    BY <1>3 DEF TopOf
  <2> HIDE DEF gens
  <2>5. Max(gens) \in gens /\ \A g \in gens : g <= Max(gens)
    BY <2>1, SnapBounds, MaxOf
  <2>6. PICK s \in S : s.gen = TopOf(S)
    BY <2>3, <2>4, <2>5
  <2>7. TopOf(S) \in 1 .. MaxGenerations
    BY <1>1, <2>6
  <2>8. QED
    BY <1>1, <1>3, <2>2, <2>4, <2>5, <2>6, <2>7, SnapBounds
<1>4. QED
  BY <1>2, <1>3

\* Another set of copies has the same newest one.
LEMMA TopOfSame ==
    ASSUME NEW w, NEW S \in SUBSET CopyRows(w), NEW T \in SUBSET S,
           \A s \in S : s.gen = TopOf(S) => s \in T
    PROVE  TopOf(T) = TopOf(S)
<1>1. T \in SUBSET CopyRows(w)
  OBVIOUS
<1>2. CASE S = {}
  BY <1>2
<1>3. CASE S # {}
  <2>1. PICK s \in S : s.gen = TopOf(S)
    BY <1>3, TopOfIs
  <2>2. s \in T
    BY <2>1
  <2>3. TopOf(S) <= TopOf(T) /\ TopOf(S) \in Nat /\ TopOf(T) \in Nat
    BY <1>1, <2>1, <2>2, TopOfIs, SnapBounds
  <2>4. PICK t \in T : t.gen = TopOf(T)
    BY <1>1, <2>2, TopOfIs
  <2>5. TopOf(T) <= TopOf(S)
    BY <2>4, TopOfIs
  <2>6. QED
    BY <2>3, <2>5
<1>4. QED
  BY <1>2, <1>3

\* A copy that is stored becomes the newest; no more than Keep are left.
LEMMA StoredIs ==
    ASSUME NEW w, stored \in SUBSET CopyRows(w), IsFiniteSet(stored), Distinct(stored),
           TopOf(stored) < MaxGenerations,
           NEW c \in [gen : Nat, data : 0 .. w, job : 0 .. MaxJobs, why : {"node", "restore"}]
    PROVE  /\ Stored(stored, c) \in SUBSET CopyRows(w)
           /\ IsFiniteSet(Stored(stored, c)) /\ Cardinality(Stored(stored, c)) <= Keep
           /\ Distinct(Stored(stored, c))
           /\ Stored(stored, c) \subseteq stored \cup {[c EXCEPT !.gen = TopOf(stored) + 1]}
           /\ [c EXCEPT !.gen = TopOf(stored) + 1] \in Stored(stored, c)
           /\ TopOf(Stored(stored, c)) = TopOf(stored) + 1
<1>1. PICK top \in Nat : top = TopOf(stored)
  BY TopOfIs, SnapBounds
<1>2. PICK new \in CopyRows(w) : new = [c EXCEPT !.gen = top + 1] /\ new.gen = top + 1
  <2>1. top + 1 \in 1 .. MaxGenerations
    BY <1>1, SnapBounds
  <2>2. [c EXCEPT !.gen = top + 1] \in CopyRows(w) /\ [c EXCEPT !.gen = top + 1].gen = top + 1
    BY <2>1 DEF CopyRows
  <2>3. QED
    BY <2>2
<1>3. PICK all : all = stored \cup {new}
  OBVIOUS
<1>4. PICK kept : kept = {x \in all : Cardinality({y \in all : y.gen > x.gen}) < Keep}
  OBVIOUS
<1>5. Stored(stored, c) = kept
  BY <1>1, <1>2, <1>3, <1>4, TopIs DEF Stored
<1>6. all \in SUBSET CopyRows(w) /\ IsFiniteSet(all)
  BY <1>2, <1>3, FS_AddElement
<1>7. \A s \in stored : s.gen <= top /\ s.gen \in Nat
  BY <1>1, TopOfIs
<1>8. Distinct(all)
  BY <1>1, <1>2, <1>3, <1>7 DEF Distinct
<1>9. \A s \in all : s.gen <= top + 1 /\ s.gen \in Nat
  BY <1>1, <1>2, <1>3, <1>7
<1>10. new \in kept
  <2>1. {y \in all : y.gen > new.gen} = {}
    BY <1>1, <1>2, <1>9
  <2>2. Cardinality({}) < Keep
    BY FS_EmptySet, SnapBounds
  <2>3. QED
    BY <1>3, <1>4, <2>1, <2>2
<1>11. kept \in SUBSET all /\ IsFiniteSet(kept) /\ Cardinality(kept) \in Nat
  <2>1. kept \in SUBSET all
    BY <1>4
  <2>2. QED
    BY <1>6, <2>1, FS_Subset, FS_CardinalityType
<1>12. Cardinality(kept) <= Keep
  <2>1. PICK gens : gens = {s.gen : s \in kept}
    OBVIOUS
  <2>2. gens \subseteq Nat /\ gens # {}
    BY <1>9, <1>10, <1>11, <2>1
  <2>3. PICK low \in gens : \A g \in gens : low <= g
    BY <2>2, LeastOf
  <2>4. PICK x \in kept : x.gen = low
    BY <2>1
  <2>5. \A y \in kept \ {x} : y.gen > x.gen
    <3> SUFFICES ASSUME NEW y \in kept, y # x PROVE y.gen > x.gen
      OBVIOUS
    <3>1. y.gen \in gens /\ y.gen \in Nat /\ x.gen \in Nat
      BY <1>9, <1>11, <2>1
    <3>2. y.gen # x.gen
      BY <1>8, <1>11 DEF Distinct
    <3>3. QED
      BY <2>3, <2>4, <3>1, <3>2
  <2>6. PICK above : above = {y \in all : y.gen > x.gen}
    OBVIOUS
  <2>7. IsFiniteSet(above) /\ Cardinality(above) \in Nat /\ Cardinality(above) < Keep
    <3>1. above \in SUBSET all
      BY <2>6
    <3>2. Cardinality(above) < Keep
      BY <1>4, <2>4, <2>6
    <3>3. QED
      BY <1>6, <3>1, <3>2, FS_Subset, FS_CardinalityType
  <2>8. kept \ {x} \in SUBSET above
    BY <1>11, <2>5, <2>6
  <2>9. Cardinality(kept \ {x}) <= Cardinality(above)
    BY <2>7, <2>8, FS_Subset
  <2>10. Cardinality(kept \ {x}) = Cardinality(kept) - 1
    BY <1>11, <2>4, FS_RemoveElement
  <2>11. QED
    BY <1>11, <2>7, <2>9, <2>10, SnapBounds
<1>13. kept \in SUBSET CopyRows(w) /\ Distinct(kept)
  BY <1>6, <1>8, <1>11 DEF Distinct
<1>14. TopOf(kept) = top + 1
  <2>1. top + 1 <= TopOf(kept) /\ TopOf(kept) \in Nat
    BY <1>2, <1>10, <1>13, TopOfIs, SnapBounds
  <2>2. PICK s \in kept : s.gen = TopOf(kept)
    BY <1>10, <1>13, TopOfIs
  <2>3. TopOf(kept) <= top + 1
    BY <1>9, <1>11, <2>2
  <2>4. QED
    BY <1>1, <2>1, <2>3
<1>15. QED
  BY <1>1, <1>2, <1>3, <1>5, <1>10, <1>11, <1>12, <1>13, <1>14

LEMMA NewestIs ==
    ASSUME NEW w, stored \in SUBSET CopyRows(w), Distinct(stored), stored # {}
    PROVE  Newest \in stored /\ Newest.gen = Top /\ \A s \in stored : s.gen = Top => s = Newest
<1>1. \E s \in stored : s.gen = Top
  BY TopIs, TopOfIs
<1>2. Newest \in stored /\ Newest.gen = Top
  BY <1>1 DEF Newest
<1>3. QED
  BY <1>2 DEF Distinct

-----------------------------------------------------------------------------

Writes == 0 .. Len(parent)
ParentTyped ==
    /\ parent \in Seq(Nat) /\ Len(parent) <= MaxWrites
    /\ \A v \in DOMAIN parent : parent[v] < v

LEMMA UpToItself ==
    ASSUME NEW v \in Writes
    PROVE  v \in UpTo(v)
BY DEF UpTo, Writes

LEMMA UpToChain ==
    ASSUME NEW u, NEW v, NEW x, u \in UpTo(v), v \in UpTo(x)
    PROVE  u \in UpTo(x)
BY DEF UpTo

\* A write adds to the history of what it was made on top of.
LEMMA UpToGrows ==
    ASSUME ParentTyped, NEW d \in Writes, parent' = Append(parent, d)
    PROVE  /\ Len(parent') = Len(parent) + 1
           /\ \A v \in Writes : UpTo(v) \subseteq UpTo(v)'
           /\ UpTo(d) \subseteq UpTo(Len(parent))'
<1>1. PICK n \in Nat : n = Len(parent) /\ Writes = 0 .. n /\ parent \in Seq(Nat)
  BY DEF ParentTyped, Writes
<1>2. /\ Len(parent') = n + 1 /\ parent'[n + 1] = d
      /\ \A i \in 1 .. n : parent'[i] = parent[i]
  BY <1>1
<1>3. \A i \in 1 .. n : parent[i] \in 0 .. n
  BY <1>1 DEF ParentTyped
<1>4. ASSUME NEW h \in Histories'
      PROVE  /\ h \cap (0 .. n) \in Histories
             /\ n + 1 \in h => d \in h
  <2>1. h \subseteq 0 .. n + 1 /\ \A x \in h \ {0} : parent'[x] \in h
    BY <1>2, <1>4 DEF Histories
  <2>2. ASSUME NEW x \in (h \cap (0 .. n)) \ {0} PROVE parent[x] \in h \cap (0 .. n)
    <3>1. x \in 1 .. n /\ x \in h \ {0}
      BY <2>2
    <3>2. parent'[x] \in h /\ parent'[x] = parent[x] /\ parent[x] \in 0 .. n
      BY <1>2, <1>3, <2>1, <3>1
    <3>3. QED
      BY <3>2
  <2>3. n + 1 \in h => d \in h
    BY <1>1, <1>2, <2>1
  <2>4. QED
    BY <1>1, <2>2, <2>3 DEF Histories
<1>5. \A u \in 0 .. n : u \in 0 .. Len(parent')
  BY <1>1, <1>2
<1>6. ASSUME NEW v \in Writes, NEW u \in UpTo(v)
      PROVE  u \in UpTo(v)'
  <2>1. u \in 0 .. n /\ v \in 0 .. n
    BY <1>1, <1>6 DEF UpTo
  <2>2. ASSUME NEW h \in Histories', v \in h PROVE u \in h
    <3>1. h \cap (0 .. n) \in Histories /\ v \in h \cap (0 .. n)
      BY <1>4, <2>1, <2>2
    <3>2. u \in h \cap (0 .. n)
      BY <1>6, <3>1 DEF UpTo
    <3>3. QED
      BY <3>2
  <2>3. QED
    BY <1>5, <2>1, <2>2 DEF UpTo
<1>7. ASSUME NEW u \in UpTo(d)
      PROVE  u \in UpTo(Len(parent))'
  <2>1. u \in 0 .. n /\ d \in 0 .. n
    BY <1>1, <1>7 DEF UpTo
  <2>2. ASSUME NEW h \in Histories', n + 1 \in h PROVE u \in h
    <3>1. h \cap (0 .. n) \in Histories /\ d \in h \cap (0 .. n)
      BY <1>4, <2>1, <2>2
    <3>2. u \in h \cap (0 .. n)
      BY <1>7, <3>1 DEF UpTo
    <3>3. QED
      BY <3>2
  <2>3. \A k : k = n + 1 => u \in UpTo(k)'
    BY <1>2, <1>5, <2>1, <2>2 DEF UpTo
  <2>4. Len(parent)' = n + 1
    BY <1>2
  <2>5. QED
    BY <2>3, <2>4
<1>8. QED
  BY <1>1, <1>2, <1>6, <1>7

-----------------------------------------------------------------------------

Steps == {"queued", "packed", "stored", "asked", "deaf", "started"}
Kinds == {"snapshot", "deploy", "remove"}
Notes(w) == [data : 0 .. w, gen : 0 .. MaxGenerations]
Jobs(m, w) == [kind : Kinds, id : 1 .. m, step : Steps, after : Nat, waited : Nat,
               copy : Notes(w), chosen : SUBSET Nat]

PlacesTyped ==
    /\ home \in SnapNodes /\ {online, up, behind} \subseteq SUBSET SnapNodes
    /\ dropped \in BOOLEAN /\ made \in 0 .. MaxJobs
DiskTyped == disk \in [SnapNodes -> Notes(Len(parent))]

\* Only the first job of a queue is being run.
QueueTyped ==
    /\ queue \in [SnapNodes -> Seq(Jobs(made, Len(parent)))]
    /\ \A n \in SnapNodes : \A i \in DOMAIN queue[n] : i # 1 => queue[n][i].step = "queued"

StoredTyped ==
    /\ stored \in SUBSET CopyRows(Len(parent)) /\ IsFiniteSet(stored)
    /\ Distinct(stored) /\ Cardinality(stored) <= Keep

SnapTyped == PlacesTyped /\ ParentTyped /\ DiskTyped /\ QueueTyped /\ StoredTyped

\* There is one deploy at most; what was to be removed from its node goes before
\* it, and nothing is removed from the node the project is on.
OneDeploy ==
    /\ \A m, n \in SnapNodes : \A i \in DOMAIN queue[m], k \in DOMAIN queue[n] :
          queue[m][i].kind = "deploy" /\ queue[n][k].kind = "deploy" => m = n /\ i = k
    /\ \A n \in SnapNodes : \A i, k \in DOMAIN queue[n] :
          queue[n][i].kind = "deploy" /\ queue[n][k].kind = "remove" => k < i
    /\ \A i \in DOMAIN queue[home] : queue[home][i].kind # "remove"

\* The job n runs has come to that step.
At(n, step) == queue[n] # <<>> /\ queue[n][1].step = step

\* There is no other data of that generation.
Same(copy) == \A s \in stored : s.gen = copy.gen => s.data = copy.data

\* The number beside n's data tells the truth, and so do the numbers its job has
\* in hand.
Tells(n) ==
    LET copy == Running(n).copy IN
    /\ disk[n].gen <= Top
    /\ \A s \in stored : s.gen = disk[n].gen => s.data \in UpTo(disk[n].data)
    /\ At(n, "packed") => copy.data \in UpTo(disk[n].data)
    /\ At(n, "stored") => copy.gen \in 1 .. Top /\ copy.data \in UpTo(disk[n].data) /\ Same(copy)
    /\ At(n, "asked") /\ copy # Empty => copy.gen \in 1 .. Top /\ disk[n].gen < copy.gen /\ Same(copy)
    /\ At(n, "deaf") => copy = Empty

\* The project's node knows of every copy a node stored, unless it is just
\* about to; so does the job it runs.
HomeKnows ==
    LET mine == {s \in stored : s.why = "node"}
        copy == Running(home).copy IN
    /\ home \notin behind /\ ~At(home, "stored") => \A s \in mine : s.gen <= disk[home].gen
    /\ At(home, "stored") \/ (At(home, "asked") /\ copy # Empty) => \A s \in mine : s.gen <= copy.gen

SnapInv ==
    /\ SnapTyped /\ OneDeploy
    /\ ~dropped => HomeKnows /\ \A n \in SnapNodes : Tells(n)

-----------------------------------------------------------------------------

LEMMA HeadChanged ==
    ASSUME NEW R, NEW q \in Seq(R), q # <<>>, NEW j \in R
    PROVE  /\ <<j>> \o Tail(q) \in Seq(R) /\ <<j>> \o Tail(q) # <<>>
           /\ DOMAIN (<<j>> \o Tail(q)) = DOMAIN q
           /\ (<<j>> \o Tail(q))[1] = j
           /\ \A i \in DOMAIN q : i # 1 => (<<j>> \o Tail(q))[i] = q[i]
<1>1. PICK k \in Nat \ {0} : k = Len(q) /\ DOMAIN q = 1 .. k
  OBVIOUS
<1>2. Tail(q) \in Seq(R) /\ Len(Tail(q)) = k - 1 /\ \A i \in 1 .. k - 1 : Tail(q)[i] = q[i + 1]
  BY <1>1
<1>3. <<j>> \o Tail(q) \in Seq(R) /\ Len(<<j>> \o Tail(q)) = k /\ (<<j>> \o Tail(q))[1] = j
  BY <1>1, <1>2
<1>4. ASSUME NEW i \in 1 .. k, i # 1 PROVE (<<j>> \o Tail(q))[i] = q[i]
  <2>1. i - 1 \in 1 .. k - 1 /\ (i - 1) + 1 = i
    BY <1>1, <1>4
  <2>2. (<<j>> \o Tail(q))[(i - 1) + 1] = Tail(q)[i - 1]
    BY <1>2, <2>1
  <2>3. QED
    BY <1>2, <2>1, <2>2
<1>5. DOMAIN (<<j>> \o Tail(q)) = 1 .. k
  BY <1>3
<1>6. QED
  BY <1>1, <1>3, <1>4, <1>5

LEMMA HeadGone ==
    ASSUME NEW R, NEW q \in Seq(R), q # <<>>
    PROVE  /\ Tail(q) \in Seq(R)
           /\ \A i \in DOMAIN Tail(q) : /\ i \in Nat /\ i + 1 \in DOMAIN q /\ i + 1 # 1
                                        /\ Tail(q)[i] = q[i + 1]
<1>1. PICK k \in Nat \ {0} : k = Len(q) /\ DOMAIN q = 1 .. k
  OBVIOUS
<1>2. Tail(q) \in Seq(R) /\ Len(Tail(q)) = k - 1 /\ \A i \in 1 .. k - 1 : Tail(q)[i] = q[i + 1]
  BY <1>1
<1>3. DOMAIN Tail(q) = 1 .. k - 1
  BY <1>2
<1>4. QED
  BY <1>1, <1>2, <1>3

LEMMA JobAdded ==
    ASSUME NEW R, NEW q \in Seq(R), NEW j \in R
    PROVE  /\ Append(q, j) \in Seq(R) /\ Append(q, j) # <<>>
           /\ \A i \in DOMAIN q : i \in DOMAIN Append(q, j) /\ Append(q, j)[i] = q[i] /\ i < Len(q) + 1
           /\ \A i \in DOMAIN Append(q, j) : i \in DOMAIN q \/ (i = Len(q) + 1 /\ Append(q, j)[i] = j)
           /\ q # <<>> => 1 \in DOMAIN q
OBVIOUS

LEMMA FirstJob ==
    ASSUME QueueTyped, NEW n \in SnapNodes, queue[n] # <<>>
    PROVE  /\ 1 \in DOMAIN queue[n] /\ queue[n][1] = Running(n) /\ Running(n) \in Jobs(made, Len(parent))
           /\ queue[n] \in Seq(Jobs(made, Len(parent)))
<1>1. queue[n] \in Seq(Jobs(made, Len(parent)))
  BY DEF QueueTyped
<1> HIDE DEF Jobs
<1>2. 1 \in DOMAIN queue[n] /\ queue[n][1] \in Jobs(made, Len(parent))
  BY <1>1
<1>3. QED
  BY <1>1, <1>2 DEF Running

\* The head of n's queue stays, or is a job that has just begun or is about to end.
HeadStays(n) ==
    \A step \in {"packed", "stored", "asked", "deaf"} :
        At(n, step)' => At(n, step) /\ Running(n)'.copy = Running(n).copy

\* A job ends.
LEMMA JobEnds ==
    ASSUME QueueTyped, NEW n \in SnapNodes, queue[n] # <<>>, queue' = Ended(n), made' = made, parent' = parent
    PROVE  /\ QueueTyped'
           /\ \A step \in Steps : step # "queued" => ~At(n, step)'
           /\ \A m \in SnapNodes : HeadStays(m)
           /\ \A m \in SnapNodes \ {n} : queue'[m] = queue[m]
           /\ queue'[n] = Tail(queue[n])
<1>1. queue \in [SnapNodes -> Seq(Jobs(made, Len(parent)))] /\ queue[n] \in Seq(Jobs(made, Len(parent)))
  BY DEF QueueTyped
<1>2. queue'[n] = Tail(queue[n]) /\ \A m \in SnapNodes \ {n} : queue'[m] = queue[m]
  BY <1>1 DEF Ended
<1>3. /\ Tail(queue[n]) \in Seq(Jobs(made, Len(parent)))
      /\ \A i \in DOMAIN Tail(queue[n]) : i + 1 \in DOMAIN queue[n] /\ i + 1 # 1
                                          /\ Tail(queue[n])[i] = queue[n][i + 1]
  BY <1>1, HeadGone
<1>4. \A i \in DOMAIN Tail(queue[n]) : Tail(queue[n])[i].step = "queued"
  BY <1>3 DEF QueueTyped
<1>5. queue' \in [SnapNodes -> Seq(Jobs(made, Len(parent)))]
  BY <1>1, <1>3 DEF Ended
<1>6. QueueTyped'
  <2>1. ASSUME NEW m \in SnapNodes, NEW i \in DOMAIN queue'[m], i # 1 PROVE queue'[m][i].step = "queued"
    <3>1. CASE m = n
      BY <1>2, <1>4, <2>1, <3>1
    <3>2. CASE m # n
      BY <1>2, <2>1, <3>2 DEF QueueTyped
    <3>3. QED
      BY <3>1, <3>2
  <2>2. QED
    BY <1>5, <2>1 DEF QueueTyped
<1>7. ASSUME NEW step \in Steps, step # "queued" PROVE ~At(n, step)'
  <2>1. queue'[n] # <<>> => 1 \in DOMAIN Tail(queue[n])
    BY <1>2, <1>3
  <2>2. QED
    BY <1>2, <1>4, <1>7, <2>1 DEF At
<1>8. ASSUME NEW m \in SnapNodes PROVE HeadStays(m)
  <2>1. CASE m = n
    BY <1>7, <2>1 DEF HeadStays, Steps
  <2>2. CASE m # n
    BY <1>2, <2>2 DEF HeadStays, At, Running
  <2>3. QED
    BY <2>1, <2>2
<1>9. QED
  BY <1>2, <1>6, <1>7, <1>8

\* A job goes on.
LEMMA JobGoesOn ==
    ASSUME QueueTyped, NEW n \in SnapNodes, queue[n] # <<>>, NEW j \in Jobs(made, Len(parent)),
           queue' = WithHead(n, j), made' = made, parent' = parent
    PROVE  /\ QueueTyped'
           /\ \A m \in SnapNodes \ {n} : HeadStays(m) /\ queue'[m] = queue[m]
           /\ queue'[n] # <<>> /\ queue'[n][1] = j /\ Running(n)' = j
           /\ DOMAIN queue'[n] = DOMAIN queue[n]
           /\ \A i \in DOMAIN queue[n] : i # 1 => queue'[n][i] = queue[n][i]
<1>1. queue \in [SnapNodes -> Seq(Jobs(made, Len(parent)))] /\ queue[n] \in Seq(Jobs(made, Len(parent)))
  BY DEF QueueTyped
<1>2. queue'[n] = <<j>> \o Tail(queue[n]) /\ \A m \in SnapNodes \ {n} : queue'[m] = queue[m]
  BY <1>1 DEF WithHead
<1>3. /\ queue'[n] \in Seq(Jobs(made, Len(parent))) /\ queue'[n] # <<>>
      /\ DOMAIN queue'[n] = DOMAIN queue[n] /\ queue'[n][1] = j
      /\ \A i \in DOMAIN queue[n] : i # 1 => queue'[n][i] = queue[n][i]
  <2> HIDE DEF Jobs
  <2>1. QED
    BY <1>1, <1>2, HeadChanged
<1>4. queue' \in [SnapNodes -> Seq(Jobs(made, Len(parent)))]
  BY <1>1, <1>2, <1>3 DEF WithHead
<1>5. ASSUME NEW m \in SnapNodes, NEW i \in DOMAIN queue'[m], i # 1 PROVE queue'[m][i].step = "queued"
  <2>1. \A q \in SnapNodes : \A k \in DOMAIN queue[q] : k # 1 => queue[q][k].step = "queued"
    BY DEF QueueTyped
  <2>2. CASE m = n
    BY <1>3, <1>5, <2>1, <2>2
  <2>3. CASE m # n
    BY <1>2, <1>5, <2>1, <2>3
  <2>4. QED
    BY <2>2, <2>3
<1>6. QueueTyped'
  BY <1>4, <1>5 DEF QueueTyped
<1>7. \A m \in SnapNodes \ {n} : HeadStays(m)
  BY <1>2 DEF HeadStays, At, Running
<1>8. QED
  BY <1>2, <1>3, <1>6, <1>7 DEF Running

LEMMA JobsGrow ==
    ASSUME NEW m \in Nat, NEW w \in Nat, NEW k \in Nat, NEW x \in Nat, m <= k, w <= x
    PROVE  Jobs(m, w) \subseteq Jobs(k, x) /\ Notes(w) \subseteq Notes(x) /\ CopyRows(w) \subseteq CopyRows(x)
<1>1. 0 .. w \subseteq 0 .. x /\ 1 .. m \subseteq 1 .. k
  OBVIOUS
<1>2. Notes(w) \subseteq Notes(x)
  BY <1>1 DEF Notes
<1>3. QED
  BY <1>1, <1>2 DEF Jobs, CopyRows

\* Jobs are queued, each behind the others of its node.
LEMMA JobsQueued ==
    ASSUME QueueTyped, parent' = parent, made \in Nat, made' \in Nat, made <= made', Len(parent) \in Nat,
           DOMAIN queue' = SnapNodes, queue' = [n \in SnapNodes |-> queue'[n]],
           \A n \in SnapNodes : \/ queue'[n] = queue[n]
                                \/ \E j \in Jobs(made', Len(parent)) :
                                      j.step = "queued" /\ queue'[n] = Append(queue[n], j)
    PROVE  /\ QueueTyped'
           /\ \A n \in SnapNodes : HeadStays(n) /\ (\A step \in Steps : step # "queued" /\ At(n, step) => At(n, step)')
<1>1. Jobs(made, Len(parent)) \subseteq Jobs(made', Len(parent))
  BY JobsGrow
<1>2. ASSUME NEW n \in SnapNodes
      PROVE  /\ queue'[n] \in Seq(Jobs(made', Len(parent)))
             /\ \A i \in DOMAIN queue'[n] : i # 1 => queue'[n][i].step = "queued"
             /\ queue[n] # <<>> => queue'[n] # <<>> /\ queue'[n][1] = queue[n][1]
             /\ queue[n] = <<>> /\ queue'[n] # <<>> => queue'[n][1].step = "queued"
  <2>1. queue[n] \in Seq(Jobs(made, Len(parent))) /\ queue[n] \in Seq(Jobs(made', Len(parent)))
        /\ \A i \in DOMAIN queue[n] : i # 1 => queue[n][i].step = "queued"
    BY <1>1 DEF QueueTyped
  <2>2. CASE queue'[n] = queue[n]
    BY <2>1, <2>2
  <2>3. CASE \E j \in Jobs(made', Len(parent)) : j.step = "queued" /\ queue'[n] = Append(queue[n], j)
    <3>1. PICK j \in Jobs(made', Len(parent)) : j.step = "queued" /\ queue'[n] = Append(queue[n], j)
      BY <2>3
    <3> HIDE DEF Jobs
    <3>2. /\ queue'[n] \in Seq(Jobs(made', Len(parent))) /\ queue'[n] # <<>>
          /\ \A i \in DOMAIN queue[n] : queue'[n][i] = queue[n][i]
          /\ \A i \in DOMAIN queue'[n] : i \in DOMAIN queue[n] \/ queue'[n][i] = j
          /\ queue[n] # <<>> => 1 \in DOMAIN queue[n]
      BY <2>1, <3>1, JobAdded
    <3>3. queue[n] = <<>> => queue'[n][1] = j
      BY <3>1
    <3>4. QED
      BY <2>1, <3>1, <3>2, <3>3
  <2>4. QED
    BY <2>2, <2>3
<1>3. queue' \in [SnapNodes -> Seq(Jobs(made', Len(parent)))]
  BY <1>2
<1>4. QueueTyped'
  BY <1>2, <1>3 DEF QueueTyped
<1>5. ASSUME NEW n \in SnapNodes
      PROVE  HeadStays(n) /\ (\A step \in Steps : step # "queued" /\ At(n, step) => At(n, step)')
  BY <1>2 DEF HeadStays, At, Running
<1>6. QED
  BY <1>4, <1>5

-----------------------------------------------------------------------------

\* What is added to both sides says nothing.
LEMMA CancelRight == \A a, b, c \in Nat : a + c = b + c => a = b
  OBVIOUS

\* Jobs that end, go on or keep their places.
LEMMA KindsStay ==
    ASSUME OneDeploy, home' = home, home \in SnapNodes,
           \A n \in SnapNodes : \E d \in {0, 1} : \A i \in DOMAIN queue'[n] :
               /\ i \in Nat /\ i + d \in DOMAIN queue[n]
               /\ queue'[n][i].kind = queue[n][i + d].kind
    PROVE  OneDeploy'
<1>1. PICK f \in [SnapNodes -> {0, 1}] : \A n \in SnapNodes : \A i \in DOMAIN queue'[n] :
               /\ i \in Nat /\ i + f[n] \in DOMAIN queue[n]
               /\ queue'[n][i].kind = queue[n][i + f[n]].kind
  <2> DEFINE Shifted(n, d) == \A i \in DOMAIN queue'[n] :
               /\ i \in Nat /\ i + d \in DOMAIN queue[n]
               /\ queue'[n][i].kind = queue[n][i + d].kind
             g == [n \in SnapNodes |-> CHOOSE d \in {0, 1} : Shifted(n, d)]
  <2>1. \A n \in SnapNodes : \E d \in {0, 1} : Shifted(n, d)
    OBVIOUS
  <2> HIDE DEF Shifted
  <2>2. g \in [SnapNodes -> {0, 1}] /\ \A n \in SnapNodes : Shifted(n, g[n])
    BY <2>1
  <2>3. QED
    BY <2>2 DEF Shifted
<1>2. ASSUME NEW m \in SnapNodes, NEW n \in SnapNodes,
             NEW i \in DOMAIN queue'[m], NEW k \in DOMAIN queue'[n],
             queue'[m][i].kind = "deploy", queue'[n][k].kind = "deploy"
      PROVE  m = n /\ i = k
  <2>1. PICK d \in {0, 1} : d = f[m] /\ i \in Nat /\ i + d \in DOMAIN queue[m] /\ queue[m][i + d].kind = "deploy"
    BY <1>1, <1>2
  <2>2. PICK e \in {0, 1} : e = f[n] /\ k \in Nat /\ k + e \in DOMAIN queue[n] /\ queue[n][k + e].kind = "deploy"
    BY <1>1, <1>2
  <2>3. m = n /\ i + d = k + e
    BY <2>1, <2>2 DEF OneDeploy
  <2>4. d = e
    BY <2>1, <2>2, <2>3
  <2>5. i \in Nat /\ k \in Nat /\ d \in Nat /\ i + d = k + d
    BY <2>1, <2>2, <2>3, <2>4
  <2>6. i = k
    BY <2>5, CancelRight
  <2>7. QED
    BY <2>3, <2>6
<1>3. ASSUME NEW n \in SnapNodes, NEW i \in DOMAIN queue'[n], NEW k \in DOMAIN queue'[n],
             queue'[n][i].kind = "deploy", queue'[n][k].kind = "remove"
      PROVE  k < i
  <2>1. PICK d \in {0, 1} : d = f[n]
    BY <1>1
  <2>2. i \in Nat /\ i + d \in DOMAIN queue[n] /\ queue[n][i + d].kind = "deploy"
    BY <1>1, <1>3, <2>1
  <2>3. k \in Nat /\ k + d \in DOMAIN queue[n] /\ queue[n][k + d].kind = "remove"
    BY <1>1, <1>3, <2>1
  <2>4. k + d < i + d
    BY <2>2, <2>3 DEF OneDeploy
  <2>5. QED
    BY <2>2, <2>3, <2>4
<1>4. \A i \in DOMAIN queue'[home] : queue'[home][i].kind # "remove"
  BY <1>1 DEF OneDeploy
<1>5. QED
  BY <1>2, <1>3, <1>4 DEF OneDeploy

LEMMA EndKeepsOneDeploy ==
    ASSUME OneDeploy, QueueTyped, home' = home, home \in SnapNodes,
           NEW n \in SnapNodes, queue[n] # <<>>, queue' = Ended(n)
    PROVE  OneDeploy'
<1> USE DEF QueueTyped
<1>1. queue'[n] = Tail(queue[n]) /\ \A m \in SnapNodes \ {n} : queue'[m] = queue[m]
  BY DEF Ended
<1>2. \A i \in DOMAIN queue'[n] : i \in Nat /\ i + 1 \in DOMAIN queue[n] /\ queue'[n][i] = queue[n][i + 1]
  BY <1>1, HeadGone
<1>3. \A m \in SnapNodes \ {n} : \A i \in DOMAIN queue'[m] :
          i \in Nat /\ i + 0 \in DOMAIN queue[m] /\ queue'[m][i] = queue[m][i + 0]
  <2> SUFFICES ASSUME NEW m \in SnapNodes, m # n, NEW i \in DOMAIN queue'[m]
               PROVE  i \in Nat /\ i + 0 \in DOMAIN queue[m] /\ queue'[m][i] = queue[m][i + 0]
    OBVIOUS
  <2>1. queue[m] \in Seq(Jobs(made, Len(parent))) /\ queue'[m] = queue[m]
    BY <1>1
  <2>2. i \in Nat /\ i + 0 = i
    BY <2>1
  <2>3. QED
    BY <2>1, <2>2
<1>4. QED
  BY <1>2, <1>3, KindsStay

LEMMA GoingOnKeepsOneDeploy ==
    ASSUME OneDeploy, QueueTyped, home' = home, home \in SnapNodes,
           NEW n \in SnapNodes, queue[n] # <<>>,
           NEW j \in Jobs(made, Len(parent)), j.kind = Running(n).kind, queue' = WithHead(n, j),
           made' = made, parent' = parent
    PROVE  OneDeploy'
<1>1. /\ queue'[n][1] = j /\ DOMAIN queue'[n] = DOMAIN queue[n]
      /\ \A i \in DOMAIN queue[n] : i # 1 => queue'[n][i] = queue[n][i]
      /\ \A m \in SnapNodes \ {n} : queue'[m] = queue[m]
  BY JobGoesOn
<1>2. ASSUME NEW m \in SnapNodes, NEW i \in DOMAIN queue'[m]
      PROVE  i \in Nat /\ i + 0 \in DOMAIN queue[m] /\ queue'[m][i].kind = queue[m][i + 0].kind
  <2>1. queue[m] \in Seq(Jobs(made, Len(parent))) /\ i \in DOMAIN queue[m]
    BY <1>1, <1>2 DEF QueueTyped
  <2>2. i \in Nat /\ i + 0 = i
    BY <2>1
  <2>3. queue'[m][i].kind = queue[m][i].kind
    BY <1>1, <1>2 DEF Running
  <2>4. \A x : x = i => x \in DOMAIN queue[m] /\ queue'[m][i].kind = queue[m][x].kind
    BY <2>1, <2>3
  <2> HIDE DEF Jobs
  <2>5. QED
    BY <2>2, <2>4
<1>3. QED
  BY <1>2, KindsStay

\* Nothing that is queued is a deploy or a removal, but for one deploy where
\* there was none.
LEMMA QueuedKeepsOneDeploy ==
    ASSUME OneDeploy, QueueTyped, home' = home, home \in SnapNodes, NEW t \in SnapNodes,
           \/ \A n \in SnapNodes : queue'[n] # queue[n] =>
                \E j : queue'[n] = Append(queue[n], j) /\ j.kind = "snapshot"
           \/ /\ Underway("deploy") = {}
              /\ \A n \in SnapNodes : queue'[n] # queue[n] =>
                   \E j : /\ queue'[n] = Append(queue[n], j)
                          /\ (j.kind = "snapshot" \/ (j.kind = "deploy" /\ n = t))
    PROVE  OneDeploy'
<1>1. ASSUME NEW n \in SnapNodes, NEW i \in DOMAIN queue'[n]
      PROVE  \/ i \in DOMAIN queue[n] /\ queue'[n][i] = queue[n][i] /\ i < Len(queue[n]) + 1
             \/ /\ queue'[n][i].kind \in {"snapshot", "deploy"} /\ i = Len(queue[n]) + 1
                /\ queue'[n][i].kind = "deploy" => n = t /\ Underway("deploy") = {}
  <2>1. PICK k \in Nat : k = Len(queue[n]) /\ DOMAIN queue[n] = 1 .. k
    BY DEF QueueTyped
  <2>2. CASE queue'[n] = queue[n]
    BY <1>1, <2>1, <2>2
  <2>3. CASE queue'[n] # queue[n]
    <3>1. PICK j : /\ queue'[n] = Append(queue[n], j) /\ j.kind \in {"snapshot", "deploy"}
                   /\ j.kind = "deploy" => n = t /\ Underway("deploy") = {}
      BY <2>3
    <3>2. i \in 1 .. k + 1 /\ (i = k + 1 => queue'[n][i] = j) /\ (i \in 1 .. k => queue'[n][i] = queue[n][i])
      <4>1. queue[n] \in Seq(Jobs(made, Len(parent)))
        BY DEF QueueTyped
      <4> HIDE DEF Jobs
      <4>2. DOMAIN Append(queue[n], j) = 1 .. k + 1 /\ Append(queue[n], j)[k + 1] = j
            /\ \A x \in 1 .. k : Append(queue[n], j)[x] = queue[n][x]
        BY <4>1, <2>1
      <4>3. QED
        BY <1>1, <3>1, <4>2
    <3>3. QED
      BY <2>1, <3>1, <3>2
  <2>4. QED
    BY <2>2, <2>3
<1>2. Underway("deploy") = {} => \A n \in SnapNodes : \A i \in DOMAIN queue[n] : queue[n][i].kind # "deploy"
  BY DEF Underway
<1>3. ASSUME NEW m \in SnapNodes, NEW n \in SnapNodes,
             NEW i \in DOMAIN queue'[m], NEW k \in DOMAIN queue'[n],
             queue'[m][i].kind = "deploy", queue'[n][k].kind = "deploy"
      PROVE  m = n /\ i = k
  <2>1. \/ i \in DOMAIN queue[m] /\ queue[m][i].kind = "deploy"
        \/ i = Len(queue[m]) + 1 /\ m = t /\ Underway("deploy") = {}
    BY <1>1, <1>3
  <2>2. \/ k \in DOMAIN queue[n] /\ queue[n][k].kind = "deploy"
        \/ k = Len(queue[n]) + 1 /\ n = t /\ Underway("deploy") = {}
    BY <1>1, <1>3
  <2>3. QED
    BY <1>2, <2>1, <2>2 DEF OneDeploy
<1>4. ASSUME NEW n \in SnapNodes, NEW i \in DOMAIN queue'[n], NEW k \in DOMAIN queue'[n],
             queue'[n][i].kind = "deploy", queue'[n][k].kind = "remove"
      PROVE  k < i
  <2>1. k \in DOMAIN queue[n] /\ queue[n][k].kind = "remove" /\ k < Len(queue[n]) + 1
    BY <1>1, <1>4
  <2>2. \/ i \in DOMAIN queue[n] /\ queue[n][i].kind = "deploy"
        \/ i = Len(queue[n]) + 1
    BY <1>1, <1>4
  <2>3. QED
    BY <2>1, <2>2 DEF OneDeploy
<1>5. \A i \in DOMAIN queue'[home] : queue'[home][i].kind # "remove"
  BY <1>1 DEF OneDeploy
<1>6. QED
  BY <1>3, <1>4, <1>5 DEF OneDeploy

\* Numbers go on telling the truth where the node's data is not replaced and no
\* number is given again.
LEMMA TellsStays ==
    ASSUME NEW n \in SnapNodes, Tells(n), DiskTyped, StoredTyped, Top' \in Nat,
           disk'[n].gen = disk[n].gen, UpTo(disk[n].data) \subseteq UpTo(disk[n].data)',
           Top <= Top', \A s \in stored' : s \in stored \/ s.gen > Top,
           HeadStays(n)
    PROVE  Tells(n)'
<1>1. Top \in Nat /\ \A s \in stored : s.gen \in Nat
  BY TopIs, TopOfIs, SnapBounds DEF StoredTyped
<1>2. disk[n].gen \in Nat
  BY SnapBounds DEF DiskTyped, Notes
<1>3. disk'[n].gen <= Top'
  BY <1>1, <1>2 DEF Tells
<1>4. \A s \in stored' : s.gen = disk'[n].gen => s.data \in UpTo(disk[n].data)'
  <2> SUFFICES ASSUME NEW s \in stored', s.gen = disk[n].gen PROVE s.data \in UpTo(disk[n].data)'
    OBVIOUS
  <2>1. ~(s.gen > Top)
    BY <1>1, <1>2 DEF Tells
  <2>2. QED
    BY <2>1 DEF Tells
<1>5. ASSUME NEW copy, copy.gen \in 1 .. Top, Same(copy)
      PROVE  copy.gen \in 1 .. Top' /\ \A s \in stored' : s.gen = copy.gen => s.data = copy.data
  <2>1. \A s \in stored' : s.gen = copy.gen => s \in stored
    BY <1>1, <1>5
  <2>2. QED
    BY <1>1, <1>5, <2>1 DEF Same
<1>6. At(n, "packed")' => Running(n)'.copy.data \in UpTo(disk[n].data)'
  BY DEF Tells, HeadStays
<1>7. At(n, "stored")' => /\ Running(n)'.copy.gen \in 1 .. Top' /\ Running(n)'.copy.data \in UpTo(disk[n].data)'
                          /\ \A s \in stored' : s.gen = Running(n)'.copy.gen => s.data = Running(n)'.copy.data
  BY <1>5 DEF Tells, HeadStays
<1>8. At(n, "asked")' /\ Running(n)'.copy # Empty =>
          /\ Running(n)'.copy.gen \in 1 .. Top' /\ disk'[n].gen < Running(n)'.copy.gen
          /\ \A s \in stored' : s.gen = Running(n)'.copy.gen => s.data = Running(n)'.copy.data
  BY <1>5 DEF Tells, HeadStays
<1>9. At(n, "deaf")' => Running(n)'.copy = Empty
  BY DEF Tells, HeadStays
<1>10. QED
  BY <1>3, <1>4, <1>6, <1>7, <1>8, <1>9 DEF Tells, Same

LEMMA HomeKnowsStays ==
    ASSUME HomeKnows, home' = home, HeadStays(home),
           At(home, "stored") => At(home, "stored")' \/ home \in behind',
           home \in behind => home \in behind',
           disk'[home].gen = disk[home].gen,
           \A s \in stored' : s.why = "node" => s \in stored
    PROVE  HomeKnows'
<1>1. home' \notin behind' /\ ~At(home, "stored")' => \A s \in stored' : s.why = "node" => s.gen <= disk'[home'].gen
  BY DEF HomeKnows
<1>2. At(home, "stored")' => At(home, "stored") /\ Running(home)'.copy = Running(home).copy
  BY DEF HeadStays
<1>3. At(home, "asked")' => At(home, "asked") /\ Running(home)'.copy = Running(home).copy
  BY DEF HeadStays
<1>4. At(home, "stored")' \/ (At(home, "asked")' /\ Running(home)'.copy # Empty) =>
          \A s \in stored' : s.why = "node" => s.gen <= Running(home)'.copy.gen
  BY <1>2, <1>3 DEF HomeKnows
<1>5. QED
  BY <1>1, <1>4 DEF HomeKnows

-----------------------------------------------------------------------------

LEMMA SnapInvInit == SnapshotInit => SnapInv
<1> SUFFICES ASSUME SnapshotInit PROVE SnapInv
  OBVIOUS
<1> USE DEF SnapshotInit
<1>1. Len(parent) = 0 /\ parent \in Seq(Nat) /\ DOMAIN parent = {}
  OBVIOUS
<1>2. PlacesTyped /\ ParentTyped
  <2>1. home \in SnapNodes
    BY SnapBounds
  <2>2. PlacesTyped
    <3>1. online = SnapNodes /\ up = {home} /\ behind = {} /\ dropped = FALSE /\ made = 0
      OBVIOUS
    <3>2. 0 \in 0 .. MaxJobs
      BY SnapBounds
    <3> QED
      BY ONLY <2>1, <3>1, <3>2 DEF PlacesTyped
  <2>3. Len(parent) <= MaxWrites
    BY <1>1, SnapBounds
  <2>4. ParentTyped
    BY <1>1, <2>3 DEF ParentTyped
  <2>5. QED
    BY <2>2, <2>4
<1>3. DiskTyped
  <2>1. Empty \in Notes(0)
    BY SnapBounds DEF Empty, Notes
  <2>2. QED
    BY <1>1, <2>1 DEF DiskTyped
<1>4. QueueTyped
  <2>1. queue \in [SnapNodes -> Seq(Jobs(made, Len(parent)))]
    OBVIOUS
  <2>2. \A n \in SnapNodes : DOMAIN queue[n] = {}
    OBVIOUS
  <2>3. QED
    BY <2>1, <2>2 DEF QueueTyped
<1>5. StoredTyped
  <2>1. Cardinality({}) = 0 /\ IsFiniteSet({})
    BY FS_EmptySet
  <2>2. QED
    BY <2>1, SnapBounds DEF StoredTyped, Distinct
<1>6. \A n \in SnapNodes : queue[n] = <<>> /\ DOMAIN queue[n] = {}
  OBVIOUS
<1>7. OneDeploy
  BY <1>2, <1>6 DEF OneDeploy, PlacesTyped
<1>8. \A n \in SnapNodes, step \in Steps : ~At(n, step)
  BY <1>6 DEF At
<1>9. HomeKnows
  BY <1>2, <1>8 DEF HomeKnows, PlacesTyped, Steps
<1>10. \A n \in SnapNodes : Tells(n)
  <2>1. \A n \in SnapNodes : disk[n].gen = 0
    BY DEF Empty
  <2>2. Top = 0
    BY DEF Top
  <2>3. QED
    BY <1>8, <2>1, <2>2 DEF Tells, Steps
<1>11. QED
  BY <1>2, <1>3, <1>4, <1>5, <1>7, <1>9, <1>10 DEF SnapInv, SnapTyped

LEMMA UpToSame ==
    ASSUME parent' = parent
    PROVE  \A v : UpTo(v)' = UpTo(v)
BY DEF UpTo, Histories

LEMMA TopTyped ==
    ASSUME StoredTyped
    PROVE  Top \in Nat /\ \A s \in stored : s.gen \in Nat /\ s.gen <= Top
BY TopIs, TopOfIs, SnapBounds DEF StoredTyped

\* A step that leaves copies and data alone, and starts nothing.
LEMMA StaysTrue ==
    ASSUME SnapInv, UNCHANGED <<home, disk, stored, parent, dropped>>,
           PlacesTyped', QueueTyped', OneDeploy', \A n \in SnapNodes : HeadStays(n),
           At(home, "stored") => At(home, "stored")' \/ home \in behind',
           home \in behind => home \in behind'
    PROVE  SnapInv'
<1>1. SnapTyped'
  BY DEF SnapInv, SnapTyped, ParentTyped, DiskTyped, StoredTyped
<1>2. ASSUME ~dropped', NEW n \in SnapNodes
      PROVE  Tells(n)'
  <2>1. Top' = Top /\ Top \in Nat
    BY TopTyped DEF SnapInv, SnapTyped, Top
  <2>2. UpTo(disk[n].data) \subseteq UpTo(disk[n].data)'
    BY DEF UpTo, Histories
  <2>3. Tells(n)
    BY <1>2 DEF SnapInv
  <2>4. QED
    BY <2>1, <2>2, <2>3, TellsStays DEF SnapInv, SnapTyped
<1>3. ASSUME ~dropped'
      PROVE  HomeKnows'
  BY <1>3, HomeKnowsStays DEF SnapInv, SnapTyped, PlacesTyped
<1>4. QED
  BY <1>1, <1>2, <1>3 DEF SnapInv

\* The job a node runs ends, and nothing comes of it.
LEMMA EndIsQuiet ==
    ASSUME SnapInv, UNCHANGED <<home, disk, stored, made, parent, dropped>>, PlacesTyped',
           NEW n \in SnapNodes, queue[n] # <<>>, queue' = Ended(n),
           n = home /\ At(home, "stored") => home \in behind',
           home \in behind => home \in behind'
    PROVE  SnapInv'
<1>1. QueueTyped /\ OneDeploy /\ home \in SnapNodes
  BY DEF SnapInv, SnapTyped, PlacesTyped
<1>2. /\ QueueTyped' /\ \A m \in SnapNodes : HeadStays(m)
      /\ \A m \in SnapNodes \ {n} : queue'[m] = queue[m]
  BY <1>1, JobEnds
<1>3. OneDeploy'
  BY <1>1, EndKeepsOneDeploy
<1>4. At(home, "stored") => At(home, "stored")' \/ home \in behind'
  BY <1>1, <1>2 DEF At
<1>5. QED
  BY <1>2, <1>3, <1>4, StaysTrue

\* A job that no step has been taken of yet is going to be run next.
LEMMA QueuingIsQuiet ==
    ASSUME SnapInv, UNCHANGED <<home, disk, stored, parent, behind, dropped>>, PlacesTyped',
           QueueTyped', OneDeploy',
           \A n \in SnapNodes : HeadStays(n) /\ (\A step \in Steps : step # "queued" /\ At(n, step) => At(n, step)')
    PROVE  SnapInv'
<1>1. home \in SnapNodes /\ "stored" \in Steps
  BY DEF SnapInv, SnapTyped, PlacesTyped, Steps
<1>2. QED
  BY <1>1, StaysTrue

LEMMA JobTyped ==
    ASSUME NEW kind \in Kinds, NEW m \in Nat, NEW id \in 1 .. m, NEW w \in Nat
    PROVE  Job(kind, id) \in Jobs(m, w) /\ Job(kind, id).kind = kind /\ Job(kind, id).step = "queued"
<1>1. Empty \in Notes(w)
  BY SnapBounds DEF Empty, Notes
<1>2. QED
  BY <1>1 DEF Job, Jobs, Steps

LEMMA TakeSnapshotKeeps == ASSUME SnapInv, TakeSnapshot PROVE SnapInv'
<1>1. QueueTyped /\ OneDeploy /\ PlacesTyped /\ Len(parent) \in Nat
  BY DEF SnapInv, SnapTyped, ParentTyped
<1>2. made' = made + 1 /\ made \in Nat /\ made' \in Nat /\ made <= made' /\ made' \in 0 .. MaxJobs
      /\ home \in SnapNodes
  BY <1>1, SnapBounds DEF PlacesTyped, TakeSnapshot
<1>3. PICK j \in Jobs(made', Len(parent)) : j = Job("snapshot", made + 1) /\ j.kind = "snapshot" /\ j.step = "queued"
  <2>1. made + 1 \in 1 .. made'
    BY <1>2
  <2>2. QED
    BY <1>1, <1>2, <2>1, JobTyped DEF Kinds
<1>4. queue' = [queue EXCEPT ![home] = Append(queue[home], j)]
  BY <1>3 DEF TakeSnapshot
<1> HIDE DEF Jobs
<1>5. /\ DOMAIN queue' = SnapNodes /\ queue' = [n \in SnapNodes |-> queue'[n]]
      /\ queue'[home] = Append(queue[home], j)
      /\ \A n \in SnapNodes \ {home} : queue'[n] = queue[n]
  BY <1>1, <1>2, <1>4 DEF QueueTyped
<1>6. \A n \in SnapNodes : \/ queue'[n] = queue[n]
                           \/ \E x \in Jobs(made', Len(parent)) :
                                 x.step = "queued" /\ queue'[n] = Append(queue[n], x)
  BY <1>3, <1>5
<1>7. /\ QueueTyped'
      /\ \A n \in SnapNodes : HeadStays(n) /\ (\A step \in Steps : step # "queued" /\ At(n, step) => At(n, step)')
  BY <1>1, <1>2, <1>5, <1>6, JobsQueued DEF TakeSnapshot
<1>8. OneDeploy'
  BY <1>1, <1>2, <1>3, <1>5, QueuedKeepsOneDeploy DEF TakeSnapshot
<1>9. PlacesTyped'
  BY <1>1, <1>2 DEF PlacesTyped, TakeSnapshot
<1>10. QED
  BY <1>7, <1>8, <1>9, QueuingIsQuiet DEF TakeSnapshot

LEMMA UploadLostKeeps == ASSUME SnapInv, NEW n \in SnapNodes, UploadLost(n) PROVE SnapInv'
<1>1. queue[n] # <<>> /\ queue[n][1].step = "packed"
  BY DEF UploadLost, Queues, Running
<1>2. PlacesTyped'
  BY DEF UploadLost, SnapInv, SnapTyped, PlacesTyped
<1>3. QED
  BY <1>1, <1>2, EndIsQuiet DEF UploadLost, At

LEMMA SnapNodeDiesKeeps == ASSUME SnapInv, NEW n \in SnapNodes, SnapNodeDies(n) PROVE SnapInv'
<1>1. PlacesTyped'
  BY DEF SnapNodeDies, SnapInv, SnapTyped, PlacesTyped
<1>2. CASE n \in Queues /\ Running(n).step # "queued"
  <2>1. queue[n] # <<>> /\ queue' = Ended(n) /\ (At(n, "stored") => n \in behind')
    BY <1>2 DEF SnapNodeDies, Queues, At, Running
  <2>2. home \in behind => home \in behind'
    BY DEF SnapNodeDies
  <2>3. QED
    BY <1>1, <2>1, <2>2, EndIsQuiet DEF SnapNodeDies
<1>3. CASE ~(n \in Queues /\ Running(n).step # "queued")
  <2>1. queue' = queue /\ (home \in behind => home \in behind')
    BY <1>3 DEF SnapNodeDies
  <2>2. QueueTyped' /\ OneDeploy'
    BY <2>1 DEF SnapNodeDies, SnapInv, SnapTyped, QueueTyped, OneDeploy
  <2>3. \A m \in SnapNodes : HeadStays(m)
    BY <2>1 DEF HeadStays, At, Running
  <2>4. At(home, "stored") => At(home, "stored")'
    BY <2>1 DEF At, SnapNodeDies
  <2>5. QED
    BY <1>1, <2>1, <2>2, <2>3, <2>4, StaysTrue DEF SnapNodeDies
<1>4. QED
  BY <1>2, <1>3

LEMMA SnapNodeReturnsKeeps == ASSUME SnapInv, NEW n \in SnapNodes, SnapNodeReturns(n) PROVE SnapInv'
<1> USE DEF SnapNodeReturns
<1>1. PlacesTyped'
  BY DEF SnapInv, SnapTyped, PlacesTyped
<1>2. QueueTyped' /\ OneDeploy'
  BY DEF SnapInv, SnapTyped, QueueTyped, OneDeploy
<1>3. \A m \in SnapNodes : HeadStays(m)
  BY DEF HeadStays, At, Running
<1>4. At(home, "stored") => At(home, "stored")'
  BY DEF At
<1>5. QED
  BY <1>1, <1>2, <1>3, <1>4, StaysTrue

LEMMA WaitMoreKeeps == ASSUME SnapInv, NEW n \in SnapNodes, WaitMore(n) PROVE SnapInv'
<1> USE DEF WaitMore
<1>1. QueueTyped /\ OneDeploy /\ home \in SnapNodes /\ queue[n] # <<>>
  BY DEF SnapInv, SnapTyped, PlacesTyped, Queues
<1>2. PICK j : j = Running(n) /\ j.step = "queued" /\ j \in Jobs(made, Len(parent)) /\ queue[n][1] = j
  BY <1>1, FirstJob
<1>3. PICK k : /\ k = [j EXCEPT !.waited = @ + 1] /\ k \in Jobs(made, Len(parent))
               /\ k.kind = j.kind /\ k.step = "queued"
  BY <1>2 DEF Jobs
<1>4. queue' = WithHead(n, k)
  BY <1>2, <1>3
<1>5. QueueTyped' /\ \A m \in SnapNodes \ {n} : HeadStays(m) /\ queue'[m] = queue[m]
  BY <1>1, <1>3, <1>4, JobGoesOn
<1>6. queue'[n] # <<>> /\ queue'[n][1] = k
  BY <1>1, <1>3, <1>4, JobGoesOn
<1>7. HeadStays(n) /\ ~At(n, "stored")
  BY <1>2, <1>3, <1>6 DEF HeadStays, At
<1>8. OneDeploy'
  BY <1>1, <1>2, <1>3, <1>4, GoingOnKeepsOneDeploy
<1>9. At(home, "stored") => At(home, "stored")'
  BY <1>1, <1>5, <1>7 DEF At
<1>10. PlacesTyped'
  BY DEF SnapInv, SnapTyped, PlacesTyped
<1>11. QED
  BY <1>5, <1>7, <1>8, <1>9, <1>10, StaysTrue

\* What holds at the other nodes and at the one that is served when n's job goes
\* on to j.
LEMMA GoingOn ==
    ASSUME SnapInv, UNCHANGED <<home, online, made, parent, dropped>>,
           NEW n \in SnapNodes, n \in Queues,
           NEW j \in Jobs(made, Len(parent)), j.kind = Running(n).kind, queue' = WithHead(n, j)
    PROVE  /\ QueueTyped' /\ OneDeploy'
           /\ \A m \in SnapNodes \ {n} : HeadStays(m) /\ queue'[m] = queue[m]
           /\ Running(n)' = j
           /\ \A step \in Steps : At(n, step)' <=> j.step = step
<1>1. QueueTyped /\ OneDeploy /\ home \in SnapNodes /\ queue[n] # <<>>
  BY DEF SnapInv, SnapTyped, PlacesTyped, Queues
<1>2. QueueTyped' /\ \A m \in SnapNodes \ {n} : HeadStays(m) /\ queue'[m] = queue[m]
  BY <1>1, JobGoesOn
<1>3. queue'[n] # <<>> /\ queue'[n][1] = j /\ Running(n)' = j
  BY <1>1, JobGoesOn
<1>4. OneDeploy'
  BY <1>1, GoingOnKeepsOneDeploy
<1>5. QED
  BY <1>2, <1>3, <1>4 DEF At

LEMMA PackKeeps == ASSUME SnapInv, NEW n \in SnapNodes, Pack(n) PROVE SnapInv'
<1>1. QueueTyped /\ OneDeploy /\ home \in SnapNodes /\ queue[n] # <<>> /\ n \in Queues
  BY DEF SnapInv, SnapTyped, PlacesTyped, Queues, Pack
<1>2. PICK j : j = Running(n) /\ j.step = "queued" /\ j \in Jobs(made, Len(parent)) /\ queue[n][1] = j
  BY <1>1, FirstJob DEF Pack
<1>3. PlacesTyped'
  BY DEF Pack, SnapInv, SnapTyped, PlacesTyped
<1>4. ~At(n, "stored")
  BY <1>2 DEF At
<1>5. CASE n \notin up
  <2>1. queue' = Ended(n)
    BY <1>5 DEF Pack
  <2>2. QED
    BY <1>1, <1>3, <1>4, <2>1, EndIsQuiet DEF Pack
<1>6. CASE n \in up
  <2>1. disk[n] \in Notes(Len(parent))
    BY DEF SnapInv, SnapTyped, DiskTyped
  <2>2. PICK k : /\ k = [j EXCEPT !.step = "packed", !.copy = disk[n]]
                 /\ k \in Jobs(made, Len(parent)) /\ k.kind = j.kind /\ k.step = "packed"
                 /\ k.copy = disk[n]
    <3>1. PICK d \in Notes(Len(parent)) : d = disk[n]
      BY <2>1
    <3> DEFINE k == [j EXCEPT !.step = "packed", !.copy = d]
    <3>2. k \in Jobs(made, Len(parent)) /\ k.kind = j.kind /\ k.step = "packed" /\ k.copy = d
      BY <1>2 DEF Jobs, Steps
    <3>3. QED
      BY <3>1, <3>2
  <2>3. queue' = WithHead(n, k)
    BY <1>2, <1>6, <2>2 DEF Pack
  <2>4. /\ QueueTyped' /\ OneDeploy'
        /\ \A m \in SnapNodes \ {n} : HeadStays(m) /\ queue'[m] = queue[m]
        /\ Running(n)' = k
        /\ \A step \in Steps : At(n, step)' <=> k.step = step
    <3>1. UNCHANGED <<home, online, made, parent, dropped>> /\ k.kind = Running(n).kind
      BY <1>2, <2>2 DEF Pack
    <3>2. QED
      BY <1>1, <2>2, <2>3, <3>1, GoingOn
  <2>5. SnapTyped'
    BY <1>3, <2>4 DEF Pack, SnapInv, SnapTyped, ParentTyped, DiskTyped, StoredTyped
  <2>6. ASSUME ~dropped', NEW m \in SnapNodes
        PROVE  Tells(m)'
    <3>1. Tells(m) /\ Top' = Top /\ Top \in Nat
      BY <2>6, TopTyped DEF Pack, SnapInv, SnapTyped, Top
    <3>2. UpTo(disk[m].data)' = UpTo(disk[m].data)
      BY DEF UpTo, Histories, Pack
    <3>3. CASE m = n
      <4>1. disk[n].data \in UpTo(disk[n].data)
        <5>1. disk[n].data \in Writes
          BY <2>1 DEF Notes, Writes
        <5>2. QED
          BY <5>1, UpToItself
      <4>2. /\ disk'[n].gen <= Top'
            /\ \A s \in stored' : s.gen = disk'[n].gen => s.data \in UpTo(disk[n].data)'
        BY <3>1, <3>2, <3>3 DEF Pack, Tells
      <4>3. Running(n)'.copy.data \in UpTo(disk[n].data)'
        BY <2>2, <2>4, <3>2, <3>3, <4>1
      <4>4. ~At(n, "stored")' /\ ~At(n, "asked")' /\ ~At(n, "deaf")'
        BY <2>2, <2>4 DEF Steps
      <4>5. QED
        BY <3>3, <4>2, <4>3, <4>4 DEF Tells
    <3>4. CASE m # n
      BY <2>4, <3>1, <3>2, <3>4, TellsStays DEF Pack, SnapInv, SnapTyped
    <3>5. QED
      BY <3>3, <3>4
  <2>7. ASSUME ~dropped'
        PROVE  HomeKnows'
    <3>1. HeadStays(home) \/ home = n
      BY <1>1, <2>4
    <3>2. HomeKnows
      BY <2>7 DEF Pack, SnapInv
    <3>3. CASE home = n
      <4>1. ~At(home, "stored")' /\ ~At(home, "asked")'
        BY <2>2, <2>4, <3>3 DEF Steps, Pack
      <4>2. QED
        BY <1>4, <3>2, <3>3, <4>1 DEF HomeKnows, Pack
    <3>4. CASE home # n
      <4>1. At(home, "stored") => At(home, "stored")'
        BY <1>1, <2>4, <3>4 DEF At, Pack
      <4>2. QED
        BY <3>1, <3>2, <3>4, <4>1, HomeKnowsStays DEF Pack
    <3>5. QED
      BY <3>3, <3>4
  <2>8. QED
    BY <2>4, <2>5, <2>6, <2>7 DEF SnapInv
<1>7. QED
  BY <1>5, <1>6

\* What a step must show of the one node whose job it takes on, where data and
\* copies stay as they are.
LEMMA OtherNodesTell ==
    ASSUME SnapInv, ~dropped, parent' = parent, NEW m \in SnapNodes,
           disk'[m] = disk[m], HeadStays(m), StoredTyped',
           Top <= Top', \A s \in stored' : s \in stored \/ s.gen > Top
    PROVE  Tells(m)'
<1>1. Tells(m) /\ Top' \in Nat
  <2>1. Top' \in Nat
    BY TopIs, TopOfIs, SnapBounds DEF StoredTyped
  <2>2. QED
    BY <2>1 DEF SnapInv
<1>2. UpTo(disk[m].data) \subseteq UpTo(disk[m].data)'
  BY DEF UpTo, Histories
<1>3. QED
  BY <1>1, <1>2, TellsStays DEF SnapInv, SnapTyped

LEMMA UploadKeeps == ASSUME SnapInv, NEW n \in SnapNodes, Upload(n) PROVE SnapInv'
<1>1. QueueTyped /\ OneDeploy /\ home \in SnapNodes /\ queue[n] # <<>> /\ n \in Queues
  BY DEF SnapInv, SnapTyped, PlacesTyped, Queues, Upload
<1>2. PICK j : j = Running(n) /\ j.step = "packed" /\ j \in Jobs(made, Len(parent)) /\ queue[n][1] = j
  BY <1>1, FirstJob DEF Upload
<1>3. PlacesTyped'
  BY DEF Upload, SnapInv, SnapTyped, PlacesTyped
<1>4. ~At(n, "stored") /\ At(n, "packed")
  BY <1>1, <1>2 DEF At
<1>5. CASE ~Hosts(n)
  <2>1. queue' = Ended(n) /\ stored' = stored
    BY <1>5 DEF Upload
  <2>2. QED
    BY <1>1, <1>3, <1>4, <2>1, EndIsQuiet DEF Upload
<1>6. CASE Hosts(n)
  <2>1. PICK top \in Nat : top = Top /\ top < MaxGenerations /\ \A s \in stored : s.gen \in Nat /\ s.gen <= top
    BY TopTyped DEF SnapInv, SnapTyped, Upload
  <2>2. PICK c : /\ c = [gen |-> 0, data |-> j.copy.data, job |-> j.id, why |-> "node"]
                 /\ c \in [gen : Nat, data : 0 .. Len(parent), job : 0 .. MaxJobs, why : {"node", "restore"}]
    <3>1. j.copy.data \in 0 .. Len(parent) /\ j.id \in 0 .. MaxJobs
      BY <1>2, SnapBounds DEF Jobs, Notes, SnapInv, SnapTyped, PlacesTyped
    <3> DEFINE a == [gen |-> 0, data |-> j.copy.data, job |-> j.id, why |-> "node"]
    <3>2. a \in [gen : Nat, data : 0 .. Len(parent), job : 0 .. MaxJobs, why : {"node", "restore"}]
      BY <3>1
    <3>3. QED
      BY <3>2
  <2>3. PICK new : new = [c EXCEPT !.gen = top + 1] /\ new.gen = top + 1 /\ new.data = j.copy.data
    <3> DEFINE a == [c EXCEPT !.gen = top + 1]
    <3>1. c.data = j.copy.data
      BY <2>2
    <3>2. a.gen = top + 1 /\ a.data = j.copy.data
      BY <2>2, <3>1
    <3>3. QED
      BY <3>2
  <2>4. stored' = Stored(stored, c)
    BY <1>2, <1>6, <2>2 DEF Upload
  <2>5. /\ stored' \in SUBSET CopyRows(Len(parent)) /\ IsFiniteSet(stored') /\ Cardinality(stored') <= Keep
        /\ Distinct(stored') /\ stored' \subseteq stored \cup {new} /\ new \in stored'
        /\ TopOf(stored') = top + 1
    <3>1. /\ stored \in SUBSET CopyRows(Len(parent)) /\ IsFiniteSet(stored) /\ Distinct(stored)
          /\ TopOf(stored) = top
      BY <2>1, TopIs DEF SnapInv, SnapTyped, StoredTyped
    <3>2. QED
      BY <2>1, <2>2, <2>3, <2>4, <3>1, StoredIs
  <2>6. Top' = top + 1
    BY <2>5, TopIs
  <2>7. PICK k : /\ k \in Jobs(made, Len(parent)) /\ k.kind = j.kind /\ k.step = "stored"
                 /\ k.copy.gen = top + 1 /\ k.copy.data = j.copy.data
                 /\ k = [j EXCEPT !.step = "stored", !.copy.gen = top + 1]
    <3>1. top + 1 \in 0 .. MaxGenerations
      BY <2>1, SnapBounds
    <3>2. [j.copy EXCEPT !.gen = top + 1] \in Notes(Len(parent))
      BY <1>2, <3>1 DEF Jobs, Notes
    <3> DEFINE d == [j.copy EXCEPT !.gen = top + 1]
               l == [j EXCEPT !.step = "stored", !.copy = d]
    <3>3. d \in Notes(Len(parent)) /\ d.gen = top + 1 /\ d.data = j.copy.data
      BY <1>2, <3>2 DEF Jobs, Notes
    <3> HIDE DEF d
    <3>4. l \in Jobs(made, Len(parent)) /\ l.kind = j.kind /\ l.step = "stored" /\ l.copy = d
      BY <1>2, <3>3 DEF Jobs, Steps
    <3>5. l = [j EXCEPT !.step = "stored", !.copy.gen = top + 1]
      BY DEF d
    <3>6. QED
      BY <3>3, <3>4, <3>5
  <2>8. queue' = WithHead(n, k)
    BY <1>2, <1>6, <2>1, <2>7 DEF Upload
  <2>9. /\ QueueTyped' /\ OneDeploy'
        /\ \A m \in SnapNodes \ {n} : HeadStays(m) /\ queue'[m] = queue[m]
        /\ Running(n)' = k
        /\ \A step \in Steps : At(n, step)' <=> k.step = step
    <3>1. UNCHANGED <<home, online, made, parent, dropped>> /\ k.kind = Running(n).kind
      BY <1>2, <2>7 DEF Upload
    <3>2. QED
      BY <1>1, <2>7, <2>8, <3>1, GoingOn
  <2>10. StoredTyped'
    BY <2>5 DEF StoredTyped, Upload
  <2>11. SnapTyped'
    BY <1>3, <2>9, <2>10 DEF Upload, SnapInv, SnapTyped, ParentTyped, DiskTyped
  <2>12. \A s \in stored' : s \in stored \/ (s = new /\ s.gen > top)
    <3>1. new.gen = top + 1 /\ top + 1 > top
      BY <2>1, <2>3
    <3>2. \A s \in stored' : s \in stored \/ s = new
      BY <2>5
    <3>3. QED
      BY <3>1, <3>2
  <2>13. ASSUME ~dropped', NEW m \in SnapNodes
         PROVE  Tells(m)'
    <3>1. CASE m = n
      <4>1. Tells(n) /\ disk' = disk /\ UpTo(disk[n].data)' = UpTo(disk[n].data) /\ disk[n].gen \in Nat
        BY <2>13, SnapBounds DEF Upload, SnapInv, SnapTyped, DiskTyped, Notes, UpTo, Histories
      <4>2. disk'[n].gen <= Top'
        BY <2>1, <2>6, <4>1 DEF Tells
      <4>3. \A s \in stored' : s.gen = disk'[n].gen => s.data \in UpTo(disk[n].data)'
        <5> SUFFICES ASSUME NEW s \in stored', s.gen = disk[n].gen PROVE s.data \in UpTo(disk[n].data)
          BY <4>1
        <5>1. ~(s.gen > top)
          BY <2>1, <4>1 DEF Tells
        <5>2. QED
          BY <2>12, <4>1, <5>1 DEF Tells
      <4>4. k.copy.gen \in 1 .. Top' /\ k.copy.data \in UpTo(disk[n].data)'
        BY <1>2, <1>4, <2>1, <2>6, <2>7, <4>1 DEF Tells
      <4>5. \A s \in stored' : s.gen = k.copy.gen => s.data = k.copy.data
        <5>1. k.copy.gen = top + 1 /\ k.copy.data = new.data
          BY <2>3, <2>7
        <5>2. \A s \in stored : s.gen # top + 1
          BY <2>1
        <5>3. QED
          BY <2>12, <5>1, <5>2
      <4>6. ~At(n, "packed")' /\ ~At(n, "asked")' /\ ~At(n, "deaf")'
        BY <2>7, <2>9 DEF Steps
      <4>7. QED
        BY <2>9, <3>1, <4>2, <4>3, <4>4, <4>5, <4>6 DEF Tells, Same
    <3>2. CASE m # n
      <4>1. Top <= Top' /\ \A s \in stored' : s \in stored \/ s.gen > Top
        BY <2>1, <2>6, <2>12
      <4>2. QED
        BY <2>9, <2>10, <2>13, <3>2, <4>1, OtherNodesTell DEF Upload
    <3>3. QED
      BY <3>1, <3>2
  <2>14. HomeKnows'
    <3>1. home' = n /\ At(n, "stored")'
      BY <1>6, <2>7, <2>9 DEF Hosts, Steps, Upload
    <3>2. \A s \in stored' : s.gen <= k.copy.gen
      <4>1. k.copy.gen = top + 1 /\ new.gen = top + 1
        BY <2>3, <2>7
      <4>2. \A s \in stored : s.gen <= top + 1
        BY <2>1
      <4>3. QED
        BY <2>1, <2>12, <4>1, <4>2
    <3>3. Running(home)'.copy = k.copy
      BY <2>9, <3>1
    <3>4. At(home, "stored")'
      BY <3>1
    <3>5. QED
      BY <3>2, <3>3, <3>4 DEF HomeKnows
  <2>15. QED
    BY <2>9, <2>11, <2>13, <2>14 DEF SnapInv
<1>7. QED
  BY <1>5, <1>6

LEMMA NotedKeeps == ASSUME SnapInv, NEW n \in SnapNodes, NEW lost \in BOOLEAN, Noted(n, lost) PROVE SnapInv'
<1>1. QueueTyped /\ OneDeploy /\ home \in SnapNodes /\ queue[n] # <<>> /\ n \in Queues
      /\ queue' = Ended(n)
  BY DEF SnapInv, SnapTyped, PlacesTyped, Queues, Noted
<1>2. PICK j : j = Running(n) /\ j.step = "stored" /\ j \in Jobs(made, Len(parent)) /\ queue[n][1] = j
  BY <1>1, FirstJob DEF Noted
<1>3. PlacesTyped'
  BY DEF Noted, SnapInv, SnapTyped, PlacesTyped
<1>4. At(n, "stored")
  BY <1>1, <1>2 DEF At
<1>5. CASE lost
  <2>1. behind' = behind \cup {n} /\ disk' = disk
    BY <1>5 DEF Noted
  <2>2. QED
    BY <1>1, <1>3, <2>1, EndIsQuiet DEF Noted
<1>6. CASE ~lost
  <2>1. disk' = [disk EXCEPT ![n].gen = j.copy.gen] /\ behind' = behind \ {n}
    BY <1>2, <1>6 DEF Noted
  <2>2. /\ disk'[n].gen = j.copy.gen /\ disk'[n].data = disk[n].data
        /\ \A m \in SnapNodes \ {n} : disk'[m] = disk[m]
        /\ DiskTyped'
    <3>1. disk[n] \in Notes(Len(parent)) /\ j.copy.gen \in 0 .. MaxGenerations
      BY <1>2 DEF Jobs, Notes, SnapInv, SnapTyped, DiskTyped
    <3> DEFINE d == [disk[n] EXCEPT !.gen = j.copy.gen]
    <3>2. d \in Notes(Len(parent)) /\ d.gen = j.copy.gen /\ d.data = disk[n].data
      BY <3>1 DEF Notes
    <3>3. disk' = [disk EXCEPT ![n] = d]
      BY <2>1
    <3> HIDE DEF d
    <3>4. QED
      BY <3>2, <3>3 DEF Noted, SnapInv, SnapTyped, DiskTyped
  <2>3. /\ QueueTyped'
        /\ \A step \in Steps : step # "queued" => ~At(n, step)'
        /\ \A m \in SnapNodes : HeadStays(m)
        /\ \A m \in SnapNodes \ {n} : queue'[m] = queue[m]
    BY <1>1, JobEnds DEF Noted
  <2>4. OneDeploy'
    BY <1>1, EndKeepsOneDeploy DEF Noted
  <2>5. SnapTyped'
    BY <1>3, <2>2, <2>3 DEF Noted, SnapInv, SnapTyped, ParentTyped, StoredTyped
  <2>6. ~At(n, "packed")' /\ ~At(n, "stored")' /\ ~At(n, "asked")' /\ ~At(n, "deaf")'
    BY <2>3 DEF Steps
  <2>7. ASSUME ~dropped', NEW m \in SnapNodes
        PROVE  Tells(m)'
    <3>1. Top' = Top /\ Top \in Nat
      BY TopTyped DEF Noted, SnapInv, SnapTyped, Top
    <3>2. CASE m = n
      <4>1. Tells(n) /\ UpTo(disk[n].data)' = UpTo(disk[n].data)
        BY <2>2, <2>7 DEF Noted, SnapInv, UpTo, Histories
      <4>2. j.copy.gen <= Top /\ j.copy.data \in UpTo(disk[n].data)
            /\ \A s \in stored : s.gen = j.copy.gen => s.data = j.copy.data
        BY <1>2, <1>4, <3>1, <4>1 DEF Tells, Same
      <4>3. disk'[n].gen <= Top' /\ \A s \in stored' : s.gen = disk'[n].gen => s.data \in UpTo(disk[n].data)'
        BY <2>2, <3>1, <4>1, <4>2 DEF Noted
      <4>4. QED
        BY <2>6, <3>2, <4>3 DEF Tells
    <3>3. CASE m # n
      <4>1. stored' = stored
        BY DEF Noted
      <4>2. QED
        BY <2>2, <2>3, <2>5, <2>7, <3>1, <3>3, <4>1, OtherNodesTell DEF Noted, SnapTyped
    <3>4. QED
      BY <3>2, <3>3
  <2>8. ASSUME ~dropped'
        PROVE  HomeKnows'
    <3>1. HomeKnows /\ stored' = stored /\ home' = home
      BY <2>8 DEF Noted, SnapInv
    <3>2. CASE home = n
      <4>1. \A s \in stored' : s.why = "node" => s.gen <= disk'[n].gen
        BY <1>2, <1>4, <2>2, <3>1, <3>2 DEF HomeKnows
      <4>2. ~At(home, "stored")' /\ ~At(home, "asked")'
        BY <2>6, <3>1, <3>2
      <4>3. QED
        BY <3>1, <3>2, <4>1, <4>2 DEF HomeKnows
    <3>3. CASE home # n
      <4>1. At(home, "stored") => At(home, "stored")'
        BY <1>1, <2>3, <3>1, <3>3 DEF At
      <4>2. QED
        BY <1>1, <2>1, <2>2, <2>3, <3>1, <3>3, <4>1, HomeKnowsStays
    <3>4. QED
      BY <3>2, <3>3
  <2>9. QED
    BY <2>4, <2>5, <2>7, <2>8 DEF SnapInv
<1>7. QED
  BY <1>5, <1>6

LEMMA AskNewestKeeps ==
    ASSUME SnapInv, NEW n \in SnapNodes, NEW answered \in BOOLEAN, AskNewest(n, answered)
    PROVE  SnapInv'
<1>1. QueueTyped /\ OneDeploy /\ home \in SnapNodes /\ queue[n] # <<>> /\ n \in Queues
  BY DEF SnapInv, SnapTyped, PlacesTyped, Queues, AskNewest
<1>2. PICK j : j = Running(n) /\ j.step = "queued" /\ j \in Jobs(made, Len(parent)) /\ queue[n][1] = j
  BY <1>1, FirstJob DEF AskNewest
<1>3. PlacesTyped'
  BY DEF AskNewest, SnapInv, SnapTyped, PlacesTyped
<1>4. ~At(n, "stored")
  BY <1>2 DEF At
<1>5. PICK top \in Nat : top = Top /\ top \in 0 .. MaxGenerations /\ \A s \in stored : s.gen \in 1 .. top
  <2>1. stored \in SUBSET CopyRows(Len(parent))
    BY DEF SnapInv, SnapTyped, StoredTyped
  <2>2. TopOf(stored) \in 0 .. MaxGenerations
        /\ \A s \in stored : s.gen <= TopOf(stored) /\ s.gen \in 1 .. MaxGenerations
    BY <2>1, TopOfIs
  <2>3. QED
    BY <2>2, TopIs, SnapBounds
<1>6. PICK copy \in Notes(Len(parent)) :
         /\ copy = IF answered /\ stored # {} /\ Needs(n) THEN [data |-> Newest.data, gen |-> Top] ELSE Empty
         /\ copy # Empty => /\ answered /\ copy.gen = top /\ top \in 1 .. top /\ disk[n].gen < top
                            /\ \A s \in stored : s.gen = top => s.data = copy.data
  <2>1. CASE answered /\ stored # {} /\ Needs(n)
    <3>1. Newest \in stored /\ Newest.gen = Top /\ \A s \in stored : s.gen = Top => s = Newest
      BY <2>1, NewestIs DEF SnapInv, SnapTyped, StoredTyped
    <3>2. Newest.data \in 0 .. Len(parent)
      BY <3>1 DEF SnapInv, SnapTyped, StoredTyped, CopyRows
    <3> DEFINE a == [data |-> Newest.data, gen |-> Top]
    <3>3. a \in Notes(Len(parent)) /\ a.gen = top /\ a.data = Newest.data
      BY <1>5, <3>2 DEF Notes
    <3>4. disk[n].gen < top /\ top \in 1 .. top
      <4>1. disk[n].gen \in Nat
        BY SnapBounds DEF SnapInv, SnapTyped, DiskTyped, Notes
      <4>2. QED
        BY <1>5, <2>1, <4>1 DEF Needs
    <3>5. \A s \in stored : s.gen = top => s.data = a.data
      BY <1>5, <3>1
    <3> HIDE DEF a
    <3>6. a = IF answered /\ stored # {} /\ Needs(n) THEN [data |-> Newest.data, gen |-> Top] ELSE Empty
      BY <2>1 DEF a
    <3>7. QED
      BY <2>1, <3>3, <3>4, <3>5, <3>6
  <2>2. CASE ~(answered /\ stored # {} /\ Needs(n))
    <3>1. Empty \in Notes(Len(parent))
      BY SnapBounds DEF Empty, Notes, SnapInv, SnapTyped, ParentTyped
    <3>2. QED
      BY <2>2, <3>1
  <2>3. QED
    BY <2>1, <2>2
<1>7. PICK k : /\ k = [j EXCEPT !.step = IF answered THEN "asked" ELSE "deaf", !.copy = copy]
               /\ k \in Jobs(made, Len(parent)) /\ k.kind = j.kind /\ k.copy = copy
               /\ k.step = IF answered THEN "asked" ELSE "deaf"
  <2> DEFINE k == [j EXCEPT !.step = IF answered THEN "asked" ELSE "deaf", !.copy = copy]
  <2>1. k \in Jobs(made, Len(parent)) /\ k.kind = j.kind /\ k.copy = copy
        /\ k.step = IF answered THEN "asked" ELSE "deaf"
    BY <1>2 DEF Jobs, Steps
  <2>2. QED
    BY <2>1
<1>8. queue' = WithHead(n, k)
  BY <1>2, <1>6, <1>7 DEF AskNewest
<1>9. /\ QueueTyped' /\ OneDeploy'
      /\ \A m \in SnapNodes \ {n} : HeadStays(m) /\ queue'[m] = queue[m]
      /\ Running(n)' = k
      /\ \A step \in Steps : At(n, step)' <=> k.step = step
  <2>1. UNCHANGED <<home, online, made, parent, dropped>> /\ k.kind = Running(n).kind
    BY <1>2, <1>7 DEF AskNewest
  <2>2. QED
    BY <1>1, <1>7, <1>8, <2>1, GoingOn
<1>10. SnapTyped'
  BY <1>3, <1>9 DEF AskNewest, SnapInv, SnapTyped, ParentTyped, DiskTyped, StoredTyped
<1>11. ~At(n, "packed")' /\ ~At(n, "stored")' /\ (At(n, "asked")' => answered)
       /\ (At(n, "deaf")' => ~answered)
  BY <1>7, <1>9 DEF Steps
<1>12. ASSUME ~dropped', NEW m \in SnapNodes
       PROVE  Tells(m)'
  <2>1. Top' = Top /\ stored' = stored /\ disk' = disk
    BY DEF AskNewest, Top
  <2>2. CASE m = n
    <3>1. Tells(n) /\ UpTo(disk[n].data)' = UpTo(disk[n].data)
      BY <1>12 DEF AskNewest, SnapInv, UpTo, Histories
    <3>2. disk'[n].gen <= Top' /\ \A s \in stored' : s.gen = disk'[n].gen => s.data \in UpTo(disk[n].data)'
      BY <2>1, <3>1 DEF Tells
    <3>3. copy # Empty => /\ copy.gen \in 1 .. Top' /\ disk'[n].gen < copy.gen
                          /\ \A s \in stored' : s.gen = copy.gen => s.data = copy.data
      BY <1>5, <1>6, <2>1
    <3>4. ~answered => copy = Empty
      BY <1>6
    <3>5. Running(n)'.copy = copy
      BY <1>7, <1>9
    <3>6. At(n, "deaf")' => Running(n)'.copy = Empty
      BY <1>11, <3>4, <3>5
    <3>7. At(n, "asked")' /\ Running(n)'.copy # Empty =>
             /\ Running(n)'.copy.gen \in 1 .. Top' /\ disk'[n].gen < Running(n)'.copy.gen
             /\ \A s \in stored' : s.gen = Running(n)'.copy.gen => s.data = Running(n)'.copy.data
      BY <3>3, <3>5
    <3>8. QED
      BY <1>11, <2>2, <3>2, <3>6, <3>7 DEF Tells, Same
  <2>3. CASE m # n
    <3>1. Top \in Nat
      BY <1>5
    <3>2. QED
      <4>1. ~dropped /\ parent' = parent
        BY <1>12 DEF AskNewest
      <4>2. StoredTyped' /\ HeadStays(m) /\ Top <= Top' /\ disk'[m] = disk[m]
        BY <1>9, <1>10, <2>1, <2>3, <3>1 DEF SnapTyped
      <4>3. QED
        BY <2>1, <4>1, <4>2, OtherNodesTell
  <2>4. QED
    BY <2>2, <2>3
<1>13. ASSUME ~dropped'
       PROVE  HomeKnows'
  <2>1. HomeKnows /\ stored' = stored /\ home' = home /\ disk' = disk /\ behind' = behind
    BY <1>13 DEF AskNewest, SnapInv
  <2>2. CASE home = n
    <3>1. Running(home)'.copy = copy /\ ~At(home, "stored")'
      BY <1>7, <1>9, <1>11, <2>1, <2>2
    <3>2. copy # Empty => \A s \in stored' : s.gen <= copy.gen
      BY <1>5, <1>6, <2>1
    <3>3. home' \notin behind' => \A s \in stored' : s.why = "node" => s.gen <= disk'[home'].gen
      BY <1>4, <2>1, <2>2 DEF HomeKnows
    <3>4. QED
      BY <3>1, <3>2, <3>3 DEF HomeKnows
  <2>3. CASE home # n
    <3>1. At(home, "stored") => At(home, "stored")'
      BY <1>1, <1>9, <2>1, <2>3 DEF At
    <3>2. QED
      BY <1>1, <1>9, <2>1, <2>3, <3>1, HomeKnowsStays
  <2>4. QED
    BY <2>2, <2>3
<1>14. QED
  BY <1>9, <1>10, <1>12, <1>13 DEF SnapInv

LEMMA RemoveCopyKeeps == ASSUME SnapInv, NEW n \in SnapNodes, RemoveCopy(n) PROVE SnapInv'
<1>1. QueueTyped /\ OneDeploy /\ home \in SnapNodes /\ queue[n] # <<>> /\ queue' = Ended(n) /\ home' = home
  BY DEF SnapInv, SnapTyped, PlacesTyped, Queues, RemoveCopy
<1>2. n # home
  BY <1>1, FirstJob DEF OneDeploy, RemoveCopy
<1>3. PlacesTyped'
  BY DEF RemoveCopy, SnapInv, SnapTyped, PlacesTyped
<1>4. /\ QueueTyped'
      /\ \A step \in Steps : step # "queued" => ~At(n, step)'
      /\ \A m \in SnapNodes : HeadStays(m)
      /\ \A m \in SnapNodes \ {n} : queue'[m] = queue[m]
  BY <1>1, JobEnds DEF RemoveCopy
<1>5. OneDeploy'
  BY <1>1, EndKeepsOneDeploy
<1>6. DiskTyped' /\ disk'[n] = Empty /\ \A m \in SnapNodes \ {n} : disk'[m] = disk[m]
  <2>1. PICK e \in Notes(Len(parent)) : e = Empty
    <3>1. Len(parent) \in Nat
      BY DEF SnapInv, SnapTyped, ParentTyped
    <3>2. Empty \in Notes(Len(parent))
      BY <3>1, SnapBounds DEF Empty, Notes
    <3>3. QED
      BY <3>2
  <2>2. QED
    BY <2>1 DEF RemoveCopy, SnapInv, SnapTyped, DiskTyped
<1>7. SnapTyped'
  BY <1>3, <1>4, <1>6 DEF RemoveCopy, SnapInv, SnapTyped, ParentTyped, StoredTyped
<1>8. ASSUME ~dropped', NEW m \in SnapNodes
      PROVE  Tells(m)'
  <2>1. Top' = Top /\ stored' = stored /\ Top \in Nat
    BY TopTyped DEF RemoveCopy, Top, SnapInv, SnapTyped
  <2>2. CASE m = n
    <3>1. disk'[n].gen = 0
      BY <1>6 DEF Empty
    <3>2. \A s \in stored' : s.gen # 0
      BY <2>1 DEF SnapInv, SnapTyped, StoredTyped, CopyRows
    <3>3. QED
      BY <1>4, <2>1, <2>2, <3>1, <3>2 DEF Tells, Steps
  <2>3. CASE m # n
    BY <1>4, <1>6, <1>7, <1>8, <2>1, <2>3, OtherNodesTell DEF RemoveCopy, SnapTyped
  <2>4. QED
    BY <2>2, <2>3
<1>9. ASSUME ~dropped'
      PROVE  HomeKnows'
  <2>1. HomeKnows /\ stored' = stored
    BY <1>9 DEF RemoveCopy, SnapInv
  <2>2. At(home, "stored") => At(home, "stored")'
    BY <1>1, <1>2, <1>4 DEF At
  <2>3. home \in behind => home \in behind'
    BY <1>2 DEF RemoveCopy
  <2>4. QED
    BY <1>1, <1>2, <1>4, <1>6, <2>1, <2>2, <2>3, HomeKnowsStays
<1>10. QED
  BY <1>5, <1>7, <1>8, <1>9 DEF SnapInv

LEMMA WriteDataKeeps == ASSUME SnapInv, WriteData PROVE SnapInv'
<1> USE DEF WriteData
<1>1. PICK w \in Nat : /\ w = Len(parent) /\ w < MaxWrites /\ parent \in Seq(Nat) /\ Writes = 0 .. w
                       /\ \A v \in 1 .. w : parent[v] < v
  BY DEF SnapInv, SnapTyped, ParentTyped, Writes
<1>2. PICK d \in 0 .. w : d = disk[home].data
  BY <1>1 DEF SnapInv, SnapTyped, PlacesTyped, DiskTyped, Notes
<1>3. parent' = Append(parent, d) /\ Len(parent') = w + 1 /\ parent' \in Seq(Nat)
  BY <1>1, <1>2
<1>4. \A v \in Writes : UpTo(v) \subseteq UpTo(v)'
  BY <1>1, <1>2, <1>3, UpToGrows DEF SnapInv, SnapTyped
<1>5. UpTo(d) \subseteq UpTo(Len(parent))'
  BY <1>1, <1>2, <1>3, UpToGrows DEF SnapInv, SnapTyped
<1>6. ParentTyped'
  <2>1. \A v \in 1 .. w + 1 : parent'[v] < v
    <3>1. parent'[w + 1] = d /\ \A v \in 1 .. w : parent'[v] = parent[v]
      BY <1>1, <1>3
    <3>2. QED
      BY <1>1, <3>1
  <2>2. DOMAIN parent' = 1 .. w + 1
    BY <1>3
  <2>3. QED
    BY <1>1, <1>3, <2>1, <2>2, SnapBounds DEF ParentTyped
<1>7. made \in Nat
  BY DEF SnapInv, SnapTyped, PlacesTyped
<1>8. /\ Jobs(made, w) \subseteq Jobs(made, w + 1) /\ Notes(w) \subseteq Notes(w + 1)
      /\ CopyRows(w) \subseteq CopyRows(w + 1)
  <2>1. w + 1 \in Nat /\ w <= w + 1 /\ made <= made
    BY <1>7
  <2>2. QED
    BY <1>7, <2>1, JobsGrow
<1>9. /\ disk'[home].gen = disk[home].gen /\ disk'[home].data = w + 1
      /\ \A m \in SnapNodes \ {home} : disk'[m] = disk[m]
      /\ DiskTyped'
  <2>1. disk \in [SnapNodes -> Notes(w + 1)] /\ home \in SnapNodes
    BY <1>1, <1>8 DEF SnapInv, SnapTyped, DiskTyped, PlacesTyped
  <2> DEFINE e == [disk[home] EXCEPT !.data = w + 1]
  <2>2. e \in Notes(w + 1) /\ e.gen = disk[home].gen /\ e.data = w + 1
    <3>1. disk[home] \in Notes(w + 1) /\ w + 1 \in 0 .. w + 1
      BY <2>1
    <3>2. QED
      BY <3>1 DEF Notes
  <2>3. disk' = [disk EXCEPT ![home] = e]
    BY <1>3
  <2> HIDE DEF e
  <2>4. disk' \in [SnapNodes -> Notes(w + 1)]
    BY <2>1, <2>2, <2>3
  <2>5. QED
    BY <1>3, <2>1, <2>2, <2>3, <2>4 DEF DiskTyped
<1>10. SnapTyped'
  <2>1. PlacesTyped'
    BY DEF SnapInv, SnapTyped, PlacesTyped
  <2>2. QueueTyped'
    <3>1. \A n \in SnapNodes : queue[n] \in Seq(Jobs(made, w + 1))
      BY <1>1, <1>8 DEF SnapInv, SnapTyped, QueueTyped
    <3>2. queue' \in [SnapNodes -> Seq(Jobs(made', Len(parent')))]
      BY <1>3, <3>1 DEF SnapInv, SnapTyped, QueueTyped
    <3>3. QED
      BY <3>2 DEF SnapInv, SnapTyped, QueueTyped
  <2>3. StoredTyped'
    BY <1>1, <1>3, <1>8 DEF SnapInv, SnapTyped, StoredTyped
  <2>4. QED
    BY <1>6, <1>9, <2>1, <2>2, <2>3 DEF SnapTyped
<1>11. OneDeploy'
  BY DEF SnapInv, OneDeploy
<1>12. \A m \in SnapNodes : HeadStays(m)
  BY DEF HeadStays, At, Running
<1>13. ASSUME ~dropped', NEW m \in SnapNodes
       PROVE  Tells(m)'
  <2>1. Top' = Top /\ Top \in Nat
    BY TopTyped DEF SnapInv, SnapTyped, Top
  <2>2. disk[m].data \in Writes
    BY DEF SnapInv, SnapTyped, DiskTyped, Notes, Writes
  <2>3. UpTo(disk[m].data) \subseteq UpTo(disk[m].data)'
    <3>1. CASE m = home
      <4>1. disk'[m].data = Len(parent)' /\ disk[m].data = d
        BY <1>2, <1>3, <1>9, <3>1
      <4>2. UpTo(disk[m].data)' = UpTo(Len(parent))'
        BY <4>1 DEF UpTo
      <4>3. QED
        BY <1>5, <4>1, <4>2
    <3>2. CASE m # home
      <4>1. disk'[m] = disk[m]
        BY <1>9, <3>2
      <4>2. PICK v \in Writes : v = disk[m].data /\ v = disk'[m].data
        BY <2>2, <4>1
      <4>3. UpTo(disk[m].data)' = UpTo(v)'
        BY <4>2 DEF UpTo
      <4>4. QED
        BY <1>4, <4>2, <4>3
    <3>3. QED
      BY <3>1, <3>2
  <2>4. Tells(m)
    BY <1>13 DEF SnapInv
  <2>5. disk'[m].gen = disk[m].gen
    BY <1>9
  <2>6. QED
    BY <1>12, <2>1, <2>3, <2>4, <2>5, TellsStays DEF SnapInv, SnapTyped
<1>14. ASSUME ~dropped'
       PROVE  HomeKnows'
  <2>1. At(home, "stored") => At(home, "stored")'
    BY DEF At
  <2>2. HomeKnows /\ home \in SnapNodes
    BY <1>14 DEF SnapInv, SnapTyped, PlacesTyped
  <2>3. QED
    BY <1>9, <1>12, <2>1, <2>2, HomeKnowsStays
<1>15. QED
  BY <1>10, <1>11, <1>13, <1>14 DEF SnapInv

LEMMA PutBackIs ==
    ASSUME SnapInv, ~dropped, NEW n \in SnapNodes, NEW fetched \in BOOLEAN,
           At(n, "asked") \/ At(n, "deaf"), PutBack(n, fetched) # disk[n]
    PROVE  /\ PutBack(n, fetched) = Running(n).copy /\ Running(n).copy # Empty /\ At(n, "asked")
           /\ \A s \in stored : s.gen = Running(n).copy.gen => s.data = Running(n).copy.data
           /\ Running(n).copy.gen \in 1 .. Top
<1>1. PutBack(n, fetched) = Running(n).copy /\ Running(n).copy # Empty
  BY DEF PutBack
<1>2. Tells(n)
  BY DEF SnapInv
<1>3. At(n, "asked")
  BY <1>1, <1>2 DEF Tells
<1>4. QED
  BY <1>1, <1>2, <1>3 DEF Tells, Same

LEMMA StartPluginKeeps ==
    ASSUME SnapInv, NEW n \in SnapNodes, NEW fetched \in BOOLEAN, StartPlugin(n, fetched)
    PROVE  SnapInv'
<1>1. QueueTyped /\ OneDeploy /\ home \in SnapNodes /\ queue[n] # <<>> /\ n \in Queues
  BY DEF SnapInv, SnapTyped, PlacesTyped, Queues, StartPlugin
<1>2. PICK j : /\ j = Running(n) /\ j.step \in {"asked", "deaf"} /\ j \in Jobs(made, Len(parent))
               /\ queue[n][1] = j
  BY <1>1, FirstJob DEF StartPlugin
<1>3. (At(n, "asked") \/ At(n, "deaf")) /\ ~At(n, "stored")
  BY <1>1, <1>2 DEF At
<1>4. PICK d : d = PutBack(n, fetched) /\ (d = j.copy \/ d = disk[n])
  BY <1>2 DEF PutBack
<1>5. disk' = [disk EXCEPT ![n] = d]
  BY <1>4 DEF StartPlugin
<1>6. d \in Notes(Len(parent))
  BY <1>2, <1>4 DEF Jobs, SnapInv, SnapTyped, DiskTyped
<1>7. DiskTyped' /\ disk'[n] = d /\ \A m \in SnapNodes \ {n} : disk'[m] = disk[m]
  BY <1>5, <1>6 DEF StartPlugin, SnapInv, SnapTyped, DiskTyped
<1>8. PlacesTyped'
  BY DEF StartPlugin, SnapInv, SnapTyped, PlacesTyped
<1>9. PICK k : /\ k = [j EXCEPT !.step = "started"] /\ k \in Jobs(made, Len(parent))
               /\ k.kind = j.kind /\ k.step = "started"
  <2> DEFINE k == [j EXCEPT !.step = "started"]
  <2>1. k \in Jobs(made, Len(parent)) /\ k.kind = j.kind /\ k.step = "started"
    BY <1>2 DEF Jobs, Steps
  <2>2. QED
    BY <2>1
<1>10. queue' = WithHead(n, k)
  BY <1>2, <1>9 DEF StartPlugin
<1>11. /\ QueueTyped' /\ OneDeploy'
       /\ \A m \in SnapNodes \ {n} : HeadStays(m) /\ queue'[m] = queue[m]
       /\ \A step \in Steps : At(n, step)' <=> k.step = step
  <2>1. UNCHANGED <<home, online, made, parent, dropped>> /\ k.kind = Running(n).kind
    BY <1>2, <1>9 DEF StartPlugin
  <2>2. QED
    BY <1>1, <1>9, <1>10, <2>1, GoingOn
<1>12. SnapTyped'
  BY <1>7, <1>8, <1>11 DEF StartPlugin, SnapInv, SnapTyped, ParentTyped, StoredTyped
<1>13. ~At(n, "packed")' /\ ~At(n, "stored")' /\ ~At(n, "asked")' /\ ~At(n, "deaf")'
  BY <1>9, <1>11 DEF Steps
<1>14. Top' = Top /\ stored' = stored /\ home' = home /\ parent' = parent /\ dropped' = dropped
  BY DEF StartPlugin, Top
<1>15. ASSUME ~dropped', NEW m \in SnapNodes
       PROVE  Tells(m)'
  <2>1. CASE m = n
    <3>1. d.gen <= Top /\ \A s \in stored : s.gen = d.gen => s.data \in UpTo(d.data)
      <4>1. CASE d = disk[n]
        BY <1>14, <1>15, <4>1 DEF SnapInv, Tells
      <4>2. CASE d # disk[n]
        <5>1. d = j.copy /\ d.gen <= Top /\ \A s \in stored : s.gen = d.gen => s.data = d.data
          BY <1>2, <1>3, <1>4, <1>14, <1>15, <4>2, PutBackIs
        <5>2. d.data \in UpTo(d.data)
          <6>1. d.data \in Writes
            BY <1>6 DEF Notes, Writes
          <6>2. QED
            BY <6>1, UpToItself
        <5>3. QED
          BY <5>1, <5>2
      <4>3. QED
        BY <4>1, <4>2
    <3>2. UpTo(disk[n].data)' = UpTo(d.data)
      BY <1>7, <1>14 DEF UpTo, Histories
    <3>3. QED
      BY <1>7, <1>13, <1>14, <2>1, <3>1, <3>2 DEF Tells
  <2>2. CASE m # n
    <3>1. StoredTyped' /\ HeadStays(m) /\ Top <= Top' /\ disk'[m] = disk[m]
      <4>1. Top \in Nat
        BY TopTyped DEF SnapInv, SnapTyped
      <4>2. QED
        BY <1>7, <1>11, <1>12, <1>14, <2>2, <4>1 DEF SnapTyped
    <3>2. QED
      BY <1>14, <1>15, <3>1, OtherNodesTell
  <2>3. QED
    BY <2>1, <2>2
<1>16. ASSUME ~dropped'
       PROVE  HomeKnows'
  <2>1. HomeKnows
    BY <1>14, <1>16 DEF SnapInv
  <2>2. CASE home = n
    <3>1. home' \notin behind' => \A s \in stored' : s.why = "node" => s.gen <= disk'[home'].gen
      <4>1. CASE d = disk[n]
        <5>1. disk' = disk
          BY <1>5, <4>1 DEF SnapInv, SnapTyped, DiskTyped
        <5>2. behind' = behind
          BY <5>1 DEF StartPlugin
        <5>3. QED
          BY <1>3, <1>14, <2>1, <2>2, <5>1, <5>2 DEF HomeKnows
      <4>2. CASE d # disk[n]
        <5>1. d = Running(n).copy /\ Running(n).copy # Empty /\ At(n, "asked")
          BY <1>3, <1>4, <1>14, <1>16, <4>2, PutBackIs
        <5>2. QED
          BY <1>7, <1>14, <2>1, <2>2, <5>1 DEF HomeKnows
      <4>3. QED
        BY <4>1, <4>2
    <3>2. ~At(home, "stored")' /\ ~At(home, "asked")'
      BY <1>13, <1>14, <2>2
    <3>3. QED
      BY <3>1, <3>2 DEF HomeKnows
  <2>3. CASE home # n
    <3>1. At(home, "stored") => At(home, "stored")'
      BY <1>1, <1>11, <1>14, <2>3 DEF At
    <3>2. home \in behind => home \in behind'
      BY <2>3 DEF StartPlugin
    <3>3. QED
      BY <1>1, <1>7, <1>11, <1>14, <2>1, <2>3, <3>1, <3>2, HomeKnowsStays
  <2>4. QED
    BY <2>2, <2>3
<1>17. QED
  BY <1>11, <1>12, <1>15, <1>16 DEF SnapInv

LEMMA DeployEndsKeeps ==
    ASSUME SnapInv, NEW n \in SnapNodes, NEW succeeded \in BOOLEAN, DeployEnds(n, succeeded)
    PROVE  SnapInv'
<1>1. QueueTyped /\ OneDeploy /\ home \in SnapNodes /\ queue[n] # <<>>
  BY DEF SnapInv, SnapTyped, PlacesTyped, Queues, DeployEnds
<1>2. queue[n][1].kind = "deploy" /\ queue[n][1].step = "started" /\ 1 \in DOMAIN queue[n]
  BY <1>1, FirstJob DEF DeployEnds
<1>3. home \in behind => home \in behind'
  BY DEF DeployEnds
<1>4. CASE ~(succeeded /\ n # home)
  <2>1. queue' = Ended(n) /\ home' = home /\ made' = made
    BY <1>4 DEF DeployEnds
  <2>2. PlacesTyped'
    BY <2>1 DEF DeployEnds, SnapInv, SnapTyped, PlacesTyped
  <2>3. ~At(n, "stored")
    BY <1>2 DEF At
  <2>4. QED
    BY <1>1, <1>3, <2>1, <2>2, <2>3, EndIsQuiet DEF DeployEnds
<1>5. CASE succeeded /\ n # home
  <2>1. home' = n /\ made' = made + 1 /\ made < MaxJobs
        /\ queue' = [Ended(n) EXCEPT ![home] = Append(@, Job("remove", made + 1))]
    BY <1>5 DEF DeployEnds
  <2>2. made \in Nat /\ made' \in Nat /\ made <= made' /\ made' \in 0 .. MaxJobs /\ Len(parent) \in Nat
        /\ made + 1 \in 1 .. made'
    BY <2>1, SnapBounds DEF SnapInv, SnapTyped, PlacesTyped, ParentTyped
  <2>3. PICK j \in Jobs(made', Len(parent)) :
           j = Job("remove", made + 1) /\ j.kind = "remove" /\ j.step = "queued"
    BY <2>2, JobTyped DEF Kinds
  <2>4. Jobs(made, Len(parent)) \subseteq Jobs(made', Len(parent))
    BY <2>2, JobsGrow
  <2> HIDE DEF Jobs
  <2>5. /\ DOMAIN queue' = SnapNodes /\ queue' = [m \in SnapNodes |-> queue'[m]]
        /\ queue'[n] = Tail(queue[n]) /\ queue'[home] = Append(queue[home], j)
        /\ \A m \in SnapNodes \ {n, home} : queue'[m] = queue[m]
    <3>1. DOMAIN queue = SnapNodes
      BY <1>1 DEF QueueTyped
    <3>2. QED
      BY <1>1, <1>5, <2>1, <2>3, <3>1 DEF Ended
  <2>6. \A m \in SnapNodes : /\ queue[m] \in Seq(Jobs(made, Len(parent)))
                             /\ queue[m] \in Seq(Jobs(made', Len(parent)))
                             /\ \A i \in DOMAIN queue[m] : i # 1 => queue[m][i].step = "queued"
    BY <1>1, <2>4 DEF QueueTyped
  <2>7. /\ Tail(queue[n]) \in Seq(Jobs(made', Len(parent)))
        /\ \A i \in DOMAIN Tail(queue[n]) : /\ i \in Nat /\ i + 1 \in DOMAIN queue[n] /\ i + 1 # 1
                                            /\ Tail(queue[n])[i] = queue[n][i + 1]
    BY <1>1, <2>6, HeadGone
  <2>8. /\ Append(queue[home], j) \in Seq(Jobs(made', Len(parent)))
        /\ \A i \in DOMAIN queue[home] : Append(queue[home], j)[i] = queue[home][i]
        /\ \A i \in DOMAIN Append(queue[home], j) :
              i \in DOMAIN queue[home] \/ Append(queue[home], j)[i] = j
        /\ queue[home] # <<>> => 1 \in DOMAIN queue[home]
    BY <1>1, <2>3, <2>6, JobAdded
  <2>9. QueueTyped'
    <3>1. \A m \in SnapNodes : queue'[m] \in Seq(Jobs(made', Len(parent)))
      BY <2>5, <2>6, <2>7, <2>8
    <3>2. queue' \in [SnapNodes -> Seq(Jobs(made', Len(parent)))] /\ parent' = parent
      BY <2>5, <3>1 DEF DeployEnds
    <3>3. \A m \in SnapNodes : \A i \in DOMAIN queue'[m] : i # 1 => queue'[m][i].step = "queued"
      <4> SUFFICES ASSUME NEW m \in SnapNodes, NEW i \in DOMAIN queue'[m], i # 1
                   PROVE  queue'[m][i].step = "queued"
        OBVIOUS
      <4>1. CASE m = n
        <5>1. PICK k \in DOMAIN queue[n] : k # 1 /\ queue'[m][i] = queue[n][k]
          BY <2>5, <2>7, <4>1
        <5>2. queue[n][k].step = "queued"
          BY <2>6, <5>1
        <5>3. QED
          BY <5>1, <5>2
      <4>2. CASE m = home
        BY <2>3, <2>5, <2>6, <2>8, <4>2
      <4>3. CASE m \notin {n, home}
        BY <2>5, <2>6, <4>3
      <4>4. QED
        BY <4>1, <4>2, <4>3
    <3>4. QED
      BY <3>2, <3>3 DEF QueueTyped
  <2>10. \A step \in Steps : step # "queued" => ~At(n, step)'
    <3>1. queue'[n] # <<>> => 1 \in DOMAIN queue'[n]
      BY <2>5, <2>7
    <3>2. \A i \in DOMAIN queue'[n] : queue'[n][i].step = "queued"
      BY <2>5, <2>6, <2>7
    <3>3. QED
      BY <3>1, <3>2 DEF At
  <2>11. ASSUME NEW m \in SnapNodes
         PROVE  HeadStays(m)
    <3>1. CASE m = n
      BY <2>10, <3>1 DEF HeadStays, Steps
    <3>2. CASE m = home
      <4>1. queue[m] = <<>> /\ queue'[m] # <<>> => queue'[m][1] = j
        BY <2>3, <2>5, <3>2
      <4>2. queue[m] # <<>> => queue'[m][1] = queue[m][1]
        BY <2>5, <2>8, <3>2
      <4>3. QED
        BY <2>3, <4>1, <4>2 DEF HeadStays, At, Running
    <3>3. CASE m \notin {n, home}
      BY <2>5, <3>3 DEF HeadStays, At, Running
    <3>4. QED
      BY <3>1, <3>2, <3>3
  <2>12. OneDeploy'
    <3>1. \A m \in SnapNodes : \A i \in DOMAIN queue[m] : queue[m][i].kind = "deploy" => m = n /\ i = 1
      BY <1>1, <1>2 DEF OneDeploy
    <3>2. \A m \in SnapNodes : \A i \in DOMAIN queue'[m] : queue'[m][i].kind # "deploy"
      <4> SUFFICES ASSUME NEW m \in SnapNodes, NEW i \in DOMAIN queue'[m]
                   PROVE  queue'[m][i].kind # "deploy"
        OBVIOUS
      <4>1. CASE m = n
        BY <2>5, <2>7, <3>1, <4>1
      <4>2. CASE m = home
        BY <1>5, <2>3, <2>5, <2>8, <3>1, <4>2
      <4>3. CASE m \notin {n, home}
        BY <2>5, <3>1, <4>3
      <4>4. QED
        BY <4>1, <4>2, <4>3
    <3>3. \A i \in DOMAIN queue'[n] : queue'[n][i].kind # "remove"
      <4> SUFFICES ASSUME NEW i \in DOMAIN queue'[n], queue'[n][i].kind = "remove" PROVE FALSE
        OBVIOUS
      <4>1. i \in Nat /\ i + 1 \in DOMAIN queue[n] /\ queue[n][i + 1].kind = "remove" /\ i # 0
        BY <2>5, <2>7
      <4>2. i + 1 < 1
        BY <1>1, <1>2, <4>1 DEF OneDeploy
      <4>3. QED
        BY <4>1, <4>2
    <3>4. QED
      BY <2>1, <3>2, <3>3 DEF OneDeploy
  <2>13. SnapTyped'
    <3>1. PlacesTyped'
      BY <2>1, <2>2 DEF DeployEnds, SnapInv, SnapTyped, PlacesTyped
    <3>2. QED
      BY <2>9, <3>1 DEF DeployEnds, SnapInv, SnapTyped, ParentTyped, DiskTyped, StoredTyped
  <2>14. UNCHANGED <<disk, stored, parent, dropped>> /\ Top' = Top
    BY DEF DeployEnds, Top
  <2>15. Top \in Nat /\ \A s \in stored : s.gen \in Nat /\ s.gen <= Top
    BY TopTyped DEF SnapInv, SnapTyped
  <2>16. ASSUME ~dropped', NEW m \in SnapNodes
         PROVE  Tells(m)'
    <3>1. StoredTyped' /\ Top <= Top' /\ disk'[m] = disk[m]
      BY <2>13, <2>14, <2>15 DEF SnapTyped
    <3>2. QED
      BY <2>11, <2>14, <2>16, <3>1, OtherNodesTell
  <2>17. HomeKnows'
    <3>1. n \notin behind' => ~(disk[n].gen < Top)
      BY DEF DeployEnds
    <3>2. disk[n].gen \in Nat
      BY SnapBounds DEF SnapInv, SnapTyped, DiskTyped, Notes
    <3>3. n \notin behind' => \A s \in stored : s.gen <= disk[n].gen
      BY <2>15, <3>1, <3>2
    <3>4. ~At(n, "stored")' /\ ~At(n, "asked")'
      BY <2>10 DEF Steps
    <3>5. ~At(home, "stored")' /\ ~At(home, "asked")'
      BY <2>1, <3>4 DEF At
    <3>6. QED
      BY <2>1, <2>14, <3>3, <3>5 DEF HomeKnows
  <2>18. QED
    BY <2>12, <2>13, <2>16, <2>17 DEF SnapInv
<1>6. QED
  BY <1>4, <1>5

\* A deploy is queued on t, and where it was asked for a last snapshot on the
\* node the project is on.
LEMMA DispatchedIs ==
    ASSUME SnapInv, NEW t \in SnapNodes, NEW moving \in BOOLEAN, NEW chosen \in SUBSET Nat,
           Dispatched(t, moving, chosen), UNCHANGED <<home, online, up, parent, behind, dropped>>
    PROVE  /\ PlacesTyped' /\ QueueTyped' /\ OneDeploy'
           /\ \A n \in SnapNodes : HeadStays(n) /\ (\A step \in Steps : step # "queued" /\ At(n, step) => At(n, step)')
<1>1. QueueTyped /\ OneDeploy /\ PlacesTyped /\ home \in SnapNodes /\ made \in Nat /\ Len(parent) \in Nat
  BY SnapBounds DEF SnapInv, SnapTyped, PlacesTyped, ParentTyped
<1>2. PICK asked \in BOOLEAN : asked = (moving /\ t # home /\ home \in online)
  OBVIOUS
<1>3. PICK last : last = made + (IF asked THEN 2 ELSE 1) /\ last \in Nat /\ made < last
                  /\ (asked => made + 1 \in 1 .. last) /\ last \in 1 .. last
  BY <1>1, <1>2
<1>4. PICK deploy : /\ deploy = [Job("deploy", last) EXCEPT !.after = IF asked THEN made + 1 ELSE 0,
                                                             !.chosen = chosen]
                    /\ deploy \in Jobs(last, Len(parent)) /\ deploy.kind = "deploy"
                    /\ deploy.step = "queued" /\ deploy.id = last
  <2>1. PICK a \in Nat : a = IF asked THEN made + 1 ELSE 0
    BY <1>1
  <2>2. PICK j \in Jobs(last, Len(parent)) : j = Job("deploy", last) /\ j.kind = "deploy" /\ j.step = "queued"
    BY <1>1, <1>3, JobTyped DEF Kinds
  <2>3. j.id = last
    BY <2>2 DEF Job
  <2> DEFINE d == [j EXCEPT !.after = a, !.chosen = chosen]
  <2>4. d \in Jobs(last, Len(parent)) /\ d.kind = "deploy" /\ d.step = "queued" /\ d.id = last
    BY <2>1, <2>2, <2>3 DEF Jobs
  <2>5. d = [Job("deploy", last) EXCEPT !.after = IF asked THEN made + 1 ELSE 0, !.chosen = chosen]
    BY <2>1, <2>2
  <2>6. QED
    BY <2>4, <2>5
<1>5. asked => /\ Job("snapshot", made + 1) \in Jobs(last, Len(parent))
               /\ Job("snapshot", made + 1).kind = "snapshot" /\ Job("snapshot", made + 1).step = "queued"
  BY <1>1, <1>3, JobTyped DEF Kinds
<1>6. /\ Underway("deploy") = {} /\ deploy.id <= MaxJobs /\ made' = deploy.id
      /\ queue' = [q \in SnapNodes |->
                     queue[q] \o (IF asked /\ q = home THEN <<Job("snapshot", made + 1)>> ELSE <<>>)
                              \o (IF q = t THEN <<deploy>> ELSE <<>>)]
  BY <1>2, <1>3, <1>4 DEF Dispatched
<1>7. made' = last /\ last <= MaxJobs
  BY <1>4, <1>6
<1>8. \A q \in SnapNodes : queue[q] \in Seq(Jobs(made, Len(parent)))
  BY <1>1 DEF QueueTyped
<1> HIDE DEF Jobs
<1>9. ASSUME NEW R, NEW s \in Seq(R), NEW j
      PROVE  s \o <<>> \o <<>> = s /\ s \o <<j>> \o <<>> = Append(s, j) /\ s \o <<>> \o <<j>> = Append(s, j)
  OBVIOUS
<1>10. ASSUME NEW n \in SnapNodes
       PROVE  \/ queue'[n] = queue[n]
              \/ \E j \in Jobs(made', Len(parent)) :
                    /\ j.step = "queued" /\ queue'[n] = Append(queue[n], j)
                    /\ j.kind = "snapshot" \/ (j.kind = "deploy" /\ n = t)
  <2>1. CASE n = t
    <3>1. ~(asked /\ n = home)
      BY <1>2, <2>1
    <3>2. queue'[n] = queue[n] \o <<>> \o <<deploy>>
      BY <1>6, <2>1, <3>1
    <3>3. QED
      BY <1>4, <1>7, <1>8, <1>9, <2>1, <3>2
  <2>2. CASE n # t /\ asked /\ n = home
    <3>1. queue'[n] = queue[n] \o <<Job("snapshot", made + 1)>> \o <<>>
      BY <1>6, <2>2
    <3>2. queue'[n] = Append(queue[n], Job("snapshot", made + 1))
      BY <1>8, <1>9, <3>1
    <3>3. QED
      BY <1>5, <1>7, <2>2, <3>2
  <2>3. CASE n # t /\ ~(asked /\ n = home)
    <3>1. queue'[n] = queue[n] \o <<>> \o <<>>
      BY <1>6, <2>3
    <3>2. QED
      BY <1>8, <1>9, <3>1
  <2>4. QED
    BY <2>1, <2>2, <2>3
<1>11. DOMAIN queue' = SnapNodes /\ queue' = [n \in SnapNodes |-> queue'[n]]
  BY <1>6
<1>12. made' \in Nat /\ made <= made'
  BY <1>1, <1>3, <1>7
<1>13. /\ QueueTyped'
       /\ \A n \in SnapNodes : HeadStays(n) /\ (\A step \in Steps : step # "queued" /\ At(n, step) => At(n, step)')
  BY <1>1, <1>10, <1>11, <1>12, JobsQueued
<1>14. OneDeploy'
  <2>1. \A n \in SnapNodes : queue'[n] # queue[n] =>
             \E j : /\ queue'[n] = Append(queue[n], j)
                    /\ (j.kind = "snapshot" \/ (j.kind = "deploy" /\ n = t))
    BY <1>10
  <2>2. QED
    BY <1>1, <1>6, <2>1, QueuedKeepsOneDeploy
<1>15. PlacesTyped'
  <2>1. made' \in 0 .. MaxJobs
    BY <1>1, <1>3, <1>7, SnapBounds
  <2>2. QED
    BY <1>1, <2>1 DEF PlacesTyped
<1>16. QED
  BY <1>13, <1>14, <1>15

LEMMA RedeployTyped ==
    ASSUME SnapInv, online # {}
    PROVE  RedeployTarget \in SnapNodes
<1>1. online \in SUBSET SnapNodes /\ (CHOOSE n \in online : TRUE) \in online
  BY DEF SnapInv, SnapTyped, PlacesTyped
<1>2. QED
  BY <1>1 DEF RedeployTarget

LEMMA DeployKeeps ==
    ASSUME SnapInv, NEW n \in SnapNodes, NEW moving \in BOOLEAN, Deploy(n, moving)
    PROVE  SnapInv'
<1>1. Dispatched(n, moving, {}) /\ UNCHANGED <<home, online, up, disk, stored, parent, behind, dropped>>
  BY DEF Deploy
<1>2. /\ PlacesTyped' /\ QueueTyped' /\ OneDeploy'
      /\ \A m \in SnapNodes : HeadStays(m) /\ (\A step \in Steps : step # "queued" /\ At(m, step) => At(m, step)')
  BY <1>1, DispatchedIs
<1>3. QED
  BY <1>1, <1>2, QueuingIsQuiet

LEMMA DeleteCopiesKeeps ==
    ASSUME SnapInv, NEW gone \in SUBSET stored, DeleteCopies(gone)
    PROVE  SnapInv'
<1> USE DEF DeleteCopies
<1>1. stored' = stored \ gone /\ stored' \in SUBSET stored
  OBVIOUS
<1>2. StoredTyped /\ StoredTyped'
  <2>1. StoredTyped
    BY DEF SnapInv, SnapTyped
  <2>2. IsFiniteSet(stored') /\ Cardinality(stored') <= Cardinality(stored)
    BY <1>1, <2>1, FS_Subset DEF StoredTyped
  <2>3. Cardinality(stored) \in Nat /\ Cardinality(stored') \in Nat
    BY <2>1, <2>2, FS_CardinalityType DEF StoredTyped
  <2>4. Cardinality(stored') <= Keep
    BY <2>1, <2>2, <2>3, SnapBounds DEF StoredTyped
  <2>5. stored' \in SUBSET CopyRows(Len(parent)) /\ Distinct(stored')
    BY <1>1, <2>1 DEF StoredTyped, Distinct
  <2>6. QED
    BY <2>1, <2>2, <2>4, <2>5 DEF StoredTyped
<1>3. SnapTyped'
  <2>1. PlacesTyped'
    BY DEF SnapInv, SnapTyped, PlacesTyped
  <2>2. QED
    BY <1>2, <2>1 DEF SnapInv, SnapTyped, ParentTyped, DiskTyped, QueueTyped
<1>4. OneDeploy'
  BY DEF SnapInv, OneDeploy
<1>5. \A m \in SnapNodes : HeadStays(m)
  BY DEF HeadStays, At, Running
<1>6. ASSUME ~dropped'
      PROVE  ~dropped /\ Top' = Top
  <2>1. ~dropped /\ \A s \in gone : s.gen # Top
    BY <1>6
  <2>2. \A s \in stored : s.gen = TopOf(stored) => s \in stored'
    BY <1>1, <2>1, TopIs
  <2>3. TopOf(stored') = TopOf(stored)
    BY <1>1, <1>2, <2>2, TopOfSame DEF StoredTyped
  <2>4. QED
    BY <2>1, <2>3, TopIs
<1>7. ASSUME ~dropped', NEW m \in SnapNodes
      PROVE  Tells(m)'
  <2>1. Top <= Top'
    BY <1>2, <1>6, <1>7, TopTyped
  <2>2. QED
    BY <1>1, <1>2, <1>5, <1>6, <1>7, <2>1, OtherNodesTell
<1>8. ASSUME ~dropped'
      PROVE  HomeKnows'
  <2>1. At(home, "stored") => At(home, "stored")'
    BY DEF At
  <2>2. HomeKnows /\ home \in SnapNodes
    BY <1>6, <1>8 DEF SnapInv, SnapTyped, PlacesTyped
  <2>3. QED
    BY <1>1, <1>5, <2>1, <2>2, HomeKnowsStays
<1>9. QED
  BY <1>3, <1>4, <1>7, <1>8 DEF SnapInv

LEMMA RestoreCopyKeeps ==
    ASSUME SnapInv, NEW s \in stored, RestoreCopy(s)
    PROVE  SnapInv'
<1>1. UNCHANGED <<home, online, up, disk, parent, behind, dropped>>
  BY DEF RestoreCopy
<1>2. s \in CopyRows(Len(parent))
  BY DEF SnapInv, SnapTyped, StoredTyped
<1>3. /\ PlacesTyped' /\ QueueTyped' /\ OneDeploy'
      /\ \A m \in SnapNodes : HeadStays(m) /\ (\A step \in Steps : step # "queued" /\ At(m, step) => At(m, step)')
  <2>1. CASE online # {}
    <3>1. {s.data} \in SUBSET Nat /\ RedeployTarget \in SnapNodes
      BY <1>2, <2>1, RedeployTyped DEF CopyRows
    <3>2. Dispatched(RedeployTarget, FALSE, {s.data})
      BY <2>1 DEF RestoreCopy
    <3>3. QED
      BY <1>1, <3>1, <3>2, DispatchedIs
  <2>2. CASE online = {}
    <3>1. UNCHANGED <<queue, made>>
      BY <2>2 DEF RestoreCopy
    <3>2. PlacesTyped' /\ QueueTyped' /\ OneDeploy'
      BY <1>1, <3>1 DEF SnapInv, SnapTyped, PlacesTyped, QueueTyped, OneDeploy
    <3>3. \A m \in SnapNodes : HeadStays(m)
      BY <3>1 DEF HeadStays, At, Running
    <3>4. \A m \in SnapNodes : \A step \in Steps : step # "queued" /\ At(m, step) => At(m, step)'
      BY <3>1 DEF At
    <3>5. QED
      BY <3>2, <3>3, <3>4
  <2>3. QED
    BY <2>1, <2>2
<1>4. PICK top \in Nat : top = Top /\ top < MaxGenerations
  BY TopTyped DEF SnapInv, SnapTyped, RestoreCopy
<1>5. PICK c : /\ c = [gen |-> 0, data |-> s.data, job |-> 0, why |-> "restore"] /\ c.why = "restore"
               /\ c \in [gen : Nat, data : 0 .. Len(parent), job : 0 .. MaxJobs, why : {"node", "restore"}]
  <2>1. s.data \in 0 .. Len(parent) /\ 0 \in 0 .. MaxJobs
    BY <1>2, SnapBounds DEF CopyRows
  <2> DEFINE a == [gen |-> 0, data |-> s.data, job |-> 0, why |-> "restore"]
  <2>2. a \in [gen : Nat, data : 0 .. Len(parent), job : 0 .. MaxJobs, why : {"node", "restore"}]
    BY <2>1
  <2>3. QED
    BY <2>2
<1>6. PICK new : new = [c EXCEPT !.gen = top + 1]
  OBVIOUS
<1>7. new.gen = top + 1 /\ new.why = "restore"
  BY <1>5, <1>6
<1>8. /\ stored' \in SUBSET CopyRows(Len(parent)) /\ IsFiniteSet(stored') /\ Cardinality(stored') <= Keep
      /\ Distinct(stored') /\ stored' \subseteq stored \cup {new} /\ TopOf(stored') = top + 1
  <2>1. /\ stored \in SUBSET CopyRows(Len(parent)) /\ IsFiniteSet(stored) /\ Distinct(stored)
        /\ TopOf(stored) = top
    BY <1>4, TopIs DEF SnapInv, SnapTyped, StoredTyped
  <2>2. stored' = Stored(stored, c)
    BY <1>5 DEF RestoreCopy
  <2>3. QED
    BY <1>4, <1>5, <1>6, <2>1, <2>2, StoredIs
<1>9. StoredTyped'
  BY <1>1, <1>8 DEF StoredTyped
<1>10. SnapTyped'
  BY <1>1, <1>3, <1>9 DEF SnapInv, SnapTyped, ParentTyped, DiskTyped
<1>11. Top <= Top' /\ \A x \in stored' : x \in stored \/ (x.gen > Top /\ x.why = "restore")
  <2>1. Top' = top + 1
    BY <1>8, TopIs
  <2>2. new.gen > Top
    BY <1>4, <1>7
  <2>3. QED
    BY <1>4, <1>7, <1>8, <2>1, <2>2
<1>12. ASSUME ~dropped', NEW m \in SnapNodes
       PROVE  Tells(m)'
  BY <1>1, <1>3, <1>9, <1>11, <1>12, OtherNodesTell
<1>13. ASSUME ~dropped'
       PROVE  HomeKnows'
  <2>1. HomeKnows /\ home \in SnapNodes
    BY <1>1, <1>13 DEF SnapInv, SnapTyped, PlacesTyped
  <2>2. At(home, "stored") => At(home, "stored")'
    BY <1>1, <1>3, <2>1 DEF Steps, At
  <2>3. \A x \in stored' : x.why = "node" => x \in stored
    BY <1>11
  <2>4. QED
    BY <1>1, <1>3, <2>1, <2>2, <2>3, HomeKnowsStays
<1>14. QED
  BY <1>3, <1>10, <1>12, <1>13 DEF SnapInv

LEMMA SnapInvStep == ASSUME SnapInv, [SnapshotNext]_snapshotVars PROVE SnapInv'
<1>1. CASE UNCHANGED snapshotVars
  <2>1. UNCHANGED <<home, online, up, disk, stored, queue, made, parent, behind, dropped>>
    BY <1>1 DEF snapshotVars
  <2>2. PlacesTyped' /\ QueueTyped' /\ OneDeploy'
    BY <2>1 DEF SnapInv, SnapTyped, PlacesTyped, QueueTyped, OneDeploy
  <2>3. \A m \in SnapNodes : HeadStays(m)
    BY <2>1 DEF HeadStays, At, Running
  <2>4. At(home, "stored") => At(home, "stored")'
    BY <2>1 DEF At
  <2>5. QED
    BY <2>1, <2>2, <2>3, <2>4, StaysTrue
<1>2. CASE WriteData
  BY <1>2, WriteDataKeeps
<1>3. CASE TakeSnapshot
  BY <1>3, TakeSnapshotKeeps
<1>4. ASSUME NEW n \in SnapNodes,
             \/ Pack(n) \/ Upload(n) \/ UploadLost(n) \/ Asks(n) \/ RemoveCopy(n)
             \/ SnapNodeDies(n) \/ SnapNodeReturns(n)
             \/ \E b \in BOOLEAN : \/ Noted(n, b) \/ StartPlugin(n, b)
                                   \/ DeployEnds(n, b) \/ Deploy(n, b)
      PROVE  SnapInv'
  BY <1>4, PackKeeps, UploadKeeps, UploadLostKeeps, WaitMoreKeeps, AskNewestKeeps, RemoveCopyKeeps,
     SnapNodeDiesKeeps, SnapNodeReturnsKeeps, NotedKeeps, StartPluginKeeps, DeployEndsKeeps, DeployKeeps
     DEF Asks
<1>5. CASE DeleteCopies(stored)
  BY <1>5, DeleteCopiesKeeps
<1>6. CASE \E s \in stored : DeleteCopies({s}) \/ RestoreCopy(s)
  BY <1>6, DeleteCopiesKeeps, RestoreCopyKeeps
<1>7. QED
  BY <1>1, <1>2, <1>3, <1>4, <1>5, <1>6 DEF SnapshotNext

LEMMA SnapInvTypes == SnapInv => SnapshotTypeOK
<1> SUFFICES ASSUME SnapInv PROVE SnapshotTypeOK
  OBVIOUS
<1> USE DEF SnapInv, SnapTyped
<1>1. home \in SnapNodes /\ {online, up, behind} \subseteq SUBSET SnapNodes
  BY DEF PlacesTyped
<1>2. Len(parent) \in Nat /\ 0 .. Len(parent) \subseteq 0 .. MaxWrites
  BY SnapBounds DEF ParentTyped
<1>3. disk \in [SnapNodes -> [data : 0 .. MaxWrites, gen : 0 .. MaxGenerations]]
  BY <1>2 DEF DiskTyped, Notes
<1>4. stored \subseteq Copies /\ Cardinality(stored) <= Keep
  BY <1>2 DEF StoredTyped, CopyRows, Copies
<1>5. ASSUME NEW n \in SnapNodes, NEW i \in DOMAIN queue[n]
      PROVE  /\ queue[n][i].kind \in {"snapshot", "deploy", "remove"} /\ queue[n][i].id \in 1 .. made
             /\ queue[n][i].step = "queued" \/ i = 1
  <2>1. queue[n] \in Seq(Jobs(made, Len(parent)))
    BY DEF QueueTyped
  <2>2. queue[n][i] \in Jobs(made, Len(parent))
    BY <1>5, <2>1
  <2>3. QED
    BY <1>5, <2>2 DEF QueueTyped, Jobs, Kinds
<1>6. \A v \in DOMAIN parent : parent[v] < v
  BY DEF ParentTyped
<1>7. QED
  BY <1>1, <1>3, <1>4, <1>5, <1>6 DEF SnapshotTypeOK

\* What a node that is up to date by number holds has the newest copy in its
\* history (StartPlugin, Noted, and every write on top).
LEMMA SnapInvUpToDate == SnapInv => UpToDateIsTrue
<1> SUFFICES ASSUME SnapInv, NEW n \in SnapNodes, stored # {}, ~dropped, disk[n].gen >= Top
             PROVE  Newest.data \in UpTo(disk[n].data)
  BY DEF UpToDateIsTrue
<1>1. Newest \in stored /\ Newest.gen = Top
  BY NewestIs DEF SnapInv, SnapTyped, StoredTyped
<1>2. Top \in Nat /\ disk[n].gen \in Nat
  BY TopTyped, SnapBounds DEF SnapInv, SnapTyped, DiskTyped, Notes
<1>3. Tells(n)
  BY DEF SnapInv
<1>4. disk[n].gen = Top
  BY <1>2, <1>3 DEF Tells
<1>5. QED
  BY <1>1, <1>3, <1>4 DEF Tells

\* The step of NewerDataKept.
KeepsNewer(n) ==
    n = home /\ ~dropped /\ disk'[n] # Empty
    /\ (\E s \in stored : s.gen = disk'[n].gen /\ s.why = "node")
       => disk'[n].data \notin Below(disk[n].data)

LEMMA SnapInvKeeps ==
    ASSUME SnapInv, SnapshotNext, NEW n \in SnapNodes \ behind
    PROVE  KeepsNewer(n)
<1> SUFFICES ASSUME n = home, ~dropped, disk'[n] # Empty,
                    NEW s \in stored, s.gen = disk'[n].gen, s.why = "node"
             PROVE  disk'[n].data \notin Below(disk[n].data)
  BY DEF KeepsNewer
<1>1. CASE disk'[n].data = disk[n].data
  BY <1>1 DEF Below
<1>2. CASE WriteData
  <2>1. PICK w \in Nat : w = Len(parent) /\ Len(parent') = w + 1
    BY <1>2 DEF WriteData, SnapInv, SnapTyped, ParentTyped
  <2>2. disk'[n].data = w + 1
    <3>1. disk' = [disk EXCEPT ![home] = [disk[home] EXCEPT !.data = w + 1]]
      BY <1>2, <2>1 DEF WriteData
    <3>2. DOMAIN disk = SnapNodes /\ disk[home] \in Notes(w)
      BY <2>1 DEF SnapInv, SnapTyped, DiskTyped
    <3>3. QED
      BY <3>1, <3>2 DEF Notes
  <2>3. w + 1 \notin 0 .. Len(parent)
    BY <2>1
  <2>4. QED
    BY <2>2, <2>3 DEF Below, UpTo
<1>3. ASSUME NEW m \in SnapNodes, NEW fetched \in BOOLEAN, StartPlugin(m, fetched)
      PROVE  disk'[n].data \notin Below(disk[n].data)
  <2>1. disk' = [disk EXCEPT ![m] = PutBack(m, fetched)] /\ DOMAIN disk = SnapNodes
    BY <1>3 DEF StartPlugin, SnapInv, SnapTyped, DiskTyped
  <2>2. CASE m # n \/ PutBack(m, fetched) = disk[m]
    <3>1. disk'[n] = disk[n]
      BY <2>1, <2>2
    <3>2. QED
      BY <1>1, <3>1
  <2>3. CASE m = n /\ PutBack(n, fetched) # disk[n]
    <3>1. At(n, "asked") \/ At(n, "deaf")
      BY <1>3, <2>3 DEF StartPlugin, Queues, Running, At
    <3>2. PutBack(n, fetched) = Running(n).copy /\ Running(n).copy # Empty /\ At(n, "asked")
      BY <2>3, <3>1, PutBackIs
    <3>3. disk[n].gen < Running(n).copy.gen /\ disk'[n] = Running(n).copy
      BY <2>1, <2>3, <3>2 DEF SnapInv, Tells
    <3>4. ~At(n, "stored")
      BY <3>2 DEF At
    <3>5. s.gen <= disk[n].gen
      BY <3>4 DEF SnapInv, HomeKnows
    <3>6. s.gen = Running(n).copy.gen /\ disk[n].gen \in Nat /\ s.gen \in Nat
      BY <3>3, SnapBounds, TopTyped DEF SnapInv, SnapTyped, DiskTyped, Notes
    <3>7. QED
      BY <3>3, <3>5, <3>6
  <2>4. QED
    BY <2>2, <2>3
<1>4. ASSUME NEW m \in SnapNodes, Noted(m, FALSE)
      PROVE  disk'[n].data \notin Below(disk[n].data)
  <2>1. disk' = [disk EXCEPT ![m] = [disk[m] EXCEPT !.gen = Running(m).copy.gen]]
    BY <1>4 DEF Noted
  <2>2. DOMAIN disk = SnapNodes /\ disk[m] \in Notes(Len(parent))
    BY DEF SnapInv, SnapTyped, DiskTyped
  <2>3. disk'[n].data = disk[n].data
    BY <2>1, <2>2 DEF Notes
  <2>4. QED
    BY <1>1, <2>3
<1>5. ASSUME NEW m \in SnapNodes, RemoveCopy(m)
      PROVE  disk'[n].data \notin Below(disk[n].data)
  <2>1. disk' = [disk EXCEPT ![m] = Empty] /\ DOMAIN disk = SnapNodes
    BY <1>5 DEF RemoveCopy, SnapInv, SnapTyped, DiskTyped
  <2>2. disk'[n] = disk[n]
    BY <2>1
  <2>3. QED
    BY <1>1, <2>2
<1>6. CASE disk' = disk
  BY <1>1, <1>6
<1>7. ASSUME NEW m \in SnapNodes, NEW b \in BOOLEAN, Noted(m, b)
      PROVE  disk'[n].data \notin Below(disk[n].data)
  <2>1. CASE b = TRUE
    BY <1>6, <1>7, <2>1 DEF Noted
  <2>2. CASE b = FALSE
    BY <1>4, <1>7, <2>2
  <2>3. QED
    BY <2>1, <2>2
<1>8. CASE TakeSnapshot \/ DeleteCopies(stored) \/ \E x \in stored : DeleteCopies({x}) \/ RestoreCopy(x)
  BY <1>6, <1>8 DEF TakeSnapshot, DeleteCopies, RestoreCopy
<1>9. ASSUME NEW m \in SnapNodes,
             Pack(m) \/ Upload(m) \/ UploadLost(m) \/ Asks(m) \/ SnapNodeDies(m) \/ SnapNodeReturns(m)
             \/ \E b \in BOOLEAN : DeployEnds(m, b) \/ Deploy(m, b)
      PROVE  disk' = disk
  BY <1>9 DEF Pack, Upload, UploadLost, Asks, WaitMore, AskNewest, SnapNodeDies, SnapNodeReturns, DeployEnds, Deploy
<1>10. QED
  BY <1>2, <1>3, <1>5, <1>6, <1>7, <1>8, <1>9 DEF SnapshotNext

LEMMA SnapInvAlways == SnapshotSpec => []SnapInv
<1>1. SnapInv /\ [SnapshotNext]_snapshotVars => SnapInv'
  BY SnapInvStep
<1>2. QED
  BY <1>1, SnapInvInit, PTL DEF SnapshotSpec

THEOREM SnapshotTypeCorrect == SnapshotSpec => []SnapshotTypeOK
<1>1. QED
  BY SnapInvAlways, SnapInvTypes, PTL

THEOREM NumbersTell == SnapshotSpec => []UpToDateIsTrue
<1>1. QED
  BY SnapInvAlways, SnapInvUpToDate, PTL

THEOREM NewerKept == SnapshotSpec => NewerDataKept
<1>1. SnapInv /\ [SnapshotNext]_snapshotVars =>
        [\A n \in SnapNodes \ behind : KeepsNewer(n)]_snapshotVars
  BY SnapInvKeeps
<1>2. SnapInv /\ [SnapshotNext]_snapshotVars =>
        [\A n \in SnapNodes \ behind :
           n = home /\ ~dropped /\ disk'[n] # Empty
           /\ (\E s \in stored : s.gen = disk'[n].gen /\ s.why = "node")
              => disk'[n].data \notin Below(disk[n].data)]_snapshotVars
  BY <1>1 DEF KeepsNewer
<1>3. QED
  BY <1>2, SnapInvAlways, PTL DEF SnapshotSpec, NewerDataKept

-----------------------------------------------------------------------------
(* All of them together.                                                     *)

LEMMA ServicesMoveAlone ==
    ServicesSpec => /\ LimiterSpec /\ LogSpec /\ RoutesSpec
                    /\ SnapshotInit /\ [][SnapshotNext]_snapshotVars
                    /\ UpdateInit /\ [][UpdateNext]_updateVars
<1>1. ServicesInit => LimiterInit /\ LogInit /\ RoutesInit /\ SnapshotInit /\ UpdateInit
  BY DEF ServicesInit
<1>2. [ServicesNext]_serviceVars => [LimiterNext]_limiterVars
  BY DEF ServicesNext, serviceVars
<1>3. [ServicesNext]_serviceVars => [LogNext]_logVars
  BY DEF ServicesNext, serviceVars
<1>4. [ServicesNext]_serviceVars => [RoutesNext]_routeVars
  BY DEF ServicesNext, serviceVars
<1>5. [ServicesNext]_serviceVars => [SnapshotNext]_snapshotVars
  BY DEF ServicesNext, serviceVars
<1>6. [ServicesNext]_serviceVars => [UpdateNext]_updateVars
  BY DEF ServicesNext, serviceVars
<1>7. QED
  BY <1>1, <1>2, <1>3, <1>4, <1>5, <1>6, PTL DEF ServicesSpec, LimiterSpec, LogSpec, RoutesSpec

LEMMA ServicesInvsHold == ServicesSpec => []SnapInv /\ []UpdateInv
<1>1. SnapInv /\ [SnapshotNext]_snapshotVars => SnapInv'
  BY SnapInvStep
<1>2. UpdateInv /\ [UpdateNext]_updateVars => UpdateInv'
  BY UpdateInvStep
<1>3. QED
  BY <1>1, <1>2, ServicesMoveAlone, SnapInvInit, UpdateInvInit, PTL

\* Every variable of snapshots, job logs, updates and routes has its type, side
\* by side.
THEOREM ServicesTypes == ServicesSpec => []ServicesTypeOK
<1>1. SnapInv /\ LogTypeOK /\ UpdateInv /\ RoutesTypeOK => ServicesTypeOK
  BY SnapInvTypes DEF ServicesTypeOK, UpdateInv
<1>2. QED
  BY <1>1, ServicesMoveAlone, ServicesInvsHold, LogTypeCorrect, RoutesTypeCorrect, PTL

\* What each of them promises holds of all of them together: the login limit,
\* the generations of a plugin's data, the live output of a job, updates of the
\* Hub, and the routes nginx has.
THEOREM ServicesSafe ==
    ServicesSpec => /\ [](GuessesPerWindow /\ RetryAfterIsExact /\ UpToDateIsTrue /\ LiveViewIsExact)
                    /\ [](OneUpdateAtATime /\ RoutesCurrent /\ AppsAreReached)
                    /\ NewerDataKept
<1>1. UpdateInv => OneUpdateAtATime
  BY DEF UpdateInv, OneGoing, Named, OneUpdateAtATime
<1>2. SnapInv => UpToDateIsTrue
  BY SnapInvUpToDate
<1>3. ServicesSpec => NewerDataKept
  <2>1. SnapInv /\ [SnapshotNext]_snapshotVars =>
          [\A n \in SnapNodes \ behind :
             n = home /\ ~dropped /\ disk'[n] # Empty
             /\ (\E s \in stored : s.gen = disk'[n].gen /\ s.why = "node")
                => disk'[n].data \notin Below(disk[n].data)]_snapshotVars
    BY SnapInvKeeps DEF KeepsNewer
  <2>2. QED
    BY <2>1, ServicesMoveAlone, ServicesInvsHold, PTL DEF NewerDataKept
<1>4. QED
  BY <1>1, <1>2, <1>3, ServicesMoveAlone, ServicesInvsHold, GuessesAreBounded, WaitsAreExact, ViewsAreExact,
     NginxServesTheRows, AppsReached, PTL

=============================================================================
