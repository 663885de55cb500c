--------------------------- MODULE LimiterProofs ---------------------------
(***************************************************************************)
(* The PIN's guard, proved for every number of addresses and every choice  *)
(* of allowance, waits, window and table size.                             *)
(*                                                                         *)
(* The waits are computed by a loop (Doubled), so what they come to takes  *)
(* an induction (Loops).                                                   *)
(***************************************************************************)
EXTENDS RateLimiter, Loops, FiniteSetTheorems, TLAPS

-----------------------------------------------------------------------------
(* The waits.                                                              *)

(* recordFailure()'s loop computes what its definition says.               *)
LEMMA DoubledOK ==
    /\ Doubled \in [Nat -> Nat]
    /\ Doubled[0] = BaseBackoff
    /\ \A i \in Nat : Doubled[i + 1] =
          IF Doubled[i] < MaxBackoff THEN 2 * Doubled[i] ELSE Doubled[i]
<1> DEFINE step == [i \in Nat |-> [x \in Nat |-> IF x < MaxBackoff THEN 2 * x ELSE x]]
           Body(f) == [i \in Nat |-> IF i = 0 THEN BaseBackoff
                                     ELSE IF f[i - 1] < MaxBackoff THEN 2 * f[i - 1]
                                     ELSE f[i - 1]]
<1>1. BaseBackoff \in Nat /\ step \in [Nat -> [Nat -> Nat]]
  BY LimiterAssumption
<1>2. PICK f \in [Nat -> Nat] : f[0] = BaseBackoff /\ \A i \in Nat : f[i + 1] = step[i][f[i]]
  <2> HIDE DEF step, Body
  <2> QED BY <1>1, NatLoopExists
<1> USE LimiterAssumption
<1>3. f = Body(f)
  <2>1. ASSUME NEW i \in Nat PROVE f[i] = Body(f)[i]
    <3>1. CASE i = 0
      BY <1>2, <3>1
    <3>2. CASE i # 0
      <4>1. i - 1 \in Nat /\ (i - 1) + 1 = i
        BY <3>2
      <4>2. f[i] = step[i - 1][f[i - 1]] /\ f[i - 1] \in Nat
        BY <1>2, <4>1
      <4> QED BY <3>2, <4>2
    <3> QED BY <3>1, <3>2
  <2> QED BY <2>1
<1>4. Doubled = Body(Doubled)
  <2>1. Doubled = CHOOSE d : d = Body(d)
    BY DEF Doubled
  <2> HIDE DEF Body
  <2> QED BY <1>3, <2>1
<1>5. /\ Doubled[0] = BaseBackoff
      /\ \A i \in Nat : Doubled[i + 1] =
            IF Doubled[i] < MaxBackoff THEN 2 * Doubled[i] ELSE Doubled[i]
  <2>1. \A i \in Nat : i + 1 \in Nat /\ i + 1 # 0 /\ (i + 1) - 1 = i
    OBVIOUS
  <2> QED BY <1>4, <2>1
<1>6. \A i \in Nat : i \in {j \in Nat : Doubled[j] \in Nat}
  <2> DEFINE S == {j \in Nat : Doubled[j] \in Nat}
  <2>1. 0 \in S
    BY <1>5
  <2>2. \A i \in Nat : i \in S => i + 1 \in S
    BY <1>5
  <2> HIDE DEF S
  <2>3. \A i \in Nat : i \in S
    BY <2>1, <2>2, SetInduction
  <2> QED BY <2>3 DEF S
<1>7. Doubled \in [Nat -> Nat]
  BY <1>4, <1>6
<1> QED BY <1>5, <1>7

(* The powers of two are what their definition says.                       *)
LEMMA PowersOK ==
    /\ PowerOfTwo \in [Nat -> Nat \ {0}]
    /\ PowerOfTwo[0] = 1
    /\ \A i \in Nat : PowerOfTwo[i + 1] = 2 * PowerOfTwo[i]
<1> DEFINE Positive == Nat \ {0}
           step == [i \in Nat |-> [x \in Positive |-> 2 * x]]
           Body(f) == [i \in Nat |-> IF i = 0 THEN 1 ELSE 2 * f[i - 1]]
<1>1. 1 \in Positive /\ step \in [Nat -> [Positive -> Positive]]
  OBVIOUS
<1>2. PICK f \in [Nat -> Positive] : f[0] = 1 /\ \A i \in Nat : f[i + 1] = step[i][f[i]]
  <2> HIDE DEF step, Positive
  <2>1. \A b \in Positive, st \in [Nat -> [Positive -> Positive]] :
           \E f \in [Nat -> Positive] : f[0] = b /\ \A i \in Nat : f[i + 1] = st[i][f[i]]
    BY RecursionExists
  <2> QED BY <1>1, <2>1
<1>3. f = Body(f)
  <2>1. ASSUME NEW i \in Nat PROVE f[i] = Body(f)[i]
    <3>1. CASE i = 0
      BY <1>2, <3>1
    <3>2. CASE i # 0
      <4>1. i - 1 \in Nat /\ (i - 1) + 1 = i
        BY <3>2
      <4>2. f[i] = step[i - 1][f[i - 1]] /\ f[i - 1] \in Positive
        BY <1>2, <4>1
      <4> QED BY <3>2, <4>2
    <3> QED BY <3>1, <3>2
  <2> QED BY <2>1
<1>4. PowerOfTwo = Body(PowerOfTwo)
  <2>1. PowerOfTwo = CHOOSE d : d = Body(d)
    BY DEF PowerOfTwo
  <2> HIDE DEF Body
  <2> QED BY <1>3, <2>1
<1>5. PowerOfTwo[0] = 1 /\ \A i \in Nat : PowerOfTwo[i + 1] = 2 * PowerOfTwo[i]
  <2>1. \A i \in Nat : i + 1 \in Nat /\ i + 1 # 0 /\ (i + 1) - 1 = i
    OBVIOUS
  <2> QED BY <1>4, <2>1
<1>6. \A i \in Nat : i \in {j \in Nat : PowerOfTwo[j] \in Positive}
  <2> DEFINE S == {j \in Nat : PowerOfTwo[j] \in Positive}
  <2>1. 0 \in S
    BY <1>5
  <2>2. \A i \in Nat : i \in S => i + 1 \in S
    BY <1>5
  <2> HIDE DEF S
  <2>3. \A i \in Nat : i \in S
    BY <2>1, <2>2, SetInduction
  <2> QED BY <2>3 DEF S
<1>7. PowerOfTwo \in [Nat -> Positive]
  BY <1>4, <1>6
<1> QED BY <1>5, <1>7

(* Below the cap the loop has doubled every time, and once it stopped the  *)
(* power of two is past the cap as well.                                   *)
LEMMA ClosedForm ==
    \A i \in Nat : /\ Doubled[i] < MaxBackoff => Doubled[i] = BaseBackoff * PowerOfTwo[i]
                   /\ Doubled[i] >= MaxBackoff => BaseBackoff * PowerOfTwo[i] >= MaxBackoff
                   /\ Doubled[i] >= BaseBackoff
<1> USE LimiterAssumption
<1> DEFINE Holds(i) == /\ Doubled[i] < MaxBackoff => Doubled[i] = BaseBackoff * PowerOfTwo[i]
                       /\ Doubled[i] >= MaxBackoff => BaseBackoff * PowerOfTwo[i] >= MaxBackoff
                       /\ Doubled[i] >= BaseBackoff
           S == {i \in Nat : Holds(i)}
<1>1. 0 \in S
  BY DoubledOK, PowersOK
<1>2. ASSUME NEW i \in Nat, i \in S PROVE i + 1 \in S
  <2>1. /\ Doubled[i] \in Nat /\ PowerOfTwo[i] \in Nat
        /\ Doubled[i + 1] = IF Doubled[i] < MaxBackoff THEN 2 * Doubled[i] ELSE Doubled[i]
        /\ PowerOfTwo[i + 1] = 2 * PowerOfTwo[i]
    BY DoubledOK, PowersOK
  <2>2. BaseBackoff * PowerOfTwo[i + 1] = 2 * (BaseBackoff * PowerOfTwo[i])
    BY <2>1
  <2>3. BaseBackoff * PowerOfTwo[i] \in Nat
    BY <2>1
  <2>4. Holds(i)
    BY <1>2
  <2> DEFINE b == BaseBackoff * PowerOfTwo[i]
             b1 == BaseBackoff * PowerOfTwo[i + 1]
             d == Doubled[i]
             d1 == Doubled[i + 1]
  <2>5. /\ b \in Nat /\ d \in Nat /\ b1 = 2 * b
        /\ d1 = IF d < MaxBackoff THEN 2 * d ELSE d
        /\ d < MaxBackoff => d = b
        /\ d >= MaxBackoff => b >= MaxBackoff
        /\ d >= BaseBackoff
    BY <2>1, <2>2, <2>3, <2>4
  <2> HIDE DEF b, b1, d, d1
  <2>6. /\ d1 < MaxBackoff => d1 = b1
        /\ d1 >= MaxBackoff => b1 >= MaxBackoff
        /\ d1 >= BaseBackoff
    BY <2>5
  <2>7. Holds(i + 1)
    BY <2>6 DEF b1, d1
  <2> QED BY <2>7
<1> HIDE DEF S
<1>3. \A i \in Nat : i \in S
  BY <1>1, <1>2, SetInduction
<1> QED BY <1>3 DEF S

(* The loop only goes up.                                                  *)
LEMMA DoubledGrows ==
    ASSUME NEW i \in Nat, NEW j \in Nat, i <= j
    PROVE  Doubled[i] <= Doubled[j]
<1> DEFINE S == {k \in Nat : Doubled[i] <= Doubled[i + k]}
<1>1. 0 \in S
  BY DoubledOK
<1>2. ASSUME NEW k \in Nat, k \in S PROVE k + 1 \in S
  <2>1. /\ Doubled[i] \in Nat /\ i + k \in Nat /\ i + (k + 1) = (i + k) + 1
        /\ Doubled[i] <= Doubled[i + k]
    BY <1>2, DoubledOK
  <2>2. Doubled[i + k] \in Nat /\ Doubled[i + (k + 1)] >= Doubled[i + k]
    BY <2>1, DoubledOK, LimiterAssumption
  <2>3. Doubled[i + (k + 1)] \in Nat
    BY <2>1, DoubledOK
  <2> QED BY <2>1, <2>2, <2>3
<1> HIDE DEF S
<1>3. \A k \in Nat : k \in S
  BY <1>1, <1>2, SetInduction
<1>4. j - i \in Nat /\ i + (j - i) = j
  OBVIOUS
<1>5. j - i \in S
  BY <1>3, <1>4
<1> QED BY <1>4, <1>5 DEF S

(* What n failures cost: the closed form, positive, capped and growing.    *)
LEMMA BackoffOK ==
    ASSUME NEW n \in Nat, n > FreeAttempts
    PROVE  /\ Backoff(n) \in Nat \ {0} /\ Backoff(n) <= MaxBackoff
           /\ Backoff(n) = Wait(n)
           /\ \A m \in Nat : m >= n => Backoff(m) >= Backoff(n)
<1> USE LimiterAssumption
<1> DEFINE i == n - FreeAttempts - 1
<1>1. i \in Nat
  OBVIOUS
<1>2. Doubled[i] \in Nat /\ Doubled[i] >= BaseBackoff /\ PowerOfTwo[i] \in Nat
  BY <1>1, DoubledOK, ClosedForm, PowersOK
<1>3. Backoff(n) = IF Doubled[i] > MaxBackoff THEN MaxBackoff ELSE Doubled[i]
  BY DEF Backoff
<1>4. Wait(n) = IF BaseBackoff * PowerOfTwo[i] < MaxBackoff THEN BaseBackoff * PowerOfTwo[i]
                ELSE MaxBackoff
  BY DEF Wait
<1>5. BaseBackoff * PowerOfTwo[i] \in Nat
  BY <1>2
<1>6. /\ Doubled[i] < MaxBackoff => Doubled[i] = BaseBackoff * PowerOfTwo[i]
      /\ Doubled[i] >= MaxBackoff => BaseBackoff * PowerOfTwo[i] >= MaxBackoff
  BY <1>1, ClosedForm
<1> HIDE DEF i
<1>7. Backoff(n) \in Nat \ {0} /\ Backoff(n) <= MaxBackoff
  BY <1>2, <1>3
<1>8. Backoff(n) = Wait(n)
  <2> DEFINE b == BaseBackoff * PowerOfTwo[i]
  <2>1. b \in Nat /\ Wait(n) = (IF b < MaxBackoff THEN b ELSE MaxBackoff)
        /\ (Doubled[i] < MaxBackoff => Doubled[i] = b)
        /\ (Doubled[i] >= MaxBackoff => b >= MaxBackoff)
    BY <1>4, <1>5, <1>6
  <2> HIDE DEF b
  <2> QED BY <1>2, <1>3, <2>1
<1>9. ASSUME NEW m \in Nat, m >= n PROVE Backoff(m) >= Backoff(n)
  <2> DEFINE j == m - FreeAttempts - 1
  <2>1. j \in Nat /\ i <= j
    BY <1>9 DEF i
  <2>2. Backoff(m) = IF Doubled[j] > MaxBackoff THEN MaxBackoff ELSE Doubled[j]
    BY DEF Backoff
  <2> HIDE DEF j
  <2>3. Doubled[j] \in Nat /\ Doubled[i] <= Doubled[j]
    BY <1>1, <2>1, DoubledOK, DoubledGrows
  <2> QED BY <1>2, <1>3, <2>2, <2>3
<1> QED BY <1>7, <1>8, <1>9

(* Retry-After in whole seconds: enough, and less than one too many.       *)
LEMMA RoundedUp ==
    ASSUME NEW d \in Nat
    PROVE  /\ Second * ((d + Second - 1) \div Second) \in Nat
           /\ Second * ((d + Second - 1) \div Second) >= d
           /\ Second * ((d + Second - 1) \div Second) < d + Second
<1>1. Second \in Nat \ {0}
  BY LimiterAssumption
<1> QED BY <1>1

-----------------------------------------------------------------------------
(* The inductive invariant.                                                *)

Streak == [length : Nat, last : Nat]
LimiterType ==
    /\ now \in Nat \ {0}
    /\ entries = [a \in DOMAIN entries |-> entries[a]]
    /\ DOMAIN entries \subseteq Address
    /\ \A a \in DOMAIN entries : entries[a] \in Entry
    /\ streak \in [Address -> Streak]
    /\ told \in [Address -> Nat]

WithinTable == Cardinality(DOMAIN entries) <= MaxEntries

(* A tracked address waits exactly from its last wrong PIN on.             *)
WaitsFromLast ==
    \A a \in DOMAIN entries :
        /\ streak[a].length > 0 /\ streak[a].last <= now
        /\ entries[a].failures <= FreeAttempts => entries[a].blockedUntil = 0
        /\ entries[a].failures > FreeAttempts =>
              entries[a].blockedUntil = streak[a].last + Backoff(entries[a].failures)

Lately(a) == streak[a].length > 0 /\ now - streak[a].last <= ForgetAfter
AllCounted ==
    \A a \in Address : Lately(a) => Tracked(a) /\ entries[a].failures >= streak[a].length

ToldEnough ==
    \A a \in Address : told[a] # 0 =>
        /\ Tracked(a) => entries[a].blockedUntil <= told[a]
        /\ told[a] < now + MaxBackoff + Second

IInv == LimiterType /\ WithinTable /\ WaitsFromLast /\ AllCounted /\ ToldEnough

LEMMA InitOK == Init => IInv
<1> SUFFICES ASSUME Init PROVE IInv
  OBVIOUS
<1>1. DOMAIN entries = {} /\ entries = [a \in DOMAIN entries |-> entries[a]]
  BY DEF Init, NoEntries
<1>2. LimiterType
  BY <1>1 DEF Init, LimiterType, Streak, NoStreak
<1>3. WithinTable
  BY <1>1, FS_EmptySet, LimiterAssumption DEF WithinTable
<1>4. WaitsFromLast
  BY <1>1 DEF WaitsFromLast
<1>5. AllCounted
  BY DEF Init, AllCounted, Lately, NoStreak
<1>6. ToldEnough
  BY DEF Init, ToldEnough
<1> QED BY <1>2, <1>3, <1>4, <1>5, <1>6 DEF IInv

(* A refused address waits for at most the cap.                            *)
LEMMA WaitIsCapped ==
    ASSUME IInv, NEW a \in DOMAIN entries
    PROVE  entries[a].blockedUntil \in Nat /\ entries[a].blockedUntil <= now + MaxBackoff
<1>1. /\ entries[a].failures \in Nat /\ entries[a].blockedUntil \in Nat
      /\ now \in Nat /\ streak[a].last \in Nat /\ streak[a].last <= now
  BY DEF IInv, LimiterType, Entry, Streak, WaitsFromLast
<1>2. CASE entries[a].failures <= FreeAttempts
  BY <1>1, <1>2, LimiterAssumption DEF IInv, WaitsFromLast
<1>3. CASE entries[a].failures > FreeAttempts
  <2>1. /\ Backoff(entries[a].failures) \in Nat /\ Backoff(entries[a].failures) <= MaxBackoff
    BY <1>1, <1>3, BackoffOK
  <2>2. entries[a].blockedUntil = streak[a].last + Backoff(entries[a].failures)
    BY <1>3 DEF IInv, WaitsFromLast
  <2> QED BY <1>1, <2>1, <2>2, LimiterAssumption
<1> QED BY <1>1, <1>2, <1>3, LimiterAssumption

LEMMA TickStep == IInv /\ Tick => IInv'
<1> SUFFICES ASSUME IInv, Tick PROVE IInv'
  OBVIOUS
<1>0. now' = now + 1 /\ now \in Nat /\ UNCHANGED <<entries, streak, told>>
  BY DEF IInv, LimiterType, Tick
<1>1. LimiterType' /\ WithinTable'
  BY <1>0 DEF IInv, LimiterType, WithinTable
<1>2. WaitsFromLast'
  BY <1>0 DEF IInv, LimiterType, Streak, WaitsFromLast
<1>3. AllCounted'
  BY <1>0, LimiterAssumption DEF IInv, LimiterType, Streak, AllCounted, Lately, Tracked
<1>4. ToldEnough'
  BY <1>0, LimiterAssumption DEF IInv, LimiterType, ToldEnough, Tracked
<1> QED BY <1>1, <1>2, <1>3, <1>4 DEF IInv

LEMMA RefusedStep == ASSUME IInv, NEW a \in Address, Refused(a) PROVE IInv'
<1>0. /\ told' = [told EXCEPT ![a] = now + Second * retryAfter(a)]
      /\ UNCHANGED <<now, entries, streak>>
      /\ a \in DOMAIN entries /\ ~(now >= entries[a].blockedUntil)
  BY DEF Refused, allow, Tracked
<1>1. now \in Nat \ {0} /\ told \in [Address -> Nat]
  BY DEF IInv, LimiterType
<1>2. entries[a].blockedUntil \in Nat /\ entries[a].blockedUntil <= now + MaxBackoff
  BY <1>0, WaitIsCapped
<1> DEFINE d == entries[a].blockedUntil - now
           w == Second * retryAfter(a)
<1>3. d \in Nat /\ d <= MaxBackoff
  BY <1>0, <1>1, <1>2, LimiterAssumption
<1>4. w \in Nat /\ w >= d /\ w < d + Second
  <2>1. w = Second * ((d + Second - 1) \div Second)
    BY DEF retryAfter
  <2> HIDE DEF d, w
  <2> QED BY <1>3, <2>1, RoundedUp
<1> HIDE DEF w
<1>5. /\ told' \in [Address -> Nat]
      /\ told'[a] = now + w
      /\ \A b \in Address \ {a} : told'[b] = told[b]
  BY <1>0, <1>1, <1>4 DEF w
<1>6. now + w >= entries[a].blockedUntil /\ now + w < now + MaxBackoff + Second
  BY <1>1, <1>2, <1>3, <1>4, LimiterAssumption
<1>7. LimiterType' /\ WithinTable'
  BY <1>0, <1>5 DEF IInv, LimiterType, WithinTable
<1>8. WaitsFromLast' /\ AllCounted'
  BY <1>0 DEF IInv, WaitsFromLast, AllCounted, Lately, Tracked
<1>9. ToldEnough'
  BY <1>0, <1>5, <1>6 DEF IInv, ToldEnough, Tracked
<1> QED BY <1>7, <1>8, <1>9 DEF IInv

LEMMA RightPinStep == ASSUME IInv, NEW a \in Address, RightPin(a) PROVE IInv'
<1>0. /\ entries' = [b \in DOMAIN entries \ {a} |-> entries[b]]
      /\ streak' = [streak EXCEPT ![a] = NoStreak]
      /\ told' = [told EXCEPT ![a] = 0] /\ now' = now
  BY DEF RightPin, recordSuccess
<1>1. /\ streak' \in [Address -> Streak] /\ told' \in [Address -> Nat]
      /\ streak'[a].length = 0 /\ told'[a] = 0
      /\ \A b \in Address \ {a} : streak'[b] = streak[b] /\ told'[b] = told[b]
  BY <1>0 DEF IInv, LimiterType, Streak, NoStreak
<1>2. /\ DOMAIN entries' = DOMAIN entries \ {a} /\ DOMAIN entries' \subseteq Address
      /\ \A b \in DOMAIN entries' : entries'[b] = entries[b]
  BY <1>0 DEF IInv, LimiterType
<1>3. LimiterType'
  BY <1>0, <1>1, <1>2 DEF IInv, LimiterType
<1>4. WithinTable'
  <2>1. IsFiniteSet(DOMAIN entries)
    BY FS_Subset, LimiterAssumption DEF IInv, LimiterType
  <2>2. Cardinality(DOMAIN entries') <= Cardinality(DOMAIN entries)
    BY <1>2, <2>1, FS_Subset
  <2>3. Cardinality(DOMAIN entries') \in Nat /\ Cardinality(DOMAIN entries) \in Nat
    BY <1>2, <2>1, FS_Subset, FS_CardinalityType
  <2> QED BY <2>2, <2>3, LimiterAssumption DEF IInv, WithinTable
<1>5. WaitsFromLast'
  BY <1>0, <1>1, <1>2 DEF IInv, WaitsFromLast
<1>6. AllCounted'
  BY <1>0, <1>1, <1>2 DEF IInv, AllCounted, Lately, Tracked
<1>7. ToldEnough'
  BY <1>0, <1>1, <1>2 DEF IInv, ToldEnough, Tracked
<1> QED BY <1>3, <1>4, <1>5, <1>6, <1>7 DEF IInv

(* prune() keeps what it keeps as it is, and an address that gave a wrong  *)
(* PIN within the window is kept.                                          *)
LEMMA PrunedOK ==
    ASSUME IInv
    PROVE  /\ DOMAIN Pruned \subseteq DOMAIN entries
           /\ \A a \in DOMAIN Pruned : Pruned[a] = entries[a]
           /\ IsFiniteSet(DOMAIN Pruned) /\ Cardinality(DOMAIN Pruned) \in Nat
           /\ Cardinality(DOMAIN Pruned) <= MaxEntries
           /\ \A a \in Address : Lately(a) => a \in DOMAIN Pruned
<1>1. /\ DOMAIN Pruned \subseteq DOMAIN entries
      /\ \A a \in DOMAIN Pruned : Pruned[a] = entries[a]
  BY DEF Pruned
<1>2. IsFiniteSet(DOMAIN entries)
  BY FS_Subset, LimiterAssumption DEF IInv, LimiterType
<1>3. IsFiniteSet(DOMAIN Pruned) /\ Cardinality(DOMAIN Pruned) <= Cardinality(DOMAIN entries)
  BY <1>1, <1>2, FS_Subset
<1>4. Cardinality(DOMAIN Pruned) \in Nat /\ Cardinality(DOMAIN entries) \in Nat
  BY <1>2, <1>3, FS_CardinalityType
<1>5. Cardinality(DOMAIN Pruned) <= MaxEntries
  BY <1>3, <1>4, LimiterAssumption DEF IInv, WithinTable
<1>6. ASSUME NEW a \in Address, Lately(a) PROVE a \in DOMAIN Pruned
  <2>1. a \in DOMAIN entries /\ now - streak[a].last <= ForgetAfter
    BY <1>6 DEF IInv, AllCounted, Lately, Tracked
  <2>2. /\ entries[a].failures \in Nat /\ now \in Nat /\ streak[a].last \in Nat
        /\ entries[a].blockedUntil \in Nat
    BY <2>1 DEF IInv, LimiterType, Entry, Streak
  <2>3. ~Stale(a)
    <3>1. CASE entries[a].failures <= FreeAttempts
      BY <2>1, <3>1 DEF IInv, WaitsFromLast, Stale
    <3>2. CASE entries[a].failures > FreeAttempts
      <4>1. Backoff(entries[a].failures) \in Nat
        BY <2>2, <3>2, BackoffOK
      <4>2. entries[a].blockedUntil = streak[a].last + Backoff(entries[a].failures)
        BY <2>1, <3>2 DEF IInv, WaitsFromLast
      <4> QED BY <2>1, <2>2, <4>1, <4>2, LimiterAssumption DEF Stale
    <3> QED BY <2>2, <3>1, <3>2, LimiterAssumption
  <2> QED BY <2>1, <2>3 DEF Pruned
<1> QED BY <1>1, <1>3, <1>4, <1>5, <1>6

(* What recordFailure() enters for an address it has room for.             *)
LEMMA FailedOK ==
    ASSUME IInv, NEW a \in Address, HasRoom(a, Pruned)
    PROVE  LET e == Failed(a, Pruned)
               n == IF a \in DOMAIN Pruned THEN entries[a].failures + 1 ELSE 1
           IN  /\ e = [b \in DOMAIN e |-> e[b]]
               /\ DOMAIN e = DOMAIN Pruned \cup {a}
               /\ \A b \in DOMAIN Pruned \ {a} : e[b] = entries[b]
               /\ e[a] \in Entry /\ e[a].failures = n
               /\ n <= FreeAttempts => e[a].blockedUntil = 0
               /\ n > FreeAttempts => e[a].blockedUntil = now + Backoff(n)
               /\ Cardinality(DOMAIN e) <= MaxEntries
<1> DEFINE n == IF a \in DOMAIN Pruned THEN entries[a].failures + 1 ELSE 1
           until == IF n > FreeAttempts THEN now + Backoff(n)
                    ELSE IF a \in DOMAIN Pruned THEN Pruned[a].blockedUntil ELSE 0
           e == Failed(a, Pruned)
<1>1. a \in DOMAIN Pruned => /\ Pruned[a] = entries[a] /\ a \in DOMAIN entries
                             /\ entries[a].failures \in Nat \ {0}
                             /\ entries[a].failures <= FreeAttempts => entries[a].blockedUntil = 0
  BY PrunedOK DEF IInv, LimiterType, Entry, WaitsFromLast
<1>2. n \in Nat \ {0} /\ (IF a \in DOMAIN Pruned THEN Pruned[a].failures + 1 ELSE 1) = n
  BY <1>1
<1>3. e = [b \in DOMAIN Pruned \cup {a} |->
              IF b = a THEN [failures |-> n, blockedUntil |-> until] ELSE Pruned[b]]
  BY <1>2 DEF Failed
<1>4. a \in DOMAIN Pruned /\ n <= FreeAttempts => entries[a].blockedUntil = 0
  BY <1>1, LimiterAssumption
<1>5. n <= FreeAttempts => until = 0
  BY <1>1, <1>2, <1>4, LimiterAssumption
<1>6. n > FreeAttempts => until = now + Backoff(n)
  OBVIOUS
<1>7. until \in Nat
  <2>1. CASE n > FreeAttempts
    BY <1>2, <1>6, <2>1, BackoffOK DEF IInv, LimiterType
  <2>2. CASE n <= FreeAttempts
    BY <1>5, <2>2
  <2> QED BY <1>2, <2>1, <2>2, LimiterAssumption
<1>8. Cardinality(DOMAIN Pruned \cup {a}) <= MaxEntries
  <2>1. CASE a \in DOMAIN Pruned
    <3>1. DOMAIN Pruned \cup {a} = DOMAIN Pruned
      BY <2>1
    <3> QED BY <3>1, PrunedOK
  <2>2. CASE a \notin DOMAIN Pruned
    <3>1. Cardinality(DOMAIN Pruned \cup {a}) = Cardinality(DOMAIN Pruned) + 1
      BY <2>2, PrunedOK, FS_AddElement
    <3>2. Cardinality(DOMAIN Pruned) < MaxEntries /\ Cardinality(DOMAIN Pruned) \in Nat
      BY <2>2, PrunedOK DEF HasRoom
    <3> QED BY <3>1, <3>2, LimiterAssumption
  <2> QED BY <2>1, <2>2
<1> HIDE DEF n, until, e
<1>9. /\ e = [b \in DOMAIN e |-> e[b]] /\ DOMAIN e = DOMAIN Pruned \cup {a}
      /\ \A b \in DOMAIN Pruned \ {a} : e[b] = entries[b]
      /\ e[a] = [failures |-> n, blockedUntil |-> until]
  BY <1>3, PrunedOK
<1>10. e[a] \in Entry /\ e[a].failures = n /\ e[a].blockedUntil = until
  BY <1>2, <1>7, <1>9 DEF Entry
<1> QED BY <1>5, <1>6, <1>8, <1>9, <1>10 DEF n, e

LEMMA WrongPinStep == ASSUME IInv, NEW a \in Address, WrongPin(a) PROVE IInv'
<1>0. /\ told' = [told EXCEPT ![a] = 0] /\ now' = now
      /\ entries' = IF HasRoom(a, Pruned) THEN Failed(a, Pruned) ELSE Pruned
      /\ streak' = IF HasRoom(a, Pruned) THEN [streak EXCEPT ![a] = Prolonged(a)] ELSE streak
  BY DEF WrongPin, recordFailure
<1>1. /\ told' \in [Address -> Nat] /\ told'[a] = 0
      /\ \A b \in Address \ {a} : told'[b] = told[b]
  BY <1>0 DEF IInv, LimiterType
<1>2. now \in Nat \ {0} /\ streak \in [Address -> Streak] /\ DOMAIN entries \subseteq Address
  BY DEF IInv, LimiterType
<1>3. CASE HasRoom(a, Pruned)
  <2> DEFINE n == IF a \in DOMAIN Pruned THEN entries[a].failures + 1 ELSE 1
  <2>1. /\ entries' = [b \in DOMAIN entries' |-> entries'[b]]
        /\ DOMAIN entries' = DOMAIN Pruned \cup {a}
        /\ \A b \in DOMAIN Pruned \ {a} : entries'[b] = entries[b]
        /\ entries'[a] \in Entry /\ entries'[a].failures = n
        /\ n <= FreeAttempts => entries'[a].blockedUntil = 0
        /\ n > FreeAttempts => entries'[a].blockedUntil = now + Backoff(n)
        /\ Cardinality(DOMAIN entries') <= MaxEntries
    BY <1>0, <1>3, FailedOK
  <2>2. /\ Prolonged(a) \in Streak /\ Prolonged(a).length > 0 /\ Prolonged(a).last = now
        /\ Prolonged(a).length = IF Lately(a) THEN streak[a].length + 1 ELSE 1
    <3>1. streak[a].length \in Nat
      BY <1>2 DEF Streak
    <3>2. CASE Lately(a)
      BY <1>2, <3>1, <3>2 DEF Prolonged, Lately, Streak
    <3>3. CASE ~Lately(a)
      BY <1>2, <3>1, <3>3 DEF Prolonged, Lately, Streak
    <3> QED BY <3>2, <3>3
  <2>3. /\ streak' \in [Address -> Streak] /\ streak'[a] = Prolonged(a)
        /\ \A b \in Address \ {a} : streak'[b] = streak[b]
    BY <1>0, <1>2, <1>3, <2>2
  <2> HIDE DEF n
  <2>4. LimiterType' /\ WithinTable'
    <3>1. DOMAIN entries' \subseteq Address
      BY <1>2, <2>1, PrunedOK
    <3>2. \A b \in DOMAIN entries' : entries'[b] \in Entry
      BY <2>1, PrunedOK DEF IInv, LimiterType
    <3> QED BY <1>0, <1>1, <1>2, <2>1, <2>3, <3>1, <3>2 DEF LimiterType, WithinTable
  <2>5. WaitsFromLast'
    <3> SUFFICES ASSUME NEW b \in DOMAIN entries'
                 PROVE  /\ streak'[b].length > 0 /\ streak'[b].last <= now'
                        /\ entries'[b].failures <= FreeAttempts => entries'[b].blockedUntil = 0
                        /\ entries'[b].failures > FreeAttempts =>
                              entries'[b].blockedUntil =
                                 streak'[b].last + Backoff(entries'[b].failures)
      BY DEF WaitsFromLast, Backoff
    <3>1. CASE b = a
      BY <1>0, <1>2, <2>1, <2>2, <2>3, <3>1
    <3>2. CASE b # a
      <4>1. b \in DOMAIN Pruned /\ b \in DOMAIN entries /\ b \in Address
        BY <1>2, <2>1, <3>2, PrunedOK
      <4>2. entries'[b] = entries[b] /\ streak'[b] = streak[b] /\ now' = now
        BY <1>0, <2>1, <2>3, <3>2, <4>1
      <4> QED BY <4>1, <4>2 DEF IInv, WaitsFromLast
    <3> QED BY <3>1, <3>2
  <2>6. AllCounted'
    <3> SUFFICES ASSUME NEW b \in Address, Lately(b)'
                 PROVE  b \in DOMAIN entries' /\ entries'[b].failures >= streak'[b].length
      BY DEF AllCounted, Tracked
    <3>1. CASE b = a
      <4>1. CASE Lately(a)
        <5>1. /\ a \in DOMAIN Pruned /\ entries[a].failures >= streak[a].length
              /\ entries[a].failures \in Nat /\ streak[a].length \in Nat
          BY <1>2, <4>1, PrunedOK DEF IInv, AllCounted, Tracked, LimiterType, Entry, Streak
        <5> QED BY <2>1, <2>2, <2>3, <3>1, <4>1, <5>1 DEF n
      <4>2. CASE ~Lately(a)
        <5>1. entries'[a].failures \in Nat \ {0}
          BY <2>1 DEF Entry
        <5> QED BY <2>1, <2>2, <2>3, <3>1, <4>2, <5>1
      <4> QED BY <4>1, <4>2
    <3>2. CASE b # a
      <4>1. Lately(b)
        BY <1>0, <2>3, <3>2 DEF Lately
      <4> QED BY <2>1, <2>3, <3>2, <4>1, PrunedOK DEF IInv, AllCounted
    <3> QED BY <3>1, <3>2
  <2>7. ToldEnough'
    <3> SUFFICES ASSUME NEW b \in Address, told'[b] # 0
                 PROVE  /\ b \in DOMAIN entries' => entries'[b].blockedUntil <= told'[b]
                        /\ told'[b] < now' + MaxBackoff + Second
      BY DEF ToldEnough, Tracked
    <3>1. b # a
      BY <1>1
    <3> QED BY <1>0, <1>1, <2>1, <3>1, PrunedOK DEF IInv, ToldEnough, Tracked
  <2> QED BY <2>4, <2>5, <2>6, <2>7 DEF IInv
<1>4. CASE ~HasRoom(a, Pruned)
  <2>1. entries' = Pruned /\ streak' = streak /\ now' = now
    BY <1>0, <1>4
  <2>2. /\ DOMAIN entries' \subseteq DOMAIN entries
        /\ \A b \in DOMAIN entries' : entries'[b] = entries[b]
        /\ entries' = [b \in DOMAIN entries' |-> entries'[b]]
    BY <2>1 DEF Pruned
  <2>3. LimiterType' /\ WithinTable'
    BY <1>1, <1>2, <2>1, <2>2, PrunedOK DEF IInv, LimiterType, WithinTable
  <2>4. WaitsFromLast'
    BY <2>1, <2>2 DEF IInv, WaitsFromLast
  <2>5. AllCounted'
    BY <2>1, <2>2, PrunedOK DEF IInv, AllCounted, Lately, Tracked
  <2>6. ToldEnough'
    BY <1>1, <2>1, <2>2 DEF IInv, ToldEnough, Tracked
  <2> QED BY <2>3, <2>4, <2>5, <2>6 DEF IInv
<1> QED BY <1>3, <1>4

LEMMA StutterStep == IInv /\ UNCHANGED vars => IInv'
BY DEF IInv, vars, LimiterType, WithinTable, WaitsFromLast, AllCounted, Lately, Tracked,
       ToldEnough

-----------------------------------------------------------------------------
(* The theorems.                                                           *)

(* The inductive invariant: a tracked address waits exactly from its last  *)
(* wrong PIN on, every address that gave one within the window is tracked, *)
(* and every refused one was told a time not before the end of its wait.   *)
THEOREM LimiterInvariance == Spec => []IInv
<1>1. Init => IInv
  BY InitOK
<1>2. IInv /\ [Next]_vars => IInv'
  BY TickStep, RefusedStep, WrongPinStep, RightPinStep, StutterStep DEF Next
<1> QED BY <1>1, <1>2, PTL DEF Spec

(* The table is within its limit and misses no failure: neither prune()    *)
(* nor a full table ever takes an address's count back while it goes on.   *)
THEOREM TableIsComplete == Spec => []TableCounts
<1>1. IInv => TableCounts
  <2> SUFFICES ASSUME IInv PROVE TableCounts
    OBVIOUS
  <2>1. ASSUME NEW a \in Address, streak[a].length > 0, now - streak[a].last <= ForgetAfter
        PROVE  /\ Tracked(a) /\ entries[a].failures >= streak[a].length
               /\ entries[a].failures > FreeAttempts => entries[a].blockedUntil > streak[a].last
    <3>1. Tracked(a) /\ entries[a].failures >= streak[a].length
      BY <2>1 DEF IInv, AllCounted, Lately
    <3>2. entries[a].failures \in Nat /\ streak[a].last \in Nat /\ a \in DOMAIN entries
      BY <3>1 DEF IInv, LimiterType, Entry, Streak, Tracked
    <3>3. ASSUME entries[a].failures > FreeAttempts
          PROVE  entries[a].blockedUntil > streak[a].last
      <4>1. entries[a].blockedUntil = streak[a].last + Backoff(entries[a].failures)
        BY <3>2, <3>3 DEF IInv, WaitsFromLast
      <4>2. Backoff(entries[a].failures) \in Nat \ {0}
        BY <3>2, <3>3, BackoffOK
      <4> QED BY <3>2, <4>1, <4>2
    <3> QED BY <3>1, <3>3
  <2> QED BY <2>1 DEF TableCounts, IInv, LimiterType, WithinTable
<1> QED BY <1>1, LimiterInvariance, PTL

(* Who comes back when told is let in, and nobody is sent away for longer  *)
(* than the cap, rounded up to a second.                                   *)
THEOREM RetryAfterHonest == Spec => []RetryAfterIsHonest
<1>1. IInv => RetryAfterIsHonest
  <2> SUFFICES ASSUME IInv, NEW a \in Address, told[a] # 0
               PROVE  (now >= told[a] => allow(a)) /\ told[a] - now < MaxBackoff + Second
    BY DEF RetryAfterIsHonest
  <2>1. /\ now \in Nat /\ told[a] \in Nat
        /\ Tracked(a) => entries[a].blockedUntil <= told[a] /\ entries[a].blockedUntil \in Nat
        /\ told[a] < now + MaxBackoff + Second
    BY DEF IInv, LimiterType, Entry, ToldEnough, Tracked
  <2> QED BY <2>1, LimiterAssumption DEF allow
<1> QED BY <1>1, LimiterInvariance, PTL

(* Guessing is slow: past the free ones, a wrong PIN is judged only when   *)
(* the doubled wait since the one before is over, whatever other addresses *)
(* do to the table in between.                                             *)
THEOREM GuessingIsSlow == Spec => GuessesAreSpaced
<1> DEFINE Spaced == \A a \in Address :
                        /\ streak[a].length > FreeAttempts
                        /\ streak'[a].length > streak[a].length
                        => now - streak[a].last >= Wait(streak[a].length)
<1>1. IInv /\ [Next]_vars => [Spaced]_vars
  <2> SUFFICES ASSUME IInv, [Next]_vars, NEW a \in Address,
                      streak[a].length > FreeAttempts,
                      streak'[a].length > streak[a].length
               PROVE  now - streak[a].last >= Wait(streak[a].length)
    OBVIOUS
  <2>1. /\ streak \in [Address -> Streak] /\ streak[a].length \in Nat /\ streak[a].last \in Nat
        /\ now \in Nat
    BY DEF IInv, LimiterType, Streak
  <2>2. ASSUME NEW b \in Address, RightPin(b) PROVE FALSE
    <3>1. streak'[a] = IF a = b THEN NoStreak ELSE streak[a]
      BY <2>1, <2>2 DEF RightPin
    <3> QED BY <2>1, <3>1 DEF NoStreak
  <2>3. ASSUME streak' = streak PROVE FALSE
    BY <2>1, <2>3
  <2>4. PICK b \in Address : WrongPin(b) /\ HasRoom(b, Pruned)
    BY <2>2, <2>3 DEF Next, Tick, Refused, WrongPin, vars
  <2>5. streak'[a] = IF a = b THEN Prolonged(a) ELSE streak[a]
    BY <2>1, <2>4 DEF WrongPin
  <2>6. a = b /\ Prolonged(a).length > streak[a].length
    BY <2>1, <2>5
  <2>7. Lately(a)
    BY <2>1, <2>6, LimiterAssumption DEF Prolonged, Lately
  <2>8. /\ a \in DOMAIN entries /\ entries[a].failures >= streak[a].length
        /\ entries[a].failures \in Nat
    BY <2>7 DEF IInv, AllCounted, Tracked, LimiterType, Entry
  <2>9. entries[a].failures > FreeAttempts
    BY <2>1, <2>8, LimiterAssumption
  <2>10. entries[a].blockedUntil = streak[a].last + Backoff(entries[a].failures)
    BY <2>8, <2>9 DEF IInv, WaitsFromLast
  <2>11. now >= entries[a].blockedUntil
    BY <2>4, <2>6, <2>8 DEF WrongPin, allow, Tracked
  <2>12. /\ Backoff(streak[a].length) \in Nat /\ Backoff(entries[a].failures) \in Nat
         /\ Backoff(entries[a].failures) >= Backoff(streak[a].length)
         /\ Backoff(streak[a].length) = Wait(streak[a].length)
    BY <2>1, <2>8, <2>9, BackoffOK
  <2> QED BY <2>1, <2>10, <2>11, <2>12
<1> QED BY <1>1, LimiterInvariance, PTL DEF Spec, GuessesAreSpaced

=============================================================================
