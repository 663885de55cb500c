---------------------------- MODULE RateLimiter ----------------------------
(***************************************************************************)
(* The PIN's guard: RateLimiter (ratelimiter.cpp) as handlePrepareUpload() *)
(* uses it.  An address has some wrong PINs free; each further one makes   *)
(* it wait, twice as long every time up to a cap.  Time is counted in      *)
(* ticks; only the differences between the constants matter.               *)
(***************************************************************************)
EXTENDS Integers, FiniteSets

CONSTANTS Address,        \* peer addresses
          FreeAttempts,   \* wrong PINs that cost nothing
          BaseBackoff,    \* BaseBackoffMs, in ticks
          MaxBackoff,     \* MaxBackoffMs
          ForgetAfter,    \* ForgetAfterMs
          MaxEntries,     \* addresses tracked at once
          Second,         \* ticks in a second, the unit of Retry-After
          MaxTime         \* bound: ticks in a behaviour

ASSUME LimiterAssumption ==
    /\ IsFiniteSet(Address)
    /\ FreeAttempts \in Nat /\ MaxEntries \in Nat
    /\ BaseBackoff \in Nat \ {0} /\ MaxBackoff \in Nat /\ BaseBackoff <= MaxBackoff
    /\ ForgetAfter \in Nat /\ MaxBackoff <= ForgetAfter
    /\ Second \in Nat \ {0} /\ MaxTime \in Nat

VARIABLES
    now,       \* now()
    entries,   \* m_entries: address -> failures and blockedUntil (0: never)
    streak,    \* observation: address -> recorded wrong PINs in a row, time of the last
    told       \* observation: address -> when Retry-After told it to come back (0: not)

vars == <<now, entries, streak, told>>

Entry == [failures : Nat \ {0}, blockedUntil : Nat]
NoEntries == [a \in {} |-> 0]
NoStreak == [length |-> 0, last |-> 0]

Init ==
    /\ now = 1
    /\ entries = NoEntries
    /\ streak = [a \in Address |-> NoStreak]
    /\ told = [a \in Address |-> 0]

-----------------------------------------------------------------------------
(* The methods.                                                            *)

Tracked(a) == a \in DOMAIN entries
allow(a) == Tracked(a) => now >= entries[a].blockedUntil

(* Whole seconds, rounded up, for an address that is refused.              *)
SecondsRoundedDown(a) == (entries[a].blockedUntil - now) \div Second   \* a slip
retryAfter(a) == (entries[a].blockedUntil - now + Second - 1) \div Second

(* The wait after n failures: the doubling stops once it reaches the cap.  *)
Doubled[i \in Nat] ==
    IF i = 0 THEN BaseBackoff
    ELSE IF Doubled[i - 1] < MaxBackoff THEN 2 * Doubled[i - 1] ELSE Doubled[i - 1]
Flat(n) == BaseBackoff   \* a slip: no doubling
Backoff(n) == IF Doubled[n - FreeAttempts - 1] > MaxBackoff
              THEN MaxBackoff ELSE Doubled[n - FreeAttempts - 1]

(* prune(): what has been out of its wait for longer than the window.      *)
(* Entries within the free allowance were never made to wait, and stay.    *)
IdleOrFree(a) == now - entries[a].blockedUntil > ForgetAfter   \* a slip: 0 taken for a time
Stale(a) == /\ entries[a].blockedUntil # 0
            /\ now - entries[a].blockedUntil > ForgetAfter
Pruned == [a \in {b \in DOMAIN entries : ~Stale(b)} |-> entries[a]]

(* recordFailure(): nothing is recorded for a new address in a full table. *)
Failed(a, e) ==
    LET n == IF a \in DOMAIN e THEN e[a].failures + 1 ELSE 1
        until == IF n > FreeAttempts THEN now + Backoff(n)
                 ELSE IF a \in DOMAIN e THEN e[a].blockedUntil ELSE 0
    IN  [b \in DOMAIN e \cup {a} |->
            IF b = a THEN [failures |-> n, blockedUntil |-> until] ELSE e[b]]
HasRoom(a, e) == a \in DOMAIN e \/ Cardinality(DOMAIN e) < MaxEntries
recordFailure(a) ==
    entries' = IF HasRoom(a, Pruned) THEN Failed(a, Pruned) ELSE Pruned

recordSuccess(a) == entries' = [b \in DOMAIN entries \ {a} |-> entries[b]]

-----------------------------------------------------------------------------
(* handlePrepareUpload() from its rate limit on: 429, 401, or on it goes.  *)

(* Streaks restart when an address has been quiet for the window.          *)
Prolonged(a) ==
    IF streak[a].length > 0 /\ now - streak[a].last <= ForgetAfter
    THEN [length |-> streak[a].length + 1, last |-> now]
    ELSE [length |-> 1, last |-> now]

Refused(a) ==
    /\ ~allow(a)
    /\ told' = [told EXCEPT ![a] = now + Second * retryAfter(a)]
    /\ UNCHANGED <<now, entries, streak>>

WrongPin(a) ==
    /\ allow(a)
    /\ recordFailure(a)
    /\ streak' = IF HasRoom(a, Pruned) THEN [streak EXCEPT ![a] = Prolonged(a)] ELSE streak
    /\ told' = [told EXCEPT ![a] = 0]
    /\ UNCHANGED now

RightPin(a) ==
    /\ allow(a)
    /\ recordSuccess(a)
    /\ streak' = [streak EXCEPT ![a] = NoStreak]
    /\ told' = [told EXCEPT ![a] = 0]
    /\ UNCHANGED now

Tick ==
    /\ now < MaxTime /\ now' = now + 1
    /\ UNCHANGED <<entries, streak, told>>

Next == Tick \/ \E a \in Address : Refused(a) \/ WrongPin(a) \/ RightPin(a)

Spec == Init /\ [][Next]_vars

-----------------------------------------------------------------------------
(* Correctness.                                                            *)

(* The table stays within MaxEntries and counts every address's failures   *)
(* in full: an address is tracked with at least the wrong PINs it gave in  *)
(* a row, and once those exceed the allowance it has been made to wait.    *)
TableCounts ==
    /\ now \in Nat
    /\ Cardinality(DOMAIN entries) <= MaxEntries
    /\ \A a \in DOMAIN entries : entries[a] \in Entry
    /\ \A a \in Address : streak[a].length > 0 /\ now - streak[a].last <= ForgetAfter =>
          /\ Tracked(a) /\ entries[a].failures >= streak[a].length
          /\ entries[a].failures > FreeAttempts => entries[a].blockedUntil > streak[a].last

(* What n failures cost, in closed form: the powers of two do not stop.    *)
PowerOfTwo[i \in Nat] == IF i = 0 THEN 1 ELSE 2 * PowerOfTwo[i - 1]
Wait(n) == LET doubled == BaseBackoff * PowerOfTwo[n - FreeAttempts - 1]
           IN  IF doubled < MaxBackoff THEN doubled ELSE MaxBackoff

(* Guessing is slow: past the free ones, each wrong PIN an address gets    *)
(* judged comes at least the doubled wait after the one before, whatever   *)
(* happens in between: refused tries, other addresses' wrong and right     *)
(* PINs, a full table, a prune.                                            *)
GuessesAreSpaced ==
    [][\A a \in Address :
          /\ streak[a].length > FreeAttempts
          /\ streak'[a].length > streak[a].length
          => now - streak[a].last >= Wait(streak[a].length)]_vars

(* Retry-After tells the truth: an address that comes back when told is    *)
(* not refused again, is never told "in 0 seconds", and is never sent away *)
(* for longer than the cap (rounded up to a second).                       *)
RetryAfterIsHonest ==
    \A a \in Address : told[a] # 0 =>
        /\ now >= told[a] => allow(a)
        /\ told[a] - now < MaxBackoff + Second

=============================================================================
