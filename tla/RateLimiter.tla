---------------------------- MODULE RateLimiter ----------------------------
(***************************************************************************)
(* The limiter of internal/api/ratelimit.go: a map of token buckets under  *)
(* a mutex, from which idle buckets are swept.                             *)
(*                                                                         *)
(* Time is counted in ticks, and credit in ticks too: a token is PerToken  *)
(* of them.  allow reads the clock before it takes the mutex, so a call is *)
(* two steps, Stamp and Allow, and calls may be decided in another order   *)
(* than they were stamped.  MaxSkew bounds how long a goroutine waits      *)
(* between the two.                                                        *)
(***************************************************************************)
EXTENDS Integers

CONSTANTS
    Key,         \* client addresses, or accounts
    Caller,      \* requests in flight
    None,        \* no key
    Requests,    \* the size of a burst
    PerToken,    \* window / requests, rounded down
    Window,      \* the window, in ticks
    MaxSkew,     \* bound: ticks between reading the clock and the mutex
    MaxTime      \* bound: the clock stops there

Full == Requests * PerToken

ASSUME RateLimiterAssumption ==
    /\ None \notin Key
    /\ Requests \in Nat \ {0}
    /\ PerToken \in Nat \ {0}
    /\ Window \in Nat
    /\ Full \in Nat
    /\ Full <= Window
    /\ MaxSkew \in Nat
    /\ MaxTime \in Nat

VARIABLES
    clock,       \* time.Now()
    \* the limiter
    kept,        \* the keys of the map
    credit,      \* of a kept key: rate.Limiter.tokens, in ticks
    last,        \* of a kept key: rate.Limiter.last
    seen,        \* of a kept key: bucket.seen
    lastSweep,   \* limiter.lastSweep
    \* the callers
    wants,       \* the key a caller is in allow for, or None
    stamp,       \* its `now`
    \* what an observer notes down
    latest,      \* the latest `now` of a decided call
    watched,     \* the key whose calls are counted, or None
    granted,     \* how many of its calls have been admitted since
    earned       \* the ticks since, and those by which readings came late for it

bucketVars == <<kept, credit, last, seen, lastSweep>>
calls == <<wants, stamp>>
counts == <<watched, granted, earned>>
vars == <<clock, bucketVars, calls, latest, counts>>

Min2(a, b) == IF a < b THEN a ELSE b

-----------------------------------------------------------------------------
Init ==
    /\ clock = 0
    /\ kept = {}
    /\ credit = [k \in Key |-> Full]
    /\ last = [k \in Key |-> 0]
    /\ seen = [k \in Key |-> 0]
    /\ lastSweep = 0
    /\ wants = [c \in Caller |-> None]
    /\ stamp = [c \in Caller |-> 0]
    /\ latest = 0
    /\ watched = None
    /\ granted = 0
    /\ earned = 0

Waiting(c) == wants[c] # None

\* Time passes, but no caller waits longer than MaxSkew.
Tick ==
    /\ clock < MaxTime
    /\ \A c \in Caller : Waiting(c) => clock - stamp[c] < MaxSkew
    /\ clock' = clock + 1
    /\ earned' = IF watched # None THEN earned + 1 ELSE 0
    /\ UNCHANGED <<bucketVars, calls, latest, watched, granted>>

\* now := time.Now()
Stamp(c, k) ==
    /\ ~Waiting(c)
    /\ stamp' = [stamp EXCEPT ![c] = clock]
    /\ wants' = [wants EXCEPT ![c] = k]
    /\ UNCHANGED <<clock, bucketVars, latest, counts>>

-----------------------------------------------------------------------------
(* One call under the mutex                                                 *)

SweepDue(now) == now - lastSweep >= Window

\* Idle for as long as one token takes.
IdleForAToken(now) == {k \in kept : now - seen[k] >= PerToken}

\* The time of the last sweep in the place of the bucket's own.
IdleByLastSweep(now) == {k \in kept : now - lastSweep >= Window}

\* The buckets a sweep drops: those idle long enough to have refilled.
Idle(now) == {k \in kept : now - seen[k] >= Window}

Swept(now) == IF SweepDue(now) THEN Idle(now) ELSE {}

\* rate.Limiter.advance: what has come back since `last`, none of it if the
\* clock reads earlier than that.
TokensUncapped(k, now) == credit[k] + (IF now < last[k] THEN 0 ELSE now - last[k])

Tokens(k, now) ==
    LET elapsed == IF now < last[k] THEN 0 ELSE now - last[k]
    IN  Min2(Full, credit[k] + elapsed)

\* The sweep's own time, or the call's.
SweepTimeOfCall(now) == now

SweepTime(now) == IF SweepDue(now) THEN now ELSE lastSweep

\* A call in allow, from the sweep to AllowN.
Allow(c) ==
    LET now == stamp[c]
        k == wants[c]
        gone == Swept(now)
        stays == k \in kept /\ k \notin gone
        tokens == IF stays THEN Tokens(k, now) ELSE Full
        admitted == tokens >= PerToken
    IN  /\ Waiting(c)
        /\ wants' = [wants EXCEPT ![c] = None]
        /\ stamp' = [stamp EXCEPT ![c] = 0]
        /\ kept' = (kept \ gone) \cup {k}
        /\ lastSweep' = SweepTime(now)
        /\ seen' = [x \in Key |-> IF x = k THEN now ELSE IF x \in gone THEN 0 ELSE seen[x]]
        /\ credit' = [x \in Key |-> IF x = k /\ admitted THEN tokens - PerToken
                                    ELSE IF x \in gone THEN Full ELSE credit[x]]
        /\ last' = [x \in Key |-> IF x = k /\ admitted THEN now
                                  ELSE IF x \in gone THEN 0 ELSE last[x]]
        /\ latest' = IF now > latest THEN now ELSE latest
        /\ granted' = IF watched = k /\ admitted THEN granted + 1 ELSE granted
        /\ earned' = earned + (IF watched = k /\ admitted THEN clock - now ELSE 0)
                            + (IF watched \in gone THEN MaxSkew ELSE 0)
        /\ UNCHANGED <<clock, watched>>

-----------------------------------------------------------------------------
\* At some moment the observer begins to count the calls of a key.
Observe(k) ==
    /\ watched = None
    /\ watched' = k
    /\ UNCHANGED <<clock, bucketVars, calls, latest, granted, earned>>

Next ==
    \/ Tick
    \/ \E c \in Caller, k \in Key : Stamp(c, k)
    \/ \E c \in Caller : Allow(c)
    \/ \E k \in Key : Observe(k)

Spec == Init /\ [][Next]_vars

-----------------------------------------------------------------------------
(* Properties                                                               *)

\* Every variable has its type; no bucket holds more than a burst.
TypeOK ==
    /\ clock \in Nat
    /\ kept \subseteq Key
    /\ credit \in [Key -> 0 .. Full]
    /\ last \in [Key -> Nat]
    /\ seen \in [Key -> Nat]
    /\ lastSweep \in Nat
    /\ wants \in [Caller -> Key \cup {None}]
    /\ stamp \in [Caller -> Nat]
    /\ latest \in Nat
    /\ watched \in Key \cup {None}
    /\ granted \in Nat
    /\ earned \in Nat

\* Whenever one begins to count, a key is admitted no more often than a full
\* bucket and the time since then pay for, but for the ticks by which the clock
\* readings of its admissions are late, and MaxSkew for a sweep.  Dropping a
\* bucket buys a caller no more than that, and neither does `last` going backwards.
BudgetHolds == watched # None => granted * PerToken <= Full + earned

\* "so the map cannot grow without bound": a call sees no bucket whose key has
\* been silent for two windows, although sweeps only happen when calls do, and
\* clock readings reach the mutex out of order.
MapForgets == \A k \in kept : latest - seen[k] < 2 * Window

-----------------------------------------------------------------------------
(* The limiter is the abstract bucket, within the staleness of the clock    *)
(* readings: sweeping is invisible.                                         *)

Level(k) == IF k \in kept THEN Tokens(k, clock) ELSE Full

Bucket == INSTANCE TokenBucket WITH
             level <- [k \in Key |-> Level(k)],
             asking <- wants,
             Slack <- MaxSkew

\* Every call is admitted or refused as by a bucket per key that is never dropped,
\* read MaxSkew ticks late at most, and exactly so with fresh readings: nobody
\* with a token is turned away, a refused caller regains its allowance tick by
\* tick, and a refusal costs nothing.
RefinesTokenBucket == Bucket!Spec

=============================================================================
