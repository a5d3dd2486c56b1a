------------------------- MODULE RateLimiterProofs -------------------------
(***************************************************************************)
(* Theorems about RateLimiter, for any number of keys and callers, any     *)
(* rate and window, and any MaxSkew but where a theorem bounds it.         *)
(*                                                                         *)
(* TypeOK and Times are inductive: no reading of the clock is ahead of it, *)
(* and none that waits for the mutex is older than MaxSkew.  MapForgets    *)
(* and BudgetHolds follow from strengthenings over them, and every step is *)
(* a step of TokenBucket or none.                                          *)
(***************************************************************************)
EXTENDS RateLimiter, TLAPS

\* Readings of the clock are in the past, waiting ones by MaxSkew at most; a
\* bucket is seen at a reading no older than the one it last gave a token at,
\* but for MaxSkew.
Times ==
    /\ \A c \in Caller : Waiting(c) => stamp[c] <= clock /\ clock - stamp[c] <= MaxSkew
    /\ lastSweep <= clock
    /\ latest <= clock
    /\ \A k \in kept : /\ last[k] <= clock
                       /\ seen[k] <= clock
                       /\ last[k] <= seen[k] + MaxSkew

\* The constants, as the arithmetic of the proofs needs them.
LEMMA Constants ==
  /\ PerToken \in Nat /\ PerToken > 0
  /\ Window \in Nat /\ Full \in Nat /\ Full <= Window
  /\ MaxSkew \in Nat
BY RateLimiterAssumption

\* A burst is at least one token.
LEMMA BurstHoldsToken == PerToken <= Full
<1> DEFINE R == Requests
           P == PerToken
<1>1. R \in Nat /\ R >= 1 /\ P \in Nat
  BY RateLimiterAssumption
<1>2. R * P = (R - 1) * P + P
  <2> HIDE DEF R, P
  <2> QED
    BY <1>1
<1>3. (R - 1) * P >= 0
  <2> HIDE DEF R, P
  <2>1. PICK m \in Nat : m = R - 1
    BY <1>1
  <2>2. m * P \in Nat
    BY <1>1
  <2> QED
    BY <2>1, <2>2
<1> QED
  BY <1>1, <1>2, <1>3 DEF Full

\* What AllowN finds in a kept bucket.
LEMMA TokensBounded ==
  ASSUME TypeOK, NEW k \in Key, NEW now \in Nat
  PROVE  Tokens(k, now) \in 0 .. Full
<1>1. credit[k] \in 0 .. Full /\ last[k] \in Nat /\ Full \in Nat
  BY Constants DEF TypeOK
<1>2. (IF now < last[k] THEN 0 ELSE now - last[k]) \in Nat
  BY <1>1
<1> QED
  BY <1>1, <1>2 DEF Tokens, Min2

\* At the start no call is under way.
LEMMA InitTyped == Init => TypeOK /\ Times
<1> SUFFICES ASSUME Init PROVE TypeOK /\ Times
  OBVIOUS
<1>1. TypeOK
  BY Constants DEF Init, TypeOK
<1>2. Times
  BY Constants DEF Init, Times, Waiting
<1> QED
  BY <1>1, <1>2

\* One call in allow keeps the types and the order of times.
LEMMA AllowTyped ==
  ASSUME TypeOK, Times, NEW c \in Caller, Allow(c)
  PROVE  TypeOK' /\ Times'
<1>1. PICK now \in Nat, k \in Key, gone \in SUBSET Key :
        now = stamp[c] /\ k = wants[c] /\ gone = Swept(stamp[c])
  BY DEF TypeOK, Allow, Waiting, Swept, Idle
<1>2. now <= clock /\ clock - now <= MaxSkew /\ clock \in Nat
  BY <1>1 DEF Times, Allow, TypeOK
<1>3. PICK tokens \in 0 .. Full :
        tokens = IF k \in kept /\ k \notin gone THEN Tokens(k, now) ELSE Full
  BY <1>1, TokensBounded, Constants
<1>4. /\ wants' = [wants EXCEPT ![c] = None]
      /\ stamp' = [stamp EXCEPT ![c] = 0]
      /\ kept' = (kept \ gone) \cup {k}
      /\ lastSweep' = SweepTime(now)
      /\ seen' = [x \in Key |-> IF x = k THEN now ELSE IF x \in gone THEN 0 ELSE seen[x]]
      /\ credit' = [x \in Key |-> IF x = k /\ tokens >= PerToken THEN tokens - PerToken
                                  ELSE IF x \in gone THEN Full ELSE credit[x]]
      /\ last' = [x \in Key |-> IF x = k /\ tokens >= PerToken THEN now
                                ELSE IF x \in gone THEN 0 ELSE last[x]]
      /\ latest' = IF now > latest THEN now ELSE latest
      /\ granted' \in {granted, granted + 1}
      /\ earned' = earned + (IF watched = k /\ tokens >= PerToken THEN clock - now ELSE 0)
                          + (IF watched \in gone THEN MaxSkew ELSE 0)
      /\ UNCHANGED <<clock, watched>>
  BY <1>1, <1>3 DEF Allow
<1>5. lastSweep' \in Nat /\ lastSweep' <= clock
  BY <1>1, <1>2, <1>4 DEF SweepTime, TypeOK, Times
<1>6. TypeOK'
  <2>1. credit' \in [Key -> 0 .. Full]
    BY <1>3, <1>4, Constants DEF TypeOK
  <2>2. last' \in [Key -> Nat] /\ seen' \in [Key -> Nat]
    BY <1>1, <1>4 DEF TypeOK
  <2>3. kept' \subseteq Key /\ wants' \in [Caller -> Key \cup {None}] /\ stamp' \in [Caller -> Nat]
    BY <1>4 DEF TypeOK
  <2>4. latest' \in Nat /\ granted' \in Nat /\ earned' \in Nat
    BY <1>4, <1>1, <1>2, Constants DEF TypeOK
  <2> QED
    BY <1>4, <1>5, <2>1, <2>2, <2>3, <2>4 DEF TypeOK
<1>7. Times'
  <2>1. \A d \in Caller : Waiting(d)' => stamp'[d] <= clock' /\ clock' - stamp'[d] <= MaxSkew
    BY <1>4 DEF Times, Waiting, TypeOK
  <2>2. latest' <= clock'
    BY <1>2, <1>4 DEF Times
  <2>3. ASSUME NEW x \in kept'
        PROVE  last'[x] <= clock' /\ seen'[x] <= clock' /\ last'[x] <= seen'[x] + MaxSkew
    <3>1. x \in Key
      BY <1>6 DEF TypeOK
    <3>2. CASE x # k
      <4>1. x \in kept /\ x \notin gone /\ last'[x] = last[x] /\ seen'[x] = seen[x]
        BY <1>4, <3>1, <3>2
      <4> QED
        BY <4>1, <1>4 DEF Times
    <3>3. CASE x = k /\ tokens >= PerToken
      <4>1. last'[x] = now /\ seen'[x] = now
        BY <1>4, <3>1, <3>3
      <4> QED
        BY <4>1, <1>2, <1>4, Constants
    <3>4. CASE x = k /\ ~(tokens >= PerToken)
      <4>1. k \in kept /\ k \notin gone
        BY <1>3, <3>4, BurstHoldsToken, Constants
      <4>2. last'[x] = last[k] /\ seen'[x] = now
        BY <1>4, <3>1, <3>4, <4>1
      <4>3. last[k] \in Nat /\ last[k] <= clock
        BY <4>1, <1>1 DEF Times, TypeOK
      <4> QED
        BY <4>2, <4>3, <1>2, <1>4, Constants
    <3> QED
      BY <3>2, <3>3, <3>4
  <2> QED
    BY <1>4, <1>5, <2>1, <2>2, <2>3 DEF Times
<1> QED
  BY <1>6, <1>7

\* Every step keeps the types and the order of times.
LEMMA NextTyped == TypeOK /\ Times /\ [Next]_vars => (TypeOK /\ Times)'
<1> SUFFICES ASSUME TypeOK, Times, [Next]_vars PROVE TypeOK' /\ Times'
  OBVIOUS
<1>1. CASE Tick
  <2>1. TypeOK'
    BY <1>1 DEF Tick, TypeOK, bucketVars, calls, counts
  <2>2. Times'
    BY <1>1, Constants DEF Tick, TypeOK, Times, Waiting, bucketVars, calls, counts
  <2> QED
    BY <2>1, <2>2
<1>2. ASSUME NEW c \in Caller, NEW k \in Key, Stamp(c, k) PROVE TypeOK' /\ Times'
  <2>1. TypeOK'
    BY <1>2 DEF Stamp, TypeOK, bucketVars, counts
  <2>2. Times'
    BY <1>2, Constants DEF Stamp, TypeOK, Times, Waiting, bucketVars, counts
  <2> QED
    BY <2>1, <2>2
<1>3. ASSUME NEW c \in Caller, Allow(c) PROVE TypeOK' /\ Times'
  BY <1>3, AllowTyped
<1>4. ASSUME NEW k \in Key, Observe(k) PROVE TypeOK' /\ Times'
  <2>1. TypeOK'
    BY <1>4 DEF Observe, TypeOK, bucketVars, calls
  <2>2. Times'
    BY <1>4 DEF Observe, TypeOK, Times, Waiting, bucketVars, calls
  <2> QED
    BY <2>1, <2>2
<1>5. CASE UNCHANGED vars
  BY <1>5 DEF vars, TypeOK, Times, Waiting, bucketVars, calls, counts
<1> QED
  BY <1>1, <1>2, <1>3, <1>4, <1>5 DEF Next

\* Types, and the order of times, at every moment.
THEOREM TypesAndTimes == Spec => [](TypeOK /\ Times)
<1> QED
  BY InitTyped, NextTyped, PTL DEF Spec

\* TypeOK, the type invariant of the runs.
THEOREM TypeCorrect == Spec => []TypeOK
BY TypesAndTimes, PTL

-----------------------------------------------------------------------------
(* Forgetting.  A sweep leaves nothing that was silent for a window before  *)
(* it, and the next one is due a window later.                              *)

SweptLately ==
    /\ \A k \in kept : seen[k] > lastSweep - Window
    /\ latest < lastSweep + Window

\* Every step keeps SweptLately, if no reading waits as long as a window.
LEMMA NextSweptLately ==
  ASSUME MaxSkew < Window, TypeOK, Times, SweptLately, [Next]_vars
  PROVE  SweptLately'
<1>1. ASSUME NEW c \in Caller, Allow(c) PROVE SweptLately'
  <2>1. PICK now \in Nat, k \in Key, gone \in SUBSET Key :
          now = stamp[c] /\ k = wants[c] /\ gone = Swept(stamp[c])
    BY <1>1 DEF TypeOK, Allow, Waiting, Swept, Idle
  <2>2. now <= clock /\ clock - now <= MaxSkew /\ clock \in Nat /\ now \in Nat /\ Window > 0
    BY <1>1, <2>1, Constants, BurstHoldsToken DEF Times, Allow, TypeOK
  <2>3. /\ kept' = (kept \ gone) \cup {k}
        /\ lastSweep' = SweepTime(now)
        /\ seen' = [x \in Key |-> IF x = k THEN now ELSE IF x \in gone THEN 0 ELSE seen[x]]
        /\ latest' = IF now > latest THEN now ELSE latest
    BY <1>1, <2>1 DEF Allow
  <2>4. kept \subseteq Key /\ seen \in [Key -> Nat] /\ lastSweep \in Nat /\ latest \in Nat
    BY DEF TypeOK
  <2>5. CASE SweepDue(now)
    <3>1. lastSweep' = now /\ now >= lastSweep + Window /\ gone = Idle(now)
      BY <2>1, <2>3, <2>4, <2>5, Constants DEF SweepTime, Swept, SweepDue
    <3>2. latest' = now
      <4>1. latest < lastSweep + Window
        BY DEF SweptLately
      <4>2. now > latest
        BY <3>1, <4>1, <2>2, <2>4, Constants
      <4> QED
        BY <4>2, <2>3
    <3>3. ASSUME NEW x \in kept' PROVE seen'[x] > now - Window
      <4>1. x \in Key
        BY <2>3, <2>4
      <4>2. CASE x = k
        BY <2>2, <2>3, <4>1, <4>2, Constants
      <4>3. CASE x # k
        <5>1. x \in kept /\ x \notin Idle(now) /\ seen'[x] = seen[x]
          BY <3>1, <2>3, <4>1, <4>3
        <5>2. ~(now - seen[x] >= Window)
          BY <5>1 DEF Idle
        <5> QED
          BY <5>1, <5>2, <4>1, <2>2, <2>4, Constants
      <4> QED
        BY <4>2, <4>3
    <3> QED
      BY <3>1, <3>2, <3>3, <2>2, Constants DEF SweptLately
  <2>6. CASE ~SweepDue(now)
    <3>1. lastSweep' = lastSweep /\ now < lastSweep + Window /\ gone = {}
      BY <2>1, <2>3, <2>4, <2>6, Constants DEF SweepTime, Swept, SweepDue
    <3>2. now > lastSweep - Window
      BY <2>2, <2>4, Constants DEF Times
    <3>3. \A x \in kept' : seen'[x] > lastSweep - Window
      BY <3>1, <3>2, <2>3, <2>4, Constants DEF SweptLately
    <3> QED
      BY <3>1, <3>3, <2>3, <2>4, Constants DEF SweptLately
  <2> QED
    BY <2>5, <2>6
<1>2. CASE \/ Tick \/ UNCHANGED vars
           \/ \E c \in Caller, k \in Key : Stamp(c, k)
           \/ \E k \in Key : Observe(k)
  BY <1>2 DEF Tick, Stamp, Observe, vars, bucketVars, SweptLately
<1> QED
  BY <1>1, <1>2 DEF Next

\* MapForgets, as long as no goroutine is kept from the mutex for a whole window.
THEOREM MapForgetsHolds == ASSUME MaxSkew < Window PROVE Spec => []MapForgets
<1>1. Init => SweptLately
  BY Constants, BurstHoldsToken DEF Init, SweptLately
<1>2. TypeOK /\ Times /\ SweptLately /\ [Next]_vars => SweptLately'
  BY NextSweptLately
<1>3. TypeOK /\ SweptLately => MapForgets
  <2> SUFFICES ASSUME TypeOK, SweptLately, NEW k \in kept PROVE latest - seen[k] < 2 * Window
    BY DEF MapForgets
  <2>1. latest \in Nat /\ lastSweep \in Nat /\ seen[k] \in Nat
    BY DEF TypeOK
  <2> QED
    BY <2>1, Constants DEF SweptLately
<1> QED
  BY <1>1, <1>2, <1>3, TypesAndTimes, PTL DEF Spec

-----------------------------------------------------------------------------
(* The budget.  What a key has been given since counting began, and what    *)
(* its bucket holds, never exceed a full bucket and the time since.         *)

Paid ==
    /\ watched = None => granted = 0 /\ earned = 0
    /\ watched # None =>
          granted * PerToken + Level(watched) <= Full + earned

\* A level is between empty and full.
LEMMA LevelBounded ==
  ASSUME TypeOK, NEW k \in Key
  PROVE  Level(k) \in 0 .. Full
<1>1. clock \in Nat
  BY DEF TypeOK
<1> QED
  BY <1>1, TokensBounded, Constants DEF Level

\* A sweep adds MaxSkew at most to a level: what it drops was all but full.
LEMMA IdleIsFull ==
  ASSUME TypeOK, Times, NEW now \in Nat, now <= clock, NEW x \in Swept(now)
  PROVE  /\ Full <= Level(x) + MaxSkew /\ x \in kept /\ x \in Key
         /\ Full <= Level(x) \/ Full + (clock - now) <= Level(x) + MaxSkew
<1>1. x \in kept /\ x \in Key /\ now - seen[x] >= Window
  BY DEF Swept, Idle, TypeOK
<1>2. last[x] <= seen[x] + MaxSkew /\ last[x] <= clock
  BY <1>1 DEF Times
<1>3. /\ last[x] \in Nat /\ seen[x] \in Nat /\ credit[x] \in Nat /\ credit[x] <= Full
      /\ clock \in Nat
  BY <1>1, Constants DEF TypeOK
<1>4. clock - last[x] >= Full - MaxSkew + (clock - now)
  BY <1>1, <1>2, <1>3, Constants
<1>5. Level(x) = Min2(Full, credit[x] + (clock - last[x]))
  BY <1>1, <1>2, <1>3 DEF Level, Tokens
<1> QED
  BY <1>1, <1>3, <1>4, <1>5, Constants DEF Min2

\* What one call does to the levels: that of its own key pays for the token it
\* is given, and none rises by more than the lateness of a reading, or MaxSkew for
\* a sweep.
LEMMA AllowLevels ==
  ASSUME TypeOK, Times, NEW c \in Caller, Allow(c), NEW x \in Key
  PROVE  LET d == IF x \in Swept(stamp[c]) THEN 1 ELSE 0
             g == IF x = wants[c] /\ (IF x \in kept /\ d = 0 THEN Tokens(x, stamp[c]) ELSE Full) >= PerToken
                  THEN 1 ELSE 0
         IN  Level(x)' + (IF g = 1 THEN PerToken ELSE 0)
                <= Level(x) + (IF g = 1 THEN clock - stamp[c] ELSE 0) + (IF d = 1 THEN MaxSkew ELSE 0)
<1>1. PICK now \in Nat, k \in Key, gone \in SUBSET Key :
        now = stamp[c] /\ k = wants[c] /\ gone = Swept(stamp[c])
  BY DEF TypeOK, Allow, Waiting, Swept, Idle
<1>2. now <= clock /\ clock - now <= MaxSkew /\ clock \in Nat
  BY <1>1 DEF Times, Allow, TypeOK
<1>3. PICK tokens \in 0 .. Full :
        tokens = IF x \in kept /\ x \notin gone THEN Tokens(x, now) ELSE Full
  BY <1>1, TokensBounded, Constants
<1>4. /\ kept' = (kept \ gone) \cup {k}
      /\ clock' = clock
      /\ x = k => /\ credit'[x] = IF tokens >= PerToken THEN tokens - PerToken
                                  ELSE IF x \in gone THEN Full ELSE credit[x]
                  /\ last'[x] = IF tokens >= PerToken THEN now
                                ELSE IF x \in gone THEN 0 ELSE last[x]
      /\ x # k /\ x \notin gone => credit'[x] = credit[x] /\ last'[x] = last[x]
  BY <1>1, <1>3 DEF Allow
<1>5. Level(x) \in 0 .. Full
  BY LevelBounded
<1>6. x \in gone => Full <= Level(x) + MaxSkew
  BY <1>1, <1>2, IdleIsFull
<1>7. tokens <= Level(x) + (IF x \in gone THEN MaxSkew ELSE 0)
  <2>1. CASE x \in kept /\ x \notin gone
    <3>1. credit[x] \in Nat /\ last[x] \in Nat /\ last[x] <= clock
      BY <2>1, Constants DEF TypeOK, Times
    <3>2. Level(x) = Min2(Full, credit[x] + (clock - last[x]))
      BY <2>1, <3>1, <1>2 DEF Level, Tokens
    <3>3. tokens = Min2(Full, credit[x] + (IF now < last[x] THEN 0 ELSE now - last[x]))
      BY <1>3, <2>1 DEF Tokens
    <3> QED
      BY <2>1, <3>1, <3>2, <3>3, <1>2, Constants DEF Min2
  <2>2. CASE x \in gone
    BY <2>2, <1>3, <1>5, <1>6, Constants
  <2>3. CASE x \notin kept /\ x \notin gone
    BY <2>3, <1>3 , Constants DEF Level
  <2> QED
    BY <2>1, <2>2, <2>3
<1>8. CASE x = k /\ tokens >= PerToken
  <2>1. Level(x)' = Min2(Full, tokens - PerToken + (clock - now))
    BY <1>2, <1>4, <1>8 DEF Level, Tokens
  <2>2. Level(x)' + PerToken <= tokens + (clock - now)
    BY <2>1, <1>2, <1>3, <1>8, Constants DEF Min2
  <2> QED
    BY <2>1, <2>2, <1>1, <1>2, <1>3, <1>5, <1>7, <1>8, Constants DEF Min2
<1>9. CASE x = k /\ ~(tokens >= PerToken)
  <2>1. x \in kept /\ x \notin gone
    BY <1>3, <1>9, BurstHoldsToken, Constants
  <2>2. Level(x)' = Level(x)
    BY <1>4, <1>9, <2>1 DEF Level, Tokens
  <2> QED
    BY <2>1, <2>2, <1>1, <1>3, <1>5, <1>9, Constants
<1>10. CASE x # k /\ x \notin gone
  <2>1. Level(x)' = Level(x)
    BY <1>4, <1>10 DEF Level, Tokens
  <2> QED
    BY <2>1, <1>1, <1>5, <1>10, Constants
<1>11. CASE x # k /\ x \in gone
  <2>1. Level(x)' = Full
    BY <1>4, <1>11 DEF Level
  <2> QED
    BY <2>1, <1>1, <1>5, <1>6, <1>11, Constants
<1> QED
  BY <1>8, <1>9, <1>10, <1>11

\* A tick adds a tick to a level, until it is full.
LEMMA TickLevels ==
  ASSUME TypeOK, Times, Tick, NEW x \in Key
  PROVE  Level(x)' = IF Level(x) < Full THEN Level(x) + 1 ELSE Full
<1>1. kept' = kept /\ credit' = credit /\ last' = last /\ clock' = clock + 1 /\ clock \in Nat
  BY DEF Tick, bucketVars, TypeOK
<1>2. CASE x \notin kept
  BY <1>1, <1>2, Constants DEF Level
<1>3. CASE x \in kept
  <2>1. credit[x] \in 0 .. Full /\ last[x] \in Nat /\ last[x] <= clock
    BY <1>3 DEF TypeOK, Times
  <2>2. Level(x) = Min2(Full, credit[x] + (clock - last[x]))
    BY <1>1, <1>3, <2>1 DEF Level, Tokens
  <2>3. Level(x)' = Min2(Full, credit[x] + (clock + 1 - last[x]))
    BY <1>1, <1>3, <2>1 DEF Level, Tokens
  <2> QED
    BY <1>1, <2>1, <2>2, <2>3, Constants DEF Min2
<1> QED
  BY <1>2, <1>3

\* Arithmetic of the counts.
LEMMA OneMore == \A n, m \in Nat : (n + 1) * m = n * m + m /\ n * m \in Nat
OBVIOUS

\* Every step keeps the account.
LEMMA NextPaid == TypeOK /\ Times /\ Paid /\ [Next]_vars => Paid'
<1> SUFFICES ASSUME TypeOK, Times, Paid, [Next]_vars PROVE Paid'
  OBVIOUS
<1>0. granted \in Nat /\ earned \in Nat /\ clock \in Nat
  BY DEF TypeOK, Times
<1>1. CASE Tick
  <2>1. /\ UNCHANGED <<watched, granted>>
        /\ earned' = IF watched # None THEN earned + 1 ELSE 0
    BY <1>1 DEF Tick
  <2>2. CASE watched = None
    BY <2>1, <2>2 DEF Paid
  <2>3. CASE watched # None
    <3>1. watched \in Key /\ watched' = watched
      BY <2>1, <2>3 DEF TypeOK
    <3>2. PICK w \in Key : w = watched
      BY <3>1
    <3>3. Level(w)' <= Level(w) + 1 /\ Level(w) \in 0 .. Full
      BY <1>1, TickLevels, LevelBounded, Constants
    <3>4. Level(w)' \in Int
      <4>1. Level(w)' = IF Level(w) < Full THEN Level(w) + 1 ELSE Full
        BY <1>1, TickLevels
      <4> QED
        BY <4>1, <3>3, Constants
    <3>5. PICK G \in Nat : G = granted * PerToken
      BY <1>0, Constants, OneMore
    <3>6. G + Level(w) <= Full + earned
      BY <2>3, <3>2, <3>5 DEF Paid
    <3>7. G + Level(w)' <= Full + earned'
      BY <2>1, <2>3, <3>3, <3>4, <3>5, <3>6, <1>0, Constants
    <3> QED
      BY <2>1, <2>3, <3>1, <3>2, <3>5, <3>7 DEF Paid
  <2> QED
    BY <2>2, <2>3
<1>2. ASSUME NEW c \in Caller, NEW k \in Key, Stamp(c, k) PROVE Paid'
  BY <1>2 DEF Stamp, Paid, Level, Tokens, bucketVars, counts
<1>3. ASSUME NEW c \in Caller, Allow(c) PROVE Paid'
  <2>1. watched' = watched /\ clock' = clock
    BY <1>3 DEF Allow
  <2>2. CASE watched = None
    <3>1. wants[c] # None /\ Swept(stamp[c]) \subseteq Key
      BY <1>3 DEF Allow, Waiting, Swept, Idle, TypeOK
    <3>2. None \notin Key
      BY RateLimiterAssumption
    <3>3. granted' = granted /\ earned' = earned
      BY <1>0, <1>3, <2>2, <3>1, <3>2 DEF Allow
    <3> QED
      BY <2>1, <2>2, <3>3 DEF Paid
  <2>3. CASE watched # None
    <3>1. PICK w \in Key : w = watched
      BY <2>3 DEF TypeOK
    <3>2. PICK d \in {0, 1}, g \in {0, 1} :
            /\ d = IF w \in Swept(stamp[c]) THEN 1 ELSE 0
            /\ g = IF w = wants[c] /\ (IF w \in kept /\ d = 0 THEN Tokens(w, stamp[c]) ELSE Full) >= PerToken
                   THEN 1 ELSE 0
      OBVIOUS
    <3>3. PICK gs \in Nat, ds \in Nat :
            /\ gs = IF g = 1 THEN clock - stamp[c] ELSE 0
            /\ ds = IF d = 1 THEN MaxSkew ELSE 0
      BY <1>3, Constants DEF Allow, Times, TypeOK
    <3>4. /\ granted' = granted + g /\ earned' = earned + gs + ds
          /\ Level(w)' + (IF g = 1 THEN PerToken ELSE 0) <= Level(w) + gs + ds
      <4>1. granted' = granted + g
        BY <1>3, <3>1, <3>2, <1>0 DEF Allow
      <4>2. earned' = earned + gs + ds
        BY <1>3, <3>1, <3>2, <3>3 DEF Allow
      <4>3. Level(w)' + (IF g = 1 THEN PerToken ELSE 0) <= Level(w) + gs + ds
        BY <1>3, <3>2, <3>3, AllowLevels
      <4> QED
        BY <4>1, <4>2, <4>3
    <3>5. Level(w) \in 0 .. Full /\ Level(w)' \in 0 .. Full
      <4>1. TypeOK'
        BY <1>3, AllowTyped
      <4>2. credit'[w] \in 0 .. Full /\ last'[w] \in Nat /\ clock' \in Nat
        BY <4>1 DEF TypeOK
      <4>3. (IF clock' < last'[w] THEN 0 ELSE clock' - last'[w]) \in Nat
        BY <4>2
      <4>4. Tokens(w, clock)' \in 0 .. Full
        BY <4>2, <4>3, Constants DEF Tokens, Min2
      <4> QED
        BY <4>4, LevelBounded, Constants DEF Level
    <3>6. PICK G \in Nat : G = granted * PerToken
      BY <1>0, Constants, OneMore
    <3>7. granted' * PerToken = G + (IF g = 1 THEN PerToken ELSE 0)
      BY <1>0, <3>2, <3>4, <3>6, Constants, OneMore
    <3>8. G + Level(w) <= Full + earned
      BY <2>3, <3>1, <3>6 DEF Paid
    <3>9. G + (IF g = 1 THEN PerToken ELSE 0) + Level(w)' <= Full + (earned + gs + ds)
      BY <3>2, <3>4, <3>5, <3>8, <1>0, Constants
    <3> QED
      BY <2>1, <2>3, <3>1, <3>4, <3>7, <3>9 DEF Paid
  <2> QED
    BY <2>2, <2>3
<1>4. ASSUME NEW k \in Key, Observe(k) PROVE Paid'
  <2>1. /\ watched = None /\ granted' = 0 /\ earned' = 0
        /\ watched' = k /\ clock' = clock
    BY <1>4 DEF Observe, Paid
  <2>2. Level(k)' = Level(k) /\ Level(k) \in 0 .. Full
    BY <1>4, LevelBounded DEF Observe, Level, Tokens, bucketVars
  <2>3. k # None
    BY RateLimiterAssumption
  <2>4. granted' * PerToken = 0
    BY <2>1, Constants
  <2> QED
    BY <2>1, <2>2, <2>3, <2>4, <1>0, Constants DEF Paid
<1>5. CASE UNCHANGED vars
  BY <1>5 DEF vars, Paid, Level, Tokens, bucketVars, calls, counts
<1> QED
  BY <1>1, <1>2, <1>3, <1>4, <1>5 DEF Next

\* BudgetHolds, for every moment at which counting may begin.
THEOREM BudgetIsKept == Spec => []BudgetHolds
<1>1. Init => Paid
  BY DEF Init, Paid
<1>2. TypeOK /\ Times /\ Paid /\ [Next]_vars => Paid'
  BY NextPaid
<1>3. TypeOK /\ Times /\ Paid => BudgetHolds
  <2> SUFFICES ASSUME TypeOK, Times, Paid, watched # None
               PROVE  granted * PerToken <= Full + earned
    BY DEF BudgetHolds
  <2>1. PICK w \in Key : w = watched
    BY DEF TypeOK
  <2>2. Level(w) \in 0 .. Full /\ clock \in Nat /\ granted \in Nat /\ earned \in Nat
    BY LevelBounded DEF TypeOK
  <2>3. PICK G \in Nat : G = granted * PerToken
    BY <2>2, Constants, OneMore
  <2>4. G + Level(w) <= Full + earned
    BY <2>1, <2>3 DEF Paid
  <2>5. G <= Full + earned
    BY <2>2, <2>3, <2>4, Constants
  <2> QED
    BY <2>3, <2>5
<1> QED
  BY <1>1, <1>2, <1>3, TypesAndTimes, PTL DEF Spec

-----------------------------------------------------------------------------
(* The abstract bucket.                                                     *)

\* The bound that openapi.yaml does not mention: a full bucket and what comes back to
\* it within the window admit a key almost twice, and never more, as long as the
\* window and the lateness together are shorter than the burst takes to refill.
THEOREM NeverTwiceTheBurst ==
  Spec => [](/\ watched # None
             /\ earned < Full
             => granted < 2 * Requests)
<1>1. TypeOK /\ BudgetHolds =>
         (/\ watched # None
          /\ earned < Full
          => granted < 2 * Requests)
  <2> SUFFICES ASSUME TypeOK, BudgetHolds, watched # None,
                      earned < Full,
                      ~(granted < 2 * Requests)
               PROVE  FALSE
    OBVIOUS
  <2>1. clock \in Nat /\ granted \in Nat /\ earned \in Nat
    BY DEF TypeOK
  <2>3. PICK g \in Nat : granted = Requests + Requests + g
    <3>1. granted - (Requests + Requests) \in Nat
      BY <2>1, RateLimiterAssumption
    <3> QED BY <2>1, <3>1, RateLimiterAssumption
  <2>4. PICK G \in Nat : G = g * PerToken
    BY <2>3, Constants, OneMore
  <2>5. granted * PerToken = Full + Full + G
    <3>1. \A r, n, m \in Nat : (r + r + n) * m = r * m + r * m + n * m
      OBVIOUS
    <3> QED BY <2>3, <2>4, <3>1, RateLimiterAssumption DEF Full
  <2>6. Full + Full + G <= Full + earned
    BY <2>5 DEF BudgetHolds
  <2> QED BY <2>1, <2>4, <2>6, Constants
<1> QED BY <1>1, TypeCorrect, BudgetIsKept, PTL

\* One call in allow is a Grant or a Refuse of the abstract bucket, MaxSkew ticks
\* late at most.
LEMMA AllowDecides ==
  ASSUME TypeOK, Times, NEW c \in Caller, Allow(c)
  PROVE  Bucket!Grant(c) \/ Bucket!Refuse(c)
<1> DEFINE level == [x \in Key |-> Level(x)]
<1>1. PICK now \in Nat, k \in Key, gone \in SUBSET Key :
        now = stamp[c] /\ k = wants[c] /\ gone = Swept(stamp[c])
  BY DEF TypeOK, Allow, Waiting, Swept, Idle
<1>2. now <= clock /\ clock - now <= MaxSkew /\ clock \in Nat /\ wants[c] # None
  BY <1>1 DEF Times, Allow, TypeOK, Waiting
<1>3. PICK tokens \in 0 .. Full :
        tokens = IF k \in kept /\ k \notin gone THEN Tokens(k, now) ELSE Full
  BY <1>1, TokensBounded, Constants
<1>4. /\ wants' = [wants EXCEPT ![c] = None]
      /\ kept' = (kept \ gone) \cup {k}
      /\ clock' = clock
      /\ credit' = [x \in Key |-> IF x = k /\ tokens >= PerToken THEN tokens - PerToken
                                  ELSE IF x \in gone THEN Full ELSE credit[x]]
      /\ last' = [x \in Key |-> IF x = k /\ tokens >= PerToken THEN now
                                ELSE IF x \in gone THEN 0 ELSE last[x]]
  BY <1>1, <1>3 DEF Allow
<1>5. \A x \in Key : Level(x) \in 0 .. Full
  BY LevelBounded
<1>6. ASSUME NEW x \in Key PROVE Level(x)' \in 0 .. Full
  <2>1. TypeOK'
    BY AllowTyped
  <2>2. credit'[x] \in 0 .. Full /\ last'[x] \in Nat /\ clock' \in Nat
    BY <2>1 DEF TypeOK
  <2>3. (IF clock' < last'[x] THEN 0 ELSE clock' - last'[x]) \in Nat
    BY <2>2
  <2>4. Tokens(x, clock)' \in 0 .. Full
    BY <2>2, <2>3, Constants DEF Tokens, Min2
  <2> QED
    BY <2>4, Constants DEF Level
<1>7. ASSUME NEW x \in Key, x # k PROVE Level(x)' \in Level(x) .. Level(x) + MaxSkew
  <2>1. CASE x \in gone
    <3>1. Level(x)' = Full
      BY <1>4, <1>7, <2>1 DEF Level
    <3> QED
      BY <3>1, <2>1, <1>1, <1>2, <1>5, IdleIsFull, Constants
  <2>2. CASE x \notin gone
    <3>1. Level(x)' = Level(x)
      BY <1>4, <1>7, <2>2 DEF Level, Tokens
    <3> QED
      BY <3>1, <1>5, Constants
  <2> QED
    BY <2>1, <2>2
<1>8. tokens <= Level(k) + MaxSkew /\ Level(k) <= tokens + (clock - now)
  <2>1. CASE k \in kept /\ k \notin gone
    <3>1. credit[k] \in 0 .. Full /\ last[k] \in Nat /\ last[k] <= clock
      BY <2>1 DEF TypeOK, Times
    <3>2. Level(k) = Min2(Full, credit[k] + (clock - last[k]))
      BY <2>1, <3>1, <1>2 DEF Level, Tokens
    <3>3. tokens = Min2(Full, credit[k] + (IF now < last[k] THEN 0 ELSE now - last[k]))
      BY <1>3, <2>1 DEF Tokens
    <3> QED
      BY <3>1, <3>2, <3>3, <1>2, Constants DEF Min2
  <2>2. CASE k \in gone
    BY <2>2, <1>1, <1>2, <1>3, <1>5, IdleIsFull, Constants
  <2>3. CASE k \notin kept
    BY <2>3, <1>2, <1>3, Constants DEF Level
  <2> QED
    BY <2>1, <2>2, <2>3
<1>9. level' = [x \in Key |-> Level(x)'] /\ level' \in [Key -> 0 .. Full]
  BY <1>6
<1>10. CASE tokens >= PerToken
  <2>1. Level(k)' = Min2(Full, tokens - PerToken + (clock - now))
    BY <1>2, <1>4, <1>10 DEF Level, Tokens
  <2>2. Level(k)' \in (Level(k) - PerToken) .. (Level(k) - PerToken + MaxSkew)
    <3>1. tokens \in Nat /\ tokens <= Full /\ Level(k) \in Nat /\ Level(k) <= Full
      BY <1>3, <1>5, Constants
    <3>2. CASE k \in kept /\ k \notin gone
      <4>1. credit[k] \in 0 .. Full /\ last[k] \in Nat /\ last[k] <= clock
        BY <3>2 DEF TypeOK, Times
      <4>2. Level(k) = Min2(Full, credit[k] + (clock - last[k]))
        BY <3>2, <4>1, <1>2 DEF Level, Tokens
      <4>3. tokens = Min2(Full, credit[k] + (IF now < last[k] THEN 0 ELSE now - last[k]))
        BY <1>3, <3>2 DEF Tokens
      <4> QED
        BY <4>1, <4>2, <4>3, <2>1, <1>2, <1>10, Constants DEF Min2
    <3>3. CASE k \in gone
      <4>1. Full <= Level(k) \/ Full + (clock - now) <= Level(k) + MaxSkew
        BY <3>3, <1>1, <1>2, IdleIsFull
      <4>2. tokens = Full
        BY <3>3, <1>3
      <4> QED
        BY <3>1, <4>1, <4>2, <2>1, <1>2, Constants DEF Min2
    <3>4. CASE k \notin kept
      BY <3>1, <3>4, <2>1, <1>2, <1>3, <1>8, Constants DEF Min2, Level
    <3> QED
      BY <3>2, <3>3, <3>4
  <2>3. level[k] + MaxSkew >= PerToken
    BY <1>3, <1>5, <1>8, <1>10, Constants
  <2>4. ASSUME NEW x \in Key
        PROVE  level'[x] \in [level EXCEPT ![k] = @ - PerToken][x]
                             .. [level EXCEPT ![k] = @ - PerToken][x] + MaxSkew
    BY <1>7, <1>9, <2>2
  <2> QED
    BY <1>1, <1>2, <1>4, <1>9, <2>3, <2>4 DEF Bucket!Grant, Bucket!Settles
<1>11. CASE ~(tokens >= PerToken)
  <2>1. k \in kept /\ k \notin gone
    BY <1>3, <1>11, BurstHoldsToken, Constants
  <2>2. Level(k)' = Level(k)
    BY <1>4, <1>11, <2>1 DEF Level, Tokens
  <2>3. level[k] < PerToken + MaxSkew
    BY <1>2, <1>3, <1>5, <1>8, <1>11, Constants
  <2>4. \A x \in Key : level'[x] \in level[x] .. level[x] + MaxSkew
    BY <1>5, <1>7, <1>9, <2>2, Constants
  <2> QED
    BY <1>1, <1>2, <1>4, <1>9, <2>2, <2>3, <2>4 DEF Bucket!Refuse, Bucket!Settles
<1> QED
  BY <1>10, <1>11

\* RefinesTokenBucket: every call is decided as by a bucket per key that is never
\* dropped, read MaxSkew ticks late at most; exactly so when no reading is stale.
THEOREM ImplementsTokenBucket == Spec => RefinesTokenBucket
<1> DEFINE level == [k \in Key |-> Level(k)]
<1>1. Init => Bucket!Init
  BY DEF Init, Bucket!Init, Level
<1>2. TypeOK /\ Times /\ [Next]_vars => [Bucket!Next]_<<level, wants>>
  <2> SUFFICES ASSUME TypeOK, Times, [Next]_vars PROVE [Bucket!Next]_<<level, wants>>
    OBVIOUS
  <2>1. CASE Tick
    <3>1. Bucket!Refill
      BY <2>1, TickLevels DEF Tick, calls, Bucket!Refill
    <3> QED
      BY <3>1 DEF Bucket!Next
  <2>2. ASSUME NEW c \in Caller, NEW k \in Key, Stamp(c, k) PROVE Bucket!Ask(c, k)
    BY <2>2 DEF Stamp, Level, Tokens, bucketVars, Waiting, Bucket!Ask
  <2>3. ASSUME NEW k \in Key, Observe(k) PROVE UNCHANGED <<level, wants>>
    BY <2>3 DEF Observe, Level, Tokens, bucketVars, calls
  <2>4. CASE UNCHANGED vars
    BY <2>4 DEF vars, Level, Tokens, bucketVars, calls
  <2>5. ASSUME NEW c \in Caller, Allow(c) PROVE Bucket!Grant(c) \/ Bucket!Refuse(c)
    BY <2>5, AllowDecides
  <2> QED
    BY <2>1, <2>2, <2>3, <2>4, <2>5 DEF Next, Bucket!Next
<1> QED
  BY <1>1, <1>2, TypesAndTimes, PTL DEF Spec, RefinesTokenBucket, Bucket!Spec, Bucket!vars

=============================================================================
