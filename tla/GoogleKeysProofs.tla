-------------------------- MODULE GoogleKeysProofs --------------------------
(***************************************************************************)
(* Proofs about GoogleKeys: which keys the cache holds at any time, and    *)
(* what that says of the keys that sign-ins are verified with; and that    *)
(* each sign-in moves towards its answer.                                  *)
(***************************************************************************)
EXTENDS GoogleKeys, FiniteSetTheorems, TLAPS

Born == {k \in Kid : born[k] # Never}

Gone == {k \in Kid : gone[k] # Never}

\* Only what was published is withdrawn, and not infinitely much.
Finite == IsFiniteSet(Born) /\ Gone \subseteq Born

\* A call that is on its way has a key id.
HasKid == \A c \in Call : at[c] \notin Ended => kid[c] \in Kid

\* The mutex is held by the call that fetches.
Locked == \A c \in Call : Fetching(c) <=> holder = c

\* A fetch begins a cooldown after the last one, and does not take too long.
Spaced ==
    holder # None =>
        /\ requested - fetched >= Cooldown
        /\ clock - requested <= Timeout

\* A set of keys is what Google published at some moment, not before `since`.
Describes(set, since) ==
    \A k \in Kid :
        /\ k \in set => born[k] # Never
        /\ k \in set /\ gone[k] # Never => gone[k] >= since
        /\ k \in Published /\ k \notin set => born[k] >= since

\* The cache is as old as its fetch, and the fetch may have taken a timeout.
CacheDescribes == Describes(keys, fetched - Timeout)

AnswersDescribe ==
    \A c \in Call : at[c] = "answered" => Describes(answer[c].keys, requested)

\* Neither the cache nor an answer is ahead of Google, nor the cache of an answer.
Counted ==
    /\ asOf <= Changes
    /\ \A c \in Call : at[c] = "answered" =>
           asOf <= answer[c].asOf /\ answer[c].asOf <= Changes

\* The inductive invariant.
Inv ==
    /\ TypeOK /\ Finite /\ HasKid
    /\ Locked /\ Spaced
    /\ CacheDescribes /\ AnswersDescribe
    /\ Counted

-----------------------------------------------------------------------------
(* Google                                                                   *)

\* The constants, as the arithmetic of the proofs needs them.
LEMMA Constants ==
  /\ None \notin Kid /\ None \notin Call
  /\ TTL \in Int /\ Cooldown \in Int /\ Timeout \in Int
  /\ 0 < Cooldown /\ Cooldown <= TTL /\ 0 <= Timeout
BY GoogleKeysAssumption

\* The number of changes is a number as long as there are finitely many.
LEMMA ChangesAreCounted ==
  ASSUME Finite
  PROVE  Changes \in Nat
<1>1. IsFiniteSet(Born) /\ IsFiniteSet(Gone)
  BY FS_Subset DEF Finite
<1>2. Cardinality(Born) \in Nat /\ Cardinality(Gone) \in Nat
  BY <1>1, FS_CardinalityType
<1> QED BY <1>2 DEF Changes, Born, Gone

\* A key that is published is one more change.
LEMMA PublishCounts ==
  ASSUME TypeOK, Finite, NEW k \in Kid, Publish(k)
  PROVE  Finite' /\ Changes' = Changes + 1
<1>1. IsFiniteSet(Born) /\ Cardinality(Born) \in Nat
  BY FS_CardinalityType DEF Finite
<1>2. IsFiniteSet(Gone) /\ Cardinality(Gone) \in Nat
  BY FS_Subset, FS_CardinalityType DEF Finite
<1>3. k \notin Born /\ Born' = Born \cup {k} /\ Gone' = Gone
  BY DEF TypeOK, Publish, Born, Gone, Never
<1>4. IsFiniteSet(Born') /\ Cardinality(Born') = Cardinality(Born) + 1
  BY <1>1, <1>3, FS_AddElement
<1>5. Finite'
  BY <1>3, <1>4 DEF Finite
<1>6. Changes = Cardinality(Born) + Cardinality(Gone)
  BY DEF Changes, Born, Gone
<1>7. Changes' = Cardinality(Born') + Cardinality(Gone')
  BY DEF Changes, Born, Gone
<1> QED BY <1>1, <1>2, <1>3, <1>4, <1>5, <1>6, <1>7

\* So is a key that is withdrawn.
LEMMA WithdrawCounts ==
  ASSUME TypeOK, Finite, NEW k \in Kid, Withdraw(k)
  PROVE  Finite' /\ Changes' = Changes + 1
<1>1. IsFiniteSet(Born) /\ Cardinality(Born) \in Nat
  BY FS_CardinalityType DEF Finite
<1>2. IsFiniteSet(Gone) /\ Cardinality(Gone) \in Nat
  BY FS_Subset, FS_CardinalityType DEF Finite
<1>3. k \notin Gone /\ Gone' = Gone \cup {k} /\ Born' = Born /\ k \in Born
  BY DEF TypeOK, Withdraw, Published, Born, Gone, Never
<1>4. IsFiniteSet(Gone') /\ Cardinality(Gone') = Cardinality(Gone) + 1
  BY <1>2, <1>3, FS_AddElement
<1>5. Finite'
  BY <1>1, <1>3 DEF Finite
<1>6. Changes = Cardinality(Born) + Cardinality(Gone)
  BY DEF Changes, Born, Gone
<1>7. Changes' = Cardinality(Born') + Cardinality(Gone')
  BY DEF Changes, Born, Gone
<1> QED BY <1>1, <1>2, <1>3, <1>4, <1>5, <1>6, <1>7

\* A step that leaves Google alone leaves its history alone.
LEMMA GoogleAlone ==
  ASSUME Finite, UNCHANGED google
  PROVE  /\ Finite' /\ Changes' = Changes /\ Published' = Published
         /\ \A set, since : Describes(set, since) => Describes(set, since)'
<1>1. born' = born /\ gone' = gone
  BY DEF google
<1>2. Finite' /\ Changes' = Changes /\ Published' = Published
  BY <1>1 DEF Finite, Born, Gone, Changes, Published
<1> QED BY <1>1, <1>2 DEF Describes

\* What describes a moment up to now goes on to when Google publishes or
\* withdraws another key.
LEMMA GoogleGoesOn ==
  ASSUME TypeOK, NEW k \in Kid, Publish(k) \/ Withdraw(k),
         NEW set, NEW since \in Int, since <= clock, Describes(set, since)
  PROVE  \A i \in Kid :
             /\ i \in set => born'[i] # Never
             /\ i \in set /\ gone'[i] # Never => gone'[i] >= since
             /\ i \in Published' /\ i \notin set => born'[i] >= since
<1>1. CASE Publish(k)
  <2>1. /\ clock \in Int /\ k \notin Published /\ born[k] = Never /\ gone' = gone
        /\ born' = [born EXCEPT ![k] = clock] /\ born \in [Kid -> Nat \cup {Never}]
        /\ clock # Never
    BY <1>1 DEF Publish, TypeOK, Published, Never
  <2>2. ASSUME NEW i \in Kid
        PROVE  /\ i \in set => born'[i] # Never
               /\ i \in set /\ gone'[i] # Never => gone'[i] >= since
               /\ i \in Published' /\ i \notin set => born'[i] >= since
    BY <2>1, <2>2 DEF Describes, Published
  <2> QED BY <2>2
<1>2. CASE Withdraw(k)
  <2>1. /\ clock \in Int /\ k \in Published /\ born' = born
        /\ gone' = [gone EXCEPT ![k] = clock] /\ gone \in [Kid -> Nat \cup {Never}]
    BY <1>2 DEF Withdraw, TypeOK
  <2>2. ASSUME NEW i \in Kid
        PROVE  /\ i \in set => born'[i] # Never
               /\ i \in set /\ gone'[i] # Never => gone'[i] >= since
               /\ i \in Published' /\ i \notin set => born'[i] >= since
    BY <2>1, <2>2 DEF Describes, Published, Never
  <2> QED BY <2>2
<1> QED BY <1>1, <1>2

-----------------------------------------------------------------------------
(* The inductive invariant                                                  *)

\* Nothing is cached, fetched or published at the start.
LEMMA InitInv ==
  ASSUME Init
  PROVE  Inv
<1>1. Born = {} /\ Gone = {}
  BY DEF Init, Born, Gone
<1>2. Finite /\ Changes = 0
  BY <1>1, FS_EmptySet DEF Finite, Changes, Born, Gone
<1>3. TypeOK
  BY Constants DEF Init, TypeOK, Ended, KeySet, NoKeys, Never
<1>4. HasKid /\ Locked /\ Spaced
  BY Constants DEF Init, HasKid, Ended, Locked, Fetching, Spaced
<1>5. CacheDescribes /\ AnswersDescribe
  BY DEF Init, CacheDescribes, AnswersDescribe, Describes, Published, Never
<1>6. Counted
  BY <1>2 DEF Init, Counted
<1> QED BY <1>2, <1>3, <1>4, <1>5, <1>6 DEF Inv

\* Time passes: a fetch does not outlast its timeout.
LEMMA TickInv ==
  ASSUME Inv, Tick
  PROVE  Inv'
<1>1. /\ TypeOK /\ Finite /\ HasKid /\ Locked /\ Spaced
      /\ CacheDescribes /\ AnswersDescribe /\ Counted
  BY DEF Inv
<1>2. /\ clock' = clock + 1 /\ UNCHANGED <<google, holder, cache, requested, calls>>
      /\ (\E c \in Call : Fetching(c)) => clock - requested < Timeout
  BY DEF Tick
<1>3. /\ Finite' /\ Changes' = Changes
      /\ \A set, since : Describes(set, since) => Describes(set, since)'
  BY <1>1, <1>2, GoogleAlone
<1>4. TypeOK'
  BY <1>1, <1>2 DEF TypeOK, google, cache, calls
<1>5. HasKid' /\ Locked'
  BY <1>1, <1>2 DEF HasKid, Locked, Fetching, calls
<1>6. Spaced'
  BY <1>1, <1>2, Constants DEF Spaced, Locked, TypeOK, cache
<1>7. CacheDescribes' /\ AnswersDescribe'
  BY <1>1, <1>2, <1>3 DEF CacheDescribes, AnswersDescribe, Describes, cache, calls, google, Published
<1>8. Counted'
  BY <1>1, <1>2, <1>3 DEF Counted, cache, calls
<1> QED BY <1>3, <1>4, <1>5, <1>6, <1>7, <1>8 DEF Inv

\* Google goes on: what was true of its past stays true of it.
LEMMA GoogleInv ==
  ASSUME Inv, NEW k \in Kid, Publish(k) \/ Withdraw(k)
  PROVE  Inv'
<1>1. /\ TypeOK /\ Finite /\ HasKid /\ Locked /\ Spaced
      /\ CacheDescribes /\ AnswersDescribe /\ Counted
  BY DEF Inv
<1>2. UNCHANGED <<clock, holder, cache, requested, calls>>
  BY DEF Publish, Withdraw
<1>3. Finite' /\ Changes' = Changes + 1 /\ Changes \in Nat
  BY <1>1, PublishCounts, WithdrawCounts, ChangesAreCounted
<1>4. born' \in [Kid -> Nat \cup {Never}] /\ gone' \in [Kid -> Nat \cup {Never}]
  BY <1>1 DEF TypeOK, Publish, Withdraw
<1>5. TypeOK'
  BY <1>1, <1>2, <1>4 DEF TypeOK, cache, calls
<1>6. HasKid' /\ Locked' /\ Spaced'
  BY <1>1, <1>2 DEF HasKid, Locked, Fetching, Spaced, cache, calls
<1>7. CacheDescribes'
  <2>1. fetched - Timeout \in Int /\ fetched - Timeout <= clock
    BY <1>1, Constants DEF TypeOK
  <2>2. Describes(keys, fetched - Timeout)
    BY <1>1 DEF CacheDescribes
  <2>3. \A i \in Kid :
            /\ i \in keys => born'[i] # Never
            /\ i \in keys /\ gone'[i] # Never => gone'[i] >= fetched - Timeout
            /\ i \in Published' /\ i \notin keys => born'[i] >= fetched - Timeout
    BY <1>1, <2>1, <2>2, GoogleGoesOn
  <2> QED BY <1>2, <2>3 DEF CacheDescribes, Describes, cache
<1>8. AnswersDescribe'
  <2>1. SUFFICES ASSUME NEW c \in Call, at[c] = "answered"
                 PROVE  \A i \in Kid :
                          /\ i \in answer[c].keys => born'[i] # Never
                          /\ i \in answer[c].keys /\ gone'[i] # Never => gone'[i] >= requested
                          /\ i \in Published' /\ i \notin answer[c].keys => born'[i] >= requested
    BY <1>2 DEF AnswersDescribe, Describes, calls
  <2>2. requested \in Int /\ requested <= clock /\ Describes(answer[c].keys, requested)
    BY <1>1, <2>1 DEF TypeOK, AnswersDescribe
  <2> QED BY <1>1, <2>2, GoogleGoesOn
<1>9. Counted'
  <2>1. asOf \in Nat /\ \A c \in Call : answer[c].asOf \in Nat
    BY <1>1 DEF TypeOK, KeySet
  <2> QED BY <1>1, <1>2, <1>3, <2>1 DEF Counted, cache, calls
<1> QED BY <1>3, <1>5, <1>6, <1>7, <1>8, <1>9 DEF Inv

\* A call that moves on outside a fetch leaves the rest as it is.
LEMMA CallInv ==
  ASSUME Inv, NEW c \in Call, ~Fetching(c),
         UNCHANGED <<clock, google, holder, cache, requested>>,
         \/ /\ at' = [at EXCEPT ![c] = "waiting"]
            /\ \E k \in Kid : kid' = [kid EXCEPT ![c] = k]
            /\ answer' = answer
         \/ /\ at[c] = "waiting"
            /\ at' = [at EXCEPT ![c] = "verifying"]
            /\ kid' = kid
            /\ answer' = [answer EXCEPT ![c] = NoKeys]
         \/ \E reply \in Ended : End(c, reply)
  PROVE  Inv'
<1>1. /\ TypeOK /\ Finite /\ HasKid /\ Locked /\ Spaced
      /\ CacheDescribes /\ AnswersDescribe /\ Counted
  BY DEF Inv
<1>2. /\ Finite' /\ Changes' = Changes /\ Published' = Published
      /\ \A set, since : Describes(set, since) => Describes(set, since)'
  BY <1>1, GoogleAlone
<1>3. /\ \E place \in Ended \cup {"waiting", "verifying"} :
            /\ at' = [at EXCEPT ![c] = place]
            /\ place \notin Ended => kid'[c] \in Kid
      /\ \E k \in Kid \cup {None} : kid' = [kid EXCEPT ![c] = k]
      /\ answer' = answer \/ answer' = [answer EXCEPT ![c] = NoKeys]
  <2>1. CASE at' = [at EXCEPT ![c] = "waiting"]
              /\ (\E k \in Kid : kid' = [kid EXCEPT ![c] = k]) /\ answer' = answer
    BY <1>1, <2>1 DEF TypeOK
  <2>2. CASE at[c] = "waiting" /\ at' = [at EXCEPT ![c] = "verifying"]
              /\ kid' = kid /\ answer' = [answer EXCEPT ![c] = NoKeys]
    <3>1. kid[c] \in Kid /\ kid \in [Call -> Kid \cup {None}]
      BY <1>1, <2>2 DEF HasKid, Ended, TypeOK
    <3>2. kid' = [kid EXCEPT ![c] = kid[c]]
      BY <2>2, <3>1
    <3> QED BY <2>2, <3>1, <3>2
  <2>3. CASE \E reply \in Ended : End(c, reply)
    BY <2>3 DEF End, Goto
  <2> QED BY <2>1, <2>2, <2>3
<1>4. \A d \in Call \ {c} : at'[d] = at[d] /\ kid'[d] = kid[d] /\ answer'[d] = answer[d]
  BY <1>1, <1>3 DEF TypeOK
<1>5. at'[c] \in Ended \cup {"waiting", "verifying"}
  BY <1>1, <1>3 DEF TypeOK
<1>6. TypeOK'
  <2>1. at' \in [Call -> Ended \cup {"waiting", "fetching", "answered", "verifying"}]
    BY <1>1, <1>3 DEF TypeOK
  <2>2. kid' \in [Call -> Kid \cup {None}]
    BY <1>1, <1>3 DEF TypeOK
  <2>3. answer' \in [Call -> KeySet]
    BY <1>1, <1>3 DEF TypeOK, KeySet, NoKeys
  <2> QED BY <1>1, <2>1, <2>2, <2>3 DEF TypeOK, google, cache
<1>7. HasKid'
  BY <1>1, <1>3, <1>4 DEF HasKid, TypeOK
<1>8. ~Fetching(c)' /\ Locked'
  BY <1>1, <1>4, <1>5 DEF Locked, Fetching, Ended
<1>9. Spaced' /\ CacheDescribes'
  BY <1>1, <1>2 DEF Spaced, CacheDescribes, cache, Describes, google, Published
<1>10. AnswersDescribe' /\ Counted'
  BY <1>1, <1>2, <1>4, <1>5 DEF AnswersDescribe, Counted, Ended, cache, Describes, google, Published
<1> QED BY <1>2, <1>6, <1>7, <1>8, <1>9, <1>10 DEF Inv

\* What LookUp does with a key set is one of the moves of CallInv.
LEMMA LookUpMoves ==
  ASSUME NEW c \in Call, NEW known, LookUp(c, known)
  PROVE  \/ /\ kid[c] \in known
            /\ at' = [at EXCEPT ![c] = "verifying"]
            /\ kid' = kid
            /\ answer' = [answer EXCEPT ![c] = NoKeys]
         \/ /\ kid[c] \notin known
            /\ End(c, "unknown")
BY DEF LookUp, Goto

\* A fetch begins a cooldown or more after the last one, with the mutex.
LEMMA BeginFetchInv ==
  ASSUME Inv, NEW c \in Call, Acquire(c), BeginFetch(c)
  PROVE  Inv'
<1>1. /\ TypeOK /\ Finite /\ HasKid /\ Locked /\ Spaced
      /\ CacheDescribes /\ AnswersDescribe /\ Counted
  BY DEF Inv
<1>2. /\ at[c] = "waiting" /\ holder = None
      /\ clock - fetched >= Cooldown
      /\ holder' = c /\ requested' = clock
      /\ at' = [at EXCEPT ![c] = "fetching"]
      /\ UNCHANGED <<clock, google, cache, kid, answer>>
  BY DEF Acquire, BeginFetch, Due, Keep, Goto
<1>3. /\ Finite' /\ Changes' = Changes
      /\ \A set, since : Describes(set, since) => Describes(set, since)'
  BY <1>1, <1>2, GoogleAlone
<1>4. TypeOK'
  BY <1>1, <1>2 DEF TypeOK, google, cache
<1>5. HasKid' /\ Locked'
  BY <1>1, <1>2, Constants DEF HasKid, Locked, Fetching, Ended, TypeOK
<1>6. Spaced'
  BY <1>1, <1>2, Constants DEF Spaced, TypeOK, cache
<1>7. CacheDescribes'
  BY <1>1, <1>2, <1>3 DEF CacheDescribes, cache, Describes, google, Published
<1>8. \A d \in Call : at'[d] # "answered"
  BY <1>1, <1>2, Constants DEF Locked, Fetching, TypeOK
<1>9. AnswersDescribe' /\ Counted'
  BY <1>1, <1>2, <1>3, <1>8 DEF AnswersDescribe, Counted, cache
<1> QED BY <1>3, <1>4, <1>5, <1>6, <1>7, <1>9 DEF Inv

\* The answer describes this moment, which lies within the fetch.
LEMMA GoogleAnswersInv ==
  ASSUME Inv, NEW c \in Call, GoogleAnswers(c)
  PROVE  Inv'
<1>1. /\ TypeOK /\ Finite /\ HasKid /\ Locked /\ Spaced
      /\ CacheDescribes /\ AnswersDescribe /\ Counted
  BY DEF Inv
<1>2. /\ at[c] = "fetching"
      /\ answer' = [answer EXCEPT ![c] = [keys |-> Published, asOf |-> Changes]]
      /\ at' = [at EXCEPT ![c] = "answered"]
      /\ UNCHANGED <<clock, google, holder, cache, requested, kid>>
  BY DEF GoogleAnswers, Goto
<1>3. /\ Finite' /\ Changes' = Changes /\ Changes \in Nat
      /\ \A set, since : Describes(set, since) => Describes(set, since)'
  BY <1>1, <1>2, GoogleAlone, ChangesAreCounted
<1>4. [keys |-> Published, asOf |-> Changes] \in KeySet
  BY <1>3 DEF KeySet, Published
<1>5. TypeOK'
  BY <1>1, <1>2, <1>4 DEF TypeOK, google, cache
<1>6. HasKid' /\ Locked' /\ Spaced'
  BY <1>1, <1>2 DEF HasKid, Locked, Fetching, Ended, TypeOK, Spaced, cache
<1>7. CacheDescribes'
  BY <1>1, <1>2, <1>3 DEF CacheDescribes, cache, Describes, google, Published
<1>8. \A d \in Call : at'[d] = "answered" => d = c
  BY <1>1, <1>6, <1>2 DEF Locked, Fetching
<1>9. answer'[c] = [keys |-> Published, asOf |-> Changes]
  BY <1>1, <1>2 DEF TypeOK
<1>10. Describes(Published, requested)
  BY DEF Describes, Published
<1>11. AnswersDescribe'
  BY <1>2, <1>8, <1>9, <1>10 DEF AnswersDescribe, Describes, google, Published
<1>12. Counted'
  BY <1>1, <1>2, <1>3, <1>8, <1>9 DEF Counted, cache
<1> QED BY <1>3, <1>5, <1>6, <1>7, <1>11, <1>12 DEF Inv

\* The calls, after the one that fetched has gone on.
LEMMA FetchEndsCalls ==
  ASSUME TypeOK, HasKid, Locked, NEW c \in Call, Fetching(c), holder' = None,
         LookUp(c, answer[c].keys) \/ End(c, "unreachable")
  PROVE  /\ at' \in [Call -> Ended \cup {"waiting", "fetching", "answered", "verifying"}]
         /\ kid' \in [Call -> Kid \cup {None}]
         /\ answer' \in [Call -> KeySet]
         /\ \A d \in Call : ~Fetching(d)'
         /\ HasKid' /\ Locked'
<1>1. NoKeys \in KeySet /\ at[c] \notin Ended /\ kid[c] \in Kid
  BY DEF KeySet, NoKeys, Fetching, Ended, HasKid
<1>2. /\ \E place \in {"verifying", "unknown", "unreachable"} :
            /\ at' = [at EXCEPT ![c] = place]
            /\ place = "verifying" => kid' = kid
      /\ kid' = kid \/ kid' = [kid EXCEPT ![c] = None]
      /\ answer' = [answer EXCEPT ![c] = NoKeys]
  BY LookUpMoves DEF End, Goto
<1>3. /\ at' \in [Call -> Ended \cup {"waiting", "fetching", "answered", "verifying"}]
      /\ kid' \in [Call -> Kid \cup {None}]
      /\ answer' \in [Call -> KeySet]
  BY <1>1, <1>2 DEF TypeOK, Ended
<1>4. \A d \in Call \ {c} : at'[d] = at[d] /\ kid'[d] = kid[d] /\ ~Fetching(d)
  BY <1>2 DEF TypeOK, Locked
<1>5. at'[c] \in {"verifying", "unknown", "unreachable"} /\ (at'[c] = "verifying" => kid'[c] \in Kid)
  BY <1>1, <1>2 DEF TypeOK
<1>6. \A d \in Call : ~Fetching(d)'
  BY <1>4, <1>5 DEF Fetching
<1>7. HasKid'
  BY <1>4, <1>5 DEF HasKid, Ended
<1>8. Locked'
  BY <1>6, Constants DEF Locked
<1> QED BY <1>3, <1>6, <1>7, <1>8

\* The answer becomes the cache: it is as old as its fetch took, at most.
LEMMA RefreshedInv ==
  ASSUME Inv, NEW c \in Call, Refreshed(c)
  PROVE  Inv'
<1>1. /\ TypeOK /\ Finite /\ HasKid /\ Locked /\ Spaced
      /\ CacheDescribes /\ AnswersDescribe /\ Counted
  BY DEF Inv
<1>2. /\ at[c] = "answered" /\ Fetching(c)
      /\ keys' = answer[c].keys /\ asOf' = answer[c].asOf /\ fetched' = clock
      /\ holder' = None /\ LookUp(c, answer[c].keys)
      /\ UNCHANGED <<clock, google, requested>>
  BY DEF Refreshed, FetchedAt, Unlock, Fetching
<1>3. /\ Finite' /\ Changes' = Changes
      /\ \A set, since : Describes(set, since) => Describes(set, since)'
  BY <1>1, <1>2, GoogleAlone
<1>4. /\ at' \in [Call -> Ended \cup {"waiting", "fetching", "answered", "verifying"}]
      /\ kid' \in [Call -> Kid \cup {None}]
      /\ answer' \in [Call -> KeySet]
      /\ \A d \in Call : ~Fetching(d)'
      /\ HasKid' /\ Locked'
  BY <1>1, <1>2, FetchEndsCalls
<1>5. answer[c].keys \subseteq Kid /\ answer[c].asOf \in Nat
  BY <1>1 DEF TypeOK, KeySet
<1>6. TypeOK'
  BY <1>1, <1>2, <1>4, <1>5 DEF TypeOK, google
<1>7. Spaced'
  BY <1>2 DEF Spaced
<1>8. CacheDescribes'
  <2>1. Describes(answer[c].keys, requested)
    BY <1>1, <1>2 DEF AnswersDescribe
  <2>2. /\ clock \in Int /\ requested \in Int /\ clock - requested <= Timeout /\ Timeout \in Int
    BY <1>1, <1>2, Constants DEF Locked, Spaced, TypeOK
  <2>3. /\ born \in [Kid -> Nat \cup {Never}] /\ gone \in [Kid -> Nat \cup {Never}] /\ Never \in Int
    BY <1>1 DEF TypeOK, Never
  <2>4. Describes(answer[c].keys, clock - Timeout)
    BY <2>1, <2>2, <2>3 DEF Describes
  <2> QED BY <1>2, <2>4 DEF CacheDescribes, Describes, google, Published
<1>9. AnswersDescribe'
  BY <1>4 DEF AnswersDescribe, Fetching
<1>10. Counted'
  BY <1>1, <1>2, <1>3, <1>4 DEF Counted, Fetching
<1> QED BY <1>3, <1>4, <1>6, <1>7, <1>8, <1>9, <1>10 DEF Inv

\* A fetch that fails leaves the cache and gives the mutex back.
LEMMA FetchFailsInv ==
  ASSUME Inv, NEW c \in Call, FetchFails(c)
  PROVE  Inv'
<1>1. /\ TypeOK /\ Finite /\ HasKid /\ Locked /\ Spaced
      /\ CacheDescribes /\ AnswersDescribe /\ Counted
  BY DEF Inv
<1>2. /\ Fetching(c) /\ End(c, "unreachable") /\ holder' = None
      /\ UNCHANGED <<clock, google, cache, requested>>
  BY DEF FetchFails, AfterFailure, Unlock
<1>3. /\ Finite' /\ Changes' = Changes
      /\ \A set, since : Describes(set, since) => Describes(set, since)'
  BY <1>1, <1>2, GoogleAlone
<1>4. /\ at' \in [Call -> Ended \cup {"waiting", "fetching", "answered", "verifying"}]
      /\ kid' \in [Call -> Kid \cup {None}]
      /\ answer' \in [Call -> KeySet]
      /\ \A d \in Call : ~Fetching(d)'
      /\ HasKid' /\ Locked'
  BY <1>1, <1>2, FetchEndsCalls
<1>5. TypeOK'
  BY <1>1, <1>2, <1>4 DEF TypeOK, google, cache
<1>6. Spaced' /\ CacheDescribes'
  BY <1>1, <1>2, <1>3 DEF Spaced, CacheDescribes, cache, Describes, google, Published
<1>7. AnswersDescribe' /\ Counted'
  BY <1>1, <1>2, <1>3, <1>4 DEF AnswersDescribe, Counted, Fetching, cache
<1> QED BY <1>3, <1>4, <1>5, <1>6, <1>7 DEF Inv

\* Every step keeps the invariant.
LEMMA NextInv ==
  ASSUME Inv, [Next]_vars
  PROVE  Inv'
<1>1. CASE Tick
  BY <1>1, TickInv
<1>2. ASSUME NEW k \in Kid, Publish(k) \/ Withdraw(k)
      PROVE  Inv'
  BY <1>2, GoogleInv
<1>3. ASSUME NEW c \in Call, NEW k \in Kid, Arrive(c, k)
      PROVE  Inv'
  <2>1. ~Fetching(c) /\ UNCHANGED <<clock, google, holder, cache, requested>>
        /\ at' = [at EXCEPT ![c] = "waiting"]
        /\ kid' = [kid EXCEPT ![c] = k] /\ answer' = answer
    BY <1>3 DEF Arrive, Goto, Fetching, Ended
  <2> QED BY <2>1, CallInv
<1>4. ASSUME NEW c \in Call, Refuse(c)
      PROVE  Inv'
  <2>1. ~Fetching(c) /\ UNCHANGED <<clock, google, holder, cache, requested>>
        /\ End(c, "rejected") /\ "rejected" \in Ended
    BY <1>4 DEF Refuse, Fetching, Ended
  <2> QED BY <2>1, CallInv
<1>5. ASSUME NEW c \in Call, Acquire(c)
      PROVE  Inv'
  <2>1. CASE BeginFetch(c)
    BY <1>5, <2>1, BeginFetchInv
  <2>2. CASE Hit(c) \/ TooSoon(c)
    <3>1. /\ ~Fetching(c) /\ UNCHANGED <<clock, google, holder, cache, requested>>
          /\ at[c] = "waiting" /\ LookUp(c, keys) /\ "unknown" \in Ended
      BY <1>5, <2>2 DEF Acquire, Hit, TooSoon, Fetching, Ended
    <3>2. \/ /\ at' = [at EXCEPT ![c] = "verifying"]
             /\ kid' = kid
             /\ answer' = [answer EXCEPT ![c] = NoKeys]
          \/ End(c, "unknown")
      BY <3>1, LookUpMoves
    <3> QED BY <3>1, <3>2, CallInv
  <2> QED BY <1>5, <2>1, <2>2 DEF Acquire
<1>6. ASSUME NEW c \in Call, GoogleAnswers(c)
      PROVE  Inv'
  BY <1>6, GoogleAnswersInv
<1>7. ASSUME NEW c \in Call, FetchEnds(c)
      PROVE  Inv'
  BY <1>7, RefreshedInv, FetchFailsInv DEF FetchEnds
<1>8. ASSUME NEW c \in Call, Verify(c)
      PROVE  Inv'
  <2>1. ~Fetching(c) /\ UNCHANGED <<clock, google, holder, cache, requested>>
        /\ \E reply \in Ended : End(c, reply)
    BY <1>8 DEF Verify, Fetching, Ended
  <2> QED BY <2>1, CallInv
<1>9. CASE UNCHANGED vars
  <2>1. UNCHANGED <<clock, born, gone, holder, keys, fetched, asOf, requested, at, kid, answer>>
    BY <1>9 DEF vars, google, cache, calls
  <2>2. UNCHANGED google
    BY <2>1 DEF google
  <2>3. TypeOK' /\ HasKid' /\ Locked' /\ Spaced'
    BY <2>1 DEF Inv, TypeOK, HasKid, Locked, Fetching, Spaced
  <2>4. Finite' /\ Counted'
    BY <2>1, <2>2, GoogleAlone DEF Inv, Counted
  <2>5. CacheDescribes' /\ AnswersDescribe'
    BY <2>1 DEF Inv, CacheDescribes, AnswersDescribe, Describes, Published
  <2> QED BY <2>3, <2>4, <2>5 DEF Inv
<1> QED BY <1>1, <1>2, <1>3, <1>4, <1>5, <1>6, <1>7, <1>8, <1>9 DEF Next

\* The cache, and every answer on its way to it, is what Google published at
\* some moment of its fetch.
THEOREM InvHolds == Spec => []Inv
<1>1. Init => Inv
  BY InitInv
<1>2. Inv /\ [Next]_vars => Inv'
  BY NextInv
<1> QED BY <1>1, <1>2, PTL DEF Spec

\* Every variable keeps its type (google_keys.go).
THEOREM TypeCorrect == Spec => []TypeOK
<1>1. Inv => TypeOK
  BY DEF Inv
<1> QED BY <1>1, InvHolds, PTL

-----------------------------------------------------------------------------
(* The properties                                                           *)

\* The steps that change what a call waits for, when it gets a verdict on its key.
LEMMA VerdictSteps ==
  ASSUME Inv, [Next]_vars, NEW c \in Call, at'[c] # at[c],
         at'[c] \in {"verifying", "unknown"}
  PROVE  \/ at[c] = "waiting" /\ Hit(c)
         \/ at[c] = "waiting" /\ TooSoon(c)
         \/ at[c] = "answered" /\ Refreshed(c)
<1>1. TypeOK
  BY DEF Inv
<1>2. ~Tick /\ ~(UNCHANGED vars)
  BY DEF Tick, vars, calls
<1>3. \A k \in Kid : ~Publish(k) /\ ~Withdraw(k)
  BY DEF Publish, Withdraw, calls
<1>4. ASSUME NEW d \in Call, NEW k \in Kid, Arrive(d, k)
      PROVE  FALSE
  BY <1>1, <1>4 DEF TypeOK, Arrive, Goto
<1>5. ASSUME NEW d \in Call, Refuse(d) \/ GoogleAnswers(d) \/ FetchFails(d) \/ Verify(d)
      PROVE  FALSE
  BY <1>1, <1>5 DEF TypeOK, Refuse, GoogleAnswers, FetchFails, AfterFailure, Verify, End, Goto
<1>6. ASSUME NEW d \in Call, Acquire(d)
      PROVE  at[c] = "waiting" /\ (Hit(c) \/ TooSoon(c))
  <2>1. ~BeginFetch(d)
    BY <1>1, <1>6 DEF TypeOK, BeginFetch, Goto
  <2>2. d = c
    BY <1>1, <1>6, <2>1 DEF TypeOK, Acquire, Hit, TooSoon, LookUp, End, Goto
  <2> QED BY <1>6, <2>1, <2>2 DEF Acquire
<1>7. ASSUME NEW d \in Call, Refreshed(d)
      PROVE  at[c] = "answered" /\ Refreshed(c)
  <2>1. d = c
    BY <1>1, <1>7 DEF TypeOK, Refreshed, LookUp, End, Goto
  <2> QED BY <1>7, <2>1 DEF Refreshed
<1> QED BY <1>2, <1>3, <1>4, <1>5, <1>6, <1>7 DEF Next, FetchEnds

\* Verdicts leave time and Google alone, and a verdict is that of the key set
\* that was looked at.
LEMMA Verdicts ==
  ASSUME TypeOK, NEW c \in Call, NEW known, LookUp(c, known)
  PROVE  /\ at'[c] = "verifying" => kid[c] \in known
         /\ at'[c] = "unknown" => kid[c] \notin known
BY DEF TypeOK, LookUp, End, Goto

\* What a key set that describes some moment says of the keys in it, later.
LEMMA TrustOf ==
  ASSUME TypeOK, NEW set, NEW since \in Int, Describes(set, since), NEW k \in Kid, k \in set
  PROVE  /\ born[k] # Never
         /\ gone[k] # Never => gone[k] \in Int /\ clock - gone[k] <= clock - since
BY DEF TypeOK, Describes, Never

\* What it says of the published keys that are not in the set.
LEMMA RejectionOf ==
  ASSUME TypeOK, NEW set, NEW since \in Int, Describes(set, since),
         NEW k \in Published, k \notin set
  PROVE  born[k] \in Int /\ clock - born[k] <= clock - since
BY DEF TypeOK, Describes, Published, Never

\* A fetch that has been answered is no older than the timeout.
LEMMA AnswerIsRecent ==
  ASSUME Inv, NEW c \in Call, at[c] = "answered"
  PROVE  /\ Describes(answer[c].keys, requested)
         /\ requested \in Int /\ clock \in Int
         /\ clock - requested <= Timeout
         /\ requested - fetched >= Cooldown
<1>1. holder = c /\ holder # None
  BY Constants DEF Inv, Locked, Fetching
<1> QED BY <1>1 DEF Inv, TypeOK, Spaced, AnswersDescribe

\* A key that a sign-in is verified with was published, and not withdrawn a TTL
\* and a fetch ago: keysTTL of google.go, whatever fails in google_keys.go.
THEOREM TrustExpiresHolds == Spec => TrustExpires
<1> DEFINE Trusted ==
      \A c \in Call : at[c] # "verifying" /\ at'[c] = "verifying" =>
          /\ born[kid[c]] # Never
          /\ gone[kid[c]] # Never => clock - gone[kid[c]] < TTL + Timeout
<1>1. ASSUME Inv, [Next]_vars
      PROVE  Trusted
  <2>1. SUFFICES ASSUME NEW c \in Call, at[c] # "verifying", at'[c] = "verifying"
                 PROVE  /\ born[kid[c]] # Never
                        /\ gone[kid[c]] # Never => clock - gone[kid[c]] < TTL + Timeout
    OBVIOUS
  <2>2. TypeOK /\ clock \in Int /\ fetched \in Int
    BY <1>1 DEF Inv, TypeOK
  <2>3. \/ at[c] = "waiting" /\ Hit(c)
        \/ at[c] = "waiting" /\ TooSoon(c)
        \/ at[c] = "answered" /\ Refreshed(c)
    BY <1>1, <2>1, VerdictSteps
  <2>4. kid[c] \in Kid
    BY <1>1, <2>3 DEF Inv, HasKid, Ended
  <2>5. CASE at[c] = "waiting" /\ (Hit(c) \/ TooSoon(c))
    <3>1. LookUp(c, keys)
      BY <2>5 DEF Hit, TooSoon
    <3>2. kid[c] \in keys
      BY <2>1, <2>2, <3>1, Verdicts
    <3>3. clock - fetched < TTL
      BY <2>2, <2>5, <3>2, Constants DEF Hit, TooSoon, Fresh, Due
    <3>4. Describes(keys, fetched - Timeout) /\ fetched - Timeout \in Int
      BY <1>1, <2>2, Constants DEF Inv, CacheDescribes
    <3>5. /\ born[kid[c]] # Never
          /\ gone[kid[c]] # Never =>
                 gone[kid[c]] \in Int /\ clock - gone[kid[c]] <= clock - (fetched - Timeout)
      BY <2>2, <2>4, <3>2, <3>4, TrustOf
    <3> QED BY <2>2, <3>3, <3>5, Constants
  <2>6. CASE at[c] = "answered" /\ Refreshed(c)
    <3>1. kid[c] \in answer[c].keys
      BY <2>1, <2>2, <2>6, Verdicts DEF Refreshed
    <3>2. /\ Describes(answer[c].keys, requested) /\ requested \in Int
          /\ clock - requested <= Timeout
      BY <1>1, <2>6, AnswerIsRecent
    <3>3. /\ born[kid[c]] # Never
          /\ gone[kid[c]] # Never =>
                 gone[kid[c]] \in Int /\ clock - gone[kid[c]] <= clock - requested
      BY <2>2, <2>4, <3>1, <3>2, TrustOf
    <3> QED BY <2>2, <3>2, <3>3, Constants
  <2> QED BY <2>3, <2>5, <2>6
<1>2. Inv /\ [Next]_vars => [Trusted]_vars
  BY <1>1
<1>3. Spec => [][Trusted]_vars
  BY <1>2, InvHolds, PTL DEF Spec
<1> QED BY <1>3 DEF TrustExpires

\* A key that Google publishes is not unknown for longer than keysCooldown and
\* a fetch (google.go, google_keys.go).
THEOREM RotationNoticedHolds == Spec => RotationNoticed
<1> DEFINE Noticed ==
      \A c \in Call :
          at[c] \notin Ended /\ at'[c] = "unknown" /\ kid[c] \in Published =>
              clock - born[kid[c]] < Cooldown + Timeout
<1>1. ASSUME Inv, [Next]_vars
      PROVE  Noticed
  <2>1. SUFFICES ASSUME NEW c \in Call, at[c] \notin Ended, at'[c] = "unknown",
                        kid[c] \in Published
                 PROVE  clock - born[kid[c]] < Cooldown + Timeout
    OBVIOUS
  <2>2. TypeOK /\ clock \in Int /\ fetched \in Int
    BY <1>1 DEF Inv, TypeOK
  <2>3. \/ at[c] = "waiting" /\ Hit(c)
        \/ at[c] = "waiting" /\ TooSoon(c)
        \/ at[c] = "answered" /\ Refreshed(c)
    BY <1>1, <2>1, VerdictSteps DEF Ended
  <2>4. CASE at[c] = "waiting" /\ (Hit(c) \/ TooSoon(c))
    <3>1. LookUp(c, keys)
      BY <2>4 DEF Hit, TooSoon
    <3>2. kid[c] \notin keys
      BY <2>1, <2>2, <3>1, Verdicts
    <3>3. clock - fetched < Cooldown
      BY <2>2, <2>4, <3>2, Constants DEF Hit, TooSoon, Due
    <3>4. Describes(keys, fetched - Timeout) /\ fetched - Timeout \in Int
      BY <1>1, <2>2, Constants DEF Inv, CacheDescribes
    <3>5. born[kid[c]] \in Int /\ clock - born[kid[c]] <= clock - (fetched - Timeout)
      BY <2>1, <2>2, <3>2, <3>4, RejectionOf
    <3> QED BY <2>2, <3>3, <3>5, Constants
  <2>5. CASE at[c] = "answered" /\ Refreshed(c)
    <3>1. kid[c] \notin answer[c].keys
      BY <2>1, <2>2, <2>5, Verdicts DEF Refreshed
    <3>2. /\ Describes(answer[c].keys, requested) /\ requested \in Int
          /\ clock - requested <= Timeout
      BY <1>1, <2>5, AnswerIsRecent
    <3>3. born[kid[c]] \in Int /\ clock - born[kid[c]] <= clock - requested
      BY <2>1, <2>2, <3>1, <3>2, RejectionOf
    <3> QED BY <2>2, <3>2, <3>3, Constants
  <2> QED BY <2>3, <2>4, <2>5
<1>2. Inv /\ [Next]_vars => [Noticed]_vars
  BY <1>1
<1>3. Spec => [][Noticed]_vars
  BY <1>2, InvHolds, PTL DEF Spec
<1> QED BY <1>3 DEF RotationNoticed

\* A slow answer never replaces a later one: refresh runs under the mutex.
THEOREM CacheNeverGoesBackHolds == Spec => CacheNeverGoesBack
<1>1. ASSUME Inv, [Next]_vars
      PROVE  [asOf' >= asOf]_cache
  <2>1. asOf \in Nat
    BY <1>1 DEF Inv, TypeOK
  <2>2. CASE \E c \in Call : Refreshed(c)
    BY <1>1, <2>2 DEF Inv, Counted, Refreshed
  <2>3. CASE ~ \E c \in Call : Refreshed(c)
    <3>1. UNCHANGED cache
      BY <1>1, <2>3 DEF Next, Tick, Publish, Withdraw, Arrive, Refuse, Acquire,
                        GoogleAnswers, FetchEnds, FetchFails, Verify, vars
    <3> QED BY <3>1
  <2> QED BY <2>2, <2>3
<1>2. Inv /\ [Next]_vars => [asOf' >= asOf]_cache
  BY <1>1
<1> QED BY <1>2, InvHolds, PTL DEF Spec, CacheNeverGoesBack

\* Calls that waited for a fetch do not repeat it: sets are replaced keysCooldown
\* apart.
THEOREM FetchesSpacedHolds == Spec => FetchesSpaced
<1> DEFINE Apart ==
      \A c \in Call : at[c] = "answered" /\ at'[c] \in {"verifying", "unknown"} =>
          clock - fetched >= Cooldown
<1>1. ASSUME Inv
      PROVE  Apart
  <2>1. SUFFICES ASSUME NEW c \in Call, at[c] = "answered"
                 PROVE  clock - fetched >= Cooldown
    OBVIOUS
  <2>2. /\ requested - fetched >= Cooldown
        /\ requested \in Int /\ clock \in Int /\ fetched \in Int /\ requested <= clock
    BY <1>1, <2>1, AnswerIsRecent DEF Inv, TypeOK
  <2> QED BY <2>2, Constants
<1>2. Inv => [Apart]_vars
  BY <1>1
<1>3. Spec => [][Apart]_vars
  BY <1>2, InvHolds, PTL DEF Spec
<1> QED BY <1>3 DEF FetchesSpaced

-----------------------------------------------------------------------------
(* The way of a sign-in                                                     *)

\* A bound on the steps that a sign-in has before it.
StepsLeft(c) ==
    CASE at[c] = "waiting"   -> 4
      [] at[c] = "fetching"  -> 3
      [] at[c] = "answered"  -> 2
      [] at[c] = "verifying" -> 1
      [] OTHER               -> 0

\* No step, of whomever, puts a sign-in back, each of its own brings it closer to its
\* answer, and the mutex it may wait for is held by a fetch and for a fetch only.
MovesOn(c) ==
    at[c] \notin Ended =>
       /\ StepsLeft(c) # 0
       /\ at'[c] = at[c] \/ StepsLeft(c)' < StepsLeft(c)
       /\ Acquire(c) \/ FetchEnds(c) \/ Verify(c) => StepsLeft(c)' < StepsLeft(c)
       /\ at[c] = "waiting" /\ holder # None =>
             Fetching(holder) /\ clock' <= requested' + Timeout

SignInsMoveOn == [][\A c \in Call : MovesOn(c)]_vars

\* What SignInEnds needs besides fairness: no way out of key leaves the mutex locked.
THEOREM SignInsMoveOnHolds == Spec => SignInsMoveOn
<1>1. ASSUME Inv, Inv', [Next]_vars, NEW c \in Call, at[c] \notin Ended
      PROVE  MovesOn(c)
  <2>0. /\ at \in [Call -> Ended \cup {"waiting", "fetching", "answered", "verifying"}]
        /\ at[c] \in {"waiting", "fetching", "answered", "verifying"}
    BY <1>1 DEF Inv, TypeOK
  <2>1. /\ at[c] = "waiting" => StepsLeft(c) = 4
        /\ at[c] = "fetching" => StepsLeft(c) = 3
        /\ at[c] = "answered" => StepsLeft(c) = 2
        /\ at[c] = "verifying" => StepsLeft(c) = 1
    BY DEF StepsLeft
  <2>2. /\ at'[c] = "fetching" => StepsLeft(c)' = 3
        /\ at'[c] = "answered" => StepsLeft(c)' = 2
        /\ at'[c] = "verifying" => StepsLeft(c)' = 1
        /\ at'[c] \in Ended => StepsLeft(c)' = 0
    BY DEF StepsLeft, Ended
  <2>3. ASSUME Acquire(c) PROVE StepsLeft(c)' < StepsLeft(c)
    <3>1. at[c] = "waiting" /\ at'[c] \in {"fetching", "verifying", "unknown"}
      BY <2>0, <2>3 DEF Acquire, Hit, BeginFetch, TooSoon, LookUp, End, Goto
    <3>2. "unknown" \in Ended /\ "unreachable" \in Ended
      BY DEF Ended
    <3> QED BY <2>1, <2>2, <3>1, <3>2
  <2>4. ASSUME FetchEnds(c) PROVE StepsLeft(c)' < StepsLeft(c)
    <3>1. at[c] \in {"fetching", "answered"} /\ at'[c] \in {"verifying", "unknown", "unreachable"}
      BY <2>0, <2>4
      DEF FetchEnds, Refreshed, FetchFails, AfterFailure, Fetching, LookUp, End, Goto
    <3>2. "unknown" \in Ended /\ "unreachable" \in Ended
      BY DEF Ended
    <3> QED BY <2>1, <2>2, <3>1, <3>2
  <2>5. ASSUME Verify(c) PROVE StepsLeft(c)' < StepsLeft(c)
    <3>1. at[c] = "verifying" /\ at'[c] \in Ended
      BY <2>0, <2>5 DEF Verify, End, Goto, Ended
    <3> QED BY <2>1, <2>2, <3>1
  <2>6. ASSUME GoogleAnswers(c) PROVE StepsLeft(c)' < StepsLeft(c)
    <3>1. at[c] = "fetching" /\ at'[c] = "answered"
      BY <2>0, <2>6 DEF GoogleAnswers, Goto
    <3> QED BY <2>1, <2>2, <3>1
  <2>7. at'[c] = at[c] \/ StepsLeft(c)' < StepsLeft(c)
    <3>1. ASSUME NEW d \in Call,
                 (\E k \in Kid : Arrive(d, k)) \/ Refuse(d) \/ Acquire(d) \/ GoogleAnswers(d)
                 \/ FetchEnds(d) \/ Verify(d)
          PROVE  at'[c] = at[c] \/ StepsLeft(c)' < StepsLeft(c)
      <4>1. CASE d = c
        <5>1. ~(\E k \in Kid : Arrive(c, k)) /\ ~Refuse(c)
          BY <1>1 DEF Arrive, Refuse
        <5> QED BY <2>3, <2>4, <2>5, <2>6, <3>1, <4>1, <5>1
      <4>2. CASE d # c
        <5>1. \E place : at' = [at EXCEPT ![d] = place]
          BY <3>1
          DEF Arrive, Refuse, Acquire, Hit, BeginFetch, TooSoon, GoogleAnswers, FetchEnds, Refreshed,
              FetchFails, AfterFailure, Verify, LookUp, End, Goto
        <5> QED BY <2>0, <4>2, <5>1
      <4> QED BY <4>1, <4>2
    <3>2. CASE Tick \/ (\E k \in Kid : Publish(k) \/ Withdraw(k)) \/ UNCHANGED vars
      BY <3>2 DEF Tick, Publish, Withdraw, calls, vars
    <3> QED BY <1>1, <3>1, <3>2 DEF Next
  <2>8. ASSUME at[c] = "waiting", holder # None
        PROVE  Fetching(holder) /\ clock' <= requested' + Timeout
    <3>1. holder \in Call /\ Fetching(holder)
      BY <1>1, <2>8 DEF Inv, TypeOK, Locked
    <3>2. /\ clock \in Int /\ clock' \in Int /\ requested \in Int /\ requested' \in Int
          /\ clock - requested <= Timeout
      BY <1>1, <2>8 DEF Inv, TypeOK, Spaced
    <3>3. CASE Tick
      BY <3>1, <3>2, <3>3, Constants DEF Tick
    <3>4. CASE ~Tick
      <4>1. ~(\E d \in Call : Acquire(d))
        BY <2>8 DEF Acquire
      <4>2. UNCHANGED <<clock, requested>>
        BY <1>1, <3>4, <4>1
        DEF Next, Publish, Withdraw, Arrive, Refuse, GoogleAnswers, FetchEnds, Refreshed,
            FetchFails, Verify, vars
      <4> QED BY <3>1, <3>2, <4>2, Constants
    <3> QED BY <3>3, <3>4
  <2> QED BY <2>0, <2>1, <2>3, <2>4, <2>5, <2>7, <2>8 DEF MovesOn
<1>2. Inv /\ Inv' /\ [Next]_vars => \A c \in Call : MovesOn(c)
  BY <1>1 DEF MovesOn
<1> QED BY <1>2, InvHolds, PTL DEF Spec, SignInsMoveOn

=============================================================================
