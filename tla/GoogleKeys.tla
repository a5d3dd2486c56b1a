----------------------------- MODULE GoogleKeys -----------------------------
(***************************************************************************)
(* Google's signing keys as internal/auth/google_keys.go keeps them, and   *)
(* the sign-ins of internal/api/handlers.go that ask for one.              *)
(*                                                                         *)
(* Google publishes keys and withdraws them when it likes.  A sign-in      *)
(* looks its key up under a mutex, which it keeps while it fetches the key *)
(* set anew, so that the others wait.  The fetch takes time: the answer is *)
(* what Google published at some moment of it.  Time is counted in ticks.  *)
(***************************************************************************)
EXTENDS Integers, FiniteSets

CONSTANTS
    Kid,         \* key ids; Google publishes each once
    Call,        \* sign-ins in flight
    None,        \* no call, no key
    TTL,         \* keysTTL
    Cooldown,    \* keysCooldown
    Timeout,     \* Client.Timeout: the longest fetch
    MaxTime,     \* bound: the clock stops there
    MaxChanges   \* bound: how often the published set changes

ASSUME GoogleKeysAssumption ==
    /\ None \notin Kid \cup Call
    /\ TTL \in Nat /\ Cooldown \in Nat /\ Timeout \in Nat
    /\ 0 < Cooldown /\ Cooldown <= TTL
    /\ MaxTime \in Nat
    /\ MaxChanges \in Nat

VARIABLES
    clock,       \* g.now()
    \* Google
    born,        \* when a key was published, or Never
    gone,        \* when it was withdrawn, or Never
    \* the cache
    holder,      \* the call that holds g.mu, or None
    keys,        \* g.keys: the ids in the map
    fetched,     \* g.fetched
    asOf,        \* how many changes Google had made when it published g.keys
    requested,   \* when the latest fetch began
    \* the calls
    at,          \* where a call is, or how it was answered
    kid,         \* the key id in its token
    answer       \* the key set that its fetch brought

google == <<born, gone>>
cache == <<keys, fetched, asOf>>
calls == <<at, kid, answer>>
vars == <<clock, google, holder, cache, requested, calls>>

Never == -1

Ended == {"idle", "signed in", "rejected", "forbidden", "unknown", "unreachable"}

KeySet == [keys : SUBSET Kid, asOf : Nat]

NoKeys == [keys |-> {}, asOf |-> 0]

Published == {k \in Kid : born[k] # Never /\ gone[k] = Never}

Changes ==
    Cardinality({k \in Kid : born[k] # Never}) + Cardinality({k \in Kid : gone[k] # Never})

Fetching(c) == at[c] \in {"fetching", "answered"}

-----------------------------------------------------------------------------
\* The zero time of g.fetched is longer ago than TTL.
Init ==
    /\ clock = 0
    /\ born = [k \in Kid |-> Never]
    /\ gone = [k \in Kid |-> Never]
    /\ holder = None
    /\ keys = {}
    /\ fetched = -TTL
    /\ asOf = 0
    /\ requested = -TTL
    /\ at = [c \in Call |-> "idle"]
    /\ kid = [c \in Call |-> None]
    /\ answer = [c \in Call |-> NoKeys]

\* Time passes, but no fetch takes longer than the client's timeout.
Tick ==
    /\ clock < MaxTime
    /\ (\E c \in Call : Fetching(c)) => clock - requested < Timeout
    /\ clock' = clock + 1
    /\ UNCHANGED <<google, holder, cache, requested, calls>>

Publish(k) ==
    /\ Changes < MaxChanges
    /\ born[k] = Never
    /\ born' = [born EXCEPT ![k] = clock]
    /\ UNCHANGED <<clock, gone, holder, cache, requested, calls>>

Withdraw(k) ==
    /\ Changes < MaxChanges
    /\ k \in Published
    /\ gone' = [gone EXCEPT ![k] = clock]
    /\ UNCHANGED <<clock, born, holder, cache, requested, calls>>

-----------------------------------------------------------------------------
(* How a call goes on                                                       *)

Goto(c, place) == at' = [at EXCEPT ![c] = place]

End(c, reply) ==
    /\ Goto(c, reply)
    /\ kid' = [kid EXCEPT ![c] = None]
    /\ answer' = [answer EXCEPT ![c] = NoKeys]

\* The last lines of key: the key is in the map, or it is unknown.
LookUp(c, known) ==
    IF kid[c] \in known
    THEN /\ Goto(c, "verifying")
         /\ answer' = [answer EXCEPT ![c] = NoKeys]
         /\ UNCHANGED kid
    ELSE End(c, "unknown")

\* A credential with a key id in it: signIn calls Verify, and Verify key.
Arrive(c, k) ==
    /\ at[c] \in Ended
    /\ Goto(c, "waiting")
    /\ kid' = [kid EXCEPT ![c] = k]
    /\ UNCHANGED <<clock, google, holder, cache, requested, answer>>

\* A body, a token or a header that signIn or Verify turns down at once.
Refuse(c) ==
    /\ at[c] \in Ended
    /\ End(c, "rejected")
    /\ UNCHANGED <<clock, google, holder, cache, requested>>

-----------------------------------------------------------------------------
(* key, from the moment it has the mutex                                    *)

Fresh == clock - fetched < TTL

\* Only when the set is stale.
DueWhenStale == clock - fetched >= TTL

Due == clock - fetched >= Cooldown

\* Not locked during the fetch.
KeepUnlocked(c) == UNCHANGED holder

Keep(c) == holder' = c

\* A path that leaves without unlocking.
UnlockForgotten(c) == UNCHANGED holder

Unlock(c) == holder' = None

\* The key is known: locked and unlocked again without a pause.
Hit(c) ==
    /\ kid[c] \in keys /\ Fresh
    /\ LookUp(c, keys)
    /\ UNCHANGED <<holder, requested>>

\* The key is new, or the set is stale: refresh sends its request.
BeginFetch(c) ==
    /\ ~(kid[c] \in keys /\ Fresh)
    /\ Due
    /\ Keep(c)
    /\ requested' = clock
    /\ Goto(c, "fetching")
    /\ UNCHANGED <<kid, answer>>

\* It is too soon to ask again.
TooSoon(c) ==
    /\ ~(kid[c] \in keys /\ Fresh)
    /\ ~Due
    /\ LookUp(c, keys)
    /\ UNCHANGED <<holder, requested>>

Acquire(c) ==
    /\ at[c] = "waiting"
    /\ holder = None
    /\ Hit(c) \/ BeginFetch(c) \/ TooSoon(c)
    /\ UNCHANGED <<clock, google, cache>>

\* Google answers with what it publishes at that moment.
GoogleAnswers(c) ==
    /\ at[c] = "fetching"
    /\ answer' = [answer EXCEPT ![c] = [keys |-> Published, asOf |-> Changes]]
    /\ Goto(c, "answered")
    /\ UNCHANGED <<clock, google, holder, cache, requested, kid>>

\* The time the set goes stale, in the place of the time it came.
FetchedUntil == clock + TTL

FetchedAt == clock

\* The answer has arrived and is decoded; key goes on with the new map.
Refreshed(c) ==
    /\ at[c] = "answered"
    /\ keys' = answer[c].keys
    /\ asOf' = answer[c].asOf
    /\ fetched' = FetchedAt
    /\ Unlock(c)
    /\ LookUp(c, answer[c].keys)
    /\ UNCHANGED <<clock, google, requested>>

\* Going on with the old map instead.
AfterFailureLookUp(c) == LookUp(c, keys)

\* signIn answers 502: Google could not be reached.
AfterFailure(c) == End(c, "unreachable")

\* No answer, a status other than 200, a body that does not decode, the
\* timeout, or a client that has left: refresh returns the error.
FetchFails(c) ==
    /\ Fetching(c)
    /\ AfterFailure(c)
    /\ Unlock(c)
    /\ UNCHANGED <<clock, google, cache, requested>>

-----------------------------------------------------------------------------
\* The rest of Verify and of signIn: signature and claims, then the allow-list.
Verify(c) ==
    /\ at[c] = "verifying"
    /\ \E reply \in {"signed in", "rejected", "forbidden"} : End(c, reply)
    /\ UNCHANGED <<clock, google, holder, cache, requested>>

FetchEnds(c) == Refreshed(c) \/ FetchFails(c)

Next ==
    \/ Tick
    \/ \E k \in Kid : Publish(k) \/ Withdraw(k)
    \/ \E c \in Call, k \in Kid : Arrive(c, k)
    \/ \E c \in Call : Refuse(c) \/ Acquire(c) \/ GoogleAnswers(c) \/ FetchEnds(c) \/ Verify(c)

Spec == Init /\ [][Next]_vars

\* A sync.Mutex hands itself to those that wait long enough, and the client's
\* timeout ends every fetch.  Nothing makes Google answer.
FairSpec ==
    /\ Spec
    /\ \A c \in Call : SF_vars(Acquire(c)) /\ WF_vars(FetchEnds(c)) /\ WF_vars(Verify(c))

-----------------------------------------------------------------------------
(* Properties                                                               *)

\* Every variable has its type, and no time is in the future.
TypeOK ==
    /\ clock \in Nat
    /\ born \in [Kid -> Nat \cup {Never}]
    /\ gone \in [Kid -> Nat \cup {Never}]
    /\ holder \in Call \cup {None}
    /\ keys \subseteq Kid
    /\ fetched \in Int /\ fetched <= clock
    /\ asOf \in Nat
    /\ requested \in Int /\ requested <= clock
    /\ at \in [Call -> Ended \cup {"waiting", "fetching", "answered", "verifying"}]
    /\ kid \in [Call -> Kid \cup {None}]
    /\ answer \in [Call -> KeySet]

\* A key that a sign-in is verified with is one that Google published, and did
\* not withdraw a TTL and a fetch ago or earlier, however fetches fail and
\* however long the calls before this one held the mutex.
TrustExpires ==
    [][\A c \in Call : at[c] # "verifying" /\ at'[c] = "verifying" =>
          /\ born[kid[c]] # Never
          /\ gone[kid[c]] # Never => clock - gone[kid[c]] < TTL + Timeout]_vars

\* A key that Google publishes is rejected as unknown for no longer than the
\* cooldown and a fetch after it has appeared.
RotationNoticed ==
    [][\A c \in Call :
          at[c] \notin Ended /\ at'[c] = "unknown" /\ kid[c] \in Published =>
              clock - born[kid[c]] < Cooldown + Timeout]_vars

\* A slow answer never replaces one that Google gave later.
CacheNeverGoesBack == [][asOf' >= asOf]_cache

\* Calls that wait for a fetch do not repeat it: a set is replaced a cooldown
\* after it came, or later.
FetchesSpaced ==
    [][\A c \in Call : at[c] = "answered" /\ at'[c] \in {"verifying", "unknown"} =>
          clock - fetched >= Cooldown]_vars

\* Every sign-in is answered, whether Google answers or not, and however many
\* others hold the mutex before it.
SignInEnds == \A c \in Call : (at[c] = "waiting") ~> (at[c] \in Ended)

-----------------------------------------------------------------------------
(* What the documentation says and the code does not do                     *)

\* "keysCooldown stops a stream of tokens with unknown key ids from turning into
\* a stream of requests to Google" (google.go): two requests are a cooldown
\* apart.
CooldownRationsRequests ==
    [][\A c \in Call : at[c] = "waiting" /\ at'[c] = "fetching" =>
          clock - requested >= Cooldown]_vars

=============================================================================
