---------------------------- MODULE TokenBucket ----------------------------
(***************************************************************************)
(* What a limiter of internal/api/ratelimit.go promises: one bucket per    *)
(* key, for ever.  A bucket holds up to Full ticks' worth of tokens of     *)
(* PerToken ticks each and refills by a tick per tick, and a caller is     *)
(* admitted when its key's bucket has a token, and refused when it has     *)
(* none.  There is no map, and nothing is forgotten.  A decision may rest  *)
(* on a level that is Slack ticks old.                                     *)
(***************************************************************************)
EXTENDS Integers

CONSTANTS
    Key,         \* client addresses, or accounts
    Caller,      \* requests in flight
    None,        \* no key
    PerToken,    \* ticks one token takes to return
    Full,        \* ticks an empty bucket takes to fill
    Slack        \* ticks by which a decision may be late

VARIABLES
    level,   \* of each key: the ticks' worth of tokens it has
    asking   \* the key for which a caller waits to be admitted, or None

vars == <<level, asking>>

TypeOK ==
    /\ level \in [Key -> 0 .. Full]
    /\ asking \in [Caller -> Key \cup {None}]

Init ==
    /\ level = [k \in Key |-> Full]
    /\ asking = [c \in Caller |-> None]

Refill ==
    /\ UNCHANGED asking
    /\ level' = [k \in Key |-> IF level[k] < Full THEN level[k] + 1 ELSE Full]

Ask(c, k) ==
    /\ asking[c] = None
    /\ asking' = [asking EXCEPT ![c] = k]
    /\ UNCHANGED level

\* Nobody loses more than is due, nor gains more than Slack.
Settles(due) ==
    /\ level' \in [Key -> 0 .. Full]
    /\ \A k \in Key : level'[k] \in due[k] .. due[k] + Slack

\* The caller is served; its token is gone.
Grant(c) ==
    /\ asking[c] # None
    /\ asking' = [asking EXCEPT ![c] = None]
    /\ level[asking[c]] + Slack >= PerToken
    /\ Settles([level EXCEPT ![asking[c]] = @ - PerToken])

\* The caller is turned away, which costs its key nothing.
Refuse(c) ==
    /\ asking[c] # None
    /\ asking' = [asking EXCEPT ![c] = None]
    /\ level[asking[c]] < PerToken + Slack
    /\ level'[asking[c]] = level[asking[c]]
    /\ Settles(level)

Next ==
    \/ Refill
    \/ \E c \in Caller : Grant(c) \/ Refuse(c)
    \/ \E c \in Caller, k \in Key : Ask(c, k)

Spec == Init /\ [][Next]_vars

=============================================================================
