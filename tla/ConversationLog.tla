-------------------------- MODULE ConversationLog --------------------------
(***************************************************************************)
(* What the conversations of internal/store promise, without handlers,     *)
(* transactions or locks.  A conversation is opened once and closed once.  *)
(* While it is open, exchanges are appended to it, each whole, each at a   *)
(* place after every place ever used, and nothing that was appended        *)
(* changes.  A client that is told "done" has its exchange in the log, a   *)
(* client that is told of a failure has not, and a client that is told     *)
(* nothing cannot know.                                                    *)
(***************************************************************************)
EXTENDS Integers

CONSTANTS
    Conv,      \* conversation ids
    Senders    \* requests to append an exchange

VARIABLES
    life,      \* of a conversation: "unborn", "live" or "dead"
    log,       \* the exchanges of a conversation, each with its place
    last,      \* the last place used in any log
    phase      \* of a request: "open", "stored", or how it ended

vars == <<life, log, last, phase>>

Entry == [at : Nat, req : Senders]

TypeOK ==
    /\ life \in [Conv -> {"unborn", "live", "dead"}]
    /\ log \in [Conv -> SUBSET Entry]
    /\ last \in Nat
    /\ phase \in [Senders -> {"open", "stored", "confirmed", "refused", "lost"}]

Init ==
    /\ life = [c \in Conv |-> "unborn"]
    /\ log = [c \in Conv |-> {}]
    /\ last = 0
    /\ phase = [r \in Senders |-> "open"]

Open(c) ==
    /\ life[c] = "unborn"
    /\ life' = [life EXCEPT ![c] = "live"]
    /\ UNCHANGED <<log, last, phase>>

Close(c) ==
    /\ life[c] = "live"
    /\ life' = [life EXCEPT ![c] = "dead"]
    /\ log' = [log EXCEPT ![c] = {}]
    /\ UNCHANGED <<last, phase>>

\* The one step in which an exchange appears.
Append(r, c) ==
    /\ phase[r] = "open"
    /\ life[c] = "live"
    /\ last' \in Nat
    /\ last' > last
    /\ log' = [log EXCEPT ![c] = @ \cup {[at |-> last', req |-> r]}]
    /\ phase' = [phase EXCEPT ![r] = "stored"]
    /\ UNCHANGED life

Confirm(r) ==
    /\ phase[r] = "stored"
    /\ phase' = [phase EXCEPT ![r] = "confirmed"]
    /\ UNCHANGED <<life, log, last>>

Refuse(r) ==
    /\ phase[r] = "open"
    /\ phase' = [phase EXCEPT ![r] = "refused"]
    /\ UNCHANGED <<life, log, last>>

\* Some clients are never answered: they left, or the process died.
Lose(S) ==
    /\ \A r \in S : phase[r] \in {"open", "stored"}
    /\ phase' = [r \in Senders |-> IF r \in S THEN "lost" ELSE phase[r]]
    /\ UNCHANGED <<life, log, last>>

Next ==
    \/ \E c \in Conv : Open(c) \/ Close(c)
    \/ \E r \in Senders, c \in Conv : Append(r, c)
    \/ \E r \in Senders : Confirm(r) \/ Refuse(r)
    \/ \E S \in SUBSET Senders : Lose(S)

Spec == Init /\ [][Next]_vars

=============================================================================
