----------------------------- MODULE Lifecycle ------------------------------
(***************************************************************************)
(* The process of cmd/cookd-api/main.go around the messages of ChatStream: *)
(* it listens, is told to stop, lets the messages in flight end within     *)
(* shutdownGrace, closes the database and exits; or it is killed at any    *)
(* moment, by a second signal, by the container runtime, or by a crash.    *)
(* The database survives, and the runtime starts the process again.        *)
(***************************************************************************)
EXTENDS ChatStream

CONSTANTS
    Grace,        \* shutdownGrace, in ticks
    StopTimeout,  \* how long the container runtime waits after its signal
    MaxStarts     \* bound: how often the process is started

ASSUME LifecycleAssumption == {Grace, StopTimeout, MaxStarts} \subseteq Nat

VARIABLES
    phase,   \* of the process: "up", "draining", "closing" or "down"
    sender,  \* who sent the signal: "terminal", "runtime"; "none" before it
    waited,  \* ticks since the signal
    code,    \* what the process will exit, or has exited with
    cut,     \* messages whose handler died with the process
    starts   \* how often it was started

process == <<phase, sender, waited, code, cut, starts>>
all == <<vars, process>>

Init ==
    /\ StreamInit
    /\ phase = "up"
    /\ sender = "none"
    /\ waited = 0
    /\ code = "none"
    /\ cut = {}
    /\ starts = 1

-----------------------------------------------------------------------------
(* The messages, while there is a process                                   *)

Connect(r) == phase = "up" /\ Accept(r) /\ UNCHANGED process

\* In the closing phase too: a handler that comes before db.Close still has its
\* database, one that comes after it gets an error.
FromUpstream(r) == phase # "down" /\ Upstream(r) /\ UNCHANGED process

Run(r) == phase # "down" /\ Handle(r) /\ UNCHANGED process

ClientLeaves(r) == phase # "down" /\ Leave(r) /\ UNCHANGED process

-----------------------------------------------------------------------------
(* The process                                                              *)

\* ctx.Done(): Shutdown closes the listener and begins to wait.
Signal(by) ==
    /\ phase = "up"
    /\ phase' = "draining"
    /\ sender' = by
    /\ UNCHANGED <<vars, waited, code, cut, starts>>

InFlight == {r \in Send : Active(r)}

DrainedAtOnce ==
    /\ phase = "draining"
    /\ phase' = "closing"
    /\ code' = "ok"
    /\ UNCHANGED <<vars, sender, waited, cut, starts>>

\* Shutdown returns nil: no connection is active.
Drained ==
    /\ phase = "draining"
    /\ InFlight = {}
    /\ phase' = "closing"
    /\ code' = "ok"
    /\ UNCHANGED <<vars, sender, waited, cut, starts>>

\* Waiting on a context that never ends.
DeadlineNever == FALSE /\ UNCHANGED all

\* Shutdown returns the error of shutdownCtx.
Deadline ==
    /\ phase = "draining"
    /\ waited = Grace
    /\ phase' = "closing"
    /\ code' = "error"
    /\ UNCHANGED <<vars, sender, waited, cut, starts>>

\* ListenAndServe returns an error.
ServeFails ==
    /\ phase = "up"
    /\ phase' = "closing"
    /\ code' = "error"
    /\ UNCHANGED <<vars, sender, waited, cut, starts>>

\* A deadline that is acted on late.
TickOn ==
    /\ phase = "draining"
    /\ waited' = waited + 1
    /\ UNCHANGED <<vars, phase, sender, code, cut, starts>>

\* Time does not go past what would end the wait.
Tick ==
    /\ phase = "draining"
    /\ waited < Grace
    /\ ~(sender = "runtime" /\ waited = StopTimeout)
    /\ waited' = waited + 1
    /\ UNCHANGED <<vars, phase, sender, code, cut, starts>>

\* The handlers that still run die with the process.
Die(with) ==
    /\ phase' = "down"
    /\ code' = with
    /\ cut' = cut \cup InFlight
    /\ pc' = [r \in Send |-> IF Active(r) THEN "ended" ELSE pc[r]]
    /\ UNCHANGED <<text, stop, refused, events, left, stored, sender, waited, starts>>

\* run returns, after the deferred db.Close, and main exits.
Exit == phase = "closing" /\ Die(code)

\* stop() has given the signals their default action back.
SecondSignal == phase \in {"draining", "closing"} /\ sender = "terminal" /\ Die("killed")

\* docker stop: SIGKILL, once the container has not ended in time.
RuntimeKills ==
    /\ phase \in {"draining", "closing"}
    /\ sender = "runtime" /\ waited >= StopTimeout
    /\ Die("killed")

Crash == phase # "down" /\ Die("crashed")

\* restart: unless-stopped, or the next deploy.
Restart ==
    /\ phase = "down"
    /\ starts < MaxStarts
    /\ phase' = "up"
    /\ sender' = "none"
    /\ waited' = 0
    /\ code' = "none"
    /\ starts' = starts + 1
    /\ UNCHANGED <<vars, cut>>

End == Deadline \/ Tick \/ Exit \/ RuntimeKills

Next ==
    \/ \E r \in Send : Connect(r) \/ FromUpstream(r) \/ Run(r) \/ ClientLeaves(r)
    \/ \E by \in {"terminal", "runtime"} : Signal(by)
    \/ Drained \/ End \/ ServeFails \/ SecondSignal \/ Crash \/ Restart

Spec == Init /\ [][Next]_all

\* Time passes, deadlines that have passed are acted on, and main returns.  No
\* handler owes progress, and neither does the upstream.
FairSpec == Spec /\ WF_all(End)

-----------------------------------------------------------------------------
(* Properties                                                               *)

\* What the variables hold; the wait never goes past its deadline.
TypeOK ==
    /\ StreamTypeOK
    /\ phase \in {"up", "draining", "closing", "down"}
    /\ sender \in {"none", "terminal", "runtime"}
    /\ waited \in 0 .. Grace
    /\ code \in {"none", "ok", "error", "killed", "crashed"}
    /\ cut \subseteq Send
    /\ starts \in Nat

\* "An error event replaces done on failure" (README.md): each message owes its client
\* one last event, "done", "error" or a status.  In no order of upstream events,
\* failures and departures does anything follow it, and no handler ends without
\* it, unless its client has left or its process died under it.
EventsEndOnce ==
    \A r \in Send :
       /\ \A i \in DOMAIN events[r] :
             events[r][i] # "delta" => i = Len(events[r]) /\ pc[r] = "ended"
       /\ pc[r] = "ended" /\ r \notin left \cup cut =>
             events[r] # <<>> /\ Last(events[r]) # "delta"

\* A process that exits with success has let every message it accepted come to its
\* end: none is cut off by it.
CleanExitCutsNothing ==
    [][phase' = "down" /\ code' = "ok" => cut' = cut]_all

\* Once it is told to stop the process ends, however long an answer takes and
\* whatever the upstream does.
SignalEndsProcess == (phase = "draining") ~> (phase = "down")

=============================================================================
