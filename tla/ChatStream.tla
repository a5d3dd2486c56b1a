----------------------------- MODULE ChatStream -----------------------------
(***************************************************************************)
(* A message from its arrival to its last event: sendMessage around the    *)
(* event loop of OpenAI.Stream.  What the upstream says arrives as one     *)
(* event after the other, in whatever order it likes, and each delta is    *)
(* passed on to the client at once.  The reads before the stream and the   *)
(* transaction after it are single steps here; Conversations has theirs.   *)
(* A text is the number of its deltas.                                     *)
(***************************************************************************)
EXTENDS Integers, Sequences, SequencesExt

CONSTANTS
    Send,      \* messages sent
    MaxDeltas  \* bound: deltas of one answer

ASSUME ChatStreamAssumption == MaxDeltas \in Nat

VARIABLES
    pc,       \* where the handler is
    text,     \* result.Text
    stop,     \* result.StopReason as the loop sets it; "" while it has not
    refused,  \* whether a refusal has been read
    events,   \* what the client has got
    left,     \* messages whose client has gone, and with it their context
    stored    \* the exchanges in the database

vars == <<pc, text, stop, refused, events, left, stored>>

StopReasons == {"", "end_turn", "max_output_tokens"}

StreamInit ==
    /\ pc = [r \in Send |-> "idle"]
    /\ text = [r \in Send |-> 0]
    /\ stop = [r \in Send |-> ""]
    /\ refused = [r \in Send |-> FALSE]
    /\ events = [r \in Send |-> <<>>]
    /\ left = {}
    /\ stored = {}

Active(r) == pc[r] \notin {"idle", "ended"}

Go(r, from, to) == pc[r] = from /\ pc' = [pc EXCEPT ![r] = to]

\* An event, or an answer, goes out; errors of sending are ignored.
Tell(r, event) == events' = IF r \in left THEN events ELSE [events EXCEPT ![r] = Append(@, event)]

-----------------------------------------------------------------------------
Accept(r) == Go(r, "idle", "checking") /\ UNCHANGED <<text, stop, refused, events, left, stored>>

\* Whatever is wrong before the stream begins has a status of its own.
Reject(r) ==
    /\ Go(r, "checking", "ended") /\ Tell(r, "status")
    /\ UNCHANGED <<text, stop, refused, left, stored>>

Begin(r) == Go(r, "checking", "streaming") /\ UNCHANGED <<text, stop, refused, events, left, stored>>

\* response.output_text.delta
Delta(r) ==
    /\ pc[r] = "streaming" /\ text[r] < MaxDeltas
    /\ text' = [text EXCEPT ![r] = @ + 1]
    /\ Tell(r, "delta")
    /\ UNCHANGED <<pc, stop, refused, left, stored>>

\* A refusal that is only kept in StopReason.
CompletedForgettingRefusal(r) ==
    /\ pc[r] = "streaming"
    /\ \E reason \in StopReasons \ {""} : stop' = [stop EXCEPT ![r] = reason]
    /\ refused' = [refused EXCEPT ![r] = FALSE]
    /\ UNCHANGED <<pc, text, events, left, stored>>

\* response.completed, whole or cut short at the limit.
Completed(r) ==
    /\ pc[r] = "streaming"
    /\ \E reason \in StopReasons \ {""} : stop' = [stop EXCEPT ![r] = reason]
    /\ UNCHANGED <<pc, text, refused, events, left, stored>>

\* response.refusal.delta.  Other events, and lines that do not parse, are skipped.
Refusal(r) ==
    /\ pc[r] = "streaming"
    /\ refused' = [refused EXCEPT ![r] = TRUE]
    /\ UNCHANGED <<pc, text, stop, events, left, stored>>

\* Stream has returned an error, or a refusal: an event says so, and no more is done.
AnswerFails(r) ==
    /\ Go(r, "streaming", "ended") /\ Tell(r, "error")
    /\ UNCHANGED <<text, stop, refused, left, stored>>

\* [DONE], or the end of the body, whatever came before.
EndBody(r) ==
    \/ refused[r] /\ AnswerFails(r)
    \/ /\ ~refused[r] /\ Go(r, "streaming", "storing")
       /\ UNCHANGED <<text, stop, refused, events, left, stored>>

\* The call fails, or its status is an error, or its body breaks off in the loop.
StreamFails(r) == pc[r] = "streaming" /\ AnswerFails(r)

\* The event is sent first, and then the exchange is stored.
StoreExchangeTold(r) ==
    /\ Go(r, "storing", "ended") /\ Tell(r, "done")
    /\ UNCHANGED <<text, stop, refused, left, stored>>

\* AppendExchange
StoreExchange(r) ==
    /\ Go(r, "storing", "telling")
    /\ stored' = stored \cup {[req |-> r, text |-> text[r]]}
    /\ UNCHANGED <<text, stop, refused, events, left>>

\* The failure is logged, and the client is not told.
StoreFailsSilently(r) ==
    /\ Go(r, "storing", "ended")
    /\ UNCHANGED <<text, stop, refused, events, left, stored>>

StoreFails(r) ==
    /\ Go(r, "storing", "ended") /\ Tell(r, "error")
    /\ UNCHANGED <<text, stop, refused, left, stored>>

TellDone(r) ==
    /\ Go(r, "telling", "ended") /\ Tell(r, "done")
    /\ UNCHANGED <<text, stop, refused, left, stored>>

Leave(r) ==
    /\ Active(r)
    /\ left' = left \cup {r}
    /\ UNCHANGED <<pc, text, stop, refused, events, stored>>

\* The call in progress notices its cancelled context.
Cancelled(r) ==
    /\ r \in left /\ Active(r)
    /\ pc' = [pc EXCEPT ![r] = "ended"]
    /\ UNCHANGED <<text, stop, refused, events, left, stored>>

\* What comes from upstream, and what the handler does by itself.
Upstream(r) == Delta(r) \/ Completed(r) \/ Refusal(r) \/ EndBody(r) \/ StreamFails(r)

Handle(r) ==
    Reject(r) \/ Begin(r) \/ StoreExchange(r) \/ StoreFails(r) \/ TellDone(r) \/ Cancelled(r)

-----------------------------------------------------------------------------
(* Properties                                                               *)

Event == {"status", "delta", "error", "done"}

\* What the variables hold.
StreamTypeOK ==
    /\ pc \in [Send -> {"idle", "checking", "streaming", "storing", "telling", "ended"}]
    /\ text \in [Send -> 0 .. MaxDeltas]
    /\ stop \in [Send -> StopReasons]
    /\ refused \in [Send -> BOOLEAN]
    /\ events \in [Send -> Seq(Event)]
    /\ left \subseteq Send
    /\ stored \subseteq [req : Send, text : Nat]

\* A client that is told "done" has seen the answer that is stored, to the last
\* delta, and one that is told of a failure has seen what is not stored.
OutcomeIsTrue ==
    \A r \in Send : events[r] # <<>> =>
       /\ Last(events[r]) = "done" => [req |-> r, text |-> Len(events[r]) - 1] \in stored
       /\ Last(events[r]) \in {"status", "error"} => \A x \in stored : x.req # r

\* Once the model has begun to decline, the message ends without being stored, and
\* not in "done", whatever the upstream says before or after it.
RefusalIsFinal ==
    [][\A r \in Send : refused[r] =>
          /\ refused'[r]
          /\ \A x \in stored' \ stored : x.req # r
          /\ events'[r] # Append(events[r], "done")]_vars

=============================================================================
