--------------------------- MODULE LifecycleProofs --------------------------
(***************************************************************************)
(* Proofs about ChatStream and Lifecycle: what the client of a message is  *)
(* told is final and true, in any order of upstream events, departures,    *)
(* failures and ends of the process, for any number of messages; and that  *)
(* a process which is told to stop moves towards its end.                  *)
(***************************************************************************)
EXTENDS Lifecycle, TLAPS

Unstored(r) == \A x \in stored : x.req # r

\* Where a message may be, and what its client has got by then.
Told(r) ==
    /\ pc[r] \in {"idle", "checking"} => events[r] = <<>> /\ text[r] = 0
    /\ pc[r] # "ended" => \A i \in DOMAIN events[r] : events[r][i] = "delta"
    /\ pc[r] # "ended" /\ r \notin left => Len(events[r]) = text[r]

\* What is stored of it by then.
Kept(r) ==
    /\ pc[r] \notin {"telling", "ended"} => Unstored(r)
    /\ pc[r] = "telling" => [req |-> r, text |-> text[r]] \in stored

\* A refusal is read in the stream, and ends the message there.
Declined(r) == refused[r] => pc[r] \in {"streaming", "ended"} /\ Unstored(r)

\* EventsEndOnce, in two parts, and OutcomeIsTrue, for one message.
EndsOnce(r) ==
    \A i \in DOMAIN events[r] :
       events[r][i] # "delta" => i = Len(events[r]) /\ pc[r] = "ended"

Heard(r) ==
    pc[r] = "ended" /\ r \notin left \cup cut => events[r] # <<>> /\ Last(events[r]) # "delta"

IsTrue(r) ==
    events[r] # <<>> =>
       /\ Last(events[r]) = "done" => [req |-> r, text |-> Len(events[r]) - 1] \in stored
       /\ Last(events[r]) \in {"status", "error"} => Unstored(r)

Good(r) == Told(r) /\ Kept(r) /\ Declined(r) /\ EndsOnce(r) /\ Heard(r) /\ IsTrue(r)

\* A process that is about to exit with success has no message in flight.
Idle == phase = "closing" /\ code = "ok" => InFlight = {}

\* The inductive invariant.
Inv == TypeOK /\ Idle /\ \A r \in Send : Good(r)

-----------------------------------------------------------------------------
(* One message                                                              *)

\* What a step does not touch of a message keeps it good: its own variables, and
\* the exchanges stored for it.
LEMMA Untouched ==
  ASSUME NEW r \in Send, Good(r),
         pc'[r] = pc[r], text'[r] = text[r], refused'[r] = refused[r],
         events'[r] = events[r], (r \in left') = (r \in left),
         r \in cut => r \in cut',
         \A x : x.req = r => (x \in stored' <=> x \in stored)
  PROVE  Good(r)'
<1>1. Unstored(r)' = Unstored(r)
  BY DEF Unstored
<1>2. \A n : [req |-> r, text |-> n] \in stored' <=> [req |-> r, text |-> n] \in stored
  OBVIOUS
<1>3. Told(r)' /\ EndsOnce(r)' /\ Heard(r)'
  BY DEF Good, Told, EndsOnce, Heard
<1>4. Kept(r)' /\ Declined(r)'
  BY <1>1, <1>2 DEF Good, Kept, Declined
<1>5. IsTrue(r)'
  BY <1>1, <1>2 DEF Good, IsTrue
<1> QED BY <1>3, <1>4, <1>5 DEF Good

\* A message that has been going on without a final event may end without one,
\* as long as its process dies or its client is gone.
LEMMA EndsSilently ==
  ASSUME NEW r \in Send, Good(r), events[r] \in Seq(Event), pc[r] # "ended",
         pc'[r] = "ended", refused'[r] = refused[r],
         events'[r] = events[r], stored' = stored, r \in (left \cup cut)'
  PROVE  Good(r)'
<1>1. \A i \in DOMAIN events[r] : events[r][i] = "delta"
  BY DEF Good, Told
<1>2. events[r] # <<>> => Last(events[r]) = "delta"
  BY <1>1 DEF Last
<1>3. Told(r)' /\ Kept(r)' /\ Declined(r)' /\ EndsOnce(r)' /\ Heard(r)'
  BY <1>1 DEF Good, Told, Kept, Declined, EndsOnce, Heard, Unstored
<1>4. IsTrue(r)'
  BY <1>2 DEF IsTrue
<1> QED BY <1>3, <1>4 DEF Good

\* A message that ends with a last event: one that says what is stored.
LEMMA EndsWith ==
  ASSUME NEW r \in Send, Good(r), events[r] \in Seq(Event), pc[r] # "ended",
         NEW e \in Event, e # "delta", Tell(r, e), events \in [Send -> Seq(Event)],
         pc'[r] = "ended", refused'[r] = refused[r], stored' = stored, left' = left,
         e = "done" => pc[r] = "telling",
         e # "done" => Unstored(r)
  PROVE  Good(r)'
<1>1. CASE r \in left
  <2>1. events'[r] = events[r]
    BY <1>1 DEF Tell
  <2>2. r \in (left \cup cut)'
    BY <1>1
  <2> QED BY <2>1, <2>2, EndsSilently
<1>2. CASE r \notin left
  <2>1. events'[r] = Append(events[r], e)
    BY <1>2 DEF Tell
  <2>2. \A i \in DOMAIN events[r] : events[r][i] = "delta"
    BY DEF Good, Told
  <2>3. /\ Len(events'[r]) = Len(events[r]) + 1 /\ Last(events'[r]) = e
        /\ \A i \in DOMAIN events'[r] : i # Len(events'[r]) => events'[r][i] = "delta"
    BY <2>1, <2>2 DEF Last
  <2>4. EndsOnce(r)' /\ Heard(r)'
    <3>1. EndsOnce(r)'
      BY <2>3 DEF EndsOnce
    <3>2. events'[r] # <<>>
      BY <2>1
    <3> QED BY <2>3, <3>1, <3>2 DEF Heard
  <2>5. e = "done" => [req |-> r, text |-> Len(events[r])] \in stored
    BY <1>2 DEF Good, Told, Kept
  <2>6. IsTrue(r)'
    BY <2>3, <2>5 DEF IsTrue, Unstored, Event
  <2>7. Told(r)' /\ Kept(r)' /\ Declined(r)'
    BY DEF Good, Told, Kept, Declined, Unstored
  <2> QED BY <2>4, <2>6, <2>7 DEF Good
<1> QED BY <1>1, <1>2

-----------------------------------------------------------------------------
(* The steps of a message                                                   *)

\* A step of message r that leaves everyone else's variables alone.
Alone(r) ==
    /\ \A q \in Send : q # r =>
          /\ pc'[q] = pc[q] /\ text'[q] = text[q] /\ refused'[q] = refused[q]
          /\ events'[q] = events[q] /\ (q \in left') = (q \in left)
    /\ UNCHANGED cut
    /\ \A x : x.req # r => (x \in stored' <=> x \in stored)

\* So a step of r has to be good for r only.
LEMMA OneMessage ==
  ASSUME \A q \in Send : Good(q), NEW r \in Send, Alone(r), Good(r)'
  PROVE  \A q \in Send : Good(q)'
<1>1. ASSUME NEW q \in Send, q # r
      PROVE  Good(q)'
  BY <1>1, Untouched DEF Alone
<1> QED BY <1>1

\* What the lemmas need of the types.
LEMMA StreamTypes ==
  ASSUME StreamTypeOK
  PROVE  /\ pc \in [Send -> {"idle", "checking", "streaming", "storing", "telling", "ended"}]
         /\ text \in [Send -> Nat] /\ refused \in [Send -> BOOLEAN]
         /\ events \in [Send -> Seq(Event)]
BY ChatStreamAssumption DEF StreamTypeOK

\* A message ends with a last event.
LEMMA Ends ==
  ASSUME StreamTypeOK, UNCHANGED cut, \A q \in Send : Good(q), NEW r \in Send, NEW e \in Event, e # "delta",
         NEW from \in {"checking", "streaming", "storing", "telling"},
         Go(r, from, "ended"), Tell(r, e), UNCHANGED <<text, stop, refused, left, stored>>,
         e = "done" <=> from = "telling"
  PROVE  StreamTypeOK' /\ \A q \in Send : Good(q)'
<1>1. /\ pc \in [Send -> {"idle", "checking", "streaming", "storing", "telling", "ended"}]
      /\ events \in [Send -> Seq(Event)]
  BY StreamTypes
<1>2. pc' = [pc EXCEPT ![r] = "ended"] /\ pc[r] = from
  BY DEF Go
<1>3. /\ events' \in [Send -> Seq(Event)]
      /\ \A q \in Send : q # r => events'[q] = events[q]
  BY <1>1 DEF Tell
<1>4. StreamTypeOK'
  BY <1>1, <1>2, <1>3 DEF StreamTypeOK
<1>5. Alone(r)
  BY <1>1, <1>2, <1>3 DEF Alone
<1>6. e # "done" => Unstored(r)
  BY <1>2 DEF Good, Kept
<1>7. Good(r)'
  BY <1>1, <1>2, <1>6, EndsWith
<1> QED BY <1>4, <1>5, <1>7, OneMessage

\* A message goes on without an event.
LEMMA GoesOn ==
  ASSUME StreamTypeOK, UNCHANGED cut, \A q \in Send : Good(q), NEW r \in Send, NEW from, NEW to,
         <<from, to>> \in {<<"idle", "checking">>, <<"checking", "streaming">>, <<"streaming", "storing">>},
         Go(r, from, to), UNCHANGED <<text, stop, refused, events, left, stored>>,
         to = "storing" => ~refused[r]
  PROVE  StreamTypeOK' /\ \A q \in Send : Good(q)'
<1>1. /\ pc \in [Send -> {"idle", "checking", "streaming", "storing", "telling", "ended"}]
      /\ events \in [Send -> Seq(Event)]
  BY StreamTypes
<1>2. pc' = [pc EXCEPT ![r] = to] /\ pc[r] = from
  BY DEF Go
<1>3. StreamTypeOK'
  BY <1>1, <1>2 DEF StreamTypeOK
<1>4. Alone(r)
  BY <1>1, <1>2 DEF Alone
<1>5. pc'[r] = to
  BY <1>1, <1>2
<1>6. Told(r)' /\ EndsOnce(r)' /\ Heard(r)' /\ IsTrue(r)'
  BY <1>1, <1>2, <1>5 DEF Good, Told, EndsOnce, Heard, IsTrue, Unstored
<1>7. Kept(r)' /\ Declined(r)'
  BY <1>1, <1>2, <1>5 DEF Good, Kept, Declined, Unstored
<1> QED BY <1>3, <1>4, <1>6, <1>7, OneMessage DEF Good

\* The client gets another piece of the answer.
LEMMA DeltaStep ==
  ASSUME StreamTypeOK, UNCHANGED cut, \A q \in Send : Good(q), NEW r \in Send, Delta(r)
  PROVE  StreamTypeOK' /\ \A q \in Send : Good(q)'
<1>1. /\ events \in [Send -> Seq(Event)] /\ text \in [Send -> 0 .. MaxDeltas] /\ MaxDeltas \in Nat
      /\ pc[r] = "streaming" /\ text[r] < MaxDeltas /\ text' = [text EXCEPT ![r] = @ + 1]
      /\ UNCHANGED <<pc, stop, refused, left, stored>>
  BY StreamTypes, ChatStreamAssumption DEF StreamTypeOK, Delta
<1>2. /\ events' \in [Send -> Seq(Event)]
      /\ \A q \in Send : q # r => events'[q] = events[q]
      /\ events'[r] = IF r \in left THEN events[r] ELSE Append(events[r], "delta")
  BY <1>1 DEF Delta, Tell, Event
<1>3. StreamTypeOK'
  <2>1. text[r] + 1 \in 0 .. MaxDeltas
    BY <1>1
  <2>2. text' \in [Send -> 0 .. MaxDeltas]
    BY <1>1, <2>1
  <2> QED BY <1>1, <1>2, <2>2 DEF StreamTypeOK
<1>4. Alone(r)
  BY <1>1, <1>2 DEF Alone
<1>5. \A i \in DOMAIN events'[r] : events'[r][i] = "delta"
  <2>1. \A i \in DOMAIN events[r] : events[r][i] = "delta"
    BY <1>1 DEF Good, Told
  <2>2. \A i \in DOMAIN Append(events[r], "delta") : Append(events[r], "delta")[i] = "delta"
    BY <1>1, <2>1
  <2> QED BY <1>2, <2>1, <2>2
<1>6. r \notin left => Len(events'[r]) = text'[r]
  BY <1>1, <1>2 DEF Good, Told
<1>7. Told(r)' /\ EndsOnce(r)' /\ Heard(r)'
  BY <1>1, <1>5, <1>6 DEF Told, EndsOnce, Heard
<1>8. Last(events'[r]) = "delta" \/ events'[r] = <<>>
  BY <1>1, <1>2, <1>5 DEF Last
<1>9. IsTrue(r)' /\ Kept(r)' /\ Declined(r)'
  BY <1>1, <1>8 DEF Good, IsTrue, Kept, Declined, Unstored
<1> QED BY <1>3, <1>4, <1>7, <1>9, OneMessage DEF Good

\* An event of the upstream that is only remembered.
LEMMA NotedStep ==
  ASSUME StreamTypeOK, UNCHANGED cut, \A q \in Send : Good(q), NEW r \in Send, Completed(r) \/ Refusal(r)
  PROVE  StreamTypeOK' /\ \A q \in Send : Good(q)'
<1>1. /\ pc[r] = "streaming" /\ UNCHANGED <<pc, text, events, left, stored>>
      /\ \A q \in Send : q # r => refused'[q] = refused[q]
      /\ refused' \in [Send -> BOOLEAN] /\ stop' \in [Send -> StopReasons]
  BY DEF StreamTypeOK, Completed, Refusal
<1>2. StreamTypeOK'
  BY <1>1 DEF StreamTypeOK
<1>3. Alone(r)
  BY <1>1 DEF Alone
<1>4. Good(r)'
  BY <1>1 DEF Good, Told, Kept, Declined, EndsOnce, Heard, IsTrue, Unstored
<1> QED BY <1>2, <1>3, <1>4, OneMessage

\* The exchange is stored with the answer as it was streamed.
LEMMA StoreStep ==
  ASSUME StreamTypeOK, UNCHANGED cut, \A q \in Send : Good(q), NEW r \in Send, StoreExchange(r)
  PROVE  StreamTypeOK' /\ \A q \in Send : Good(q)'
<1>1. /\ pc \in [Send -> {"idle", "checking", "streaming", "storing", "telling", "ended"}]
      /\ text \in [Send -> Nat] /\ pc[r] = "storing" /\ pc' = [pc EXCEPT ![r] = "telling"]
      /\ stored' = stored \cup {[req |-> r, text |-> text[r]]}
      /\ UNCHANGED <<text, stop, refused, events, left>>
  BY StreamTypes DEF StoreExchange, Go
<1>2. StreamTypeOK'
  BY <1>1 DEF StreamTypeOK
<1>3. Alone(r)
  BY <1>1 DEF Alone
<1>4. ~refused[r] /\ \A i \in DOMAIN events[r] : events[r][i] = "delta"
  BY <1>1 DEF Good, Declined, Told
<1>5. events[r] \in Seq(Event)
  BY StreamTypes
<1>6. events[r] # <<>> => Last(events[r]) = "delta"
  BY <1>4, <1>5 DEF Last
<1>7. Told(r)' /\ EndsOnce(r)' /\ Heard(r)' /\ IsTrue(r)'
  BY <1>1, <1>4, <1>6 DEF Good, Told, EndsOnce, Heard, IsTrue
<1>8. Kept(r)' /\ Declined(r)'
  BY <1>1, <1>4 DEF Kept, Declined
<1> QED BY <1>2, <1>3, <1>7, <1>8, OneMessage DEF Good

\* The client leaves.
LEMMA LeaveStep ==
  ASSUME StreamTypeOK, UNCHANGED cut, \A q \in Send : Good(q), NEW r \in Send, Leave(r)
  PROVE  StreamTypeOK' /\ \A q \in Send : Good(q)'
<1>1. left' = left \cup {r} /\ UNCHANGED <<pc, text, stop, refused, events, stored>>
  BY DEF Leave
<1>2. StreamTypeOK'
  BY <1>1 DEF StreamTypeOK
<1>3. Alone(r)
  BY <1>1 DEF Alone
<1>4. Good(r)'
  BY <1>1 DEF Good, Told, Kept, Declined, EndsOnce, Heard, IsTrue, Unstored
<1> QED BY <1>2, <1>3, <1>4, OneMessage

\* The messages in a set end without an event: that of a client that has gone, or
\* all of them, with the process.
LEMMA SilentStep ==
  ASSUME StreamTypeOK, \A q \in Send : Good(q), NEW S \in SUBSET Send,
         \A q \in S : pc[q] # "ended" /\ q \in (left \cup cut)',
         cut \subseteq cut',
         pc' = [q \in Send |-> IF q \in S THEN "ended" ELSE pc[q]],
         UNCHANGED <<text, stop, refused, events, left, stored>>
  PROVE  StreamTypeOK' /\ \A q \in Send : Good(q)'
<1>1. StreamTypeOK'
  BY DEF StreamTypeOK
<1>2. ASSUME NEW q \in Send
      PROVE  Good(q)'
  <2>1. CASE q \in S
    BY <2>1, EndsSilently, StreamTypes
  <2>2. CASE q \notin S
    <3>1. pc'[q] = pc[q]
      BY <2>2
    <3> QED BY <3>1, Untouched
  <2> QED BY <2>1, <2>2
<1> QED BY <1>1, <1>2

-----------------------------------------------------------------------------
(* The process                                                              *)

\* Every step of a message keeps all messages good, and only Accept begins one.
LEMMA MessageStep ==
  ASSUME StreamTypeOK, UNCHANGED cut, \A q \in Send : Good(q), NEW r \in Send,
         Accept(r) \/ Upstream(r) \/ Handle(r) \/ Leave(r)
  PROVE  /\ StreamTypeOK' /\ \A q \in Send : Good(q)'
         /\ Accept(r) \/ Active(r)
<1> USE DEF Event
<1>1. CASE Accept(r)
  <2>1. Go(r, "idle", "checking") /\ UNCHANGED <<text, stop, refused, events, left, stored>>
    BY <1>1 DEF Accept
  <2>2. <<"idle", "checking">> \in {<<"idle", "checking">>, <<"checking", "streaming">>, <<"streaming", "storing">>}
    OBVIOUS
  <2>3. StreamTypeOK' /\ \A q \in Send : Good(q)'
    BY <2>1, <2>2, GoesOn
  <2> QED BY <1>1, <2>3
<1>2. CASE Begin(r)
  <2>1. Go(r, "checking", "streaming") /\ UNCHANGED <<text, stop, refused, events, left, stored>>
    BY <1>2 DEF Begin
  <2>2. <<"checking", "streaming">> \in {<<"idle", "checking">>, <<"checking", "streaming">>, <<"streaming", "storing">>}
    OBVIOUS
  <2>3. StreamTypeOK' /\ \A q \in Send : Good(q)'
    BY <2>1, <2>2, GoesOn
  <2> QED BY <2>1, <2>3 DEF Active, Go
<1>3. CASE Reject(r)
  BY <1>3, Ends DEF Reject, Active, Go
<1>4. CASE Delta(r)
  BY <1>4, DeltaStep DEF Delta, Active
<1>5. CASE Completed(r) \/ Refusal(r)
  BY <1>5, NotedStep DEF Completed, Refusal, Active
<1>6. CASE EndBody(r)
  <2>1. CASE refused[r]
    BY <1>6, <2>1, Ends DEF EndBody, AnswerFails, Active, Go
  <2>2. CASE ~refused[r]
    BY <1>6, <2>2, GoesOn DEF EndBody, Active, Go
  <2> QED BY <2>1, <2>2
<1>7. CASE StreamFails(r)
  BY <1>7, Ends DEF AnswerFails, StreamFails, Active, Go
<1>8. CASE StoreExchange(r)
  BY <1>8, StoreStep DEF StoreExchange, Active, Go
<1>9. CASE StoreFails(r)
  BY <1>9, Ends DEF StoreFails, Active, Go
<1>10. CASE TellDone(r)
  BY <1>10, Ends DEF TellDone, Active, Go
<1>11. CASE Leave(r)
  BY <1>11, LeaveStep DEF Leave
<1>12. CASE Cancelled(r)
  <2>1. pc' = [q \in Send |-> IF q \in {r} THEN "ended" ELSE pc[q]]
    BY <1>12, StreamTypes DEF Cancelled
  <2>2. UNCHANGED <<text, stop, refused, events, left, stored>>
    BY <1>12 DEF Cancelled
  <2>3. Active(r) /\ \A q \in {r} : pc[q] # "ended" /\ q \in (left \cup cut)'
    BY <1>12 DEF Cancelled, Active
  <2>4. {r} \in SUBSET Send
    OBVIOUS
  <2> QED BY <2>1, <2>2, <2>3, <2>4, SilentStep
<1> QED
  BY <1>1, <1>2, <1>3, <1>4, <1>5, <1>6, <1>7, <1>8, <1>9, <1>10, <1>11, <1>12
  DEF Upstream, Handle

\* A dying process ends all its messages without a word.
LEMMA DieStep ==
  ASSUME Inv, NEW with \in {"none", "ok", "error", "killed", "crashed"}, Die(with)
  PROVE  Inv'
<1>1. StreamTypeOK /\ \A q \in Send : Good(q)
  BY DEF Inv, TypeOK
<1>2. pc' = [q \in Send |-> IF q \in InFlight THEN "ended" ELSE pc[q]]
  BY DEF Die, InFlight
<1>3. /\ InFlight \in SUBSET Send
      /\ \A q \in InFlight : pc[q] # "ended" /\ q \in (left \cup cut)'
      /\ cut \subseteq cut'
      /\ UNCHANGED <<text, stop, refused, events, left, stored>>
  BY DEF InFlight, Active, Die
<1>4. StreamTypeOK' /\ \A q \in Send : Good(q)'
  BY <1>1, <1>2, <1>3, SilentStep
<1>5. TypeOK'
  BY <1>3, <1>4 DEF Inv, TypeOK, Die
<1> QED BY <1>4, <1>5 DEF Inv, Idle, Die

\* The other steps of the process leave the messages alone.
LEMMA ProcessStep ==
  ASSUME Inv, UNCHANGED <<vars, cut>>, TypeOK', Idle'
  PROVE  Inv'
<1>1. UNCHANGED <<pc, text, stop, refused, events, left, stored>>
  BY DEF vars
<1>2. \A q \in Send : Good(q)'
  BY <1>1, Untouched DEF Inv
<1> QED BY <1>2 DEF Inv

LEMMA InitInv == Init => Inv
<1> SUFFICES ASSUME Init PROVE Inv
  OBVIOUS
<1>1. TypeOK
  <2>1. <<>> \in Seq(Event)
    OBVIOUS
  <2>2. events \in [Send -> Seq(Event)]
    BY <2>1 DEF Init, StreamInit
  <2>3. text \in [Send -> 0 .. MaxDeltas]
    <3>1. 0 \in 0 .. MaxDeltas
      BY ChatStreamAssumption
    <3> QED BY <3>1 DEF Init, StreamInit
  <2>4. StreamTypeOK
    BY <2>2, <2>3 DEF Init, StreamInit, StreamTypeOK, StopReasons
  <2> QED BY <2>4, LifecycleAssumption DEF Init, TypeOK
<1>2. ASSUME NEW r \in Send PROVE Good(r)
  <2>1. /\ pc[r] = "idle" /\ text[r] = 0 /\ ~refused[r] /\ events[r] = <<>>
        /\ stored = {}
    BY DEF Init, StreamInit
  <2>2. DOMAIN events[r] = {} /\ Len(events[r]) = 0
    BY <2>1
  <2>3. Told(r) /\ EndsOnce(r)
    BY <2>1, <2>2 DEF Told, EndsOnce
  <2>4. Kept(r) /\ Declined(r) /\ Heard(r) /\ IsTrue(r)
    BY <2>1 DEF Kept, Declined, Heard, IsTrue, Unstored
  <2> QED BY <2>3, <2>4 DEF Good
<1> QED BY <1>1, <1>2 DEF Init, Inv, Idle

LEMMA NextInv == Inv /\ [Next]_all => Inv'
<1> SUFFICES ASSUME Inv, [Next]_all PROVE Inv'
  OBVIOUS
<1>0. /\ TypeOK /\ StreamTypeOK /\ Idle /\ \A q \in Send : Good(q)
      /\ Grace \in Nat /\ StopTimeout \in Nat
  BY LifecycleAssumption DEF Inv, TypeOK
<1>1. ASSUME NEW r \in Send, Connect(r) \/ FromUpstream(r) \/ Run(r) \/ ClientLeaves(r)
      PROVE  Inv'
  <2>1. UNCHANGED process
    BY <1>1 DEF Connect, FromUpstream, Run, ClientLeaves
  <2>2. Accept(r) \/ Upstream(r) \/ Handle(r) \/ Leave(r)
    BY <1>1 DEF Connect, FromUpstream, Run, ClientLeaves
  <2>3. /\ StreamTypeOK' /\ \A q \in Send : Good(q)'
        /\ Accept(r) \/ Active(r)
    BY <1>0, <2>1, <2>2, MessageStep DEF process
  <2>4. TypeOK'
    BY <1>0, <2>1, <2>3 DEF TypeOK, process
  <2>5. Idle'
    <3> SUFFICES ASSUME phase = "closing", code = "ok" PROVE FALSE
      BY <2>1 DEF Idle, process
    <3>1. ~Active(r)
      BY <1>0 DEF Idle, InFlight
    <3>2. ~Connect(r)
      BY DEF Connect
    <3> QED BY <1>0, <1>1, <3>1, <3>2, MessageStep DEF FromUpstream, Run, ClientLeaves, Upstream, Handle,
          Delta, Completed, Refusal, EndBody, AnswerFails, StreamFails, Reject, Begin, StoreExchange, StoreFails,
          TellDone, Cancelled, Leave, Go, Active
  <2> QED BY <2>3, <2>4, <2>5 DEF Inv
<1>2. ASSUME NEW by \in {"terminal", "runtime"}, Signal(by)
      PROVE  Inv'
  BY <1>0, <1>2, ProcessStep DEF Signal, TypeOK, StreamTypeOK, Idle, vars
<1>3. CASE Drained
  <2>1. TypeOK' /\ Idle'
    BY <1>0, <1>3 DEF Drained, TypeOK, StreamTypeOK, Idle, InFlight, Active, vars
  <2> QED BY <1>3, <2>1, ProcessStep DEF Drained
<1>4. CASE Deadline \/ ServeFails
  <2>1. TypeOK' /\ Idle'
    BY <1>0, <1>4 DEF Deadline, ServeFails, TypeOK, StreamTypeOK, Idle, vars
  <2> QED BY <1>4, <2>1, ProcessStep DEF Deadline, ServeFails
<1>5. CASE Tick
  <2>1. TypeOK' /\ Idle'
    BY <1>0, <1>5 DEF Tick, TypeOK, StreamTypeOK, Idle, vars
  <2> QED BY <1>5, <2>1, ProcessStep DEF Tick
<1>6. CASE Exit
  <2>1. code \in {"none", "ok", "error", "killed", "crashed"} /\ Die(code)
    BY <1>0, <1>6 DEF Exit, TypeOK
  <2> QED BY <2>1, DieStep
<1>7. CASE SecondSignal \/ RuntimeKills \/ Crash
  <2>1. Die("killed") \/ Die("crashed")
    BY <1>7 DEF SecondSignal, RuntimeKills, Crash
  <2> QED BY <2>1, DieStep
<1>8. CASE Restart
  <2>1. TypeOK' /\ Idle'
    BY <1>0, <1>8 DEF Restart, TypeOK, StreamTypeOK, Idle, vars
  <2> QED BY <1>8, <2>1, ProcessStep DEF Restart
<1>9. CASE UNCHANGED all
  <2>1. TypeOK' /\ Idle'
    BY <1>0, <1>9 DEF all, process, TypeOK, StreamTypeOK, Idle, InFlight, Active, vars
  <2> QED BY <1>9, <2>1, ProcessStep DEF all, process
<1> QED BY <1>1, <1>2, <1>3, <1>4, <1>5, <1>6, <1>7, <1>8, <1>9 DEF Next, End

\* Nothing takes a refusal back.
LEMMA RefusedStays ==
  ASSUME Inv, [Next]_all, NEW r \in Send, refused[r]
  PROVE  refused'[r]
<1>1. refused \in [Send -> BOOLEAN]
  BY StreamTypes DEF Inv, TypeOK
<1>2. refused' = refused \/ \E q \in Send : refused' = [refused EXCEPT ![q] = TRUE]
  BY DEF Next, End, Connect, FromUpstream, Run, ClientLeaves, all, vars, Upstream, Handle,
     Accept, Reject, Begin, Delta, Completed, Refusal, EndBody, AnswerFails, StreamFails, StoreExchange,
     StoreFails, TellDone, Cancelled, Leave, Signal, Drained, Deadline, Tick, ServeFails,
     Exit, SecondSignal, RuntimeKills, Crash, Die, Restart
<1> QED BY <1>1, <1>2

LEMMA SpecInv == Spec => []Inv
BY InitInv, NextInv, PTL DEF Spec

-----------------------------------------------------------------------------
(* Theorems                                                                 *)

\* The variables keep their types; the wait never goes past its deadline.
THEOREM TypeCorrect == Spec => []TypeOK
<1>1. Inv => TypeOK
  BY DEF Inv
<1> QED BY <1>1, SpecInv, PTL

\* done, error or a status is the last a client hears of its message, and it does
\* hear one, unless it has left or the process died.
THEOREM EventsEndOnceHolds == Spec => []EventsEndOnce
<1>1. Inv => EventsEndOnce
  BY DEF Inv, Good, EndsOnce, Heard, EventsEndOnce
<1> QED BY <1>1, SpecInv, PTL

\* A client that is told "done" has all of what is stored, one that is told of a
\* failure has nothing stored.
THEOREM OutcomeIsTrueHolds == Spec => []OutcomeIsTrue
<1>1. Inv => OutcomeIsTrue
  BY DEF Inv, Good, IsTrue, Unstored, OutcomeIsTrue
<1> QED BY <1>1, SpecInv, PTL

\* A declined message is neither stored nor told "done", whatever happens to it.
THEOREM RefusalIsFinalHolds == Spec => RefusalIsFinal
<1> DEFINE A == \A r \in Send : refused[r] =>
                   /\ refused'[r]
                   /\ \A x \in stored' \ stored : x.req # r
                   /\ events'[r] # Append(events[r], "done")
<1>1. Inv /\ Inv' /\ [Next]_all => [A]_vars
  <2> SUFFICES ASSUME Inv, Inv', [Next]_all, NEW r \in Send, refused[r]
               PROVE  /\ refused'[r]
                      /\ \A x \in stored' \ stored : x.req # r
                      /\ events'[r] # Append(events[r], "done")
    OBVIOUS
  <2>1. refused'[r]
    BY RefusedStays
  <2>2. Unstored(r)'
    BY <2>1 DEF Inv, Good, Declined
  <2>3. events'[r] # Append(events[r], "done")
    <3> SUFFICES ASSUME events'[r] = Append(events[r], "done") PROVE FALSE
      OBVIOUS
    <3>1. events[r] \in Seq(Event)
      BY StreamTypes DEF Inv, TypeOK
    <3>2. events'[r] # <<>> /\ Last(events'[r]) = "done"
      BY <3>1 DEF Last
    <3>3. \E x \in stored' : x.req = r
      BY <3>2 DEF Inv, Good, IsTrue
    <3> QED BY <2>2, <3>3 DEF Unstored
  <2> QED BY <2>1, <2>2, <2>3 DEF Unstored
<1>2. Spec => [][A]_vars
  BY <1>1, SpecInv, PTL DEF Spec
<1> QED BY <1>2 DEF RefusalIsFinal

\* A process that exits with success has cut no message off.
THEOREM CleanExitCutsNothingHolds == Spec => CleanExitCutsNothing
<1>1. Inv /\ [Next]_all => [phase' = "down" /\ code' = "ok" => cut' = cut]_all
  <2> SUFFICES ASSUME Inv, Next, phase' = "down", code' = "ok" PROVE cut' = cut
    OBVIOUS
  <2>1. CASE Exit
    <3>1. InFlight = {}
      BY <2>1 DEF Exit, Die, Inv, Idle
    <3> QED BY <2>1, <3>1 DEF Exit, Die
  <2>2. CASE SecondSignal \/ RuntimeKills \/ Crash
    BY <2>2 DEF SecondSignal, RuntimeKills, Crash, Die
  <2>3. CASE ~(Exit \/ SecondSignal \/ RuntimeKills \/ Crash)
    BY <2>3 DEF Next, End, Connect, FromUpstream, Run, ClientLeaves, process,
       Signal, Drained, Deadline, Tick, ServeFails, Restart
  <2> QED BY <2>1, <2>2, <2>3
<1> QED BY <1>1, SpecInv, PTL DEF Spec, CleanExitCutsNothing

-----------------------------------------------------------------------------
(* The way down                                                             *)

Stopping == phase \in {"draining", "closing"}

\* A bound on the steps of End that a process which has been told to stop has left.
StepsDown ==
    CASE phase = "draining" -> Grace - waited + 2
      [] phase = "closing"  -> 1
      [] OTHER              -> 0

\* Once told to stop, a process accepts nobody, does not come up again before it is
\* down, and each step of End brings that closer, whatever its messages do.
MovesDown ==
    Stopping =>
       /\ phase' = "down" \/ Stopping'
       /\ \A r \in Send : ~Active(r) => ~Active(r)'
       /\ StepsDown \in Nat \ {0}
       /\ StepsDown' \in 0 .. StepsDown
       /\ End => StepsDown' < StepsDown

StopMovesOn == [][MovesDown]_all

\* The deadline does not depend on the messages, so what SignalEndsProcess needs
\* besides is that the clock runs and main returns.
THEOREM StopMovesOnHolds == Spec => StopMovesOn
<1>1. ASSUME Inv, Inv', [Next]_all, Stopping
      PROVE  MovesDown
  <2>0. /\ waited \in 0 .. Grace /\ waited' \in 0 .. Grace /\ Grace \in Nat
        /\ StreamTypeOK
    BY <1>1, LifecycleAssumption DEF Inv, TypeOK
  <2>1. StepsDown \in Nat \ {0}
    BY <1>1, <2>0 DEF Stopping, StepsDown
  <2>2. ASSUME NEW r \in Send, FromUpstream(r) \/ Run(r) \/ ClientLeaves(r)
        PROVE  UNCHANGED <<phase, waited>> /\ \A q \in Send : ~Active(q) => ~Active(q)'
    <3>1. UNCHANGED process
      BY <2>2 DEF FromUpstream, Run, ClientLeaves
    <3>2. Active(r)
      BY <2>2
      DEF FromUpstream, Run, ClientLeaves, Upstream, Handle, Delta, Completed, Refusal, EndBody,
          AnswerFails, StreamFails, Reject, Begin, StoreExchange, StoreFails, TellDone, Cancelled, Leave, Go, Active
    <3>3. \A q \in Send : q # r => pc'[q] = pc[q]
      BY <2>0, <2>2
      DEF StreamTypeOK, FromUpstream, Run, ClientLeaves, Upstream, Handle, Delta, Completed, Refusal,
          EndBody, AnswerFails, StreamFails, Reject, Begin, StoreExchange, StoreFails, TellDone, Cancelled, Leave, Go
    <3> QED BY <3>1, <3>2, <3>3 DEF process, Active
  <2>3. ~(\E r \in Send : Connect(r)) /\ ~(\E by \in {"terminal", "runtime"} : Signal(by))
        /\ ~ServeFails /\ ~Restart
    BY <1>1 DEF Stopping, Connect, Signal, ServeFails, Restart
  <2>4. ASSUME UNCHANGED vars PROVE \A q \in Send : ~Active(q) => ~Active(q)'
    BY <2>4 DEF vars, Active
  <2>5. CASE Exit \/ SecondSignal \/ RuntimeKills \/ Crash
    <3>1. PICK with \in {code, "killed", "crashed"} : Die(with)
      BY <2>5 DEF Exit, SecondSignal, RuntimeKills, Crash
    <3>2. phase' = "down" /\ \A q \in Send : ~Active(q)'
      BY <3>1 DEF Die, Active
    <3>3. StepsDown' = 0
      BY <3>2 DEF StepsDown
    <3> QED BY <2>1, <3>2, <3>3 DEF MovesDown
  <2>6. CASE Tick
    <3>1. phase = "draining" /\ phase' = "draining" /\ waited' = waited + 1 /\ UNCHANGED vars
      BY <2>6 DEF Tick
    <3>2. StepsDown = Grace - waited + 2 /\ StepsDown' = Grace - waited' + 2
      BY <3>1 DEF StepsDown
    <3> QED BY <2>0, <2>1, <2>4, <3>1, <3>2 DEF Stopping, MovesDown
  <2>7. CASE Deadline \/ Drained
    <3>1. phase = "draining" /\ phase' = "closing" /\ UNCHANGED vars
      BY <2>7 DEF Deadline, Drained
    <3>2. StepsDown = Grace - waited + 2 /\ StepsDown' = 1
      BY <3>1 DEF StepsDown
    <3> QED BY <2>0, <2>1, <2>4, <3>1, <3>2 DEF Stopping, MovesDown
  <2>8. ASSUME UNCHANGED <<phase, waited>>
        PROVE  /\ phase' = "down" \/ Stopping'
               /\ StepsDown' = StepsDown
               /\ ~End
    <3>1. StepsDown' = StepsDown
      BY <2>8 DEF StepsDown
    <3>2. ~End
      BY <1>1, <2>0, <2>8 DEF Stopping, End, Deadline, Tick, Exit, RuntimeKills, Die
    <3> QED BY <1>1, <2>8, <3>1, <3>2 DEF Stopping
  <2>9. CASE UNCHANGED all
    BY <2>1, <2>4, <2>8, <2>9 DEF all, process, MovesDown
  <2>10. CASE \E r \in Send : FromUpstream(r) \/ Run(r) \/ ClientLeaves(r)
    BY <2>1, <2>2, <2>8, <2>10 DEF MovesDown
  <2> QED BY <1>1, <2>3, <2>5, <2>6, <2>7, <2>9, <2>10 DEF Next, End
<1>2. Inv /\ Inv' /\ [Next]_all => MovesDown
  BY <1>1 DEF MovesDown
<1> QED BY <1>2, SpecInv, PTL DEF Spec, StopMovesOn

=============================================================================
