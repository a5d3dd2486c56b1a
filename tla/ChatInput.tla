----------------------------- MODULE ChatInput -----------------------------
(***************************************************************************)
(* What the model is shown: internal/chat/history.go and openai_input.go,  *)
(* over a conversation that grows while turns overlap.                     *)
(*                                                                         *)
(* A turn reads the history in two SELECTs (Messages), then pantry and     *)
(* journal (loadMemory, modelled in Kitchen), and only then calls the      *)
(* model.  When the answer is complete the exchange goes to the end of the *)
(* history in one step (AppendExchange, modelled in Conversations).        *)
(* Between any two of these steps other turns of the conversation read,    *)
(* call and store, so calls need not go up in the order in which their     *)
(* histories were read.  The words of a message stand for its id, and so   *)
(* do its photos.                                                          *)
(***************************************************************************)
EXTENDS Integers, Sequences, FiniteSets

CONSTANTS
    Turn,            \* sends in flight on the conversation
    Memory,          \* what the pantry and journal may have to say
    NoMemory,        \* nothing: an empty block
    KeepMessages,    \* keepMessages
    TrimStep,        \* trimStep
    PhotoMessages,   \* photoMessages
    MaxMessages,     \* bound: the longest history
    MaxWithPhotos,   \* bound: messages with photos in a history
    MaxLag           \* bound: messages stored while a turn gets ready to call

ASSUME ChatInputAssumption ==
    /\ NoMemory \notin Memory
    /\ KeepMessages \in Nat \ {0}
    /\ TrimStep \in Nat \ {0}
    /\ TrimStep % 2 = 0
    /\ PhotoMessages \in Nat \ {0}
    /\ MaxMessages \in Nat
    /\ MaxWithPhotos \in Nat
    /\ MaxLag \in Nat

VARIABLES
    history,   \* the messages of the conversation, oldest first
    deleted,   \* the conversation is gone
    at,        \* where a turn is
    asked,     \* of a turn: whether its message has photos
    since,     \* of a turn: the newest message when it arrived
    read,      \* of a turn: the messages it has read
    sent       \* the input of the latest upstream call; empty before the first

vars == <<history, deleted, at, asked, since, read, sent>>

\* arrived: the conversation was found, its messages are to be read; rows: their
\* photos are to be read; ready: before the call; called: waiting for the answer.
Stages == {"idle", "arrived", "rows", "ready", "called"}

Role == {"user", "assistant"}

\* id is 0 for the message that is being sent.
Message == [id : Nat, role : Role, photos : SUBSET Nat]

InputMessage ==
    [id : Nat, role : Role, images : SUBSET Nat, noted : SUBSET Nat, memory : Memory \cup {NoMemory}]

-----------------------------------------------------------------------------
(* chat.recent                                                              *)

\* Trimming to a fixed length, one message at a time.
WindowStartSliding(n) == IF n > KeepMessages THEN n - KeepMessages ELSE 0

\* Rounding up instead.
WindowStartRoundedUp(n) ==
    IF n > KeepMessages THEN ((n - KeepMessages + TrimStep - 1) \div TrimStep) * TrimStep ELSE 0

\* How many of n messages are dropped: extra / trimStep * trimStep.
WindowStart(n) ==
    IF n > KeepMessages THEN ((n - KeepMessages) \div TrimStep) * TrimStep ELSE 0

\* Where the loop that skips answers at the beginning stops.
FirstUser(h) ==
    CHOOSE i \in 1 .. Len(h) :
       /\ h[i].role = "user" \/ i = Len(h)
       /\ \A j \in 1 .. i - 1 : h[j].role # "user"

Recent(h) ==
    LET trimmed == SubSeq(h, WindowStart(Len(h)) + 1, Len(h))
    IN  SubSeq(trimmed, FirstUser(trimmed), Len(trimmed))

-----------------------------------------------------------------------------
(* chat.buildInput                                                          *)

\* Photos go along with the newest messages; older ones leave a note.
ShowsPhotos(i, n) == n - (i - 1) <= PhotoMessages

\* With every message of the user.
MemoryAtEveryUser(i, n, memory) == IF i % 2 = 1 THEN memory ELSE NoMemory

\* The pantry and journal of the day, with the latest message.
MemoryAt(i, n, memory) == IF i = n THEN memory ELSE NoMemory

BuildInput(h, memory) ==
    LET window == Recent(h)
        n == Len(window)
    IN  [i \in 1 .. n |->
            [id |-> window[i].id,
             role |-> IF window[i].role = "assistant" THEN "assistant" ELSE "user",
             images |-> IF ShowsPhotos(i, n) THEN window[i].photos ELSE {},
             noted |-> IF ShowsPhotos(i, n) THEN {} ELSE window[i].photos,
             memory |-> MemoryAt(i, n, memory)]]

-----------------------------------------------------------------------------
Init ==
    /\ history = <<>>
    /\ deleted = FALSE
    /\ at = [t \in Turn |-> "idle"]
    /\ asked = [t \in Turn |-> FALSE]
    /\ since = [t \in Turn |-> 0]
    /\ read = [t \in Turn |-> <<>>]
    /\ sent = <<>>

Photos(id, photos) == IF photos THEN {id} ELSE {}

NewMessage(photos) == [id |-> 0, role |-> "user", photos |-> Photos(0, photos)]

WithPhotos == {i \in 1 .. Len(history) : history[i].photos # {}}

\* A message for a conversation that is found.
Arrive(t, photos) ==
    /\ at[t] = "idle"
    /\ ~deleted
    /\ photos => Cardinality(WithPhotos) < MaxWithPhotos
    /\ at' = [at EXCEPT ![t] = "arrived"]
    /\ asked' = [asked EXCEPT ![t] = photos]
    /\ since' = [since EXCEPT ![t] = Len(history)]
    /\ UNCHANGED <<history, deleted, read, sent>>

\* The first SELECT of Messages.
ReadMessages(t) ==
    /\ at[t] = "arrived"
    /\ at' = [at EXCEPT ![t] = "rows"]
    /\ read' = [read EXCEPT ![t] = [i \in 1 .. Len(history) |-> [history[i] EXCEPT !.photos = {}]]]
    /\ UNCHANGED <<history, deleted, asked, since, sent>>

\* index[messageID] is 0 for a message that the first SELECT did not return.
Strays(rows, h) == UNION {h[i].photos : i \in Len(rows) + 1 .. Len(h)}

Attached(rows, h) ==
    [i \in 1 .. Len(rows) |->
        [rows[i] EXCEPT !.photos = (IF i <= Len(h) THEN h[i].photos ELSE {})
                                   \cup (IF i = 1 THEN Strays(rows, h) ELSE {})]]

\* The second SELECT of Messages.  A photo for a conversation that was read as
\* empty is an index out of range: the handler panics, and the turn is Abandoned.
AttachPhotos(t) ==
    /\ at[t] = "rows"
    /\ read[t] = <<>> => Strays(<<>>, history) = {}
    /\ at' = [at EXCEPT ![t] = "ready"]
    /\ read' = [read EXCEPT ![t] = Attached(read[t], history)]
    /\ UNCHANGED <<history, deleted, asked, since, sent>>

\* Stream: the call goes upstream, some time after the history was read.
Call(t, memory) ==
    /\ at[t] = "ready"
    /\ at' = [at EXCEPT ![t] = "called"]
    /\ sent' = BuildInput(Append(read[t], NewMessage(asked[t])), memory)
    /\ read' = [read EXCEPT ![t] = <<>>]
    /\ since' = [since EXCEPT ![t] = 0]
    /\ UNCHANGED <<history, deleted, asked>>

\* The answer first.
GrownAnswerFirst(h, photos) ==
    h \o <<[id |-> Len(h) + 1, role |-> "assistant", photos |-> {}],
           [id |-> Len(h) + 2, role |-> "user", photos |-> Photos(Len(h) + 2, photos)]>>

\* With a message that has no role.
GrownWithoutRole(h, photos) ==
    h \o <<[id |-> Len(h) + 1, role |-> "", photos |-> Photos(Len(h) + 1, photos)],
           [id |-> Len(h) + 2, role |-> "assistant", photos |-> {}]>>

\* AppendExchange.
Grown(h, photos) ==
    h \o <<[id |-> Len(h) + 1, role |-> "user", photos |-> Photos(Len(h) + 1, photos)],
           [id |-> Len(h) + 2, role |-> "assistant", photos |-> {}]>>

WithinLag ==
    \A t \in Turn : at[t] \in {"arrived", "rows", "ready"} => Len(history) + 2 <= since[t] + MaxLag

Leave(t) ==
    /\ at' = [at EXCEPT ![t] = "idle"]
    /\ asked' = [asked EXCEPT ![t] = FALSE]
    /\ since' = [since EXCEPT ![t] = 0]
    /\ read' = [read EXCEPT ![t] = <<>>]
    /\ UNCHANGED <<deleted, sent>>

\* The answer is complete, and the exchange is stored.
Store(t) ==
    /\ at[t] = "called"
    /\ ~deleted
    /\ Len(history) + 2 <= MaxMessages
    /\ WithinLag
    /\ history' = Grown(history, asked[t])
    /\ Leave(t)

\* The turn fails wherever it is, or its client leaves.
Abandon(t) ==
    /\ at[t] # "idle"
    /\ Leave(t)
    /\ UNCHANGED history

\* The conversation is deleted; turns in progress find it empty.
Delete ==
    /\ ~deleted
    /\ deleted' = TRUE
    /\ history' = <<>>
    /\ UNCHANGED <<at, asked, since, read, sent>>

-----------------------------------------------------------------------------
Next ==
    \/ \E t \in Turn, photos \in BOOLEAN : Arrive(t, photos)
    \/ \E t \in Turn, memory \in Memory \cup {NoMemory} : Call(t, memory)
    \/ \E t \in Turn : ReadMessages(t) \/ AttachPhotos(t) \/ Store(t) \/ Abandon(t)
    \/ Delete

Spec == Init /\ [][Next]_vars

-----------------------------------------------------------------------------
(* Properties                                                               *)

\* Every variable has its type.
TypeOK ==
    /\ history \in Seq(Message)
    /\ deleted \in BOOLEAN
    /\ at \in [Turn -> Stages]
    /\ asked \in [Turn -> BOOLEAN]
    /\ since \in [Turn -> Nat]
    /\ read \in [Turn -> Seq(Message)]
    /\ sent \in Seq(InputMessage)

IsWindow(in) ==
    LET n == Len(in)
    IN  n > 0 =>
           /\ in[n].id = 0
           /\ \A i \in 1 .. n - 2 : in[i + 1].id = in[i].id + 1
           /\ in[1].id \notin {0, 1} => n >= KeepMessages
           /\ n < KeepMessages + TrimStep

\* The last stored message that an input shows.
Newest(in) == IF Len(in) > 1 THEN in[Len(in) - 1].id ELSE 0

Calls(t) == at[t] = "ready" /\ at'[t] = "called"

\* What a call shows the model is a part of the conversation without a gap, the
\* new message last and before it nothing older than the newest there was when
\* the turn arrived, whatever was stored and called since; a trimmed
\* conversation is shown with KeepMessages messages at least, and no input grows
\* to KeepMessages and a TrimStep.
WindowIsRecent ==
    [][/\ IsWindow(sent')
       /\ \A t \in Turn : Calls(t) /\ ~deleted => Newest(sent') >= since[t]]_<<at, sent>>

\* The input starts on a user message and the roles take turns, whichever turns
\* overlapped, failed, were stored or called first.
RolesTakeTurns ==
    \A i \in 1 .. Len(sent) : sent[i].role = IF i % 2 = 1 THEN "user" ELSE "assistant"

SameStart(a, b) == a # <<>> /\ b # <<>> /\ a[1].id = b[1].id

\* Both are the first message and say the same, but one has, besides its own,
\* photos of later messages: a commit between the two SELECTs left them there.
GoneAstray(a, b) ==
    /\ \A m \in {a, b} : /\ m.id = 1 /\ m.role = "user" /\ m.memory = NoMemory
                         /\ history[1].photos \subseteq m.images \cup m.noted
    /\ \E m \in {a, b} : history[1].photos # m.images \cup m.noted

\* Two calls in a row whose windows start alike say the same, but for the last
\* PhotoMessages messages of the shorter, whichever of the two read its history
\* first: that prefix the provider can serve from its cache.  The one exception
\* is a first message with photos gone astray.
PrefixSurvives ==
    [][SameStart(sent, sent') /\ ~deleted =>
          \A i \in 1 .. Len(sent) - PhotoMessages :
             i <= Len(sent') - PhotoMessages =>
                \/ sent'[i] = sent[i]
                \/ GoneAstray(sent'[i], sent[i])]_sent

\* From a call to the next the window stays, moves forward by TrimStep messages
\* or more, or goes back as far for a turn that read its history before an
\* exchange that the earlier call showed was stored: never for one that read as
\* much.  So the cached prefix survives most turns.
WindowMovesInJumps ==
    [][Len(sent) > 1 /\ Len(sent') > 1 /\ ~SameStart(sent, sent') =>
          \/ /\ Newest(sent') > Newest(sent)
             /\ sent'[1].id >= sent[1].id + TrimStep
          \/ /\ Newest(sent') < Newest(sent)
             /\ sent[1].id >= sent'[1].id + TrimStep]_sent

=============================================================================
