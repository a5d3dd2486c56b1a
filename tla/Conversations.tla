--------------------------- MODULE Conversations ---------------------------
(***************************************************************************)
(* Conversations, their messages and photos: the store of                  *)
(* internal/store and the HTTP handlers of internal/api over it.           *)
(*                                                                         *)
(* A handler is a goroutine.  It runs one step at a time, and other        *)
(* handlers, the clients and a crash of the process come in between.  A    *)
(* step is one SQL statement (in WAL mode each autocommit statement reads  *)
(* one snapshot of what is committed), one call upstream, or one answer to *)
(* the client.  SQLite has one writer at a time: the request whose         *)
(* transaction holds the write lock is `writer`, what it has written so    *)
(* far is `tx`, and nobody else sees it before Commit.                     *)
(***************************************************************************)
EXTENDS Integers

CONSTANTS
    Owner,       \* accounts (emails) that may sign in
    Conv,        \* the ids rand.Text may draw
    Senders,     \* POST /conversations/{id}/messages requests
    Readers,     \* GET /conversations/{id}/messages requests
    None,        \* no account, no request
    MaxPhotos,   \* maxImages: the most photos one message carries
    MaxCrashes   \* bound: how often the process dies

Req == Senders \cup Readers

ASSUME ConversationsAssumption ==
    /\ Senders \cap Readers = {}
    /\ None \notin Owner \cup Req
    /\ Req \cap {"", "Photo"} = {}
    /\ MaxPhotos \in Nat
    /\ MaxCrashes \in Nat

VARIABLES
    \* the tables, as committed
    owner,       \* conversations.owner; None: there is no such row
    title,       \* conversations.title
    fresh,       \* ids rand.Text has not drawn yet
    messages,    \* rows of messages
    images,      \* rows of images
    lastMsg,     \* sqlite_sequence of messages (AUTOINCREMENT)
    lastImg,     \* sqlite_sequence of images
    \* the transaction in progress
    writer,      \* the request that holds the write lock, or None
    tx,          \* its uncommitted writes
    \* the requests
    pc,          \* where the handler is
    input,       \* what the client asked for
    left,        \* requests whose context is cancelled: the client has gone
    hist,        \* what Messages has read for the request
    stop,        \* how the upstream stream ended
    told,        \* the title sent in the done event
    reply,       \* the answer the client got; "none" while there is none
    \* outside the server
    served,      \* photos a browser keeps without asking again (Cache-Control: immutable)
    crashes      \* how often the process has died

tables == <<owner, title, fresh, messages, images, lastMsg, lastImg>>
lock == <<writer, tx>>
vars == <<tables, lock, pc, input, left, hist, stop, told, reply, served, crashes>>

-----------------------------------------------------------------------------
(* The rows and records                                                     *)

Title == {"", "Photo"} \cup Req     \* a request stands for the text it carries

\* A message row; req is the request that inserted it, and with role it stands
\* for the text.
Message == [id : Nat, conv : Conv, role : {"user", "assistant"}, req : Senders]

\* An image row; req and nth stand for the bytes.
Image == [id : Nat, msg : Nat, req : Senders, nth : Nat]

Write == [title : Title, msgs : SUBSET Message, imgs : SUBSET Image, lastMsg : Nat, lastImg : Nat]

NoWrites == [title |-> "", msgs |-> {}, imgs |-> {}, lastMsg |-> 0, lastImg |-> 0]

Text == {"", "text"}                \* empty, or not

Input == [owner : Owner \cup {None}, conv : Conv \cup {None}, text : Text, photos : Nat]

NoInput == [owner |-> None, conv |-> None, text |-> "", photos |-> 0]

NothingRead == [msgs |-> {}, photos |-> {}]

\* What titleFrom makes of a request's message: its text, or "Photo" without one.
TitleFrom(r) == IF input[r].text = "" THEN "Photo" ELSE r

RowsOf(c) == {m \in messages : m.conv = c}

IdsOf(rows) == {m.id : m \in rows}

IsFirst(m, rows) == \A n \in rows : m.id <= n.id

InTx(r) == pc[r] \in {"user", "images", "commit"}

Active(r) == pc[r] \notin {"idle", "finished"}

-----------------------------------------------------------------------------
Init ==
    /\ owner = [c \in Conv |-> None]
    /\ title = [c \in Conv |-> ""]
    /\ fresh = Conv
    /\ messages = {}
    /\ images = {}
    /\ lastMsg = 0
    /\ lastImg = 0
    /\ writer = None
    /\ tx = NoWrites
    /\ pc = [r \in Req |-> "idle"]
    /\ input = [r \in Req |-> NoInput]
    /\ left = {}
    /\ hist = [r \in Req |-> NothingRead]
    /\ stop = [r \in Req |-> "none"]
    /\ told = [r \in Req |-> ""]
    /\ reply = [r \in Req |-> "none"]
    /\ served = {}
    /\ crashes = 0

-----------------------------------------------------------------------------
(* Single statements over the tables                                        *)

\* createConversation: a row under a new random id, without a title.
Create(o) ==
    /\ writer = None
    /\ \E c \in fresh :
          /\ fresh' = fresh \ {c}
          /\ owner' = [owner EXCEPT ![c] = o]
    /\ UNCHANGED <<title, messages, images, lastMsg, lastImg, lock, pc, input,
                   left, hist, stop, told, reply, served, crashes>>

\* All of them: foreign keys are off unless each connection asks for them.
ImagesKeptWithoutForeignKeys(c) == images

\* What ON DELETE CASCADE leaves of the photos when the messages go.
ImagesKept(c) == {i \in images : i.msg \notin IdsOf(RowsOf(c))}

\* deleteConversation: the row goes, the schema's cascades take the rest.
Delete(o, c) ==
    /\ writer = None
    /\ owner[c] = o
    /\ owner' = [owner EXCEPT ![c] = None]
    /\ title' = [title EXCEPT ![c] = ""]
    /\ messages' = messages \ RowsOf(c)
    /\ images' = ImagesKept(c)
    /\ UNCHANGED <<fresh, lastMsg, lastImg, lock, pc, input, left, hist, stop,
                   told, reply, served, crashes>>

\* The join of store.Image: a photo is o's when its message's conversation is.
MayFetch(o, i) == \E m \in messages : m.id = i.msg /\ owner[m.conv] = o

\* getImage answers with the photo and has the browser keep it.
GetImage(o, i) ==
    /\ MayFetch(o, i)
    /\ served' = served \cup {[owner |-> o, id |-> i.id, req |-> i.req, nth |-> i.nth]}
    /\ UNCHANGED <<tables, lock, pc, input, left, hist, stop, told, reply, crashes>>

-----------------------------------------------------------------------------
(* How a handler ends                                                       *)

\* The answer goes out, unless nobody is there to take it.
Tell(r, answer) == reply' = [reply EXCEPT ![r] = IF r \in left THEN "none" ELSE answer]

Finish(r, answer) ==
    /\ Tell(r, answer)
    /\ pc' = [pc EXCEPT ![r] = "finished"]

\* A rollback of statements that had been autocommitted.
RollbackTooLate(r) ==
    IF writer = r
    THEN /\ writer' = None
         /\ tx' = NoWrites
         /\ messages' = messages \cup tx.msgs
         /\ images' = images \cup tx.imgs
         /\ lastMsg' = tx.lastMsg
         /\ lastImg' = tx.lastImg
         /\ UNCHANGED <<owner, title, fresh>>
    ELSE UNCHANGED <<tables, lock>>

\* A return path without the deferred rollback keeps the lock.
RollbackForgotten(r) == UNCHANGED <<tables, lock>>

\* defer tx.Rollback(): nothing the transaction wrote survives.
Rollback(r) ==
    IF writer = r
    THEN /\ writer' = None
         /\ tx' = NoWrites
         /\ UNCHANGED tables
    ELSE UNCHANGED <<tables, lock>>

-----------------------------------------------------------------------------
(* Reading: store.Messages, shared by listMessages and sendMessage          *)

\* What a send may carry.
Bodies == [text : Text, photos : 0 .. MaxPhotos + 1]

\* buildUserMessage: a text or a photo, and not too many photos.
Valid(body) == (body.text # "" \/ body.photos > 0) /\ body.photos <= MaxPhotos

\* A request comes in, signed in as o.
Arrive(r, o, c, text, photos) ==
    /\ pc[r] = "idle"
    /\ input' = [input EXCEPT ![r] = [owner |-> o, conv |-> c, text |-> text, photos |-> photos]]
    /\ pc' = [pc EXCEPT ![r] = "lookup"]
    /\ UNCHANGED <<tables, lock, left, hist, stop, told, reply, served, crashes>>

ArriveRead(r, o, c) == Arrive(r, o, c, "", 0)

ArriveSend(r, o, c, body) == Valid(body) /\ Arrive(r, o, c, body.text, body.photos)

\* A body that does not decode or is not valid.
RefuseBody(r, body) ==
    /\ pc[r] = "idle"
    /\ ~Valid(body)
    /\ Finish(r, "400")
    /\ UNCHANGED <<tables, lock, input, left, hist, stop, told, served, crashes>>

\* WHERE id = ? alone.
FindsAnyOwners(r) == owner[input[r].conv] # None

\* What the statement WHERE id = ? AND owner = ? finds.
Finds(r) == owner[input[r].conv] = input[r].owner

Lookup(r) ==
    /\ pc[r] = "lookup"
    /\ IF Finds(r)
       THEN /\ pc' = [pc EXCEPT ![r] = "select"]
            /\ UNCHANGED reply
       ELSE Finish(r, "404")
    /\ UNCHANGED <<tables, lock, input, left, hist, stop, told, served, crashes>>

\* The rows a reader's snapshot holds: what is committed, no more.
Snapshot(c) == RowsOf(c)

SelectMessages(r) ==
    /\ pc[r] = "select"
    /\ hist' = [hist EXCEPT ![r].msgs = Snapshot(input[r].conv)]
    /\ pc' = [pc EXCEPT ![r] = "attach"]
    /\ UNCHANGED <<tables, lock, input, left, stop, told, reply, served, crashes>>

\* The second SELECT has a snapshot of its own.
PhotoRows(r) == {i \in images : i.msg \in IdsOf(RowsOf(input[r].conv))}

\* The index taken after the message was appended: the photo goes to the next one.
AttachedOffByOne(i, m, rows) == IF i.msg \in IdsOf(rows) THEN m.id = i.msg + 1 ELSE IsFirst(m, rows)

\* messages[index[messageID]]: for an id that the first SELECT did not return,
\* the map answers 0 and the photo goes to the first message.
AttachedTo(i, m, rows) == IF i.msg \in IdsOf(rows) THEN m.id = i.msg ELSE IsFirst(m, rows)

\* The pairs of a photo and the message it ends up on.
Attachments(r) ==
    {pair \in PhotoRows(r) \X hist[r].msgs : AttachedTo(pair[1], pair[2], hist[r].msgs)}

AttachPhotos(r) ==
    /\ pc[r] = "attach"
    /\ hist[r].msgs # {} \/ PhotoRows(r) = {}
    /\ hist' = [hist EXCEPT ![r].photos =
                   {[image |-> p[1].id, of |-> p[1].msg, on |-> p[2].id] : p \in Attachments(r)}]
    /\ IF r \in Senders
       THEN /\ pc' = [pc EXCEPT ![r] = "memory"]
            /\ UNCHANGED reply
       ELSE Finish(r, "messages")
    /\ UNCHANGED <<tables, lock, input, left, stop, told, served, crashes>>

\* messages[0] of an empty slice: recoverPanics turns the panic into a 500.
AttachPanics(r) ==
    /\ pc[r] = "attach"
    /\ hist[r].msgs = {} /\ PhotoRows(r) # {}
    /\ Finish(r, "panic")
    /\ UNCHANGED <<tables, lock, input, left, hist, stop, told, served, crashes>>

-----------------------------------------------------------------------------
(* Sending: the upstream stream, then the exchange in one transaction       *)

\* loadMemory reads pantry and journal (Kitchen), the last that can fail with a
\* status; meanwhile the conversation goes on.
LoadMemory(r) ==
    /\ pc[r] = "memory"
    /\ pc' = [pc EXCEPT ![r] = "stream"]
    /\ UNCHANGED <<tables, lock, input, left, hist, stop, told, reply, served, crashes>>

\* chat.Stream returns without an error: after response.completed ("ended"),
\* or at the end of a body that never said so ("cut").
StreamAnswers(r, how) ==
    /\ pc[r] = "stream"
    /\ how \in {"ended", "cut"}
    /\ stop' = [stop EXCEPT ![r] = how]
    /\ pc' = [pc EXCEPT ![r] = "update"]
    /\ UNCHANGED <<tables, lock, input, left, hist, told, reply, served, crashes>>

\* The upstream fails, or refuses: an error event.
StreamFails(r) ==
    /\ pc[r] = "stream"
    /\ Finish(r, "error")
    /\ UNCHANGED <<tables, lock, input, left, hist, stop, told, served, crashes>>

\* Each send names the conversation.
NewTitleAlways(r) == TitleFrom(r)

\* CASE WHEN title = '' THEN ? ELSE title END
NewTitle(r) == IF title[input[r].conv] = "" THEN TitleFrom(r) ELSE title[input[r].conv]

\* The row is looked up before the transaction, which has no lock yet.
UpdateConversationUnlocked(r) ==
    /\ pc[r] = "update"
    /\ Finds(r)
    /\ tx' = [title |-> NewTitle(r), msgs |-> {}, imgs |-> {}, lastMsg |-> lastMsg, lastImg |-> lastImg]
    /\ pc' = [pc EXCEPT ![r] = "user"]
    /\ UNCHANGED <<tables, writer, input, left, hist, stop, told, reply, served, crashes>>

\* UPDATE conversations: the first write of the transaction, so it takes the lock.
UpdateConversation(r) ==
    /\ pc[r] = "update"
    /\ writer = None
    /\ Finds(r)
    /\ writer' = r
    /\ tx' = [title |-> NewTitle(r), msgs |-> {}, imgs |-> {}, lastMsg |-> lastMsg, lastImg |-> lastImg]
    /\ pc' = [pc EXCEPT ![r] = "user"]
    /\ UNCHANGED <<tables, input, left, hist, stop, told, reply, served, crashes>>

\* RowsAffected is 0: the conversation was deleted while the model answered.
ConversationGone(r) ==
    /\ pc[r] = "update"
    /\ writer = None
    /\ ~Finds(r)
    /\ Finish(r, "error")
    /\ UNCHANGED <<tables, lock, input, left, hist, stop, told, served, crashes>>

\* Without the CHECK on messages.role, under the name another API has for it.
AppendModel(r, role) ==
    tx' = [tx EXCEPT !.msgs = @ \cup {[id |-> tx.lastMsg + 1, conv |-> input[r].conv,
                                       role |-> IF role = "assistant" THEN "model" ELSE role,
                                       req |-> r]},
                     !.lastMsg = @ + 1]

\* Inserting into messages within the transaction.
Append(r, role) ==
    tx' = [tx EXCEPT !.msgs = @ \cup {[id |-> tx.lastMsg + 1, conv |-> input[r].conv,
                                       role |-> role, req |-> r]},
                     !.lastMsg = @ + 1]

InsertUser(r) ==
    /\ pc[r] = "user"
    /\ Append(r, "user")
    /\ pc' = [pc EXCEPT ![r] = "images"]
    /\ UNCHANGED <<tables, writer, input, left, hist, stop, told, reply, served, crashes>>

\* A plain INTEGER PRIMARY KEY would take the largest id now in the table.
NextImageAfterMax ==
    LET ids == {i.id : i \in images \cup tx.imgs}
    IN  IF ids = {} THEN 1 ELSE (CHOOSE n \in ids : \A k \in ids : k <= n) + 1

\* AUTOINCREMENT: an id above every id the table ever held.
NextImage == tx.lastImg + 1

\* The loop over user.Images; tx.lastMsg is the LastInsertId of the user row.
InsertImage(r) ==
    /\ pc[r] = "images"
    /\ tx.lastImg - lastImg < input[r].photos
    /\ tx' = [tx EXCEPT !.imgs = @ \cup {[id |-> NextImage, msg |-> tx.lastMsg,
                                          req |-> r, nth |-> tx.lastImg - lastImg + 1]},
                        !.lastImg = @ + 1]
    /\ UNCHANGED <<tables, writer, pc, input, left, hist, stop, told, reply, served, crashes>>

InsertAnswer(r) ==
    /\ pc[r] = "images"
    /\ tx.lastImg - lastImg = input[r].photos
    /\ Append(r, "assistant")
    /\ pc' = [pc EXCEPT ![r] = "commit"]
    /\ UNCHANGED <<tables, writer, input, left, hist, stop, told, reply, served, crashes>>

Commit(r) ==
    /\ pc[r] = "commit"
    /\ title' = [title EXCEPT ![input[r].conv] = tx.title]
    /\ messages' = messages \cup tx.msgs
    /\ images' = images \cup tx.imgs
    /\ lastMsg' = tx.lastMsg
    /\ lastImg' = tx.lastImg
    /\ writer' = None
    /\ tx' = NoWrites
    /\ pc' = [pc EXCEPT ![r] = "reply"]
    /\ UNCHANGED <<owner, fresh, input, left, hist, stop, told, reply, served, crashes>>

\* The done event.  Its title is read again, outside the transaction; if the
\* conversation is gone by then, or the read fails, the title is blank.
SendDone(r) ==
    /\ pc[r] = "reply"
    /\ \E t \in {"", IF Finds(r) THEN title[input[r].conv] ELSE ""} :
          told' = [told EXCEPT ![r] = IF r \in left THEN "" ELSE t]
    /\ Finish(r, "done")
    /\ UNCHANGED <<tables, lock, input, left, hist, stop, served, crashes>>

-----------------------------------------------------------------------------
(* What goes wrong                                                          *)

\* The error of tx.Commit is dropped.
StoreFailsSilently(r) ==
    /\ \/ pc[r] \in {"lookup", "select", "attach", "memory"} /\ Finish(r, "500")
       \/ pc[r] \in {"update", "user", "images"} /\ Finish(r, "error")
       \/ pc[r] = "commit" /\ pc' = [pc EXCEPT ![r] = "reply"] /\ UNCHANGED reply
    /\ Rollback(r)
    /\ UNCHANGED <<input, left, hist, stop, told, served, crashes>>

\* A statement fails (I/O, or the lock not free within busy_timeout): a 500
\* before the stream has begun, an error event after.
StoreFails(r) ==
    /\ \/ pc[r] \in {"lookup", "select", "attach", "memory"} /\ Finish(r, "500")
       \/ (InTx(r) \/ pc[r] = "update") /\ Finish(r, "error")
    /\ Rollback(r)
    /\ UNCHANGED <<input, left, hist, stop, told, served, crashes>>

\* The client closes the connection, and with it the request's context.
ClientLeaves(r) ==
    /\ Active(r)
    /\ left' = left \cup {r}
    /\ UNCHANGED <<tables, lock, pc, input, hist, stop, told, reply, served, crashes>>

\* The model is called with a context of its own.
CancelledExceptUpstream(r) ==
    /\ r \in left
    /\ Active(r)
    /\ pc[r] # "stream"
    /\ Finish(r, "none")
    /\ Rollback(r)
    /\ UNCHANGED <<input, left, hist, stop, told, served, crashes>>

\* The call in progress notices the cancelled context, and the handler returns.
Cancelled(r) ==
    /\ r \in left
    /\ Active(r)
    /\ Finish(r, "none")
    /\ Rollback(r)
    /\ UNCHANGED <<input, left, hist, stop, told, served, crashes>>

\* The process dies and starts again: the handlers are gone, the committed
\* tables are not, and the WAL holds no commit record for the transaction.
Crash ==
    /\ crashes < MaxCrashes
    /\ crashes' = crashes + 1
    /\ pc' = [r \in Req |-> IF Active(r) THEN "finished" ELSE pc[r]]
    /\ writer' = None
    /\ tx' = NoWrites
    /\ UNCHANGED <<tables, input, left, hist, stop, told, reply, served>>

-----------------------------------------------------------------------------
\* The steps a handler takes by itself: those of Messages, and of a send.
ReadStep(r) ==
    Lookup(r) \/ SelectMessages(r) \/ AttachPhotos(r) \/ AttachPanics(r)

SendStep(r) ==
    \/ LoadMemory(r)
    \/ UpdateConversation(r) \/ ConversationGone(r)
    \/ InsertUser(r) \/ InsertImage(r) \/ InsertAnswer(r)
    \/ Commit(r) \/ SendDone(r)

Handle(r) == ReadStep(r) \/ (r \in Senders /\ SendStep(r)) \/ Cancelled(r)

Next ==
    \/ \E o \in Owner : Create(o)
    \/ \E o \in Owner, c \in Conv : Delete(o, c)
    \/ \E o \in Owner : \E i \in images : GetImage(o, i)
    \/ \E r \in Readers, o \in Owner, c \in Conv : ArriveRead(r, o, c)
    \/ \E r \in Senders, o \in Owner, c \in Conv, body \in Bodies : ArriveSend(r, o, c, body)
    \/ \E r \in Senders, body \in Bodies : RefuseBody(r, body)
    \/ \E r \in Req : Handle(r) \/ StoreFails(r) \/ ClientLeaves(r)
    \/ \E r \in Senders, how \in {"ended", "cut"} : StreamAnswers(r, how)
    \/ \E r \in Senders : StreamFails(r)
    \/ Crash

Spec == Init /\ [][Next]_vars

\* A goroutine that can run does, and SQLite grants the lock when it is free.
\* Nothing makes clients call or leave, and nothing makes the upstream answer.
FairSpec == Spec /\ \A r \in Req : WF_vars(Handle(r))

-----------------------------------------------------------------------------
(* Properties                                                               *)

PCs == {"idle", "lookup", "select", "attach", "memory", "stream", "update",
        "user", "images", "commit", "reply", "finished"}

Answers == {"none", "400", "404", "500", "panic", "error", "messages", "done"}

Read == [msgs : SUBSET Message, photos : SUBSET [image : Nat, of : Nat, on : Nat]]

\* Every variable has its type.
TypeOK ==
    /\ owner \in [Conv -> Owner \cup {None}]
    /\ title \in [Conv -> Title]
    /\ fresh \subseteq Conv
    /\ messages \subseteq Message
    /\ images \subseteq Image
    /\ lastMsg \in Nat
    /\ lastImg \in Nat
    /\ writer \in Req \cup {None}
    /\ tx \in Write
    /\ pc \in [Req -> PCs]
    /\ input \in [Req -> Input]
    /\ left \subseteq Req
    /\ hist \in [Req -> Read]
    /\ stop \in [Req -> {"none", "ended", "cut"}]
    /\ told \in [Req -> Title]
    /\ reply \in [Req -> Answers]
    /\ served \subseteq [owner : Owner, id : Nat, req : Senders, nth : Nat]
    /\ crashes \in Nat

\* a is the answer to u, stored directly after it.
IsAnswerTo(a, u) ==
    /\ u.role = "user" /\ a.role = "assistant"
    /\ a.id = u.id + 1 /\ a.conv = u.conv /\ a.req = u.req

\* All photos the client sent with u are there.
HasPhotos(u) ==
    \A n \in 1 .. input[u.req].photos :
       \E i \in images : i.msg = u.id /\ i.req = u.req /\ i.nth = n

\* AppendExchange is all or nothing, whatever fails, is cancelled or crashes in
\* its course: a user message is directly followed by the answer to it, an
\* answer directly follows its question, and all photos of the message are there.
ExchangesAreWhole ==
    \A m \in messages :
       /\ m.role = "user" => (\E a \in messages : IsAnswerTo(a, m)) /\ HasPhotos(m)
       /\ m.role = "assistant" => \E u \in messages : IsAnswerTo(m, u)

\* However a delete falls between the steps of a send or of another delete, no
\* message is left without its conversation and no photo without its message.
NothingOrphaned ==
    /\ \A m \in messages : owner[m.conv] # None
    /\ \A i \in images : \E m \in messages : m.id = i.msg /\ m.role = "user" /\ m.req = i.req

\* A conversation has a title exactly when it has an exchange, and it is the one
\* its first exchange gave it, however many sends raced to be first.
TitleNamesFirstExchange ==
    \A c \in Conv :
       \/ RowsOf(c) = {} /\ title[c] = ""
       \/ \E m \in RowsOf(c) : IsFirst(m, RowsOf(c)) /\ title[c] = TitleFrom(m.req)

\* A client that was told of a failure finds nothing of its request stored.
FailureLeavesConversation ==
    \A r \in Senders :
       reply[r] \in {"400", "404", "500", "panic", "error"} =>
          /\ \A m \in messages : m.req # r
          /\ \A i \in images : i.req # r

\* A client that was told "done" has its exchange stored, until the
\* conversation is deleted.
DoneMeansStored ==
    \A r \in Senders :
       reply[r] = "done" =>
          \/ owner[input[r].conv] = None
          \/ \E m \in messages : m.req = r /\ m.conv = input[r].conv /\ m.role = "assistant"

\* What a client is told of its message is true, whatever fails, leaves, crashes
\* or is deleted while the exchange is stored.
OutcomesAreTrue == FailureLeavesConversation /\ DoneMeansStored

\* The title in a done event is the conversation's name, then and ever after.
ToldTitleIsTheName ==
    \A r \in Senders :
       told[r] # "" /\ owner[input[r].conv] # None => told[r] = title[input[r].conv]

\* However many sends race to be first, a conversation is named once and for all,
\* and everyone is told the same name.
TitleIsSettled == TitleNamesFirstExchange /\ ToldTitleIsTheName

\* The messages that a stored answer was made from are a beginning of the
\* conversation as stored, and end with an answer: no question without its
\* answer and nothing that was rolled back was among them.
AnswerGroundedInPrefix ==
    \A m \in messages : m.role = "user" =>
       LET before == hist[m.req].msgs
       IN  /\ before \subseteq {x \in RowsOf(m.conv) : x.id < m.id}
           /\ \A x \in before, y \in RowsOf(m.conv) : y.id < x.id => y \in before
           /\ \A x \in before : x.role = "user" => \E a \in before : a.id = x.id + 1

\* No request reads, sends to the model, or fetches what another account wrote.
PrivateToOwner ==
    /\ \A r \in Req : \A m \in hist[r].msgs : input[m.req].owner = input[r].owner
    /\ \A s \in served : input[s.req].owner = s.owner

\* The messages that are read come as whole exchanges, each answer with its
\* question, whatever is being written, rolled back or deleted meanwhile.
ReadsAreWhole ==
    \A r \in Req : \A m \in hist[r].msgs :
       /\ m.role = "user" => \E a \in hist[r].msgs : IsAnswerTo(a, m)
       /\ m.role = "assistant" => \E u \in hist[r].msgs : IsAnswerTo(m, u)

\* Both SELECTs of Messages are behind the request.
HasReadPhotos(r) ==
    \/ pc[r] \in {"memory", "stream", "update", "user", "images", "commit", "reply"}
    \/ reply[r] \in {"messages", "done"}

\* The photos of a read are those of its messages, each on its own, and none of
\* them is missing unless it was deleted in between.  What may come on top are
\* photos of an exchange that was committed between the two SELECTs, never of
\* one that was rolled back: half of an exchange, on another's message.
PhotosAreComplete ==
    \A r \in Req :
       /\ HasReadPhotos(r) =>
             \A i \in images : i.msg \in IdsOf(hist[r].msgs) =>
                [image |-> i.id, of |-> i.msg, on |-> i.msg] \in hist[r].photos
       /\ \A p \in hist[r].photos :
             /\ p.of # p.on => \A m \in hist[r].msgs : m.id < p.of
             /\ owner[input[r].conv] # None => \E i \in images : i.id = p.image /\ i.msg = p.of

\* What is read of a conversation, and so what its answers are made from, is a
\* beginning of it in whole exchanges with all their photos, whatever happens
\* between the statements; only photos can be too many, and only later ones.
HistoriesAreTrue == ReadsAreWhole /\ AnswerGroundedInPrefix /\ PhotosAreComplete

\* Although the photos are read in a snapshot of their own, all of them were sent
\* by the reading account to the conversation it reads, and only those of messages
\* that came after the messages were read are attached to another message.
PhotosStayInConversation ==
    [][\A r \in Req : AttachPhotos(r) => \A p \in Attachments(r) :
          /\ input[p[1].req].conv = input[r].conv
          /\ input[p[1].req].owner = input[r].owner
          /\ p[1].msg # p[2].id => \A m \in hist[r].msgs : m.id < p[1].msg]_vars

\* The id of a photo never comes to mean another photo, so that what a browser
\* keeps as immutable stays right, deletes and rolled-back inserts included.
PhotosImmutable ==
    \A s \in served, i \in images : i.id = s.id => i.req = s.req /\ i.nth = s.nth

\* The statements that the transaction of r still has to run.
StatementsLeft(r) ==
    CASE pc[r] = "user"   -> input[r].photos + 3
      [] pc[r] = "images" -> input[r].photos - (tx.lastImg - lastImg) + 2
      [] pc[r] = "commit" -> 1
      [] OTHER            -> 0

\* Whoever has the write lock has so many statements to go: nobody takes it away or
\* writes for it, each statement leaves fewer, and every way out of the handler
\* gives the lock back.
LockSoonFree ==
    [][\A r \in Req : writer = r =>
          \/ writer' = None
          \/ writer' = r /\ UNCHANGED <<tx, pc[r]>>
          \/ writer' = r /\ StatementsLeft(r)' \in 1 .. StatementsLeft(r) - 1]_vars

-----------------------------------------------------------------------------
(* The abstract specification, and how the state maps to it                 *)

Life(c) == IF c \in fresh THEN "unborn" ELSE IF owner[c] = None THEN "dead" ELSE "live"

LogOf(c) == {[at |-> m.id, req |-> m.req] : m \in {x \in RowsOf(c) : x.role = "assistant"}}

Phase(r) ==
    CASE pc[r] = "reply" -> "stored"
      [] pc[r] = "finished" /\ reply[r] = "none" -> "lost"
      [] pc[r] = "finished" /\ reply[r] = "done" -> "confirmed"
      [] pc[r] = "finished" /\ reply[r] \notin {"none", "done"} -> "refused"
      [] OTHER -> "open"

Log == INSTANCE ConversationLog WITH
          life <- [c \in Conv |-> Life(c)],
          log <- [c \in Conv |-> LogOf(c)],
          last <- lastMsg,
          phase <- [r \in Senders |-> Phase(r)]

\* Seen from outside, sends and deletes are single steps on append-only logs,
\* and what a client is told agrees with them.
RefinesLog == Log!Spec

-----------------------------------------------------------------------------
(* Liveness                                                                 *)

\* Once the model has answered, the request comes to an end, whoever else wants
\* the write lock: every transaction gives it back, on each of its ways out.
AnswerConcluded == \A r \in Senders : (pc[r] = "update") ~> (pc[r] = "finished")

\* A client that leaves does not keep a handler, or the upstream call, running.
GoneClientReleased == \A r \in Req : (r \in left) ~> (pc[r] = "finished")

-----------------------------------------------------------------------------
(* What the documentation says and the code does not do                     *)

\* "Image is a photo attached to a user message" (store.go): every photo that
\* is read is attached to the message it was sent with.
PhotosOnTheirMessage ==
    \A r \in Req : \A p \in hist[r].photos : p.on = p.of

\* "The exchange is stored only once the answer is complete" (send.go).
OnlyCompleteAnswersStored == \A m \in messages : stop[m.req] = "ended"

=============================================================================
