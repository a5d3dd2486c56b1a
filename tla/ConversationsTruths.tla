------------------------- MODULE ConversationsTruths ------------------------
(***************************************************************************)
(* Theorems about what the users of Conversations are told, shown and      *)
(* named: titles, outcomes, histories, photos and accounts; that the write *)
(* lock is soon free and every handler moves on; and that all of it        *)
(* implements ConversationLog.                                             *)
(*                                                                         *)
(* Step says once what any step of the system may do to one request, and   *)
(* to the tables; the invariants below are carried through it, on top of   *)
(* Shape and Storage.  For the refinement, which needs no more than those  *)
(* two, each action is mapped: a step of a handler opens, closes or        *)
(* extends one log, changes the phase of one send, or does neither.        *)
(***************************************************************************)
EXTENDS ConversationsProofs

\* Past the lookup, which has found the conversation to be the account's.
Found(q) == pc[q] \in {"select", "attach", "memory", "stream", "update", "user", "images", "commit", "reply"}

\* Past the first read.
HasRead(q) == Found(q) /\ pc[q] # "select"

\* Photos have not been read.
Early(q) == pc[q] \in {"idle", "lookup", "select", "attach"}

\* What a step may do to request q.
RequestStep(q) ==
    /\ pc[q] # "idle" => pc'[q] # "idle" /\ input'[q] = input[q]
    /\ Found(q)' => Found(q) \/ (pc[q] = "lookup" /\ Finds(q))
    /\ HasRead(q)' => HasRead(q) \/ pc[q] = "select"
    /\ \/ hist'[q].msgs = hist[q].msgs /\ ~(pc[q] = "select" /\ HasRead(q)')
       \/ pc[q] = "select" /\ hist'[q].msgs = RowsOf(input[q].conv) /\ UNCHANGED tables
    /\ reply'[q] = "done" => reply[q] = "done" \/ pc[q] = "reply"
    /\ \/ told'[q] \in {told[q], ""}
       \/ pc[q] = "reply" /\ Finds(q) /\ told'[q] = title[input[q].conv] /\ UNCHANGED tables
    /\ Early(q)' => Early(q)
    /\ AttachPhotos(q) \/ (hist'[q].photos = hist[q].photos /\ (HasReadPhotos(q)' => HasReadPhotos(q)))
    /\ pc'[q] = "reply" => pc[q] = "reply" \/ (q \in Senders /\ Commit(q))
    /\ InTx(q)' => \/ InTx(q) /\ tx'.title = tx.title /\ UNCHANGED tables
                   \/ tx'.title = NewTitle(q) /\ UNCHANGED tables /\ pc[q] # "idle"

\* What it may do to the tables, and to the browsers.
TableStep ==
    \/ UNCHANGED <<tables, served>>
    \/ \E o \in Owner : Create(o)
    \/ \E o \in Owner, c \in Conv : Delete(o, c)
    \/ \E o \in Owner, i \in images : GetImage(o, i)
    \/ \E r \in Senders : Commit(r)

Step == TableStep /\ \A q \in Req : RequestStep(q)

\* What concerns a request alone stays.
Same(q) ==
    /\ pc'[q] = pc[q] /\ input'[q] = input[q] /\ hist'[q] = hist[q]
    /\ told'[q] = told[q] /\ reply'[q] = reply[q]

LEMMA SameStep ==
  ASSUME NEW q \in Req, Same(q), InTx(q) => tx'.title = tx.title /\ UNCHANGED tables
  PROVE  RequestStep(q)
BY DEF RequestStep, Same, Found, HasRead, HasReadPhotos, Early, InTx

\* A request that is about to end: its tables may have changed by no one else.
LEMMA FinishStep ==
  ASSUME Shape, NEW r \in Req, NEW a \in Answers, Finish(r, a), UNCHANGED <<input, hist>>,
         a = "done" => pc[r] = "reply", a # "messages",
         \/ told' = told
         \/ /\ told'[r] = "" \/ (pc[r] = "reply" /\ Finds(r) /\ told'[r] = title[input[r].conv] /\ UNCHANGED tables)
            /\ \A q \in Req \ {r} : told'[q] = told[q],
         NEW q \in Req, q # r /\ InTx(q) => tx' = tx /\ UNCHANGED tables
  PROVE  RequestStep(q)
<1>1. /\ pc'[r] = "finished"
      /\ \A p \in Req \ {r} : pc'[p] = pc[p] /\ reply'[p] = reply[p]
  BY FinishTyped DEF Shape
<1>2. CASE q # r
  BY <1>1, <1>2, SameStep DEF Same
<1>3. CASE q = r
  <2>1. reply'[r] \in {"none", a}
    BY DEF Finish, Tell, Shape, TypeOK
  <2> QED BY <1>1, <1>3, <2>1 DEF RequestStep, Found, HasRead, HasReadPhotos, Early, InTx
<1> QED BY <1>2, <1>3

\* Nobody else is in a transaction while r is.
LEMMA NobodyElse ==
  ASSUME Shape, NEW r \in Req, writer \in {r, None}, NEW q \in Req, q # r
  PROVE  ~InTx(q)
BY ConversationsAssumption DEF Shape, LockHeld

\* The steps of reading.
LEMMA ReadRequestStep ==
  ASSUME Shape, NEW r \in Req, ReadStep(r), NEW q \in Req
  PROVE  RequestStep(q)
<1>1. pc \in [Req -> PCs] /\ reply \in [Req -> Answers] /\ hist \in [Req -> Read]
  BY DEF Shape, TypeOK
<1>2. UNCHANGED <<tables, lock, input, told>>
  BY DEF ReadStep, Lookup, SelectMessages, AttachPhotos, AttachPanics
<1>3. CASE Lookup(r)
  <2>1. CASE Finds(r)
    <3>1. pc' = [pc EXCEPT ![r] = "select"] /\ UNCHANGED <<reply, hist>> /\ pc[r] = "lookup"
      BY <1>3, <2>1 DEF Lookup
    <3>2. CASE q = r
      BY <1>1, <1>2, <2>1, <3>1, <3>2 DEF RequestStep, Found, HasRead, HasReadPhotos, Early, InTx
    <3>3. CASE q # r
      BY <1>1, <1>2, <3>1, <3>3, SameStep DEF Same, lock
    <3> QED BY <3>2, <3>3
  <2>2. CASE ~Finds(r)
    BY <1>2, <1>3, <2>2, FinishStep DEF Lookup, Answers, lock
  <2> QED BY <2>1, <2>2
<1>4. CASE SelectMessages(r)
  <2>1. /\ pc' = [pc EXCEPT ![r] = "attach"] /\ UNCHANGED reply /\ pc[r] = "select"
        /\ hist' = [hist EXCEPT ![r].msgs = RowsOf(input[r].conv)]
    BY <1>4 DEF SelectMessages, Snapshot
  <2>2. CASE q = r
    BY <1>1, <1>2, <2>1, <2>2 DEF RequestStep, Found, HasRead, HasReadPhotos, Early, InTx, Read
  <2>3. CASE q # r
    BY <1>1, <1>2, <2>1, <2>3, SameStep DEF Same, lock
  <2> QED BY <2>2, <2>3
<1>5. CASE AttachPhotos(r)
  <2>1. /\ pc[r] = "attach" /\ hist'[r].msgs = hist[r].msgs
        /\ \A p \in Req \ {r} : hist'[p] = hist[p]
    BY <1>1, <1>5 DEF AttachPhotos, Read
  <2>2. /\ pc'[r] \in {"memory", "finished"} /\ reply'[r] \in {reply[r], "none", "messages"}
        /\ \A p \in Req \ {r} : pc'[p] = pc[p] /\ reply'[p] = reply[p]
    BY <1>1, <1>5 DEF AttachPhotos, Finish, Tell
  <2>3. CASE q = r
    BY <1>1, <1>2, <1>5, <2>1, <2>2, <2>3 DEF RequestStep, Found, HasRead, Early, InTx
  <2>4. CASE q # r
    BY <1>1, <1>2, <2>1, <2>2, <2>4, SameStep DEF Same, lock
  <2> QED BY <2>3, <2>4
<1>6. CASE AttachPanics(r)
  BY <1>2, <1>6, FinishStep DEF AttachPanics, Answers, lock
<1> QED BY <1>3, <1>4, <1>5, <1>6 DEF ReadStep

\* The steps of a send after the answer.
LEMMA SendRequestStep ==
  ASSUME Shape, Storage, NEW r \in Senders, SendStep(r), NEW q \in Req
  PROVE  RequestStep(q)
<1>1. /\ pc \in [Req -> PCs] /\ reply \in [Req -> Answers] /\ told \in [Req -> Title]
      /\ tx \in Write /\ r \in Req
  BY DEF Shape, TypeOK, Req
<1>2. CASE UpdateConversation(r)
  <2>1. /\ pc' = [pc EXCEPT ![r] = "user"] /\ pc[r] = "update" /\ tx'.title = NewTitle(r) /\ writer = None
        /\ UNCHANGED <<tables, input, hist, told, reply>>
    BY <1>2 DEF UpdateConversation
  <2>2. CASE q = r
    BY <1>1, <2>1, <2>2 DEF RequestStep, Found, HasRead, HasReadPhotos, Early, InTx
  <2>3. CASE q # r
    BY <1>1, <2>1, <2>3, SameStep, NobodyElse DEF Same
  <2> QED BY <2>2, <2>3
<1>3. CASE ConversationGone(r)
  BY <1>1, <1>3, FinishStep DEF ConversationGone, Answers, lock
<1>4. CASE InsertUser(r) \/ InsertImage(r) \/ InsertAnswer(r)
  <2>1. /\ pc[r] \in {"user", "images"} /\ pc'[r] \in {"images", "commit"}
        /\ \A p \in Req \ {r} : pc'[p] = pc[p]
        /\ UNCHANGED <<tables, input, hist, told, reply>>
    BY <1>1, <1>4 DEF InsertUser, InsertImage, InsertAnswer
  <2>2. tx'.title = tx.title
    BY <1>1, <1>4 DEF InsertUser, InsertImage, InsertAnswer, Append, Write
  <2>3. CASE q = r
    BY <1>1, <2>1, <2>2, <2>3 DEF RequestStep, Found, HasRead, HasReadPhotos, Early, InTx
  <2>4. CASE q # r
    BY <1>1, <2>1, <2>2, <2>4, SameStep DEF Same
  <2> QED BY <2>3, <2>4
<1>5. CASE Commit(r)
  <2>1. /\ pc' = [pc EXCEPT ![r] = "reply"] /\ pc[r] = "commit"
        /\ UNCHANGED <<input, hist, told, reply>> /\ writer = r
    BY <1>1, <1>5 DEF Commit, Shape, LockHeld, InTx
  <2>2. CASE q = r
    BY <1>1, <1>5, <2>1, <2>2 DEF RequestStep, Found, HasRead, HasReadPhotos, Early, InTx
  <2>3. CASE q # r
    BY <1>1, <2>1, <2>3, SameStep, NobodyElse DEF Same
  <2> QED BY <2>2, <2>3
<1>6. CASE SendDone(r)
  <2>1. /\ told'[r] = "" \/ (Finds(r) /\ told'[r] = title[input[r].conv])
        /\ \A p \in Req \ {r} : told'[p] = told[p]
    BY <1>1, <1>6 DEF SendDone
  <2>2. /\ Finish(r, "done") /\ "done" \in Answers /\ UNCHANGED <<input, hist, tables, tx>> /\ pc[r] = "reply"
    BY <1>6 DEF SendDone, lock, Answers
  <2> QED BY <1>1, <2>1, <2>2, FinishStep
<1>7. CASE LoadMemory(r)
  <2>1. /\ pc' = [pc EXCEPT ![r] = "stream"] /\ pc[r] = "memory"
        /\ UNCHANGED <<tables, lock, input, hist, told, reply>>
    BY <1>7 DEF LoadMemory
  <2>2. CASE q = r
    BY <1>1, <2>1, <2>2 DEF RequestStep, Found, HasRead, HasReadPhotos, Early, InTx
  <2>3. CASE q # r
    BY <1>1, <2>1, <2>3, SameStep DEF Same, lock
  <2> QED BY <2>2, <2>3
<1> QED BY <1>2, <1>3, <1>4, <1>5, <1>6, <1>7 DEF SendStep

\* A handler that ends and rolls back.
LEMMA RollbackRequestStep ==
  ASSUME Shape, NEW r \in Req, NEW a \in Answers \ {"done", "messages"}, Finish(r, a), Rollback(r),
         UNCHANGED <<input, hist, told>>, NEW q \in Req
  PROVE  RequestStep(q)
<1>1. q # r /\ InTx(q) => tx' = tx /\ UNCHANGED tables
  <2>1. CASE writer = r
    BY <2>1, NobodyElse
  <2>2. CASE writer # r
    BY <2>2 DEF Rollback, lock
  <2> QED BY <2>1, <2>2
<1> QED BY <1>1, FinishStep

\* Every step of the system is a Step.
LEMMA NextIsStep == Shape /\ Storage /\ [Next]_vars => Step
<1> SUFFICES ASSUME Shape, Storage, [Next]_vars PROVE Step
  OBVIOUS
<1>0. pc \in [Req -> PCs] /\ reply \in [Req -> Answers] /\ input \in [Req -> Input]
  BY DEF Shape, TypeOK
<1>1. ASSUME NEW o \in Owner, Create(o) PROVE Step
  <2>1. \A q \in Req : Same(q) /\ ~InTx(q)
    BY <1>1, ConversationsAssumption DEF Create, Same, Shape, LockHeld
  <2> QED BY <1>1, <2>1, SameStep DEF Step, TableStep
<1>2. ASSUME NEW o \in Owner, NEW c \in Conv, Delete(o, c) PROVE Step
  <2>1. \A q \in Req : Same(q) /\ ~InTx(q)
    BY <1>2, ConversationsAssumption DEF Delete, Same, Shape, LockHeld
  <2> QED BY <1>2, <2>1, SameStep DEF Step, TableStep
<1>3. ASSUME NEW o \in Owner, NEW i \in images, GetImage(o, i) PROVE Step
  <2>1. \A q \in Req : Same(q) /\ UNCHANGED <<tx, tables>>
    BY <1>3 DEF GetImage, Same, lock
  <2> QED BY <1>3, <2>1, SameStep DEF Step, TableStep
<1>4. ASSUME NEW r \in Req, NEW o \in Owner, NEW c \in Conv, NEW text, NEW photos,
             Arrive(r, o, c, text, photos)
      PROVE  Step
  <2>1. UNCHANGED <<tables, served, lock, hist, told, reply>> /\ pc[r] = "idle"
    BY <1>4 DEF Arrive
  <2>2. ASSUME NEW q \in Req PROVE RequestStep(q)
    <3>1. CASE q = r
      <4>1. pc'[q] = "lookup"
        BY <1>0, <1>4, <3>1 DEF Arrive
      <4> QED BY <2>1, <3>1, <4>1 DEF RequestStep, Found, HasRead, HasReadPhotos, Early, InTx
    <3>2. CASE q # r
      <4>1. Same(q)
        BY <1>0, <1>4, <3>2 DEF Arrive, Same
      <4> QED BY <2>1, <4>1, SameStep DEF lock
    <3> QED BY <3>1, <3>2
  <2> QED BY <2>1, <2>2 DEF Step, TableStep
<1>5. ASSUME NEW r \in Senders, NEW body \in Bodies, RefuseBody(r, body) PROVE Step
  <2>1. r \in Req /\ Finish(r, "400") /\ pc[r] = "idle" /\ UNCHANGED <<tables, served, lock, input, hist, told>>
    BY <1>5 DEF RefuseBody, Req
  <2>2. \A q \in Req : RequestStep(q)
    BY <2>1, FinishStep DEF Answers, lock
  <2> QED BY <2>1, <2>2 DEF Step, TableStep
<1>6. ASSUME NEW r \in Req, ReadStep(r) PROVE Step
  <2>1. UNCHANGED <<tables, served>>
    BY <1>6 DEF ReadStep, Lookup, SelectMessages, AttachPhotos, AttachPanics
  <2> QED BY <1>6, <2>1, ReadRequestStep DEF Step, TableStep
<1>7. ASSUME NEW r \in Senders, SendStep(r) PROVE Step
  <2>1. UNCHANGED <<tables, served>> \/ Commit(r)
    BY <1>7 DEF SendStep, LoadMemory, UpdateConversation, ConversationGone, InsertUser, InsertImage, InsertAnswer, SendDone
  <2> QED BY <1>7, <2>1, SendRequestStep DEF Step, TableStep
<1>8. ASSUME NEW r \in Req, Cancelled(r) \/ StoreFails(r) PROVE Step
  <2>1. PICK a \in {"none", "500", "error"} : Finish(r, a)
    BY <1>8 DEF Cancelled, StoreFails
  <2>2. Rollback(r) /\ UNCHANGED <<input, hist, told, served>>
    BY <1>8 DEF Cancelled, StoreFails
  <2>3. UNCHANGED tables
    BY <2>2 DEF Rollback
  <2>4. a \in Answers \ {"done", "messages"}
    BY DEF Answers
  <2>5. \A q \in Req : RequestStep(q)
    BY <2>1, <2>2, <2>4, RollbackRequestStep
  <2> QED BY <2>2, <2>3, <2>5 DEF Step, TableStep
<1>9. ASSUME NEW r \in Req, ClientLeaves(r) PROVE Step
  <2>1. UNCHANGED <<tables, served, tx>> /\ \A q \in Req : Same(q)
    BY <1>9 DEF ClientLeaves, Same, lock
  <2> QED BY <2>1, SameStep DEF Step, TableStep
<1>10. ASSUME NEW r \in Senders, NEW how \in {"ended", "cut"}, StreamAnswers(r, how) PROVE Step
  <2>1. /\ UNCHANGED <<tables, served, lock, input, hist, told, reply>> /\ pc[r] = "stream" /\ r \in Req
        /\ pc' = [pc EXCEPT ![r] = "update"]
    BY <1>10 DEF StreamAnswers, Req
  <2>2. ASSUME NEW q \in Req PROVE RequestStep(q)
    <3>1. CASE q = r
      BY <1>0, <2>1, <3>1 DEF RequestStep, Found, HasRead, HasReadPhotos, Early, InTx
    <3>2. CASE q # r
      BY <1>0, <2>1, <3>2, SameStep DEF Same, lock
    <3> QED BY <3>1, <3>2
  <2> QED BY <2>1, <2>2 DEF Step, TableStep
<1>11. ASSUME NEW r \in Senders, StreamFails(r) PROVE Step
  <2>1. r \in Req /\ Finish(r, "error") /\ UNCHANGED <<tables, served, lock, input, hist, told>>
    BY <1>11 DEF StreamFails, Req
  <2>2. \A q \in Req : RequestStep(q)
    BY <2>1, FinishStep DEF Answers, lock
  <2> QED BY <2>1, <2>2 DEF Step, TableStep
<1>12. CASE Crash
  <2>1. UNCHANGED <<tables, served, input, hist, told, reply>>
    BY <1>12 DEF Crash
  <2>2. ASSUME NEW q \in Req PROVE RequestStep(q)
    <3>1. pc'[q] = IF Active(q) THEN "finished" ELSE pc[q]
      BY <1>12 DEF Crash
    <3> QED BY <2>1, <3>1 DEF RequestStep, Found, HasRead, HasReadPhotos, Early, InTx, Active
  <2> QED BY <2>1, <2>2 DEF Step, TableStep
<1>13. CASE UNCHANGED vars
  <2>1. UNCHANGED <<tables, served, tx>> /\ \A q \in Req : Same(q)
    BY <1>13 DEF vars, Same, lock
  <2> QED BY <2>1, SameStep DEF Step, TableStep
<1>14. ASSUME NEW r \in Req, Handle(r) PROVE Step
  BY <1>6, <1>7, <1>8, <1>14 DEF Handle
<1> QED
  BY <1>1, <1>2, <1>3, <1>4, <1>5, <1>8, <1>9, <1>10, <1>11, <1>12, <1>13, <1>14
  DEF Next, ArriveRead, ArriveSend, Req

-----------------------------------------------------------------------------
(* The tables in a step                                                     *)

\* What steps keep of Shape and Storage, with the step.
Base == Shape /\ Storage /\ Shape' /\ Storage' /\ Step

LEMMA NextBase == Shape /\ Storage /\ [Next]_vars => Base
BY NextShape, NextStorage, NextIsStep DEF Base

LEMMA BaseTypes ==
  ASSUME Base
  PROVE  /\ owner \in [Conv -> Owner \cup {None}] /\ title \in [Conv -> Title]
         /\ messages \subseteq Message /\ images \subseteq Image /\ fresh \subseteq Conv
         /\ lastMsg \in Nat /\ lastImg \in Nat
         /\ \A m \in messages : /\ m.conv \in Conv /\ m.conv \notin fresh /\ m.id \in Nat /\ m.id <= lastMsg
                                /\ m.req \in Senders /\ m.req \in Req /\ pc[m.req] # "idle" /\ Stored(m.req)
                                /\ m.conv = input[m.req].conv /\ owner[m.conv] = input[m.req].owner
                                /\ owner[m.conv] # None
         /\ \A m \in messages' : owner'[m.conv] # None /\ m.conv = input'[m.req].conv
BY DEF Base, Shape, TypeOK, Storage, FreshHasNoRow, RowsOfRequests, IdsBelow, Message, Req, Stored

\* A conversation that was there keeps its account or has none, for ever.
LEMMA OwnersStep ==
  ASSUME Base, NEW c \in Conv, c \notin fresh
  PROVE  c \notin fresh' /\ owner'[c] \in {owner[c], None}
<1>1. CASE UNCHANGED <<tables, served>>
  BY <1>1 DEF tables
<1>2. ASSUME NEW o \in Owner, Create(o) PROVE c \notin fresh' /\ owner'[c] \in {owner[c], None}
  BY <1>2, BaseTypes DEF Create
<1>3. ASSUME NEW o \in Owner, NEW d \in Conv, Delete(o, d) PROVE c \notin fresh' /\ owner'[c] \in {owner[c], None}
  BY <1>3, BaseTypes DEF Delete
<1>4. ASSUME NEW o \in Owner, NEW i \in images, GetImage(o, i) PROVE c \notin fresh' /\ owner'[c] \in {owner[c], None}
  BY <1>4 DEF GetImage, tables
<1>5. ASSUME NEW r \in Senders, Commit(r) PROVE c \notin fresh' /\ owner'[c] \in {owner[c], None}
  BY <1>5 DEF Commit
<1> QED BY <1>1, <1>2, <1>3, <1>4, <1>5 DEF Base, Step, TableStep

\* A commit adds its rows, under ids above all others; other steps add none.
LEMMA RowsStep ==
  ASSUME Base
  PROVE  /\ \A m \in messages : m \in messages' \/ owner'[m.conv] = None
         /\ \A m \in messages' : m \notin messages =>
               \E r \in Senders : Commit(r) /\ m \in {UserRow(r), AnswerRow(r)}
<1> DEFINE Goal == /\ \A m \in messages : m \in messages' \/ owner'[m.conv] = None
                   /\ \A m \in messages' : m \notin messages =>
                         \E r \in Senders : Commit(r) /\ m \in {UserRow(r), AnswerRow(r)}
<1>1. CASE UNCHANGED <<tables, served>>
  BY <1>1 DEF tables
<1>2. ASSUME NEW o \in Owner, Create(o) PROVE Goal
  BY <1>2 DEF Create
<1>3. ASSUME NEW o \in Owner, NEW d \in Conv, Delete(o, d) PROVE Goal
  BY <1>3, BaseTypes DEF Delete, RowsOf
<1>4. ASSUME NEW o \in Owner, NEW i \in images, GetImage(o, i) PROVE Goal
  BY <1>4 DEF GetImage, tables
<1>5. ASSUME NEW r \in Senders, Commit(r) PROVE Goal
  BY <1>5, CommitTables DEF Base
<1> QED BY <1>1, <1>2, <1>3, <1>4, <1>5 DEF Base, Step, TableStep

\* So a conversation that lives on only grows, at its end.
LEMMA RowsGrow ==
  ASSUME Base, NEW c \in Conv, owner'[c] # None
  PROVE  /\ RowsOf(c) \subseteq RowsOf(c)'
         /\ \A y \in RowsOf(c)' : y \in RowsOf(c) \/ (y.id \in Nat /\ y.id > lastMsg)
<1>1. RowsOf(c) \subseteq RowsOf(c)'
  BY RowsStep DEF RowsOf
<1>2. ASSUME NEW y \in RowsOf(c)', y \notin RowsOf(c)
      PROVE  y.id \in Nat /\ y.id > lastMsg
  <2>1. y \in messages' /\ y \notin messages
    BY <1>2 DEF RowsOf
  <2>2. PICK r \in Senders : y \in {UserRow(r), AnswerRow(r)}
    BY <2>1, RowsStep
  <2>3. y.id \in {lastMsg + 1, lastMsg + 2}
    BY <2>2 DEF UserRow, AnswerRow
  <2> QED BY <2>3, BaseTypes
<1> QED BY <1>1, <1>2

\* What a step does to one request.
LEMMA BaseRequest ==
  ASSUME Base, NEW q \in Req
  PROVE  RequestStep(q) /\ (Active(q) => input[q].conv \in Conv /\ input[q].owner \in Owner)
BY DEF Base, Step, Shape, Placed

-----------------------------------------------------------------------------
(* Whose conversation a request works on                                    *)

Known ==
    \A q \in Req : Found(q) =>
       input[q].conv \notin fresh /\ owner[input[q].conv] \in {input[q].owner, None}

LEMMA KnownStep == Known /\ Base => Known'
<1> SUFFICES ASSUME Known, Base, NEW q \in Req, Found(q)'
             PROVE  input'[q].conv \notin fresh' /\ owner'[input'[q].conv] \in {input'[q].owner, None}
  BY DEF Known
<1>1. RequestStep(q)
  BY BaseRequest
<1>2. input'[q] = input[q] /\ Active(q) /\ (Found(q) \/ Finds(q))
  BY <1>1 DEF RequestStep, Found, Active
<1>3. input[q].conv \in Conv /\ input[q].owner \in Owner
  BY <1>2, BaseRequest
<1>4. input[q].conv \notin fresh /\ owner[input[q].conv] \in {input[q].owner, None}
  BY <1>2, <1>3, ConversationsAssumption DEF Known, Finds, Base, Storage, FreshHasNoRow
<1> QED BY <1>2, <1>3, <1>4, OwnersStep

-----------------------------------------------------------------------------
(* What is told of the outcome                                              *)

\* A conversation that has been there.
Once(q) == pc[q] # "idle" /\ input[q].conv \in Conv /\ input[q].conv \notin fresh

LEMMA OnceStep ==
  ASSUME Base, NEW q \in Req, Once(q)
  PROVE  /\ Once(q)' /\ input'[q] = input[q]
         /\ owner'[input[q].conv] \in {owner[input[q].conv], None}
BY BaseRequest, OwnersStep DEF Once, RequestStep

HasAnswer(q) ==
    \/ owner[input[q].conv] = None
    \/ \E m \in messages : m.req = q /\ m.conv = input[q].conv /\ m.role = "assistant"

Concluded ==
    \A q \in Senders : pc[q] = "reply" \/ reply[q] = "done" => Once(q) /\ HasAnswer(q)

LEMMA ConcludedStep == Known /\ Concluded /\ Base => Concluded'
<1> SUFFICES ASSUME Known, Concluded, Base, NEW q \in Senders, pc'[q] = "reply" \/ reply'[q] = "done"
             PROVE  Once(q)' /\ HasAnswer(q)'
  BY DEF Concluded
<1>1. q \in Req /\ RequestStep(q)
  BY BaseRequest DEF Req
<1>2. CASE pc[q] = "reply" \/ reply[q] = "done"
  <2>1. Once(q) /\ HasAnswer(q)
    BY <1>2 DEF Concluded
  <2>2. Once(q)' /\ input'[q] = input[q] /\ owner'[input[q].conv] \in {owner[input[q].conv], None}
    BY <1>1, <2>1, OnceStep
  <2> QED BY <2>1, <2>2, RowsStep DEF HasAnswer
<1>3. CASE ~(pc[q] = "reply" \/ reply[q] = "done")
  <2>1. Commit(q)
    BY <1>1, <1>3 DEF RequestStep
  <2>2. Once(q)
    BY <1>1, <2>1, BaseRequest DEF Commit, Known, Found, Once, Active
  <2>3. AnswerRow(q) \in messages'
    BY <2>1, CommitTables DEF Base
  <2> QED BY <1>1, <2>2, <2>3, OnceStep DEF HasAnswer, AnswerRow
<1> QED BY <1>2, <1>3

-----------------------------------------------------------------------------
(* Titles                                                                   *)

Named ==
    /\ TitleNamesFirstExchange
    /\ \A q \in Req : InTx(q) => tx.title = NewTitle(q)
    /\ \A q \in Senders : told[q] # "" =>
          Once(q) /\ (owner[input[q].conv] # None => told[q] = title[input[q].conv])

\* A name is never empty.
LEMMA NameIsSome ==
  ASSUME NEW q \in Req
  PROVE  TitleFrom(q) # ""
BY ConversationsAssumption DEF TitleFrom

\* What Commit does to titles.
LEMMA CommitTitle ==
  ASSUME Base, Named, NEW r \in Senders, Commit(r)
  PROVE  /\ title' = [title EXCEPT ![input[r].conv] = NewTitle(r)]
         /\ input[r].conv \in Conv /\ UNCHANGED <<owner, fresh, input>>
BY BaseRequest DEF Commit, Named, InTx, Req, Active

\* A conversation is named once.
LEMMA NameStays ==
  ASSUME Base, Named, NEW c \in Conv, title[c] # "", c \notin fresh
  PROVE  title'[c] = title[c] \/ owner'[c] = None
<1>1. CASE UNCHANGED <<tables, served>>
  BY <1>1 DEF tables
<1>2. ASSUME NEW o \in Owner, Create(o) PROVE title'[c] = title[c]
  BY <1>2 DEF Create
<1>3. ASSUME NEW o \in Owner, NEW d \in Conv, Delete(o, d) PROVE title'[c] = title[c] \/ owner'[c] = None
  BY <1>3, BaseTypes DEF Delete
<1>4. ASSUME NEW o \in Owner, NEW i \in images, GetImage(o, i) PROVE title'[c] = title[c]
  BY <1>4 DEF GetImage, tables
<1>5. ASSUME NEW r \in Senders, Commit(r) PROVE title'[c] = title[c]
  BY <1>5, CommitTitle, BaseTypes DEF NewTitle
<1> QED BY <1>1, <1>2, <1>3, <1>4, <1>5 DEF Base, Step, TableStep

\* The exchange that is committed names a conversation without one.
LEMMA TitlesStep == Named /\ Base => TitleNamesFirstExchange'
<1> SUFFICES ASSUME Named, Base, NEW c \in Conv
             PROVE  \/ RowsOf(c)' = {} /\ title'[c] = ""
                    \/ \E m \in RowsOf(c)' : IsFirst(m, RowsOf(c)') /\ title'[c] = TitleFrom(m.req)'
  BY DEF TitleNamesFirstExchange
<1> DEFINE Goal == \/ RowsOf(c)' = {} /\ title'[c] = ""
                   \/ \E m \in RowsOf(c)' : IsFirst(m, RowsOf(c)') /\ title'[c] = TitleFrom(m.req)'
<1>0. \/ RowsOf(c) = {} /\ title[c] = ""
      \/ \E m \in RowsOf(c) : IsFirst(m, RowsOf(c)) /\ title[c] = TitleFrom(m.req)
  BY DEF Named, TitleNamesFirstExchange
<1>1. \A m \in messages : m.req \in Req /\ TitleFrom(m.req)' = TitleFrom(m.req)
  BY BaseTypes, BaseRequest DEF RequestStep, TitleFrom
<1>2. CASE RowsOf(c)' = RowsOf(c) /\ title'[c] = title[c]
  BY <1>0, <1>1, <1>2 DEF RowsOf
<1>3. CASE UNCHANGED <<tables, served>>
  BY <1>2, <1>3 DEF tables, RowsOf
<1>4. ASSUME NEW o \in Owner, Create(o) PROVE Goal
  BY <1>2, <1>4 DEF Create, RowsOf
<1>5. ASSUME NEW o \in Owner, NEW d \in Conv, Delete(o, d) PROVE Goal
  <2>1. CASE d = c
    BY <1>5, <2>1, BaseTypes DEF Delete, RowsOf
  <2>2. CASE d # c
    BY <1>2, <1>5, <2>2, BaseTypes DEF Delete, RowsOf
  <2> QED BY <2>1, <2>2
<1>6. ASSUME NEW o \in Owner, NEW i \in images, GetImage(o, i) PROVE Goal
  BY <1>2, <1>6 DEF GetImage, tables, RowsOf
<1>7. ASSUME NEW r \in Senders, Commit(r) PROVE Goal
  <2>1. messages' = messages \cup {UserRow(r), AnswerRow(r)}
    BY <1>7, CommitTables DEF Base
  <2>2. /\ title' = [title EXCEPT ![input[r].conv] = NewTitle(r)]
        /\ input[r].conv \in Conv /\ UNCHANGED <<owner, fresh, input>>
    BY <1>7, CommitTitle
  <2>3. /\ UserRow(r).conv = input[r].conv /\ AnswerRow(r).conv = input[r].conv /\ UserRow(r).req = r
        /\ UserRow(r).id = lastMsg + 1 /\ AnswerRow(r).id = lastMsg + 2
    BY DEF UserRow, AnswerRow
  <2>4. CASE c # input[r].conv
    <3>1. RowsOf(c)' = RowsOf(c)
      BY <2>1, <2>3, <2>4 DEF RowsOf
    <3>2. title'[c] = title[c]
      BY <2>2, <2>4, BaseTypes
    <3> QED BY <1>2, <3>1, <3>2
  <2>5. CASE c = input[r].conv
    <3>1. RowsOf(c)' = RowsOf(c) \cup {UserRow(r), AnswerRow(r)}
      BY <2>1, <2>3, <2>5 DEF RowsOf
    <3>2. title'[c] = NewTitle(r)
      BY <2>2, <2>5, BaseTypes
    <3>3. CASE RowsOf(c) = {}
      <4>1. title[c] = ""
        BY <1>0, <3>3
      <4>2. title'[c] = TitleFrom(r)'
        BY <2>2, <2>5, <3>2, <4>1 DEF NewTitle, TitleFrom
      <4>3. IsFirst(UserRow(r), RowsOf(c)')
        BY <2>3, <3>1, <3>3, BaseTypes DEF IsFirst
      <4> QED BY <2>3, <3>1, <4>2, <4>3
    <3>4. CASE RowsOf(c) # {}
      <4>1. PICK m \in RowsOf(c) : IsFirst(m, RowsOf(c)) /\ title[c] = TitleFrom(m.req)
        BY <1>0, <3>4
      <4>2. m \in messages /\ m.id <= lastMsg /\ m.id \in Nat /\ lastMsg \in Nat
        BY BaseTypes DEF RowsOf
      <4>3. IsFirst(m, RowsOf(c)')
        BY <2>3, <3>1, <4>1, <4>2 DEF IsFirst
      <4>4. title'[c] = title[c]
        BY <1>1, <2>5, <3>2, <4>1, <4>2, NameIsSome DEF NewTitle
      <4> QED BY <1>1, <3>1, <4>1, <4>2, <4>3, <4>4
    <3> QED BY <3>3, <3>4
  <2> QED BY <2>4, <2>5
<1> QED BY <1>3, <1>4, <1>5, <1>6, <1>7 DEF Base, Step, TableStep

LEMMA NamedStep == Known /\ Named /\ Base => Named'
<1> SUFFICES ASSUME Known, Named, Base PROVE Named'
  OBVIOUS
<1>1. ASSUME NEW q \in Req, InTx(q)'
      PROVE  tx'.title = NewTitle(q)'
  <2>1. RequestStep(q)
    BY BaseRequest
  <2>2. UNCHANGED tables /\ input'[q] = input[q] /\ (tx'.title = NewTitle(q) \/ (InTx(q) /\ tx'.title = tx.title))
    BY <1>1, <2>1 DEF RequestStep, InTx
  <2>3. tx'.title = NewTitle(q)
    BY <2>2 DEF Named
  <2> QED BY <2>2, <2>3 DEF NewTitle, TitleFrom, tables
<1>2. ASSUME NEW q \in Senders, told'[q] # ""
      PROVE  Once(q)' /\ (owner'[input'[q].conv] # None => told'[q] = title'[input'[q].conv])
  <2>1. q \in Req /\ RequestStep(q)
    BY BaseRequest DEF Req
  <2>2. CASE told'[q] = told[q]
    <3>1. Once(q) /\ (owner[input[q].conv] # None => told[q] = title[input[q].conv])
      BY <1>2, <2>2 DEF Named
    <3>2. /\ Once(q)' /\ input'[q] = input[q]
          /\ owner'[input[q].conv] \in {owner[input[q].conv], None}
      BY <2>1, <3>1, OnceStep
    <3>3. input[q].conv \in Conv /\ input[q].conv \notin fresh
      BY <3>1 DEF Once
    <3> QED BY <1>2, <2>2, <3>1, <3>2, <3>3, NameStays
  <2>3. CASE pc[q] = "reply" /\ told'[q] = title[input[q].conv] /\ UNCHANGED tables
    <3>1. Once(q)
      BY <2>1, <2>3, BaseRequest DEF Known, Found, Once, Active
    <3> QED BY <2>1, <2>3, <3>1, OnceStep DEF tables
  <2> QED BY <1>2, <2>1, <2>2, <2>3 DEF RequestStep
<1> QED BY <1>1, <1>2, TitlesStep DEF Named

-----------------------------------------------------------------------------
(* What reaches the model                                                   *)

\* A beginning of a conversation, of whole exchanges.
Beginning(S, c) ==
    /\ S \subseteq RowsOf(c)
    /\ \A x \in S, y \in RowsOf(c) : y.id < x.id => y \in S
    /\ \A x \in S : x.role = "user" => \E a \in S : a.id = x.id + 1

Grounded ==
    /\ \A q \in Req : HasRead(q) /\ owner[input[q].conv] # None => Beginning(hist[q].msgs, input[q].conv)
    /\ AnswerGroundedInPrefix

\* It stays one, as long as the conversation is there.
LEMMA BeginningStays ==
  ASSUME Base, NEW c \in Conv, owner'[c] # None, NEW S, Beginning(S, c)
  PROVE  Beginning(S, c)'
<1>1. /\ RowsOf(c) \subseteq RowsOf(c)'
      /\ \A y \in RowsOf(c)' : y \in RowsOf(c) \/ (y.id \in Nat /\ y.id > lastMsg)
  BY RowsGrow
<1>2. \A x \in S : x.id \in Nat /\ x.id <= lastMsg /\ lastMsg \in Nat
  BY BaseTypes DEF Beginning, RowsOf
<1>3. \A x \in S, y \in RowsOf(c)' : y.id < x.id => y \in S
  BY <1>1, <1>2 DEF Beginning
<1>4. S \subseteq RowsOf(c)'
  BY <1>1 DEF Beginning
<1> QED BY <1>3, <1>4 DEF Beginning

\* A snapshot of committed rows is one.
LEMMA SnapshotIsBeginning ==
  ASSUME Base, NEW c \in Conv
  PROVE  Beginning(RowsOf(c), c)
BY DEF Base, Storage, ExchangesAreWhole, IsAnswerTo, RowsOf, Beginning

LEMMA GroundedStep == Known /\ Grounded /\ Base => Grounded'
<1> SUFFICES ASSUME Known, Grounded, Base PROVE Grounded'
  OBVIOUS
<1>1. ASSUME NEW q \in Req, HasRead(q)', owner'[input'[q].conv] # None
      PROVE  Beginning(hist[q].msgs, input[q].conv)'
  <2>1. RequestStep(q)
    BY BaseRequest
  <2>2. Found(q) /\ input'[q] = input[q] /\ Active(q)
    BY <1>1, <2>1 DEF RequestStep, HasRead, Found, Active
  <2>3. Once(q) /\ input[q].conv \in Conv
    BY <2>2, BaseRequest DEF Known, Once, Active
  <2>4. owner[input[q].conv] # None
    BY <1>1, <2>2, <2>3, OnceStep
  <2>5. CASE pc[q] = "select"
    <3>1. hist'[q].msgs = RowsOf(input[q].conv) /\ UNCHANGED tables
      BY <1>1, <2>1, <2>5 DEF RequestStep
    <3>2. RowsOf(input[q].conv)' = RowsOf(input[q].conv)
      BY <2>2, <3>1 DEF RowsOf, tables
    <3> QED BY <2>2, <2>3, <3>1, <3>2, SnapshotIsBeginning DEF Beginning
  <2>6. CASE pc[q] # "select"
    <3>1. HasRead(q) /\ hist'[q].msgs = hist[q].msgs
      BY <1>1, <2>1, <2>6 DEF RequestStep
    <3>2. Beginning(hist[q].msgs, input[q].conv)
      BY <2>4, <3>1 DEF Grounded
    <3>3. PICK S, c : S = hist[q].msgs /\ c = input[q].conv
      OBVIOUS
    <3>4. Beginning(S, c)'
      BY <1>1, <2>2, <2>3, <3>2, <3>3, BeginningStays
    <3>5. hist'[q].msgs = S /\ input'[q].conv = c
      BY <2>2, <3>1, <3>3
    <3> QED BY <3>4, <3>5 DEF Beginning
  <2> QED BY <2>5, <2>6
<1>2. ASSUME NEW m \in messages', m.role = "user"
      PROVE  /\ hist'[m.req].msgs \subseteq {x \in RowsOf(m.conv)' : x.id < m.id}
             /\ \A x \in hist'[m.req].msgs, y \in RowsOf(m.conv)' : y.id < x.id => y \in hist'[m.req].msgs
             /\ \A x \in hist'[m.req].msgs : x.role = "user" => \E a \in hist'[m.req].msgs : a.id = x.id + 1
  <2>1. CASE m \in messages
    <3>1. /\ m.conv \in Conv /\ m.req \in Req /\ Stored(m.req) /\ owner'[m.conv] # None
      BY <1>2, <2>1, BaseTypes
    <3>2. hist'[m.req].msgs = hist[m.req].msgs
      BY <3>1, BaseRequest DEF RequestStep, Stored
    <3>3. /\ Beginning(hist[m.req].msgs, m.conv)
          /\ \A x \in hist[m.req].msgs : x.id < m.id
      BY <1>2, <2>1 DEF Grounded, AnswerGroundedInPrefix, Beginning
    <3>4. PICK S : S = hist[m.req].msgs
      OBVIOUS
    <3>5. Beginning(S, m.conv)'
      BY <3>1, <3>3, <3>4, BeginningStays
    <3> QED BY <3>2, <3>3, <3>4, <3>5 DEF Beginning
  <2>2. CASE m \notin messages
    <3>1. PICK r \in Senders : Commit(r) /\ m \in {UserRow(r), AnswerRow(r)}
      BY <2>2, RowsStep
    <3>2. m.req = r /\ m.conv = input[r].conv /\ m.id = lastMsg + 1 /\ r \in Req
      BY <1>2, <3>1 DEF UserRow, AnswerRow, Req
    <3>3. /\ HasRead(r) /\ Active(r) /\ hist' = hist /\ input' = input /\ owner' = owner
      BY <3>1 DEF Commit, HasRead, Found, Active
    <3>4. m.conv \in Conv /\ owner'[m.conv] # None
      BY <3>2, <3>3, BaseRequest, BaseTypes
    <3>5. PICK S : S = hist[r].msgs
      OBVIOUS
    <3>6. Beginning(S, m.conv)
      BY <3>2, <3>3, <3>4, <3>5 DEF Grounded
    <3>7. Beginning(S, m.conv)'
      BY <3>4, <3>6, BeginningStays
    <3>8. \A x \in S : x.id < m.id
      BY <3>2, <3>6, BaseTypes DEF Beginning, RowsOf
    <3> QED BY <3>2, <3>3, <3>5, <3>7, <3>8 DEF Beginning
  <2> QED BY <2>1, <2>2
<1>3. AnswerGroundedInPrefix'
  BY <1>2 DEF AnswerGroundedInPrefix
<1> QED BY <1>1, <1>3 DEF Grounded

-----------------------------------------------------------------------------
(* Accounts                                                                 *)

Private ==
    /\ \A q \in Req : \A m \in hist[q].msgs :
          /\ m.req \in Req /\ pc[q] # "idle" /\ pc[m.req] # "idle"
          /\ input[m.req].owner = input[q].owner
    /\ \A s \in served : s.req \in Req /\ pc[s.req] # "idle" /\ input[s.req].owner = s.owner

LEMMA PrivateStep == Known /\ Private /\ Base => Private'
<1> SUFFICES ASSUME Known, Private, Base PROVE Private'
  OBVIOUS
<1>1. \A q \in Req : pc[q] # "idle" => pc'[q] # "idle" /\ input'[q] = input[q]
  BY BaseRequest DEF RequestStep
<1>2. ASSUME NEW q \in Req, NEW m \in hist'[q].msgs
      PROVE  /\ m.req \in Req /\ pc'[q] # "idle" /\ pc'[m.req] # "idle"
             /\ input'[m.req].owner = input'[q].owner
  <2>1. CASE m \in hist[q].msgs
    BY <1>1, <2>1 DEF Private
  <2>2. CASE m \notin hist[q].msgs
    <3>1. pc[q] = "select" /\ m \in RowsOf(input[q].conv)
      BY <1>2, <2>2, BaseRequest DEF RequestStep
    <3>2. /\ m.req \in Req /\ pc[m.req] # "idle"
          /\ owner[m.conv] = input[m.req].owner /\ owner[m.conv] # None /\ m.conv = input[q].conv
      BY <3>1, BaseTypes DEF RowsOf
    <3>3. owner[input[q].conv] \in {input[q].owner, None}
      BY <3>1 DEF Known, Found
    <3> QED BY <1>1, <3>1, <3>2, <3>3
  <2> QED BY <2>1, <2>2
<1>3. ASSUME NEW s \in served', s \notin served
      PROVE  s.req \in Req /\ pc[s.req] # "idle" /\ input[s.req].owner = s.owner
  <2>1. PICK o \in Owner, i \in images : GetImage(o, i)
    BY <1>3 DEF Base, Step, TableStep, Create, Delete, Commit
  <2>2. s.req = i.req /\ s.owner = o /\ MayFetch(o, i)
    BY <1>3, <2>1 DEF GetImage
  <2>3. PICK m \in messages : m.id = i.msg /\ owner[m.conv] = o
    BY <2>2 DEF MayFetch
  <2>4. m.req = i.req
    BY <2>3 DEF Base, Storage, ImagesPlaced, UniqueIds
  <2> QED BY <2>2, <2>3, <2>4, BaseTypes
<1> QED BY <1>1, <1>2, <1>3 DEF Private

-----------------------------------------------------------------------------
(* Photos                                                                   *)

Lasting ==
    /\ \A i, j \in images : i.id = j.id => i = j
    /\ \A s \in served : s.id \in Nat /\ s.id <= lastImg
    /\ PhotosImmutable

LEMMA LastingStep == Lasting /\ Base => Lasting'
<1> SUFFICES ASSUME Lasting, Base PROVE Lasting'
  OBVIOUS
<1>0. /\ images \subseteq Image /\ lastImg \in Nat
      /\ \A i \in images : i.id \in Nat /\ i.id <= lastImg
  BY DEF Base, Shape, TypeOK, Storage, IdsBelow, Image
<1>1. CASE images' \subseteq images /\ UNCHANGED <<lastImg, served>>
  BY <1>1 DEF Lasting, PhotosImmutable
<1>2. CASE UNCHANGED <<tables, served>>
  BY <1>1, <1>2 DEF tables
<1>3. ASSUME NEW o \in Owner, Create(o) PROVE Lasting'
  BY <1>1, <1>3 DEF Create
<1>4. ASSUME NEW o \in Owner, NEW c \in Conv, Delete(o, c) PROVE Lasting'
  BY <1>1, <1>4 DEF Delete, ImagesKept
<1>5. ASSUME NEW o \in Owner, NEW i \in images, GetImage(o, i) PROVE Lasting'
  <2> DEFINE new == [owner |-> o, id |-> i.id, req |-> i.req, nth |-> i.nth]
  <2>1. images' = images /\ lastImg' = lastImg /\ served' = served \cup {new}
    BY <1>5 DEF GetImage, tables
  <2>2. new.id = i.id /\ new.req = i.req /\ new.nth = i.nth
    OBVIOUS
  <2> HIDE DEF new
  <2> QED BY <1>0, <2>1, <2>2 DEF Lasting, PhotosImmutable
<1>6. ASSUME NEW r \in Senders, Commit(r) PROVE Lasting'
  <2> DEFINE added == PhotoRows1To(r, input[r].photos)
  <2>1. images' = images \cup added /\ lastImg' = lastImg + input[r].photos /\ served' = served
    BY <1>6, CommitTables DEF Base, Commit
  <2>2. input[r].photos \in Nat
    BY DEF Base, Shape, TypeOK, Input, Req
  <2>3. \A i \in added : i.id \in Nat /\ i.id > lastImg
    BY <1>0, <2>2 DEF PhotoRows1To, PhotoRow
  <2>4. \A i, j \in added : i.id = j.id => i = j
    BY <1>0, <2>2 DEF PhotoRows1To, PhotoRow
  <2>5. lastImg' \in Nat /\ lastImg' >= lastImg
    BY <1>0, <2>1, <2>2
  <2> HIDE DEF added
  <2>6. \A i, j \in images' : i.id = j.id => i = j
    BY <1>0, <2>1, <2>3, <2>4 DEF Lasting
  <2>7. \A s \in served' : s.id \in Nat /\ s.id <= lastImg'
    BY <1>0, <2>1, <2>5 DEF Lasting
  <2>8. PhotosImmutable'
    BY <1>0, <2>1, <2>3 DEF Lasting, PhotosImmutable
  <2> QED BY <2>6, <2>7, <2>8 DEF Lasting
<1> QED BY <1>2, <1>3, <1>4, <1>5, <1>6 DEF Base, Step, TableStep

-----------------------------------------------------------------------------
(* What a read returns                                                      *)

\* Rows that are whole exchanges, none of them twice.
Whole(S) ==
    /\ S \subseteq Message
    /\ \A x, y \in S : x.id = y.id => x = y
    /\ \A m \in S : /\ m.role = "user" => \E a \in S : IsAnswerTo(a, m)
                    /\ m.role = "assistant" => \E u \in S : IsAnswerTo(m, u)

Undivided == \A q \in Req : Whole(hist[q].msgs)

\* What is committed is whole.
LEMMA SnapshotIsWhole ==
  ASSUME Base, NEW c \in Conv
  PROVE  Whole(RowsOf(c))
<1>1. /\ RowsOf(c) \subseteq messages /\ messages \subseteq Message
      /\ \A x, y \in messages : x.id = y.id => x = y
  BY BaseTypes DEF RowsOf, Base, Storage, UniqueIds
<1>2. ASSUME NEW m \in RowsOf(c)
      PROVE  /\ m.role = "user" => \E a \in RowsOf(c) : IsAnswerTo(a, m)
             /\ m.role = "assistant" => \E u \in RowsOf(c) : IsAnswerTo(m, u)
  BY DEF Base, Storage, ExchangesAreWhole, IsAnswerTo, RowsOf
<1> QED BY <1>1, <1>2 DEF Whole

LEMMA UndividedStep == Undivided /\ Base => Undivided'
<1> SUFFICES ASSUME Undivided, Base, NEW q \in Req PROVE Whole(hist'[q].msgs)
  BY DEF Undivided, Whole, IsAnswerTo
<1>1. CASE hist'[q].msgs = hist[q].msgs
  BY <1>1 DEF Undivided
<1>2. CASE pc[q] = "select" /\ hist'[q].msgs = RowsOf(input[q].conv)
  BY <1>2, BaseRequest, SnapshotIsWhole DEF Active
<1> QED BY <1>1, <1>2, BaseRequest DEF RequestStep

\* A photo that a read attaches was sent to its conversation by its account, and if
\* it is attached to another message its own came after all that had been read.
LEMMA AttachedAreOwn ==
  ASSUME Shape, Storage, Known, Grounded, NEW r \in Req, pc[r] = "attach", NEW p \in Attachments(r)
  PROVE  /\ input[p[1].req].conv = input[r].conv
         /\ input[p[1].req].owner = input[r].owner
         /\ p[1].msg # p[2].id => \A m \in hist[r].msgs : m.id < p[1].msg
<1> DEFINE i == p[1]
           c == input[r].conv
<1>1. /\ i \in images /\ p[2] \in hist[r].msgs
      /\ AttachedTo(i, p[2], hist[r].msgs) /\ i.msg \in IdsOf(RowsOf(c))
  BY DEF Attachments, PhotoRows
<1>2. PICK m \in messages : m.id = i.msg /\ m.conv = c
  BY <1>1 DEF IdsOf, RowsOf
<1>3. m.req = i.req
  BY <1>1, <1>2 DEF Storage, ImagesPlaced, UniqueIds
<1>4. input[m.req].conv = m.conv /\ owner[m.conv] = input[m.req].owner /\ owner[c] # None
  BY <1>2 DEF Storage, RowsOfRequests, FreshHasNoRow
<1>5. owner[c] = input[r].owner
  BY <1>4 DEF Known, Found
<1>6. ASSUME i.msg # p[2].id, NEW x \in hist[r].msgs PROVE x.id < i.msg
  <2>1. i.msg \notin IdsOf(hist[r].msgs)
    BY <1>1, <1>6 DEF AttachedTo
  <2>2. x.id # m.id /\ m \notin hist[r].msgs
    BY <1>2, <2>1 DEF IdsOf
  <2>3. Beginning(hist[r].msgs, c)
    BY <1>4 DEF Grounded, HasRead, Found
  <2>4. ~(m.id < x.id)
    BY <1>2, <2>2, <2>3 DEF Beginning, RowsOf
  <2>5. x.id \in Nat /\ m.id \in Nat
    BY <2>3 DEF Beginning, RowsOf, Shape, TypeOK, Message
  <2> QED BY <1>2, <2>2, <2>4, <2>5
<1> QED BY <1>2, <1>3, <1>4, <1>5, <1>6

\* Photos go with the messages they were sent with, and come with a commit.
LEMMA ImagesStep ==
  ASSUME Base
  PROVE  /\ \A i \in images : i \in images' \/ (\E m \in messages : m.id = i.msg /\ owner'[m.conv] = None)
         /\ \A i \in images' : i \in images \/ (i.msg \in Nat /\ i.msg > lastMsg)
         /\ lastMsg' \in Nat /\ lastMsg <= lastMsg'
<1> DEFINE Goal == /\ \A i \in images : i \in images' \/ (\E m \in messages : m.id = i.msg /\ owner'[m.conv] = None)
                   /\ \A i \in images' : i \in images \/ (i.msg \in Nat /\ i.msg > lastMsg)
                   /\ lastMsg' \in Nat /\ lastMsg <= lastMsg'
<1>0. lastMsg \in Nat
  BY BaseTypes
<1>1. CASE UNCHANGED <<tables, served>>
  BY <1>0, <1>1 DEF tables
<1>2. ASSUME NEW o \in Owner, Create(o) PROVE Goal
  BY <1>0, <1>2 DEF Create
<1>3. ASSUME NEW o \in Owner, NEW d \in Conv, Delete(o, d) PROVE Goal
  <2>1. images' = ImagesKept(d) /\ lastMsg' = lastMsg /\ owner'[d] = None
    BY <1>3, BaseTypes DEF Delete
  <2>2. ASSUME NEW i \in images, i \notin images' PROVE \E m \in messages : m.id = i.msg /\ owner'[m.conv] = None
    <3>1. PICK m \in RowsOf(d) : m.id = i.msg
      BY <2>1, <2>2 DEF ImagesKept, IdsOf
    <3> QED BY <2>1, <3>1 DEF RowsOf
  <2> QED BY <1>0, <2>1, <2>2 DEF ImagesKept
<1>4. ASSUME NEW o \in Owner, NEW i \in images, GetImage(o, i) PROVE Goal
  BY <1>0, <1>4 DEF GetImage, tables
<1>5. ASSUME NEW r \in Senders, Commit(r) PROVE Goal
  <2>1. images' = images \cup PhotoRows1To(r, input[r].photos) /\ lastMsg' = lastMsg + 2
    BY <1>5, CommitTables DEF Base
  <2> QED BY <1>0, <2>1 DEF PhotoRows1To, PhotoRow
<1> QED BY <1>1, <1>2, <1>3, <1>4, <1>5 DEF Base, Step, TableStep

\* What was read is remembered as it was: ids are never used again.
Remembered(q) ==
    /\ \A x \in hist[q].msgs :
          /\ x.id \in Nat /\ x.id <= lastMsg
          /\ x.conv = input[q].conv /\ pc[q] # "idle"
          /\ \A m \in messages : m.id = x.id => m = x
    /\ hist[q].photos # {} => ~Early(q) /\ Once(q)

\* A photo that was read, and whose conversation is still there, is there too.
Kept(p, c) ==
    \E i \in images : /\ i.id = p.image /\ i.msg = p.of
                      /\ \E m \in RowsOf(c) : m.id = i.msg

\* PhotosAreComplete for one request.
Illustrated(q) ==
    /\ HasReadPhotos(q) =>
          \A i \in images : i.msg \in IdsOf(hist[q].msgs) =>
             [image |-> i.id, of |-> i.msg, on |-> i.msg] \in hist[q].photos
    /\ \A p \in hist[q].photos :
          /\ p.of # p.on => \A m \in hist[q].msgs : m.id < p.of
          /\ owner[input[q].conv] # None => Kept(p, input[q].conv)

Pictured == \A q \in Req : Remembered(q) /\ Illustrated(q)

LEMMA RememberedStep ==
  ASSUME Pictured, Known, Base, NEW q \in Req
  PROVE  Remembered(q)'
<1>0. RequestStep(q) /\ Remembered(q) /\ lastMsg \in Nat /\ lastMsg' \in Nat /\ lastMsg <= lastMsg'
  BY BaseRequest, BaseTypes, ImagesStep DEF Pictured
<1>1. ASSUME NEW x \in hist'[q].msgs
      PROVE  /\ x.id \in Nat /\ x.id <= lastMsg
             /\ x.conv = input[q].conv /\ pc[q] # "idle"
             /\ \A m \in messages : m.id = x.id => m = x
  <2>1. CASE hist'[q].msgs = hist[q].msgs
    BY <1>0, <1>1, <2>1 DEF Remembered
  <2>2. CASE pc[q] = "select" /\ hist'[q].msgs = RowsOf(input[q].conv)
    <3>1. x \in messages /\ x.conv = input[q].conv
      BY <1>1, <2>2 DEF RowsOf
    <3>2. \A m \in messages : m.id = x.id => m = x
      BY <3>1 DEF Base, Storage, UniqueIds
    <3> QED BY <2>2, <3>1, <3>2, BaseTypes
  <2> QED BY <1>0, <2>1, <2>2 DEF RequestStep
<1>2. ASSUME NEW x \in hist'[q].msgs, NEW m \in messages', m.id = x.id PROVE m = x
  <2>1. CASE m \in messages
    BY <1>1, <1>2, <2>1
  <2>2. CASE m \notin messages
    <3>1. PICK r \in Senders : m \in {UserRow(r), AnswerRow(r)}
      BY <2>2, RowsStep
    <3>2. m.id \in {lastMsg + 1, lastMsg + 2}
      BY <3>1 DEF UserRow, AnswerRow
    <3> QED BY <1>0, <1>1, <1>2, <3>2
  <2> QED BY <2>1, <2>2
<1>3. pc[q] # "idle" => pc'[q] # "idle" /\ input'[q] = input[q]
  BY <1>0 DEF RequestStep
<1>4. ASSUME hist'[q].photos # {}
      PROVE  ~Early(q)' /\ Once(q)'
  <2>1. CASE AttachPhotos(q)
    <3>1. pc'[q] \in {"memory", "finished"} /\ pc[q] = "attach"
      BY <2>1 DEF AttachPhotos, Finish, Base, Shape, TypeOK
    <3>2. Once(q)
      BY <3>1, BaseRequest DEF Once, Known, Found, Active
    <3> QED BY <3>1, <3>2, OnceStep DEF Early
  <2>2. CASE hist'[q].photos = hist[q].photos
    BY <1>0, <1>4, <2>2, OnceStep DEF Remembered, RequestStep
  <2> QED BY <1>0, <2>1, <2>2 DEF RequestStep
<1> QED BY <1>0, <1>1, <1>2, <1>3, <1>4 DEF Remembered

\* What the second SELECT of q has brought.
LEMMA AttachIllustrates ==
  ASSUME Pictured, Known, Grounded, Base, NEW q \in Req, AttachPhotos(q)
  PROVE  Illustrated(q)'
<1> DEFINE c == input[q].conv
           S == hist[q].msgs
<1>1. /\ pc[q] = "attach" /\ UNCHANGED <<tables, input>>
      /\ hist'[q].msgs = S
      /\ hist'[q].photos = {[image |-> p[1].id, of |-> p[1].msg, on |-> p[2].id] : p \in Attachments(q)}
  BY DEF AttachPhotos, Base, Shape, TypeOK, Read
<1>2. ASSUME NEW i \in images, i.msg \in IdsOf(S)
      PROVE  [image |-> i.id, of |-> i.msg, on |-> i.msg] \in hist'[q].photos
  <2>1. PICK x \in S : x.id = i.msg
    BY <1>2 DEF IdsOf
  <2>2. PICK m \in messages : m.id = i.msg
    BY DEF Base, Storage, ImagesPlaced
  <2>3. m = x /\ x.conv = c
    BY <2>1, <2>2 DEF Pictured, Remembered
  <2>4. i \in PhotoRows(q)
    BY <2>2, <2>3 DEF PhotoRows, IdsOf, RowsOf
  <2>5. <<i, x>> \in Attachments(q)
    BY <1>2, <2>1, <2>4 DEF Attachments, AttachedTo
  <2> QED BY <1>1, <2>1, <2>5
<1>3. ASSUME NEW p \in hist'[q].photos
      PROVE  /\ p.of # p.on => \A m \in S : m.id < p.of
             /\ Kept(p, c)
  <2>1. PICK a \in Attachments(q) : p = [image |-> a[1].id, of |-> a[1].msg, on |-> a[2].id]
    BY <1>1, <1>3
  <2>2. a[1].msg # a[2].id => \A m \in S : m.id < a[1].msg
    BY <1>1, AttachedAreOwn DEF Base
  <2>3. a[1] \in images /\ a[1].msg \in IdsOf(RowsOf(c))
    BY DEF Attachments, PhotoRows
  <2> QED BY <2>1, <2>2, <2>3 DEF Kept, IdsOf
<1> QED BY <1>1, <1>2, <1>3 DEF Illustrated, IdsOf, Kept, RowsOf, tables

\* A photo that is there stays, as long as its conversation does.
LEMMA KeptStays ==
  ASSUME Base, NEW c \in Conv, NEW p, Kept(p, c), owner'[c] # None
  PROVE  Kept(p, c)'
<1>1. PICK i \in images : i.id = p.image /\ i.msg = p.of /\ \E m \in RowsOf(c) : m.id = i.msg
  BY DEF Kept
<1>2. PICK m \in RowsOf(c) : m.id = i.msg
  BY <1>1
<1>3. m \in messages /\ m.conv = c /\ m \in RowsOf(c)'
  BY <1>2, RowsGrow DEF RowsOf
<1>4. \A n \in messages : n.id = i.msg => n = m
  BY <1>2, <1>3 DEF Base, Storage, UniqueIds
<1>5. i \in images'
  BY <1>3, <1>4, ImagesStep
<1> QED BY <1>1, <1>2, <1>3, <1>5 DEF Kept

LEMMA PicturedStep == Pictured /\ Known /\ Grounded /\ Base => Pictured'
<1> SUFFICES ASSUME Pictured, Known, Grounded, Base, NEW q \in Req PROVE Remembered(q)' /\ Illustrated(q)'
  BY DEF Pictured
<1>1. Remembered(q)'
  BY RememberedStep
<1>2. CASE AttachPhotos(q)
  BY <1>1, <1>2, AttachIllustrates
<1>3. CASE ~AttachPhotos(q)
  <2>1. /\ hist'[q].photos = hist[q].photos /\ (HasReadPhotos(q)' => HasReadPhotos(q))
        /\ RequestStep(q) /\ Remembered(q) /\ Illustrated(q)
    BY <1>3, BaseRequest DEF RequestStep, Pictured
  <2>2. HasReadPhotos(q) => ~Early(q)
    BY DEF HasReadPhotos, Early, Base, Shape, Unanswered
  <2>3. ~Early(q) => hist'[q].msgs = hist[q].msgs
    BY <2>1 DEF RequestStep, Early
  <2>4. ASSUME HasReadPhotos(q)', NEW i \in images', i.msg \in IdsOf(hist'[q].msgs)
        PROVE  [image |-> i.id, of |-> i.msg, on |-> i.msg] \in hist'[q].photos
    <3>1. HasReadPhotos(q) /\ hist'[q].msgs = hist[q].msgs
      BY <2>1, <2>2, <2>3, <2>4
    <3>2. PICK x \in hist[q].msgs : x.id = i.msg
      BY <2>4, <3>1 DEF IdsOf
    <3>3. x.id \in Nat /\ x.id <= lastMsg /\ lastMsg \in Nat
      BY <2>1, BaseTypes DEF Remembered
    <3>4. i \in images
      BY <3>2, <3>3, ImagesStep
    <3> QED BY <2>1, <3>1, <3>2, <3>4 DEF Illustrated, IdsOf
  <2>5. ASSUME NEW p \in hist'[q].photos
        PROVE  /\ p.of # p.on => \A m \in hist'[q].msgs : m.id < p.of
               /\ owner'[input'[q].conv] # None => Kept(p, input[q].conv)' /\ input'[q] = input[q]
    <3>1. p \in hist[q].photos /\ ~Early(q) /\ Once(q) /\ hist'[q].msgs = hist[q].msgs
      BY <2>1, <2>3, <2>5 DEF Remembered
    <3>2. input'[q] = input[q] /\ owner'[input[q].conv] \in {owner[input[q].conv], None} /\ input[q].conv \in Conv
      BY <3>1, OnceStep DEF Once
    <3>3. /\ p.of # p.on => \A m \in hist[q].msgs : m.id < p.of
          /\ owner[input[q].conv] # None => Kept(p, input[q].conv)
      BY <2>1, <3>1 DEF Illustrated
    <3> QED BY <3>1, <3>2, <3>3, KeptStays
  <2> QED BY <1>1, <2>4, <2>5 DEF Illustrated, Kept, RowsOf
<1> QED BY <1>2, <1>3

\* s lists the rows of S in the order of their ids, as ORDER BY id does.
InOrder(s, n, S) ==
    /\ \A m \in S : \E i \in 1 .. n : s[i] = m
    /\ \A i, j \in 1 .. n : i < j => s[i].id < s[j].id

\* Questions and answers in turn: each question is followed by its answer, each
\* answer comes after its question, and there is nothing else.
TakeTurns(s, n) ==
    \A i \in 1 .. n :
       \/ s[i].role = "user" /\ i < n /\ IsAnswerTo(s[i + 1], s[i])
       \/ s[i].role = "assistant" /\ i > 1 /\ IsAnswerTo(s[i], s[i - 1])

\* Nothing fits between a question and its answer.
LEMMA WholeTakesTurns ==
  ASSUME NEW S, Whole(S), NEW n \in Nat, NEW s \in [1 .. n -> S], InOrder(s, n, S)
  PROVE  TakeTurns(s, n)
<1>1. ASSUME NEW i \in 1 .. n, NEW j \in 1 .. n, s[j].id = s[i].id + 1 PROVE j = i + 1
  <2>1. \A k \in 1 .. n : s[k].id \in Nat
    BY DEF Whole, Message
  <2>2. i < j
    <3>1. ~(j < i) /\ i # j
      BY <1>1, <2>1 DEF InOrder
    <3> QED BY <3>1
  <2>3. ASSUME i + 1 < j PROVE FALSE
    <3>1. i + 1 \in 1 .. n
      BY <2>3
    <3>2. s[i].id < s[i + 1].id /\ s[i + 1].id < s[j].id
      BY <2>3, <3>1 DEF InOrder
    <3> QED BY <1>1, <2>1, <3>1, <3>2
  <2> QED BY <2>2, <2>3
<1>2. ASSUME NEW i \in 1 .. n, s[i].role = "user" PROVE i < n /\ IsAnswerTo(s[i + 1], s[i])
  <2>1. PICK a \in S : IsAnswerTo(a, s[i])
    BY <1>2 DEF Whole
  <2>2. PICK j \in 1 .. n : s[j] = a
    BY DEF InOrder
  <2>3. j = i + 1
    BY <1>1, <2>1, <2>2 DEF IsAnswerTo
  <2> QED BY <2>1, <2>2, <2>3
<1>3. ASSUME NEW i \in 1 .. n, s[i].role = "assistant" PROVE i > 1 /\ IsAnswerTo(s[i], s[i - 1])
  <2>1. PICK u \in S : IsAnswerTo(s[i], u)
    BY <1>3 DEF Whole
  <2>2. PICK j \in 1 .. n : s[j] = u
    BY DEF InOrder
  <2>3. i = j + 1
    BY <1>1, <2>1, <2>2 DEF IsAnswerTo
  <2>4. j = i - 1
    BY <2>3
  <2> QED BY <2>1, <2>2, <2>3, <2>4
<1>4. \A i \in 1 .. n : s[i].role \in {"user", "assistant"}
  BY DEF Whole, Message
<1> QED BY <1>2, <1>3, <1>4 DEF TakeTurns

-----------------------------------------------------------------------------
(* The write lock                                                           *)

\* A step of another handler, or of nobody's.
LEMMA OthersLeaveLock ==
  ASSUME Shape, NEW r \in Req, writer = r, UNCHANGED lock, NEW q, ~InTx(q),
         \A p \in Req \ {q} : pc'[p] = pc[p]
  PROVE  writer' = r /\ UNCHANGED <<tx, pc[r]>>
BY DEF Shape, LockHeld, lock

\* The transaction's own statements, short of its commit.
LEMMA StatementStep ==
  ASSUME Shape, Storage, NEW r \in Senders, InsertUser(r) \/ InsertImage(r) \/ InsertAnswer(r)
  PROVE  /\ InTx(r) /\ writer = r /\ writer' = r /\ InTx(r)'
         /\ StatementsLeft(r) \in Nat /\ StatementsLeft(r)' \in 1 .. StatementsLeft(r) - 1
<1>0. /\ r \in Req /\ pc \in [Req -> PCs] /\ InTx(r) /\ writer = r
      /\ input[r].photos \in Nat /\ lastImg \in Nat /\ tx.lastImg \in Nat /\ tx.lastImg >= lastImg
  BY ConversationsAssumption
  DEF Shape, TypeOK, LockHeld, TxAhead, Req, Input, Write, InsertUser, InsertImage, InsertAnswer, InTx
<1>1. CASE InsertUser(r)
  <2>1. pc[r] = "user" /\ pc'[r] = "images" /\ UNCHANGED <<writer, input, lastImg>>
    BY <1>0, <1>1 DEF InsertUser, tables
  <2>2. tx'.lastImg = tx.lastImg /\ tx.lastImg = lastImg
    BY <1>0, <1>1, <2>1 DEF InsertUser, Append, Storage, TxContents, Shape, TypeOK, Write
  <2>3. StatementsLeft(r) = input[r].photos + 3
    BY <2>1 DEF StatementsLeft
  <2>4. StatementsLeft(r)' = input[r].photos - (lastImg - lastImg) + 2
    BY <2>1, <2>2 DEF StatementsLeft
  <2> QED BY <1>0, <2>1, <2>3, <2>4 DEF InTx
<1>2. CASE InsertImage(r)
  <2>1. /\ pc[r] = "images" /\ pc' = pc /\ UNCHANGED <<writer, input, lastImg>>
        /\ tx.lastImg - lastImg < input[r].photos
    BY <1>0, <1>2 DEF InsertImage, tables
  <2>2. tx'.lastImg = tx.lastImg + 1
    BY <1>0, <1>2 DEF InsertImage, Shape, TypeOK, Write
  <2>3. StatementsLeft(r) = input[r].photos - (tx.lastImg - lastImg) + 2
    BY <2>1 DEF StatementsLeft
  <2>4. StatementsLeft(r)' = input[r].photos - (tx'.lastImg - lastImg) + 2
    BY <2>1 DEF StatementsLeft
  <2> QED BY <1>0, <2>1, <2>2, <2>3, <2>4 DEF InTx
<1>3. CASE InsertAnswer(r)
  <2>1. /\ pc[r] = "images" /\ pc'[r] = "commit" /\ writer' = writer
        /\ tx.lastImg - lastImg = input[r].photos
    BY <1>0, <1>3 DEF InsertAnswer
  <2>2. StatementsLeft(r) = input[r].photos - (tx.lastImg - lastImg) + 2
    BY <2>1 DEF StatementsLeft
  <2>3. StatementsLeft(r)' = 1
    BY <2>1 DEF StatementsLeft
  <2> QED BY <1>0, <2>1, <2>2, <2>3 DEF InTx
<1> QED BY <1>1, <1>2, <1>3

LEMMA LockStep ==
  ASSUME Shape, Storage, [Next]_vars, NEW r \in Req, writer = r
  PROVE  \/ writer' = None
         \/ writer' = r /\ UNCHANGED <<tx, pc[r]>>
         \/ writer' = r /\ StatementsLeft(r)' \in 1 .. StatementsLeft(r) - 1
<1> DEFINE Goal == \/ writer' = None
                   \/ writer' = r /\ UNCHANGED <<tx, pc[r]>>
                   \/ writer' = r /\ StatementsLeft(r)' \in 1 .. StatementsLeft(r) - 1
<1>0. /\ pc \in [Req -> PCs] /\ r # None /\ InTx(r)
      /\ \A q \in Req : InTx(q) => q = r
      /\ \A q \in Senders : q \in Req
  BY ConversationsAssumption DEF Shape, TypeOK, LockHeld, Req
<1>1. ASSUME UNCHANGED <<lock, pc>> PROVE Goal
  BY <1>1 DEF lock
<1>2. ASSUME NEW q \in Req, UNCHANGED lock, ~InTx(q), \A p \in Req \ {q} : pc'[p] = pc[p] PROVE Goal
  BY <1>2, OthersLeaveLock
<1>3. ASSUME NEW q \in Req, NEW a \in Answers, Finish(q, a), Rollback(q) PROVE Goal
  <2>1. \A p \in Req \ {q} : pc'[p] = pc[p]
    BY <1>3, FinishTyped DEF Shape
  <2> QED BY <1>0, <1>2, <1>3, <2>1 DEF Rollback, Shape, LockHeld
<1>4. ASSUME NEW q \in Req, ReadStep(q) PROVE Goal
  <2>1. ~InTx(q) /\ UNCHANGED lock
    BY <1>4 DEF ReadStep, Lookup, SelectMessages, AttachPhotos, AttachPanics, InTx, lock
  <2>2. \E p : pc' = [pc EXCEPT ![q] = p]
    BY <1>4 DEF ReadStep, Lookup, SelectMessages, AttachPhotos, AttachPanics, Finish
  <2> QED BY <1>0, <1>2, <2>1, <2>2
<1>5. ASSUME NEW q \in Senders, SendStep(q) PROVE Goal
  <2>1. CASE UpdateConversation(q)
    BY <1>0, <2>1 DEF UpdateConversation
  <2>2. CASE ConversationGone(q)
    BY <1>0, <2>2 DEF ConversationGone
  <2>3. CASE InsertUser(q) \/ InsertImage(q) \/ InsertAnswer(q)
    BY <1>0, <2>3, StatementStep
  <2>4. CASE Commit(q)
    BY <2>4 DEF Commit
  <2>5. CASE SendDone(q)
    <3>1. ~InTx(q) /\ UNCHANGED lock /\ Finish(q, "done")
      BY <2>5 DEF SendDone, InTx
    <3> QED BY <1>0, <1>2, <3>1 DEF Finish
  <2>6. CASE LoadMemory(q)
    <3>1. ~InTx(q) /\ UNCHANGED lock /\ pc' = [pc EXCEPT ![q] = "stream"]
      BY <2>6 DEF LoadMemory, InTx
    <3> QED BY <1>0, <1>2, <3>1
  <2> QED BY <1>5, <2>1, <2>2, <2>3, <2>4, <2>5, <2>6 DEF SendStep
<1>6. ASSUME NEW q \in Req, Cancelled(q) \/ StoreFails(q) PROVE Goal
  <2>1. PICK a \in {"none", "500", "error"} : Finish(q, a)
    BY <1>6 DEF Cancelled, StoreFails
  <2>2. Rollback(q)
    BY <1>6 DEF Cancelled, StoreFails
  <2> QED BY <1>3, <2>1, <2>2 DEF Answers
<1>7. ASSUME NEW q \in Req, Handle(q) \/ StoreFails(q) \/ ClientLeaves(q) PROVE Goal
  BY <1>1, <1>4, <1>5, <1>6, <1>7 DEF Handle, ClientLeaves
<1>8. ASSUME NEW q \in Req, NEW o, NEW c, NEW text, NEW photos, Arrive(q, o, c, text, photos) PROVE Goal
  BY <1>0, <1>2, <1>8 DEF Arrive, InTx
<1>9. ASSUME NEW q \in Senders,
             \/ \E body \in Bodies : RefuseBody(q, body)
             \/ StreamFails(q)
             \/ \E how \in {"ended", "cut"} : StreamAnswers(q, how)
      PROVE  Goal
  <2>1. UNCHANGED lock /\ ~InTx(q)
    BY <1>9 DEF RefuseBody, StreamFails, StreamAnswers, InTx, lock
  <2>2. \E p : pc' = [pc EXCEPT ![q] = p]
    BY <1>9 DEF RefuseBody, StreamFails, StreamAnswers, Finish
  <2> QED BY <1>0, <1>2, <2>1, <2>2
<1>10. ASSUME NEW o \in Owner,
              Create(o) \/ (\E c \in Conv : Delete(o, c)) \/ (\E i \in images : GetImage(o, i))
       PROVE  Goal
  BY <1>1, <1>10 DEF Create, Delete, GetImage, lock
<1>11. CASE Crash
  BY <1>11 DEF Crash
<1>12. CASE UNCHANGED vars
  BY <1>1, <1>12 DEF vars
<1> QED
  BY <1>7, <1>8, <1>9, <1>10, <1>11, <1>12 DEF Next, ArriveRead, ArriveSend, Req

-----------------------------------------------------------------------------
(* Theorems                                                                 *)

Truth == Known /\ Concluded /\ Named /\ Grounded /\ Private /\ Lasting /\ Undivided /\ Pictured

LEMMA InitTruth == Init => Truth
<1> SUFFICES ASSUME Init PROVE Truth
  OBVIOUS
<1>1. /\ \A q \in Req : pc[q] = "idle" /\ reply[q] = "none" /\ told[q] = ""
      /\ \A q \in Req : hist[q].msgs = {} /\ hist[q].photos = {}
      /\ messages = {} /\ images = {} /\ served = {} /\ \A c \in Conv : title[c] = ""
  BY DEF Init, NothingRead
<1>2. Known /\ Concluded
  BY <1>1 DEF Known, Found, Concluded, Req
<1>3. Named
  BY <1>1 DEF Named, TitleNamesFirstExchange, RowsOf, InTx, Req
<1>4. Grounded
  BY <1>1 DEF Grounded, HasRead, Found, AnswerGroundedInPrefix
<1>5. Private /\ Lasting /\ Undivided
  BY <1>1 DEF Private, Lasting, PhotosImmutable, Undivided, Whole
<1>6. Pictured
  BY <1>1 DEF Pictured, Remembered, Illustrated
<1> QED BY <1>2, <1>3, <1>4, <1>5, <1>6 DEF Truth

\* The inductive invariant behind what users see, on top of what is stored.
THEOREM TruthHolds == Spec => [](Shape /\ Storage /\ Truth)
<1>1. Shape /\ Storage /\ Truth /\ [Next]_vars => Truth'
  BY NextBase, KnownStep, ConcludedStep, NamedStep, GroundedStep, PrivateStep, LastingStep,
     UndividedStep, PicturedStep
  DEF Truth
<1> QED BY <1>1, InitTruth, StorageHolds, PTL DEF Spec

\* What a client is told of its message is true: a failure has stored nothing, and
\* "done" has stored the exchange, for as long as the conversation is there.
THEOREM OutcomesAreTrueHolds == Spec => []OutcomesAreTrue
<1>1. Truth => DoneMeansStored
  BY DEF Truth, Concluded, HasAnswer, DoneMeansStored
<1> QED BY <1>1, TruthHolds, FailureLeavesConversationHolds, PTL DEF OutcomesAreTrue

\* A conversation is named by its first exchange, once, and everyone is told that name.
THEOREM TitleIsSettledHolds == Spec => []TitleIsSettled
<1>1. Truth => TitleIsSettled
  BY DEF Truth, Named, ToldTitleIsTheName, TitleIsSettled
<1> QED BY <1>1, TruthHolds, PTL

\* The messages that a request reads come as whole exchanges, and every stored answer
\* was made from a beginning of its conversation.  No photo of those messages is missing,
\* unless it was deleted; what may be too many are photos of later exchanges.
THEOREM HistoriesAreTrueHolds == Spec => []HistoriesAreTrue
<1>1. Truth => ReadsAreWhole
  BY DEF Truth, Undivided, Whole, ReadsAreWhole
<1>2. Truth => AnswerGroundedInPrefix
  BY DEF Truth, Grounded
<1>3. Truth => PhotosAreComplete
  <2> SUFFICES ASSUME Truth, NEW r \in Req
               PROVE  /\ HasReadPhotos(r) =>
                            \A i \in images : i.msg \in IdsOf(hist[r].msgs) =>
                               [image |-> i.id, of |-> i.msg, on |-> i.msg] \in hist[r].photos
                      /\ \A p \in hist[r].photos :
                            /\ p.of # p.on => \A m \in hist[r].msgs : m.id < p.of
                            /\ owner[input[r].conv] # None => \E i \in images : i.id = p.image /\ i.msg = p.of
    BY DEF PhotosAreComplete
  <2>1. Illustrated(r)
    BY DEF Truth, Pictured
  <2> QED BY <2>1 DEF Illustrated, Kept
<1> QED BY <1>1, <1>2, <1>3, TruthHolds, PTL DEF HistoriesAreTrue

\* No request reads, or sends to the model, or fetches, what another account wrote.
THEOREM PrivateToOwnerHolds == Spec => []PrivateToOwner
<1>1. Truth => PrivateToOwner
  BY DEF Truth, Private, PrivateToOwner
<1> QED BY <1>1, TruthHolds, PTL

\* The id of a photo that was served never means another.
THEOREM PhotosImmutableHolds == Spec => []PhotosImmutable
<1>1. Truth => PhotosImmutable
  BY DEF Truth, Lasting
<1> QED BY <1>1, TruthHolds, PTL

\* In the order of their ids, what a request has read is questions and answers in turn:
\* what ChatInput takes a history to be.
THEOREM ReadsTakeTurns ==
  Spec => [](\A r \in Req, n \in Nat : \A s \in [1 .. n -> hist[r].msgs] :
                InOrder(s, n, hist[r].msgs) => TakeTurns(s, n))
<1>1. ASSUME Truth, NEW r \in Req, NEW n \in Nat, NEW s \in [1 .. n -> hist[r].msgs],
             InOrder(s, n, hist[r].msgs)
      PROVE  TakeTurns(s, n)
  <2>1. PICK S : S = hist[r].msgs
    OBVIOUS
  <2>2. Whole(S)
    BY <1>1, <2>1 DEF Truth, Undivided
  <2> QED BY <1>1, <2>1, <2>2, WholeTakesTurns
<1>2. Truth => \A r \in Req, n \in Nat : \A s \in [1 .. n -> hist[r].msgs] :
                  InOrder(s, n, hist[r].msgs) => TakeTurns(s, n)
  BY <1>1
<1> QED BY <1>2, TruthHolds, PTL

\* No read attaches a photo of another conversation or account, and only photos of
\* messages it came too early for end up on another message.
THEOREM PhotosStayInConversationHolds == Spec => PhotosStayInConversation
<1>1. Shape /\ Storage /\ Truth =>
         \A r \in Req : AttachPhotos(r) => \A p \in Attachments(r) :
            /\ input[p[1].req].conv = input[r].conv
            /\ input[p[1].req].owner = input[r].owner
            /\ p[1].msg # p[2].id => \A m \in hist[r].msgs : m.id < p[1].msg
  BY AttachedAreOwn DEF Truth, AttachPhotos
<1> QED BY <1>1, TruthHolds, PTL DEF PhotosStayInConversation

\* The write lock is given back after a known number of statements, or sooner.
THEOREM LockSoonFreeHolds == Spec => LockSoonFree
<1>1. Shape /\ Storage /\ [Next]_vars =>
         \A r \in Req : writer = r =>
            \/ writer' = None
            \/ writer' = r /\ UNCHANGED <<tx, pc[r]>>
            \/ writer' = r /\ StatementsLeft(r)' \in 1 .. StatementsLeft(r) - 1
  BY LockStep
<1> QED BY <1>1, StorageHolds, PTL DEF Spec, LockSoonFree

-----------------------------------------------------------------------------
(* The abstract log                                                         *)

\* How far a request is decides its phase, and how far it will be its next one.
LEMMA PhaseIs ==
  ASSUME NEW q
  PROVE  /\ pc[q] = "reply" => Phase(q) = "stored"
         /\ pc[q] = "finished" /\ reply[q] = "none" => Phase(q) = "lost"
         /\ pc[q] = "finished" /\ reply[q] = "done" => Phase(q) = "confirmed"
         /\ pc[q] = "finished" /\ reply[q] \notin {"none", "done"} => Phase(q) = "refused"
         /\ pc[q] \notin {"reply", "finished"} => Phase(q) = "open"
BY DEF Phase

LEMMA PhaseWillBe ==
  ASSUME NEW q
  PROVE  /\ pc'[q] = "reply" => Phase(q)' = "stored"
         /\ pc'[q] = "finished" /\ reply'[q] = "none" => Phase(q)' = "lost"
         /\ pc'[q] = "finished" /\ reply'[q] = "done" => Phase(q)' = "confirmed"
         /\ pc'[q] = "finished" /\ reply'[q] \notin {"none", "done"} => Phase(q)' = "refused"
         /\ pc'[q] \notin {"reply", "finished"} => Phase(q)' = "open"
         /\ pc'[q] = pc[q] /\ reply'[q] = reply[q] => Phase(q)' = Phase(q)
BY DEF Phase

\* The logs, lives and places as the abstract log sees them.
Logs == <<[c \in Conv |-> Life(c)], [c \in Conv |-> LogOf(c)], lastMsg>>

Phases == [q \in Senders |-> Phase(q)]

\* Where no row changes no log does, and phases stay when each one does.
LEMMA LogsStay ==
  ASSUME UNCHANGED <<owner, fresh, messages, lastMsg>>
  PROVE  UNCHANGED Logs
BY DEF Logs, Life, LogOf, RowsOf

LEMMA PhasesStay ==
  ASSUME \A q \in Senders : Phase(q)' = Phase(q)
  PROVE  UNCHANGED Phases
BY DEF Phases

\* One request changes its phase.
LEMMA PhaseOf ==
  ASSUME NEW r \in Senders, NEW p, Phase(r)' = p,
         \A q \in Senders \ {r} : Phase(q)' = Phase(q)
  PROVE  Phases' = [Phases EXCEPT ![r] = p]
BY DEF Phases

\* A handler ends: its client is answered, or is lost.
LEMMA FinishMaps ==
  ASSUME Shape, NEW r \in Req, NEW a \in Answers, Finish(r, a), pc[r] # "finished",
         a = "none" \/ (pc[r] = "reply" <=> a = "done"),
         UNCHANGED <<owner, fresh, messages, lastMsg>>
  PROVE  Log!Next \/ UNCHANGED Log!vars
<1>1. /\ pc'[r] = "finished" /\ reply'[r] \in {"none", a}
      /\ \A q \in Req \ {r} : pc'[q] = pc[q] /\ reply'[q] = reply[q]
  BY FinishTyped DEF Shape, TypeOK, Finish, Tell
<1>2. \A q \in Senders \ {r} : Phase(q)' = Phase(q)
  BY <1>1, PhaseWillBe DEF Req
<1>3. UNCHANGED Logs
  BY LogsStay
<1>4. CASE r \notin Senders
  <2>1. UNCHANGED Phases
    BY <1>2, <1>4, PhasesStay
  <2> QED BY <1>3, <2>1 DEF Log!vars, Logs, Phases
<1>5. ASSUME r \in Senders, reply'[r] = "none" PROVE Log!Lose({r})
  <2>1. Phases[r] \in {"open", "stored"}
    BY <1>5, PhaseIs DEF Phases
  <2>2. Phase(r)' = "lost"
    BY <1>1, <1>5, PhaseWillBe
  <2>3. Phases' = [q \in Senders |-> IF q \in {r} THEN "lost" ELSE Phases[q]]
    BY <1>2, <2>2 DEF Phases
  <2> QED BY <1>3, <2>1, <2>3 DEF Log!Lose, Logs, Phases
<1>6. ASSUME r \in Senders, reply'[r] = a, a = "done", pc[r] = "reply" PROVE Log!Confirm(r)
  <2>1. Phases[r] = "stored"
    BY <1>6, PhaseIs DEF Phases
  <2>2. Phase(r)' = "confirmed"
    BY <1>1, <1>6, PhaseWillBe
  <2>3. Phases' = [Phases EXCEPT ![r] = "confirmed"]
    BY <1>2, <1>6, <2>2, PhaseOf
  <2> QED BY <1>3, <2>1, <2>3 DEF Log!Confirm, Logs, Phases
<1>7. ASSUME r \in Senders, reply'[r] = a, a \notin {"none", "done"}, pc[r] # "reply" PROVE Log!Refuse(r)
  <2>1. Phases[r] = "open"
    BY <1>7, PhaseIs DEF Phases
  <2>2. Phase(r)' = "refused"
    BY <1>1, <1>7, PhaseWillBe
  <2>3. Phases' = [Phases EXCEPT ![r] = "refused"]
    BY <1>2, <1>7, <2>2, PhaseOf
  <2> QED BY <1>3, <2>1, <2>3 DEF Log!Refuse, Logs, Phases
<1>8. CASE r \in Senders
  <2>1. CASE reply'[r] = "none"
    BY <1>5, <1>8, <2>1 DEF Log!Next
  <2>2. CASE reply'[r] = a /\ a # "none"
    BY <1>6, <1>7, <1>8, <2>2 DEF Log!Next
  <2> QED BY <1>1, <2>1, <2>2
<1> QED BY <1>4, <1>8

\* A step within a handler, before or within the transaction.
LEMMA GoesOnMaps ==
  ASSUME UNCHANGED <<owner, fresh, messages, lastMsg, reply>>, NEW r \in Req,
         pc[r] \notin {"reply", "finished"}, pc'[r] \notin {"reply", "finished"},
         \A q \in Req \ {r} : pc'[q] = pc[q]
  PROVE  UNCHANGED Log!vars
<1>1. \A q \in Senders : Phase(q)' = Phase(q)
  BY PhaseIs, PhaseWillBe DEF Req
<1> QED BY <1>1, LogsStay, PhasesStay DEF Log!vars, Logs, Phases

\* Nobody's handler moves.
LEMMA OutsideMaps ==
  ASSUME UNCHANGED <<pc, reply>>
  PROVE  UNCHANGED Phases
BY PhaseWillBe, PhasesStay

\* A row with its new id is a log that opens.
LEMMA CreateMaps ==
  ASSUME Shape, Storage, NEW o \in Owner, Create(o)
  PROVE  \E c \in Conv : Log!Open(c)
<1>1. PICK c \in fresh : fresh' = fresh \ {c} /\ owner' = [owner EXCEPT ![c] = o]
  BY DEF Create
<1>2. c \in Conv /\ owner \in [Conv -> Owner \cup {None}] /\ o # None
  BY ConversationsAssumption DEF Shape, TypeOK
<1>3. Life(c) = "unborn" /\ Life(c)' = "live"
  BY <1>1, <1>2 DEF Life
<1>4. \A d \in Conv \ {c} : Life(d)' = Life(d)
  BY <1>1, <1>2 DEF Life
<1>5. [d \in Conv |-> Life(d)]' = [[d \in Conv |-> Life(d)] EXCEPT ![c] = "live"]
  BY <1>3, <1>4
<1>6. UNCHANGED <<[d \in Conv |-> LogOf(d)], lastMsg, Phases>>
  BY OutsideMaps DEF Create, LogOf, RowsOf
<1> QED BY <1>2, <1>3, <1>5, <1>6 DEF Log!Open, Phases

\* A deleted row is a log that closes: its id is never drawn again.
LEMMA DeleteMaps ==
  ASSUME Shape, Storage, NEW o \in Owner, NEW c \in Conv, Delete(o, c)
  PROVE  Log!Close(c)
<1>1. /\ owner \in [Conv -> Owner \cup {None}] /\ o # None /\ owner[c] = o
      /\ owner' = [owner EXCEPT ![c] = None] /\ fresh' = fresh
      /\ messages' = messages \ RowsOf(c)
  BY ConversationsAssumption DEF Shape, TypeOK, Delete
<1>2. c \notin fresh
  BY <1>1 DEF Storage, FreshHasNoRow
<1>3. Life(c) = "live" /\ Life(c)' = "dead"
  BY <1>1, <1>2 DEF Life
<1>4. \A d \in Conv \ {c} : Life(d)' = Life(d)
  BY <1>1 DEF Life
<1>5. LogOf(c)' = {}
  BY <1>1 DEF LogOf, RowsOf
<1>6. \A d \in Conv \ {c} : LogOf(d)' = LogOf(d)
  <2>1. \A d \in Conv \ {c} : RowsOf(d)' = RowsOf(d)
    BY <1>1 DEF RowsOf
  <2> QED BY <2>1 DEF LogOf
<1>7. [d \in Conv |-> Life(d)]' = [[d \in Conv |-> Life(d)] EXCEPT ![c] = "dead"]
  BY <1>3, <1>4
<1>8. [d \in Conv |-> LogOf(d)]' = [[d \in Conv |-> LogOf(d)] EXCEPT ![c] = {}]
  BY <1>5, <1>6
<1>9. UNCHANGED <<lastMsg, Phases>>
  BY OutsideMaps DEF Delete
<1> QED BY <1>3, <1>7, <1>8, <1>9 DEF Log!Close, Phases

\* A commit appends the exchange, at a place no log has reached.
LEMMA CommitMaps ==
  ASSUME Shape, Storage, NEW r \in Senders, Commit(r)
  PROVE  Log!Append(r, input[r].conv)
<1>0. PICK c : c = input[r].conv
  OBVIOUS
<1>1. /\ r \in Req /\ pc[r] = "commit" /\ pc' = [pc EXCEPT ![r] = "reply"]
      /\ pc \in [Req -> PCs] /\ lastMsg \in Nat
      /\ UNCHANGED <<owner, fresh, reply>>
  BY DEF Commit, Req, Shape, TypeOK
<1>2. c \in Conv /\ owner[c] # None /\ c \notin fresh
  BY <1>0, <1>1, CommitTables DEF Shape, Placed, Active, Storage, FreshHasNoRow
<1>3. messages' = messages \cup {UserRow(r), AnswerRow(r)} /\ lastMsg' = lastMsg + 2
  BY CommitTables
<1>4. /\ UserRow(r).conv = c /\ UserRow(r).role = "user"
      /\ AnswerRow(r).conv = c /\ AnswerRow(r).role = "assistant"
      /\ AnswerRow(r).id = lastMsg + 2 /\ AnswerRow(r).req = r
  BY <1>0 DEF UserRow, AnswerRow
<1>5. LogOf(c)' = LogOf(c) \cup {[at |-> lastMsg', req |-> r]}
  BY <1>3, <1>4 DEF LogOf, RowsOf
<1>6. \A d \in Conv \ {c} : LogOf(d)' = LogOf(d)
  <2>1. \A d \in Conv \ {c} : RowsOf(d)' = RowsOf(d)
    BY <1>3, <1>4 DEF RowsOf
  <2> QED BY <2>1 DEF LogOf
<1>7. [d \in Conv |-> LogOf(d)]' = [[d \in Conv |-> LogOf(d)] EXCEPT ![c] = @ \cup {[at |-> lastMsg', req |-> r]}]
  BY <1>2, <1>5, <1>6
<1>8. [d \in Conv |-> Life(d)]' = [d \in Conv |-> Life(d)] /\ Life(c) = "live"
  BY <1>1, <1>2 DEF Life
<1>9. Phases[r] = "open"
  BY <1>1, PhaseIs DEF Phases
<1>10. Phases' = [Phases EXCEPT ![r] = "stored"]
  <2>1. Phase(r)' = "stored"
    BY <1>1, PhaseWillBe
  <2>2. \A q \in Senders \ {r} : Phase(q)' = Phase(q)
    BY <1>1, PhaseWillBe DEF Req
  <2> QED BY <2>1, <2>2, PhaseOf
<1>11. lastMsg' \in Nat /\ lastMsg' > lastMsg
  BY <1>1, <1>3
<1> QED BY <1>2, <1>7, <1>8, <1>9, <1>10, <1>11, <1>0 DEF Log!Append, Phases

\* A crash loses every request under way at once.
LEMMA CrashMaps ==
  ASSUME Shape, Crash
  PROVE  Log!Next
<1> DEFINE S == {q \in Senders : Active(q)}
<1>1. /\ pc' = [q \in Req |-> IF Active(q) THEN "finished" ELSE pc[q]]
      /\ UNCHANGED <<owner, fresh, messages, lastMsg, reply>>
  BY DEF Crash, tables
<1>2. \A q \in S : Phases[q] \in {"open", "stored"} /\ Phase(q)' = "lost"
  <2> SUFFICES ASSUME NEW q \in S PROVE Phases[q] \in {"open", "stored"} /\ Phase(q)' = "lost"
    OBVIOUS
  <2>1. q \in Req /\ q \in Senders /\ pc[q] # "finished" /\ reply[q] = "none"
    BY DEF Req, Active, Shape, Unanswered
  <2>2. pc'[q] = "finished" /\ reply'[q] = "none"
    BY <1>1, <2>1
  <2> QED BY <2>1, <2>2, PhaseIs, PhaseWillBe DEF Phases
<1>3. \A q \in Senders \ S : Phase(q)' = Phase(q)
  BY <1>1, PhaseWillBe DEF Req
<1>4. Phases' = [q \in Senders |-> IF q \in S THEN "lost" ELSE Phases[q]]
  BY <1>2, <1>3 DEF Phases
<1>5. Log!Lose(S)
  BY <1>1, <1>2, <1>4, LogsStay DEF Log!Lose, Logs, Phases
<1>6. S \in SUBSET Senders
  OBVIOUS
<1> QED BY <1>5, <1>6 DEF Log!Next

\* Nothing is open at first.
LEMMA InitMaps == Init => Log!Init
<1> SUFFICES ASSUME Init PROVE Log!Init
  OBVIOUS
<1>1. \A c \in Conv : Life(c) = "unborn" /\ LogOf(c) = {}
  BY DEF Init, Life, LogOf, RowsOf
<1>2. \A q \in Senders : Phase(q) = "open"
  BY PhaseIs DEF Init, Req
<1> QED BY <1>1, <1>2 DEF Log!Init, Init

\* Every step of the handlers, the clients and the process is one step of the
\* abstract log, or none.
LEMMA StepMaps ==
  ASSUME Shape, Storage, [Next]_vars
  PROVE  Log!Next \/ UNCHANGED Log!vars
<1>0. pc \in [Req -> PCs] /\ \A r \in Senders : r \in Req
  BY DEF Shape, TypeOK, Req
<1>1. ASSUME NEW o \in Owner, Create(o) PROVE Log!Next
  BY <1>1, CreateMaps DEF Log!Next
<1>2. ASSUME NEW o \in Owner, NEW c \in Conv, Delete(o, c) PROVE Log!Next
  BY <1>2, DeleteMaps DEF Log!Next
<1>3. ASSUME UNCHANGED <<owner, fresh, messages, lastMsg, pc, reply>> PROVE UNCHANGED Log!vars
  BY <1>3, LogsStay, OutsideMaps DEF Log!vars, Logs, Phases
<1>4. ASSUME NEW o \in Owner, NEW i \in images, GetImage(o, i) PROVE UNCHANGED Log!vars
  BY <1>3, <1>4 DEF GetImage, tables
<1>5. ASSUME NEW r \in Req, NEW o \in Owner, NEW c \in Conv, NEW text, NEW photos,
             Arrive(r, o, c, text, photos)
      PROVE  UNCHANGED Log!vars
  BY <1>0, <1>5, GoesOnMaps DEF Arrive, tables
<1>6. ASSUME NEW r \in Senders, NEW body \in Bodies, RefuseBody(r, body) PROVE Log!Next \/ UNCHANGED Log!vars
  BY <1>0, <1>6, FinishMaps DEF RefuseBody, Answers, tables
<1>7. ASSUME NEW r \in Req, ReadStep(r) PROVE Log!Next \/ UNCHANGED Log!vars
  <2>1. UNCHANGED <<owner, fresh, messages, lastMsg>> /\ pc[r] \in {"lookup", "select", "attach"}
    BY <1>7 DEF ReadStep, Lookup, SelectMessages, AttachPhotos, AttachPanics, tables
  <2>2. \/ \E a \in {"404", "messages", "panic"} : Finish(r, a)
        \/ \E p \in {"select", "attach", "memory"} : pc' = [pc EXCEPT ![r] = p] /\ UNCHANGED reply
    BY <1>7 DEF ReadStep, Lookup, SelectMessages, AttachPhotos, AttachPanics
  <2>3. ASSUME NEW a \in {"404", "messages", "panic"}, Finish(r, a) PROVE Log!Next \/ UNCHANGED Log!vars
    BY <2>1, <2>3, FinishMaps DEF Answers
  <2>4. ASSUME NEW p \in {"select", "attach", "memory"}, pc' = [pc EXCEPT ![r] = p], UNCHANGED reply
        PROVE  UNCHANGED Log!vars
    BY <1>0, <2>1, <2>4, GoesOnMaps
  <2> QED BY <2>2, <2>3, <2>4
<1>8. ASSUME NEW r \in Senders, SendStep(r) PROVE Log!Next \/ UNCHANGED Log!vars
  <2>1. CASE UpdateConversation(r) \/ InsertUser(r) \/ InsertImage(r) \/ InsertAnswer(r)
    <3>1. /\ UNCHANGED <<owner, fresh, messages, lastMsg, reply>>
          /\ pc[r] \in {"update", "user", "images"}
          /\ \E p \in {"user", "images", "commit"} : pc' = [pc EXCEPT ![r] = p]
      BY <1>0, <2>1 DEF UpdateConversation, InsertUser, InsertImage, InsertAnswer, tables
    <3> QED BY <1>0, <3>1, GoesOnMaps
  <2>2. CASE ConversationGone(r)
    BY <1>0, <2>2, FinishMaps DEF ConversationGone, Answers, tables
  <2>3. CASE Commit(r)
    <3>1. input[r].conv \in Conv
      BY <1>0, <2>3 DEF Commit, Shape, Placed, Active
    <3> QED BY <2>3, <3>1, CommitMaps DEF Log!Next
  <2>4. CASE SendDone(r)
    BY <1>0, <2>4, FinishMaps DEF SendDone, Answers, tables
  <2>5. CASE LoadMemory(r)
    BY <1>0, <2>5, GoesOnMaps DEF LoadMemory, tables
  <2> QED BY <1>8, <2>1, <2>2, <2>3, <2>4, <2>5 DEF SendStep
<1>9. ASSUME NEW r \in Req, Cancelled(r) \/ StoreFails(r) PROVE Log!Next \/ UNCHANGED Log!vars
  <2>1. PICK a \in {"none", "500", "error"} : Finish(r, a) /\ (a = "none" \/ pc[r] # "reply")
    BY <1>9 DEF Cancelled, StoreFails, InTx
  <2>2. UNCHANGED <<owner, fresh, messages, lastMsg>> /\ pc[r] # "finished"
    BY <1>9 DEF Cancelled, StoreFails, Rollback, tables, Active, InTx
  <2> QED BY <2>1, <2>2, FinishMaps DEF Answers
<1>10. ASSUME NEW r \in Req, ClientLeaves(r) PROVE UNCHANGED Log!vars
  BY <1>3, <1>10 DEF ClientLeaves, tables
<1>11. ASSUME NEW r \in Senders, NEW how \in {"ended", "cut"}, StreamAnswers(r, how) PROVE UNCHANGED Log!vars
  BY <1>0, <1>11, GoesOnMaps DEF StreamAnswers, tables
<1>12. ASSUME NEW r \in Senders, StreamFails(r) PROVE Log!Next \/ UNCHANGED Log!vars
  BY <1>0, <1>12, FinishMaps DEF StreamFails, Answers, tables
<1>13. CASE Crash
  BY <1>13, CrashMaps
<1>14. CASE UNCHANGED vars
  BY <1>3, <1>14 DEF vars, tables
<1>15. ASSUME NEW r \in Req, Handle(r) PROVE Log!Next \/ UNCHANGED Log!vars
  BY <1>7, <1>8, <1>9, <1>15 DEF Handle
<1> QED
  BY <1>1, <1>2, <1>4, <1>5, <1>6, <1>9, <1>10, <1>11, <1>12, <1>13, <1>14, <1>15
  DEF Next, ArriveRead, ArriveSend, Req

\* However the steps of the requests fall between each other, whatever fails, leaves or
\* crashes in between, sends and deletes are single steps on append-only logs, and
\* every answer to a client agrees with them.
THEOREM RefinesLogHolds == Spec => RefinesLog
<1>1. Shape /\ Storage /\ [Next]_vars => [Log!Next]_(Log!vars)
  BY StepMaps
<1> QED BY <1>1, InitMaps, StorageHolds, PTL DEF Spec, RefinesLog, Log!Spec

-----------------------------------------------------------------------------
(* The way of a handler                                                     *)

\* A bound on the steps that the handler of r still has to take.
StepsLeft(r) ==
    CASE pc[r] = "lookup" -> input[r].photos + 10
      [] pc[r] = "select" -> input[r].photos + 9
      [] pc[r] = "attach" -> input[r].photos + 8
      [] pc[r] = "memory" -> input[r].photos + 7
      [] pc[r] = "stream" -> input[r].photos + 6
      [] pc[r] = "update" -> input[r].photos + 5
      [] InTx(r)          -> StatementsLeft(r) + 1
      [] pc[r] = "reply"  -> 1
      [] OTHER            -> 0

\* No step, of whomever, puts a handler back, and each step it takes by itself brings
\* it closer to its end.
MovesOn(r) ==
    Active(r) =>
       /\ StepsLeft(r) \in Nat \ {0}
       /\ StepsLeft(r)' \in 0 .. StepsLeft(r)
       /\ Handle(r) => StepsLeft(r)' < StepsLeft(r)

HandlersMoveOn == [][\A r \in Req : MovesOn(r)]_vars

\* StepsLeft place by place, now and after a step.
LEMMA LeftIs ==
  ASSUME NEW r
  PROVE  /\ pc[r] = "lookup" => StepsLeft(r) = input[r].photos + 10
         /\ pc[r] = "select" => StepsLeft(r) = input[r].photos + 9
         /\ pc[r] = "attach" => StepsLeft(r) = input[r].photos + 8
         /\ pc[r] = "memory" => StepsLeft(r) = input[r].photos + 7
         /\ pc[r] = "stream" => StepsLeft(r) = input[r].photos + 6
         /\ pc[r] = "update" => StepsLeft(r) = input[r].photos + 5
         /\ InTx(r) => StepsLeft(r) = StatementsLeft(r) + 1
         /\ pc[r] = "user" => StatementsLeft(r) = input[r].photos + 3
         /\ pc[r] = "commit" => StatementsLeft(r) = 1
         /\ pc[r] = "reply" => StepsLeft(r) = 1
BY DEF StepsLeft, StatementsLeft, InTx

LEMMA LeftWillBe ==
  ASSUME NEW r
  PROVE  /\ pc'[r] = "select" => StepsLeft(r)' = input'[r].photos + 9
         /\ pc'[r] = "attach" => StepsLeft(r)' = input'[r].photos + 8
         /\ pc'[r] = "memory" => StepsLeft(r)' = input'[r].photos + 7
         /\ pc'[r] = "stream" => StepsLeft(r)' = input'[r].photos + 6
         /\ pc'[r] = "update" => StepsLeft(r)' = input'[r].photos + 5
         /\ InTx(r)' => StepsLeft(r)' = StatementsLeft(r)' + 1
         /\ pc'[r] = "user" => StepsLeft(r)' = input'[r].photos + 3 + 1
         /\ pc'[r] = "reply" => StepsLeft(r)' = 1
         /\ pc'[r] = "finished" => StepsLeft(r)' = 0
BY DEF StepsLeft, StatementsLeft, InTx

LEMMA LeftStays ==
  ASSUME NEW r, pc'[r] = pc[r], input'[r] = input[r], InTx(r) => tx' = tx /\ lastImg' = lastImg
  PROVE  StepsLeft(r)' = StepsLeft(r)
<1>1. CASE InTx(r)
  BY <1>1 DEF StepsLeft, StatementsLeft, InTx
<1>2. CASE ~InTx(r)
  BY <1>2 DEF StepsLeft, InTx
<1> QED BY <1>1, <1>2

LEMMA SomeLeft ==
  ASSUME Shape, Storage, NEW r \in Req, Active(r)
  PROVE  StepsLeft(r) \in Nat \ {0}
<1>1. input[r].photos \in Nat /\ lastImg \in Nat /\ tx.lastImg \in Nat /\ pc[r] \in PCs
  BY DEF Shape, TypeOK, Input, Write
<1>2. CASE pc[r] = "images"
  <2>1. /\ tx.lastImg - lastImg <= input[r].photos
        /\ StatementsLeft(r) = input[r].photos - (tx.lastImg - lastImg) + 2 /\ InTx(r)
    BY <1>2 DEF Storage, TxContents, StatementsLeft, InTx
  <2> QED BY <1>1, <2>1, LeftIs
<1>3. CASE pc[r] # "images"
  <2>1. pc[r] \in {"lookup", "select", "attach", "memory", "stream", "update", "user", "commit", "reply"}
    BY <1>1, <1>3 DEF PCs, Active
  <2> QED BY <1>1, <2>1, LeftIs DEF InTx
<1> QED BY <1>2, <1>3

\* What a handler does by itself.
LEMMA HandleMovesOn ==
  ASSUME Shape, Storage, NEW r \in Req, Handle(r)
  PROVE  StepsLeft(r)' < StepsLeft(r) /\ StepsLeft(r)' \in Nat
<1>0. /\ pc \in [Req -> PCs] /\ input[r].photos \in Nat
      /\ \A p : pc' = [pc EXCEPT ![r] = p] => pc'[r] = p
  BY DEF Shape, TypeOK, Input
<1>1. ASSUME NEW a, Finish(r, a), Active(r) PROVE StepsLeft(r)' < StepsLeft(r) /\ StepsLeft(r)' \in Nat
  BY <1>0, <1>1, SomeLeft, LeftWillBe DEF Finish
<1>2. CASE ReadStep(r)
  <2>1. input' = input /\ pc[r] \in {"lookup", "select", "attach"}
    BY <1>2 DEF ReadStep, Lookup, SelectMessages, AttachPhotos, AttachPanics
  <2>2. \/ \E a : Finish(r, a)
        \/ pc[r] = "lookup" /\ pc'[r] = "select"
        \/ pc[r] = "select" /\ pc'[r] = "attach"
        \/ pc[r] = "attach" /\ pc'[r] = "memory"
    BY <1>0, <1>2 DEF ReadStep, Lookup, SelectMessages, AttachPhotos, AttachPanics
  <2>3. CASE \E a : Finish(r, a)
    BY <1>1, <2>1, <2>3 DEF Active
  <2> QED BY <1>0, <2>1, <2>2, <2>3, LeftIs, LeftWillBe
<1>3. ASSUME r \in Senders, SendStep(r) PROVE StepsLeft(r)' < StepsLeft(r) /\ StepsLeft(r)' \in Nat
  <2>1. CASE UpdateConversation(r)
    <3>1. pc[r] = "update" /\ pc'[r] = "user" /\ input' = input
      BY <1>0, <2>1 DEF UpdateConversation
    <3> QED BY <1>0, <3>1, LeftIs, LeftWillBe
  <2>2. CASE ConversationGone(r)
    BY <1>1, <2>2 DEF ConversationGone, Active
  <2>3. CASE InsertUser(r) \/ InsertImage(r) \/ InsertAnswer(r)
    BY <1>3, <2>3, StatementStep, LeftIs, LeftWillBe
  <2>4. CASE Commit(r)
    <3>1. pc[r] = "commit" /\ InTx(r) /\ pc'[r] = "reply"
      BY <1>0, <2>4 DEF Commit, InTx
    <3> QED BY <3>1, LeftIs, LeftWillBe
  <2>5. CASE SendDone(r)
    BY <1>1, <2>5 DEF SendDone, Active
  <2>6. CASE LoadMemory(r)
    <3>1. pc[r] = "memory" /\ pc'[r] = "stream" /\ input' = input
      BY <1>0, <2>6 DEF LoadMemory
    <3> QED BY <1>0, <3>1, LeftIs, LeftWillBe
  <2> QED BY <1>3, <2>1, <2>2, <2>3, <2>4, <2>5, <2>6 DEF SendStep
<1>4. CASE Cancelled(r)
  BY <1>1, <1>4 DEF Cancelled
<1> QED BY <1>2, <1>3, <1>4 DEF Handle

\* What anybody's step does to the handler of r.
LEMMA AnyStepMovesOn ==
  ASSUME Shape, Storage, [Next]_vars, NEW r \in Req, Active(r)
  PROVE  StepsLeft(r)' \in 0 .. StepsLeft(r)
<1> DEFINE Goal == StepsLeft(r)' \in 0 .. StepsLeft(r)
<1>0. /\ pc \in [Req -> PCs] /\ input \in [Req -> Input] /\ input[r].photos \in Nat
      /\ StepsLeft(r) \in Nat \ {0} /\ (InTx(r) => writer = r)
      /\ \A q \in Req : InTx(q) /\ InTx(r) => q = r
      /\ \A q \in Senders : q \in Req
  BY SomeLeft DEF Shape, TypeOK, Input, LockHeld, Req
<1>1. ASSUME pc'[r] = "finished" PROVE Goal
  BY <1>0, <1>1, LeftWillBe
<1>2. ASSUME pc'[r] = pc[r], input'[r] = input[r], InTx(r) => tx' = tx /\ lastImg' = lastImg PROVE Goal
  BY <1>0, <1>2, LeftStays
<1>3. ASSUME Handle(r) PROVE Goal
  BY <1>0, <1>3, HandleMovesOn
<1>4. ASSUME NEW q \in Req, ReadStep(q), q # r PROVE Goal
  <2>1. UNCHANGED <<tables, lock, input>> /\ \E p : pc' = [pc EXCEPT ![q] = p]
    BY <1>4 DEF ReadStep, Lookup, SelectMessages, AttachPhotos, AttachPanics, Finish
  <2> QED BY <1>0, <1>2, <1>4, <2>1 DEF tables, lock
<1>5. ASSUME NEW q \in Senders, SendStep(q), q # r PROVE Goal
  <2>1. pc'[r] = pc[r] /\ input' = input
    BY <1>0, <1>5
    DEF SendStep, LoadMemory, UpdateConversation, ConversationGone, InsertUser, InsertImage, InsertAnswer,
        Commit, SendDone, Finish
  <2>2. ASSUME InTx(r) PROVE tx' = tx /\ lastImg' = lastImg
    <3>1. ~InTx(q) /\ writer = r
      BY <1>0, <1>5, <2>2
    <3>2. CASE UpdateConversation(q)
      BY <1>0, <3>1, <3>2, ConversationsAssumption DEF UpdateConversation
    <3>3. CASE LoadMemory(q) \/ ConversationGone(q) \/ SendDone(q)
      BY <3>3 DEF LoadMemory, ConversationGone, SendDone, tables, lock
    <3>4. ~(InsertUser(q) \/ InsertImage(q) \/ InsertAnswer(q) \/ Commit(q))
      BY <3>1 DEF InsertUser, InsertImage, InsertAnswer, Commit, InTx
    <3> QED BY <1>5, <3>2, <3>3, <3>4 DEF SendStep
  <2> QED BY <1>2, <2>1, <2>2
<1>6. ASSUME NEW q \in Req, Cancelled(q) \/ StoreFails(q) PROVE Goal
  <2>1. pc' = [pc EXCEPT ![q] = "finished"] /\ input' = input /\ Rollback(q)
    BY <1>6 DEF Cancelled, StoreFails, Finish
  <2>2. CASE q = r
    BY <1>0, <1>1, <2>1, <2>2
  <2>3. CASE q # r
    <3>1. InTx(r) => tx' = tx /\ lastImg' = lastImg
      BY <1>0, <2>1, <2>3 DEF Rollback, tables, lock
    <3> QED BY <1>0, <1>2, <2>1, <2>3, <3>1
  <2> QED BY <2>2, <2>3
<1>7. ASSUME NEW q \in Req, Handle(q) \/ StoreFails(q) \/ ClientLeaves(q) PROVE Goal
  <2>1. CASE q = r /\ Handle(q)
    BY <1>3, <2>1
  <2>2. CASE q # r /\ Handle(q)
    BY <1>4, <1>5, <1>6, <2>2 DEF Handle
  <2>3. CASE ClientLeaves(q)
    BY <1>2, <2>3 DEF ClientLeaves, tables, lock
  <2> QED BY <1>6, <1>7, <2>1, <2>2, <2>3
<1>8. ASSUME NEW q \in Req, NEW o, NEW c, NEW text, NEW photos, Arrive(q, o, c, text, photos) PROVE Goal
  <2>1. q # r
    BY <1>8 DEF Arrive, Active
  <2> QED BY <1>0, <1>2, <1>8, <2>1 DEF Arrive, tables, lock
<1>9. ASSUME NEW q \in Senders,
             (\E body \in Bodies : RefuseBody(q, body)) \/ StreamFails(q)
      PROVE  Goal
  <2>1. pc' = [pc EXCEPT ![q] = "finished"] /\ UNCHANGED <<tables, lock, input>>
    BY <1>9 DEF RefuseBody, StreamFails, Finish
  <2>2. q \in Req /\ (q = r \/ q # r)
    BY <1>0
  <2> QED BY <1>0, <1>1, <1>2, <2>1, <2>2 DEF tables, lock
<1>10. ASSUME NEW q \in Senders, NEW how \in {"ended", "cut"}, StreamAnswers(q, how) PROVE Goal
  <2>1. q \in Req /\ pc[q] = "stream" /\ pc' = [pc EXCEPT ![q] = "update"] /\ UNCHANGED <<tables, lock, input>>
    BY <1>0, <1>10 DEF StreamAnswers
  <2>2. CASE q = r
    BY <1>0, <2>1, <2>2, LeftIs, LeftWillBe
  <2>3. CASE q # r
    BY <1>0, <1>2, <2>1, <2>3 DEF tables, lock
  <2> QED BY <2>2, <2>3
<1>11. ASSUME NEW o \in Owner,
              Create(o) \/ (\E c \in Conv : Delete(o, c)) \/ (\E i \in images : GetImage(o, i))
       PROVE  Goal
  BY <1>2, <1>11 DEF Create, Delete, GetImage, tables, lock
<1>12. CASE Crash
  BY <1>1, <1>12 DEF Crash
<1>13. CASE UNCHANGED vars
  BY <1>2, <1>13 DEF vars, tables, lock
<1> QED
  BY <1>7, <1>8, <1>9, <1>10, <1>11, <1>12, <1>13 DEF Next, ArriveRead, ArriveSend, Req

\* A request ends after a number of steps known when it arrives, but for the wait for the
\* model and for the write lock: what AnswerConcluded needs besides fairness.
THEOREM HandlersMoveOnHolds == Spec => HandlersMoveOn
<1>1. Shape /\ Storage /\ [Next]_vars => \A r \in Req : MovesOn(r)
  BY SomeLeft, AnyStepMovesOn, HandleMovesOn DEF MovesOn
<1> QED BY <1>1, StorageHolds, PTL DEF Spec, HandlersMoveOn

=============================================================================
