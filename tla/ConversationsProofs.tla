------------------------ MODULE ConversationsProofs ------------------------
(***************************************************************************)
(* Theorems about Conversations, for any number of accounts, conversations,*)
(* requests and crashes.                                                   *)
(*                                                                         *)
(* Shape is inductive by itself: types, and where a request may be.        *)
(* Storage is inductive relative to Shape: what the tables hold, and what  *)
(* the transaction in progress has written at each of its steps.  The      *)
(* safety properties follow from the two.  Each invariant is carried       *)
(* through Next by one lemma per kind of step.                             *)
(***************************************************************************)
EXTENDS Conversations, TLAPS

(* The shape of every reachable state. *)

\* A request that has arrived names an account and a conversation id.
Placed == \A r \in Req : Active(r) => input[r].conv \in Conv /\ input[r].owner \in Owner

\* Only a send gets past reading.
SendersOnly == \A r \in Req : pc[r] \in {"memory", "stream", "update", "user", "images", "commit", "reply"} => r \in Senders

\* There is no answer before the end.
Unanswered == \A r \in Req : pc[r] # "finished" => reply[r] = "none"

\* The write lock is held by the one request that is inside its transaction.
LockHeld == \A r \in Req : InTx(r) <=> writer = r

\* The transaction's counters run ahead of the committed ones.
TxAhead == writer # None => tx.lastMsg >= lastMsg /\ tx.lastImg >= lastImg

Shape == TypeOK /\ Placed /\ Unanswered /\ SendersOnly /\ LockHeld /\ TxAhead

\* No request is under way at the start, and the tables are empty.
LEMMA InitShape == Init => Shape
<1> SUFFICES ASSUME Init PROVE Shape
  OBVIOUS
<1> USE ConversationsAssumption DEF Init
<1>1. "" \in Title
  BY DEF Title
<1>2. NoWrites \in Write
  BY <1>1 DEF NoWrites, Write
<1>3. NoInput \in Input
  BY DEF NoInput, Input, Text
<1>4. NothingRead \in Read
  BY DEF NothingRead, Read
<1>5. TypeOK
  BY <1>1, <1>2, <1>3, <1>4 DEF TypeOK, PCs, Req, Answers
<1>6. Placed /\ Unanswered /\ SendersOnly /\ LockHeld /\ TxAhead
  BY DEF Placed, Unanswered, SendersOnly, LockHeld, TxAhead, InTx, Active, Req
<1> QED
  BY <1>5, <1>6 DEF Shape

\* The handler of r ends: its place and its answer are of their types, and it
\* is no longer anywhere else.
LEMMA FinishTyped ==
  ASSUME TypeOK, NEW r \in Req, NEW a \in Answers, Finish(r, a)
  PROVE  /\ pc' \in [Req -> PCs]
         /\ reply' \in [Req -> Answers]
         /\ pc'[r] = "finished"
         /\ \A q \in Req \ {r} : pc'[q] = pc[q] /\ reply'[q] = reply[q]
BY DEF TypeOK, Finish, Tell, PCs, Answers

\* A new conversation disturbs no request.
LEMMA CreateShape ==
  ASSUME Shape, NEW o \in Owner, Create(o)
  PROVE  Shape'
<1> USE DEF Shape, Create, lock
<1>1. TypeOK'
  BY DEF TypeOK
<1>2. (Placed /\ Unanswered /\ SendersOnly /\ LockHeld /\ TxAhead)'
  BY DEF Placed, Unanswered, SendersOnly, LockHeld, TxAhead, InTx, Active
<1> QED
  BY <1>1, <1>2

\* A delete takes rows away, and needs the write lock to be free.
LEMMA DeleteShape ==
  ASSUME Shape, NEW o \in Owner, NEW c \in Conv, Delete(o, c)
  PROVE  Shape'
<1> USE DEF Shape, Delete, lock
<1>1. TypeOK'
  BY DEF TypeOK, ImagesKept, Title
<1>2. (Placed /\ Unanswered /\ SendersOnly /\ LockHeld /\ TxAhead)'
  BY DEF Placed, Unanswered, SendersOnly, LockHeld, TxAhead, InTx, Active
<1> QED
  BY <1>1, <1>2

\* A request that arrives names an account and a conversation.
LEMMA ArriveShape ==
  ASSUME Shape, NEW r \in Req, NEW o \in Owner, NEW c \in Conv,
         NEW text \in Text, NEW photos \in Nat, Arrive(r, o, c, text, photos)
  PROVE  Shape'
<1> USE DEF Shape, Arrive, tables, lock
<1>1. [owner |-> o, conv |-> c, text |-> text, photos |-> photos] \in Input
  BY DEF Input
<1>2. TypeOK'
  BY <1>1 DEF TypeOK, PCs
<1>3. (Placed /\ Unanswered)'
  BY DEF TypeOK, Placed, Unanswered, Active
<1>4. (SendersOnly /\ LockHeld /\ TxAhead)'
  BY DEF TypeOK, SendersOnly, LockHeld, TxAhead, InTx
<1> QED
  BY <1>2, <1>3, <1>4

\* A handler that ends without touching the tables or the lock.
LEMMA FinishShape ==
  ASSUME Shape, NEW r \in Req, NEW a \in Answers, Finish(r, a), ~InTx(r),
         UNCHANGED <<tables, lock, input, left, stop, served, crashes>>,
         hist' \in [Req -> Read], told' \in [Req -> Title]
  PROVE  Shape'
<1> USE DEF Shape, tables, lock
<1>1. /\ pc' \in [Req -> PCs]
      /\ reply' \in [Req -> Answers]
      /\ pc'[r] = "finished"
      /\ \A q \in Req \ {r} : pc'[q] = pc[q] /\ reply'[q] = reply[q]
  BY FinishTyped
<1>2. TypeOK'
  BY <1>1 DEF TypeOK
<1>3. (Placed /\ Unanswered /\ SendersOnly)'
  BY <1>1 DEF Placed, Unanswered, SendersOnly, Active
<1>4. (LockHeld /\ TxAhead)'
  BY <1>1 DEF LockHeld, TxAhead, InTx
<1> QED
  BY <1>2, <1>3, <1>4

\* A handler that moves on within reading, or from the stream to the store.
LEMMA AdvanceShape ==
  ASSUME Shape, NEW r \in Req, NEW p \in {"select", "attach", "memory", "stream", "update"},
         Active(r), ~InTx(r), p \in {"memory", "stream", "update"} => r \in Senders,
         pc' = [pc EXCEPT ![r] = p],
         UNCHANGED <<tables, lock, input, left, told, reply, served, crashes>>,
         hist' \in [Req -> Read], stop' \in [Req -> {"none", "ended", "cut"}]
  PROVE  Shape'
<1> USE DEF Shape, tables, lock
<1>1. TypeOK'
  BY DEF TypeOK, PCs
<1>2. (Placed /\ Unanswered /\ SendersOnly)'
  BY DEF TypeOK, Placed, Unanswered, SendersOnly, Active
<1>3. (LockHeld /\ TxAhead)'
  BY DEF TypeOK, LockHeld, TxAhead, InTx
<1> QED
  BY <1>1, <1>2, <1>3

\* The steps of store.Messages, for a listing and for a send.
LEMMA ReadShape ==
  ASSUME Shape, NEW r \in Req, ReadStep(r)
  PROVE  Shape'
<1> USE DEF Shape
<1>1. pc[r] \in {"lookup", "select", "attach"} /\ Active(r) /\ ~InTx(r)
  BY DEF ReadStep, Lookup, SelectMessages, AttachPhotos, AttachPanics, Active, InTx
<1>2. told \in [Req -> Title] /\ hist \in [Req -> Read] /\ stop \in [Req -> {"none", "ended", "cut"}]
  BY DEF TypeOK
<1>3. CASE Lookup(r)
  <2>1. CASE Finds(r)
    BY <1>1, <1>2, <1>3, <2>1, AdvanceShape DEF Lookup
  <2>2. CASE ~Finds(r)
    BY <1>1, <1>2, <1>3, <2>2, FinishShape DEF Lookup, Answers
  <2> QED
    BY <2>1, <2>2
<1>4. CASE SelectMessages(r)
  <2>1. hist' \in [Req -> Read]
    BY <1>2, <1>4 DEF SelectMessages, Snapshot, RowsOf, Read, TypeOK
  <2> QED
    BY <1>1, <1>2, <1>4, <2>1, AdvanceShape DEF SelectMessages
<1>5. CASE AttachPhotos(r)
  <2>1. hist' \in [Req -> Read]
    BY <1>2, <1>5 DEF AttachPhotos, Attachments, PhotoRows, Read, TypeOK, Image, Message
  <2>2. CASE r \in Senders
    BY <1>1, <1>2, <1>5, <2>1, <2>2, AdvanceShape DEF AttachPhotos
  <2>3. CASE r \notin Senders
    BY <1>1, <1>2, <1>5, <2>1, <2>3, FinishShape DEF AttachPhotos, Answers
  <2> QED
    BY <2>2, <2>3
<1>6. CASE AttachPanics(r)
  BY <1>1, <1>2, <1>6, FinishShape DEF AttachPanics, Answers
<1> QED
  BY <1>3, <1>4, <1>5, <1>6 DEF ReadStep

\* The first statement of a transaction takes the free lock.
LEMMA UpdateShape ==
  ASSUME Shape, NEW r \in Senders, UpdateConversation(r)
  PROVE  Shape'
<1> USE DEF Shape, UpdateConversation, tables
<1>1. r \in Req /\ Active(r) /\ input[r].conv \in Conv
  BY DEF Active, Placed, Req
<1>2. NewTitle(r) \in Title
  BY <1>1 DEF NewTitle, TitleFrom, TypeOK, Title, Req
<1>3. tx' \in Write
  BY <1>2 DEF Write, TypeOK
<1>4. TypeOK'
  BY <1>1, <1>3 DEF TypeOK, PCs
<1>5. (Placed /\ Unanswered /\ SendersOnly)'
  BY DEF TypeOK, Placed, Unanswered, SendersOnly, Active
<1>6. LockHeld'
  BY <1>1, ConversationsAssumption DEF TypeOK, LockHeld, InTx
<1>7. TxAhead'
  BY DEF TypeOK, TxAhead
<1> QED
  BY <1>4, <1>5, <1>6, <1>7

\* A step inside the transaction, of the request that holds the lock.
LEMMA InsertShape ==
  ASSUME Shape, NEW r \in Senders, writer = r, NEW p \in {"user", "images", "commit"},
         pc' = [pc EXCEPT ![r] = p],
         tx' \in Write, tx'.lastMsg >= tx.lastMsg, tx'.lastImg >= tx.lastImg,
         UNCHANGED <<tables, writer, input, left, hist, stop, told, reply, served, crashes>>
  PROVE  Shape'
<1> USE DEF Shape, tables
<1>1. r \in Req /\ InTx(r) /\ Active(r)
  BY DEF LockHeld, InTx, Active, Req
<1>2. TypeOK'
  BY <1>1 DEF TypeOK, PCs
<1>3. (Placed /\ Unanswered /\ SendersOnly)'
  BY <1>1 DEF TypeOK, Placed, Unanswered, SendersOnly, Active
<1>4. LockHeld'
  BY <1>1 DEF TypeOK, LockHeld, InTx
<1>5. TxAhead'
  <2>1. tx.lastMsg \in Nat /\ tx.lastImg \in Nat /\ lastMsg \in Nat /\ lastImg \in Nat
    BY DEF TypeOK, Write
  <2>2. tx'.lastMsg \in Nat /\ tx'.lastImg \in Nat
    BY DEF Write
  <2>3. tx.lastMsg >= lastMsg /\ tx.lastImg >= lastImg
    BY ConversationsAssumption, <1>1 DEF TxAhead
  <2> QED
    BY <2>1, <2>2, <2>3 DEF TxAhead
<1> QED
  BY <1>2, <1>3, <1>4, <1>5

\* What inserting a message does to the transaction.
LEMMA AppendTyped ==
  ASSUME Shape, NEW r \in Senders, input[r].conv \in Conv, NEW role \in {"user", "assistant"},
         Append(r, role)
  PROVE  tx' \in Write /\ tx'.lastMsg = tx.lastMsg + 1 /\ tx'.lastImg = tx.lastImg
<1> DEFINE row == [id |-> tx.lastMsg + 1, conv |-> input[r].conv, role |-> role, req |-> r]
<1>1. /\ tx \in Write /\ tx.msgs \subseteq Message
      /\ tx.lastMsg \in Nat
  BY DEF Shape, TypeOK, Write
<1>2. row \in Message
  BY <1>1 DEF Message
<1>3. tx' = [tx EXCEPT !.msgs = tx.msgs \cup {row}, !.lastMsg = tx.lastMsg + 1]
  BY DEF Append
<1>4. tx.msgs \cup {row} \in SUBSET Message /\ tx.lastMsg + 1 \in Nat
  BY <1>1, <1>2
<1> HIDE DEF row
<1> QED
  BY <1>1, <1>3, <1>4 DEF Write

\* The INSERTs of AppendExchange.
LEMMA InsertStepsShape ==
  ASSUME Shape, NEW r \in Senders, InsertUser(r) \/ InsertImage(r) \/ InsertAnswer(r)
  PROVE  Shape'
<1>1. r \in Req /\ InTx(r) /\ input[r].conv \in Conv /\ writer = r
  BY DEF InsertUser, InsertImage, InsertAnswer, Shape, Placed, Active, InTx, LockHeld, Req
<1>2. tx.lastMsg \in Nat /\ tx.lastImg \in Nat
  BY DEF Shape, TypeOK, Write
<1>3. CASE InsertUser(r)
  <2>1. Append(r, "user")
    BY <1>3 DEF InsertUser
  <2>2. tx' \in Write /\ tx'.lastMsg = tx.lastMsg + 1 /\ tx'.lastImg = tx.lastImg
    BY <1>1, <2>1, AppendTyped
  <2>3. tx'.lastMsg >= tx.lastMsg /\ tx'.lastImg >= tx.lastImg
    BY <1>2, <2>2
  <2> QED
    BY <1>1, <1>3, <2>2, <2>3, InsertShape DEF InsertUser
<1>4. CASE InsertAnswer(r)
  <2>1. Append(r, "assistant")
    BY <1>4 DEF InsertAnswer
  <2>2. tx' \in Write /\ tx'.lastMsg = tx.lastMsg + 1 /\ tx'.lastImg = tx.lastImg
    BY <1>1, <2>1, AppendTyped
  <2>3. tx'.lastMsg >= tx.lastMsg /\ tx'.lastImg >= tx.lastImg
    BY <1>2, <2>2
  <2> QED
    BY <1>1, <1>4, <2>2, <2>3, InsertShape DEF InsertAnswer
<1>5. CASE InsertImage(r)
  <2>1. tx.lastImg - lastImg + 1 \in Nat
    <3>1. writer # None
      BY <1>1, ConversationsAssumption
    <3>2. tx.lastImg >= lastImg /\ lastImg \in Nat
      BY <3>1 DEF Shape, TxAhead, TypeOK
    <3> QED
      BY <1>2, <3>2
  <2>2. [id |-> NextImage, msg |-> tx.lastMsg, req |-> r, nth |-> tx.lastImg - lastImg + 1] \in Image
    BY <1>2, <2>1 DEF Image, NextImage
  <2>3. tx' \in Write /\ tx'.lastMsg = tx.lastMsg /\ tx'.lastImg = tx.lastImg + 1
    <3> DEFINE row == [id |-> NextImage, msg |-> tx.lastMsg, req |-> r, nth |-> tx.lastImg - lastImg + 1]
    <3>1. tx \in Write /\ tx.imgs \subseteq Image
      BY DEF Shape, TypeOK, Write
    <3>2. tx' = [tx EXCEPT !.imgs = tx.imgs \cup {row}, !.lastImg = tx.lastImg + 1]
      BY <1>5 DEF InsertImage
    <3>3. tx.imgs \cup {row} \in SUBSET Image /\ tx.lastImg + 1 \in Nat
      BY <1>2, <2>2, <3>1
    <3> HIDE DEF row
    <3> QED
      BY <3>1, <3>2, <3>3 DEF Write
  <2>4. pc' = [pc EXCEPT ![r] = "images"]
    BY <1>1, <1>5 DEF InsertImage, Shape, TypeOK
  <2>5. tx'.lastMsg >= tx.lastMsg /\ tx'.lastImg >= tx.lastImg
    BY <1>2, <2>3
  <2> QED
    BY <1>1, <1>5, <2>3, <2>4, <2>5, InsertShape DEF InsertImage
<1> QED
  BY <1>3, <1>4, <1>5

\* Commit gives the lock back; the counters never go down.
LEMMA CommitShape ==
  ASSUME Shape, NEW r \in Senders, Commit(r)
  PROVE  Shape'
<1> USE DEF Shape, Commit
<1>1. r \in Req /\ InTx(r) /\ Active(r) /\ writer = r
  BY DEF Active, InTx, LockHeld, Req
<1>2. NoWrites \in Write
  BY DEF NoWrites, Write, Title
<1>3. /\ tx.title \in Title /\ tx.msgs \subseteq Message /\ tx.imgs \subseteq Image
      /\ tx.lastMsg \in Nat /\ tx.lastImg \in Nat
  BY DEF TypeOK, Write
<1>4. TypeOK'
  BY <1>1, <1>2, <1>3 DEF TypeOK, PCs
<1>5. (Placed /\ Unanswered /\ SendersOnly)'
  BY <1>1 DEF TypeOK, Placed, Unanswered, SendersOnly, Active
<1>6. (LockHeld /\ TxAhead)'
  BY <1>1, ConversationsAssumption DEF TypeOK, LockHeld, TxAhead, InTx
<1> QED
  BY <1>4, <1>5, <1>6

\* The steps a send takes by itself after the upstream has answered.
LEMMA SendShape ==
  ASSUME Shape, NEW r \in Senders, SendStep(r)
  PROVE  Shape'
<1>1. r \in Req
  BY DEF Req
<1>2. told \in [Req -> Title] /\ hist \in [Req -> Read]
  BY DEF Shape, TypeOK
<1>3. CASE UpdateConversation(r)
  BY <1>3, UpdateShape
<1>4. CASE ConversationGone(r)
  BY <1>1, <1>2, <1>4, FinishShape DEF ConversationGone, InTx, Answers
<1>5. CASE InsertUser(r) \/ InsertImage(r) \/ InsertAnswer(r)
  BY <1>5, InsertStepsShape
<1>6. CASE Commit(r)
  BY <1>6, CommitShape
<1>7. CASE SendDone(r)
  <2>1. ~InTx(r) /\ input[r].conv \in Conv
    BY <1>1, <1>7 DEF SendDone, InTx, Shape, Placed, Active
  <2>2. "" \in Title /\ title[input[r].conv] \in Title
    BY <2>1 DEF Shape, TypeOK, Title
  <2>3. told' \in [Req -> Title]
    BY <1>1, <1>2, <1>7, <2>2 DEF SendDone
  <2> QED
    BY <1>1, <1>2, <1>7, <2>1, <2>3, FinishShape DEF SendDone, Answers
<1>8. CASE LoadMemory(r)
  BY <1>1, <1>2, <1>8, AdvanceShape DEF LoadMemory, Active, InTx, Shape, TypeOK
<1> QED
  BY <1>3, <1>4, <1>5, <1>6, <1>7, <1>8 DEF SendStep

\* A handler that ends early and rolls back.
LEMMA RollbackShape ==
  ASSUME Shape, NEW r \in Req, NEW a \in Answers, Finish(r, a), Rollback(r),
         UNCHANGED <<input, left, hist, stop, told, served, crashes>>
  PROVE  Shape'
<1> USE DEF Shape
<1>1. CASE writer = r
  <2>1. /\ pc' \in [Req -> PCs]
        /\ reply' \in [Req -> Answers]
        /\ pc'[r] = "finished"
        /\ \A q \in Req \ {r} : pc'[q] = pc[q] /\ reply'[q] = reply[q]
    BY FinishTyped
  <2>2. writer' = None /\ tx' = NoWrites /\ UNCHANGED tables
    BY <1>1 DEF Rollback
  <2>3. NoWrites \in Write
    BY DEF NoWrites, Write, Title
  <2>4. TypeOK'
    BY <2>1, <2>2, <2>3 DEF TypeOK, tables
  <2>5. (Placed /\ Unanswered /\ SendersOnly)'
    BY <2>1 DEF Placed, Unanswered, SendersOnly, Active
  <2>6. (LockHeld /\ TxAhead)'
    BY <1>1, <2>1, <2>2, ConversationsAssumption DEF LockHeld, TxAhead, InTx
  <2> QED
    BY <2>4, <2>5, <2>6
<1>2. CASE writer # r
  <2>1. ~InTx(r)
    BY <1>2 DEF LockHeld
  <2>2. told \in [Req -> Title] /\ hist \in [Req -> Read]
    BY DEF TypeOK
  <2> QED
    BY <1>2, <2>1, <2>2, FinishShape DEF Rollback
<1> QED
  BY <1>1, <1>2

\* A crash ends every handler and every transaction.
LEMMA CrashShape ==
  ASSUME Shape, Crash
  PROVE  Shape'
<1> USE DEF Shape, Crash, tables
<1>1. NoWrites \in Write
  BY DEF NoWrites, Write, Title
<1>2. TypeOK'
  BY <1>1 DEF TypeOK, PCs
<1>3. (Placed /\ Unanswered /\ SendersOnly)'
  BY DEF Placed, Unanswered, SendersOnly, Active
<1>4. (LockHeld /\ TxAhead)'
  BY ConversationsAssumption DEF LockHeld, TxAhead, InTx, Active
<1> QED
  BY <1>2, <1>3, <1>4

\* Every step keeps the shape.
LEMMA NextShape == Shape /\ [Next]_vars => Shape'
<1> SUFFICES ASSUME Shape, [Next]_vars PROVE Shape'
  OBVIOUS
<1>1. ASSUME NEW o \in Owner, Create(o) PROVE Shape'
  BY <1>1, CreateShape
<1>2. ASSUME NEW o \in Owner, NEW c \in Conv, Delete(o, c) PROVE Shape'
  BY <1>2, DeleteShape
<1>3. ASSUME NEW o \in Owner, NEW i \in images, GetImage(o, i) PROVE Shape'
  BY <1>3 DEF Shape, GetImage, TypeOK, Image, Placed, Unanswered, SendersOnly, LockHeld, TxAhead, InTx, Active, tables, lock
<1>4. ASSUME NEW r \in Readers, NEW o \in Owner, NEW c \in Conv, ArriveRead(r, o, c) PROVE Shape'
  BY <1>4, ArriveShape DEF ArriveRead, Req, Text
<1>5. ASSUME NEW r \in Senders, NEW o \in Owner, NEW c \in Conv, NEW body \in Bodies,
             ArriveSend(r, o, c, body)
      PROVE  Shape'
  <2>1. body.text \in Text /\ body.photos \in 0 .. MaxPhotos + 1
    BY DEF Bodies
  <2>2. body.photos \in Nat
    <3>1. MaxPhotos \in Nat
      BY ConversationsAssumption
    <3> QED
      BY <2>1, <3>1
  <2> QED
    BY <1>5, <2>1, <2>2, ArriveShape DEF ArriveSend, Req
<1>6. ASSUME NEW r \in Senders, NEW body \in Bodies, RefuseBody(r, body) PROVE Shape'
  BY <1>6, FinishShape DEF RefuseBody, Req, InTx, Answers, Shape, TypeOK
<1>7. ASSUME NEW r \in Req, ReadStep(r) PROVE Shape'
  BY <1>7, ReadShape
<1>8. ASSUME NEW r \in Senders, SendStep(r) PROVE Shape'
  BY <1>8, SendShape
<1>9. ASSUME NEW r \in Req, Cancelled(r) PROVE Shape'
  BY <1>9, RollbackShape DEF Cancelled, Answers
<1>10. ASSUME NEW r \in Req, StoreFails(r) PROVE Shape'
  BY <1>10, RollbackShape DEF StoreFails, Answers
<1>11. ASSUME NEW r \in Req, ClientLeaves(r) PROVE Shape'
  BY <1>11 DEF Shape, ClientLeaves, TypeOK, Placed, Unanswered, SendersOnly, LockHeld, TxAhead, InTx, Active, tables, lock
<1>12. ASSUME NEW r \in Senders, NEW how \in {"ended", "cut"}, StreamAnswers(r, how) PROVE Shape'
  BY <1>12, AdvanceShape DEF StreamAnswers, Req, Active, InTx, Shape, TypeOK
<1>13. ASSUME NEW r \in Senders, StreamFails(r) PROVE Shape'
  BY <1>13, FinishShape DEF StreamFails, Req, InTx, Answers, Shape, TypeOK
<1>14. CASE Crash
  BY <1>14, CrashShape
<1>15. CASE UNCHANGED vars
  BY <1>15 DEF vars, Shape, TypeOK, Placed, Unanswered, SendersOnly, LockHeld, TxAhead, InTx, Active, tables, lock
<1> QED
  BY <1>1, <1>2, <1>3, <1>4, <1>5, <1>6, <1>7, <1>8, <1>9, <1>10, <1>11, <1>12, <1>13, <1>14, <1>15
  DEF Next, Handle

\* Every variable keeps its type; the request of a transaction is the holder of
\* the lock.
THEOREM ShapeHolds == Spec => []Shape
<1>1. Init => Shape
  BY InitShape
<1>2. Shape /\ [Next]_vars => Shape'
  BY NextShape
<1> QED
  BY <1>1, <1>2, PTL DEF Spec

\* TypeOK, the type invariant of the runs.
THEOREM TypeCorrect == Spec => []TypeOK
<1>1. Shape => TypeOK
  BY DEF Shape
<1> QED
  BY <1>1, ShapeHolds, PTL

-----------------------------------------------------------------------------
(* What is stored: the inductive invariant behind the safety properties.    *)

\* The requests whose transaction has been committed.
Stored(r) == pc[r] = "reply" \/ (pc[r] = "finished" /\ reply[r] \in {"none", "done"})

IdsBelow ==
    /\ \A m \in messages : m.id <= lastMsg
    /\ \A i \in images : i.id <= lastImg

UniqueIds == \A m, n \in messages : m.id = n.id => m = n

\* A row belongs to the conversation and the account its request named.
RowsOfRequests ==
    \A m \in messages : /\ Stored(m.req)
                        /\ m.conv = input[m.req].conv
                        /\ owner[m.conv] = input[m.req].owner
                        /\ owner[m.conv] # None

ImagesPlaced == \A i \in images : \E m \in messages : m.id = i.msg /\ m.role = "user" /\ m.req = i.req

\* An id that was not drawn has no row.
FreshHasNoRow == \A c \in fresh : owner[c] = None

UserRow(r) == [id |-> lastMsg + 1, conv |-> input[r].conv, role |-> "user", req |-> r]

AnswerRow(r) == [id |-> lastMsg + 2, conv |-> input[r].conv, role |-> "assistant", req |-> r]

PhotoRow(r, n) == [id |-> lastImg + n, msg |-> lastMsg + 1, req |-> r, nth |-> n]

PhotoRows1To(r, k) == {PhotoRow(r, n) : n \in 1 .. k}

\* What the transaction has written at each of its steps.
TxContents ==
    \A r \in Req :
       /\ InTx(r) => Finds(r) /\ owner[input[r].conv] # None
       /\ pc[r] = "user" =>
             tx.msgs = {} /\ tx.imgs = {} /\ tx.lastMsg = lastMsg /\ tx.lastImg = lastImg
       /\ pc[r] = "images" =>
             /\ tx.msgs = {UserRow(r)} /\ tx.lastMsg = lastMsg + 1
             /\ tx.imgs = PhotoRows1To(r, tx.lastImg - lastImg)
             /\ tx.lastImg - lastImg <= input[r].photos
       /\ pc[r] = "commit" =>
             /\ tx.msgs = {UserRow(r), AnswerRow(r)} /\ tx.lastMsg = lastMsg + 2
             /\ tx.imgs = PhotoRows1To(r, input[r].photos)
             /\ tx.lastImg = lastImg + input[r].photos

Storage ==
    /\ IdsBelow /\ UniqueIds /\ RowsOfRequests /\ ImagesPlaced /\ FreshHasNoRow
    /\ TxContents /\ ExchangesAreWhole

\* Empty tables satisfy the storage invariant.
LEMMA InitStorage == Init => Storage
<1> SUFFICES ASSUME Init PROVE Storage
  OBVIOUS
<1> USE DEF Init
<1>1. IdsBelow /\ UniqueIds /\ RowsOfRequests /\ ImagesPlaced /\ ExchangesAreWhole
  BY DEF IdsBelow, UniqueIds, RowsOfRequests, ImagesPlaced, ExchangesAreWhole
<1>2. FreshHasNoRow
  BY DEF FreshHasNoRow
<1>3. TxContents
  BY DEF TxContents, InTx
<1> QED
  BY <1>1, <1>2, <1>3 DEF Storage

\* Steps outside the tables: a stored request keeps its input and stays stored,
\* and nobody enters or moves within a transaction.
LEMMA QuietStorage ==
  ASSUME Shape, Shape', Storage, UNCHANGED tables,
         \A q \in Req : Stored(q) => Stored(q)' /\ input'[q] = input[q],
         \/ writer' = None
         \/ /\ UNCHANGED lock
            /\ \A q \in Req : InTx(q)' => pc'[q] = pc[q] /\ input'[q] = input[q]
  PROVE  Storage'
<1> USE DEF tables
<1>1. (IdsBelow /\ UniqueIds /\ ImagesPlaced /\ FreshHasNoRow)'
  BY DEF Storage, IdsBelow, UniqueIds, ImagesPlaced, FreshHasNoRow
<1>2. \A m \in messages : m.req \in Req /\ Stored(m.req)
  BY DEF Storage, RowsOfRequests, Shape, TypeOK, Message, Req
<1>3. RowsOfRequests'
  BY <1>2 DEF Storage, RowsOfRequests
<1>4. ExchangesAreWhole'
  <2>1. \A m \in messages : HasPhotos(m)' <=> HasPhotos(m)
    BY <1>2 DEF HasPhotos
  <2> QED
    BY <2>1 DEF Storage, ExchangesAreWhole, IsAnswerTo
<1>5. TxContents'
  <2>1. CASE writer' = None
    <3>1. \A q \in Req : ~InTx(q)'
      BY <2>1, ConversationsAssumption DEF Shape, LockHeld
    <3> QED
      BY <3>1 DEF TxContents, InTx
  <2>2. CASE /\ UNCHANGED lock
             /\ \A q \in Req : InTx(q)' => pc'[q] = pc[q] /\ input'[q] = input[q]
    <3> SUFFICES ASSUME NEW q \in Req, InTx(q)'
                 PROVE  /\ (Finds(q) /\ owner[input[q].conv] # None)'
                        /\ (pc[q] = "user" =>
                             tx.msgs = {} /\ tx.imgs = {} /\ tx.lastMsg = lastMsg /\ tx.lastImg = lastImg)'
                        /\ (pc[q] = "images" =>
                             /\ tx.msgs = {UserRow(q)} /\ tx.lastMsg = lastMsg + 1
                             /\ tx.imgs = PhotoRows1To(q, tx.lastImg - lastImg)
                             /\ tx.lastImg - lastImg <= input[q].photos)'
                        /\ (pc[q] = "commit" =>
                             /\ tx.msgs = {UserRow(q), AnswerRow(q)} /\ tx.lastMsg = lastMsg + 2
                             /\ tx.imgs = PhotoRows1To(q, input[q].photos)
                             /\ tx.lastImg = lastImg + input[q].photos)'
      BY DEF TxContents, InTx
    <3>1. pc'[q] = pc[q] /\ input'[q] = input[q] /\ InTx(q) /\ tx' = tx
      BY <2>2 DEF InTx, lock
    <3>2. /\ UserRow(q)' = UserRow(q) /\ AnswerRow(q)' = AnswerRow(q)
          /\ PhotoRows1To(q, input[q].photos)' = PhotoRows1To(q, input[q].photos)
          /\ PhotoRows1To(q, tx.lastImg - lastImg)' = PhotoRows1To(q, tx.lastImg - lastImg)
          /\ Finds(q)' = Finds(q)
      BY <3>1 DEF UserRow, AnswerRow, PhotoRows1To, PhotoRow, Finds
    <3> QED
      BY <3>1, <3>2 DEF Storage, TxContents
  <2> QED
    BY <2>1, <2>2
<1> QED
  BY <1>1, <1>3, <1>4, <1>5 DEF Storage

\* A conversation is created under an id that has no rows.
LEMMA CreateStorage ==
  ASSUME Shape, Shape', Storage, NEW o \in Owner, Create(o)
  PROVE  Storage'
<1> USE DEF Create, lock
<1>1. PICK c \in fresh : fresh' = fresh \ {c} /\ owner' = [owner EXCEPT ![c] = o]
  OBVIOUS
<1>2. writer' = None
  OBVIOUS
<1>3. c \in Conv /\ owner[c] = None /\ owner \in [Conv -> Owner \cup {None}]
  BY DEF Storage, FreshHasNoRow, Shape, TypeOK
<1>4. \A m \in messages : owner'[m.conv] = owner[m.conv] /\ Stored(m.req)' = Stored(m.req)
  BY <1>1, <1>3 DEF Storage, RowsOfRequests, Stored, Shape, TypeOK, Message
<1>5. (IdsBelow /\ UniqueIds /\ ImagesPlaced)'
  BY DEF Storage, IdsBelow, UniqueIds, ImagesPlaced
<1>6. RowsOfRequests'
  BY <1>4 DEF Storage, RowsOfRequests
<1>7. FreshHasNoRow'
  BY <1>1, <1>3 DEF Storage, FreshHasNoRow, Shape, TypeOK
<1>8. ExchangesAreWhole'
  BY DEF Storage, ExchangesAreWhole, IsAnswerTo, HasPhotos
<1>9. TxContents'
  <2>1. \A q \in Req : ~InTx(q)'
    BY <1>2, ConversationsAssumption DEF Shape, LockHeld
  <2> QED
    BY <2>1 DEF TxContents, InTx
<1> QED
  BY <1>5, <1>6, <1>7, <1>8, <1>9 DEF Storage

\* The cascade takes messages and photos together; no transaction is open.
LEMMA DeleteStorage ==
  ASSUME Shape, Shape', Storage, NEW o \in Owner, NEW c \in Conv, Delete(o, c)
  PROVE  Storage'
<1> USE DEF Delete, lock
<1>1. messages' = {m \in messages : m.conv # c}
  BY DEF RowsOf
<1>2. images' = {i \in images : \A m \in messages : m.conv = c => m.id # i.msg}
  BY DEF ImagesKept, IdsOf, RowsOf
<1>3. (IdsBelow /\ UniqueIds)'
  BY <1>1, <1>2 DEF Storage, IdsBelow, UniqueIds
<1>4. RowsOfRequests'
  BY <1>1 DEF Storage, RowsOfRequests, Stored, Shape, TypeOK, Message
<1>5. ImagesPlaced'
  BY <1>1, <1>2 DEF Storage, ImagesPlaced, UniqueIds
<1>6. FreshHasNoRow'
  BY DEF Storage, FreshHasNoRow, Shape, TypeOK
<1>7. ExchangesAreWhole'
  <2>1. ASSUME NEW u \in messages', u.role = "user" PROVE HasPhotos(u)'
    <3>1. u \in messages /\ u.conv # c /\ HasPhotos(u)
      BY <1>1, <2>1 DEF Storage, ExchangesAreWhole
    <3>2. \A m \in messages : m.conv = c => m.id # u.id
      BY <3>1 DEF Storage, UniqueIds
    <3>3. \A i \in images : i.msg = u.id => i \in images'
      BY <1>2, <3>2
    <3> QED
      BY <3>1, <3>3 DEF HasPhotos
  <2>2. \A a, u \in messages : IsAnswerTo(a, u) => a.conv = u.conv
    BY DEF IsAnswerTo
  <2> QED
    BY <1>1, <2>1, <2>2 DEF Storage, ExchangesAreWhole, IsAnswerTo
<1>8. TxContents'
  <2>1. \A q \in Req : ~InTx(q)'
    BY ConversationsAssumption DEF Shape, LockHeld
  <2> QED
    BY <2>1 DEF TxContents, InTx
<1> QED
  BY <1>3, <1>4, <1>5, <1>6, <1>7, <1>8 DEF Storage

\* The steps of a transaction before Commit: the tables stay, the holder of the
\* lock moves on, and nobody else is in a transaction.
LEMMA TxStorage ==
  ASSUME Shape, Shape', Storage, NEW r \in Senders, writer' = r,
         UNCHANGED <<tables, input, reply>>,
         NEW p \in {"user", "images", "commit"}, pc[r] \in {"update", "user", "images"},
         pc' = [pc EXCEPT ![r] = p],
         Finds(r), owner[input[r].conv] # None,
         p = "user" =>
            tx'.msgs = {} /\ tx'.imgs = {} /\ tx'.lastMsg = lastMsg /\ tx'.lastImg = lastImg,
         p = "images" =>
            /\ tx'.msgs = {UserRow(r)} /\ tx'.lastMsg = lastMsg + 1
            /\ tx'.imgs = PhotoRows1To(r, tx'.lastImg - lastImg)
            /\ tx'.lastImg - lastImg <= input[r].photos,
         p = "commit" =>
            /\ tx'.msgs = {UserRow(r), AnswerRow(r)} /\ tx'.lastMsg = lastMsg + 2
            /\ tx'.imgs = PhotoRows1To(r, input[r].photos)
            /\ tx'.lastImg = lastImg + input[r].photos
  PROVE  Storage'
<1> USE DEF tables
<1>1. r \in Req /\ pc \in [Req -> PCs]
  BY DEF Req, Shape, TypeOK
<1>2. \A m \in messages : m.req \in Req /\ Stored(m.req)
  BY DEF Storage, RowsOfRequests, Shape, TypeOK, Message, Req
<1>3. \A m \in messages : Stored(m.req)'
  BY <1>1, <1>2 DEF Stored
<1>4. (IdsBelow /\ UniqueIds /\ ImagesPlaced /\ FreshHasNoRow /\ RowsOfRequests)'
  BY <1>3 DEF Storage, IdsBelow, UniqueIds, ImagesPlaced, FreshHasNoRow, RowsOfRequests
<1>5. ExchangesAreWhole'
  BY DEF Storage, ExchangesAreWhole, IsAnswerTo, HasPhotos
<1>6. \A q \in Req : q # r => ~InTx(q)'
  BY DEF Shape, LockHeld
<1>7. pc'[r] = p
  BY <1>1
<1>8. /\ UserRow(r)' = UserRow(r) /\ AnswerRow(r)' = AnswerRow(r) /\ Finds(r)' = Finds(r)
      /\ PhotoRows1To(r, input[r].photos)' = PhotoRows1To(r, input[r].photos)
      /\ PhotoRows1To(r, tx.lastImg - lastImg)' = PhotoRows1To(r, tx'.lastImg - lastImg)
  BY DEF UserRow, AnswerRow, PhotoRows1To, PhotoRow, Finds
<1>9. TxContents'
  BY <1>6, <1>7, <1>8 DEF TxContents, InTx
<1> QED
  BY <1>4, <1>5, <1>9 DEF Storage

\* Each INSERT adds the row that TxContents expects at the next step.
LEMMA InsertStorage ==
  ASSUME Shape, Shape', Storage, NEW r \in Senders,
         UpdateConversation(r) \/ InsertUser(r) \/ InsertImage(r) \/ InsertAnswer(r)
  PROVE  Storage'
<1>1. r \in Req /\ writer' = r
  BY DEF Req, UpdateConversation, InsertUser, InsertImage, InsertAnswer, InTx, Shape, LockHeld
<1>2. /\ lastMsg \in Nat /\ lastImg \in Nat /\ tx \in Write
      /\ pc \in [Req -> PCs] /\ input[r].photos \in Nat
  BY <1>1 DEF Shape, TypeOK, Input
<1>3. CASE UpdateConversation(r)
  <2>1. input[r].owner \in Owner
    BY <1>1, <1>3 DEF UpdateConversation, Shape, Placed, Active
  <2>2. Finds(r) /\ owner[input[r].conv] # None
    BY <1>3, <2>1, ConversationsAssumption DEF UpdateConversation, Finds
  <2> QED
    BY <1>1, <1>3, <2>2, TxStorage DEF UpdateConversation
<1>4. CASE InsertUser(r)
  <2>1. /\ Finds(r) /\ owner[input[r].conv] # None
        /\ tx.msgs = {} /\ tx.imgs = {} /\ tx.lastMsg = lastMsg /\ tx.lastImg = lastImg
    BY <1>1, <1>4 DEF InsertUser, InTx, Storage, TxContents
  <2>2. tx' = [tx EXCEPT !.msgs = {UserRow(r)}, !.lastMsg = lastMsg + 1]
    BY <1>4, <2>1 DEF InsertUser, Append, UserRow
  <2>3. /\ tx'.msgs = {UserRow(r)} /\ tx'.lastMsg = lastMsg + 1
        /\ tx'.imgs = {} /\ tx'.lastImg = lastImg
    BY <1>2, <2>1, <2>2 DEF Write
  <2>4. PhotoRows1To(r, tx'.lastImg - lastImg) = {} /\ tx'.lastImg - lastImg <= input[r].photos
    BY <1>2, <2>3 DEF PhotoRows1To
  <2> QED
    BY <1>1, <1>4, <2>1, <2>3, <2>4, TxStorage DEF InsertUser
<1>5. CASE InsertImage(r)
  <2> DEFINE k == tx.lastImg - lastImg
  <2>1. /\ Finds(r) /\ owner[input[r].conv] # None
        /\ tx.msgs = {UserRow(r)} /\ tx.lastMsg = lastMsg + 1
        /\ tx.imgs = PhotoRows1To(r, k)
    BY <1>1, <1>5 DEF InsertImage, InTx, Storage, TxContents
  <2>2. writer # None /\ tx.lastImg \in Nat /\ tx.lastImg >= lastImg
    BY <1>1, <1>2, <1>5, ConversationsAssumption DEF InsertImage, InTx, Shape, LockHeld, TxAhead, Write
  <2>3. k \in Nat /\ k < input[r].photos
    BY <1>2, <1>5, <2>2 DEF InsertImage
  <2>4. PhotoRow(r, k + 1) = [id |-> NextImage, msg |-> tx.lastMsg, req |-> r, nth |-> tx.lastImg - lastImg + 1]
    BY <1>2, <2>1, <2>2 DEF PhotoRow, NextImage
  <2>5. tx' = [tx EXCEPT !.imgs = tx.imgs \cup {PhotoRow(r, k + 1)}, !.lastImg = tx.lastImg + 1]
    BY <1>5, <2>4 DEF InsertImage
  <2>6. /\ tx'.msgs = {UserRow(r)} /\ tx'.lastMsg = lastMsg + 1
        /\ tx'.imgs = PhotoRows1To(r, k) \cup {PhotoRow(r, k + 1)}
        /\ tx'.lastImg = tx.lastImg + 1
    BY <1>2, <2>1, <2>5 DEF Write
  <2>7. tx'.lastImg - lastImg = k + 1
    BY <1>2, <2>2, <2>6
  <2>8. 1 .. k + 1 = 1 .. k \cup {k + 1}
    BY <2>3
  <2>9. PhotoRows1To(r, k + 1) = PhotoRows1To(r, k) \cup {PhotoRow(r, k + 1)}
    BY <2>8 DEF PhotoRows1To
  <2>10. tx'.imgs = PhotoRows1To(r, tx'.lastImg - lastImg) /\ tx'.lastImg - lastImg <= input[r].photos
    BY <1>2, <2>3, <2>6, <2>7, <2>9
  <2>11. pc' = [pc EXCEPT ![r] = "images"]
    BY <1>1, <1>2, <1>5 DEF InsertImage
  <2> QED
    BY <1>1, <1>5, <2>1, <2>6, <2>10, <2>11, TxStorage DEF InsertImage
<1>6. CASE InsertAnswer(r)
  <2>1. /\ Finds(r) /\ owner[input[r].conv] # None
        /\ tx.msgs = {UserRow(r)} /\ tx.lastMsg = lastMsg + 1
        /\ tx.imgs = PhotoRows1To(r, input[r].photos)
        /\ tx.lastImg - lastImg = input[r].photos
    BY <1>1, <1>6 DEF InsertAnswer, InTx, Storage, TxContents
  <2>2. tx.lastImg \in Nat /\ lastMsg + 1 + 1 = lastMsg + 2
    BY <1>2 DEF Write
  <2>3. tx' = [tx EXCEPT !.msgs = {UserRow(r)} \cup {AnswerRow(r)}, !.lastMsg = lastMsg + 2]
    BY <1>6, <2>1, <2>2 DEF InsertAnswer, Append, AnswerRow
  <2>4. /\ tx'.msgs = {UserRow(r), AnswerRow(r)} /\ tx'.lastMsg = lastMsg + 2
        /\ tx'.imgs = PhotoRows1To(r, input[r].photos)
        /\ tx'.lastImg = tx.lastImg
    BY <1>2, <2>1, <2>3 DEF Write
  <2>5. tx'.lastImg = lastImg + input[r].photos
    BY <1>2, <2>1, <2>2, <2>4
  <2> QED
    BY <1>1, <1>6, <2>1, <2>4, <2>5, TxStorage DEF InsertAnswer
<1> QED
  BY <1>3, <1>4, <1>5, <1>6

\* What Commit makes of the tables.
LEMMA CommitTables ==
  ASSUME Shape, Storage, NEW r \in Senders, Commit(r)
  PROVE  /\ messages' = messages \cup {UserRow(r), AnswerRow(r)}
         /\ images' = images \cup PhotoRows1To(r, input[r].photos)
         /\ lastMsg' = lastMsg + 2
         /\ lastImg' = lastImg + input[r].photos
         /\ Finds(r) /\ owner[input[r].conv] # None
BY DEF Commit, Req, InTx, Storage, TxContents

\* What a transaction commits is a whole exchange, under new ids, in a
\* conversation that is still there.
LEMMA CommitStorage ==
  ASSUME Shape, Shape', Storage, NEW r \in Senders, Commit(r)
  PROVE  Storage'
<1>0. PICK u, a : u = UserRow(r) /\ a = AnswerRow(r)
  OBVIOUS
<1>1. /\ r \in Req /\ pc \in [Req -> PCs] /\ input[r].photos \in Nat
      /\ lastMsg \in Nat /\ lastImg \in Nat
      /\ messages \subseteq Message /\ images \subseteq Image
  BY DEF Req, Shape, TypeOK, Input
<1>2. /\ messages' = messages \cup {u, a}
      /\ images' = images \cup PhotoRows1To(r, input[r].photos)
      /\ lastMsg' = lastMsg + 2
      /\ lastImg' = lastImg + input[r].photos
      /\ Finds(r) /\ owner[input[r].conv] # None
  BY <1>0, CommitTables
<1>3. /\ u.id = lastMsg + 1 /\ u.conv = input[r].conv /\ u.role = "user" /\ u.req = r
      /\ a.id = lastMsg + 2 /\ a.conv = input[r].conv /\ a.role = "assistant" /\ a.req = r
  BY <1>0 DEF UserRow, AnswerRow
<1>4. /\ pc' = [pc EXCEPT ![r] = "reply"] /\ pc[r] = "commit"
      /\ UNCHANGED <<owner, fresh, input, reply>> /\ writer' = None
  BY DEF Commit
<1>5. \A i \in PhotoRows1To(r, input[r].photos) :
        i.id <= lastImg' /\ i.msg = u.id /\ i.req = r
  BY <1>1, <1>2, <1>3 DEF PhotoRows1To, PhotoRow
<1>6. \A m \in messages : m.id \in Nat /\ m.id <= lastMsg
  BY <1>1 DEF Storage, IdsBelow, Message
<1>7. IdsBelow'
  <2>1. \A i \in images : i.id <= lastImg'
    BY <1>1, <1>2 DEF Storage, IdsBelow, Image
  <2>2. \A m \in messages' : m.id <= lastMsg'
    BY <1>1, <1>2, <1>3, <1>6
  <2> QED
    BY <1>2, <1>5, <2>1, <2>2 DEF IdsBelow
<1>8. UniqueIds'
  <2>1. \A m \in messages : m.id # u.id /\ m.id # a.id
    BY <1>1, <1>3, <1>6
  <2>2. u.id # a.id
    BY <1>1, <1>3
  <2> QED
    BY <1>2, <2>1, <2>2 DEF Storage, UniqueIds
<1>9. RowsOfRequests'
  <2>1. \A m \in messages : m.req \in Req /\ Stored(m.req)
    BY <1>1 DEF Storage, RowsOfRequests, Message, Req
  <2>2. \A m \in messages : Stored(m.req)'
    BY <1>1, <1>4, <2>1 DEF Stored
  <2>3. Stored(r)'
    BY <1>1, <1>4 DEF Stored
  <2> QED
    BY <1>2, <1>3, <1>4, <2>2, <2>3 DEF Storage, RowsOfRequests, Finds
<1>10. ImagesPlaced'
  <2> QED
    BY <1>2, <1>3, <1>5 DEF Storage, ImagesPlaced
<1>11. FreshHasNoRow'
  BY <1>4 DEF Storage, FreshHasNoRow
<1>12. ExchangesAreWhole'
  <2>1. HasPhotos(u)'
    <3> SUFFICES ASSUME NEW n \in 1 .. input[r].photos
                 PROVE  \E i \in images' : i.msg = u.id /\ i.req = u.req /\ i.nth = n
      BY <1>3, <1>4 DEF HasPhotos
    <3>1. PhotoRow(r, n) \in images'
      BY <1>2 DEF PhotoRows1To
    <3>2. PhotoRow(r, n).msg = u.id /\ PhotoRow(r, n).req = u.req /\ PhotoRow(r, n).nth = n
      BY <1>3 DEF PhotoRow
    <3> QED
      BY <3>1, <3>2
  <2>2. IsAnswerTo(a, u)
    BY <1>1, <1>3 DEF IsAnswerTo
  <2>3. \A m \in messages : HasPhotos(m) => HasPhotos(m)'
    BY <1>2, <1>4 DEF HasPhotos
  <2>4. u.role # "assistant" /\ a.role # "user"
    BY <1>3
  <2> QED
    BY <1>2, <2>1, <2>2, <2>3, <2>4 DEF Storage, ExchangesAreWhole, IsAnswerTo
<1>13. TxContents'
  <2>1. \A q \in Req : ~InTx(q)'
    BY <1>4, ConversationsAssumption DEF Shape, LockHeld
  <2> QED
    BY <2>1 DEF TxContents, InTx
<1> QED
  BY <1>7, <1>8, <1>9, <1>10, <1>11, <1>12, <1>13 DEF Storage

\* A handler that is not past Commit may end in any way.
LEMMA FinishStorage ==
  ASSUME Shape, Shape', Storage, NEW r \in Req, NEW a \in Answers, Finish(r, a),
         ~Stored(r), UNCHANGED <<tables, input>>,
         (UNCHANGED lock /\ ~InTx(r)) \/ writer' = None
  PROVE  Storage'
<1>1. /\ pc'[r] = "finished"
      /\ \A q \in Req \ {r} : pc'[q] = pc[q] /\ reply'[q] = reply[q]
  BY FinishTyped DEF Finish, Tell, Shape, TypeOK
<1>2. \A q \in Req : Stored(q) => Stored(q)' /\ input'[q] = input[q]
  BY <1>1 DEF Stored
<1>3. \A q \in Req : InTx(q)' => pc'[q] = pc[q] /\ input'[q] = input[q]
  BY <1>1 DEF InTx
<1> QED
  BY <1>2, <1>3, QuietStorage

\* A handler that moves on without touching tables or lock.
LEMMA AdvanceStorage ==
  ASSUME Shape, Shape', Storage, NEW r \in Req, ~Stored(r), ~InTx(r),
         NEW p \in {"lookup", "select", "attach", "memory", "stream", "update"}, pc' = [pc EXCEPT ![r] = p],
         UNCHANGED <<tables, lock, reply>>,
         \A q \in Req \ {r} : input'[q] = input[q]
  PROVE  Storage'
<1>1. pc'[r] = p /\ \A q \in Req \ {r} : pc'[q] = pc[q]
  BY DEF Shape, TypeOK
<1>2. \A q \in Req : Stored(q) => Stored(q)' /\ input'[q] = input[q]
  BY <1>1 DEF Stored
<1>3. \A q \in Req : InTx(q)' => pc'[q] = pc[q] /\ input'[q] = input[q]
  BY <1>1 DEF InTx
<1> QED
  BY <1>2, <1>3, QuietStorage

\* A stored request ends with "done", or without an answer.
LEMMA EndStorage ==
  ASSUME Shape, Shape', Storage, NEW r \in Req, NEW a \in {"none", "done"}, Finish(r, a),
         UNCHANGED <<tables, lock, input>>, ~InTx(r)
  PROVE  Storage'
<1>1. /\ pc'[r] = "finished" /\ reply'[r] \in {"none", "done"}
      /\ \A q \in Req \ {r} : pc'[q] = pc[q] /\ reply'[q] = reply[q]
  BY DEF Finish, Tell, Shape, TypeOK
<1>2. \A q \in Req : Stored(q) => Stored(q)' /\ input'[q] = input[q]
  BY <1>1 DEF Stored
<1>3. \A q \in Req : InTx(q)' => pc'[q] = pc[q] /\ input'[q] = input[q]
  BY <1>1 DEF InTx
<1> QED
  BY <1>2, <1>3, QuietStorage

\* Every step keeps the storage invariant.
LEMMA NextStorage == Shape /\ Storage /\ [Next]_vars => Storage'
<1> SUFFICES ASSUME Shape, Storage, [Next]_vars PROVE Storage'
  OBVIOUS
<1>0. Shape'
  BY NextShape
<1>1. ASSUME NEW o \in Owner, Create(o) PROVE Storage'
  BY <1>0, <1>1, CreateStorage
<1>2. ASSUME NEW o \in Owner, NEW c \in Conv, Delete(o, c) PROVE Storage'
  BY <1>0, <1>2, DeleteStorage
<1>3. ASSUME NEW o \in Owner, NEW i \in images, GetImage(o, i) PROVE Storage'
  BY <1>0, <1>3, QuietStorage DEF GetImage, Stored
<1>4. ASSUME NEW r \in Req, NEW o \in Owner, NEW c \in Conv, NEW text, NEW photos,
             Arrive(r, o, c, text, photos)
      PROVE  Storage'
  <2>1. \A q \in Req \ {r} : input'[q] = input[q]
    BY <1>4 DEF Arrive, Shape, TypeOK
  <2> QED
    BY <1>0, <1>4, <2>1, AdvanceStorage DEF Arrive, Stored, InTx
<1>5. ASSUME NEW r \in Senders, NEW body \in Bodies, RefuseBody(r, body) PROVE Storage'
  BY <1>0, <1>5, FinishStorage DEF RefuseBody, Req, Stored, InTx, Answers
<1>6. ASSUME NEW r \in Req, ReadStep(r) PROVE Storage'
  <2>1. CASE Lookup(r)
    <3>1. CASE Finds(r)
      BY <1>0, <2>1, <3>1, AdvanceStorage DEF Lookup, Stored, InTx
    <3>2. CASE ~Finds(r)
      BY <1>0, <2>1, <3>2, FinishStorage DEF Lookup, Stored, InTx, Answers
    <3> QED
      BY <3>1, <3>2
  <2>2. CASE SelectMessages(r)
    BY <1>0, <2>2, AdvanceStorage DEF SelectMessages, Stored, InTx
  <2>3. CASE AttachPhotos(r)
    <3>1. CASE r \in Senders
      BY <1>0, <2>3, <3>1, AdvanceStorage DEF AttachPhotos, Stored, InTx
    <3>2. CASE r \notin Senders
      BY <1>0, <2>3, <3>2, FinishStorage DEF AttachPhotos, Stored, InTx, Answers
    <3> QED
      BY <3>1, <3>2
  <2>4. CASE AttachPanics(r)
    BY <1>0, <2>4, FinishStorage DEF AttachPanics, Stored, InTx, Answers
  <2> QED
    BY <1>6, <2>1, <2>2, <2>3, <2>4 DEF ReadStep
<1>7. ASSUME NEW r \in Senders, SendStep(r) PROVE Storage'
  <2>1. CASE UpdateConversation(r) \/ InsertUser(r) \/ InsertImage(r) \/ InsertAnswer(r)
    BY <1>0, <2>1, InsertStorage
  <2>2. CASE ConversationGone(r)
    BY <1>0, <2>2, FinishStorage DEF ConversationGone, Req, Stored, InTx, Answers
  <2>3. CASE Commit(r)
    BY <1>0, <2>3, CommitStorage
  <2>4. CASE SendDone(r)
    BY <1>0, <2>4, EndStorage DEF SendDone, Req, InTx
  <2>5. CASE LoadMemory(r)
    BY <1>0, <2>5, AdvanceStorage DEF LoadMemory, Req, Stored, InTx
  <2> QED
    BY <1>7, <2>1, <2>2, <2>3, <2>4, <2>5 DEF SendStep
<1>8. ASSUME NEW r \in Req, Cancelled(r) PROVE Storage'
  <2>1. CASE writer = r
    BY <1>0, <1>8, <2>1, FinishStorage DEF Cancelled, Rollback, Stored, Answers, Shape, LockHeld, InTx
  <2>2. CASE writer # r
    BY <1>0, <1>8, <2>2, EndStorage DEF Cancelled, Rollback, Shape, LockHeld
  <2> QED
    BY <2>1, <2>2
<1>9. ASSUME NEW r \in Req, StoreFails(r) PROVE Storage'
  <2>1. PICK a \in {"500", "error"} : Finish(r, a)
    BY <1>9 DEF StoreFails
  <2>2. a \in Answers /\ ~Stored(r) /\ UNCHANGED input /\ Rollback(r)
    BY <1>9 DEF StoreFails, Stored, InTx, Answers
  <2>3. CASE writer = r
    BY <1>0, <2>1, <2>2, <2>3, FinishStorage DEF Rollback
  <2>4. CASE writer # r
    BY <1>0, <2>1, <2>2, <2>4, FinishStorage DEF Rollback, Shape, LockHeld
  <2> QED
    BY <2>3, <2>4
<1>10. ASSUME NEW r \in Req, ClientLeaves(r) PROVE Storage'
  BY <1>0, <1>10, QuietStorage DEF ClientLeaves, Stored
<1>11. ASSUME NEW r \in Senders, NEW how \in {"ended", "cut"}, StreamAnswers(r, how) PROVE Storage'
  BY <1>0, <1>11, AdvanceStorage DEF StreamAnswers, Req, Stored, InTx
<1>12. ASSUME NEW r \in Senders, StreamFails(r) PROVE Storage'
  BY <1>0, <1>12, FinishStorage DEF StreamFails, Req, Stored, InTx, Answers
<1>13. CASE Crash
  <2>1. \A q \in Req : Stored(q) => Stored(q)'
    <3> SUFFICES ASSUME NEW q \in Req, Stored(q) PROVE Stored(q)'
      OBVIOUS
    <3>1. pc[q] = "finished" => pc'[q] = "finished"
      BY <1>13 DEF Crash, Active
    <3>2. pc[q] = "reply" => pc'[q] = "finished" /\ reply[q] = "none"
      BY <1>13 DEF Crash, Active, Shape, Unanswered
    <3> QED
      BY <1>13, <3>1, <3>2 DEF Crash, Stored
  <2> QED
    BY <1>0, <1>13, <2>1, QuietStorage DEF Crash
<1>14. CASE UNCHANGED vars
  BY <1>0, <1>14, QuietStorage DEF vars, Stored
<1>15. ASSUME NEW r \in Req, Handle(r) PROVE Storage'
  BY <1>6, <1>7, <1>8, <1>15 DEF Handle
<1> QED
  BY <1>1, <1>2, <1>3, <1>4, <1>5, <1>9, <1>10, <1>11, <1>12, <1>13, <1>14, <1>15
  DEF Next, ArriveRead, ArriveSend, Req

(* The safety properties follow.                                            *)

\* What the tables hold is always a set of whole exchanges of conversations
\* that are there, however handlers, deletes, failures and crashes interleave.
THEOREM StorageHolds == Spec => [](Shape /\ Storage)
<1>1. Init => Shape /\ Storage
  BY InitShape, InitStorage
<1>2. Shape /\ Storage /\ [Next]_vars => (Shape /\ Storage)'
  BY NextShape, NextStorage
<1> QED
  BY <1>1, <1>2, PTL DEF Spec

\* An exchange is stored whole or not at all: no failure, cancellation, crash
\* or concurrent delete leaves half of one.
THEOREM ExchangesAreWholeHolds == Spec => []ExchangesAreWhole
<1>1. Shape /\ Storage => ExchangesAreWhole
  BY DEF Storage
<1> QED
  BY <1>1, StorageHolds, PTL

\* No message outlives its conversation and no photo its message.
THEOREM NothingOrphanedHolds == Spec => []NothingOrphaned
<1>1. Shape /\ Storage => NothingOrphaned
  BY DEF Storage, RowsOfRequests, ImagesPlaced, NothingOrphaned
<1> QED
  BY <1>1, StorageHolds, PTL

\* A request that was answered with a failure has stored nothing.
THEOREM FailureLeavesConversationHolds == Spec => []FailureLeavesConversation
<1>1. Shape /\ Storage => FailureLeavesConversation
  <2> SUFFICES ASSUME Shape, Storage, NEW r \in Senders,
                      reply[r] \in {"400", "404", "500", "panic", "error"}
               PROVE  (\A m \in messages : m.req # r) /\ (\A i \in images : i.req # r)
    BY DEF FailureLeavesConversation
  <2>1. ~Stored(r)
    BY DEF Stored, Shape, Unanswered, Req
  <2>2. \A m \in messages : m.req # r
    BY <2>1 DEF Storage, RowsOfRequests
  <2>3. \A i \in images : i.req # r
    BY <2>2 DEF Storage, ImagesPlaced
  <2> QED
    BY <2>2, <2>3
<1> QED
  BY <1>1, StorageHolds, PTL

=============================================================================
