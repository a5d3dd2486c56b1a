---------------------------- MODULE KitchenProofs ---------------------------
(***************************************************************************)
(* Theorems about Kitchen, for any number of accounts, tabs, ingredients   *)
(* and days: ids are never given to something else, no ingredient is twice *)
(* on a shelf, and the pantry implements the abstract Pantry.              *)
(*                                                                         *)
(* The invariant says of the committed table, and of what the transaction  *)
(* in progress would make of it, that ids and names are unique and ids are *)
(* below the counter (Table).  A transaction may add rows, under new ids,  *)
(* and leaves the meaning of the old ones (Follows), which is what makes   *)
(* its commit safe for whatever clients have been shown in the meantime.   *)
(*                                                                         *)
(* For the refinement of Pantry, Calls adds what is known of calls on      *)
(* their way: how far each handler is (Progress), that the row a call aims *)
(* at is the one its account was shown (Aims), and that the transaction    *)
(* has put in stock what it has inserted, and nothing else (Batch).        *)
(*                                                                         *)
(* Of the LIMIT in the journal's SELECT it is proved that it returns the   *)
(* latest entries: the number of entries ahead of an entry is its place,   *)
(* no two have the same one, and so every place is taken.                  *)
(* What a message has then read stays right, but for what is committed     *)
(* after, and that is noted (Fresh).                                       *)
(***************************************************************************)
EXTENDS Kitchen, TLAPS, FiniteSetTheorems, FunctionTheorems

StockRow == [id : Nat, owner : Owner, name : Name, inStock : BOOLEAN]

\* A table of ingredients with its counter.
Table(T, last) ==
    /\ T \subseteq StockRow /\ last \in Nat
    /\ \A r \in T : r.id <= last
    /\ \A r, s \in T : r.id = s.id \/ (r.owner = s.owner /\ r.name = s.name) => r = s

SameMeaning(r, s) == r.id = s.id /\ r.owner = s.owner /\ r.name = s.name

\* What is in T under an id that U has drawn is in U, perhaps with another stock.
Follows(T, last, U, before) ==
    last >= before /\ \A r \in T : r.id <= before => \E s \in U : SameMeaning(r, s)

Journal ==
    /\ \A e \in entries : e.id <= lastEntry
    /\ \A e, f \in entries : e.id = f.id => e = f

\* Uncommitted rows.
Pending ==
    writer # None => Table(tx.rows, tx.lastId) /\ Follows(tx.rows, tx.lastId, rows, lastId)

\* An id that account o has been shown, and an entry that anyone has.
Means(o, s) == s.id <= lastId /\ \A r \in rows : r.id = s.id => r.owner = o /\ r.name = s.name

MeansEntry(s) == s.id <= lastEntry /\ \A e \in entries : e.id = s.id => e = s

ShownMeans ==
    \A o \in Owner :
       /\ \A s \in shown[o].pantry : Means(o, s)
       /\ \A s \in shown[o].journal : MeansEntry(s)

\* What a handler has to answer with, if anything, still means what it meant.
HeldMeans ==
    \A t \in Tab :
       /\ pc[t] \in {"idle", "begin", "list"} => got[t] = Nothing
       /\ \A r \in got[t].pantry : r \in StockRow /\ Means(call[t].owner, r)
       /\ \A e \in got[t].journal : MeansEntry(e)

\* The inductive invariant.
Inv == TypeOK /\ Table(rows, lastId) /\ Journal /\ Pending /\ ShownMeans /\ HeldMeans

-----------------------------------------------------------------------------
(* Tables                                                                   *)

LEMMA FollowsItself ==
  ASSUME NEW T, NEW last \in Nat
  PROVE  Follows(T, last, T, last)
BY DEF Follows, SameMeaning

LEMMA FollowsFurther ==
  ASSUME NEW T, NEW U, NEW V, NEW last \in Nat, NEW mid \in Nat, NEW first \in Nat,
         T \subseteq StockRow, Follows(T, last, U, mid), Follows(U, mid, V, first)
  PROVE  Follows(T, last, V, first)
BY DEF Follows, SameMeaning, StockRow

\* What an INSERT makes of a table.
LEMMA UpsertKeeps ==
  ASSUME NEW b, Table(b.rows, b.lastId), NEW o \in Owner, NEW n \in Name,
         NEW after \in Upserted(b, o, n)
  PROVE  /\ after \in [rows : SUBSET StockRow, lastId : Nat]
         /\ Table(after.rows, after.lastId)
         /\ Follows(after.rows, after.lastId, b.rows, b.lastId)
<1> DEFINE old == {r \in b.rows : r.owner = o /\ r.name = n}
           id == b.lastId + 1
<1>0. b.rows \subseteq StockRow /\ b.lastId \in Nat /\ id \in Nat
  BY DEF Table
<1>1. CASE old = {}
  <2> DEFINE row == [id |-> id, owner |-> o, name |-> n, inStock |-> TRUE]
  <2>1. after = [rows |-> b.rows \cup {row}, lastId |-> id]
    BY <1>1 DEF Upserted, NextId
  <2>2. row \in StockRow /\ row.id = id /\ row.owner = o /\ row.name = n
    BY <1>0 DEF StockRow
  <2> HIDE DEF row
  <2>3. after.rows = b.rows \cup {row} /\ after.lastId = id
    BY <2>1
  <2>4. \A r \in b.rows : r.id \in Nat /\ r.id <= b.lastId /\ ~(r.owner = o /\ r.name = n)
    BY <1>0, <1>1 DEF Table, StockRow
  <2>5. Table(after.rows, after.lastId)
    <3>1. \A r \in after.rows : r.id <= after.lastId
      BY <1>0, <2>2, <2>3, <2>4
    <3>2. \A r \in b.rows : r.id # row.id
      BY <1>0, <2>2, <2>4
    <3>3. \A r, s \in after.rows : r.id = s.id \/ (r.owner = s.owner /\ r.name = s.name) => r = s
      BY <2>2, <2>3, <2>4, <3>2 DEF Table
    <3> QED BY <1>0, <2>2, <2>3, <3>1, <3>3 DEF Table
  <2>6. Follows(after.rows, after.lastId, b.rows, b.lastId)
    BY <1>0, <2>2, <2>3 DEF Follows, SameMeaning
  <2> QED BY <1>0, <2>1, <2>2, <2>5, <2>6
<1>2. CASE old # {}
  <2> DEFINE restocked(r) == [r EXCEPT !.inStock = TRUE]
             T == (b.rows \ old) \cup {restocked(r) : r \in old}
  <2>1. PICK last \in {b.lastId, id} : after = [rows |-> T, lastId |-> last]
    BY <1>2 DEF Upserted, NextId
  <2>2. \A r \in old : restocked(r) \in StockRow /\ SameMeaning(restocked(r), r)
    BY <1>0 DEF StockRow, SameMeaning
  <2>3. \A r \in T : r \in StockRow /\ \E s \in b.rows : SameMeaning(r, s)
    <3>1. \A r \in b.rows \ old : SameMeaning(r, r)
      BY DEF SameMeaning
    <3> HIDE DEF restocked
    <3> QED BY <1>0, <2>2, <3>1
  <2>4. \A r \in T : r.id <= b.lastId
    BY <2>3 DEF Table, SameMeaning
  <2>5. ASSUME NEW r \in T, NEW s \in T, r.id = s.id \/ (r.owner = s.owner /\ r.name = s.name)
        PROVE  r = s
    <3>1. PICK p \in b.rows : SameMeaning(r, p)
      BY <2>3
    <3>2. PICK q \in b.rows : SameMeaning(s, q)
      BY <2>3
    <3>3. p = q
      BY <2>5, <3>1, <3>2 DEF Table, SameMeaning
    <3>4. \A x \in T : SameMeaning(x, p) => x = (IF p \in old THEN restocked(p) ELSE p)
      <4> SUFFICES ASSUME NEW x \in T, SameMeaning(x, p)
                   PROVE  x = (IF p \in old THEN restocked(p) ELSE p)
        OBVIOUS
      <4>1. CASE x \in b.rows \ old
        BY <4>1 DEF Table, SameMeaning
      <4>2. CASE x \in {restocked(y) : y \in old}
        <5>1. PICK y \in old : x = restocked(y)
          BY <4>2
        <5>2. SameMeaning(restocked(y), y) /\ y \in b.rows
          BY <2>2
        <5>3. y = p
          BY <5>1, <5>2 DEF Table, SameMeaning
        <5> QED BY <5>1, <5>3
      <4> QED BY <4>1, <4>2
    <3> QED BY <3>1, <3>2, <3>3, <3>4
  <2> HIDE DEF T
  <2>6. after.rows = T /\ after.lastId = last /\ last \in Nat /\ last >= b.lastId
    BY <1>0, <2>1
  <2>7. Table(after.rows, after.lastId)
    <3>1. \A r \in T : r.id \in Nat
      BY <2>3 DEF StockRow
    <3>2. \A r \in T : r.id <= last
      BY <1>0, <2>4, <2>6, <3>1
    <3> QED BY <2>3, <2>5, <2>6, <3>2 DEF Table
  <2>8. Follows(after.rows, after.lastId, b.rows, b.lastId)
    BY <2>3, <2>6 DEF Follows
  <2> QED BY <2>1, <2>3, <2>6, <2>7, <2>8
<1> QED BY <1>1, <1>2

-----------------------------------------------------------------------------
(* What the tables and the shown ids do in a step                           *)

EntriesFollow ==
    /\ lastEntry' \in Nat /\ lastEntry' >= lastEntry
    /\ \A e \in entries' : e.id <= lastEntry => e \in entries

\* Ids keep their meaning when the tables move on.
LEMMA MeaningStays ==
  ASSUME Inv, Table(rows', lastId'), Follows(rows', lastId', rows, lastId), EntriesFollow
  PROVE  /\ \A o, s : s.id \in Nat /\ Means(o, s) => Means(o, s)'
         /\ \A s : s.id \in Nat /\ MeansEntry(s) => MeansEntry(s)'
<1>1. /\ lastId \in Nat /\ lastId' \in Nat /\ lastId' >= lastId
      /\ lastEntry \in Nat /\ lastEntry' \in Nat /\ lastEntry' >= lastEntry
  BY DEF Inv, TypeOK, Table, Follows, EntriesFollow
<1>2. ASSUME NEW o, NEW s, s.id \in Nat, Means(o, s)
      PROVE  Means(o, s)'
  <2>1. s.id <= lastId'
    BY <1>1, <1>2 DEF Means
  <2>2. ASSUME NEW r \in rows', r.id = s.id
        PROVE  r.owner = o /\ r.name = s.name
    <3>1. PICK q \in rows : SameMeaning(r, q)
      BY <1>2, <2>2 DEF Means, Follows
    <3> QED BY <1>2, <2>2, <3>1 DEF Means, SameMeaning
  <2> QED BY <2>1, <2>2 DEF Means
<1>3. ASSUME NEW s, s.id \in Nat, MeansEntry(s)
      PROVE  MeansEntry(s)'
  <2>1. s.id <= lastEntry'
    BY <1>1, <1>3 DEF MeansEntry
  <2>2. \A e \in entries' : e.id = s.id => e = s
    BY <1>3 DEF MeansEntry, EntriesFollow
  <2> QED BY <2>1, <2>2 DEF MeansEntry
<1> QED BY <1>2, <1>3

\* A step that shows nothing.
LEMMA NothingShown ==
  ASSUME Inv, Table(rows', lastId'), Follows(rows', lastId', rows, lastId), EntriesFollow, shown' = shown
  PROVE  ShownMeans'
<1>1. \A o \in Owner : /\ \A s \in shown[o].pantry : s.id \in Nat /\ Means(o, s)
                       /\ \A s \in shown[o].journal : s.id \in Nat /\ MeansEntry(s)
  BY DEF Inv, ShownMeans, TypeOK, Entry
<1> QED BY <1>1, MeaningStays DEF ShownMeans

\* What a handler that the step is not about has to answer with.
LEMMA HeldStays ==
  ASSUME Inv, Table(rows', lastId'), Follows(rows', lastId', rows, lastId), EntriesFollow,
         NEW t \in Tab, got'[t] = got[t], call'[t].owner = call[t].owner
  PROVE  /\ \A r \in got'[t].pantry : r \in StockRow /\ Means(call[t].owner, r)'
         /\ \A e \in got'[t].journal : MeansEntry(e)'
<1>1. /\ \A r \in got[t].pantry : r \in StockRow /\ r.id \in Nat /\ Means(call[t].owner, r)
      /\ \A e \in got[t].journal : e.id \in Nat /\ MeansEntry(e)
  BY DEF Inv, HeldMeans, TypeOK, StockRow, Entry
<1>2. PICK o : o = call[t].owner
  OBVIOUS
<1>3. \A r \in got[t].pantry : Means(o, r)'
  BY <1>1, <1>2, MeaningStays
<1>4. ASSUME NEW r \in got[t].pantry PROVE Means(call[t].owner, r)'
  BY <1>2, <1>3 DEF Means
<1> QED BY <1>1, <1>4, MeaningStays

\* Tables that stay as they are.
LEMMA TablesStay ==
  ASSUME Inv, UNCHANGED tables
  PROVE  /\ Table(rows', lastId') /\ Follows(rows', lastId', rows, lastId)
         /\ EntriesFollow /\ Journal'
<1>1. lastId \in Nat /\ lastEntry \in Nat
  BY DEF Inv, TypeOK
<1> QED BY <1>1, FollowsItself DEF Inv, tables, EntriesFollow, Journal

LEMMA LockStays ==
  ASSUME Inv, UNCHANGED <<rows, lastId, lock>>
  PROVE  Pending'
BY DEF Inv, Pending, lock, Follows

LEMMA LockFree ==
  ASSUME writer' = None
  PROVE  Pending'
BY DEF Pending

-----------------------------------------------------------------------------
(* The steps                                                                *)

\* What is known of an account whose tab has a call, and of the tables.
LEMMA Typed ==
  ASSUME Inv
  PROVE  /\ entries \subseteq Entry /\ rows \subseteq StockRow
         /\ got \in [Tab -> [pantry : SUBSET Row, journal : SUBSET Entry]]
         /\ changed \in [Tab -> [pantry : SUBSET Nat, journal : SUBSET Nat]]
         /\ writer \in Tab \cup {None} /\ tx \in [rows : SUBSET Row, lastId : Nat]
         /\ lastId \in Nat /\ lastEntry \in Nat
         /\ \A t \in Tab : call[t] \in Call
         /\ \A t \in Tab : pc[t] # "idle" => call[t].owner \in Owner
         /\ StockRow \subseteq Row
         /\ NoWrites \in [rows : SUBSET Row, lastId : Nat]
<1>1. \A t \in Tab : call[t].owner \in Owner \cup {None}
  BY DEF Inv, TypeOK, Call
<1> QED BY <1>1, KitchenAssumption DEF Inv, TypeOK, StockRow, Row, NoWrites

LEMMA NoCallAsks == NoCall.op = "journal" /\ NoCall.names = {}
BY DEF NoCall, Blank

LEMMA NoCallTyped == NoCall \in Call /\ NoCall.owner = None /\ Nothing \in [pantry : SUBSET Row, journal : SUBSET Entry]
BY DEF NoCall, Blank, Call, Ops, Nothing

LEMMA ArriveInv ==
  ASSUME Inv, NEW t \in Tab, NEW c \in Call, c.owner \in Owner, Arrive(t, c),
         c.op = "add" => c.names \subseteq Name
  PROVE  Inv'
<1>1. UNCHANGED <<tables, lock, got, shown, changed>>
  BY DEF Arrive
<1>2. /\ pc'[t] = "begin" /\ call'[t] = c
      /\ \A u \in Tab \ {t} : pc'[u] = pc[u] /\ call'[u] = call[u]
  BY DEF Arrive, Inv, TypeOK
<1>3. TypeOK'
  <2>1. c.owner # None
    BY KitchenAssumption
  <2>2. \A u \in Tab : call'[u].owner = None <=> pc'[u] = "idle"
    BY <1>2, <2>1 DEF Inv, TypeOK
  <2>3. /\ pc' \in [Tab -> {"idle", "begin", "list", "journal", "reply", "missing"}]
        /\ call' \in [Tab -> Call] /\ todo' \in [Tab -> SUBSET Name]
        /\ reply' \in [Tab -> {"none", "ok", "404", "failed"}]
    BY DEF Inv, TypeOK, Arrive
  <2> QED BY <1>1, <2>2, <2>3 DEF Inv, TypeOK, tables, lock
<1>4. ShownMeans'
  BY <1>1, TablesStay, NothingShown
<1>5. HeldMeans'
  <2> SUFFICES ASSUME NEW u \in Tab
               PROVE  /\ pc'[u] \in {"idle", "begin", "list"} => got'[u] = Nothing
                      /\ \A r \in got'[u].pantry : r \in StockRow /\ Means(call[u].owner, r)'
                      /\ \A e \in got'[u].journal : MeansEntry(e)'
    BY DEF HeldMeans, Means
  <2>1. CASE u = t
    <3>1. got'[t] = Nothing
      BY <1>1 DEF Arrive, Inv, HeldMeans
    <3> QED BY <2>1, <3>1 DEF Nothing
  <2>2. CASE u # t
    BY <1>1, <1>2, <2>2, TablesStay, HeldStays DEF Inv, HeldMeans
  <2> QED BY <2>1, <2>2
<1> QED BY <1>1, <1>3, <1>4, <1>5, TablesStay, LockStays DEF Inv, tables

LEMMA BlankTyped ==
  ASSUME NEW o \in Owner, NEW op \in Ops
  PROVE  Blank(o, op) \in Call
BY DEF Blank, Call

LEMMA ArrivalsInv ==
  ASSUME Inv, NEW t \in Tab, NEW o \in Owner,
         ArrivePlain(t, o) \/ ArriveAdd(t, o) \/ ArriveRow(t, o) \/ ArriveUnlog(t, o)
  PROVE  Inv'
<1>1. CASE ArrivePlain(t, o)
  <2>1. PICK op \in {"list", "journal", "memory", "log"} : Arrive(t, Blank(o, op))
    BY <1>1 DEF ArrivePlain
  <2>2. Blank(o, op) \in Call /\ Blank(o, op).op # "add" /\ Blank(o, op).owner = o
    BY BlankTyped DEF Ops, Blank
  <2> QED BY <2>1, <2>2, ArriveInv
<1>2. CASE ArriveAdd(t, o)
  <2>1. PICK words \in SUBSET Word : Arrive(t, [Blank(o, "add") EXCEPT !.names = Names(words)])
    BY <1>2 DEF ArriveAdd
  <2>2. Names(words) \subseteq Name /\ Names(words) \subseteq Word
    BY KitchenAssumption DEF Names
  <2>3. /\ [Blank(o, "add") EXCEPT !.names = Names(words)] \in Call
        /\ [Blank(o, "add") EXCEPT !.names = Names(words)].names = Names(words)
        /\ [Blank(o, "add") EXCEPT !.names = Names(words)].owner = o
    BY <2>2 DEF Blank, Call, Ops
  <2> QED BY <2>1, <2>2, <2>3, ArriveInv
<1>3. CASE ArriveRow(t, o)
  <2> DEFINE names(id) == {row.name : row \in {s \in shown[o].pantry : s.id = id}}
  <2>1. PICK id \in UNION {{row.id : row \in shown[p].pantry} : p \in Owner} :
           \/ Arrive(t, [Blank(o, "delete") EXCEPT !.id = id, !.names = names(id)])
           \/ \E stock \in BOOLEAN :
                 Arrive(t, [Blank(o, "switch") EXCEPT !.id = id, !.names = names(id), !.inStock = stock])
    BY <1>3 DEF ArriveRow
  <2>2. id \in Nat /\ names(id) \subseteq Word
    BY KitchenAssumption DEF Inv, TypeOK
  <2> HIDE DEF names
  <2>3. ASSUME NEW stock \in BOOLEAN
        PROVE  /\ [Blank(o, "switch") EXCEPT !.id = id, !.names = names(id), !.inStock = stock] \in Call
               /\ [Blank(o, "switch") EXCEPT !.id = id, !.names = names(id), !.inStock = stock].op = "switch"
               /\ [Blank(o, "switch") EXCEPT !.id = id, !.names = names(id), !.inStock = stock].owner = o
    BY <2>2 DEF Blank, Call, Ops
  <2>4. /\ [Blank(o, "delete") EXCEPT !.id = id, !.names = names(id)] \in Call
        /\ [Blank(o, "delete") EXCEPT !.id = id, !.names = names(id)].op = "delete"
        /\ [Blank(o, "delete") EXCEPT !.id = id, !.names = names(id)].owner = o
    BY <2>2 DEF Blank, Call, Ops
  <2>5. CASE Arrive(t, [Blank(o, "delete") EXCEPT !.id = id, !.names = names(id)])
    BY <2>4, <2>5, ArriveInv
  <2>6. ASSUME NEW stock \in BOOLEAN,
               Arrive(t, [Blank(o, "switch") EXCEPT !.id = id, !.names = names(id), !.inStock = stock])
        PROVE  Inv'
    BY <2>3, <2>6, ArriveInv
  <2> QED BY <2>1, <2>5, <2>6
<1>4. CASE ArriveUnlog(t, o)
  <2>1. PICK id \in UNION {{e.id : e \in shown[p].journal} : p \in Owner} :
           Arrive(t, [Blank(o, "unlog") EXCEPT !.id = id])
    BY <1>4 DEF ArriveUnlog
  <2>2. id \in Nat
    BY DEF Inv, TypeOK, Entry
  <2>3. /\ [Blank(o, "unlog") EXCEPT !.id = id] \in Call
        /\ [Blank(o, "unlog") EXCEPT !.id = id].op = "unlog"
        /\ [Blank(o, "unlog") EXCEPT !.id = id].owner = o
    BY <2>2 DEF Blank, Call, Ops
  <2> QED BY <2>1, <2>3, ArriveInv
<1> QED BY <1>1, <1>2, <1>3, <1>4

\* A statement after which the handler goes on, over tables that move on.
LEMMA GoesInv ==
  ASSUME Inv, NEW t \in Tab, pc[t] # "idle",
         NEW stage \in {"list", "journal", "reply", "missing"}, NEW P, NEW J, Goes(t, stage, P, J),
         stage = "list" => P = {} /\ J = {},
         \A r \in P : r \in StockRow /\ r \in rows' /\ r.owner = call[t].owner,
         J \subseteq entries',
         Table(rows', lastId'), Follows(rows', lastId', rows, lastId), EntriesFollow, Journal',
         entries' \subseteq Entry,
         changed' \in [Tab -> [pantry : SUBSET Nat, journal : SUBSET Nat]],
         Pending', writer' \in Tab \cup {None}, tx' \in [rows : SUBSET Row, lastId : Nat]
  PROVE  Inv'
<1>1. PICK held : held = [pantry |-> P, journal |-> J]
  OBVIOUS
<1>2. /\ held \in [pantry : SUBSET Row, journal : SUBSET Entry] /\ held.pantry = P /\ held.journal = J
      /\ P = {} /\ J = {} => held = Nothing
  BY <1>1, Typed DEF Nothing
<1>3. /\ UNCHANGED <<call, todo, reply, shown>> /\ got' = [got EXCEPT ![t] = held]
      /\ got'[t] = held /\ pc'[t] = stage
      /\ \A u \in Tab \ {t} : pc'[u] = pc[u] /\ got'[u] = got[u]
  BY <1>1 DEF Goes, Inv, TypeOK
<1>4. TypeOK'
  <2>1. got' \in [Tab -> [pantry : SUBSET Row, journal : SUBSET Entry]]
    BY <1>2, <1>3, Typed
  <2>2. pc' \in [Tab -> {"idle", "begin", "list", "journal", "reply", "missing"}]
    BY DEF Goes, Inv, TypeOK
  <2>3. rows' \subseteq [id : Nat, owner : Owner, name : Name, inStock : BOOLEAN] /\ lastId' \in Nat
    BY DEF Table, StockRow
  <2>4. \A u \in Tab : call'[u].owner = None <=> pc'[u] = "idle"
    BY <1>3 DEF Inv, TypeOK
  <2> QED BY <1>3, <2>1, <2>2, <2>3, <2>4 DEF Inv, TypeOK, EntriesFollow
<1>5. HeldMeans'
  <2> SUFFICES ASSUME NEW u \in Tab
               PROVE  /\ pc'[u] \in {"idle", "begin", "list"} => got'[u] = Nothing
                      /\ \A r \in got'[u].pantry : r \in StockRow /\ Means(call[u].owner, r)'
                      /\ \A e \in got'[u].journal : MeansEntry(e)'
    BY DEF HeldMeans, Means
  <2>1. CASE u = t
    <3>1. \A r \in P : Means(call[t].owner, r)'
      BY <1>3 DEF Table, Means
    <3>2. \A e \in J : MeansEntry(e)'
      BY DEF Journal, MeansEntry
    <3> QED BY <1>2, <1>3, <2>1, <3>1, <3>2
  <2>2. CASE u # t
    BY <1>3, <2>2, HeldStays DEF Inv, HeldMeans
  <2> QED BY <2>1, <2>2
<1>6. ShownMeans'
  BY <1>3, NothingShown
<1> QED BY <1>4, <1>5, <1>6 DEF Inv

\* What a commit is noted as.
LEMMA CommitsTyped ==
  ASSUME Inv, NEW R \in SUBSET Row, NEW E \in SUBSET Entry, Commits(R, E)
  PROVE  rows' = R /\ entries' = E /\ changed' \in [Tab -> [pantry : SUBSET Nat, journal : SUBSET Nat]]
<1>1. /\ \A t, S : Missed(t, S, rows, R) \in SUBSET Nat
      /\ \A t, S : Missed(t, S, entries, E) \in SUBSET Nat
  BY Typed DEF Missed, Touched, Row, StockRow, Entry
<1> QED BY <1>1, Typed DEF Commits

\* An answer: of what the handler holds, or nothing.
LEMMA AnswerInv ==
  ASSUME Inv, NEW t \in Tab, pc[t] # "idle", NEW status \in {"ok", "404", "failed"},
         NEW sees \in {Nothing, got[t]}, Answer(t, status, sees), UNCHANGED tables,
         Pending', writer' \in Tab \cup {None}, tx' \in [rows : SUBSET Row, lastId : Nat]
  PROVE  Inv'
<1>1. PICK o \in Owner : o = call[t].owner
  BY Typed
<1>2. /\ pc'[t] = "idle" /\ call'[t] = NoCall /\ got'[t] = Nothing
      /\ \A u \in Tab \ {t} : pc'[u] = pc[u] /\ got'[u] = got[u] /\ call'[u] = call[u]
  BY DEF Answer, Inv, TypeOK
<1>3. /\ \A r \in sees.pantry : r.id \in Nat /\ r.name \in Name /\ Means(o, r)
      /\ \A e \in sees.journal : e \in Entry /\ e.id \in Nat /\ MeansEntry(e)
  BY <1>1, Typed DEF Inv, HeldMeans, Nothing, StockRow, Entry
<1>4. shown' = [shown EXCEPT ![o] =
                  [pantry |-> @.pantry \cup {[id |-> r.id, name |-> r.name] : r \in sees.pantry},
                   journal |-> @.journal \cup sees.journal]]
  BY <1>1 DEF Answer
<1>5. TypeOK'
  <2>1. {[id |-> r.id, name |-> r.name] : r \in sees.pantry} \subseteq [id : Nat, name : Name]
    BY <1>3
  <2>2. shown' \in [Owner -> [pantry : SUBSET [id : Nat, name : Name], journal : SUBSET Entry]]
    BY <1>3, <1>4, <2>1 DEF Inv, TypeOK
  <2>3. /\ pc' \in [Tab -> {"idle", "begin", "list", "journal", "reply", "missing"}]
        /\ call' \in [Tab -> Call]
        /\ todo' \in [Tab -> SUBSET Name]
        /\ got' \in [Tab -> [pantry : SUBSET Row, journal : SUBSET Entry]]
        /\ reply' \in [Tab -> {"none", "ok", "404", "failed"}]
        /\ changed' \in [Tab -> [pantry : SUBSET Nat, journal : SUBSET Nat]]
    BY NoCallTyped, Typed DEF Answer, Inv, TypeOK, Nothing
  <2>4. \A u \in Tab : call'[u].owner = None <=> pc'[u] = "idle"
    BY <1>2, NoCallTyped DEF Inv, TypeOK
  <2> QED BY <2>2, <2>3, <2>4 DEF Inv, TypeOK, tables
<1>6. ShownMeans'
  <2>1. \A p, s : (Means(p, s) => Means(p, s)') /\ (MeansEntry(s) => MeansEntry(s)')
    BY DEF Means, MeansEntry, tables
  <2>2. \A r \in sees.pantry : Means(o, [id |-> r.id, name |-> r.name])
    BY <1>3 DEF Means
  <2>3. /\ shown'[o].pantry = shown[o].pantry \cup {[id |-> r.id, name |-> r.name] : r \in sees.pantry}
        /\ shown'[o].journal = shown[o].journal \cup sees.journal
        /\ \A p \in Owner \ {o} : shown'[p] = shown[p]
    BY <1>4 DEF Inv, TypeOK
  <2>4. ASSUME NEW p \in Owner
        PROVE  /\ \A s \in shown'[p].pantry : Means(p, s)
               /\ \A s \in shown'[p].journal : MeansEntry(s)
    BY <1>3, <2>2, <2>3 DEF Inv, ShownMeans
  <2> QED BY <2>1, <2>4 DEF ShownMeans
<1>7. HeldMeans'
  <2> SUFFICES ASSUME NEW u \in Tab
               PROVE  /\ pc'[u] \in {"idle", "begin", "list"} => got'[u] = Nothing
                      /\ \A r \in got'[u].pantry : r \in StockRow /\ Means(call[u].owner, r)'
                      /\ \A e \in got'[u].journal : MeansEntry(e)'
    BY DEF HeldMeans, Means
  <2>1. CASE u = t
    BY <1>2, <2>1 DEF Nothing
  <2>2. CASE u # t
    BY <1>2, <2>2, TablesStay, HeldStays DEF Inv, HeldMeans
  <2> QED BY <2>1, <2>2
<1> QED BY <1>5, <1>6, <1>7, TablesStay DEF Inv

\* An INSERT of addIngredients changes what is pending.
LEMMA InsertInv ==
  ASSUME Inv, NEW t \in Tab, InsertName(t)
  PROVE  Inv'
<1> DEFINE b == IF writer = t THEN tx ELSE [rows |-> rows, lastId |-> lastId]
<1>1. UNCHANGED <<tables, pc, call, got, reply, shown, changed>> /\ writer' = t
  BY DEF InsertName
<1>2. PICK n \in todo[t] : tx' \in Upserted(b, call[t].owner, n) /\ todo' = [todo EXCEPT ![t] = @ \ {n}]
  BY DEF InsertName
<1>3. n \in Name /\ call[t].owner \in Owner
  BY Typed DEF Inv, TypeOK, InsertName, Begins
<1>4. Table(b.rows, b.lastId) /\ Follows(b.rows, b.lastId, rows, lastId) /\ b.lastId \in Nat
  <2>1. CASE writer = t
    BY <2>1, KitchenAssumption DEF Inv, Pending, Table
  <2>2. CASE writer # t
    BY <2>2, FollowsItself, Typed DEF Inv
  <2> QED BY <2>1, <2>2
<1> HIDE DEF b
<1>5. /\ tx' \in [rows : SUBSET StockRow, lastId : Nat]
      /\ Table(tx'.rows, tx'.lastId)
      /\ Follows(tx'.rows, tx'.lastId, b.rows, b.lastId)
  BY <1>2, <1>3, <1>4, UpsertKeeps
<1>6. Pending'
  <2>1. tx'.rows \subseteq StockRow /\ tx'.lastId \in Nat
    BY <1>5
  <2>2. Follows(tx'.rows, tx'.lastId, rows, lastId)
    BY <1>4, <1>5, <2>1, FollowsFurther, Typed
  <2> QED BY <1>1, <1>5, <2>2 DEF Pending, tables
<1>7. tx' \in [rows : SUBSET Row, lastId : Nat]
  BY <1>5, Typed
<1>8. TypeOK'
  BY <1>1, <1>2, <1>7 DEF Inv, TypeOK, tables
<1>9. ShownMeans'
  BY <1>1, TablesStay, NothingShown
<1>10. HeldMeans'
  BY <1>1 DEF Inv, HeldMeans, Means, MeansEntry, tables
<1> QED BY <1>1, <1>6, <1>8, <1>9, <1>10, TablesStay DEF Inv

\* What is committed is what was pending.
LEMMA CommitInv ==
  ASSUME Inv, NEW t \in Tab, CommitNames(t)
  PROVE  Inv'
<1>1. /\ Commits(tx.rows, entries) /\ Goes(t, "list", {}, {}) /\ pc[t] # "idle"
      /\ lastId' = tx.lastId /\ lastEntry' = lastEntry
      /\ writer' = None /\ tx' = NoWrites /\ writer # None
  BY KitchenAssumption DEF CommitNames, Begins
<1>2. /\ rows' = tx.rows /\ entries' = entries
      /\ changed' \in [Tab -> [pantry : SUBSET Nat, journal : SUBSET Nat]]
  BY <1>1, CommitsTyped, Typed
<1>3. Table(rows', lastId') /\ Follows(rows', lastId', rows, lastId)
  BY <1>1, <1>2 DEF Inv, Pending
<1>4. EntriesFollow /\ Journal' /\ entries' \subseteq Entry
  BY <1>1, <1>2, Typed DEF EntriesFollow, Inv, Journal
<1>5. writer' \in Tab \cup {None} /\ tx' \in [rows : SUBSET Row, lastId : Nat]
  BY <1>1, Typed
<1> QED BY <1>1, <1>2, <1>3, <1>4, <1>5, GoesInv, LockFree

\* The statements that leave the tables as they are.
LEMMA ReadInv ==
  ASSUME Inv, NEW t \in Tab,
         ListIngredients(t) \/ ListJournal(t) \/ LoadIngredients(t) \/ LoadJournal(t)
  PROVE  Inv'
<1>1. UNCHANGED <<tables, lock, changed>> /\ pc[t] # "idle"
  BY DEF ListIngredients, ListJournal, LoadIngredients, LoadJournal, Begins
<1>2. /\ Table(rows', lastId') /\ Follows(rows', lastId', rows, lastId)
      /\ EntriesFollow /\ Journal' /\ Pending'
  BY <1>1, TablesStay, LockStays DEF tables
<1>3. /\ entries' \subseteq Entry /\ writer' \in Tab \cup {None}
      /\ changed' \in [Tab -> [pantry : SUBSET Nat, journal : SUBSET Nat]]
      /\ tx' \in [rows : SUBSET Row, lastId : Nat]
  BY <1>1, Typed DEF tables, lock
<1>4. \A r \in PantryOf(call[t].owner) : r \in StockRow /\ r \in rows' /\ r.owner = call[t].owner
  BY <1>1, Typed DEF PantryOf, tables
<1>5. CASE ListIngredients(t)
  <2>1. Goes(t, "reply", PantryOf(call[t].owner), {})
    BY <1>5 DEF ListIngredients
  <2> QED BY <1>1, <1>2, <1>3, <1>4, <2>1, GoesInv
<1>6. CASE ListJournal(t)
  <2>1. JournalOf(call[t].owner, ListEntries) \subseteq entries'
    BY <1>1 DEF JournalOf, tables
  <2>2. Goes(t, "reply", {}, JournalOf(call[t].owner, ListEntries))
    BY <1>6 DEF ListJournal
  <2> QED BY <1>1, <1>2, <1>3, <2>1, <2>2, GoesInv
<1>7. CASE LoadIngredients(t)
  <2>1. Goes(t, "journal", PantryOf(call[t].owner), {})
    BY <1>7 DEF LoadIngredients
  <2> QED BY <1>1, <1>2, <1>3, <1>4, <2>1, GoesInv
<1>8. CASE LoadJournal(t)
  <2>1. /\ Goes(t, "reply", got[t].pantry, JournalOf(call[t].owner, MemoryEntries))
        /\ pc'[t] = "reply"
    BY <1>8 DEF LoadJournal, Goes, Inv, TypeOK
  <2>2. PICK P, J : P = got[t].pantry /\ J = JournalOf(call[t].owner, MemoryEntries)
    OBVIOUS
  <2>3. J \subseteq entries'
    BY <1>1, <2>2 DEF JournalOf, tables
  <2>4. /\ UNCHANGED <<call, todo, reply, shown>>
        /\ got'[t].pantry = P /\ got'[t].journal = J
        /\ got' \in [Tab -> [pantry : SUBSET Row, journal : SUBSET Entry]]
        /\ pc' \in [Tab -> {"idle", "begin", "list", "journal", "reply", "missing"}]
        /\ \A u \in Tab \ {t} : pc'[u] = pc[u] /\ got'[u] = got[u]
    <3>1. P \in SUBSET Row /\ J \in SUBSET Entry
      BY <1>3, <2>2, <2>3, Typed
    <3> QED BY <2>1, <2>2, <3>1, Typed DEF Goes, Inv, TypeOK
  <2>5. TypeOK'
    BY <1>1, <2>1, <2>4 DEF Inv, TypeOK, tables, lock
  <2>6. ShownMeans'
    BY <1>2, <2>4, NothingShown
  <2>7. HeldMeans'
    <3> SUFFICES ASSUME NEW u \in Tab
                 PROVE  /\ pc'[u] \in {"idle", "begin", "list"} => got'[u] = Nothing
                        /\ \A r \in got'[u].pantry : r \in StockRow /\ Means(call[u].owner, r)'
                        /\ \A e \in got'[u].journal : MeansEntry(e)'
      BY DEF HeldMeans, Means
    <3>1. CASE u = t
      <4>1. \A r \in P : r \in StockRow /\ Means(call[t].owner, r)
        BY <2>2 DEF Inv, HeldMeans
      <4>2. \A r \in P : Means(call[t].owner, r)'
        BY <1>1, <2>4, <4>1 DEF Means, tables
      <4>3. \A e \in J : MeansEntry(e)'
        BY <1>2, <2>3 DEF Journal, MeansEntry
      <4> QED BY <2>1, <2>4, <3>1, <4>1, <4>2, <4>3
    <3>2. CASE u # t
      BY <1>2, <2>4, <3>2, HeldStays DEF Inv, HeldMeans
    <3> QED BY <3>1, <3>2
  <2> QED BY <1>2, <2>5, <2>6, <2>7 DEF Inv
<1> QED BY <1>5, <1>6, <1>7, <1>8

\* A switch changes the stock of a row, a delete takes it away.
LEMMA PantryInv ==
  ASSUME Inv, NEW t \in Tab, SetInStock(t) \/ DeleteIngredient(t)
  PROVE  Inv'
<1> DEFINE hit == Named(t, rows)
           set == {[r EXCEPT !.inStock = call[t].inStock] : r \in hit}
<1>1. /\ UNCHANGED <<lastId, lastEntry, lock>> /\ writer = None /\ pc[t] # "idle"
  BY DEF SetInStock, DeleteIngredient, Begins
<1>2. /\ writer' \in Tab \cup {None} /\ tx' \in [rows : SUBSET Row, lastId : Nat] /\ Pending'
  BY <1>1, Typed, LockFree DEF lock
<1>3. Found(hit) \in {"list", "journal", "reply", "missing"} /\ Found(hit) # "list"
  BY DEF Found
<1>4. ASSUME entries' = entries
      PROVE  EntriesFollow /\ Journal' /\ entries' \subseteq Entry
  BY <1>1, <1>4, Typed DEF EntriesFollow, Inv, Journal
<1>5. CASE DeleteIngredient(t)
  <2>1. rows \ hit \in SUBSET Row /\ Commits(rows \ hit, entries) /\ Goes(t, Found(hit), {}, {})
    BY <1>5, Typed DEF DeleteIngredient
  <2>2. /\ rows' \subseteq rows /\ entries' = entries
        /\ changed' \in [Tab -> [pantry : SUBSET Nat, journal : SUBSET Nat]]
    BY <2>1, CommitsTyped, Typed
  <2>3. Table(rows', lastId') /\ Follows(rows', lastId', rows, lastId)
    BY <1>1, <2>2, Typed DEF Inv, Table, Follows, SameMeaning
  <2> HIDE DEF hit
  <2> QED BY <1>1, <1>2, <1>3, <1>4, <2>1, <2>2, <2>3, GoesInv
<1>6. CASE SetInStock(t)
  <2>1. \A r \in hit : r \in rows /\ r \in StockRow /\ r.id = call[t].id /\ r.owner = call[t].owner
    BY Typed DEF Named
  <2>2. call[t].inStock \in BOOLEAN
    BY Typed DEF Call
  <2>3. \A x \in set : \E r \in hit : x = [r EXCEPT !.inStock = call[t].inStock] /\ x \in StockRow /\ SameMeaning(x, r)
    BY <2>1, <2>2 DEF StockRow, SameMeaning
  <2>4. \A x, y \in hit : x = y
    BY <2>1 DEF Inv, Table
  <2>5. Commits((rows \ hit) \cup set, entries) /\ Goes(t, Found(hit), set, {})
    BY <1>6 DEF SetInStock
  <2> HIDE DEF set, hit
  <2>6. (rows \ hit) \cup set \in SUBSET Row
    BY <2>3, Typed
  <2>7. /\ rows' = (rows \ hit) \cup set /\ entries' = entries
        /\ changed' \in [Tab -> [pantry : SUBSET Nat, journal : SUBSET Nat]]
    BY <2>5, <2>6, CommitsTyped, Typed
  <2>8. \A x, y \in set : x = y
    BY <2>3, <2>4
  <2>9. \A x \in set, r \in rows \ hit :
          x.id # r.id /\ ~(x.owner = r.owner /\ x.name = r.name)
    BY <2>1, <2>3 DEF Inv, Table, SameMeaning
  <2>10. Table(rows', lastId')
    <3>1. rows' \subseteq StockRow
      BY <2>3, <2>7, Typed
    <3>2. \A r \in rows' : r.id <= lastId'
      BY <1>1, <2>1, <2>3, <2>7 DEF Inv, Table, SameMeaning
    <3>3. \A r, s \in rows' : r.id = s.id \/ (r.owner = s.owner /\ r.name = s.name) => r = s
      BY <2>7, <2>8, <2>9 DEF Inv, Table
    <3> QED BY <1>1, <3>1, <3>2, <3>3, Typed DEF Table
  <2>11. Follows(rows', lastId', rows, lastId)
    <3>1. \A r \in rows : SameMeaning(r, r)
      BY DEF SameMeaning
    <3> QED BY <1>1, <2>1, <2>3, <2>7, <3>1, Typed DEF Follows
  <2>12. \A r \in set : r \in StockRow /\ r \in rows' /\ r.owner = call[t].owner
    BY <2>1, <2>3, <2>7 DEF SameMeaning
  <2>13. PICK stage, P : stage = Found(hit) /\ P = set
    OBVIOUS
  <2>14. Goes(t, stage, P, {}) /\ stage \in {"list", "journal", "reply", "missing"} /\ stage # "list"
    BY <1>3, <2>5, <2>13
  <2>15. \A r \in P : r \in StockRow /\ r \in rows' /\ r.owner = call[t].owner
    BY <2>12, <2>13
  <2>16. EntriesFollow /\ Journal' /\ entries' \subseteq Entry
    BY <1>4, <2>7
  <2>17. {} \subseteq entries' /\ pc[t] # "idle"
    BY <1>1
  <2>18. changed' \in [Tab -> [pantry : SUBSET Nat, journal : SUBSET Nat]]
    BY <2>7
  <2> QED BY ONLY Inv, t \in Tab, <1>2, <2>10, <2>11, <2>14, <2>15, <2>16, <2>17, <2>18, GoesInv
<1> QED BY <1>5, <1>6

\* An entry is added under a new id, or taken away.
LEMMA JournalInv ==
  ASSUME Inv, NEW t \in Tab, (\E d \in Day : AddJournalEntry(t, d)) \/ DeleteJournalEntry(t)
  PROVE  Inv'
<1>1. UNCHANGED <<lastId, lock>> /\ writer = None /\ pc[t] # "idle"
  BY DEF AddJournalEntry, DeleteJournalEntry, Begins
<1>2. /\ writer' \in Tab \cup {None} /\ tx' \in [rows : SUBSET Row, lastId : Nat] /\ Pending'
      /\ lastEntry \in Nat /\ entries \subseteq Entry /\ rows \in SUBSET Row /\ call[t].owner \in Owner
  BY <1>1, Typed, LockFree DEF lock
<1>3. ASSUME rows' = rows
      PROVE  Table(rows', lastId') /\ Follows(rows', lastId', rows, lastId)
  BY <1>1, <1>3, Typed, FollowsItself DEF Inv
<1>4. ASSUME NEW d \in Day, AddJournalEntry(t, d)
      PROVE  Inv'
  <2> DEFINE e == [id |-> lastEntry + 1, owner |-> call[t].owner, cookedOn |-> d]
  <2>1. e \in Entry /\ e.id = lastEntry + 1
    BY <1>2 DEF Entry
  <2>2. /\ Commits(rows, entries \cup {e}) /\ lastEntry' = e.id
        /\ Goes(t, "reply", {}, {e})
    BY <1>4 DEF AddJournalEntry, NextId
  <2> HIDE DEF e
  <2>3. /\ rows' = rows /\ entries' = entries \cup {e}
        /\ changed' \in [Tab -> [pantry : SUBSET Nat, journal : SUBSET Nat]]
    BY <1>2, <2>1, <2>2, CommitsTyped
  <2>4. \A f \in entries : f.id \in Nat /\ f.id <= lastEntry
    BY <1>2 DEF Inv, Journal, Entry
  <2>5. Journal'
    <3>1. \A f \in entries' : f.id <= lastEntry'
      BY <1>2, <2>1, <2>2, <2>3, <2>4
    <3>2. \A f \in entries : f.id # e.id
      BY <1>2, <2>1, <2>4
    <3> QED BY <2>3, <3>1, <3>2 DEF Inv, Journal
  <2>6. EntriesFollow
    BY <1>2, <2>1, <2>2, <2>3 DEF EntriesFollow
  <2>7. entries' \subseteq Entry /\ {e} \subseteq entries'
    BY <1>2, <2>1, <2>3
  <2> QED BY <1>1, <1>2, <1>3, <2>2, <2>3, <2>5, <2>6, <2>7, GoesInv
<1>5. CASE DeleteJournalEntry(t)
  <2>1. /\ Commits(rows, entries \ Named(t, entries)) /\ lastEntry' = lastEntry
        /\ Goes(t, Found(Named(t, entries)), {}, {})
    BY <1>5 DEF DeleteJournalEntry
  <2>2. entries \ Named(t, entries) \in SUBSET Entry
    BY <1>2
  <2>3. /\ rows' = rows /\ entries' = entries \ Named(t, entries)
        /\ changed' \in [Tab -> [pantry : SUBSET Nat, journal : SUBSET Nat]]
    BY <1>2, <2>1, <2>2, CommitsTyped
  <2>4. EntriesFollow /\ Journal' /\ entries' \subseteq Entry
    BY <1>2, <2>1, <2>3 DEF EntriesFollow, Inv, Journal
  <2>5. PICK stage \in {"reply", "missing"} : stage = Found(Named(t, entries))
    BY DEF Found
  <2> QED BY <1>1, <1>2, <1>3, <2>1, <2>3, <2>4, <2>5, GoesInv
<1> QED BY <1>4, <1>5

\* A call that fails, at any of its steps.
LEMMA FailsInv ==
  ASSUME Inv, NEW t \in Tab, Fails(t)
  PROVE  Inv'
<1>1. UNCHANGED tables /\ Answer(t, "failed", Nothing) /\ Rollback(t) /\ pc[t] # "idle"
  BY DEF Fails
<1>2. Pending' /\ writer' \in Tab \cup {None} /\ tx' \in [rows : SUBSET Row, lastId : Nat]
  <2>1. CASE writer = t
    BY <1>1, <2>1, LockFree, Typed DEF Rollback
  <2>2. CASE writer # t
    BY <1>1, <2>2, LockStays, Typed DEF Rollback, tables, lock
  <2> QED BY <2>1, <2>2
<1> QED BY <1>1, <1>2, AnswerInv

\* A call that is answered.
LEMMA ReplyInv ==
  ASSUME Inv, NEW t \in Tab, Reply(t)
  PROVE  Inv'
<1>1. PICK status \in {"ok", "404"}, sees \in {Nothing, got[t]} : Answer(t, status, sees)
  BY DEF Reply
<1>2. UNCHANGED <<tables, lock>> /\ pc[t] # "idle"
  BY DEF Reply
<1>3. Pending' /\ writer' \in Tab \cup {None} /\ tx' \in [rows : SUBSET Row, lastId : Nat]
  BY <1>2, LockStays, Typed DEF tables, lock
<1> QED BY <1>1, <1>2, <1>3, AnswerInv

LEMMA CrashInv ==
  ASSUME Inv, Crash
  PROVE  Inv'
<1>1. /\ UNCHANGED <<tables, shown>> /\ writer' = None /\ tx' = NoWrites
      /\ \A t \in Tab : pc'[t] = "idle" /\ got'[t] = Nothing /\ call'[t] = NoCall
  BY DEF Crash
<1>2. TypeOK'
  BY <1>1, NoCallTyped, Typed DEF Crash, Inv, TypeOK, tables, Nothing
<1>3. HeldMeans'
  BY <1>1 DEF HeldMeans, Nothing
<1> QED BY <1>1, <1>2, <1>3, TablesStay, NothingShown, LockFree DEF Inv

LEMMA InitInv == Init => Inv
<1> SUFFICES ASSUME Init PROVE Inv
  OBVIOUS
<1>1. TypeOK
  BY NoCallTyped DEF Init, TypeOK, NoWrites, Nothing
<1> QED BY <1>1 DEF Init, Inv, Table, Journal, Pending, ShownMeans, HeldMeans, Nothing

LEMMA NextInv == Inv /\ [Next]_vars => Inv'
<1> SUFFICES ASSUME Inv, [Next]_vars PROVE Inv'
  OBVIOUS
<1>1. CASE UNCHANGED vars
  <2>1. UNCHANGED <<tables, lock, shown>> /\ TypeOK'
    BY <1>1 DEF vars, Inv, TypeOK, tables, lock
  <2>2. HeldMeans'
    BY <1>1 DEF vars, Inv, HeldMeans, Means, MeansEntry, tables
  <2> QED BY <2>1, <2>2, TablesStay, LockStays, NothingShown DEF Inv, tables
<1> QED
  BY <1>1, ArrivalsInv, InsertInv, CommitInv, ReadInv, PantryInv, JournalInv, ReplyInv, FailsInv,
     CrashInv DEF Next

LEMMA SpecInv == Spec => []Inv
BY InitInv, NextInv, PTL DEF Spec

-----------------------------------------------------------------------------
(* Calls on their way                                                       *)

\* What T says of an ingredient of an account.
Stock(T, o, n) == {r.inStock : r \in {s \in T : s.owner = o /\ s.name = n}}

\* A tab's call, and how far its handler is with it.
Progress(t) ==
    /\ pc[t] = "idle" => call[t] = NoCall
    /\ pc[t] = "list" => call[t].op = "add"
    /\ pc[t] = "journal" => call[t].op = "memory"
    /\ call[t].names \subseteq Name
    /\ call[t].op = "add" => todo[t] \subseteq call[t].names
    /\ call[t].op = "add" /\ pc[t] = "begin" /\ writer # t => todo[t] = call[t].names
    /\ writer = t => pc[t] = "begin" /\ call[t].op = "add"

\* The row that a tab means is the one that its account was shown.
Aims(t) ==
    call[t].op \in {"switch", "delete"} =>
       /\ call[t].id <= lastId
       /\ \A r \in rows : r.id = call[t].id /\ r.owner = call[t].owner => call[t].names = {r.name}

\* What the transaction has done so far: some of its names are in stock, the rest
\* is as it was.
Batch ==
    writer # None =>
       \A o \in Owner, n \in Name :
          Stock(tx.rows, o, n) =
             IF o = call[writer].owner /\ n \in call[writer].names \ todo[writer]
             THEN {TRUE} ELSE Stock(rows, o, n)

Calls == Batch /\ \A t \in Tab : Progress(t) /\ Aims(t)

\* An INSERT puts one ingredient in stock.
LEMMA UpsertStocks ==
  ASSUME NEW b, NEW o \in Owner, NEW n \in Name, b.rows \subseteq StockRow, b.lastId \in Nat,
         NEW after \in Upserted(b, o, n), NEW p \in Owner, NEW m \in Name
  PROVE  Stock(after.rows, p, m) = IF p = o /\ m = n THEN {TRUE} ELSE Stock(b.rows, p, m)
<1> DEFINE old == {r \in b.rows : r.owner = o /\ r.name = n}
           id == b.lastId + 1
<1>1. CASE old = {}
  <2> DEFINE row == [id |-> id, owner |-> o, name |-> n, inStock |-> TRUE]
  <2>1. after.rows = b.rows \cup {row}
    BY <1>1 DEF Upserted, NextId
  <2>2. row.owner = o /\ row.name = n /\ row.inStock = TRUE
    OBVIOUS
  <2> HIDE DEF row
  <2>3. \A r \in b.rows : ~(r.owner = o /\ r.name = n)
    BY <1>1
  <2> QED BY <2>1, <2>2, <2>3 DEF Stock
<1>2. CASE old # {}
  <2> DEFINE restocked(r) == [r EXCEPT !.inStock = TRUE]
             T == (b.rows \ old) \cup {restocked(r) : r \in old}
  <2>1. after.rows = T
    BY <1>2 DEF Upserted, NextId
  <2>2. \A r \in old : restocked(r).owner = o /\ restocked(r).name = n /\ restocked(r).inStock = TRUE
    BY DEF StockRow
  <2>3. \A r \in b.rows \ old : ~(r.owner = o /\ r.name = n)
    OBVIOUS
  <2>4. PICK q : q \in old
    BY <1>2
  <2>5. \A r \in old : r.owner = o /\ r.name = n /\ r \in b.rows
    OBVIOUS
  <2> HIDE DEF restocked, old
  <2>6. CASE p = o /\ m = n
    <3>1. \A s \in after.rows : s.owner = o /\ s.name = n => s.inStock = TRUE
      BY <2>1, <2>2, <2>3
    <3>2. restocked(q) \in after.rows /\ restocked(q).owner = o /\ restocked(q).name = n
      BY <2>1, <2>2, <2>4
    <3> HIDE DEF T
    <3> QED BY <2>6, <3>1, <3>2 DEF Stock
  <2>7. CASE ~(p = o /\ m = n)
    BY <2>1, <2>2, <2>5, <2>7 DEF Stock
  <2> QED BY <2>6, <2>7
<1> QED BY <1>1, <1>2

\* Calls aim at what they aimed at while the tables move on.
LEMMA AimStays ==
  ASSUME Inv, NEW t \in Tab, Aims(t), call'[t] = call[t],
         lastId' \in Nat, Follows(rows', lastId', rows, lastId)
  PROVE  Aims(t)'
<1>1. call[t].id \in Nat /\ lastId \in Nat
  BY Typed DEF Call
<1>2. CASE call[t].op \in {"switch", "delete"}
  <2>1. call[t].id <= lastId /\ lastId <= lastId'
    BY <1>2 DEF Aims, Follows
  <2>2. ASSUME NEW r \in rows', r.id = call[t].id, r.owner = call[t].owner
        PROVE  call[t].names = {r.name}
    <3>1. PICK q \in rows : SameMeaning(r, q)
      BY <2>1, <2>2 DEF Follows
    <3> QED BY <1>2, <2>2, <3>1 DEF Aims, SameMeaning
  <2> QED BY <1>1, <2>1, <2>2 DEF Aims
<1>3. CASE call[t].op \notin {"switch", "delete"}
  BY <1>3 DEF Aims
<1> QED BY <1>2, <1>3

LEMMA NoCallAims ==
  ASSUME NEW t \in Tab, call'[t] = NoCall
  PROVE  Aims(t)'
BY DEF Aims, NoCall, Blank

-----------------------------------------------------------------------------

\* A call that arrives.
LEMMA ArriveCalls ==
  ASSUME Inv, Calls, NEW t \in Tab, NEW c, Arrive(t, c), c.names \subseteq Name,
         c.op \in {"switch", "delete"} =>
            /\ c.id <= lastId
            /\ \A r \in rows : r.id = c.id /\ r.owner = c.owner => c.names = {r.name}
  PROVE  Calls'
<1>1. /\ UNCHANGED <<tables, lock, shown>>
      /\ pc[t] = "idle" /\ pc'[t] = "begin" /\ call'[t] = c
      /\ todo'[t] = IF c.op = "add" THEN c.names ELSE {}
      /\ \A u \in Tab \ {t} : pc'[u] = pc[u] /\ call'[u] = call[u] /\ todo'[u] = todo[u]
  BY DEF Arrive, Inv, TypeOK
<1>2. writer # t
  BY <1>1 DEF Calls, Progress
<1>3. ASSUME NEW u \in Tab PROVE Progress(u)' /\ Aims(u)'
  <2>1. CASE u = t
    BY <1>1, <1>2, <2>1 DEF Progress, Aims, tables, lock
  <2>2. CASE u # t
    BY <1>1, <2>2 DEF Calls, Progress, Aims, tables, lock
  <2> QED BY <2>1, <2>2
<1>4. Batch'
  <2>1. writer # None => writer \in Tab \ {t}
    BY <1>2, Typed
  <2>2. writer # None => call'[writer] = call[writer] /\ todo'[writer] = todo[writer]
    BY <1>1, <2>1
  <2> QED BY <1>1, <2>2 DEF Calls, Batch, tables, lock, Stock
<1> QED BY <1>3, <1>4 DEF Calls

\* Ids that anyone has been shown, and what one was shown as to an account.
ShownIds == UNION {{row.id : row \in shown[p].pantry} : p \in Owner}

ShownAs(o, id) == {row.name : row \in {s \in shown[o].pantry : s.id = id}}

\* The call of a row means what its account was shown, or nothing.
LEMMA RowCalls ==
  ASSUME Inv, NEW o \in Owner, NEW id \in ShownIds
  PROVE  /\ id \in Nat /\ ShownAs(o, id) \subseteq Name /\ id <= lastId
         /\ \A r \in rows : r.id = id /\ r.owner = o => ShownAs(o, id) = {r.name}
<1>1. PICK p \in Owner : \E s \in shown[p].pantry : s.id = id
  BY DEF ShownIds
<1>2. \A q \in Owner : \A x \in shown[q].pantry : Means(q, x) /\ x.name \in Name /\ x.id \in Nat
  BY DEF Inv, ShownMeans, TypeOK
<1>3. ShownAs(o, id) \subseteq Name
  BY <1>2 DEF ShownAs
<1>4. id <= lastId /\ id \in Nat
  BY <1>1, <1>2 DEF Means
<1>5. ASSUME NEW r \in rows, r.id = id, r.owner = o
      PROVE  ShownAs(o, id) = {r.name}
  <2>1. p = o
    BY <1>1, <1>2, <1>5 DEF Means
  <2>2. \A x \in shown[o].pantry : x.id = id => x.name = r.name
    BY <1>2, <1>5 DEF Means
  <2> QED BY <1>1, <2>1, <2>2 DEF ShownAs
<1> QED BY <1>3, <1>4, <1>5

LEMMA ArrivalsCalls ==
  ASSUME Inv, Calls, NEW t \in Tab, NEW o \in Owner,
         ArrivePlain(t, o) \/ ArriveAdd(t, o) \/ ArriveRow(t, o) \/ ArriveUnlog(t, o)
  PROVE  \E c \in Call : Arrive(t, c) /\ c.owner \in Owner /\ c.names \subseteq Name /\ Calls'
<1>1. CASE ArrivePlain(t, o)
  <2>1. PICK op \in {"list", "journal", "memory", "log"} : Arrive(t, Blank(o, op))
    BY <1>1 DEF ArrivePlain
  <2>2. Blank(o, op) \in Call /\ Blank(o, op).op = op /\ Blank(o, op).names = {} /\ Blank(o, op).owner = o
    BY BlankTyped DEF Ops, Blank
  <2> QED BY <2>1, <2>2, ArriveCalls
<1>2. CASE ArriveAdd(t, o)
  <2>1. PICK words \in SUBSET Word : Arrive(t, [Blank(o, "add") EXCEPT !.names = Names(words)])
    BY <1>2 DEF ArriveAdd
  <2>2. Names(words) \subseteq Name /\ Names(words) \subseteq Word
    BY KitchenAssumption DEF Names
  <2>3. PICK c : c = [Blank(o, "add") EXCEPT !.names = Names(words)]
    OBVIOUS
  <2>4. c \in Call /\ c.names = Names(words) /\ c.op = "add" /\ c.owner = o
    BY <2>2, <2>3 DEF Blank, Call, Ops
  <2> QED BY <2>1, <2>2, <2>3, <2>4, ArriveCalls
<1>3. CASE ArriveRow(t, o)
  <2>1. PICK id \in ShownIds :
           \/ Arrive(t, [Blank(o, "delete") EXCEPT !.id = id, !.names = ShownAs(o, id)])
           \/ \E stock \in BOOLEAN :
                 Arrive(t, [Blank(o, "switch") EXCEPT !.id = id, !.names = ShownAs(o, id), !.inStock = stock])
    BY <1>3 DEF ArriveRow, ShownIds, ShownAs
  <2>2. PICK names : names = ShownAs(o, id)
    OBVIOUS
  <2>3. /\ id \in Nat /\ names \subseteq Name /\ names \subseteq Word /\ id <= lastId
        /\ \A r \in rows : r.id = id /\ r.owner = o => names = {r.name}
    BY <2>2, RowCalls, KitchenAssumption
  <2>4. PICK c \in Call : c.names = names /\ c.id = id /\ c.owner = o /\ Arrive(t, c)
    BY <2>1, <2>2, <2>3 DEF Blank, Call, Ops
  <2> QED BY <2>3, <2>4, ArriveCalls
<1>4. CASE ArriveUnlog(t, o)
  <2>1. PICK id \in UNION {{e.id : e \in shown[p].journal} : p \in Owner} :
           Arrive(t, [Blank(o, "unlog") EXCEPT !.id = id])
    BY <1>4 DEF ArriveUnlog
  <2>2. id \in Nat
    BY DEF Inv, TypeOK, Entry
  <2>3. PICK c : c = [Blank(o, "unlog") EXCEPT !.id = id]
    OBVIOUS
  <2>4. c \in Call /\ c.op = "unlog" /\ c.names = {} /\ c.owner = o
    BY <2>2, <2>3 DEF Blank, Call, Ops
  <2> QED BY <2>1, <2>3, <2>4, ArriveCalls
<1> QED BY <1>1, <1>2, <1>3, <1>4

\* Only an add has the lock, and only while it inserts.
LEMMA WriterAdds ==
  ASSUME Calls, NEW t \in Tab, ~Begins(t, "add")
  PROVE  writer # t
BY DEF Calls, Progress, Begins

\* A call that is answered.
LEMMA AnswerCalls ==
  ASSUME Inv, Calls, NEW t \in Tab, NEW status, NEW sees, Answer(t, status, sees), UNCHANGED tables,
         \/ writer' = writer /\ tx' = tx /\ writer # t
         \/ writer' = None /\ writer \in {None, t}
  PROVE  Calls'
<1>1. /\ pc'[t] = "idle" /\ call'[t] = NoCall /\ todo'[t] = {}
      /\ \A u \in Tab \ {t} : pc'[u] = pc[u] /\ call'[u] = call[u] /\ todo'[u] = todo[u]
  BY DEF Answer, Inv, TypeOK
<1>2. (\A u \in Tab : u # None) /\ UNCHANGED <<rows, lastId>>
  BY KitchenAssumption DEF tables
<1>3. ASSUME NEW u \in Tab PROVE Progress(u)' /\ Aims(u)'
  <2>1. CASE u = t
    <3>1. writer' # t
      BY <1>2
    <3>2. Progress(t)'
      BY <1>1, <3>1, NoCallAsks DEF Progress
    <3> QED BY <1>1, <2>1, <3>2, NoCallAims
  <2>2. CASE u # t
    <3>1. (writer' = u) = (writer = u)
      BY <1>2, <2>2
    <3>2. Progress(u)'
      BY <1>1, <2>2, <3>1 DEF Calls, Progress
    <3>3. Aims(u)'
      BY <1>1, <1>2, <2>2 DEF Calls, Aims
    <3> QED BY <3>2, <3>3
  <2> QED BY <2>1, <2>2
<1>4. Batch'
  <2>1. CASE writer' = None
    BY <2>1 DEF Batch
  <2>2. CASE writer' # None
    <3>1. writer' = writer /\ tx' = tx /\ rows' = rows /\ writer \in Tab \ {t}
      BY <1>2, <2>2, Typed
    <3>2. call'[writer] = call[writer] /\ todo'[writer] = todo[writer]
      BY <1>1, <3>1
    <3>3. call'[writer'] = call[writer] /\ todo'[writer'] = todo[writer]
      BY <3>1, <3>2
    <3>4. ASSUME NEW o \in Owner, NEW n \in Name
          PROVE  Stock(tx.rows, o, n) = IF o = call[writer].owner /\ n \in call[writer].names \ todo[writer]
                                        THEN {TRUE} ELSE Stock(rows, o, n)
      BY <2>2, <3>1 DEF Calls, Batch
    <3> QED BY <3>1, <3>3, <3>4 DEF Batch
  <2> QED BY <2>1, <2>2
<1> QED BY <1>3, <1>4 DEF Calls

LEMMA InsertCalls ==
  ASSUME Inv, Calls, NEW t \in Tab, InsertName(t)
  PROVE  Calls'
<1> DEFINE b == IF writer = t THEN tx ELSE [rows |-> rows, lastId |-> lastId]
<1>1. /\ UNCHANGED <<tables, pc, call, got, reply, shown, changed>> /\ writer' = t
      /\ pc[t] = "begin" /\ call[t].op = "add" /\ writer \in {None, t}
  BY DEF InsertName, Begins
<1>2. PICK n \in todo[t] : tx' \in Upserted(b, call[t].owner, n) /\ todo' = [todo EXCEPT ![t] = @ \ {n}]
  BY DEF InsertName
<1>3. n \in Name /\ call[t].owner \in Owner /\ n \in call[t].names
  BY <1>1, <1>2, Typed DEF Inv, TypeOK, Calls, Progress
<1>4. b.rows \subseteq StockRow /\ b.lastId \in Nat
  <2>1. CASE writer = t
    BY <2>1, KitchenAssumption DEF Inv, Pending, Table
  <2>2. CASE writer # t
    BY <2>2, Typed
  <2> QED BY <2>1, <2>2
<1>5. ASSUME NEW o \in Owner, NEW m \in Name
      PROVE  Stock(b.rows, o, m) = IF o = call[t].owner /\ m \in call[t].names \ todo[t]
                                   THEN {TRUE} ELSE Stock(rows, o, m)
  <2>1. CASE writer = t
    BY <2>1, KitchenAssumption DEF Calls, Batch
  <2>2. CASE writer # t
    BY <1>1, <2>2 DEF Calls, Progress
  <2> QED BY <2>1, <2>2
<1> HIDE DEF b
<1>6. todo'[t] = todo[t] \ {n} /\ \A u \in Tab \ {t} : todo'[u] = todo[u]
  BY <1>2 DEF Inv, TypeOK
<1>7. ASSUME NEW o \in Owner, NEW m \in Name
      PROVE  Stock(tx'.rows, o, m) = IF o = call[t].owner /\ m \in call[t].names \ todo'[t]
                                     THEN {TRUE} ELSE Stock(rows, o, m)
  <2>1. Stock(tx'.rows, o, m) = IF o = call[t].owner /\ m = n THEN {TRUE} ELSE Stock(b.rows, o, m)
    BY <1>2, <1>3, <1>4, UpsertStocks
  <2> QED BY <1>3, <1>5, <1>6, <2>1
<1>8. Batch'
  BY <1>1, <1>7 DEF Batch, tables, Stock
<1>9. ASSUME NEW u \in Tab PROVE Progress(u)' /\ Aims(u)'
  <2>1. Aims(u)'
    BY <1>1 DEF Calls, Aims, tables
  <2>2. Progress(u)'
    BY <1>1, <1>6, KitchenAssumption DEF Calls, Progress
  <2> QED BY <2>1, <2>2
<1> QED BY <1>8, <1>9 DEF Calls

LEMMA CommitCalls ==
  ASSUME Inv, Calls, NEW t \in Tab, CommitNames(t)
  PROVE  Calls'
<1>1. /\ rows' = tx.rows /\ lastId' = tx.lastId /\ writer' = None /\ writer = t
      /\ pc'[t] = "list" /\ call[t].op = "add"
      /\ \A u \in Tab \ {t} : pc'[u] = pc[u]
      /\ UNCHANGED <<call, todo>>
  BY DEF CommitNames, Commits, Goes, Begins, Inv, TypeOK
<1>2. Table(rows', lastId') /\ Follows(rows', lastId', rows, lastId)
  BY <1>1, KitchenAssumption DEF Inv, Pending
<1>3. ASSUME NEW u \in Tab PROVE Progress(u)' /\ Aims(u)'
  <2>1. Aims(u)'
    BY <1>1, <1>2, AimStays DEF Calls, Table
  <2>2. Progress(u)'
    BY <1>1, KitchenAssumption DEF Calls, Progress
  <2> QED BY <2>1, <2>2
<1> QED BY <1>1, <1>3 DEF Calls, Batch

\* A statement after which the handler goes on, over tables that move on; a
\* transaction goes on only over tables that stay.
LEMMA GoesCalls ==
  ASSUME Inv, Calls, NEW t \in Tab, ~Begins(t, "add"),
         NEW stage \in {"journal", "reply", "missing"}, NEW P, NEW J, Goes(t, stage, P, J),
         stage = "journal" => call[t].op = "memory",
         lastId' = lastId, Follows(rows', lastId', rows, lastId), UNCHANGED lock,
         writer = None \/ rows' = rows
  PROVE  Calls'
<1>1. /\ UNCHANGED <<call, todo>> /\ pc'[t] = stage
      /\ \A u \in Tab \ {t} : pc'[u] = pc[u]
  BY DEF Goes, Inv, TypeOK
<1>2. writer # t /\ writer' = writer /\ tx' = tx
  BY WriterAdds DEF lock
<1>3. ASSUME NEW u \in Tab PROVE Progress(u)' /\ Aims(u)'
  <2>1. Progress(u)'
    BY <1>1, <1>2 DEF Calls, Progress
  <2>2. Aims(u)'
    BY <1>1, Typed, AimStays DEF Calls
  <2> QED BY <2>1, <2>2
<1>4. Batch'
  <2>1. CASE writer = None
    BY <1>2, <2>1 DEF Batch
  <2>2. CASE rows' = rows
    BY <1>1, <1>2, <2>2 DEF Calls, Batch, Stock
  <2> QED BY <2>1, <2>2
<1> QED BY <1>3, <1>4 DEF Calls

LEMMA CrashCalls ==
  ASSUME Inv, Calls, Crash
  PROVE  Calls'
<1>1. writer' = None /\ \A u \in Tab : pc'[u] = "idle" /\ call'[u] = NoCall /\ todo'[u] = {}
  BY DEF Crash
<1>2. ASSUME NEW u \in Tab PROVE Progress(u)' /\ Aims(u)'
  <2>1. writer' # u
    BY <1>1, KitchenAssumption
  <2>2. Progress(u)'
    BY <1>1, <2>1, NoCallAsks DEF Progress
  <2> QED BY <1>1, <2>2, NoCallAims
<1> QED BY <1>1, <1>2 DEF Calls, Batch

-----------------------------------------------------------------------------
(* The abstract pantry                                                      *)

\* A shelf in terms of what the table says.
Level(stock) == IF TRUE \in stock THEN "in" ELSE IF stock # {} THEN "out" ELSE "absent"

LEMMA ShelfIs ==
  ASSUME NEW T, NEW o, T \subseteq StockRow
  PROVE  ShelfOf({r \in T : r.owner = o}) = [n \in Name |-> Level(Stock(T, o, n))]
<1> DEFINE own == {r \in T : r.owner = o}
<1>1. ASSUME NEW n \in Name
      PROVE  /\ (\E r \in own : r.name = n /\ r.inStock) <=> TRUE \in Stock(T, o, n)
             /\ (\E r \in own : r.name = n) <=> Stock(T, o, n) # {}
  <2>1. \A r \in own : r.inStock <=> r.inStock = TRUE
    BY DEF StockRow
  <2>2. Stock(T, o, n) = {r.inStock : r \in {s \in own : s.name = n}}
    BY DEF Stock
  <2> HIDE DEF own
  <2> QED BY <2>1, <2>2
<1> QED BY <1>1 DEF ShelfOf, Level

LEMMA ShelfNow ==
  ASSUME Inv, Inv', NEW o
  PROVE  /\ ShelfOf(PantryOf(o)) = [n \in Name |-> Level(Stock(rows, o, n))]
         /\ ShelfOf(PantryOf(o))' = [n \in Name |-> Level(Stock(rows', o, n))]
<1>1. ShelfOf(PantryOf(o)) = [n \in Name |-> Level(Stock(rows, o, n))]
  BY ShelfIs, Typed DEF PantryOf
<1>2. ShelfOf(PantryOf(o))' = ShelfOf({r \in rows' : r.owner = o})
  BY DEF PantryOf, ShelfOf
<1>3. rows' \subseteq StockRow
  BY DEF Inv, TypeOK, StockRow
<1>4. ShelfOf({r \in rows' : r.owner = o}) = [n \in Name |-> Level(Stock(rows', o, n))]
  BY <1>3, ShelfIs
<1> QED BY <1>1, <1>2, <1>4

\* A tab that a step is not about.
LEMMA Beside ==
  ASSUME NEW u, pc'[u] = pc[u], call'[u] = call[u], reply'[u] = reply[u]
  PROVE  Stage(u)' = Stage(u) /\ AbstractCall(u)' = AbstractCall(u)
<1>1. AbstractOp(u)' = AbstractOp(u)
  BY DEF AbstractOp
<1>2. Stage(u)' = Stage(u)
  BY <1>1 DEF Stage, Answering
<1>3. AbstractCall(u)' = AbstractCall(u)
  BY <1>1 DEF AbstractCall
<1> QED BY <1>2, <1>3

LEMMA NoCallIs ==
  ASSUME NEW t
  PROVE  /\ call[t] = NoCall => AbstractCall(t) = Shelves!NoCall
         /\ call'[t] = NoCall => AbstractCall(t)' = Shelves!NoCall
<1>1. NoCall.op = "journal" /\ NoCall.names = {} /\ NoCall.inStock = TRUE /\ NoCall.owner = None
  BY DEF NoCall, Blank
<1>2. call[t] = NoCall => AbstractCall(t) = Shelves!NoCall
  BY <1>1 DEF AbstractCall, AbstractOp, Shelves!NoCall
<1>3. call'[t] = NoCall => AbstractCall(t)' = Shelves!NoCall
  BY <1>1 DEF AbstractCall, AbstractOp, Shelves!NoCall
<1> QED BY <1>2, <1>3

\* A tab that holds nothing shows nothing.
LEMMA NothingToShow ==
  ASSUME NEW t
  PROVE  /\ got[t] = Nothing => View(t) = Shelves!Bare
         /\ got'[t] = Nothing => View(t)' = Shelves!Bare
BY DEF View, ShelfOf, Nothing, Shelves!Bare

\* The status of an answer, as the abstract pantry has it.
Outcome(status) == IF status = "ok" THEN "done" ELSE IF status = "404" THEN "refused" ELSE "lost"

\* What a step leaves on the shelves and in the views.
LEMMA ShelvesStay ==
  ASSUME rows' = rows
  PROVE  UNCHANGED [o \in Owner |-> ShelfOf(PantryOf(o))]
BY DEF PantryOf, ShelfOf

LEMMA ViewStays ==
  ASSUME NEW t, call'[t] = call[t], got'[t].pantry = got[t].pantry \/ call[t].op = "switch"
  PROVE  View(t)' = View(t)
BY DEF View, ShelfOf

\* An answer, as the abstract pantry sees it.
LEMMA Answered ==
  ASSUME Inv, NEW t \in Tab, NEW status, NEW sees, Answer(t, status, sees), UNCHANGED tables
  PROVE  Shelves!End({t}, Outcome(status))
<1>1. /\ pc'[t] = "idle" /\ call'[t] = NoCall /\ reply'[t] = status /\ got'[t] = Nothing
      /\ \A u \in Tab \ {t} : /\ pc'[u] = pc[u] /\ call'[u] = call[u] /\ reply'[u] = reply[u]
                              /\ got'[u] = got[u]
  BY DEF Answer, Inv, TypeOK
<1>2. Stage(t)' = Outcome(status)
  BY <1>1 DEF Stage, Outcome
<1>3. AbstractCall(t)' = Shelves!NoCall /\ View(t)' = Shelves!Bare
  BY <1>1, NoCallIs, NothingToShow
<1>4. ASSUME NEW u \in Tab \ {t}
      PROVE  Stage(u)' = Stage(u) /\ AbstractCall(u)' = AbstractCall(u) /\ View(u)' = View(u)
  BY <1>1, Beside, ViewStays
<1>5. UNCHANGED [o \in Owner |-> ShelfOf(PantryOf(o))]
  BY ShelvesStay DEF tables
<1> QED BY <1>2, <1>3, <1>4, <1>5 DEF Shelves!End

\* A statement after which the handler goes on.
LEMMA Going ==
  ASSUME Inv, NEW t \in Tab, NEW stage, NEW P, NEW J, Goes(t, stage, P, J)
  PROVE  /\ pc'[t] = stage /\ call' = call /\ AbstractOp(t)' = AbstractOp(t)
         /\ got'[t].pantry = P
         /\ AbstractCall(t)' = AbstractCall(t)
         /\ \A u \in Tab \ {t} : /\ Stage(u)' = Stage(u) /\ AbstractCall(u)' = AbstractCall(u)
                                 /\ View(u)' = View(u)
         /\ \A from, to : Stage(t) = from /\ Stage(t)' = to => Shelves!Move(t, from, to)
<1>1. PICK held : held = [pantry |-> P, journal |-> J]
  OBVIOUS
<1>2. /\ pc'[t] = stage /\ UNCHANGED <<call, reply>> /\ got'[t] = held /\ held.pantry = P
      /\ \A u \in Tab \ {t} : pc'[u] = pc[u] /\ got'[u] = got[u]
  BY <1>1 DEF Goes, Inv, TypeOK
<1>3. AbstractOp(t)' = AbstractOp(t)
  BY <1>2 DEF AbstractOp
<1>4. AbstractCall(t)' = AbstractCall(t)
  BY <1>2, <1>3 DEF AbstractCall
<1>5. \A u \in Tab \ {t} : /\ Stage(u)' = Stage(u) /\ AbstractCall(u)' = AbstractCall(u)
                           /\ View(u)' = View(u)
  BY <1>2, Beside, ViewStays
<1>6. ASSUME NEW from, NEW to, Stage(t) = from, Stage(t)' = to
      PROVE  Shelves!Move(t, from, to)
  BY <1>4, <1>5, <1>6 DEF Shelves!Move
<1> QED BY <1>2, <1>3, <1>4, <1>5, <1>6

\* One that the abstract pantry does not see.
LEMMA Unseen ==
  ASSUME Inv, NEW t \in Tab, NEW stage, NEW P, NEW J, Goes(t, stage, P, J), rows' = rows,
         Stage(t)' = Stage(t), P = got[t].pantry \/ call[t].op = "switch"
  PROVE  UNCHANGED Shelves!vars
<1>1. View(t)' = View(t)
  BY Going, ViewStays
<1> QED BY <1>1, Going, ShelvesStay DEF Shelves!vars

\* What a step changes on a shelf.
LEMMA Puts ==
  ASSUME Inv, Inv', NEW t \in Tab, NEW stock, call[t].owner \in Owner,
         \A o \in Owner, n \in Name :
            Level(Stock(rows', o, n)) = IF o = call[t].owner /\ n \in call[t].names
                                        THEN stock ELSE Level(Stock(rows, o, n))
  PROVE  Shelves!Put(t, stock)
<1>1. AbstractCall(t).owner = call[t].owner /\ AbstractCall(t).names = call[t].names
  BY DEF AbstractCall
<1>2. PICK o \in Owner : o = call[t].owner
  OBVIOUS
<1>3. PICK names : names = call[t].names
  OBVIOUS
<1>4. ASSUME NEW p \in Owner, p # o
      PROVE  ShelfOf(PantryOf(p))' = ShelfOf(PantryOf(p))
  BY <1>2, <1>4, ShelfNow
<1>5. ShelfOf(PantryOf(o))' = [n \in Name |-> IF n \in names THEN stock ELSE ShelfOf(PantryOf(o))[n]]
  <2>1. ShelfOf(PantryOf(o))' = [n \in Name |-> Level(Stock(rows', o, n))]
    BY ShelfNow
  <2>2. \A n \in Name : ShelfOf(PantryOf(o))[n] = Level(Stock(rows, o, n))
    BY ShelfNow
  <2>3. \A n \in Name : Level(Stock(rows', o, n)) = IF n \in names THEN stock ELSE Level(Stock(rows, o, n))
    BY <1>2, <1>3
  <2> QED BY <2>1, <2>2, <2>3
<1>6. [p \in Owner |-> ShelfOf(PantryOf(p))]' =
        [[p \in Owner |-> ShelfOf(PantryOf(p))] EXCEPT ![o] =
           [n \in Name |-> IF n \in names THEN stock ELSE @[n]]]
  BY <1>4, <1>5
<1> QED BY <1>1, <1>2, <1>3, <1>6 DEF Shelves!Put

\* The steps, as the abstract pantry sees them.
LEMMA ArriveMaps ==
  ASSUME Inv, NEW t \in Tab, NEW c \in Call, c.owner \in Owner, c.names \subseteq Name, Arrive(t, c)
  PROVE  Shelves!Ask(t)
<1>1. /\ pc[t] = "idle" /\ pc'[t] = "begin" /\ call'[t] = c /\ rows' = rows /\ got' = got
      /\ got[t] = Nothing
      /\ \A u \in Tab \ {t} : pc'[u] = pc[u] /\ call'[u] = call[u] /\ reply'[u] = reply[u]
  BY DEF Arrive, Inv, TypeOK, HeldMeans, tables
<1>2. Stage(t) \in Shelves!Ended /\ Stage(t)' = "called"
  BY <1>1 DEF Stage, Shelves!Ended
<1>3. AbstractCall(t)' \in Shelves!Call
  <2>1. AbstractOp(t)' \in {"add", "switch", "drop", "show", "other"}
    BY <1>1 DEF AbstractOp
  <2> QED BY <1>1, <2>1 DEF AbstractCall, Shelves!Call, Call
<1>4. \A u \in Tab \ {t} : /\ Stage(u)' = Stage(u) /\ AbstractCall(u)' = AbstractCall(u)
                           /\ View(u)' = View(u)
  BY <1>1, Beside, ViewStays
<1>5. View(t)' = View(t)
  BY <1>1, NothingToShow
<1>6. UNCHANGED [o \in Owner |-> ShelfOf(PantryOf(o))]
  BY <1>1, ShelvesStay
<1> QED BY <1>2, <1>3, <1>4, <1>5, <1>6 DEF Shelves!Ask

LEMMA InsertMaps ==
  ASSUME NEW t \in Tab, InsertName(t)
  PROVE  UNCHANGED Shelves!vars
<1>1. rows' = rows /\ got' = got /\ pc' = pc /\ call' = call /\ reply' = reply
  BY DEF InsertName, tables
<1>2. \A u \in Tab : /\ Stage(u)' = Stage(u) /\ AbstractCall(u)' = AbstractCall(u)
                     /\ View(u)' = View(u)
  BY <1>1, Beside, ViewStays
<1> QED BY <1>1, <1>2, ShelvesStay DEF Shelves!vars

LEMMA CommitMaps ==
  ASSUME Inv, Inv', Calls, NEW t \in Tab, CommitNames(t)
  PROVE  Shelves!Restock(t)
<1>1. /\ rows' = tx.rows /\ writer = t /\ todo[t] = {} /\ Goes(t, "list", {}, {})
      /\ pc[t] = "begin" /\ call[t].op = "add" /\ got[t] = Nothing
  BY DEF CommitNames, Commits, Begins, Inv, HeldMeans
<1>2. Stage(t) = "called" /\ Stage(t)' = "changed"
  BY <1>1, Going DEF Stage
<1>3. AbstractCall(t).op = "add"
  BY <1>1 DEF AbstractCall, AbstractOp
<1>4. Shelves!Move(t, "called", "changed")
  BY <1>1, <1>2, Going
<1>5. call[t].owner \in Owner
  BY <1>1, Typed
<1>6. ASSUME NEW o \in Owner, NEW n \in Name
      PROVE  Level(Stock(rows', o, n)) = IF o = call[t].owner /\ n \in call[t].names
                                         THEN "in" ELSE Level(Stock(rows, o, n))
  <2>1. Stock(tx.rows, o, n) = IF o = call[t].owner /\ n \in call[t].names THEN {TRUE} ELSE Stock(rows, o, n)
    BY <1>1, KitchenAssumption DEF Calls, Batch
  <2>2. Level({TRUE}) = "in"
    BY DEF Level
  <2> QED BY <1>1, <2>1, <2>2
<1>7. Shelves!Put(t, "in")
  BY <1>5, <1>6, Puts
<1>8. View(t)' = View(t)
  <2>1. got'[t].pantry = got[t].pantry /\ call'[t] = call[t]
    BY <1>1, Going DEF Nothing
  <2> QED BY <2>1, ViewStays
<1>9. UNCHANGED [u \in Tab |-> View(u)]
  BY <1>1, <1>8, Going
<1> QED BY <1>3, <1>4, <1>7, <1>9 DEF Shelves!Restock

\* A handler that has read its account's pantry.
LEMMA Shows ==
  ASSUME Inv, NEW t \in Tab, pc[t] # "idle", NEW stage, rows' = rows,
         Goes(t, stage, PantryOf(call[t].owner), {}), Stage(t)' = "shown",
         \/ AbstractOp(t) = "add" /\ Stage(t) = "changed"
         \/ AbstractOp(t) = "show" /\ Stage(t) = "called"
  PROVE  Shelves!Show(t)
<1>1. PICK o \in Owner : o = call[t].owner
  BY Typed
<1>2. got'[t].pantry = PantryOf(o) /\ call'[t].op # "switch"
  <2>1. call[t].op # "switch"
    BY DEF AbstractOp
  <2> QED BY <1>1, <2>1, Going
<1>3. View(t)' = ShelfOf(PantryOf(o))
  BY <1>2 DEF View, ShelfOf
<1>4. AbstractCall(t).owner = o /\ AbstractCall(t).op = AbstractOp(t)
  BY <1>1 DEF AbstractCall
<1>5. Shelves!Move(t, Stage(t), "shown") /\ \A u \in Tab \ {t} : View(u)' = View(u)
  BY Going
<1> QED BY <1>3, <1>4, <1>5, ShelvesStay DEF Shelves!Show

LEMMA ListMaps ==
  ASSUME Inv, Calls, NEW t \in Tab, ListIngredients(t)
  PROVE  Shelves!Show(t)
<1>1. /\ Goes(t, "reply", PantryOf(call[t].owner), {}) /\ rows' = rows
      /\ Begins(t, "list") \/ pc[t] = "list"
  BY DEF ListIngredients, tables
<1>2. pc'[t] = "reply" /\ AbstractOp(t)' = AbstractOp(t)
  BY <1>1, Going
<1>3. CASE Begins(t, "list")
  <2>1. Stage(t) = "called" /\ AbstractOp(t) = "show" /\ pc[t] # "idle"
    BY <1>3 DEF Begins, Stage, AbstractOp
  <2>2. Stage(t)' = "shown"
    BY <1>2, <2>1 DEF Stage, Answering
  <2> QED BY <1>1, <2>1, <2>2, Shows
<1>4. CASE pc[t] = "list"
  <2>1. Stage(t) = "changed" /\ AbstractOp(t) = "add" /\ pc[t] # "idle"
    BY <1>4 DEF Stage, AbstractOp, Calls, Progress
  <2>2. Stage(t)' = "shown"
    BY <1>2, <2>1 DEF Stage, Answering
  <2> QED BY <1>1, <2>1, <2>2, Shows
<1> QED BY <1>1, <1>3, <1>4

LEMMA LoadMaps ==
  ASSUME Inv, NEW t \in Tab, LoadIngredients(t)
  PROVE  Shelves!Show(t)
<1>1. /\ Goes(t, "journal", PantryOf(call[t].owner), {}) /\ rows' = rows
      /\ pc[t] = "begin" /\ call[t].op = "memory"
  BY DEF LoadIngredients, Begins, tables
<1>2. pc'[t] = "journal"
  BY <1>1, Going
<1>3. Stage(t) = "called" /\ Stage(t)' = "shown" /\ AbstractOp(t) = "show"
  BY <1>1, <1>2 DEF Stage, AbstractOp
<1> QED BY <1>1, <1>3, Shows

\* The row that a switch or a delete hits is the one that the account was shown.
LEMMA Hits ==
  ASSUME Inv, Calls, NEW t \in Tab, call[t].op \in {"switch", "delete"}, NEW r \in Named(t, rows)
  PROVE  /\ r \in rows /\ r \in StockRow /\ r.owner = call[t].owner
         /\ Named(t, rows) = {r} /\ call[t].names = {r.name}
         /\ \A s \in rows : s.owner = r.owner /\ s.name = r.name => s = r
         /\ Shelves!OnShelf(t)
<1>1. /\ r \in rows /\ r \in StockRow /\ r.owner = call[t].owner /\ r.id = call[t].id
      /\ r.name \in Name /\ r.owner \in Owner
  BY Typed DEF Named, StockRow
<1>2. Named(t, rows) = {r}
  BY <1>1 DEF Inv, Table, Named
<1>3. call[t].names = {r.name}
  BY <1>1 DEF Calls, Aims
<1>4. \A s \in rows : s.owner = r.owner /\ s.name = r.name => s = r
  BY <1>1 DEF Inv, Table
<1>5. Shelves!OnShelf(t)
  <2>1. Level(Stock(rows, r.owner, r.name)) # "absent"
    BY <1>1 DEF Stock, Level
  <2>2. ShelfOf(PantryOf(r.owner)) = [n \in Name |-> Level(Stock(rows, r.owner, n))]
    BY ShelfIs, Typed DEF PantryOf
  <2>3. ShelfOf(PantryOf(r.owner))[r.name] # "absent"
    BY <1>1, <2>1, <2>2
  <2>4. AbstractCall(t).owner = r.owner /\ AbstractCall(t).names = {r.name}
    BY <1>1, <1>3 DEF AbstractCall
  <2> QED BY <1>1, <2>3, <2>4 DEF Shelves!OnShelf
<1> QED BY <1>1, <1>2, <1>3, <1>4, <1>5

LEMMA SwitchMaps ==
  ASSUME Inv, Inv', Calls, NEW t \in Tab, SetInStock(t)
  PROVE  Shelves!Switch(t) \/ UNCHANGED Shelves!vars
<1> DEFINE hit == Named(t, rows)
           set == {[r EXCEPT !.inStock = call[t].inStock] : r \in hit}
<1>1. /\ rows' = (rows \ hit) \cup set /\ Goes(t, Found(hit), set, {})
      /\ pc[t] = "begin" /\ call[t].op = "switch"
  BY DEF SetInStock, Commits, Begins
<1>2. /\ Stage(t) = "called" /\ AbstractOp(t) = "switch" /\ AbstractOp(t)' = "switch"
      /\ pc'[t] = Found(hit)
  BY <1>1, Going DEF Stage, AbstractOp
<1>3. CASE hit = {}
  <2>1. rows' = rows /\ Found(hit) = "missing"
    BY <1>1, <1>3 DEF Found
  <2>2. Stage(t)' = Stage(t)
    BY <1>2, <2>1 DEF Stage
  <2> HIDE DEF hit, set
  <2> QED BY <1>1, <2>1, <2>2, Unseen
<1>4. CASE hit # {}
  <2>1. PICK r : r \in hit
    BY <1>4
  <2>2. /\ r \in rows /\ r \in StockRow /\ r.owner = call[t].owner
        /\ hit = {r} /\ call[t].names = {r.name}
        /\ \A s \in rows : s.owner = r.owner /\ s.name = r.name => s = r
        /\ Shelves!OnShelf(t)
    BY <1>1, <2>1, Hits
  <2>3. PICK q : q = [r EXCEPT !.inStock = call[t].inStock]
    OBVIOUS
  <2>4. rows' = (rows \ {r}) \cup {q}
    BY <1>1, <2>2, <2>3
  <2>5. q.owner = r.owner /\ q.name = r.name /\ q.inStock = call[t].inStock
    BY <2>2, <2>3 DEF StockRow
  <2>6. Stage(t)' = "changed"
    BY <1>2, <1>4 DEF Stage, Answering, Found
  <2> HIDE DEF hit, set
  <2>7. PICK level : level = IF call[t].inStock THEN "in" ELSE "out"
    OBVIOUS
  <2>8. Level({call[t].inStock}) = level
    BY <2>7, Typed DEF Level, Call
  <2>9. ASSUME NEW o \in Owner, NEW n \in Name
        PROVE  Level(Stock(rows', o, n)) = IF o = call[t].owner /\ n \in call[t].names
                                           THEN level ELSE Level(Stock(rows, o, n))
    <3>1. CASE o = r.owner /\ n = r.name
      <4>1. Stock(rows', o, n) = {call[t].inStock}
        BY <2>2, <2>4, <2>5, <3>1 DEF Stock
      <4> QED BY <2>2, <2>8, <3>1, <4>1
    <3>2. CASE ~(o = r.owner /\ n = r.name)
      <4>1. Stock(rows', o, n) = Stock(rows, o, n)
        BY <2>2, <2>4, <2>5, <3>2 DEF Stock
      <4> QED BY <2>2, <3>2, <4>1
    <3> QED BY <3>1, <3>2
  <2>10. call[t].owner \in Owner
    BY <1>1, Typed
  <2>11. Shelves!Put(t, level)
    BY <2>9, <2>10, Puts
  <2>12. AbstractCall(t).op = "switch" /\ AbstractCall(t).stock = level
    BY <1>2, <2>7 DEF AbstractCall
  <2>13. Shelves!Move(t, "called", "changed")
    BY <1>1, <1>2, <2>6, Going
  <2>14. View(t)' = View(t) /\ \A u \in Tab \ {t} : View(u)' = View(u)
    BY <1>1, Going, ViewStays
  <2> QED BY <2>2, <2>11, <2>12, <2>13, <2>14 DEF Shelves!Switch
<1> QED BY <1>3, <1>4

LEMMA DropMaps ==
  ASSUME Inv, Inv', Calls, NEW t \in Tab, DeleteIngredient(t)
  PROVE  Shelves!Drop(t) \/ UNCHANGED Shelves!vars
<1> DEFINE hit == Named(t, rows)
<1>1. /\ rows' = rows \ hit /\ Goes(t, Found(hit), {}, {})
      /\ pc[t] = "begin" /\ call[t].op = "delete" /\ got[t].pantry = {}
  BY DEF DeleteIngredient, Commits, Begins, Inv, HeldMeans, Nothing
<1>2. /\ Stage(t) = "called" /\ AbstractOp(t) = "drop" /\ AbstractOp(t)' = "drop"
      /\ pc'[t] = Found(hit)
  BY <1>1, Going DEF Stage, AbstractOp
<1>3. CASE hit = {}
  <2>1. rows' = rows /\ Found(hit) = "missing"
    BY <1>1, <1>3 DEF Found
  <2>2. Stage(t)' = Stage(t)
    BY <1>2, <2>1 DEF Stage
  <2> HIDE DEF hit
  <2> QED BY <1>1, <2>1, <2>2, Unseen
<1>4. CASE hit # {}
  <2>1. PICK r : r \in hit
    BY <1>4
  <2>2. /\ r \in rows /\ r.owner = call[t].owner
        /\ hit = {r} /\ call[t].names = {r.name}
        /\ \A s \in rows : s.owner = r.owner /\ s.name = r.name => s = r
        /\ Shelves!OnShelf(t)
    BY <1>1, <2>1, Hits
  <2>3. rows' = rows \ {r}
    BY <1>1, <2>2
  <2>4. Stage(t)' = "changed"
    BY <1>2, <1>4 DEF Stage, Answering, Found
  <2> HIDE DEF hit
  <2>5. ASSUME NEW o \in Owner, NEW n \in Name
        PROVE  Level(Stock(rows', o, n)) = IF o = call[t].owner /\ n \in call[t].names
                                           THEN "absent" ELSE Level(Stock(rows, o, n))
    <3>1. CASE o = r.owner /\ n = r.name
      <4>1. Stock(rows', o, n) = {}
        BY <2>2, <2>3, <3>1 DEF Stock
      <4> QED BY <2>2, <3>1, <4>1 DEF Level
    <3>2. CASE ~(o = r.owner /\ n = r.name)
      <4>1. Stock(rows', o, n) = Stock(rows, o, n)
        BY <2>2, <2>3, <3>2 DEF Stock
      <4> QED BY <2>2, <3>2, <4>1
    <3> QED BY <3>1, <3>2
  <2>6. call[t].owner \in Owner
    BY <1>1, Typed
  <2>7. Shelves!Put(t, "absent")
    BY <2>5, <2>6, Puts
  <2>8. AbstractCall(t).op = "drop"
    BY <1>2 DEF AbstractCall
  <2>9. Shelves!Move(t, "called", "changed")
    BY <1>1, <1>2, <2>4, Going
  <2>10. View(t)' = View(t) /\ \A u \in Tab \ {t} : View(u)' = View(u)
    BY <1>1, Going, ViewStays
  <2> QED BY <2>2, <2>7, <2>8, <2>9, <2>10 DEF Shelves!Drop
<1> QED BY <1>3, <1>4

\* The journal is on no shelf.
LEMMA JournalGoes ==
  ASSUME NEW t \in Tab,
         ListJournal(t) \/ DeleteJournalEntry(t) \/ \E d \in Day : AddJournalEntry(t, d)
  PROVE  \E stage, J : stage \in {"reply", "missing"} /\ Goes(t, stage, {}, J)
<1>1. CASE ListJournal(t)
  BY <1>1 DEF ListJournal
<1>2. CASE DeleteJournalEntry(t)
  BY <1>2 DEF DeleteJournalEntry, Found
<1>3. ASSUME NEW d \in Day, AddJournalEntry(t, d)
      PROVE  \E J : Goes(t, "reply", {}, J)
  BY <1>3 DEF AddJournalEntry
<1> QED BY <1>1, <1>2, <1>3

LEMMA JournalMaps ==
  ASSUME Inv, Calls, NEW t \in Tab,
         \/ ListJournal(t) \/ LoadJournal(t) \/ DeleteJournalEntry(t)
         \/ \E d \in Day : AddJournalEntry(t, d)
  PROVE  UNCHANGED Shelves!vars
<1>1. CASE LoadJournal(t)
  <2>1. /\ Goes(t, "reply", got[t].pantry, JournalOf(call[t].owner, MemoryEntries))
        /\ pc[t] = "journal" /\ rows' = rows
    BY <1>1 DEF LoadJournal, tables
  <2>2. pc'[t] = "reply" /\ AbstractOp(t)' = AbstractOp(t) /\ AbstractOp(t) = "show"
    BY <2>1, Going DEF Calls, Progress, AbstractOp
  <2>3. Stage(t)' = Stage(t)
    BY <2>1, <2>2 DEF Stage, Answering
  <2> QED BY <2>1, <2>3, Unseen
<1>2. CASE ~LoadJournal(t)
  <2>1. Begins(t, "journal") \/ Begins(t, "unlog") \/ Begins(t, "log")
    BY <1>2 DEF ListJournal, DeleteJournalEntry, AddJournalEntry
  <2>2. /\ pc[t] = "begin" /\ Stage(t) = "called" /\ AbstractOp(t) = "other" /\ got[t].pantry = {}
    BY <2>1 DEF Begins, Stage, AbstractOp, Inv, HeldMeans, Nothing
  <2>3. rows' = rows
    BY <1>2 DEF ListJournal, DeleteJournalEntry, AddJournalEntry, Commits, tables
  <2>4. PICK stage, J : stage \in {"reply", "missing"} /\ Goes(t, stage, {}, J)
    BY <1>2, JournalGoes
  <2>5. pc'[t] = stage /\ AbstractOp(t)' = "other"
    BY <2>2, <2>4, Going
  <2>6. Stage(t)' = Stage(t)
    <3>1. CASE pc'[t] = "reply"
      BY <2>2, <2>5, <3>1 DEF Stage, Answering
    <3>2. CASE pc'[t] = "missing"
      BY <2>2, <3>2 DEF Stage
    <3> QED BY <2>4, <2>5, <3>1, <3>2
  <2> QED BY <2>2, <2>3, <2>4, <2>6, Unseen
<1> QED BY <1>1, <1>2

\* An answer comes after what it answers for.
LEMMA ReplyMaps ==
  ASSUME Inv, Calls, NEW t \in Tab, Reply(t)
  PROVE  Shelves!Answer(t) \/ Shelves!Refuse(t)
<1>1. CASE pc[t] = "missing"
  <2>1. PICK sees : Answer(t, "404", sees) /\ UNCHANGED tables
    BY <1>1 DEF Reply
  <2>2. Shelves!End({t}, "refused")
    BY <2>1, Answered DEF Outcome
  <2>3. Stage(t) = "called"
    BY <1>1 DEF Stage
  <2> QED BY <2>2, <2>3 DEF Shelves!Refuse
<1>2. CASE pc[t] = "reply"
  <2>1. PICK sees : Answer(t, "ok", sees) /\ UNCHANGED tables
    BY <1>2 DEF Reply
  <2>2. Shelves!End({t}, "done")
    BY <2>1, Answered DEF Outcome
  <2>3. AbstractCall(t).op = AbstractOp(t) /\ Stage(t) = Answering[AbstractOp(t)]
    BY <1>2 DEF AbstractCall, Stage
  <2>4. AbstractOp(t) \in {"add", "switch", "drop", "show", "other"}
    BY DEF AbstractOp
  <2> QED BY <2>2, <2>3, <2>4 DEF Answering, Shelves!Answer
<1> QED BY <1>1, <1>2 DEF Reply

LEMMA Busy ==
  ASSUME TypeOK, NEW t \in Tab, pc[t] # "idle"
  PROVE  Stage(t) \notin Shelves!Ended
<1>1. AbstractOp(t) \in {"add", "switch", "drop", "show", "other"}
  BY DEF AbstractOp
<1> QED BY <1>1 DEF TypeOK, Stage, Answering, Shelves!Ended

LEMMA FailsMaps ==
  ASSUME Inv, NEW t \in Tab, Fails(t)
  PROVE  Shelves!Lose({t})
<1>1. UNCHANGED tables /\ pc[t] # "idle" /\ Answer(t, "failed", Nothing)
  BY DEF Fails
<1>2. Shelves!End({t}, "lost")
  BY <1>1, Answered DEF Outcome
<1> QED BY <1>1, <1>2, Busy DEF Inv, Shelves!Lose

LEMMA CrashMaps ==
  ASSUME Inv, Calls, Crash
  PROVE  \E S \in (SUBSET Tab) \ {{}} : Shelves!Lose(S)
<1> DEFINE S == {t \in Tab : pc[t] # "idle"}
<1>1. /\ rows' = rows
      /\ \A t \in Tab : /\ pc'[t] = "idle" /\ call'[t] = NoCall /\ got'[t] = Nothing
                        /\ reply'[t] = IF pc[t] = "idle" THEN reply[t] ELSE "failed"
  BY DEF Crash, tables
<1>2. ASSUME NEW t \in S
      PROVE  /\ Stage(t) \notin Shelves!Ended /\ Stage(t)' = "lost"
             /\ AbstractCall(t)' = Shelves!NoCall /\ View(t)' = Shelves!Bare
  <2>1. Stage(t)' = "lost"
    BY <1>1 DEF Stage
  <2> QED BY <1>1, <2>1, Busy, NoCallIs, NothingToShow DEF Inv
<1>3. ASSUME NEW t \in Tab \ S
      PROVE  Stage(t)' = Stage(t) /\ AbstractCall(t)' = AbstractCall(t) /\ View(t)' = View(t)
  <2>1. pc[t] = "idle" /\ call[t] = NoCall /\ got[t] = Nothing
    BY DEF Calls, Progress, Inv, HeldMeans
  <2> QED BY <1>1, <2>1, Beside, ViewStays
<1>4. S \in (SUBSET Tab) \ {{}}
  BY DEF Crash
<1> HIDE DEF S
<1>5. Shelves!End(S, "lost")
  <2>1. [t \in Tab |-> Stage(t)]' = [t \in Tab |-> IF t \in S THEN "lost" ELSE [u \in Tab |-> Stage(u)][t]]
    BY <1>2, <1>3
  <2>2. [t \in Tab |-> AbstractCall(t)]' =
          [t \in Tab |-> IF t \in S THEN Shelves!NoCall ELSE [u \in Tab |-> AbstractCall(u)][t]]
    BY <1>2, <1>3
  <2>3. [t \in Tab |-> View(t)]' = [t \in Tab |-> IF t \in S THEN Shelves!Bare ELSE [u \in Tab |-> View(u)][t]]
    BY <1>2, <1>3
  <2> QED BY <1>1, <2>1, <2>2, <2>3, ShelvesStay DEF Shelves!End
<1>6. \A t \in S : [u \in Tab |-> Stage(u)][t] \notin Shelves!Ended
  BY <1>2, <1>4
<1> QED BY <1>4, <1>5, <1>6 DEF Shelves!Lose

\* A step of the abstract pantry takes its call on.
LEMMA TakesOn ==
  ASSUME NEW t \in Tab,
         \/ Shelves!Ask(t) \/ Shelves!Restock(t) \/ Shelves!Switch(t) \/ Shelves!Drop(t)
         \/ Shelves!Show(t) \/ Shelves!Answer(t) \/ Shelves!Refuse(t)
  PROVE  Shelves!Next
<1>1. Stage(t)' # Stage(t)
  <2>1. CASE Shelves!Ask(t)
    BY <2>1 DEF Shelves!Ask, Shelves!Ended
  <2>2. CASE \/ Shelves!Restock(t) \/ Shelves!Switch(t) \/ Shelves!Drop(t) \/ Shelves!Show(t)
    <3>1. PICK move \in {<<"called", "changed">>, <<"changed", "shown">>, <<"called", "shown">>} :
             Shelves!Move(t, move[1], move[2])
      BY <2>2 DEF Shelves!Restock, Shelves!Switch, Shelves!Drop, Shelves!Show
    <3>2. Stage(t) = move[1] /\ Stage(t)' = move[2]
      BY <3>1 DEF Shelves!Move
    <3> QED BY <3>2
  <2>3. CASE Shelves!Answer(t)
    BY <2>3 DEF Shelves!Answer, Shelves!End
  <2>4. CASE Shelves!Refuse(t)
    BY <2>4 DEF Shelves!Refuse, Shelves!End
  <2> QED BY <2>1, <2>2, <2>3, <2>4
<1>2. Shelves!Step(t)
  BY <1>1 DEF Shelves!Step
<1> QED BY <1>2 DEF Shelves!Next

LEMMA InitMaps ==
  ASSUME Init
  PROVE  Calls /\ Shelves!Init
<1>1. Calls
  BY KitchenAssumption DEF Init, Calls, Batch, Progress, Aims, NoCall, Blank
<1>2. \A o \in Owner : ShelfOf(PantryOf(o)) = Shelves!Bare
  BY DEF Init, PantryOf, ShelfOf, Shelves!Bare
<1>3. \A t \in Tab : View(t) = Shelves!Bare
  BY NothingToShow DEF Init
<1>4. \A t \in Tab : Stage(t) = "done"
  BY DEF Init, Stage
<1>5. \A t \in Tab : AbstractCall(t) = Shelves!NoCall
  BY NoCallIs DEF Init
<1> QED BY <1>1, <1>2, <1>3, <1>4, <1>5 DEF Shelves!Init

\* Statements, whatever they read or write, and answers.
LEMMA StatementCalls ==
  ASSUME Inv, Inv', Calls, NEW t \in Tab,
         \/ ListIngredients(t) \/ SetInStock(t) \/ DeleteIngredient(t)
         \/ ListJournal(t) \/ (\E d \in Day : AddJournalEntry(t, d)) \/ DeleteJournalEntry(t)
         \/ LoadIngredients(t) \/ LoadJournal(t) \/ Reply(t) \/ Fails(t)
  PROVE  Calls'
<1>1. lastId' \in Nat /\ lastId \in Nat
  BY Typed DEF Inv, TypeOK
<1>2. lastId' = lastId
  BY DEF ListIngredients, SetInStock, DeleteIngredient, ListJournal, AddJournalEntry,
         DeleteJournalEntry, LoadIngredients, LoadJournal, Reply, Fails, tables
<1>3. CASE SetInStock(t)
  <2>1. /\ rows' = (rows \ Named(t, rows)) \cup {[r EXCEPT !.inStock = call[t].inStock] : r \in Named(t, rows)}
        /\ UNCHANGED lock /\ writer = None /\ ~Begins(t, "add")
    BY <1>3 DEF SetInStock, Commits, Begins
  <2>2. PICK stage, P : stage \in {"reply", "missing"} /\ Goes(t, stage, P, {})
    BY <1>3 DEF SetInStock, Found
  <2>3. \A r \in Named(t, rows) : r \in rows /\ r \in StockRow
    BY Typed DEF Named
  <2>4. \A r \in StockRow : SameMeaning([r EXCEPT !.inStock = call[t].inStock], r) /\ SameMeaning(r, r)
    BY DEF SameMeaning, StockRow
  <2>5. \A r \in rows' : \E s \in rows : SameMeaning(r, s)
    BY <2>1, <2>3, <2>4, Typed
  <2>6. Follows(rows', lastId', rows, lastId)
    BY <1>1, <1>2, <2>5 DEF Follows
  <2> QED BY <1>2, <2>1, <2>2, <2>6, GoesCalls
<1>4. CASE DeleteIngredient(t)
  <2>1. rows' \subseteq rows /\ UNCHANGED lock /\ writer = None /\ ~Begins(t, "add")
    BY <1>4 DEF DeleteIngredient, Commits, Begins
  <2>2. PICK stage \in {"reply", "missing"} : Goes(t, stage, {}, {})
    BY <1>4 DEF DeleteIngredient, Found
  <2>3. Follows(rows', lastId', rows, lastId)
    BY <1>1, <1>2, <2>1 DEF Follows, SameMeaning
  <2> QED BY <1>2, <2>1, <2>2, <2>3, GoesCalls
<1>5. ASSUME rows' = rows
      PROVE  Follows(rows', lastId', rows, lastId)
  BY <1>1, <1>2, <1>5, FollowsItself
<1>6. CASE ListIngredients(t) \/ ListJournal(t) \/ LoadIngredients(t) \/ LoadJournal(t)
  <2>1. rows' = rows /\ UNCHANGED lock /\ ~Begins(t, "add")
    BY <1>6 DEF ListIngredients, ListJournal, LoadIngredients, LoadJournal, tables, Begins
  <2>2. PICK stage, P, J :
           /\ stage \in {"journal", "reply"} /\ (stage = "journal" => call[t].op = "memory")
           /\ Goes(t, stage, P, J)
    BY <1>6 DEF ListIngredients, ListJournal, LoadIngredients, LoadJournal, Begins
  <2> QED BY <1>2, <1>5, <2>1, <2>2, GoesCalls
<1>7. CASE (\E d \in Day : AddJournalEntry(t, d)) \/ DeleteJournalEntry(t)
  <2>1. rows' = rows /\ UNCHANGED lock /\ writer = None /\ ~Begins(t, "add")
    BY <1>7 DEF AddJournalEntry, DeleteJournalEntry, Commits, Begins
  <2>2. PICK stage, J : stage \in {"reply", "missing"} /\ Goes(t, stage, {}, J)
    BY <1>7, JournalGoes
  <2> QED BY <1>2, <1>5, <2>1, <2>2, GoesCalls
<1>8. CASE Reply(t)
  <2>1. PICK status, sees : Answer(t, status, sees)
    BY <1>8 DEF Reply
  <2>2. UNCHANGED tables /\ writer' = writer /\ tx' = tx /\ writer # t
    BY <1>8, WriterAdds DEF Reply, Begins, lock
  <2> QED BY <2>1, <2>2, AnswerCalls
<1>9. CASE Fails(t)
  <2>1. UNCHANGED tables /\ Rollback(t) /\ Answer(t, "failed", Nothing)
    BY <1>9 DEF Fails
  <2>2. \/ writer' = writer /\ tx' = tx /\ writer # t
        \/ writer' = None /\ writer = t
    BY <2>1 DEF Rollback, lock
  <2> QED BY <2>1, <2>2, AnswerCalls
<1> QED BY <1>3, <1>4, <1>6, <1>7, <1>8, <1>9

LEMMA CallsNext ==
  ASSUME Inv, Inv', Calls, [Next]_vars
  PROVE  Calls'
<1>1. CASE UNCHANGED vars
  <2>1. UNCHANGED <<rows, lastId, writer, tx, pc, call, todo>>
    BY <1>1 DEF vars, tables, lock
  <2>2. Batch'
    BY <2>1 DEF Calls, Batch, Stock
  <2>3. ASSUME NEW t \in Tab PROVE Progress(t)' /\ Aims(t)'
    BY <2>1 DEF Calls, Progress, Aims
  <2> QED BY <2>2, <2>3 DEF Calls
<1> QED
  BY <1>1, ArrivalsCalls, InsertCalls, CommitCalls, StatementCalls, CrashCalls DEF Next

\* Every step is a step of the abstract pantry, or none.
LEMMA StepMaps ==
  ASSUME Inv, Inv', Calls, [Next]_vars
  PROVE  [Shelves!Next]_(Shelves!vars)
<1>1. CASE UNCHANGED vars
  <2>1. rows' = rows /\ got' = got /\ pc' = pc /\ call' = call /\ reply' = reply
    BY <1>1 DEF vars, tables
  <2>2. \A u \in Tab : /\ Stage(u)' = Stage(u) /\ AbstractCall(u)' = AbstractCall(u)
                       /\ View(u)' = View(u)
    BY <2>1, Beside, ViewStays
  <2> QED BY <2>1, <2>2, ShelvesStay DEF Shelves!vars
<1>2. ASSUME NEW t \in Tab, NEW o \in Owner,
             ArrivePlain(t, o) \/ ArriveAdd(t, o) \/ ArriveRow(t, o) \/ ArriveUnlog(t, o)
      PROVE  Shelves!Next
  BY <1>2, ArrivalsCalls, ArriveMaps, TakesOn
<1>3. ASSUME NEW t \in Tab,
             \/ InsertName(t) \/ CommitNames(t) \/ ListIngredients(t)
             \/ SetInStock(t) \/ DeleteIngredient(t)
             \/ ListJournal(t) \/ (\E d \in Day : AddJournalEntry(t, d)) \/ DeleteJournalEntry(t)
             \/ LoadIngredients(t) \/ LoadJournal(t)
             \/ Reply(t) \/ Fails(t)
      PROVE  Shelves!Next \/ UNCHANGED Shelves!vars
  <2>1. CASE InsertName(t)
    BY <2>1, InsertMaps
  <2>2. CASE CommitNames(t)
    BY <2>2, CommitMaps, TakesOn
  <2>3. CASE ListIngredients(t)
    BY <2>3, ListMaps, TakesOn
  <2>4. CASE SetInStock(t)
    BY <2>4, SwitchMaps, TakesOn
  <2>5. CASE DeleteIngredient(t)
    BY <2>5, DropMaps, TakesOn
  <2>6. CASE LoadIngredients(t)
    BY <2>6, LoadMaps, TakesOn
  <2>7. CASE Fails(t)
    BY <2>7, FailsMaps DEF Shelves!Next
  <2>8. CASE ListJournal(t) \/ (\E d \in Day : AddJournalEntry(t, d)) \/ DeleteJournalEntry(t) \/ LoadJournal(t)
    BY <2>8, JournalMaps
  <2>9. CASE Reply(t)
    BY <2>9, ReplyMaps, TakesOn
  <2> QED BY <1>3, <2>1, <2>2, <2>3, <2>4, <2>5, <2>6, <2>7, <2>8, <2>9
<1>4. CASE Crash
  BY <1>4, CrashMaps DEF Shelves!Next
<1> QED BY <1>1, <1>2, <1>3, <1>4 DEF Next

-----------------------------------------------------------------------------
(* Theorems                                                                 *)

\* The variables keep their types; names are in lower case wherever they are kept.
THEOREM TypeCorrect == Spec => []TypeOK
<1>1. Inv => TypeOK
  BY DEF Inv
<1> QED BY <1>1, SpecInv, PTL

\* Whatever is deleted, rolled back or crashes in between, an id that a client has
\* been shown means what it was shown as, or nothing.
THEOREM IdsKeepTheirMeaningHolds == Spec => []IdsKeepTheirMeaning
<1>1. Inv => IdsKeepTheirMeaning
  BY DEF Inv, ShownMeans, Means, MeansEntry, IdsKeepTheirMeaning
<1> QED BY <1>1, SpecInv, PTL

\* However an ingredient is typed and whoever adds it meanwhile, it is there once.
THEOREM SameIngredientOnceHolds == Spec => []SameIngredientOnce
<1>1. Inv => SameIngredientOnce
  BY KitchenAssumption DEF Inv, Table, StockRow, SameIngredientOnce
<1> QED BY <1>1, SpecInv, PTL

\* However the statements of the tabs fall between each other, and whichever of them
\* fail, every call changes its account's shelf in one step or not at all, and shows
\* a shelf that was there: the pantry implements Pantry.
THEOREM RefinesPantryHolds == Spec => RefinesPantry
<1>1. Init => Inv /\ Calls /\ Shelves!Init
  BY InitInv, InitMaps
<1>2. Inv /\ Calls /\ [Next]_vars => Inv' /\ Calls'
  BY NextInv, CallsNext
<1>3. Inv /\ Calls /\ [Next]_vars => [Shelves!Next]_(Shelves!vars)
  BY NextInv, StepMaps
<1> QED BY <1>1, <1>2, <1>3, PTL DEF Spec, RefinesPantry, Shelves!Spec

-----------------------------------------------------------------------------
(* What LIMIT takes                                                         *)

\* Entries without a double id are in one order, latest first.
LEMMA BeforeOrders ==
  ASSUME NEW E, E \subseteq Entry, \A e, f \in E : e.id = f.id => e = f
  PROVE  /\ \A e \in E : ~Before(e, e)
         /\ \A e, f \in E : e # f => Before(e, f) \/ Before(f, e)
         /\ \A e, f, g \in E : Before(e, f) /\ Before(f, g) => Before(e, g)
<1>1. \A e \in E : e.id \in Nat /\ e.cookedOn \in Nat
  BY KitchenAssumption DEF Entry
<1> QED BY <1>1 DEF Before

Ahead(E, e) == {f \in E : Before(f, e)}

\* The place of an entry in that order.
LEMMA Places ==
  ASSUME NEW E, IsFiniteSet(E), E \subseteq Entry, \A e, f \in E : e.id = f.id => e = f
  PROVE  /\ \A e \in E : Cardinality(Ahead(E, e)) \in 0 .. Cardinality(E) - 1
         /\ \A e, f \in E : Before(e, f) => Cardinality(Ahead(E, e)) < Cardinality(Ahead(E, f))
<1>1. Cardinality(E) \in Nat
  BY FS_CardinalityType
<1>2. ASSUME NEW e \in E
      PROVE  IsFiniteSet(Ahead(E, e)) /\ Cardinality(Ahead(E, e)) \in 0 .. Cardinality(E) - 1
  <2>1. Ahead(E, e) \subseteq E \ {e}
    BY BeforeOrders DEF Ahead
  <2>2. IsFiniteSet(E \ {e}) /\ Cardinality(E \ {e}) = Cardinality(E) - 1
    BY FS_RemoveElement
  <2>3. IsFiniteSet(Ahead(E, e)) /\ Cardinality(Ahead(E, e)) <= Cardinality(E \ {e})
    BY <2>1, <2>2, FS_Subset
  <2>4. Cardinality(Ahead(E, e)) \in Nat
    BY <2>3, FS_CardinalityType
  <2> QED BY <1>1, <2>2, <2>3, <2>4
<1>3. ASSUME NEW e \in E, NEW f \in E, Before(e, f)
      PROVE  Cardinality(Ahead(E, e)) < Cardinality(Ahead(E, f))
  <2>1. e \notin Ahead(E, e) /\ Ahead(E, e) \cup {e} \subseteq Ahead(E, f)
    BY <1>3, BeforeOrders DEF Ahead
  <2>2. Cardinality(Ahead(E, e) \cup {e}) = Cardinality(Ahead(E, e)) + 1
    BY <1>2, <2>1, FS_AddElement
  <2>3. Cardinality(Ahead(E, e) \cup {e}) <= Cardinality(Ahead(E, f))
    BY <1>2, <2>1, FS_Subset
  <2> QED BY <1>2, <2>2, <2>3
<1> QED BY <1>2, <1>3

\* Every place is taken.
LEMMA PlacesTaken ==
  ASSUME NEW E, IsFiniteSet(E), E \subseteq Entry, \A e, f \in E : e.id = f.id => e = f
  PROVE  \A i \in 0 .. Cardinality(E) - 1 : \E e \in E : Cardinality(Ahead(E, e)) = i
<1> DEFINE place == [e \in E |-> Cardinality(Ahead(E, e))]
           n == Cardinality(E)
<1>1. n \in Nat
  BY FS_CardinalityType
<1>2. place \in [E -> 0 .. n - 1]
  BY Places
<1>3. \A e, f \in E : place[e] = place[f] => e = f
  BY <1>1, Places, BeforeOrders
<1>4. place \in Injection(E, 0 .. n - 1)
  BY <1>2, <1>3, Fun_IsInj
<1>5. IsFiniteSet(0 .. n - 1) /\ Cardinality(0 .. n - 1) = n
  BY <1>1, FS_Interval
<1>6. place \in Surjection(E, 0 .. n - 1)
  BY <1>4, <1>5, FS_Injection
<1> QED BY <1>6 DEF Surjection

\* The LIMIT latest of E.
Latest(E, limit) == {e \in E : Cardinality(Ahead(E, e)) < limit}

\* LIMIT takes the latest entries: as many as it allows, or all, and none that is
\* left out comes before one that is taken.
LEMMA LimitTakesLatest ==
  ASSUME NEW E, IsFiniteSet(E), E \subseteq Entry, \A e, f \in E : e.id = f.id => e = f,
         NEW limit \in Nat
  PROVE  /\ \A e \in Latest(E, limit), f \in E \ Latest(E, limit) : Before(e, f)
         /\ Latest(E, limit) = E \/ Cardinality(Latest(E, limit)) = limit
<1> DEFINE L == Latest(E, limit)
<1>1. Cardinality(E) \in Nat /\ L \subseteq E
  BY FS_CardinalityType DEF Latest
<1>2. \A e \in L, f \in E \ L : Before(e, f)
  <2> SUFFICES ASSUME NEW e \in L, NEW f \in E \ L, ~Before(e, f) PROVE FALSE
    OBVIOUS
  <2>1. Before(f, e)
    BY <1>1, BeforeOrders
  <2>2. Cardinality(Ahead(E, f)) < Cardinality(Ahead(E, e))
    BY <1>1, <2>1, Places
  <2>3. Cardinality(Ahead(E, e)) \in Nat /\ Cardinality(Ahead(E, f)) \in Nat
    BY <1>1, Places
  <2> QED BY <2>2, <2>3 DEF Latest
<1>3. CASE limit >= Cardinality(E)
  <2>1. L = E
    BY <1>1, <1>3, Places DEF Latest
  <2> QED BY <1>2, <2>1
<1>4. CASE limit < Cardinality(E)
  <2> DEFINE place == [e \in L |-> Cardinality(Ahead(E, e))]
  <2>1. place \in [L -> 0 .. limit - 1]
    BY <1>1, Places DEF Latest
  <2>2. \A e, f \in L : place[e] = place[f] => e = f
    BY <1>1, Places, BeforeOrders
  <2>3. place \in Injection(L, 0 .. limit - 1)
    BY <2>1, <2>2, Fun_IsInj
  <2>4. \A i \in 0 .. limit - 1 : \E e \in L : place[e] = i
    <3> SUFFICES ASSUME NEW i \in 0 .. limit - 1 PROVE \E e \in L : place[e] = i
      OBVIOUS
    <3>1. i \in 0 .. Cardinality(E) - 1
      BY <1>1, <1>4
    <3>2. PICK e \in E : Cardinality(Ahead(E, e)) = i
      BY <3>1, PlacesTaken
    <3>3. e \in L
      BY <3>2 DEF Latest
    <3> QED BY <3>2, <3>3
  <2>5. place \in Surjection(L, 0 .. limit - 1)
    BY <2>1, <2>4 DEF Surjection
  <2>6. IsFiniteSet(L)
    BY <1>1, FS_Subset
  <2>7. Cardinality(0 .. limit - 1) = limit
    BY FS_Interval
  <2>8. Cardinality(0 .. limit - 1) = Cardinality(L)
    BY <2>3, <2>5, <2>6, FS_Surjection
  <2> QED BY <1>2, <2>7, <2>8
<1> QED BY <1>1, <1>3, <1>4

\* The journal's ids are below its counter.
LEMMA EntriesFinite ==
  ASSUME Inv
  PROVE  IsFiniteSet(entries)
<1> DEFINE number == [e \in entries |-> e.id]
<1>1. /\ lastEntry \in Nat /\ \A e \in entries : e.id \in 0 .. lastEntry
      /\ \A e, f \in entries : e.id = f.id => e = f
  BY DEF Inv, TypeOK, Journal, Entry
<1>2. number \in [entries -> 0 .. lastEntry] /\ \A e, f \in entries : number[e] = number[f] => e = f
  BY <1>1
<1>3. number \in Injection(entries, 0 .. lastEntry)
  BY <1>2, Fun_IsInj
<1> QED BY <1>1, <1>3, FS_Interval, FS_Injection

\* What a SELECT of the journal returns.
LEMMA JournalIsLatest ==
  ASSUME Inv, NEW o, NEW limit \in Nat
  PROVE  LET own == {e \in entries : e.owner = o}
             read == JournalOf(o, limit)
         IN  /\ read \subseteq own
             /\ \A e \in read, f \in own \ read : Before(e, f)
             /\ read = own \/ Cardinality(read) = limit
<1> DEFINE own == {e \in entries : e.owner = o}
<1>1. IsFiniteSet(own) /\ own \subseteq Entry /\ \A e, f \in own : e.id = f.id => e = f
  BY EntriesFinite, FS_Subset DEF Inv, TypeOK, Journal
<1>2. JournalOf(o, limit) = Latest(own, limit)
  BY DEF JournalOf, Latest, Ahead
<1> HIDE DEF own
<1>3. /\ \A e \in Latest(own, limit), f \in own \ Latest(own, limit) : Before(e, f)
      /\ Latest(own, limit) = own \/ Cardinality(Latest(own, limit)) = limit
  BY <1>1, LimitTakesLatest
<1>4. Latest(own, limit) \subseteq own
  BY DEF Latest
<1> QED BY <1>2, <1>3, <1>4 DEF own

-----------------------------------------------------------------------------
(* What a message has read, and what has changed since                      *)

\* Fresh so far: the pantry from the first read on, the journal from the second.
Fresh ==
    \A t \in Tab : call[t].op = "memory" =>
       /\ pc[t] \in {"journal", "reply"} => PantryFresh(t)
       /\ pc[t] = "reply" => JournalFresh(t)

\* A tab that a step is not about, but for what the step changes.
Bystands(t) ==
    /\ pc'[t] = pc[t] /\ call'[t] = call[t] /\ got'[t] = got[t]
    /\ Missed(t, {"journal", "reply"}, rows, rows') \cup changed[t].pantry \subseteq changed'[t].pantry
    /\ Missed(t, {"reply"}, entries, entries') \cup changed[t].journal \subseteq changed'[t].journal

\* What is not touched is there before and after, or neither.
LEMMA Untouched ==
  ASSUME NEW old, NEW new, NEW x, x.id \notin Touched(old, new)
  PROVE  x \in old <=> x \in new
BY DEF Touched

LEMMA FreshPantryStays ==
  ASSUME NEW t, got'[t].pantry = got[t].pantry, call'[t] = call[t], PantryFresh(t),
         Touched(rows, rows') \cup changed[t].pantry \subseteq changed'[t].pantry
  PROVE  PantryFresh(t)'
<1>1. PICK o, held, before, after :
         o = call[t].owner /\ held = got[t].pantry /\ before = changed[t].pantry /\ after = changed'[t].pantry
  OBVIOUS
<1>2. \A r \in held \cup {q \in rows : q.owner = o} :
         r.id \notin before => r \in held /\ r \in {q \in rows : q.owner = o}
  BY <1>1 DEF PantryFresh, PantryOf
<1>3. ASSUME NEW r \in held \cup {q \in rows' : q.owner = o}, r.id \notin after
      PROVE  r \in held /\ r \in {q \in rows' : q.owner = o}
  <2>1. r.id \notin before /\ (r \in rows <=> r \in rows')
    BY <1>1, <1>3, Untouched
  <2> QED BY <1>2, <1>3, <2>1
<1> QED BY <1>1, <1>3 DEF PantryFresh, PantryOf

LEMMA FreshJournalStays ==
  ASSUME NEW t, got'[t].journal = got[t].journal, call'[t] = call[t], JournalFresh(t),
         Touched(entries, entries') \cup changed[t].journal \subseteq changed'[t].journal
  PROVE  JournalFresh(t)'
<1>1. PICK o, held, before, after :
         o = call[t].owner /\ held = got[t].journal /\ before = changed[t].journal /\ after = changed'[t].journal
  OBVIOUS
<1> DEFINE Old(E, ids) == {e \in E : e.owner = o /\ e.id \notin ids}
<1>2. /\ \A e \in held : e.id \notin before => e \in Old(entries, before)
      /\ \A e \in Old(entries, before) \ held : Cardinality({f \in held : Before(f, e)}) >= MemoryEntries
  BY <1>1 DEF JournalFresh
<1>3. \A e : e.id \notin after => e.id \notin before /\ (e \in entries <=> e \in entries')
  BY <1>1, Untouched
<1>4. /\ \A e \in held : e.id \notin after => e \in Old(entries', after)
      /\ \A e \in Old(entries', after) \ held : Cardinality({f \in held : Before(f, e)}) >= MemoryEntries
  BY <1>2, <1>3
<1>5. got'[t].journal = held /\ call'[t].owner = o /\ changed'[t].journal = after
  BY <1>1
<1>6. JournalFresh(t)' <=>
        /\ \A e \in held : e.id \notin after => e \in Old(entries', after)
        /\ \A e \in Old(entries', after) \ held : Cardinality({f \in held : Before(f, e)}) >= MemoryEntries
  BY <1>5 DEF JournalFresh, Before
<1> QED BY <1>4, <1>6

LEMMA BystandersStayFresh ==
  ASSUME Fresh, NEW t \in Tab, Bystands(t), call'[t].op = "memory"
  PROVE  /\ pc'[t] \in {"journal", "reply"} => PantryFresh(t)'
         /\ pc'[t] = "reply" => JournalFresh(t)'
<1>1. /\ call[t].op = "memory" /\ pc'[t] = pc[t] /\ call'[t] = call[t]
      /\ got'[t].pantry = got[t].pantry /\ got'[t].journal = got[t].journal
      /\ pc[t] \in {"journal", "reply"} =>
            Touched(rows, rows') \cup changed[t].pantry \subseteq changed'[t].pantry
      /\ pc[t] = "reply" =>
            Touched(entries, entries') \cup changed[t].journal \subseteq changed'[t].journal
  BY DEF Bystands, Missed
<1>2. CASE pc[t] \in {"journal", "reply"}
  BY <1>1, <1>2, FreshPantryStays, FreshJournalStays DEF Fresh
<1> QED BY <1>1, <1>2

\* A statement that commits is noted, one that reads changes nothing.
LEMMA ReadsBystand ==
  ASSUME NEW t, UNCHANGED tables, changed'[t] = changed[t],
         pc'[t] = pc[t], call'[t] = call[t], got'[t] = got[t]
  PROVE  Bystands(t)
<1>1. Touched(rows, rows') = {} /\ Touched(entries, entries') = {}
  BY DEF Touched, tables
<1>2. \A S : Missed(t, S, rows, rows') = {} /\ Missed(t, S, entries, entries') = {}
  BY <1>1 DEF Missed
<1> QED BY <1>2 DEF Bystands

LEMMA CommitsBystand ==
  ASSUME Inv, NEW t \in Tab, NEW R, NEW E, Commits(R, E),
         pc'[t] = pc[t], call'[t] = call[t], got'[t] = got[t]
  PROVE  Bystands(t)
<1>1. /\ rows' = R /\ entries' = E
      /\ changed'[t] =
            [pantry |-> changed[t].pantry \cup Missed(t, {"journal", "reply"}, rows, R),
             journal |-> changed[t].journal \cup Missed(t, {"reply"}, entries, E)]
  BY DEF Commits
<1> QED BY <1>1 DEF Bystands

LEMMA StatementsStand ==
  ASSUME Inv, NEW t \in Tab, NEW u \in Tab \ {t},
         \/ InsertName(t) \/ CommitNames(t) \/ ListIngredients(t)
         \/ SetInStock(t) \/ DeleteIngredient(t)
         \/ ListJournal(t) \/ (\E d \in Day : AddJournalEntry(t, d)) \/ DeleteJournalEntry(t)
         \/ LoadIngredients(t) \/ LoadJournal(t) \/ Reply(t) \/ Fails(t)
  PROVE  Bystands(u)
<1>1. ASSUME NEW stage, NEW P, NEW J, Goes(t, stage, P, J)
      PROVE  pc'[u] = pc[u] /\ call'[u] = call[u] /\ got'[u] = got[u]
  BY <1>1 DEF Goes, Inv, TypeOK
<1>2. CASE InsertName(t)
  BY <1>2, ReadsBystand DEF InsertName
<1>3. CASE CommitNames(t) \/ SetInStock(t) \/ DeleteIngredient(t) \/ DeleteJournalEntry(t)
  <2>1. PICK R, E, stage, P, J : Commits(R, E) /\ Goes(t, stage, P, J)
    BY <1>3 DEF CommitNames, SetInStock, DeleteIngredient, DeleteJournalEntry
  <2> QED BY <1>1, <2>1, CommitsBystand
<1>4. ASSUME NEW d \in Day, AddJournalEntry(t, d)
      PROVE  Bystands(u)
  <2>1. PICK R, E, stage, P, J : Commits(R, E) /\ Goes(t, stage, P, J)
    BY <1>4 DEF AddJournalEntry
  <2> QED BY <1>1, <2>1, CommitsBystand
<1>5. CASE ListIngredients(t) \/ ListJournal(t) \/ LoadIngredients(t) \/ LoadJournal(t)
  <2>1. UNCHANGED <<tables, changed>>
    BY <1>5 DEF ListIngredients, ListJournal, LoadIngredients, LoadJournal
  <2>2. PICK stage, P, J : Goes(t, stage, P, J)
    BY <1>5 DEF ListIngredients, ListJournal, LoadIngredients, LoadJournal
  <2> QED BY <1>1, <2>1, <2>2, ReadsBystand
<1>6. CASE Reply(t) \/ Fails(t)
  <2>1. UNCHANGED tables
    BY <1>6 DEF Reply, Fails
  <2>2. PICK status, sees : Answer(t, status, sees)
    BY <1>6 DEF Reply, Fails
  <2>3. pc'[u] = pc[u] /\ call'[u] = call[u] /\ got'[u] = got[u] /\ changed'[u] = changed[u]
    BY <2>2 DEF Answer, Inv, TypeOK
  <2> QED BY <2>1, <2>3, ReadsBystand
<1> QED BY <1>2, <1>3, <1>4, <1>5, <1>6

\* The two reads of a memory, as they are made.
LEMMA LoadsFresh ==
  ASSUME Inv, NEW t \in Tab, LoadIngredients(t)
  PROVE  pc'[t] = "journal" /\ PantryFresh(t)'
<1>1. Goes(t, "journal", PantryOf(call[t].owner), {}) /\ rows' = rows
  BY DEF LoadIngredients, tables
<1>2. pc'[t] = "journal" /\ got'[t].pantry = PantryOf(call[t].owner) /\ call' = call
  BY <1>1, Going
<1> QED BY <1>1, <1>2 DEF PantryFresh, PantryOf

LEMMA LoadsLatest ==
  ASSUME Inv, Fresh, NEW t \in Tab, LoadJournal(t), call[t].op = "memory"
  PROVE  PantryFresh(t)' /\ JournalFresh(t)'
<1>1. PICK o, read : o = call[t].owner /\ read = JournalOf(o, MemoryEntries)
  OBVIOUS
<1>2. /\ Goes(t, "reply", got[t].pantry, read) /\ pc[t] = "journal"
      /\ UNCHANGED <<tables, changed>>
  BY <1>1 DEF LoadJournal
<1>3. got'[t].pantry = got[t].pantry /\ got'[t].journal = read /\ call' = call
  BY <1>2 DEF Goes, Inv, TypeOK
<1>4. MemoryEntries \in Nat
  BY KitchenAssumption
<1> DEFINE all == {e \in entries : e.owner = o}
<1>5. /\ read \subseteq all
      /\ \A e \in read, f \in all \ read : Before(e, f)
      /\ read = all \/ Cardinality(read) = MemoryEntries
  BY <1>1, <1>4, JournalIsLatest
<1>6. ASSUME NEW e \in all \ read
      PROVE  Cardinality({f \in read : Before(f, e)}) >= MemoryEntries
  <2>1. {f \in read : Before(f, e)} = read
    BY <1>5
  <2> QED BY <1>4, <1>5, <2>1
<1>7. JournalFresh(t)'
  <2>1. call'[t].owner = o /\ entries' = entries
    BY <1>1, <1>2, <1>3 DEF tables
  <2>2. PICK ids : ids = changed'[t].journal
    OBVIOUS
  <2> DEFINE old == {e \in entries : e.owner = o /\ e.id \notin ids}
  <2>3. /\ \A e \in read : e.id \notin ids => e \in old
        /\ \A e \in old \ read : Cardinality({f \in read : Before(f, e)}) >= MemoryEntries
    BY <1>5, <1>6
  <2>4. JournalFresh(t)' <=> /\ \A e \in read : e.id \notin ids => e \in old
                             /\ \A e \in old \ read : Cardinality({f \in read : Before(f, e)}) >= MemoryEntries
    BY <1>3, <2>1, <2>2 DEF JournalFresh, Before
  <2> QED BY <2>3, <2>4
<1>8. PantryFresh(t)'
  <2>1. PantryFresh(t)
    BY <1>2 DEF Fresh
  <2>2. Touched(rows, rows') \cup changed[t].pantry \subseteq changed'[t].pantry
    BY <1>2 DEF Touched, tables
  <2> QED BY <1>3, <2>1, <2>2, FreshPantryStays
<1> QED BY <1>7, <1>8

LEMMA FreshNext ==
  ASSUME Inv, Calls, Fresh, [Next]_vars
  PROVE  Fresh'
<1> DEFINE FreshFor(t) ==
      call[t].op = "memory" => /\ pc[t] \in {"journal", "reply"} => PantryFresh(t)
                               /\ pc[t] = "reply" => JournalFresh(t)
<1>1. ASSUME \A t \in Tab : FreshFor(t)'
      PROVE  Fresh'
  BY <1>1 DEF Fresh
<1>2. \A t \in Tab : Bystands(t) => FreshFor(t)'
  BY BystandersStayFresh
<1>3. \A t \in Tab : pc'[t] \notin {"journal", "reply"} \/ call'[t].op # "memory" => FreshFor(t)'
  OBVIOUS
<1> HIDE DEF FreshFor
<1>4. CASE UNCHANGED vars
  <2>1. \A t \in Tab : Bystands(t)
    BY <1>4, ReadsBystand DEF vars
  <2> QED BY <1>1, <1>2, <2>1
<1>5. ASSUME NEW t \in Tab, NEW c, Arrive(t, c)
      PROVE  Fresh'
  <2>1. pc'[t] = "begin" /\ \A u \in Tab \ {t} : Bystands(u)
    BY <1>5, ReadsBystand DEF Arrive, Inv, TypeOK
  <2> QED BY <1>1, <1>2, <1>3, <2>1
<1>6. ASSUME NEW t \in Tab,
             \/ InsertName(t) \/ CommitNames(t) \/ ListIngredients(t)
             \/ SetInStock(t) \/ DeleteIngredient(t)
             \/ ListJournal(t) \/ (\E d \in Day : AddJournalEntry(t, d)) \/ DeleteJournalEntry(t)
             \/ LoadIngredients(t) \/ LoadJournal(t) \/ Reply(t) \/ Fails(t)
      PROVE  Fresh'
  <2>1. \A u \in Tab \ {t} : FreshFor(u)'
    BY <1>2, <1>6, StatementsStand
  <2>2. CASE Reply(t) \/ Fails(t)
    <3>1. pc'[t] = "idle"
      BY <2>2 DEF Reply, Fails, Answer, Inv, TypeOK
    <3> QED BY <1>1, <1>3, <2>1, <3>1
  <2>3. CASE InsertName(t)
    <3>1. pc'[t] = "begin"
      BY <2>3 DEF InsertName, Begins
    <3> QED BY <1>1, <1>3, <2>1, <3>1
  <2>4. CASE LoadIngredients(t)
    <3>1. FreshFor(t)'
      BY <2>4, LoadsFresh DEF FreshFor
    <3> QED BY <1>1, <2>1, <3>1
  <2>5. CASE LoadJournal(t)
    <3>1. call[t].op = "memory" /\ call' = call
      BY <2>5 DEF LoadJournal, Goes, Calls, Progress
    <3>2. FreshFor(t)'
      BY <2>5, <3>1, LoadsLatest DEF FreshFor
    <3> QED BY <1>1, <2>1, <3>2
  <2>6. CASE \/ CommitNames(t) \/ ListIngredients(t) \/ SetInStock(t) \/ DeleteIngredient(t)
             \/ ListJournal(t) \/ (\E d \in Day : AddJournalEntry(t, d)) \/ DeleteJournalEntry(t)
    <3>1. call[t].op # "memory"
      BY <2>6 DEF CommitNames, ListIngredients, SetInStock, DeleteIngredient, ListJournal,
                  AddJournalEntry, DeleteJournalEntry, Begins, Calls, Progress
    <3>2. call' = call
      BY <2>6 DEF CommitNames, ListIngredients, SetInStock, DeleteIngredient, ListJournal,
                  AddJournalEntry, DeleteJournalEntry, Goes
    <3> QED BY <1>1, <1>3, <2>1, <3>1, <3>2
  <2> QED BY <1>6, <2>2, <2>3, <2>4, <2>5, <2>6
<1>7. CASE Crash
  <2>1. \A t \in Tab : pc'[t] = "idle"
    BY <1>7 DEF Crash
  <2> QED BY <1>1, <1>3, <2>1
<1> QED BY <1>4, <1>5, <1>6, <1>7 DEF Next, ArrivePlain, ArriveAdd, ArriveRow, ArriveUnlog

\* However calls fall before, between and after the two reads of a memory, what goes to
\* the model is the pantry and the latest dishes of the account, but for what was
\* committed after it was read.
THEOREM MemoryIsFreshHolds == Spec => []MemoryIsFresh
<1>1. Init => Inv /\ Calls /\ Fresh
  BY InitInv, InitMaps DEF Init, Fresh
<1>2. Inv /\ Calls /\ Fresh /\ [Next]_vars => Inv' /\ Calls' /\ Fresh'
  BY NextInv, CallsNext, FreshNext
<1>3. Fresh => MemoryIsFresh
  BY DEF Fresh, MemoryIsFresh
<1> QED BY <1>1, <1>2, <1>3, PTL DEF Spec

=============================================================================
