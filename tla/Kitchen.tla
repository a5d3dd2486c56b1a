------------------------------ MODULE Kitchen -------------------------------
(***************************************************************************)
(* The pantry and the journal: internal/store/{pantry,journal}.go, the     *)
(* handlers of internal/api over them, and loadMemory, which reads both    *)
(* for each message that is sent to the model.                             *)
(*                                                                         *)
(* A step is one SQL statement, which reads one snapshot of what is        *)
(* committed, or the commit of addIngredients, or the answer: between what *)
(* is committed and the answer the client may leave, the process may die,  *)
(* and others go on.  SQLite has one writer at a time: `writer`, with its  *)
(* uncommitted rows in `tx`.  A tab is a client that makes one call after  *)
(* the other, for whatever account it is signed in to.  It names           *)
(* ingredients and entries by ids it has been shown.                       *)
(***************************************************************************)
EXTENDS Integers, FiniteSets

CONSTANTS
    Owner,          \* accounts
    Word,           \* ingredient names as they are typed
    Name,           \* those of them that are in lower case
    Lower,          \* strings.ToLower of each
    Day,            \* dates a dish may be logged under
    Tab,            \* clients
    None,           \* no tab, no account
    ListEntries,    \* journalListLimit
    MemoryEntries,  \* memoryJournalEntries
    MaxIds          \* bound: ids ever drawn, for ingredients and entries together

ASSUME KitchenAssumption ==
    /\ Owner # {}
    /\ Name \subseteq Word
    /\ Lower \in [Word -> Name]
    /\ \A n \in Name : Lower[n] = n
    /\ None \notin Tab \cup Owner
    /\ Day \subseteq Nat
    /\ {ListEntries, MemoryEntries, MaxIds} \subseteq Nat

VARIABLES
    rows,       \* table ingredients
    lastId,     \* its AUTOINCREMENT counter
    entries,    \* table journal
    lastEntry,  \* its AUTOINCREMENT counter
    writer,     \* the tab whose transaction holds the write lock, or None
    tx,         \* its uncommitted rows and counter
    pc,         \* where each tab's handler is; "idle": it has none
    call,       \* what each tab asks for, or asked for last
    todo,       \* names that addIngredients has still to insert
    got,        \* the rows and entries that the handler has to answer with
    reply,      \* how the last call ended; "none": not yet
    shown,      \* the rows and entries an account has ever been shown
    changed     \* ids of what has changed since the tab's message read it

tables == <<rows, lastId, entries, lastEntry>>
lock == <<writer, tx>>
vars == <<tables, lock, pc, call, todo, got, reply, shown, changed>>

-----------------------------------------------------------------------------
Row == [id : Nat, owner : Owner, name : Word, inStock : BOOLEAN]

Entry == [id : Nat, owner : Owner, cookedOn : Day]

Ops == {"list", "add", "switch", "delete", "journal", "log", "unlog", "memory"}

\* id: what a switch, delete or unlog is about; names: what an add lists, or what
\* the id was shown as to this account, which may be nothing at all.
Call == [owner : Owner \cup {None}, op : Ops, names : SUBSET Word, id : Nat,
         inStock : BOOLEAN]

Blank(o, op) == [owner |-> o, op |-> op, names |-> {}, id |-> 0, inStock |-> TRUE]

\* Of a tab that waits for nothing.
NoCall == Blank(None, "journal")

Nothing == [pantry |-> {}, journal |-> {}]

NoWrites == [rows |-> {}, lastId |-> 0]

Init ==
    /\ rows = {} /\ lastId = 0
    /\ entries = {} /\ lastEntry = 0
    /\ writer = None
    /\ tx = NoWrites
    /\ pc = [t \in Tab |-> "idle"]
    /\ call = [t \in Tab |-> NoCall]
    /\ todo = [t \in Tab |-> {}]
    /\ got = [t \in Tab |-> Nothing]
    /\ reply = [t \in Tab |-> "ok"]
    /\ shown = [o \in Owner |-> Nothing]
    /\ changed = [t \in Tab |-> Nothing]

-----------------------------------------------------------------------------
(* Calls arriving                                                           *)

\* Names are kept as they are typed.
NamesAsTyped(words) == words

\* parseIngredientNames: "Milk" and "milk" are one ingredient.
Names(words) == {Lower[w] : w \in words}

Arrive(t, c) ==
    /\ pc[t] = "idle"
    /\ pc' = [pc EXCEPT ![t] = "begin"]
    /\ call' = [call EXCEPT ![t] = c]
    /\ todo' = [todo EXCEPT ![t] = IF c.op = "add" THEN c.names ELSE {}]
    /\ reply' = [reply EXCEPT ![t] = "none"]
    /\ UNCHANGED <<tables, lock, got, shown, changed>>

ArrivePlain(t, o) ==
    \E op \in {"list", "journal", "memory", "log"} : Arrive(t, Blank(o, op))

ArriveAdd(t, o) ==
    \E names \in {Names(words) : words \in (SUBSET Word) \ {{}}} :
       Arrive(t, [Blank(o, "add") EXCEPT !.names = names])

\* A switch or a delete of a row that somebody has been shown.
ArriveRow(t, o) ==
    \E id \in UNION {{row.id : row \in shown[p].pantry} : p \in Owner} :
       LET names == {row.name : row \in {s \in shown[o].pantry : s.id = id}}
       IN  \/ Arrive(t, [Blank(o, "delete") EXCEPT !.id = id, !.names = names])
           \/ \E stock \in BOOLEAN :
                 Arrive(t, [Blank(o, "switch") EXCEPT !.id = id, !.names = names, !.inStock = stock])

ArriveUnlog(t, o) ==
    \E id \in UNION {{e.id : e \in shown[p].journal} : p \in Owner} :
       Arrive(t, [Blank(o, "unlog") EXCEPT !.id = id])

-----------------------------------------------------------------------------
(* Statements and answers                                                   *)

\* The handler goes on, with what its statement returned.
Goes(t, stage, pantry, journal) ==
    /\ pc' = [pc EXCEPT ![t] = stage]
    /\ got' = [got EXCEPT ![t] = [pantry |-> pantry, journal |-> journal]]
    /\ UNCHANGED <<call, todo, reply, shown>>

\* The ids of what a statement adds, alters or deletes.
Touched(old, new) == {x.id : x \in (old \ new) \cup (new \ old)}

\* What changes in a table that a message has read, being at one of these stages.
Missed(t, stages, old, new) ==
    IF call[t].op = "memory" /\ pc[t] \in stages THEN Touched(old, new) ELSE {}

\* A message that has read its pantry, or both, does not learn of what is now committed.
Commits(newRows, newEntries) ==
    /\ rows' = newRows
    /\ entries' = newEntries
    /\ changed' = [t \in Tab |->
          [pantry |-> changed[t].pantry \cup Missed(t, {"journal", "reply"}, rows, newRows),
           journal |-> changed[t].journal \cup Missed(t, {"reply"}, entries, newEntries)]]

\* The handler ends and nothing is left of its call; what the answer carries is
\* shown to its account.
Answer(t, status, sees) ==
    /\ pc' = [pc EXCEPT ![t] = "idle"]
    /\ call' = [call EXCEPT ![t] = NoCall]
    /\ todo' = [todo EXCEPT ![t] = {}]
    /\ got' = [got EXCEPT ![t] = Nothing]
    /\ reply' = [reply EXCEPT ![t] = status]
    /\ changed' = [changed EXCEPT ![t] = Nothing]
    /\ shown' = [shown EXCEPT ![call[t].owner] =
                    [pantry |-> @.pantry \cup {[id |-> r.id, name |-> r.name] : r \in sees.pantry},
                     journal |-> @.journal \cup sees.journal]]

\* The memory is for the model alone to see.
Reply(t) ==
    /\ pc[t] \in {"reply", "missing"}
    /\ Answer(t, IF pc[t] = "missing" THEN "404" ELSE "ok",
              IF call[t].op = "memory" THEN Nothing ELSE got[t])
    /\ UNCHANGED <<tables, lock>>

Begins(t, op) == pc[t] = "begin" /\ call[t].op = op

-----------------------------------------------------------------------------
(* The pantry                                                               *)

\* Without AUTOINCREMENT a new row takes the id after the largest in the table.
NextIdAfterMax(table, last) ==
    IF table = {} THEN 1 ELSE (CHOOSE r \in table : \A s \in table : s.id <= r.id).id + 1

\* AUTOINCREMENT: an id above every id the table ever held.
NextId(table, last) == last + 1

\* ON CONFLICT (owner, name) DO UPDATE SET in_stock = 1.  SQLite may or may not
\* count the id it drew for the row that it then did not insert.
Upserted(before, o, n) ==
    LET old == {r \in before.rows : r.owner = o /\ r.name = n}
        id == NextId(before.rows, before.lastId)
    IN  IF old = {}
        THEN {[rows |-> before.rows \cup {[id |-> id, owner |-> o, name |-> n, inStock |-> TRUE]},
               lastId |-> id]}
        ELSE {[rows |-> (before.rows \ old) \cup {[r EXCEPT !.inStock = TRUE] : r \in old},
               lastId |-> last] : last \in {before.lastId, id}}

\* The first INSERT takes the write lock; until then the transaction has none.
InsertName(t) ==
    /\ Begins(t, "add")
    /\ writer \in {None, t}
    /\ \E n \in todo[t] :
          /\ tx' \in Upserted(IF writer = t THEN tx ELSE [rows |-> rows, lastId |-> lastId],
                              call[t].owner, n)
          /\ todo' = [todo EXCEPT ![t] = @ \ {n}]
    /\ tx'.lastId + lastEntry <= MaxIds
    /\ writer' = t
    /\ UNCHANGED <<tables, pc, call, got, reply, shown, changed>>

CommitNames(t) ==
    /\ Begins(t, "add") /\ writer = t /\ todo[t] = {}
    /\ Commits(tx.rows, entries)
    /\ lastId' = tx.lastId
    /\ writer' = None
    /\ tx' = NoWrites
    /\ Goes(t, "list", {}, {})
    /\ UNCHANGED lastEntry

\* What a statement reads: committed rows, of one owner.
PantryOf(o) == {r \in rows : r.owner = o}

\* listIngredients, also as the second half of addIngredients.
ListIngredients(t) ==
    /\ Begins(t, "list") \/ pc[t] = "list"
    /\ Goes(t, "reply", PantryOf(call[t].owner), {})
    /\ UNCHANGED <<tables, lock, changed>>

\* WHERE id = ?
NamedAnyOwner(t, table) == {r \in table : r.id = call[t].id}

\* WHERE id = ? AND owner = ?
Named(t, table) == {r \in table : r.id = call[t].id /\ r.owner = call[t].owner}

Found(hit) == IF hit = {} THEN "missing" ELSE "reply"

SetInStock(t) ==
    LET hit == Named(t, rows)
        set == {[r EXCEPT !.inStock = call[t].inStock] : r \in hit}
    IN  /\ Begins(t, "switch") /\ writer = None
        /\ Commits((rows \ hit) \cup set, entries)
        /\ Goes(t, Found(hit), set, {})
        /\ UNCHANGED <<lastId, lastEntry, lock>>

DeleteIngredient(t) ==
    /\ Begins(t, "delete") /\ writer = None
    /\ Commits(rows \ Named(t, rows), entries)
    /\ Goes(t, Found(Named(t, rows)), {}, {})
    /\ UNCHANGED <<lastId, lastEntry, lock>>

-----------------------------------------------------------------------------
(* The journal and the memory                                               *)

\* ORDER BY cooked_on DESC, id DESC
Before(e, f) == e.cookedOn > f.cookedOn \/ (e.cookedOn = f.cookedOn /\ e.id > f.id)

\* ORDER BY cooked_on: the oldest, and not the latest.
JournalByDay(o, limit) ==
    LET own == {e \in entries : e.owner = o}
    IN  {e \in own : Cardinality({f \in own : f.cookedOn < e.cookedOn}) < limit}

\* ... LIMIT ?
JournalOf(o, limit) ==
    LET own == {e \in entries : e.owner = o}
    IN  {e \in own : Cardinality({f \in own : Before(f, e)}) < limit}

\* The day comes with the body, or is today.
AddJournalEntry(t, day) ==
    LET e == [id |-> NextId(entries, lastEntry), owner |-> call[t].owner, cookedOn |-> day]
    IN  /\ Begins(t, "log") /\ writer = None
        /\ e.id + (IF writer = None THEN lastId ELSE tx.lastId) <= MaxIds
        /\ Commits(rows, entries \cup {e})
        /\ lastEntry' = e.id
        /\ Goes(t, "reply", {}, {e})
        /\ UNCHANGED <<lastId, lock>>

DeleteJournalEntry(t) ==
    /\ Begins(t, "unlog") /\ writer = None
    /\ Commits(rows, entries \ Named(t, entries))
    /\ Goes(t, Found(Named(t, entries)), {}, {})
    /\ UNCHANGED <<lastId, lastEntry, lock>>

ListJournal(t) ==
    /\ Begins(t, "journal")
    /\ Goes(t, "reply", {}, JournalOf(call[t].owner, ListEntries))
    /\ UNCHANGED <<tables, lock, changed>>

\* loadMemory: the pantry, and then the journal.
LoadIngredients(t) ==
    /\ Begins(t, "memory")
    /\ Goes(t, "journal", PantryOf(call[t].owner), {})
    /\ UNCHANGED <<tables, lock, changed>>

LoadJournal(t) ==
    /\ pc[t] = "journal"
    /\ Goes(t, "reply", got[t].pantry, JournalOf(call[t].owner, MemoryEntries))
    /\ UNCHANGED <<tables, lock, changed>>

-----------------------------------------------------------------------------
(* What goes wrong                                                          *)

\* What a transaction wrote is gone when it did not commit.
Rollback(t) ==
    IF writer = t THEN writer' = None /\ tx' = NoWrites ELSE UNCHANGED lock

\* A statement fails, or does not get the lock within busy_timeout: a 500.  Or
\* the client has left, the context of its call is cancelled, and nobody is told,
\* be it before a statement or after what it asked for is committed.
Fails(t) ==
    /\ pc[t] # "idle"
    /\ Rollback(t)
    /\ Answer(t, "failed", Nothing)
    /\ UNCHANGED tables

\* The process dies and starts again on the committed tables.
Crash ==
    /\ \E t \in Tab : pc[t] # "idle"
    /\ pc' = [t \in Tab |-> "idle"]
    /\ call' = [t \in Tab |-> NoCall]
    /\ todo' = [t \in Tab |-> {}]
    /\ got' = [t \in Tab |-> Nothing]
    /\ changed' = [t \in Tab |-> Nothing]
    /\ writer' = None
    /\ tx' = NoWrites
    /\ reply' = [t \in Tab |-> IF pc[t] = "idle" THEN reply[t] ELSE "failed"]
    /\ UNCHANGED <<tables, shown>>

Next ==
    \/ \E t \in Tab, o \in Owner :
          \/ ArrivePlain(t, o) \/ ArriveAdd(t, o) \/ ArriveRow(t, o) \/ ArriveUnlog(t, o)
    \/ \E t \in Tab :
          \/ InsertName(t) \/ CommitNames(t) \/ ListIngredients(t)
          \/ SetInStock(t) \/ DeleteIngredient(t)
          \/ ListJournal(t) \/ (\E d \in Day : AddJournalEntry(t, d)) \/ DeleteJournalEntry(t)
          \/ LoadIngredients(t) \/ LoadJournal(t)
          \/ Reply(t) \/ Fails(t)
    \/ Crash

Spec == Init /\ [][Next]_vars

-----------------------------------------------------------------------------
(* Properties                                                               *)

\* What the variables hold.  Names are lower case in the tables and in what is
\* shown; only a call may carry them as typed.
TypeOK ==
    /\ rows \subseteq [id : Nat, owner : Owner, name : Name, inStock : BOOLEAN]
    /\ lastId \in Nat
    /\ entries \subseteq Entry
    /\ lastEntry \in Nat
    /\ writer \in Tab \cup {None}
    /\ tx \in [rows : SUBSET Row, lastId : Nat]
    /\ pc \in [Tab -> {"idle", "begin", "list", "journal", "reply", "missing"}]
    /\ call \in [Tab -> Call]
    /\ \A t \in Tab : call[t].owner = None <=> pc[t] = "idle"
    /\ todo \in [Tab -> SUBSET Name]
    /\ got \in [Tab -> [pantry : SUBSET Row, journal : SUBSET Entry]]
    /\ reply \in [Tab -> {"none", "ok", "404", "failed"}]
    /\ shown \in [Owner -> [pantry : SUBSET [id : Nat, name : Name], journal : SUBSET Entry]]
    /\ changed \in [Tab -> [pantry : SUBSET Nat, journal : SUBSET Nat]]

\* An ingredient or an entry that was once shown under an id is never replaced
\* by another under that id, so a tab that is behind cannot switch or delete the wrong one.
IdsKeepTheirMeaning ==
    \A o \in Owner :
       /\ \A s \in shown[o].pantry, r \in rows : r.id = s.id => r.owner = o /\ r.name = s.name
       /\ \A s \in shown[o].journal, e \in entries : e.id = s.id => e = s

\* However it is typed, and whoever adds it at the same time, an ingredient is in
\* an account's pantry once.
SameIngredientOnce ==
    \A r, s \in rows : r.owner = s.owner /\ Lower[r.name] = Lower[s.name] => r = s

\* The pantry that a message read is the pantry still, but for what has changed since.
PantryFresh(t) ==
    LET own == PantryOf(call[t].owner)
    IN  \A r \in got[t].pantry \cup own :
           r.id \notin changed[t].pantry => r \in got[t].pantry /\ r \in own

\* Of what has not changed since, the entries that a message read are still there, and
\* the others are older than as many as it asked for.
JournalFresh(t) ==
    LET old == {e \in entries : e.owner = call[t].owner /\ e.id \notin changed[t].journal}
    IN  /\ \A e \in got[t].journal : e.id \notin changed[t].journal => e \in old
        /\ \A e \in old \ got[t].journal : Cardinality({f \in got[t].journal : Before(f, e)}) >= MemoryEntries

\* "it can never be stale" (memory.go): when the message goes on to the model, its
\* memory is the pantry and the latest dishes, although they are read apart and others
\* write before, between and after; only what they changed after it was read may be
\* old, missing or gone.
MemoryIsFresh ==
    \A t \in Tab : call[t].op = "memory" /\ pc[t] = "reply" => PantryFresh(t) /\ JournalFresh(t)

-----------------------------------------------------------------------------
(* The abstract specification, and how the state maps to it                 *)

ShelfOf(table) ==
    [n \in Name |-> IF ~\E r \in table : r.name = n THEN "absent"
                    ELSE IF \E r \in table : r.name = n /\ r.inStock THEN "in" ELSE "out"]

AbstractOp(t) ==
    CASE call[t].op \in {"list", "memory"} -> "show"
      [] call[t].op = "delete" -> "drop"
      [] call[t].op \in {"add", "switch"} -> call[t].op
      [] OTHER -> "other"

AbstractCall(t) ==
    [owner |-> call[t].owner, op |-> AbstractOp(t),
     names |-> call[t].names,
     stock |-> IF call[t].inStock THEN "in" ELSE "out"]

\* How far a call is whose answer is still to be written.
Answering == [add |-> "shown", show |-> "shown", switch |-> "changed", drop |-> "changed",
              other |-> "called"]

Stage(t) ==
    CASE pc[t] \in {"begin", "missing"} -> "called"
      [] pc[t] = "list" -> "changed"
      [] pc[t] = "journal" -> "shown"
      [] pc[t] = "reply" -> Answering[AbstractOp(t)]
      [] pc[t] = "idle" /\ reply[t] = "ok" -> "done"
      [] pc[t] = "idle" /\ reply[t] = "404" -> "refused"
      [] OTHER -> "lost"

\* The shelf that a call has to show; a switch has only its own row.
View(t) == ShelfOf(IF call[t].op = "switch" THEN {} ELSE got[t].pantry)

Shelves == INSTANCE Pantry WITH
    shelf <- [o \in Owner |-> ShelfOf(PantryOf(o))],
    call <- [t \in Tab |-> AbstractCall(t)],
    stage <- [t \in Tab |-> Stage(t)],
    view <- [t \in Tab |-> View(t)]

\* Whatever calls come in between, an add puts all its ingredients on the shelf in
\* one step and then shows a shelf that was there; a switch or a delete acts on the
\* ingredient that the account was shown, or on none; what is refused changes nothing,
\* and what is answered was done before.
RefinesPantry == Shelves!Spec

=============================================================================
