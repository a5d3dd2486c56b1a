# A TLA+ development of cookd-api

cookd-api is the backend of a cooking coach: a Go HTTP server over one SQLite
file that relays a user's messages to OpenAI and stores the conversations. This
directory holds TLA+ modules that model its core logic, TLC configurations that
check them on small instances, and TLAPS proofs for all instances.
`PROJECT.json` maps each definition to the lines it models.

Contents: 1 inventory, 2 plan, 3 the modules and the code, 4 the runs and
their bounds, 5 fairness, 6 what is proved, 7 what is only checked, 8 where
the documents and the code disagree, 9 what is not modelled.

## 1. Inventory

| component | state | operations | interacts with |
|---|---|---|---|
| Conversation store (`internal/store/{conversations,messages,images,schema,store}.go`) | tables `conversations`, `messages`, `images`, the AUTOINCREMENT counters; SQLite's one write lock | create, delete, lookup, `Messages` (three statements), `AppendExchange` (one transaction), photo fetch | called by the handlers; survives crashes |
| Message and conversation handlers (`internal/api/{send,messages,conversations,usermessage,sse,respond,request}.go`) | per request: where it is, its context | `sendMessage`, `listMessages`, create, delete, `getImage` | store, upstream stream, client |
| Rate limiter (`internal/api/ratelimit.go`) | a map of token buckets, `lastSweep`, a mutex | `allow`, `sweep` | clock; three limiters wrap the routes |
| Chat input (`internal/chat/{history,openai_input}.go`) | none | `recent`, `buildInput` | given the history of the store, sent upstream |
| Upstream stream (`internal/chat/{openai,prompt}.go`) | the text so far, stop reason | `Stream` | called by `sendMessage`, under its context |
| Pantry, journal and memory (`internal/store/{pantry,journal}.go`, `internal/api/{ingredients,journal,memory,names}.go`) | tables `ingredients`, `journal` with their counters | add (a transaction), switch, delete, list, log, unlog; `loadMemory` | `sendMessage` reads both tables; clients act by ids they were shown |
| Wording of the memory (`internal/chat/memory.go`) | none | `Block` | what `loadMemory` read, as text |
| Google keys and ID tokens (`internal/auth/{google,google_keys}.go`) | key cache, time of the last fetch, a mutex held while fetching | `key`, `refresh`, `Verify` | Google's endpoint; sign-in |
| Sessions and allow-list (`internal/auth/session.go`, `internal/api/{identity,handlers}.go`) | secret and allow-list, constant per process; tokens, kept by clients | issue, verify, `requireAuth`, the two sign-ins | every route but sign-in and health |
| Routing and middleware (`internal/api/{server,middleware,cors,options}.go`) | none | the chain of layers, per route | wraps all handlers; asks the limiters |
| Process lifecycle (`cmd/cookd-api/main.go`) | listening, shutting down | start, signal, `Shutdown` with a deadline, exit | handlers in flight, database, container runtime |
| Configuration and the token command (`internal/config`, `cmd/cookd-api/token.go`) | none | parse the environment | start |

**What is hard.** Each handler is a goroutine and the database is shared, so
handlers interleave between any two SQL statements; `sendMessage` reads the
history, then waits minutes for a model, then writes. `AppendExchange` may fail,
be cancelled or die at any statement. The client may leave at any time, and
its request's context with it. `Messages` reads its two tables in two snapshots.
The limiter reads the clock before its mutex. The history window is arithmetic
that must keep roles in turn and a cached prefix stable while turns overlap. The
upstream may send its events in any order and stop anywhere, after the client
has been shown part of an answer. Two tabs of one account edit a pantry by ids
that may be stale. Tokens outlive the processes, lists and secrets under which
they were issued. A shutdown races the streams in flight, a second signal and
the container runtime's patience.
`PROJECT.json` lists each hazard at its line with the properties that would
catch it, and says of the few others why none does.

**What makes each part correct.**

* Store and handlers: an exchange (question, photos, answer) is stored whole or
  not at all; nothing is orphaned by a delete; the title is the first
  exchange's; a failure stores nothing and "done" means stored; an answer was
  made from a beginning of the conversation in whole exchanges, with all their
  photos; photo ids are never reused;
  accounts never see each other's rows; the write lock always comes back.
* Rate limiter: no key is admitted beyond what a full bucket and the time pay
  for, nor refused while its bucket has a token, sweeps and stale clock readings
  included; silent keys are forgotten.
* Chat input: the newest messages without a gap, user first, roles in turn, a
  window that moves rarely and a prefix that stays the same while it does not,
  whichever of several turns read the history, called and stored first.
* Google keys: no key is trusted beyond its TTL, every rotation is noticed after
  the cooldown, and every sign-in is answered.
* Upstream stream: exactly one last event, unless the client left or the process
  died; what it says is what was stored, and stored is what was streamed; a
  refusal is never stored.
* Kitchen: an ingredient is in an account's pantry once; an id that was shown
  never becomes something else; an add is there whole or not at all, and an
  answer comes after what it answers for and shows a pantry that was there; the
  model reads the pantry and the latest dishes.
* Sessions and routing: whoever is let in has earned it in the running process,
  and what was earned lasts; each request spends its own budget and no other.
* Lifecycle: told to stop, the process ends, and when it exits with success it
  has cut off nobody.

## 2. Plan

Order of work, the most important behaviour first:

1. `Conversations` (store and handlers) against `ConversationLog`, with proofs.
   *Done.*
2. `RateLimiter` against `TokenBucket`, with proofs. *Done.*
3. `ChatInput` with proofs, and `GoogleKeys`: the key cache with its mutex, TTL,
   cooldown, rotations, failed and cancelled fetches, with proofs. *Done.*
4. `Kitchen`: pantry, journal and memory against `Pantry`, with proofs, the
   refinement included. *Done.*
5. `Sessions` and `Gateway`: tokens across restarts with other secrets and lists,
   and the way of a request through the layers, with proofs. *Done.*
6. `ChatStream` and `Lifecycle`: the event loop of `OpenAI.Stream` inside
   `sendMessage`, and the process around it, with proofs. *Done.*

Composition: `Lifecycle` extends `ChatStream`, `Gateway` extends `Sessions`.
`ChatInput` takes its history to be whole exchanges, which `ReadsTakeTurns` proves of
what `Conversations` reads, and reads it in the same two SELECTs. `ChatStream` has the store as two outcomes (`StoreExchange`, `StoreFails`), which
is what `Conversations` shows `AppendExchange` to be, and `Conversations` has the
stream as two (`StreamAnswers`, `StreamFails`) and the process as `Crash`;
`Gateway` has the limiters as a choice, which `RateLimiter` resolves, and Google's
verdict as one, which `GoogleKeys` does. Composing them for TLC would multiply
state spaces that share nothing else.

What is left: the order of the conversation list under `updated_at`, and the
limiters over a restart. Neither is expected to teach more about the code than the
checks already do. Of the properties that runs check, only those of liveness have no
proof; a few more are proved that no run checks (`PhotosStayInConversation`,
`ReadsTakeTurns`, `NeverTwiceTheBurst`, `FetchesSpaced`, and the safety halves of the
liveness properties: `LockSoonFree`, `HandlersMoveOn`, `SignInsMoveOn`, `StopMovesOn`).

Modules are written to be proved about as well: constants with named
assumptions, one action per operation, invariants of named parts, no
`RECURSIVE` operator anywhere.

## 3. The modules and the code

### Conversations

The tables are the variables `owner` and `title` (rows of `conversations`),
`messages`, `images`, and the counters `lastMsg`, `lastImg`. `fresh` holds the
ids that `rand.Text` has not drawn: 128 random bits are modelled as never
repeating. The transaction in progress is `writer` (who holds SQLite's lock)
and `tx` (what it has written); SQLite in WAL mode has one writer, and a reader
sees what was committed when its statement began. A request has a program
counter `pc`, its `input`, what it has read (`hist`), how its stream ended
(`stop`), the answer its client got (`reply`, `told`), and is in `left` once its
client has gone. `served` is what browsers keep of `Cache-Control: immutable`.

| code | actions |
|---|---|
| `CreateConversation`, `DeleteConversation`, `getImage` | `Create`, `Delete` (with the schema's cascades), `GetImage` |
| `decodeJSON`, `buildUserMessage` | `RefuseBody`, or `ArriveSend` with a `Valid` body |
| `Messages`, used by `listMessages` and `sendMessage` | `Lookup`, `SelectMessages`, `AttachPhotos` or `AttachPanics` |
| `loadMemory` within `sendMessage` | `LoadMemory`, a read of other tables that may fail |
| `chat.Stream` as seen by `sendMessage` | `StreamAnswers` (completed or cut), `StreamFails` |
| `AppendExchange` | `UpdateConversation` or `ConversationGone`, `InsertUser`, `InsertImage`, `InsertAnswer`, `Commit` |
| the done event with its second title read | `SendDone` |
| any statement failing, with `defer tx.Rollback()` | `StoreFails` |
| the request's context | `ClientLeaves`, then `Cancelled` at some later step, or not |
| the process | `Crash` |

A text is the request that carries it; empty texts and photo counts beyond the
limit are inputs of their own. The read-only handlers `getConversation` and
`listConversations` change no state and are left out; what `loadMemory` reads is in
`Kitchen`. A delete or create that fails changes nothing.

`ConversationLog` is what this promises: append-only logs, where an exchange
appears in one step and a client's outcome agrees with it. `Phase`, `LogOf` and
`Life` map the state.

### RateLimiter

A call is `Stamp` (`now := time.Now()`) and `Allow` (everything under the
mutex, sweep included); between them other calls may be stamped and decided, so
`now` may run backwards. `rate.Limiter` is external: `Tokens` and the changes
of `credit` and `last` are modelled from `AllowN`'s documented behaviour and the
way `allow` uses it. Credit is counted in clock ticks, which makes the
arithmetic exact. `Observe` starts counting a key's admissions at any moment, with
what it has `earned` since (the ticks, and those by which readings came late for
it); it changes nothing else.

`TokenBucket` is one bucket per key that is never dropped. A caller asks, and is
admitted when its key's bucket has a token and refused when it has none, so a
wrongful refusal is no step of it either. `Slack` is by how many ticks a decision
may be late; `RateLimiter` implements it with `Slack <- MaxSkew`.

### ChatInput

`Recent` and `BuildInput` are functions of the history, and the state machine
around them is a conversation with overlapping turns. A turn goes as in
`sendMessage`: `Arrive`, `ReadMessages` and `AttachPhotos` (the two SELECTs of
`Messages`), `Call` (the input is built and goes upstream), and `Store`
(`AppendExchange` as one step, which is what `Conversations` shows it to be);
`Abandon` is every other end of a turn, and `Delete` may come at any time.
`loadMemory` is the time between `AttachPhotos` and `Call`: what it reads is any
`memory`. Between these steps other turns read, call and store, so a call may
carry an older history than the one before it. `Attached` leaves photos of later
messages on the first one, as the code does (section 8). `sent` is the input of the
latest call, `since` is what there was when a turn arrived. `FirstUser` is the loop
that skips leading answers; that it never has to is part of the proofs. `Grown`
makes ids consecutive, as `history` is one conversation's.

### GoogleKeys

`keys` and `fetched` are the fields of `Google`, `holder` is who has its mutex,
`born` and `gone` say when Google published and withdrew a key. A sign-in goes
`Arrive` (or `Refuse`, when the body or the token's header is turned down
before a key is asked for), `Acquire` (the mutex, then one of `Hit`, `BeginFetch`
and `TooSoon`), `GoogleAnswers`, `Refreshed` or `FetchFails`, and `Verify` for
signature, claims and the allow-list, whose verdict is a choice. `GoogleAnswers`
and `Refreshed` are apart because the response is on its way between them, while
Google may publish or withdraw keys; `asOf` counts those changes, so that two
answers can be compared. A hit takes and frees the mutex in one step: nothing
can happen in between that another step would see. The clock is in ticks, and
does not go on past `Timeout` while a fetch lasts: that is the client's timeout of
ten seconds. Keys that are not RSA, or do not decode, are not in the set, as if
they had not been published.

### Kitchen

`rows` and `entries` are the tables `ingredients` and `journal`, `lastId` and
`lastEntry` their AUTOINCREMENT counters, `writer` and `tx` the transaction of
`AddIngredients`, as in `Conversations`. A step is one SQL statement, which reads
one snapshot, or a commit, or the answer: `got` is what the handler has to answer
with, and between a commit and its answer the client may leave, the process may
die, and others go on. A tab makes one call after the other, for any of the accounts, and
names rows by ids from `shown`: what any account has ever been shown, its own or
another's. `changed` is a history variable, what a message cannot know: the rows
and entries that were changed after it had read their table, so that
`MemoryIsFresh` can compare its memory with the tables when it goes on to the
model.

| code | actions |
|---|---|
| `decodeJSON`, `parseIngredientNames`, path ids | `ArrivePlain`, `ArriveAdd`, `ArriveRow`, `ArriveUnlog` |
| `AddIngredients`, then the list | `InsertName` for each name in any order, `CommitNames`, `ListIngredients` |
| `SetInStock`, `deleteOwned` | `SetInStock`, `DeleteIngredient`, `DeleteJournalEntry` |
| `AddJournalEntry`, `Journal` | `AddJournalEntry`, `ListJournal` |
| `loadMemory` | `LoadIngredients`, then `LoadJournal` |
| `writeJSON`, or `fail` with `ErrNotFound` | `Reply` |
| an error or a cancelled context, with `defer tx.Rollback()` | `Fails`, in any state of the handler |
| the process | `Crash` |

`InsertName` takes names in any order although the code has the order of the
list: another tab cannot see the difference before the commit, and the database
makes none. Whether the `ON CONFLICT` of an upsert uses up an id is SQLite's
business, and a choice in `Upserted`.

`Pantry` is what this promises, without ids, rows and transactions: one shelf
per account, which a call changes in one step or not at all, and which it shows
as it was at one moment, after its own change. `ShelfOf` maps the table of an
account to its shelf, `AbstractCall` and `Stage` map the handlers. A call that acts
on an id acts, in `Pantry`, on the ingredient that its account was shown under it
when the call arrived: that is where an id used again, or an unfiltered owner,
would show. A call by an id its account was never shown names nothing, and must
be refused. `Answer` of `Pantry` needs the change to be made, and `Refuse` that none
was; only what is lost may be either.

### Sessions and Gateway

`conf` is what `config.Load` makes of the environment, or `Down`; the operator may
have changed secret, list and ways to sign in at each `Start`. `tokens` are all
tokens ever handed out, with what they say (`email`, `expires`, `secret` for the
signature) and, about them, when, by which process and how they were issued. The
clock has `Second` ticks to a second, because `Issue` truncates the expiry to a
second and `Verify` compares it with a clock truncated likewise. Addresses are as
they are typed, `Lower` is `strings.ToLower`.

`Gateway` sends requests through `Layers`: `Chain` around `Inner(route)`, in the
order of `NewServer`. A layer answers or goes on, one step each: `Wrap` (panic
recovery and logging on the way in), `Cors`, `Limit` for three limiters with the
key each takes, `RequireAuth`, `HandleSignIn`, `HandleLogin`, `Handle`, `Panic`. `spent`
records whose budget paid for which request. Requests share nothing but the
tokens, the clock and the process, so one connection, which makes one request
after the other with any token there is, shows what several would.

### ChatStream and Lifecycle

`text`, `stop` and `refused` are the variables of `Stream`'s loop; `Delta`, `Completed`,
`Refusal`, `EndBody` and `StreamFails` are what may come next, in any order and
number, and `events` what the client has got. A text is the number of its deltas:
what the properties ask is whether the client saw all of what was stored.
Around the loop are the checks before it, `StoreExchange` and `TellDone` after it,
and a client that leaves, after which `Tell` reaches nobody.

`Lifecycle` has the process as `phase`: "up", "draining" while `Shutdown` waits,
"closing" once `run` returns (the deferred `db.Close` may meet handlers that still
run), "down". `Signal` comes from a terminal, which may send a second one that
kills (`stop()` restored the default action), or from the container runtime, which
kills after `StopTimeout`. `Die` ends all handlers wherever they are and keeps what
is stored; `Restart` starts another process over it.

## 4. The runs and their bounds

`CHECK_DEADLOCK FALSE` is set where a model really stops: when all requests have
ended and no conversation is left to delete, when the clock or the history is
at its bound, when the process is down for good. `google_keys` and `kitchen` have
no such end, since another call may always arrive, and are checked for deadlock.

| run | shows | bounds, and why they are enough |
|---|---|---|
| `conversations` | the type invariant, most of the safety invariants, `PrivateToOwner` among them, and `RefinesLog` | two sends, two conversations, two accounts, a photo, a crash; accounts, conversations and sends are symmetric. Every hazard listed involves two requests at most and one crash; with two sends they race for the lock and the title, or belong to different accounts; two ids let a delete and a create come between |
| `conversation_reads` | `HistoriesAreTrue` | two sends and a listing of one account and one conversation, with a photo, deletes and a crash: a commit or a delete of another between the two SELECTs of either kind of reader. Who owns the conversation, and whether it has a successor, is `conversations`' question |
| `conversations_live` | the lock is released, answered sends end, handlers of gone clients end | two sends competing for the lock, and a listing; no photos, which add statements to the transaction but no way to wait |
| `rate_limiter` | `BudgetHolds`, `MapForgets`, `RefinesTokenBucket`, all with stale readings | two keys, two callers, bursts of two, tokens of two ticks, readings up to a tick stale, and two windows of time, long enough for two sweeps, the second of which drops a bucket that was used and has refilled, with calls decided in another order than stamped. `earned` counts exactly the ticks by which readings are late, so that a skew of half a token hides no bug |
| `chat_input` | the window, roles, jumps and the surviving prefix | the code's own 12, 8 and 3; 28 messages, which moves the window twice; two turns, one of which may read before the other stores and call after the other's next call (`MaxLag`: four messages, two exchanges, are stored meanwhile); one message with photos, which turns into a note or goes astray |
| `google_keys` | which keys are trusted, when rotations are noticed, that the cache never goes back and every sign-in is answered | two sign-ins, one that fetches and one that waits for it or comes later; two keys and two changes of Google's set, so that an answer may be overtaken by a change and a key withdrawn after it was cached; a TTL of three ticks, a cooldown of two, a fetch of one, and time for a TTL, a fetch and a tick more |
| `kitchen` | ids, names, the memory, and `RefinesPantry` | two tabs, two accounts, two ingredients of which one is typed in two ways, two ids between ingredients and entries, which is enough for one to be deleted and the next drawn, or for two rows of a batch; a memory of one entry and a list of two, so that the limit bites; a failure or a crash before or after each commit |
| `gateway` | who is admitted, for how long, on whose budget | two accounts, one of them typed in two ways, three lists (none, both, one), two secrets, three processes, one token issued, two ticks to a second and five ticks of time, so that a token is issued in the middle of a second and expires |
| `lifecycle` | one last event for each message, true outcomes, refusals, clean exits, and that a signal ends the process | two messages, a delta each, two processes, a grace of two ticks and a runtime that kills after one, so that kill, deadline and drain all occur. With a runtime that waits longer than the grace it would never kill, which the signal from the terminal covers |
| `torn_read`, `cut_answer`, `google_outage` | section 8 | the smallest instance that reaches the disagreement |

Symmetry is used only where no liveness is checked. The bounds are
`MaxCrashes`, `MaxPhotos` (the code's limit, made small), `MaxTime`, `MaxSkew`,
`MaxMessages`, `MaxWithPhotos`, `MaxLag`, `MaxChanges`, `MaxIds`, `MaxStarts`, `MaxTokens` and
`MaxDeltas`; the proofs need none of them to be small. `MaxSkew` is more than a
bound: a goroutine may wait arbitrarily long between reading the clock and the
mutex, and the properties say how what they promise depends on it.

Each property has a mutant in `PROJECT.json`: a definition of the code changed
the way a slip would change it (an unlocked lookup, a forgotten rollback, no
foreign keys, ids without AUTOINCREMENT, a sweep after a token's time, a
sliding window, a photo index off by one, an `id` without its `owner`, an allow-list that only the sign-in
reads, a limiter outside of `requireAuth`, an event before its commit, a wait
without a deadline), which the run must reject.

## 5. Fairness

`FairSpec` assumes weak fairness of `Handle(r)` for each request: a goroutine
that can take its next step does so eventually. The Go scheduler gives that,
and SQLite gives a free write lock to one who waits (or fails the statement
after `busy_timeout`, which is `StoreFails` and no obligation). No fairness is
assumed of clients, of errors, of crashes, or of the upstream: the HTTP client
to it has no timeout, and `AnswerConcluded` therefore starts when the model has
answered. `GoneClientReleased` needs the cancelled context to be noticed, which
`Cancelled` in `Handle` stands for: every call a handler blocks in takes the
request's context.

In `GoogleKeys`, a fetch ends by itself (weak fairness of `FetchEnds`: the
client's timeout), a sign-in with its key goes on (`Verify`), and `Acquire` is
strongly fair: a `sync.Mutex` is taken and freed over and over by others, and its
starvation mode hands it to a goroutine that has waited for a millisecond. Google
owes no answer.

`Lifecycle` assumes weak fairness of `End` alone: time passes, a deadline that has
passed is acted on, and `run` returns. No handler and no upstream owes progress,
so that `SignalEndsProcess` rests on the deadline and not on streams that happen
to end.

`Kitchen` and `Gateway` state no liveness: what a handler of theirs waits for is
the write lock, which `conversations_live` covers, or nothing.

## 6. What is proved

All proofs are for every value of the constants that satisfies the named
assumption of the module, with no bound on states, and are checked by tlapm.

**`ConversationsProofs`**: `TypeOK`, `ExchangesAreWhole`, `NothingOrphaned`,
`FailureLeavesConversation`. The invariants checked by TLC are not inductive:
nothing in them says what a transaction has written so far when it commits.
`Shape` (types, where a request may be, the lock is held by exactly the request
inside its transaction) is inductive alone. `Storage` adds what the tables hold
and, for each step of the transaction, what `tx` holds: nothing, the user
message, its photos up to the counter, the answer after it. Then `Commit` adds a
whole exchange, every other end adds nothing, and the three properties follow.
One lemma per kind of step carries each.

**`ConversationsTruths`**: `OutcomesAreTrue`, `TitleIsSettled`,
`HistoriesAreTrue`, `PrivateToOwner`, `PhotosImmutable`,
`PhotosStayInConversation`, `LockSoonFree`, `RefinesLog`, `HandlersMoveOn`. The invariants are not inductive:
they say what clients hold, and not why the tables will go on agreeing with it.
`Step` says once what any step may do to one request and to the tables (nothing,
a create, a delete, a fetch, a commit), so that the rest need not look at the
actions again. On top of `Shape` and `Storage`, `Truth` adds: what a request has
found stays its account's (`Private`), what it has read is a beginning of its
conversation as long as that exists (`Grounded`), a conversation with messages
has its first exchange's name (`Named`), whoever is past the commit has its
exchange stored and whoever is not has none (`Known`, `Concluded`), ids that were
served are below the counter (`Lasting`), the messages that were read are whole
exchanges, the conversation deleted or not (`Undivided`), and they have all their
photos, with none but later ones on top (`Pictured`, which needs that an id that
was read is never drawn again).

Three results say how far the two SELECTs of `Messages` can go wrong, whatever runs in
between. `HistoriesAreTrue`: no message lacks its answer, its question or a photo,
unless the photo was deleted in between; photos may be too many, but only of
exchanges that came after all the messages. `ReadsTakeTurns`: the messages, in the order of their ids, are questions and
answers in turn. `PhotosStayInConversation`: a photo that is attached to the wrong
message (section 8) is of the same account and conversation, and of a message that
came after the first SELECT; `Grounded` gives the second, for a message that came
before would have been read. So a read that no commit interrupts is right.

`LockSoonFree` is the safety half of `AnswerConcluded`: the holder of the write lock has
`StatementsLeft` to run, each one leaves fewer, nobody else writes for it, and every
way out of the handler gives the lock back. `HandlersMoveOn` says the same of the whole
handler, reads and streams included, and so of `GoneClientReleased` too: `StepsLeft` is
known when the request arrives, no step of anybody raises it, and each step of `Handle`
lowers it. What both leave to fairness, and to TLC, is that the steps are taken.

For `RefinesLog`, `Logs` and `Phases` are the abstract state as a whole, and each action is
mapped: `CreateMaps`, `DeleteMaps` and `CommitMaps` to `Open`, `Close` and `Append`, a crash to
`Lose` of all who were under way (`CrashMaps`), the end of a handler to `Confirm`, `Refuse`
or `Lose` by what its client got (`FinishMaps`), and every other step, the statements within
the transaction among them, to none (`GoesOnMaps`). `Append` needs that the
conversation is there when the transaction commits, which `Storage` knows because the
lock keeps deletes away, and `Close` that an id which was drawn is not drawn again.

**`RateLimiterProofs`**: `TypeOK`; `MapForgets`, for `MaxSkew < Window`; and for
every skew `BudgetHolds` and that the limiter implements `TokenBucket`. `Times`
bounds each recorded reading by the clock and waiting ones by the skew.
`SweptLately` relates every kept key to the last sweep. `Paid` is the
strengthening of the budget: what was granted and what the bucket could still
give are together paid for by a burst and by what was `earned`; the bucket's own
level has to be in it, because the budget alone does not say what the next call
may take. For the refinement, `AllowDecides` compares each decision with the level
of the key's abstract bucket: a bucket that was swept is full but for the skew
(`IdleIsFull`), so dropping it raises no level by more (`AllowLevels`), and a call
is admitted or refused by a level that is the skew late at most. With `MaxSkew = 0`
both say exactly.
`NeverTwiceTheBurst` draws the figure of section 8 from the budget: what is admitted
while less than `Full` is `earned` stays below `2 * Requests`.

**`ChatInputProofs`**: `TypeOK`, `RolesTakeTurns`, `WindowIsRecent`,
`PrefixSurvives` and `WindowMovesInJumps`, for every window, even step and number of
turns, whatever their order. `Whole` says that a history consists of whole
exchanges, `Reads` what a turn on its way has read: no less than there was when it
arrived, and a beginning of the history as it is now, but for photos gone astray
(`Faithful`), which lets the readings of different turns be compared at all. `Built`
says that the latest input was made from such a reading and the new message. The
last is what the properties lack: they speak of `sent` alone and do not say what it
came from, while other turns go on growing the history. `InputsInARow` has the
readings of two calls in a row side by side, and the properties of a step are read
off the longer and the shorter of them, whichever came first. `WindowStartBounds`
and `WindowStartMoves` are the arithmetic of `extra/trimStep*trimStep`, and
`RecentIsSuffix` shows that the loop over leading answers never skips any.

**`GoogleKeysProofs`**: `TypeOK`, `TrustExpires`, `RotationNoticed`,
`CacheNeverGoesBack`, `FetchesSpaced`, for any number of keys, sign-ins and
changes. The properties speak of the moment of a verdict; `Inv` says why it can
be relied on. `Locked` is mutual exclusion: the one call that fetches has the
mutex. `Spaced` bounds the fetch in progress by the cooldown and the timeout.
`Describes` is the heart: a key set is what Google published at some moment not
before a given time, said as what it implies later, namely that a key in it was
published and not withdrawn before, and a published key outside it is newer. The
cache describes a moment not before its arrival less the timeout, an answer on
its way a moment not before its request. It needs `Cooldown <= TTL`, without
which a stale key would be used while it is too soon to ask again, and a
`Timeout` that holds. `SignInsMoveOn` is the safety half of `SignInEnds`: the mutex
that a sign-in waits for is held by a fetch that is within its timeout, and no step
puts a sign-in back.

**`KitchenProofs`**: `TypeOK`, `IdsKeepTheirMeaning`, `SameIngredientOnce`,
`RefinesPantry`, `MemoryIsFresh`. The safety properties speak of committed rows and of what was
shown; `Table` says of the committed table and of the transaction's that ids and
names are unique and below the counter, and `Follows` that the transaction's may
have new ids but gives no old one another meaning, which makes its commit safe
for whatever was shown in the meantime. For the refinement `Calls` adds how far
each handler is (`Progress`), that the id a call aims at can only be the ingredient
its account was shown (`Aims`, which needs `IdsKeepTheirMeaning` of the future, and
so the counter), and that the transaction has put the inserted names in stock
and nothing else (`Batch`). Then each step is shown to be one of `Pantry`'s:
inserts stutter, the commit is `Restock`, a switch of a row that is gone changes
nothing until it is answered, which is `Refuse`, and a failure or a crash, before or
after a commit, is `Lose`. `MemoryIsFresh` is kept from the reads on by `Fresh`: what
others commit is either of no concern to a message or noted in `changed`. That it
holds of the reads themselves counts the entries of a
`LIMIT`: the number of entries ahead of an entry is its place, places are distinct because
dates and ids order the entries of a journal (`BeforeOrders`, `Places`), so the entries
take all places from 0 on (`PlacesTaken`), and those below the limit are the latest
(`LimitTakesLatest`, `JournalIsLatest`), exactly as many as the limit or as there are.

**`GatewayProofs`**: `TypeOK`, `EveryoneSpendsTheirOwn`, `AdmissionIsEarned`,
`SignInLasts`, for any lists, secrets, lifetimes, connections and restarts. `Good`
says what a request has gone through when it is at a given layer, `Earned` what
is true of every token that was handed out, the owner on the list of its own
process included, and `Spending` keeps `spent` apart from the requests that come
and go. `LaterQuotient` is the arithmetic of the truncated times.

**`LifecycleProofs`**: `TypeOK`, `EventsEndOnce`, `OutcomeIsTrue`, `RefusalIsFinal`,
`CleanExitCutsNothing`, `StopMovesOn`, for any number of messages and deltas and any
grace. `Good`
says, for each place of a handler, what its client has got and what is stored by
then: the two agree only from "telling" on, which is why the properties alone
are not inductive. `Heard` is the half of `EventsEndOnce` that a handler which
returns silently would break: whoever has ended and was neither left nor cut off has
its last event. `Idle` says that a process about to exit with success has
nobody in flight, which the closed listener keeps true. `StopMovesOn` is the safety half of
`SignalEndsProcess`: a process that is told to stop accepts nobody, does not come up
again first, and each step of `End` shortens what is left, whatever the messages do.

## 7. What is only model-checked

The liveness properties `AnswerConcluded`, `GoneClientReleased`, `SignInEnds` and
`SignalEndsProcess`: the prover does neither fairness nor ENABLED. Section 6 proves of each
that no step leads away from its goal; that the steps towards it are enabled, and taken
under the fairness of section 5, is what the runs check. No property here
rests on what a recursive definition computes, which would be out of its reach
too: the theorems of the library that do induction take an operator, which the
provers cannot instantiate. Where a count needs one (`PlacesTaken`), the theorems about
finite sets and injections serve instead; `ReadsTakeTurns` is stated of neighbours, and
needs none.

## 8. Where the documents and the code disagree

* `torn_read`: `Messages` reads photos in a second snapshot, and
  `index[messageID]` is 0 for a message the first did not return, so a photo
  committed in between is shown on, and sent to the model with, the first
  message. With an empty first snapshot `messages[0]` panics. `PhotosStayInConversation`
  says what still holds: no photo of another conversation is shown; `HistoriesAreTrue`,
  that nothing is missing; `PrefixSurvives`, that beyond it the prefix is the same. This
  is a bug of the code; a read transaction around both statements would remove it.
* `cut_answer`: it says that an exchange is stored only once the answer is
  complete; a body that ends early without an error is stored as it is.
* `google_outage`: the comment on `keysCooldown` says that it stops a stream of
  tokens with unknown key ids from turning into a stream of requests to Google. A
  failed refresh does not set `fetched`, so while fetches fail each sign-in that
  needs one sends its own, one after the other.

Smaller ones, which no run shows:

* The comment on `sendMessage` (`send.go`) and `openapi.yaml` say that a dropped
  connection leaves the conversation as it was; one that drops after the commit
  does not. `OutcomesAreTrue` and `OutcomeIsTrue` say what does hold.
* `openapi.yaml` promises 30 messages per 10 minutes; a full bucket and its refill
  admit up to 59 in one such window. `BudgetHolds` has the exact figure, and
  `NeverTwiceTheBurst` shows that, late clock readings aside, it never is 60.
* `shutdownGrace` lets streams finish for 30 seconds, but `docker-compose.yaml` sets
  no `stop_grace_period`, and the runtime kills after 10 by default: with
  `StopTimeout < Grace`, as here, the deadline is never what ends a deployed process.
* `README.md` says that everything before the latest message stays cacheable,
  but a photo that turns into a note (`photoMessages`) changes an earlier message,
  and so does one that goes astray; `PrefixSurvives` is stated, and proved, with these
  exceptions.
* The comment on `trimStep` has the window move in jumps; with overlapping turns it
  may also jump back, for a turn that read its history before an exchange was stored
  that the call ahead of it showed. `WindowMovesInJumps` says so.
* `README.md` says that changing `SESSION_SECRET` signs everyone out; setting it
  back signs in again whoever has a token that is not yet old. `AdmissionIsEarned`
  says what holds: the secret of the running process.
* The comment on `requireAuth` has removed addresses locked out at once; the list
  is read when the process starts.
* `logRequests` logs after its handler, not in a `defer`: a request that panics is
  logged by `recoverPanics` alone.
* `POST /journal` refuses a day "in the future", and accepts tomorrow (a day of slack
  for other time zones); such a dish stays the latest of the journal until the
  day is over.

## 9. What is not modelled

* The order of the conversation list: `updated_at` is read before the write lock
  is taken, so with two sends the list may be out of order by one exchange until
  the next. The tables here have no times.
* The limiters' buckets over a restart: a process starts with full ones, which is
  `RateLimiter`'s initial state.
* In `Kitchen`, bodies that are refused (they change nothing), ids that nobody was
  ever shown (they are not found), ratings, minutes, notes and the pantry's order.
* An upload that takes longer than the 30 seconds of the server's write timeout,
  which cannot be answered with a status: deadlines of connections are
  `net/http`'s.
* Of the configuration, everything that does not decide who gets in: ports, paths,
  models, lengths of secrets, and in which order missing variables are reported.
* The wording of the memory (`chat/memory.go`), of prompts and of answers, JSON and
  base64, media types and sizes of photos, HTTP itself, CORS headers, logging, and
  cryptography, of which only its outcome would matter.
* Documentation and deployment files, except where their claims are quoted above.
