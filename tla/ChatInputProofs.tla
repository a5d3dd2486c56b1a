-------------------------- MODULE ChatInputProofs --------------------------
(***************************************************************************)
(* Theorems about ChatInput, for any window size, any even step, any       *)
(* number of turns, and histories of any length.                           *)
(*                                                                         *)
(* Whole says what a history is made of, Faithful what a turn that has     *)
(* read one may hold of it, and Built what the input of the latest call    *)
(* was made from: such a reading, and the new message.  With the types     *)
(* they are inductive, and the properties of the window are read off them. *)
(***************************************************************************)
EXTENDS ChatInput, SequenceTheorems, TLAPS

\* The constants, as the arithmetic of the proofs needs them.
LEMMA Constants ==
  /\ KeepMessages \in Nat /\ KeepMessages > 0
  /\ TrimStep \in Nat /\ TrimStep > 0 /\ TrimStep % 2 = 0
  /\ PhotoMessages \in Nat /\ PhotoMessages > 0
BY ChatInputAssumption

\* Division by the step.
LEMMA Steps ==
  ASSUME NEW x \in Nat
  PROVE  /\ x \div TrimStep \in Nat
         /\ (x \div TrimStep) * TrimStep \in Nat
         /\ (x \div TrimStep) * TrimStep <= x
         /\ x < (x \div TrimStep) * TrimStep + TrimStep
BY Constants

\* A multiple of the step is even.
LEMMA EvenSteps ==
  ASSUME NEW q \in Nat
  PROVE  (q * TrimStep) % 2 = 0
<1>1. PICK h \in Nat : TrimStep = 2 * h
  BY Constants
<1>2. q * TrimStep = 2 * (q * h) /\ q * h \in Nat
  BY <1>1
<1> QED
  BY <1>2

\* The window of n messages: an even number are dropped, as many as leave
\* KeepMessages and no whole step more.
LEMMA WindowStartBounds ==
  ASSUME NEW n \in Nat \ {0}
  PROVE  /\ WindowStart(n) \in Nat
         /\ WindowStart(n) % 2 = 0
         /\ WindowStart(n) < n
         /\ n - WindowStart(n) < KeepMessages + TrimStep
         /\ WindowStart(n) # 0 => n - WindowStart(n) >= KeepMessages
<1>1. CASE n > KeepMessages
  <2>1. PICK x \in Nat : x = n - KeepMessages
    BY <1>1, Constants
  <2>2. PICK s \in Nat : s = (x \div TrimStep) * TrimStep
    BY Steps
  <2>3. s % 2 = 0 /\ s <= x /\ x < s + TrimStep
    BY <2>2, Steps, EvenSteps
  <2>4. WindowStart(n) = s
    BY <1>1, <2>1, <2>2 DEF WindowStart
  <2> QED
    BY <2>1, <2>3, <2>4, Constants
<1>2. CASE ~(n > KeepMessages)
  BY <1>2, Constants DEF WindowStart
<1> QED
  BY <1>1, <1>2

\* A longer history never has an earlier window, and a later one is later by a
\* step at least.
LEMMA WindowStartMoves ==
  ASSUME NEW n \in Nat, NEW m \in Nat, n <= m
  PROVE  WindowStart(n) = WindowStart(m) \/ WindowStart(n) + TrimStep <= WindowStart(m)
<1>1. CASE m > KeepMessages
  <2>1. PICK y \in Nat : y = m - KeepMessages
    BY <1>1, Constants
  <2>2. PICK b \in Nat : b = y \div TrimStep
    BY <2>1, Steps
  <2>3. WindowStart(m) = b * TrimStep /\ b * TrimStep <= y /\ y < b * TrimStep + TrimStep
    BY <1>1, <2>1, <2>2, Steps DEF WindowStart
  <2>4. PICK a \in Nat : /\ WindowStart(n) = a * TrimStep
                         /\ a * TrimStep <= y
    <3>1. CASE n > KeepMessages
      <4>1. PICK x \in Nat : x = n - KeepMessages /\ x <= y
        BY <2>1, <3>1, Constants
      <4>2. WindowStart(n) = (x \div TrimStep) * TrimStep
        BY <3>1, <4>1 DEF WindowStart
      <4>3. x \div TrimStep \in Nat /\ (x \div TrimStep) * TrimStep \in Nat
            /\ (x \div TrimStep) * TrimStep <= x
        BY <4>1, Steps
      <4> QED
        BY <4>1, <4>2, <4>3, <2>1
    <3>2. CASE ~(n > KeepMessages)
      <4>1. WindowStart(n) = 0 /\ 0 * TrimStep = 0
        BY <3>2, Constants DEF WindowStart
      <4> QED
        BY <4>1, <2>1
    <3> QED
      BY <3>1, <3>2
  <2>5. a <= b
    <3>1. SUFFICES ASSUME a >= b + 1 PROVE FALSE
      BY <2>2, <2>4
    <3>2. PICK e \in Nat : a = b + 1 + e
      <4>1. a - b - 1 \in Nat /\ a = b + 1 + (a - b - 1)
        BY <3>1, <2>2, <2>4
      <4> QED
        BY <4>1
    <3>3. a * TrimStep = b * TrimStep + TrimStep + e * TrimStep
          /\ e * TrimStep \in Nat /\ b * TrimStep \in Nat
      BY <3>2, <2>2, Constants
    <3> QED
      BY <3>3, <2>1, <2>3, <2>4, Constants
  <2>6. CASE a = b
    BY <2>3, <2>4, <2>6
  <2>7. CASE a < b
    <3>1. PICK e \in Nat : b = a + 1 + e
      <4>1. b - a - 1 \in Nat /\ b = a + 1 + (b - a - 1)
        BY <2>2, <2>4, <2>7
      <4> QED
        BY <4>1
    <3>2. b * TrimStep = a * TrimStep + TrimStep + e * TrimStep
          /\ e * TrimStep \in Nat /\ a * TrimStep \in Nat
      BY <3>1, <2>4, Constants
    <3> QED
      BY <3>2, <2>3, <2>4, Constants
  <2> QED
    BY <2>2, <2>4, <2>5, <2>6, <2>7
<1>2. CASE ~(m > KeepMessages)
  BY <1>2, Constants DEF WindowStart
<1> QED
  BY <1>1, <1>2

-----------------------------------------------------------------------------
(* What a call is built from.                                               *)

\* Odd positions are the user's.
RoleAt(i) == IF i % 2 = 1 THEN "user" ELSE "assistant"

\* h consists of whole exchanges, in the order of their ids.
Whole(h) ==
    /\ h \in Seq(Message)
    /\ Len(h) % 2 = 0
    /\ \A i \in 1 .. Len(h) : h[i].id = i /\ h[i].role = RoleAt(i)

\* h is a beginning of g, but for photos gone astray.
Faithful(h, g) ==
    /\ Len(h) <= Len(g)
    /\ \A i \in 1 .. Len(h) : /\ g[i].photos \subseteq h[i].photos
                              /\ i # 1 => h[i].photos = g[i].photos

\* The variables that have a type and no more.
Typed ==
    /\ deleted \in BOOLEAN
    /\ at \in [Turn -> Stages]
    /\ asked \in [Turn -> BOOLEAN]
    /\ since \in [Turn -> Nat]
    /\ read \in [Turn -> Seq(Message)]

\* A turn on its way has read no less than there was when it arrived.
Reads ==
    \A t \in Turn :
       /\ at[t] \in {"rows", "ready"} => Whole(read[t])
       /\ ~deleted =>
             /\ at[t] = "arrived" => since[t] <= Len(history)
             /\ at[t] \in {"rows", "ready"} =>
                   since[t] <= Len(read[t]) /\ Len(read[t]) <= Len(history)
             /\ at[t] = "ready" => Faithful(read[t], history)

\* Message i of an input made of n messages, the first n - 1 of them those of h.
OldMessage(h, i, n) ==
    LET m == h[WindowStart(n) + i]
        shown == ShowsPhotos(i, n - WindowStart(n))
    IN  [id |-> WindowStart(n) + i,
         role |-> RoleAt(i),
         images |-> IF shown THEN m.photos ELSE {},
         noted |-> IF shown THEN {} ELSE m.photos,
         memory |-> NoMemory]

\* in is the input made of the n - 1 messages of h and a new one.
BuiltFrom(in, h, n) ==
    /\ n = Len(h) + 1
    /\ in \in Seq(InputMessage)
    /\ Len(in) = n - WindowStart(n)
    /\ \A i \in 1 .. Len(in) - 1 : in[i] = OldMessage(h, i, n)
    /\ in[Len(in)].id = 0 /\ in[Len(in)].role = "user"

\* in is the input of a call.
Source(in, h) ==
    /\ Whole(h)
    /\ BuiltFrom(in, h, Len(h) + 1)
    /\ ~deleted => Faithful(h, history)

\* The latest input was made from all the history its turn had read.
Built == sent # <<>> => \E h : Source(sent, h)

\* What remains of a sequence without its first w elements.
LEMMA Suffix ==
  ASSUME NEW S, NEW h \in Seq(S), NEW w \in Nat, w < Len(h)
  PROVE  /\ SubSeq(h, w + 1, Len(h)) \in Seq(S)
         /\ Len(SubSeq(h, w + 1, Len(h))) = Len(h) - w
         /\ \A i \in 1 .. Len(h) - w : SubSeq(h, w + 1, Len(h))[i] = h[w + i]
<1>1. PICK n \in Nat : n = Len(h)
  OBVIOUS
<1>2. w + 1 \in Int /\ n \in Int /\ w + 1 <= n /\ n - (w + 1) + 1 = n - w
  BY <1>1
<1>3. \A i \in w + 1 .. n : h[i] \in S
  BY <1>1, ElementOfSeq
<1>4. /\ SubSeq(h, w + 1, n) \in Seq(S)
      /\ Len(SubSeq(h, w + 1, n)) = IF w + 1 <= n THEN n - (w + 1) + 1 ELSE 0
      /\ \A i \in 1 .. n - (w + 1) + 1 : SubSeq(h, w + 1, n)[i] = h[(w + 1) + i - 1]
  BY <1>2, <1>3, SubSeqProperties
<1>5. \A i \in 1 .. n - w : (w + 1) + i - 1 = w + i
  OBVIOUS
<1> QED
  BY <1>1, <1>2, <1>4, <1>5

\* Dropping an even number of messages keeps the parity of the others.
LEMMA Dropped ==
  ASSUME NEW w \in Nat, w % 2 = 0, NEW n \in Nat, w < n, NEW i \in 1 .. n - w - 1
  PROVE  /\ i \in 1 .. n - w
         /\ w + i \in 1 .. n - 1
         /\ (w + i) % 2 = i % 2
<1>1. PICK v \in Nat : w = 2 * v
  OBVIOUS
<1>2. PICK j \in Nat : j = i /\ j >= 1 /\ j <= n - w - 1
  OBVIOUS
<1>3. (w + j) % 2 = j % 2
  BY <1>1
<1> QED
  BY <1>2, <1>3

\* h is g and a new message, n its length, and w what is dropped.
Extended(h, g, n, w) ==
    /\ h \in Seq(Message)
    /\ n \in Nat \ {0}
    /\ n - 1 = Len(g)
    /\ Len(h) = n
    /\ \A i \in 1 .. n - 1 : h[i] = g[i]
    /\ h[n].id = 0
    /\ h[n].role = "user"
    /\ w \in Nat
    /\ WindowStart(n) = w

\* What Recent keeps starts on a user message without the loop's help.
LEMMA RecentIsSuffix ==
  ASSUME NEW g, Whole(g), NEW h, NEW n, NEW w, Extended(h, g, n, w)
  PROVE  /\ Recent(h) \in Seq(Message)
         /\ Len(Recent(h)) = n - w
         /\ \A i \in 1 .. n - w - 1 : /\ w + i \in 1 .. Len(g)
                                      /\ Recent(h)[i] = g[w + i]
                                      /\ g[w + i].role = RoleAt(i)
                                      /\ g[w + i].id = w + i
         /\ Recent(h)[n - w] = h[n]
<1> /\ h \in Seq(Message)
    /\ n \in Nat \ {0}
    /\ n - 1 = Len(g)
    /\ Len(h) = n
    /\ \A i \in 1 .. n - 1 : h[i] = g[i]
    /\ h[n].role = "user"
    /\ w \in Nat
    /\ WindowStart(n) = w
  BY DEF Extended
<1>1. w % 2 = 0 /\ w < n
  BY WindowStartBounds
<1>2. n - w \in Nat /\ n - w > 0 /\ w + (n - w) = n
  BY <1>1
<1> DEFINE t == SubSeq(h, w + 1, n)
<1>3. /\ t \in Seq(Message)
      /\ Len(t) = n - w
      /\ \A i \in 1 .. n - w : t[i] = h[w + i]
  <2>1. w \in Nat /\ w < Len(h)
    BY <1>1
  <2>2. /\ SubSeq(h, w + 1, Len(h)) \in Seq(Message)
        /\ Len(SubSeq(h, w + 1, Len(h))) = Len(h) - w
        /\ \A i \in 1 .. Len(h) - w : SubSeq(h, w + 1, Len(h))[i] = h[w + i]
    BY <2>1, Suffix
  <2> QED
    BY <2>2, Zenon
<1> HIDE DEF t
<1>4. ASSUME NEW i \in 1 .. n - w - 1
      PROVE  /\ w + i \in 1 .. Len(g)
             /\ t[i] = g[w + i]
             /\ g[w + i].role = RoleAt(i)
             /\ g[w + i].id = w + i
  <2>1. /\ i \in 1 .. n - w
        /\ w + i \in 1 .. Len(g)
        /\ (w + i) % 2 = i % 2
    <3>1. n \in Nat /\ w \in Nat /\ w % 2 = 0 /\ w < n
      BY <1>1
    <3>2. i \in 1 .. n - w /\ w + i \in 1 .. n - 1
      BY <3>1
    <3>3. (w + i) % 2 = i % 2
      BY <3>1, Dropped
    <3> QED
      BY <3>2, <3>3
  <2>2. RoleAt(w + i) = RoleAt(i)
    BY <2>1 DEF RoleAt
  <2>3. g[w + i].id = w + i /\ g[w + i].role = RoleAt(w + i)
    BY <2>1 DEF Whole
  <2>4. t[i] = g[w + i]
    BY <1>3, <2>1
  <2> QED
    BY <2>1, <2>2, <2>3, <2>4
<1>5. t[n - w] = h[n]
  <2>1. n - w \in 1 .. n - w
    BY <1>2
  <2> QED
    BY <1>2, <1>3, <2>1
<1>6. t[1].role = "user"
  <2>1. CASE n - w = 1
    BY <1>5, <2>1
  <2>2. CASE n - w # 1
    <3>1. 1 \in 1 .. n - w - 1
      BY <1>2, <2>2
    <3> QED
      BY <1>4, <3>1 DEF RoleAt
  <2> QED
    BY <2>1, <2>2
<1>7. FirstUser(t) = 1
  <2>1. /\ 1 \in 1 .. Len(t)
        /\ t[1].role = "user" \/ 1 = Len(t)
        /\ \A j \in 1 .. 1 - 1 : t[j].role # "user"
    BY <1>2, <1>3, <1>6
  <2>2. ASSUME NEW i \in 1 .. Len(t), \A j \in 1 .. i - 1 : t[j].role # "user"
        PROVE  i = 1
    BY <1>2, <1>3, <1>6, <2>2
  <2> QED
    BY <2>1, <2>2 DEF FirstUser
<1>8. Recent(h) = t
  <2>1. Recent(h) = SubSeq(t, 1, Len(t))
    BY <1>7 DEF Recent, t
  <2> QED
    BY <2>1, <1>3
<1> QED
  BY <1>3, <1>4, <1>5, <1>8

\* An input consists of what RecentIsSuffix keeps.
LEMMA InputOfRecent ==
  ASSUME NEW g, Whole(g), NEW memory \in Memory \cup {NoMemory},
         NEW h, NEW n, NEW w, Extended(h, g, n, w)
  PROVE  BuiltFrom(BuildInput(h, memory), g, n)
<1> DEFINE r == Recent(h)
<1>1. /\ r \in Seq(Message)
      /\ Len(r) = n - w
      /\ \A i \in 1 .. n - w - 1 : /\ w + i \in 1 .. Len(g)
                                   /\ r[i] = g[w + i]
                                   /\ g[w + i].role = RoleAt(i)
                                   /\ g[w + i].id = w + i
      /\ r[n - w] = h[n]
  BY RecentIsSuffix
<1>2. PICK k \in Nat \ {0} : k = n - w
  <2>1. n \in Nat \ {0} /\ WindowStart(n) = w
    BY DEF Extended
  <2>2. w \in Nat /\ w < n
    BY <2>1, WindowStartBounds
  <2>3. n - w \in Nat \ {0}
    BY <2>1, <2>2
  <2> QED
    BY <2>3
<1> DEFINE in == BuildInput(h, memory)
<1>3. in = [i \in 1 .. k |->
               [id |-> r[i].id,
                role |-> IF r[i].role = "assistant" THEN "assistant" ELSE "user",
                images |-> IF ShowsPhotos(i, k) THEN r[i].photos ELSE {},
                noted |-> IF ShowsPhotos(i, k) THEN {} ELSE r[i].photos,
                memory |-> MemoryAt(i, k, memory)]]
  BY <1>1, <1>2 DEF BuildInput
<1> HIDE DEF in, r
<1>4. in \in Seq(InputMessage) /\ Len(in) = k
  <2>1. ASSUME NEW i \in 1 .. k
        PROVE  in[i] \in InputMessage
    <3>1. r[i] \in Message
      BY <1>1, <1>2
    <3>2. r[i].id \in Nat /\ r[i].photos \in SUBSET Nat
      BY <3>1 DEF Message
    <3>3. MemoryAt(i, k, memory) \in Memory \cup {NoMemory}
      BY DEF MemoryAt
    <3> QED
      BY <1>3, <3>2, <3>3 DEF InputMessage, Role
  <2> QED
    BY <1>3, <2>1
<1>5. ASSUME NEW i \in 1 .. k - 1
       PROVE  in[i] = OldMessage(g, i, n)
  <2>1. i \in 1 .. k /\ i # k
    OBVIOUS
  <2>2. MemoryAt(i, k, memory) = NoMemory
    BY <2>1 DEF MemoryAt
  <2>3. /\ r[i].id = w + i /\ r[i].photos = g[w + i].photos
        /\ (IF r[i].role = "assistant" THEN "assistant" ELSE "user") = RoleAt(i)
    BY <1>1, <1>2 DEF RoleAt
  <2> QED
    BY <1>2, <1>3, <2>1, <2>2, <2>3 DEF OldMessage, Extended
<1>6. in[k].id = 0 /\ in[k].role = "user"
  <2>1. k \in 1 .. k
    OBVIOUS
  <2> QED
    BY <1>1, <1>2, <1>3, <2>1 DEF Extended
<1> QED
  BY <1>2, <1>4, <1>5, <1>6 DEF BuiltFrom, Extended, in

-----------------------------------------------------------------------------
(* The invariants.                                                          *)

Inductive == Whole(history) /\ Typed /\ Reads /\ Built

\* There is nothing at first.
LEMMA InitInductive ==
  Init => Inductive
<1>1. Init => Whole(history) /\ Reads /\ Built
  BY DEF Init, Whole, Reads, Built
<1>2. Init => Typed
  <2>1. <<>> \in Seq(Message)
    OBVIOUS
  <2>2. Init => read \in [Turn -> Seq(Message)]
    BY <2>1, Zenon DEF Init
  <2>3. Init => deleted \in BOOLEAN /\ at \in [Turn -> Stages]
    BY DEF Init, Stages
  <2>4. Init => asked \in [Turn -> BOOLEAN]
    BY DEF Init
  <2>5. Init => since \in [Turn -> Nat]
    BY DEF Init
  <2> QED
    BY <2>2, <2>3, <2>4, <2>5 DEF Typed
<1> QED
  BY <1>1, <1>2 DEF Inductive

\* The input of a call is built from what its turn has read.
LEMMA CallBuilds ==
  ASSUME Inductive, NEW t \in Turn, NEW memory \in Memory \cup {NoMemory}, Call(t, memory)
  PROVE  Source(sent', read[t])
<1>1. Whole(read[t]) /\ (~deleted => Faithful(read[t], history))
  BY DEF Call, Inductive, Reads
<1>2. sent' = BuildInput(Append(read[t], NewMessage(asked[t])), memory)
  BY DEF Call
<1>3. NewMessage(asked[t]) \in Message /\ NewMessage(asked[t]).id = 0 /\ NewMessage(asked[t]).role = "user"
  BY DEF NewMessage, Photos, Message, Role
<1>4. PICK g : g = read[t]
  OBVIOUS
<1>5. g \in Seq(Message) /\ Len(g) \in Nat
  BY <1>1, <1>4 DEF Whole
<1>6. WindowStart(Len(g) + 1) \in Nat
  <2>1. Len(g) + 1 \in Nat \ {0}
    BY <1>5
  <2> QED
    BY <2>1, WindowStartBounds
<1>7. Extended(Append(g, NewMessage(asked[t])), g, Len(g) + 1, WindowStart(Len(g) + 1))
  BY <1>3, <1>5, <1>6 DEF Extended
<1>8. BuiltFrom(sent', g, Len(g) + 1)
  BY <1>1, <1>2, <1>4, <1>7, InputOfRecent
<1> QED
  BY <1>1, <1>4, <1>8 DEF Source

\* What grows at the end keeps the messages it had.
LEMMA GrownKeeps ==
  ASSUME Whole(history), NEW photos \in BOOLEAN
  PROVE  /\ Whole(Grown(history, photos))
         /\ Len(Grown(history, photos)) = Len(history) + 2
         /\ \A i \in 1 .. Len(history) : Grown(history, photos)[i] = history[i]
<1>1. PICK k \in Nat : k = Len(history) /\ k % 2 = 0
  BY DEF Whole
<1> DEFINE a == [id |-> k + 1, role |-> "user", photos |-> Photos(k + 1, photos)]
<1> DEFINE b == [id |-> k + 2, role |-> "assistant", photos |-> {}]
<1>2. a \in Message /\ b \in Message /\ a.id = k + 1 /\ b.id = k + 2 /\ a.role = "user" /\ b.role = "assistant"
  BY DEF Message, Role, Photos
<1>3. Grown(history, photos) = history \o <<a, b>>
  BY <1>1 DEF Grown
<1> HIDE DEF a, b
<1>4. history \in Seq(Message) /\ <<a, b>> \in Seq(Message) /\ Len(<<a, b>>) = 2
  BY <1>2 DEF Whole
<1> DEFINE s == history \o <<a, b>>
<1>5. s \in Seq(Message) /\ Len(s) = k + 2
  BY <1>1, <1>4
<1>6. \A i \in 1 .. k : s[i] = history[i]
  BY <1>1, <1>4
<1>7. s[k + 1] = a /\ s[k + 2] = b
  BY <1>1, <1>4
<1> HIDE DEF s
<1>8. ASSUME NEW i \in 1 .. k + 2
      PROVE  s[i].id = i /\ s[i].role = RoleAt(i)
  <2>1. CASE i \in 1 .. k
    BY <1>1, <1>6, <2>1 DEF Whole
  <2>2. CASE i = k + 1
    <3>1. i % 2 = 1
      BY <1>1, <2>2
    <3> QED
      BY <1>2, <1>7, <2>2, <3>1 DEF RoleAt
  <2>3. CASE i = k + 2
    <3>1. i % 2 = 0
      BY <1>1, <2>3
    <3> QED
      BY <1>2, <1>7, <2>3, <3>1 DEF RoleAt
  <2> QED
    BY <2>1, <2>2, <2>3
<1>9. (k + 2) % 2 = 0
  BY <1>1
<1>10. Whole(s)
  BY <1>5, <1>8, <1>9 DEF Whole
<1> QED
  BY <1>1, <1>3, <1>5, <1>6, <1>10 DEF s

\* With what is left of a turn that waits for its answer, fails or leaves, the
\* readings of the others stay as they are.
LEMMA ReadsKept ==
  ASSUME Typed, Reads, NEW t \in Turn, UNCHANGED <<deleted, history>>,
         at' = [at EXCEPT ![t] = at'[t]], at'[t] \in {"idle", "called"},
         since' = [since EXCEPT ![t] = 0], read' = [read EXCEPT ![t] = <<>>]
  PROVE  Reads'
<1>1. SUFFICES ASSUME NEW u \in Turn
               PROVE  /\ at'[u] \in {"rows", "ready"} => Whole(read'[u])
                      /\ ~deleted' =>
                           /\ at'[u] = "arrived" => since'[u] <= Len(history')
                           /\ at'[u] \in {"rows", "ready"} =>
                                since'[u] <= Len(read'[u]) /\ Len(read'[u]) <= Len(history')
                           /\ at'[u] = "ready" => Faithful(read'[u], history')
  BY DEF Reads
<1>2. CASE u = t
  BY <1>2
<1>3. CASE u # t
  <2>1. at'[u] = at[u] /\ since'[u] = since[u] /\ read'[u] = read[u]
    BY <1>3 DEF Typed
  <2>2. Faithful(read[u], history) => Faithful(read'[u], history')
    BY <2>1 DEF Faithful
  <2> QED
    BY <2>1, <2>2 DEF Reads
<1> QED
  BY <1>2, <1>3

\* A source stays one while nothing is stored or deleted.
LEMMA BuiltKept ==
  ASSUME Built, UNCHANGED <<history, deleted, sent>>
  PROVE  Built'
<1>1. ASSUME NEW h, Source(sent, h)
      PROVE  Source(sent, h)'
  BY <1>1 DEF Source, Faithful
<1> QED
  BY <1>1 DEF Built

\* A message arrives.
LEMMA ArriveInductive ==
  ASSUME Inductive, NEW t \in Turn, NEW photos \in BOOLEAN, Arrive(t, photos)
  PROVE  Inductive'
<1>1. Typed /\ Reads /\ Built /\ Whole(history)
  BY DEF Inductive
<1>2. /\ UNCHANGED <<history, deleted, read, sent>>
      /\ at' = [at EXCEPT ![t] = "arrived"]
      /\ asked' = [asked EXCEPT ![t] = photos]
      /\ since' = [since EXCEPT ![t] = Len(history)]
  BY DEF Arrive
<1>3. Len(history) \in Nat
  BY <1>1 DEF Whole
<1>4. Typed'
  BY <1>1, <1>2, <1>3 DEF Typed, Stages
<1>5. Reads'
  <2>1. SUFFICES ASSUME NEW u \in Turn
                 PROVE  /\ at'[u] \in {"rows", "ready"} => Whole(read'[u])
                        /\ ~deleted' =>
                             /\ at'[u] = "arrived" => since'[u] <= Len(history')
                             /\ at'[u] \in {"rows", "ready"} =>
                                  since'[u] <= Len(read'[u]) /\ Len(read'[u]) <= Len(history')
                             /\ at'[u] = "ready" => Faithful(read'[u], history')
    BY DEF Reads
  <2>2. CASE u = t
    BY <1>1, <1>2, <1>3, <2>2 DEF Typed
  <2>3. CASE u # t
    <3>1. at'[u] = at[u] /\ since'[u] = since[u] /\ read'[u] = read[u]
      BY <1>1, <1>2, <2>3 DEF Typed
    <3>2. Faithful(read[u], history) => Faithful(read'[u], history')
      BY <1>2, <3>1 DEF Faithful
    <3> QED
      BY <1>1, <1>2, <3>1, <3>2 DEF Reads
  <2> QED
    BY <2>2, <2>3
<1> QED
  BY <1>1, <1>2, <1>4, <1>5, BuiltKept DEF Inductive

\* A change of one turn's stage and reading needs to be looked at there only.
LEMMA ReadsOfOne ==
  ASSUME Typed, Reads, NEW t \in Turn, UNCHANGED <<deleted, history, since>>,
         NEW to \in {"rows", "ready"}, NEW rows,
         at' = [at EXCEPT ![t] = to], read' = [read EXCEPT ![t] = rows], Whole(rows),
         ~deleted => /\ since[t] <= Len(rows) /\ Len(rows) <= Len(history)
                     /\ to = "ready" => Faithful(rows, history)
  PROVE  Reads'
<1>1. SUFFICES ASSUME NEW u \in Turn
               PROVE  /\ at'[u] \in {"rows", "ready"} => Whole(read'[u])
                      /\ ~deleted' =>
                           /\ at'[u] = "arrived" => since'[u] <= Len(history')
                           /\ at'[u] \in {"rows", "ready"} =>
                                since'[u] <= Len(read'[u]) /\ Len(read'[u]) <= Len(history')
                           /\ at'[u] = "ready" => Faithful(read'[u], history')
  BY DEF Reads
<1>2. CASE u = t
  <2>1. at'[u] = to /\ read'[u] = rows /\ since'[u] = since[t]
    BY <1>2 DEF Typed
  <2>2. Faithful(rows, history) => Faithful(read'[u], history')
    BY <2>1 DEF Faithful
  <2> QED
    BY <2>1, <2>2
<1>3. CASE u # t
  <2>1. at'[u] = at[u] /\ since'[u] = since[u] /\ read'[u] = read[u]
    BY <1>3 DEF Typed
  <2>2. Faithful(read[u], history) => Faithful(read'[u], history')
    BY <2>1 DEF Faithful
  <2> QED
    BY <2>1, <2>2 DEF Reads
<1> QED
  BY <1>2, <1>3

\* The rows that the first SELECT returns.
LEMMA ReadInductive ==
  ASSUME Inductive, NEW t \in Turn, ReadMessages(t)
  PROVE  Inductive'
<1>1. Typed /\ Reads /\ Built /\ Whole(history)
  BY DEF Inductive
<1> DEFINE rows == [i \in 1 .. Len(history) |-> [history[i] EXCEPT !.photos = {}]]
<1>2. /\ UNCHANGED <<history, deleted, asked, since, sent>>
      /\ at[t] = "arrived"
      /\ at' = [at EXCEPT ![t] = "rows"]
      /\ read' = [read EXCEPT ![t] = rows]
  BY DEF ReadMessages
<1>3. Len(history) \in Nat /\ \A i \in 1 .. Len(history) : history[i] \in Message
  BY <1>1 DEF Whole
<1>4. \A i \in 1 .. Len(history) : rows[i] \in Message
  BY <1>3 DEF Message
<1>5. rows \in Seq(Message) /\ Len(rows) = Len(history)
  BY <1>3, <1>4
<1>6. \A i \in 1 .. Len(history) : rows[i].id = history[i].id /\ rows[i].role = history[i].role
  BY <1>3 DEF Message
<1> HIDE DEF rows
<1>7. Whole(rows)
  BY <1>1, <1>5, <1>6 DEF Whole
<1>8. Typed'
  BY <1>1, <1>2, <1>5 DEF Typed, Stages
<1>9. ~deleted => since[t] <= Len(rows) /\ Len(rows) <= Len(history)
  BY <1>1, <1>2, <1>3, <1>5 DEF Reads
<1>10. Reads'
  BY <1>1, <1>2, <1>7, <1>9, ReadsOfOne
<1> QED
  BY <1>1, <1>2, <1>8, <1>10, BuiltKept DEF Inductive

\* Their photos.
LEMMA AttachInductive ==
  ASSUME Inductive, NEW t \in Turn, AttachPhotos(t)
  PROVE  Inductive'
<1>1. Typed /\ Reads /\ Built /\ Whole(history)
  BY DEF Inductive
<1>2. PICK r : r = read[t]
  OBVIOUS
<1>3. /\ UNCHANGED <<history, deleted, asked, since, sent>>
      /\ at[t] = "rows"
      /\ at' = [at EXCEPT ![t] = "ready"]
      /\ read' = [read EXCEPT ![t] = Attached(r, history)]
  BY <1>2 DEF AttachPhotos
<1>4. Whole(r) /\ (~deleted => since[t] <= Len(r) /\ Len(r) <= Len(history))
  BY <1>1, <1>2, <1>3 DEF Reads
<1>5. /\ Len(history) \in Nat /\ \A i \in 1 .. Len(history) : history[i] \in Message
      /\ Len(r) \in Nat /\ \A i \in 1 .. Len(r) : r[i] \in Message
  BY <1>1, <1>4 DEF Whole
<1>6. Strays(r, history) \subseteq Nat
  <2>1. ASSUME NEW i \in Len(r) + 1 .. Len(history)
        PROVE  history[i].photos \subseteq Nat
    <3>1. i \in 1 .. Len(history)
      BY <1>5
    <3> QED
      BY <1>5, <3>1 DEF Message
  <2> QED
    BY <2>1 DEF Strays
<1> DEFINE ph(i) == (IF i <= Len(history) THEN history[i].photos ELSE {})
                      \cup (IF i = 1 THEN Strays(r, history) ELSE {})
<1>7. ASSUME NEW i \in 1 .. Len(r)
      PROVE  ph(i) \subseteq Nat
  <2>1. i <= Len(history) => history[i].photos \subseteq Nat
    <3>1. i <= Len(history) => i \in 1 .. Len(history)
      BY <1>5
    <3> QED
      BY <1>5, <3>1 DEF Message
  <2> QED
    BY <1>6, <2>1
<1>8. Attached(r, history) = [i \in 1 .. Len(r) |-> [r[i] EXCEPT !.photos = ph(i)]]
  BY DEF Attached
<1>9. \A i \in 1 .. Len(r) : /\ Attached(r, history)[i].id = r[i].id
                             /\ Attached(r, history)[i].role = r[i].role
                             /\ Attached(r, history)[i].photos = ph(i)
                             /\ Attached(r, history)[i] \in Message
  <2> HIDE DEF ph
  <2> QED
    BY <1>5, <1>7, <1>8 DEF Message
<1>10. Attached(r, history) \in Seq(Message) /\ Len(Attached(r, history)) = Len(r)
  <2> HIDE DEF ph
  <2> QED
    BY <1>5, <1>8, <1>9
<1>11. Whole(Attached(r, history))
  BY <1>4, <1>9, <1>10 DEF Whole
<1>12. ~deleted => Faithful(Attached(r, history), history)
  <2>1. SUFFICES ASSUME ~deleted
                 PROVE  Faithful(Attached(r, history), history)
    OBVIOUS
  <2>2. ASSUME NEW i \in 1 .. Len(r)
        PROVE  /\ history[i].photos \subseteq ph(i)
               /\ i # 1 => ph(i) = history[i].photos
    <3>1. i <= Len(history)
      BY <1>4, <1>5, <2>1
    <3> QED
      BY <3>1
  <2> HIDE DEF ph
  <2>3. PICK a : a = Attached(r, history)
    OBVIOUS
  <2>4. Len(a) = Len(r) /\ \A i \in 1 .. Len(r) : a[i].photos = ph(i)
    BY <1>9, <1>10, <2>3
  <2>5. Len(a) <= Len(history)
    BY <1>4, <2>1, <2>4
  <2>6. Faithful(a, history)
    BY <2>2, <2>4, <2>5 DEF Faithful
  <2> QED
    BY <2>3, <2>6
<1>13. Typed'
  BY <1>1, <1>3, <1>10 DEF Typed, Stages
<1>14. Reads'
  BY <1>1, <1>3, <1>4, <1>10, <1>11, <1>12, ReadsOfOne
<1> QED
  BY <1>1, <1>3, <1>13, <1>14, BuiltKept DEF Inductive

\* A call goes upstream.
LEMMA CallInductive ==
  ASSUME Inductive, NEW t \in Turn, NEW memory \in Memory \cup {NoMemory}, Call(t, memory)
  PROVE  Inductive'
<1>1. Typed /\ Reads /\ Built /\ Whole(history)
  BY DEF Inductive
<1>2. /\ UNCHANGED <<history, deleted, asked>>
      /\ at' = [at EXCEPT ![t] = "called"]
      /\ read' = [read EXCEPT ![t] = <<>>]
      /\ since' = [since EXCEPT ![t] = 0]
  BY DEF Call
<1>3. at'[t] = "called" /\ at' = [at EXCEPT ![t] = at'[t]]
  BY <1>1, <1>2 DEF Typed
<1>4. Typed'
  BY <1>1, <1>2 DEF Typed, Stages
<1>5. Reads'
  BY <1>1, <1>2, <1>3, ReadsKept
<1>6. Source(sent', read[t])
  BY CallBuilds
<1>7. Built'
  <2>1. PICK h : h = read[t]
    OBVIOUS
  <2>2. Source(sent', h)
    BY <1>6, <2>1
  <2>3. Source(sent, h)'
    BY <1>2, <2>2 DEF Source, Faithful
  <2> QED
    BY <2>3 DEF Built
<1> QED
  BY <1>1, <1>2, <1>4, <1>5, <1>7 DEF Inductive

\* What was read before the history grew is still a beginning of it.
LEMMA FaithfulAfter ==
  ASSUME Whole(history), Len(history) <= Len(history'), Len(history') \in Nat,
         \A i \in 1 .. Len(history) : history'[i] = history[i],
         NEW h, Whole(h), Faithful(h, history)
  PROVE  Faithful(h, history')
<1>1. Len(h) \in Nat /\ Len(history) \in Nat /\ Len(h) <= Len(history)
  BY DEF Whole, Faithful
<1>2. \A i \in 1 .. Len(h) : history'[i] = history[i]
  BY <1>1
<1> QED
  BY <1>1, <1>2 DEF Faithful

\* An exchange is stored.
LEMMA StoreInductive ==
  ASSUME Inductive, NEW t \in Turn, Store(t)
  PROVE  Inductive'
<1>1. Typed /\ Reads /\ Built /\ Whole(history)
  BY DEF Inductive
<1>2. /\ history' = Grown(history, asked[t])
      /\ ~deleted
      /\ UNCHANGED <<deleted, sent>>
      /\ at' = [at EXCEPT ![t] = "idle"]
      /\ asked' = [asked EXCEPT ![t] = FALSE]
      /\ since' = [since EXCEPT ![t] = 0]
      /\ read' = [read EXCEPT ![t] = <<>>]
  BY DEF Store, Leave
<1>3. asked[t] \in BOOLEAN
  BY <1>1 DEF Typed
<1>4. /\ Whole(history')
      /\ Len(history') = Len(history) + 2
      /\ \A i \in 1 .. Len(history) : history'[i] = history[i]
  BY <1>1, <1>2, <1>3, GrownKeeps
<1>5. Len(history) \in Nat /\ Len(history') \in Nat /\ Len(history) <= Len(history')
  BY <1>1, <1>4 DEF Whole
<1>6. Typed'
  BY <1>1, <1>2 DEF Typed, Stages
<1>7. Reads'
  <2>1. SUFFICES ASSUME NEW u \in Turn
                 PROVE  /\ at'[u] \in {"rows", "ready"} => Whole(read'[u])
                        /\ ~deleted' =>
                             /\ at'[u] = "arrived" => since'[u] <= Len(history')
                             /\ at'[u] \in {"rows", "ready"} =>
                                  since'[u] <= Len(read'[u]) /\ Len(read'[u]) <= Len(history')
                             /\ at'[u] = "ready" => Faithful(read'[u], history')
    BY DEF Reads
  <2>2. CASE u = t
    <3>1. at'[u] = "idle"
      BY <1>1, <1>2, <2>2 DEF Typed
    <3> QED
      BY <3>1
  <2>3. CASE u # t
    <3>1. at'[u] = at[u] /\ since'[u] = since[u] /\ read'[u] = read[u]
      BY <1>1, <1>2, <2>3 DEF Typed
    <3>2. since[u] \in Nat /\ Len(read[u]) \in Nat
      BY <1>1 DEF Typed
    <3>3. at[u] = "ready" => Faithful(read'[u], history')
      <4>1. PICK h : h = read[u]
        OBVIOUS
      <4>2. at[u] = "ready" => Whole(h) /\ Faithful(h, history)
        BY <1>1, <1>2, <4>1 DEF Reads
      <4>3. at[u] = "ready" => Faithful(h, history')
        BY <1>1, <1>4, <1>5, <4>2, FaithfulAfter
      <4>4. read'[u] = h
        BY <3>1, <4>1
      <4> QED
        BY <4>3, <4>4 DEF Faithful
    <3>4. /\ at[u] \in {"rows", "ready"} => Whole(read[u])
          /\ at[u] = "arrived" => since[u] <= Len(history)
          /\ at[u] \in {"rows", "ready"} => since[u] <= Len(read[u]) /\ Len(read[u]) <= Len(history)
      BY <1>1, <1>2 DEF Reads
    <3> QED
      BY <1>5, <3>1, <3>2, <3>3, <3>4
  <2> QED
    BY <2>2, <2>3
<1>8. Built'
  <2>1. ASSUME NEW h, Source(sent, h)
        PROVE  Source(sent, h)'
    <3>1. Whole(h) /\ Faithful(h, history) /\ BuiltFrom(sent, h, Len(h) + 1)
      BY <1>2, <2>1 DEF Source
    <3>2. Faithful(h, history')
      BY <1>1, <1>4, <1>5, <3>1, FaithfulAfter
    <3> QED
      BY <1>2, <3>1, <3>2 DEF Source
  <2> QED
    BY <1>1, <1>2, <2>1 DEF Built
<1> QED
  BY <1>4, <1>6, <1>7, <1>8 DEF Inductive

\* A turn gives up.
LEMMA AbandonInductive ==
  ASSUME Inductive, NEW t \in Turn, Abandon(t)
  PROVE  Inductive'
<1>1. Typed /\ Reads /\ Built /\ Whole(history)
  BY DEF Inductive
<1>2. /\ UNCHANGED <<history, deleted, sent>>
      /\ at' = [at EXCEPT ![t] = "idle"]
      /\ asked' = [asked EXCEPT ![t] = FALSE]
      /\ since' = [since EXCEPT ![t] = 0]
      /\ read' = [read EXCEPT ![t] = <<>>]
  BY DEF Abandon, Leave
<1>3. at'[t] = "idle" /\ at' = [at EXCEPT ![t] = at'[t]]
  BY <1>1, <1>2 DEF Typed
<1>4. Typed'
  BY <1>1, <1>2 DEF Typed, Stages
<1>5. Reads'
  BY <1>1, <1>2, <1>3, ReadsKept
<1> QED
  BY <1>1, <1>2, <1>4, <1>5, BuiltKept DEF Inductive

\* The conversation goes.
LEMMA DeleteInductive ==
  ASSUME Inductive, Delete
  PROVE  Inductive'
<1>1. Typed /\ Reads /\ Built /\ Whole(history)
  BY DEF Inductive
<1>2. deleted' = TRUE /\ history' = <<>> /\ UNCHANGED <<at, asked, since, read, sent>>
  BY DEF Delete
<1>3. Whole(history')
  BY <1>2 DEF Whole
<1>4. Typed'
  BY <1>1, <1>2 DEF Typed
<1>5. Reads'
  BY <1>1, <1>2 DEF Reads
<1>6. Built'
  <2>1. ASSUME NEW h, Source(sent, h)
        PROVE  Source(sent, h)'
    BY <1>2, <2>1 DEF Source
  <2> QED
    BY <1>1, <1>2, <2>1 DEF Built
<1> QED
  BY <1>3, <1>4, <1>5, <1>6 DEF Inductive

\* Every step keeps the invariant.
LEMMA NextInductive ==
  Inductive /\ [Next]_vars => Inductive'
<1> SUFFICES ASSUME Inductive, [Next]_vars
             PROVE  Inductive'
  OBVIOUS
<1>1. ASSUME NEW t \in Turn, NEW photos \in BOOLEAN, Arrive(t, photos)
      PROVE  Inductive'
  BY <1>1, ArriveInductive
<1>2. ASSUME NEW t \in Turn, NEW memory \in Memory \cup {NoMemory}, Call(t, memory)
      PROVE  Inductive'
  BY <1>2, CallInductive
<1>3. ASSUME NEW t \in Turn, ReadMessages(t) \/ AttachPhotos(t) \/ Store(t) \/ Abandon(t)
      PROVE  Inductive'
  BY <1>3, ReadInductive, AttachInductive, StoreInductive, AbandonInductive
<1>4. CASE Delete
  BY <1>4, DeleteInductive
<1>5. CASE UNCHANGED vars
  <2>1. UNCHANGED <<history, deleted, at, asked, since, read, sent>>
    BY <1>5 DEF vars
  <2>2. Whole(history') /\ Typed' /\ Reads'
    BY <2>1 DEF Inductive, Typed, Reads
  <2> QED
    BY <2>1, <2>2, BuiltKept DEF Inductive
<1> QED
  BY <1>1, <1>2, <1>3, <1>4, <1>5 DEF Next

\* The history consists of whole exchanges, what a turn has read is a beginning
\* of it but for photos gone astray, and the input of the latest call was built
\* from such a reading, however old, and the new message.
THEOREM InductiveHolds == Spec => []Inductive
BY InitInductive, NextInductive, PTL DEF Spec

-----------------------------------------------------------------------------
(* What the invariants say of an input.                                     *)

\* The ids and roles of an input that was built, in plain arithmetic.
LEMMA InputShape ==
  ASSUME NEW in, NEW h, NEW n \in Nat, n % 2 = 1, BuiltFrom(in, h, n),
         NEW w, w = WindowStart(n)
  PROVE  /\ w \in Nat /\ w % 2 = 0 /\ w < n
         /\ w # 0 => n - w >= KeepMessages
         /\ n - w < KeepMessages + TrimStep
         /\ in \in Seq(InputMessage) /\ Len(in) = n - w /\ Len(in) > 0
         /\ \A i \in 1 .. Len(in) - 1 : in[i].id = w + i /\ in[i].role = RoleAt(i)
         /\ in[Len(in)].id = 0
         /\ in[Len(in)].role = RoleAt(Len(in))
<1>1. n \in Nat \ {0}
  OBVIOUS
<1>2. /\ w \in Nat /\ w % 2 = 0 /\ w < n
      /\ w # 0 => n - w >= KeepMessages
      /\ n - w < KeepMessages + TrimStep
  BY <1>1, WindowStartBounds
<1>3. in \in Seq(InputMessage) /\ Len(in) = n - w
  BY DEF BuiltFrom
<1>4. ASSUME NEW i \in 1 .. Len(in) - 1
      PROVE  in[i].id = w + i /\ in[i].role = RoleAt(i)
  <2>1. in[i] = OldMessage(h, i, n)
    BY DEF BuiltFrom
  <2>2. OldMessage(h, i, n).id = w + i /\ OldMessage(h, i, n).role = RoleAt(i)
    BY DEF OldMessage
  <2> QED
    BY <2>1, <2>2
<1>5. in[Len(in)].id = 0 /\ in[Len(in)].role = "user"
  BY DEF BuiltFrom
<1>6. RoleAt(Len(in)) = "user"
  <2>1. PICK v \in Nat : w = 2 * v
    BY <1>2
  <2>2. (n - w) % 2 = 1
    BY <1>2, <2>1
  <2> QED
    BY <1>3, <2>2 DEF RoleAt
<1> QED
  BY <1>2, <1>3, <1>4, <1>5, <1>6

\* The first id of an input with a history is one more than what was dropped.
LEMMA FirstId ==
  ASSUME NEW in, NEW h, NEW n \in Nat, n % 2 = 1, BuiltFrom(in, h, n), Len(in) > 1
  PROVE  in[1].id = WindowStart(n) + 1
<1>1. PICK w : w = WindowStart(n)
  OBVIOUS
<1>2. in \in Seq(InputMessage) /\ \A i \in 1 .. Len(in) - 1 : in[i].id = w + i
  BY <1>1, InputShape
<1>3. 1 \in 1 .. Len(in) - 1
  <2>1. Len(in) \in Nat
    BY <1>2
  <2> QED
    BY <2>1
<1> QED
  BY <1>1, <1>2, <1>3

\* What a call was made from, in plain arithmetic.
LEMMA SourceShape ==
  ASSUME NEW in, NEW h, Source(in, h)
  PROVE  /\ Len(h) \in Nat
         /\ Len(h) + 1 \in Nat
         /\ (Len(h) + 1) % 2 = 1
         /\ BuiltFrom(in, h, Len(h) + 1)
         /\ WindowStart(Len(h) + 1) \in Nat
         /\ Len(in) = Len(h) + 1 - WindowStart(Len(h) + 1)
         /\ Len(in) \in Nat /\ Len(in) > 0
<1>1. Len(h) \in Nat /\ Len(h) % 2 = 0
  BY DEF Source, Whole
<1>2. Len(h) + 1 \in Nat /\ (Len(h) + 1) % 2 = 1
  BY <1>1
<1>3. BuiltFrom(in, h, Len(h) + 1)
  BY DEF Source
<1>4. /\ WindowStart(Len(h) + 1) \in Nat
      /\ Len(in) = Len(h) + 1 - WindowStart(Len(h) + 1)
      /\ in \in Seq(InputMessage) /\ Len(in) > 0
  BY <1>2, <1>3, InputShape
<1> QED
  BY <1>1, <1>2, <1>3, <1>4

\* The last stored message that is shown is the last that was read.
LEMMA NewestRead ==
  ASSUME NEW in, NEW h, Source(in, h), Len(in) > 1
  PROVE  Newest(in) = Len(h)
<1>1. PICK n \in Nat : n = Len(h) + 1 /\ n % 2 = 1 /\ BuiltFrom(in, h, n)
  BY SourceShape
<1>2. PICK w : w = WindowStart(n)
  OBVIOUS
<1>3. /\ w \in Nat /\ Len(in) = n - w
      /\ \A i \in 1 .. Len(in) - 1 : in[i].id = w + i
  BY <1>1, <1>2, InputShape
<1>4. Len(in) - 1 \in 1 .. Len(in) - 1
  <2>1. Len(in) \in Nat
    BY SourceShape
  <2> QED
    BY <2>1
<1>5. in[Len(in) - 1].id = w + (Len(in) - 1)
  BY <1>3, <1>4
<1>6. Newest(in) = in[Len(in) - 1].id
  BY DEF Newest
<1>7. Len(h) \in Nat
  BY SourceShape
<1> QED
  BY <1>1, <1>3, <1>5, <1>6, <1>7

\* Every variable keeps its type.
THEOREM TypeCorrect == Spec => []TypeOK
<1>1. Inductive => TypeOK
  <2>1. <<>> \in Seq(InputMessage)
    OBVIOUS
  <2>2. Built => sent \in Seq(InputMessage)
    BY <2>1 DEF Built, Source, BuiltFrom
  <2>3. Whole(history) => history \in Seq(Message)
    BY DEF Whole
  <2> QED
    BY <2>2, <2>3 DEF Inductive, Typed, TypeOK
<1> QED
  BY <1>1, InductiveHolds, PTL

\* recent drops an even number of messages, so the input of every call starts on
\* a user message and the roles take turns, without the loop that skips answers.
THEOREM RolesTakeTurnsHolds == Spec => []RolesTakeTurns
<1>1. ASSUME Inductive, NEW i \in 1 .. Len(sent)
      PROVE  sent[i].role = RoleAt(i)
  <2>1. CASE sent = <<>>
    BY <2>1
  <2>2. CASE sent # <<>>
    <3>1. PICK h : Source(sent, h)
      BY <1>1, <2>2 DEF Inductive, Built
    <3>2. PICK n \in Nat : n % 2 = 1 /\ BuiltFrom(sent, h, n)
      BY <3>1, SourceShape
    <3>3. PICK w : w = WindowStart(n)
      OBVIOUS
    <3>4. /\ Len(sent) \in Nat
          /\ \A j \in 1 .. Len(sent) - 1 : sent[j].role = RoleAt(j)
          /\ sent[Len(sent)].role = RoleAt(Len(sent))
      BY <3>2, <3>3, InputShape
    <3>5. i = Len(sent) \/ i \in 1 .. Len(sent) - 1
      BY <3>4
    <3> QED
      BY <3>4, <3>5
  <2> QED
    BY <2>1, <2>2
<1>2. Inductive => RolesTakeTurns
  BY <1>1 DEF RolesTakeTurns, RoleAt
<1> QED
  BY <1>2, InductiveHolds, PTL

-----------------------------------------------------------------------------
(* What the invariants say of calls.                                        *)

\* An input that was built is a window.
LEMMA SourceIsWindow ==
  ASSUME NEW in, NEW h, Source(in, h)
  PROVE  IsWindow(in)
<1>1. PICK m \in Nat : m % 2 = 1 /\ BuiltFrom(in, h, m)
  BY SourceShape
<1>2. PICK w : w = WindowStart(m)
  OBVIOUS
<1>3. PICK n \in Nat : n = Len(in) /\ n > 0
  BY SourceShape
<1>4. /\ w \in Nat /\ n = m - w
      /\ w # 0 => m - w >= KeepMessages
      /\ m - w < KeepMessages + TrimStep
      /\ \A i \in 1 .. n - 1 : in[i].id = w + i
      /\ in[n].id = 0
  BY <1>1, <1>2, <1>3, InputShape
<1>5. ASSUME NEW i \in 1 .. n - 2
      PROVE  in[i + 1].id = in[i].id + 1
  <2>1. i \in 1 .. n - 1 /\ i + 1 \in 1 .. n - 1
    BY <1>3
  <2>2. in[i].id = w + i /\ in[i + 1].id = w + (i + 1)
    BY <1>4, <2>1
  <2> QED
    BY <1>4, <2>2
<1>6. in[1].id \notin {0, 1} => n >= KeepMessages
  <2>1. SUFFICES ASSUME in[1].id \notin {0, 1}
                 PROVE  w # 0
    BY <1>4
  <2>2. n # 1
    BY <1>4, <2>1
  <2>3. 1 \in 1 .. n - 1
    BY <1>3, <2>2
  <2> QED
    BY <1>4, <2>1, <2>3
<1> QED
  BY <1>3, <1>4, <1>5, <1>6 DEF IsWindow

\* A turn waits for its answer once it has called, and not before.
LEMMA OnlyCallCalls ==
  ASSUME Typed, [Next]_vars, NEW t \in Turn, Calls(t)
  PROVE  \E memory \in Memory \cup {NoMemory} : Call(t, memory)
<1>1. at[t] = "ready" /\ at'[t] = "called" /\ at \in [Turn -> Stages]
  BY DEF Calls, Typed
<1>2. ASSUME NEW u \in Turn, NEW to \in Stages \ {"called"}, at' = [at EXCEPT ![u] = to]
      PROVE  FALSE
  BY <1>1, <1>2
<1>3. ASSUME NEW u \in Turn, NEW photos \in BOOLEAN, Arrive(u, photos)
      PROVE  FALSE
  BY <1>2, <1>3 DEF Arrive, Stages
<1>4. ASSUME NEW u \in Turn, ReadMessages(u) \/ AttachPhotos(u) \/ Store(u) \/ Abandon(u)
      PROVE  FALSE
  BY <1>2, <1>4 DEF ReadMessages, AttachPhotos, Store, Abandon, Leave, Stages
<1>5. CASE Delete
  BY <1>1, <1>5 DEF Delete
<1>6. CASE UNCHANGED vars
  BY <1>1, <1>6 DEF vars
<1>7. ASSUME NEW u \in Turn, NEW memory \in Memory \cup {NoMemory}, Call(u, memory)
      PROVE  \E mem \in Memory \cup {NoMemory} : Call(t, mem)
  <2>1. at' = [at EXCEPT ![u] = "called"]
    BY <1>7 DEF Call
  <2>2. u = t
    BY <1>1, <2>1
  <2> QED
    BY <1>7, <2>2
<1> QED
  BY <1>3, <1>4, <1>5, <1>6, <1>7 DEF Next

\* An input is made by a call, from what its turn has read.
LEMMA InputsInARow ==
  ASSUME Inductive, [Next]_vars, sent' # sent
  PROVE  /\ \E g : Source(sent', g)
         /\ sent # <<>> => \E h : Source(sent, h)
         /\ UNCHANGED <<history, deleted>>
<1>1. PICK t \in Turn, memory \in Memory \cup {NoMemory} : Call(t, memory)
  BY DEF Next, vars, Arrive, ReadMessages, AttachPhotos, Store, Abandon, Leave, Delete
<1>2. Source(sent', read[t])
  BY <1>1, CallBuilds
<1>3. \E g : Source(sent', g)
  BY <1>2
<1>4. UNCHANGED <<history, deleted>>
  BY <1>1 DEF Call
<1> QED
  BY <1>3, <1>4 DEF Inductive, Built

\* What a call shows is a part of the conversation without a gap that goes on at
\* least to the newest message there was when its turn arrived; it is of at least
\* keepMessages once trimmed and never as long as keepMessages and a trimStep.
\* A window of a single message would show nothing of the history.
THEOREM WindowIsRecentHolds ==
  ASSUME KeepMessages > 1
  PROVE  Spec => WindowIsRecent
<1>1. ASSUME Inductive, [Next]_vars
      PROVE  IsWindow(sent')
  <2>1. CASE sent' # sent
    <3>1. PICK g : Source(sent', g)
      BY <1>1, <2>1, InputsInARow
    <3> QED
      BY <3>1, SourceIsWindow
  <2>2. CASE sent' = sent /\ sent # <<>>
    <3>1. PICK h : Source(sent, h)
      BY <1>1, <2>2 DEF Inductive, Built
    <3> QED
      BY <2>2, <3>1, SourceIsWindow
  <2>3. CASE sent' = sent /\ sent = <<>>
    BY <2>3 DEF IsWindow
  <2> QED
    BY <2>1, <2>2, <2>3
<1>2. ASSUME Inductive, [Next]_vars, NEW t \in Turn, Calls(t), ~deleted
      PROVE  Newest(sent') >= since[t]
  <2>1. PICK memory \in Memory \cup {NoMemory} : Call(t, memory)
    BY <1>2, OnlyCallCalls DEF Inductive
  <2>2. Source(sent', read[t])
    BY <1>2, <2>1, CallBuilds
  <2>3. since[t] \in Nat /\ since[t] <= Len(read[t])
    BY <1>2 DEF Inductive, Typed, Reads, Calls
  <2>4. PICK g : g = read[t]
    OBVIOUS
  <2>5. Source(sent', g) /\ since[t] <= Len(g)
    BY <2>2, <2>3, <2>4
  <2>6. /\ Len(g) \in Nat
        /\ Len(sent') \in Nat /\ Len(sent') > 0
        /\ WindowStart(Len(g) + 1) \in Nat
        /\ Len(sent') = Len(g) + 1 - WindowStart(Len(g) + 1)
    BY <2>5, SourceShape
  <2>7. CASE Len(sent') > 1
    <3>1. Newest(sent') = Len(g)
      BY <2>5, <2>7, NewestRead
    <3> QED
      BY <2>3, <2>5, <2>6, <3>1
  <2>8. CASE ~(Len(sent') > 1)
    <3>1. WindowStart(Len(g) + 1) = 0
      <4>1. PICK n \in Nat \ {0} : n = Len(g) + 1
        BY <2>6
      <4>2. WindowStart(n) # 0 => n - WindowStart(n) >= KeepMessages
        BY WindowStartBounds
      <4> QED
        BY <2>6, <2>8, <4>1, <4>2, Constants
    <3>2. Len(g) = 0
      BY <2>6, <2>8, <3>1
    <3>3. Newest(sent') = 0
      BY <2>8 DEF Newest
    <3> QED
      BY <2>3, <2>5, <3>2, <3>3
  <2> QED
    BY <2>7, <2>8
<1>3. Inductive /\ [Next]_vars =>
        [/\ IsWindow(sent')
         /\ \A t \in Turn : Calls(t) /\ ~deleted => Newest(sent') >= since[t]]_<<at, sent>>
  BY <1>1, <1>2
<1> QED
  BY <1>3, InductiveHolds, PTL DEF Spec, WindowIsRecent

\* Where the windows of two calls in a row start alike, the inputs say the same
\* but for the last photoMessages messages of the shorter, whichever history was
\* read first and however many exchanges were stored in between; photos gone
\* astray are the one exception.
THEOREM PrefixSurvivesHolds == Spec => PrefixSurvives
<1>1. ASSUME Inductive, [Next]_vars, sent' # sent, SameStart(sent, sent'), ~deleted,
             NEW i \in 1 .. Len(sent) - PhotoMessages, i <= Len(sent') - PhotoMessages
      PROVE  sent'[i] = sent[i] \/ GoneAstray(sent'[i], sent[i])
  <2>1. PICK g : Source(sent', g)
    BY <1>1, InputsInARow
  <2>2. PICK h : Source(sent, h)
    BY <1>1, InputsInARow DEF SameStart
  <2>3. PICK m \in Nat : m = Len(g) + 1 /\ m % 2 = 1 /\ BuiltFrom(sent', g, m)
    BY <2>1, SourceShape
  <2>4. PICK n \in Nat : n = Len(h) + 1 /\ n % 2 = 1 /\ BuiltFrom(sent, h, n)
    BY <2>2, SourceShape
  <2>5. PICK w \in Nat : w = WindowStart(n) /\ Len(sent) = n - w
    BY <2>2, <2>4, SourceShape
  <2>6. PICK v \in Nat : v = WindowStart(m) /\ Len(sent') = m - v
    BY <2>1, <2>3, SourceShape
  <2>7. i \in Nat /\ i >= 1 /\ i + PhotoMessages <= n - w /\ i + PhotoMessages <= m - v
    <3>1. i \in 1 .. (n - w) - PhotoMessages /\ i <= (m - v) - PhotoMessages
      BY <1>1, <2>5, <2>6
    <3> QED
      BY <3>1, Constants
  <2>8. Len(sent) > 1 /\ Len(sent') > 1
    BY <2>5, <2>6, <2>7, Constants
  <2>9. sent[1].id = w + 1 /\ sent'[1].id = v + 1
    BY <2>3, <2>4, <2>5, <2>6, <2>8, FirstId
  <2>10. v = w
    <3>1. sent[1].id = sent'[1].id
      BY <1>1 DEF SameStart
    <3>2. w + 1 = v + 1
      BY <2>9, <3>1
    <3> QED
      BY <3>2
  <2>11. i \in 1 .. Len(sent) - 1 /\ i \in 1 .. Len(sent') - 1
    BY <2>5, <2>6, <2>7, Constants
  <2>12. sent[i] = OldMessage(h, i, n) /\ sent'[i] = OldMessage(g, i, m)
    BY <2>3, <2>4, <2>11 DEF BuiltFrom
  <2>13. ~ShowsPhotos(i, n - w) /\ ~ShowsPhotos(i, m - w)
    BY <2>7, <2>10, Constants DEF ShowsPhotos
  <2>14. /\ sent[i] = [id |-> w + i, role |-> RoleAt(i), images |-> {},
                       noted |-> h[w + i].photos, memory |-> NoMemory]
         /\ sent'[i] = [id |-> w + i, role |-> RoleAt(i), images |-> {},
                        noted |-> g[w + i].photos, memory |-> NoMemory]
    BY <2>5, <2>6, <2>10, <2>12, <2>13 DEF OldMessage
  <2>15. Faithful(h, history) /\ Faithful(g, history)
    BY <1>1, <2>1, <2>2 DEF Source
  <2>16. PICK k \in Nat : k = w + i /\ k \in 1 .. Len(h) /\ k \in 1 .. Len(g)
    <3>1. Len(h) \in Nat /\ Len(g) \in Nat
      BY <2>1, <2>2, SourceShape
    <3> QED
      BY <2>3, <2>4, <2>7, <2>10, <3>1, Constants
  <2>17. CASE k # 1
    <3>1. h[k].photos = history[k].photos
      BY <2>15, <2>16, <2>17, Zenon DEF Faithful
    <3>2. g[k].photos = history[k].photos
      BY <2>15, <2>16, <2>17, Zenon DEF Faithful
    <3> QED
      BY <2>14, <2>16, <3>1, <3>2
  <2>18. CASE k = 1
    <3>1. PICK a : a = h[1].photos
      OBVIOUS
    <3>2. PICK b : b = g[1].photos
      OBVIOUS
    <3>3. history[1].photos \subseteq a /\ history[1].photos \subseteq b
      <4>1. 1 \in 1 .. Len(h) /\ 1 \in 1 .. Len(g)
        BY <2>16, <2>18
      <4>2. history[1].photos \subseteq h[1].photos
        BY <2>15, <4>1, Zenon DEF Faithful
      <4>3. history[1].photos \subseteq g[1].photos
        BY <2>15, <4>1, Zenon DEF Faithful
      <4> QED
        BY <3>1, <3>2, <4>2, <4>3
    <3>4. i = 1 /\ RoleAt(i) = "user"
      BY <2>7, <2>16, <2>18 DEF RoleAt
    <3>5. /\ sent[i] = [id |-> 1, role |-> "user", images |-> {}, noted |-> a, memory |-> NoMemory]
          /\ sent'[i] = [id |-> 1, role |-> "user", images |-> {}, noted |-> b, memory |-> NoMemory]
      BY <2>14, <2>16, <2>18, <3>1, <3>2, <3>4
    <3>6. CASE a = b
      BY <3>5, <3>6
    <3>7. CASE a # b
      <4>1. history[1].photos # a \/ history[1].photos # b
        BY <3>7
      <4>2. PICK x : x = sent[i]
        OBVIOUS
      <4>3. PICK y : y = sent'[i]
        OBVIOUS
      <4>4. x.id = 1 /\ x.role = "user" /\ x.memory = NoMemory /\ x.images \cup x.noted = a
        BY <3>5, <4>2
      <4>5. y.id = 1 /\ y.role = "user" /\ y.memory = NoMemory /\ y.images \cup y.noted = b
        BY <3>5, <4>3
      <4>6. GoneAstray(y, x)
        BY <3>3, <4>1, <4>4, <4>5 DEF GoneAstray
      <4> QED
        BY <4>2, <4>3, <4>6
    <3> QED
      BY <3>6, <3>7
  <2> QED
    BY <2>17, <2>18
<1>2. Inductive /\ [Next]_vars =>
        [SameStart(sent, sent') /\ ~deleted =>
          \A i \in 1 .. Len(sent) - PhotoMessages :
             i <= Len(sent') - PhotoMessages =>
                \/ sent'[i] = sent[i]
                \/ GoneAstray(sent'[i], sent[i])]_sent
  BY <1>1
<1> QED
  BY <1>2, InductiveHolds, PTL DEF Spec, PrefixSurvives

\* From a call to the next the window stays, or moves by trimStep messages or
\* more, forward for a turn that read more and back for one that read less.
THEOREM WindowMovesInJumpsHolds == Spec => WindowMovesInJumps
<1>1. ASSUME Inductive, [Next]_vars, sent' # sent,
             Len(sent) > 1, Len(sent') > 1, ~SameStart(sent, sent')
      PROVE  \/ /\ Newest(sent') > Newest(sent)
                /\ sent'[1].id >= sent[1].id + TrimStep
             \/ /\ Newest(sent') < Newest(sent)
                /\ sent[1].id >= sent'[1].id + TrimStep
  <2>1. sent # <<>> /\ sent' # <<>>
    BY <1>1
  <2>2. PICK g : Source(sent', g)
    BY <1>1, InputsInARow
  <2>3. PICK h : Source(sent, h)
    BY <1>1, <2>1, InputsInARow
  <2>4. PICK m \in Nat : m = Len(g) + 1 /\ Len(g) \in Nat /\ m % 2 = 1 /\ BuiltFrom(sent', g, m)
    BY <2>2, SourceShape
  <2>5. PICK n \in Nat : n = Len(h) + 1 /\ Len(h) \in Nat /\ n % 2 = 1 /\ BuiltFrom(sent, h, n)
    BY <2>3, SourceShape
  <2>6. PICK w \in Nat : w = WindowStart(n)
    BY <2>3, <2>5, SourceShape
  <2>7. PICK v \in Nat : v = WindowStart(m)
    BY <2>2, <2>4, SourceShape
  <2>8. sent[1].id = w + 1 /\ sent'[1].id = v + 1
    BY <1>1, <2>4, <2>5, <2>6, <2>7, FirstId
  <2>9. Newest(sent) = Len(h) /\ Newest(sent') = Len(g)
    BY <1>1, <2>2, <2>3, NewestRead
  <2>10. v # w
    BY <1>1, <2>1, <2>8 DEF SameStart
  <2>11. CASE n <= m
    <3>1. w + TrimStep <= v
      BY <2>6, <2>7, <2>10, <2>11, WindowStartMoves
    <3>2. n # m
      BY <2>6, <2>7, <2>10
    <3> QED
      BY <2>4, <2>5, <2>8, <2>9, <2>11, <3>1, <3>2, Constants
  <2>12. CASE m <= n
    <3>1. v + TrimStep <= w
      BY <2>6, <2>7, <2>10, <2>12, WindowStartMoves
    <3>2. n # m
      BY <2>6, <2>7, <2>10
    <3> QED
      BY <2>4, <2>5, <2>8, <2>9, <2>12, <3>1, <3>2, Constants
  <2> QED
    BY <2>11, <2>12
<1>2. Inductive /\ [Next]_vars =>
        [Len(sent) > 1 /\ Len(sent') > 1 /\ ~SameStart(sent, sent') =>
          \/ /\ Newest(sent') > Newest(sent)
             /\ sent'[1].id >= sent[1].id + TrimStep
          \/ /\ Newest(sent') < Newest(sent)
             /\ sent[1].id >= sent'[1].id + TrimStep]_sent
  BY <1>1
<1> QED
  BY <1>2, InductiveHolds, PTL DEF Spec, WindowMovesInJumps

=============================================================================
