---------------------------- MODULE GatewayProofs ---------------------------
(***************************************************************************)
(* Theorems about Gateway, for any addresses, lists, secrets, lifetimes,   *)
(* connections and restarts: whom a process lets in, and whose budget a    *)
(* request spends.                                                         *)
(*                                                                         *)
(* Where says which layer stands at which place for which route.  Good is  *)
(* what a request carries with it from layer to layer, Earned what is true *)
(* of every token that was ever handed out.                                *)
(***************************************************************************)
EXTENDS Gateway, TLAPS

\* The token it shows.
Carried(r) == input[r].token

ReadSpent(r) == [budget |-> "readBudget", key |-> input[r].from, req |-> r] \in spent

SignInSpent(r) == [budget |-> "signInBudget", key |-> input[r].from, req |-> r] \in spent

MessageSpent(r) == [budget |-> "messageBudget", key |-> owner[r], req |-> r] \in spent

\* Where a request is, and what it has gone through by then.
Good(r) ==
    /\ Active(r) => pc[r] \in 1 .. Len(Layers(r))
    /\ conf = Down => pc[r] = 0 \/ status[r] # "none"
    /\ input[r].preflight => pc[r] <= 3
    /\ pc[r] >= 5 => ReadSpent(r)
    /\ input[r].route \in Ways /\ pc[r] >= 6 => SignInSpent(r)
    /\ input[r].route = "send" /\ pc[r] >= 6 =>
          owner[r] \in Account /\ Carried(r) # None /\ owner[r] = Carried(r).email
    /\ input[r].route = "send" /\ pc[r] >= 7 => MessageSpent(r)
    /\ status[r] \in {"200", "401", "403", "404", "500", "502"} => pc[r] >= 5
    /\ status[r] \in {"200", "401", "403", "502"} /\ input[r].route \in Ways => pc[r] >= 6
    /\ status[r] \in {"200", "500"} /\ input[r].route = "send" => pc[r] >= 7
    /\ Carried(r) \in tokens \cup {None}

\* What was spent, was spent by those who had to.
Spending ==
    \A s \in spent :
       /\ ~input[s.req].preflight
       /\ IF s.budget = "messageBudget"
          THEN s.key # None /\ input[s.req].token.email = s.key
          ELSE s.key = input[s.req].from

\* What is true of every token, in the process that runs.
Earned ==
    /\ \A k \in tokens :
          /\ k.expires = (k.at + k.ttl * Second) \div Second
          /\ k.by <= starts
          /\ k.by = starts /\ k.how \in Ways /\ conf # Down =>
                k.secret = conf.secret /\ k.email \in conf.allowed
    /\ conf # Down => conf.owner \in conf.allowed

Inv == TypeOK /\ Spending /\ Earned /\ \A r \in Req : Good(r)

-----------------------------------------------------------------------------
(* Time                                                                     *)

\* What the prover knows of \\div.
LEMMA Quotient ==
  ASSUME NEW x \in Nat, NEW d \in Nat \ {0}
  PROVE  x \div d \in Nat /\ d * (x \div d) <= x /\ x < d * (x \div d) + d
OBVIOUS

\* Truncated times compare as the times do.
LEMMA LaterQuotient ==
  ASSUME NEW x \in Nat, NEW y \in Nat, NEW d \in Nat \ {0}
  PROVE  /\ x \div d < y \div d => x < y
         /\ x + d <= y => x \div d < y \div d
<1>1. PICK a \in Nat : a = x \div d /\ d * a <= x /\ x < d * a + d
  BY Quotient
<1>2. PICK b \in Nat : b = y \div d /\ d * b <= y /\ y < d * b + d
  BY Quotient
<1>3. ASSUME a < b PROVE x < y
  <2>1. a + 1 <= b
    BY <1>3
  <2>2. d * (a + 1) <= d * b
    BY <2>1
  <2>3. d * (a + 1) = d * a + d
    OBVIOUS
  <2> QED BY <1>1, <1>2, <2>2, <2>3
<1>4. ASSUME x + d <= y, b <= a PROVE FALSE
  <2>1. d * b <= d * a
    BY <1>4
  <2> QED BY <1>1, <1>2, <1>4, <2>1
<1> QED BY <1>1, <1>2, <1>3, <1>4

-----------------------------------------------------------------------------
(* Layers                                                                   *)

\* Every layer there is.
Layer == {"recover", "log", "cors", "readBudget", "signInBudget", "signIn", "logIn",
          "auth", "messageBudget", "handler", "health", "notFound"}

\* A sequence after another, and after one of four.
LEMMA Length ==
  ASSUME NEW S, NEW s \in Seq(S), NEW t \in Seq(S)
  PROVE  Len(s \o t) = Len(s) + Len(t)
OBVIOUS

LEMMA First ==
  ASSUME NEW S, NEW s \in Seq(S), NEW t \in Seq(S), NEW i \in 1 .. Len(s)
  PROVE  (s \o t)[i] = s[i]
OBVIOUS

LEMMA Rest ==
  ASSUME NEW S, NEW s \in Seq(S), NEW t \in Seq(S), NEW i \in 1 .. Len(t), NEW m, m = Len(s)
  PROVE  (s \o t)[m + i] = t[i]
OBVIOUS

LEMMA Joined ==
  ASSUME NEW S, NEW s \in Seq(S), NEW t \in Seq(S), Len(s) = 4
  PROVE  /\ Len(s \o t) = 4 + Len(t)
         /\ \A i \in 1 .. 4 : (s \o t)[i] = s[i]
         /\ \A i \in 1 .. Len(t) : (s \o t)[4 + i] = t[i]
<1>1. Len(s \o t) = 4 + Len(t)
  <2>1. Len(s \o t) = Len(s) + Len(t)
    BY ONLY s \in Seq(S), t \in Seq(S), Length, Zenon
  <2> QED BY <2>1, Zenon
<1>2. ASSUME NEW i \in 1 .. 4 PROVE (s \o t)[i] = s[i]
  <2>1. i \in 1 .. Len(s)
    BY Zenon
  <2> QED BY ONLY s \in Seq(S), t \in Seq(S), <2>1, First, Zenon
<1>3. ASSUME NEW i \in 1 .. Len(t) PROVE (s \o t)[4 + i] = t[i]
  <2>1. (s \o t)[Len(s) + i] = t[i]
    BY ONLY s \in Seq(S), t \in Seq(S), i \in 1 .. Len(t), Rest
  <2> QED BY <2>1, Zenon
<1> QED BY <1>1, <1>2, <1>3, Zenon

\* Short tuples.
LEMMA One ==
  ASSUME NEW S, NEW a \in S
  PROVE  <<a>> \in Seq(S) /\ Len(<<a>>) = 1 /\ <<a>>[1] = a
OBVIOUS

LEMMA Two ==
  ASSUME NEW S, NEW a \in S, NEW b \in S
  PROVE  <<a, b>> \in Seq(S) /\ Len(<<a, b>>) = 2 /\ <<a, b>>[1] = a /\ <<a, b>>[2] = b
OBVIOUS

LEMMA Three ==
  ASSUME NEW S, NEW a \in S, NEW b \in S, NEW c \in S
  PROVE  /\ <<a, b, c>> \in Seq(S) /\ Len(<<a, b, c>>) = 3
         /\ <<a, b, c>>[1] = a /\ <<a, b, c>>[2] = b /\ <<a, b, c>>[3] = c
OBVIOUS

LEMMA Four ==
  ASSUME NEW S, NEW a \in S, NEW b \in S, NEW c \in S, NEW d \in S
  PROVE  /\ <<a, b, c, d>> \in Seq(S) /\ Len(<<a, b, c, d>>) = 4
         /\ <<a, b, c, d>>[1] = a /\ <<a, b, c, d>>[2] = b
         /\ <<a, b, c, d>>[3] = c /\ <<a, b, c, d>>[4] = d
OBVIOUS

LEMMA ChainIs ==
  /\ Chain \in Seq(Layer) /\ Len(Chain) = 4
  /\ Chain[1] = "recover" /\ Chain[2] = "log" /\ Chain[3] = "cors" /\ Chain[4] = "readBudget"
<1>1. PICK a \in Layer : a = "recover"
  BY DEF Layer
<1>2. PICK b \in Layer : b = "log"
  BY DEF Layer
<1>3. PICK c \in Layer : c = "cors"
  BY DEF Layer
<1>4. PICK d \in Layer : d = "readBudget"
  BY DEF Layer
<1>5. Chain = <<a, b, c, d>>
  BY <1>1, <1>2, <1>3, <1>4, Zenon DEF Chain
<1>6. /\ <<a, b, c, d>> \in Seq(Layer) /\ Len(<<a, b, c, d>>) = 4
      /\ <<a, b, c, d>>[1] = a /\ <<a, b, c, d>>[2] = b
      /\ <<a, b, c, d>>[3] = c /\ <<a, b, c, d>>[4] = d
  BY Four
<1> QED BY <1>1, <1>2, <1>3, <1>4, <1>5, <1>6, Zenon

\* Every request goes through the chain first.
LEMMA Outer ==
  ASSUME NEW r, NEW n \in Nat, NEW t \in Seq(Layer), Len(t) = n, Inner(input[r].route) = t
  PROVE  /\ Len(Layers(r)) = 4 + n
         /\ Layers(r)[1] = "recover" /\ Layers(r)[2] = "log"
         /\ Layers(r)[3] = "cors" /\ Layers(r)[4] = "readBudget"
         /\ \A i \in 1 .. n : Layers(r)[4 + i] = t[i]
<1>1. PICK s \in Seq(Layer) : s = Chain
  BY ChainIs, Zenon
<1>2. Layers(r) = s \o t
  BY <1>1 DEF Layers
<1>3. Len(s) = 4
  BY <1>1, ChainIs, Zenon
<1>4. s[1] = "recover" /\ s[2] = "log" /\ s[3] = "cors" /\ s[4] = "readBudget"
  BY <1>1, ChainIs, Zenon
<1>5. /\ Len(s \o t) = 4 + Len(t)
      /\ \A i \in 1 .. 4 : (s \o t)[i] = s[i]
      /\ \A i \in 1 .. Len(t) : (s \o t)[4 + i] = t[i]
  BY <1>3, Joined
<1>6. 1 \in 1 .. 4 /\ 2 \in 1 .. 4 /\ 3 \in 1 .. 4 /\ 4 \in 1 .. 4
  OBVIOUS
<1>7. (s \o t)[1] = s[1] /\ (s \o t)[2] = s[2] /\ (s \o t)[3] = s[3] /\ (s \o t)[4] = s[4]
  BY <1>5, <1>6, Zenon
<1> QED BY <1>2, <1>4, <1>5, <1>7, Zenon

\* Chain, and then what the route finds.
OuterLayers(r) ==
    /\ Layers(r)[1] = "recover" /\ Layers(r)[2] = "log"
    /\ Layers(r)[3] = "cors" /\ Layers(r)[4] = "readBudget"

LEMMA LaidOne ==
  ASSUME NEW r, NEW a \in Layer, Inner(input[r].route) = <<a>>
  PROVE  Len(Layers(r)) = 5 /\ OuterLayers(r) /\ Layers(r)[5] = a
<1>1. PICK t \in Seq(Layer) : t = <<a>>
  BY One
<1>2. Len(t) = 1 /\ t[1] = a
  BY <1>1, One
<1>3. Inner(input[r].route) = t
  BY <1>1, Zenon
<1>4. PICK n \in Nat : n = 1
  OBVIOUS
<1>5. /\ Len(Layers(r)) = 4 + n /\ OuterLayers(r)
      /\ \A i \in 1 .. n : Layers(r)[4 + i] = t[i]
  BY <1>2, <1>3, <1>4, Outer, Zenon DEF OuterLayers
<1>6. Layers(r)[4 + 1] = t[1]
  BY <1>4, <1>5
<1> QED BY <1>2, <1>4, <1>5, <1>6

LEMMA LaidTwo ==
  ASSUME NEW r, NEW a \in Layer, NEW b \in Layer, Inner(input[r].route) = <<a, b>>
  PROVE  Len(Layers(r)) = 6 /\ OuterLayers(r) /\ Layers(r)[5] = a /\ Layers(r)[6] = b
<1>1. PICK t \in Seq(Layer) : t = <<a, b>>
  BY Two
<1>2. Len(t) = 2 /\ t[1] = a /\ t[2] = b
  BY <1>1, Two
<1>3. Inner(input[r].route) = t
  BY <1>1, Zenon
<1>4. PICK n \in Nat : n = 2
  OBVIOUS
<1>5. /\ Len(Layers(r)) = 4 + n /\ OuterLayers(r)
      /\ \A i \in 1 .. n : Layers(r)[4 + i] = t[i]
  BY <1>2, <1>3, <1>4, Outer, Zenon DEF OuterLayers
<1>6. Layers(r)[4 + 1] = t[1] /\ Layers(r)[4 + 2] = t[2]
  BY <1>4, <1>5
<1> QED BY <1>2, <1>4, <1>5, <1>6

LEMMA LaidThree ==
  ASSUME NEW r, NEW a \in Layer, NEW b \in Layer, NEW c \in Layer, Inner(input[r].route) = <<a, b, c>>
  PROVE  Len(Layers(r)) = 7 /\ OuterLayers(r) /\ Layers(r)[5] = a /\ Layers(r)[6] = b /\ Layers(r)[7] = c
<1>1. PICK t \in Seq(Layer) : t = <<a, b, c>>
  BY Three
<1>2. Len(t) = 3 /\ t[1] = a /\ t[2] = b /\ t[3] = c
  BY <1>1, Three
<1>3. Inner(input[r].route) = t
  BY <1>1, Zenon
<1>4. PICK n \in Nat : n = 3
  OBVIOUS
<1>5. /\ Len(Layers(r)) = 4 + n /\ OuterLayers(r)
      /\ \A i \in 1 .. n : Layers(r)[4 + i] = t[i]
  BY <1>2, <1>3, <1>4, Outer, Zenon DEF OuterLayers
<1>6. Layers(r)[4 + 1] = t[1] /\ Layers(r)[4 + 2] = t[2] /\ Layers(r)[4 + 3] = t[3]
  BY <1>4, <1>5
<1> QED BY <1>2, <1>4, <1>5, <1>6

\* A layer's place, the routes that have it, and whether another one follows.
Placed(r, layer) ==
    /\ layer = "recover" => pc[r] = 1
    /\ layer = "log" => pc[r] = 2
    /\ layer = "cors" => pc[r] = 3
    /\ layer = "readBudget" => pc[r] = 4
    /\ layer = "signInBudget" => pc[r] = 5 /\ input[r].route \in Ways
    /\ layer = "auth" => pc[r] = 5 /\ input[r].route \notin Ways
    /\ layer = "messageBudget" => pc[r] = 6 /\ input[r].route = "send"
    /\ layer = "signIn" => pc[r] = 6 /\ input[r].route \in Ways
    /\ layer = "logIn" => pc[r] = 6 /\ input[r].route \in Ways
    /\ layer = "handler" => pc[r] \in {6, 7} /\ input[r].route \notin Ways
    /\ layer = "handler" /\ input[r].route = "send" => pc[r] = 7
    /\ layer = "health" => pc[r] = 5 /\ input[r].route = "health"
    /\ layer = "notFound" => pc[r] = 5
    /\ layer \in {"recover", "log", "cors", "readBudget", "signInBudget", "auth", "messageBudget"} =>
          pc[r] + 1 \in 1 .. Len(Layers(r))

LEMMA Where ==
  ASSUME NEW r, input[r].route \in Routes, pc[r] \in 1 .. Len(Layers(r))
  PROVE  Placed(r, Layers(r)[pc[r]])
<1> DEFINE R == input[r].route
<1> /\ "auth" \in Layer /\ "messageBudget" \in Layer /\ "handler" \in Layer /\ "health" \in Layer
    /\ "signInBudget" \in Layer /\ "signIn" \in Layer /\ "logIn" \in Layer /\ "notFound" \in Layer
  BY DEF Layer
<1>1. CASE R = "send"
  <2>1. Inner(R) = <<"auth", "messageBudget", "handler">>
    BY <1>1 DEF Inner
  <2>2. /\ Len(Layers(r)) = 7 /\ OuterLayers(r)
        /\ Layers(r)[5] = "auth" /\ Layers(r)[6] = "messageBudget" /\ Layers(r)[7] = "handler"
    BY <2>1, LaidThree
  <2> QED BY <1>1, <2>2 DEF Placed, OuterLayers, Ways
<1>2. CASE R = "other"
  <2>1. Inner(R) = <<"auth", "handler">>
    BY <1>2 DEF Inner
  <2>2. /\ Len(Layers(r)) = 6 /\ OuterLayers(r)
        /\ Layers(r)[5] = "auth" /\ Layers(r)[6] = "handler"
    BY <2>1, LaidTwo, Zenon
  <2> QED BY <1>2, <2>2 DEF Placed, OuterLayers, Ways
<1>3. CASE R = "health"
  <2>1. Inner(R) = <<"health">>
    BY <1>3 DEF Inner
  <2>2. Len(Layers(r)) = 5 /\ OuterLayers(r) /\ Layers(r)[5] = "health"
    BY <2>1, LaidOne, Zenon
  <2> QED BY <1>3, <2>2 DEF Placed, OuterLayers, Ways
<1>4. CASE R = "google" /\ "google" \in conf.ways
  <2>1. Inner(R) = <<"signInBudget", "signIn">>
    BY <1>4 DEF Inner
  <2>2. /\ Len(Layers(r)) = 6 /\ OuterLayers(r)
        /\ Layers(r)[5] = "signInBudget" /\ Layers(r)[6] = "signIn"
    BY <2>1, LaidTwo, Zenon
  <2> QED BY <1>4, <2>2 DEF Placed, OuterLayers, Ways
<1>5. CASE R = "password" /\ "password" \in conf.ways
  <2>1. Inner(R) = <<"signInBudget", "logIn">>
    BY <1>5 DEF Inner
  <2>2. /\ Len(Layers(r)) = 6 /\ OuterLayers(r)
        /\ Layers(r)[5] = "signInBudget" /\ Layers(r)[6] = "logIn"
    BY <2>1, LaidTwo, Zenon
  <2> QED BY <1>5, <2>2 DEF Placed, OuterLayers, Ways
<1>6. CASE \/ R = "unknown"
           \/ R = "google" /\ "google" \notin conf.ways
           \/ R = "password" /\ "password" \notin conf.ways
  <2>1. Inner(R) = <<"notFound">>
    BY <1>6 DEF Inner
  <2>2. Len(Layers(r)) = 5 /\ OuterLayers(r) /\ Layers(r)[5] = "notFound"
    BY <2>1, LaidOne, Zenon
  <2> QED BY <1>6, <2>2 DEF Placed, OuterLayers, Ways
<1> QED BY <1>1, <1>2, <1>3, <1>4, <1>5, <1>6 DEF Routes

LEMMA SameLayers ==
  ASSUME NEW q, conf' = conf, input'[q] = input[q]
  PROVE  Layers(q)' = Layers(q)
BY DEF Layers, Inner

-----------------------------------------------------------------------------
(* What a step does to a request                                            *)

\* One that the step is not about keeps what it has.
LEMMA Others ==
  ASSUME NEW q \in Req, Good(q), conf' = conf, pc'[q] = pc[q], input'[q] = input[q], owner'[q] = owner[q],
         status'[q] = status[q], tokens \subseteq tokens',
         ReadSpent(q) => ReadSpent(q)', SignInSpent(q) => SignInSpent(q)',
         MessageSpent(q) => MessageSpent(q)'
  PROVE  Good(q)'
<1>1. Layers(q)' = Layers(q)
  BY SameLayers
<1>2. Active(q)' = Active(q)
  BY DEF Active
<1> QED BY <1>1, <1>2 DEF Good, Carried

\* One that goes on to the next layer.
LEMMA Proceeds ==
  ASSUME NEW r \in Req, TypeOK, Good(r), NEW layer, In(r, layer), Proceed(r),
         layer \in {"recover", "log", "cors", "readBudget", "signInBudget", "auth", "messageBudget"},
         conf' = conf, input' = input, tokens' = tokens, spent \subseteq spent',
         layer = "cors" => ~input[r].preflight,
         layer = "readBudget" => ReadSpent(r)',
         layer = "signInBudget" => SignInSpent(r)',
         layer = "messageBudget" => MessageSpent(r)',
         layer = "auth" => owner'[r] \in Account /\ Carried(r) # None /\ owner'[r] = Carried(r).email,
         layer # "auth" => owner'[r] = owner[r]
  PROVE  Good(r)'
<1>1. Layers(r)' = Layers(r)
  BY SameLayers
<1>2. /\ pc[r] # 0 /\ status[r] = "none" /\ conf # Down
      /\ pc[r] \in 1 .. Len(Layers(r)) /\ Layers(r)[pc[r]] = layer
  BY DEF In, Active, Good
<1>3. Placed(r, layer)
  <2>1. input[r].route \in Routes
    BY DEF TypeOK, Input
  <2> QED BY <1>2, <2>1, Where
<1>4. pc'[r] = pc[r] + 1 /\ status'[r] = "none" /\ pc[r] \in Nat
  BY <1>2 DEF Proceed, TypeOK
<1>5. Active(r)' => pc'[r] \in 1 .. Len(Layers(r)')
  BY <1>1, <1>3, <1>4 DEF Placed
<1>6. input[r].preflight => pc'[r] <= 3
  BY <1>3, <1>4 DEF Placed, Good
<1>7. input[r].route \in Ways /\ pc'[r] >= 6 => SignInSpent(r)'
  BY <1>3, <1>4 DEF Placed, Ways
<1>8. input[r].route = "send" /\ pc'[r] >= 6 =>
          owner'[r] \in Account /\ Carried(r) # None /\ owner'[r] = Carried(r).email
  BY <1>3, <1>4 DEF Placed, Good, Ways
<1>9. input[r].route = "send" /\ pc'[r] >= 7 => MessageSpent(r)'
  BY <1>3, <1>4 DEF Placed, Ways
<1>10. Carried(r) \in tokens \cup {None}
  BY DEF Good
<1>11. pc'[r] >= 5 => ReadSpent(r)'
  <2>1. CASE layer = "readBudget"
    BY <2>1
  <2>2. CASE layer # "readBudget"
    <3>1. pc'[r] >= 5 => pc[r] >= 5
      BY <1>3, <1>4, <2>2 DEF Placed
    <3> QED BY <3>1 DEF Good, ReadSpent
  <2> QED BY <2>1, <2>2
<1> QED BY <1>2, <1>4, <1>5, <1>6, <1>7, <1>8, <1>9, <1>10, <1>11 DEF Good, Carried

\* One that is answered.
LEMMA Answers ==
  ASSUME NEW r \in Req, TypeOK, Good(r), NEW layer, In(r, layer), NEW s, Answer(r, s), s # "none",
         conf' = conf, input' = input, owner' = owner, spent' = spent, tokens \subseteq tokens',
         s \in {"200", "401", "403", "502", "500"} => layer \in {"auth", "signIn", "logIn", "handler", "health"},
         s = "404" => layer = "notFound",
         s \in {"200", "500"} => layer # "auth"
  PROVE  Good(r)'
<1>1. /\ pc[r] # 0 /\ status[r] = "none" /\ conf # Down
      /\ pc[r] \in 1 .. Len(Layers(r)) /\ Layers(r)[pc[r]] = layer
  BY DEF In, Active, Good
<1>2. Placed(r, layer)
  <2>1. input[r].route \in Routes
    BY DEF TypeOK, Input
  <2> QED BY <1>1, <2>1, Where
<1>3. pc' = pc /\ status'[r] = s
  BY DEF Answer, TypeOK
<1>4. ~Active(r)'
  BY <1>3 DEF Active
<1>5. s \in {"200", "401", "403", "502"} /\ input[r].route \in Ways => pc[r] >= 6
  BY <1>2 DEF Placed, Ways
<1>6. s \in {"200", "500"} /\ input[r].route = "send" => pc[r] >= 7
  BY <1>2 DEF Placed, Ways
<1>7. SignInSpent(r)' = SignInSpent(r) /\ MessageSpent(r)' = MessageSpent(r) /\ Carried(r)' = Carried(r)
      /\ ReadSpent(r)' = ReadSpent(r)
  BY DEF ReadSpent, SignInSpent, MessageSpent, Carried
<1>8. s \in {"200", "401", "403", "404", "500", "502"} => pc[r] >= 5
  BY <1>2 DEF Placed
<1> QED BY <1>1, <1>3, <1>4, <1>5, <1>6, <1>7, <1>8 DEF Good

-----------------------------------------------------------------------------
(* The steps                                                                *)

Spend == [budget : {"readBudget", "signInBudget", "messageBudget"},
          key : Address \cup Account \cup {None}, req : Req]

Paid(s) ==
    /\ ~input[s.req].preflight
    /\ IF s.budget = "messageBudget"
       THEN s.key # None /\ input[s.req].token.email = s.key
       ELSE s.key = input[s.req].from

Differs(r) == \A q \in Req \ {r} : pc'[q] = pc[q] /\ owner'[q] = owner[q] /\ status'[q] = status[q]

\* A layer's step, but for the sign-in's.
LEMMA Within ==
  ASSUME Inv, NEW r \in Req, UNCHANGED <<sessions, input>>,
         pc' \in [Req -> Nat], status' \in [Req -> Statuses], owner' \in [Req -> Account \cup {None}],
         spent \subseteq spent', spent' \subseteq Spend, \A s \in spent' \ spent : Paid(s),
         Differs(r), Good(r)'
  PROVE  Inv'
<1>1. TypeOK'
  BY DEF Inv, TypeOK, sessions, Spend
<1>2. Spending'
  BY DEF Inv, Spending, Paid
<1>3. Earned'
  BY DEF Inv, Earned, sessions
<1>4. ASSUME NEW q \in Req PROVE Good(q)'
  <2>1. CASE q = r
    BY <2>1
  <2>2. CASE q # r
    <3>1. (SignInSpent(q) => SignInSpent(q)') /\ (ReadSpent(q) => ReadSpent(q)')
      BY <2>2 DEF ReadSpent, SignInSpent
    <3>2. MessageSpent(q) => MessageSpent(q)'
      BY <2>2 DEF MessageSpent, Differs
    <3> QED BY <2>2, <3>1, <3>2, Others DEF Inv, Differs, sessions
  <2> QED BY <2>1, <2>2
<1> QED BY <1>1, <1>2, <1>3, <1>4 DEF Inv

LEMMA AnswerTypes ==
  ASSUME TypeOK, NEW r \in Req, NEW s \in Statuses, Answer(r, s)
  PROVE  /\ pc' \in [Req -> Nat] /\ status' \in [Req -> Statuses]
         /\ \A q \in Req \ {r} : pc'[q] = pc[q] /\ status'[q] = status[q]
BY DEF Answer, TypeOK

LEMMA ProceedTypes ==
  ASSUME TypeOK, NEW r \in Req, Proceed(r)
  PROVE  /\ pc' \in [Req -> Nat] /\ status' \in [Req -> Statuses]
         /\ \A q \in Req \ {r} : pc'[q] = pc[q] /\ status'[q] = status[q]
BY DEF Proceed, TypeOK

LEMMA WrapStep ==
  ASSUME Inv, NEW r \in Req, Wrap(r)
  PROVE  Inv'
<1>1. PICK layer \in {"recover", "log"} : In(r, layer)
  BY DEF Wrap
<1>2. TypeOK /\ Good(r) /\ Proceed(r) /\ UNCHANGED <<sessions, input, owner, spent>>
  BY DEF Inv, Wrap
<1>3. Good(r)'
  BY <1>1, <1>2, Proceeds DEF sessions
<1>4. spent \subseteq Spend /\ owner \in [Req -> Account \cup {None}]
  BY <1>2 DEF TypeOK, Spend
<1> QED BY <1>2, <1>3, <1>4, Within, ProceedTypes DEF Differs

LEMMA CorsStep ==
  ASSUME Inv, NEW r \in Req, Cors(r)
  PROVE  Inv'
<1>1. TypeOK /\ Good(r) /\ In(r, "cors") /\ UNCHANGED <<sessions, input, owner, spent>>
  BY DEF Inv, Cors
<1>2. spent \subseteq Spend /\ owner \in [Req -> Account \cup {None}]
  BY <1>1 DEF TypeOK, Spend
<1>3. CASE input[r].preflight
  <2>1. Answer(r, "204")
    BY <1>3 DEF Cors
  <2>2. Good(r)'
    BY <1>1, <2>1, Answers DEF sessions
  <2> QED BY <1>1, <1>2, <2>1, <2>2, Within, AnswerTypes DEF Differs, Statuses
<1>4. CASE ~input[r].preflight
  <2>1. Proceed(r)
    BY <1>4 DEF Cors
  <2>2. Good(r)'
    BY <1>1, <1>4, <2>1, Proceeds DEF sessions
  <2> QED BY <1>1, <1>2, <2>1, <2>2, Within, ProceedTypes DEF Differs
<1> QED BY <1>3, <1>4

LEMMA LimitStep ==
  ASSUME Inv, NEW r \in Req, NEW budget \in {"readBudget", "signInBudget", "messageBudget"}, Limit(r, budget)
  PROVE  Inv'
<1>1. TypeOK /\ Good(r) /\ In(r, budget) /\ UNCHANGED <<sessions, input, owner>>
  BY DEF Inv, Limit
<1>2. spent \subseteq Spend /\ owner \in [Req -> Account \cup {None}]
  BY <1>1 DEF TypeOK, Spend
<1>3. CASE Answer(r, "429") /\ UNCHANGED spent
  <2>1. Good(r)'
    BY <1>1, <1>3, Answers DEF sessions
  <2> QED BY <1>1, <1>2, <1>3, <2>1, Within, AnswerTypes DEF Differs, Statuses
<1>4. CASE spent' = spent \cup {[budget |-> budget, key |-> Key(r, budget), req |-> r]} /\ Proceed(r)
  <2> DEFINE taken == [budget |-> budget, key |-> Key(r, budget), req |-> r]
  <2>1. /\ pc[r] # 0 /\ status[r] = "none" /\ conf # Down
        /\ pc[r] \in 1 .. Len(Layers(r)) /\ Layers(r)[pc[r]] = budget
    BY <1>1 DEF In, Active, Good
  <2>2. Placed(r, budget)
    <3>1. input[r].route \in Routes
      BY <1>1 DEF TypeOK, Input
    <3> QED BY <2>1, <3>1, Where
  <2>3. Key(r, budget) \in Address \cup Account \cup {None}
    BY <1>1 DEF Key, TypeOK, Input
  <2>4. taken \in Spend
    BY <2>3 DEF Spend
  <2>5. ~input[r].preflight
    BY <1>1, <2>2 DEF Placed, Good
  <2>6. budget = "messageBudget" => Key(r, budget) # None /\ input[r].token.email = Key(r, budget)
    BY <1>1, <2>2, GatewayAssumption DEF Placed, Good, Key, Carried
  <2>13. budget # "messageBudget" => Key(r, budget) = input[r].from
    BY DEF Key
  <2>7. Paid(taken)
    BY <2>5, <2>6, <2>13 DEF Paid
  <2>12. budget = "readBudget" => ReadSpent(r)'
    BY <1>1, <1>4 DEF ReadSpent, Key
  <2>8. budget = "signInBudget" => SignInSpent(r)'
    BY <1>1, <1>4 DEF SignInSpent, Key
  <2>9. budget = "messageBudget" => MessageSpent(r)'
    BY <1>1, <1>4 DEF MessageSpent, Key
  <2>10. Good(r)'
    BY <1>1, <1>4, <2>8, <2>9, <2>12, Proceeds DEF sessions
  <2>11. /\ spent \subseteq spent' /\ spent' \subseteq Spend
         /\ \A s \in spent' \ spent : Paid(s)
    <3> HIDE DEF taken
    <3> QED BY <1>2, <1>4, <2>4, <2>7 DEF taken
  <2> QED BY <1>1, <1>2, <1>4, <2>10, <2>11, Within, ProceedTypes DEF Differs
<1> QED BY <1>3, <1>4 DEF Limit

LEMMA RequireAuthStep ==
  ASSUME Inv, NEW r \in Req, RequireAuth(r)
  PROVE  Inv'
<1>1. TypeOK /\ Good(r) /\ In(r, "auth") /\ UNCHANGED <<sessions, input, spent>>
  BY DEF Inv, RequireAuth
<1>2. spent \subseteq Spend /\ owner \in [Req -> Account \cup {None}]
  BY <1>1 DEF TypeOK, Spend
<1>3. CASE \E s \in {"401", "403"} : Answer(r, s) /\ UNCHANGED owner
  <2>1. PICK s \in {"401", "403"} : Answer(r, s) /\ UNCHANGED owner
    BY <1>3
  <2>2. Good(r)'
    BY <1>1, <2>1, Answers DEF sessions
  <2>3. s \in Statuses
    BY DEF Statuses
  <2> QED BY <1>1, <1>2, <2>1, <2>2, <2>3, Within, AnswerTypes DEF Differs
<1>4. CASE /\ input[r].token # None /\ Proceed(r)
           /\ owner' = [owner EXCEPT ![r] = input[r].token.email]
  <2>1. input[r].token.email \in Account
    BY <1>1, <1>4 DEF TypeOK, Input, Token
  <2>2. owner' \in [Req -> Account \cup {None}] /\ owner'[r] = input[r].token.email
        /\ \A q \in Req \ {r} : owner'[q] = owner[q]
    BY <1>2, <1>4, <2>1
  <2>3. Good(r)'
    BY <1>1, <1>4, <2>1, <2>2, Proceeds DEF sessions, Carried
  <2> QED BY <1>1, <1>2, <1>4, <2>2, <2>3, Within, ProceedTypes DEF Differs
<1> QED BY <1>3, <1>4 DEF RequireAuth

LEMMA HandleStep ==
  ASSUME Inv, NEW r \in Req, Handle(r) \/ Panic(r)
  PROVE  Inv'
<1>1. TypeOK /\ Good(r) /\ UNCHANGED <<sessions, input, owner, spent>>
  BY DEF Inv, Handle, Panic
<1>2. spent \subseteq Spend /\ owner \in [Req -> Account \cup {None}]
  BY <1>1 DEF TypeOK, Spend
<1>3. PICK layer \in {"handler", "health", "notFound"}, s \in {"200", "404", "500"} :
         In(r, layer) /\ Answer(r, s) /\ (s # "404" <=> layer # "notFound")
  BY DEF Handle, Panic
<1>4. Good(r)'
  BY <1>1, <1>3, Answers DEF sessions
<1>5. s \in Statuses
  BY DEF Statuses
<1> QED BY <1>1, <1>2, <1>3, <1>4, <1>5, Within, AnswerTypes DEF Differs

\* A token is what its issuer says of it.
LEMMA Issued ==
  ASSUME Inv, NEW email \in Account, NEW secret \in Secret, NEW ttl \in {SessionTTL, TokenTTL},
         NEW how \in Ways \cup {"command"}, Issue(email, secret, ttl, how),
         how \in Ways => conf # Down /\ secret = conf.secret /\ email \in conf.allowed
  PROVE  tokens' \subseteq Token /\ Earned' /\ tokens \subseteq tokens'
<1>1. PICK k : k = [email |-> email, expires |-> Expiry(ttl), secret |-> secret,
                    at |-> now, by |-> starts, ttl |-> ttl, how |-> how]
  OBVIOUS
<1>2. tokens' = tokens \cup {k} /\ UNCHANGED <<now, conf, starts>>
  BY <1>1 DEF Issue
<1>3. now \in Nat /\ starts \in Nat /\ tokens \subseteq Token
  BY DEF Inv, TypeOK
<1>4. Second \in Nat \ {0} /\ ttl \in Nat \ {0}
  BY SessionsAssumption
<1>5. now + ttl * Second \in Nat
  BY <1>3, <1>4
<1>6. Expiry(ttl) \in Nat
  BY <1>4, <1>5, Quotient DEF Expiry
<1>7. k \in Token
  BY <1>1, <1>3, <1>6 DEF Token
<1>8. /\ k.expires = (k.at + k.ttl * Second) \div Second
      /\ k.by <= starts
      /\ k.by = starts /\ k.how \in Ways /\ conf # Down =>
            k.secret = conf.secret /\ k.email \in conf.allowed
  BY <1>1, <1>3 DEF Expiry
<1>9. Earned'
  BY <1>2, <1>8 DEF Inv, Earned
<1> QED BY <1>2, <1>3, <1>7, <1>9

\* The sign-in's own step.
LEMMA SignsIn ==
  ASSUME Inv, NEW r \in Req, NEW layer \in {"signIn", "logIn"}, In(r, layer), Answer(r, "200"),
         UNCHANGED <<input, owner, spent, now, conf, starts>>,
         tokens' \subseteq Token, Earned', tokens \subseteq tokens'
  PROVE  Inv'
<1>1. TypeOK /\ Good(r)
  BY DEF Inv
<1>2. Good(r)'
  BY <1>1, Answers
<1>3. /\ pc' \in [Req -> Nat] /\ status' \in [Req -> Statuses]
      /\ \A q \in Req \ {r} : pc'[q] = pc[q] /\ status'[q] = status[q]
  BY <1>1, AnswerTypes DEF Statuses
<1>4. TypeOK'
  BY <1>1, <1>3 DEF TypeOK
<1>5. Spending'
  BY DEF Inv, Spending
<1>6. ASSUME NEW q \in Req PROVE Good(q)'
  <2>1. CASE q = r
    BY <1>2, <2>1
  <2>2. CASE q # r
    <3>1. SignInSpent(q)' = SignInSpent(q) /\ MessageSpent(q)' = MessageSpent(q) /\ ReadSpent(q)' = ReadSpent(q)
      BY DEF ReadSpent, SignInSpent, MessageSpent
    <3> QED BY <1>3, <2>2, <3>1, Others DEF Inv
  <2> QED BY <2>1, <2>2
<1> QED BY <1>4, <1>5, <1>6 DEF Inv

LEMMA HandleSignInStep ==
  ASSUME Inv, NEW r \in Req, HandleSignIn(r)
  PROVE  Inv'
<1>1. TypeOK /\ Good(r) /\ In(r, "signIn") /\ UNCHANGED <<input, owner, spent>>
  BY DEF Inv, HandleSignIn
<1>2. CASE Answer(r, "200") /\ SignIn(input[r].email)
  <2>1. conf # Down /\ conf \in Config
    BY <1>1 DEF In, Active, TypeOK
  <2>2. Lower[input[r].email] \in conf.allowed /\ conf.secret \in Secret /\ conf.allowed \subseteq Account
    BY <1>2, <2>1 DEF SignIn, Config
  <2>3. Issue(Lower[input[r].email], conf.secret, SessionTTL, "google")
    BY <1>2 DEF SignIn
  <2>4. tokens' \subseteq Token /\ Earned' /\ tokens \subseteq tokens'
    BY <2>1, <2>2, <2>3, Issued DEF Ways
  <2> QED BY <1>1, <1>2, <2>3, <2>4, SignsIn DEF Issue
<1>3. CASE (\E s \in {"401", "502", "403"} : Answer(r, s)) /\ UNCHANGED sessions
  <2>1. PICK s \in {"401", "502", "403"} : Answer(r, s)
    BY <1>3
  <2>2. Good(r)'
    BY <1>1, <1>3, <2>1, Answers DEF sessions
  <2>3. s \in Statuses
    BY DEF Statuses
  <2>4. spent \subseteq Spend /\ owner \in [Req -> Account \cup {None}]
    BY <1>1 DEF TypeOK, Spend
  <2> QED BY <1>1, <1>3, <2>1, <2>2, <2>3, <2>4, Within, AnswerTypes DEF Differs
<1> QED BY <1>2, <1>3 DEF HandleSignIn

LEMMA HandleLoginStep ==
  ASSUME Inv, NEW r \in Req, HandleLogin(r)
  PROVE  Inv'
<1>1. TypeOK /\ Good(r) /\ In(r, "logIn") /\ UNCHANGED <<input, owner, spent>>
  BY DEF Inv, HandleLogin
<1>2. CASE Answer(r, "200") /\ PasswordLogin
  <2>1. conf # Down /\ conf \in Config
    BY <1>1 DEF In, Active, TypeOK
  <2>2. conf.owner \in conf.allowed /\ conf.secret \in Secret /\ conf.owner \in Account
    BY <2>1 DEF Inv, Earned, Config
  <2>3. Issue(conf.owner, conf.secret, SessionTTL, "password")
    BY <1>2 DEF PasswordLogin
  <2>4. tokens' \subseteq Token /\ Earned' /\ tokens \subseteq tokens'
    BY <2>1, <2>2, <2>3, Issued DEF Ways
  <2> QED BY <1>1, <1>2, <2>3, <2>4, SignsIn DEF Issue
<1>3. CASE Answer(r, "401") /\ UNCHANGED sessions
  <2>1. Good(r)'
    BY <1>1, <1>3, Answers DEF sessions
  <2>2. spent \subseteq Spend /\ owner \in [Req -> Account \cup {None}]
    BY <1>1 DEF TypeOK, Spend
  <2> QED BY <1>1, <1>3, <2>1, <2>2, Within, AnswerTypes DEF Differs, Statuses
<1> QED BY <1>2, <1>3 DEF HandleLogin

\* A step of Sessions that leaves the requests alone.
LEMMA Outside ==
  ASSUME Inv, Alone, conf' = conf, TypeOK', Earned', tokens \subseteq tokens'
  PROVE  Inv'
<1>1. Spending'
  BY DEF Inv, Spending, Alone
<1>2. ASSUME NEW q \in Req PROVE Good(q)'
  <2>1. SignInSpent(q)' = SignInSpent(q) /\ MessageSpent(q)' = MessageSpent(q) /\ ReadSpent(q)' = ReadSpent(q)
    BY DEF ReadSpent, SignInSpent, MessageSpent, Alone
  <2> QED BY <2>1, Others DEF Inv, Alone
<1> QED BY <1>1, <1>2 DEF Inv

LEMMA TickStep ==
  ASSUME Inv, Tick, Alone
  PROVE  Inv'
<1>1. TypeOK'
  BY DEF Inv, TypeOK, Tick, Alone
<1>2. Earned'
  BY DEF Inv, Earned, Tick
<1> QED BY <1>1, <1>2, Outside DEF Tick

LEMMA PrintTokenStep ==
  ASSUME Inv, NEW email \in Email, NEW secret \in Secret, PrintToken(email, secret), Alone
  PROVE  Inv'
<1>1. Lower[email] \in Account
  BY SessionsAssumption
<1>2. Issue(Lower[email], secret, TokenTTL, "command")
  BY DEF PrintToken
<1>3. tokens' \subseteq Token /\ Earned' /\ tokens \subseteq tokens'
  <2>1. "command" \notin Ways
    BY DEF Ways
  <2> QED BY <1>1, <1>2, <2>1, Issued
<1>4. UNCHANGED <<now, conf, starts>>
  BY <1>2 DEF Issue
<1>5. TypeOK'
  BY <1>3, <1>4 DEF Inv, TypeOK, Alone
<1> QED BY <1>3, <1>4, <1>5, Outside

LEMMA StartStep ==
  ASSUME Inv, NEW env \in Env, Start(env), Alone
  PROVE  Inv'
<1>1. conf = Down /\ Loads(env) /\ conf' = Load(env) /\ starts' = starts + 1 /\ UNCHANGED <<now, tokens>>
  BY DEF Start
<1>2. TypeOK /\ Earned
  BY DEF Inv
<1>3. /\ env.secret \in Secret /\ env.ways \in SUBSET Ways
      /\ env.emails \in Seq(Email) /\ env.emails # <<>>
  BY <1>1, SessionsAssumption DEF Env, Loads
<1>4. 1 \in DOMAIN env.emails /\ \A i \in DOMAIN env.emails : env.emails[i] \in Email
  BY <1>3
<1>5. \A e \in Email : Lower[e] \in Account
  BY SessionsAssumption
<1> DEFINE allowed == {Lower[e] : e \in Addresses(env.emails)}
<1>6. allowed \subseteq Account /\ Lower[env.emails[1]] \in allowed
  BY <1>4, <1>5 DEF Addresses
<1>7. conf' = [secret |-> env.secret, ways |-> env.ways, owner |-> Lower[env.emails[1]], allowed |-> allowed]
  BY <1>1 DEF Load
<1> HIDE DEF allowed
<1>8. conf' \in Config /\ conf'.owner \in conf'.allowed
  BY <1>3, <1>6, <1>7 DEF Config
<1>9. TypeOK'
  BY <1>1, <1>2, <1>8 DEF TypeOK, Alone
<1>10. Earned'
  <2>1. starts \in Nat
    BY <1>2 DEF TypeOK
  <2>2. \A k \in tokens : k.by \in Nat
    BY <1>2 DEF TypeOK, Token
  <2>3. \A k \in tokens : k.by <= starts /\ k.expires = (k.at + k.ttl * Second) \div Second
    BY <1>2 DEF Earned
  <2>4. \A k \in tokens : k.by <= starts' /\ k.by # starts'
    BY <1>1, <2>1, <2>2, <2>3
  <2> QED BY <1>1, <1>8, <2>3, <2>4 DEF Earned
<1>11. Spending'
  BY DEF Inv, Spending, Alone
<1>12. ASSUME NEW q \in Req PROVE Good(q)'
  <2>1. Good(q) /\ (pc[q] = 0 \/ status[q] # "none")
    BY <1>1 DEF Inv, Good
  <2>2. ~Active(q)'
    BY <2>1 DEF Active, Alone
  <2>3. SignInSpent(q)' = SignInSpent(q) /\ MessageSpent(q)' = MessageSpent(q) /\ ReadSpent(q)' = ReadSpent(q) /\ Carried(q)' = Carried(q)
    BY DEF ReadSpent, SignInSpent, MessageSpent, Carried, Alone
  <2> QED BY <1>1, <2>1, <2>2, <2>3 DEF Good, Alone
<1> QED BY <1>9, <1>10, <1>11, <1>12 DEF Inv

LEMMA RestartStep ==
  ASSUME Inv, Restart
  PROVE  Inv'
<1>1. /\ conf' = Down /\ UNCHANGED <<now, tokens, starts, pc, input, owner, spent>>
      /\ status' = [r \in Req |-> IF Active(r) THEN "lost" ELSE status[r]]
  BY DEF Restart, Stop
<1>2. conf # Down
  BY DEF Restart, Stop
<1>3. TypeOK'
  BY <1>1 DEF Inv, TypeOK, Statuses
<1>4. Earned'
  BY <1>1 DEF Inv, Earned
<1>5. Spending'
  BY <1>1 DEF Inv, Spending
<1>6. ASSUME NEW q \in Req PROVE Good(q)'
  <2>1. status'[q] = IF Active(q) THEN "lost" ELSE status[q]
    BY <1>1
  <2>2. ~Active(q)' /\ (pc'[q] = 0 \/ status'[q] # "none")
    BY <1>1, <1>2, <2>1 DEF Active
  <2>3. SignInSpent(q)' = SignInSpent(q) /\ MessageSpent(q)' = MessageSpent(q) /\ ReadSpent(q)' = ReadSpent(q) /\ Carried(q)' = Carried(q)
    BY <1>1 DEF ReadSpent, SignInSpent, MessageSpent, Carried
  <2> QED BY <1>1, <2>1, <2>2, <2>3 DEF Inv, Good
<1> QED BY <1>3, <1>4, <1>5, <1>6 DEF Inv

\* Every route has layers.
LEMMA NewLayers ==
  ASSUME NEW r
  PROVE  1 \in 1 .. Len(Layers(r)')
<1> /\ "auth" \in Layer /\ "messageBudget" \in Layer /\ "handler" \in Layer /\ "health" \in Layer
    /\ "signInBudget" \in Layer /\ "signIn" \in Layer /\ "logIn" \in Layer /\ "notFound" \in Layer
  BY DEF Layer
<1>1. PICK t : t = Inner(input[r].route)'
  OBVIOUS
<1>2. \/ t = <<"signInBudget", "signIn">>
      \/ t = <<"signInBudget", "logIn">>
      \/ t = <<"auth", "messageBudget", "handler">>
      \/ t = <<"auth", "handler">>
      \/ t = <<"health">>
      \/ t = <<"notFound">>
  BY <1>1 DEF Inner
<1>3. /\ <<"signInBudget", "signIn">> \in Seq(Layer)
      /\ <<"signInBudget", "logIn">> \in Seq(Layer)
      /\ <<"auth", "handler">> \in Seq(Layer)
  BY Two, Zenon
<1>4. <<"auth", "messageBudget", "handler">> \in Seq(Layer)
  BY Three, Zenon
<1>5. <<"health">> \in Seq(Layer) /\ <<"notFound">> \in Seq(Layer)
  BY One, Zenon
<1>6. t \in Seq(Layer)
  BY <1>2, <1>3, <1>4, <1>5, Zenon
<1>7. PICK s \in Seq(Layer) : s = Chain /\ Len(s) = 4
  BY ChainIs, Zenon
<1>8. Layers(r)' = s \o t
  BY <1>1, <1>7, Zenon DEF Layers, Chain
<1>9. Len(s \o t) = 4 + Len(t) /\ Len(t) \in Nat
  BY <1>6, <1>7, Joined
<1> HIDE <1>1, <1>2
<1> QED BY <1>8, <1>9

\* What clients ask for is input, and any token in it was handed out.
LEMMA AsksAreInput ==
  ASSUME TypeOK, NEW from \in Address, NEW ask \in Asks(from)
  PROVE  ask \in Input /\ ask.token \in tokens \cup {None}
<1>1. NoInput.email \in Email
  BY SessionsAssumption DEF NoInput
<1>2. NoInput \in Input /\ NoInput.token = None
  BY <1>1 DEF NoInput, Input, Routes
<1>3. tokens \subseteq Token
  BY DEF TypeOK
<1>4. \A route \in Routes : Ask(route, from) \in Input /\ Ask(route, from).token = None
  BY <1>2 DEF Ask, Input
<1>5. {"send", "other", "google", "password", "health", "unknown"} \subseteq Routes
  BY DEF Routes
<1>6. \/ \E route \in {"send", "other"}, token \in tokens \cup {None} :
            ask = [Ask(route, from) EXCEPT !.token = token]
      \/ \E email \in Email : ask = [Ask("google", from) EXCEPT !.email = email]
      \/ \E right \in BOOLEAN : ask = [Ask("password", from) EXCEPT !.right = right]
      \/ \E route \in {"health", "unknown"} : ask = Ask(route, from)
      \/ ask = [Ask("send", from) EXCEPT !.preflight = TRUE]
  BY DEF Asks
<1>7. CASE \E route \in {"send", "other"}, token \in tokens \cup {None} :
              ask = [Ask(route, from) EXCEPT !.token = token]
  BY <1>3, <1>4, <1>5, <1>7 DEF Input
<1>8. CASE \E email \in Email : ask = [Ask("google", from) EXCEPT !.email = email]
  BY <1>4, <1>5, <1>8 DEF Input
<1>9. CASE \E right \in BOOLEAN : ask = [Ask("password", from) EXCEPT !.right = right]
  BY <1>4, <1>5, <1>9 DEF Input
<1>10. CASE \E route \in {"health", "unknown"} : ask = Ask(route, from)
  BY <1>4, <1>5, <1>10
<1>11. CASE ask = [Ask("send", from) EXCEPT !.preflight = TRUE]
  <2>1. PICK n \in Input : n = Ask("send", from) /\ n.token = None
    BY <1>4, <1>5
  <2>2. ask = [n EXCEPT !.preflight = TRUE]
    BY <1>11, <2>1
  <2> QED BY <2>1, <2>2 DEF Input
<1> QED BY <1>6, <1>7, <1>8, <1>9, <1>10, <1>11

LEMMA ArriveStep ==
  ASSUME Inv, NEW r \in Req, NEW from \in Address, NEW ask \in Asks(from), Arrive(r, ask)
  PROVE  Inv'
<1>1. TypeOK
  BY DEF Inv
<1>2. /\ conf # Down /\ UNCHANGED sessions
      /\ pc' = [pc EXCEPT ![r] = 1] /\ input' = [input EXCEPT ![r] = ask]
      /\ owner' = [owner EXCEPT ![r] = None] /\ status' = [status EXCEPT ![r] = "none"]
      /\ spent' = {s \in spent : s.req # r}
  BY DEF Arrive
<1>3. ask \in Input /\ ask.token \in tokens \cup {None}
  BY <1>1, AsksAreInput
<1>4. TypeOK'
  <2>1. pc' \in [Req -> Nat] /\ input' \in [Req -> Input]
    BY <1>1, <1>2, <1>3 DEF TypeOK
  <2>2. owner' \in [Req -> Account \cup {None}] /\ status' \in [Req -> Statuses]
    BY <1>1, <1>2 DEF TypeOK, Statuses
  <2>3. spent' \subseteq spent
    BY <1>2
  <2> QED BY <1>1, <1>2, <2>1, <2>2, <2>3 DEF TypeOK, sessions
<1>5. /\ pc'[r] = 1 /\ input'[r] = ask /\ owner'[r] = None /\ status'[r] = "none"
      /\ \A q \in Req \ {r} : /\ pc'[q] = pc[q] /\ input'[q] = input[q]
                               /\ owner'[q] = owner[q] /\ status'[q] = status[q]
  BY <1>1, <1>2 DEF TypeOK
<1>6. Spending'
  <2> SUFFICES ASSUME NEW s \in spent'
               PROVE  /\ ~input'[s.req].preflight
                      /\ IF s.budget = "messageBudget"
                         THEN s.key # None /\ input'[s.req].token.email = s.key
                         ELSE s.key = input'[s.req].from
    BY DEF Spending
  <2>1. s \in spent /\ s.req # r /\ s.req \in Req
    BY <1>1, <1>2 DEF TypeOK
  <2>2. input'[s.req] = input[s.req]
    BY <1>5, <2>1
  <2> QED BY <2>1, <2>2 DEF Inv, Spending
<1>7. Earned'
  BY <1>2 DEF Inv, Earned, sessions
<1>8. ASSUME NEW q \in Req PROVE Good(q)'
  <2>1. CASE q = r
    <3>1. 1 \in 1 .. Len(Layers(r)')
      BY NewLayers
    <3> QED BY <1>2, <1>3, <1>5, <2>1, <3>1 DEF Good, Carried, sessions
  <2>2. CASE q # r
    <3>1. (SignInSpent(q) => SignInSpent(q)') /\ (ReadSpent(q) => ReadSpent(q)')
      BY <1>2, <1>5, <2>2 DEF ReadSpent, SignInSpent
    <3>2. MessageSpent(q) => MessageSpent(q)'
      BY <1>2, <1>5, <2>2 DEF MessageSpent
    <3> QED BY <1>2, <1>5, <2>2, <3>1, <3>2, Others DEF Inv, sessions
  <2> QED BY <2>1, <2>2
<1> QED BY <1>4, <1>6, <1>7, <1>8 DEF Inv

-----------------------------------------------------------------------------
(* Every step                                                               *)

LEMMA InitInv ==
  ASSUME GatewayInit
  PROVE  Inv
<1>1. /\ now = 0 /\ conf = Down /\ tokens = {} /\ starts = 0 /\ spent = {}
      /\ pc = [r \in Req |-> 0] /\ input = [r \in Req |-> NoInput]
      /\ owner = [r \in Req |-> None] /\ status = [r \in Req |-> "none"]
  BY DEF GatewayInit, Init
<1>2. NoInput \in Input /\ NoInput.token = None /\ NoInput.preflight = FALSE
  <2>1. NoInput.email \in Email
    BY SessionsAssumption DEF NoInput
  <2> QED BY <2>1 DEF NoInput, Input, Routes
<1>3. TypeOK
  BY <1>1, <1>2 DEF TypeOK, Statuses
<1>4. Spending /\ Earned
  BY <1>1 DEF Spending, Earned
<1>5. ASSUME NEW q \in Req PROVE Good(q)
  <2>1. pc[q] = 0 /\ input[q] = NoInput /\ owner[q] = None /\ status[q] = "none"
    BY <1>1
  <2>2. ~Active(q)
    BY <2>1 DEF Active
  <2> QED BY <1>1, <1>2, <2>1, <2>2 DEF Good, Carried
<1> QED BY <1>3, <1>4, <1>5 DEF Inv

LEMMA NextInv ==
  ASSUME Inv, [Next]_vars
  PROVE  Inv'
<1>1. CASE UNCHANGED vars
  <2>1. UNCHANGED <<now, conf, tokens, starts, pc, input, owner, status, spent>>
    BY <1>1 DEF vars, sessions
  <2>2. TypeOK'
    BY <2>1 DEF Inv, TypeOK
  <2>3. Earned'
    BY <2>1 DEF Inv, Earned
  <2> QED BY <2>1, <2>2, <2>3, Outside DEF Alone
<1>2. CASE Tick /\ Alone
  BY <1>2, TickStep
<1>3. CASE \E env \in Env : Start(env) /\ Alone
  BY <1>3, StartStep
<1>4. CASE \E email \in Email, secret \in Secret : PrintToken(email, secret) /\ Alone
  BY <1>4, PrintTokenStep
<1>5. CASE \E r \in Req, from \in Address : \E ask \in Asks(from) : Arrive(r, ask)
  BY <1>5, ArriveStep
<1>6. CASE \E r \in Req :
             \/ Wrap(r) \/ Cors(r) \/ RequireAuth(r)
             \/ \E budget \in {"readBudget", "signInBudget", "messageBudget"} : Limit(r, budget)
             \/ HandleSignIn(r) \/ HandleLogin(r) \/ Handle(r) \/ Panic(r)
  BY <1>6, WrapStep, CorsStep, RequireAuthStep, LimitStep, HandleSignInStep, HandleLoginStep, HandleStep
<1>7. CASE Restart
  BY <1>7, RestartStep
<1> QED BY <1>1, <1>2, <1>3, <1>4, <1>5, <1>6, <1>7 DEF Next

LEMMA Invariant == Spec => []Inv
<1>1. GatewayInit => Inv
  BY InitInv
<1>2. Inv /\ [Next]_vars => Inv'
  BY NextInv
<1> QED BY <1>1, <1>2, PTL DEF Spec

-----------------------------------------------------------------------------
(* Theorems                                                                 *)

\* What the variables hold, whoever asks for what and whatever the environment
\* says: accounts are in lower case wherever the code decides on them.
THEOREM TypeCorrect == Spec => []TypeOK
<1>1. Inv => TypeOK
  BY DEF Inv
<1> QED BY <1>1, Invariant, PTL

\* The budget of an account is spent by its messages alone, those of an address by
\* its requests and its sign-ins, and a preflight spends nothing.
THEOREM EveryoneSpendsTheirOwnHolds == Spec => []EveryoneSpendsTheirOwn
<1>1. ASSUME Inv PROVE EveryoneSpendsTheirOwn
  <2>1. ASSUME NEW r \in Req, status[r] \in {"200", "401", "403", "502"}, input[r].route \in Ways
        PROVE  [budget |-> "signInBudget", key |-> input[r].from, req |-> r] \in spent
    BY <1>1, <2>1 DEF Inv, Good, SignInSpent
  <2>2. ASSUME NEW r \in Req, status[r] \in {"200", "500"}, input[r].route = "send"
        PROVE  [budget |-> "messageBudget", key |-> owner[r], req |-> r] \in spent
    BY <1>1, <2>2 DEF Inv, Good, MessageSpent
  <2>3. Spending
    BY <1>1 DEF Inv
  <2>4. ASSUME NEW r \in Req, status[r] \in {"200", "401", "403", "404", "500", "502"}
        PROVE  [budget |-> "readBudget", key |-> input[r].from, req |-> r] \in spent
    BY <1>1, <2>4 DEF Inv, Good, ReadSpent
  <2> QED BY <2>1, <2>2, <2>3, <2>4 DEF EveryoneSpendsTheirOwn, Spending
<1> QED BY <1>1, Invariant, PTL

\* Only RequireAuth puts an account in a request's context.
LEMMA Admits ==
  ASSUME Inv, [Next]_vars, NEW r \in Req, owner'[r] \notin {owner[r], None}
  PROVE  RequireAuth(r)
<1>1. owner \in [Req -> Account \cup {None}]
  BY DEF Inv, TypeOK
<1>2. owner' # owner
  OBVIOUS
<1>3. CASE \E q \in Req : RequireAuth(q)
  <2>1. PICK q \in Req : RequireAuth(q)
    BY <1>3
  <2>2. q # r => owner'[r] = owner[r]
    BY <1>1, <2>1 DEF RequireAuth
  <2> QED BY <2>1, <2>2
<1>4. CASE \E q \in Req, from \in Address : \E ask \in Asks(from) : Arrive(q, ask)
  BY <1>1, <1>4 DEF Arrive
<1> QED BY <1>2, <1>3, <1>4 DEF Next, vars, Alone, Wrap, Cors, Limit, HandleSignIn, HandleLogin, Handle, Panic, Restart

\* Whatever the times, lists and secrets of the processes before: nobody is let in
\* whose address is not on the list of the process that lets them in, or whose
\* token is not its secret's, or is too old.
THEOREM AdmissionIsEarnedHolds == Spec => AdmissionIsEarned
<1>1. ASSUME Inv, [Next]_vars, NEW r \in Req, owner'[r] \notin {owner[r], None}
      PROVE  LET token == input[r].token
             IN  /\ owner'[r] = token.email
                 /\ token.email \in conf.allowed
                 /\ token.secret = conf.secret
                 /\ now < token.at + token.ttl * Second
  <2> DEFINE token == input[r].token
  <2>1. RequireAuth(r)
    BY <1>1, Admits
  <2>2. TypeOK /\ Earned /\ Good(r)
    BY <1>1 DEF Inv
  <2>3. token # None /\ Verify(token) /\ Allowed(token.email) /\ owner'[r] = token.email
    BY <1>1, <2>1, <2>2 DEF RequireAuth, TypeOK
  <2>4. token \in tokens /\ token \in Token
    BY <2>2, <2>3 DEF Good, Carried, TypeOK
  <2>5. now \div Second < (token.at + token.ttl * Second) \div Second
    BY <2>2, <2>3, <2>4 DEF Verify, Earned
  <2>6. Second \in Nat \ {0} /\ token.ttl \in Nat \ {0} /\ token.at \in Nat /\ now \in Nat
    BY <2>2, <2>4, SessionsAssumption DEF Token, TypeOK
  <2>7. token.at + token.ttl * Second \in Nat
    BY <2>6
  <2>8. now < token.at + token.ttl * Second
    BY <2>5, <2>6, <2>7, LaterQuotient
  <2> QED BY <2>3, <2>8 DEF Verify, Allowed
<1>2. Inv /\ [Next]_vars =>
        [\A r \in Req : owner'[r] \notin {owner[r], None} =>
            LET token == input[r].token
            IN  /\ owner'[r] = token.email
                /\ token.email \in conf.allowed
                /\ token.secret = conf.secret
                /\ now < token.at + token.ttl * Second]_vars
  BY <1>1
<1> QED BY <1>2, Invariant, PTL DEF Spec, AdmissionIsEarned

\* A token lets its bearer in, in the process that issued it and in every later one
\* that keeps the secret and the address, until the last second of its life.
THEOREM SignInLastsHolds == Spec => SignInLasts
<1>1. ASSUME Inv, [Next]_vars, NEW r \in Req, RequireAuth(r), input[r].token # None,
             \/ input[r].token.by = starts /\ input[r].token.how \in Ways
             \/ input[r].token.secret = conf.secret /\ input[r].token.email \in conf.allowed,
             now <= input[r].token.at + (input[r].token.ttl - 1) * Second
      PROVE  owner'[r] = input[r].token.email
  <2> DEFINE token == input[r].token
  <2>1. TypeOK /\ Earned /\ Good(r)
    BY <1>1 DEF Inv
  <2>2. token \in tokens /\ token \in Token
    BY <1>1, <2>1 DEF Good, Carried, TypeOK
  <2>3. conf # Down
    BY <1>1 DEF RequireAuth, In, Active
  <2>4. token.secret = conf.secret /\ token.email \in conf.allowed
    BY <1>1, <2>1, <2>2, <2>3 DEF Earned
  <2>5. Second \in Nat \ {0} /\ token.ttl \in Nat \ {0} /\ token.at \in Nat /\ now \in Nat
    BY <2>1, <2>2, SessionsAssumption DEF Token, TypeOK
  <2>6. token.at + token.ttl * Second \in Nat /\ now + Second <= token.at + token.ttl * Second
    BY <1>1, <2>5
  <2>7. now \div Second < (token.at + token.ttl * Second) \div Second
    BY <2>5, <2>6, LaterQuotient
  <2>8. Verify(token) /\ Allowed(token.email)
    BY <2>1, <2>2, <2>4, <2>7 DEF Verify, Allowed, Earned
  <2> QED BY <1>1, <2>1, <2>8 DEF RequireAuth, TypeOK
<1>2. Inv /\ [Next]_vars =>
        [\A r \in Req :
            LET token == input[r].token
                known == \/ token.by = starts /\ token.how \in Ways
                         \/ token.secret = conf.secret /\ token.email \in conf.allowed
            IN  (RequireAuth(r) /\ token # None /\ known
                   /\ now <= token.at + (token.ttl - 1) * Second)
                => owner'[r] = token.email]_vars
  BY <1>1
<1> QED BY <1>2, Invariant, PTL DEF Spec, SignInLasts

=============================================================================
