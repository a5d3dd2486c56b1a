------------------------------ MODULE Gateway -------------------------------
(***************************************************************************)
(* The way of a request through internal/api: the middleware of NewServer, *)
(* the limiters, requireAuth and the sign-in handlers, over the tokens and *)
(* processes of Sessions.                                                  *)
(*                                                                         *)
(* A request goes through its layers one step at a time, while the clock   *)
(* ticks, other requests go through theirs, and the process may stop, which *)
(* loses the requests it has.  Whether a limiter has a token left is       *)
(* RateLimiter's; here either may be the case, and what matters is whose   *)
(* budget is asked.  The other handlers are one layer, which answers or    *)
(* panics.                                                                 *)
(***************************************************************************)
EXTENDS Sessions

CONSTANTS
    Req,       \* connections, each with one request at a time
    Address,   \* the addresses that Caddy accepts connections from
    None       \* no token, no address

ASSUME GatewayAssumption == None \notin Account

VARIABLES
    pc,        \* the layer its request is in; 0: there was none yet
    input,     \* what it carries
    owner,     \* the account that requireAuth put in its context
    status,    \* the answer
    spent      \* what the requests took from limiters, and by which key

vars == <<sessions, pc, input, owner, status, spent>>

-----------------------------------------------------------------------------
Routes == {"google", "password", "send", "other", "health", "unknown"}

\* preflight: an OPTIONS request.  email: of Google's ID token.  right: whether the
\* password is.
Input == [route : Routes, preflight : BOOLEAN, from : Address \cup {None},
          token : Token \cup {None}, email : Email, right : BOOLEAN]

NoInput == [route |-> "unknown", preflight |-> FALSE, from |-> None,
            token |-> None, email |-> CHOOSE e \in Email : TRUE, right |-> FALSE]

Ask(route, from) == [NoInput EXCEPT !.route = route, !.from = from]

\* What clients ask for: each route with what matters to it.
Asks(from) ==
    {[Ask(route, from) EXCEPT !.token = token] :
        route \in {"send", "other"}, token \in tokens \cup {None}}
    \cup {[Ask("google", from) EXCEPT !.email = email] : email \in Email}
    \cup {[Ask("password", from) EXCEPT !.right = right] : right \in BOOLEAN}
    \cup {Ask("health", from), Ask("unknown", from), [Ask("send", from) EXCEPT !.preflight = TRUE]}

GatewayInit ==
    /\ Init
    /\ pc = [r \in Req |-> 0]
    /\ input = [r \in Req |-> NoInput]
    /\ owner = [r \in Req |-> None]
    /\ status = [r \in Req |-> "none"]
    /\ spent = {}

\* Rationing messages before asking who sends them.
InnerRationedFirst(route) ==
    CASE route = "google" /\ "google" \in conf.ways -> <<"signInBudget", "signIn">>
      [] route = "password" /\ "password" \in conf.ways -> <<"signInBudget", "logIn">>
      [] route = "send" -> <<"messageBudget", "auth", "handler">>
      [] route = "other" -> <<"auth", "handler">>
      [] route = "health" -> <<"health">>
      [] OTHER -> <<"notFound">>

\* What the mux finds: the sign-in routes exist when they are configured.
Inner(route) ==
    CASE route = "google" /\ "google" \in conf.ways -> <<"signInBudget", "signIn">>
      [] route = "password" /\ "password" \in conf.ways -> <<"signInBudget", "logIn">>
      [] route = "send" -> <<"auth", "messageBudget", "handler">>
      [] route = "other" -> <<"auth", "handler">>
      [] route = "health" -> <<"health">>
      [] OTHER -> <<"notFound">>

\* Rationing preflights too.
ChainLimitedFirst == <<"recover", "log", "readBudget", "cors">>

\* chain: the first listed is the outermost.
Chain == <<"recover", "log", "cors", "readBudget">>

Layers(r) == Chain \o Inner(input[r].route)

Active(r) == pc[r] # 0 /\ status[r] = "none" /\ conf # Down

In(r, layer) == Active(r) /\ Layers(r)[pc[r]] = layer

-----------------------------------------------------------------------------
Arrive(r, i) ==
    /\ ~Active(r) /\ conf # Down
    /\ pc' = [pc EXCEPT ![r] = 1]
    /\ input' = [input EXCEPT ![r] = i]
    /\ owner' = [owner EXCEPT ![r] = None]
    /\ status' = [status EXCEPT ![r] = "none"]
    /\ spent' = {s \in spent : s.req # r}
    /\ UNCHANGED sessions

\* next.ServeHTTP
Proceed(r) == pc' = [pc EXCEPT ![r] = @ + 1] /\ UNCHANGED status

Answer(r, s) == status' = [status EXCEPT ![r] = s] /\ UNCHANGED pc

\* recoverPanics and logRequests have nothing to do on the way in.
Wrap(r) ==
    /\ In(r, "recover") \/ In(r, "log")
    /\ Proceed(r)
    /\ UNCHANGED <<sessions, input, owner, spent>>

\* A browser's preflight is answered here, and goes no further.
Cors(r) ==
    /\ In(r, "cors")
    /\ IF input[r].preflight THEN Answer(r, "204") ELSE Proceed(r)
    /\ UNCHANGED <<sessions, input, owner, spent>>

\* clientIP, or userKey: the account that requireAuth found.
Key(r, budget) == IF budget = "messageBudget" THEN owner[r] ELSE input[r].from

\* limiter.limit: a token is taken from the key's bucket, or there is none.
Limit(r, budget) ==
    /\ In(r, budget)
    /\ \/ /\ spent' = spent \cup {[budget |-> budget, key |-> Key(r, budget), req |-> r]}
          /\ Proceed(r)
       \/ Answer(r, "429") /\ UNCHANGED spent
    /\ UNCHANGED <<sessions, input, owner>>

\* The list is left to the sign-in.
AllowedOnce(email) == TRUE

\* if _, allowed := s.allowed[email]; !allowed
Allowed(email) == email \in conf.allowed

RequireAuth(r) ==
    /\ In(r, "auth")
    /\ LET token == input[r].token
       IN  IF token = None \/ ~Verify(token)
           THEN Answer(r, "401") /\ UNCHANGED owner
           ELSE IF ~Allowed(token.email)
                THEN Answer(r, "403") /\ UNCHANGED owner
                ELSE Proceed(r) /\ owner' = [owner EXCEPT ![r] = token.email]
    /\ UNCHANGED <<sessions, input, spent>>

\* POST /auth/google: Google rejects the ID token (401), cannot be asked (502), or
\* vouches for the address.
HandleSignIn(r) ==
    /\ In(r, "signIn")
    /\ \/ Answer(r, "200") /\ SignIn(input[r].email)
       \/ /\ \/ \E s \in {"401", "502"} : Answer(r, s)
             \/ ~Allowed(Lower[input[r].email]) /\ Answer(r, "403")
          /\ UNCHANGED sessions
    /\ UNCHANGED <<input, owner, spent>>

\* POST /auth/login
HandleLogin(r) ==
    /\ In(r, "logIn")
    /\ \/ input[r].right /\ Answer(r, "200") /\ PasswordLogin
       \/ ~input[r].right /\ Answer(r, "401") /\ UNCHANGED sessions
    /\ UNCHANGED <<input, owner, spent>>

\* Any other handler.
Handle(r) ==
    /\ \/ In(r, "handler") /\ Answer(r, "200")
       \/ In(r, "health") /\ Answer(r, "200")
       \/ In(r, "notFound") /\ Answer(r, "404")
    /\ UNCHANGED <<sessions, input, owner, spent>>

\* recoverPanics answers for the layers within it.
Panic(r) ==
    /\ In(r, "handler")
    /\ Answer(r, "500")
    /\ UNCHANGED <<sessions, input, owner, spent>>

\* The process stops, for whatever reason, and the connections close.
Restart ==
    /\ Stop
    /\ status' = [r \in Req |-> IF Active(r) THEN "lost" ELSE status[r]]
    /\ UNCHANGED <<pc, input, owner, spent>>

Alone == UNCHANGED <<pc, input, owner, status, spent>>

Next ==
    \/ Tick /\ Alone
    \/ \E env \in Env : Start(env) /\ Alone
    \/ \E email \in Email, secret \in Secret : PrintToken(email, secret) /\ Alone
    \/ \E r \in Req, from \in Address : \E ask \in Asks(from) : Arrive(r, ask)
    \/ \E r \in Req :
          \/ Wrap(r) \/ Cors(r) \/ RequireAuth(r)
          \/ \E budget \in {"readBudget", "signInBudget", "messageBudget"} : Limit(r, budget)
          \/ HandleSignIn(r) \/ HandleLogin(r) \/ Handle(r) \/ Panic(r)
    \/ Restart

Spec == GatewayInit /\ [][Next]_vars

-----------------------------------------------------------------------------
(* Properties                                                               *)

Statuses == {"none", "lost", "200", "204", "401", "403", "404", "429", "500", "502"}

\* What the variables hold: accounts are in lower case wherever they are decided on.
TypeOK ==
    /\ now \in Nat
    /\ conf \in Config \cup {Down}
    /\ tokens \subseteq Token
    /\ starts \in Nat
    /\ pc \in [Req -> Nat]
    /\ input \in [Req -> Input]
    /\ owner \in [Req -> Account \cup {None}]
    /\ status \in [Req -> Statuses]
    /\ spent \subseteq [budget : {"readBudget", "signInBudget", "messageBudget"},
                       key : Address \cup Account \cup {None}, req : Req]

\* "drop an address from ALLOWED_EMAILS, restart, and its tokens stop working.
\* Changing SESSION_SECRET signs everyone out" (README.md): whatever process issued
\* a token, the one that is shown it admits the address only when it is on its own
\* list, the token is signed with its own secret, and the time is not up.
AdmissionIsEarned ==
    [][\A r \in Req : owner'[r] \notin {owner[r], None} =>
          LET token == input[r].token
          IN  /\ owner'[r] = token.email
              /\ token.email \in conf.allowed
              /\ token.secret = conf.secret
              /\ now < token.at + token.ttl * Second]_vars

\* A sign-in is worth something: however its address was typed in the environment
\* or by Google, its token is admitted by the process that issued it, and by later
\* ones with the same secret and the address on their list, up to the last second
\* of its time.
SignInLasts ==
    [][\A r \in Req :
          LET token == input[r].token
              known == \/ token.by = starts /\ token.how \in Ways
                       \/ token.secret = conf.secret /\ token.email \in conf.allowed
          IN  (RequireAuth(r) /\ token # None /\ known
                 /\ now <= token.at + (token.ttl - 1) * Second)
              => owner'[r] = token.email]_vars

\* Every request that gets beyond the middleware costs its address a token of the
\* read budget, and no other address, and what a browser asks before it may send at
\* all costs nothing.  Only a message that was let in spends its account's message
\* budget, and spends no other; and nobody's password or Google token is looked at
\* without a token from the sign-in budget of their address.
EveryoneSpendsTheirOwn ==
    /\ \A s \in spent : ~input[s.req].preflight
    /\ \A s \in spent :
          IF s.budget = "messageBudget"
          THEN s.key # None /\ input[s.req].token.email = s.key
          ELSE s.key = input[s.req].from
    /\ \A r \in Req :
          status[r] \in {"200", "401", "403", "404", "500", "502"}
             => [budget |-> "readBudget", key |-> input[r].from, req |-> r] \in spent
    /\ \A r \in Req :
          status[r] \in {"200", "401", "403", "502"} /\ input[r].route \in Ways
             => [budget |-> "signInBudget", key |-> input[r].from, req |-> r] \in spent
    /\ \A r \in Req :
          status[r] \in {"200", "500"} /\ input[r].route = "send"
             => [budget |-> "messageBudget", key |-> owner[r], req |-> r] \in spent

=============================================================================
