------------------------------ MODULE Sessions ------------------------------
(***************************************************************************)
(* Who may use the API: the environment that internal/config reads once    *)
(* per process, and the tokens of internal/auth/session.go, which outlive  *)
(* processes, lists and secrets.  The server keeps no session: a token     *)
(* holds an address, an expiry and a signature, and what it is worth is    *)
(* decided by the process it is shown to.                                  *)
(*                                                                         *)
(* Addresses are as they are typed; time is in ticks, Second to a second.  *)
(* Gateway has the requests that sign in and that show tokens.             *)
(***************************************************************************)
EXTENDS Integers, Sequences, FiniteSets

CONSTANTS
    Email,       \* addresses, as they are typed
    Account,     \* those of them that are in lower case
    Lower,       \* strings.ToLower of each
    Secret,      \* values of SESSION_SECRET
    Lists,       \* values of ALLOWED_EMAILS: sequences of addresses
    Second,      \* ticks in a second
    SessionTTL,  \* sessionTTL, in seconds
    TokenTTL,    \* how long a token of the command lasts, in seconds
    Down,        \* no process
    MaxTime,     \* bound: the clock
    MaxStarts,   \* bound: how often the process is started
    MaxTokens    \* bound: tokens issued

ASSUME SessionsAssumption ==
    /\ Email # {} /\ Account \subseteq Email
    /\ Lower \in [Email -> Account]
    /\ \A a \in Account : Lower[a] = a
    /\ Lists \subseteq Seq(Email)
    /\ {Second, SessionTTL, TokenTTL} \subseteq Nat \ {0}
    /\ {MaxTime, MaxStarts, MaxTokens} \subseteq Nat

VARIABLES
    now,      \* the clock
    conf,     \* the configuration of the running process, or Down
    tokens,   \* every token handed out
    starts    \* processes started so far

sessions == <<now, conf, tokens, starts>>

-----------------------------------------------------------------------------
Ways == {"google", "password"}

\* What of the environment decides who gets in.  ways: which of GOOGLE_CLIENT_ID
\* and ADMIN_PASSWORD are set.
Env == [secret : Secret, emails : Lists, ways : SUBSET Ways]

Addresses(list) == {list[i] : i \in DOMAIN list}

Config == [secret : Secret, allowed : SUBSET Account, owner : Account, ways : SUBSET Ways]

\* email, expires and secret are in the token.  The rest is about it: when and by
\* which process it was issued, for how long, and how.
Token == [email : Account, expires : Nat, secret : Secret,
          at : Nat, by : Nat, ttl : {SessionTTL, TokenTTL}, how : Ways \cup {"command"}]

Init ==
    /\ now = 0
    /\ conf = Down
    /\ tokens = {}
    /\ starts = 0

\* time.Now
Tick ==
    /\ now < MaxTime
    /\ now' = now + 1
    /\ UNCHANGED <<conf, tokens, starts>>

-----------------------------------------------------------------------------
(* Configuration                                                            *)

\* Load gives up unless there is an address, and a way to sign in.
Loads(env) == env.emails # <<>> /\ env.ways # {}

\* The owner as it is typed.
LoadOwnerAsTyped(env) ==
    [secret |-> env.secret, ways |-> env.ways, owner |-> env.emails[1],
     allowed |-> {Lower[e] : e \in Addresses(env.emails)}]

\* Addresses are lowercased; a password signs in as the first.
Load(env) ==
    [secret |-> env.secret, ways |-> env.ways, owner |-> Lower[env.emails[1]],
     allowed |-> {Lower[e] : e \in Addresses(env.emails)}]

\* The operator may have edited .env since the last start.
Start(env) ==
    /\ conf = Down
    /\ starts < MaxStarts
    /\ Loads(env)
    /\ conf' = Load(env)
    /\ starts' = starts + 1
    /\ UNCHANGED <<now, tokens>>

Stop ==
    /\ conf # Down
    /\ conf' = Down
    /\ UNCHANGED <<now, tokens, starts>>

-----------------------------------------------------------------------------
(* Tokens                                                                   *)

\* now.Add(ttl).Truncate(time.Second), in seconds
Expiry(ttl) == (now + ttl * Second) \div Second

Issue(email, secret, ttl, how) ==
    /\ Cardinality(tokens) < MaxTokens
    /\ tokens' = tokens \cup {[email |-> email, expires |-> Expiry(ttl), secret |-> secret,
                               at |-> now, by |-> starts, ttl |-> ttl, how |-> how]}
    /\ UNCHANGED <<now, conf, starts>>

\* The signature is right, and the token has not expired.
Verify(token) == token.secret = conf.secret /\ now \div Second < token.expires

\* signIn: Google has vouched for the address.
SignIn(email) ==
    /\ Lower[email] \in conf.allowed
    /\ Issue(Lower[email], conf.secret, SessionTTL, "google")

PasswordLogin == Issue(conf.owner, conf.secret, SessionTTL, "password")

\* cookd-api token <email>: whoever has the secret, whether a process runs or not.
PrintToken(email, secret) == Issue(Lower[email], secret, TokenTTL, "command")

=============================================================================
