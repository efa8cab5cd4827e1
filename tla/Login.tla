-------------------------------- MODULE Login -------------------------------
(***************************************************************************)
(* Login (handlers_auth.go, loginlimit.go, store/sessions.go): concurrent  *)
(* attempts from one address behind a limiter, sessions with a sliding     *)
(* deadline, logout, and the cookie jar of the browser that logs in.       *)
(* The limiter is checked and told of a failure in two critical sections,  *)
(* with PAM in between; a session is read and prolonged in two statements. *)
(***************************************************************************)
EXTENDS Naturals, Sequences, FiniteSets

CONSTANTS LoginHandlers,  \* concurrent HTTP handlers
          Tokens,         \* bound: sessions ever created
          TTL,            \* sessionTTL (7 days)
          TouchAfter,     \* sessionTouchAfter (an hour)
          MaxFails,       \* the limiter's cap
          Window,         \* ... and how long it counts a failure
          MaxTime         \* bound: the clock

ASSUME LoginAssumption == /\ IsFiniteSet(LoginHandlers)
                          /\ TTL \in Nat \ {0} /\ TouchAfter \in 1..TTL
                          /\ MaxFails \in Nat \ {0} /\ Window \in Nat
                          /\ MaxTime \in Nat \ {0}

VARIABLES now,
          row,            \* row[t]: expires_at of the session of token t, or NoSessionRow
          jar,            \* the browser's cookie: its token and when it drops it
          given,          \* history: the token of the last cookie it was given
          fails,          \* the limiter's failures for the address
          attempt,        \* attempt[h]: where handler h stands, for which token
          used,           \* history: tokens ever created
          loggedOut,      \* history: tokens whose session was ended by a logout
          active          \* history: active[t]: when t last served a request in full

loginVars == <<now, row, jar, given, fails, attempt, used, loggedOut, active>>

NoSessionRow == 0
NoToken == "no token"
NoCookie == [token |-> NoToken, until |-> 0]
Free == [at |-> "free", token |-> NoToken, when |-> 0]
Times == 0..(MaxTime + TTL)

LoginTypeOK ==
  /\ now \in 1..MaxTime
  /\ row \in [Tokens -> Times]
  /\ jar \in [token : Tokens \union {NoToken}, until : Times]
  /\ given \in used \union {NoToken}
  /\ \A i \in DOMAIN fails : fails[i] \in 1..MaxTime
  /\ attempt \in [LoginHandlers -> [at : {"free", "pam", "create", "clear", "touch"},
                                    token : Tokens \union {NoToken}, when : 0..MaxTime]]
  /\ used \subseteq Tokens
  /\ loggedOut \subseteq used
  /\ active \in [Tokens -> 0..MaxTime]

LoginInit == /\ now = 1
             /\ row = [t \in Tokens |-> NoSessionRow]
             /\ jar = NoCookie
             /\ given = NoToken
             /\ fails = <<>>
             /\ attempt = [h \in LoginHandlers |-> Free]
             /\ used = {}
             /\ loggedOut = {}
             /\ active = [t \in Tokens |-> 0]
-----------------------------------------------------------------------------
\* Time passes, and takes expired cookies with it; never between a request's
\* read of its session and its update, which are milliseconds apart.
Hour == /\ now < MaxTime
        /\ \A h \in LoginHandlers : attempt[h].at # "touch"
        /\ now' = now + 1
        /\ jar' = IF jar.until <= now' THEN NoCookie ELSE jar
        /\ UNCHANGED <<row, given, fails, attempt, used, loggedOut, active>>

Goes(h, a) == attempt' = [attempt EXCEPT ![h] = a]

\* prune: the failures that still count at a time.
Kept(times, time) ==
  LET kept[i \in 0..Len(times)] ==
        IF i = 0 THEN <<>>
        ELSE IF times[i] + Window > time THEN Append(kept[i - 1], times[i]) ELSE kept[i - 1]
  IN  kept[Len(times)]
Pruned == Kept(fails, now)

\* Broken form of the next: the cap itself is still let through.
BlockedAboveCap == Len(Pruned) > MaxFails

Blocked == Len(Pruned) >= MaxFails

\* An attempt the limiter lets through goes to PAM, any other is refused.
LoginStart(h) == /\ attempt[h].at = "free"
                 /\ fails' = Pruned
                 /\ Goes(h, IF Blocked THEN Free ELSE [Free EXCEPT !.at = "pam"])
                 /\ UNCHANGED <<now, row, jar, given, used, loggedOut, active>>

\* PAM says no, which counts; or yes, for a user who may be let in or not.
PamFails(h) == /\ attempt[h].at = "pam"
               /\ fails' = Append(Pruned, now)
               /\ Goes(h, Free)
               /\ UNCHANGED <<now, row, jar, given, used, loggedOut, active>>

PamAccepts(h) == /\ attempt[h].at = "pam"
                 /\ Goes(h, Free) \/ Goes(h, [Free EXCEPT !.at = "create"])
                 /\ UNCHANGED <<now, row, jar, given, fails, used, loggedOut, active>>

CreateSession(h) == /\ attempt[h].at = "create"
                    /\ \E t \in Tokens \ used :
                         /\ row' = [row EXCEPT ![t] = now + TTL]
                         /\ used' = used \union {t}
                         /\ active' = [active EXCEPT ![t] = now]
                         /\ Goes(h, [at |-> "clear", token |-> t, when |-> now])
                    /\ UNCHANGED <<now, jar, given, fails, loggedOut>>

Swept(when) == [t \in Tokens |-> IF row[t] <= when THEN NoSessionRow ELSE row[t]]

\* The failures are forgotten, rows expired by then swept, which may fail, and
\* the cookie is set.
FinishLogin(h) == /\ attempt[h].at = "clear"
                  /\ fails' = <<>>
                  /\ row' \in {row, Swept(attempt[h].when)}
                  /\ jar' = [token |-> attempt[h].token, until |-> now + TTL]
                  /\ given' = attempt[h].token
                  /\ Goes(h, Free)
                  /\ UNCHANGED <<now, used, loggedOut, active>>
-----------------------------------------------------------------------------
ValidSession(t) == row[t] > now

\* Broken form of the next: prolonged only in its last hours.
NearlyOver(t) == row[t] - now < TouchAfter

\* Writing the deadline is throttled to once in TouchAfter.
ToProlong(t) == row[t] - now < TTL - TouchAfter

\* requireAuth: the session is read, prolonged if it is time, and the request
\* served.
Request(h) == /\ attempt[h].at = "free" /\ jar # NoCookie /\ ValidSession(jar.token)
              /\ IF ToProlong(jar.token)
                   THEN /\ Goes(h, [at |-> "touch", token |-> jar.token, when |-> now])
                        /\ UNCHANGED active
                   ELSE /\ active' = [active EXCEPT ![jar.token] = now]
                        /\ UNCHANGED attempt
              /\ UNCHANGED <<now, row, jar, given, fails, used, loggedOut>>

\* Broken form of the next: the row is written whether it is there or not.
TouchInserting(t, until) == [row EXCEPT ![t] = until]

\* UPDATE: of a row that is still there.
TouchSession(t, until) == IF row[t] = NoSessionRow THEN row ELSE [row EXCEPT ![t] = until]

\* A failing update is logged and the request served.
Touch(h) == /\ attempt[h].at = "touch"
            /\ \/ /\ row' = TouchSession(attempt[h].token, attempt[h].when + TTL)
                  /\ active' = [active EXCEPT ![attempt[h].token] = attempt[h].when]
               \/ UNCHANGED <<row, active>>
            /\ Goes(h, Free)
            /\ UNCHANGED <<now, jar, given, fails, used, loggedOut>>

\* Logout, a request that needs a session like others, deletes the row and then
\* the cookie.
Logout == /\ jar # NoCookie /\ ValidSession(jar.token)
          /\ row' = [row EXCEPT ![jar.token] = NoSessionRow]
          /\ loggedOut' = loggedOut \union {jar.token}
          /\ jar' = NoCookie
          /\ UNCHANGED <<now, given, fails, attempt, used, active>>

\* A restart forgets the limiter and keeps the sessions.
RestartServer == /\ fails' = <<>>
                 /\ attempt' = [h \in LoginHandlers |-> Free]
                 /\ UNCHANGED <<now, row, jar, given, used, loggedOut, active>>

LoginNext == \/ Hour \/ Logout \/ RestartServer
             \/ \E h \in LoginHandlers :
                  \/ LoginStart(h) \/ PamFails(h) \/ PamAccepts(h) \/ CreateSession(h)
                  \/ FinishLogin(h) \/ Request(h) \/ Touch(h)

LoginSpec == LoginInit /\ [][LoginNext]_loginVars
-----------------------------------------------------------------------------
(* Properties.                                                             *)

\* A logout is final: a request that read the session before it, and prolongs
\* it after, does not bring it back (handlers_auth.go:83-89, 250-255).
LogoutIsFinal == \A t \in loggedOut : row[t] = NoSessionRow

\* A session in use is good for TTL - TouchAfter more, and for TTL at most: no
\* order of concurrent requests moves its deadline back further
\* (handlers_auth.go:83-86).  Requests whose update failed do not count.
DeadlineSlides ==
  \A t \in Tokens :
    row[t] # NoSessionRow => row[t] \in (active[t] + TTL - TouchAfter)..(now + TTL)

\* However attempts overlap, the failures that count at one time exceed the
\* cap by at most the attempts that were under way with the first one refused
\* (loginlimit.go:25-37).
AttemptsAreBounded == Len(Pruned) < MaxFails + Cardinality(LoginHandlers)

\* A browser keeps the cookie of a session that is valid and was not logged
\* out (README.md:175: "7-day sliding cookies").
CookieSlides ==
  given # NoToken /\ given \notin loggedOut /\ ValidSession(given) => jar.token = given
=============================================================================
