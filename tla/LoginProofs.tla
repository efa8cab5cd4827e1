---------------------------- MODULE LoginProofs -----------------------------
(***************************************************************************)
(* LogoutIsFinal and DeadlineSlides, for any number of handlers, sessions  *)
(* and lifetimes.  A row is written by a login, for a token that is new,   *)
(* and by the update of a request that read the session earlier; what that *)
(* request still knows is the invariant.  Then the limiter: what prune     *)
(* leaves, by induction, and AttemptsAreBounded.                           *)
(***************************************************************************)
EXTENDS Login, SequenceTheorems, FiniteSetTheorems, InductionLemmas

Attempts == [at : {"free", "pam", "create", "clear", "touch"},
             token : Tokens \union {NoToken}, when : Nat]

LoginTyped == /\ now \in Nat \ {0}
         /\ row \in [Tokens -> Nat]
         /\ active \in [Tokens -> Nat]
         /\ used \subseteq Tokens /\ loggedOut \subseteq used
         /\ attempt \in [LoginHandlers -> Attempts]

\* The cookie's session, if there is a cookie, was created.
JarIsUsed == jar # NoCookie => jar.token \in used

\* A handler that will set a cookie has created its session; one that will
\* prolong a session read it no later than now.
HandlersKnow ==
  \A h \in LoginHandlers :
    /\ attempt[h].at \in {"clear", "touch"} => attempt[h].token \in used
    /\ attempt[h].when <= now

LoginInv == LoginTyped /\ JarIsUsed /\ HandlersKnow /\ LogoutIsFinal /\ DeadlineSlides
-----------------------------------------------------------------------------
\* A server without sessions satisfies the invariant.
LEMMA LoginInitInv == LoginInit => LoginInv
<1> SUFFICES ASSUME LoginInit PROVE LoginInv
  OBVIOUS
<1> USE DEF LoginInit
<1>1. LoginTyped
  BY DEF LoginTyped, Attempts, Free, NoSessionRow
<1>2. JarIsUsed /\ LogoutIsFinal
  BY DEF JarIsUsed, LogoutIsFinal
<1>3. HandlersKnow
  BY DEF HandlersKnow, Free
<1>4. DeadlineSlides
  BY DEF DeadlineSlides, NoSessionRow
<1> QED
  BY <1>1, <1>2, <1>3, <1>4 DEF LoginInv

\* Where a handler goes next, if it knows what it should.
LEMMA GoesKeeps ==
  ASSUME LoginTyped, HandlersKnow, NEW h \in LoginHandlers, NEW a \in Attempts, Goes(h, a),
         used \subseteq used', now' = now,
         a.at \in {"clear", "touch"} => a.token \in used', a.when <= now
  PROVE  attempt' \in [LoginHandlers -> Attempts] /\ HandlersKnow'
<1>1. attempt' \in [LoginHandlers -> Attempts] /\ attempt'[h] = a
      /\ \A g \in LoginHandlers \ {h} : attempt'[g] = attempt[g]
  BY DEF Goes, LoginTyped
<1> QED
  BY <1>1 DEF HandlersKnow

\* A handler that is free again knows enough.
LEMMA FreeType == Free \in Attempts /\ Free.at = "free" /\ Free.when = 0
  BY DEF Free, Attempts

\* Every step keeps the invariant.
LEMMA LoginKeeps == LoginInv /\ [LoginNext]_loginVars => LoginInv'
<1> SUFFICES ASSUME LoginInv, [LoginNext]_loginVars PROVE LoginInv'
  OBVIOUS
<1> USE LoginAssumption DEF LoginInv
<1>1. CASE Hour
  <2>1. now' = now + 1 /\ UNCHANGED <<row, attempt, used, loggedOut, active>>
        /\ jar' \in {NoCookie, jar}
    BY <1>1 DEF Hour
  <2>2. LoginTyped' /\ JarIsUsed' /\ LogoutIsFinal'
    BY <2>1 DEF LoginTyped, JarIsUsed, LogoutIsFinal
  <2>3. HandlersKnow'
    BY <2>1 DEF HandlersKnow, LoginTyped, Attempts
  <2>4. DeadlineSlides'
    BY <2>1 DEF DeadlineSlides, LoginTyped
  <2> QED
    BY <2>2, <2>3, <2>4
<1>2. ASSUME NEW h \in LoginHandlers, LoginStart(h) \/ PamFails(h) \/ PamAccepts(h)
      PROVE  LoginInv'
  <2>1. UNCHANGED <<now, row, jar, used, loggedOut, active>>
    BY <1>2 DEF LoginStart, PamFails, PamAccepts
  <2>2. PICK at \in {"free", "pam", "create"} : Goes(h, [Free EXCEPT !.at = at])
    <3>1. Free = [Free EXCEPT !.at = "free"]
      BY DEF Free
    <3> QED
      BY <1>2, <3>1 DEF LoginStart, PamFails, PamAccepts
  <2>3. [Free EXCEPT !.at = at] \in Attempts
    BY DEF Free, Attempts
  <2>4. attempt' \in [LoginHandlers -> Attempts] /\ HandlersKnow'
    BY <2>1, <2>2, <2>3, GoesKeeps DEF Free, LoginTyped
  <2> QED
    BY <2>1, <2>4 DEF LoginTyped, JarIsUsed, LogoutIsFinal, DeadlineSlides
<1>3. ASSUME NEW h \in LoginHandlers, CreateSession(h) PROVE LoginInv'
  <2>1. PICK t \in Tokens \ used :
          /\ row' = [row EXCEPT ![t] = now + TTL]
          /\ used' = used \union {t}
          /\ active' = [active EXCEPT ![t] = now]
          /\ Goes(h, [at |-> "clear", token |-> t, when |-> now])
          /\ UNCHANGED <<now, jar, loggedOut>>
    BY <1>3 DEF CreateSession
  <2> DEFINE a == [at |-> "clear", token |-> t, when |-> now]
  <2>2. a \in Attempts /\ a.token = t /\ a.when = now
    BY <2>1 DEF Attempts, LoginTyped
  <2>3. Goes(h, a) /\ used \subseteq used' /\ t \in used' /\ now' = now
    BY <2>1
  <2> HIDE DEF a
  <2>4. attempt' \in [LoginHandlers -> Attempts] /\ HandlersKnow'
    BY <2>2, <2>3, GoesKeeps DEF LoginTyped
  <2>5. now + TTL \in Nat
    BY DEF LoginTyped
  <2>6. LoginTyped'
    BY <2>1, <2>5, <2>4 DEF LoginTyped
  <2>7. JarIsUsed' /\ LogoutIsFinal'
    BY <2>1 DEF JarIsUsed, LogoutIsFinal, LoginTyped
  <2>8. DeadlineSlides'
    BY <2>1 DEF DeadlineSlides, LoginTyped
  <2> QED
    BY <2>6, <2>7, <2>8, <2>4
<1>4. ASSUME NEW h \in LoginHandlers, FinishLogin(h) PROVE LoginInv'
  <2>1. /\ attempt[h].at = "clear"
        /\ row' \in {row, Swept(attempt[h].when)}
        /\ jar'.token = attempt[h].token
        /\ Goes(h, Free)
        /\ UNCHANGED <<now, used, loggedOut, active>>
    BY <1>4 DEF FinishLogin
  <2>2. attempt' \in [LoginHandlers -> Attempts] /\ HandlersKnow'
    BY <2>1, FreeType, GoesKeeps DEF LoginTyped
  <2>3. LoginTyped'
    BY <2>1, <2>2 DEF LoginTyped, Swept, NoSessionRow
  <2>4. JarIsUsed'
    BY <2>1 DEF JarIsUsed, HandlersKnow
  <2>5. LogoutIsFinal' /\ DeadlineSlides'
    BY <2>1 DEF LogoutIsFinal, DeadlineSlides, LoginTyped, Swept
  <2> QED
    BY <2>2, <2>3, <2>4, <2>5
<1>5. ASSUME NEW h \in LoginHandlers, Request(h) PROVE LoginInv'
  <2>1. jar.token \in used /\ jar.token \in Tokens /\ row[jar.token] > now
        /\ UNCHANGED <<now, row, jar, used, loggedOut>>
    BY <1>5 DEF Request, JarIsUsed, ValidSession, LoginTyped
  <2>2. CASE ToProlong(jar.token)
    <3> DEFINE a == [at |-> "touch", token |-> jar.token, when |-> now]
    <3>1. Goes(h, a) /\ UNCHANGED active
      BY <1>5, <2>2 DEF Request
    <3>2. a \in Attempts
      BY <2>1 DEF Attempts, LoginTyped
    <3>3. attempt' \in [LoginHandlers -> Attempts] /\ HandlersKnow'
      BY <2>1, <3>1, <3>2, GoesKeeps DEF LoginTyped
    <3> QED
      BY <2>1, <3>1, <3>3 DEF LoginTyped, JarIsUsed, LogoutIsFinal, DeadlineSlides
  <2>3. CASE ~ToProlong(jar.token)
    <3>1. active' = [active EXCEPT ![jar.token] = now] /\ UNCHANGED attempt
      BY <1>5, <2>3 DEF Request
    <3>2. row[jar.token] - now >= TTL - TouchAfter
      BY <2>1, <2>3 DEF ToProlong, LoginTyped
    <3>3. DeadlineSlides'
      BY <2>1, <3>1, <3>2 DEF DeadlineSlides, LoginTyped
    <3> QED
      BY <2>1, <3>1, <3>3 DEF LoginTyped, JarIsUsed, LogoutIsFinal, HandlersKnow
  <2> QED
    BY <2>2, <2>3
<1>6. ASSUME NEW h \in LoginHandlers, Touch(h) PROVE LoginInv'
  <2> DEFINE t == attempt[h].token
             when == attempt[h].when
  <2>1. attempt[h].at = "touch" /\ Goes(h, Free) /\ UNCHANGED <<now, jar, used, loggedOut>>
        /\ \/ row' = TouchSession(t, when + TTL) /\ active' = [active EXCEPT ![t] = when]
           \/ UNCHANGED <<row, active>>
    BY <1>6 DEF Touch
  <2>2. attempt' \in [LoginHandlers -> Attempts] /\ HandlersKnow'
    BY <2>1, FreeType, GoesKeeps DEF LoginTyped
  <2>3. t \in Tokens /\ when \in Nat /\ when <= now
    BY <2>1 DEF HandlersKnow, LoginTyped, Attempts
  <2> HIDE DEF t, when
  <2>4. LoginTyped'
    BY <2>1, <2>2, <2>3 DEF LoginTyped, TouchSession
  <2>5. JarIsUsed'
    BY <2>1 DEF JarIsUsed
  <2>6. LogoutIsFinal'
    BY <2>1, <2>3 DEF LogoutIsFinal, TouchSession, LoginTyped
  <2>7. DeadlineSlides'
    BY <2>1, <2>3 DEF DeadlineSlides, TouchSession, LoginTyped
  <2> QED
    BY <2>2, <2>4, <2>5, <2>6, <2>7
<1>7. CASE Logout
  <2>1. jar.token \in used /\ jar.token \in Tokens
        /\ row' = [row EXCEPT ![jar.token] = NoSessionRow]
        /\ loggedOut' = loggedOut \union {jar.token} /\ jar' = NoCookie
        /\ UNCHANGED <<now, attempt, used, active>>
    BY <1>7 DEF Logout, JarIsUsed, LoginTyped
  <2>2. LoginTyped' /\ JarIsUsed' /\ HandlersKnow'
    BY <2>1 DEF LoginTyped, JarIsUsed, HandlersKnow, NoSessionRow
  <2>3. LogoutIsFinal' /\ DeadlineSlides'
    BY <2>1 DEF LogoutIsFinal, DeadlineSlides, LoginTyped
  <2> QED
    BY <2>2, <2>3
<1>8. CASE RestartServer
  <2>1. attempt' = [h \in LoginHandlers |-> Free]
        /\ UNCHANGED <<now, row, jar, used, loggedOut, active>>
    BY <1>8 DEF RestartServer
  <2>2. LoginTyped' /\ HandlersKnow'
    BY <2>1, FreeType DEF LoginTyped, HandlersKnow
  <2> QED
    BY <2>1, <2>2 DEF JarIsUsed, LogoutIsFinal, DeadlineSlides
<1>9. CASE UNCHANGED loginVars
  BY <1>9 DEF loginVars, LoginTyped, JarIsUsed, HandlersKnow, LogoutIsFinal, DeadlineSlides
<1> QED
  BY <1>1, <1>2, <1>3, <1>4, <1>5, <1>6, <1>7, <1>8, <1>9 DEF LoginNext

\* handlers_auth.go:83-89, 250-255: no request that read a session before its
\* logout brings it back, and no token is ever given out twice.
THEOREM LogoutFinal == LoginSpec => []LogoutIsFinal
<1>1. LoginInv => LogoutIsFinal
  BY DEF LoginInv
<1> QED
  BY <1>1, LoginInitInv, LoginKeeps, PTL DEF LoginSpec

\* handlers_auth.go:83-86: a session in use keeps its deadline between
\* TTL - TouchAfter after its last request and TTL from now.
THEOREM Slides == LoginSpec => []DeadlineSlides
<1>1. LoginInv => DeadlineSlides
  BY DEF LoginInv
<1> QED
  BY <1>1, LoginInitInv, LoginKeeps, PTL DEF LoginSpec
-----------------------------------------------------------------------------
(* The limiter.                                                            *)

\* The equation Kept defines a function by.
KeptNext(f, times, time, i) ==
  IF i = 0 THEN <<>>
  ELSE IF times[i] + Window > time THEN Append(f[i - 1], times[i]) ELSE f[i - 1]
Keeping(f, times, time, n) == [i \in 0..n |-> KeptNext(f, times, time, i)]
IsKept(f, times, time, n) == f = Keeping(f, times, time, n)

\* One entry of the equation.
LEMMA KeptAt ==
  ASSUME NEW times, NEW time, NEW n, NEW f, IsKept(f, times, time, n), NEW i \in 0..n
  PROVE  f[i] = KeptNext(f, times, time, i)
<1> DEFINE h == Keeping(f, times, time, n)
<1>1. h[i] = KeptNext(f, times, time, i)
  BY DEF Keeping
<1>2. f = h
  BY DEF IsKept
<1> QED
  BY <1>1, <1>2, Zenon

\* It has a solution, so that is what Kept computes with.
LEMMA KeptExists ==
  ASSUME NEW times, NEW time
  PROVE  \A n \in Nat : \E f : IsKept(f, times, time, n)
<1> DEFINE Ns == {n \in Nat : \E f : IsKept(f, times, time, n)}
<1>1. 0 \in Ns
  <2>1. IsKept([i \in 0..0 |-> <<>>], times, time, 0)
    BY DEF IsKept, Keeping, KeptNext
  <2> QED
    BY <2>1
<1>2. ASSUME NEW n \in Nat, n \in Ns PROVE n + 1 \in Ns
  <2>1. PICK f : IsKept(f, times, time, n)
    BY <1>2
  <2> DEFINE g == Keeping(f, times, time, n + 1)
  <2>2. \A i \in 0..n : g[i] = f[i]
    <3>1. \A i \in 0..(n + 1) : g[i] = KeptNext(f, times, time, i)
      BY DEF Keeping
    <3>2. \A i \in 0..n : f[i] = KeptNext(f, times, time, i)
      BY <2>1, KeptAt
    <3> QED
      BY <3>1, <3>2
  <2>3. \A i \in 0..(n + 1) : i # 0 => i - 1 \in 0..n
    OBVIOUS
  <2> HIDE DEF g
  <2>4. Keeping(g, times, time, n + 1) = Keeping(f, times, time, n + 1)
    <3>1. \A i \in 0..(n + 1) : KeptNext(g, times, time, i) = KeptNext(f, times, time, i)
      BY <2>2, <2>3 DEF KeptNext
    <3> QED
      BY <3>1 DEF Keeping
  <2>5. IsKept(g, times, time, n + 1)
    BY <2>4 DEF IsKept, g
  <2> QED
    BY <2>5
<1> HIDE DEF Ns
<1>3. \A n \in Nat : n \in Ns
  BY <1>1, <1>2, InductionOn
<1> QED
  BY <1>3 DEF Ns

\* Kept takes the last entry of such a solution.
LEMMA KeptIs ==
  ASSUME NEW S, NEW times \in Seq(S), NEW time
  PROVE  \E f : IsKept(f, times, time, Len(times)) /\ Kept(times, time) = f[Len(times)]
<1> DEFINE f == CHOOSE g : g = Keeping(g, times, time, Len(times))
<1>1. \E g : g = Keeping(g, times, time, Len(times))
  BY KeptExists, LenProperties DEF IsKept
<1>2. IsKept(f, times, time, Len(times))
  BY <1>1, Zenon DEF IsKept
<1>3. Kept(times, time) = f[Len(times)]
  BY DEF Kept, Keeping, KeptNext
<1> QED
  BY <1>2, <1>3

\* prune keeps some of the failures, and later no more of them.
LEMMA KeptFewer ==
  ASSUME NEW S, S \subseteq Nat, NEW times \in Seq(S), NEW time \in Nat
  PROVE  /\ Kept(times, time) \in Seq(S) /\ Len(Kept(times, time)) <= Len(times)
         /\ Len(Kept(times, time + 1)) <= Len(Kept(times, time))
<1>1. Len(times) \in Nat /\ \A i \in 1..Len(times) : times[i] \in S /\ times[i] \in Nat
  BY LenProperties, ElementOfSeq
<1>2. PICK f : IsKept(f, times, time, Len(times)) /\ Kept(times, time) = f[Len(times)]
  BY KeptIs
<1>3. PICK g : IsKept(g, times, time + 1, Len(times)) /\ Kept(times, time + 1) = g[Len(times)]
  BY KeptIs
<1> DEFINE Good(i) == /\ f[i] \in Seq(S) /\ Len(f[i]) <= i
                      /\ g[i] \in Seq(S) /\ Len(g[i]) <= Len(f[i])
           Is == {i \in Nat : i \in 0..Len(times) => Good(i)}
<1>4. 0 \in Is
  <2>1. 0 \in 0..Len(times)
    BY <1>1
  <2>2. f[0] = <<>> /\ g[0] = <<>>
    BY <1>2, <1>3, <2>1, KeptAt DEF KeptNext
  <2>3. <<>> \in Seq(S) /\ Len(<<>>) = 0
    BY EmptySeq
  <2>4. Good(0)
    BY <2>2, <2>3
  <2> QED
    BY <2>4
<1>5. ASSUME NEW i \in Nat, i \in Is PROVE i + 1 \in Is
  <2> SUFFICES ASSUME i + 1 \in 0..Len(times) PROVE Good(i + 1)
    OBVIOUS
  <2>1. Good(i) /\ times[i + 1] \in S /\ times[i + 1] \in Nat
    BY <1>1, <1>5
  <2>2. f[i + 1] = IF times[i + 1] + Window > time THEN Append(f[i], times[i + 1]) ELSE f[i]
    <3>1. f[i + 1] = KeptNext(f, times, time, i + 1)
      BY <1>2, KeptAt
    <3> QED
      BY <3>1 DEF KeptNext
  <2>3. g[i + 1] = IF times[i + 1] + Window > time + 1 THEN Append(g[i], times[i + 1]) ELSE g[i]
    <3>1. g[i + 1] = KeptNext(g, times, time + 1, i + 1)
      BY <1>3, KeptAt
    <3> QED
      BY <3>1 DEF KeptNext
  <2>4. times[i + 1] + Window > time + 1 => times[i + 1] + Window > time
    BY <2>1, LoginAssumption
  <2>5. \A s \in Seq(S) : /\ Append(s, times[i + 1]) \in Seq(S)
                          /\ Len(Append(s, times[i + 1])) = Len(s) + 1 /\ Len(s) \in Nat
    BY <2>1, AppendProperties, LenProperties
  <2> QED
    BY <2>1, <2>2, <2>3, <2>4, <2>5
<1> HIDE DEF Is
<1>6. Len(times) \in Is
  BY <1>1, <1>4, <1>5, InductionOn
<1>7. Good(Len(times))
  BY <1>1, <1>6 DEF Is
<1> QED
  BY <1>2, <1>3, <1>7
\* The ranges of the state, for the clock's bound.
LoginBounds ==
  /\ now \in 1..MaxTime
  /\ row \in [Tokens -> Times] /\ active \in [Tokens -> 0..MaxTime]
  /\ jar \in [token : Tokens \union {NoToken}, until : Times]
  /\ given \in used \union {NoToken}
  /\ fails \in Seq(1..MaxTime)

AtPam == {h \in LoginHandlers : attempt[h].at = "pam"}

\* An attempt at PAM has yet to count as a failure; each was let through below
\* the cap.
LimiterInv == LoginInv /\ LoginBounds
              /\ Len(Pruned) + Cardinality(AtPam) <= MaxFails - 1 + Cardinality(LoginHandlers)

LEMMA LoginNumbers ==
  /\ TTL \in Nat /\ MaxFails \in Nat \ {0} /\ Window \in Nat /\ MaxTime \in Nat \ {0}
  /\ Cardinality(LoginHandlers) \in Nat
  /\ Cardinality(AtPam) \in 0..Cardinality(LoginHandlers)
  /\ 1..MaxTime \subseteq Nat
  /\ \A t \in 0..MaxTime : t \in Times /\ t + TTL \in Times
<1>1. IsFiniteSet(LoginHandlers) /\ AtPam \in SUBSET LoginHandlers
  BY LoginAssumption DEF AtPam
<1>2. IsFiniteSet(AtPam) /\ Cardinality(AtPam) <= Cardinality(LoginHandlers)
  BY <1>1, FS_Subset
<1>3. Cardinality(LoginHandlers) \in Nat /\ Cardinality(AtPam) \in Nat
  BY <1>1, <1>2, FS_CardinalityType
<1> QED
  BY <1>2, <1>3, LoginAssumption DEF Times

\* A server without sessions or failures satisfies it.
LEMMA LimiterInitInv == LoginInit => LimiterInv
<1> SUFFICES ASSUME LoginInit PROVE LimiterInv
  OBVIOUS
<1>1. /\ now = 1 /\ row = [t \in Tokens |-> 0] /\ active = [t \in Tokens |-> 0]
      /\ jar = [token |-> NoToken, until |-> 0] /\ given = NoToken /\ fails = <<>>
      /\ attempt = [h \in LoginHandlers |-> Free]
  BY DEF LoginInit, NoSessionRow, NoCookie
<1>2. 1 \in 1..MaxTime /\ 0 \in Times /\ 0 \in 0..MaxTime
  BY LoginNumbers
<1>3. fails \in Seq(1..MaxTime)
  BY <1>1, EmptySeq
<1>4. LoginBounds
  BY <1>1, <1>2, <1>3 DEF LoginBounds
<1>5. Len(Pruned) <= 0 /\ Len(Pruned) \in Nat
  BY <1>1, <1>3, LoginNumbers, KeptFewer, EmptySeq, LenProperties DEF Pruned
<1>6. Cardinality(AtPam) <= Cardinality(LoginHandlers)
  BY LoginNumbers
<1> QED
  BY <1>4, <1>5, <1>6, LoginInitInv, LoginNumbers DEF LimiterInv

\* The ranges are kept.
LEMMA BoundsKept == LoginInv /\ LoginBounds /\ [LoginNext]_loginVars => LoginBounds'
<1> SUFFICES ASSUME LoginInv, LoginBounds, [LoginNext]_loginVars PROVE LoginBounds'
  OBVIOUS
<1>1. Pruned \in Seq(1..MaxTime)
  <2>1. fails \in Seq(1..MaxTime) /\ now \in Nat
    BY LoginNumbers DEF LoginBounds
  <2> QED
    BY <2>1, LoginNumbers, KeptFewer DEF Pruned
<1>2. <<>> \in Seq(1..MaxTime) /\ Append(Pruned, now) \in Seq(1..MaxTime)
  BY <1>1, EmptySeq, AppendProperties DEF LoginBounds
<1>3. /\ 0 \in Times /\ now \in 0..MaxTime /\ now + TTL \in Times
      /\ NoCookie \in [token : Tokens \union {NoToken}, until : Times]
  <2>1. now \in 0..MaxTime /\ 0 \in 0..MaxTime
    BY LoginNumbers DEF LoginBounds
  <2>2. 0 \in Times /\ now + TTL \in Times
    BY <2>1, LoginNumbers
  <2> QED
    BY <2>1, <2>2 DEF NoCookie
<1>4. \A h \in LoginHandlers : /\ attempt[h].at \in {"clear", "touch"} => attempt[h].token \in used
                              /\ attempt[h].when \in 0..MaxTime /\ attempt[h].when + TTL \in Times
  <2>1. \A h \in LoginHandlers : attempt[h].when \in Nat /\ attempt[h].when <= now
    BY DEF LoginInv, LoginTyped, Attempts, HandlersKnow
  <2>2. \A h \in LoginHandlers : attempt[h].when \in 0..MaxTime
    BY <2>1, LoginNumbers DEF LoginBounds
  <2> QED
    BY <2>2, LoginNumbers DEF LoginInv, HandlersKnow
<1>5. used \subseteq Tokens
  BY DEF LoginInv, LoginTyped
<1> USE DEF LoginBounds
<1>6. CASE Hour
  <2>1. now' \in 1..MaxTime
    BY <1>6, LoginNumbers DEF Hour
  <2> QED
    BY <1>3, <1>6, <2>1 DEF Hour
<1>7. ASSUME NEW h \in LoginHandlers, LoginStart(h) \/ PamFails(h) \/ PamAccepts(h) PROVE LoginBounds'
  BY <1>1, <1>2, <1>7 DEF LoginStart, PamFails, PamAccepts
<1>8. ASSUME NEW h \in LoginHandlers, CreateSession(h) PROVE LoginBounds'
  <2>1. PICK t \in Tokens \ used : /\ row' = [row EXCEPT ![t] = now + TTL]
                                   /\ used' = used \union {t}
                                   /\ active' = [active EXCEPT ![t] = now]
    BY <1>8 DEF CreateSession
  <2>2. UNCHANGED <<now, jar, given, fails>>
    BY <1>8 DEF CreateSession
  <2> QED
    BY <1>3, <2>1, <2>2
<1>9. ASSUME NEW h \in LoginHandlers, FinishLogin(h) PROVE LoginBounds'
  <2>1. attempt[h].token \in used
    BY <1>4, <1>9 DEF FinishLogin
  <2>2. row' \in [Tokens -> Times]
    BY <1>3, <1>9 DEF FinishLogin, Swept, NoSessionRow
  <2>3. jar' \in [token : Tokens \union {NoToken}, until : Times]
    BY <1>3, <1>5, <1>9, <2>1 DEF FinishLogin
  <2>4. fails' = <<>> /\ given' = attempt[h].token /\ UNCHANGED <<now, used, active>>
    BY <1>9 DEF FinishLogin
  <2> QED
    BY <1>2, <2>1, <2>2, <2>3, <2>4
<1>10. ASSUME NEW h \in LoginHandlers, Request(h) PROVE LoginBounds'
  <2>1. active' \in [Tokens -> 0..MaxTime]
    BY <1>3, <1>10 DEF Request
  <2> QED
    BY <1>10, <2>1 DEF Request
<1>11. ASSUME NEW h \in LoginHandlers, Touch(h) PROVE LoginBounds'
  <2>1. row' \in [Tokens -> Times] /\ active' \in [Tokens -> 0..MaxTime]
    BY <1>4, <1>11 DEF Touch, TouchSession
  <2> QED
    BY <1>11, <2>1 DEF Touch
<1>12. CASE Logout
  BY <1>3, <1>12 DEF Logout, NoSessionRow
<1>13. CASE RestartServer
  BY <1>2, <1>13 DEF RestartServer
<1>14. CASE UNCHANGED loginVars
  BY <1>14 DEF loginVars
<1> QED
  BY <1>6, <1>7, <1>8, <1>9, <1>10, <1>11, <1>12, <1>13, <1>14 DEF LoginNext

\* Where handlers go and how many are at PAM.
LEMMA AtPamGoes ==
  ASSUME LoginTyped, NEW h \in LoginHandlers, NEW a, Goes(h, a)
  PROVE  /\ a.at # "pam" => Cardinality(AtPam') <= Cardinality(AtPam)
         /\ a.at # "pam" /\ attempt[h].at = "pam" => Cardinality(AtPam') = Cardinality(AtPam) - 1
<1>1. attempt'[h] = a /\ \A g \in LoginHandlers \ {h} : attempt'[g] = attempt[g]
  BY DEF Goes, LoginTyped
<1>2. a.at # "pam" => AtPam' = AtPam \ {h}
  BY <1>1 DEF AtPam
<1>3. IsFiniteSet(AtPam)
  <2>1. AtPam \in SUBSET LoginHandlers
    BY DEF AtPam
  <2> QED
    BY <2>1, LoginAssumption, FS_Subset
<1>4. Cardinality(AtPam) \in Nat
  BY <1>3, FS_CardinalityType
<1>5. Cardinality(AtPam \ {h}) = IF h \in AtPam THEN Cardinality(AtPam) - 1 ELSE Cardinality(AtPam)
  BY <1>3, FS_RemoveElement
<1>6. attempt[h].at = "pam" => h \in AtPam
  BY DEF AtPam
<1> QED
  BY <1>2, <1>4, <1>5, <1>6

\* Every step keeps the count.
LEMMA LimiterKeeps == LimiterInv /\ [LoginNext]_loginVars => LimiterInv'
<1> SUFFICES ASSUME LimiterInv, [LoginNext]_loginVars PROVE LimiterInv'
  OBVIOUS
<1> DEFINE room == MaxFails - 1 + Cardinality(LoginHandlers)
<1>1. /\ LoginInv /\ LoginBounds /\ LoginTyped
      /\ Len(Pruned) + Cardinality(AtPam) <= room
  BY DEF LimiterInv, LoginInv
<1>2. LoginInv' /\ LoginBounds'
  BY <1>1, LoginKeeps, BoundsKept
<1>3. /\ fails \in Seq(1..MaxTime) /\ now \in 1..MaxTime /\ now \in Nat
      /\ fails' \in Seq(1..MaxTime) /\ now' \in 1..MaxTime /\ now' \in Nat
  BY <1>1, <1>2, LoginNumbers DEF LoginBounds
<1>4. Pruned \in Seq(1..MaxTime) /\ Pruned' \in Seq(1..MaxTime) /\ Len(Pruned') <= Len(fails')
  BY <1>3, LoginNumbers, KeptFewer DEF Pruned
<1>5. Len(Pruned) \in Nat /\ Len(Pruned') \in Nat
  BY <1>4, LenProperties
<1>6. /\ Cardinality(AtPam) \in 0..Cardinality(LoginHandlers)
      /\ Cardinality(AtPam') \in 0..Cardinality(LoginHandlers)
      /\ Cardinality(LoginHandlers) \in Nat /\ room \in Nat /\ Cardinality(LoginHandlers) <= room
      /\ MaxFails \in Nat
  <2>1. AtPam' \in SUBSET LoginHandlers
    BY DEF AtPam
  <2>2. IsFiniteSet(AtPam') /\ Cardinality(AtPam') <= Cardinality(LoginHandlers)
    BY <2>1, LoginAssumption, FS_Subset
  <2>3. Cardinality(AtPam') \in Nat
    BY <2>2, FS_CardinalityType
  <2> QED
    BY <2>2, <2>3, LoginNumbers
<1> SUFFICES Len(Pruned') + Cardinality(AtPam') <= room
  BY <1>2 DEF LimiterInv
<1> HIDE DEF room
<1>7. ASSUME fails' = <<>> PROVE Len(Pruned') = 0
  BY <1>4, <1>5, <1>7, EmptySeq
<1>8. CASE Hour
  <2>1. fails' = fails /\ now' = now + 1 /\ AtPam' = AtPam
    BY <1>8 DEF Hour, AtPam
  <2>2. Len(Pruned') <= Len(Pruned)
    BY <1>3, <2>1, LoginNumbers, KeptFewer DEF Pruned
  <2> QED
    BY <1>1, <1>5, <1>6, <2>1, <2>2
<1>9. ASSUME NEW h \in LoginHandlers, LoginStart(h) PROVE Len(Pruned') + Cardinality(AtPam') <= room
  <2>1. fails' = Pruned /\ Goes(h, IF Blocked THEN Free ELSE [Free EXCEPT !.at = "pam"])
    BY <1>9 DEF LoginStart
  <2>2. Len(Pruned') <= Len(Pruned)
    BY <1>4, <2>1
  <2>3. CASE Blocked
    <3>1. Cardinality(AtPam') <= Cardinality(AtPam)
      BY <1>1, <2>1, <2>3, FreeType, AtPamGoes
    <3> QED
      BY <1>1, <1>5, <1>6, <2>2, <3>1
  <2>4. CASE ~Blocked
    <3>1. Len(Pruned) <= MaxFails - 1
      BY <1>5, <1>6, <2>4 DEF Blocked
    <3> QED
      BY <1>5, <1>6, <2>2, <3>1 DEF room
  <2> QED
    BY <2>3, <2>4
<1>10. ASSUME NEW h \in LoginHandlers, PamFails(h) PROVE Len(Pruned') + Cardinality(AtPam') <= room
  <2>1. attempt[h].at = "pam" /\ fails' = Append(Pruned, now) /\ Goes(h, Free)
    BY <1>10 DEF PamFails
  <2>2. Cardinality(AtPam') = Cardinality(AtPam) - 1
    BY <1>1, <2>1, FreeType, AtPamGoes
  <2>3. Len(fails') = Len(Pruned) + 1
    BY <1>3, <1>4, <2>1, AppendProperties
  <2> QED
    BY <1>1, <1>4, <1>5, <1>6, <2>2, <2>3
<1>11. ASSUME NEW h \in LoginHandlers, NEW a, Goes(h, a), a.at # "pam", fails' = fails, now' = now
       PROVE  Len(Pruned') + Cardinality(AtPam') <= room
  <2>1. Cardinality(AtPam') <= Cardinality(AtPam)
    BY <1>1, <1>11, AtPamGoes
  <2>2. Pruned' = Pruned
    BY <1>11 DEF Pruned
  <2> QED
    BY <1>1, <1>5, <1>6, <2>1, <2>2
<1>12. ASSUME NEW h \in LoginHandlers, PamAccepts(h) PROVE Len(Pruned') + Cardinality(AtPam') <= room
  <2>1. fails' = fails /\ now' = now /\ (Goes(h, Free) \/ Goes(h, [Free EXCEPT !.at = "create"]))
    BY <1>12 DEF PamAccepts
  <2>2. [Free EXCEPT !.at = "create"].at # "pam"
    BY DEF Free
  <2> QED
    BY <2>1, <2>2, <1>11, FreeType
<1>13. ASSUME NEW h \in LoginHandlers, CreateSession(h) PROVE Len(Pruned') + Cardinality(AtPam') <= room
  <2>1. PICK t \in Tokens : Goes(h, [at |-> "clear", token |-> t, when |-> now])
    BY <1>13 DEF CreateSession
  <2>2. fails' = fails /\ now' = now
    BY <1>13 DEF CreateSession
  <2> DEFINE a == [at |-> "clear", token |-> t, when |-> now]
  <2>3. a.at # "pam" /\ Goes(h, a)
    BY <2>1
  <2> HIDE DEF a
  <2> QED
    BY <2>2, <2>3, <1>11
<1>14. ASSUME NEW h \in LoginHandlers, Request(h) PROVE Len(Pruned') + Cardinality(AtPam') <= room
  <2>1. fails' = fails /\ now' = now
    BY <1>14 DEF Request
  <2>2. CASE UNCHANGED attempt
    <3>1. AtPam' = AtPam /\ Pruned' = Pruned
      BY <2>1, <2>2 DEF AtPam, Pruned
    <3> QED
      BY <1>1, <3>1
  <2> DEFINE a == [at |-> "touch", token |-> jar.token, when |-> now]
  <2>3. CASE Goes(h, a)
    <3>1. a.at # "pam"
      OBVIOUS
    <3> HIDE DEF a
    <3> QED
      BY <2>1, <2>3, <3>1, <1>11
  <2> QED
    BY <1>14, <2>2, <2>3 DEF Request
<1>15. ASSUME NEW h \in LoginHandlers, Touch(h) PROVE Len(Pruned') + Cardinality(AtPam') <= room
  BY <1>11, <1>15, FreeType DEF Touch
<1>16. ASSUME fails' = <<>> PROVE Len(Pruned') + Cardinality(AtPam') <= room
  BY <1>6, <1>7, <1>16
<1>17. CASE Logout \/ UNCHANGED loginVars
  <2>1. AtPam' = AtPam /\ Pruned' = Pruned
    BY <1>17 DEF Logout, loginVars, AtPam, Pruned
  <2> QED
    BY <1>1, <2>1
<1> QED
  BY <1>8, <1>9, <1>10, <1>12, <1>13, <1>14, <1>15, <1>16, <1>17
     DEF LoginNext, FinishLogin, RestartServer

\* loginlimit.go:25-37: however attempts overlap, the failures that count at
\* one time stay below the cap and the number of handlers.
THEOREM AttemptsBounded == LoginSpec => []AttemptsAreBounded
<1>1. LimiterInv => AttemptsAreBounded
  <2> SUFFICES ASSUME LimiterInv PROVE AttemptsAreBounded
    OBVIOUS
  <2>1. Pruned \in Seq(1..MaxTime)
    BY LoginNumbers, KeptFewer DEF LimiterInv, LoginBounds, Pruned
  <2>2. Len(Pruned) \in Nat
    BY <2>1, LenProperties
  <2> QED
    BY <2>2, LoginNumbers DEF LimiterInv, AttemptsAreBounded
<1> QED
  BY <1>1, LimiterInitInv, LimiterKeeps, PTL DEF LoginSpec

\* The state stays in its ranges.
LEMMA LoginIsTyped == LimiterInv => LoginTypeOK
<1> SUFFICES ASSUME LimiterInv PROVE LoginTypeOK
  OBVIOUS
<1>1. attempt \in [LoginHandlers -> [at : {"free", "pam", "create", "clear", "touch"},
                                   token : Tokens \union {NoToken}, when : 0..MaxTime]]
  <2>1. \A h \in LoginHandlers : attempt[h] \in Attempts /\ attempt[h].when <= now
    BY DEF LimiterInv, LoginInv, LoginTyped, HandlersKnow
  <2>2. \A h \in LoginHandlers : attempt[h].when \in 0..MaxTime
    BY <2>1, LoginNumbers, SMTT(30) DEF Attempts, LimiterInv, LoginBounds
  <2> QED
    BY <2>1, <2>2 DEF Attempts, LimiterInv, LoginInv, LoginTyped
<1>2. \A i \in DOMAIN fails : fails[i] \in 1..MaxTime
  BY ElementOfSeq, LenProperties DEF LimiterInv, LoginBounds
<1> QED
  BY <1>1, <1>2 DEF LoginTypeOK, LimiterInv, LoginInv, LoginTyped, LoginBounds
=============================================================================
