--------------------------- MODULE TerminalProofs ---------------------------
(***************************************************************************)
(* ButtonMatchesSession and PtySizeSettles, for any number of sessions,    *)
(* sizes and messages under way.  The button follows the current session   *)
(* because every earlier one has ended already; the size settles because   *)
(* the last message under way always carries the current one.              *)
(***************************************************************************)
EXTENDS Terminal, SequenceTheorems, TLAPS

SessionStates ==
  [sock : {"none", "connecting", "open", "erring", "closed"}, done : BOOLEAN,
   up : Seq(Sizes), peer : BOOLEAN, handler : {"none", "reading", "waiting", "gone"},
   pump : {"none", "reading", "gone"}, canceled : BOOLEAN,
   shell : {"none", "running", "dead"}, pty : Sizes]

TerminalTyped == /\ cur \in 0..MaxSessions
         /\ disabledOpen \in BOOLEAN
         /\ size \in Sizes
         /\ session \in [Sessions -> SessionStates]

\* The sessions before the current one have ended, those after it not begun.
OthersAreOver ==
  \A n \in Sessions : /\ n < cur => session[n].done
                      /\ n > cur => session[n] = NoSession

\* A socket that connects has sent nothing; of an open one, the last message
\* under way has the current size, and without one the PTY has it.
LastSizeIsCurrent ==
  cur # 0 =>
    LET s == session[cur] IN
      /\ s.sock = "connecting" => s.up = <<>>
      /\ s.sock = "open" => IF s.up = <<>> THEN s.pty = size ELSE s.up[Len(s.up)] = size

TerminalInv == TerminalTyped /\ OthersAreOver /\ ButtonMatchesSession /\ LastSizeIsCurrent
-----------------------------------------------------------------------------
\* Reading the head of a sequence leaves its last element last.
LEMMA TailLast ==
  ASSUME NEW S, NEW u \in Seq(S), u # <<>>
  PROVE  IF Tail(u) = <<>> THEN Head(u) = u[Len(u)] ELSE Tail(u)[Len(Tail(u))] = u[Len(u)]
<1> DEFINE t == Tail(u)
<1>1. Len(u) \in Nat \ {0} /\ Head(u) = u[1]
  BY EmptySeq
<1>2. t \in Seq(S) /\ Len(t) = Len(u) - 1 /\ \A i \in 1..Len(t) : t[i] = u[i + 1]
  BY HeadTailProperties
<1>3. t = <<>> => Len(t) = 0
  BY EmptySeq
<1>4. t # <<>> => Len(t) \in Nat \ {0}
  BY <1>2, EmptySeq
<1> HIDE DEF t
<1>5. t = <<>> => Head(u) = u[Len(u)]
  BY <1>1, <1>2, <1>3, SMTT(30)
<1>6. t # <<>> => t[Len(t)] = u[Len(u)]
  BY <1>1, <1>2, <1>4, SMTT(30)
<1> QED
  BY <1>5, <1>6, Zenon DEF t

\* A session not begun is a session.
LEMMA NoSessionType == NoSession \in SessionStates
  BY TerminalAssumption DEF NoSession, SessionStates

\* A page just loaded satisfies the invariant.
LEMMA TerminalInitInv == TerminalInit => TerminalInv
<1> SUFFICES ASSUME TerminalInit PROVE TerminalInv
  OBVIOUS
<1> USE DEF TerminalInit
<1>1. TerminalTyped
  <2>1. MaxSessions \in Nat /\ 0 \in 0..MaxSessions
    BY TerminalAssumption
  <2> QED
    BY <2>1, NoSessionType, TerminalAssumption DEF TerminalTyped
<1>2. OthersAreOver
  BY DEF OthersAreOver, Sessions
<1> QED
  BY <1>1, <1>2 DEF TerminalInv, ButtonMatchesSession, LastSizeIsCurrent

\* A step of session n that neither ends it nor touches the button keeps the
\* invariant, provided it keeps the last size current.
LEMMA MovesKeepInv ==
  ASSUME TerminalInv, NEW n \in Sessions, NEW s \in SessionStates,
         session[n] # NoSession, s.done = session[n].done, Serves(n, s),
         n = cur =>
           /\ s.sock = "connecting" => s.up = <<>>
           /\ s.sock = "open" => IF s.up = <<>> THEN s.pty = size ELSE s.up[Len(s.up)] = size
  PROVE  TerminalInv'
<1> USE DEF TerminalInv, TerminalTyped
<1>1. session' = [session EXCEPT ![n] = s] /\ UNCHANGED <<cur, disabledOpen, size>>
  BY DEF Serves, Moves
<1>2. session' \in [Sessions -> SessionStates] /\ session'[n] = s
      /\ \A m \in Sessions \ {n} : session'[m] = session[m]
  BY <1>1
<1>3. n <= cur
  BY DEF OthersAreOver, Sessions
<1>4. OthersAreOver'
  BY <1>1, <1>2, <1>3 DEF OthersAreOver, Sessions
<1>5. ButtonMatchesSession'
  BY <1>1, <1>2 DEF ButtonMatchesSession, Sessions
<1>6. LastSizeIsCurrent'
  BY <1>1, <1>2 DEF LastSizeIsCurrent, Sessions
<1> QED
  BY <1>1, <1>2, <1>4, <1>5, <1>6

\* Every step of a browser or of the server keeps the invariant.
LEMMA TerminalStep == TerminalInv /\ [TerminalNext]_terminalVars => TerminalInv'
<1> SUFFICES ASSUME TerminalInv, [TerminalNext]_terminalVars PROVE TerminalInv'
  OBVIOUS
<1> USE DEF TerminalInv, TerminalTyped
<1>1. CASE Open
  <2>1. cur' = cur + 1 /\ cur' \in Sessions /\ disabledOpen' /\ UNCHANGED size
        /\ cur' \in 0..MaxSessions
    BY <1>1, TerminalAssumption DEF Open, Sessions
  <2>2. cur # 0 => session[cur].done /\ cur \in Sessions
    BY <1>1 DEF Open, ButtonMatchesSession, Sessions
  <2> DEFINE fresh == [NoSession EXCEPT !.sock = "connecting"]
  <2>3. fresh \in SessionStates /\ ~fresh.done /\ fresh.sock = "connecting" /\ fresh.up = <<>>
    BY NoSessionType DEF NoSession, SessionStates
  <2>4. session' = [n \in Sessions |->
                      CASE n = cur + 1 -> fresh
                        [] n = cur -> [session[n] EXCEPT !.peer = FALSE]
                        [] OTHER -> session[n]]
    BY <1>1 DEF Open
  <2> HIDE DEF fresh
  <2>5. session'[cur'] = fresh
    BY <2>1, <2>4
  <2>6. \A n \in Sessions \ {cur'} : /\ session'[n] \in SessionStates
                                     /\ session'[n].done = session[n].done
                                     /\ n # cur => session'[n] = session[n]
    <3> SUFFICES ASSUME NEW n \in Sessions \ {cur'}
                 PROVE  /\ session'[n] \in SessionStates
                        /\ session'[n].done = session[n].done
                        /\ n # cur => session'[n] = session[n]
      OBVIOUS
    <3>1. CASE n = cur
      <4>1. session'[n] = [session[n] EXCEPT !.peer = FALSE]
        BY <2>1, <2>4, <3>1
      <4>2. session[n] \in SessionStates
        OBVIOUS
      <4> QED
        BY <3>1, <4>1, <4>2 DEF SessionStates
    <3>2. CASE n # cur
      <4>1. session'[n] = session[n]
        BY <2>1, <2>4, <3>2
      <4> QED
        BY <4>1
    <3> QED
      BY <3>1, <3>2
  <2>7. session' \in [Sessions -> SessionStates]
    BY <2>1, <2>3, <2>4, <2>5, <2>6
  <2>8. OthersAreOver'
    BY <2>1, <2>2, <2>6 DEF OthersAreOver, Sessions
  <2>9. ButtonMatchesSession' /\ LastSizeIsCurrent'
    BY <2>1, <2>3, <2>5 DEF ButtonMatchesSession, LastSizeIsCurrent
  <2> QED
    BY <2>1, <2>7, <2>8, <2>9
<1>2. CASE Resize
  <2>1. PICK z \in Sizes \ {size} :
          /\ size' = z
          /\ IF cur # 0 /\ session[cur].sock = "open"
               THEN Moves(cur, [session[cur] EXCEPT !.up = Append(@, z)])
               ELSE UNCHANGED session
          /\ UNCHANGED <<cur, disabledOpen>>
    BY <1>2 DEF Resize
  <2>2. CASE cur # 0 /\ session[cur].sock = "open"
    <3> DEFINE s == [session[cur] EXCEPT !.up = Append(@, z)]
    <3>1. cur \in Sessions /\ session' = [session EXCEPT ![cur] = s]
      BY <2>1, <2>2 DEF Moves, Sessions
    <3>2. session[cur].up \in Seq(Sizes)
      BY <3>1 DEF SessionStates
    <3>3. Append(session[cur].up, z) \in Seq(Sizes)
      BY <3>2
    <3>4. s \in SessionStates /\ s.done = session[cur].done /\ s.sock = "open"
          /\ s.up = Append(session[cur].up, z)
      BY <2>2, <3>1, <3>3 DEF SessionStates
    <3>5. s.up # <<>> /\ s.up[Len(s.up)] = z
      BY <3>2, <3>4
    <3> HIDE DEF s
    <3>6. session' \in [Sessions -> SessionStates] /\ session'[cur] = s
          /\ \A m \in Sessions \ {cur} : session'[m] = session[m]
      BY <3>1, <3>4
    <3>7. OthersAreOver' /\ ButtonMatchesSession'
      BY <2>1, <3>1, <3>4, <3>6 DEF OthersAreOver, ButtonMatchesSession, Sessions
    <3>8. LastSizeIsCurrent'
      BY <2>1, <3>1, <3>4, <3>5, <3>6 DEF LastSizeIsCurrent
    <3> QED
      BY <2>1, <3>6, <3>7, <3>8
  <2>3. CASE ~(cur # 0 /\ session[cur].sock = "open")
    BY <2>1, <2>3 DEF OthersAreOver, ButtonMatchesSession, LastSizeIsCurrent
  <2> QED
    BY <2>2, <2>3
<1>3. CASE CloseTab
  <2> DEFINE s == [session[cur] EXCEPT !.peer = FALSE, !.sock = "closed"]
  <2>1. cur \in Sessions /\ Serves(cur, s)
    BY <1>3 DEF CloseTab, Sessions
  <2>2. UNCHANGED <<cur, disabledOpen, size>> /\ session' = [session EXCEPT ![cur] = s]
    BY <2>1 DEF Serves, Moves
  <2>3. s \in SessionStates /\ s.done = session[cur].done /\ s.sock = "closed"
    BY <2>1, ZenonT(30) DEF SessionStates
  <2> HIDE DEF s
  <2>4. session' \in [Sessions -> SessionStates] /\ session'[cur] = s
        /\ \A m \in Sessions \ {cur} : session'[m] = session[m]
    BY <2>1, <2>2, <2>3
  <2> QED
    BY <2>1, <2>2, <2>3, <2>4
    DEF OthersAreOver, ButtonMatchesSession, LastSizeIsCurrent, Sessions
<1>4. ASSUME NEW n \in Sessions, OnOpen(n) PROVE TerminalInv'
  <2> DEFINE s == OpenedWithSize(session[n])
  <2>1. session[n].sock = "connecting" /\ Serves(n, s)
    BY <1>4 DEF OnOpen
  <2>2. session[n].up \in Seq(Sizes) /\ session[n] \in SessionStates
    BY DEF SessionStates
  <2>3. Append(session[n].up, size) \in Seq(Sizes)
    BY <2>2
  <2>4. s \in SessionStates /\ s.done = session[n].done /\ s.sock = "open"
        /\ s.up = Append(session[n].up, size)
    BY <2>2, <2>3 DEF OpenedWithSize, SessionStates
  <2>5. s.up # <<>> /\ s.up[Len(s.up)] = size
    BY <2>2, <2>4
  <2>6. session[n] # NoSession
    BY <2>1 DEF NoSession
  <2> HIDE DEF s
  <2> QED
    BY <2>1, <2>4, <2>5, <2>6, MovesKeepInv
<1>5. ASSUME NEW n \in Sessions, OnError(n) \/ OnClose(n) PROVE TerminalInv'
  <2>1. PICK k \in {"erring", "closed"} : Finish(n, [session[n] EXCEPT !.sock = k])
    BY <1>5 DEF OnError, OnClose
  <2> DEFINE s == [[session[n] EXCEPT !.sock = k] EXCEPT !.done = TRUE, !.peer = FALSE]
  <2>2. s \in SessionStates /\ s.done /\ s.sock = k
    BY ZenonT(30) DEF SessionStates
  <2>3. session' = [session EXCEPT ![n] = s] /\ UNCHANGED <<cur, size>>
        /\ disabledOpen' = IF session[n].done THEN disabledOpen ELSE FALSE
    BY <2>1 DEF Finish, Moves, Finishes
  <2>4. session[n].sock # "none"
    BY <1>5 DEF OnError, OnClose
  <2> HIDE DEF s
  <2>5. session' \in [Sessions -> SessionStates] /\ session'[n] = s
        /\ \A m \in Sessions \ {n} : session'[m] = session[m]
    BY <2>2, <2>3
  <2>6. n <= cur
    BY <2>4 DEF OthersAreOver, NoSession, Sessions
  <2>7. OthersAreOver'
    BY <2>2, <2>3, <2>5, <2>6 DEF OthersAreOver, Sessions
  <2>8. ButtonMatchesSession'
    BY <2>2, <2>3, <2>5, <2>6 DEF ButtonMatchesSession, OthersAreOver, Sessions
  <2>9. LastSizeIsCurrent'
    BY <2>2, <2>3, <2>5 DEF LastSizeIsCurrent, Sessions
  <2> QED
    BY <2>3, <2>5, <2>7, <2>8, <2>9
<1>6. ASSUME NEW n \in Sessions, ReadFrame(n) PROVE TerminalInv'
  <2> DEFINE u == session[n].up
             s == [session[n] EXCEPT !.pty = Head(u), !.up = Tail(u)]
  <2>1. u # <<>> /\ Serves(n, s) /\ session[n].handler = "reading"
    BY <1>6 DEF ReadFrame
  <2>2. u \in Seq(Sizes) /\ session[n] \in SessionStates
    BY DEF SessionStates
  <2>3. Head(u) \in Sizes /\ Tail(u) \in Seq(Sizes) /\ Len(u) \in Nat \ {0}
    BY <2>1, <2>2
  <2>4. IF Tail(u) = <<>> THEN Head(u) = u[Len(u)] ELSE Tail(u)[Len(Tail(u))] = u[Len(u)]
    BY <2>1, <2>2, TailLast
  <2>5. s \in SessionStates /\ s.done = session[n].done /\ s.sock = session[n].sock
        /\ s.pty = Head(u) /\ s.up = Tail(u)
    BY <2>2, <2>3 DEF SessionStates
  <2>6. session[n] # NoSession
    BY <2>1 DEF NoSession
  <2>7. n = cur => session[n].sock # "connecting" /\ (session[n].sock = "open" => u[Len(u)] = size)
    BY <2>1 DEF LastSizeIsCurrent, Sessions
  <2> HIDE DEF u, s
  <2> QED
    BY <2>1, <2>4, <2>5, <2>6, <2>7, MovesKeepInv
<1>7. ASSUME NEW n \in Sessions,
             Accept(n) \/ ReadFails(n) \/ PumpFails(n) \/ Kill(n) \/ WaitReturns(n)
               \/ ShellWrites(n) \/ ShellExits(n) \/ WriteFails(n)
      PROVE  TerminalInv'
  <2>1. session[n] # NoSession
    BY <1>7 DEF Accept, ReadFails, PumpFails, Kill, WaitReturns, ShellWrites, ShellExits,
             WriteFails, NoSession
  <2>2. PICK s \in SessionStates :
          /\ Serves(n, s)
          /\ s.done = session[n].done /\ s.sock = session[n].sock
          /\ s.up = session[n].up /\ s.pty = session[n].pty
    <3>1. session[n] \in SessionStates
      OBVIOUS
    <3>2. CASE Accept(n)
      <4>1. PICK s \in {[session[n] EXCEPT !.handler = "reading", !.pump = "reading",
                                              !.shell = "running"],
                          [session[n] EXCEPT !.handler = "gone"]} : Serves(n, s)
        BY <3>2 DEF Accept
      <4>2. s \in SessionStates /\ s.done = session[n].done /\ s.sock = session[n].sock
            /\ s.up = session[n].up /\ s.pty = session[n].pty
        BY <3>1, ZenonT(30) DEF SessionStates
      <4> QED
        BY <4>1, <4>2
    <3>3. CASE ReadFails(n) \/ WriteFails(n) \/ WaitReturns(n)
      <4>1. PICK s \in {[session[n] EXCEPT !.handler = "waiting"],
                          [session[n] EXCEPT !.handler = "gone", !.pump = "gone",
                                              !.canceled = TRUE]} : Serves(n, s)
        BY <3>3 DEF ReadFails, WriteFails, WaitReturns
      <4>2. s \in SessionStates /\ s.done = session[n].done /\ s.sock = session[n].sock
            /\ s.up = session[n].up /\ s.pty = session[n].pty
        BY <3>1, ZenonT(30) DEF SessionStates
      <4> QED
        BY <4>1, <4>2
    <3>4. CASE PumpFails(n) \/ ShellWrites(n)
      <4>1. PICK s \in {[session[n] EXCEPT !.pump = "gone", !.canceled = TRUE]} : Serves(n, s)
        BY <3>4 DEF PumpFails, ShellWrites, PumpEnds
      <4>2. s \in SessionStates /\ s.done = session[n].done /\ s.sock = session[n].sock
            /\ s.up = session[n].up /\ s.pty = session[n].pty
        BY <3>1 DEF SessionStates
      <4> QED
        BY <4>1, <4>2
    <3>5. CASE Kill(n) \/ ShellExits(n)
      <4>1. PICK s \in {[session[n] EXCEPT !.shell = "dead"]} : Serves(n, s)
        BY <3>5 DEF Kill, ShellExits
      <4>2. s \in SessionStates /\ s.done = session[n].done /\ s.sock = session[n].sock
            /\ s.up = session[n].up /\ s.pty = session[n].pty
        BY <3>1 DEF SessionStates
      <4> QED
        BY <4>1, <4>2
    <3> QED
      BY <1>7, <3>2, <3>3, <3>4, <3>5
  <2>3. n = cur => /\ s.sock = "connecting" => s.up = <<>>
                   /\ s.sock = "open" => IF s.up = <<>> THEN s.pty = size
                                                        ELSE s.up[Len(s.up)] = size
    BY <2>2 DEF LastSizeIsCurrent, Sessions
  <2> QED
    BY <2>1, <2>2, <2>3, MovesKeepInv
<1>8. CASE UNCHANGED terminalVars
  BY <1>8 DEF terminalVars, OthersAreOver, ButtonMatchesSession, LastSizeIsCurrent
<1> QED
  BY <1>1, <1>2, <1>3, <1>4, <1>5, <1>6, <1>7, <1>8 DEF TerminalNext, Server

\* terminal.js:60-66, 114-120: the button offers to connect exactly when the
\* session of the element has ended, however many sockets break twice.
THEOREM ButtonMatches == TerminalSpec => []ButtonMatchesSession
<1>1. TerminalInv => ButtonMatchesSession
  BY DEF TerminalInv
<1> QED
  BY <1>1, TerminalInitInv, TerminalStep, PTL DEF TerminalSpec

\* terminal.js:54-58, 68-69, 81-87: with all messages arrived, the PTY has the
\* size of the terminal.
THEOREM SizeSettles == TerminalSpec => []PtySizeSettles
<1>1. TerminalInv => PtySizeSettles
  BY DEF TerminalInv, LastSizeIsCurrent, PtySizeSettles
<1> QED
  BY <1>1, TerminalInitInv, TerminalStep, PTL DEF TerminalSpec
=============================================================================
