------------------------------ MODULE Terminal ------------------------------
(***************************************************************************)
(* The web terminal: web/editor/terminal.js and serveTerminal in           *)
(* terminal.go, joined by a WebSocket.  A session is the browser's socket  *)
(* and, on the server, the handler that reads frames, the goroutine that   *)
(* pumps the shell's output, the context that kills the shell, and the     *)
(* shell on its PTY.  A button connects, and reconnects what has ended.    *)
(***************************************************************************)
EXTENDS Naturals, Sequences

CONSTANTS MaxSessions,    \* bound: sessions of one page
          MaxQueue,       \* bound: resize messages under way
          Sizes,          \* sizes of the terminal element
          FirstSize       \* the size a PTY starts with, and the element's first

ASSUME TerminalAssumption == /\ MaxSessions \in Nat /\ MaxQueue \in Nat
                             /\ FirstSize \in Sizes

VARIABLES cur,            \* the session of the terminal element, 0 before any
          disabledOpen,   \* the button
          size,           \* what fit.fit() makes of the element
          session         \* session[n]

terminalVars == <<cur, disabledOpen, size, session>>

Sessions == 1..MaxSessions

\* sock: the browser's socket; "erring" is between its error and close events.
\* done: onClose has been called; up: resize messages under way; peer: whether
\* the server can still reach the browser.
NoSession == [sock |-> "none", done |-> FALSE, up |-> <<>>, peer |-> TRUE,
              handler |-> "none", pump |-> "none", canceled |-> FALSE,
              shell |-> "none", pty |-> FirstSize]

TerminalTypeOK ==
  /\ cur \in 0..MaxSessions
  /\ disabledOpen \in BOOLEAN
  /\ size \in Sizes
  /\ \A n \in Sessions :
       LET s == session[n] IN
         /\ s.sock \in {"none", "connecting", "open", "erring", "closed"}
         /\ s.handler \in {"none", "reading", "waiting", "gone"}
         /\ s.pump \in {"none", "reading", "gone"}
         /\ s.shell \in {"none", "running", "dead"}
         /\ s.pty \in Sizes
         /\ \A i \in DOMAIN s.up : s.up[i] \in Sizes
         /\ s.done \in BOOLEAN /\ s.peer \in BOOLEAN /\ s.canceled \in BOOLEAN

TerminalInit == /\ cur = 0
                /\ disabledOpen = FALSE
                /\ size = FirstSize
                /\ session = [n \in Sessions |-> NoSession]
-----------------------------------------------------------------------------
(* The browser.                                                            *)

\* The button: what is left of the former session is torn down.
Open == /\ ~disabledOpen /\ cur < MaxSessions
        /\ cur' = cur + 1
        /\ disabledOpen' = TRUE
        /\ session' = [n \in Sessions |->
                         CASE n = cur + 1 -> [NoSession EXCEPT !.sock = "connecting"]
                           [] n = cur -> [session[n] EXCEPT !.peer = FALSE]
                           [] OTHER -> session[n]]
        /\ UNCHANGED size

Moves(n, s) == session' = [session EXCEPT ![n] = s]
Serves(n, s) == Moves(n, s) /\ UNCHANGED <<cur, disabledOpen, size>>

\* Broken form of the next: a socket that has opened is sent nothing.
OpenedQuietly(s) == [s EXCEPT !.sock = "open"]

\* onopen sends the size: fit.fit() ran while nothing could be sent.
OpenedWithSize(s) == [s EXCEPT !.sock = "open", !.up = Append(@, size)]

OnOpen(n) == /\ session[n].sock = "connecting" /\ session[n].handler # "none"
             /\ session[n].peer
             /\ Serves(n, OpenedWithSize(session[n]))

\* The element is resized; onResize tells an open socket.
Resize == \E z \in Sizes \ {size} :
            /\ size' = z
            /\ IF cur # 0 /\ session[cur].sock = "open"
                 THEN /\ Len(session[cur].up) < MaxQueue
                      /\ Moves(cur, [session[cur] EXCEPT !.up = Append(@, z)])
                 ELSE UNCHANGED session
            /\ UNCHANGED <<cur, disabledOpen>>

\* Broken form of the next: every event of a socket reports its end.
FinishesAgain(n) == TRUE

\* finish(): once per session.
Finishes(n) == ~session[n].done

Finish(n, s) == /\ Moves(n, [s EXCEPT !.done = TRUE, !.peer = FALSE])
                /\ disabledOpen' = IF Finishes(n) THEN FALSE ELSE disabledOpen
                /\ UNCHANGED <<cur, size>>

\* The connection breaks, or is refused: an error event, then a close event.
OnError(n) == /\ session[n].sock \in {"connecting", "open"}
              /\ Finish(n, [session[n] EXCEPT !.sock = "erring"])

OnClose(n) == /\ \/ session[n].sock = "erring"
                 \/ session[n].sock \in {"connecting", "open"} /\ session[n].handler = "gone"
              /\ Finish(n, [session[n] EXCEPT !.sock = "closed"])

\* The tab is closed: no event runs any more.
CloseTab == /\ cur # 0 /\ ~session[cur].done
            /\ Serves(cur, [session[cur] EXCEPT !.peer = FALSE, !.sock = "closed"])
-----------------------------------------------------------------------------
(* The server.                                                             *)

\* serveTerminal accepts the socket and starts the shell, or cannot.
Accept(n) ==
  /\ session[n].sock = "connecting" /\ session[n].handler = "none" /\ session[n].peer
  /\ \/ Serves(n, [session[n] EXCEPT !.handler = "reading", !.pump = "reading",
                                     !.shell = "running"])
     \/ Serves(n, [session[n] EXCEPT !.handler = "gone"])

\* The read loop applies a size, the last of what the browser sent included.
ReadFrame(n) == /\ session[n].handler = "reading" /\ session[n].up # <<>>
                /\ ~session[n].canceled
                /\ Serves(n, [session[n] EXCEPT !.pty = Head(session[n].up),
                                                  !.up = Tail(@)])

\* ... and ends with the socket or the context; the first deferred call waits
\* for the shell.
ReadFails(n) == /\ session[n].handler = "reading"
                /\ ~session[n].peer \/ session[n].canceled
                /\ Serves(n, [session[n] EXCEPT !.handler = "waiting"])

\* A keystroke for a shell that is dead cannot be written, and ends it too.
WriteFails(n) == /\ session[n].handler = "reading" /\ session[n].shell = "dead"
                 /\ Serves(n, [session[n] EXCEPT !.handler = "waiting"])

\* Broken form of the next: the goroutine leaves the context alone.
PumpLeaves(s) == [s EXCEPT !.pump = "gone"]

PumpEnds(s) == [s EXCEPT !.pump = "gone", !.canceled = TRUE]

\* The shell writes: to a browser that is gone, the write fails.
ShellWrites(n) == /\ session[n].shell = "running" /\ session[n].pump = "reading"
                  /\ ~session[n].peer
                  /\ Serves(n, PumpEnds(session[n]))

\* The shell ends by itself, after an "exit" or with its workload.
ShellExits(n) == /\ session[n].shell = "running"
                 /\ Serves(n, [session[n] EXCEPT !.shell = "dead"])

\* Its PTY then reads as an error.
PumpFails(n) == /\ session[n].shell = "dead" /\ session[n].pump = "reading"
                /\ Serves(n, PumpEnds(session[n]))

\* exec.CommandContext kills it when the context is canceled.
Kill(n) == /\ session[n].shell = "running" /\ session[n].canceled
           /\ Serves(n, [session[n] EXCEPT !.shell = "dead"])

\* cmd.Wait returns; the other deferred calls close the PTY, cancel and close.
WaitReturns(n) == /\ session[n].handler = "waiting" /\ session[n].shell = "dead"
                  /\ Serves(n, [session[n] EXCEPT !.handler = "gone", !.pump = "gone",
                                                  !.canceled = TRUE])

Server(n) == ReadFails(n) \/ PumpFails(n) \/ Kill(n) \/ WaitReturns(n)

TerminalNext == \/ Open \/ Resize \/ CloseTab
                \/ \E n \in Sessions : \/ OnOpen(n) \/ OnError(n) \/ OnClose(n)
                                       \/ Accept(n) \/ ReadFrame(n) \/ Server(n)
                                       \/ ShellWrites(n) \/ ShellExits(n)
                                       \/ WriteFails(n)

\* The server's goroutines run; a shell need neither write nor exit.
TerminalFairness == \A n \in Sessions : WF_terminalVars(Server(n))
TerminalSpec == TerminalInit /\ [][TerminalNext]_terminalVars /\ TerminalFairness
-----------------------------------------------------------------------------
\* The button offers to connect exactly when the session of the element has
\* ended, once each, though a broken socket raises two events and the second
\* may come when the next session is already open (terminal.js:60-66, 76-77,
\* 114-120).
ButtonMatchesSession == cur # 0 => (disabledOpen <=> ~session[cur].done)

\* When all messages have arrived the shell's PTY has the size of the terminal,
\* whenever that was resized: while connecting, while messages were under way
\* or before a reconnection (terminal.js:54-58, 68-69, 81-87).
PtySizeSettles ==
  cur # 0 /\ session[cur].sock = "open" /\ session[cur].handler = "reading"
          /\ session[cur].up = <<>>
    => session[cur].pty = size

\* A session whose shell has ended, or has written to a browser that is gone,
\* is torn down on the server: no handler, goroutine or PTY stays behind
\* (terminal.go:101-104, 137-138).
EveryShellIsReaped ==
  \A n \in Sessions :
    session[n].shell = "dead" \/ session[n].canceled ~> session[n].handler = "gone"

\* The shell dies with the socket (terminal.go:11-12: "closing the tab cancels
\* the request context, which kills the shell").
ShellDiesWithTheTab ==
  \A n \in Sessions : session[n].shell = "running" /\ ~session[n].peer ~> session[n].shell = "dead"
=============================================================================
