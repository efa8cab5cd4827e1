------------------------------- MODULE Journal ------------------------------
(***************************************************************************)
(* web/src/journal.ts: the journal of a workload's machine, followed in    *)
(* the page through an EventSource; a checkbox switches between the host   *)
(* unit's journal and the one inside the container.  The server starts     *)
(* every connection with the journal's last lines (sse.go) and the browser *)
(* reconnects by itself, journal.ts having no error handler.               *)
(***************************************************************************)
EXTENDS Integers, Sequences

CONSTANTS Sources,        \* the two journals
          HostSource,     \* the one followed at first
          MaxJournal,     \* bound: lines a journal gets
          Backlog         \* lines a connection starts with (200 in the code)

ASSUME JournalAssumption == /\ HostSource \in Sources
                            /\ MaxJournal \in Nat
                            /\ Backlog \in Nat

VARIABLES journal,        \* journal[x]: lines written to journal x
          checked,        \* the source the checkbox stands for
          follow,         \* follow[x]: the last line sent by a connection to x, or Off
          text,           \* the text of #container-log
          dropped         \* history: a connection was lost since connect()

journalVars == <<journal, checked, follow, text, dropped>>

Off == -1

JournalTypeOK == /\ journal \in [Sources -> 0..MaxJournal]
                 /\ checked \in Sources
                 /\ follow \in [Sources -> Off..MaxJournal]
                 /\ \A i \in DOMAIN text : text[i] \in Sources \X (1..MaxJournal)
                 /\ dropped \in BOOLEAN

\* Where a new connection to x starts.
Start(x) == IF journal[x] > Backlog THEN journal[x] - Backlog ELSE 0

JournalInit == /\ journal \in [Sources -> 0..MaxJournal]
               /\ checked = HostSource
               /\ follow = [x \in Sources |-> IF x = checked THEN Start(x) ELSE Off]
               /\ text = <<>>
               /\ dropped = FALSE

Log == \E x \in Sources : /\ journal[x] < MaxJournal
                          /\ journal' = [journal EXCEPT ![x] = @ + 1]
                          /\ UNCHANGED <<checked, follow, text, dropped>>

\* Broken form of the next: the former connection is not closed.
ConnectedTo(x) == [follow EXCEPT ![x] = Start(x)]

\* connect() closes the connection it replaces.
Connected(x) == [y \in Sources |-> IF y = x THEN Start(x) ELSE Off]

\* The checkbox changes: connect() empties the text and connects.
Toggle == \E x \in Sources \ {checked} : /\ checked' = x
                                         /\ follow' = Connected(x)
                                         /\ text' = <<>>
                                         /\ dropped' = FALSE
                                         /\ UNCHANGED journal

Follow(x) == /\ follow[x] # Off /\ follow[x] < journal[x]
             /\ follow' = [follow EXCEPT ![x] = @ + 1]
             /\ text' = Append(text, <<x, follow'[x]>>)
             /\ UNCHANGED <<journal, checked, dropped>>

\* A lost connection: the browser opens it again, the text stays.  One per page.
Reconnect == /\ ~dropped
             /\ follow' = [follow EXCEPT ![checked] = Start(checked)]
             /\ dropped' = TRUE
             /\ UNCHANGED <<journal, checked, text>>

JournalNext == Log \/ Toggle \/ Reconnect \/ \E x \in Sources : Follow(x)

JournalSpec == JournalInit /\ [][JournalNext]_journalVars
-----------------------------------------------------------------------------
\* The journal shown is the one the checkbox says, whatever lines of the
\* other were on their way when it was switched, and without gap or
\* repetition unless the connection was lost (journal.ts:12-22).
JournalShowsOneSource ==
  /\ \A i \in DOMAIN text : text[i][1] = checked
  /\ ~dropped => \A i \in 1..(Len(text) - 1) : text[i + 1][2] = text[i][2] + 1
=============================================================================
