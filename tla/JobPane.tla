------------------------------ MODULE JobPane ------------------------------
(***************************************************************************)
(* web/src/jobs.ts: the job log in the page's #job-panel.  A fragment with *)
(* a #job-log element is swapped in and watched through an EventSource of  *)
(* its own; swaps anywhere in the page probe for an unwatched #job-log,    *)
(* and what is swapped out leaves its EventSource open.  Each stream sends *)
(* a prefix of its job's lines and then "done" (module JobStream).         *)
(***************************************************************************)
EXTENDS Naturals, Sequences

CONSTANTS MaxJobs,        \* bound: jobs started
          MaxLines,       \* bound: lines a job writes
          Slots           \* bound: EventSources open at once

ASSUME JobPaneAssumption == MaxJobs \in Nat /\ MaxLines \in Nat

VARIABLES status,         \* status[j] of job j's row
          written,        \* written[j]: lines in its log
          pane,           \* what #job-panel holds
          stream          \* stream[s]: an EventSource

paneVars == <<status, written, pane, stream>>

Jobs == 1..MaxJobs
Lines == Jobs \X (1..MaxLines)

\* #job-panel holds nothing, a plain text, or a #job-log: its data-job-id,
\* data-watching, its text as lines <<job, line>>, and the badge beside it.
Empty == [holds |-> "nothing", job |-> 0, watching |-> FALSE, text |-> <<>>, badge |-> "none"]
LogOf(j) == [holds |-> "log", job |-> j, watching |-> FALSE, text |-> <<>>, badge |-> status[j]]

\* pre: whether its #job-log is still the one in the page; sent: lines so far.
Unused == [open |-> FALSE, job |-> 0, pre |-> FALSE, sent |-> 0]

PaneTypeOK ==
  /\ status \in [Jobs -> {"absent", "running", "ok", "failed"}]
  /\ written \in [Jobs -> 0..MaxLines]
  /\ pane.holds \in {"nothing", "text", "log"}
  /\ pane.job \in 0..MaxJobs
  /\ \A i \in DOMAIN pane.text : pane.text[i] \in Lines
  /\ stream \in [Slots -> [open : BOOLEAN, job : 0..MaxJobs, pre : BOOLEAN, sent : 0..MaxLines]]

PaneInit == /\ status = [j \in Jobs |-> "absent"]
            /\ written = [j \in Jobs |-> 0]
            /\ pane = Empty
            /\ stream = [s \in Slots |-> Unused]
-----------------------------------------------------------------------------
(* The jobs, from this page or another; one runs at a time.                *)

JobStarts == \E j \in Jobs :
               /\ status[j] = "absent"
               /\ \A i \in Jobs : status[i] # "running" /\ (i < j => status[i] # "absent")
               /\ status' = [status EXCEPT ![j] = "running"]
               /\ UNCHANGED <<written, pane, stream>>

JobWrites == \E j \in Jobs : /\ status[j] = "running" /\ written[j] < MaxLines
                             /\ written' = [written EXCEPT ![j] = @ + 1]
                             /\ UNCHANGED <<status, pane, stream>>

JobEnds == \E j \in Jobs : /\ status[j] = "running"
                           /\ \E s \in {"ok", "failed"} : status' = [status EXCEPT ![j] = s]
                           /\ UNCHANGED <<written, pane, stream>>
-----------------------------------------------------------------------------
(* The page.                                                               *)

\* watchJob looks for a #job-log it does not watch yet.
Unwatched(p) == p.holds = "log" /\ ~p.watching

\* The streams once p is in the page: those of the former #job-log, if it
\* was replaced, are cut off from the page, not closed.
Streams(p, replaced) ==
  LET kept == IF replaced THEN [s \in Slots |-> [stream[s] EXCEPT !.pre = FALSE]]
              ELSE stream
  IN  IF ~Unwatched(p) THEN {kept}
      ELSE {[kept EXCEPT ![s] = [open |-> TRUE, job |-> p.job, pre |-> TRUE, sent |-> 0]]
              : s \in {s \in Slots : ~stream[s].open}}

Swap(p, replaced) == /\ stream' \in Streams(p, replaced)
                     /\ pane' = [p EXCEPT !.watching = (p.holds = "log")]
                     /\ UNCHANGED <<status, written>>

\* Apply's answer (the job it started), or the Log button of a job's row.
SwapLog == \E j \in Jobs : status[j] # "absent" /\ Swap(LogOf(j), TRUE)

\* Destroy's 422 is swapped into #job-panel like any validation error.
SwapText == Swap([Empty EXCEPT !.holds = "text"], TRUE)

\* A swap elsewhere: the sidebar every five seconds, a save's result.
SwapElsewhere == Swap(pane, FALSE)

\* The system page renders the active job's log, the others an empty panel.
ReloadPane == /\ \E p \in {Empty} \union {LogOf(j) : j \in {j \in Jobs : status[j] = "running"}} :
                   /\ pane' = [p EXCEPT !.watching = (p.holds = "log")]
                   /\ \E s \in Slots :
                        stream' = [t \in Slots |->
                          IF t = s /\ p.holds = "log"
                            THEN [open |-> TRUE, job |-> p.job, pre |-> TRUE, sent |-> 0]
                            ELSE Unused]
              /\ UNCHANGED <<status, written>>
-----------------------------------------------------------------------------
(* The events of stream s.                                                 *)

\* Broken form of the next: the element is looked up when the line arrives.
AppendedById(s, line) ==
  IF pane.holds = "log" THEN [pane EXCEPT !.text = Append(@, line)] ELSE pane

\* The handler holds the element it was created for.
Appended(s, line) ==
  IF stream[s].pre THEN [pane EXCEPT !.text = Append(@, line)] ELSE pane

OnAppend(s) ==
  /\ stream[s].open /\ stream[s].sent < written[stream[s].job]
  /\ stream' = [stream EXCEPT ![s].sent = @ + 1]
  /\ pane' = Appended(s, <<stream[s].job, stream[s].sent + 1>>)
  /\ UNCHANGED <<status, written>>

\* "done" closes the stream; the badge is looked up, and is the one the page
\* has by then.
OnDone(s) ==
  /\ stream[s].open /\ status[stream[s].job] # "running"
  /\ stream' = [stream EXCEPT ![s] = Unused]
  /\ pane' = IF pane.holds = "log" THEN [pane EXCEPT !.badge = status[stream[s].job]] ELSE pane
  /\ UNCHANGED <<status, written>>

\* Any error closes it for good.
OnStreamError(s) == /\ stream[s].open
              /\ stream' = [stream EXCEPT ![s] = Unused]
              /\ UNCHANGED <<status, written, pane>>

PaneNext == \/ JobStarts \/ JobWrites \/ JobEnds
            \/ SwapLog \/ SwapText \/ SwapElsewhere \/ ReloadPane
            \/ \E s \in Slots : OnAppend(s) \/ OnDone(s) \/ OnStreamError(s)

PaneSpec == PaneInit /\ [][PaneNext]_paneVars
-----------------------------------------------------------------------------
\* A #job-log shows the lines of its own job from the first on, each once and
\* in order, however fragments replace each other and swaps elsewhere probe
\* for it (jobs.ts:9-10, 15-18, 33-35).
PaneShowsItsLog ==
  pane.holds = "log" =>
    /\ Len(pane.text) <= written[pane.job]
    /\ \A i \in DOMAIN pane.text : pane.text[i] = <<pane.job, i>>
=============================================================================
