------------------------------ MODULE Browser -------------------------------
(***************************************************************************)
(* The pages of nixbox and what they hold: web/src/main.ts loads every     *)
(* feature on every page, and each wires itself up where its markup is.    *)
(* The parts share the page and no state, but for one call (a log that is  *)
(* swapped in selects the first tab: Swap in JobPane, Surface in Tabs), so *)
(* a behaviour here is one of one part, chosen at the start, with the      *)
(* others at rest: every behaviour of every part, and no interleavings of  *)
(* parts that cannot tell.                                                 *)
(***************************************************************************)
EXTENDS SaveGuard, Tabs, JobPane, Journal, Dialogs, RowDialog, NewWorkload,
        Metrics, Terminal, Login

VARIABLE part             \* the part in use

browserVars == <<part, guardVars, tabVars, paneVars, journalVars, dialogVars, rowVars,
                 newVars, metricsVars, terminalVars, loginVars>>

Parts == {"form", "tabs", "log", "journal", "dialogs", "rows", "create",
          "dashboard", "shell", "login"}

BrowserTypeOK ==
  /\ part \in Parts
  /\ GuardTypeOK /\ TabTypeOK /\ PaneTypeOK /\ JournalTypeOK /\ DialogTypeOK
  /\ RowTypeOK /\ NewTypeOK /\ MetricsTypeOK /\ TerminalTypeOK /\ LoginTypeOK

\* What a part at rest starts with is immaterial, and fixed.
AtRest ==
  /\ part # "form" => ~wasDisabled
  /\ part # "journal" => \A x \in Sources : journal[x] = 0
  /\ part # "dialogs" => page = "system"
  /\ part # "rows" => kind = "secrets"
  /\ part # "create" => \A c \in Caps : cap <= c

BrowserInit ==
  /\ part \in Parts
  /\ GuardInit /\ TabInit /\ PaneInit /\ JournalInit /\ DialogInit
  /\ RowInit /\ NewInit /\ MetricsInit /\ TerminalInit /\ LoginInit
  /\ AtRest

FormStep == /\ part = "form" /\ GuardNext
            /\ UNCHANGED <<part, tabVars, paneVars, journalVars, dialogVars,
                           rowVars, newVars, metricsVars, terminalVars, loginVars>>

TabsStep == /\ part = "tabs" /\ TabNext
            /\ UNCHANGED <<part, guardVars, paneVars, journalVars, dialogVars,
                           rowVars, newVars, metricsVars, terminalVars, loginVars>>

LogStep == /\ part = "log" /\ PaneNext
           /\ UNCHANGED <<part, guardVars, tabVars, journalVars, dialogVars,
                          rowVars, newVars, metricsVars, terminalVars, loginVars>>

JournalStep == /\ part = "journal" /\ JournalNext
               /\ UNCHANGED <<part, guardVars, tabVars, paneVars, dialogVars,
                              rowVars, newVars, metricsVars, terminalVars,
                              loginVars>>

DialogsStep == /\ part = "dialogs" /\ DialogNext
               /\ UNCHANGED <<part, guardVars, tabVars, paneVars, journalVars,
                              rowVars, newVars, metricsVars, terminalVars,
                              loginVars>>

RowsStep == /\ part = "rows" /\ RowNext
            /\ UNCHANGED <<part, guardVars, tabVars, paneVars, journalVars,
                           dialogVars, newVars, metricsVars, terminalVars,
                           loginVars>>

CreateStep == /\ part = "create" /\ NewNext
              /\ UNCHANGED <<part, guardVars, tabVars, paneVars, journalVars,
                             dialogVars, rowVars, metricsVars, terminalVars,
                             loginVars>>

DashboardStep == /\ part = "dashboard" /\ MetricsNext
                 /\ UNCHANGED <<part, guardVars, tabVars, paneVars, journalVars,
                                dialogVars, rowVars, newVars, terminalVars,
                                loginVars>>

LoginStep == /\ part = "login" /\ LoginNext
             /\ UNCHANGED <<part, guardVars, tabVars, paneVars, journalVars,
                            dialogVars, rowVars, newVars, metricsVars,
                            terminalVars>>

InShell(step) == /\ part = "shell" /\ step
                 /\ UNCHANGED <<part, guardVars, tabVars, paneVars, journalVars,
                                dialogVars, rowVars, newVars, metricsVars,
                                loginVars>>

BrowserNext == \/ FormStep \/ TabsStep \/ LogStep \/ JournalStep \/ DialogsStep
               \/ RowsStep \/ CreateStep \/ DashboardStep \/ LoginStep
               \/ InShell(TerminalNext)

\* The fairness of Terminal, for steps of the whole.
BrowserSpec == /\ BrowserInit /\ [][BrowserNext]_browserVars
               /\ \A n \in Sessions : WF_browserVars(InShell(Server(n)))
=============================================================================
