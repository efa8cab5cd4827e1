-------------------------------- MODULE Tabs --------------------------------
(***************************************************************************)
(* web/src/tabs.ts: the tabs of a workload page.  Start, Stop and the      *)
(* other plain forms reload the page and drop the URL's hash; the tab the  *)
(* user was on is kept in sessionStorage, per path, and in the hash.       *)
(***************************************************************************)
EXTENDS Naturals, Sequences

CONSTANTS Links           \* hashes that lead to the page: tabs and others

VARIABLES tab,            \* the selected tab
          focused,        \* the tab button that has the focus, or NoFocus
          stored,         \* sessionStorage's entry for this path, or NoTab
          hash,           \* the fragment of the URL, or NoTab
          linked          \* history: the hash came with a link, no tab chosen since

tabVars == <<tab, focused, stored, hash, linked>>

\* The strip of a workload that has a shell.
Buttons == <<"config", "logs", "terminal", "revisions", "manage">>
TabNames == {Buttons[i] : i \in DOMAIN Buttons}
NoTab == "none"
NoFocus == 0

TabTypeOK ==
  /\ tab \in TabNames
  /\ focused \in {NoFocus} \union DOMAIN Buttons
  /\ stored \in TabNames \union {NoTab}
  /\ hash \in TabNames \union Links \union {NoTab}
  /\ linked \in BOOLEAN

\* The server renders the first tab selected.
TabInit == /\ tab = Buttons[1]
           /\ focused = NoFocus
           /\ stored = NoTab
           /\ hash = NoTab
           /\ linked = FALSE
-----------------------------------------------------------------------------
\* Broken form of the next: the choice is stored and the hash kept.
ActivateStored(name) == /\ tab' = name
                        /\ stored' = name
                        /\ UNCHANGED <<hash, linked>>

\* activate(name): by default the choice is stored, and the hash replaced.
Activate(name) == /\ tab' = name
                  /\ stored' = name
                  /\ hash' = name
                  /\ linked' = FALSE

Select(i) == /\ Activate(Buttons[i])
             /\ focused' = i

\* Roving keys start from the focused button, not from the selected one.
Moved(key, i) == CASE key = "right" -> (i % Len(Buttons)) + 1
                   [] key = "left" -> ((i + Len(Buttons) - 2) % Len(Buttons)) + 1
                   [] key = "home" -> 1
                   [] key = "end" -> Len(Buttons)

Key == /\ focused # NoFocus
       /\ \E key \in {"right", "left", "home", "end"} : Select(Moved(key, focused))

Blur == /\ focused' = NoFocus
        /\ UNCHANGED <<tab, stored, hash, linked>>

\* A job's log swapped into #job-panel (JobPane) shows on the first tab.
Surface == /\ Activate("config")
           /\ UNCHANGED focused

\* On load the hash wins, else the remembered tab; what is no tab is ignored,
\* and nothing is stored.
Wanted(fragment) == IF fragment = NoTab THEN stored ELSE fragment

\* Broken form of the next: whatever the fragment names is activated.
RestoredUnchecked(fragment) ==
  IF Wanted(fragment) = NoTab THEN Buttons[1] ELSE Wanted(fragment)

Restored(fragment) ==
  IF Wanted(fragment) \in TabNames THEN Wanted(fragment) ELSE Buttons[1]

Load(fragment) == /\ hash' = fragment
                  /\ tab' = Restored(fragment)
                  /\ focused' = NoFocus
                  /\ UNCHANGED stored

ReloadTabs == Load(hash) /\ UNCHANGED linked

\* A plain form's POST: the redirect leads to the path alone.
Redirect == Load(NoTab) /\ linked' = FALSE

FollowLink == \E link \in Links : Load(link) /\ linked' = TRUE

TabNext == \/ \E i \in DOMAIN Buttons : Select(i)
           \/ Key \/ Blur \/ Surface \/ ReloadTabs \/ Redirect \/ FollowLink

TabSpec == TabInit /\ [][TabNext]_tabVars
-----------------------------------------------------------------------------
\* A reload keeps the user on the tab, and so does the redirect after Start,
\* Stop or Enable, however the tab came to be selected: by click, key, or a
\* log that surfaced.  Only a tab reached by a link and never chosen is
\* forgotten by the redirect (tabs.ts:13-15, 53-57).
TabSurvivesReload ==
  [][/\ ReloadTabs => tab' = tab
     /\ Redirect => tab' = tab \/ linked]_tabVars
=============================================================================
