--------------------------- MODULE BrowserProofs ----------------------------
(***************************************************************************)
(* The parts of the pages, each for any instance of its constants, and at  *)
(* the end the whole: a behaviour of Browser is one of every part.         *)
(***************************************************************************)
EXTENDS Browser, TerminalProofs, LoginProofs, InductionLemmas

-----------------------------------------------------------------------------
(***************************************************************************)
(* GuardTracksServer, for any set of editor contents and any number of     *)
(* saves.  It speaks of a form with no save under way; to come out of a    *)
(* save with it one must know what the save carried while it was under     *)
(* way: that the guard's inflightValue is the request's body, and what the *)
(* server made of that body before its answer arrived.                     *)
(***************************************************************************)
\* The buttons always follow the form and the baseline.
ButtonsFollow == disabled <=> wasDisabled \/ form # savedValue

\* While a save is under way the guard holds the body that was sent, and
\* nothing waits behind a save that is not.
InflightIsBody ==
  IF request.stage = "idle"
    THEN ~queued
    ELSE request.body \in SaveForms /\ inflightValue = request.body

\* What an answer on its way says of the server.
AnswerIsTrue ==
  request.stage = "answered" =>
    /\ request.answer # "none"
    /\ request.answer = "saved" => landed = request.body
    /\ request.answer = "rejected" => request.body.ports = "bad"

\* What the baseline is, with no save under way.
BaselineIsTrue ==
  request.stage = "idle" =>
    /\ outcome \in {"none", "saved"} => landed = savedValue
    /\ outcome = "rejected" => savedValue.ports = "bad"

GuardInv == /\ GuardTypeOK
            /\ ButtonsFollow
            /\ InflightIsBody
            /\ AnswerIsTrue
            /\ BaselineIsTrue
-----------------------------------------------------------------------------
\* The forms that are none, and what a save may leave stored.
LEMMA FormTypes ==
  /\ Nothing \notin SaveForms
  /\ \A b \in SaveForms : Stored(b) \in SaveForms
  /\ \A b \in SaveForms, a \in {"saved", "rejected", "failed"} :
       landed \in SaveForms => Lands(b, a) \subseteq SaveForms
  BY DEF Nothing, SaveForms, PortRows, Stored, Lands

\* A page just loaded satisfies the invariant.
LEMMA GuardInitInv == GuardInit => GuardInv
<1> SUFFICES ASSUME GuardInit PROVE GuardInv
  OBVIOUS
<1> USE DEF GuardInit, NoRequest
<1>1. GuardTypeOK
  BY SaveGuardAssumption DEF GuardTypeOK, SaveForms, PortRows, Stages, Answers
<1>2. ButtonsFollow
  BY DEF ButtonsFollow
<1>3. InflightIsBody /\ AnswerIsTrue /\ BaselineIsTrue
  BY DEF InflightIsBody, AnswerIsTrue, BaselineIsTrue
<1> QED
  BY <1>1, <1>2, <1>3 DEF GuardInv

\* Every step of the form keeps the invariant.
LEMMA GuardStep == GuardInv /\ [GuardNext]_guardVars => GuardInv'
<1> SUFFICES ASSUME GuardInv, [GuardNext]_guardVars PROVE GuardInv'
  OBVIOUS
<1> USE DEF GuardInv, GuardTypeOK, ButtonsFollow, InflightIsBody, AnswerIsTrue, BaselineIsTrue
<1>1. CASE EditDoc
  <2>1. form' \in SaveForms
    BY <1>1 DEF EditDoc, SaveForms
  <2>2. disabled' \in BOOLEAN /\ ButtonsFollow'
    <3>1. disabled' = (wasDisabled \/ form' # savedValue) /\ UNCHANGED <<savedValue, wasDisabled>>
      BY <1>1 DEF EditDoc, Refreshed
    <3> QED
      BY <3>1, Zenon
  <2>3. UNCHANGED <<savedValue, inflightValue, request, queued, checking, wasDisabled, landed, outcome>>
    BY <1>1 DEF EditDoc
  <2>4. InflightIsBody' /\ AnswerIsTrue' /\ BaselineIsTrue'
    BY <2>3
  <2> QED
    BY <2>1, <2>2, <2>3, <2>4
<1>2. CASE EditPorts
  <2>1. form' \in SaveForms
    BY <1>2 DEF EditPorts, SaveForms
  <2>2. disabled' \in BOOLEAN /\ ButtonsFollow'
    <3>1. disabled' = (wasDisabled \/ form' # savedValue) /\ UNCHANGED <<savedValue, wasDisabled>>
      BY <1>2 DEF EditPorts, Refreshed
    <3> QED
      BY <3>1, Zenon
  <2>3. UNCHANGED <<savedValue, inflightValue, request, queued, checking, wasDisabled, landed, outcome>>
    BY <1>2 DEF EditPorts
  <2>4. InflightIsBody' /\ AnswerIsTrue' /\ BaselineIsTrue'
    BY <2>3
  <2> QED
    BY <2>1, <2>2, <2>3, <2>4
<1>3. CASE SubmitSave
  <2>1. UNCHANGED <<form, savedValue, checking, disabled, wasDisabled, landed, outcome>>
    BY <1>3 DEF SubmitSave
  <2>2. CASE request.stage = "idle"
    BY <1>3, <2>1, <2>2 DEF SubmitSave, SentNow, Stages, Answers
  <2>3. CASE request.stage # "idle"
    BY <1>3, <2>1, <2>3 DEF SubmitSave
  <2> QED
    BY <2>2, <2>3
<1>4. CASE HandleSave
  <2>1. PICK answer \in {"saved", "rejected", "failed"} :
          /\ answer = "rejected" => request.body.ports = "bad"
          /\ request' = [request EXCEPT !.stage = "answered", !.answer = answer]
          /\ landed' \in Lands(request.body, answer)
    BY <1>4 DEF HandleSave
  <2>2. landed' \in SaveForms
    BY <1>4, <2>1, FormTypes DEF HandleSave
  <2>3. answer = "saved" => landed' = request.body
    BY <2>1 DEF Lands
  <2> QED
    BY <1>4, <2>1, <2>2, <2>3, ZenonT(30) DEF HandleSave, Stages, Answers
<1>5. CASE AfterRequest
  <2>1. inflightValue = request.body /\ request.body \in SaveForms /\ inflightValue # Nothing
    BY <1>5, FormTypes DEF AfterRequest
  <2>2. request' \in {SentNow, NoRequest} /\ ~queued'
    BY <1>5 DEF AfterRequest
  <2>3. GuardTypeOK'
    BY <1>5, <2>1, <2>2
    DEF AfterRequest, Baseline, SentNow, NoRequest, Stages, Answers, Refreshed
  <2>4. ButtonsFollow'
    BY <1>5 DEF AfterRequest, Refreshed
  <2>5. InflightIsBody' /\ AnswerIsTrue'
    BY <1>5, <2>1, <2>2 DEF AfterRequest, SentNow, NoRequest
  <2>6. BaselineIsTrue'
    BY <1>5, <2>1 DEF AfterRequest, Baseline, SentNow, NoRequest, Answers
  <2> QED
    BY <2>3, <2>4, <2>5, <2>6
<1>6. CASE Validate
  BY <1>6 DEF Validate
<1>7. CASE Validated
  BY <1>7 DEF Validated
<1>8. CASE Reload
  BY <1>8, FormTypes DEF Reload, Answers
<1>9. CASE UNCHANGED guardVars
  BY <1>9 DEF guardVars
<1> QED
  BY <1>1, <1>2, <1>3, <1>4, <1>5, <1>6, <1>7, <1>8, <1>9 DEF GuardNext

\* The form, the guard's memory and the request keep their types, and the
\* four facts hold in every reachable state.
THEOREM GuardInvariant == GuardSpec => []GuardInv
  BY GuardInitInv, GuardStep, PTL DEF GuardSpec

\* workload-form.ts:32-63: with no save under way and none failed, Apply is
\* enabled exactly if what the form shows is what it would deploy.
THEOREM GuardTracks == GuardSpec => []GuardTracksServer
<1>1. GuardInv => GuardTracksServer
  BY DEF GuardInv, GuardTypeOK, ButtonsFollow, BaselineIsTrue, GuardTracksServer
<1> QED
  BY <1>1, GuardInvariant, PTL
-----------------------------------------------------------------------------
(* Tabs.  What a reload of this URL, and of the bare path, would select is *)
(* selected already; a tab reached by a link and never chosen excepted.    *)

TabSettled == /\ tab \in TabNames
              /\ tab = Restored(hash)
              /\ linked \in BOOLEAN
              /\ tab = Restored(NoTab) \/ linked

TabInv == TabSettled /\ focused \in {NoFocus} \union DOMAIN Buttons

\* The strip, spelled out.
LEMMA Strip == /\ Len(Buttons) = 5 /\ DOMAIN Buttons = 1..5
               /\ \A i \in DOMAIN Buttons : Buttons[i] \in TabNames
               /\ "config" \in TabNames /\ Buttons[1] = "config"
               /\ NoTab \notin TabNames
  BY DEF Buttons, TabNames, NoTab

\* Choosing a tab of the strip makes it the one to restore.
LEMMA ActivateKeeps ==
  ASSUME NEW n \in TabNames, Activate(n)
  PROVE  TabSettled'
  BY Strip DEF Activate, TabSettled, Restored, Wanted, TabNames

\* Loading a page selects what it should restore.
LEMMA LoadKeeps ==
  ASSUME TabSettled, NEW fragment, Load(fragment), linked' \in BOOLEAN,
         fragment = NoTab \/ linked' \/ (fragment = hash /\ linked' = linked)
  PROVE  TabSettled'
  BY Strip DEF Load, TabSettled, Restored, Wanted

\* The roving keys stay on the strip.
LEMMA MovedStays ==
  ASSUME NEW key \in {"right", "left", "home", "end"}, NEW i \in DOMAIN Buttons
  PROVE  Moved(key, i) \in DOMAIN Buttons
<1>1. (i % 5) + 1 \in 1..5 /\ ((i + 5 - 2) % 5) + 1 \in 1..5
  BY Strip
<1> QED
  BY <1>1, Strip DEF Moved

\* Every step keeps the invariant.
LEMMA TabStep == TabInv /\ [TabNext]_tabVars => TabInv'
<1> SUFFICES ASSUME TabInv, [TabNext]_tabVars PROVE TabInv'
  OBVIOUS
<1> USE DEF TabInv
<1>1. ASSUME NEW i \in DOMAIN Buttons, Select(i) PROVE TabInv'
  BY <1>1, Strip, ActivateKeeps DEF Select
<1>2. CASE Key
  BY <1>2, <1>1, MovedStays DEF Key
<1>3. CASE Blur
  BY <1>3 DEF Blur, TabSettled, Restored, Wanted
<1>4. CASE Surface
  BY <1>4, Strip, ActivateKeeps DEF Surface
<1>5. CASE ReloadTabs
  BY <1>5, LoadKeeps DEF ReloadTabs, Load, TabSettled
<1>6. CASE Redirect
  BY <1>6, LoadKeeps DEF Redirect, Load
<1>7. CASE FollowLink
  BY <1>7, LoadKeeps DEF FollowLink, Load
<1>8. CASE UNCHANGED tabVars
  BY <1>8 DEF tabVars, TabSettled, Restored, Wanted
<1> QED
  BY <1>1, <1>2, <1>3, <1>4, <1>5, <1>6, <1>7, <1>8 DEF TabNext

\* tabs.ts:13-15, 53-57: a reload keeps the tab, and so does the redirect after
\* a plain form unless the tab came with a link and was never chosen.
THEOREM TabSurvives == TabSpec => TabSurvivesReload
<1>1. TabInit => TabInv
  BY Strip DEF TabInit, TabInv, TabSettled, Restored, Wanted
<1>2. TabInv => [/\ ReloadTabs => tab' = tab
                 /\ Redirect => tab' = tab \/ linked]_tabVars
  <2>1. TabInv /\ ReloadTabs => tab' = tab
    BY DEF TabInv, TabSettled, ReloadTabs, Load, Restored, Wanted
  <2>2. TabInv /\ Redirect => tab' = tab \/ linked
    BY DEF TabInv, TabSettled, Redirect, Load
  <2> QED
    BY <2>1, <2>2
<1> QED
  BY <1>1, <1>2, TabStep, PTL DEF TabSpec, TabSurvivesReload

\* What is remembered, and what the URL may hold.
TabBounds == stored \in TabNames \union {NoTab} /\ hash \in TabNames \union Links \union {NoTab}

\* The state stays in its ranges.
LEMMA TabTyped ==
  /\ TabInit => TabBounds
  /\ TabInv /\ TabBounds /\ [TabNext]_tabVars => TabBounds'
  /\ TabInv /\ TabBounds => TabTypeOK
<1> USE DEF TabBounds
<1>1. TabInit => TabBounds
  BY DEF TabInit
<1>2. ASSUME TabInv, TabBounds, [TabNext]_tabVars PROVE TabBounds'
  <2>1. ASSUME NEW i \in DOMAIN Buttons, Select(i) PROVE TabBounds'
    BY <2>1, Strip DEF Select, Activate
  <2>2. CASE Key
    <3>1. focused \in DOMAIN Buttons
      BY <1>2, <2>2 DEF Key, TabInv
    <3>2. PICK key \in {"right", "left", "home", "end"} : Select(Moved(key, focused))
      BY <2>2 DEF Key
    <3>3. Moved(key, focused) \in DOMAIN Buttons
      BY <3>1, MovedStays
    <3> QED
      BY <2>1, <3>2, <3>3
  <2>3. CASE Blur \/ Surface \/ ReloadTabs \/ Redirect \/ FollowLink
    BY <1>2, <2>3, Strip DEF Blur, Surface, Activate, ReloadTabs, Redirect, FollowLink, Load
  <2>4. CASE UNCHANGED tabVars
    BY <1>2, <2>4 DEF tabVars
  <2> QED
    BY <1>2, <2>1, <2>2, <2>3, <2>4 DEF TabNext
<1>3. TabInv /\ TabBounds => TabTypeOK
  BY DEF TabInv, TabSettled, TabTypeOK
<1> QED
  BY <1>1, <1>2, <1>3
-----------------------------------------------------------------------------
(***************************************************************************)
(* PaneShowsItsLog, for any number of jobs, lines and EventSources.  Lines *)
(* are appended by the handler of whichever stream still writes into the   *)
(* page; that there is one such stream, for the job that the pane shows,   *)
(* and that it has sent what the pane holds, is the invariant.             *)
(***************************************************************************)
Panes == [holds : {"nothing", "text", "log"}, job : 0..MaxJobs, watching : BOOLEAN,
          text : Seq(Jobs \X Nat), badge : {"none", "absent", "running", "ok", "failed"}]
SlotStates == [open : BOOLEAN, job : 0..MaxJobs, pre : BOOLEAN, sent : Nat]

PaneTyped == /\ status \in [Jobs -> {"absent", "running", "ok", "failed"}]
         /\ written \in [Jobs -> Nat]
         /\ pane \in Panes
         /\ stream \in [Slots -> SlotStates]

\* An open stream is of a job.
StreamOfJob == \A s \in Slots : stream[s].open => stream[s].job \in Jobs

\* A log in the page is of a job, and is watched.
LogIsWatched == pane.holds = "log" => pane.job \in Jobs /\ pane.watching

\* One stream at most writes into the page, and it is the pane's.
OneWriter == \A s, t \in Slots : stream[s].pre /\ stream[t].pre => s = t
WriterIsPanes ==
  \A s \in Slots :
    stream[s].pre => /\ pane.holds = "log"
                     /\ stream[s].job = pane.job
                     /\ stream[s].sent = Len(pane.text)

PaneInv == /\ PaneTyped /\ StreamOfJob /\ LogIsWatched /\ OneWriter /\ WriterIsPanes
           /\ PaneShowsItsLog
-----------------------------------------------------------------------------
\* The panes a swap starts from, and what is appended to one.
LEMMA PaneTypes ==
  ASSUME PaneTyped
  PROVE  /\ Empty \in Panes /\ Empty.holds = "nothing" /\ Empty.text = <<>>
         /\ Unused \in SlotStates /\ ~Unused.pre /\ ~Unused.open
         /\ \A j \in Jobs : /\ LogOf(j) \in Panes /\ LogOf(j).holds = "log"
                            /\ LogOf(j).job = j /\ LogOf(j).text = <<>>
                            /\ ~LogOf(j).watching
<1>1. 0 \in 0..MaxJobs /\ \A j \in Jobs : j \in 0..MaxJobs
  BY JobPaneAssumption DEF Jobs
<1>2. <<>> \in Seq(Jobs \X Nat)
  OBVIOUS
<1>3. \A j \in Jobs : status[j] \in {"absent", "running", "ok", "failed"}
  BY DEF PaneTyped
<1>4. Empty \in Panes /\ Empty.holds = "nothing" /\ Empty.text = <<>>
  BY <1>1, <1>2 DEF Empty, Panes
<1>5. Unused \in SlotStates /\ ~Unused.pre /\ ~Unused.open
  BY <1>1 DEF Unused, SlotStates
<1>6. ASSUME NEW j \in Jobs
      PROVE  /\ LogOf(j) \in Panes /\ LogOf(j).holds = "log"
             /\ LogOf(j).job = j /\ LogOf(j).text = <<>> /\ ~LogOf(j).watching
  BY <1>1, <1>2, <1>3 DEF LogOf, Panes
<1> QED
  BY <1>4, <1>5, <1>6

\* A page without a log satisfies the invariant.
LEMMA PaneInitInv == PaneInit => PaneInv
<1> SUFFICES ASSUME PaneInit PROVE PaneInv
  OBVIOUS
<1>1. PaneTyped
  BY JobPaneAssumption DEF PaneInit, PaneTyped, Empty, Panes, Unused, SlotStates, Jobs
<1> QED
  BY <1>1 DEF PaneInit, PaneInv, StreamOfJob, LogIsWatched, OneWriter, WriterIsPanes, PaneShowsItsLog,
              Empty, Unused

\* A fragment with a fresh log, or with none, replaces the pane.
LEMMA SwapKeepsInv ==
  ASSUME PaneInv, NEW p \in Panes, Swap(p, TRUE), ~p.watching,
         p.holds = "log" => p.job \in Jobs /\ p.text = <<>>
  PROVE  PaneInv'
<1> USE DEF PaneInv, PaneTyped
<1>1. pane' = [p EXCEPT !.watching = (p.holds = "log")] /\ UNCHANGED <<status, written>>
  BY DEF Swap
<1>2. pane' \in Panes /\ pane'.holds = p.holds /\ pane'.job = p.job /\ pane'.text = p.text
      /\ (pane'.holds = "log" => pane'.watching)
  BY <1>1 DEF Panes
<1> DEFINE kept == [s \in Slots |-> [stream[s] EXCEPT !.pre = FALSE]]
           fresh == [open |-> TRUE, job |-> p.job, pre |-> TRUE, sent |-> 0]
<1>3. /\ kept \in [Slots -> SlotStates] /\ \A i \in Slots : ~kept[i].pre
     /\ \A i \in Slots : kept[i].open = stream[i].open /\ kept[i].job = stream[i].job
  BY DEF SlotStates
<1>4. fresh \in SlotStates /\ fresh.pre /\ fresh.job = p.job /\ fresh.sent = 0
  BY DEF SlotStates, Panes
<1>5. IF p.holds = "log" THEN \E s \in Slots : stream' = [kept EXCEPT ![s] = fresh]
                         ELSE stream' = kept
  BY DEF Swap, Streams, Unwatched
<1> HIDE DEF kept, fresh
<1>6. CASE p.holds # "log"
  BY <1>1, <1>2, <1>3, <1>5, <1>6
  DEF StreamOfJob, LogIsWatched, OneWriter, WriterIsPanes, PaneShowsItsLog
<1>7. CASE p.holds = "log"
  <2>1. PICK s \in Slots : stream' = [kept EXCEPT ![s] = fresh]
    BY <1>5, <1>7
  <2>2. stream' \in [Slots -> SlotStates] /\ stream'[s] = fresh
        /\ \A t \in Slots \ {s} : ~stream'[t].pre /\ stream'[t] = kept[t]
    BY <2>1, <1>3, <1>4
  <2>3. p.job \in Jobs /\ p.text = <<>> /\ Len(p.text) = 0
    BY <1>7
  <2>4. PaneShowsItsLog'
    BY <1>1, <1>2, <2>3 DEF PaneShowsItsLog
  <2>5. StreamOfJob'
    BY <1>3, <1>4, <2>2, <2>3 DEF StreamOfJob
  <2>6. LogIsWatched' /\ OneWriter' /\ WriterIsPanes'
    BY <1>2, <1>4, <1>7, <2>2, <2>3 DEF LogIsWatched, OneWriter, WriterIsPanes
  <2> QED
    BY <1>1, <1>2, <2>2, <2>4, <2>5, <2>6
<1> QED
  BY <1>6, <1>7

\* Every step, of a job, of the page or of a stream, keeps the invariant.
LEMMA PaneStep == PaneInv /\ [PaneNext]_paneVars => PaneInv'
<1> SUFFICES ASSUME PaneInv, [PaneNext]_paneVars PROVE PaneInv'
  OBVIOUS
<1> USE DEF PaneInv, PaneTyped
<1>1. CASE JobStarts
  BY <1>1 DEF JobStarts, StreamOfJob, LogIsWatched, OneWriter, WriterIsPanes, PaneShowsItsLog
<1>2. CASE JobWrites
  <2>1. UNCHANGED <<status, pane, stream>> /\ written' \in [Jobs -> Nat]
        /\ \A j \in Jobs : written[j] <= written'[j]
    BY <1>2 DEF JobWrites
  <2>2. PaneShowsItsLog'
    BY <2>1 DEF PaneShowsItsLog, LogIsWatched, Panes
  <2> QED
    BY <2>1, <2>2 DEF StreamOfJob, LogIsWatched, OneWriter, WriterIsPanes
<1>3. CASE JobEnds
  BY <1>3 DEF JobEnds, StreamOfJob, LogIsWatched, OneWriter, WriterIsPanes, PaneShowsItsLog
<1>4. CASE SwapLog
  BY <1>4, SwapKeepsInv, PaneTypes DEF SwapLog
<1>5. CASE SwapText
  <2>1. [Empty EXCEPT !.holds = "text"] \in Panes
    BY PaneTypes DEF Panes
  <2> QED
    BY <1>5, <2>1, SwapKeepsInv DEF SwapText, Empty
<1>6. CASE SwapElsewhere
  <2>1. UNCHANGED <<status, written>> /\ stream' \in {[s \in Slots |-> stream[s]], stream}
    BY <1>6 DEF SwapElsewhere, Swap, Streams, Unwatched, LogIsWatched
  <2>2. pane' = [pane EXCEPT !.watching = (pane.holds = "log")]
    BY <1>6 DEF SwapElsewhere, Swap
  <2>3. pane' \in Panes /\ pane'.holds = pane.holds /\ pane'.job = pane.job
        /\ pane'.text = pane.text /\ (pane'.holds = "log" => pane'.watching)
    BY <2>2 DEF Panes
  <2>4. stream' = stream
    BY <2>1
  <2> QED
    BY <2>1, <2>3, <2>4 DEF StreamOfJob, LogIsWatched, OneWriter, WriterIsPanes, PaneShowsItsLog
<1>7. CASE ReloadPane
  <2>1. PICK p \in {Empty} \union {LogOf(j) : j \in {j \in Jobs : status[j] = "running"}},
             s \in Slots :
          /\ pane' = [p EXCEPT !.watching = (p.holds = "log")]
          /\ stream' = [t \in Slots |->
                          IF t = s /\ p.holds = "log"
                            THEN [open |-> TRUE, job |-> p.job, pre |-> TRUE, sent |-> 0]
                            ELSE Unused]
          /\ UNCHANGED <<status, written>>
    BY <1>7 DEF ReloadPane
  <2>2. p \in Panes /\ p.holds \in {"nothing", "log"} /\ p.text = <<>>
        /\ (p.holds = "log" => p.job \in Jobs)
    BY <2>1, PaneTypes
  <2>3. pane' \in Panes /\ pane'.holds = p.holds /\ pane'.job = p.job /\ pane'.text = <<>>
        /\ (pane'.holds = "log" => pane'.watching) /\ Len(pane'.text) = 0
    BY <2>1, <2>2 DEF Panes
  <2>4. stream' \in [Slots -> SlotStates]
    BY <2>1, <2>2, PaneTypes DEF SlotStates, Panes
  <2>5. \A t \in Slots : stream'[t].pre => /\ t = s /\ p.holds = "log"
                                           /\ stream'[t].job = p.job /\ stream'[t].sent = 0
    BY <2>1, PaneTypes
  <2>6. PaneShowsItsLog'
    BY <2>1, <2>2, <2>3 DEF PaneShowsItsLog
  <2>7. \A t \in Slots : stream'[t].open => t = s /\ stream'[t].job \in Jobs
    BY <2>1, <2>2, PaneTypes
  <2> QED
    BY <2>1, <2>2, <2>3, <2>4, <2>5, <2>6, <2>7 DEF StreamOfJob, LogIsWatched, OneWriter, WriterIsPanes
<1>8. ASSUME NEW s \in Slots, OnAppend(s) PROVE PaneInv'
  <2> DEFINE line == <<stream[s].job, stream[s].sent + 1>>
  <2>1. /\ stream[s].open /\ stream[s].sent < written[stream[s].job]
        /\ stream' = [stream EXCEPT ![s].sent = @ + 1]
        /\ pane' = Appended(s, line)
        /\ UNCHANGED <<status, written>>
    BY <1>8 DEF OnAppend
  <2>2. /\ stream' \in [Slots -> SlotStates]
        /\ \A t \in Slots : stream'[t].open = stream[t].open
        /\ \A t \in Slots : stream'[t].pre = stream[t].pre /\ stream'[t].job = stream[t].job
        /\ \A t \in Slots \ {s} : stream'[t] = stream[t]
        /\ stream'[s].sent = stream[s].sent + 1
    BY <2>1 DEF SlotStates
  <2>3. CASE ~stream[s].pre
    BY <2>1, <2>2, <2>3 DEF Appended, StreamOfJob, LogIsWatched, OneWriter, WriterIsPanes, PaneShowsItsLog
  <2>4. CASE stream[s].pre
    <3>1. pane.holds = "log" /\ stream[s].job = pane.job /\ pane.job \in Jobs
          /\ stream[s].sent = Len(pane.text) /\ line \in Jobs \X Nat
          /\ line = <<pane.job, Len(pane.text) + 1>>
      BY <2>4 DEF WriterIsPanes, LogIsWatched, SlotStates
    <3> HIDE DEF line
    <3>2. pane' = [pane EXCEPT !.text = Append(pane.text, line)]
      BY <2>1, <2>4 DEF Appended
    <3>3. pane.text \in Seq(Jobs \X Nat)
      BY DEF Panes
    <3>4. pane' \in Panes /\ pane'.holds = "log" /\ pane'.job = pane.job
          /\ pane'.watching = pane.watching /\ pane'.text = Append(pane.text, line)
      <4>1. Append(pane.text, line) \in Seq(Jobs \X Nat)
        BY <3>1, <3>3
      <4> QED
        BY <3>1, <3>2, <4>1 DEF Panes
    <3>5. Len(pane'.text) = Len(pane.text) + 1
      BY <3>1, <3>3, <3>4
    <3>6. PaneShowsItsLog'
      <4>1. \A i \in DOMAIN pane'.text : pane'.text[i] = <<pane.job, i>>
        <5> SUFFICES ASSUME NEW i \in 1..(Len(pane.text) + 1)
                     PROVE  Append(pane.text, line)[i] = <<pane.job, i>>
          BY <3>3, <3>4
        <5>1. CASE i \in 1..Len(pane.text)
          BY <5>1, <3>1, <3>3 DEF PaneShowsItsLog
        <5>2. CASE i = Len(pane.text) + 1
          BY <5>2, <3>1, <3>3
        <5> QED
          BY <5>1, <5>2, <3>3
      <4>2. Len(pane'.text) <= written'[pane'.job]
        BY <2>1, <3>1, <3>3, <3>4, <3>5
      <4> QED
        BY <4>1, <4>2, <3>4 DEF PaneShowsItsLog
    <3>7. WriterIsPanes'
      <4>1. \A t \in Slots : stream'[t].pre => t = s
        BY <2>2, <2>4 DEF OneWriter
      <4>2. stream'[s].job = pane.job /\ stream'[s].sent = Len(pane.text) + 1
        BY <2>2, <3>1
      <4>3. pane'.holds = "log" /\ pane'.job = pane.job /\ Len(pane'.text) = Len(pane.text) + 1
        BY <3>4, <3>5
      <4> HIDE DEF PaneInv, PaneTyped
      <4> QED
        BY <4>1, <4>2, <4>3 DEF WriterIsPanes
    <3> QED
      BY <2>1, <2>2, <3>1, <3>4, <3>6, <3>7 DEF StreamOfJob, LogIsWatched, OneWriter
  <2> QED
    BY <2>3, <2>4
<1>9. ASSUME NEW s \in Slots, OnDone(s) \/ OnStreamError(s) PROVE PaneInv'
  <2>1. stream' = [stream EXCEPT ![s] = Unused] /\ UNCHANGED <<status, written>>
    BY <1>9 DEF OnDone, OnStreamError
  <2>2. /\ stream' \in [Slots -> SlotStates]
        /\ \A t \in Slots : \/ stream'[t] = stream[t]
                            \/ ~stream'[t].pre /\ ~stream'[t].open
    BY <2>1, PaneTypes
  <2>3. /\ pane' \in Panes
        /\ UNCHANGED <<pane.holds, pane.job, pane.text, pane.watching>>
    <3>1. CASE pane' = pane
      BY <3>1
    <3>2. CASE stream[s].open /\ pane' = [pane EXCEPT !.badge = status[stream[s].job]]
               /\ status[stream[s].job] \in {"absent", "running", "ok", "failed"}
      BY <3>2 DEF Panes
    <3>3. stream[s].open => stream[s].job \in Jobs
      BY DEF StreamOfJob
    <3> QED
      BY <1>9, <3>1, <3>2, <3>3 DEF OnDone, OnStreamError
  <2> QED
    BY <2>1, <2>2, <2>3 DEF StreamOfJob, LogIsWatched, OneWriter, WriterIsPanes, PaneShowsItsLog
<1>10. CASE UNCHANGED paneVars
  BY <1>10 DEF paneVars, StreamOfJob, LogIsWatched, OneWriter, WriterIsPanes, PaneShowsItsLog
<1> QED
  BY <1>1, <1>2, <1>3, <1>4, <1>5, <1>6, <1>7, <1>8, <1>9, <1>10 DEF PaneNext

\* jobs.ts:9-35: a #job-log shows the lines of its own job, each once and in
\* order, whatever is swapped in meanwhile and however many streams are left.
THEOREM PaneShows == PaneSpec => []PaneShowsItsLog
<1>1. PaneInv => PaneShowsItsLog
  BY DEF PaneInv
<1> QED
  BY <1>1, PaneInitInv, PaneStep, PTL DEF PaneSpec

\* What is written and sent, and that only a log has text.
PaneBounds == /\ written \in [Jobs -> 0..MaxLines]
              /\ pane.holds # "log" => pane.text = <<>>
              /\ \A s \in Slots : stream[s].sent \in 0..MaxLines

\* A swap keeps that.
LEMMA SwapBounds ==
  ASSUME PaneInv, PaneBounds, NEW p \in Panes, NEW replaced \in BOOLEAN, Swap(p, replaced),
         p.holds # "log" => p.text = <<>>
  PROVE  PaneBounds'
<1> DEFINE kept == IF replaced THEN [s \in Slots |-> [stream[s] EXCEPT !.pre = FALSE]] ELSE stream
           fresh == [open |-> TRUE, job |-> p.job, pre |-> TRUE, sent |-> 0]
<1>1. stream \in [Slots -> SlotStates] /\ 0 \in 0..MaxLines
  BY JobPaneAssumption DEF PaneInv, PaneTyped
<1>2. kept \in [Slots -> SlotStates] /\ \A s \in Slots : kept[s].sent = stream[s].sent
  BY <1>1 DEF SlotStates
<1>3. stream' = kept \/ \E s \in Slots : stream' = [kept EXCEPT ![s] = fresh]
  BY DEF Swap, Streams
<1>4. fresh.sent = 0
  OBVIOUS
<1> HIDE DEF kept, fresh
<1>5. \A s \in Slots : stream'[s].sent \in 0..MaxLines
  BY <1>1, <1>2, <1>3, <1>4 DEF PaneBounds
<1>6. written' = written /\ pane'.holds = p.holds /\ pane'.text = p.text
  BY DEF Swap, Panes
<1> QED
  BY <1>5, <1>6 DEF PaneBounds

\* The state stays in its ranges.
LEMMA PaneIsTyped ==
  /\ PaneInit => PaneBounds
  /\ PaneInv /\ PaneBounds /\ [PaneNext]_paneVars => PaneBounds'
  /\ PaneInv /\ PaneBounds => PaneTypeOK
<1>1. PaneInit => PaneBounds
  BY JobPaneAssumption DEF PaneInit, PaneBounds, Empty, Unused
<1>2. ASSUME PaneInv, PaneBounds, [PaneNext]_paneVars PROVE PaneBounds'
  <2>0. PaneTyped /\ StreamOfJob /\ WriterIsPanes /\ pane \in Panes /\ stream \in [Slots -> SlotStates]
        /\ MaxLines \in Nat /\ written \in [Jobs -> 0..MaxLines]
    BY <1>2, JobPaneAssumption DEF PaneInv, PaneTyped, PaneBounds
  <2>1. CASE JobStarts \/ JobEnds
    BY <1>2, <2>1 DEF JobStarts, JobEnds, PaneBounds
  <2>2. CASE JobWrites
    <3>1. PICK j \in Jobs : written[j] < MaxLines /\ written' = [written EXCEPT ![j] = @ + 1]
      BY <2>2 DEF JobWrites
    <3>2. written' \in [Jobs -> 0..MaxLines]
      BY <2>0, <3>1
    <3>3. pane' = pane /\ stream' = stream
      BY <2>2 DEF JobWrites
    <3> QED
      BY <1>2, <3>2, <3>3 DEF PaneBounds
  <2>3. CASE SwapLog
    BY <1>2, <2>0, <2>3, SwapBounds, PaneTypes DEF SwapLog
  <2>4. CASE SwapText
    <3>1. [Empty EXCEPT !.holds = "text"] \in Panes /\ [Empty EXCEPT !.holds = "text"].text = <<>>
      BY <2>0, PaneTypes DEF Panes
    <3> QED
      BY <1>2, <2>4, <3>1, SwapBounds DEF SwapText
  <2>5. CASE SwapElsewhere
    BY <1>2, <2>0, <2>5, SwapBounds DEF SwapElsewhere, PaneBounds
  <2>6. CASE ReloadPane
    <3>1. PICK p \in {Empty} \union {LogOf(j) : j \in {j \in Jobs : status[j] = "running"}}, s \in Slots :
            /\ pane' = [p EXCEPT !.watching = (p.holds = "log")]
            /\ stream' = [t \in Slots |->
                 IF t = s /\ p.holds = "log"
                   THEN [open |-> TRUE, job |-> p.job, pre |-> TRUE, sent |-> 0]
                   ELSE Unused]
      BY <2>6 DEF ReloadPane
    <3>2. p \in Panes /\ p.text = <<>>
      BY <2>0, PaneTypes
    <3>3. pane'.text = <<>>
      BY <3>1, <3>2 DEF Panes
    <3>4. 0 \in 0..MaxLines /\ Unused.sent = 0
      BY <2>0 DEF Unused
    <3>5. \A t \in Slots : stream'[t].sent \in 0..MaxLines
      BY <3>1, <3>4
    <3>6. written' = written
      BY <2>6 DEF ReloadPane
    <3> QED
      BY <1>2, <3>3, <3>5, <3>6 DEF PaneBounds
  <2>7. ASSUME NEW s \in Slots, OnAppend(s) PROVE PaneBounds'
    <3>1. /\ stream[s].sent < written[stream[s].job] /\ stream[s].job \in Jobs
          /\ stream' = [stream EXCEPT ![s].sent = @ + 1] /\ written' = written
      BY <2>0, <2>7 DEF OnAppend, StreamOfJob
    <3>2. written[stream[s].job] \in 0..MaxLines /\ stream[s].sent \in 0..MaxLines
      BY <1>2, <2>0, <3>1 DEF PaneBounds
    <3>3. stream[s].sent + 1 \in 0..MaxLines
      BY <2>0, <3>1, <3>2
    <3>4. stream'[s].sent = stream[s].sent + 1 /\ \A t \in Slots \ {s} : stream'[t] = stream[t]
      BY <2>0, <3>1 DEF SlotStates
    <3>5. \A t \in Slots : stream'[t].sent \in 0..MaxLines
      BY <1>2, <3>3, <3>4 DEF PaneBounds
    <3>6. pane'.holds = pane.holds /\ (pane.holds # "log" => pane' = pane)
      BY <2>0, <2>7 DEF OnAppend, Appended, WriterIsPanes, Panes
    <3> QED
      BY <1>2, <3>1, <3>5, <3>6 DEF PaneBounds
  <2>8. ASSUME NEW s \in Slots, OnDone(s) \/ OnStreamError(s) PROVE PaneBounds'
    <3>1. stream' = [stream EXCEPT ![s] = Unused] /\ written' = written
      BY <2>8 DEF OnDone, OnStreamError
    <3>2. \A t \in Slots : stream'[t].sent \in 0..MaxLines
      BY <1>2, <2>0, <3>1 DEF PaneBounds, Unused
    <3>3. pane'.holds = pane.holds /\ pane'.text = pane.text
      BY <2>0, <2>8 DEF OnDone, OnStreamError, Panes
    <3> QED
      BY <1>2, <3>1, <3>2, <3>3 DEF PaneBounds
  <2>9. CASE UNCHANGED paneVars
    BY <1>2, <2>9 DEF paneVars, PaneBounds
  <2> QED
    BY <1>2, <2>1, <2>2, <2>3, <2>4, <2>5, <2>6, <2>7, <2>8, <2>9 DEF PaneNext
<1>3. ASSUME PaneInv, PaneBounds PROVE PaneTypeOK
  <2>1. /\ status \in [Jobs -> {"absent", "running", "ok", "failed"}] /\ written \in [Jobs -> 0..MaxLines]
        /\ pane \in Panes /\ stream \in [Slots -> SlotStates] /\ pane.text \in Seq(Jobs \X Nat)
        /\ (pane.holds = "log" => pane.job \in Jobs)
    BY <1>3 DEF PaneInv, PaneTyped, PaneBounds, LogIsWatched, Panes
  <2>2. stream \in [Slots -> [open : BOOLEAN, job : 0..MaxJobs, pre : BOOLEAN, sent : 0..MaxLines]]
    BY <1>3, <2>1 DEF PaneBounds, SlotStates
  <2>3. ASSUME NEW i \in DOMAIN pane.text PROVE pane.text[i] \in Lines
    <3>1. CASE pane.holds = "log"
      <4>1. Len(pane.text) <= written[pane.job] /\ pane.text[i] = <<pane.job, i>>
        BY <1>3, <2>3, <3>1 DEF PaneInv, PaneShowsItsLog
      <4>2. i \in 1..Len(pane.text) /\ Len(pane.text) \in Nat
        BY <2>1, <2>3, LenProperties
      <4>3. written[pane.job] \in 0..MaxLines /\ pane.job \in Jobs
        BY <2>1, <3>1
      <4>4. i \in 1..MaxLines
        BY <4>1, <4>2, <4>3, JobPaneAssumption
      <4> QED
        BY <4>1, <4>3, <4>4 DEF Lines
    <3>2. CASE pane.holds # "log"
      <4>1. DOMAIN pane.text = {}
        BY <1>3, <3>2 DEF PaneBounds
      <4> QED
        BY <2>3, <4>1
    <3> QED
      BY <3>1, <3>2
  <2> QED
    BY <2>1, <2>2, <2>3 DEF PaneTypeOK, Panes
<1> QED
  BY <1>1, <1>2, <1>3
-----------------------------------------------------------------------------
(* The journal.  Only the checked source has a connection, which stands at *)
(* the last line shown.                                                    *)

JournalInv ==
  /\ journal \in [Sources -> Nat]
  /\ checked \in Sources
  /\ follow \in [Sources -> Nat \union {Off}]
  /\ \A x \in Sources : follow[x] # Off => x = checked
  /\ text \in Seq(Sources \X Nat)
  /\ dropped \in BOOLEAN
  /\ JournalShowsOneSource
  /\ ~dropped /\ text # <<>> => text[Len(text)][2] = follow[checked]

\* An empty text shows whatever is checked.
LEMMA NothingShown ==
  /\ <<>> \in Seq(Sources \X Nat)
  /\ text = <<>> => JournalShowsOneSource
  BY DEF JournalShowsOneSource

\* A connection starts at a line.
LEMMA StartType == ASSUME JournalInv, NEW x \in Sources PROVE Start(x) \in Nat
  BY JournalAssumption DEF JournalInv, Start

\* A page just loaded satisfies the invariant.
LEMMA JournalInitInv == JournalInit => JournalInv
<1> SUFFICES ASSUME JournalInit PROVE JournalInv
  OBVIOUS
<1>1. journal \in [Sources -> Nat] /\ checked \in Sources
  BY JournalAssumption DEF JournalInit
<1>2. \A x \in Sources : Start(x) \in Nat
  BY <1>1, JournalAssumption DEF Start
<1>3. follow \in [Sources -> Nat \union {Off}] /\ \A x \in Sources : follow[x] # Off => x = checked
  BY <1>2 DEF JournalInit
<1> QED
  BY <1>1, <1>3, NothingShown DEF JournalInit, JournalInv

\* Every step keeps the invariant.
LEMMA JournalKeeps == JournalInv /\ [JournalNext]_journalVars => JournalInv'
<1> SUFFICES ASSUME JournalInv, [JournalNext]_journalVars PROVE JournalInv'
  OBVIOUS
<1>1. CASE Log
  BY <1>1 DEF Log, JournalInv, JournalShowsOneSource
<1>2. CASE Toggle
  <2>1. PICK x \in Sources : checked' = x /\ follow' = Connected(x) /\ text' = <<>>
                             /\ dropped' = FALSE /\ journal' = journal
    BY <1>2 DEF Toggle
  <2>2. follow' \in [Sources -> Nat \union {Off}]
        /\ \A y \in Sources : follow'[y] # Off => y = x
    BY <2>1, StartType DEF Connected
  <2>3. JournalShowsOneSource'
    BY <2>1 DEF JournalShowsOneSource
  <2> QED
    BY <2>1, <2>2, <2>3, NothingShown DEF JournalInv
<1>3. ASSUME NEW x \in Sources, Follow(x) PROVE JournalInv'
  <2> DEFINE line == <<x, follow[x] + 1>>
  <2>1. x = checked /\ follow[x] \in Nat /\ follow'[x] = follow[x] + 1
        /\ text' = Append(text, line)
        /\ follow' = [follow EXCEPT ![x] = follow[x] + 1]
        /\ UNCHANGED <<journal, checked, dropped>>
    BY <1>3 DEF Follow, JournalInv, Off
  <2>2. follow' \in [Sources -> Nat \union {Off}]
        /\ \A y \in Sources : follow'[y] # Off => y = checked
    BY <2>1 DEF JournalInv
  <2>3. line \in Sources \X Nat /\ line[1] = x /\ line[2] = follow[x] + 1
    BY <2>1
  <2> HIDE DEF line
  <2>4. text \in Seq(Sources \X Nat)
    BY DEF JournalInv
  <2>5. text' \in Seq(Sources \X Nat) /\ Len(text') = Len(text) + 1
        /\ text'[Len(text) + 1] = line /\ text' # <<>>
        /\ \A i \in 1..Len(text) : text'[i] = text[i]
    BY <2>1, <2>3, <2>4
  <2>6. \A i \in DOMAIN text' : text'[i][1] = checked'
    BY <2>1, <2>3, <2>4, <2>5 DEF JournalInv, JournalShowsOneSource
  <2>7. ASSUME ~dropped', NEW i \in 1..(Len(text') - 1)
        PROVE  text'[i + 1][2] = text'[i][2] + 1
    <3>1. CASE i = Len(text)
      <4>1. text # <<>> /\ text'[i] = text[Len(text)]
        BY <3>1, <2>4, <2>5, <2>7
      <4> QED
        BY <3>1, <4>1, <2>1, <2>3, <2>5, <2>7 DEF JournalInv
    <3>2. CASE i # Len(text)
      <4>1. i \in 1..(Len(text) - 1) /\ i + 1 \in 1..Len(text)
        BY <3>2, <2>4, <2>5, <2>7
      <4> QED
        BY <4>1, <2>1, <2>4, <2>5, <2>7 DEF JournalInv, JournalShowsOneSource
    <3> QED
      BY <3>1, <3>2
  <2> QED
    BY <2>1, <2>2, <2>3, <2>5, <2>6, <2>7 DEF JournalInv, JournalShowsOneSource
<1>4. CASE Reconnect
  <2>1. follow' \in [Sources -> Nat \union {Off}]
        /\ \A y \in Sources : follow'[y] # Off => y = checked
    BY <1>4, StartType DEF Reconnect, JournalInv
  <2> QED
    BY <1>4, <2>1 DEF Reconnect, JournalInv, JournalShowsOneSource
<1>5. CASE UNCHANGED journalVars
  BY <1>5 DEF journalVars, JournalInv, JournalShowsOneSource
<1> QED
  BY <1>1, <1>2, <1>3, <1>4, <1>5 DEF JournalNext

\* journal.ts:12-22: every line shown is of the source the checkbox stands for,
\* and without gap or repetition while the connection lasts.
THEOREM OneSource == JournalSpec => []JournalShowsOneSource
<1>1. JournalInv => JournalShowsOneSource
  BY DEF JournalInv
<1> QED
  BY <1>1, JournalInitInv, JournalKeeps, PTL DEF JournalSpec

\* What is written, sent and shown.
JournalBounds == /\ journal \in [Sources -> 0..MaxJournal]
                 /\ follow \in [Sources -> Off..MaxJournal]
                 /\ \A i \in DOMAIN text : text[i] \in Sources \X (1..MaxJournal)

\* The state stays in its ranges.
LEMMA JournalIsTyped ==
  /\ JournalInit => JournalBounds
  /\ JournalInv /\ JournalBounds /\ [JournalNext]_journalVars => JournalBounds'
  /\ JournalInv /\ JournalBounds => JournalTypeOK
<1>1. ASSUME journal \in [Sources -> 0..MaxJournal], NEW x \in Sources
      PROVE  Start(x) \in Off..MaxJournal /\ Off \in Off..MaxJournal
  <2>1. journal[x] \in 0..MaxJournal /\ MaxJournal \in Nat /\ Backlog \in Nat
    BY <1>1, JournalAssumption
  <2> QED
    BY <2>1 DEF Start, Off
<1>2. JournalInit => JournalBounds
  BY <1>1 DEF JournalInit, JournalBounds
<1>3. ASSUME JournalInv, JournalBounds, [JournalNext]_journalVars PROVE JournalBounds'
  <2>0. /\ journal \in [Sources -> 0..MaxJournal] /\ follow \in [Sources -> Off..MaxJournal]
        /\ MaxJournal \in Nat /\ text \in Seq(Sources \X Nat)
    BY <1>3, JournalAssumption DEF JournalBounds, JournalInv
  <2>1. CASE Log
    <3>1. journal' \in [Sources -> 0..MaxJournal]
      BY <2>0, <2>1 DEF Log
    <3> QED
      BY <1>3, <2>1, <3>1 DEF Log, JournalBounds
  <2>2. CASE Toggle
    <3>1. PICK x \in Sources : follow' = Connected(x) /\ text' = <<>> /\ journal' = journal
      BY <2>2 DEF Toggle
    <3>2. follow' \in [Sources -> Off..MaxJournal]
      BY <1>1, <2>0, <3>1 DEF Connected
    <3> QED
      BY <2>0, <3>1, <3>2 DEF JournalBounds
  <2>3. CASE Reconnect
    <3>1. follow' \in [Sources -> Off..MaxJournal]
      BY <1>1, <1>3, <2>0, <2>3 DEF Reconnect, JournalInv
    <3> QED
      BY <1>3, <2>3, <3>1 DEF Reconnect, JournalBounds
  <2>4. ASSUME NEW x \in Sources, Follow(x) PROVE JournalBounds'
    <3>1. follow[x] # Off /\ follow[x] < journal[x] /\ follow' = [follow EXCEPT ![x] = follow[x] + 1]
          /\ journal' = journal
      BY <2>4 DEF Follow
    <3>2. journal[x] \in 0..MaxJournal /\ follow[x] \in Off..MaxJournal
      BY <2>0
    <3>3. follow[x] + 1 \in 1..MaxJournal /\ follow[x] + 1 \in Off..MaxJournal
      BY <2>0, <3>1, <3>2 DEF Off
    <3>4. follow' \in [Sources -> Off..MaxJournal] /\ follow'[x] = follow[x] + 1
      BY <2>0, <3>1, <3>3
    <3> DEFINE line == <<x, follow'[x]>>
    <3>5. text' = Append(text, line) /\ line \in Sources \X (1..MaxJournal) /\ line \in Sources \X Nat
      BY <2>0, <2>4, <3>3, <3>4 DEF Follow
    <3> HIDE DEF line
    <3>6. /\ DOMAIN text' = 1..(Len(text) + 1) /\ text'[Len(text) + 1] = line
          /\ \A i \in 1..Len(text) : text'[i] = text[i]
          /\ DOMAIN text = 1..Len(text) /\ Len(text) \in Nat
      BY <2>0, <3>5, AppendProperties, LenProperties
    <3>7. \A i \in DOMAIN text' : text'[i] \in Sources \X (1..MaxJournal)
      <4> SUFFICES ASSUME NEW i \in DOMAIN text' PROVE text'[i] \in Sources \X (1..MaxJournal)
        OBVIOUS
      <4>1. CASE i = Len(text) + 1
        BY <3>5, <3>6, <4>1, Zenon
      <4>2. CASE i # Len(text) + 1
        <5>1. i \in 1..Len(text)
          BY <3>6, <4>2
        <5> QED
          BY <1>3, <3>6, <5>1 DEF JournalBounds
      <4> QED
        BY <4>1, <4>2
    <3> QED
      BY <2>0, <3>1, <3>4, <3>7 DEF JournalBounds
  <2>5. CASE UNCHANGED journalVars
    BY <1>3, <2>5 DEF journalVars, JournalBounds
  <2> QED
    BY <1>3, <2>1, <2>2, <2>3, <2>4, <2>5 DEF JournalNext
<1>4. JournalInv /\ JournalBounds => JournalTypeOK
  BY DEF JournalInv, JournalBounds, JournalTypeOK
<1> QED
  BY <1>2, <1>3, <1>4
-----------------------------------------------------------------------------
(***************************************************************************)
(* OnlyConfirmed, for any set of forms.  That no flag is left behind is    *)
(* not enough: the form that the confirmation lets through is the pending  *)
(* one, which outlives a cancelled dialog, so one needs as well that it is *)
(* the one whose message is shown.                                         *)
(***************************************************************************)
NoFlagLeft == confirmed = {}
PendingIsShown == pendingConfirm \in {NoForm, message}
ConfirmInv == NoFlagLeft /\ PendingIsShown

\* A page just loaded satisfies the invariant.
LEMMA ConfirmInitInv == DialogInit => ConfirmInv
  BY DEF DialogInit, ConfirmInv, NoFlagLeft, PendingIsShown

\* Every step keeps the invariant and lets through only what was confirmed.
LEMMA ConfirmStep ==
  ASSUME ConfirmInv, [DialogNext]_dialogVars
  PROVE  /\ ConfirmInv'
         /\ dialogVars' # dialogVars /\ passed' # NoForm => OnTop("confirm") /\ message = passed'
<1> USE DEF ConfirmInv, NoFlagLeft, PendingIsShown
<1>1. CASE LoadPage
  BY <1>1 DEF LoadPage
<1>2. CASE OpenDialog \/ CloseTop \/ Fetch \/ Land \/ Destroy \/ Destroyed
  <2>1. passed' = NoForm /\ UNCHANGED <<confirmed, pendingConfirm, message>>
    BY <1>2 DEF OpenDialog, CloseTop, Fetch, Land, Destroy, Destroyed, Quiet
  <2> QED
    BY <2>1
<1>3. ASSUME NEW f \in GatedForms, Submit(f)
      PROVE  ConfirmInv' /\ passed' = NoForm
  BY <1>3 DEF Submit, Listener, Held
<1>4. CASE ConfirmOk
  <2>1. OnTop("confirm") /\ passed' = pendingConfirm /\ pendingConfirm' = NoForm
    BY <1>4 DEF ConfirmOk, Listener
  <2>2. confirmed' = {}
    BY <1>4 DEF ConfirmOk, Listener, FlagUsed
  <2> QED
    BY <2>1, <2>2
<1>5. CASE UNCHANGED dialogVars
  BY <1>5 DEF dialogVars
<1> QED
  BY <1>1, <1>2, <1>3, <1>4, <1>5 DEF DialogNext

\* dialogs.ts:45-82: a form marked data-confirm goes through only from the
\* confirmation, on top and showing its own message.
THEOREM Confirmed == DialogSpec => OnlyConfirmed
<1>1. ConfirmInv /\ [DialogNext]_dialogVars => ConfirmInv'
  BY ConfirmStep
<1>2. ConfirmInv /\ [DialogNext]_dialogVars
        => [passed' # NoForm => OnTop("confirm") /\ message = passed']_dialogVars
  BY ConfirmStep
<1> QED
  BY <1>1, <1>2, ConfirmInitInv, PTL DEF DialogSpec, OnlyConfirmed
-----------------------------------------------------------------------------
(***************************************************************************)
(* DialogsShowOnce, for dialogs on any page.                               *)
(***************************************************************************)
DialogNames == {"confirm", "lazy", "row", "destroy"}

\* No element twice: DialogsShowOnce, of any stack.
Once(stack) == \A i, j \in DOMAIN stack : stack[i] = stack[j] => i = j

\* An element more, or the last one less.
LEMMA OnceAppend ==
  ASSUME NEW S, NEW stack \in Seq(S), Once(stack), NEW d \in S, \A i \in DOMAIN stack : stack[i] # d
  PROVE  Append(stack, d) \in Seq(S) /\ Once(Append(stack, d))
<1>1. /\ Append(stack, d) \in Seq(S) /\ Len(Append(stack, d)) = Len(stack) + 1 /\ Len(stack) \in Nat
      /\ \A i \in 1..Len(stack) : Append(stack, d)[i] = stack[i]
      /\ Append(stack, d)[Len(stack) + 1] = d
  BY AppendProperties, LenProperties
<1>2. PICK more : more = Append(stack, d)
  OBVIOUS
<1>3. DOMAIN more = 1..(Len(stack) + 1) /\ DOMAIN stack = 1..Len(stack)
  BY <1>1, <1>2, LenProperties
<1>4. Once(more)
  <2> SUFFICES ASSUME NEW i \in DOMAIN more, NEW j \in DOMAIN more, more[i] = more[j] PROVE i = j
    BY DEF Once
  <2> QED
    BY <1>1, <1>2, <1>3 DEF Once
<1> QED
  BY <1>1, <1>2, <1>4

\* The stack without the element at k.
LEMMA OnceRemoved ==
  ASSUME NEW S, NEW stack \in Seq(S), Once(stack), NEW k \in 1..Len(stack)
  PROVE  RemoveAt(stack, k) \in Seq(S) /\ Once(RemoveAt(stack, k))
<1>1. PICK n \in Nat : n = Len(stack)
  BY LenProperties
<1>2. PICK a, b : a = SubSeq(stack, 1, k - 1) /\ b = SubSeq(stack, k + 1, n)
  OBVIOUS
<1>3. \A i \in 1..n : stack[i] \in S
  BY <1>1, ElementOfSeq
<1>4. a \in Seq(S) /\ Len(a) = k - 1 /\ \A i \in 1..(k - 1) : a[i] = stack[i]
  BY <1>1, <1>2, <1>3, SubSeqProperties
<1>5. b \in Seq(S) /\ Len(b) = n - k /\ \A i \in 1..(n - k) : b[i] = stack[k + i]
  <2>1. \A i \in (k + 1)..n : stack[i] \in S
    BY <1>1, <1>3
  <2>2. b \in Seq(S) /\ Len(b) = (IF k + 1 <= n THEN n - (k + 1) + 1 ELSE 0) /\ \A i \in 1..(n - (k + 1) + 1) : b[i] = stack[(k + 1) + i - 1]
    <3>1. PICK m \in Int : m = k + 1
      BY <1>1
    <3>2. \A i \in m..n : stack[i] \in S
      BY <2>1, <3>1
    <3>3. b = SubSeq(stack, m, n)
      BY <1>2, <3>1
    <3>4. b \in Seq(S) /\ Len(b) = (IF m <= n THEN n - m + 1 ELSE 0) /\ \A i \in 1..(n - m + 1) : b[i] = stack[m + i - 1]
      BY <1>1, <3>2, <3>3, SubSeqProperties
    <3> QED
      BY <3>1, <3>4
  <2>3. (IF k + 1 <= n THEN n - (k + 1) + 1 ELSE 0) = n - k /\ n - (k + 1) + 1 = n - k
    BY <1>1
  <2>4. \A i \in 1..(n - k) : (k + 1) + i - 1 = k + i
    BY <1>1
  <2> QED
    BY <2>2, <2>3, <2>4
<1>6. PICK less : less = a \o b
  OBVIOUS
<1>7. /\ less \in Seq(S) /\ Len(less) = (k - 1) + (n - k)
      /\ \A i \in 1..Len(less) : less[i] = IF i <= k - 1 THEN a[i] ELSE b[i - (k - 1)]
  <2>1. /\ a \o b \in Seq(S) /\ Len(a \o b) = Len(a) + Len(b)
        /\ \A i \in 1..(Len(a) + Len(b)) : (a \o b)[i] = IF i <= Len(a) THEN a[i] ELSE b[i - Len(a)]
    BY <1>4, <1>5, ConcatProperties
  <2> QED
    BY <1>1, <1>4, <1>5, <1>6, <2>1
<1>8. DOMAIN less = 1..(n - 1) /\ DOMAIN stack = 1..n
  BY <1>1, <1>7, LenProperties
<1>9. \A i \in 1..(n - 1) : less[i] = IF i < k THEN stack[i] ELSE stack[i + 1]
  <2> SUFFICES ASSUME NEW i \in 1..(n - 1) PROVE less[i] = IF i < k THEN stack[i] ELSE stack[i + 1]
    OBVIOUS
  <2>1. CASE i < k
    BY <1>1, <1>4, <1>7, <2>1, SMTT(30)
  <2>2. CASE ~ (i < k)
    <3>1. i - (k - 1) \in 1..(n - k) /\ k + (i - (k - 1)) = i + 1
      BY <1>1, <2>2
    <3>2. less[i] = b[i - (k - 1)]
      BY <1>1, <1>7, <2>2
    <3> QED
      BY <1>5, <2>2, <3>1, <3>2
  <2> QED
    BY <2>1, <2>2
<1>10. Once(less)
  <2> SUFFICES ASSUME NEW i \in DOMAIN less, NEW j \in DOMAIN less, less[i] = less[j] PROVE i = j
    BY DEF Once
  <2>1. i \in 1..(n - 1) /\ j \in 1..(n - 1)
    BY <1>8
  <2>2. PICK p \in 1..n, q \in 1..n : p = (IF i < k THEN i ELSE i + 1) /\ q = (IF j < k THEN j ELSE j + 1)
    BY <1>1, <2>1
  <2>3. less[i] = stack[p] /\ less[j] = stack[q]
    BY <1>9, <2>1, <2>2
  <2>4. p = q
    BY <1>8, <2>3 DEF Once
  <2> QED
    BY <1>1, <2>1, <2>2, <2>4
<1>11. RemoveAt(stack, k) = less
  BY <1>1, <1>2, <1>6 DEF RemoveAt
<1> QED
  BY <1>7, <1>10, <1>11

\* A dialog taken out of the stack.
LEMMA OnceWithout ==
  ASSUME NEW S, NEW stack \in Seq(S), Once(stack), NEW d
  PROVE  RemoveFirst(stack, d) \in Seq(S) /\ Once(RemoveFirst(stack, d))
<1>1. CASE \E i \in 1..Len(stack) : stack[i] = d
  <2> DEFINE I == {i \in 1..Len(stack) : stack[i] = d}
             k == CHOOSE x \in I : \A y \in I : x <= y
  <2>1. I \subseteq Nat /\ I # {}
    BY <1>1
  <2>2. \E x \in I : \A y \in I : x <= y
    BY <2>1, Smallest, Zenon
  <2>3. k \in I
    BY <2>2
  <2>4. RemoveFirst(stack, d) = RemoveAt(stack, k)
    BY <1>1, <2>1 DEF RemoveFirst, SelectInSeq, Min
  <2> QED
    BY <2>3, <2>4, OnceRemoved
<1>2. CASE ~ \E i \in 1..Len(stack) : stack[i] = d
  BY <1>2 DEF RemoveFirst
<1> QED
  BY <1>1, <1>2

DialogInv == DialogTypeOK /\ DialogsShowOnce

\* A page just loaded has no dialog open.
LEMMA DialogInitInv == DialogInit => DialogInv
<1>1. <<>> \in Seq(DialogNames) /\ DOMAIN <<>> = {}
  BY EmptySeq
<1> QED
  BY <1>1 DEF DialogInit, DialogInv, DialogTypeOK, DialogsShowOnce, DialogNames

\* Every step keeps the invariant.
LEMMA DialogKeeps == DialogInv /\ [DialogNext]_dialogVars => DialogInv'
<1> SUFFICES ASSUME DialogInv, [DialogNext]_dialogVars PROVE DialogInv'
  OBVIOUS
<1>1. modals \in Seq(DialogNames) /\ Once(modals) /\ <<>> \in Seq(DialogNames) /\ Once(<<>>)
  BY EmptySeq DEF DialogInv, DialogTypeOK, DialogsShowOnce, DialogNames, Once
<1>2. \A d \in DialogNames : <<d>> \in Seq(DialogNames) /\ Once(<<d>>)
  <2> SUFFICES ASSUME NEW d \in DialogNames PROVE <<d>> \in Seq(DialogNames) /\ Once(<<d>>)
    OBVIOUS
  <2>1. <<d>> \in Seq(DialogNames)
    OBVIOUS
  <2>2. \A i \in DOMAIN <<d>> : i = 1
    OBVIOUS
  <2>3. Once(<<d>>)
    BY <2>2, Zenon DEF Once
  <2> QED
    BY <2>1, <2>3
<1>3. \A d : Without(d) \in Seq(DialogNames) /\ Once(Without(d))
  BY <1>1, OnceWithout DEF Without
<1>4. modals' \in Seq(DialogNames) /\ Once(modals')
  <2>1. CASE OpenDialog
    <3>1. PICK d \in OwnDialog : modals' = <<d>>
      BY <2>1 DEF OpenDialog
    <3>2. d \in DialogNames
      BY DEF OwnDialog, DialogNames, DialogInv, DialogTypeOK
    <3> QED
      BY <1>2, <3>1, <3>2
  <2>2. CASE CloseTop
    <3>1. PICK n \in Nat : n = Len(modals) /\ n # 0
      BY <1>1, <2>2, EmptySeq, LenProperties DEF CloseTop
    <3>2. PICK less : less = SubSeq(modals, 1, n - 1)
      OBVIOUS
    <3>3. \A i \in 1..n : modals[i] \in DialogNames
      BY <1>1, <3>1, ElementOfSeq
    <3>4. less \in Seq(DialogNames) /\ Len(less) = n - 1 /\ \A i \in 1..(n - 1) : less[i] = modals[i]
      BY <3>1, <3>2, <3>3, SubSeqProperties
    <3>5. DOMAIN less = 1..(n - 1) /\ DOMAIN modals = 1..n
      BY <1>1, <3>1, <3>4, LenProperties
    <3>6. Once(less)
      BY <1>1, <3>4, <3>5 DEF Once
    <3>7. modals' = less
      BY <2>2, <3>1, <3>2 DEF CloseTop, Front
    <3> QED
      BY <3>4, <3>6, <3>7
  <2>3. CASE ConfirmOk
    BY <1>3, <2>3 DEF ConfirmOk, Listener
  <2>4. CASE LoadPage
    BY <1>1, <2>4 DEF LoadPage
  <2>5. CASE Land
    <3>1. modals' = WithShown("lazy")
      BY <2>5 DEF Land
    <3>2. CASE IsOpen("lazy")
      BY <1>1, <3>1, <3>2 DEF WithShown
    <3>3. CASE ~ IsOpen("lazy")
      <4>1. \A i \in DOMAIN modals : modals[i] # "lazy"
        BY <1>1, <3>3, LenProperties DEF IsOpen, Contains
      <4>2. Append(modals, "lazy") \in Seq(DialogNames) /\ Once(Append(modals, "lazy"))
        BY <1>1, <4>1, OnceAppend DEF DialogNames
      <4> QED
        BY <3>1, <3>3, <4>2 DEF WithShown
    <3> QED
      BY <3>2, <3>3
  <2>6. CASE Fetch \/ Destroy \/ UNCHANGED dialogVars
    BY <1>1, <2>6 DEF Fetch, Destroy, dialogVars
  <2>7. CASE Destroyed
    BY <1>1, <1>3, <2>7 DEF Destroyed
  <2>8. CASE \E f \in GatedForms : Submit(f)
    <3>1. modals' \in {modals, Append(<<>>, "confirm")}
      BY <2>8 DEF Submit, Listener
    <3>2. Append(<<>>, "confirm") \in Seq(DialogNames) /\ Once(Append(<<>>, "confirm"))
      <4>1. \A i \in DOMAIN <<>> : <<>>[i] # "confirm"
        OBVIOUS
      <4> QED
        BY <1>1, <4>1, OnceAppend DEF DialogNames
    <3> QED
      BY <1>1, <3>1, <3>2
  <2> QED
    BY <2>1, <2>2, <2>3, <2>4, <2>5, <2>6, <2>7, <2>8 DEF DialogNext
<1>5. DialogTypeOK'
  <2>1. CASE LoadPage
    BY <1>4, <2>1 DEF LoadPage, DialogTypeOK, DialogNames
  <2>2. CASE OpenDialog \/ CloseTop \/ Fetch \/ Land \/ Destroy \/ Destroyed
    BY <1>4, <2>2 DEF OpenDialog, CloseTop, Fetch, Land, Destroy, Destroyed, Quiet, DialogInv, DialogTypeOK, DialogNames
  <2>3. ASSUME NEW f \in GatedForms, Submit(f) PROVE DialogTypeOK'
    BY <1>4, <2>3 DEF Submit, Listener, Held, FlagUsed, DialogInv, DialogTypeOK, DialogNames
  <2>4. CASE ConfirmOk
    BY <1>4, <2>4 DEF ConfirmOk, Listener, Held, FlagUsed, DialogInv, DialogTypeOK, DialogNames
  <2>5. CASE UNCHANGED dialogVars
    BY <2>5 DEF dialogVars, DialogInv, DialogTypeOK
  <2> QED
    BY <2>1, <2>2, <2>3, <2>4, <2>5 DEF DialogNext
<1> QED
  BY <1>4, <1>5 DEF DialogInv, DialogsShowOnce, Once

\* dialogs.ts:33-36: no dialog is shown while it is showing, whatever fragments
\* and answers land on whatever is open.
THEOREM ShownOnce == DialogSpec => []DialogsShowOnce
<1>1. DialogInv => DialogsShowOnce
  BY DEF DialogInv
<1> QED
  BY <1>1, DialogInitInv, DialogKeeps, PTL DEF DialogSpec
-----------------------------------------------------------------------------
(***************************************************************************)
(* SaveChangesOnlyWhatIsShown, for any names, values and meta data.  The   *)
(* invariant says what the open dialog holds, field by field: which row it *)
(* is pointed at, and that a field the user has not entered shows what the *)
(* page rendered for that row and nothing older.                           *)
(***************************************************************************)
\* A dialog that adds points at the table, one that edits at its row.
PointsAtTitle ==
  /\ entry.title = Adding => entry.action = Adding /\ ~entry.disabled /\ entry.required
  /\ entry.title = "edit" => /\ entry.action \in RowNames /\ entry.name = entry.action
                             /\ entry.disabled
                             /\ entry.required <=> kind = "flakes"
                             /\ rendered[entry.action] # NoRow

\* Nothing is left over: a field is what was typed, or what was rendered.
ShowsRow ==
  /\ entry.value = IF typed.value # NotTyped THEN typed.value
                   ELSE IF entry.title = "edit" /\ kind = "flakes"
                          THEN rendered[entry.action].value ELSE Blank
  /\ entry.meta = IF typed.meta # NotTyped THEN typed.meta
                  ELSE IF entry.title = "edit" THEN rendered[entry.action].meta ELSE DefaultMeta

RowInv == RowTypeOK /\ (open => PointsAtTitle /\ ShowsRow)
-----------------------------------------------------------------------------
\* The markup is a dialog that adds, as reset.
LEMMA MarkupType ==
  /\ Markup \in [title : {Adding, "edit"}, action : RowNames \union {Adding},
                 name : RowNames \union {Blank}, disabled : BOOLEAN,
                 value : RowValues \union {Blank}, required : BOOLEAN, meta : Metas]
  /\ NothingTyped \in [value : RowValues \union {NotTyped}, meta : Metas \union {NotTyped}]
  BY RowDialogAssumption DEF Markup, NothingTyped, Adding

\* A page just loaded satisfies the invariant.
LEMMA RowInitInv == RowInit => RowInv
  BY MarkupType DEF RowInit, RowInv, RowTypeOK, Rows

\* A dialog that is opened on row n shows it.
LEMMA EditShows ==
  ASSUME RowInv, NEW n \in RowNames, Edit(n)
  PROVE  RowInv'
<1> USE DEF RowInv, RowTypeOK
<1>1. rendered[n] # NoRow /\ open' /\ entry' = EditEntry(n) /\ typed' = NothingTyped
      /\ UNCHANGED <<kind, rows, rendered>>
  BY DEF Edit, Opened
<1>2. rendered[n] \in [value : RowValues, meta : Metas]
  BY <1>1 DEF Rows
<1>3. entry' = [title |-> "edit", action |-> n, name |-> n, disabled |-> TRUE,
                value |-> IF kind = "flakes" THEN rendered[n].value ELSE Blank,
                required |-> kind = "flakes", meta |-> rendered[n].meta]
  BY <1>1 DEF EditEntry, Markup
<1>4. entry' \in [title : {Adding, "edit"}, action : RowNames \union {Adding},
                  name : RowNames \union {Blank}, disabled : BOOLEAN,
                  value : RowValues \union {Blank}, required : BOOLEAN, meta : Metas]
  BY <1>2, <1>3
<1>5. PointsAtTitle'
  <2>1. /\ entry'.title = "edit" /\ entry'.action = n /\ entry'.name = n
        /\ entry'.disabled = TRUE
    BY <1>3
  <2>2. entry'.required = (kind = "flakes")
    BY <1>3
  <2>3. rendered'[n] # NoRow /\ kind' = kind
    BY <1>1
  <2> QED
    BY <2>1, <2>2, <2>3 DEF PointsAtTitle, Adding
<1>6. ShowsRow'
  BY <1>1, <1>3 DEF ShowsRow, NothingTyped
<1>7. RowTypeOK'
  BY <1>1, <1>4, MarkupType
<1> QED
  BY <1>5, <1>6, <1>7

\* Every step keeps the invariant.
LEMMA RowStep == RowInv /\ [RowNext]_rowVars => RowInv'
<1> SUFFICES ASSUME RowInv, [RowNext]_rowVars PROVE RowInv'
  OBVIOUS
<1> USE DEF RowInv, RowTypeOK
<1>1. CASE Add
  <2>1. open' /\ entry' = Markup /\ typed' = NothingTyped /\ UNCHANGED <<kind, rows, rendered>>
    BY <1>1 DEF Add, Opened, AddEntry
  <2>2. PointsAtTitle' /\ ShowsRow'
    BY <2>1 DEF PointsAtTitle, ShowsRow, Markup, NothingTyped, Adding
  <2> QED
    BY <2>1, <2>2, MarkupType
<1>2. CASE Cancel
  BY <1>2, MarkupType DEF Cancel
<1>3. CASE SubmitRow
  <2>1. open' = FALSE /\ entry' = Markup /\ typed' = NothingTyped /\ rendered' = rows'
        /\ UNCHANGED kind
    BY <1>3 DEF SubmitRow
  <2>2. rows' \in [RowNames -> Rows]
    <3>1. CASE entry.action = Adding
      <4>0. entry.title = Adding
        BY <1>3, <3>1, RowDialogAssumption DEF SubmitRow, PointsAtTitle
      <4>1. entry.name \in RowNames /\ entry.value \in RowValues
        BY <1>3, <4>0 DEF SubmitRow, PointsAtTitle
      <4> QED
        BY <1>3, <3>1, <4>1 DEF SubmitRow, Rows
    <3>2. CASE entry.action # Adding
      <4>1. entry.action \in RowNames
        BY <3>2
      <4>2. rows[entry.action] # NoRow => Saved(entry.action) \in Rows
        BY <4>1 DEF Saved, Rows
      <4> QED
        BY <1>3, <3>2, <4>1, <4>2 DEF SubmitRow
    <3> QED
      BY <3>1, <3>2
  <2> QED
    BY <2>1, <2>2, MarkupType
<1>4. CASE Elsewhere
  <2>1. PICK n \in RowNames, r \in Rows : rows' = [rows EXCEPT ![n] = r]
    BY <1>4 DEF Elsewhere
  <2>2. rows' \in [RowNames -> Rows]
    BY <2>1
  <2>3. UNCHANGED <<kind, rendered, open, entry, typed>>
    BY <1>4 DEF Elsewhere
  <2> QED
    BY <2>2, <2>3 DEF PointsAtTitle, ShowsRow
<1>5. ASSUME NEW n \in RowNames, Edit(n) PROVE RowInv'
  BY <1>5, EditShows
<1>6. ASSUME NEW n \in RowNames, TypeName(n) PROVE RowInv'
  <2>1. ~entry.disabled /\ open /\ entry' = [entry EXCEPT !.name = n] /\ UNCHANGED typed
        /\ UNCHANGED <<kind, rows, rendered, open>>
    BY <1>6 DEF TypeName, Typing
  <2>2. PointsAtTitle' /\ ShowsRow'
    BY <2>1 DEF PointsAtTitle, ShowsRow
  <2> QED
    BY <2>1, <2>2
<1>7. ASSUME NEW v \in RowValues, TypeValue(v) PROVE RowInv'
  <2>1. open /\ entry' = [entry EXCEPT !.value = v] /\ typed' = [typed EXCEPT !.value = v]
        /\ UNCHANGED <<kind, rows, rendered, open>>
    BY <1>7 DEF TypeValue, Typing
  <2>2. PointsAtTitle' /\ ShowsRow'
    BY <2>1, RowDialogAssumption DEF PointsAtTitle, ShowsRow
  <2> QED
    BY <2>1, <2>2
<1>8. ASSUME NEW m \in Metas, TypeMeta(m) PROVE RowInv'
  <2>1. open /\ entry' = [entry EXCEPT !.meta = m] /\ typed' = [typed EXCEPT !.meta = m]
        /\ UNCHANGED <<kind, rows, rendered, open>>
    BY <1>8 DEF TypeMeta, Typing
  <2>2. PointsAtTitle' /\ ShowsRow'
    BY <2>1, RowDialogAssumption DEF PointsAtTitle, ShowsRow
  <2> QED
    BY <2>1, <2>2
<1>9. CASE UNCHANGED rowVars
  BY <1>9 DEF rowVars, PointsAtTitle, ShowsRow
<1> QED
  BY <1>1, <1>2, <1>3, <1>4, <1>5, <1>6, <1>7, <1>8, <1>9 DEF RowNext

\* A submit changes the row that is shown, to what is intended for it.
LEMMA SubmitIsAsShown ==
  ASSUME RowInv, SubmitRow, NEW n \in RowNames, rows'[n] # rows[n]
  PROVE  /\ n = entry.name
         /\ entry.title = Adding => rows[n] = NoRow
         /\ rows'[n] = Intended(n)
<1> USE DEF RowInv, RowTypeOK
<1>1. open /\ PointsAtTitle /\ ShowsRow /\ (entry.required => entry.value # Blank)
  BY DEF SubmitRow
<1>2. CASE entry.title = Adding
  <2>1. entry.action = Adding /\ entry.value # Blank
    BY <1>1, <1>2 DEF PointsAtTitle
  <2>2. n = entry.name /\ rows[n] = NoRow
        /\ rows'[n] = [value |-> entry.value, meta |-> entry.meta]
    BY <2>1 DEF SubmitRow
  <2>3. typed.value # NotTyped /\ entry.value = typed.value
    BY <1>1, <1>2, <2>1 DEF ShowsRow, Adding
  <2>4. entry.meta = IF typed.meta # NotTyped THEN typed.meta ELSE DefaultMeta
    BY <1>1, <1>2 DEF ShowsRow, Adding
  <2> QED
    BY <1>2, <2>2, <2>3, <2>4 DEF Intended
<1>3. CASE entry.title = "edit"
  <2>1. entry.action \in RowNames /\ entry.name = entry.action /\ entry.action # Adding
    BY <1>1, <1>3, RowDialogAssumption DEF PointsAtTitle
  <2>2. n = entry.action /\ rows'[n] = Saved(n)
    BY <2>1 DEF SubmitRow
  <2>3. Saved(n).value = Intended(n).value
    BY <1>1, <1>3, <2>1, <2>2, RowDialogAssumption DEF Saved, Intended, ShowsRow, PointsAtTitle
  <2>4. Saved(n).meta = Intended(n).meta
    BY <1>1, <1>3, <2>1, <2>2 DEF Saved, Intended, ShowsRow, Adding
  <2>5. Saved(n) = Intended(n)
    BY <2>3, <2>4 DEF Saved, Intended
  <2> QED
    BY <1>3, <2>1, <2>2, <2>5 DEF Adding
<1> QED
  BY <1>2, <1>3

\* dialogs.ts:85-192: a save changes the row the dialog names and no other, to
\* what was entered for it since the dialog was opened.
THEOREM SavesWhatIsShown == RowSpec => SaveChangesOnlyWhatIsShown
<1>1. RowInv /\ [RowNext]_rowVars
        => [SubmitRow =>
              \A n \in RowNames :
                rows'[n] # rows[n] => /\ n = entry.name
                                      /\ entry.title = Adding => rows[n] = NoRow
                                      /\ rows'[n] = Intended(n)]_rowVars
  BY SubmitIsAsShown
<1> QED
  BY <1>1, RowInitInv, RowStep, PTL DEF RowSpec, SaveChangesOnlyWhatIsShown
-----------------------------------------------------------------------------
(* The ID of a new workload.  One entered by hand is not derived.          *)

HandInv == own # {} /\ own # {<<>>} => own = {name} /\ auto = {}

\* Every step keeps the invariant.
LEMMA HandStep == HandInv /\ [NewNext]_newVars => HandInv'
<1> SUFFICES ASSUME HandInv, [NewNext]_newVars PROVE HandInv'
  OBVIOUS
<1>1. CASE InputDisplay
  <2>1. \/ own' = {}
        \/ UNCHANGED <<name, auto, own>>
    BY <1>1 DEF InputDisplay
  <2> QED
    BY <2>1 DEF HandInv
<1>2. CASE InputName
  BY <1>2 DEF InputName, AutoAfterEdit, HandInv
<1>3. CASE ChangeType
  <2>1. own' = own /\ (UNCHANGED <<name, auto>> \/ auto = {name})
    BY <1>3 DEF ChangeType
  <2> QED
    BY <2>1 DEF HandInv
<1>4. CASE Refused
  BY <1>4 DEF Refused, HandInv
<1>5. CASE UNCHANGED newVars
  BY <1>5 DEF newVars, HandInv
<1> QED
  BY <1>1, <1>2, <1>3, <1>4, <1>5 DEF NewNext

\* new-workload.ts:1-4, 38-39: nothing replaces an ID entered by hand.
THEOREM HandTyped == NewSpec => []HandTypedIdKept
<1>1. NewInit => HandInv
  BY DEF NewInit, HandInv
<1>2. HandInv => HandTypedIdKept
  BY DEF HandInv, HandTypedIdKept
<1> QED
  BY <1>1, <1>2, HandStep, PTL DEF NewSpec
-----------------------------------------------------------------------------
(***************************************************************************)
(* DerivedIdFits, for any types and texts.  A slug is a prefix of what the *)
(* dashes make of the text, and a prefix of it without an end in a dash is *)
(* its own slug: a slug cut again is the slug of the smaller cap.          *)
(***************************************************************************)
IdChars == {"a", "-"}

\* The equation Dashed defines a function by.
DashNext(f, typing, i) ==
  IF i = 0 THEN <<>>
  ELSE IF typing[i] = "a" THEN Append(f[i - 1], "a")
  ELSE IF f[i - 1] = <<>> \/ Last(f[i - 1]) = "-" THEN f[i - 1]
  ELSE Append(f[i - 1], "-")
Dashing(f, typing, n) == [i \in 0..n |-> DashNext(f, typing, i)]
IsDashed(f, typing, n) == f = Dashing(f, typing, n)

\* One entry of the equation.
LEMMA DashedAt ==
  ASSUME NEW typing, NEW n, NEW f, IsDashed(f, typing, n), NEW i \in 0..n
  PROVE  f[i] = DashNext(f, typing, i)
<1> DEFINE h == Dashing(f, typing, n)
<1>1. h[i] = DashNext(f, typing, i)
  BY DEF Dashing
<1>2. f = h
  BY DEF IsDashed
<1> QED
  BY <1>1, <1>2, Zenon

\* It has a solution, so that is what Dashed computes with.
LEMMA DashedExists ==
  ASSUME NEW typing
  PROVE  \A n \in Nat : \E f : IsDashed(f, typing, n)
<1> DEFINE Ns == {n \in Nat : \E f : IsDashed(f, typing, n)}
<1>1. 0 \in Ns
  <2>1. IsDashed([i \in 0..0 |-> <<>>], typing, 0)
    BY DEF IsDashed, Dashing, DashNext
  <2> QED
    BY <2>1
<1>2. ASSUME NEW n \in Nat, n \in Ns PROVE n + 1 \in Ns
  <2>1. PICK f : IsDashed(f, typing, n)
    BY <1>2
  <2> DEFINE g == Dashing(f, typing, n + 1)
  <2>2. \A i \in 0..n : g[i] = f[i]
    <3>1. \A i \in 0..(n + 1) : g[i] = DashNext(f, typing, i)
      BY DEF Dashing
    <3>2. \A i \in 0..n : f[i] = DashNext(f, typing, i)
      BY <2>1, DashedAt
    <3> QED
      BY <3>1, <3>2
  <2>3. \A i \in 0..(n + 1) : i # 0 => i - 1 \in 0..n
    OBVIOUS
  <2> HIDE DEF g
  <2>4. Dashing(g, typing, n + 1) = Dashing(f, typing, n + 1)
    <3>1. \A i \in 0..(n + 1) : DashNext(g, typing, i) = DashNext(f, typing, i)
      BY <2>2, <2>3 DEF DashNext
    <3> QED
      BY <3>1 DEF Dashing
  <2>5. IsDashed(g, typing, n + 1)
    BY <2>4 DEF IsDashed, g
  <2> QED
    BY <2>5
<1> HIDE DEF Ns
<1>3. \A n \in Nat : n \in Ns
  BY <1>1, <1>2, InductionOn
<1> QED
  BY <1>3 DEF Ns

\* Dashed takes the last entry of such a solution.
LEMMA DashedIs ==
  ASSUME NEW S, NEW typing \in Seq(S)
  PROVE  \E f : IsDashed(f, typing, Len(typing)) /\ Dashed(typing) = f[Len(typing)]
<1> DEFINE f == CHOOSE g : g = Dashing(g, typing, Len(typing))
<1>1. \E g : g = Dashing(g, typing, Len(typing))
  BY DashedExists, LenProperties DEF IsDashed
<1>2. IsDashed(f, typing, Len(typing))
  BY <1>1, Zenon DEF IsDashed
<1>3. Dashed(typing) = f[Len(typing)]
  BY DEF Dashed, Dashing, DashNext
<1> QED
  BY <1>2, <1>3

\* No dash at the start, and none after another.
Clean(id) == /\ id \in Seq(IdChars)
             /\ \A i \in 1..Len(id) : id[i] = "-" => i # 1 /\ id[i - 1] = "a"

\* An ID grows by a letter, or by a dash after a letter.
LEMMA CleanAppend ==
  ASSUME NEW id, Clean(id)
  PROVE  /\ Clean(Append(id, "a"))
         /\ id # <<>> /\ Last(id) # "-" => Clean(Append(id, "-"))
         /\ Len(id) \in Nat /\ Len(Append(id, "a")) = Len(id) + 1 /\ Len(Append(id, "-")) = Len(id) + 1
<1>1. id \in Seq(IdChars) /\ Len(id) \in Nat /\ (id # <<>> => Len(id) # 0) /\ \A i \in 1..Len(id) : id[i] \in IdChars
  BY EmptySeq, LenProperties, ElementOfSeq DEF Clean
<1>2. ASSUME NEW c \in IdChars
      PROVE  /\ Append(id, c) \in Seq(IdChars) /\ Len(Append(id, c)) = Len(id) + 1
             /\ \A i \in 1..Len(id) : Append(id, c)[i] = id[i]
             /\ Append(id, c)[Len(id) + 1] = c
  BY <1>1, AppendProperties
<1>3. ASSUME NEW c \in IdChars, c = "-" => id # <<>> /\ Last(id) # "-" PROVE Clean(Append(id, c))
  <2> DEFINE more == Append(id, c)
  <2>1. /\ more \in Seq(IdChars) /\ Len(more) = Len(id) + 1
        /\ \A i \in 1..Len(id) : more[i] = id[i]
        /\ more[Len(id) + 1] = c
    BY <1>2
  <2> HIDE DEF more
  <2>2. c = "-" => Len(id) \in 1..Len(id) /\ id[Len(id)] = "a"
    BY <1>1, <1>3 DEF Last, IdChars
  <2>3. ASSUME NEW i \in 1..Len(more), more[i] = "-" PROVE i # 1 /\ more[i - 1] = "a"
    <3>1. CASE i \in 1..Len(id)
      <4>1. id[i] = "-" /\ i # 1 /\ id[i - 1] = "a"
        BY <2>1, <2>3, <3>1 DEF Clean
      <4> QED
        BY <1>1, <2>1, <3>1, <4>1
    <3>2. CASE i = Len(id) + 1
      <4>1. c = "-"
        BY <2>1, <2>3, <3>2
      <4>2. i - 1 = Len(id) /\ Len(id) \in 1..Len(id) /\ id[Len(id)] = "a"
        BY <1>1, <2>2, <3>2, <4>1
      <4> QED
        BY <1>1, <2>1, <4>2
    <3> QED
      BY <1>1, <2>1, <3>1, <3>2
  <2>4. Clean(more)
    BY <2>1, <2>3 DEF Clean
  <2> QED
    BY <2>4 DEF more
<1>4. "a" \in IdChars /\ "-" \in IdChars /\ "a" # "-"
  BY DEF IdChars
<1> QED
  BY <1>1, <1>2, <1>3, <1>4

\* What Dashed makes of a text is clean and no longer, and a clean text is left
\* as it is.
LEMMA DashedClean ==
  ASSUME NEW S, NEW typing \in Seq(S)
  PROVE  /\ Clean(Dashed(typing)) /\ Len(Dashed(typing)) <= Len(typing)
         /\ Clean(typing) => Dashed(typing) = typing
<1>1. Len(typing) \in Nat
  BY LenProperties
<1>2. PICK f : IsDashed(f, typing, Len(typing)) /\ Dashed(typing) = f[Len(typing)]
  BY DashedIs
<1> DEFINE Good(i) == /\ Clean(f[i]) /\ Len(f[i]) <= i
                      /\ Clean(typing) => /\ Len(f[i]) = i
                                        /\ \A j \in 1..i : f[i][j] = typing[j]
           Is == {i \in Nat : i \in 0..Len(typing) => Good(i)}
<1>3. 0 \in Is
  <2>1. f[0] = <<>>
    BY <1>1, <1>2, DashedAt DEF DashNext
  <2>2. <<>> \in Seq(IdChars) /\ Len(<<>>) = 0
    BY EmptySeq
  <2>3. Good(0)
    BY <2>1, <2>2 DEF Clean
  <2> QED
    BY <2>3
<1>4. ASSUME NEW i \in Nat, i \in Is PROVE i + 1 \in Is
  <2> SUFFICES ASSUME i + 1 \in 0..Len(typing) PROVE Good(i + 1)
    OBVIOUS
  <2>1. i \in 0..Len(typing) /\ i + 1 \in 1..Len(typing) /\ (i + 1) - 1 = i /\ i + 1 # 0
    BY <1>1
  <2>2. Clean(f[i]) /\ Len(f[i]) <= i
        /\ (Clean(typing) => Len(f[i]) = i /\ \A j \in 1..i : f[i][j] = typing[j])
    BY <1>4, <2>1
  <2>3. f[i + 1] = IF typing[i + 1] = "a" THEN Append(f[i], "a")
                   ELSE IF f[i] = <<>> \/ Last(f[i]) = "-" THEN f[i]
                   ELSE Append(f[i], "-")
    <3>1. f[i + 1] = DashNext(f, typing, i + 1)
      BY <1>2, DashedAt
    <3> QED
      BY <2>1, <3>1 DEF DashNext
  <2>4. PICK id : id = f[i]
    OBVIOUS
  <2>5. Clean(f[i + 1]) /\ Len(f[i + 1]) <= i + 1
    BY <2>2, <2>3, CleanAppend
  <2>6. ASSUME Clean(typing)
        PROVE  Len(f[i + 1]) = i + 1 /\ \A j \in 1..(i + 1) : f[i + 1][j] = typing[j]
    <3>1. Len(id) = i /\ \A j \in 1..i : id[j] = typing[j]
      BY <2>2, <2>4, <2>6
    <3>2. typing[i + 1] \in {"a", "-"}
      BY <2>1, <2>6, ElementOfSeq DEF Clean, IdChars
    <3>3. typing[i + 1] = "-" => i # 0 /\ typing[i] = "a"
      BY <2>1, <2>6 DEF Clean
    <3>4. typing[i + 1] = "-" => id # <<>> /\ Last(id) # "-"
      BY <3>1, <3>3, EmptySeq DEF Last
    <3>5. f[i + 1] = Append(id, typing[i + 1])
      BY <2>3, <2>4, <3>2, <3>4
    <3>6. /\ Len(Append(id, typing[i + 1])) = i + 1
          /\ \A j \in 1..i : Append(id, typing[i + 1])[j] = id[j]
          /\ Append(id, typing[i + 1])[i + 1] = typing[i + 1]
      <4>1. id \in Seq(IdChars) /\ typing[i + 1] \in IdChars
        BY <2>2, <2>4, <3>2 DEF Clean, IdChars
      <4> QED
        BY <3>1, <4>1, AppendProperties
    <3> QED
      BY <3>1, <3>5, <3>6
  <2> QED
    BY <2>5, <2>6
<1> HIDE DEF Is
<1>5. Len(typing) \in Is
  BY <1>1, <1>3, <1>4, InductionOn
<1>6. Good(Len(typing))
  BY <1>1, <1>5 DEF Is
<1>7. Clean(typing) => Dashed(typing) = typing
  BY <1>2, <1>6, SeqEqual DEF Clean
<1> QED
  BY <1>2, <1>6, <1>7

\* The shorter of a text and a cap, and where a prefix of that length that ends
\* in a dash is trimmed.
Shorter(d, max) == IF Len(d) < max THEN Len(d) ELSE max
Fitted(d, k) == IF k # 0 /\ d[k] = "-" THEN k - 1 ELSE k

\* A prefix of a prefix.
LEMMA Prefix ==
  ASSUME NEW S, NEW d \in Seq(S), NEW k \in 0..Len(d)
  PROVE  /\ SubSeq(d, 1, k) \in Seq(S) /\ Len(SubSeq(d, 1, k)) = k
         /\ \A i \in 1..k : SubSeq(d, 1, k)[i] = d[i]
         /\ \A m \in 0..k : SubSeq(SubSeq(d, 1, k), 1, m) = SubSeq(d, 1, m)
<1>1. Len(d) \in Nat /\ \A i \in 1..Len(d) : d[i] \in S
  BY LenProperties, ElementOfSeq
<1>2. ASSUME NEW e \in Seq(S), NEW m \in 0..Len(e)
      PROVE  /\ SubSeq(e, 1, m) \in Seq(S) /\ Len(SubSeq(e, 1, m)) = m
             /\ \A i \in 1..m : SubSeq(e, 1, m)[i] = e[i]
  <2>1. Len(e) \in Nat /\ \A i \in 1..m : e[i] \in S
    BY LenProperties, ElementOfSeq
  <2>2. m - 1 + 1 = m /\ m \in Int /\ 1 \in Int /\ (1 <= m <=> m # 0)
    BY <2>1
  <2>3. /\ SubSeq(e, 1, m) \in Seq(S)
        /\ Len(SubSeq(e, 1, m)) = IF 1 <= m THEN m - 1 + 1 ELSE 0
        /\ \A i \in 1..(m - 1 + 1) : SubSeq(e, 1, m)[i] = e[1 + i - 1]
    BY <2>1, <2>2, SubSeqProperties
  <2> QED
    BY <2>1, <2>2, <2>3
<1>3. ASSUME NEW m \in 0..k PROVE SubSeq(SubSeq(d, 1, k), 1, m) = SubSeq(d, 1, m)
  <2> DEFINE e == SubSeq(d, 1, k)
  <2>1. e \in Seq(S) /\ Len(e) = k /\ \A i \in 1..k : e[i] = d[i]
    BY <1>2
  <2> HIDE DEF e
  <2>2. m \in 0..Len(e) /\ m \in 0..Len(d) /\ k \in Nat
    BY <1>1, <2>1
  <2>3. /\ SubSeq(e, 1, m) \in Seq(S) /\ Len(SubSeq(e, 1, m)) = m
        /\ \A i \in 1..m : SubSeq(e, 1, m)[i] = e[i]
    BY <1>2, <2>1, <2>2
  <2>4. /\ SubSeq(d, 1, m) \in Seq(S) /\ Len(SubSeq(d, 1, m)) = m
        /\ \A i \in 1..m : SubSeq(d, 1, m)[i] = d[i]
    BY <1>2, <2>2
  <2>5. \A i \in 1..m : SubSeq(e, 1, m)[i] = SubSeq(d, 1, m)[i]
    BY <2>1, <2>2, <2>3, <2>4
  <2>6. SubSeq(e, 1, m) = SubSeq(d, 1, m)
    BY <2>3, <2>4, <2>5, SeqEqual
  <2> QED
    BY <2>6 DEF e
<1> QED
  BY <1>2, <1>3

\* A clean prefix, trimmed.
LEMMA TrimmedIs ==
  ASSUME NEW d, Clean(d), NEW k \in 0..Len(d)
  PROVE  /\ Clean(SubSeq(d, 1, k))
         /\ Fitted(d, k) \in 0..k
         /\ Trimmed(SubSeq(d, 1, k)) = SubSeq(d, 1, Fitted(d, k))
<1> DEFINE e == SubSeq(d, 1, k)
<1>1. d \in Seq(IdChars) /\ Len(d) \in Nat
  BY LenProperties DEF Clean
<1>2. /\ e \in Seq(IdChars) /\ Len(e) = k /\ \A i \in 1..k : e[i] = d[i]
      /\ \A m \in 0..k : SubSeq(e, 1, m) = SubSeq(d, 1, m)
  BY <1>1, Prefix
<1>3. SubSeq(d, 1, k) = e
  OBVIOUS
<1> HIDE DEF e
<1>4. Clean(e)
  BY <1>1, <1>2 DEF Clean
<1>5. Fitted(d, k) \in 0..k
  BY <1>1 DEF Fitted
<1>6. e # <<>> <=> k # 0
  BY <1>2, EmptySeq
<1>7. CASE k # 0 /\ d[k] = "-"
  <2>1. Last(e) = "-" /\ Fitted(d, k) = k - 1 /\ k - 1 \in 0..k
    BY <1>1, <1>2, <1>7 DEF Last, Fitted
  <2>2. Trimmed(e) = SubSeq(e, 1, k - 1)
    BY <1>2, <1>6, <1>7, <2>1 DEF Trimmed, Front
  <2> QED
    BY <1>2, <1>3, <1>4, <1>5, <2>1, <2>2
<1>8. CASE ~ (k # 0 /\ d[k] = "-")
  <2>1. k # 0 => Last(e) # "-"
    BY <1>1, <1>2, <1>8 DEF Last
  <2>2. Trimmed(e) = e /\ Fitted(d, k) = k
    BY <1>6, <1>8, <2>1 DEF Trimmed, Fitted
  <2> QED
    BY <1>3, <1>4, <1>5, <2>2
<1> QED
  BY <1>7, <1>8

\* The slug of a text: a prefix of what the dashes make of it.
LEMMA SlugIs ==
  ASSUME NEW S, NEW typing \in Seq(S), NEW max \in Nat
  PROVE  Slugify(typing, max) = SubSeq(Dashed(typing), 1, Fitted(Dashed(typing), Shorter(Dashed(typing), max)))
<1> DEFINE d == Dashed(typing)
<1>1. Clean(d) /\ Len(d) \in Nat
  BY DashedClean, LenProperties DEF Clean
<1> HIDE DEF d
<1>2. Shorter(d, max) \in 0..Len(d)
  BY <1>1 DEF Shorter
<1>3. Cut(d, max) = SubSeq(d, 1, Shorter(d, max))
  BY DEF Cut, Shorter
<1>4. Trimmed(Cut(d, max)) = SubSeq(d, 1, Fitted(d, Shorter(d, max)))
  BY <1>1, <1>2, <1>3, TrimmedIs
<1> QED
  BY <1>4 DEF Slugify, d

\* A slug is short, starts and ends with a letter, and cut again is the slug of
\* the smaller cap.
LEMMA SlugAgain ==
  ASSUME NEW S, NEW typing \in Seq(S), NEW max \in Nat, NEW c \in Nat
  PROVE  LET id == Slugify(typing, max) IN
         /\ id \in Seq(IdChars) /\ Len(id) <= max /\ Len(id) <= Len(typing)
         /\ id # <<>> => id[1] = "a" /\ Last(id) = "a" /\ Len(id) # 0
         /\ Slugify(id, c) = Slugify(typing, IF c < max THEN c ELSE max)
<1> DEFINE d == Dashed(typing)
           k == Fitted(d, Shorter(d, max))
           id == SubSeq(d, 1, k)
           least == IF c < max THEN c ELSE max
<1>1. Clean(d) /\ d \in Seq(IdChars) /\ Len(d) \in Nat /\ Len(d) <= Len(typing) /\ Len(typing) \in Nat
  BY DashedClean, LenProperties DEF Clean
<1>2. \A i \in 1..Len(d) : d[i] \in {"a", "-"} /\ (d[i] = "-" => i # 1 /\ d[i - 1] = "a")
  BY <1>1, ElementOfSeq DEF Clean, IdChars
<1>3. Slugify(typing, max) = id /\ Slugify(typing, least) = SubSeq(d, 1, Fitted(d, Shorter(d, least)))
  <2>1. least \in Nat
    OBVIOUS
  <2> QED
    BY <2>1, SlugIs
<1> HIDE DEF d
<1>4. Shorter(d, max) \in 0..Len(d) /\ Shorter(d, max) <= max
  BY <1>1 DEF Shorter
<1>5. k \in 0..Len(d) /\ k <= Shorter(d, max) /\ k <= max /\ (k # 0 => d[k] = "a" /\ d[1] = "a")
  BY <1>1, <1>2, <1>4 DEF Fitted
<1>6. /\ Clean(id) /\ id \in Seq(IdChars) /\ Len(id) = k /\ \A i \in 1..k : id[i] = d[i]
      /\ \A m \in 0..k : SubSeq(id, 1, m) = SubSeq(d, 1, m)
  BY <1>1, <1>5, Prefix, TrimmedIs
<1>7. Slugify(id, c) = SubSeq(id, 1, Fitted(id, Shorter(id, c)))
  <2>1. Dashed(id) = id
    BY <1>6, DashedClean
  <2> QED
    BY <1>6, <2>1, SlugIs
<1>8. Fitted(id, Shorter(id, c)) = Fitted(d, Shorter(d, least)) /\ Fitted(id, Shorter(id, c)) \in 0..k
  <2>1. Shorter(id, c) = (IF k < c THEN k ELSE c) /\ Shorter(id, c) \in 0..k
    BY <1>5, <1>6 DEF Shorter
  <2>2. Fitted(id, Shorter(id, c)) = Fitted(d, Shorter(id, c))
    BY <1>5, <1>6, <2>1, SMTT(30) DEF Fitted
  <2>3. k = Fitted(d, Shorter(d, max))
    OBVIOUS
  <2> HIDE DEF k, id
  <2>4. Fitted(d, Shorter(id, c)) = Fitted(d, Shorter(d, least))
    BY <1>1, <1>2, <1>5, <2>1, <2>3, SMTT(30) DEF Fitted, Shorter
  <2>5. Fitted(d, Shorter(id, c)) \in 0..k
    BY <1>5, <2>1, SMTT(30) DEF Fitted
  <2> QED
    BY <2>2, <2>4, <2>5
<1>9. Slugify(id, c) = Slugify(typing, least)
  BY <1>3, <1>6, <1>7, <1>8
<1>10. id # <<>> => k # 0
  BY <1>6, EmptySeq
<1>11. id # <<>> => id[1] = "a" /\ Last(id) = "a"
  BY <1>5, <1>6, <1>10 DEF Last
<1> QED
  BY <1>1, <1>3, <1>5, <1>6, <1>9, <1>10, <1>11, SMTT(30)

\* A derived ID is what typing or a type made of the display name.
NewInv == /\ NewTypeOK
          /\ auto \in {{}, {name}}
          /\ auto = {name} /\ name # <<>> => fit <= cap /\ name = Slugify(display, fit)

\* What is typed, and what becomes of it.
LEMMA Typed ==
  /\ Caps \subseteq Nat /\ <<>> \in Displays /\ <<>> \in Ids
  /\ \A d \in Displays : \A c \in Nat : d \in Seq({"a", " ", "-"}) /\ Slugify(d, c) \in Ids
<1>1. ASSUME NEW C, NEW s \in Seq(C), Len(s) <= MaxText
      PROVE  s \in UNION {[1..n -> C] : n \in 0..MaxText}
  <2>1. Len(s) \in 0..MaxText /\ s \in [1..Len(s) -> C]
    BY <1>1, LenProperties, NewWorkloadAssumption
  <2> QED
    BY <2>1
<1>2. ASSUME NEW C, NEW s \in UNION {[1..n -> C] : n \in 0..MaxText}
      PROVE  s \in Seq(C) /\ Len(s) \in 0..MaxText
  <2>1. PICK n \in 0..MaxText : s \in [1..n -> C]
    BY <1>2
  <2>2. s \in Seq(C) /\ Len(s) = n
    BY <2>1, NewWorkloadAssumption, IsASeq, LenProperties
  <2> QED
    BY <2>1, <2>2
<1>3. <<>> \in Seq({"a", " ", "-"}) /\ <<>> \in Seq({"a", "-"}) /\ Len(<<>>) <= MaxText
  BY EmptySeq, NewWorkloadAssumption
<1>4. <<>> \in Displays /\ <<>> \in Ids
  BY <1>1, <1>3 DEF Displays, Ids
<1>5. ASSUME NEW d \in Displays, NEW c \in Nat
      PROVE  d \in Seq({"a", " ", "-"}) /\ Slugify(d, c) \in Ids
  <2>1. d \in Seq({"a", " ", "-"}) /\ Len(d) \in 0..MaxText
    BY <1>2 DEF Displays
  <2> DEFINE id == Slugify(d, c)
  <2>2. id \in Seq({"a", "-"}) /\ Len(id) <= Len(d)
    BY <2>1, SlugAgain DEF IdChars
  <2> HIDE DEF id
  <2>3. Len(id) <= MaxText
    <3>1. Len(id) \in Nat
      BY <2>2, LenProperties
    <3>2. MaxText \in Nat
      BY NewWorkloadAssumption
    <3>3. PICK n \in 0..MaxText : n = Len(d) /\ Len(id) <= n
      BY <2>1, <2>2
    <3> QED
      BY <3>1, <3>2, <3>3
  <2>4. id \in Ids
    BY <1>1, <2>2, <2>3 DEF Ids
  <2> QED
    BY <2>1, <2>4 DEF id
<1>6. Caps \subseteq Nat
  BY NewWorkloadAssumption
<1> QED
  BY <1>4, <1>5, <1>6

\* The empty form satisfies it.
LEMMA NewInitInv == NewInit => NewInv
  BY Typed DEF NewInit, NewInv, NewTypeOK

\* Every step keeps it.
LEMMA NewKeeps == NewInv /\ [NewNext]_newVars => NewInv'
<1> SUFFICES ASSUME NewInv, [NewNext]_newVars PROVE NewInv'
  OBVIOUS
<1>1. /\ display \in Displays /\ name \in Ids /\ cap \in Caps /\ fit \in Caps
      /\ (\E id \in Ids : own \in {{}, {id}})
      /\ auto \in {{}, {name}}
      /\ (auto = {name} /\ name # <<>> => fit <= cap /\ name = Slugify(display, fit))
  BY DEF NewInv, NewTypeOK
<1>2. cap \in Nat /\ fit \in Nat
  BY <1>1, Typed
<1>3. CASE InputDisplay
  <2>1. PICK d \in Displays :
          /\ display' = d /\ cap' = cap
          /\ IF name = <<>> \/ auto = {name}
               THEN Derive(d, cap) /\ fit' = cap /\ own' = {}
               ELSE UNCHANGED <<name, auto, fit, own>>
    BY <1>3 DEF InputDisplay
  <2>2. CASE name = <<>> \/ auto = {name}
    <3>1. name' = Slugify(d, cap) /\ auto' = {name'} /\ fit' = cap /\ own' = {}
      BY <2>1, <2>2 DEF Derive
    <3>2. name' \in Ids
      BY <1>2, <3>1, Typed
    <3> QED
      BY <1>1, <1>2, <2>1, <3>1, <3>2 DEF NewInv, NewTypeOK
  <2>3. CASE ~ (name = <<>> \/ auto = {name})
    BY <1>1, <2>1, <2>3 DEF NewInv, NewTypeOK
  <2> QED
    BY <2>2, <2>3
<1>4. CASE InputName
  <2>1. PICK id \in HandIds \union {<<>>} : name' = id /\ own' = {id}
    BY <1>4 DEF InputName
  <2>2. auto' = {} /\ UNCHANGED <<display, cap, fit>>
    BY <1>4 DEF InputName, AutoAfterEdit
  <2>3. id \in Ids
    <3>1. HandIds \subseteq Ids
      BY DEF Ids
    <3> QED
      BY <2>1, <3>1, Typed
  <2> QED
    BY <1>1, <2>1, <2>2, <2>3 DEF NewInv, NewTypeOK
<1>5. CASE ChangeType
  <2>1. PICK c \in Caps :
          /\ cap' = c
          /\ IF name # <<>> /\ auto = {name}
               THEN Derive(name, c) /\ fit' = IF c < fit THEN c ELSE fit
               ELSE UNCHANGED <<name, auto, fit>>
    BY <1>5 DEF ChangeType
  <2>2. UNCHANGED <<display, own>>
    BY <1>5 DEF ChangeType
  <2>3. c \in Nat
    BY <2>1, Typed
  <2>4. CASE name # <<>> /\ auto = {name}
    <3>1. name' = Slugify(name, c) /\ auto' = {name'} /\ fit' = IF c < fit THEN c ELSE fit
      BY <2>1, <2>4 DEF Derive
    <3>2. display \in Seq({"a", " ", "-"})
      BY <1>1, <2>3, Typed
    <3>3. name' = Slugify(display, fit')
      BY <1>1, <1>2, <2>3, <2>4, <3>1, <3>2, SlugAgain
    <3>4. fit' \in Caps /\ fit' \in Nat /\ fit' <= cap'
      BY <1>1, <1>2, <2>1, <2>3, <3>1
    <3>5. name' \in Ids
      BY <1>1, <3>3, <3>4, Typed
    <3> QED
      BY <1>1, <2>1, <2>2, <3>1, <3>3, <3>4, <3>5 DEF NewInv, NewTypeOK
  <2>5. CASE ~ (name # <<>> /\ auto = {name})
    BY <1>1, <2>1, <2>2, <2>5 DEF NewInv, NewTypeOK
  <2> QED
    BY <2>4, <2>5
<1>6. CASE Refused
  BY <1>1, <1>6 DEF Refused, NewInv, NewTypeOK
<1>7. CASE UNCHANGED newVars
  BY <1>1, <1>7 DEF newVars, NewInv, NewTypeOK
<1> QED
  BY <1>3, <1>4, <1>5, <1>6, <1>7 DEF NewNext

\* new-workload.ts:8-11, 38-41: a derived ID is one the server takes, and the
\* display name's slug at the smallest cap selected since it was derived.
THEOREM DerivedFits == NewSpec => []DerivedIdFits
<1>1. NewInv => DerivedIdFits
  <2> SUFFICES ASSUME NewInv, auto = {name}, name # <<>>
               PROVE  Matches(name, cap) /\ name = Slugify(display, fit)
    BY DEF DerivedIdFits
  <2>1. fit <= cap /\ name = Slugify(display, fit) /\ fit \in Nat /\ cap \in Nat /\ display \in Displays
    BY Typed DEF NewInv, NewTypeOK
  <2>2. display \in Seq({"a", " ", "-"})
    BY <2>1, Typed
  <2>3. /\ name \in Seq(IdChars) /\ Len(name) <= fit /\ name[1] = "a" /\ Last(name) = "a" /\ Len(name) # 0
    BY <2>1, <2>2, SlugAgain
  <2>4. Len(name) \in 1..cap
    BY <2>1, <2>3, LenProperties
  <2> QED
    BY <2>1, <2>3, <2>4 DEF Matches
<1> QED
  BY <1>1, NewInitInv, NewKeeps, PTL DEF NewSpec
-----------------------------------------------------------------------------
(***************************************************************************)
(* RatesAreBounded, for any counters, cores and width.  The invariant says *)
(* how far the counters have come since the handler's previous sample.     *)
(***************************************************************************)
HostGrows == /\ host.busy <= host.total
             /\ prev.have => /\ prev.busy <= host.busy /\ prev.total <= host.total
                             /\ host.busy - prev.busy <= host.total - prev.total

\* A unit that restarted is below its previous counter.
UnitGrows == prev.have /\ prev.cpu # NoCounter /\ ~failed => unit.cpu <= prev.cpu + Cores * elapsed

MetricsInv == MetricsTypeOK /\ elapsed <= host.total /\ HostGrows /\ UnitGrows

\* A difference of counters, in the arithmetic of the code: the difference
\* where it fits, and never more.
LEMMA DiffIs ==
  \A new, before \in Nat : before <= new =>
    /\ Diff(new, before) \in 0..(Width - 1) /\ Diff(new, before) <= new - before
<1> SUFFICES ASSUME NEW new \in Nat, NEW before \in Nat, before <= new
             PROVE  Diff(new, before) \in 0..(Width - 1) /\ Diff(new, before) <= new - before
  OBVIOUS
<1>1. Width \in Nat \ {0}
  BY MetricsAssumption
<1>2. PICK d \in Nat : d = new - before
  OBVIOUS
<1>3. d % Width \in 0..(Width - 1)
  BY <1>1
<1>4. d % Width <= d
  <2>1. CASE d < Width
    BY <1>1, <2>1
  <2>2. CASE d >= Width
    BY <1>1, <1>3, <2>2
  <2> QED
    BY <1>1, <2>1, <2>2
<1> QED
  BY <1>2, <1>3, <1>4 DEF Diff

\* What a sample shows is bounded, and typed.
LEMMA RateIs ==
  ASSUME MetricsInv, NEW cpu \in 0..MaxCPU
  PROVE  /\ UnitRate(cpu) \in Rates /\ HostRate \in Rates /\ Bar(HostRate) \in Rates
         /\ HostRate.part <= HostRate.whole
         /\ ~failed /\ cpu <= unit.cpu => UnitRate(cpu).part <= Cores * UnitRate(cpu).whole
<1> USE DEF MetricsInv, MetricsTypeOK
<1>1. /\ elapsed \in 0..MaxTotal /\ MaxTotal \in Nat /\ MaxCPU \in Nat /\ Width \in Nat \ {0} /\ Cores \in Nat
      /\ unit.cpu \in Nat /\ prev.cpu \in Counters /\ prev.busy \in Nat /\ prev.total \in Nat
      /\ host.busy \in Nat /\ host.total \in 0..MaxTotal
  BY MetricsAssumption
<1>2. Null \in Rates /\ Null.part = 0 /\ Null.whole = 0
  BY <1>1 DEF Null, Rates
<1>3. HostRate \in Rates /\ HostRate.part <= HostRate.whole
  <2>1. CASE prev.have /\ host.total > prev.total
    <3>1. HostRate = [part |-> Diff(host.busy, prev.busy), whole |-> host.total - prev.total]
      BY <2>1 DEF HostRate
    <3>2. prev.busy <= host.busy /\ host.busy - prev.busy <= host.total - prev.total
      BY <2>1 DEF HostGrows
    <3>3. Diff(host.busy, prev.busy) \in 0..(Width - 1) /\ Diff(host.busy, prev.busy) <= host.busy - prev.busy
      BY <1>1, <3>2, DiffIs
    <3>4. host.total - prev.total \in 0..MaxTotal /\ Diff(host.busy, prev.busy) <= host.total - prev.total
      BY <1>1, <2>1, <3>2, <3>3
    <3> QED
      BY <3>1, <3>3, <3>4 DEF Rates
  <2>2. CASE ~ (prev.have /\ host.total > prev.total)
    BY <1>2, <2>2 DEF HostRate
  <2> QED
    BY <2>1, <2>2
<1>4. Bar(HostRate) \in Rates
  BY <1>3 DEF Bar, Rates
<1>5. UnitRate(cpu) \in Rates /\ (~failed /\ cpu <= unit.cpu => UnitRate(cpu).part <= Cores * UnitRate(cpu).whole)
  <2>1. CASE prev.have /\ prev.cpu # NoCounter /\ elapsed > 0 /\ cpu >= prev.cpu
    <3>1. UnitRate(cpu) = [part |-> Diff(cpu, prev.cpu), whole |-> elapsed]
      BY <2>1 DEF UnitRate
    <3>2. prev.cpu \in Nat /\ cpu \in Nat
      BY <1>1, <2>1 DEF Counters, NoCounter
    <3>3. Diff(cpu, prev.cpu) \in 0..(Width - 1) /\ Diff(cpu, prev.cpu) <= cpu - prev.cpu
      BY <2>1, <3>2, DiffIs
    <3>4. PICK most \in Nat : most = Cores * elapsed
      BY <1>1
    <3>5. ~failed /\ cpu <= unit.cpu => Diff(cpu, prev.cpu) <= most
      BY <1>1, <2>1, <3>2, <3>3, <3>4 DEF UnitGrows
    <3> QED
      BY <1>1, <3>1, <3>3, <3>4, <3>5 DEF Rates
  <2>2. CASE ~ (prev.have /\ prev.cpu # NoCounter /\ elapsed > 0 /\ cpu >= prev.cpu)
    <3>1. UnitRate(cpu) = Null
      BY <2>2 DEF UnitRate
    <3> QED
      BY <1>1, <1>2, <3>1
  <2> QED
    BY <2>1, <2>2
<1> QED
  BY <1>3, <1>4, <1>5

\* Nothing has been sampled at the start.
LEMMA MetricsInitInv == MetricsInit => MetricsInv
<1> SUFFICES ASSUME MetricsInit PROVE MetricsInv
  OBVIOUS
<1>1. Null \in Rates /\ NoCounter \in Counters
  BY MetricsAssumption DEF Null, Rates, NoCounter, Counters
<1>2. Nobody \in [row : {"none", "on", "off"}, cpu : Rates, host : Rates, bar : Rates]
  BY <1>1 DEF Nobody
<1>3. NoPrev \in [have : BOOLEAN, cpu : Counters, busy : 0..MaxTotal, total : 0..MaxTotal] /\ NoPrev.have = FALSE
  BY <1>1, MetricsAssumption DEF NoPrev
<1> QED
  <2>1. MetricsTypeOK
    <3>1. /\ unit \in [running : BOOLEAN, cpu : 0..MaxCPU] /\ listed \in BOOLEAN /\ failed \in BOOLEAN
          /\ host \in [busy : 0..MaxTotal, total : 0..MaxTotal] /\ elapsed \in 0..MaxTotal
      <4>1. 0 \in 0..MaxCPU /\ 0 \in 0..MaxTotal
        BY MetricsAssumption
      <4>2. /\ unit = [running |-> FALSE, cpu |-> 0] /\ listed = FALSE /\ failed = FALSE
            /\ host = [busy |-> 0, total |-> 0] /\ elapsed = 0
        BY DEF MetricsInit
      <4> QED
        BY <4>1, <4>2
    <3>2. prev = NoPrev /\ shown = Nobody
      BY DEF MetricsInit
    <3> QED
      BY <1>2, <1>3, <3>1, <3>2, Zenon DEF MetricsTypeOK
  <2>2. elapsed <= host.total /\ HostGrows /\ UnitGrows
    BY <1>3 DEF MetricsInit, HostGrows, UnitGrows
  <2> QED
    BY <2>1, <2>2 DEF MetricsInv

\* Every step keeps the invariant.
LEMMA MetricsKeeps == MetricsInv /\ [MetricsNext]_metricsVars => MetricsInv'
<1> SUFFICES ASSUME MetricsInv, [MetricsNext]_metricsVars PROVE MetricsInv'
  OBVIOUS
<1> USE DEF MetricsTypeOK
<1>1. /\ elapsed \in 0..MaxTotal /\ MaxTotal \in Nat /\ MaxCPU \in Nat /\ Cores \in Nat
      /\ unit.cpu \in 0..MaxCPU /\ prev.cpu \in Counters /\ prev.busy \in Nat /\ prev.total \in Nat
      /\ host.busy \in 0..MaxTotal /\ host.total \in 0..MaxTotal /\ unit.running \in BOOLEAN
      /\ Counters = -1..MaxCPU
  BY MetricsAssumption DEF MetricsInv, Counters, NoCounter
<1>2. MetricsTypeOK /\ elapsed <= host.total /\ HostGrows /\ UnitGrows
  BY DEF MetricsInv
<1> HIDE DEF MetricsTypeOK
<1>3. CASE Clock
  <2>1. PICK b \in {0, 1}, c \in 0..Cores :
          /\ unit.cpu + c <= MaxCPU
          /\ host' = [busy |-> host.busy + b, total |-> host.total + 1]
          /\ unit' = [unit EXCEPT !.cpu = @ + c]
    BY <1>3 DEF Clock
  <2>2. host.total < MaxTotal /\ elapsed' = elapsed + 1 /\ listed' = listed /\ prev' = prev /\ shown' = shown /\ failed' = failed
    BY <1>3 DEF Clock
  <2>3. host'.busy = host.busy + b /\ host'.total = host.total + 1 /\ unit'.cpu = unit.cpu + c /\ b \in Nat /\ c \in Nat /\ c <= Cores
    BY <1>1, <1>2, <2>1 DEF MetricsTypeOK
  <2>4. /\ host'.busy \in 0..MaxTotal /\ host'.total \in 0..MaxTotal
        /\ HostGrows' /\ elapsed' <= host'.total
    <3>1. PICK busy \in Nat, total \in Nat, busier \in Nat, later \in Nat :
            host.busy = busy /\ host.total = total /\ prev.busy = busier /\ prev.total = later
      BY <1>1
    <3>2. b + busy <= 1 + total /\ busy <= total
      BY <1>2, <2>1, <3>1 DEF HostGrows
    <3>3. prev.have => busier <= busy /\ later <= total /\ busy - busier <= total - later
      BY <1>2, <3>1 DEF HostGrows
    <3>4. b \in {0, 1} /\ host'.busy = busy + b /\ host'.total = total + 1
      BY <2>1, <2>3, <3>1
    <3>5. HostGrows'
      BY <2>2, <3>1, <3>2, <3>3, <3>4 DEF HostGrows
    <3>6. elapsed <= total /\ total < MaxTotal
      BY <1>2, <2>2, <3>1
    <3> QED
      BY <1>1, <2>2, <2>3, <3>1, <3>2, <3>4, <3>5, <3>6
  <2>5. MetricsTypeOK'
    <3>1. unit' \in [running : BOOLEAN, cpu : 0..MaxCPU]
      <4>1. unit.cpu + c \in 0..MaxCPU
        BY <1>1, <2>1, <2>3, SMTT(30)
      <4>2. unit \in [running : BOOLEAN, cpu : 0..MaxCPU]
        BY <1>2 DEF MetricsTypeOK
      <4> QED
        BY <2>1, <4>1, <4>2
    <3>2. elapsed' \in 0..MaxTotal
      BY <1>1, <1>2, <2>2
    <3>3. host' \in [busy : 0..MaxTotal, total : 0..MaxTotal]
      BY <2>1, <2>4
    <3> QED
      BY <1>2, <2>2, <3>1, <3>2, <3>3 DEF MetricsTypeOK
  <2>6. UnitGrows'
    <3>1. PICK most \in Int : most = Cores * elapsed
      BY <1>1
    <3>2. Cores * elapsed' = most + Cores
      BY <1>1, <2>2, <3>1
    <3>3. (prev.have /\ prev.cpu # NoCounter /\ ~failed) => unit.cpu <= prev.cpu + most
      BY <1>2, <3>1 DEF UnitGrows
    <3>4. prev.cpu \in Int
      BY <1>1
    <3>5. (prev.have /\ prev.cpu # NoCounter /\ ~failed) => unit'.cpu <= prev.cpu + Cores * elapsed'
      BY <1>1, <2>3, <3>2, <3>3, <3>4
    <3> QED
      BY <2>2, <3>5 DEF UnitGrows
  <2> QED
    BY <2>4, <2>5, <2>6 DEF MetricsInv
<1>4. CASE StartStop
  <2>1. PICK on \in BOOLEAN : unit' = [running |-> on, cpu |-> 0]
    BY <1>4 DEF StartStop
  <2>2. listed' = listed /\ host' = host /\ elapsed' = elapsed /\ prev' = prev /\ shown' = shown /\ failed' = failed
    BY <1>4 DEF StartStop
  <2>3. UnitGrows'
    <3>1. prev.cpu # NoCounter => prev.cpu \in Nat
      BY <1>1 DEF NoCounter
    <3>2. PICK most \in Nat : most = Cores * elapsed
      BY <1>1
    <3>3. unit'.cpu = 0
      BY <2>1
    <3> QED
      BY <2>2, <3>1, <3>2, <3>3 DEF UnitGrows
  <2>4. MetricsTypeOK'
    BY <1>1, <1>2, <2>1, <2>2 DEF MetricsTypeOK
  <2> QED
    BY <1>2, <2>2, <2>3, <2>4 DEF MetricsInv, HostGrows
<1>5. CASE Enable
  BY <1>2, <1>5 DEF Enable, MetricsInv, MetricsTypeOK, HostGrows, UnitGrows
<1>6. CASE Sample
  <2>1. PICK fail \in BOOLEAN, u \in {unit, [running |-> FALSE, cpu |-> 0]} :
          /\ u = (IF fail THEN [running |-> FALSE, cpu |-> 0] ELSE unit)
          /\ shown' = [row |-> IF ~listed THEN "none" ELSE IF u.running THEN "on" ELSE "off",
                       cpu |-> IF listed THEN UnitRate(u.cpu) ELSE Null,
                       host |-> HostRate, bar |-> Bar(HostRate)]
          /\ prev' = [have |-> TRUE, cpu |-> IF listed THEN u.cpu ELSE NoCounter,
                      busy |-> host.busy, total |-> host.total]
          /\ failed' = fail
    BY <1>6 DEF Sample
  <2>2. elapsed' = 0 /\ unit' = unit /\ listed' = listed /\ host' = host
    BY <1>6 DEF Sample
  <2>3. u.cpu \in 0..MaxCPU /\ (~fail => u.cpu = unit.cpu)
    BY <1>1, <2>1
  <2>4. UnitRate(u.cpu) \in Rates /\ HostRate \in Rates /\ Bar(HostRate) \in Rates
    BY <2>3, RateIs
  <2>5. Null \in Rates
    BY MetricsAssumption DEF Null, Rates
  <2>6. shown' \in [row : {"none", "on", "off"}, cpu : Rates, host : Rates, bar : Rates]
    BY <2>1, <2>4, <2>5
  <2>7. prev' \in [have : BOOLEAN, cpu : Counters, busy : 0..MaxTotal, total : 0..MaxTotal]
    BY <1>1, <2>1, <2>3 DEF NoCounter
  <2>8. HostGrows' /\ elapsed' <= host'.total
    BY <1>1, <1>2, <2>1, <2>2 DEF HostGrows
  <2>9. UnitGrows'
    <3>1. Cores * elapsed' = 0
      BY <1>1, <2>2
    <3> QED
      BY <1>1, <2>1, <2>2, <2>3, <3>1 DEF UnitGrows
  <2>10. MetricsTypeOK'
    BY <1>1, <1>2, <2>1, <2>2, <2>6, <2>7 DEF MetricsTypeOK
  <2> QED
    BY <2>8, <2>9, <2>10 DEF MetricsInv
<1>7. CASE Reopen
  <2>1. NoPrev \in [have : BOOLEAN, cpu : Counters, busy : 0..MaxTotal, total : 0..MaxTotal] /\ NoPrev.have = FALSE
    BY <1>1 DEF NoPrev, NoCounter
  <2>2. prev' = NoPrev /\ failed' = FALSE /\ elapsed' = 0 /\ UNCHANGED <<unit, listed, host, shown>>
    BY <1>7 DEF Reopen
  <2>3. MetricsTypeOK' /\ elapsed' <= host'.total
    <3>1. 0 \in 0..MaxTotal /\ 0 <= host.total /\ host' = host
      BY <1>1, <2>2
    <3>2. elapsed' \in 0..MaxTotal /\ failed' \in BOOLEAN /\ elapsed' <= host'.total
      BY <2>2, <3>1
    <3> QED
      BY <1>2, <2>1, <2>2, <3>2, Zenon DEF MetricsTypeOK
  <2>4. HostGrows' /\ UnitGrows'
    BY <1>2, <2>1, <2>2 DEF HostGrows, UnitGrows
  <2> QED
    BY <2>3, <2>4 DEF MetricsInv
<1>8. CASE UNCHANGED metricsVars
  BY <1>2, <1>8 DEF metricsVars, MetricsInv, MetricsTypeOK, HostGrows, UnitGrows
<1> QED
  BY <1>3, <1>4, <1>5, <1>6, <1>7, <1>8 DEF MetricsNext

\* sse.go:134-153: the unit's rate is at most all cores over the time between
\* two samples and the host's at most 100 %, through restarts of the unit.
THEOREM RatesBounded == MetricsSpec => RatesAreBounded
<1>1. ASSUME MetricsInv, Sample
      PROVE  /\ ~failed => shown'.cpu.part <= Cores * shown'.cpu.whole
             /\ shown'.host.part <= shown'.host.whole
  <2>1. PICK fail \in BOOLEAN, u \in {unit, [running |-> FALSE, cpu |-> 0]} :
          /\ u = (IF fail THEN [running |-> FALSE, cpu |-> 0] ELSE unit)
          /\ shown' = [row |-> IF ~listed THEN "none" ELSE IF u.running THEN "on" ELSE "off",
                       cpu |-> IF listed THEN UnitRate(u.cpu) ELSE Null,
                       host |-> HostRate, bar |-> Bar(HostRate)]
    BY <1>1 DEF Sample
  <2>2. u.cpu \in 0..MaxCPU /\ u.cpu <= unit.cpu
    BY <1>1, <2>1, MetricsAssumption DEF MetricsInv, MetricsTypeOK
  <2>3. /\ HostRate.part <= HostRate.whole
        /\ ~failed => UnitRate(u.cpu).part <= Cores * UnitRate(u.cpu).whole
    BY <1>1, <2>2, RateIs
  <2>4. Null.part <= Cores * Null.whole
    BY MetricsAssumption DEF Null
  <2>5. shown'.host = HostRate /\ shown'.cpu = IF listed THEN UnitRate(u.cpu) ELSE Null
    BY <2>1
  <2> QED
    BY <2>3, <2>4, <2>5
<1>2. MetricsInv /\ [MetricsNext]_metricsVars =>
        [Sample => /\ ~failed => shown'.cpu.part <= Cores * shown'.cpu.whole
                   /\ shown'.host.part <= shown'.host.whole]_metricsVars
  BY <1>1
<1> QED
  BY <1>2, MetricsInitInv, MetricsKeeps, PTL DEF MetricsSpec, RatesAreBounded
-----------------------------------------------------------------------------
(***************************************************************************)
(* The whole.  A step of Browser is a step of one part and leaves the      *)
(* others alone, so each part behaves as its module says.  The fairness of *)
(* the shell is left out: to carry it over one needs ENABLED.              *)
(***************************************************************************)
LEMMA OnePartSteps ==
  [BrowserNext]_browserVars =>
    /\ [GuardNext]_guardVars
    /\ [TabNext]_tabVars
    /\ [PaneNext]_paneVars
    /\ [JournalNext]_journalVars
    /\ [DialogNext]_dialogVars
    /\ [RowNext]_rowVars
    /\ [NewNext]_newVars
    /\ [MetricsNext]_metricsVars
    /\ [LoginNext]_loginVars
    /\ [TerminalNext]_terminalVars
<1>1. FormStep => GuardNext /\ UNCHANGED <<tabVars, paneVars, journalVars, dialogVars, rowVars, newVars, metricsVars, loginVars, terminalVars>>
  BY DEF FormStep
<1>2. TabsStep => TabNext /\ UNCHANGED <<guardVars, paneVars, journalVars, dialogVars, rowVars, newVars, metricsVars, loginVars, terminalVars>>
  BY DEF TabsStep
<1>3. LogStep => PaneNext /\ UNCHANGED <<guardVars, tabVars, journalVars, dialogVars, rowVars, newVars, metricsVars, loginVars, terminalVars>>
  BY DEF LogStep
<1>4. JournalStep => JournalNext /\ UNCHANGED <<guardVars, tabVars, paneVars, dialogVars, rowVars, newVars, metricsVars, loginVars, terminalVars>>
  BY DEF JournalStep
<1>5. DialogsStep => DialogNext /\ UNCHANGED <<guardVars, tabVars, paneVars, journalVars, rowVars, newVars, metricsVars, loginVars, terminalVars>>
  BY DEF DialogsStep
<1>6. RowsStep => RowNext /\ UNCHANGED <<guardVars, tabVars, paneVars, journalVars, dialogVars, newVars, metricsVars, loginVars, terminalVars>>
  BY DEF RowsStep
<1>7. CreateStep => NewNext /\ UNCHANGED <<guardVars, tabVars, paneVars, journalVars, dialogVars, rowVars, metricsVars, loginVars, terminalVars>>
  BY DEF CreateStep
<1>8. DashboardStep => MetricsNext /\ UNCHANGED <<guardVars, tabVars, paneVars, journalVars, dialogVars, rowVars, newVars, loginVars, terminalVars>>
  BY DEF DashboardStep
<1>9. LoginStep => LoginNext /\ UNCHANGED <<guardVars, tabVars, paneVars, journalVars, dialogVars, rowVars, newVars, metricsVars, terminalVars>>
  BY DEF LoginStep
<1>10. InShell(TerminalNext) => TerminalNext /\ UNCHANGED <<guardVars, tabVars, paneVars, journalVars, dialogVars, rowVars, newVars, metricsVars, loginVars>>
  BY DEF InShell
<1>11. UNCHANGED browserVars => UNCHANGED <<guardVars, tabVars, paneVars, journalVars, dialogVars, rowVars, newVars, metricsVars, loginVars, terminalVars>>
  BY DEF browserVars
<1> QED
  BY <1>1, <1>2, <1>3, <1>4, <1>5, <1>6, <1>7, <1>8, <1>9, <1>10, <1>11, Zenon DEF BrowserNext

(* What a part's own specification says, the fairness of the shell apart.  *)
Behaves == /\ GuardSpec /\ TabSpec /\ PaneSpec /\ JournalSpec /\ DialogSpec
           /\ RowSpec /\ NewSpec /\ MetricsSpec /\ LoginSpec
           /\ TerminalInit /\ [][TerminalNext]_terminalVars

\* main.ts: every part of the page behaves as if it were alone on it.
THEOREM PartsBehave == BrowserSpec => Behaves
<1>1. BrowserInit => /\ GuardInit /\ TabInit /\ PaneInit /\ JournalInit /\ DialogInit
                     /\ RowInit /\ NewInit /\ MetricsInit /\ TerminalInit /\ LoginInit
  BY DEF BrowserInit
<1> QED
  BY <1>1, OnePartSteps, PTL
     DEF BrowserSpec, Behaves, GuardSpec, TabSpec, PaneSpec, JournalSpec, DialogSpec, RowSpec,
         NewSpec, MetricsSpec, LoginSpec

\* The state of every part stays in its ranges.
THEOREM BrowserTyped == BrowserSpec => []BrowserTypeOK
<1>1. BrowserSpec => Behaves
  BY PartsBehave
<1>2. BrowserSpec => [](part \in Parts)
  <2>1. BrowserInit => part \in Parts
    BY DEF BrowserInit
  <2>2. part \in Parts /\ [BrowserNext]_browserVars => (part \in Parts)'
    BY DEF BrowserNext, FormStep, TabsStep, LogStep, JournalStep, DialogsStep, RowsStep, CreateStep,
           DashboardStep, LoginStep, InShell, browserVars, Parts
  <2> QED
    BY <2>1, <2>2, PTL DEF BrowserSpec
<1>3. Behaves => [](GuardTypeOK /\ DialogTypeOK)
  <2>1. GuardInv => GuardTypeOK
    BY DEF GuardInv
  <2>2. DialogInv => DialogTypeOK
    BY DEF DialogInv
  <2> QED
    BY <2>1, <2>2, GuardInvariant, DialogInitInv, DialogKeeps, PTL DEF Behaves, DialogSpec
<1>4. Behaves => [](TabTypeOK /\ PaneTypeOK /\ JournalTypeOK)
  <2>1. TabInit => TabInv
    BY Strip DEF TabInit, TabInv, TabSettled, Restored, Wanted
  <2>2. TabSpec => []TabTypeOK
    BY <2>1, TabStep, TabTyped, PTL DEF TabSpec
  <2>3. PaneSpec => []PaneTypeOK
    BY PaneInitInv, PaneStep, PaneIsTyped, PTL DEF PaneSpec
  <2>4. JournalSpec => []JournalTypeOK
    BY JournalInitInv, JournalKeeps, JournalIsTyped, PTL DEF JournalSpec
  <2> QED
    BY <2>2, <2>3, <2>4, PTL DEF Behaves
<1>5. Behaves => [](RowTypeOK /\ NewTypeOK /\ MetricsTypeOK)
  <2>1. RowInv => RowTypeOK
    BY DEF RowInv
  <2>2. NewInv => NewTypeOK
    BY DEF NewInv
  <2>3. MetricsInv => MetricsTypeOK
    BY DEF MetricsInv
  <2>4. RowSpec => []RowTypeOK
    BY <2>1, RowInitInv, RowStep, PTL DEF RowSpec
  <2>5. NewSpec => []NewTypeOK
    BY <2>2, NewInitInv, NewKeeps, PTL DEF NewSpec
  <2>6. MetricsSpec => []MetricsTypeOK
    BY <2>3, MetricsInitInv, MetricsKeeps, PTL DEF MetricsSpec
  <2> QED
    BY <2>4, <2>5, <2>6, PTL DEF Behaves
<1>6. Behaves => [](TerminalTypeOK /\ LoginTypeOK)
  <2>1. TerminalInv => TerminalTypeOK
    <3> SUFFICES ASSUME TerminalInv PROVE TerminalTypeOK
      OBVIOUS
    <3>1. ASSUME NEW n \in Sessions PROVE session[n] \in SessionStates
      BY DEF TerminalInv, TerminalTyped
    <3>2. \A u \in Seq(Sizes) : \A i \in DOMAIN u : u[i] \in Sizes
      BY ElementOfSeq, LenProperties
    <3> QED
      BY <3>1, <3>2 DEF TerminalInv, TerminalTyped, TerminalTypeOK, SessionStates
  <2>2. TerminalInit /\ [][TerminalNext]_terminalVars => []TerminalTypeOK
    BY <2>1, TerminalInitInv, TerminalStep, PTL
  <2>3. LoginSpec => []LoginTypeOK
    BY LimiterInitInv, LimiterKeeps, LoginIsTyped, PTL DEF LoginSpec
  <2> QED
    BY <2>2, <2>3, PTL DEF Behaves
<1>7. /\ part \in Parts
      /\ GuardTypeOK /\ DialogTypeOK
      /\ TabTypeOK /\ PaneTypeOK /\ JournalTypeOK
      /\ RowTypeOK /\ NewTypeOK /\ MetricsTypeOK
      /\ TerminalTypeOK /\ LoginTypeOK
      => BrowserTypeOK
  BY DEF BrowserTypeOK
<1> QED
  BY <1>1, <1>2, <1>3, <1>4, <1>5, <1>6, <1>7, PTL

\* What the parts promise, of the pages as a whole.
Promises == /\ GuardTracksServer /\ PaneShowsItsLog /\ JournalShowsOneSource /\ DialogsShowOnce
            /\ HandTypedIdKept /\ DerivedIdFits /\ ButtonMatchesSession /\ PtySizeSettles
            /\ LogoutIsFinal /\ DeadlineSlides /\ AttemptsAreBounded

\* main.ts: the pages keep every promise that a part keeps alone.
THEOREM PagesKeepPromises ==
  BrowserSpec => []Promises /\ TabSurvivesReload /\ OnlyConfirmed
                 /\ SaveChangesOnlyWhatIsShown /\ RatesAreBounded
<1>1. TerminalInit /\ [][TerminalNext]_terminalVars => [](ButtonMatchesSession /\ PtySizeSettles)
  <2>1. TerminalInv => ButtonMatchesSession /\ PtySizeSettles
    BY DEF TerminalInv, TerminalTyped, LastSizeIsCurrent, PtySizeSettles
  <2> QED
    BY <2>1, TerminalInitInv, TerminalStep, PTL
<1>2. Behaves => [](GuardTracksServer /\ PaneShowsItsLog /\ JournalShowsOneSource /\ DialogsShowOnce)
  BY GuardTracks, PaneShows, OneSource, ShownOnce, PTL DEF Behaves
<1>3. Behaves => [](HandTypedIdKept /\ DerivedIdFits /\ LogoutIsFinal /\ DeadlineSlides /\ AttemptsAreBounded)
  BY HandTyped, DerivedFits, LogoutFinal, Slides, AttemptsBounded, PTL DEF Behaves
<1>4. Behaves => [](ButtonMatchesSession /\ PtySizeSettles)
  BY <1>1, PTL DEF Behaves
<1>5. Behaves => TabSurvivesReload /\ OnlyConfirmed /\ SaveChangesOnlyWhatIsShown /\ RatesAreBounded
  BY TabSurvives, Confirmed, SavesWhatIsShown, RatesBounded, PTL DEF Behaves
<1>6. /\ GuardTracksServer /\ PaneShowsItsLog /\ JournalShowsOneSource /\ DialogsShowOnce
      /\ HandTypedIdKept /\ DerivedIdFits /\ LogoutIsFinal /\ DeadlineSlides /\ AttemptsAreBounded
      /\ ButtonMatchesSession /\ PtySizeSettles
      => Promises
  BY DEF Promises
<1> QED
  BY PartsBehave, <1>2, <1>3, <1>4, <1>5, <1>6, PTL
=============================================================================
