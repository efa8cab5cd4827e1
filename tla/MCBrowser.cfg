CONSTANTS
  Docs = {d1, d2}
  InitialDoc = d1
  Links = {"none", "config", "logs", "revisions", "other"}
  MaxJobs = 2
  MaxLines = 2
  Slots = {s1, s2}
  Sources = {host_unit, container}
  HostSource = host_unit
  MaxJournal = 3
  Backlog = 1
  RowForms = {f1, f2}
  PowerForms = {f3, f4}
  RowNames = {n1, n2}
  RowValues = {v1, v2}
  Metas = {m0, m1}
  DefaultMeta = m0
  Caps = {2, 3}
  MaxText = 4
  HandIds <- HandEntered
  MaxCPU = 4
  MaxTotal = 3
  Cores = 2
  Width = 16
  MaxSessions = 2
  MaxQueue = 2
  Sizes = {big, small}
  FirstSize = big
  LoginHandlers = {h1, h2}
  Tokens = {t1, t2}
  TTL = 3
  TouchAfter = 1
  MaxFails = 1
  Window = 2
  MaxTime = 5
SPECIFICATION BrowserSpec
INVARIANTS
  BrowserTypeOK
  GuardTracksServer
  PaneShowsItsLog
  JournalShowsOneSource
  DialogsShowOnce
  
  DerivedIdFits
  ButtonMatchesSession
  PtySizeSettles
  LogoutIsFinal
  
  AttemptsAreBounded
PROPERTIES
  TabSurvivesReload
  OnlyConfirmed
  
  
  EveryShellIsReaped
CHECK_DEADLOCK FALSE
