CONSTANTS
  LoginHandlers = {h1}
  Tokens = {t1}
  TTL = 3
  TouchAfter = 1
  MaxFails = 1
  Window = 2
  MaxTime = 5
SPECIFICATION LoginSpec
INVARIANTS
  CookieSlides
CHECK_DEADLOCK FALSE
