SPECIFICATION Spec
CONSTANTS
  Users = {u1, u2}
  Emails = {e1, e2}
  Telegrams = {g1, g2}
  RegTokens = {t1, t2}
  ResetTokens = {r1}
  Bots = {b1}
  NoOne = NoOne
  MaxRestarts = 1
  MaxFailed = 1
  MaxClicks = 3
SYMMETRY Symmetry
INVARIANTS OneAccountEach PasswordConfirmed TokenUsedOnce DeletedLeaveNothing ClickCounts
CHECK_DEADLOCK FALSE
