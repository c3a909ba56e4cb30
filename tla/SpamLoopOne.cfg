\* The comment "one spam_loop for each slot" against what restarting does.
SPECIFICATION Spec
CONSTANTS
  Chats = {c1}
  Tasks = {t1, t2, t3}
  Objs = {o1}
  Requests = {r1}
  Other = Other
  NoTask = NoTask
  NoObj = NoObj
  NoChat = NoChat
  MaxLimit = 0
  MaxSent = 1
  StopOnStart = FALSE
INVARIANT OneLoopPerSlot
