\* Two slot objects, one chat, limits up to 1, two loops alive together.
SPECIFICATION Spec
CONSTANTS
  Chats = {c1}
  Tasks = {t1, t2}
  Objs = {o1, o2}
  Requests = {r1}
  Other = Other
  NoTask = NoTask
  NoObj = NoObj
  NoChat = NoChat
  MaxLimit = 1
  MaxSent = 2
  StopOnStart = FALSE
SYMMETRY Symmetry
INVARIANTS TypeOK OvershootBounded OperatorWins RegistryConsistent RunningIsServed
PROPERTY KeepsQuota
