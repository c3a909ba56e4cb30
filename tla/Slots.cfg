SPECIFICATION Spec
CONSTANTS
  Slots = {d, s1, s2}
  Default = d
  NoSlot = NoSlot
  Env = {s1}
  Objs = {o1, o2, o3, o4, o5}
  NoObj = NoObj
  Requests = {r1, r2}
  Admins = {a1, a2}
  NoAdmin = NoAdmin
  Configured = {d, s1}
  MaxCalls = 3
  MaxRestarts = 2
INVARIANTS FileIsWhole SlotsAsAnswered ShownIsActive AnswerLandsWhereAsked SendsForItsSlot NothingLeftBehind
CHECK_DEADLOCK FALSE
SYMMETRY Symmetry
