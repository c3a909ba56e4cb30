SPECIFICATION FairSpec
CONSTANTS
  Chats = {c1, c2}
  NoChat = NoChat
  Watched = {c1}
  Lens = {1, 2}
  Jits = {0, 1}
  Delays = {0, 3}
  Holds = {3}
  MaxEdits = 2
INVARIANTS TimersFollow
PROPERTIES SendsSpaced WaitsKept EveryChatGetsATurn
