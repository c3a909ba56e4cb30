\* Two users in one source, two parse requests at once, a job over the queue; the job is fair.
SPECIFICATION FairSpec
CONSTANTS
  Users = {u1, u2}
  Sources = {s1}
  Parsers = {p1, p2}
  NoUser = NoUser
  NoSource = NoSource
  NoParser = NoParser
  Members <- Shared
  Limits = {0, 1}
  MaxId = 3
  MaxAttempts = 2
INVARIANTS TypeOK AttemptsBounded RefusalRespected StopIsPrompt ParsedWasQueued
PROPERTIES JobRemovesItsOwn JobEnds
