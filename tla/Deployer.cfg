\* Two operations at a time, three ports of which none is taken by others.
SPECIFICATION Spec
CONSTANTS
  Tasks = {t1, t2}
  DefaultPort = 1
  OtherPorts = {2, 3}
  Foreign = {}
  NoPort = 0
  Hours = {0, 1}
SYMMETRY Symmetry
INVARIANTS TypeOK RunningIsReachable DeployingIsUnderway TimerFollows
