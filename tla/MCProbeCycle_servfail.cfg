SPECIFICATION Spec
CONSTANTS
  n1 = n1
  n2 = n2
  m = m
  a1 = a1
  a2 = a2
  x1 = x1
  z1 = z1
  z2 = z2
  Dot = Dot
  NoHost = NoHost
  NoIP = NoIP
  NotNS = NotNS
  Root = Root
  Nil = Nil
  Zone = z1
  Zones = {z1, z2}
  Addrs = {a1, a2, x1}
  V4 = {a1, a2}
  ValidNames = {n1, m}
  WalkHops = 3
  Hosts <- SomeHosts
  Sorted <- InOrder
  WalkReplies <- SomeWalkReplies
  Lookups <- SomeLookups
  Answers <- SomeAnswers
  ProberSets <- SomeProberSets
  CfgZones <- SomeZones
  Others <- SomeOthers
  Stale <- LastCycle
INVARIANT MXFailureIsNotAbsence
CHECK_DEADLOCK FALSE
