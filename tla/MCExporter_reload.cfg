SPECIFICATION Spec
CONSTANTS
  a = a
  b = b
  root1 = root1
  root2 = root2
  direct = direct
  table = table
  Zones = {a, b}
  RootLists = {root1, root2}
  DefaultRoots = root1
  NoRoots = NoRoots
  Overrides = {direct, table}
  NoOverrides = direct
  Configs <- SmallConfigs
  BadFile = BadFile
  Sighup = Sighup
  HttpReloads = {h1}
  Scrapers = {}
  Nil = Nil
  MaxCycles = 2
  MaxReloads = 2
  MayStop = TRUE
INVARIANTS
  TypeOK
  FreshDelegationsAreCurrent
  StaleOnlyFromInterruptedCycle
CHECK_DEADLOCK FALSE
