CONSTANTS
  a = a
  b = b
  t1 = t1
  t2 = t2
  c = c
  Names = {a}
  GitNames = {a}
  EnvDisabled = {}
  Tasks = {t1, t2}
  App = App
  NoName = NoName
  Commands = {c}
  CommandSets <- BothCommandSets
  MaxGen = 3
  Faults = {"plugin", "gone", "crash", "slow"}
SPECIFICATION FairSpec
INVARIANT DisabledStaysDown
PROPERTIES OperationsReturn RefinesPluginService
