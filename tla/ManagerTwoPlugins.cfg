CONSTANTS
  a = a
  b = b
  t1 = t1
  t2 = t2
  c = c
  Names = {a, b}
  GitNames = {}
  EnvDisabled = {}
  Tasks = {t1, t2}
  App = App
  NoName = NoName
  Commands = {c}
  CommandSets <- BothCommandSets
  MaxGen = 3
  Faults = {}
SPECIFICATION Spec
SYMMETRY Symmetry
INVARIANTS Served CommandsOwned ShutdownStopsAll
