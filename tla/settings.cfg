SPECIFICATION Spec
CONSTANTS
  Procs = {p1, p2}
  Requests = {r1, r2}
  SETTINGS <- SomeSettings
  Forms <- SomeForms
  Groups <- SomeGroups
  TTL = 2
  Span = 1
  MaxSaves = 2
  p1 = p1
  p2 = p2
  r1 = r1
  r2 = r2
INVARIANTS
  AnswersAreSaves
  AnswersAreRecent
PROPERTY EveryProcessCatchesUp
