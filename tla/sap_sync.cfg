SPECIFICATION FairSpec
CONSTANTS
  Codes = {a, b, c}
  Jobs = {Button, Nightly}
  Button = Button
  Nightly = Nightly
  Remote = {Button}
  Group <- SomeGroups
  Num = 1
  Den = 2
  a = a
  b = b
  c = c
INVARIANTS
  BusyWhileAlive
  SuccessIsComplete
PROPERTIES
  HidesFew
  OwnRowsOnly
  GoodsGoToTheirGroup
  RunEnds
