SPECIFICATION MCSpec
CONSTANTS
  Tabs = {b1}
  Staff = {t1, t2}
  Admins = {t1, t2}
  Bot = {m1}
  MaxQr = 1
  Totals = {low, high}
  Same = Same
  b1 = b1
  t1 = t1
  t2 = t2
  m1 = m1
  low = low
  high = high
SYMMETRY Interchangeable
CHECK_DEADLOCK FALSE
INVARIANTS
  ColumnsAgree
  SettledHasEvidence
PROPERTY QrFollowsTotal
