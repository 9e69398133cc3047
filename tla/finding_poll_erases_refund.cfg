SPECIFICATION MCSpec
CONSTANTS
  Tabs = {b1}
  Staff = {t1}
  Admins = {t1}
  Bot = {}
  MaxQr = 1
  Totals = {low}
  Same = Same
  b1 = b1
  t1 = t1
  t2 = t2
  m1 = m1
  low = low
  high = high
SYMMETRY Interchangeable
CHECK_DEADLOCK FALSE
PROPERTY RefundStands
