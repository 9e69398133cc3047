SPECIFICATION Spec
CONSTANTS
  Checkouts = {c1, c2}
  Browsers = {b1}
  Staff = {t1}
  MaxId = 3
  MaxCrashes = 1
  BankReports = TRUE
  c1 = c1
  c2 = c2
  b1 = b1
  b2 = b2
  t1 = t1
  t2 = t2
SYMMETRY Interchangeable
INVARIANTS
  NextNumberIsFree
  ConfirmIsExclusive
  OrderNeedsPayment
