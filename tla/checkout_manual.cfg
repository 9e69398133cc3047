SPECIFICATION Spec
CONSTANTS
  Checkouts = {c1, c2}
  Browsers = {}
  Staff = {t1, t2}
  MaxId = 3
  MaxCrashes = 0
  BankReports = FALSE
  c1 = c1
  c2 = c2
  b1 = b1
  b2 = b2
  t1 = t1
  t2 = t2
SYMMETRY Interchangeable
INVARIANT OnePaymentOneOrder
PROPERTY KeepsPurchase
