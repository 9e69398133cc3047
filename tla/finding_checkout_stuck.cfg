SPECIFICATION Spec
CONSTANTS
  std = std
  pro = pro
  Products = {std, pro}
  GiftOnly = {}
  Gifts <- MCGifts
  Prices = {1, 3}
  Carts <- MCCarts
  Values = {0, 5000, 20000}
  Bundles <- MCBundles
  GroupForms <- MCGroupForms
  Openings <- MCOpenings
  MaxChanges = 2
INVARIANT
  CheckoutCanBecomeOrder
CHECK_DEADLOCK FALSE
