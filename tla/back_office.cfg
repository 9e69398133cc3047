SPECIFICATION MCSpec
CONSTANTS
  StaffIds = {1, 2}
  CustomerIds = {1}
  Addresses <- Typed
  Folded <- SomeFolded
  Requests = {r1, r2}
  StaffEdits <- SomeEdits
  Openings <- SomeOpenings
  MaxLinks = 2
  MaxRequests = 4
  Sources = {"10.0.0.1", "10.0.0.2"}
  Names <- Typed
  Lower <- SomeFolded
  MAX_ATTEMPTS = 3
  WINDOW = 2
  LOCKOUT = 2
  PRUNE_THRESHOLD = 2
  Stocks <- SomeStocks
  Questions <- SomeQuestions
  Figures = {1, 20}
  Setups <- SomeSetups
  Amounts = {5, 1234567}
  Bills <- SomeBills
  Moments = {7, 1999999}
  Editors = {r1, r2}
  Storerooms <- SomeStorerooms
  Titles = {"B"}
  PriceForms <- SomePriceForms
  ProductForms <- SomeProductForms
  ItemForms <- SomeItemForms
  GroupForms <- SomeGroupForms
  MaxEdits = 3
  None = None
  NoEntry = NoEntry
  r1 = r1
  r2 = r2
  quote = quote
  payment = payment
  Alerts = {quote, payment}
SYMMETRY Interchangeable
CHECK_DEADLOCK FALSE
INVARIANTS
  LinkMatchesAddress
  ReplacedStaysReplaced
  GuessesAreBounded
  LockoutIsEarned
  PagesPartition
  FacetsPromiseWhatAClickYields
  MaskedLearnNothing
  QrReadsBack
  ListCoversPrice
  SlotIsWaiting
  RepeatsWereUnheard
PROPERTIES
  FlagsFollowTheirKeepers
  LastManagerGoesByItsOwnHand
  EveryWriteIsTold
  EntriesAreTrue
