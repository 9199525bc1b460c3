SPECIFICATION Spec
CONSTANTS
  None = None
  w1 = w1  w2 = w2  r1 = r1  r2 = r2  std = std  vip = vip  ann = ann  bob = bob
  Refs = {r1}
  Types = {std}
  Persons = {ann}
  Workers = {w1, w2}
  MaxTickets = 2
  MaxQty = 1
  TypeOf <- AllStd
  BuyerOf <- TwoBuyers
  QtyOf <- OneEach
  Quantity <- TwoPlaces
  PersonLimit <- TwoPlaces
  Capacity = 2
  SlowClaims = TRUE
  MaxFaults = 0
  MaxDash = 0
  Disputes = {}
  PayOutcomes = {"paid"}
  RefundStarts = {"succeeded"}
  Guests = {}
SYMMETRY WorkerSymmetry
INVARIANTS OneOrderPerCheckout
CHECK_DEADLOCK FALSE
