SPECIFICATION Spec
CONSTANTS
  None = None
  w1 = w1  w2 = w2  r1 = r1  r2 = r2  std = std  vip = vip  ann = ann  bob = bob
  Refs = {r1}
  Types = {std}
  Persons = {ann}
  Workers = {w1, w2}
  MaxTickets = 4
  MaxQty = 2
  TypeOf <- AllStd
  BuyerOf <- TwoBuyers
  QtyOf <- TwoEach
  Quantity <- FourPlaces
  PersonLimit <- FourPlaces
  Capacity = 4
  SlowClaims = FALSE
  MaxFaults = 2
  MaxDash = 2
  Disputes = {}
  PayOutcomes = {"paid", "processing"}
  RefundStarts = {"succeeded"}
  Guests = {}
SYMMETRY WorkerSymmetry
INVARIANTS OneOrderPerCheckout RefundedMeansReturned
CHECK_DEADLOCK FALSE
