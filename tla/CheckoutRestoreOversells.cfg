SPECIFICATION Spec
CONSTANTS
  None = None
  w1 = w1  w2 = w2  r1 = r1  r2 = r2  std = std  vip = vip  ann = ann  bob = bob
  Refs = {r1, r2}
  Types = {std}
  Persons = {ann, bob}
  Workers = {w1, w2}
  MaxTickets = 2
  MaxQty = 1
  TypeOf <- AllStd
  BuyerOf <- TwoBuyers
  QtyOf <- OneEach
  Quantity <- OnePlace
  PersonLimit <- OnePlace
  Capacity = 1
  SlowClaims = FALSE
  MaxFaults = 0
  MaxDash = 0
  Disputes = {r1}
  PayOutcomes = {"paid"}
  RefundStarts = {"succeeded"}
  Guests = {}
SYMMETRY WorkerSymmetry
INVARIANTS NoOversell
CHECK_DEADLOCK FALSE
