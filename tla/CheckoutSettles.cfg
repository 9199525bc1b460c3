SPECIFICATION FairSpec
CONSTANTS
  None = None
  w1 = w1  w2 = w2  r1 = r1  r2 = r2  std = std  vip = vip  ann = ann  bob = bob
  Refs = {r1}
  Types = {std}
  Persons = {ann}
  Workers = {w1}
  MaxTickets = 2
  MaxQty = 1
  TypeOf <- AllStd
  BuyerOf <- TwoBuyers
  QtyOf <- OneEach
  Quantity <- OnePlace
  PersonLimit <- OnePlace
  Capacity = 1
  SlowClaims = FALSE
  MaxFaults = 2
  MaxDash = 1
  Disputes = {}
  PayOutcomes = {"paid", "processing", "mismatch"}
  RefundStarts = {"pending", "succeeded"}
  Guests = {}
PROPERTIES PaidIsAnswered
CHECK_DEADLOCK FALSE
