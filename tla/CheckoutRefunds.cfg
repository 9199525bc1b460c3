SPECIFICATION Spec
CONSTANTS
  None = None
  w1 = w1  w2 = w2  r1 = r1  r2 = r2  std = std  vip = vip  ann = ann  bob = bob
  Refs = {r1}
  Types = {std}
  Persons = {ann}
  Workers = {w1}
  MaxTickets = 2
  MaxQty = 2
  TypeOf <- AllStd
  BuyerOf <- TwoBuyers
  QtyOf <- TwoEach
  Quantity <- TwoPlaces
  PersonLimit <- TwoPlaces
  Capacity = 2
  SlowClaims = FALSE
  MaxFaults = 2
  MaxDash = 1
  Disputes = {r1}
  PayOutcomes = {"paid"}
  RefundStarts = {"pending", "succeeded"}
  Guests = {}
INVARIANTS AdmissionWithinMoneyKept DisputedAdmitsNobody
CHECK_DEADLOCK FALSE
