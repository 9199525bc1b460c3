SPECIFICATION MCSpec
CONSTANTS
  None = None
  t1 = t1  ann = ann  bob = bob  d1 = d1  std = std  vip = vip
  c1 = c1  c2 = c2  x1 = x1  x2 = x2  x3 = x3
  Exchanges = {x1, x2, x3}
  Order <- OneTicket
  Tickets = {t1}
  Types = {std, vip}
  Price <- TwoPrices
  Persons = {ann, bob}
  Buyer = ann
  Scanners = {d1}
  MaxRef = 2
  MaxFaults = 1
  Acts = {"invite", "transfer", "refund", "staff", "exchange"}
  Codes = {c1, c2}
  Devices = {d1}
  MaxJobs = 2
  MaxIn = 2
  MaxLapses = 1
INVARIANTS TypesOK CheckedInHasNoRefund BothConsented TransferExcludesReturn AmountMatchesMoney ExchangedOnce
  OfflineOnce NothingUnsent
SYMMETRY Alike
CHECK_DEADLOCK FALSE
