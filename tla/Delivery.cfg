SPECIFICATION Spec
CONSTANTS
  NoMail = NoMail  NoRows = NoRows
  ann = ann  bob = bob  a = a  b = b  m1 = m1  m2 = m2  vote = vote
  People = {ann, bob}
  TypeOrder <- TwoTypes
  Quantity <- OnePlaceEach
  Capacities = {1, 2}
  ScopesAsked = {a, "event"}
  MaxFreed = 2
  Mails = {m1, m2}
  Recipient <- Addressee
  Couriers = {1, 2}
  MaxAttempts = 2
  Controls = {vote}
  MaxSequence = 3
  MaxIntents = 2
  MaxLosses = 2
  Blips = 2
INVARIANTS TypesOK AlertsWithinPlaces ToldIsQueued OfferedIsFree
  MeantOnceHappensOnce AcceptedHappened LiveRoomGoesOn
PROPERTIES FirstComeFirstTold NoPlaceLost MailSettles PageCatchesUp
CHECK_DEADLOCK FALSE
