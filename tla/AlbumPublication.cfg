SPECIFICATION MCSpec
CONSTANTS
  None = None  Manifest = Manifest
  p1 = p1  p2 = p2  a1 = a1  a2 = a2  w1 = w1  w2 = w2
  Photos = {p1, p2}
  Admins = {a1, a2}
  Workers = {w1, w2}
  MaxRev = 3
  MaxAttempts = 2
  BatchLimit = 1
  MaxFaults = 0
  Intents = {"create", "publish", "unpublish", "edit", "remove", "upload", "deleteAlbum", "focal"}
  Instances = {"partial", "takeover"}
SYMMETRY Symmetric
INVARIANTS PublishedIsServed OnlyPublishedIsPublic
CHECK_DEADLOCK FALSE
