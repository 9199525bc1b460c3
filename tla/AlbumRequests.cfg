SPECIFICATION MCFairSpec
CONSTANTS
  None = None  Manifest = Manifest
  p1 = p1  p2 = p2  a1 = a1  a2 = a2  w1 = w1  w2 = w2
  Photos = {p1}
  Admins = {a1}
  Workers = {w1}
  MaxRev = 4
  MaxAttempts = 2
  BatchLimit = 1
  MaxFaults = 2
  Intents = {"create", "publish", "unpublish", "edit", "remove", "upload", "deleteAlbum", "focal"}
  Instances = {"ends", "again", "deleted", "card"}
INVARIANTS AlbumTypeOK
PROPERTIES PublicationEnds QueueDrains
CHECK_DEADLOCK FALSE
