-------------------------- MODULE MCAlbumPublication --------------------------
(* Model values for AlbumPublication, and the instances that are too large  *)
(* together, chosen one by one in the initial state:                        *)
(*   "partial"   an album of two photos, one administrator, one worker;     *)
(*   "takeover"  an album of one photo, two administrators, two workers;    *)
(*   "ends"      publication and its withdrawal, with faults;               *)
(*   "again"     a photo removed, uploaded and published again;             *)
(*   "deleted"   an album published, deleted and created again;             *)
(*   "card"      the social card of a photo redrawn.                        *)
EXTENDS AlbumPublication, TLC
CONSTANTS p1, p2, a1, a2, w1, w2, Instances

VARIABLE instance
mcvars == <<vars, instance>>

Symmetric == Permutations(Photos)

Asking(intents) == \A a \in Admins : admin[a].intent \in intents \cup {"none"}

MCInit ==
  /\ Init
  /\ instance \in Instances
  /\ instance = "partial" => Cardinality(album.photos) = 2
  /\ instance = "takeover" => Cardinality(album.photos) = 1
MCNext ==
  /\ IF instance = "takeover" THEN Next ELSE NextOf({a1}, {w1})
  /\ instance = "partial" => Asking({"publish", "unpublish", "remove"})'
  /\ instance = "takeover" => Asking({"edit", "publish", "unpublish"})'
  /\ instance = "ends" => Asking({"publish", "unpublish"})'
  /\ instance = "again" => Asking({"remove", "upload", "publish"})' /\ faults' = 0
  /\ instance = "deleted" => /\ Asking({"create", "publish", "deleteAlbum"})'
                             /\ faults' = 0 /\ album'.rev < MaxRev
  /\ instance = "card" => Asking({"focal", "publish", "unpublish"})' /\ faults' = 0 /\ album'.rev < MaxRev
  /\ UNCHANGED instance

MCSpec == MCInit /\ [][MCNext]_mcvars
MCFairSpec == MCSpec /\ Fairness
=============================================================================
