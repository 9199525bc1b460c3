----------------------- MODULE AlbumPublicationProofs -----------------------
(***************************************************************************)
(* One album's photos, for any photos, administrators, workers, revisions  *)
(* and faults: a published album is served whole, and what is withdrawn is *)
(* gone once the queue is empty.                                           *)
(*                                                                         *)
(* Three things carry the argument.  A write takes a revision later than   *)
(* that of every operation there is, so its own operations are new.  What  *)
(* a request read is true as long as the revision it read stands.  And the *)
(* reference check of a call holds until the call is settled, since both   *)
(* are under the lock a write needs.                                       *)
(***************************************************************************)
EXTENDS AlbumPublication, TLAPS

Absent == album.status = "absent"
InPublic(status) == status \in {"publishing", "published"}

(* An entry's revision is no earlier than that of any operation; without   *)
(* an entry there are no photos.                                           *)
RevisionsGrow ==
  IF Absent THEN album = NoAlbum
            ELSE album.rev \in Revs /\ \A o \in Existing : o.rev <= album.rev

(* What a request read is of an earlier revision, or still true, except    *)
(* that a publication may have ended since.  After the deletion of an      *)
(* album its operations tell that the revision is an earlier one.          *)
SnapTrue(a) ==
  LET snap == admin[a].snap IN
  admin[a].pc # "idle" =>
    /\ admin[a].pc = "latest" => admin[a].intent = "upload"
    /\ admin[a].intent = "create" <=> snap.status = "absent"
    /\ admin[a].intent = "publish" => snap.photos # {}
    /\ snap.status # "absent" =>
         IF Absent THEN \E o \in Existing : o.rev > snap.rev
         ELSE /\ snap.rev <= album.rev
              /\ snap.rev = album.rev =>
                   /\ snap.photos = album.photos
                   /\ \/ snap.status = album.status
                      \/ snap.status = "publishing" /\ album.status = "published"

(* Under the lock the reference stays as it was checked, and the bucket as *)
(* the call left it.                                                       *)
CallTrue(w) ==
  /\ worker[w].pc # "idle" => worker[w].claim \in Queue!ClaimToken
  /\ worker[w].pc \in {"call", "settle"} => ~Refused(Op(w))
  /\ worker[w].pc = "settle" /\ Wanted(Op(w)) => Op(w).key \in pub

(* A publication has a copy for each of its photos, and those completed    *)
(* are there.                                                              *)
CopiesTrue ==
  album.status = "publishing" =>
    \A p \in album.photos :
      /\ ops[CopyOp(album.rev, p)].status # "absent"
      /\ ops[CopyOp(album.rev, p)].status = "completed" => p \in pub

(* The inductive invariant of the published album. *)
ServedInv ==
  /\ AlbumTypeOK /\ RevisionsGrow /\ CopiesTrue /\ PublishedIsServed
  /\ \A a \in Admins : SnapTrue(a)
  /\ \A w \in Workers : CallTrue(w)

(* A deletion from the public bucket is still to be carried out. *)
Doomed(p) == \E o \in OpenDeletes : o.scope = "public" /\ o.key = p

(* What is in the public bucket is on show, about to be, or to be deleted. *)
PublicTrue ==
  \A p \in pub : (InPublic(album.status) /\ p \in album.photos) \/ Doomed(p)

(* A publication that has not ended has a copy left to make. *)
WorkLeft ==
  album.status = "publishing" =>
    \E c \in AlbumOps : /\ c.kind = "copy" /\ c.rev = album.rev
                        /\ ops[c].status \notin {"absent", "completed"}

(* Nobody puts back what was deleted under the lock that is still held. *)
DeleteDone ==
  \A w \in Workers : worker[w].pc = "settle" /\ Op(w).kind = "delete" /\ Op(w).scope = "public"
                       => Op(w).key \notin pub

(* The inductive invariant of the withdrawal. *)
Withdraws == PublicTrue /\ WorkLeft /\ DeleteDone
HiddenInv == ServedInv /\ Withdraws

-----------------------------------------------------------------------------
(* The requests, up to their write. *)

AskSome(a) ==
  \/ AskCreate(a) \/ AskPublish(a) \/ AskUnpublish(a) \/ AskEdit(a) \/ AskRemove(a)
  \/ AskUpload(a) \/ AskDelete(a) \/ AskFocal(a)

(* A request begins by reading the album: a creation finds none, every     *)
(* other request an entry, and a publication photos to publish.            *)
LEMMA AskAny ==
  ASSUME NEW a \in Admins, AlbumTypeOK, RevisionsGrow, AskSome(a)
  PROVE  \E intent \in Intents, set \in SUBSET Photos, pc \in {"write", "bytes", "list"} :
           /\ Ask(a, intent, set, pc)
           /\ intent = "create" <=> album.status = "absent"
           /\ intent = "publish" => album.photos # {}
  <1>a. album.photos \subseteq Photos
    BY DEF AlbumTypeOK, Snapshot
  <1>1. CASE AskCreate(a)
    BY <1>1 DEF AskCreate, Ask
  <1>2. CASE AskPublish(a)
    BY <1>2 DEF AskPublish, Ask
  <1>3. CASE AskUnpublish(a)
    BY <1>3 DEF AskUnpublish, Ask
  <1>4. CASE AskEdit(a)
    BY <1>4 DEF AskEdit, Ask
  <1>5. CASE AskRemove(a)
    <2>1. PICK set \in SUBSET album.photos : set # {} /\ Ask(a, "remove", set, "write")
      BY <1>5 DEF AskRemove
    <2>2. set \in SUBSET Photos /\ "remove" \in Intents /\ album.photos # {}
      BY <2>1, <1>a DEF Ask
    <2>3. album.status # "absent"
      BY <2>2 DEF RevisionsGrow, Absent, NoAlbum
    <2> QED
      BY <2>1, <2>2, <2>3
  <1>6. CASE AskUpload(a)
    BY <1>6 DEF AskUpload, Ask
  <1>7. CASE AskDelete(a)
    BY <1>7 DEF AskDelete, Ask
  <1>8. CASE AskFocal(a)
    <2>1. PICK p \in album.photos : Ask(a, "focal", {p}, "bytes")
      BY <1>8 DEF AskFocal
    <2>2. {p} \in SUBSET Photos /\ "focal" \in Intents /\ album.photos # {}
      BY <2>1, <1>a DEF Ask
    <2>3. album.status # "absent"
      BY <2>2 DEF RevisionsGrow, Absent, NoAlbum
    <2> QED
      BY <2>1, <2>2, <2>3
  <1> QED
    BY <1>1, <1>2, <1>3, <1>4, <1>5, <1>6, <1>7, <1>8 DEF AskSome

(* The administrators' rows of AlbumTypeOK. *)
AdminState ==
  [pc : {"idle", "bytes", "latest", "list", "write"},
   intent : Intents \cup {"none"}, set : SUBSET Photos,
   snap : Snapshot, inPub : SUBSET Photos, inPriv : SUBSET Photos]

(* An administrator without a request. *)
LEMMA IdleTyped == IdleAdmin \in AdminState
  <1>1. NoAlbum \in Snapshot
    BY AlbumAssumption DEF NoAlbum, Snapshot, AlbumStatus
  <1> QED
    BY <1>1 DEF IdleAdmin, AdminState

(* The administrators' steps that leave the catalogue alone. *)
LEMMA AdminsTyped ==
  ASSUME NEW a \in Admins, AlbumTypeOK, RevisionsGrow,
         AskSome(a) \/ UploadBytes(a) \/ ReadLatest(a) \/ UploadCard(a) \/ ListObjects(a)
         \/ GiveUp(a)
  PROVE  AlbumTypeOK'
  <1>a. admin \in [Admins -> AdminState] /\ admin[a] \in AdminState
    BY DEF AlbumTypeOK, AdminState
  <1>s. /\ admin[a].set \subseteq Photos /\ album \in Snapshot
        /\ pub \subseteq Photos /\ priv \subseteq Photos
    BY <1>a DEF AlbumTypeOK, AdminState
  <1>1. CASE AskSome(a)
    <2>1. PICK intent \in Intents, set \in SUBSET Photos, pc \in {"write", "bytes", "list"} :
            Ask(a, intent, set, pc)
      BY <1>1, AskAny
    <2>2. [IdleAdmin EXCEPT !.pc = pc, !.intent = intent, !.set = set, !.snap = album]
            \in AdminState
      BY <1>s, IdleTyped DEF AdminState
    <2>3. admin' \in [Admins -> AdminState]
      BY <2>1, <2>2, <1>a DEF Ask
    <2> QED
      BY <2>1, <2>3 DEF Ask, bucket, AlbumTypeOK, AdminState, Queue!OpsTypeOK
  <1>2. CASE UploadBytes(a)
    <2>1. admin' \in [Admins -> AdminState]
      BY <1>2, <1>a DEF UploadBytes, Step, AdminState
    <2> QED
      BY <1>2, <2>1, <1>s DEF UploadBytes, catalogue, AlbumTypeOK, AdminState, Queue!OpsTypeOK
  <1>3. CASE ReadLatest(a)
    <2>1. admin' \in [Admins -> AdminState]
      BY <1>3, <1>a, <1>s, IdleTyped DEF ReadLatest, AdminState
    <2> QED
      BY <1>3, <2>1 DEF ReadLatest, catalogue, bucket, AlbumTypeOK, AdminState, Queue!OpsTypeOK
  <1>4. CASE UploadCard(a)
    <2>1. admin' \in [Admins -> AdminState]
      BY <1>4, <1>a DEF UploadCard, Step, AdminState
    <2> QED
      BY <1>4, <2>1, <1>s DEF UploadCard, catalogue, AlbumTypeOK, AdminState, Queue!OpsTypeOK
  <1>5. CASE ListObjects(a)
    <2>1. admin' \in [Admins -> AdminState]
      BY <1>5, <1>a, <1>s DEF ListObjects, AdminState
    <2> QED
      BY <1>5, <2>1 DEF ListObjects, catalogue, bucket, AlbumTypeOK, AdminState, Queue!OpsTypeOK
  <1>6. CASE GiveUp(a)
    <2>1. admin' \in [Admins -> AdminState]
      BY <1>6, <1>a, IdleTyped DEF GiveUp
    <2> QED
      BY <1>6, <2>1 DEF GiveUp, catalogue, bucket, AlbumTypeOK, AdminState, Queue!OpsTypeOK
  <1> QED
    BY <1>1, <1>2, <1>3, <1>4, <1>5, <1>6

-----------------------------------------------------------------------------
(* The writes. *)

(* A new revision is later than every operation there is. *)
LEMMA RevisionIsFresh ==
  ASSUME AlbumTypeOK, RevisionsGrow, NEW rev \in Revs, NextRev(rev)
  PROVE  /\ \A o \in Existing : o.rev < rev
         /\ ~Absent => album.rev < rev
  <1>1. MaxRev \in Nat /\ \A o \in AlbumOps : o.rev \in Revs
    BY AlbumAssumption DEF AlbumOps
  <1>2. \A o \in Existing : o \in AlbumOps
    BY DEF Existing
  <1>3. CASE Absent
    BY <1>1, <1>2, <1>3 DEF NextRev, Absent, Revs
  <1>4. CASE ~Absent
    BY <1>1, <1>2, <1>4 DEF NextRev, Absent, RevisionsGrow, Revs
  <1> QED
    BY <1>3, <1>4

(* What a write makes of the album, with the operations it enqueues. *)
WrittenAs(rev, os) ==
  /\ ops' = Queue!Enqueued(os)
  /\ \/ /\ album' = NoAlbum
        /\ DeleteOp(rev, "private", Manifest) \in os
     \/ /\ album'.status # "absent" /\ album'.rev = rev
        /\ album'.status = "publishing" => \A p \in album'.photos : CopyOp(rev, p) \in os
        /\ album'.status = "published" =>
             album.status = "published" /\ album'.photos \subseteq album.photos

(* The deletions of a revision are operations of that revision. *)
LEMMA DeletesAreOps ==
  ASSUME NEW rev \in Revs, NEW scope \in {"public", "private"},
         NEW keys \in SUBSET (Photos \cup {Manifest})
  PROVE  Deletes(rev, scope, keys) \subseteq {o \in AlbumOps : o.rev = rev}
  BY DEF Deletes, DeleteOp, AlbumOps

(* writePostgresAlbum moves to a new revision whose operations it enqueues *)
(* with it, a copy of every photo among them when it begins a publication. *)
LEMMA WriteAlbumShape ==
  ASSUME AlbumTypeOK, NEW snap \in Snapshot, NEW status \in AlbumStatus \ {"absent"},
         NEW photos \in SUBSET Photos, NEW pubDel \in SUBSET Photos, NEW privDel \in SUBSET Photos,
         WriteAlbum(snap, status, photos, pubDel, privDel),
         status = "published" => album.status = "published" /\ photos \subseteq album.photos
  PROVE  \E rev \in Revs, os \in SUBSET AlbumOps :
           /\ NextRev(rev) /\ album' \in Snapshot
           /\ \A o \in os : o.rev = rev
           /\ WrittenAs(rev, os)
  <1>1. PICK rev \in Revs :
       /\ NextRev(rev)
       /\ album' = [status |-> status, rev |-> rev, photos |-> photos]
       /\ ops' = Queue!Enqueued(
            Deletes(rev, "public", pubDel) \cup Deletes(rev, "private", privDel)
              \cup IF status = "publishing" THEN {CopyOp(rev, p) : p \in photos} ELSE {})
    BY DEF WriteAlbum
  <1> DEFINE os == Deletes(rev, "public", pubDel) \cup Deletes(rev, "private", privDel)
              \cup IF status = "publishing" THEN {CopyOp(rev, p) : p \in photos} ELSE {}
  <1>2. \A p \in photos : CopyOp(rev, p) \in AlbumOps /\ CopyOp(rev, p).rev = rev
    BY DEF CopyOp, AlbumOps
  <1>3. /\ Deletes(rev, "public", pubDel) \subseteq {o \in AlbumOps : o.rev = rev}
        /\ Deletes(rev, "private", privDel) \subseteq {o \in AlbumOps : o.rev = rev}
    BY DeletesAreOps
  <1>4. os \in SUBSET AlbumOps /\ \A o \in os : o.rev = rev
    BY <1>2, <1>3
  <1>5. album' \in Snapshot
    BY <1>1, AlbumAssumption DEF Snapshot, Revs
  <1>6. status = "publishing" => \A p \in photos : CopyOp(rev, p) \in os
    OBVIOUS
  <1>7. ops' = Queue!Enqueued(os)
    BY <1>1
  <1> HIDE DEF os
  <1>8. WrittenAs(rev, os)
    BY <1>1, <1>6, <1>7 DEF WrittenAs
  <1> QED
    BY <1>1, <1>4, <1>5, <1>8

(* So does every request, deletePostgresAlbum included.  Only a request    *)
(* that read a published album writes a published one: the revision it is  *)
(* checked against tells that nothing was added since.                     *)
LEMMA WriteShape ==
  ASSUME NEW a \in Admins, AlbumTypeOK, SnapTrue(a), Write(a)
  PROVE  \E rev \in Revs, os \in SUBSET AlbumOps :
           /\ NextRev(rev) /\ album' \in Snapshot
           /\ \A o \in os : o.rev = rev
           /\ WrittenAs(rev, os)
  <1> DEFINE snap == admin[a].snap
             set == admin[a].set
             left == snap.photos \ set
             Goal == \E rev \in Revs, os \in SUBSET AlbumOps :
                       /\ NextRev(rev) /\ album' \in Snapshot
                       /\ \A o \in os : o.rev = rev
                       /\ WrittenAs(rev, os)
  <1>1. /\ snap \in Snapshot /\ set \in SUBSET Photos
        /\ admin[a].inPub \in SUBSET Photos /\ admin[a].inPriv \in SUBSET Photos
    BY DEF AlbumTypeOK
  <1>2. /\ snap.photos \in SUBSET Photos /\ left \in SUBSET Photos /\ {} \in SUBSET Photos
        /\ snap.photos \cup set \in SUBSET Photos
        /\ Withdrawn(snap, set) \in SUBSET Photos
        /\ (IF snap.status = "draft" THEN {} ELSE snap.photos) \in SUBSET Photos
        /\ snap.status \in AlbumStatus /\ album.status \in AlbumStatus
    BY <1>1 DEF Snapshot, Withdrawn, AlbumTypeOK
  <1>3. Requested(a) /\ admin[a].pc = "write"
    BY DEF Write
  <1>4. admin[a].intent # "create" => snap.status # "absent"
    BY <1>3 DEF SnapTrue
  <1>5. ASSUME Writable(snap, snap.status, left) \/ Writable(snap, snap.status, snap.photos),
               snap.status = "published", admin[a].intent # "create"
        PROVE  album.status = "published" /\ snap.photos = album.photos
    BY <1>3, <1>4, <1>5 DEF SnapTrue, Writable, Absent
  <1>6. CASE admin[a].intent = "create" /\ WriteAlbum(snap, "draft", {}, {}, {})
    BY <1>6, <1>1, <1>2, WriteAlbumShape DEF AlbumStatus
  <1>7. CASE admin[a].intent = "publish" /\ WriteAlbum(snap, "publishing", snap.photos, {}, {})
    BY <1>7, <1>1, <1>2, WriteAlbumShape DEF AlbumStatus
  <1>8. CASE admin[a].intent = "unpublish" /\ WriteAlbum(snap, "draft", snap.photos, snap.photos, {})
    BY <1>8, <1>1, <1>2, WriteAlbumShape DEF AlbumStatus
  <1>9. CASE admin[a].intent = "upload"
             /\ WriteAlbum(snap, "draft", snap.photos \cup set,
                           IF snap.status = "draft" THEN {} ELSE snap.photos, {})
    BY <1>9, <1>1, <1>2, WriteAlbumShape DEF AlbumStatus
  <1>10. CASE admin[a].intent = "remove"
              /\ WriteAlbum(snap, IF left = {} \/ snap.status = "publishing" THEN "draft" ELSE snap.status,
                            left, Withdrawn(snap, set), set)
    <2>1. CASE left = {} \/ snap.status = "publishing"
      BY <2>1, <1>10, <1>1, <1>2, WriteAlbumShape DEF AlbumStatus
    <2>2. CASE left # {} /\ snap.status # "publishing"
      <3>1. WriteAlbum(snap, snap.status, left, Withdrawn(snap, set), set)
        BY <2>2, <1>10
      <3>2. snap.status = "published" => album.status = "published" /\ left \subseteq album.photos
        BY <3>1, <1>10, <1>5 DEF WriteAlbum
      <3>3. snap.status \in AlbumStatus \ {"absent"}
        BY <1>2, <1>4, <1>10
      <3> HIDE DEF left, snap, set
      <3> QED
        BY <3>1, <3>2, <3>3, <1>1, <1>2, WriteAlbumShape
    <2> QED
      BY <2>1, <2>2
  <1>11. CASE admin[a].intent = "deleteAlbum"
              /\ DeleteAlbumRow(snap, admin[a].inPub, admin[a].inPriv)
    <2>1. PICK rev \in Revs :
            /\ NextRev(rev)
            /\ album' = NoAlbum
            /\ ops' = Queue!Enqueued(Deletes(rev, "public", admin[a].inPub) \cup
                                Deletes(rev, "private", admin[a].inPriv \cup {Manifest}))
      BY <1>11 DEF DeleteAlbumRow
    <2> DEFINE os == Deletes(rev, "public", admin[a].inPub) \cup
                                Deletes(rev, "private", admin[a].inPriv \cup {Manifest})
    <2>2. /\ Deletes(rev, "public", admin[a].inPub) \subseteq {o \in AlbumOps : o.rev = rev}
          /\ Deletes(rev, "private", admin[a].inPriv \cup {Manifest})
               \subseteq {o \in AlbumOps : o.rev = rev}
      BY <1>1, DeletesAreOps
    <2>3. os \in SUBSET AlbumOps /\ \A o \in os : o.rev = rev
      BY <2>2
    <2>4. DeleteOp(rev, "private", Manifest) \in os
      BY DEF Deletes
    <2>5. ops' = Queue!Enqueued(os)
      BY <2>1
    <2>6. NoAlbum \in Snapshot
      BY AlbumAssumption DEF NoAlbum, Snapshot, AlbumStatus
    <2> HIDE DEF os
    <2>7. WrittenAs(rev, os)
      BY <2>1, <2>4, <2>5 DEF WrittenAs
    <2> QED
      BY <2>1, <2>3, <2>6, <2>7
  <1>12. CASE (admin[a].intent = "edit" \/ admin[a].intent = "focal")
              /\ snap.status # "publishing" /\ WriteAlbum(snap, snap.status, snap.photos, {}, {})
    <2>1. snap.status = "published" => album.status = "published" /\ snap.photos \subseteq album.photos
      BY <1>12, <1>5 DEF WriteAlbum
    <2>2. snap.status \in AlbumStatus \ {"absent"}
      BY <1>2, <1>4, <1>12
    <2> HIDE DEF left, snap, set
    <2> QED
      BY <2>1, <2>2, <1>12, <1>1, <1>2, WriteAlbumShape
  <1> QED
    BY <1>3, <1>6, <1>7, <1>8, <1>9, <1>10, <1>11, <1>12 DEF Requested

(* Enqueueing operations that are not there makes them pending and changes *)
(* no other.                                                               *)
LEMMA EnqueuedOps ==
  ASSUME NEW os \in SUBSET AlbumOps, Queue!OpsTypeOK, ops' = Queue!Enqueued(os),
         held' = held
  PROVE  /\ Queue!OpsTypeOK'
         /\ Existing' = Existing \cup os
         /\ \A o \in AlbumOps : ops[o].status # "absent" => ops'[o] = ops[o]
         /\ \A o \in os : ops[o].status = "absent" => ops'[o].status = "pending"
         /\ \A o \in AlbumOps \ os : ops'[o] = ops[o]
  <1>1. \A o \in AlbumOps : ops[o] \in Queue!OpRow
    BY DEF Queue!OpsTypeOK
  <1>2. \A o \in AlbumOps :
          /\ (o \notin os \/ ops[o].status # "absent") => ops'[o] = ops[o]
          /\ (o \in os /\ ops[o].status = "absent") =>
               ops'[o] = [ops[o] EXCEPT !.status = "pending"]
    BY DEF Queue!Enqueued
  <1>3. \A o \in AlbumOps : (o \in os /\ ops[o].status = "absent") =>
          /\ ops'[o].status = "pending" /\ ops'[o].live = ops[o].live
          /\ ops'[o] \in Queue!OpRow
    BY <1>1, <1>2 DEF Queue!OpRow, Queue!OpStatus
  <1>4. ops' \in [AlbumOps -> Queue!OpRow]
    <2>1. ops' = [o \in AlbumOps |-> ops'[o]]
      BY DEF Queue!Enqueued
    <2> QED
      BY <2>1, <1>1, <1>2, <1>3
  <1>5. \A o \in AlbumOps : ops'[o].live => ops'[o].status = "claimed"
    BY <1>2, <1>3 DEF Queue!OpsTypeOK
  <1>6. Queue!OpsTypeOK'
    BY <1>4, <1>5 DEF Queue!OpsTypeOK, Queue!OpRow, Queue!ClaimToken
  <1>7. Existing' = Existing \cup os
    BY <1>2, <1>3 DEF Existing
  <1> QED
    BY <1>2, <1>3, <1>6, <1>7

(* A catalogue write: no worker is past the lock, and its operations are   *)
(* new, since no earlier operation has their revision.                     *)
LEMMA WriteServes ==
  ASSUME NEW a \in Admins, ServedInv, Write(a)
  PROVE  ServedInv'
  <1>1. PICK rev \in Revs, os \in SUBSET AlbumOps :
           /\ NextRev(rev) /\ album' \in Snapshot
           /\ \A o \in os : o.rev = rev
           /\ WrittenAs(rev, os)
    BY WriteShape DEF ServedInv
  <1>a. /\ lock = None /\ admin' = [admin EXCEPT ![a] = IdleAdmin]
        /\ UNCHANGED <<pub, priv, worker, lock, faults, held>>
    BY DEF Write, bucket
  <1>t. Queue!OpsTypeOK /\ admin \in [Admins -> AdminState]
    BY DEF ServedInv, AlbumTypeOK, AdminState
  <1>2. /\ Queue!OpsTypeOK'
        /\ Existing' = Existing \cup os
        /\ \A o \in os : ops[o].status = "absent" => ops'[o].status = "pending"
    <2>1. ops' = Queue!Enqueued(os) /\ held' = held
      BY <1>1, <1>a DEF WrittenAs
    <2> QED
      BY <2>1, <1>t, EnqueuedOps
  <1>3. /\ \A o \in Existing : o.rev < rev
        /\ ~Absent => album.rev < rev
    BY <1>1, RevisionIsFresh DEF ServedInv
  <1>r. MaxRev \in Nat /\ rev \in Nat /\ album.rev \in Nat
    BY <1>1, AlbumAssumption DEF Revs, ServedInv, AlbumTypeOK, Snapshot
  <1>4. \A o \in os : o \in AlbumOps /\ o.rev = rev /\ ops[o].status = "absent"
                        /\ ops'[o].status = "pending"
    BY <1>1, <1>2, <1>3, <1>r DEF Existing
  <1>5. AlbumTypeOK'
    <2>1. admin' \in [Admins -> AdminState]
      BY <1>a, <1>t, IdleTyped
    <2> QED
      BY <2>1, <1>1, <1>2, <1>a DEF ServedInv, AlbumTypeOK, AdminState, Queue!OpsTypeOK, Queue!ClaimToken
  <1>6. RevisionsGrow'
    <2>1. album'.status # "absent" => album'.rev = rev
      BY <1>1 DEF WrittenAs, NoAlbum
    <2>2. album'.status = "absent" => album' = NoAlbum
      BY <1>1 DEF WrittenAs
    <2>3. \A o \in Existing' : o.rev <= rev
      BY <1>2, <1>3, <1>4, <1>r DEF Existing, AlbumOps, Revs
    <2> QED
      BY <2>1, <2>2, <2>3 DEF RevisionsGrow, Absent
  <1>7. CopiesTrue'
    <2> SUFFICES ASSUME album'.status = "publishing", NEW p \in album'.photos
                 PROVE  /\ ops'[CopyOp(album'.rev, p)].status # "absent"
                        /\ ops'[CopyOp(album'.rev, p)].status # "completed"
      BY DEF CopiesTrue, CopyOp
    <2>1. album'.rev = rev /\ CopyOp(rev, p) \in os
      BY <1>1 DEF WrittenAs, NoAlbum
    <2> QED
      BY <2>1, <1>4
  <1>8. PublishedIsServed'
    BY <1>1, <1>a DEF WrittenAs, NoAlbum, ServedInv, PublishedIsServed
  <1>9. ASSUME NEW b \in Admins
        PROVE  SnapTrue(b)'
    <2>1. CASE b = a
      BY <2>1, <1>a, <1>t DEF SnapTrue, IdleAdmin
    <2>2. CASE b # a
      <3>1. admin'[b] = admin[b] /\ SnapTrue(b)
        BY <2>2, <1>a, <1>t DEF ServedInv
      <3>r. admin[b].snap.rev \in Nat
        BY AlbumAssumption DEF ServedInv, AlbumTypeOK, Snapshot
      <3>2. ASSUME admin[b].pc # "idle", admin[b].snap.status # "absent"
            PROVE  admin[b].snap.rev < rev
        <4>1. CASE Absent
          BY <4>1, <3>1, <3>2, <3>r, <1>3, <1>r DEF SnapTrue, Existing, AlbumOps, Revs
        <4>2. CASE ~Absent
          BY <4>2, <3>1, <3>2, <3>r, <1>3, <1>r DEF SnapTrue
        <4> QED
          BY <4>1, <4>2
      <3>3. ASSUME admin[b].pc # "idle", admin[b].snap.status # "absent"
            PROVE  IF album'.status = "absent"
                     THEN \E o \in Existing' : o.rev > admin[b].snap.rev
                     ELSE admin[b].snap.rev < album'.rev
        <4>1. CASE album' = NoAlbum /\ DeleteOp(rev, "private", Manifest) \in os
          BY <4>1, <3>2, <3>3, <1>2, <1>4, <3>r, <1>r DEF NoAlbum, DeleteOp
        <4>2. CASE album'.status # "absent" /\ album'.rev = rev
          BY <4>2, <3>2, <3>3
        <4> QED
          BY <4>1, <4>2, <1>1 DEF WrittenAs
      <3>4. album'.rev \in Nat
        BY <1>1, AlbumAssumption DEF Snapshot
      <3> QED
        BY <3>1, <3>3, <3>r, <3>4 DEF SnapTrue, Absent
    <2> QED
      BY <2>1, <2>2
  <1>10. ASSUME NEW w \in Workers
         PROVE  CallTrue(w)'
    <2>1. worker[w].pc \notin {"call", "settle"}
      BY <1>a, AlbumAssumption DEF ServedInv, AlbumTypeOK
    <2> QED
      BY <2>1, <1>a DEF CallTrue, ServedInv, Queue!ClaimToken
  <1> QED
    BY <1>5, <1>6, <1>7, <1>8, <1>9, <1>10 DEF ServedInv

-----------------------------------------------------------------------------
(* The workers. *)

(* No operation is enqueued and none completed. *)
OpsKept ==
  \A o \in AlbumOps : /\ ops'[o].status = "absent" <=> ops[o].status = "absent"
                      /\ ops'[o].status = "completed" <=> ops[o].status = "completed"

(* A claim enqueues nothing and completes nothing. *)
LEMMA ClaimKeeps ==
  ASSUME NEW w \in Workers, Queue!OpsTypeOK, Queue!ClaimSome(w)
  PROVE  Queue!OpsTypeOK' /\ OpsKept
  <1>1. PICK os \in SUBSET Queue!ClaimableOps : Queue!Claim(w, os)
    BY DEF Queue!ClaimSome
  <1>2. MaxAttempts \in Nat
    BY AlbumAssumption
  <1>t. \A o \in AlbumOps : ops[o] \in Queue!OpRow
    BY DEF Queue!OpsTypeOK
  <1>3. \A o \in os : /\ o \in AlbumOps /\ ops[o].status \in {"pending", "claimed"}
                      /\ ops[o].attempts + 1 \in 1..MaxAttempts
    BY <1>1, <1>2, <1>t DEF Queue!Claim, Queue!ClaimableOps, Queue!Claimable, Queue!OpRow
  <1>4. \A o \in AlbumOps :
          \/ ops'[o] = ops[o]
          \/ Queue!Exhausted(o) /\ ops'[o] = [ops[o] EXCEPT !.status = "dead"]
          \/ o \in os /\ ops'[o] = [status |-> "claimed", attempts |-> ops[o].attempts + 1, live |-> TRUE]
    BY <1>1 DEF Queue!Claim
  <1>5. ASSUME NEW o \in AlbumOps
        PROVE  /\ ops'[o] \in Queue!OpRow
               /\ ops'[o].live => ops'[o].status = "claimed"
               /\ ops'[o].status = "absent" <=> ops[o].status = "absent"
               /\ ops'[o].status = "completed" <=> ops[o].status = "completed"
    <2>1. CASE ops'[o] = ops[o]
      BY <2>1, <1>t DEF Queue!OpsTypeOK
    <2>2. CASE Queue!Exhausted(o) /\ ops'[o] = [ops[o] EXCEPT !.status = "dead"]
      <3>1. ops[o] \in Queue!OpRow /\ ops[o].status = "claimed" /\ ~ops[o].live
        BY <2>2, <1>t DEF Queue!Exhausted
      <3>2. ops'[o].status = "dead" /\ ops'[o].live = ops[o].live
        BY <2>2, <3>1 DEF Queue!OpRow
      <3>3. ops'[o] \in Queue!OpRow
        BY <2>2, <3>1 DEF Queue!OpRow, Queue!OpStatus
      <3> QED
        BY <3>1, <3>2, <3>3
    <2>3. CASE o \in os /\ ops'[o] = [status |-> "claimed", attempts |-> ops[o].attempts + 1, live |-> TRUE]
      BY <2>3, <1>3, <1>2 DEF Queue!OpRow, Queue!OpStatus
    <2> QED
      BY <1>4, <2>1, <2>2, <2>3
  <1>6. ops' \in [AlbumOps -> Queue!OpRow]
    <2>1. ops' = [o \in AlbumOps |-> ops'[o]]
      BY <1>1 DEF Queue!Claim
    <2> QED
      BY <2>1, <1>5
  <1>7. held' \in [Workers -> SUBSET Queue!ClaimToken]
    <2>1. {[op |-> o, token |-> ops[o].attempts + 1] : o \in os} \subseteq Queue!ClaimToken
      BY <1>3 DEF Queue!ClaimToken
    <2> QED
      BY <2>1, <1>1 DEF Queue!Claim, Queue!OpsTypeOK
  <1> QED
    BY <1>5, <1>6, <1>7 DEF Queue!OpsTypeOK, OpsKept, Queue!OpRow, Queue!ClaimToken

(* Nor does a failure. *)
LEMMA FailKeeps ==
  ASSUME NEW w \in Workers, NEW c, Queue!OpsTypeOK, Queue!Fail(w, c)
  PROVE  Queue!OpsTypeOK' /\ OpsKept
  <1>1. c \in Queue!ClaimToken /\ c.op \in AlbumOps /\ c \in held[w]
    BY DEF Queue!Fail, Queue!OpsTypeOK, Queue!ClaimToken
  <1>t. \A o \in AlbumOps : ops[o] \in Queue!OpRow
    BY DEF Queue!OpsTypeOK
  <1>2. held' \in [Workers -> SUBSET Queue!ClaimToken]
    BY DEF Queue!Fail, Queue!Forget, Queue!OpsTypeOK
  <1>3. CASE Queue!Current(c)
    <2> DEFINE status == IF ops[c.op].attempts >= MaxAttempts THEN "dead" ELSE "pending"
    <2>1. ops' = [ops EXCEPT ![c.op] = [ops[c.op] EXCEPT !.status = status, !.live = FALSE]]
      BY <1>3, <1>1 DEF Queue!Fail, Queue!Failed, Queue!OpsTypeOK
    <2>2. status \in {"dead", "pending"}
      OBVIOUS
    <2> HIDE DEF status
    <2>3. [ops[c.op] EXCEPT !.status = status, !.live = FALSE] \in Queue!OpRow
      BY <2>2, <1>t, <1>1 DEF Queue!OpRow, Queue!OpStatus
    <2>4. ops' \in [AlbumOps -> Queue!OpRow]
      BY <2>1, <2>3 DEF Queue!OpsTypeOK
    <2>5. ops'[c.op].status = status /\ ops'[c.op].live = FALSE
      BY <2>1, <1>1, <1>t DEF Queue!OpsTypeOK, Queue!OpRow
    <2>6. \A o \in AlbumOps \ {c.op} : ops'[o] = ops[o]
      BY <2>1 DEF Queue!OpsTypeOK
    <2>7. ops[c.op].status = "claimed"
      BY <1>3 DEF Queue!Current
    <2> QED
      BY <2>2, <2>4, <2>5, <2>6, <2>7, <1>2, <1>1 DEF Queue!OpsTypeOK, OpsKept, Queue!OpRow, Queue!ClaimToken
  <1>4. CASE ~Queue!Current(c)
    BY <1>4, <1>2 DEF Queue!Fail, Queue!OpsTypeOK, OpsKept, Queue!OpRow, Queue!ClaimToken
  <1> QED
    BY <1>3, <1>4

(* Nor does the end of a lease. *)
LEMMA LeaseKeeps ==
  ASSUME NEW o \in AlbumOps, Queue!OpsTypeOK, Queue!LeaseEnds(o)
  PROVE  Queue!OpsTypeOK' /\ OpsKept
  <1>1. ops[o] \in Queue!OpRow
    BY DEF Queue!OpsTypeOK
  <1>2. ops' = [ops EXCEPT ![o] = [ops[o] EXCEPT !.live = FALSE]]
    BY DEF Queue!LeaseEnds, Queue!OpsTypeOK
  <1>3. [ops[o] EXCEPT !.live = FALSE] \in Queue!OpRow
    BY <1>1 DEF Queue!OpRow
  <1>4. ops' \in [AlbumOps -> Queue!OpRow]
    BY <1>2, <1>3 DEF Queue!OpsTypeOK
  <1>5. ops'[o].status = ops[o].status /\ ops'[o].live = FALSE
    BY <1>1, <1>2 DEF Queue!OpsTypeOK, Queue!OpRow
  <1>6. \A x \in AlbumOps \ {o} : ops'[x] = ops[x]
    BY <1>2 DEF Queue!OpsTypeOK
  <1>7. held' = held
    BY DEF Queue!LeaseEnds
  <1> QED
    BY <1>4, <1>5, <1>6, <1>7 DEF Queue!OpsTypeOK, OpsKept, Queue!OpRow, Queue!ClaimToken

(* Nor does a worker that lets go of its claims. *)
LEMMA ForgetKeeps ==
  ASSUME NEW w \in Workers, NEW c, Queue!OpsTypeOK, Queue!Forget(w, c) \/ UNCHANGED held \/ Queue!Abandon(w),
         UNCHANGED ops
  PROVE  Queue!OpsTypeOK' /\ OpsKept
  <1>1. held' \in [Workers -> SUBSET Queue!ClaimToken]
    BY DEF Queue!Forget, Queue!Abandon, Queue!OpsTypeOK
  <1> QED
    BY <1>1 DEF Queue!OpsTypeOK, OpsKept, Queue!OpRow, Queue!ClaimToken

(* An operation settled as done. *)
LEMMA CompletedOp ==
  ASSUME NEW o \in AlbumOps, Queue!OpsTypeOK, NEW w \in Workers, NEW c, Queue!Forget(w, c),
         ops[o].status = "claimed",
         ops' = [ops EXCEPT ![o].status = "completed", ![o].live = FALSE]
  PROVE  /\ Queue!OpsTypeOK'
         /\ ops'[o].status = "completed"
         /\ \A x \in AlbumOps \ {o} : ops'[x] = ops[x]
  <1>1. ops[o] \in Queue!OpRow
    BY DEF Queue!OpsTypeOK
  <1>2. ops' = [ops EXCEPT ![o] = [ops[o] EXCEPT !.status = "completed", !.live = FALSE]]
    BY DEF Queue!OpsTypeOK
  <1>3. [ops[o] EXCEPT !.status = "completed", !.live = FALSE] \in Queue!OpRow
    BY <1>1 DEF Queue!OpRow, Queue!OpStatus
  <1>4. ops' \in [AlbumOps -> Queue!OpRow]
    BY <1>2, <1>3 DEF Queue!OpsTypeOK
  <1>5. ops'[o].status = "completed" /\ ops'[o].live = FALSE
    BY <1>1, <1>2 DEF Queue!OpsTypeOK, Queue!OpRow
  <1>6. \A x \in AlbumOps \ {o} : ops'[x] = ops[x]
    BY <1>2 DEF Queue!OpsTypeOK
  <1>7. held' \in [Workers -> SUBSET Queue!ClaimToken]
    BY DEF Queue!Forget, Queue!OpsTypeOK
  <1> QED
    BY <1>4, <1>5, <1>6, <1>7 DEF Queue!OpsTypeOK, Queue!OpRow, Queue!ClaimToken

(* The workers' rows of AlbumTypeOK. *)
WorkerState ==
  [pc : {"idle", "lock", "call", "settle", "fail"},
   claim : Queue!ClaimToken \cup {None}, fresh : BOOLEAN]

(* A step of one worker keeps the types when its row, the lock and the     *)
(* queue do.                                                               *)
LEMMA WorkerTyped ==
  ASSUME AlbumTypeOK, NEW w \in Workers, NEW row \in WorkerState,
         worker' = [worker EXCEPT ![w] = row],
         lock' \in Workers \cup {None},
         row.pc \in {"call", "settle"} <=> lock' = w,
         \A v \in Workers \ {w} : lock' = v <=> lock = v,
         album' \in Snapshot, pub' \subseteq Photos, priv' \subseteq Photos, admin' = admin,
         faults' \in 0..MaxFaults, Queue!OpsTypeOK'
  PROVE  AlbumTypeOK'
  <1>1. worker \in [Workers -> WorkerState]
    BY DEF AlbumTypeOK, WorkerState
  <1>2. worker' \in [Workers -> WorkerState]
    BY <1>1
  <1>3. ASSUME NEW v \in Workers
        PROVE  worker'[v].pc \in {"call", "settle"} <=> lock' = v
    <2>1. CASE v = w
      BY <2>1, <1>1
    <2>2. CASE v # w
      BY <2>2, <1>1 DEF AlbumTypeOK
    <2> QED
      BY <2>1, <2>2
  <1> QED
    BY <1>2, <1>3 DEF AlbumTypeOK, WorkerState, Queue!ClaimToken

(* What a step of a worker leaves alone. *)
LEMMA QuietServes ==
  ASSUME ServedInv, AlbumTypeOK', album' = album, OpsKept,
         InPublic(album.status) => album.photos \cap pub \subseteq pub'
  PROVE  /\ RevisionsGrow' /\ CopiesTrue' /\ PublishedIsServed'
         /\ \A b \in Admins : admin'[b] = admin[b] => SnapTrue(b)'
  <1>1. Existing' = Existing
    BY DEF Existing, OpsKept
  <1>2. RevisionsGrow'
    BY <1>1 DEF RevisionsGrow, Absent, ServedInv
  <1>3. CopiesTrue'
    <2> SUFFICES ASSUME album.status = "publishing", NEW p \in album.photos
                 PROVE  /\ ops'[CopyOp(album.rev, p)].status # "absent"
                        /\ ops'[CopyOp(album.rev, p)].status = "completed" => p \in pub'
      BY DEF CopiesTrue, CopyOp
    <2>1. CopyOp(album.rev, p) \in AlbumOps
      BY DEF CopyOp, AlbumOps, ServedInv, RevisionsGrow, Absent, AlbumTypeOK, Snapshot
    <2> QED
      BY <2>1 DEF OpsKept, ServedInv, CopiesTrue, InPublic
  <1>4. PublishedIsServed'
    BY DEF PublishedIsServed, ServedInv, InPublic
  <1>5. ASSUME NEW b \in Admins, admin'[b] = admin[b]
        PROVE  SnapTrue(b)'
    BY <1>1, <1>5 DEF SnapTrue, Absent, ServedInv
  <1> QED
    BY <1>2, <1>3, <1>4, <1>5

(* Under an unchanged album the other workers' calls stay true.            *)
LEMMA OthersCall ==
  ASSUME ServedInv, album' = album, NEW v \in Workers, worker'[v] = worker[v],
         pub \subseteq pub' \/ lock # v
  PROVE  CallTrue(v)'
  BY DEF ServedInv, CallTrue, Op, Refused, Wanted, InUse, AlbumTypeOK, Queue!ClaimToken

(* The steps of a request before it writes. *)
LEMMA AdminServes ==
  ASSUME NEW a \in Admins, ServedInv,
         AskSome(a) \/ UploadBytes(a) \/ ReadLatest(a) \/ UploadCard(a) \/ ListObjects(a)
         \/ GiveUp(a)
  PROVE  ServedInv'
  <1>1. AlbumTypeOK'
    BY AdminsTyped DEF ServedInv
  <1>t. Queue!OpsTypeOK /\ admin \in [Admins -> AdminState] /\ AlbumTypeOK /\ RevisionsGrow
    BY DEF ServedInv, AlbumTypeOK, AdminState
  <1>a. \A intent, set, pc : Ask(a, intent, set, pc) => UNCHANGED <<album, ops, pub, worker>>
    BY DEF Ask, bucket
  <1>2. /\ UNCHANGED <<album, ops, worker>> /\ pub \subseteq pub'
    <2>1. CASE AskSome(a)
      BY <2>1, <1>a DEF AskSome, AskCreate, AskPublish, AskUnpublish, AskEdit, AskRemove, AskUpload,
         AskDelete, AskFocal
    <2>2. CASE ~AskSome(a)
      BY <2>2 DEF UploadBytes, ReadLatest, UploadCard, ListObjects, GiveUp, catalogue, bucket
    <2> QED
      BY <2>1, <2>2
  <1>3. OpsKept
    BY <1>2 DEF OpsKept
  <1>4. /\ RevisionsGrow' /\ CopiesTrue' /\ PublishedIsServed'
        /\ \A b \in Admins : admin'[b] = admin[b] => SnapTrue(b)'
    BY <1>1, <1>2, <1>3, QuietServes
  <1>5. \A v \in Workers : CallTrue(v)'
    BY <1>2, OthersCall
  <1>6. \A b \in Admins : b # a => admin'[b] = admin[b]
    <2>1. \A intent, set, pc : Ask(a, intent, set, pc) => \A b \in Admins : b # a => admin'[b] = admin[b]
      BY <1>t DEF Ask
    <2>2. CASE AskSome(a)
      BY <2>2, <2>1 DEF AskSome, AskCreate, AskPublish, AskUnpublish, AskEdit, AskRemove, AskUpload,
         AskDelete, AskFocal
    <2>3. CASE ~AskSome(a)
      BY <2>3, <1>t DEF UploadBytes, ReadLatest, UploadCard, ListObjects, GiveUp, Step
    <2> QED
      BY <2>2, <2>3
  <1>n. album.rev \in Nat
    BY <1>t, AlbumAssumption DEF AlbumTypeOK, Snapshot
  <1>e. Existing' = Existing
    BY <1>2 DEF Existing
  <1>s. SnapTrue(a)
    BY DEF ServedInv
  <1>7. SnapTrue(a)'
    <2>1. CASE AskSome(a)
      <3>1. PICK intent \in Intents, set \in SUBSET Photos, pc \in {"write", "bytes", "list"} :
              /\ Ask(a, intent, set, pc)
              /\ intent = "create" <=> album.status = "absent"
              /\ intent = "publish" => album.photos # {}
        BY <2>1, <1>t, AskAny
      <3>2. admin'[a].pc \notin {"idle", "latest"} /\ admin'[a].intent = intent /\ admin'[a].snap = album
        BY <3>1, <1>t DEF Ask, IdleAdmin
      <3> QED
        BY <3>1, <3>2, <1>2, <1>n DEF SnapTrue, Absent
    <2>2. CASE UploadBytes(a)
      BY <2>2, <1>t, <1>2, <1>e, <1>s DEF UploadBytes, Step, SnapTrue, Absent, AdminState
    <2>3. CASE ReadLatest(a)
      <3>1. CASE admin' = [admin EXCEPT ![a] = IdleAdmin]
        BY <3>1, <1>t DEF SnapTrue, IdleAdmin
      <3>2. CASE album.status # "absent"
                 /\ admin' = [admin EXCEPT ![a].pc = "write", ![a].snap = album]
        <4>1. admin'[a].pc = "write" /\ admin'[a].snap = album /\ admin'[a].intent = admin[a].intent
          BY <3>2, <1>t DEF AdminState
        <4> QED
          BY <4>1, <3>2, <2>3, <1>2, <1>n, <1>s DEF SnapTrue, Absent, ReadLatest
      <3> QED
        BY <3>1, <3>2, <2>3 DEF ReadLatest
    <2>4. CASE UploadCard(a)
      BY <2>4, <1>t, <1>2, <1>e, <1>s DEF UploadCard, Step, SnapTrue, Absent, AdminState
    <2>5. CASE ListObjects(a)
      BY <2>5, <1>t, <1>2, <1>e, <1>s DEF ListObjects, SnapTrue, Absent, AdminState
    <2>6. CASE GiveUp(a)
      BY <2>6, <1>t DEF GiveUp, SnapTrue, IdleAdmin
    <2> QED
      BY <2>1, <2>2, <2>3, <2>4, <2>5, <2>6
  <1> QED
    BY <1>1, <1>4, <1>5, <1>6, <1>7 DEF ServedInv

(* A step of one worker that leaves the catalogue alone and takes nothing  *)
(* a public album shows out of the bucket.                                 *)
LEMMA WorkerServes ==
  ASSUME ServedInv, AlbumTypeOK', album' = album, OpsKept, admin' = admin,
         NEW w \in Workers, \A v \in Workers \ {w} : worker'[v] = worker[v],
         \/ pub' = pub
         \/ lock = w /\ (InPublic(album.status) => album.photos \cap pub \subseteq pub'),
         CallTrue(w)'
  PROVE  ServedInv'
  <1>1. /\ RevisionsGrow' /\ CopiesTrue' /\ PublishedIsServed'
        /\ \A b \in Admins : admin'[b] = admin[b] => SnapTrue(b)'
    BY QuietServes
  <1>2. \A v \in Workers : CallTrue(v)'
    <2> SUFFICES ASSUME NEW v \in Workers \ {w} PROVE CallTrue(v)'
      OBVIOUS
    <2>1. pub \subseteq pub' \/ lock # v
      OBVIOUS
    <2> QED
      BY <2>1, OthersCall
  <1> QED
    BY <1>1, <1>2 DEF ServedInv

(* What a worker past its claim knows of it.                               *)
LEMMA WorkerKnows ==
  ASSUME ServedInv, NEW w \in Workers
  PROVE  /\ worker \in [Workers -> WorkerState] /\ worker[w] \in WorkerState
         /\ Queue!OpsTypeOK /\ AlbumTypeOK /\ CallTrue(w)
         /\ worker[w].pc # "idle" =>
              worker[w].claim \in Queue!ClaimToken /\ Op(w) \in AlbumOps
         /\ worker[w].pc \in {"call", "settle"} <=> lock = w
         /\ album \in Snapshot /\ pub \subseteq Photos /\ priv \subseteq Photos
         /\ faults \in 0..MaxFaults /\ lock \in Workers \cup {None} /\ None \notin Workers
         /\ IdleWorker \in WorkerState
  BY AlbumAssumption DEF ServedInv, AlbumTypeOK, WorkerState, CallTrue, Op, Queue!ClaimToken, IdleWorker

(* An effect of a call that the reference check let through.               *)
LEMMA EffectIsSafe ==
  ASSUME NEW o \in AlbumOps, pub \subseteq Photos, priv \subseteq Photos, ~Refused(o), Effect(o)
  PROVE  /\ pub' \subseteq Photos /\ priv' \subseteq Photos
         /\ InPublic(album.status) => album.photos \cap pub \subseteq pub'
         /\ Wanted(o) => o.key \in pub'
  <1>1. o.kind \in {"copy", "delete"} /\ (o.kind = "copy" => o.key \in Photos)
    BY DEF AlbumOps
  <1>2. CASE o.kind = "delete"
    BY <1>2 DEF Effect, Refused, InUse, Wanted, InPublic
  <1>3. CASE o.kind = "copy"
    BY <1>1, <1>3 DEF Effect, Wanted, bucket, InPublic
  <1> QED
    BY <1>1, <1>2, <1>3

(* A batch is claimed. *)
LEMMA ClaimBatchServes ==
  ASSUME NEW w \in Workers, ServedInv, ClaimBatch(w) PROVE ServedInv'
  <1>1. Queue!OpsTypeOK' /\ OpsKept
    BY ClaimKeeps, WorkerKnows DEF ClaimBatch
  <1>2. UNCHANGED <<album, pub, priv, admin, worker, lock, faults>>
    BY DEF ClaimBatch, bucket
  <1>3. AlbumTypeOK'
    BY <1>1, <1>2 DEF ServedInv, AlbumTypeOK, Queue!ClaimToken
  <1>4. CallTrue(w)'
    BY <1>2, OthersCall
  <1> QED
    BY <1>1, <1>2, <1>3, <1>4, WorkerServes

(* A lease ends, under a worker that is in the middle of its call, too. *)
LEMMA LeaseEndsServes ==
  ASSUME ServedInv, LeaseEnds PROVE ServedInv'
  <1>1. Queue!OpsTypeOK' /\ OpsKept
    BY LeaseKeeps DEF LeaseEnds, ServedInv, AlbumTypeOK
  <1>2. UNCHANGED <<album, pub, priv, admin, worker, lock, faults>>
    BY DEF LeaseEnds, bucket
  <1>3. AlbumTypeOK'
    BY <1>1, <1>2 DEF ServedInv, AlbumTypeOK, Queue!ClaimToken
  <1>4. \A v \in Workers : CallTrue(v)'
    BY <1>2, OthersCall
  <1>5. /\ RevisionsGrow' /\ CopiesTrue' /\ PublishedIsServed'
        /\ \A b \in Admins : admin'[b] = admin[b] => SnapTrue(b)'
    BY <1>1, <1>2, <1>3, QuietServes
  <1> QED
    BY <1>2, <1>3, <1>4, <1>5 DEF ServedInv

(* A worker begins the transaction of one operation. *)
LEMMA BeginServes ==
  ASSUME NEW w \in Workers, ServedInv, Begin(w) PROVE ServedInv'
  <1>1. PICK c \in held[w] :
          worker' = [worker EXCEPT ![w] = [pc |-> "lock", claim |-> c, fresh |-> ops[c.op].live]]
    BY DEF Begin
  <1>2. UNCHANGED <<album, ops, pub, priv, admin, lock, faults, held>> /\ worker[w].pc = "idle"
    BY DEF Begin, catalogue, bucket
  <1>k. /\ worker \in [Workers -> WorkerState] /\ Queue!OpsTypeOK /\ AlbumTypeOK
        /\ lock # w /\ album \in Snapshot /\ pub \subseteq Photos /\ priv \subseteq Photos
        /\ faults \in 0..MaxFaults /\ lock \in Workers \cup {None}
    BY <1>2, WorkerKnows
  <1>3. c \in Queue!ClaimToken /\ ops[c.op].live \in BOOLEAN
    <2>1. c \in Queue!ClaimToken
      BY <1>k DEF Queue!OpsTypeOK
    <2>2. ops[c.op] \in Queue!OpRow
      BY <2>1, <1>k DEF Queue!OpsTypeOK, Queue!ClaimToken
    <2> QED
      BY <2>1, <2>2 DEF Queue!OpRow
  <1> DEFINE row == [pc |-> "lock", claim |-> c, fresh |-> ops[c.op].live]
  <1>4. row \in WorkerState /\ row.pc = "lock" /\ row.claim = c
    BY <1>3 DEF WorkerState
  <1>5. worker' = [worker EXCEPT ![w] = row]
    BY <1>1
  <1> HIDE DEF row
  <1>6. OpsKept /\ Queue!OpsTypeOK'
    BY <1>2, <1>k DEF OpsKept, Queue!OpsTypeOK, Queue!OpRow, Queue!ClaimToken
  <1>7. AlbumTypeOK'
    BY <1>2, <1>k, <1>4, <1>5, <1>6, WorkerTyped
  <1>8. CallTrue(w)'
    BY <1>3, <1>4, <1>5, <1>k DEF CallTrue, Queue!ClaimToken
  <1> QED
    BY <1>2, <1>5, <1>6, <1>7, <1>8, <1>k, WorkerServes

(* A worker that is done is idle. *)
LEMMA DoneTyped ==
  ASSUME NEW w \in Workers, ServedInv, Done(w)
  PROVE  /\ worker' = [worker EXCEPT ![w] = IdleWorker]
         /\ worker'[w].pc = "idle" /\ CallTrue(w)'
         /\ \A v \in Workers \ {w} : worker'[v] = worker[v]
  <1>1. worker' = [worker EXCEPT ![w] = IdleWorker] /\ worker \in [Workers -> WorkerState]
    BY WorkerKnows DEF Done
  <1>2. worker'[w].pc = "idle"
    BY <1>1 DEF IdleWorker
  <1> QED
    BY <1>1, <1>2 DEF CallTrue

(* The lock is taken: the reference is checked under it. *)
LEMMA TakeLockServes ==
  ASSUME NEW w \in Workers, ServedInv, TakeLock(w) PROVE ServedInv'
  <1>1. /\ UNCHANGED <<album, ops, pub, priv, admin, faults>>
        /\ worker[w].pc = "lock" /\ lock = None
    BY DEF TakeLock, catalogue, bucket
  <1>k. /\ worker \in [Workers -> WorkerState] /\ worker[w] \in WorkerState
        /\ Queue!OpsTypeOK /\ AlbumTypeOK /\ None \notin Workers
        /\ lock # w /\ album \in Snapshot /\ pub \subseteq Photos /\ priv \subseteq Photos
        /\ faults \in 0..MaxFaults /\ lock \in Workers \cup {None}
        /\ IdleWorker \in WorkerState /\ worker[w].claim \in Queue!ClaimToken
    BY <1>1, WorkerKnows
  <1>2. CASE Done(w) /\ UNCHANGED lock
    <2>1. Queue!OpsTypeOK' /\ OpsKept
      BY <1>1, <1>2, <1>k, ForgetKeeps DEF Done
    <2>2. /\ worker' = [worker EXCEPT ![w] = IdleWorker] /\ CallTrue(w)'
          /\ \A v \in Workers \ {w} : worker'[v] = worker[v]
      BY <1>2, DoneTyped
    <2>3. AlbumTypeOK'
      <3>1. IdleWorker.pc = "idle"
        BY DEF IdleWorker
      <3> QED
        BY <3>1, <1>1, <1>2, <1>k, <2>1, <2>2, WorkerTyped
    <2> QED
      BY <1>1, <2>1, <2>2, <2>3, WorkerServes
  <1>3. ASSUME NEW pc \in {"call", "fail"}, worker' = [worker EXCEPT ![w].pc = pc],
               lock' = IF pc = "call" THEN w ELSE None, UNCHANGED held,
               pc = "call" => ~Refused(Op(w))
        PROVE  ServedInv'
    <2>1. Queue!OpsTypeOK' /\ OpsKept
      BY <1>1, <1>3, <1>k, ForgetKeeps
    <2> DEFINE row == [worker[w] EXCEPT !.pc = pc]
    <2>2. row \in WorkerState /\ row.pc = pc /\ row.claim = worker[w].claim
      BY <1>k DEF WorkerState
    <2>3. worker' = [worker EXCEPT ![w] = row]
      BY <1>3, <1>k
    <2> HIDE DEF row
    <2>4. AlbumTypeOK'
      BY <1>1, <1>3, <1>k, <2>1, <2>2, <2>3, WorkerTyped
    <2>5. CallTrue(w)'
      <3>1. worker'[w].pc = pc /\ worker'[w].claim = worker[w].claim
        BY <2>2, <2>3, <1>k
      <3> QED
        BY <3>1, <1>1, <1>3, <1>k DEF CallTrue, Op, Refused, Wanted, InUse, Queue!ClaimToken
    <2> QED
      BY <1>1, <1>k, <2>1, <2>3, <2>4, <2>5, WorkerServes
  <1> QED
    BY <1>1, <1>2, <1>3 DEF TakeLock

(* The worker under the lock calls the bucket, whatever comes of it.       *)
LEMMA CalledServes ==
  ASSUME NEW w \in Workers, ServedInv, worker[w].pc = "call", NEW pc \in {"settle", "fail"},
         worker' = [worker EXCEPT ![w].pc = pc],
         pc = "settle" => lock' = lock, pc = "fail" => lock' = None,
         faults' \in 0..MaxFaults, UNCHANGED <<album, ops, admin, held>>,
         Effect(Op(w)) \/ (pc = "fail" /\ UNCHANGED bucket)
  PROVE  ServedInv'
  <1>k. /\ worker \in [Workers -> WorkerState] /\ worker[w] \in WorkerState
        /\ Queue!OpsTypeOK /\ AlbumTypeOK /\ None \notin Workers
        /\ lock = w /\ album \in Snapshot /\ pub \subseteq Photos /\ priv \subseteq Photos
        /\ worker[w].claim \in Queue!ClaimToken /\ Op(w) \in AlbumOps /\ CallTrue(w)
    BY WorkerKnows
  <1>1. ~Refused(Op(w))
    BY <1>k DEF CallTrue
  <1>2. /\ pub' \subseteq Photos /\ priv' \subseteq Photos
        /\ InPublic(album.status) => album.photos \cap pub \subseteq pub'
        /\ pc = "settle" /\ Wanted(Op(w)) => Op(w).key \in pub'
    <2>1. CASE Effect(Op(w))
      BY <2>1, <1>1, <1>k, EffectIsSafe
    <2>2. CASE pc = "fail" /\ UNCHANGED bucket
      BY <2>2, <1>k DEF bucket
    <2> QED
      BY <2>1, <2>2
  <1>3. Queue!OpsTypeOK' /\ OpsKept
    BY <1>k, ForgetKeeps
  <1> DEFINE row == [worker[w] EXCEPT !.pc = pc]
  <1>4. row \in WorkerState /\ row.pc = pc /\ row.claim = worker[w].claim
    BY <1>k DEF WorkerState
  <1>5. worker' = [worker EXCEPT ![w] = row]
    BY <1>k
  <1> HIDE DEF row
  <1>6. AlbumTypeOK'
    <2>1. /\ lock' \in Workers \cup {None}
          /\ row.pc \in {"call", "settle"} <=> lock' = w
          /\ \A v \in Workers \ {w} : lock' = v <=> lock = v
      BY <1>4, <1>k
    <2>2. album' \in Snapshot /\ admin' = admin
      BY <1>k
    <2> QED
      BY <2>1, <2>2, <1>2, <1>3, <1>4, <1>5, <1>k, WorkerTyped
  <1>7. CallTrue(w)'
    <2>1. worker'[w].pc = pc /\ worker'[w].claim = worker[w].claim
      BY <1>4, <1>5, <1>k
    <2> QED
      BY <2>1, <1>1, <1>2, <1>k DEF CallTrue, Op, Refused, Wanted, InUse, Queue!ClaimToken
  <1> QED
    BY <1>k, <1>2, <1>3, <1>5, <1>6, <1>7, WorkerServes

(* The call of the bucket, in each of its outcomes. *)
LEMMA CallServes ==
  ASSUME NEW w \in Workers, ServedInv, Call(w) \/ CallImpossible(w) \/ CallFails(w)
  PROVE  ServedInv'
  <1>1. faults \in 0..MaxFaults /\ MaxFaults \in Nat
    BY WorkerKnows, AlbumAssumption
  <1>2. CASE Call(w)
    <2>1. /\ worker[w].pc = "call" /\ Effect(Op(w))
          /\ worker' = [worker EXCEPT ![w].pc = "settle"]
          /\ lock' = lock /\ faults' = faults /\ UNCHANGED <<album, ops, admin, held>>
      BY <1>2 DEF Call, catalogue
    <2>2. "settle" \in {"settle", "fail"} /\ "settle" # "fail" /\ faults' \in 0..MaxFaults
      BY <2>1, <1>1
    <2> QED
      BY <2>1, <2>2, CalledServes, Zenon
  <1>3. CASE CallImpossible(w)
    BY <1>1, <1>3, CalledServes DEF CallImpossible, catalogue
  <1>4. CASE CallFails(w)
    <2>1. /\ worker[w].pc = "call" /\ (Effect(Op(w)) \/ UNCHANGED bucket)
          /\ worker' = [worker EXCEPT ![w].pc = "fail"]
          /\ lock' = None /\ UNCHANGED <<album, ops, admin, held>>
      BY <1>4 DEF CallFails, catalogue
    <2>2. faults' \in 0..MaxFaults
      BY <1>1, <1>4 DEF CallFails
    <2>3. "fail" \in {"settle", "fail"} /\ "settle" # "fail"
      OBVIOUS
    <2> QED
      BY <2>1, <2>2, <2>3, CalledServes, Zenon
  <1> QED
    BY <1>2, <1>3, <1>4

(* A worker that lets go of its claim without settling it. *)
LEMMA LetGoServes ==
  ASSUME NEW w \in Workers, ServedInv, worker' = [worker EXCEPT ![w] = IdleWorker],
         lock' = IF lock = w THEN None ELSE lock, faults' \in 0..MaxFaults,
         UNCHANGED <<album, pub, priv, admin>>, Queue!OpsTypeOK', OpsKept
  PROVE  ServedInv'
  <1>k. /\ worker \in [Workers -> WorkerState] /\ AlbumTypeOK /\ None \notin Workers
        /\ album \in Snapshot /\ pub \subseteq Photos /\ priv \subseteq Photos
        /\ lock \in Workers \cup {None} /\ IdleWorker \in WorkerState
    BY WorkerKnows
  <1>1. IdleWorker.pc = "idle"
    BY DEF IdleWorker
  <1>2. worker'[w].pc = "idle" /\ \A v \in Workers \ {w} : worker'[v] = worker[v]
    BY <1>1, <1>k
  <1>3. AlbumTypeOK'
    BY <1>1, <1>k, WorkerTyped
  <1>4. CallTrue(w)'
    BY <1>2 DEF CallTrue
  <1> QED
    BY <1>2, <1>3, <1>4, WorkerServes

(* A failed operation goes back to the queue; a crash leaves it claimed. *)
LEMMA FailAndCrashServe ==
  ASSUME NEW w \in Workers, ServedInv, FailOp(w) \/ Crash(w)
  PROVE  ServedInv'
  <1>k. /\ faults \in 0..MaxFaults /\ MaxFaults \in Nat /\ Queue!OpsTypeOK
        /\ worker[w].pc \in {"call", "settle"} <=> lock = w
    BY WorkerKnows, AlbumAssumption
  <1>1. CASE FailOp(w)
    <2>1. Queue!OpsTypeOK' /\ OpsKept
      BY <1>1, <1>k, FailKeeps DEF FailOp
    <2>2. lock # w
      BY <1>1, <1>k DEF FailOp
    <2> QED
      BY <1>1, <1>k, <2>1, <2>2, LetGoServes DEF FailOp, bucket
  <1>2. CASE Crash(w)
    <2>1. Queue!OpsTypeOK' /\ OpsKept
      BY <1>2, <1>k, ForgetKeeps DEF Crash, Queue!Abandon
    <2>2. faults' \in 0..MaxFaults
      BY <1>2, <1>k DEF Crash
    <2>3. /\ worker' = [worker EXCEPT ![w] = IdleWorker]
          /\ lock' = IF lock = w THEN None ELSE lock
          /\ UNCHANGED <<album, pub, priv, admin>>
      BY <1>2 DEF Crash, bucket
    <2> QED
      BY <2>1, <2>2, <2>3, LetGoServes
  <1> QED
    BY <1>1, <1>2

(* The last copy of a publication has put the last photo in the bucket.    *)
LEMMA LastCopyServes ==
  ASSUME NEW w \in Workers, ServedInv, worker[w].pc = "settle", Wanted(Op(w)),
         Remaining(Op(w)) = {}
  PROVE  album.photos \subseteq pub
  <1>1. /\ Op(w) \in AlbumOps /\ Op(w).kind = "copy" /\ album.status = "publishing"
        /\ Op(w).rev = album.rev /\ Op(w).key \in pub
    BY WorkerKnows DEF Wanted, CallTrue
  <1> SUFFICES ASSUME NEW p \in album.photos PROVE p \in pub
    OBVIOUS
  <1>2. CopyOp(album.rev, p) \in AlbumOps /\ CopyOp(album.rev, p).kind = "copy"
        /\ CopyOp(album.rev, p).rev = album.rev /\ CopyOp(album.rev, p).key = p
    BY <1>1 DEF CopyOp, AlbumOps, ServedInv, AlbumTypeOK, Snapshot
  <1>3. CASE CopyOp(album.rev, p) = Op(w)
    BY <1>1, <1>2, <1>3
  <1>4. CASE CopyOp(album.rev, p) # Op(w)
    <2>1. ops[CopyOp(album.rev, p)].status \in {"absent", "completed"}
      BY <1>1, <1>2, <1>4 DEF Remaining
    <2> QED
      BY <2>1, <1>1 DEF ServedInv, CopiesTrue
  <1> QED
    BY <1>3, <1>4

(* The settlement, with the last copy of which the album is published. *)
LEMMA SettleServes ==
  ASSUME NEW w \in Workers, ServedInv, SettleOp(w)
  PROVE  ServedInv'
  <1> DEFINE o == Op(w)
  <1>k. /\ worker \in [Workers -> WorkerState] /\ AlbumTypeOK /\ None \notin Workers
        /\ album \in Snapshot /\ pub \subseteq Photos /\ priv \subseteq Photos
        /\ lock = w /\ IdleWorker \in WorkerState /\ Queue!OpsTypeOK /\ faults \in 0..MaxFaults
        /\ o \in AlbumOps /\ CallTrue(w)
    BY WorkerKnows DEF SettleOp
  <1>s. /\ worker[w].pc = "settle" /\ lock' = None /\ Done(w)
        /\ UNCHANGED <<pub, priv, admin, faults>>
    BY DEF SettleOp, bucket
  <1>d. worker' = [worker EXCEPT ![w] = IdleWorker] /\ Queue!Forget(w, worker[w].claim)
    BY <1>s DEF Done
  <1>1. CASE ~StillClaimed(w)
    <2>1. UNCHANGED <<album, ops>>
      BY <1>1 DEF SettleOp, catalogue
    <2>2. Queue!OpsTypeOK' /\ OpsKept
      BY <2>1, <1>d, <1>k, ForgetKeeps
    <2> QED
      BY <2>1, <2>2, <1>s, <1>d, <1>k, LetGoServes
  <1>2. CASE StillClaimed(w)
    <2>1. /\ ops' = [ops EXCEPT ![o].status = "completed", ![o].live = FALSE]
          /\ album' = IF Wanted(o) /\ Remaining(o) = {}
                      THEN [album EXCEPT !.status = "published"] ELSE album
      BY <1>2 DEF SettleOp
    <2>c. ops[o].status = "claimed"
      BY <1>2 DEF StillClaimed
    <2> HIDE DEF o
    <2>2. /\ Queue!OpsTypeOK' /\ ops'[o].status = "completed"
          /\ \A x \in AlbumOps \ {o} : ops'[x] = ops[x]
      BY <2>1, <2>c, <1>k, <1>d, CompletedOp
    <2>3. Existing' = Existing
      BY <2>2, <2>c DEF Existing
    <2>4. /\ album' \in Snapshot /\ album'.rev = album.rev /\ album'.photos = album.photos
          /\ \/ album'.status = album.status
             \/ /\ album.status = "publishing" /\ album'.status = "published"
                /\ album.photos \subseteq pub
      <3>1. CASE Wanted(o) /\ Remaining(o) = {}
        <4>1. album.status = "publishing" /\ album' = [album EXCEPT !.status = "published"]
          BY <3>1, <2>1 DEF Wanted
        <4>2. album.photos \subseteq pub
          BY <3>1, <1>s, LastCopyServes DEF o
        <4> QED
          BY <4>1, <4>2, <1>k DEF Snapshot, AlbumStatus
      <3>2. CASE ~(Wanted(o) /\ Remaining(o) = {})
        <4>1. album' = album
          BY <3>2, <2>1
        <4> QED
          BY <4>1, <1>k
      <3> QED
        BY <3>1, <3>2
    <2>5. AlbumTypeOK'
      <3>1. IdleWorker.pc = "idle"
        BY DEF IdleWorker
      <3> QED
        BY <3>1, <1>k, <1>s, <1>d, <2>2, <2>4, WorkerTyped
    <2>6. RevisionsGrow'
      <3>1. Absent => album' = album
        BY <2>1 DEF Absent, Wanted
      <3> QED
        BY <3>1, <2>3, <2>4 DEF RevisionsGrow, Absent, ServedInv
    <2>7. CopiesTrue'
      <3> SUFFICES ASSUME album'.status = "publishing", NEW p \in album.photos
                   PROVE  /\ ops'[CopyOp(album.rev, p)].status # "absent"
                          /\ ops'[CopyOp(album.rev, p)].status = "completed" => p \in pub
        BY <2>4, <1>s DEF CopiesTrue, CopyOp
      <3>1. /\ CopyOp(album.rev, p) \in AlbumOps /\ CopyOp(album.rev, p).kind = "copy"
            /\ CopyOp(album.rev, p).rev = album.rev /\ CopyOp(album.rev, p).key = p
        BY <1>k, <2>4 DEF CopyOp, AlbumOps, ServedInv, RevisionsGrow, Absent, Snapshot
      <3>2. album.status = "publishing"
        BY <2>4
      <3>3. CASE CopyOp(album.rev, p) = o
        <4>1. Wanted(o)
          BY <3>1, <3>2, <3>3 DEF Wanted
        <4> QED
          BY <4>1, <3>1, <3>3, <2>2, <1>k, <1>s DEF CallTrue, o
      <3>4. CASE CopyOp(album.rev, p) # o
        BY <3>1, <3>2, <3>4, <2>2 DEF ServedInv, CopiesTrue
      <3> QED
        BY <3>3, <3>4
    <2>8. PublishedIsServed'
      BY <2>4, <1>s DEF PublishedIsServed, ServedInv
    <2>9. \A a \in Admins : SnapTrue(a)'
      BY <2>3, <2>4, <1>s DEF SnapTrue, Absent, ServedInv
    <2>10. ASSUME NEW v \in Workers PROVE CallTrue(v)'
      <3>1. CASE v = w
        BY <3>1, <1>s, DoneTyped
      <3>2. CASE v # w
        <4>1. worker'[v] = worker[v] /\ CallTrue(v)
          BY <3>2, <1>d, <1>k DEF ServedInv
        <4>2. worker[v].pc \notin {"call", "settle"}
          BY <3>2, <1>k DEF AlbumTypeOK
        <4> QED
          BY <4>1, <4>2 DEF CallTrue, Queue!ClaimToken
      <3> QED
        BY <3>1, <3>2
    <2> QED
      BY <2>5, <2>6, <2>7, <2>8, <2>9, <2>10 DEF ServedInv
  <1> QED
    BY <1>1, <1>2

-----------------------------------------------------------------------------
(* The imported album is served, and nothing is under way. *)
LEMMA InitServes == Init => ServedInv
  <1> SUFFICES ASSUME Init PROVE ServedInv
    OBVIOUS
  <1>n. NoAlbum \in Snapshot /\ IdleAdmin \in AdminState /\ MaxRev \in Nat \ {0} /\ MaxFaults \in Nat
    BY IdleTyped, AlbumAssumption DEF NoAlbum, Snapshot, AlbumStatus
  <1>1. /\ album \in Snapshot /\ pub \subseteq Photos /\ priv \subseteq Photos
        /\ \/ album = NoAlbum
           \/ /\ album.status \in {"draft", "published"} /\ album.rev = 1
              /\ album.status = "published" => pub = album.photos
    <2>1. CASE album = NoAlbum /\ pub = {} /\ priv = {}
      BY <2>1, <1>n
    <2>2. ASSUME NEW status \in {"draft", "published"}, NEW set \in SUBSET Photos,
                 album = [status |-> status, rev |-> 1, photos |-> set],
                 priv = set, pub = IF status = "published" THEN set ELSE {}
          PROVE  /\ album \in Snapshot /\ pub \subseteq Photos /\ priv \subseteq Photos
                 /\ album.status \in {"draft", "published"} /\ album.rev = 1
                 /\ album.status = "published" => pub = album.photos
      BY <2>2, <1>n DEF Snapshot, AlbumStatus
    <2> QED
      BY <2>1, <2>2 DEF Init
  <1>2. /\ admin = [a \in Admins |-> IdleAdmin] /\ worker = [w \in Workers |-> IdleWorker]
        /\ lock = None /\ faults = 0
        /\ ops = [o \in AlbumOps |-> Queue!AbsentRow] /\ held = [w \in Workers |-> {}]
    BY DEF Init, Queue!OpsInit
  <1>3. Queue!OpsTypeOK
    BY <1>2, AlbumAssumption DEF Queue!OpsTypeOK, Queue!OpRow, Queue!OpStatus, Queue!AbsentRow, Queue!ClaimToken
  <1>4. AlbumTypeOK
    <2>1. \A w \in Workers : worker[w].pc \notin {"call", "settle"} /\ lock # w
      BY <1>2, AlbumAssumption DEF IdleWorker
    <2>2. IdleWorker \in WorkerState
      BY DEF IdleWorker, WorkerState
    <2> QED
      BY <1>1, <1>2, <1>3, <1>n, <2>1, <2>2 DEF AlbumTypeOK, AdminState, WorkerState
  <1>5. Existing = {}
    BY <1>2 DEF Existing, Queue!AbsentRow
  <1>6. RevisionsGrow
    BY <1>1, <1>5, <1>n DEF RevisionsGrow, Absent, NoAlbum, Revs
  <1>7. CopiesTrue /\ PublishedIsServed
    BY <1>1 DEF CopiesTrue, PublishedIsServed, NoAlbum
  <1>8. \A a \in Admins : SnapTrue(a)
    BY <1>2 DEF SnapTrue, IdleAdmin
  <1>9. \A w \in Workers : CallTrue(w)
    BY <1>2 DEF CallTrue, IdleWorker
  <1> QED
    BY <1>4, <1>6, <1>7, <1>8, <1>9 DEF ServedInv

(* ServedInv is inductive. *)
LEMMA NextServes == ServedInv /\ [Next]_vars => ServedInv'
  <1> SUFFICES ASSUME ServedInv, [Next]_vars PROVE ServedInv'
    OBVIOUS
  <1>1. ASSUME NEW a \in Admins, Request(a) PROVE ServedInv'
    BY <1>1, AdminServes, WriteServes DEF Request, AskSome
  <1>2. ASSUME NEW w \in Workers, ClaimBatch(w) \/ Run(w) \/ CallFails(w) \/ Crash(w)
        PROVE  ServedInv'
    BY <1>2, ClaimBatchServes, BeginServes, TakeLockServes, CallServes, SettleServes,
       FailAndCrashServe DEF Run
  <1>3. CASE LeaseEnds
    BY <1>3, LeaseEndsServes
  <1>4. CASE UNCHANGED vars
    <2>1. UNCHANGED <<album, pub, priv, admin, worker, lock, faults, ops, held>>
      BY <1>4 DEF vars
    <2>2. OpsKept
      BY <2>1 DEF OpsKept
    <2>3. AlbumTypeOK'
      BY <2>1 DEF ServedInv, AlbumTypeOK, Queue!OpsTypeOK, Queue!OpRow, Queue!ClaimToken
    <2>4. \A v \in Workers : CallTrue(v)'
      BY <2>1, OthersCall
    <2> QED
      BY <2>1, <2>2, <2>3, <2>4, QuietServes DEF ServedInv
  <1> QED
    BY <1>1, <1>2, <1>3, <1>4 DEF Next, NextOf

(* The catalogue, the queue and whoever works on them keep their types,    *)
(* and a worker past the lock has it to itself, for any photos,            *)
(* administrators and workers.                                             *)
THEOREM AlbumIsTyped == Spec => []AlbumTypeOK
  <1>1. ServedInv => AlbumTypeOK
    BY DEF ServedInv
  <1> QED
    BY <1>1, InitServes, NextServes, PTL DEF Spec

(* A published album is served whole: whatever older copies and deletions  *)
(* are in the queue, in a worker's hands, retried or abandoned, and        *)
(* whatever requests are under way, every photo of a published album is in *)
(* the public bucket.                                                      *)
THEOREM PublishedAlbumIsServed == Spec => []PublishedIsServed
  <1>1. ServedInv => PublishedIsServed
    BY DEF ServedInv
  <1> QED
    BY <1>1, InitServes, NextServes, PTL DEF Spec

-----------------------------------------------------------------------------
(* The withdrawal. *)

(* Whatever leaves the album and the bucket alone, and settles nothing.    *)
LEMMA QuietHides ==
  ASSUME HiddenInv, album' = album, pub' = pub, OpsKept,
         \A v \in Workers : worker'[v] = worker[v] \/ worker'[v].pc # "settle"
  PROVE  Withdraws'
  <1>1. OpenDeletes' = OpenDeletes
    BY DEF OpenDeletes, OpsKept
  <1>2. PublicTrue'
    BY <1>1 DEF PublicTrue, Doomed, HiddenInv, Withdraws, InPublic
  <1>3. WorkLeft'
    BY DEF WorkLeft, OpsKept, HiddenInv, Withdraws
  <1>4. DeleteDone'
    BY DEF DeleteDone, Op, HiddenInv, Withdraws
  <1> QED
    BY <1>2, <1>3, <1>4 DEF Withdraws

(* The steps of a request before it writes put nothing in the public       *)
(* bucket, the social card apart.                                          *)
LEMMA AdminHides ==
  ASSUME NEW a \in Admins, HiddenInv, "focal" \notin Intents,
         AskSome(a) \/ UploadBytes(a) \/ ReadLatest(a) \/ UploadCard(a) \/ ListObjects(a)
         \/ GiveUp(a)
  PROVE  Withdraws'
  <1>a. \A intent, set, pc : Ask(a, intent, set, pc) => UNCHANGED <<album, ops, pub, worker>>
    BY DEF Ask, bucket
  <1>1. UNCHANGED <<album, ops, worker, pub>>
    <2>1. CASE AskSome(a)
      BY <2>1, <1>a DEF AskSome, AskCreate, AskPublish, AskUnpublish, AskEdit, AskRemove, AskUpload,
         AskDelete, AskFocal
    <2>2. CASE UploadCard(a)
      <3>1. admin[a].intent \in Intents \cup {"none"}
        BY DEF HiddenInv, ServedInv, AlbumTypeOK
      <3> QED
        BY <2>2, <3>1 DEF UploadCard
    <2>3. CASE ~AskSome(a) /\ ~UploadCard(a)
      BY <2>3 DEF UploadBytes, ReadLatest, ListObjects, GiveUp, catalogue, bucket
    <2> QED
      BY <2>1, <2>2, <2>3
  <1>2. OpsKept
    BY <1>1 DEF OpsKept
  <1> QED
    BY <1>1, <1>2, QuietHides

(* The call of the bucket: what it adds is wanted, what it deletes is gone. *)
LEMMA CallHides ==
  ASSUME NEW w \in Workers, HiddenInv, Call(w) \/ CallImpossible(w) \/ CallFails(w)
  PROVE  Withdraws'
  <1>k. /\ worker \in [Workers -> WorkerState] /\ worker[w] \in WorkerState
        /\ lock = w /\ Op(w) \in AlbumOps /\ CallTrue(w) /\ worker[w].pc = "call" /\ AlbumTypeOK
    BY WorkerKnows DEF Call, CallImpossible, CallFails, HiddenInv
  <1>1. ~Refused(Op(w)) /\ UNCHANGED <<album, ops>>
    BY <1>k DEF CallTrue, Call, CallImpossible, CallFails, catalogue
  <1>2. \/ pub' = pub /\ ~(Op(w).kind = "delete" /\ Op(w).scope = "public")
        \/ pub' = pub /\ worker'[w].pc # "settle"
        \/ Op(w).kind = "delete" /\ pub' = pub \ {Op(w).key}
        \/ Op(w).kind = "copy" /\ Wanted(Op(w)) /\ pub' = pub \cup {Op(w).key}
    <2>1. CASE Effect(Op(w))
      BY <2>1 DEF Effect, Wanted, bucket
    <2>2. CASE CallImpossible(w) \/ (CallFails(w) /\ UNCHANGED bucket)
      BY <2>2, <1>k DEF CallImpossible, CallFails, bucket, WorkerState
    <2> QED
      BY <2>1, <2>2 DEF Call, CallFails
  <1>3. /\ worker'[w].claim = worker[w].claim
        /\ \A v \in Workers \ {w} : worker'[v] = worker[v] /\ worker[v].pc # "settle"
    BY <1>k DEF Call, CallImpossible, CallFails, WorkerState, AlbumTypeOK
  <1>4. OpenDeletes' = OpenDeletes
    BY <1>1 DEF OpenDeletes
  <1>5. PublicTrue'
    <2>1. CASE pub' \subseteq pub
      BY <2>1, <1>1, <1>4 DEF PublicTrue, Doomed, HiddenInv, Withdraws, InPublic
    <2>2. CASE Op(w).kind = "copy" /\ Wanted(Op(w)) /\ pub' = pub \cup {Op(w).key}
      <3>1. album.status = "publishing" /\ Op(w).key \in album.photos
        BY <2>2, <1>1 DEF Refused, Wanted
      <3> QED
        BY <2>2, <3>1, <1>1, <1>4 DEF PublicTrue, Doomed, HiddenInv, Withdraws, InPublic
    <2> QED
      BY <2>1, <2>2, <1>2
  <1>6. WorkLeft'
    BY <1>1 DEF WorkLeft, HiddenInv, Withdraws
  <1>7. DeleteDone'
    <2> SUFFICES ASSUME NEW v \in Workers, worker'[v].pc = "settle",
                        worker'[v].claim.op.kind = "delete", worker'[v].claim.op.scope = "public"
                 PROVE  worker'[v].claim.op.key \notin pub'
      BY DEF DeleteDone, Op
    <2>1. v = w
      BY <1>3
    <2>2. worker'[v].claim.op = Op(w)
      BY <2>1, <1>3 DEF Op
    <2> QED
      BY <2>1, <2>2, <1>2
  <1> QED
    BY <1>5, <1>6, <1>7 DEF Withdraws

(* The settlement of a deletion: its key is gone. *)
LEMMA SettleHides ==
  ASSUME NEW w \in Workers, HiddenInv, SettleOp(w)
  PROVE  Withdraws'
  <1> DEFINE o == Op(w)
  <1>k. /\ worker \in [Workers -> WorkerState] /\ AlbumTypeOK /\ Queue!OpsTypeOK
        /\ lock = w /\ o \in AlbumOps /\ album \in Snapshot
    BY WorkerKnows DEF SettleOp, HiddenInv
  <1>s. worker[w].pc = "settle" /\ Done(w) /\ pub' = pub
    BY DEF SettleOp, bucket
  <1>d. /\ worker' = [worker EXCEPT ![w] = IdleWorker] /\ Queue!Forget(w, worker[w].claim)
        /\ \A v \in Workers : worker'[v] = worker[v] \/ worker'[v].pc # "settle"
    BY <1>s, <1>k DEF Done, IdleWorker
  <1>1. CASE ~StillClaimed(w)
    <2>1. album' = album /\ OpsKept
      BY <1>1 DEF SettleOp, catalogue, OpsKept
    <2> QED
      BY <2>1, <1>s, <1>d, QuietHides
  <1>2. CASE StillClaimed(w)
    <2>1. /\ ops' = [ops EXCEPT ![o].status = "completed", ![o].live = FALSE]
          /\ album' = IF Wanted(o) /\ Remaining(o) = {}
                      THEN [album EXCEPT !.status = "published"] ELSE album
      BY <1>2 DEF SettleOp
    <2>c. ops[o].status = "claimed"
      BY <1>2 DEF StillClaimed
    <2>g. o.kind = "delete" /\ o.scope = "public" => o.key \notin pub
      BY <1>s DEF HiddenInv, Withdraws, DeleteDone
    <2> HIDE DEF o
    <2>2. /\ ops'[o].status = "completed"
          /\ \A x \in AlbumOps \ {o} : ops'[x] = ops[x]
      BY <2>1, <2>c, <1>k, <1>d, CompletedOp
    <2>3. album'.photos = album.photos /\ (InPublic(album.status) => InPublic(album'.status))
      BY <2>1, <1>k DEF Snapshot, InPublic
    <2>4. PublicTrue'
      <3> SUFFICES ASSUME NEW p \in pub
                   PROVE  (InPublic(album'.status) /\ p \in album'.photos) \/ Doomed(p)'
        BY <1>s DEF PublicTrue, InPublic
      <3>1. (InPublic(album.status) /\ p \in album.photos) \/ Doomed(p)
        BY DEF HiddenInv, Withdraws, PublicTrue
      <3>2. ASSUME NEW x \in OpenDeletes, x.scope = "public", x.key = p
            PROVE  Doomed(p)'
        <4>1. x # o
          BY <2>g, <3>2 DEF OpenDeletes
        <4>2. x \in OpenDeletes'
          BY <4>1, <2>2 DEF OpenDeletes
        <4> QED
          BY <4>2, <3>2 DEF Doomed
      <3> QED
        BY <3>1, <3>2, <2>3 DEF Doomed
    <2>5. WorkLeft'
      <3> SUFFICES ASSUME album'.status = "publishing"
                   PROVE  \E c \in AlbumOps : /\ c.kind = "copy" /\ c.rev = album'.rev
                                              /\ ops'[c].status \notin {"absent", "completed"}
        BY DEF WorkLeft
      <3>1. album' = album /\ ~(Wanted(o) /\ Remaining(o) = {})
        BY <2>1, <1>k DEF Snapshot
      <3>2. CASE Wanted(o)
        <4>1. PICK c \in Remaining(o) : TRUE
          BY <3>1, <3>2
        <4>2. /\ c \in AlbumOps /\ c # o /\ c.kind = "copy" /\ c.rev = album.rev
              /\ ops[c].status \notin {"absent", "completed"}
          BY <4>1, <3>2 DEF Remaining, Wanted
        <4> QED
          BY <4>2, <3>1, <2>2
      <3>3. CASE ~Wanted(o)
        <4>1. PICK c \in AlbumOps : /\ c.kind = "copy" /\ c.rev = album.rev
                                    /\ ops[c].status \notin {"absent", "completed"}
          BY <3>1 DEF HiddenInv, Withdraws, WorkLeft
        <4>2. c # o
          BY <4>1, <3>1, <3>3 DEF Wanted
        <4> QED
          BY <4>1, <4>2, <3>1, <2>2
      <3> QED
        BY <3>2, <3>3
    <2>6. DeleteDone'
      BY <1>s, <1>d DEF DeleteDone, Op, HiddenInv, Withdraws
    <2> QED
      BY <2>4, <2>5, <2>6 DEF Withdraws
  <1> QED
    BY <1>1, <1>2

(* A write after which every photo that was on show is on show or withdrawn. *)
LEMMA WriteAlbumHides ==
  ASSUME HiddenInv, NEW snap \in Snapshot, NEW status \in AlbumStatus \ {"absent"},
         NEW photos \in SUBSET Photos, NEW pubDel \in SUBSET Photos, NEW privDel \in SUBSET Photos,
         WriteAlbum(snap, status, photos, pubDel, privDel), lock = None,
         UNCHANGED <<pub, worker, held>>,
         InPublic(album.status) =>
           album.photos \subseteq pubDel \cup (IF InPublic(status) THEN photos ELSE {}),
         status = "publishing" => photos # {}
  PROVE  Withdraws'
  <1>1. PICK rev \in Revs :
       /\ NextRev(rev)
       /\ album' = [status |-> status, rev |-> rev, photos |-> photos]
       /\ ops' = Queue!Enqueued(
            Deletes(rev, "public", pubDel) \cup Deletes(rev, "private", privDel)
              \cup IF status = "publishing" THEN {CopyOp(rev, p) : p \in photos} ELSE {})
    BY DEF WriteAlbum
  <1> DEFINE os == Deletes(rev, "public", pubDel) \cup Deletes(rev, "private", privDel)
              \cup IF status = "publishing" THEN {CopyOp(rev, p) : p \in photos} ELSE {}
  <1>2. \A p \in photos : CopyOp(rev, p) \in AlbumOps /\ CopyOp(rev, p).rev = rev
                           /\ CopyOp(rev, p).kind = "copy"
    BY DEF CopyOp, AlbumOps
  <1>3. /\ Deletes(rev, "public", pubDel) \subseteq {o \in AlbumOps : o.rev = rev}
        /\ Deletes(rev, "private", privDel) \subseteq {o \in AlbumOps : o.rev = rev}
    BY DeletesAreOps
  <1>4. os \in SUBSET AlbumOps /\ \A o \in os : o.rev = rev
    BY <1>2, <1>3
  <1>5. /\ status = "publishing" => \A p \in photos : CopyOp(rev, p) \in os
        /\ \A p \in pubDel : DeleteOp(rev, "public", p) \in os
    BY DEF Deletes
  <1>6. ops' = Queue!Enqueued(os)
    BY <1>1
  <1> HIDE DEF os
  <1>7. Queue!OpsTypeOK /\ AlbumTypeOK /\ RevisionsGrow /\ held' = held
    BY DEF HiddenInv, ServedInv, AlbumTypeOK
  <1>8. /\ \A o \in AlbumOps : ops[o].status # "absent" => ops'[o] = ops[o]
        /\ \A o \in os : ops[o].status = "absent" => ops'[o].status = "pending"
    BY <1>4, <1>6, <1>7, EnqueuedOps
  <1>9. \A o \in Existing : o.rev < rev
    BY <1>1, <1>7, RevisionIsFresh
  <1>10. \A o \in os : o \in AlbumOps /\ ops'[o].status = "pending"
    <2>1. MaxRev \in Nat /\ rev \in Nat
      BY AlbumAssumption DEF Revs
    <2> QED
      BY <2>1, <1>4, <1>8, <1>9 DEF Existing
  <1>11. OpenDeletes \subseteq OpenDeletes'
    BY <1>8 DEF OpenDeletes
  <1>12. PublicTrue'
    <2> SUFFICES ASSUME NEW p \in pub
                 PROVE  (InPublic(album'.status) /\ p \in album'.photos) \/ Doomed(p)'
      BY DEF PublicTrue, InPublic
    <2>1. (InPublic(album.status) /\ p \in album.photos) \/ Doomed(p)
      BY DEF HiddenInv, Withdraws, PublicTrue
    <2>2. CASE Doomed(p)
      BY <2>2, <1>11 DEF Doomed
    <2>3. CASE p \in pubDel
      <3>1. /\ DeleteOp(rev, "public", p) \in OpenDeletes'
            /\ DeleteOp(rev, "public", p).scope = "public" /\ DeleteOp(rev, "public", p).key = p
        BY <2>3, <1>5, <1>10 DEF OpenDeletes, DeleteOp
      <3> QED
        BY <3>1 DEF Doomed
    <2>4. CASE InPublic(status) /\ p \in photos
      BY <2>4, <1>1
    <2> QED
      BY <2>1, <2>2, <2>3, <2>4
  <1>13. WorkLeft'
    <2> SUFFICES ASSUME album'.status = "publishing"
                 PROVE  \E c \in AlbumOps : /\ c.kind = "copy" /\ c.rev = album'.rev
                                            /\ ops'[c].status \notin {"absent", "completed"}
      BY DEF WorkLeft
    <2>1. status = "publishing" /\ album'.rev = rev
      BY <1>1
    <2>2. PICK p \in photos : TRUE
      BY <2>1
    <2> QED
      BY <2>1, <2>2, <1>2, <1>5, <1>10
  <1>14. DeleteDone'
    <2>1. \A v \in Workers : worker[v].pc # "settle"
      BY <1>7, AlbumAssumption DEF AlbumTypeOK
    <2> QED
      BY <2>1 DEF DeleteDone
  <1> QED
    BY <1>12, <1>13, <1>14 DEF Withdraws

(* Each request withdraws what it takes off show. *)
LEMMA WriteHides ==
  ASSUME NEW a \in Admins, HiddenInv, Write(a), "deleteAlbum" \notin Intents
  PROVE  Withdraws'
  <1> DEFINE snap == admin[a].snap
             set == admin[a].set
             left == snap.photos \ set
  <1>1. /\ snap \in Snapshot /\ set \in SUBSET Photos
        /\ admin[a].intent \in Intents \cup {"none"}
    BY DEF AlbumTypeOK, HiddenInv, ServedInv
  <1>2. /\ snap.photos \in SUBSET Photos /\ left \in SUBSET Photos /\ {} \in SUBSET Photos
        /\ snap.photos \cup set \in SUBSET Photos
        /\ Withdrawn(snap, set) \in SUBSET Photos
        /\ (IF snap.status = "draft" THEN {} ELSE snap.photos) \in SUBSET Photos
        /\ snap.status \in AlbumStatus /\ album.status \in AlbumStatus
    BY <1>1 DEF Snapshot, Withdrawn, AlbumTypeOK, HiddenInv, ServedInv
  <1>3. /\ Requested(a) /\ admin[a].pc = "write" /\ SnapTrue(a) /\ lock = None
        /\ UNCHANGED <<pub, worker, held>>
    BY DEF Write, HiddenInv, ServedInv, bucket
  <1>4. /\ admin[a].intent # "create" => snap.status # "absent"
        /\ admin[a].intent = "publish" => snap.photos # {}
    BY <1>3 DEF SnapTrue
  <1>5. ASSUME NEW status, NEW photos, NEW pubDel, NEW privDel,
               WriteAlbum(snap, status, photos, pubDel, privDel), InPublic(album.status)
        PROVE  /\ snap.photos = album.photos /\ InPublic(snap.status)
               /\ snap.status # "publishing" => album.status = "published"
    BY <1>3, <1>5 DEF SnapTrue, Writable, WriteAlbum, Absent, InPublic
  <1>6. CASE admin[a].intent = "create" /\ WriteAlbum(snap, "draft", {}, {}, {})
    <2>1. ~InPublic(album.status)
      BY <1>3, <1>6 DEF SnapTrue, WriteAlbum, Writable, InPublic
    <2> QED
      BY <2>1, <1>6, <1>1, <1>2, <1>3, WriteAlbumHides DEF AlbumStatus
  <1>7. CASE admin[a].intent = "publish" /\ WriteAlbum(snap, "publishing", snap.photos, {}, {})
    BY <1>7, <1>1, <1>2, <1>3, <1>4, <1>5, WriteAlbumHides DEF AlbumStatus, InPublic
  <1>8. CASE admin[a].intent = "unpublish" /\ WriteAlbum(snap, "draft", snap.photos, snap.photos, {})
    BY <1>8, <1>1, <1>2, <1>3, <1>5, WriteAlbumHides DEF AlbumStatus
  <1>9. CASE admin[a].intent = "upload"
             /\ WriteAlbum(snap, "draft", snap.photos \cup set,
                           IF snap.status = "draft" THEN {} ELSE snap.photos, {})
    <2>1. InPublic(album.status) =>
            album.photos = IF snap.status = "draft" THEN {} ELSE snap.photos
      BY <1>9, <1>5 DEF InPublic
    <2> QED
      BY <2>1, <1>9, <1>1, <1>2, <1>3, WriteAlbumHides DEF AlbumStatus
  <1>10. CASE admin[a].intent = "remove"
              /\ WriteAlbum(snap, IF left = {} \/ snap.status = "publishing" THEN "draft" ELSE snap.status,
                            left, Withdrawn(snap, set), set)
    <2> DEFINE status == IF left = {} \/ snap.status = "publishing" THEN "draft" ELSE snap.status
    <2>1. status \in AlbumStatus \ {"absent"} /\ status # "publishing"
      BY <1>2, <1>4, <1>10 DEF AlbumStatus
    <2>2. InPublic(album.status) =>
            album.photos \subseteq Withdrawn(snap, set) \cup (IF InPublic(status) THEN left ELSE {})
      <3> SUFFICES ASSUME InPublic(album.status)
                   PROVE  album.photos \subseteq Withdrawn(snap, set) \cup (IF InPublic(status) THEN left ELSE {})
        OBVIOUS
      <3>1. snap.photos = album.photos /\ InPublic(snap.status)
        BY <1>10, <1>5
      <3>2. CASE snap.status = "publishing"
        BY <3>1, <3>2 DEF Withdrawn
      <3>3. CASE snap.status # "publishing"
        BY <3>1, <3>3 DEF Withdrawn
      <3> QED
        BY <3>2, <3>3
    <2>3. WriteAlbum(snap, status, left, Withdrawn(snap, set), set)
      BY <1>10
    <2> HIDE DEF status, left, snap, set
    <2> QED
      BY <2>1, <2>2, <2>3, <1>1, <1>2, <1>3, WriteAlbumHides
  <1>12. CASE (admin[a].intent = "edit" \/ admin[a].intent = "focal")
              /\ snap.status # "publishing" /\ WriteAlbum(snap, snap.status, snap.photos, {}, {})
    <2>1. InPublic(album.status) => album.photos = snap.photos /\ InPublic(snap.status)
      BY <1>12, <1>5
    <2>2. snap.status \in AlbumStatus \ {"absent"}
      BY <1>2, <1>4, <1>12
    <2> HIDE DEF left, snap, set
    <2> QED
      BY <2>1, <2>2, <1>12, <1>1, <1>2, <1>3, WriteAlbumHides
  <1> QED
    BY <1>1, <1>3, <1>6, <1>7, <1>8, <1>9, <1>10, <1>12 DEF Requested

(* The public bucket holds the photos of the imported album, if published. *)
LEMMA InitHides == Init => HiddenInv
  <1> SUFFICES ASSUME Init PROVE Withdraws
    BY InitServes DEF HiddenInv
  <1>1. \/ pub = {}
        \/ album.status = "published" /\ pub = album.photos
    BY DEF Init
  <1>2. album.status # "publishing"
    BY DEF Init, NoAlbum
  <1>3. \A w \in Workers : worker[w].pc # "settle"
    BY DEF Init, IdleWorker
  <1> QED
    BY <1>1, <1>2, <1>3 DEF Withdraws, PublicTrue, WorkLeft, DeleteDone, InPublic

(* HiddenInv is inductive without the two requests that touch the buckets  *)
(* outside the lock.                                                       *)
LEMMA NextHides ==
  ASSUME "deleteAlbum" \notin Intents, "focal" \notin Intents
  PROVE  HiddenInv /\ [Next]_vars => HiddenInv'
  <1> SUFFICES ASSUME HiddenInv, [Next]_vars PROVE Withdraws'
    BY NextServes DEF HiddenInv
  <1>s. ServedInv
    BY DEF HiddenInv
  <1>1. ASSUME NEW a \in Admins, Request(a) PROVE Withdraws'
    BY <1>1, AdminHides, WriteHides DEF Request, AskSome
  <1>2. ASSUME NEW w \in Workers, ClaimBatch(w) \/ Run(w) \/ CallFails(w) \/ Crash(w)
        PROVE  Withdraws'
    <2>k. /\ worker \in [Workers -> WorkerState] /\ worker[w] \in WorkerState /\ Queue!OpsTypeOK
      BY <1>s, WorkerKnows
    <2>1. CASE ClaimBatch(w)
      <3>1. OpsKept
        BY <2>1, <2>k, ClaimKeeps DEF ClaimBatch
      <3> QED
        BY <2>1, <3>1, QuietHides DEF ClaimBatch, bucket
    <2>2. CASE Begin(w)
      <3>1. OpsKept /\ \A v \in Workers : worker'[v] = worker[v] \/ worker'[v].pc # "settle"
        BY <2>2, <2>k DEF Begin, OpsKept, catalogue
      <3> QED
        BY <2>2, <3>1, QuietHides DEF Begin, bucket, catalogue
    <2>3. CASE TakeLock(w)
      <3>1. OpsKept
        BY <2>3 DEF TakeLock, OpsKept, catalogue
      <3>2. \A v \in Workers : worker'[v] = worker[v] \/ worker'[v].pc # "settle"
        BY <2>3, <2>k DEF TakeLock, Done, IdleWorker, WorkerState
      <3> QED
        BY <2>3, <3>1, <3>2, QuietHides DEF TakeLock, bucket, catalogue
    <2>4. CASE Call(w) \/ CallImpossible(w) \/ CallFails(w)
      BY <2>4, CallHides
    <2>5. CASE SettleOp(w)
      BY <2>5, SettleHides
    <2>6. CASE FailOp(w)
      <3>1. OpsKept
        BY <2>6, <2>k, FailKeeps DEF FailOp
      <3>2. \A v \in Workers : worker'[v] = worker[v] \/ worker'[v].pc # "settle"
        BY <2>6, <2>k DEF FailOp, IdleWorker
      <3> QED
        BY <2>6, <3>1, <3>2, QuietHides DEF FailOp, bucket
    <2>7. CASE Crash(w)
      <3>1. OpsKept
        BY <2>7, <2>k DEF Crash, Queue!Abandon, OpsKept
      <3>2. \A v \in Workers : worker'[v] = worker[v] \/ worker'[v].pc # "settle"
        BY <2>7, <2>k DEF Crash, IdleWorker
      <3> QED
        BY <2>7, <3>1, <3>2, QuietHides DEF Crash, bucket
    <2> QED
      BY <1>2, <2>1, <2>2, <2>3, <2>4, <2>5, <2>6, <2>7 DEF Run
  <1>3. CASE LeaseEnds
    <2>1. OpsKept
      BY <1>3, <1>s, LeaseKeeps DEF LeaseEnds, ServedInv, AlbumTypeOK
    <2> QED
      BY <1>3, <2>1, QuietHides DEF LeaseEnds, bucket
  <1>4. CASE UNCHANGED vars
    <2>1. OpsKept
      BY <1>4 DEF vars, OpsKept
    <2> QED
      BY <1>4, <2>1, QuietHides DEF vars
  <1> QED
    BY <1>1, <1>2, <1>3, <1>4 DEF Next, NextOf

(* Once the queue is empty the public bucket holds nothing but the photos  *)
(* of a published album, however creation, publication, withdrawal, edits, *)
(* uploads and removals interleave with the workers.  Left out are the two *)
(* requests that touch a bucket outside the lock, with which it fails: the *)
(* deletion of an album lists the buckets before its transaction, and a    *)
(* new social card is uploaded without a look at the album.                *)
THEOREM WithdrawnIsHidden ==
  ASSUME "deleteAlbum" \notin Intents, "focal" \notin Intents
  PROVE  Spec => []OnlyPublishedIsPublic
  <1>1. HiddenInv => OnlyPublishedIsPublic
    <2> SUFFICES ASSUME HiddenInv, Settled, NEW p \in pub
                 PROVE  album.status = "published" /\ p \in album.photos
      BY DEF OnlyPublishedIsPublic
    <2>1. OpenDeletes = {}
      BY DEF Settled, OpenDeletes
    <2>2. InPublic(album.status) /\ p \in album.photos
      BY <2>1 DEF HiddenInv, Withdraws, PublicTrue, Doomed
    <2>3. album.status # "publishing"
      BY DEF HiddenInv, Withdraws, WorkLeft, Settled
    <2> QED
      BY <2>2, <2>3 DEF InPublic
  <1> QED
    BY <1>1, InitHides, NextHides, PTL DEF Spec
=============================================================================
