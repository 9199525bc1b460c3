-------------------------- MODULE AlbumPublication --------------------------
(***************************************************************************)
(* One album slug: its catalogue row in Postgres, the copies of its photos *)
(* in the private and in the public bucket, the administrators who change  *)
(* it and the workers who carry out the copies and deletions it enqueued.  *)
(*                                                                         *)
(* A catalogue write is one transaction under the album's advisory lock    *)
(* and checks the revision its caller read.  A worker holds the same lock  *)
(* across its call of the bucket.  Reading the album, listing a bucket and *)
(* uploading bytes take no lock.  A photo's objects go through every       *)
(* operation together, so one key per photo and bucket stands for them.    *)
(***************************************************************************)
EXTENDS Naturals, FiniteSets

CONSTANTS
  Photos,       \* photo ids; an id is made from the file's name
  Manifest,     \* the key of the album's legacy manifest
  Admins,       \* requests of administrators in progress at once
  Workers,      \* processes that run batches
  None,         \* "no value"
  Intents,      \* the requests administrators make
  MaxRev,       \* bound: revisions
  MaxAttempts,  \* max_attempts
  BatchLimit,   \* operations per claim
  MaxFaults     \* bound: crashes and failed calls of a bucket

ASSUME AlbumAssumption ==
  /\ IsFiniteSet(Photos) /\ Manifest \notin Photos
  /\ None \notin Workers
  /\ Intents \subseteq {"create", "publish", "unpublish", "edit", "remove", "upload",
                        "deleteAlbum", "focal"}
  /\ MaxRev \in Nat \ {0} /\ MaxFaults \in Nat
  /\ MaxAttempts \in Nat \ {0} /\ BatchLimit \in Nat \ {0}

Revs == 1..MaxRev
CopyOp(rev, p) == [rev |-> rev, kind |-> "copy", scope |-> "public", key |-> p]
DeleteOp(rev, scope, k) == [rev |-> rev, kind |-> "delete", scope |-> scope, key |-> k]
AlbumOps ==
  [rev : Revs, kind : {"copy"}, scope : {"public"}, key : Photos]
    \cup [rev : Revs, kind : {"delete"}, scope : {"public", "private"},
          key : Photos \cup {Manifest}]

VARIABLES
  album,   \* gallery_albums and gallery_album_photos; status "absent" without a row
  pub,     \* the photos that have objects in the public bucket
  priv,    \* the photos that have objects in the private bucket
  admin,   \* the request each administrator is making
  worker,  \* the operation each worker is carrying out
  lock,    \* the worker that holds the album's lock across its call
  faults,  \* faults so far
  ops, held

Queue == INSTANCE ObjectOperations WITH OpIds <- AlbumOps

catalogue == <<album, ops>>
bucket == <<pub, priv>>
vars == <<album, pub, priv, admin, worker, lock, faults, ops, held>>

AlbumStatus == {"absent", "draft", "publishing", "published"}
Snapshot == [status : AlbumStatus, rev : 0..MaxRev, photos : SUBSET Photos]
NoAlbum == [status |-> "absent", rev |-> 0, photos |-> {}]
IdleAdmin == [pc |-> "idle", intent |-> "none", set |-> {}, snap |-> NoAlbum,
              inPub |-> {}, inPriv |-> {}]
IdleWorker == [pc |-> "idle", claim |-> None, fresh |-> FALSE]

(* The catalogue, the buckets and whoever works on them hold the values    *)
(* the code knows, and a worker that is past the lock has it.              *)
AlbumTypeOK ==
  /\ album \in Snapshot
  /\ pub \subseteq Photos /\ priv \subseteq Photos
  /\ admin \in [Admins -> [pc : {"idle", "bytes", "latest", "list", "write"},
                           intent : Intents \cup {"none"}, set : SUBSET Photos,
                           snap : Snapshot, inPub : SUBSET Photos, inPriv : SUBSET Photos]]
  /\ worker \in [Workers -> [pc : {"idle", "lock", "call", "settle", "fail"},
                             claim : Queue!ClaimToken \cup {None}, fresh : BOOLEAN]]
  /\ lock \in Workers \cup {None}
  /\ \A w \in Workers : worker[w].pc \in {"call", "settle"} <=> lock = w
  /\ faults \in 0..MaxFaults
  /\ Queue!OpsTypeOK

(* No album, or one imported from a legacy manifest. *)
Init ==
  /\ \/ album = NoAlbum /\ pub = {} /\ priv = {}
     \/ \E status \in {"draft", "published"}, set \in SUBSET Photos :
          /\ set # {}
          /\ album = [status |-> status, rev |-> 1, photos |-> set]
          /\ priv = set
          /\ pub = IF status = "published" THEN set ELSE {}
  /\ admin = [a \in Admins |-> IdleAdmin]
  /\ worker = [w \in Workers |-> IdleWorker]
  /\ lock = None
  /\ faults = 0
  /\ Queue!OpsInit

-----------------------------------------------------------------------------
(* The catalogue's transactions. *)

OpenDeletes == {o \in AlbumOps : o.kind = "delete" /\ ops[o].status \notin {"absent", "completed"}}
Existing == {o \in AlbumOps : ops[o].status # "absent"}
Deletes(rev, scope, keys) == {DeleteOp(rev, scope, k) : k \in keys}

(* The revision after the album's, or after the operations of an album     *)
(* that was deleted.                                                       *)
NextRev(rev) ==
  /\ rev \in Revs
  /\ \/ album.status # "absent" /\ rev = album.rev + 1
     \/ /\ album.status = "absent"
        /\ \A o \in Existing : rev > o.rev
        /\ rev = 1 \/ \E o \in Existing : rev = o.rev + 1

(* writePostgresAlbum refuses a revision that moved, a second publication, *)
(* a private key that is about to be deleted, and a public album while any *)
(* deletion is open.                                                       *)
Writable(snap, status, photos) ==
  /\ snap.status = "absent" <=> album.status = "absent"
  /\ album.status # "absent" => snap.rev = album.rev
  /\ ~(album.status = "publishing" /\ status = "publishing")
  /\ \A o \in OpenDeletes : o.scope = "private" => o.key \notin photos
  /\ status \in {"published", "publishing"} \/ album.status = "absent" => OpenDeletes = {}

WriteAlbum(snap, status, photos, pubDel, privDel) ==
  /\ Writable(snap, status, photos)
  /\ \E rev \in Revs :
       /\ NextRev(rev)
       /\ album' = [status |-> status, rev |-> rev, photos |-> photos]
       /\ ops' = Queue!Enqueued(
            Deletes(rev, "public", pubDel) \cup Deletes(rev, "private", privDel)
              \cup IF status = "publishing" THEN {CopyOp(rev, p) : p \in photos} ELSE {})

(* deletePostgresAlbum *)
DeleteAlbumRow(snap, pubDel, privDel) ==
  /\ album.status # "absent" /\ snap.rev = album.rev
  /\ \E rev \in Revs :
       /\ NextRev(rev)
       /\ album' = NoAlbum
       /\ ops' = Queue!Enqueued(Deletes(rev, "public", pubDel) \cup
                                Deletes(rev, "private", privDel \cup {Manifest}))

-----------------------------------------------------------------------------
(* The administrators' requests, each on the album it read first. *)

Ask(a, intent, set, pc) ==
  /\ intent \in Intents /\ admin[a].pc = "idle"
  /\ admin' = [admin EXCEPT ![a] = [IdleAdmin EXCEPT !.pc = pc, !.intent = intent,
                                                     !.set = set, !.snap = album]]
  /\ UNCHANGED <<album, ops, bucket, worker, lock, faults, held>>

(* createAdminAlbum, updateAlbumMetadata, reorderAlbumPhotos,              *)
(* updateAlbumPhoto, deleteAlbumPhotos, finalizeAlbumUploads, deleteAlbum. *)
AskCreate(a) == album.status = "absent" /\ Ask(a, "create", {}, "write")
AskPublish(a) ==
  album.status \in {"draft", "published"} /\ album.photos # {} /\ Ask(a, "publish", {}, "write")
AskUnpublish(a) ==
  album.status \in {"publishing", "published"} /\ Ask(a, "unpublish", {}, "write")
AskEdit(a) == album.status \in {"draft", "published"} /\ Ask(a, "edit", {}, "write")
AskRemove(a) ==
  \E set \in SUBSET album.photos : set # {} /\ Ask(a, "remove", set, "write")
AskUpload(a) ==
  /\ album.status # "absent"
  /\ \E set \in SUBSET (Photos \ album.photos) : set # {} /\ Ask(a, "upload", set, "bytes")
AskDelete(a) == album.status # "absent" /\ Ask(a, "deleteAlbum", {}, "list")
AskFocal(a) == \E p \in album.photos : Ask(a, "focal", {p}, "bytes")

Step(a, pc) == admin' = [admin EXCEPT ![a].pc = pc]

(* processAlbumUpload: the private objects, before anything is recorded. *)
UploadBytes(a) ==
  /\ admin[a].pc = "bytes" /\ admin[a].intent = "upload"
  /\ priv' = priv \cup admin[a].set
  /\ Step(a, "latest")
  /\ UNCHANGED <<catalogue, pub, worker, lock, faults, held>>

(* The album is read again once the photos are processed. *)
ReadLatest(a) ==
  /\ admin[a].pc = "latest"
  /\ IF album.status # "absent" /\ album.photos \cap admin[a].set = {}
       THEN admin' = [admin EXCEPT ![a].pc = "write", ![a].snap = album]
       ELSE admin' = [admin EXCEPT ![a] = IdleAdmin]
  /\ UNCHANGED <<catalogue, bucket, worker, lock, faults, held>>

(* A new social card goes to the public bucket when the album that was     *)
(* read is not a draft.                                                    *)
UploadCard(a) ==
  /\ admin[a].pc = "bytes" /\ admin[a].intent = "focal"
  /\ pub' = IF admin[a].snap.status # "draft" THEN pub \cup admin[a].set ELSE pub
  /\ Step(a, "write")
  /\ UNCHANGED <<catalogue, priv, worker, lock, faults, held>>

(* deleteAlbum lists both buckets. *)
ListObjects(a) ==
  /\ admin[a].pc = "list"
  /\ admin' = [admin EXCEPT ![a].pc = "write", ![a].inPub = pub, ![a].inPriv = priv]
  /\ UNCHANGED <<catalogue, bucket, worker, lock, faults, held>>

(* Mutant: only the removed photos are withdrawn from the public bucket. *)
WithdrawnRemoved(snap, set) == set

(* A removal that interrupts a publication withdraws every photo, since    *)
(* any of them may have been copied.                                       *)
Withdrawn(snap, set) == IF snap.status = "publishing" THEN snap.photos ELSE set

(* What the request writes, given the album it read. *)
Requested(a) ==
  LET snap == admin[a].snap
      set == admin[a].set
      left == snap.photos \ set
      Is(intent) == admin[a].intent = intent
  IN \/ Is("create") /\ WriteAlbum(snap, "draft", {}, {}, {})
     \/ Is("publish") /\ WriteAlbum(snap, "publishing", snap.photos, {}, {})
     \/ Is("unpublish") /\ WriteAlbum(snap, "draft", snap.photos, snap.photos, {})
     \/ /\ Is("upload")
        /\ WriteAlbum(snap, "draft", snap.photos \cup set,
                      IF snap.status = "draft" THEN {} ELSE snap.photos, {})
     \/ /\ Is("remove")
        /\ WriteAlbum(snap,
             IF left = {} \/ snap.status = "publishing" THEN "draft" ELSE snap.status,
             left, Withdrawn(snap, set), set)
     \/ Is("deleteAlbum") /\ DeleteAlbumRow(snap, admin[a].inPub, admin[a].inPriv)
     \/ /\ Is("edit") \/ Is("focal")
        /\ snap.status # "publishing" /\ WriteAlbum(snap, snap.status, snap.photos, {}, {})

Write(a) ==
  /\ admin[a].pc = "write" /\ lock = None
  /\ Requested(a)
  /\ admin' = [admin EXCEPT ![a] = IdleAdmin]
  /\ UNCHANGED <<bucket, worker, lock, faults, held>>

(* A conflict, a lock that does not come free, a process that ends. *)
GiveUp(a) ==
  /\ admin[a].pc # "idle"
  /\ admin' = [admin EXCEPT ![a] = IdleAdmin]
  /\ UNCHANGED <<catalogue, bucket, worker, lock, faults, held>>

-----------------------------------------------------------------------------
(* runAlbumObjectOperationBatch. *)

ClaimBatch(w) ==
  /\ worker[w].pc = "idle" /\ held[w] = {}
  /\ Queue!ClaimSome(w)
  /\ UNCHANGED <<album, bucket, admin, worker, lock, faults>>

LeaseEnds ==
  /\ \E o \in AlbumOps : Queue!LeaseEnds(o)
  /\ UNCHANGED <<album, bucket, admin, worker, lock, faults>>

(* The transaction begins: its now() stays what it is here, so the lease   *)
(* is compared with this moment for as long as the transaction lasts.      *)
Begin(w) ==
  /\ worker[w].pc = "idle"
  /\ \E c \in held[w] :
       worker' = [worker EXCEPT ![w] = [pc |-> "lock", claim |-> c, fresh |-> ops[c.op].live]]
  /\ UNCHANGED <<catalogue, bucket, admin, lock, faults, held>>

Op(w) == worker[w].claim.op
StillClaimed(w) ==
  /\ worker[w].fresh /\ ops[Op(w)].status = "claimed"
  /\ ops[Op(w)].attempts = worker[w].claim.token

(* A copy is carried out for the publication that enqueued it only. *)
Wanted(o) == o.kind = "copy" /\ album.status = "publishing" /\ album.rev = o.rev

InUse(o) == o.key \in album.photos /\ (o.scope = "private" \/ album.status # "draft")

Refused(o) == IF o.kind = "delete" THEN InUse(o) ELSE Wanted(o) /\ o.key \notin album.photos

Done(w) == worker' = [worker EXCEPT ![w] = IdleWorker] /\ Queue!Forget(w, worker[w].claim)

(* The lock is taken, the claim looked at again, the reference checked. *)
TakeLock(w) ==
  /\ worker[w].pc = "lock" /\ lock = None
  /\ \/ ~StillClaimed(w) /\ Done(w) /\ UNCHANGED lock
     \/ /\ StillClaimed(w) /\ Refused(Op(w))
        /\ worker' = [worker EXCEPT ![w].pc = "fail"]
        /\ UNCHANGED <<lock, held>>
     \/ /\ StillClaimed(w) /\ ~Refused(Op(w))
        /\ worker' = [worker EXCEPT ![w].pc = "call"]
        /\ lock' = w
        /\ UNCHANGED held
  /\ UNCHANGED <<catalogue, bucket, admin, faults>>

(* deleteObject and copyObject *)
Effect(o) ==
  \/ /\ o.kind = "delete" /\ o.scope = "public"
     /\ pub' = pub \ {o.key} /\ UNCHANGED priv
  \/ /\ o.kind = "delete" /\ o.scope = "private"
     /\ priv' = priv \ {o.key} /\ UNCHANGED pub
  \/ /\ Wanted(o) /\ o.key \in priv
     /\ pub' = pub \cup {o.key} /\ UNCHANGED priv
  \/ o.kind = "copy" /\ ~Wanted(o) /\ UNCHANGED bucket

Call(w) ==
  /\ worker[w].pc = "call"
  /\ Effect(Op(w))
  /\ worker' = [worker EXCEPT ![w].pc = "settle"]
  /\ UNCHANGED <<catalogue, admin, lock, faults, held>>

(* Mutant: a call that throws leaves the album locked. *)
CallImpossibleLocked(w) ==
  /\ worker[w].pc = "call"
  /\ Wanted(Op(w)) /\ Op(w).key \notin priv
  /\ worker' = [worker EXCEPT ![w].pc = "fail"]
  /\ UNCHANGED <<catalogue, bucket, admin, lock, faults, held>>

(* The source of a copy is missing. *)
CallImpossible(w) ==
  /\ worker[w].pc = "call"
  /\ Wanted(Op(w)) /\ Op(w).key \notin priv
  /\ worker' = [worker EXCEPT ![w].pc = "fail"]
  /\ lock' = None
  /\ UNCHANGED <<catalogue, bucket, admin, faults, held>>

(* The call ends in an error, carried out or not. *)
CallFails(w) ==
  /\ worker[w].pc = "call" /\ faults < MaxFaults
  /\ faults' = faults + 1
  /\ Effect(Op(w)) \/ UNCHANGED bucket
  /\ worker' = [worker EXCEPT ![w].pc = "fail"]
  /\ lock' = None
  /\ UNCHANGED <<catalogue, admin, held>>

(* Mutant: copies of every revision are waited for. *)
RemainingAnyRevision(o) ==
  {c \in AlbumOps \ {o} : c.kind = "copy" /\ ops[c].status \notin {"absent", "completed"}}

(* Mutant: the first copy publishes the album. *)
RemainingNone(o) == {}

(* The copies of the same revision that are not completed. *)
Remaining(o) ==
  {c \in AlbumOps \ {o} :
     c.kind = "copy" /\ c.rev = o.rev /\ ops[c].status \notin {"absent", "completed"}}

(* The operation is completed and, with the last copy, the album published. *)
SettleOp(w) ==
  LET o == Op(w) IN
  /\ worker[w].pc = "settle"
  /\ \/ /\ StillClaimed(w)
        /\ ops' = [ops EXCEPT ![o].status = "completed", ![o].live = FALSE]
        /\ album' = IF Wanted(o) /\ Remaining(o) = {}
                      THEN [album EXCEPT !.status = "published"] ELSE album
     \/ ~StillClaimed(w) /\ UNCHANGED catalogue
  /\ lock' = None
  /\ Done(w)
  /\ UNCHANGED <<bucket, admin, faults>>

FailOp(w) ==
  /\ worker[w].pc = "fail"
  /\ Queue!Fail(w, worker[w].claim)
  /\ worker' = [worker EXCEPT ![w] = IdleWorker]
  /\ UNCHANGED <<album, bucket, admin, lock, faults>>

(* The worker's process ends; its transaction is rolled back. *)
Crash(w) ==
  /\ held[w] # {} /\ faults < MaxFaults
  /\ faults' = faults + 1
  /\ Queue!Abandon(w)
  /\ worker' = [worker EXCEPT ![w] = IdleWorker]
  /\ lock' = IF lock = w THEN None ELSE lock
  /\ UNCHANGED <<album, bucket, admin>>

-----------------------------------------------------------------------------
Request(a) ==
  \/ AskCreate(a) \/ AskPublish(a) \/ AskUnpublish(a) \/ AskEdit(a) \/ AskRemove(a)
  \/ AskUpload(a) \/ AskDelete(a) \/ AskFocal(a)
  \/ UploadBytes(a) \/ ReadLatest(a) \/ UploadCard(a) \/ ListObjects(a) \/ Write(a) \/ GiveUp(a)

Run(w) ==
  Begin(w) \/ TakeLock(w) \/ Call(w) \/ CallImpossible(w) \/ SettleOp(w) \/ FailOp(w)

NextOf(admins, workers) ==
  \/ \E a \in admins : Request(a)
  \/ \E w \in workers : ClaimBatch(w) \/ Run(w) \/ CallFails(w) \/ Crash(w)
  \/ LeaseEnds

Next == NextOf(Admins, Workers)

Spec == Init /\ [][Next]_vars

(***************************************************************************)
(* Fairness: a worker goes on with its batch and claims the next one, and  *)
(* leases end.  Administrators need do nothing.                            *)
(***************************************************************************)
Fairness ==
  /\ \A w \in Workers : WF_vars(Run(w)) /\ SF_vars(ClaimBatch(w))
  /\ WF_vars(LeaseEnds)

-----------------------------------------------------------------------------
(* Properties. *)

(* "The album becomes published after its copies settle": a visitor of a   *)
(* published album finds every photo, whatever older deletions and copies  *)
(* were still in the queue, in a worker's hands or retried.                *)
PublishedIsServed == album.status = "published" => album.photos \subseteq pub

Settled == \A o \in AlbumOps : ops[o].status \in {"absent", "completed"}
NobodyWrites == \A a \in Admins : admin[a].pc = "idle"

(* "Unpublish hides the catalogue entry first and deletes the public       *)
(* objects": once the queue is empty, the public bucket holds nothing but  *)
(* the photos of a published album.                                        *)
OnlyPublishedIsPublic ==
  Settled /\ NobodyWrites =>
    pub \subseteq IF album.status = "published" THEN album.photos ELSE {}

(* A publication in progress ends: published, or left by an administrator, *)
(* or with a copy of its own that was given up.                            *)
PublicationEnds ==
  \A rev \in Revs :
    (album.status = "publishing" /\ album.rev = rev) ~>
      \/ ~(album.status = "publishing" /\ album.rev = rev)
      \/ \E p \in Photos : ops[CopyOp(rev, p)].status = "dead"

(* "A lost wake cannot remove queued work": whatever waits in the ledger   *)
(* is completed or dead in the end, although calls fail, leases run out    *)
(* and the worker stops.                                                   *)
QueueDrains ==
  (\E o \in AlbumOps : ops[o].status \in {"pending", "claimed"}) ~>
    (\A o \in AlbumOps : ops[o].status \in {"absent", "completed", "dead"})
=============================================================================
