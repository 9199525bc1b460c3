---------------------------- MODULE TransferMedia ----------------------------
(***************************************************************************)
(* Previews of one uploaded file: transfer_media_jobs, the workers that    *)
(* run its attempts, the file's row, and the private bucket.  Whatever an  *)
(* attempt leaves behind is deleted through the ledger of ObjectOperations,*)
(* which this module extends.                                              *)
(*                                                                         *)
(* A claim token is a fresh UUID and names the attempt's output keys, so   *)
(* tokens are numbered and stand for the objects an attempt uploads.  A    *)
(* lease is running or over; a renewal of a running lease changes nothing. *)
(***************************************************************************)
EXTENDS ObjectOperations

CONSTANTS
  MaxGen,       \* bound on how often the file is processed again
  MaxTokens,    \* bound on claims of its jobs
  JobAttempts   \* max_attempts of a new job

Generations == 1..MaxGen
Tokens == 1..MaxTokens
NoToken == 0

ASSUME MediaAssumption ==
  /\ MaxGen \in Nat \ {0} /\ MaxTokens \in Nat \ {0} /\ JobAttempts \in Nat \ {0}
  /\ OpIds = Tokens

VARIABLES
  file,     \* transfers and transfer_files: there, generation, published token
  jobs,     \* transfer_media_jobs by generation
  outputs,  \* transfer_media_job_attempt_outputs: a claim's generation, or 0
  run,      \* the process that runs a claim
  objects   \* the private bucket

media == <<file, jobs, outputs, run>>
mvars == <<media, objects, opsVars>>

JobStatus == {"absent", "pending", "claimed", "completed", "dead", "cancelled"}
Running == {"work", "uploaded", "drop"}

(* Rows, runs and the bucket are well formed; only a claimed job has a     *)
(* lease and a token, as the table's check constraint demands.             *)
MediaTypeOK ==
  /\ file \in [there : {"live", "expired", "deleted"}, gen : Generations,
               preview : Tokens \cup {NoToken}]
  /\ jobs \in [Generations -> [st : JobStatus, attempts : 0..MaxTokens, limit : Nat \ {0},
                               token : Tokens \cup {NoToken}, live : BOOLEAN]]
  /\ \A g \in Generations : /\ jobs[g].token # NoToken <=> jobs[g].st = "claimed"
                            /\ jobs[g].live => jobs[g].st = "claimed"
  /\ outputs \in [Tokens -> Generations \cup {0}]
  /\ run \in [Tokens -> Running \cup {"none", "over", "left"}]
  /\ objects \subseteq Tokens

NewJob(st) ==
  [st |-> st, attempts |-> 0, limit |-> JobAttempts, token |-> NoToken, live |-> FALSE]

(* The transaction that creates the file enqueues its first job. *)
MediaInit ==
  /\ file = [there |-> "live", gen |-> 1, preview |-> NoToken]
  /\ jobs = [g \in Generations |-> NewJob(IF g = 1 THEN "pending" ELSE "absent")]
  /\ outputs = [k \in Tokens |-> 0]
  /\ run = [k \in Tokens |-> "none"]
  /\ objects = {}
  /\ OpsInit

-----------------------------------------------------------------------------
Unclaimed(j, st) == [j EXCEPT !.st = st, !.token = NoToken, !.live = FALSE]
Open(g) == jobs[g].st \in {"pending", "claimed"}
Cancelled(gens) ==
  [g \in Generations |-> IF g \in gens /\ Open(g) THEN Unclaimed(jobs[g], "cancelled") ELSE jobs[g]]

(* The source is still there and of the job's generation. *)
Source(g) == file.there = "live" /\ file.gen = g

JobExhausted(g) ==
  jobs[g].st = "claimed" /\ ~jobs[g].live /\ jobs[g].attempts >= jobs[g].limit
Buried ==
  [g \in Generations |-> IF JobExhausted(g) THEN Unclaimed(jobs[g], "dead") ELSE jobs[g]]

JobClaimable(g) ==
  /\ jobs[g].st = "pending" \/ (jobs[g].st = "claimed" /\ ~jobs[g].live)
  /\ jobs[g].attempts < jobs[g].limit
  /\ Source(g)
FreeTokens == {k \in Tokens : outputs[k] = 0}

(* claimPostgresTransferMediaJobs: attempts whose last lease ran out are   *)
(* buried, then a job is taken and the attempt's keys are written down.    *)
ClaimJob ==
  /\ \/ \E g \in Generations, k \in FreeTokens :
          /\ JobClaimable(g) /\ \A l \in FreeTokens : k <= l
          /\ jobs' = [Buried EXCEPT ![g] = [st |-> "claimed", attempts |-> jobs[g].attempts + 1,
                                            limit |-> jobs[g].limit, token |-> k, live |-> TRUE]]
          /\ outputs' = [outputs EXCEPT ![k] = g]
          /\ run' = [run EXCEPT ![k] = "work"]
     \/ /\ \E g \in Generations : JobExhausted(g)
        /\ jobs' = Buried
        /\ UNCHANGED <<outputs, run>>
  /\ UNCHANGED <<file, objects, opsVars>>

JobLeaseEnds(g) ==
  /\ jobs[g].live
  /\ jobs' = [jobs EXCEPT ![g].live = FALSE]
  /\ UNCHANGED <<file, outputs, run, objects, opsVars>>

(* The attempt still holds its job. *)
Holds(k) ==
  LET j == jobs[outputs[k]] IN j.st = "claimed" /\ j.token = k /\ j.live

-----------------------------------------------------------------------------
(* One attempt: runPostgresTransferMediaBatch for one claim. *)

Goes(k, pc) == run' = [run EXCEPT ![k] = pc]

(* The source is gone when the attempt looks: the job is cancelled, if it  *)
(* is still this attempt's, lease or no lease.                             *)
SourceGone(k) ==
  /\ run[k] = "work" /\ file.there # "live"
  /\ jobs' = Cancelled({g \in Generations : jobs[g].token = k})
  /\ Goes(k, "over")
  /\ UNCHANGED <<file, outputs, objects, opsVars>>

Upload(k) ==
  /\ run[k] = "work"
  /\ objects' = objects \cup {k}
  /\ Goes(k, "uploaded")
  /\ UNCHANGED <<file, jobs, outputs, opsVars>>

Completable(k) == Source(outputs[k]) /\ Holds(k)
CompletedJob(k) == [jobs EXCEPT ![outputs[k]] = Unclaimed(@, "completed")]

(* Fenced by claim, lease and generation; an attempt that lost its claim   *)
(* deletes what it uploaded.                                               *)
CompleteJob(k) ==
  /\ run[k] = "uploaded"
  /\ IF Completable(k)
     THEN /\ jobs' = CompletedJob(k)
          /\ file' = [file EXCEPT !.preview = k]
          /\ Goes(k, "over")
     ELSE Goes(k, "drop") /\ UNCHANGED <<jobs, file>>
  /\ UNCHANGED <<outputs, objects, opsVars>>

(* A RAW file without a preview: completed, nothing published. *)
OriginalOnly(k) ==
  /\ run[k] = "work" /\ Completable(k)
  /\ jobs' = CompletedJob(k)
  /\ Goes(k, "over")
  /\ UNCHANGED <<file, outputs, objects, opsVars>>

FailedJob(k) ==
  [jobs EXCEPT ![outputs[k]] =
     Unclaimed(@, IF @.attempts >= @.limit THEN "dead" ELSE "pending")]

(* Processing or an upload failed; or the worker is told to stop, which    *)
(* leaves the job to the end of its lease.                                 *)
FailJob(k) ==
  /\ run[k] \in {"work", "uploaded"}
  /\ jobs' = IF Holds(k) THEN FailedJob(k) ELSE jobs
  /\ Goes(k, "drop")
  /\ UNCHANGED <<file, outputs, objects, opsVars>>

StopJob(k) ==
  /\ run[k] \in {"work", "uploaded"}
  /\ Goes(k, "drop")
  /\ UNCHANGED <<file, jobs, outputs, objects, opsVars>>

DropOutputs(k) ==
  /\ run[k] = "drop"
  /\ objects' = objects \ {k}
  /\ Goes(k, "over")
  /\ UNCHANGED <<file, jobs, outputs, opsVars>>

(* The process ends, or the deletion fails and the error is swallowed. *)
LeaveOutputs(k) ==
  /\ run[k] \in Running
  /\ Goes(k, "left")
  /\ UNCHANGED <<file, jobs, outputs, objects, opsVars>>

-----------------------------------------------------------------------------
(* What happens to the source. *)

(* Mutant: the old preview stays published. *)
RequeuedShown == [file EXCEPT !.gen = @ + 1]

Requeued == [file EXCEPT !.gen = @ + 1, !.preview = NoToken]

(* requeuePostgresTransferMediaFile, with force: the generation advances,  *)
(* the preview is withdrawn, older jobs are cancelled, a new one waits.    *)
Requeue ==
  /\ file.there = "live" /\ file.gen < MaxGen
  /\ file' = Requeued
  /\ jobs' = [Cancelled(1..file.gen) EXCEPT ![file.gen + 1] = NewJob("pending")]
  /\ UNCHANGED <<outputs, run, objects, opsVars>>

Expire ==
  /\ file.there = "live"
  /\ file' = [file EXCEPT !.there = "expired"]
  /\ UNCHANGED <<jobs, outputs, run, objects, opsVars>>

(* Mutant: only what is published is staged for deletion. *)
AttemptKeysPublished == {k \in Tokens : k = file.preview}

AttemptKeys == {k \in Tokens : outputs[k] # 0}

(* Deleted by its owner, or by the job that collects expired transfers:    *)
(* hidden, every attempt's keys staged for deletion, its jobs fenced.      *)
Tombstone ==
  /\ file.there # "deleted"
  /\ file' = [file EXCEPT !.there = "deleted"]
  /\ ops' = Enqueued(AttemptKeys)
  /\ jobs' = Cancelled(Generations)
  /\ UNCHANGED <<outputs, run, objects, held>>

-----------------------------------------------------------------------------
(* The worker's reconciliation, and the operator. *)

CancelObsolete ==
  /\ \E g \in Generations : Open(g) /\ ~Source(g)
  /\ jobs' = Cancelled({g \in Generations : ~Source(g)})
  /\ UNCHANGED <<file, outputs, run, objects, opsVars>>

(* Mutant: an attempt whose lease still runs is taken for abandoned. *)
AbandonedEarly(k) == outputs[k] # 0 /\ k # file.preview

(* An attempt that can no longer publish. *)
Abandoned(k) == outputs[k] # 0 /\ k # file.preview /\ ~Holds(k)

StageAbandoned(k) ==
  /\ Abandoned(k) /\ ops[k].status = "absent"
  /\ ops' = Enqueued({k})
  /\ UNCHANGED <<media, objects, held>>

ClearQueue ==
  /\ \E g \in Generations : Open(g)
  /\ jobs' = Cancelled(Generations)
  /\ UNCHANGED <<file, outputs, run, objects, opsVars>>

RetryDead(g) ==
  /\ jobs[g].st = "dead" /\ Source(g)
  /\ jobs' = [jobs EXCEPT ![g].st = "pending",
                ![g].limit = IF @ > jobs[g].attempts THEN @ ELSE jobs[g].attempts + 1]
  /\ UNCHANGED <<file, outputs, run, objects, opsVars>>

-----------------------------------------------------------------------------
(* The ledger's worker deletes, then settles; having lost its claim it may  *)
(* still delete.                                                           *)
DeleteStaged(w, c) ==
  /\ c \in held[w]
  /\ objects' = objects \ {c.op}
  /\ Complete(w, c) \/ UNCHANGED opsVars
  /\ UNCHANGED media

LedgerStep ==
  /\ \/ \E o \in OpIds : LeaseEnds(o)
     \/ \E w \in Workers : \/ ClaimSome(w) \/ Abandon(w)
                           \/ \E c \in held[w] : Fail(w, c)
  /\ UNCHANGED <<media, objects>>

Attempt(k) ==
  \/ SourceGone(k) \/ Upload(k) \/ CompleteJob(k) \/ OriginalOnly(k)
  \/ FailJob(k) \/ StopJob(k) \/ DropOutputs(k) \/ LeaveOutputs(k)

MediaNext ==
  \/ ClaimJob
  \/ \E g \in Generations : JobLeaseEnds(g) \/ RetryDead(g)
  \/ \E k \in Tokens : Attempt(k) \/ StageAbandoned(k)
  \/ Requeue \/ Expire \/ Tombstone \/ CancelObsolete \/ ClearQueue
  \/ LedgerStep
  \/ \E w \in Workers : \E c \in held[w] : DeleteStaged(w, c)

MediaSpec == MediaInit /\ [][MediaNext]_mvars

-----------------------------------------------------------------------------
(* Properties. *)

(* "Each attempt writes unique R2 keys and publishes only after DB         *)
(* fencing": the preview a visitor is shown is in the bucket, whatever     *)
(* other attempts delete, stage for deletion or leave to the ledger.       *)
PreviewIsServed == file.there = "live" /\ file.preview # NoToken => file.preview \in objects

(* The published preview is the work of the file's present generation, and *)
(* its job says completed: no late attempt replaces or outlives it.        *)
PreviewIsCurrent ==
  file.preview # NoToken =>
    outputs[file.preview] = file.gen /\ jobs[file.gen].st = "completed"

(* "Hide a transfer and fence its unfinished jobs before object cleanup    *)
(* begins": once a deleted transfer's attempts have ended and the ledger   *)
(* is drained, nothing of it is in the bucket but what a stopped process   *)
(* or a dead deletion left.                                                *)
DeletedLeavesNothing ==
  /\ file.there = "deleted"
  /\ \A k \in Tokens : run[k] \notin Running /\ ops[k].status \notin {"pending", "claimed"}
  => \A k \in objects : run[k] = "left" \/ ops[k].status = "dead"
=============================================================================
