------------------------ MODULE TransferMediaProofs ------------------------
(***************************************************************************)
(* The previews of a transferred file, for any number of generations,      *)
(* claims, attempts and workers of the ledger.  The argument is that a     *)
(* token, once its attempt no longer holds the job, never holds it again:  *)
(* so what is staged for deletion can no longer be published, and what is  *)
(* published is never staged while the file lives.                         *)
(***************************************************************************)
EXTENDS TransferMedia, ObjectOperationsProofs, FiniteSetTheorems

JobRow == [st : JobStatus, attempts : Nat, limit : Nat \ {0}, token : Tokens \cup {NoToken},
           live : BOOLEAN]
FileRow == [there : {"live", "expired", "deleted"}, gen : Generations,
            preview : Tokens \cup {NoToken}]
RunState == Running \cup {"none", "over", "left"}

Rows ==
  /\ file \in FileRow
  /\ jobs \in [Generations -> JobRow]
  /\ outputs \in [Tokens -> Generations \cup {0}]
  /\ run \in [Tokens -> RunState]
  /\ objects \subseteq Tokens

(* A claimed job has the token of an attempt at it. *)
Fenced ==
  \A g \in Generations :
    /\ jobs[g].token # NoToken <=> jobs[g].st = "claimed"
    /\ jobs[g].token # NoToken => outputs[jobs[g].token] = g
    /\ jobs[g].live => jobs[g].st = "claimed"

(* A token that was not given to an attempt has left no trace. *)
Unused ==
  \A k \in Tokens : outputs[k] = 0 =>
    run[k] = "none" /\ ops[k].status = "absent"

(* An attempt that has not uploaded has nothing in the bucket. *)
NotUploaded ==
  \A k \in Tokens : run[k] \in {"none", "work"} => k \notin objects

(* What may still be published is not staged for deletion, and there. *)
Unstaged ==
  \A k \in Tokens : outputs[k] # 0 /\ Holds(k) =>
    ops[k].status = "absent" /\ (run[k] = "uploaded" => k \in objects)

(* What is published is the work of an attempt that ended, and kept. *)
Published ==
  file.preview # NoToken =>
    /\ run[file.preview] = "over"
    /\ outputs[file.preview] = file.gen /\ jobs[file.gen].st = "completed"
    /\ file.there = "live" => ops[file.preview].status = "absent" /\ file.preview \in objects

(* Of a deleted file every attempt is staged, and no other begins. *)
Swept ==
  file.there = "deleted" => \A k \in Tokens : outputs[k] # 0 => ops[k].status # "absent"

(* Objects whose deletion was done are those of attempts that still run, or *)
(* ended without an answer.                                                *)
Cleaned ==
  \A k \in objects : ops[k].status = "completed" => run[k] \in Running \cup {"left"}

(* The inductive invariant, without what the ledger adds to it. *)
MediaOK == Rows /\ Fenced /\ Unused /\ NotUploaded /\ Unstaged /\ Published /\ Swept /\ Cleaned
MediaInv == MediaOK /\ OpsInv

LEMMA Numbers ==
  /\ Tokens \subseteq Nat \ {0} /\ Generations \subseteq Nat \ {0} /\ 1 \in Generations
  /\ NoToken = 0 /\ NoToken \notin Tokens /\ OpIds = Tokens /\ JobAttempts \in Nat \ {0}
  BY MediaAssumption DEF Tokens, Generations, NoToken

LEMMA MediaInitInv == MediaInit => MediaInv
<1> SUFFICES ASSUME MediaInit PROVE MediaInv
  OBVIOUS
<1>1. OpsInv
  BY OpsInitInv DEF MediaInit
<1>2. \A k \in Tokens : ops[k].status = "absent"
  BY Numbers DEF MediaInit, OpsInit, AbsentRow
<1>3. jobs \in [Generations -> JobRow]
      /\ \A g \in Generations : jobs[g].token = NoToken /\ ~jobs[g].live /\ jobs[g].st # "claimed"
  BY Numbers DEF MediaInit, NewJob, JobRow, JobStatus
<1>4. Rows
  BY <1>3, Numbers DEF MediaInit, Rows, FileRow, RunState
<1>5. QED
  BY <1>1, <1>2, <1>3, <1>4, Numbers
     DEF MediaInit, MediaInv, MediaOK, Fenced, Unused, NotUploaded, Unstaged, Published, Swept, Cleaned

-----------------------------------------------------------------------------
(* A job that is not claimed anew: it may lose its claim and its lease, and *)
(* what is completed stays so.                                             *)
JobsFall ==
  /\ jobs' \in [Generations -> JobRow]
  /\ \A g \in Generations :
       /\ jobs'[g].token # NoToken <=> jobs'[g].st = "claimed"
       /\ jobs'[g].token # NoToken => jobs'[g].token = jobs[g].token
       /\ jobs'[g].live => jobs'[g].st = "claimed" /\ jobs[g].live
       /\ jobs[g].st = "completed" => jobs'[g].st = "completed"
       /\ jobs'[g].attempts <= jobs[g].attempts

LEMMA JobsStay ==
  ASSUME MediaOK, UNCHANGED jobs
  PROVE  JobsFall
  BY DEF MediaOK, Rows, Fenced, JobsFall, JobRow

LEMMA UnclaimedRow ==
  ASSUME NEW j \in JobRow, NEW st \in JobStatus
  PROVE  /\ Unclaimed(j, st) \in JobRow /\ Unclaimed(j, st).st = st
         /\ Unclaimed(j, st).token = NoToken /\ Unclaimed(j, st).live = FALSE
  BY DEF Unclaimed, JobRow

LEMMA ClaimedRow ==
  ASSUME NEW n \in Nat, NEW m \in Nat \ {0}, NEW k \in Tokens
  PROVE  [st |-> "claimed", attempts |-> n, limit |-> m, token |-> k, live |-> TRUE] \in JobRow
  BY DEF JobRow, JobStatus

LEMMA UnclaimedFalls ==
  ASSUME MediaOK, NEW S \in SUBSET Generations, NEW st \in JobStatus \ {"claimed"},
         jobs' = [g \in Generations |-> IF g \in S THEN Unclaimed(jobs[g], st) ELSE jobs[g]],
         \A g \in S : jobs[g].st # "completed"
  PROVE  JobsFall
<1>1. \A g \in Generations : jobs[g] \in JobRow
  BY DEF MediaOK, Rows
<1>2. \A g \in Generations : /\ jobs'[g] \in JobRow /\ jobs'[g].attempts = jobs[g].attempts
                             /\ g \in S => jobs'[g].st = st /\ jobs'[g].token = NoToken /\ ~jobs'[g].live
                             /\ g \notin S => jobs'[g] = jobs[g]
  BY <1>1 DEF Unclaimed, JobRow
<1>3. jobs' \in [Generations -> JobRow]
  BY <1>2
<1>4. ASSUME NEW g \in Generations
      PROVE  /\ jobs'[g].token # NoToken <=> jobs'[g].st = "claimed"
             /\ jobs'[g].token # NoToken => jobs'[g].token = jobs[g].token
             /\ jobs'[g].live => jobs'[g].st = "claimed" /\ jobs[g].live
             /\ jobs[g].st = "completed" => jobs'[g].st = "completed"
             /\ jobs'[g].attempts <= jobs[g].attempts
  <2>1. jobs[g].attempts \in Nat
    BY <1>1 DEF JobRow
  <2>2. QED BY <1>2, <2>1 DEF MediaOK, Fenced
<1>5. QED BY <1>3, <1>4 DEF JobsFall

LEMMA CancelledFalls ==
  ASSUME MediaOK, NEW S, jobs' = Cancelled(S)
  PROVE  JobsFall
<1> DEFINE T == {g \in Generations : g \in S /\ Open(g)}
<1>1. jobs' = [g \in Generations |-> IF g \in T THEN Unclaimed(jobs[g], "cancelled") ELSE jobs[g]]
  BY DEF Cancelled
<1>2. "cancelled" \in JobStatus \ {"claimed"} /\ \A g \in T : jobs[g].st # "completed"
  BY DEF Open, JobStatus
<1>3. QED BY <1>1, <1>2, UnclaimedFalls

LEMMA BuriedFalls ==
  ASSUME MediaOK, jobs' = Buried
  PROVE  JobsFall
<1> DEFINE T == {g \in Generations : JobExhausted(g)}
<1>1. jobs' = [g \in Generations |-> IF g \in T THEN Unclaimed(jobs[g], "dead") ELSE jobs[g]]
  BY DEF Buried
<1>2. "dead" \in JobStatus \ {"claimed"} /\ \A g \in T : jobs[g].st # "completed"
  BY DEF JobExhausted, JobStatus
<1>3. QED BY <1>1, <1>2, UnclaimedFalls

LEMMA OneUnclaimedFalls ==
  ASSUME MediaOK, NEW h \in Generations, NEW st \in JobStatus \ {"claimed"},
         jobs' = [jobs EXCEPT ![h] = Unclaimed(@, st)], jobs[h].st # "completed"
  PROVE  JobsFall
<1>1. jobs' = [g \in Generations |-> IF g \in {h} THEN Unclaimed(jobs[g], st) ELSE jobs[g]]
  BY DEF MediaOK, Rows
<1>2. {h} \in SUBSET Generations /\ \A g \in {h} : jobs[g].st # "completed"
  OBVIOUS
<1>3. QED BY <1>1, <1>2, UnclaimedFalls

(* Nobody gets hold of a job by it. *)
LEMMA FallKeepsFence ==
  ASSUME MediaOK, JobsFall, UNCHANGED outputs
  PROVE  /\ Fenced'
         /\ \A k \in Tokens : outputs[k] # 0 /\ Holds(k)' => Holds(k)
<1>1. \A g \in Generations : jobs[g].token # NoToken => outputs[jobs[g].token] = g
  BY DEF MediaOK, Fenced
<1>2. Fenced'
  BY <1>1 DEF JobsFall, Fenced
<1>3. ASSUME NEW k \in Tokens, outputs[k] # 0, Holds(k)' PROVE Holds(k)
  <2>1. outputs[k] \in Generations
    BY <1>3 DEF MediaOK, Rows
  <2>2. jobs'[outputs[k]].token = k /\ jobs'[outputs[k]].live
    BY <1>3 DEF Holds
  <2>3. jobs[outputs[k]].token = k /\ jobs[outputs[k]].live
    BY <2>1, <2>2, Numbers DEF JobsFall
  <2>4. QED BY <2>1, <2>3 DEF Holds, MediaOK, Fenced
<1>4. QED BY <1>2, <1>3

-----------------------------------------------------------------------------
(* Steps of jobs alone. *)
LEMMA JobStep ==
  ASSUME MediaOK, JobsFall, UNCHANGED <<file, outputs, run, objects, ops>>
  PROVE  MediaOK'
<1>1. Fenced' /\ \A k \in Tokens : outputs[k] # 0 /\ Holds(k)' => Holds(k)
  BY FallKeepsFence
<1>2. Unstaged'
  BY <1>1 DEF MediaOK, Unstaged
<1>3. Published'
  BY DEF MediaOK, Published, JobsFall, Rows, FileRow
<1>4. QED
  BY <1>1, <1>2, <1>3 DEF MediaOK, Rows, JobsFall, Unused, NotUploaded, Swept, Cleaned

LEMMA LeaseEndsFalls ==
  ASSUME MediaOK, NEW g \in Generations, JobLeaseEnds(g)
  PROVE  JobsFall
<1>1. \A h \in Generations : jobs[h] \in JobRow
  BY DEF MediaOK, Rows
<1>2. /\ jobs' \in [Generations -> JobRow]
      /\ \A h \in Generations : /\ jobs'[h].st = jobs[h].st /\ jobs'[h].token = jobs[h].token
                                /\ jobs'[h].attempts = jobs[h].attempts
                                /\ jobs'[h].live => jobs[h].live
  BY <1>1 DEF JobLeaseEnds, MediaOK, Rows, JobRow
<1>3. \A h \in Generations : jobs'[h].attempts <= jobs[h].attempts
  BY <1>1, <1>2 DEF JobRow
<1>4. QED BY <1>2, <1>3 DEF MediaOK, Fenced, JobsFall

LEMMA RetryDeadFalls ==
  ASSUME MediaOK, NEW g \in Generations, RetryDead(g)
  PROVE  JobsFall
<1>1. \A h \in Generations : jobs[h] \in JobRow
  BY DEF MediaOK, Rows
<1>2. jobs[g].limit \in Nat \ {0} /\ jobs[g].attempts \in Nat /\ jobs[g].st = "dead"
  BY <1>1 DEF JobRow, RetryDead
<1> DEFINE n == IF jobs[g].limit > jobs[g].attempts THEN jobs[g].limit ELSE jobs[g].attempts + 1
<1>3. jobs' = [jobs EXCEPT ![g].st = "pending", ![g].limit = n] /\ n \in Nat \ {0}
  BY <1>2 DEF RetryDead, MediaOK, Rows, JobRow
<1> HIDE DEF n
<1>4. /\ jobs' \in [Generations -> JobRow]
      /\ \A h \in Generations : /\ h # g => jobs'[h] = jobs[h]
                                /\ jobs'[h].token = jobs[h].token /\ jobs'[h].live = jobs[h].live
                                /\ jobs'[h].attempts = jobs[h].attempts
      /\ jobs'[g].st = "pending"
  BY <1>1, <1>3 DEF MediaOK, Rows, JobRow, JobStatus
<1>5. \A h \in Generations : jobs'[h].attempts <= jobs[h].attempts
  BY <1>1, <1>4 DEF JobRow
<1>6. jobs[g].token = NoToken /\ ~jobs[g].live
  BY <1>2 DEF MediaOK, Fenced
<1>7. QED BY <1>2, <1>4, <1>5, <1>6 DEF MediaOK, Fenced, JobsFall

-----------------------------------------------------------------------------
(* Steps of an attempt that publish nothing. *)
LEMMA Attempted ==
  ASSUME MediaOK, NEW k \in Tokens, run[k] \in Running
  PROVE  /\ outputs[k] \in Generations /\ jobs[outputs[k]] \in JobRow /\ k # NoToken
         /\ file.preview # k
<1>1. outputs[k] \in Generations
  BY DEF MediaOK, Rows, Unused, Running
<1>2. file.preview # k
  BY Numbers DEF MediaOK, Published, Running
<1>3. QED BY <1>1, <1>2, Numbers DEF MediaOK, Rows

LEMMA AttemptStep ==
  ASSUME MediaOK, JobsFall, UNCHANGED <<file, outputs, ops>>,
         NEW k \in Tokens, run[k] \in Running, NEW pc, run' = [run EXCEPT ![k] = pc],
         \/ pc = "uploaded" /\ objects' = objects \cup {k}
         \/ pc \in {"drop", "left"} /\ objects' = objects
         \/ pc = "over" /\ objects' = objects \ {k}
         \/ pc = "over" /\ objects' = objects /\ (k \notin objects \/ ops[k].status = "absent")
  PROVE  MediaOK'
<1>1. Fenced' /\ \A l \in Tokens : outputs[l] # 0 /\ Holds(l)' => Holds(l)
  BY FallKeepsFence
<1>2. /\ run' \in [Tokens -> RunState] /\ run'[k] = pc
      /\ \A l \in Tokens \ {k} : run'[l] = run[l]
  BY DEF MediaOK, Rows, RunState, Running
<1>3. /\ objects' \subseteq Tokens
      /\ \A l \in Tokens \ {k} : l \in objects' <=> l \in objects
  BY DEF MediaOK, Rows
<1>4. Rows'
  BY <1>2, <1>3 DEF MediaOK, Rows, JobsFall
<1>5. outputs[k] # 0 /\ file.preview # k
  BY Attempted, Numbers
<1>6. Unused' /\ NotUploaded'
  BY <1>2, <1>3, <1>5 DEF MediaOK, Unused, NotUploaded
<1>7. Unstaged'
  <2> SUFFICES ASSUME NEW l \in Tokens, outputs[l] # 0, Holds(l)'
               PROVE  ops[l].status = "absent" /\ (run'[l] = "uploaded" => l \in objects')
    BY DEF Unstaged
  <2>1. ops[l].status = "absent" /\ (run[l] = "uploaded" => l \in objects)
    BY <1>1 DEF MediaOK, Unstaged
  <2>2. QED BY <2>1, <1>2, <1>3
<1>8. Published'
  <2> SUFFICES ASSUME file.preview # NoToken
               PROVE  /\ run'[file.preview] = "over"
                      /\ outputs[file.preview] = file.gen /\ jobs'[file.gen].st = "completed"
                      /\ file.there = "live" => /\ ops[file.preview].status = "absent"
                                                /\ file.preview \in objects'
    BY DEF Published
  <2>1. file.preview \in Tokens \ {k} /\ file.gen \in Generations
    BY <1>5 DEF MediaOK, Rows, FileRow
  <2>2. QED BY <2>1, <1>2, <1>3 DEF MediaOK, Published, JobsFall
<1>9. Cleaned'
  <2> SUFFICES ASSUME NEW l \in objects', ops[l].status = "completed"
               PROVE  run'[l] \in Running \cup {"left"}
    BY DEF Cleaned
  <2>1. CASE l = k
    BY <2>1, <1>2 DEF Running
  <2>2. CASE l # k
    BY <2>2, <1>2, <1>3 DEF MediaOK, Cleaned
  <2>3. QED BY <2>1, <2>2
<1>10. QED BY <1>1, <1>4, <1>6, <1>7, <1>8, <1>9 DEF MediaOK, Swept

LEMMA HolderIsUnstaged ==
  ASSUME MediaOK, NEW k \in Tokens, run[k] \in Running, Holds(k)
  PROVE  /\ ops[k].status = "absent" /\ (run[k] = "uploaded" => k \in objects)
         /\ jobs[outputs[k]].st = "claimed"
  BY Attempted, Numbers DEF MediaOK, Unstaged, Holds

(* An attempt that publishes: it holds the job of the present generation. *)
LEMMA PublishedKeeps ==
  ASSUME MediaOK, NEW k \in Tokens, CompleteJob(k), Completable(k)
  PROVE  MediaOK' /\ JobsFall
<1>1. /\ run[k] = "uploaded" /\ Source(outputs[k]) /\ Holds(k)
      /\ jobs' = [jobs EXCEPT ![outputs[k]] = Unclaimed(@, "completed")]
      /\ file' = [file EXCEPT !.preview = k] /\ run' = [run EXCEPT ![k] = "over"]
      /\ UNCHANGED <<outputs, objects, ops, held>>
  BY DEF CompleteJob, Completable, CompletedJob, Goes, opsVars
<1>2. run[k] \in Running
  BY <1>1 DEF Running
<1>3. /\ outputs[k] \in Generations /\ jobs[outputs[k]] \in JobRow /\ outputs[k] # 0
      /\ ops[k].status = "absent" /\ k \in objects /\ jobs[outputs[k]].st = "claimed"
  BY <1>1, <1>2, Attempted, HolderIsUnstaged, Numbers
<1>4. JobsFall
  BY <1>1, <1>3, OneUnclaimedFalls DEF JobStatus
<1>5. Fenced' /\ \A l \in Tokens : outputs[l] # 0 /\ Holds(l)' => Holds(l)
  BY <1>1, <1>4, FallKeepsFence
<1>6. jobs'[outputs[k]].st = "completed"
  BY <1>1, <1>3 DEF MediaOK, Rows, Unclaimed, JobRow
<1>7. file \in FileRow /\ file' \in FileRow /\ file'.there = "live" /\ file'.gen = outputs[k]
      /\ file'.preview = k
  BY <1>1 DEF MediaOK, Rows, FileRow, Source
<1>8. run' \in [Tokens -> RunState] /\ run'[k] = "over" /\ \A l \in Tokens \ {k} : run'[l] = run[l]
  BY <1>1 DEF MediaOK, Rows, RunState
<1>9. Rows'
  BY <1>1, <1>4, <1>7, <1>8 DEF MediaOK, Rows, JobsFall
<1>10. Unused' /\ NotUploaded' /\ Unstaged'
  BY <1>1, <1>3, <1>5, <1>8 DEF MediaOK, Unused, NotUploaded, Unstaged
<1>11. Published' /\ Swept'
  BY <1>1, <1>3, <1>6, <1>7, <1>8 DEF Published, Swept
<1>12. Cleaned'
  BY <1>1, <1>3, <1>8 DEF MediaOK, Rows, Cleaned
<1>13. QED BY <1>4, <1>5, <1>9, <1>10, <1>11, <1>12 DEF MediaOK

LEMMA AttemptKeeps ==
  ASSUME MediaOK, NEW k \in Tokens, Attempt(k)
  PROVE  MediaOK' /\ JobsFall /\ UNCHANGED <<outputs, opsVars>>
<1>0. UNCHANGED <<outputs, opsVars>>
  BY DEF Attempt, SourceGone, Upload, CompleteJob, OriginalOnly, FailJob, StopJob, DropOutputs, LeaveOutputs
<1>1. UNCHANGED ops
  BY <1>0 DEF opsVars
<1>2. CASE SourceGone(k)
  <2>1. run[k] \in Running /\ k \notin objects
    BY <1>2 DEF SourceGone, Running, MediaOK, NotUploaded
  <2>2. JobsFall
    BY <1>2, CancelledFalls DEF SourceGone
  <2>3. QED BY <1>0, <1>1, <1>2, <2>1, <2>2, AttemptStep DEF SourceGone, Goes
<1>3. CASE Upload(k)
  <2>1. run[k] \in Running /\ JobsFall
    BY <1>3, JobsStay DEF Upload, Running
  <2>2. QED BY <1>0, <1>1, <1>3, <2>1, AttemptStep DEF Upload, Goes
<1>4. CASE CompleteJob(k)
  <2>1. CASE Completable(k)
    BY <1>0, <1>4, <2>1, PublishedKeeps
  <2>2. CASE ~Completable(k)
    <3>1. run[k] \in Running /\ JobsFall
      BY <1>4, <2>2, JobsStay DEF CompleteJob, Running
    <3>2. QED BY <1>0, <1>1, <1>4, <2>2, <3>1, AttemptStep DEF CompleteJob, Goes
  <2>3. QED BY <2>1, <2>2
<1>5. CASE OriginalOnly(k)
  <2>1. run[k] \in Running /\ Holds(k)
    BY <1>5 DEF OriginalOnly, Running, Completable
  <2>2. outputs[k] \in Generations /\ ops[k].status = "absent" /\ jobs[outputs[k]].st = "claimed"
    BY <2>1, Attempted, HolderIsUnstaged
  <2>3. JobsFall
    BY <1>5, <2>2, OneUnclaimedFalls DEF OriginalOnly, CompletedJob, JobStatus
  <2>4. QED BY <1>0, <1>1, <1>5, <2>1, <2>2, <2>3, AttemptStep DEF OriginalOnly, Goes
<1>6. CASE FailJob(k)
  <2>1. run[k] \in Running
    BY <1>6 DEF FailJob, Running
  <2>2. JobsFall
    <3>1. CASE Holds(k)
      <4> DEFINE st == IF jobs[outputs[k]].attempts >= jobs[outputs[k]].limit THEN "dead" ELSE "pending"
      <4>1. outputs[k] \in Generations /\ jobs[outputs[k]].st = "claimed"
        BY <2>1, <3>1, Attempted, HolderIsUnstaged
      <4>2. st \in JobStatus \ {"claimed"}
        BY DEF JobStatus
      <4>3. jobs' = [jobs EXCEPT ![outputs[k]] = Unclaimed(@, st)]
        BY <1>6, <3>1, <4>1 DEF FailJob, FailedJob, MediaOK, Rows
      <4> HIDE DEF st
      <4>4. QED BY <4>1, <4>2, <4>3, OneUnclaimedFalls
    <3>2. CASE ~Holds(k)
      BY <1>6, <3>2, JobsStay DEF FailJob
    <3>3. QED BY <3>1, <3>2
  <2>3. QED BY <1>0, <1>1, <1>6, <2>1, <2>2, AttemptStep DEF FailJob, Goes
<1>7. CASE StopJob(k) \/ DropOutputs(k) \/ LeaveOutputs(k)
  <2>1. run[k] \in Running /\ JobsFall /\ UNCHANGED <<file, outputs>>
    BY <1>7, JobsStay DEF StopJob, DropOutputs, LeaveOutputs, Running
  <2>2. \/ run' = [run EXCEPT ![k] = "drop"] /\ objects' = objects
        \/ run' = [run EXCEPT ![k] = "left"] /\ objects' = objects
        \/ run' = [run EXCEPT ![k] = "over"] /\ objects' = objects \ {k}
    BY <1>7 DEF StopJob, DropOutputs, LeaveOutputs, Goes
  <2>3. QED BY <1>0, <1>1, <2>1, <2>2, AttemptStep
<1>8. QED BY <1>2, <1>3, <1>4, <1>5, <1>6, <1>7 DEF Attempt

-----------------------------------------------------------------------------
(* A claim gives a job to a token that was never used. *)
LEMMA ClaimTakes ==
  ASSUME MediaOK, NEW g \in Generations, NEW k \in FreeTokens,
         JobClaimable(g), UNCHANGED <<file, objects, ops>>,
         jobs' = [Buried EXCEPT ![g] = [st |-> "claimed", attempts |-> jobs[g].attempts + 1,
                                        limit |-> jobs[g].limit, token |-> k, live |-> TRUE]],
         outputs' = [outputs EXCEPT ![k] = g], run' = [run EXCEPT ![k] = "work"]
  PROVE  MediaOK'
<1>1. k \in Tokens /\ outputs[k] = 0 /\ run[k] = "none" /\ ops[k].status = "absent" /\ k # NoToken
  BY Numbers DEF FreeTokens, MediaOK, Unused
<1>2. k \notin objects /\ file.preview # k /\ file.there = "live" /\ file.gen = g
  BY <1>1, Numbers DEF MediaOK, NotUploaded, Published, JobClaimable, Source, Rows, FileRow
<1>3. ASSUME NEW h \in Generations, h # g
      PROVE  /\ jobs'[h] \in JobRow
             /\ jobs'[h].token # NoToken <=> jobs'[h].st = "claimed"
             /\ jobs'[h].token # NoToken => jobs'[h].token = jobs[h].token
             /\ jobs'[h].live => jobs'[h].st = "claimed" /\ jobs[h].live
             /\ jobs[h].st = "completed" => jobs'[h].st = "completed"
  <2>1. jobs'[h] = IF JobExhausted(h) THEN Unclaimed(jobs[h], "dead") ELSE jobs[h]
    BY <1>3 DEF Buried
  <2>2. jobs[h] \in JobRow
    BY DEF MediaOK, Rows
  <2>3. CASE JobExhausted(h)
    <3>1. jobs'[h] = Unclaimed(jobs[h], "dead") /\ jobs[h].st = "claimed"
      BY <2>1, <2>3 DEF JobExhausted
    <3>2. /\ jobs'[h] \in JobRow /\ jobs'[h].st = "dead" /\ jobs'[h].token = NoToken
          /\ jobs'[h].live = FALSE
      <4>1. "dead" \in JobStatus
        BY DEF JobStatus
      <4> DEFINE u == Unclaimed(jobs[h], "dead")
      <4>2. u \in JobRow /\ u.st = "dead" /\ u.token = NoToken /\ u.live = FALSE
        BY <2>2, <4>1, UnclaimedRow, Zenon
      <4>3. jobs'[h] = u
        BY <3>1
      <4> HIDE DEF u
      <4>4. QED BY <4>2, <4>3
    <3>3. QED BY <3>1, <3>2
  <2>4. CASE ~JobExhausted(h)
    BY <2>1, <2>2, <2>4 DEF MediaOK, Fenced
  <2>5. QED BY <2>3, <2>4
<1>4. /\ jobs'[g] = [st |-> "claimed", attempts |-> jobs[g].attempts + 1,
                     limit |-> jobs[g].limit, token |-> k, live |-> TRUE]
      /\ jobs'[g] \in JobRow
  <2>1. jobs[g] \in JobRow
    BY DEF MediaOK, Rows
  <2>2. jobs'[g] = [st |-> "claimed", attempts |-> jobs[g].attempts + 1,
                    limit |-> jobs[g].limit, token |-> k, live |-> TRUE]
    BY DEF Buried
  <2>3. jobs[g].attempts + 1 \in Nat /\ jobs[g].limit \in Nat \ {0}
    BY <2>1 DEF JobRow
  <2>4. QED BY <1>1, <2>2, <2>3, ClaimedRow
<1>5. jobs' \in [Generations -> JobRow]
  <2>1. \A h \in Generations : jobs'[h] \in JobRow
    BY <1>3, <1>4
  <2>2. jobs' = [h \in Generations |-> jobs'[h]]
    BY DEF Buried
  <2>3. QED BY <2>1, <2>2
<1>6. /\ outputs'[k] = g /\ \A l \in Tokens \ {k} : outputs'[l] = outputs[l]
      /\ outputs' \in [Tokens -> Generations \cup {0}]
      /\ run'[k] = "work" /\ \A l \in Tokens \ {k} : run'[l] = run[l]
      /\ run' \in [Tokens -> RunState]
  BY <1>1 DEF MediaOK, Rows, RunState, Running
<1>7. Rows'
  BY <1>5, <1>6 DEF MediaOK, Rows
<1>8. Fenced'
  <2> SUFFICES ASSUME NEW h \in Generations
               PROVE  /\ jobs'[h].token # NoToken <=> jobs'[h].st = "claimed"
                      /\ jobs'[h].token # NoToken => outputs'[jobs'[h].token] = h
                      /\ jobs'[h].live => jobs'[h].st = "claimed"
    BY DEF Fenced
  <2>1. CASE h = g
    BY <1>1, <1>4, <1>6, <2>1
  <2>2. CASE h # g
    <3>1. jobs'[h].token # NoToken => /\ jobs'[h].token = jobs[h].token /\ jobs[h].token \in Tokens
                                      /\ outputs[jobs[h].token] = h
      BY <1>3, <2>2 DEF MediaOK, Rows, Fenced, JobRow
    <3>2. h # 0
      BY Numbers
    <3>3. QED BY <1>1, <1>3, <1>6, <2>2, <3>1, <3>2
  <2>3. QED BY <2>1, <2>2
<1>9. Unused' /\ NotUploaded'
  BY <1>1, <1>2, <1>6, Numbers DEF MediaOK, Unused, NotUploaded
<1>10. Unstaged'
  <2> SUFFICES ASSUME NEW l \in Tokens, outputs'[l] # 0, Holds(l)'
               PROVE  ops[l].status = "absent" /\ (run'[l] = "uploaded" => l \in objects)
    BY DEF Unstaged
  <2>1. CASE l = k
    BY <1>1, <1>6, <2>1
  <2>2. CASE l # k
    <3>1. outputs'[l] = outputs[l] /\ outputs[l] \in Generations /\ run'[l] = run[l]
      BY <1>6, <2>2 DEF MediaOK, Rows
    <3>2. jobs'[outputs[l]].token = l /\ jobs'[outputs[l]].live
      BY <3>1 DEF Holds
    <3>3. outputs[l] # g
      BY <1>4, <2>2, <3>2
    <3>4. jobs[outputs[l]].token = l /\ jobs[outputs[l]].live /\ jobs[outputs[l]].st = "claimed"
      BY <1>3, <3>1, <3>2, <3>3, Numbers DEF MediaOK, Fenced
    <3>5. Holds(l)
      BY <3>4 DEF Holds
    <3>6. QED BY <3>1, <3>5, Numbers DEF MediaOK, Unstaged
  <2>3. QED BY <2>1, <2>2
<1>11. Published'
  <2> SUFFICES ASSUME file.preview # NoToken
               PROVE  /\ run'[file.preview] = "over"
                      /\ outputs'[file.preview] = file.gen /\ jobs'[file.gen].st = "completed"
                      /\ file.there = "live" => /\ ops[file.preview].status = "absent"
                                                /\ file.preview \in objects
    BY DEF Published
  <2>1. jobs[g].st = "completed"
    BY <1>2 DEF MediaOK, Published
  <2>2. QED BY <2>1 DEF JobClaimable
<1>12. Swept' /\ Cleaned'
  BY <1>2, <1>6 DEF MediaOK, Rows, Swept, Cleaned
<1>13. QED BY <1>7, <1>8, <1>9, <1>10, <1>11, <1>12 DEF MediaOK

LEMMA ClaimJobKeeps ==
  ASSUME MediaOK, ClaimJob
  PROVE  MediaOK' /\ UNCHANGED opsVars
<1>1. UNCHANGED <<file, objects, ops>> /\ UNCHANGED opsVars
  BY DEF ClaimJob, opsVars
<1>2. CASE jobs' = Buried /\ UNCHANGED <<outputs, run>>
  BY <1>1, <1>2, BuriedFalls, JobStep
<1>3. CASE \E g \in Generations, k \in FreeTokens :
             /\ JobClaimable(g)
             /\ jobs' = [Buried EXCEPT ![g] = [st |-> "claimed", attempts |-> jobs[g].attempts + 1,
                                               limit |-> jobs[g].limit, token |-> k, live |-> TRUE]]
             /\ outputs' = [outputs EXCEPT ![k] = g]
             /\ run' = [run EXCEPT ![k] = "work"]
  BY <1>1, <1>3, ClaimTakes
<1>4. QED BY <1>1, <1>2, <1>3 DEF ClaimJob

-----------------------------------------------------------------------------
(* What happens to the file. *)
LEMMA RequeueKeeps ==
  ASSUME MediaOK, Requeue
  PROVE  MediaOK' /\ UNCHANGED opsVars
<1> DEFINE new == file.gen + 1
<1>1. /\ file.there = "live" /\ file.gen < MaxGen /\ file \in FileRow
      /\ jobs' = [Cancelled(1..file.gen) EXCEPT ![new] = NewJob("pending")]
      /\ UNCHANGED <<outputs, run, objects, ops>> /\ UNCHANGED opsVars
  BY DEF Requeue, MediaOK, Rows, opsVars
<1>2. new \in Generations /\ file' \in FileRow /\ file'.preview = NoToken /\ file'.there = "live"
  <2>1. new \in Generations
    BY <1>1, MediaAssumption DEF FileRow, Generations
  <2>2. file' = [there |-> "live", gen |-> new, preview |-> NoToken]
    BY <1>1 DEF Requeue, Requeued, FileRow
  <2>3. QED BY <2>1, <2>2 DEF FileRow
<1> HIDE DEF new
<1>3. /\ jobs'[new] = NewJob("pending")
      /\ \A g \in Generations \ {new} : jobs'[g] = Cancelled(1..file.gen)[g]
      /\ jobs' = [g \in Generations |-> jobs'[g]]
  BY <1>1, <1>2 DEF Cancelled
<1>4. ASSUME NEW g \in Generations
      PROVE  /\ jobs'[g] \in JobRow
             /\ jobs'[g].token # NoToken <=> jobs'[g].st = "claimed"
             /\ jobs'[g].token # NoToken => jobs'[g].token = jobs[g].token
             /\ jobs'[g].live => jobs'[g].st = "claimed" /\ jobs[g].live
  <2>1. CASE g = new
    <3>1. jobs'[g] = [st |-> "pending", attempts |-> 0, limit |-> JobAttempts, token |-> NoToken,
                      live |-> FALSE]
      BY <1>3, <2>1 DEF NewJob
    <3>2. jobs'[g] \in JobRow
      BY <3>1, Numbers DEF JobRow, JobStatus
    <3>3. QED BY <3>1, <3>2
  <2>2. CASE g # new
    <3>1. jobs'[g] = IF g \in 1..file.gen /\ Open(g) THEN Unclaimed(jobs[g], "cancelled") ELSE jobs[g]
      BY <1>3, <2>2 DEF Cancelled
    <3>2. jobs[g] \in JobRow
      BY DEF MediaOK, Rows
    <3>3. CASE g \in 1..file.gen /\ Open(g)
      <4>1. "cancelled" \in JobStatus
        BY DEF JobStatus
      <4> DEFINE u == Unclaimed(jobs[g], "cancelled")
      <4>2. u \in JobRow /\ u.st = "cancelled" /\ u.token = NoToken /\ u.live = FALSE
        BY <3>2, <4>1, UnclaimedRow, Zenon
      <4>3. jobs'[g] = u
        BY <3>1, <3>3
      <4> HIDE DEF u
      <4>4. QED BY <4>2, <4>3
    <3>4. CASE ~(g \in 1..file.gen /\ Open(g))
      BY <3>1, <3>2, <3>4 DEF MediaOK, Fenced
    <3>5. QED BY <3>3, <3>4
  <2>3. QED BY <2>1, <2>2
<1>5. jobs' \in [Generations -> JobRow]
  BY <1>3, <1>4
<1>6. Rows' /\ Fenced'
  BY <1>1, <1>2, <1>4, <1>5 DEF MediaOK, Rows, Fenced
<1>7. Unstaged'
  <2> SUFFICES ASSUME NEW k \in Tokens, outputs[k] # 0, Holds(k)'
               PROVE  ops[k].status = "absent" /\ (run[k] = "uploaded" => k \in objects)
    BY <1>1 DEF Unstaged
  <2>1. outputs[k] \in Generations /\ jobs'[outputs[k]].token = k /\ jobs'[outputs[k]].live
    BY <1>1 DEF Holds, MediaOK, Rows
  <2>2. jobs[outputs[k]].token = k /\ jobs[outputs[k]].live /\ jobs[outputs[k]].st = "claimed"
    BY <1>4, <2>1, Numbers DEF MediaOK, Fenced
  <2>3. Holds(k)
    BY <2>2 DEF Holds
  <2>4. QED BY <2>3 DEF MediaOK, Unstaged
<1>8. Published' /\ Swept'
  BY <1>2 DEF Published, Swept
<1>9. QED BY <1>1, <1>6, <1>7, <1>8 DEF MediaOK, Unused, NotUploaded, Cleaned

LEMMA ExpireKeeps ==
  ASSUME MediaOK, Expire
  PROVE  MediaOK' /\ UNCHANGED opsVars
<1>1. /\ file \in FileRow /\ file' \in FileRow /\ file'.there = "expired"
      /\ file'.preview = file.preview /\ file'.gen = file.gen
      /\ UNCHANGED <<jobs, outputs, run, objects, ops>> /\ UNCHANGED opsVars
  BY DEF Expire, MediaOK, Rows, FileRow, opsVars
<1>2. Fenced' /\ \A k \in Tokens : outputs[k] # 0 /\ Holds(k)' => Holds(k)
  BY <1>1, JobsStay, FallKeepsFence
<1>3. QED
  BY <1>1, <1>2 DEF MediaOK, Rows, Unused, NotUploaded, Unstaged, Published, Swept, Cleaned

-----------------------------------------------------------------------------
(* What is staged for deletion, and the ledger. *)
LEMMA StagedInv ==
  ASSUME OpsInv, NEW S, ops' = Enqueued(S), UNCHANGED held
  PROVE  /\ OpsInv'
         /\ \A o \in OpIds : ops'[o].status =
              IF o \in S /\ ops[o].status = "absent" THEN "pending" ELSE ops[o].status
<1>1. \A o \in OpIds : ops[o] \in OpRow
  BY DEF OpsInv, OpsTypeOK
<1>2. \A o \in OpIds : /\ ops'[o] \in OpRow /\ ops'[o].attempts = ops[o].attempts
                       /\ ops'[o].live = ops[o].live
                       /\ ops'[o].status =
                            IF o \in S /\ ops[o].status = "absent" THEN "pending" ELSE ops[o].status
  BY <1>1 DEF Enqueued, OpRow, OpStatus
<1>3. ops' \in [OpIds -> OpRow]
  BY <1>2 DEF Enqueued
<1>4. OpsTypeOK' /\ NeverTried' /\ TokenIssued'
  BY <1>2, <1>3 DEF OpsInv, OpsTypeOK, NeverTried, TokenIssued, ClaimToken
<1>5. NothingStranded'
  BY <1>1, <1>2, OperationsAssumption DEF OpsInv, NothingStranded, NeverTried, OpRow
<1>6. QED BY <1>2, <1>4, <1>5 DEF OpsInv

LEMMA HeldIsStaged ==
  ASSUME OpsInv, NEW w \in Workers, NEW c \in held[w]
  PROVE  c.op \in Tokens /\ ops[c.op].status # "absent"
<1>1. c \in ClaimToken /\ c.token <= ops[c.op].attempts
  BY DEF OpsInv, OpsTypeOK, TokenIssued
<1>2. c.op \in OpIds /\ c.token \in 1..MaxAttempts /\ ops[c.op].attempts # 0
  BY <1>1, OperationsAssumption DEF ClaimToken
<1>3. QED BY <1>2, Numbers DEF OpsInv, NeverTried

LEMMA LedgerStepInv ==
  ASSUME OpsInv, LedgerStep
  PROVE  /\ OpsInv'
         /\ \A k \in Tokens : /\ ops'[k].status = "absent" <=> ops[k].status = "absent"
                              /\ ops'[k].status = "completed" => ops[k].status = "completed"
<1>1. ASSUME NEW o \in OpIds, LeaseEnds(o)
      PROVE  OpsInv' /\ \A k \in OpIds : ops'[k].status = ops[k].status
  BY <1>1, LeaseEndsInv DEF LeaseEnds, OpsInv, OpsTypeOK, OpRow
<1>2. ASSUME NEW w \in Workers, ClaimSome(w)
      PROVE  /\ OpsInv'
             /\ \A k \in OpIds : /\ ops'[k].status = "absent" <=> ops[k].status = "absent"
                                 /\ ops'[k].status = "completed" => ops[k].status = "completed"
  <2>1. PICK os \in SUBSET ClaimableOps : Claim(w, os)
    BY <1>2 DEF ClaimSome
  <2>2. ASSUME NEW k \in OpIds
        PROVE  \/ ops'[k] = ops[k]
               \/ ops'[k].status \in {"claimed", "dead"} /\ ops[k].status # "absent"
    BY <2>1 DEF Claim, ClaimableOps, Claimable, Exhausted, OpsInv, OpsTypeOK, OpRow
  <2>3. QED BY <1>2, <2>2, ClaimInv
<1>3. ASSUME NEW w \in Workers, Abandon(w)
      PROVE  OpsInv' /\ ops' = ops
  BY <1>3, AbandonInv DEF Abandon
<1>4. ASSUME NEW w \in Workers, NEW c \in held[w], Fail(w, c)
      PROVE  /\ OpsInv'
             /\ \A k \in OpIds : /\ ops'[k].status = "absent" <=> ops[k].status = "absent"
                                 /\ ops'[k].status = "completed" => ops[k].status = "completed"
  <2>1. OpsInv'
    BY <1>4, SettleInv DEF Settle
  <2>2. c.op \in OpIds
    BY DEF OpsInv, OpsTypeOK, ClaimToken
  <2>3. QED BY <1>4, <2>1, <2>2 DEF Fail, Failed, Current, OpsInv, OpsTypeOK, OpRow
<1>5. QED BY <1>1, <1>2, <1>3, <1>4, Numbers DEF LedgerStep

LEMMA DeleteStagedInv ==
  ASSUME OpsInv, NEW w \in Workers, NEW c \in held[w], DeleteStaged(w, c)
  PROVE  /\ OpsInv'
         /\ \A k \in Tokens : /\ ops'[k].status = "absent" <=> ops[k].status = "absent"
                              /\ k # c.op /\ ops'[k].status = "completed" => ops[k].status = "completed"
<1>1. CASE UNCHANGED opsVars
  BY <1>1, OpsInvInductive DEF opsVars
<1>2. CASE Complete(w, c)
  <2>1. OpsInv'
    BY <1>2, SettleInv DEF Settle
  <2>2. c.op \in Tokens /\ ops[c.op].status # "absent"
    BY HeldIsStaged
  <2>3. QED BY <1>2, <2>1, <2>2, Numbers DEF Complete, Current, OpsInv, OpsTypeOK, OpRow
<1>3. QED BY <1>1, <1>2 DEF DeleteStaged

(* The ledger deletes what is staged, which nobody can publish. *)
LEMMA LedgerKeeps ==
  ASSUME MediaOK, UNCHANGED media, objects' \subseteq objects,
         \A k \in objects \ objects' : ops[k].status # "absent",
         \A k \in Tokens : ops'[k].status = "absent" <=> ops[k].status = "absent",
         \A k \in objects' : ops'[k].status = "completed" => ops[k].status = "completed"
  PROVE  MediaOK'
<1>1. UNCHANGED <<file, jobs, outputs, run>>
  BY DEF media
<1>2. Fenced' /\ \A k \in Tokens : outputs[k] # 0 /\ Holds(k)' => Holds(k)
  BY <1>1, JobsStay, FallKeepsFence
<1>3. Unstaged'
  BY <1>1, <1>2 DEF MediaOK, Unstaged
<1>4. Published'
  BY <1>1 DEF MediaOK, Rows, FileRow, Published
<1>5. QED
  BY <1>1, <1>2, <1>3, <1>4 DEF MediaOK, Rows, Unused, NotUploaded, Swept, Cleaned

LEMMA StageAbandonedKeeps ==
  ASSUME MediaInv, NEW k \in Tokens, StageAbandoned(k)
  PROVE  MediaInv'
<1>1. /\ MediaOK /\ OpsInv /\ outputs[k] # 0 /\ k # file.preview /\ ~Holds(k)
      /\ ops' = Enqueued({k}) /\ UNCHANGED <<file, jobs, outputs, run, objects, held>>
  BY DEF MediaInv, StageAbandoned, Abandoned, media
<1>2. /\ OpsInv'
      /\ \A l \in Tokens : ops'[l].status =
           IF l = k /\ ops[l].status = "absent" THEN "pending" ELSE ops[l].status
  BY <1>1, StagedInv, Numbers
<1>3. Fenced' /\ \A l \in Tokens : outputs[l] # 0 /\ Holds(l)' => Holds(l)
  BY <1>1, JobsStay, FallKeepsFence
<1>4. Unstaged'
  BY <1>1, <1>2, <1>3 DEF MediaOK, Unstaged
<1>5. Published'
  BY <1>1, <1>2 DEF MediaOK, Rows, FileRow, Published
<1>6. QED
  BY <1>1, <1>2, <1>3, <1>4, <1>5
     DEF MediaInv, MediaOK, Rows, Unused, NotUploaded, Swept, Cleaned

LEMMA TombstoneKeeps ==
  ASSUME MediaInv, Tombstone
  PROVE  MediaInv'
<1>1. /\ MediaOK /\ OpsInv /\ file \in FileRow /\ file' = [file EXCEPT !.there = "deleted"]
      /\ ops' = Enqueued(AttemptKeys) /\ jobs' = Cancelled(Generations)
      /\ UNCHANGED <<outputs, run, objects, held>>
  BY DEF MediaInv, MediaOK, Rows, Tombstone
<1>2. /\ OpsInv'
      /\ \A l \in Tokens : ops'[l].status =
           IF outputs[l] # 0 /\ ops[l].status = "absent" THEN "pending" ELSE ops[l].status
  BY <1>1, StagedInv, Numbers DEF AttemptKeys
<1>3. JobsFall
  BY <1>1, CancelledFalls
<1>4. Fenced'
  BY <1>1, <1>3, FallKeepsFence
<1>5. \A l \in Tokens : outputs[l] # 0 => ~Holds(l)'
  <2> SUFFICES ASSUME NEW l \in Tokens, outputs[l] # 0, Holds(l)' PROVE FALSE
    OBVIOUS
  <2>1. outputs[l] \in Generations /\ jobs'[outputs[l]].st = "claimed"
    BY <1>1 DEF Holds, MediaOK, Rows
  <2>2. jobs[outputs[l]] \in JobRow
    BY <1>1, <2>1 DEF MediaOK, Rows
  <2>3. jobs'[outputs[l]].st # "claimed"
    BY <1>1, <2>1, <2>2 DEF Cancelled, Open, Unclaimed, JobRow
  <2>4. QED BY <2>1, <2>3
<1>6. /\ file' \in FileRow /\ file'.there = "deleted" /\ file'.preview = file.preview
      /\ file'.gen = file.gen
  BY <1>1 DEF FileRow
<1>7. Rows' /\ Unstaged' /\ Swept'
  BY <1>1, <1>2, <1>3, <1>5, <1>6 DEF MediaOK, Rows, JobsFall, Unstaged, Swept
<1>8. Published'
  BY <1>1, <1>3, <1>6 DEF MediaOK, JobsFall, Published, FileRow
<1>9. Unused' /\ NotUploaded' /\ Cleaned'
  BY <1>1, <1>2 DEF MediaOK, Rows, Unused, NotUploaded, Cleaned
<1>10. QED BY <1>2, <1>4, <1>7, <1>8, <1>9 DEF MediaInv, MediaOK

-----------------------------------------------------------------------------
LEMMA MediaInvInductive == MediaInv /\ [MediaNext]_mvars => MediaInv'
<1> SUFFICES ASSUME MediaInv, [MediaNext]_mvars PROVE MediaInv'
  OBVIOUS
<1>0. MediaOK /\ OpsInv
  BY DEF MediaInv
<1>1. UNCHANGED opsVars => OpsInv'
  BY <1>0, OpsInvInductive
<1>2. CASE UNCHANGED mvars
  <2>1. UNCHANGED <<file, jobs, outputs, run, objects, ops>> /\ UNCHANGED opsVars
    BY <1>2 DEF mvars, media, opsVars
  <2>2. QED BY <1>0, <1>1, <2>1, JobsStay, JobStep DEF MediaInv
<1>3. CASE ClaimJob
  BY <1>0, <1>1, <1>3, ClaimJobKeeps DEF MediaInv
<1>4. ASSUME NEW g \in Generations, JobLeaseEnds(g) \/ RetryDead(g) PROVE MediaInv'
  <2>1. UNCHANGED <<file, outputs, run, objects, ops>> /\ UNCHANGED opsVars
    BY <1>4 DEF JobLeaseEnds, RetryDead, opsVars
  <2>2. QED BY <1>0, <1>1, <1>4, <2>1, LeaseEndsFalls, RetryDeadFalls, JobStep DEF MediaInv
<1>5. ASSUME NEW k \in Tokens, Attempt(k) PROVE MediaInv'
  BY <1>0, <1>1, <1>5, AttemptKeeps DEF MediaInv
<1>6. ASSUME NEW k \in Tokens, StageAbandoned(k) PROVE MediaInv'
  BY <1>6, StageAbandonedKeeps
<1>7. CASE Requeue \/ Expire
  BY <1>0, <1>1, <1>7, RequeueKeeps, ExpireKeeps DEF MediaInv
<1>8. CASE Tombstone
  BY <1>8, TombstoneKeeps
<1>9. CASE CancelObsolete \/ ClearQueue
  <2>1. UNCHANGED <<file, outputs, run, objects, ops>> /\ UNCHANGED opsVars
    BY <1>9 DEF CancelObsolete, ClearQueue, opsVars
  <2>2. JobsFall
    BY <1>0, <1>9, CancelledFalls DEF CancelObsolete, ClearQueue
  <2>3. QED BY <1>0, <1>1, <2>1, <2>2, JobStep DEF MediaInv
<1>10. CASE LedgerStep
  <2>1. UNCHANGED media /\ UNCHANGED objects
    BY <1>10 DEF LedgerStep
  <2>2. /\ OpsInv'
        /\ \A k \in Tokens : /\ ops'[k].status = "absent" <=> ops[k].status = "absent"
                             /\ ops'[k].status = "completed" => ops[k].status = "completed"
    BY <1>0, <1>10, LedgerStepInv
  <2>3. objects \subseteq Tokens
    BY <1>0 DEF MediaOK, Rows
  <2>4. MediaOK'
    BY <1>0, <2>1, <2>2, <2>3, LedgerKeeps
  <2>5. QED BY <2>2, <2>4 DEF MediaInv
<1>11. ASSUME NEW w \in Workers, NEW c \in held[w], DeleteStaged(w, c) PROVE MediaInv'
  <2>1. UNCHANGED media /\ objects' = objects \ {c.op}
    BY <1>11 DEF DeleteStaged
  <2>2. /\ OpsInv'
        /\ \A k \in Tokens : /\ ops'[k].status = "absent" <=> ops[k].status = "absent"
                             /\ k # c.op /\ ops'[k].status = "completed" => ops[k].status = "completed"
    BY <1>0, <1>11, DeleteStagedInv
  <2>3. ops[c.op].status # "absent" /\ objects \subseteq Tokens
    BY <1>0, HeldIsStaged DEF MediaOK, Rows
  <2>4. MediaOK'
    BY <1>0, <2>1, <2>2, <2>3, LedgerKeeps
  <2>5. QED BY <2>2, <2>4 DEF MediaInv
<1>12. QED
  BY <1>2, <1>3, <1>4, <1>5, <1>6, <1>7, <1>8, <1>9, <1>10, <1>11 DEF MediaNext

LEMMA MediaInvariant == MediaSpec => []MediaInv
<1>1. QED BY MediaInitInv, MediaInvInductive, PTL DEF MediaSpec

-----------------------------------------------------------------------------
(* Types: every attempt of a job was given a token of its own. *)
Given(g) == {k \in Tokens : outputs[k] = g}
Counted == \A g \in Generations : jobs[g].attempts <= Cardinality(Given(g))

LEMMA GivenFinite ==
  \A g : IsFiniteSet(Given(g)) /\ Cardinality(Given(g)) \in 0..MaxTokens
<1>1. IsFiniteSet(Tokens) /\ Cardinality(Tokens) = MaxTokens
  <2>1. 1 \in Int /\ MaxTokens \in Int /\ ~(1 > MaxTokens)
    BY MediaAssumption
  <2>2. IsFiniteSet(1..MaxTokens) /\ Cardinality(1..MaxTokens) = MaxTokens - 1 + 1
    BY <2>1, FS_Interval
  <2>3. QED BY <2>1, <2>2 DEF Tokens
<1>2. ASSUME NEW g
      PROVE  IsFiniteSet(Given(g)) /\ Cardinality(Given(g)) \in 0..MaxTokens
  <2>1. Given(g) \in SUBSET Tokens
    BY DEF Given
  <2>2. IsFiniteSet(Given(g)) /\ Cardinality(Given(g)) <= MaxTokens
    BY <1>1, <2>1, FS_Subset
  <2>3. Cardinality(Given(g)) \in Nat
    BY <2>2, FS_CardinalityType
  <2>4. QED BY <2>2, <2>3, MediaAssumption
<1>3. QED BY <1>2

(* No token is given: no job has more attempts than before. *)
LEMMA FewerCounted ==
  ASSUME Counted, Rows, UNCHANGED outputs,
         \A g \in Generations : jobs'[g].attempts \in Nat /\
           (jobs'[g].attempts <= jobs[g].attempts \/ jobs'[g].attempts = 0)
  PROVE  Counted'
<1> SUFFICES ASSUME NEW g \in Generations PROVE jobs'[g].attempts <= Cardinality(Given(g)')
  BY DEF Counted
<1>1. Given(g)' = Given(g)
  BY DEF Given
<1>2. Cardinality(Given(g)) \in Nat /\ jobs[g].attempts <= Cardinality(Given(g))
  BY GivenFinite, MediaAssumption DEF Counted
<1>3. jobs[g].attempts \in Nat
  BY DEF Rows, JobRow
<1>4. QED BY <1>1, <1>2, <1>3

LEMMA FallCounted ==
  ASSUME Counted, Rows, JobsFall, UNCHANGED outputs
  PROVE  Counted'
<1>1. \A g \in Generations : jobs'[g].attempts \in Nat /\ jobs'[g].attempts <= jobs[g].attempts
  BY DEF JobsFall, JobRow
<1>2. QED BY <1>1, FewerCounted

LEMMA ClaimCounted ==
  ASSUME MediaOK, Counted, ClaimJob
  PROVE  Counted'
<1>1. CASE jobs' = Buried /\ UNCHANGED <<outputs, run>>
  BY <1>1, BuriedFalls, FallCounted DEF MediaOK
<1>2. CASE \E g \in Generations, k \in FreeTokens :
             /\ jobs' = [Buried EXCEPT ![g] = [st |-> "claimed", attempts |-> jobs[g].attempts + 1,
                                               limit |-> jobs[g].limit, token |-> k, live |-> TRUE]]
             /\ outputs' = [outputs EXCEPT ![k] = g]
  <2>1. PICK g \in Generations, k \in FreeTokens :
             /\ jobs' = [Buried EXCEPT ![g] = [st |-> "claimed", attempts |-> jobs[g].attempts + 1,
                                               limit |-> jobs[g].limit, token |-> k, live |-> TRUE]]
             /\ outputs' = [outputs EXCEPT ![k] = g]
    BY <1>2
  <2>2. k \in Tokens /\ outputs[k] = 0 /\ g # 0 /\ outputs \in [Tokens -> Generations \cup {0}]
    BY Numbers DEF FreeTokens, MediaOK, Rows
  <2> SUFFICES ASSUME NEW h \in Generations
               PROVE  jobs'[h].attempts <= Cardinality(Given(h)')
    BY DEF Counted
  <2>3. jobs[h] \in JobRow /\ jobs[h].attempts <= Cardinality(Given(h)) /\ h # 0
    BY Numbers DEF Counted, MediaOK, Rows
  <2>4. IsFiniteSet(Given(h)) /\ Cardinality(Given(h)) \in Nat /\ k \notin Given(h)
    BY <2>2, <2>3, GivenFinite, MediaAssumption DEF Given
  <2>5. CASE h = g
    <3>1. Given(h)' = Given(h) \cup {k}
      BY <2>1, <2>2, <2>5 DEF Given
    <3>2. Cardinality(Given(h)') = Cardinality(Given(h)) + 1
      BY <2>4, <3>1, FS_AddElement
    <3>3. jobs'[h].attempts = jobs[h].attempts + 1
      BY <2>1, <2>5 DEF Buried
    <3>4. QED BY <2>3, <2>4, <3>2, <3>3 DEF JobRow
  <2>6. CASE h # g
    <3>1. Given(h)' = Given(h)
      BY <2>1, <2>2, <2>3, <2>6 DEF Given
    <3>2. jobs'[h] = IF JobExhausted(h) THEN Unclaimed(jobs[h], "dead") ELSE jobs[h]
      BY <2>1, <2>6 DEF Buried
    <3>3. jobs'[h].attempts = jobs[h].attempts
      BY <2>3, <3>2 DEF Unclaimed, JobRow
    <3>4. QED BY <2>3, <3>1, <3>3
  <2>7. QED BY <2>5, <2>6
<1>3. QED BY <1>1, <1>2 DEF ClaimJob

LEMMA RequeueCounted ==
  ASSUME MediaOK, Counted, Requeue
  PROVE  Counted'
<1>1. jobs' = [Cancelled(1..file.gen) EXCEPT ![file.gen + 1] = NewJob("pending")]
      /\ UNCHANGED outputs
  BY DEF Requeue
<1>2. ASSUME NEW g \in Generations
      PROVE  jobs'[g].attempts \in Nat /\
             (jobs'[g].attempts <= jobs[g].attempts \/ jobs'[g].attempts = 0)
  <2>1. jobs[g] \in JobRow
    BY DEF MediaOK, Rows
  <2>2. CASE g = file.gen + 1
    BY <1>1, <2>2 DEF Cancelled, NewJob
  <2>3. CASE g # file.gen + 1
    <3>1. jobs'[g] = IF g \in 1..file.gen /\ Open(g) THEN Unclaimed(jobs[g], "cancelled") ELSE jobs[g]
      BY <1>1, <2>3 DEF Cancelled
    <3>2. jobs'[g].attempts = jobs[g].attempts
      BY <2>1, <3>1 DEF Unclaimed, JobRow
    <3>3. QED BY <2>1, <3>2 DEF JobRow
  <2>4. QED BY <2>2, <2>3
<1>3. QED BY <1>1, <1>2, FewerCounted DEF MediaOK

LEMMA CountedInductive == MediaInv /\ Counted /\ [MediaNext]_mvars => Counted'
<1> SUFFICES ASSUME MediaInv, Counted, [MediaNext]_mvars PROVE Counted'
  OBVIOUS
<1>1. MediaOK /\ Rows
  BY DEF MediaInv, MediaOK
<1>2. CASE ClaimJob
  BY <1>1, <1>2, ClaimCounted
<1>3. CASE Requeue
  BY <1>1, <1>3, RequeueCounted
<1>4. ASSUME JobsFall, UNCHANGED outputs PROVE Counted'
  BY <1>1, <1>4, FallCounted
<1>5. ASSUME UNCHANGED <<jobs, outputs>> PROVE Counted'
  BY <1>1, <1>4, <1>5, JobsStay
<1>6. ASSUME NEW g \in Generations, JobLeaseEnds(g) \/ RetryDead(g) PROVE Counted'
  <2>1. UNCHANGED outputs
    BY <1>6 DEF JobLeaseEnds, RetryDead
  <2>2. QED BY <1>1, <1>4, <1>6, <2>1, LeaseEndsFalls, RetryDeadFalls
<1>7. ASSUME NEW k \in Tokens, Attempt(k) PROVE Counted'
  BY <1>1, <1>4, <1>7, AttemptKeeps
<1>8. CASE Tombstone \/ CancelObsolete \/ ClearQueue
  <2>1. UNCHANGED outputs
    BY <1>8 DEF Tombstone, CancelObsolete, ClearQueue
  <2>2. QED BY <1>1, <1>4, <1>8, <2>1, CancelledFalls DEF Tombstone, CancelObsolete, ClearQueue
<1>9. CASE Expire \/ LedgerStep \/ UNCHANGED mvars
  BY <1>5, <1>9 DEF Expire, LedgerStep, mvars, media
<1>10. ASSUME NEW k \in Tokens, StageAbandoned(k) PROVE Counted'
  BY <1>5, <1>10 DEF StageAbandoned, media
<1>11. ASSUME NEW w \in Workers, NEW c \in held[w], DeleteStaged(w, c) PROVE Counted'
  BY <1>5, <1>11 DEF DeleteStaged, media
<1>12. QED
  BY <1>2, <1>3, <1>6, <1>7, <1>8, <1>9, <1>10, <1>11 DEF MediaNext

(* Rows, runs and the bucket are well formed, no job has more attempts than *)
(* claims were made, and only a claimed job has a lease and a token.       *)
THEOREM MediaTypeCorrect == MediaSpec => []MediaTypeOK
<1>1. MediaInit => Counted
  <2> SUFFICES ASSUME MediaInit, NEW g \in Generations
               PROVE  jobs[g].attempts <= Cardinality(Given(g))
    BY DEF Counted
  <2>1. jobs[g].attempts = 0
    BY DEF MediaInit, NewJob
  <2>2. QED BY <2>1, GivenFinite
<1>2. MediaInv /\ Counted => MediaTypeOK
  <2> SUFFICES ASSUME MediaInv, Counted PROVE MediaTypeOK
    OBVIOUS
  <2>1. Rows /\ Fenced
    BY DEF MediaInv, MediaOK
  <2>2. ASSUME NEW g \in Generations
        PROVE  jobs[g] \in [st : JobStatus, attempts : 0..MaxTokens, limit : Nat \ {0},
                            token : Tokens \cup {NoToken}, live : BOOLEAN]
    <3>1. jobs[g] \in JobRow /\ jobs[g].attempts <= Cardinality(Given(g))
      BY <2>1 DEF Rows, Counted
    <3>2. jobs[g].attempts \in 0..MaxTokens
      BY <3>1, GivenFinite, MediaAssumption DEF JobRow
    <3>3. QED BY <3>1, <3>2 DEF JobRow
  <2>3. QED BY <2>1, <2>2 DEF MediaTypeOK, Rows, Fenced, FileRow, RunState
<1>3. QED BY <1>1, <1>2, CountedInductive, MediaInvariant, PTL DEF MediaSpec

(* Whatever other attempts delete, stage or leave to the ledger: the        *)
(* preview that complete published, and a visitor is shown, is there.      *)
THEOREM ShownIsThere == MediaSpec => []PreviewIsServed
<1>1. MediaInv => PreviewIsServed
  BY DEF MediaInv, MediaOK, Published, PreviewIsServed
<1>2. QED BY <1>1, MediaInvariant, PTL

(* The fences of complete and requeue: a published preview is of the file's *)
(* present generation, whose job is completed.                             *)
THEOREM ShownIsCurrent == MediaSpec => []PreviewIsCurrent
<1>1. MediaInv => PreviewIsCurrent
  BY DEF MediaInv, MediaOK, Published, PreviewIsCurrent
<1>2. QED BY <1>1, MediaInvariant, PTL

(* Tombstone stages every attempt's keys and fences its jobs: in the end    *)
(* nothing is left of a deleted transfer but what a stopped process or a    *)
(* dead deletion left.                                                     *)
THEOREM DeletionLeavesNothing == MediaSpec => []DeletedLeavesNothing
<1>1. MediaInv => DeletedLeavesNothing
  <2> SUFFICES ASSUME MediaInv, file.there = "deleted", NEW k \in objects, k \in Tokens,
                      run[k] \notin Running, ops[k].status \notin {"pending", "claimed"}
               PROVE  run[k] = "left" \/ ops[k].status = "dead"
    BY DEF DeletedLeavesNothing, MediaInv, MediaOK, Rows
  <2>1. outputs[k] # 0
    BY DEF MediaInv, MediaOK, Unused, NotUploaded
  <2>2. ops[k].status # "absent"
    BY <2>1 DEF MediaInv, MediaOK, Swept
  <2>3. ops[k].status = "completed" => run[k] = "left"
    BY DEF MediaInv, MediaOK, Cleaned
  <2>4. ops[k].status \in OpStatus
    BY Numbers DEF MediaInv, OpsInv, OpsTypeOK, OpRow
  <2>5. QED BY <2>2, <2>3, <2>4 DEF OpStatus
<1>2. QED BY <1>1, MediaInvariant, PTL
=============================================================================
