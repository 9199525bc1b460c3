-------------------------- MODULE ObjectOperations --------------------------
(***************************************************************************)
(* media_object_operations: the ledger of work on stored objects that      *)
(* albums, words and transfers fill inside their own transactions and that *)
(* media workers drain.  A worker claims operations for the length of a    *)
(* lease, and a claim token tells it apart from whoever claims them next.  *)
(* A token is fresh for every claim, so the number of the attempt stands   *)
(* for it.  A lease is either running or over (live), and the delay before *)
(* a retry is an interval in which nobody happens to claim.                *)
(***************************************************************************)
EXTENDS Naturals, FiniteSets

CONSTANTS
  OpIds,        \* identities: owner, revision, operation, scope, target key
  Workers,      \* processes that run batches
  MaxAttempts,  \* max_attempts
  BatchLimit    \* how many operations one claim takes

ASSUME OperationsAssumption ==
  /\ MaxAttempts \in Nat \ {0}
  /\ BatchLimit \in Nat \ {0}
  /\ IsFiniteSet(OpIds)

VARIABLES
  ops,   \* the table; an operation not enqueued yet has status "absent"
  held   \* the claims a worker remembers, current or not

OpStatus == {"absent", "pending", "claimed", "completed", "dead"}
OpRow == [status : OpStatus, attempts : 0..MaxAttempts, live : BOOLEAN]
ClaimToken == [op : OpIds, token : 1..MaxAttempts]
AbsentRow == [status |-> "absent", attempts |-> 0, live |-> FALSE]

(* Every row and every remembered claim is well formed; only a claimed row *)
(* has a lease, as the table's check constraint demands.                   *)
OpsTypeOK ==
  /\ ops \in [OpIds -> OpRow]
  /\ held \in [Workers -> SUBSET ClaimToken]
  /\ \A o \in OpIds : ops[o].live => ops[o].status = "claimed"

OpsInit ==
  /\ ops = [o \in OpIds |-> AbsentRow]
  /\ held = [w \in Workers |-> {}]

(* enqueueMediaObjectOperation: an identity already there is left alone. *)
Enqueued(os) ==
  [o \in OpIds |-> IF o \in os /\ ops[o].status = "absent"
                     THEN [ops[o] EXCEPT !.status = "pending"] ELSE ops[o]]

(* The last attempt's lease ran out. *)
Exhausted(o) == ops[o].status = "claimed" /\ ~ops[o].live /\ ops[o].attempts >= MaxAttempts

(* Mutant: dead rows are picked up again. *)
ClaimableDead(o) ==
  /\ ops[o].status \in {"pending", "dead"} \/ (ops[o].status = "claimed" /\ ~ops[o].live)
  /\ ops[o].status = "dead" \/ ops[o].attempts < MaxAttempts

Claimable(o) ==
  /\ ops[o].status = "pending" \/ (ops[o].status = "claimed" /\ ~ops[o].live)
  /\ ops[o].attempts < MaxAttempts

ClaimableOps == {o \in OpIds : Claimable(o)}

(* claimMediaObjectOperations: exhausted claims are buried, then a batch   *)
(* is taken; rows another claim has locked are skipped, so any part of     *)
(* what is claimable may be taken.                                         *)
Claim(w, os) ==
  /\ os \subseteq ClaimableOps
  /\ Cardinality(os) <= BatchLimit
  /\ ops' = [o \in OpIds |->
       IF Exhausted(o) THEN [ops[o] EXCEPT !.status = "dead"]
       ELSE IF o \in os
         THEN [status |-> "claimed", attempts |-> ops[o].attempts + 1, live |-> TRUE]
         ELSE ops[o]]
  /\ held' = [held EXCEPT ![w] = @ \cup {[op |-> o, token |-> ops[o].attempts + 1] : o \in os}]

(* The condition of renewal, completion and failure.  A renewal moves the  *)
(* end of a running lease and changes nothing here.                        *)
Current(c) ==
  ops[c.op].status = "claimed" /\ ops[c.op].attempts = c.token /\ ops[c.op].live

Forget(w, c) == held' = [held EXCEPT ![w] = @ \ {c}]

(* Mutant: a completed row keeps its lease. *)
CompleteLeased(w, c) ==
  /\ c \in held[w]
  /\ ops' = IF Current(c) THEN [ops EXCEPT ![c.op].status = "completed"] ELSE ops
  /\ Forget(w, c)

(* completeMediaObjectOperation; a claim that was lost settles nothing. *)
Complete(w, c) ==
  /\ c \in held[w]
  /\ ops' = IF Current(c)
              THEN [ops EXCEPT ![c.op].status = "completed", ![c.op].live = FALSE] ELSE ops
  /\ Forget(w, c)

(* Mutant: the last failed attempt goes back to the queue. *)
FailedAgain(o) == [ops EXCEPT ![o].status = "pending", ![o].live = FALSE]

Failed(o) ==
  [ops EXCEPT ![o].status = IF ops[o].attempts >= MaxAttempts THEN "dead" ELSE "pending",
              ![o].live = FALSE]

(* failMediaObjectOperation *)
Fail(w, c) ==
  /\ c \in held[w]
  /\ ops' = IF Current(c) THEN Failed(c.op) ELSE ops
  /\ Forget(w, c)

(* Time passes the end of a lease. *)
LeaseEnds(o) ==
  /\ ops[o].live
  /\ ops' = [ops EXCEPT ![o].live = FALSE]
  /\ UNCHANGED held

(* The worker's process ends. *)
Abandon(w) ==
  /\ held[w] # {}
  /\ held' = [held EXCEPT ![w] = {}]
  /\ UNCHANGED ops

Enqueue(o) ==
  /\ ops[o].status = "absent"
  /\ ops' = Enqueued({o})
  /\ UNCHANGED held

Settle(w) == \E c \in held[w] : Complete(w, c) \/ Fail(w, c)
ClaimSome(w) ==
  \E os \in SUBSET ClaimableOps :
    (os # {} \/ \E o \in OpIds : Exhausted(o)) /\ Claim(w, os)

OpsNext ==
  \/ \E o \in OpIds : Enqueue(o) \/ LeaseEnds(o)
  \/ \E w \in Workers : ClaimSome(w) \/ Settle(w) \/ Abandon(w)

opsVars == <<ops, held>>
OpsSpec == OpsInit /\ [][OpsNext]_opsVars

-----------------------------------------------------------------------------
(* Properties. *)

(* The failure path and the claim agree on the limit: what waits in the    *)
(* queue can still be claimed, and only what was tried MaxAttempts times   *)
(* is dead.                                                                *)
NothingStranded ==
  \A o \in OpIds :
    /\ ops[o].status = "pending" => ops[o].attempts < MaxAttempts
    /\ ops[o].status = "dead" => ops[o].attempts = MaxAttempts

(* A settled operation stays settled: "marks exhausted retries dead and    *)
(* never reclaims them", and a completed one is not run again.             *)
SettledIsFinal ==
  [][\A o \in OpIds :
       ops[o].status \in {"completed", "dead"} => ops'[o].status = ops[o].status]_opsVars
=============================================================================
