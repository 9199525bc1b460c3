---------------------- MODULE ObjectOperationsProofs ----------------------
(***************************************************************************)
(* The queue of object operations, for any number of operations, workers   *)
(* and attempts.  What has to be added to the properties to make them      *)
(* inductive is that a row which was never enqueued was never tried, and   *)
(* where claim tokens come from: a claim that a worker holds is of an      *)
(* attempt that was made.                                                  *)
(***************************************************************************)
EXTENDS ObjectOperations, TLAPS

NeverTried == \A o \in OpIds : ops[o].status = "absent" => ops[o].attempts = 0
TokenIssued == \A w \in Workers : \A c \in held[w] : c.token <= ops[c.op].attempts

(* The inductive invariant. *)
OpsInv == OpsTypeOK /\ NothingStranded /\ NeverTried /\ TokenIssued

LEMMA OpsInitInv == OpsInit => OpsInv
  BY OperationsAssumption
     DEF OpsInit, OpsInv, OpsTypeOK, NothingStranded, NeverTried, TokenIssued, AbsentRow,
         OpRow, OpStatus

(* What a step does to the rows and to the claims, action by action. *)
LEMMA EnqueueInv ==
  ASSUME OpsInv, NEW o \in OpIds, Enqueue(o)
  PROVE  OpsInv'
  BY OperationsAssumption
     DEF OpsInv, OpsTypeOK, NothingStranded, NeverTried, TokenIssued, Enqueue, Enqueued,
         OpRow, OpStatus, ClaimToken

LEMMA LeaseEndsInv ==
  ASSUME OpsInv, NEW o \in OpIds, LeaseEnds(o)
  PROVE  OpsInv'
<1>1. ops' = [ops EXCEPT ![o].live = FALSE] /\ held' = held
  BY DEF LeaseEnds
<1>2. /\ ops' \in [OpIds -> OpRow]
      /\ \A p \in OpIds : /\ ops'[p].status = ops[p].status
                          /\ ops'[p].attempts = ops[p].attempts
                          /\ ops'[p].live => ops[p].live
  BY <1>1 DEF OpsInv, OpsTypeOK, OpRow
<1>3. OpsTypeOK' /\ NothingStranded' /\ NeverTried'
  BY <1>1, <1>2 DEF OpsInv, OpsTypeOK, NothingStranded, NeverTried
<1>4. TokenIssued'
  BY <1>1, <1>2 DEF OpsInv, OpsTypeOK, TokenIssued, ClaimToken
<1>5. QED BY <1>3, <1>4 DEF OpsInv

LEMMA AbandonInv ==
  ASSUME OpsInv, NEW w \in Workers, Abandon(w)
  PROVE  OpsInv'
  BY OperationsAssumption
     DEF OpsInv, OpsTypeOK, NothingStranded, NeverTried, TokenIssued, Abandon

LEMMA SettleInv ==
  ASSUME OpsInv, NEW w \in Workers, Settle(w)
  PROVE  OpsInv'
<1>1. PICK c \in held[w] : Complete(w, c) \/ Fail(w, c)
  BY DEF Settle
<1>2. c \in ClaimToken /\ c.op \in OpIds
  BY <1>1 DEF OpsInv, OpsTypeOK, ClaimToken
<1>3. /\ ops' \in [OpIds -> OpRow]
      /\ \A o \in OpIds : ops'[o].live => ops'[o].status = "claimed"
      /\ NothingStranded' /\ NeverTried'
      /\ \A o \in OpIds : ops'[o].attempts = ops[o].attempts
  <2>1. CASE Complete(w, c)
    BY <1>2, <2>1, OperationsAssumption
       DEF OpsInv, OpsTypeOK, NothingStranded, NeverTried, Complete, Current, OpRow, OpStatus
  <2>2. CASE Fail(w, c)
    BY <1>2, <2>2, OperationsAssumption
       DEF OpsInv, OpsTypeOK, NothingStranded, NeverTried, Fail, Failed, Current, OpRow, OpStatus
  <2>3. QED BY <1>1, <2>1, <2>2
<1>4. /\ held' \in [Workers -> SUBSET ClaimToken]
      /\ \A v \in Workers : held'[v] \subseteq held[v]
  BY <1>1 DEF OpsInv, OpsTypeOK, Complete, Fail, Forget
<1>5. TokenIssued'
  BY <1>3, <1>4 DEF OpsInv, OpsTypeOK, TokenIssued, ClaimToken
<1>6. QED BY <1>3, <1>4, <1>5 DEF OpsInv, OpsTypeOK

LEMMA ClaimInv ==
  ASSUME OpsInv, NEW w \in Workers, ClaimSome(w)
  PROVE  OpsInv'
<1>1. PICK os \in SUBSET ClaimableOps : Claim(w, os)
  BY DEF ClaimSome
<1> DEFINE Taken(o) == [op |-> o, token |-> ops[o].attempts + 1]
<1>2. os \subseteq OpIds /\ \A o \in os : Claimable(o) /\ ~Exhausted(o)
  BY OperationsAssumption DEF OpsInv, OpsTypeOK, OpRow, ClaimableOps, Claimable, Exhausted
<1>3. \A o \in os : Taken(o) \in ClaimToken
  BY <1>2, OperationsAssumption DEF OpsInv, OpsTypeOK, OpRow, Claimable, ClaimToken
<1>4. /\ ops' \in [OpIds -> OpRow]
      /\ \A o \in OpIds : ops'[o].live => ops'[o].status = "claimed"
      /\ NothingStranded' /\ NeverTried'
  <2>1. ops' = [o \in OpIds |->
          IF Exhausted(o) THEN [ops[o] EXCEPT !.status = "dead"]
          ELSE IF o \in os
            THEN [status |-> "claimed", attempts |-> ops[o].attempts + 1, live |-> TRUE]
            ELSE ops[o]]
    BY <1>1 DEF Claim
  <2>2. ASSUME NEW o \in OpIds
        PROVE  /\ ops'[o] \in OpRow
               /\ ops'[o].live => ops'[o].status = "claimed"
               /\ ops'[o].status = "pending" => ops'[o].attempts < MaxAttempts
               /\ ops'[o].status = "dead" => ops'[o].attempts = MaxAttempts
               /\ ops'[o].status = "absent" => ops'[o].attempts = 0
    <3>1. CASE Exhausted(o)
      <4>1. ops[o] \in OpRow
        BY DEF OpsInv, OpsTypeOK
      <4>2. ops'[o] = [ops[o] EXCEPT !.status = "dead"]
        BY <2>1, <3>1
      <4>3. ~ops[o].live /\ ops[o].attempts = MaxAttempts
        BY <3>1, <4>1, OperationsAssumption DEF Exhausted, OpRow
      <4>4. QED BY <4>1, <4>2, <4>3 DEF OpRow, OpStatus
    <3>2. CASE ~Exhausted(o) /\ o \in os
      BY <1>2, <2>1, <3>2, OperationsAssumption
         DEF OpsInv, OpsTypeOK, Claimable, OpRow, OpStatus
    <3>3. CASE ~Exhausted(o) /\ o \notin os
      BY <2>1, <3>3 DEF OpsInv, OpsTypeOK, NothingStranded, NeverTried
    <3>4. QED BY <3>1, <3>2, <3>3
  <2>3. QED BY <2>1, <2>2 DEF NothingStranded, NeverTried
<1>5. \A o \in OpIds : /\ ops'[o].attempts >= ops[o].attempts
                       /\ o \in os => ops'[o].attempts = ops[o].attempts + 1
  BY <1>1, <1>2, OperationsAssumption DEF OpsInv, OpsTypeOK, Claim, OpRow
<1>6. held' = [held EXCEPT ![w] = @ \cup {Taken(o) : o \in os}]
  BY <1>1 DEF Claim
<1>7. held' \in [Workers -> SUBSET ClaimToken]
  BY <1>3, <1>6 DEF OpsInv, OpsTypeOK
<1>8. TokenIssued'
  <2> SUFFICES ASSUME NEW v \in Workers, NEW c \in held'[v]
               PROVE  c.token <= ops'[c.op].attempts
    BY DEF TokenIssued
  <2>1. CASE c \in held[v]
    <3>1. c \in ClaimToken /\ c.token <= ops[c.op].attempts
      BY <2>1 DEF OpsInv, OpsTypeOK, TokenIssued
    <3>2. QED BY <1>4, <1>5, <3>1, OperationsAssumption DEF OpsInv, OpsTypeOK, OpRow, ClaimToken
  <2>2. CASE c \notin held[v]
    <3>1. PICK o \in os : c = Taken(o)
      BY <1>6, <2>2 DEF OpsInv, OpsTypeOK
    <3>2. QED BY <1>2, <1>4, <1>5, <3>1, OperationsAssumption DEF OpsInv, OpsTypeOK, OpRow
  <2>3. QED BY <2>1, <2>2
<1>9. QED BY <1>4, <1>7, <1>8 DEF OpsInv, OpsTypeOK

LEMMA OpsInvInductive == OpsInv /\ [OpsNext]_opsVars => OpsInv'
<1> SUFFICES ASSUME OpsInv, [OpsNext]_opsVars PROVE OpsInv'
  OBVIOUS
<1>1. CASE UNCHANGED opsVars
  BY <1>1 DEF opsVars, OpsInv, OpsTypeOK, NothingStranded, NeverTried, TokenIssued
<1>2. CASE \E o \in OpIds : Enqueue(o) \/ LeaseEnds(o)
  BY <1>2, EnqueueInv, LeaseEndsInv
<1>3. CASE \E w \in Workers : ClaimSome(w) \/ Settle(w) \/ Abandon(w)
  BY <1>3, ClaimInv, SettleInv, AbandonInv
<1>4. QED BY <1>1, <1>2, <1>3 DEF OpsNext

(* The strengthened invariant holds in every behaviour of the queue. *)
THEOREM OpsInvariant == OpsSpec => []OpsInv
<1>1. QED BY OpsInitInv, OpsInvInductive, PTL DEF OpsSpec

(* The table keeps to its columns' types and its check constraint: a lease *)
(* belongs to a claimed row.                                               *)
THEOREM OpsTypeCorrect == OpsSpec => []OpsTypeOK
<1>1. OpsInv => OpsTypeOK
  BY DEF OpsInv
<1>2. QED BY <1>1, OpsInvariant, PTL

(* claim and fail agree on max_attempts: a pending operation can still be  *)
(* claimed, a dead one has used every attempt.                             *)
THEOREM NothingStrandedAlways == OpsSpec => []NothingStranded
<1>1. OpsInv => NothingStranded
  BY DEF OpsInv
<1>2. QED BY <1>1, OpsInvariant, PTL

(* No statement of the queue moves a completed or a dead row. *)
THEOREM SettledIsFinalAlways == OpsSpec => SettledIsFinal
<1> DEFINE Final == \A o \in OpIds :
             ops[o].status \in {"completed", "dead"} => ops'[o].status = ops[o].status
<1>1. OpsInv /\ [OpsNext]_opsVars => [Final]_opsVars
  <2> SUFFICES ASSUME OpsInv, OpsNext PROVE Final
    BY DEF opsVars
  <2>1. CASE \E o \in OpIds : Enqueue(o) \/ LeaseEnds(o)
    BY <2>1 DEF Enqueue, Enqueued, LeaseEnds, OpsInv, OpsTypeOK, OpRow
  <2>2. ASSUME NEW w \in Workers, Settle(w) PROVE Final
    <3>1. PICK c \in held[w] : Complete(w, c) \/ Fail(w, c)
      BY <2>2 DEF Settle
    <3>2. c.op \in OpIds
      BY DEF OpsInv, OpsTypeOK, ClaimToken
    <3>3. QED BY <3>1, <3>2 DEF Complete, Fail, Failed, Current, OpsInv, OpsTypeOK, OpRow
  <2>3. ASSUME NEW w \in Workers, ClaimSome(w) PROVE Final
    BY <2>3 DEF ClaimSome, Claim, ClaimableOps, Claimable, Exhausted, OpsInv, OpsTypeOK, OpRow
  <2>4. ASSUME NEW w \in Workers, Abandon(w) PROVE Final
    BY <2>4 DEF Abandon
  <2>5. QED BY <2>1, <2>2, <2>3, <2>4 DEF OpsNext
<1>2. QED BY <1>1, OpsInvariant, PTL DEF OpsSpec, SettledIsFinal
=============================================================================
